-------------------------- MODULE MCAlertNormalizer --------------------------
(* Instances of AlertNormalizer for TLC.                                      *)
EXTENDS AlertNormalizer

Inner(key, marks) == [child |-> key, marks |-> marks, rest |-> TRUE]
Wrapper(key) == [child |-> key, marks |-> {}, rest |-> FALSE]

\* The vendors' shapes: the format and its layers.
Shapes ==
    {<<"crowdstrike", <<Inner("event", {}), Inner(NoKey, {"DetectionId"})>>>>,
     <<"crowdstrike", <<Wrapper("event"), Inner(NoKey, {"DetectionId"})>>>>,
     <<"crowdstrike", <<Inner(NoKey, {"DetectionId"})>>>>,
     <<"aws_guardduty", <<Inner("detail", {"detail-type"}), Inner(NoKey, {})>>>>,
     <<"splunk", <<Inner("result", {"search_name"}), Inner(NoKey, {})>>>>,
     <<"splunk", <<Inner(NoKey, {"search_name"})>>>>,
     <<"splunk", <<Wrapper("result"), Inner(NoKey, {})>>>>,
     <<"sentinel", <<Inner("properties", {}), Inner(NoKey, {"incidentNumber"})>>>>,
     <<"ocsf", <<Inner(NoKey, {"class_uid"})>>>>,
     <<"generic", <<Inner(NoKey, {})>>>>}

Facts == DOMAIN ObservableType

High(format) == IF format \in {"aws_guardduty", "ocsf"}
                  THEN [word |-> "", num |-> 7] ELSE [word |-> "high", num |-> 0]
Severities == {Absent} \union {[word |-> w, num |-> 0] : w \in DOMAIN SevOfWord \union {"unknown"}}
                       \union {[word |-> "", num |-> n] : n \in 0..10}

Posted(envelope, shape, severity, facts, sameIp, ownId) ==
    [layers |-> envelope \o shape[2], format |-> shape[1], severity |-> severity, facts |-> facts,
     sameIp |-> sameIp, ownId |-> ownId, product |-> "splunk", core |-> Len(envelope) + 1]

\* Envelopes: every one of up to two layers, and wrappers in wrappers to beyond the bound.
EnvelopeKeys == InnerKeys \union SoleKeys \union {"records", "incident"}
EnvelopeLayers == {Inner(k, {}) : k \in EnvelopeKeys} \union {Wrapper(k) : k \in EnvelopeKeys}
Envelopes ==
    {<<>>} \union {<<e>> : e \in EnvelopeLayers} \union (EnvelopeLayers \X EnvelopeLayers)
    \union {[j \in 1..n |-> Wrapper(k)] : n \in 3..MaxUnwraps + 2, k \in {"data", "event"}}
    \union {[j \in 1..n |-> Wrapper(IF j = 1 THEN "records" ELSE "body")] : n \in 3..MaxUnwraps + 2}

\* Every envelope around a full alert, and every alert without an envelope and in a
\* wrapper.
Plain == {<<>>, <<Wrapper("alert")>>}
AllPayloads ==
    {Posted(e, s, High(s[1]), Facts, FALSE, own) : e \in Envelopes, s \in Shapes, own \in BOOLEAN}
    \union {Posted(e, s, v, Facts, FALSE, TRUE) : e \in Plain, s \in Shapes, v \in Severities}
    \union {Posted(e, s, High(s[1]), f, same, TRUE) :
                e \in Plain, s \in Shapes, f \in SUBSET Facts, same \in BOOLEAN}
==============================================================================
