--------------------------- MODULE AlertNormalizer ---------------------------
(* From a webhook's JSON to a NormalizedAlert: the unwrapping of envelopes,   *)
(* the recognition of the vendor, the vendor parsers and the OCSF slice built *)
(* from what they read (src/components/alert_normalizer.py, auto_ingest.py,   *)
(* detection_finding_builder.py).                                             *)
(*                                                                            *)
(* A payload is a chain of dictionaries, outermost first, each holding at     *)
(* most one nested dictionary: a layer is [child, marks, rest], the key of    *)
(* the next layer (NoKey in the last), the keys that detect_source looks for, *)
(* and whether it holds any other key.  The last layer is the one with the    *)
(* vendor's own fields: `facts` says which of them are present.  `core` is    *)
(* where the envelope ends and the vendor's own JSON begins.                  *)
EXTENDS Naturals, FiniteSets, SeqOps

CONSTANTS Payloads,     \* the payloads that are posted
          MaxUnwraps    \* the bound on the unwrapping loop, 6 in the code

ASSUME NormalizerAssumption == MaxUnwraps \in Nat

NoKey == "none"

\* What is posted: an envelope that has no vendor's marks, then one of the shapes in
\* which a vendor sends its own JSON, of one or two layers.
VendorShaped(p) ==
    LET own == p.layers[p.core]
        last == p.layers[Len(p.layers)]
        Flat(marks) == Len(p.layers) = p.core /\ own.marks = marks
        Nested(key, marks, inner) ==
            /\ Len(p.layers) = p.core + 1 /\ own.child = key
            /\ own.marks = marks /\ last.marks = inner
    IN  /\ p.core \in 1..Len(p.layers) /\ last.child = NoKey
        /\ \A j \in 1..p.core - 1 : p.layers[j].marks = {}
        /\ p.format = "crowdstrike" =>
              Flat({"DetectionId"}) \/ Nested("event", {}, {"DetectionId"})
        /\ p.format = "aws_guardduty" => Nested("detail", {"detail-type"}, {})
        /\ p.format = "splunk" =>
              \/ Flat({"search_name"}) \/ Nested("result", {"search_name"}, {})
              \/ Nested("result", {}, {})
        /\ p.format = "ocsf" => Flat({"class_uid"})
        /\ p.format = "sentinel" => Nested("properties", {}, {"incidentNumber"})
        /\ p.format = "generic" => Flat({})
        /\ p.format \in {"crowdstrike", "aws_guardduty", "splunk", "ocsf", "sentinel", "generic"}

\* Only facts that an observable can be made of, and severities that are not negative.
FieldsKnown(p) ==
    /\ p.facts \subseteq {"host", "account", "src", "dst", "user", "process", "sha256", "md5"}
    /\ p.severity.num \in Nat

ASSUME PayloadAssumption == \A p \in Payloads : VendorShaped(p) /\ FieldsKnown(p)

NoAlert == [source |-> "none"]

VARIABLES
    payload,    \* [layers, format, severity, facts, sameIp, ownId, product, core]
    entry,      \* "auto" for /ingest/auto, else the source of /ingest/{source}
    useLlm,     \* settings.auto_ingest_coerce_llm
    pc,         \* where the request is
    at,         \* the layer that is p of expand_auto_ingest_payload
    iterations, \* unwrapping steps so far
    alert       \* the NormalizedAlert

normalizerVars == <<payload, entry, useLlm, pc, at, iterations, alert>>

Layer(i) == payload.layers[i]
Innermost == Len(payload.layers)
Holds(i, key) == Layer(i).child = key
Marked(i, mark) == i <= Innermost /\ mark \in Layer(i).marks
Sole(i) == Layer(i).marks = {} /\ ~Layer(i).rest

------------------------------------------------------------------------------
(* Recognition *)

IsDetectionFinding(i) == Marked(i, "class_uid")

\* detect_source without the clause for a detection that is already at the top.
DetectEventOnly(i) ==
    IF IsDetectionFinding(i) THEN "generic"
    ELSE IF Holds(i, "event") /\ Marked(i + 1, "DetectionId") THEN "crowdstrike"
    ELSE IF Marked(i, "detail-type") THEN "aws_guardduty"
    ELSE IF Marked(i, "search_name") \/ Holds(i, "result") THEN "splunk"
    ELSE IF Holds(i, "properties") /\ Marked(i + 1, "incidentNumber") THEN "sentinel"
    ELSE "generic"

\* What layer i looks like; the first sign that fits decides.  A DetectionFinding
\* is generic here: only normalize_alert tells it apart.
DetectSource(i) ==
    IF IsDetectionFinding(i) THEN "generic"
    ELSE IF Holds(i, "event") /\ Marked(i + 1, "DetectionId") THEN "crowdstrike"
    ELSE IF Marked(i, "DetectionId") THEN "crowdstrike"
    ELSE IF Marked(i, "detail-type") THEN "aws_guardduty"
    ELSE IF Marked(i, "search_name") \/ Holds(i, "result") THEN "splunk"
    ELSE IF Holds(i, "properties") /\ Marked(i + 1, "incidentNumber") THEN "sentinel"
    ELSE "generic"

InnerKeys == {"data", "alert", "body", "payload", "properties", "resource"}
SoleKeys == {"alert", "data", "body", "payload", "event", "result", "resource"}

\* The inner dictionary is a finding, or a vendor's where the outer one is
\* nobody's or another vendor's.
InnerIsBetter(i) ==
    /\ Layer(i).child \in InnerKeys
    /\ \/ IsDetectionFinding(i + 1)
       \/ DetectSource(i + 1) \notin {"generic", DetectSource(i)}

SoleWrapper(i) == Sole(i) /\ Layer(i).child \in SoleKeys

NormalizerInit ==
    /\ payload \in Payloads
    /\ entry \in {"auto", IF payload.format = "ocsf" THEN "generic" ELSE payload.format}
    /\ useLlm \in BOOLEAN
    /\ pc = IF entry = "auto" THEN "records" ELSE "normalize"
    /\ at = 1
    /\ iterations = 0
    /\ alert = NoAlert

------------------------------------------------------------------------------
(* expand_auto_ingest_payload *)

\* p = records[0], once and only at the top.
FirstRecord ==
    /\ pc = "records"
    /\ at' = IF Holds(1, "records") THEN 2 ELSE 1
    /\ pc' = "expand"
    /\ UNCHANGED <<payload, entry, useLlm, iterations, alert>>

MayUnwrap == pc = "expand" /\ iterations < MaxUnwraps /\ ~IsDetectionFinding(at)

\* One pass of the loop that changes p.
Unwrap ==
    /\ MayUnwrap
    /\ InnerIsBetter(at) \/ SoleWrapper(at)
    /\ at' = at + 1
    /\ iterations' = iterations + 1
    /\ UNCHANGED <<payload, entry, useLlm, pc, alert>>

\* The loop ends; resolve_alert_for_auto_ingest asks the model about JSON that
\* is still generic, a DetectionFinding included.
Settle ==
    /\ pc = "expand"
    /\ ~(MayUnwrap /\ (InnerIsBetter(at) \/ SoleWrapper(at)))
    /\ pc' = IF DetectSource(at) = "generic" /\ useLlm THEN "coerce" ELSE "normalize"
    /\ UNCHANGED <<payload, entry, useLlm, at, iterations, alert>>

------------------------------------------------------------------------------
(* Severities *)

\* A raw severity is [word, num]: a word, or a number when the word is "".
SevOfWord == [informational |-> "LOW", low |-> "LOW", medium |-> "MEDIUM",
              high |-> "HIGH", critical |-> "CRITICAL"]
SevOfNum == <<"LOW", "LOW", "MEDIUM", "HIGH", "CRITICAL">>
OcsfSeverityToEnum == <<"LOW", "LOW", "MEDIUM", "HIGH", "CRITICAL", "CRITICAL">>
SeverityToOcsfId == [LOW |-> 2, MEDIUM |-> 3, HIGH |-> 4, CRITICAL |-> 5]
\* Every parser but GuardDuty's reads a missing severity as "medium".
Absent == [word |-> "absent", num |-> 0]

Lookup(map, k) == IF k \in DOMAIN map THEN map[k] ELSE "MEDIUM"

\* Splunk and CrowdStrike: words and the numbers 1 to 5.
WordOrNumber(raw) ==
    IF raw.word # "" THEN Lookup(SevOfWord, raw.word) ELSE Lookup(SevOfNum, raw.num)

GuarddutySeverity(raw) ==
    CASE raw.num >= 9 -> "CRITICAL"
      [] raw.num \in 7..8 -> "HIGH"
      [] raw.num \in 4..6 -> "MEDIUM"
      [] raw.num < 4 -> "LOW"

------------------------------------------------------------------------------
(* The DetectionFinding slice *)

ObservableType ==
    [host |-> "Hostname", account |-> "Cloud Account", src |-> "IPv4 Address",
     dst |-> "IPv4 Address", user |-> "User", process |-> "Process Name",
     sha256 |-> "SHA-256 Hash", md5 |-> "MD5 Hash"]
ObservableOrder == <<"host", "account", "src", "dst", "user", "process", "sha256", "md5">>

\* A fact's value is the fact itself, but for a connection of a host to itself.
Observable(f) ==
    <<ObservableType[f], IF f = "dst" /\ payload.sameIp THEN "src" ELSE f>>

Listed(facts) ==
    LET present == Only(ObservableOrder, facts)
    IN  [k \in 1..Len(present) |-> Observable(present[k])]

BuildDetectionFindingSlice(severity, facts) ==
    [severityId |-> SeverityToOcsfId[severity], observables |-> Distinct(Listed(facts))]

------------------------------------------------------------------------------
(* The parsers, applied to layer i.  Each reads the facts that it has a field *)
(* for and no others; id is what _stable_alert_id hashes, or <<"random">>.    *)

\* payload.get(key, payload): the layer a parser reads.
FieldLayer(i, key) == IF Holds(i, key) THEN i + 1 ELSE i
FactsIn(i) == IF i = Innermost THEN payload.facts ELSE {}
SeverityIn(i) == IF i = Innermost THEN payload.severity ELSE Absent
OwnIdIn(i) == i = Innermost /\ payload.ownId

NewAlert(source, id, severity, facts) ==
    [source |-> source, id |-> id, severity |-> severity,
     finding |-> BuildDetectionFindingSlice(severity, facts)]

\* Hashes belong to the process, which Splunk's parser makes only for a process
\* name.  The id falls back to the name of the search, which all its results share.
ParseSplunk(i) ==
    LET r == FieldLayer(i, "result")
        hashes == IF "process" \in FactsIn(r) THEN {"sha256", "md5"} ELSE {}
        id == IF OwnIdIn(r) THEN "own" ELSE IF Marked(r, "search_name") THEN "search_name" ELSE ""
    IN  NewAlert("splunk", <<"splunk", id>>, WordOrNumber(SeverityIn(r)),
                 FactsIn(r) \intersect ({"host", "src", "dst", "user", "process"} \union hashes))

\* The detection in layer e; the only address it has is the remote one, as dst.
CrowdstrikeDetection(e) ==
    NewAlert("crowdstrike", <<"crowdstrike", IF Marked(e, "DetectionId") THEN "own" ELSE "">>,
             WordOrNumber(SeverityIn(e)),
             FactsIn(e) \intersect {"host", "dst", "user", "process", "sha256", "md5"})

\* The parser without its default: only what is under the key "event" is read.
CrowdstrikeEventOnly(i) == CrowdstrikeDetection(i + 1)

ParseCrowdstrike(i) == CrowdstrikeDetection(FieldLayer(i, "event"))

\* float() of a severity that is a word raises; without one it is 5.0.
GuarddutyRaises(i) == LET raw == SeverityIn(FieldLayer(i, "detail"))
                      IN  raw # Absent /\ raw.word # ""

\* No user, process, hash or destination is read.
ParseGuardduty(i) ==
    LET d == FieldLayer(i, "detail")
        raw == SeverityIn(d)
    IN  NewAlert("aws_guardduty", <<"guardduty", IF OwnIdIn(d) THEN "own" ELSE "">>,
                 IF raw = Absent THEN "MEDIUM" ELSE GuarddutySeverity(raw),
                 FactsIn(d) \intersect {"host", "account", "src"})

\* str() makes a number a word the table does not have.
ParseGeneric(i) ==
    NewAlert("generic", <<"random">>, Lookup(SevOfWord, SeverityIn(i).word),
             FactsIn(i) \intersect {"host"})

\* A ready-made finding keeps its observables and its severity id as they came,
\* and its source is the vendor that product_uid names.
ParseOcsf(i) ==
    LET sev == SeverityIn(i)
        isInt == sev.word = ""
    IN  [source |-> payload.product,
         id |-> <<"ocsf2004", IF OwnIdIn(i) THEN "own" ELSE "content">>,
         severity |-> IF isInt THEN Lookup(OcsfSeverityToEnum, sev.num) ELSE "MEDIUM",
         finding |-> [severityId |-> IF isInt THEN sev.num ELSE 0,
                      observables |-> Listed(FactsIn(i))]]

\* _PARSERS.get(source, _parse_generic), after the test for a DetectionFinding.
Parsed(parser, i) ==
    CASE parser = "ocsf" -> ParseOcsf(i)
      [] parser = "splunk" -> ParseSplunk(i)
      [] parser = "crowdstrike" -> ParseCrowdstrike(i)
      [] parser = "aws_guardduty" -> ParseGuardduty(i)
      [] OTHER -> ParseGeneric(i)

------------------------------------------------------------------------------
(* resolve_alert_for_auto_ingest and normalize_alert *)

Source == IF entry = "auto" THEN DetectSource(at) ELSE entry
Parser == IF IsDetectionFinding(at) THEN "ocsf" ELSE Source

NormalizeAlert ==
    /\ pc = "normalize"
    /\ ~(Parser = "aws_guardduty" /\ GuarddutyRaises(at))
    /\ alert' = Parsed(Parser, at)
    /\ pc' = "done"
    /\ UNCHANGED <<payload, entry, useLlm, at, iterations>>

\* The endpoint answers 422.
Refuse ==
    /\ pc = "normalize"
    /\ Parser = "aws_guardduty" /\ GuarddutyRaises(at)
    /\ pc' = "refused"
    /\ UNCHANGED <<payload, entry, useLlm, at, iterations, alert>>

\* The model's flat view, parsed as a generic alert: a severity word of its
\* choice and, if it found one, the host.
Coerce ==
    /\ pc = "coerce"
    /\ \E word \in {"low", "medium", "high", "critical"}, host \in SUBSET {"host"} :
          alert' = NewAlert("generic", <<"random">>, SevOfWord[word], host)
    /\ pc' = "coerced"
    /\ UNCHANGED <<payload, entry, useLlm, at, iterations>>

\* Neither model is configured, or both fail: None.
CoerceFails ==
    /\ pc = "coerce"
    /\ pc' = "normalize"
    /\ UNCHANGED <<payload, entry, useLlm, at, iterations, alert>>

NormalizerNext ==
    \/ FirstRecord \/ Unwrap \/ Settle
    \/ NormalizeAlert \/ Refuse \/ Coerce \/ CoerceFails

NormalizerSpec == NormalizerInit /\ [][NormalizerNext]_normalizerVars

------------------------------------------------------------------------------
(* Properties *)

\* Layer r is within reach: every envelope around it is records[0] at the top, a
\* wrapper with nothing else in it, or holds r itself under a key that is looked
\* into; and there are no more of them than the loop has passes.
WithinReach(r) ==
    /\ \A j \in 1..r - 1 :
          \/ j = 1 /\ Holds(1, "records")
          \/ SoleWrapper(j)
          \/ j = r - 1 /\ Layer(j).child \in InnerKeys
    /\ r - 1 <= MaxUnwraps + (IF Holds(1, "records") THEN 1 ELSE 0)

\* {"result": {...}} with nothing beside it is taken for a wrapper.
LooksLikeWrapper(r) == Sole(r) /\ Holds(r, "result")

Vendors == {"splunk", "crowdstrike", "aws_guardduty", "ocsf"}
StableId(vendor) ==
    <<CASE vendor = "aws_guardduty" -> "guardduty" [] vendor = "ocsf" -> "ocsf2004"
        [] OTHER -> vendor, "own">>

\* A vendor's alert, posted in a wrapping that the expansion is written for.
Recognisable ==
    /\ entry = "auto" /\ payload.format \in Vendors
    /\ WithinReach(payload.core) /\ ~LooksLikeWrapper(payload.core)

Answered == pc \in {"done", "coerced"}

\* The model rewrote a ready-made finding: detect_source calls it generic.
Rewritten == pc = "coerced" /\ payload.format = "ocsf"

\* What the vendor's own parser makes of the vendor's own JSON, as posted to the
\* vendor's endpoint with nothing around it.
OwnAlert == Parsed(payload.format, payload.core)

\* However a webhook wraps a vendor's alert, if the wrapping is one the expansion
\* is written for, the vendor is recognised, the alert is never handed to the model
\* to rewrite, and it gets the id that its own identifier determines: the same
\* detection posted in two envelopes is one alert. The exception is a ready-made OCSF
\* finding: docs/api-reference.md lists it as detected, but detect_source calls it
\* generic, and the model's rewriting has an id of its own (README, section 5) (alert_normalizer.py expand_auto_ingest_payload,
\* detect_source, _stable_alert_id; auto_ingest.py resolve_alert_for_auto_ingest).
InnerVendorWins ==
    Answered /\ Recognisable /\ payload.ownId /\ ~Rewritten
        => alert.id = StableId(payload.format)

\* An envelope costs nothing of the alert: severity, indicators and id are those the
\* vendor's own endpoint makes of the same JSON without its envelope, also where the
\* expansion goes further than the envelope and takes CrowdStrike's event apart
\* (alert_normalizer.py expand_auto_ingest_payload with the payload.get(key, payload)
\* of the parsers).
EnvelopeIsTransparent ==
    Answered /\ Recognisable /\ ~Rewritten => alert = OwnAlert

==============================================================================
