--------------------------- MODULE EntityExtractor ---------------------------
(***************************************************************************)
(* What is read out of an alert (components/entity_extractor.py) and asked    *)
(* of the tools about it (the builders of agents/enrichment_node.py). Of an   *)
(* alert's title and description only what the regular expressions find is    *)
(* kept: its techniques in order, the sets of its addresses and hashes, and   *)
(* the CVE it names first. Processes and the summary, which no tool is asked  *)
(* about, are left out.                                                       *)
(***************************************************************************)
EXTENDS MitreRouter

CONSTANTS
    PrivatePrefixed,   \* addresses that begin with 10., 192.168. or 172.
    NamesCve,          \* values with a CVE number in them
    ModelAnswers       \* entities a language model may answer; {} where none is configured

ASSUME ExtractorAssumption == \A e \in ModelAnswers : e.techniques \in Seq(Nat \X Nat)

NoTechnique == <<0, 0>>
Declared(a) == IF a.mitre = NoTechnique THEN <<>> ELSE <<a.mitre>>
IfAny(value) == IF value = NoValue THEN <<>> ELSE <<value>>

Ioc(type, value) == [type |-> type, value |-> value]

\* The types of observable that are indicators; users, accounts, assets and process
\* names are not.
IocType == [Hostname |-> "domain", IPv4 |-> "ip", SHA256 |-> "hash_sha256", MD5 |-> "hash_md5",
            URL |-> "url"]

FromObservables(a) ==
    LET indicators == SelectSeq(a.observables, LAMBDA o : o.type \in DOMAIN IocType)
    IN  [i \in DOMAIN indicators |-> Ioc(IocType[indicators[i].type], indicators[i].value)]

\* _heuristic_extract. Addresses and hashes of the text come in the order of a Python
\* set of strings, which differs from one process to the next.
Heuristic(a, ips, hashes) ==
    [hosts |-> IfAny(a.host), users |-> IfAny(a.user),
     techniques |-> Distinct(Declared(a) \o a.text.techniques),
     iocs |-> [i \in DOMAIN ips |-> Ioc("ip", ips[i])]
                 \o [i \in DOMAIN hashes |-> Ioc("hash_sha256", hashes[i])]
                 \o FromObservables(a)]

HeuristicExtract(a) ==
    {Heuristic(a, ips, hashes) :
        ips \in SetToSeqs(a.text.ips \ PrivatePrefixed), hashes \in SetToSeqs(a.text.hashes)}

\* extract_entities: what Ollama answers; if it fails or is not configured, what OpenAI
\* answers; if that fails too, the heuristic. A model that answers without a structured
\* result gives None, which the node reads outside its try: the run raises before there is
\* a burst (Crash of TriagePipeline), so there is no such input here.
ExtractEntities(a) == ModelAnswers \union HeuristicExtract(a)

\* Mutant: the technique that the source declares is left to the model to repeat.
TechniquesFound(a, e) == IF e.techniques = <<>> THEN <<<<1082, 0>>>> ELSE e.techniques

\* The techniques the node hands on: the declared one first, unless it is among the others.
TechniqueIds(a, e) ==
    LET ids == IF a.mitre \in Range(e.techniques) THEN e.techniques
               ELSE Declared(a) \o e.techniques
    IN  IF ids = <<>> THEN <<<<1082, 0>>>> ELSE ids

\* What the builders read of an alert and its entities.
FirstOr(seq, default) == IF seq = <<>> THEN default ELSE Head(seq)
Facts(a, e) ==
    [host |-> FirstOr(e.hosts, a.host), user |-> FirstOr(e.users, NoValue),
     src |-> a.src, dst |-> a.dst, iocs |-> e.iocs, cve |-> a.text.cve]

----------------------------------------------------------------------------
(* The parameters of a tool, from facts f and the first technique t: the kind *)
(* of query and what it is about, or NoParams.                                *)

Query(kind, about, hours) == [kind |-> kind, about |-> about, hours |-> hours]
NoParams == Query(NoValue, <<>>, 0)

SplunkParams(f, t) ==
    LET hours == get_routing(t).hours IN
    CASE t[1] = 1110            -> Query("auth_events_by_user", <<f.user>>, hours)
      [] t[1] \in {1486, 1490}  -> Query("shadow_copy_deletion", <<>>, hours)
      [] t[1] = 1053            -> Query("scheduled_tasks", <<f.host>>, hours)
      [] t[1] = 1071            -> Query("dns_tunneling", <<f.host>>, hours)
      [] OTHER                  -> Query("process_by_host", <<f.host>>, hours)

CrowdstrikeParams(f, t) == Query("detections_by_host", <<f.host>>, get_routing(t).hours)

\* The first indicator that is a hash or an address; else the destination; else none.
ThreatIntelParams(f, t) ==
    LET usable == SelectSeq(f.iocs, LAMBDA i : i.type \in {"hash_sha256", "ip"}) IN
    IF usable # <<>> THEN Query(Head(usable).type, <<Head(usable).value>>, 0)
    ELSE IF f.dst # NoValue THEN Query("ip", <<f.dst>>, 0) ELSE NoParams

NetflowParams(f, t) ==
    LET hours == get_routing(t).hours IN
    CASE t = <<1071, 4>>        -> Query("dns_entropy_analysis", <<f.src, f.host>>, hours)
      [] t[1] \in {1573, 1095}  -> Query("beacon_detection", <<f.src>>, hours)
      [] OTHER                  -> Query("top_talkers", <<f.src>>, hours)

AwsParams(f, t) == Query("cloudtrail_by_user", <<f.user>>, get_routing(t).hours)

CmdbParams(f, t) ==
    IF f.host # NoValue THEN Query("by_hostname", <<f.host>>, 0)
    ELSE IF f.dst # NoValue THEN Query("by_ip", <<f.dst>>, 0)
    ELSE Query("by_hostname", <<"unknown">>, 0)

BackupParams(f, t) == Query("shadow_copy_status", <<f.host>>, 0)

\* The first indicator that names a CVE, whatever its type; else the text; else none.
VulncheckParams(f, t) ==
    LET naming == SelectSeq(f.iocs, LAMBDA i : i.value \in NamesCve) IN
    IF naming # <<>> THEN Query("cve", <<Head(naming).value>>, 0)
    ELSE IF f.cve # NoValue THEN Query("cve", <<f.cve>>, 0) ELSE NoParams

\* _PARAM_BUILDERS
Params(tool, f, t) ==
    CASE tool = Siem           -> SplunkParams(f, t)
      [] tool = Edr            -> CrowdstrikeParams(f, t)
      [] tool = Intel          -> ThreatIntelParams(f, t)
      [] tool = Aws            -> AwsParams(f, t)
      [] tool = Cmdb           -> CmdbParams(f, t)
      [] tool \in {Netflow, Dns} -> NetflowParams(f, t)
      [] tool = Backup         -> BackupParams(f, t)
      [] tool = Vulncheck      -> VulncheckParams(f, t)
=============================================================================
