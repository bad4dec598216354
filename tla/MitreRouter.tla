----------------------------- MODULE MitreRouter -----------------------------
(***************************************************************************)
(* Which tools an alert's techniques call for (services/mitre_router.py). A  *)
(* technique is the pair of its number and its sub-technique: T1003.001 is   *)
(* <<1003, 1>>, T1082 is <<1082, 0>>.                                        *)
(***************************************************************************)
EXTENDS Naturals, SeqOps, TLC

NoValue == "none"

\* RoutingEntry; parallel_burst, which nothing reads, is left out.
Entry(tools, hours) == [tools |-> tools, hours |-> hours, priority |-> NoValue]
Prioritised(entry, tool) == [entry EXCEPT !.priority = tool]

ProcessExecution == 72
AuthLogin == 336
LateralMovement == 48
C2Beaconing == 720
Persistence == 2160

Edr == "query_crowdstrike"
Siem == "query_splunk"
Intel == "lookup_threat_intel"
Cmdb == "query_cmdb"
Netflow == "query_netflow"
Dns == "query_dns_logs"
Aws == "query_aws"
Backup == "query_backup_systems"
Vulncheck == "lookup_vulncheck"

OnHost == Entry(<<Edr, Siem>>, ProcessExecution)

\* TECHNIQUE_TO_TOOLS, one definition per tactic.
CredentialAccess ==
    <<1003, 1>> :> Prioritised(Entry(<<Edr, Siem, Intel>>, ProcessExecution), Edr) @@
    <<1003, 2>> :> OnHost @@
    <<1003, 3>> :> Entry(<<Edr, Siem, Cmdb>>, ProcessExecution) @@
    <<1110, 1>> :> Entry(<<Siem, Cmdb>>, AuthLogin) @@
    <<1110, 3>> :> Entry(<<Siem, Cmdb, Intel>>, AuthLogin) @@
    <<1555, 0>> :> OnHost

CommandAndControl ==
    <<1071, 4>> :> Entry(<<Netflow, Dns, Intel>>, C2Beaconing) @@
    <<1071, 1>> :> Entry(<<Netflow, Intel, Siem>>, C2Beaconing) @@
    <<1573, 0>> :> Entry(<<Netflow, Intel>>, C2Beaconing) @@
    <<1095, 0>> :> Entry(<<Netflow, Intel>>, C2Beaconing)

LateralMovements ==
    <<1021, 1>> :> Entry(<<Netflow, Siem, Cmdb>>, LateralMovement) @@
    <<1021, 2>> :> Entry(<<Netflow, Siem, Edr>>, LateralMovement) @@
    <<1021, 6>> :> Entry(<<Siem, Edr>>, LateralMovement)

Persistences == [t \in {<<1053, 5>>, <<1547, 1>>, <<1543, 3>>} |-> Entry(<<Edr, Siem>>, Persistence)]

Impact ==
    <<1486, 0>> :> Prioritised(Entry(<<Edr, Siem, Backup>>, ProcessExecution), Edr) @@
    <<1490, 0>> :> Prioritised(Entry(<<Edr, Siem, Backup>>, ProcessExecution), Edr) @@
    <<1489, 0>> :> OnHost

PrivilegeEscalation ==
    <<1078, 4>> :> Entry(<<Aws, Siem, Intel>>, AuthLogin) @@
    <<1098, 0>> :> Entry(<<Siem, Aws, Cmdb>>, AuthLogin) @@
    <<1134, 0>> :> OnHost

Exfiltration ==
    <<1048, 0>> :> Entry(<<Netflow, Intel, Siem>>, C2Beaconing) @@
    <<1041, 0>> :> Entry(<<Netflow, Intel>>, C2Beaconing)

InitialAccess ==
    <<1190, 0>> :> Entry(<<Siem, Vulncheck, Intel, Cmdb>>, ProcessExecution) @@
    <<1203, 0>> :> Prioritised(Entry(<<Edr, Siem, Vulncheck>>, ProcessExecution), Edr) @@
    <<1210, 0>> :> Prioritised(Entry(<<Edr, Siem, Vulncheck, Netflow>>, LateralMovement), Edr) @@
    <<1211, 0>> :> Entry(<<Edr, Siem, Vulncheck>>, ProcessExecution)

Discovery ==
    <<1082, 0>> :> OnHost @@ <<1083, 0>> :> OnHost @@
    <<1046, 0>> :> Entry(<<Netflow, Siem>>, LateralMovement)

DefenseEvasion == [t \in {<<1055, 0>>, <<1562, 1>>, <<1070, 4>>} |-> OnHost]

Execution == [t \in {<<1059, 1>>, <<1059, 3>>} |-> OnHost]

TECHNIQUE_TO_TOOLS ==
    CredentialAccess @@ CommandAndControl @@ LateralMovements @@ Persistences @@ Impact @@
    PrivilegeEscalation @@ Exfiltration @@ InitialAccess @@ Discovery @@ DefenseEvasion @@ Execution

DEFAULT_ROUTING == Entry(<<Siem, Intel, Cmdb>>, ProcessExecution)

Tools == {Edr, Siem, Intel, Cmdb, Netflow, Dns, Aws, Backup, Vulncheck}

\* The table is well formed: a technique's priority tool is one of its tools.
ASSUME RoutingAssumption ==
    \A t \in DOMAIN TECHNIQUE_TO_TOOLS :
        /\ TECHNIQUE_TO_TOOLS[t].tools \in Seq(Tools)
        /\ TECHNIQUE_TO_TOOLS[t].priority \in Range(TECHNIQUE_TO_TOOLS[t].tools) \union {NoValue}

----------------------------------------------------------------------------

\* The technique itself, else the technique it is a part of, else the default.
get_routing(t) ==
    IF t \in DOMAIN TECHNIQUE_TO_TOOLS THEN TECHNIQUE_TO_TOOLS[t]
    ELSE IF <<t[1], 0>> \in DOMAIN TECHNIQUE_TO_TOOLS THEN TECHNIQUE_TO_TOOLS[<<t[1], 0>>]
    ELSE DEFAULT_ROUTING

\* get_tools_for_techniques: the priority tools of all of them, then all the others.
ToolsFor(ts) ==
    LET entries == [i \in DOMAIN ts |-> get_routing(ts[i])]
        priorities == [i \in DOMAIN ts |-> entries[i].priority]
    IN  Distinct(Only(priorities, Range(priorities) \ {NoValue})
                 \o FlattenSeq([i \in DOMAIN ts |-> entries[i].tools]))
=============================================================================
