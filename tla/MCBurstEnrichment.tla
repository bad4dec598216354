------------------------- MODULE MCBurstEnrichment -------------------------
(* Instances of BurstEnrichment for TLC.                                     *)
EXTENDS BurstEnrichment

CONSTANTS b1, b2

Text(ts, ips, cve) == [techniques |-> ts, ips |-> ips, hashes |-> {}, cve |-> cve]

\* An alert about which much is known, and one about which nothing is; the technique its
\* source declares and those that its text mentions.
Known(t, ts) ==
    [host |-> "h", user |-> "u", src |-> "s", dst |-> "d", mitre |-> t,
     text |-> Text(ts, {"s", "x", "y"}, "CVE-1"),
     observables |-> <<[type |-> "Hostname", value |-> "h"], [type |-> "IPv4", value |-> "s"],
                       [type |-> "User", value |-> "u"], [type |-> "SHA256", value |-> "f"],
                       [type |-> "URL", value |-> "CVE-2"]>>]
Bare(t, ts) ==
    [host |-> NoValue, user |-> NoValue, src |-> NoValue, dst |-> NoValue, mitre |-> t,
     text |-> Text(ts, {}, NoValue), observables |-> <<>>]

\* A model that finds what the text did not say, and one that finds nothing.
AllAnswers ==
    {[hosts |-> <<>>, users |-> <<"v">>, techniques |-> ts, iocs |-> <<Ioc("url", "CVE-2")>>] :
        ts \in {<<>>, <<<<1190, 0>>, <<1003, 1>>, <<1190, 0>>>>}}

\* Every technique of the table, and some that are routed by their parent or by default.
Techniques == DOMAIN TECHNIQUE_TO_TOOLS \union {NoTechnique, <<1486, 1>>, <<1003, 0>>, <<9999, 0>>}

\* Two bursts that are run to their end, about the same or about related alerts; of the
\* others only the plan is checked.
AllAlerts ==
    {b1 :> Known(<<1573, 0>>, <<>>) @@ b2 :> a : a \in {Known(<<1573, 0>>, <<>>), Bare(<<1095, 0>>, <<>>)}}
    \union {b1 :> Known(t, <<u>>) @@ b2 :> Bare(t, <<>>) : t, u \in Techniques \ {NoTechnique}}
    \union {b1 :> Bare(t, <<>>) @@ b2 :> Bare(t, <<>>) : t \in Techniques}

\* The heuristic found the entities, and came upon x first.
RunToTheEnd ==
    /\ input[b1].alert = Known(<<1573, 0>>, <<>>)
    /\ \A b \in Bursts :
          /\ input[b].entities \notin ModelAnswers
          /\ input[b].facts.iocs # <<>> => input[b].facts.iocs[1].value = "x"
=============================================================================
