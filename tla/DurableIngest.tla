--------------------------- MODULE DurableIngest ---------------------------
(***************************************************************************)
(* What the ingest path promises its callers, without Redis, JetStream or   *)
(* the reconciler: a request is answered 202 only for an alert the system   *)
(* holds, and an alert some 202 was given for is held from then on, unless  *)
(* the attempts to publish it were used up or the store failed it.          *)
(* IngestWal is the implementation.                                         *)
(***************************************************************************)
CONSTANTS Alerts, Requests, AlertOf

VARIABLES accepted,  \* the requests answered 202
          held,      \* the alerts the system can still triage or hand to an operator
          forfeited  \* the alerts the system may let go of

vars == <<accepted, held, forfeited>>

Init == accepted = {} /\ held = {} /\ forfeited = {}

\* The alerts the system owes someone.
Owed == {AlertOf[q] : q \in accepted} \ forfeited

Persist(a) == held' = held \union {a} /\ UNCHANGED <<accepted, forfeited>>

\* The last attempt fails, or only its answer is lost; or the store fails.
GiveUp(a) ==
    /\ forfeited' = forfeited \union {a}
    /\ held' \in {held, held \union {a}, held \ {a}}
    /\ UNCHANGED accepted

Discard(a) == a \notin Owed /\ held' = held \ {a} /\ UNCHANGED <<accepted, forfeited>>

\* The answer may come with a publish that was stored but not confirmed.
Accept(q) ==
    /\ AlertOf[q] \in held \union forfeited
    /\ accepted' = accepted \union {q}
    /\ held' \in {held, held \union {AlertOf[q]}}
    /\ UNCHANGED forfeited

Next ==
    \/ \E a \in Alerts : Persist(a) \/ GiveUp(a) \/ Discard(a)
    \/ \E q \in Requests : Accept(q)

Spec == Init /\ [][Next]_vars
=============================================================================
