---------------------------- MODULE MCTriageApi ----------------------------
(* Instances of TriageApi for TLC.                                          *)
EXTENDS TriageApi, TLC

CONSTANTS a1, q1, q2, q3

\* A batch with an alert twice and a row that is none; the alert again, by itself; and a
\* payload that does not normalise.
Overlapping == q1 :> <<a1, Bad, a1>> @@ q2 :> <<a1>> @@ q3 :> <<Bad>>
=============================================================================
