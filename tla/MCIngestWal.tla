---------------------------- MODULE MCIngestWal ----------------------------
(* Instances of IngestWal for TLC.                                          *)
EXTENDS IngestWal, TLC

CONSTANTS a1, q1, q2, r1, r2

\* Two webhooks for one alert, and one.
OneAlert == {a1}
SameAlert == q1 :> a1 @@ q2 :> a1
SingleRequest == q1 :> a1
SameProcesses == Permutations({r1, r2})

\* Redis keeps what it is given; no lease runs out under its owner.
KeptFaults == {"redis", "broker", "lease", "crash"}
LeasedFaults == FaultKinds \ {"lease"}
=============================================================================
