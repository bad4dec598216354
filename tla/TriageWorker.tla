---------------------------- MODULE TriageWorker ----------------------------
(***************************************************************************)
(* The triage workers: pull consumers of the ALERTS work queue              *)
(* (services/_runtime/triage_worker.py). Each process fetches messages,     *)
(* waits for its semaphore, starts one task per message and acknowledges,   *)
(* rejects or terminates the message by the task's outcome; JetStream hands *)
(* a message out again when its ack_wait runs out or it is rejected, at     *)
(* most MaxDeliver times in all.                                            *)
(*                                                                          *)
(* A delivery is a message with the number of its delivery. One action per  *)
(* await of the run loop and of a task. run_triage as a whole (modelled in  *)
(* TriagePipeline) is one step here, and time is abstract: ack_wait may run *)
(* out at any step.                                                         *)
(***************************************************************************)
EXTENDS Naturals, FiniteSets

CONSTANTS
    Messages,     \* the messages of the ALERTS stream, one per alert
    Workers,      \* worker processes
    NoWorker,
    MaxInflight,  \* WorkerConfig.max_inflight
    PullBatch,    \* WorkerConfig.pull_batch
    MaxDeliver,   \* WorkerConfig.max_deliveries
    Stoppable,    \* the workers that may be told to stop
    Kinds,        \* the kinds of message that occur
    Faults,       \* the kinds of fault that may happen
    MaxFaults     \* how many of them (a bound for TLC)

\* good: verifies and parses; unsigned: no X-Service-Auth header, as
\* enqueue_via_nats and the reconciler publish; rejected: verify raises
\* JWTError; poison: not a NormalizedAlert.
MessageKinds == {"good", "unsigned", "rejected", "poison"}

\* triage: run_triage or get_checkpointer raises; redis: the flag cannot be read;
\* settle: an ack, nak or term is lost;           fetch: a fetch fails on the way;
\* crash: a process dies and is started again.
FaultKinds == {"triage", "redis", "settle", "fetch", "crash"}

ASSUME MessagesAssumption == IsFiniteSet(Messages)
ASSUME WorkerAssumption == NoWorker \notin Workers /\ Stoppable \subseteq Workers
ASSUME LimitAssumption ==
    MaxInflight \in Nat \ {0} /\ PullBatch \in Nat \ {0} /\ MaxDeliver \in Nat \ {0}
ASSUME KindAssumption == Kinds \subseteq MessageKinds
ASSUME FaultsAssumption == Faults \subseteq FaultKinds /\ MaxFaults \in Nat

VARIABLES
    kind,         \* of each message, fixed by its publisher
    \* JetStream
    stream,       \* the messages in the work queue
    delivered,    \* how often each was handed out
    outstanding,  \* handed out, and ack_wait still runs
    \* Redis
    flagged,      \* the messages whose alert has a cancelled flag
    \* the worker processes
    loop,         \* where run() is
    stop,         \* the workers whose _stop event is set
    sem,          \* permits left in the semaphore
    task,         \* where the task of each delivery is; held: fetched, no task yet
    owner,        \* the worker that has the delivery
    \* bookkeeping of the model
    finished,     \* the messages for which handle_message returned
    faults

queue   == <<stream, delivered, outstanding>>
process == <<loop, stop, sem>>
tasks   == <<task, owner>>
vars    == <<kind, queue, flagged, process, tasks, finished, faults>>

Deliveries == Messages \X (1..MaxDeliver)
Loops == {"start", "fetch", "dispatch", "drain", "stopped"}
Tasks == {"none", "held", "verify", "check", "triage", "ack", "nak", "term"}

\* The deliveries a worker has; those it has started a task for; those it has not.
Has(w) == {d \in Deliveries : owner[d] = w}
Inflight(w) == {d \in Has(w) : task[d] # "held"}
Waiting(w) == {d \in Has(w) : task[d] = "held"}

\* Some worker is busy with the message.
InHand(m) == \E n \in 1..MaxDeliver : task[<<m, n>>] # "none"

Init ==
    /\ kind \in [Messages -> Kinds]
    /\ stream = Messages
    /\ delivered = [m \in Messages |-> 0]
    /\ outstanding = {}
    /\ flagged = {}
    /\ loop = [w \in Workers |-> "start"]
    /\ stop = {}
    /\ sem = [w \in Workers |-> MaxInflight]
    /\ task = [d \in Deliveries |-> "none"]
    /\ owner = [d \in Deliveries |-> NoWorker]
    /\ finished = {}
    /\ faults = 0

Fault(f) ==
    /\ f \in Faults
    /\ faults < MaxFaults
    /\ faults' = faults + 1

NoFault == UNCHANGED faults

----------------------------------------------------------------------------
(* run(): the loop of one process.                                          *)

At(w, label) == loop' = [loop EXCEPT ![w] = label]

\* connect and pull_subscribe; a worker without a subscription gives up (here,
\* one that may stop).
Start(w) ==
    /\ loop[w] = "start"
    /\ At(w, "fetch") \/ (w \in Stoppable /\ At(w, "stopped"))
    /\ UNCHANGED <<kind, queue, flagged, stop, sem, tasks, finished, faults>>

\* What JetStream has to hand out: not outstanding, deliveries left.
Available == {m \in stream \ outstanding : delivered[m] < MaxDeliver}

HandOut(ms) ==
    /\ delivered' = [m \in Messages |-> IF m \in ms THEN delivered[m] + 1 ELSE delivered[m]]
    /\ outstanding' = outstanding \union ms
    /\ UNCHANGED stream

IsNext(d, ms) == d[1] \in ms /\ d[2] = delivered[d[1]] + 1

\* sub.fetch returns a batch. Permits are not looked at.
Fetch(w, ms) ==
    /\ loop[w] = "fetch"
    /\ w \notin stop
    /\ ms # {} /\ Cardinality(ms) <= PullBatch
    /\ HandOut(ms)
    /\ task' = [d \in Deliveries |-> IF IsNext(d, ms) THEN "held" ELSE task[d]]
    /\ owner' = [d \in Deliveries |-> IF IsNext(d, ms) THEN w ELSE owner[d]]
    /\ At(w, "dispatch")
    /\ UNCHANGED <<kind, flagged, stop, sem, finished, faults>>

\* sub.fetch raises after the server has sent the batch.
FetchFails(w, ms) ==
    /\ loop[w] = "fetch"
    /\ w \notin stop
    /\ ms # {} /\ Cardinality(ms) <= PullBatch
    /\ Fault("fetch")
    /\ HandOut(ms)
    /\ UNCHANGED <<kind, flagged, process, tasks, finished>>

\* sem.acquire() returns, and _dispatch_one becomes a task.
Dispatch(w, d) ==
    /\ loop[w] = "dispatch"
    /\ d \in Waiting(w)
    /\ sem[w] > 0
    /\ sem' = [sem EXCEPT ![w] = @ - 1]
    /\ task' = [task EXCEPT ![d] = "verify"]
    /\ UNCHANGED <<kind, queue, flagged, loop, stop, owner, finished, faults>>

BatchDone(w) ==
    /\ loop[w] = "dispatch"
    /\ Waiting(w) = {}
    /\ At(w, "fetch")
    /\ UNCHANGED <<kind, queue, flagged, stop, sem, tasks, finished, faults>>

\* The stop event ends the loop, at its head only.
LoopEnds(w) ==
    /\ loop[w] = "fetch"
    /\ w \in stop
    /\ At(w, "drain")
    /\ UNCHANGED <<kind, queue, flagged, stop, sem, tasks, finished, faults>>

\* Mutant: run() returns without waiting for its tasks.
DrainedAtOnce(w) ==
    /\ loop[w] = "drain"
    /\ At(w, "stopped")
    /\ UNCHANGED <<kind, queue, flagged, stop, sem, tasks, finished, faults>>

\* _drain_inflight gathers the tasks, then the connection is closed.
Drained(w) ==
    /\ loop[w] = "drain"
    /\ Inflight(w) = {}
    /\ At(w, "stopped")
    /\ UNCHANGED <<kind, queue, flagged, stop, sem, tasks, finished, faults>>

Loop(w) ==
    \/ Start(w) \/ BatchDone(w) \/ LoopEnds(w) \/ Drained(w)
    \/ \E ms \in SUBSET Available : Fetch(w, ms)
    \/ \E d \in Deliveries : Dispatch(w, d)

----------------------------------------------------------------------------
(* _dispatch_one and handle_message: the task of one delivery.              *)

Goto(d, label) == task' = [task EXCEPT ![d] = label]

\* The header, jwt_service.verify and _parse_alert; then the "queued" event.
Verify(d) ==
    /\ task[d] = "verify"
    /\ \/ kind[d[1]] = "good" /\ Goto(d, "check")
       \/ kind[d[1]] \in MessageKinds \ {"good"} /\ Goto(d, "term")
    /\ UNCHANGED <<kind, queue, flagged, process, owner, finished, faults>>

\* is_cancelled, False if Redis cannot be read: a cancelled alert is done here.
Check(d) ==
    /\ task[d] = "check"
    /\ \/ /\ d[1] \in flagged /\ NoFault
          /\ finished' = finished \union {d[1]}
          /\ Goto(d, "ack")
       \/ /\ d[1] \notin flagged /\ NoFault
          /\ Goto(d, "triage")
          /\ UNCHANGED finished
       \/ /\ d[1] \in flagged /\ Fault("redis")
          /\ Goto(d, "triage")
          /\ UNCHANGED finished
    /\ UNCHANGED <<kind, queue, flagged, process, owner>>

\* Mutant: an error in the pipeline is logged and the message acked.
TriageSwallows(d) ==
    /\ task[d] = "triage"
    /\ \/ NoFault /\ finished' = finished \union {d[1]}
       \/ Fault("triage") /\ UNCHANGED finished
    /\ Goto(d, "ack")
    /\ UNCHANGED <<kind, queue, flagged, process, owner>>

\* get_checkpointer and run_triage, up to the "done" or the "failed" event.
Triage(d) ==
    /\ task[d] = "triage"
    /\ \/ NoFault /\ finished' = finished \union {d[1]} /\ Goto(d, "ack")
       \/ Fault("triage") /\ UNCHANGED finished /\ Goto(d, "nak")
    /\ UNCHANGED <<kind, queue, flagged, process, owner>>

\* Mutant: the finished task stays in _inflight.
ReleaseKeepsTask(d) ==
    /\ sem' = [sem EXCEPT ![owner[d]] = @ + 1]
    /\ task' = [task EXCEPT ![d] = "none"]
    /\ UNCHANGED owner

\* The finally of _dispatch_one: one permit back, and the task is gone.
Release(d) ==
    /\ sem' = [sem EXCEPT ![owner[d]] = @ + 1]
    /\ task' = [task EXCEPT ![d] = "none"]
    /\ owner' = [owner EXCEPT ![d] = NoWorker]

\* _safe_ack: JetStream removes the message, whichever delivery is acked. A lost
\* ack is only logged.
Ack(d) ==
    /\ task[d] = "ack"
    /\ \/ NoFault /\ stream' = stream \ {d[1]} /\ outstanding' = outstanding \ {d[1]}
       \/ Fault("settle") /\ UNCHANGED <<stream, outstanding>>
    /\ Release(d)
    /\ UNCHANGED <<kind, delivered, flagged, loop, stop, finished>>

\* Mutant: the permit is not given back after a failed run.
NakKeepsPermit(d) ==
    /\ task[d] = "nak"
    /\ NoFault /\ outstanding' = outstanding \ {d[1]}
    /\ task' = [task EXCEPT ![d] = "none"]
    /\ owner' = [owner EXCEPT ![d] = NoWorker]
    /\ UNCHANGED <<kind, stream, delivered, flagged, process, finished>>

\* _safe_nak: the message can be handed out again at once.
Nak(d) ==
    /\ task[d] = "nak"
    /\ \/ NoFault /\ outstanding' = outstanding \ {d[1]}
       \/ Fault("settle") /\ UNCHANGED outstanding
    /\ Release(d)
    /\ UNCHANGED <<kind, stream, delivered, flagged, loop, stop, finished>>

\* Mutants: the early return for a poison pill gives no permit back; or it leaves
\* the message unsettled.
TermKeepsPermit(d) ==
    /\ task[d] = "term"
    /\ NoFault /\ stream' = stream \ {d[1]} /\ outstanding' = outstanding \ {d[1]}
    /\ task' = [task EXCEPT ![d] = "none"]
    /\ owner' = [owner EXCEPT ![d] = NoWorker]
    /\ UNCHANGED <<kind, delivered, flagged, process, finished>>

TermForgotten(d) ==
    /\ task[d] = "term"
    /\ NoFault
    /\ Release(d)
    /\ UNCHANGED <<kind, queue, flagged, loop, stop, finished>>

\* _safe_term: the message is never handed out again.
Term(d) ==
    /\ task[d] = "term"
    /\ \/ NoFault /\ stream' = stream \ {d[1]} /\ outstanding' = outstanding \ {d[1]}
       \/ Fault("settle") /\ UNCHANGED <<stream, outstanding>>
    /\ Release(d)
    /\ UNCHANGED <<kind, delivered, flagged, loop, stop, finished>>

Handle(d) == Verify(d) \/ Check(d) \/ Triage(d) \/ Ack(d) \/ Nak(d) \/ Term(d)

----------------------------------------------------------------------------
(* Signals, time and the outside world.                                     *)

\* SIGTERM or SIGINT.
Stop(w) ==
    /\ w \in Stoppable \ stop
    /\ loop[w] # "stopped"
    /\ stop' = stop \union {w}
    /\ UNCHANGED <<kind, queue, flagged, loop, sem, tasks, finished, faults>>

\* kill -9: the tasks are gone, what was handed out stays so until ack_wait ends.
Crash(w) ==
    /\ loop[w] # "stopped"
    /\ Fault("crash")
    /\ At(w, "start")
    /\ stop' = stop \ {w}
    /\ sem' = [sem EXCEPT ![w] = MaxInflight]
    /\ task' = [d \in Deliveries |-> IF owner[d] = w THEN "none" ELSE task[d]]
    /\ owner' = [d \in Deliveries |-> IF owner[d] = w THEN NoWorker ELSE owner[d]]
    /\ UNCHANGED <<kind, queue, flagged, finished>>

\* ack_wait (60 s) runs out, under a running task too: no task ever extends it.
AckWaitExpires(m) ==
    /\ m \in outstanding
    /\ outstanding' = outstanding \ {m}
    /\ UNCHANGED <<kind, stream, delivered, flagged, process, tasks, finished, faults>>

\* A cancel request has sat out its grace period (CancelRegistry); a poison
\* message has no alert to cancel.
SetFlag(m) ==
    /\ m \notin flagged
    /\ kind[m] # "poison"
    /\ flagged' = flagged \union {m}
    /\ UNCHANGED <<kind, queue, process, tasks, finished, faults>>

Environment ==
    \/ \E w \in Workers : Stop(w) \/ Crash(w) \/ \E ms \in SUBSET Available : FetchFails(w, ms)
    \/ \E m \in Messages : AckWaitExpires(m) \/ SetFlag(m)

Next ==
    \/ \E w \in Workers : Loop(w)
    \/ \E d \in Deliveries : Handle(d)
    \/ Environment

Spec == Init /\ [][Next]_vars

\* The event loop of a process runs its run loop and its tasks (there are finitely
\* many steps of each, so fairness to some task is fairness to all); a message
\* nobody has is handed out again once ack_wait is over.
Fairness ==
    /\ \A w \in Workers : WF_vars(Loop(w)) /\ WF_vars(\E d \in Has(w) : Handle(d))
    /\ WF_vars(\E m \in Messages : ~InHand(m) /\ AckWaitExpires(m))

FairSpec == Spec /\ Fairness

----------------------------------------------------------------------------
(* Properties.                                                              *)

\* The work queue, the run loops and the tasks hold values of their types; only
\* messages still queued are handed out, and a task is gone once it has released.
TypeOK ==
    /\ kind \in [Messages -> MessageKinds]
    /\ stream \subseteq Messages
    /\ delivered \in [Messages -> 0..MaxDeliver]
    /\ outstanding \subseteq stream
    /\ flagged \subseteq Messages
    /\ loop \in [Workers -> Loops]
    /\ stop \subseteq Workers
    /\ sem \in [Workers -> Nat]
    /\ task \in [Deliveries -> Tasks]
    /\ owner \in [Deliveries -> Workers \union {NoWorker}]
    /\ \A d \in Deliveries : (task[d] = "none") <=> (owner[d] = NoWorker)
    /\ finished \subseteq Messages
    /\ faults \in 0..MaxFaults

\* A genuine alert leaves the work queue only once handle_message has returned
\* for it, through whichever of its deliveries, crashes and late answers.
SettledIsHandled == \A m \in Messages \ stream : kind[m] = "good" => m \in finished

\* SettledIsHandled made inductive: an ack is sent only after handle_message has
\* returned, a term never for a genuine alert.
HandledInv ==
    /\ SettledIsHandled
    /\ \A d \in Deliveries :
          /\ task[d] = "ack" => d[1] \in finished
          /\ task[d] = "term" => kind[d[1]] # "good"

\* Permits and tasks balance, so at most max_inflight tasks run in a process and
\* no permit is lost on any path out of _dispatch_one.
PermitsBalance == \A w \in Workers : sem[w] + Cardinality(Inflight(w)) = MaxInflight

\* PermitsBalance made inductive: the deliveries somebody has were handed out, so
\* a fetch never lands on a delivery in hand.
PermitsInv ==
    /\ PermitsBalance
    /\ \A d \in Deliveries : task[d] # "none" => d[2] <= delivered[d[1]]

\* A worker that has stopped has nothing in hand: no task, and no message that
\* was fetched and not yet started.
StoppedIsDrained == \A w \in Workers : loop[w] = "stopped" => Has(w) = {}

\* StoppedIsDrained made inductive: fetched messages wait only while the loop
\* dispatches, and a process starts with nothing.
DrainedInv ==
    /\ StoppedIsDrained
    /\ \A w \in Workers :
          /\ loop[w] = "start" => Has(w) = {}
          /\ loop[w] # "dispatch" => Waiting(w) = {}

\* The deliveries of the message are used up, nobody has it, and it is in the queue.
Stranded(m) == m \in stream /\ delivered[m] = MaxDeliver /\ ~InHand(m)

\* Every message leaves the work queue, through lost acks, kills and runs that are
\* redelivered under way, or its deliveries are used up; and these are not used up
\* by slow runs alone.
QueueDrains == \A m \in Messages : <>(m \notin stream \/ (Stranded(m) /\ faults > 0))

\* A worker told to stop does so, or dies first.
ShutdownCompletes ==
    \A w \in Stoppable : w \in stop ~> (loop[w] = "stopped" \/ w \notin stop)
=============================================================================
