----------------------------- MODULE IngestWal -----------------------------
(***************************************************************************)
(* Durable ingest: the request handler (enqueue_via_nats) writes an alert   *)
(* to a write-ahead log in Redis and tries one inline JetStream publish;    *)
(* one reconciler per API process scans the log and retries what is left.   *)
(* One action per awaited call, since any other handler or reconciler may   *)
(* run between two awaits.                                                  *)
(*                                                                          *)
(* alert_id is a hash of the source's own id (alert_normalizer), so a       *)
(* webhook delivered twice is two requests for one alert.                   *)
(*                                                                          *)
(* Time is abstracted: a TTL or a backoff may run out at any step, and the  *)
(* seven delays of _BACKOFF_SECONDS are one "not yet".                      *)
(***************************************************************************)
EXTENDS Naturals, FiniteSets

CONSTANTS
    Alerts,       \* alert ids
    Requests,     \* POST /ingest requests
    AlertOf,      \* the alert each request carries
    Reconcilers,  \* one per API process; its owner id
    NoOwner,      \* the lease key is absent
    NoAlert,      \* the reconciler is between two entries
    MaxAttempts,  \* len(_BACKOFF_SECONDS)
    HasDlq,       \* the reconcilers with a dlq_publisher (startup() gives them none)
    Faults,       \* the kinds of fault that may happen
    MaxFaults     \* how many of them (a bound for TLC)

\* wal: the log write of write_ahead fails;  redis: any other Redis call does;
\* broker: a publish is not confirmed;       dlq: the dead-letter publish raises;
\* expiry: max_age_seconds run out;          damage: an entry is overwritten;
\* lease: the lease runs out under its owner; crash: a process dies or is stopped.
FaultKinds ==
    {"wal", "redis", "broker", "dlq", "expiry", "damage", "lease", "crash"}

ASSUME AlertOfAssumption == AlertOf \in [Requests -> Alerts]
ASSUME OwnerAssumption == NoOwner \notin Reconcilers
ASSUME AlertAssumption == NoAlert \notin Alerts
ASSUME AttemptsAssumption == MaxAttempts \in Nat \ {0}
ASSUME DlqAssumption == HasDlq \subseteq Reconcilers
ASSUME FaultsAssumption == Faults \subseteq FaultKinds /\ MaxFaults \in Nat

VARIABLES
    \* Redis
    pending,     \* pending_alert:{id}: what the key holds
    lease,       \* pending_alert_lease:{id}
    attempts,    \* pending_alert_attempts:{id}, saturated at MaxAttempts
    backoff,     \* the alerts whose pending_alert_attempts:{id}:next lies ahead
    \* JetStream
    copies,      \* messages the ALERTS stream has stored for the alert
    remembered,  \* the alerts whose Nats-Msg-Id the stream still de-duplicates
    dlq,         \* alerts given to the dead-letter stream
    \* the processes
    req,         \* where each request handler is
    rpc,         \* where each reconciler is
    batch,       \* keys scan_iter has returned and run_once not yet looked at
    cur,         \* the alert_id _process_one works on
    seen,        \* the payload it read
    tries,       \* the attempts value it got
    \* bookkeeping of the model
    forfeited,   \* alerts the path may let go of: the attempts are used up without
                 \* a confirmed publish, or Redis did not take or keep the entry;
                 \* only the properties read it
    faults       \* faults so far

redis   == <<pending, lease, attempts, backoff>>
stream  == <<copies, remembered>>
scanner == <<rpc, batch, cur, seen, tries>>
vars    == <<redis, stream, dlq, req, scanner, forfeited, faults>>

Entries == {"none", "ok", "corrupt", "unroutable"}
RequestStates == {"new", "publish", "mark", "accepted", "dead"}
\* The entry has been read and is being worked on; the lease is (or was) held.
Working == {"count", "check", "publish", "mark", "retry", "dlq", "cleanup"}
Holding == Working \union {"read", "drop", "release", "unwind"}

Init ==
    /\ pending = [a \in Alerts |-> "none"]
    /\ lease = [a \in Alerts |-> NoOwner]
    /\ attempts = [a \in Alerts |-> 0]
    /\ backoff = {}
    /\ copies = [a \in Alerts |-> 0]
    /\ remembered = {}
    /\ dlq = {}
    /\ req = [q \in Requests |-> "new"]
    /\ rpc = [r \in Reconcilers |-> "idle"]
    /\ batch = [r \in Reconcilers |-> {}]
    /\ cur = [r \in Reconcilers |-> NoAlert]
    /\ seen = [r \in Reconcilers |-> "none"]
    /\ tries = [r \in Reconcilers |-> 0]
    /\ forfeited = {}
    /\ faults = 0

Fault(kind) ==
    /\ kind \in Faults
    /\ faults < MaxFaults
    /\ faults' = faults + 1

NoFault == UNCHANGED faults

Forfeit(a) == forfeited' = forfeited \union {a}

Saturate(n) == IF n < MaxAttempts THEN n ELSE MaxAttempts

----------------------------------------------------------------------------
(* Shared steps of the request handler and the reconcilers.                 *)

\* JetStream stores a message unless its Nats-Msg-Id is remembered.
Store(a) ==
    /\ copies' = [copies EXCEPT ![a] = IF a \in remembered THEN @ ELSE @ + 1]
    /\ remembered' = remembered \union {a}

\* broker.publish(..., await_ack=True) returns True.
PublishConfirmed(a) == Store(a) /\ NoFault

\* It returns False: nothing was stored, or the stored message's ack was lost.
PublishUnconfirmed(a) ==
    /\ Fault("broker")
    /\ Store(a) \/ UNCHANGED stream

\* Mutant: the DEL misses the entry itself.
MarkPublishedKeepsEntry(a) ==
    /\ NoFault
    /\ lease' = [lease EXCEPT ![a] = NoOwner]
    /\ attempts' = [attempts EXCEPT ![a] = 0]
    /\ UNCHANGED <<pending, backoff>>

\* mark_published: one DEL of three keys, of the lease whoever owns it; a Redis
\* error is swallowed. The :next key is left alone.
MarkPublished(a) ==
    \/ /\ NoFault
       /\ pending' = [pending EXCEPT ![a] = "none"]
       /\ lease' = [lease EXCEPT ![a] = NoOwner]
       /\ attempts' = [attempts EXCEPT ![a] = 0]
       /\ UNCHANGED backoff
    \/ /\ Fault("redis")
       /\ UNCHANGED redis

----------------------------------------------------------------------------
(* The request handler: enqueue_via_nats.                                   *)

Goto(q, state) == req' = [req EXCEPT ![q] = state]

\* write_ahead answers True whether or not the SETEX succeeded.
WriteAhead(q) ==
    /\ req[q] = "new"
    /\ Goto(q, "publish")
    /\ \/ /\ NoFault
          /\ pending' = [pending EXCEPT ![AlertOf[q]] = "ok"]
          /\ UNCHANGED forfeited
       \/ /\ Fault("wal")
          /\ Forfeit(AlertOf[q])
          /\ UNCHANGED pending
    /\ UNCHANGED <<lease, attempts, backoff, stream, dlq, scanner>>

\* Mutant: the answer of the inline publish is not looked at.
InlinePublishUnchecked(q) ==
    /\ req[q] = "publish"
    /\ PublishConfirmed(AlertOf[q]) \/ PublishUnconfirmed(AlertOf[q])
    /\ Goto(q, "mark")
    /\ UNCHANGED <<redis, dlq, scanner, forfeited>>

\* A publish that is not confirmed is left to the reconciler: 202 all the same.
InlinePublish(q) ==
    /\ req[q] = "publish"
    /\ \/ PublishConfirmed(AlertOf[q]) /\ Goto(q, "mark")
       \/ PublishUnconfirmed(AlertOf[q]) /\ Goto(q, "accepted")
    /\ UNCHANGED <<redis, dlq, scanner, forfeited>>

InlineMark(q) ==
    /\ req[q] = "mark"
    /\ MarkPublished(AlertOf[q])
    /\ Goto(q, "accepted")
    /\ UNCHANGED <<stream, dlq, scanner, forfeited>>

\* The process dies before the handler returns: the client sees no 202.
RequestDies(q) ==
    /\ req[q] \in {"publish", "mark"}
    /\ Fault("crash")
    /\ Goto(q, "dead")
    /\ UNCHANGED <<redis, stream, dlq, scanner, forfeited>>

Handle(q) == WriteAhead(q) \/ InlinePublish(q) \/ InlineMark(q)

----------------------------------------------------------------------------
(* The reconciler: _loop, run_once and _process_one.                        *)

At(r, label) == rpc' = [rpc EXCEPT ![r] = label]

\* run_once: scan_iter over pending_alert:*.
Scan(r) ==
    /\ rpc[r] = "idle"
    /\ At(r, "scan")
    /\ batch' = [batch EXCEPT ![r] = {a \in Alerts : pending[a] # "none"}]
    /\ UNCHANGED <<redis, stream, dlq, req, cur, seen, tries, faults, forfeited>>

ScanEnd(r) ==
    /\ rpc[r] = "scan"
    /\ batch[r] = {}
    /\ At(r, "idle")
    /\ UNCHANGED <<redis, stream, dlq, req, batch, cur, seen, tries, faults, forfeited>>

\* Mutant: SET without NX.
AcquireLeaseAnyway(r, a) ==
    /\ rpc[r] = "scan"
    /\ a \in batch[r]
    /\ NoFault
    /\ batch' = [batch EXCEPT ![r] = @ \ {a}]
    /\ lease' = [lease EXCEPT ![a] = r]
    /\ cur' = [cur EXCEPT ![r] = a]
    /\ At(r, "read")
    /\ UNCHANGED <<pending, attempts, backoff, stream, dlq, req, seen, tries, forfeited>>

\* _acquire_lease is SET NX EX; a Redis error aborts the scan, and may have left
\* the lease taken with nobody to release it.
AcquireLease(r, a) ==
    /\ rpc[r] = "scan"
    /\ a \in batch[r]
    /\ \/ /\ NoFault
          /\ batch' = [batch EXCEPT ![r] = @ \ {a}]
          /\ \/ /\ lease[a] = NoOwner
                /\ lease' = [lease EXCEPT ![a] = r]
                /\ cur' = [cur EXCEPT ![r] = a]
                /\ At(r, "read")
             \/ /\ lease[a] # NoOwner
                /\ UNCHANGED <<lease, cur, rpc>>
       \/ /\ Fault("redis")
          /\ batch' = [batch EXCEPT ![r] = {}]
          /\ At(r, "idle")
          /\ \/ lease[a] = NoOwner /\ lease' = [lease EXCEPT ![a] = r]
             \/ UNCHANGED lease
          /\ UNCHANGED cur
    /\ UNCHANGED <<pending, attempts, backoff, stream, dlq, req, seen, tries, forfeited>>

\* Mutant: the return for a missing entry is outside the try, and skips the finally.
ReadEntryNoFinally(r) ==
    /\ rpc[r] = "read"
    /\ NoFault
    /\ seen' = [seen EXCEPT ![r] = pending[cur[r]]]
    /\ At(r, IF pending[cur[r]] = "none" THEN "scan" ELSE "count")
    /\ UNCHANGED <<redis, stream, dlq, req, batch, cur, tries, forfeited>>

\* GET pending_alert:{id}. A missing entry ends the job, one that is not JSON is
\* dropped; a Redis error unwinds through the finally of run_once.
ReadEntry(r) ==
    /\ rpc[r] = "read"
    /\ LET entry == pending[cur[r]] IN
       \/ /\ NoFault
          /\ seen' = [seen EXCEPT ![r] = entry]
          /\ \/ entry = "none" /\ At(r, "release")
             \/ entry = "corrupt" /\ At(r, "drop")
             \/ entry \in {"ok", "unroutable"} /\ At(r, "count")
       \/ /\ Fault("redis")
          /\ At(r, "unwind")
          /\ UNCHANGED seen
    /\ UNCHANGED <<redis, stream, dlq, req, batch, cur, tries, forfeited>>

\* The DEL of an entry that did not parse, whatever the key holds by now.
DropCorrupt(r) ==
    /\ rpc[r] = "drop"
    /\ \/ /\ NoFault
          /\ pending' = [pending EXCEPT ![cur[r]] = "none"]
          /\ At(r, "release")
       \/ /\ Fault("redis")
          /\ UNCHANGED pending
          /\ At(r, "unwind")
    /\ UNCHANGED <<lease, attempts, backoff, stream, dlq, req, batch, cur, seen, tries>>
    /\ UNCHANGED forfeited

\* _increment_attempts: INCR, before the backoff is looked at. On a Redis error
\* the INCR may or may not have happened, and the job goes on with 1.
IncrementAttempts(r) ==
    /\ rpc[r] = "count"
    /\ At(r, "check")
    /\ LET a == cur[r]
           n == Saturate(attempts[a] + 1) IN
       \/ /\ NoFault
          /\ attempts' = [attempts EXCEPT ![a] = n]
          /\ tries' = [tries EXCEPT ![r] = n]
       \/ /\ Fault("redis")
          /\ attempts' = [attempts EXCEPT ![a] = n] \/ UNCHANGED attempts
          /\ tries' = [tries EXCEPT ![r] = 1]
    /\ UNCHANGED <<pending, lease, backoff, stream, dlq, req, batch, cur, seen, forfeited>>

\* Mutant: the deadline is compared the wrong way round.
CheckBackoffReversed(r) ==
    /\ rpc[r] = "check"
    /\ NoFault
    /\ At(r, IF cur[r] \in backoff THEN "publish" ELSE "release")
    /\ UNCHANGED <<redis, stream, dlq, req, batch, cur, seen, tries, forfeited>>

\* GET :next; too early ends the job. Otherwise the subject resolver runs, and
\* raises for an entry without __subject__.
CheckBackoff(r) ==
    /\ rpc[r] = "check"
    /\ \/ NoFault /\ cur[r] \in backoff /\ At(r, "release")
       \/ NoFault /\ cur[r] \notin backoff /\ seen[r] = "ok" /\ At(r, "publish")
       \/ NoFault /\ cur[r] \notin backoff /\ seen[r] = "unroutable" /\ At(r, "unwind")
       \/ Fault("redis") /\ At(r, "unwind")
    /\ UNCHANGED <<redis, stream, dlq, req, batch, cur, seen, tries, forfeited>>

Publish(r) ==
    /\ rpc[r] = "publish"
    /\ \/ PublishConfirmed(cur[r]) /\ At(r, "mark") /\ UNCHANGED forfeited
       \/ /\ PublishUnconfirmed(cur[r]) /\ At(r, "retry")
          /\ forfeited' = forfeited \union {a \in {cur[r]} : tries[r] >= MaxAttempts}
    /\ UNCHANGED <<redis, dlq, req, batch, cur, seen, tries>>

Mark(r) ==
    /\ rpc[r] = "mark"
    /\ MarkPublished(cur[r])
    /\ At(r, "release")
    /\ UNCHANGED <<stream, dlq, req, batch, cur, seen, tries, forfeited>>

\* Mutant: the attempts are compared with one less than the schedule has.
ScheduleRetryEarly(r) ==
    /\ rpc[r] = "retry"
    /\ NoFault
    /\ backoff' = backoff \union {cur[r]}
    /\ At(r, IF tries[r] + 1 >= MaxAttempts THEN "dlq" ELSE "release")
    /\ UNCHANGED <<pending, lease, attempts, stream, dlq, req, batch, cur, seen, tries>>
    /\ UNCHANGED forfeited

\* SETEX :next, then the test on attempts; a Redis error skips that test.
ScheduleRetry(r) ==
    /\ rpc[r] = "retry"
    /\ \/ /\ NoFault
          /\ backoff' = backoff \union {cur[r]}
          /\ \/ tries[r] >= MaxAttempts /\ At(r, "dlq")
             \/ tries[r] < MaxAttempts /\ At(r, "release")
       \/ /\ Fault("redis")
          /\ backoff' = backoff \union {cur[r]} \/ UNCHANGED backoff
          /\ At(r, "unwind")
    /\ UNCHANGED <<pending, lease, attempts, stream, dlq, req, batch, cur, seen, tries>>
    /\ UNCHANGED forfeited

\* _move_to_dlq, its publish: skipped without a dlq_publisher, an error swallowed.
DeadLetter(r) ==
    /\ rpc[r] = "dlq"
    /\ At(r, "cleanup")
    /\ \/ NoFault /\ dlq' = IF r \in HasDlq THEN dlq \union {cur[r]} ELSE dlq
       \/ r \in HasDlq /\ Fault("dlq") /\ UNCHANGED dlq
    /\ UNCHANGED <<redis, stream, req, batch, cur, seen, tries, forfeited>>

\* _move_to_dlq, its DEL: whatever became of the publish.
Cleanup(r) ==
    /\ rpc[r] = "cleanup"
    /\ At(r, "release")
    /\ \/ /\ NoFault
          /\ pending' = [pending EXCEPT ![cur[r]] = "none"]
          /\ attempts' = [attempts EXCEPT ![cur[r]] = 0]
          /\ backoff' = backoff \ {cur[r]}
       \/ Fault("redis") /\ UNCHANGED <<pending, attempts, backoff>>
    /\ UNCHANGED <<lease, stream, dlq, req, batch, cur, seen, tries, forfeited>>

\* _release_lease: delete-if-owner in one script, errors swallowed. After an
\* exception the rest of the batch is dropped and _loop sleeps.
ReleaseLease(r) ==
    /\ rpc[r] \in {"release", "unwind"}
    /\ \/ /\ NoFault
          /\ lease' = [lease EXCEPT ![cur[r]] = IF @ = r THEN NoOwner ELSE @]
       \/ Fault("redis") /\ UNCHANGED lease
    /\ \/ rpc[r] = "release" /\ At(r, "scan") /\ UNCHANGED batch
       \/ rpc[r] = "unwind" /\ At(r, "idle") /\ batch' = [batch EXCEPT ![r] = {}]
    /\ cur' = [cur EXCEPT ![r] = NoAlert]
    /\ seen' = [seen EXCEPT ![r] = "none"]
    /\ tries' = [tries EXCEPT ![r] = 0]
    /\ UNCHANGED <<pending, attempts, backoff, stream, dlq, req, forfeited>>

\* stop(): the task is cancelled at an await inside _process_one; the finally
\* still releases the lease.
Cancel(r) ==
    /\ rpc[r] \in Holding \ {"release", "unwind"}
    /\ Fault("crash")
    /\ At(r, "unwind")
    /\ UNCHANGED <<redis, stream, dlq, req, batch, cur, seen, tries, forfeited>>

\* The process dies and is restarted; whatever lease it had stays in Redis.
Crash(r) ==
    /\ rpc[r] # "idle"
    /\ Fault("crash")
    /\ At(r, "idle")
    /\ batch' = [batch EXCEPT ![r] = {}]
    /\ cur' = [cur EXCEPT ![r] = NoAlert]
    /\ seen' = [seen EXCEPT ![r] = "none"]
    /\ tries' = [tries EXCEPT ![r] = 0]
    /\ UNCHANGED <<redis, stream, dlq, req, forfeited>>

Reconcile(r) ==
    \/ Scan(r) \/ ScanEnd(r) \/ \E a \in Alerts : AcquireLease(r, a)
    \/ ReadEntry(r) \/ DropCorrupt(r) \/ IncrementAttempts(r) \/ CheckBackoff(r)
    \/ Publish(r) \/ Mark(r) \/ ScheduleRetry(r)
    \/ DeadLetter(r) \/ Cleanup(r) \/ ReleaseLease(r)

----------------------------------------------------------------------------
(* Time and the outside world.                                              *)

OwnerAtWork(a) == \E r \in Reconcilers : lease[a] = r /\ cur[r] = a

\* Mutant: SET NX without EX.
LeaseWithoutTtl(a) == lease[a] # NoOwner /\ FALSE /\ UNCHANGED vars

\* EX lease_seconds. Under a live owner it takes a call slower than the lease.
LeaseExpires(a) ==
    /\ lease[a] # NoOwner
    /\ \/ ~OwnerAtWork(a) /\ NoFault
       \/ OwnerAtWork(a) /\ Fault("lease")
    /\ lease' = [lease EXCEPT ![a] = NoOwner]
    /\ UNCHANGED <<pending, attempts, backoff, stream, dlq, req, scanner, forfeited>>

BackoffElapses(a) ==
    /\ a \in backoff
    /\ backoff' = backoff \ {a}
    /\ UNCHANGED <<pending, lease, attempts, stream, dlq, req, scanner, faults, forfeited>>

\* EX max_age_seconds of the entry: Redis drops it, nobody is told.
EntryExpires(a) ==
    /\ pending[a] # "none"
    /\ Fault("expiry")
    /\ pending' = [pending EXCEPT ![a] = "none"]
    /\ Forfeit(a)
    /\ UNCHANGED <<lease, attempts, backoff, stream, dlq, req, scanner>>

\* EX max_age_seconds of the counter, refreshed at every INCR.
AttemptsExpire(a) ==
    /\ attempts[a] > 0
    /\ Fault("expiry")
    /\ attempts' = [attempts EXCEPT ![a] = 0]
    /\ UNCHANGED <<pending, lease, backoff, stream, dlq, req, scanner, forfeited>>

\* JetStream forgets a message id.
WindowCloses(a) ==
    /\ a \in remembered
    /\ remembered' = remembered \ {a}
    /\ UNCHANGED <<redis, copies, dlq, req, scanner, faults, forfeited>>

\* Something other than write_ahead overwrites an entry (the cases
\* _process_one and _wal_subject_resolver defend against).
Damage(a) ==
    /\ pending[a] = "ok"
    /\ Fault("damage")
    /\ \E e \in {"corrupt", "unroutable"} : pending' = [pending EXCEPT ![a] = e]
    /\ Forfeit(a)
    /\ UNCHANGED <<lease, attempts, backoff, stream, dlq, req, scanner>>

Environment ==
    \/ \E q \in Requests : RequestDies(q)
    \/ \E r \in Reconcilers : Cancel(r) \/ Crash(r)
    \/ \E a \in Alerts :
          \/ LeaseExpires(a) \/ BackoffElapses(a) \/ EntryExpires(a)
          \/ AttemptsExpire(a) \/ WindowCloses(a) \/ Damage(a)

Next ==
    \/ \E q \in Requests : Handle(q)
    \/ \E r \in Reconcilers : Reconcile(r)
    \/ Environment

Spec == Init /\ [][Next]_vars

\* The event loop runs every ready handler and the reconciler task; TTLs and
\* backoff deadlines pass. Nothing says that a fault ever happens.
Fairness ==
    /\ \A q \in Requests : WF_vars(Handle(q))
    /\ \A r \in Reconcilers : WF_vars(Reconcile(r))
    /\ \A a \in Alerts : WF_vars(~OwnerAtWork(a) /\ LeaseExpires(a))
    /\ \A a \in Alerts : WF_vars(BackoffElapses(a))

FairSpec == Spec /\ Fairness

----------------------------------------------------------------------------
(* Properties.                                                              *)

\* Redis, the streams and the processes hold values of their types, and a
\* reconciler has a current alert exactly while run_once is inside its try.
TypeOK ==
    /\ pending \in [Alerts -> Entries]
    /\ lease \in [Alerts -> Reconcilers \union {NoOwner}]
    /\ attempts \in [Alerts -> 0..MaxAttempts]
    /\ backoff \subseteq Alerts
    /\ copies \in [Alerts -> Nat]
    /\ remembered \subseteq Alerts
    /\ dlq \subseteq Alerts
    /\ req \in [Requests -> RequestStates]
    /\ rpc \in [Reconcilers -> Holding \union {"idle", "scan"}]
    /\ batch \in [Reconcilers -> SUBSET Alerts]
    /\ cur \in [Reconcilers -> Alerts \union {NoAlert}]
    /\ \A r \in Reconcilers : (cur[r] \in Alerts) <=> (rpc[r] \in Holding)
    /\ seen \in [Reconcilers -> Entries]
    /\ tries \in [Reconcilers -> 0..MaxAttempts]
    /\ forfeited \subseteq Alerts
    /\ faults \in 0..MaxFaults

\* Somebody can still triage the alert or an operator can find it.
Held(a) == pending[a] = "ok" \/ copies[a] > 0 \/ a \in dlq

\* Only now may the path let go of an alert: the counter was at MaxAttempts when a
\* publish was not confirmed (_move_to_dlq deletes the entry, and as started there
\* is no dead-letter publisher), or Redis failed the log write (write_ahead degrades
\* open), or it lost or overwrote the entry.
HeldOrForfeited(a) == Held(a) \/ a \in forfeited

\* A request answered 202 (enqueue_via_nats returned True) is for an alert that
\* is in the write-ahead log, in the ALERTS stream or in the dead-letter stream,
\* unless _process_one went through all its attempts or Redis lost the entry.
AcceptedIsHeld == \A q \in Requests : req[q] = "accepted" => HeldOrForfeited(AlertOf[q])

\* What RFC 0001 says the log buys: an acknowledged alert is never lost.
NeverLost == \A q \in Requests : req[q] = "accepted" => Held(AlertOf[q])

\* AcceptedIsHeld made inductive: the alert is held from write_ahead on, an entry
\* is deleted only at a point where the alert is in the stream or forfeited.
DurableInv ==
    /\ \A a \in Alerts : pending[a] \in {"corrupt", "unroutable"} => a \in forfeited
    /\ \A a \in remembered : copies[a] > 0
    /\ \A q \in Requests :
          /\ req[q] \in {"publish", "mark", "accepted"} => HeldOrForfeited(AlertOf[q])
          /\ req[q] = "mark" => copies[AlertOf[q]] > 0
    /\ \A r \in Reconcilers :
          /\ rpc[r] = "mark" => copies[cur[r]] > 0
          /\ rpc[r] = "retry" /\ tries[r] >= MaxAttempts => cur[r] \in forfeited
          /\ rpc[r] \in {"drop", "dlq", "cleanup"} => cur[r] \in forfeited

\* No two requests carry the same alert.
OneRequestPerAlert == \A q1, q2 \in Requests : AlertOf[q1] = AlertOf[q2] => q1 = q2

\* ReconcilersExclusive made inductive: a reconciler that lost its lease to a
\* mark_published also lost the entry, and no entry comes back.
LeaseInv ==
    /\ \A r \in Reconcilers :
          rpc[r] \in Working \union {"read", "drop"} =>
              lease[cur[r]] = r \/ pending[cur[r]] = "none"
    /\ \A q \in Requests : req[q] = "new" =>
          /\ pending[AlertOf[q]] = "none"
          /\ \A r \in Reconcilers : cur[r] # AlertOf[q] /\ AlertOf[q] \notin batch[r]

\* No two reconcilers work on one alert at once: the lease, which
\* mark_published deletes without owning it, still separates them.
ReconcilersExclusive ==
    \A r1, r2 \in Reconcilers :
        (rpc[r1] \in Working /\ rpc[r2] \in Working /\ cur[r1] = cur[r2]) => r1 = r2

\* An alert some client got a 202 for reaches the ALERTS or the dead-letter stream,
\* or its attempts are used up, or Redis did not take or keep its entry.
AcceptedIsDelivered ==
    \A q \in Requests : req[q] = "accepted" ~>
        (\/ copies[AlertOf[q]] > 0
         \/ AlertOf[q] \in dlq \union forfeited)

\* The reconcilers empty the log: every entry is gone for good in the end, but for
\* one without __subject__, which raises at every scan until its TTL ends it.
LogDrains == \A a \in Alerts : <>[](pending[a] \in {"none", "unroutable"})

\* No lease is stuck: whoever crashes, is stopped or fails to release it.
LeaseIsFreed == \A a \in Alerts : []<>(lease[a] = NoOwner)

\* What DurableIngest promises, with the 202s, the alerts held and those that may
\* be let go.
Contract == INSTANCE DurableIngest WITH
    accepted <- {q \in Requests : req[q] = "accepted"},
    held <- {a \in Alerts : Held(a)},
    forfeited <- forfeited

\* Every step of the handlers and reconcilers is a step DurableIngest allows: a
\* 202 only for a held alert, and no owed alert let go before its attempts are
\* used up or Redis fails it.
KeepsContract == Contract!Spec
=============================================================================
