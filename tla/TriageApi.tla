------------------------------ MODULE TriageApi ------------------------------
(***************************************************************************)
(* One API process (app/main.py) and the store it shares with its clients   *)
(* (services/alert_persistence.py): POST /ingest, single, auto or batch;    *)
(* the in-process triage that Starlette runs after the response has been    *)
(* sent, one background task after the other; and the endpoints that read   *)
(* what is stored while all this goes on.                                   *)
(*                                                                          *)
(* Every await of the store is a step of its own. An alert and a verdict    *)
(* are told apart only by being there.                                      *)
(***************************************************************************)
EXTENDS Naturals, Sequences

CONSTANTS
    Alerts,      \* alert ids the normalisers give
    Requests,    \* POST requests
    Items,       \* Items[r]: the alert id of each row of r, or Bad
    Batches,     \* the requests to /ingest/batch; the others have one row
    Bad,         \* a row of unknown source, or that does not normalise
    Clients,     \* GET requests and streams
    MaxTicks,    \* polls of a stream (_STREAM_MAX_TICKS)
    Faults,      \* what may go wrong, of FaultKinds
    MaxFaults

FaultKinds == {"store", "read", "triage", "notify", "audit", "nats", "restart"}

ASSUME ItemAssumption ==
    /\ Batches \subseteq Requests
    /\ Bad \notin Alerts
    /\ \A r \in Requests : Items[r] \in Seq(Alerts \union {Bad})
    /\ \A r \in Requests \ Batches : Len(Items[r]) = 1
ASSUME BoundAssumption ==
    MaxTicks \in Nat \ {0} /\ MaxFaults \in Nat /\ Faults \subseteq FaultKinds

VARIABLES
    viaNats,   \* settings.ingest_via_nats, with a runtime that is wired
    durable,   \* VERDICT_PERSISTENCE_ENABLED: the store is Redis, not a dict
    alert,     \* soc:alert: the alerts that are stored
    job,       \* soc:job:
    verdict,   \* soc:verdict: the alerts that have one
    raw,       \* raw_payload: of the audit store
    rpc,       \* where the handler of a request is
    row,       \* the row it is at
    tasks,     \* its background tasks: the alerts still to be triaged
    tpc,       \* where the first of them is
    cpc,       \* where a client's call is
    about,     \* the alert it asks for
    ticks,     \* polls a stream has made
    answer,    \* the last thing it was told
    known,     \* the alert was stored when the call began
    hurt,      \* a write to the store has failed or the process was restarted
    faults

store   == <<alert, job, verdict, raw>>
handler == <<rpc, row, tasks>>
clients == <<cpc, about, ticks, answer, known>>
config  == <<viaNats, durable>>
vars    == <<config, store, handler, tpc, clients, hurt, faults>>

Endpoints == {"verdict", "jobs", "alert", "snapshot", "stream", "audit", "feedback"}

\* A call is at its endpoint and what it reads next, or at one of these.
New == <<"new", "none">>
Closed == <<"closed", "none">>

Init ==
    /\ viaNats \in BOOLEAN /\ durable \in BOOLEAN
    /\ alert = {} /\ verdict = {} /\ raw = {}
    /\ job = [a \in Alerts |-> "none"]
    /\ rpc = [r \in Requests |-> "new"] /\ row = [r \in Requests |-> 1]
    /\ tasks = [r \in Requests |-> <<>>] /\ tpc = [r \in Requests |-> "idle"]
    /\ cpc = [c \in Clients |-> New] /\ about \in [Clients -> Alerts]
    /\ ticks = [c \in Clients |-> 0] /\ answer = [c \in Clients |-> "none"]
    /\ known = [c \in Clients |-> FALSE]
    /\ hurt = FALSE /\ faults = 0

NoFault == UNCHANGED <<faults, hurt>>

Fault(kind) ==
    /\ kind \in Faults /\ faults < MaxFaults
    /\ faults' = faults + 1
    /\ hurt' = (hurt \/ kind \in {"store", "restart"})

\* A write of AlertPersistence raises, or a read. The dicts cannot.
StoreFault == durable /\ Fault("store")
ReadFault == durable /\ Fault("read")

----------------------------------------------------------------------------
(* POST /ingest.                                                            *)

At(r, label) == rpc' = [rpc EXCEPT ![r] = label]
AtRow(r) == rpc[r] \in {"new", "next"} /\ row[r] <= Len(Items[r])
Item(r) == Items[r][row[r]]

\* The answer is 202, and the background tasks may start.
Respond(r) ==
    /\ rpc[r] \in {"new", "next"} /\ row[r] > Len(Items[r])
    /\ At(r, "sent") /\ NoFault
    /\ UNCHANGED <<config, store, row, tasks, tpc, clients>>

\* A row that is no alert is reported and skipped; the one payload of the other two
\* endpoints is refused (4xx).
RejectRow(r) ==
    /\ AtRow(r) /\ Item(r) = Bad
    /\ \/ r \in Batches /\ At(r, "next") /\ row' = [row EXCEPT ![r] = @ + 1]
       \/ r \notin Batches /\ At(r, "refused") /\ UNCHANGED row
    /\ NoFault
    /\ UNCHANGED <<config, store, tasks, tpc, clients>>

\* An exception leaves the handler: a 500, and no background task is run, the
\* ones of rows before this one included.
Abandon(r) ==
    /\ At(r, "error") /\ tasks' = [tasks EXCEPT ![r] = <<>>]
    /\ UNCHANGED row

PutAlert(r) ==
    /\ AtRow(r) /\ Item(r) # Bad
    /\ \/ /\ NoFault /\ At(r, "job")
          /\ alert' = alert \union {Item(r)}
          /\ UNCHANGED <<row, tasks>>
       \/ StoreFault /\ Abandon(r) /\ UNCHANGED alert
    /\ UNCHANGED <<config, job, verdict, raw, tpc, clients>>

QueueJob(r) ==
    /\ rpc[r] = "job"
    /\ \/ /\ NoFault /\ At(r, "audit")
          /\ job' = [job EXCEPT ![Item(r)] = "queued"]
          /\ UNCHANGED <<row, tasks>>
       \/ StoreFault /\ Abandon(r) /\ UNCHANGED job
    /\ UNCHANGED <<config, alert, verdict, raw, tpc, clients>>

\* Never raises into the ingest path.
RecordRawPayload(r) ==
    /\ rpc[r] = "audit" /\ At(r, "dispatch")
    /\ \/ NoFault /\ raw' = raw \union {Item(r)}
       \/ Fault("audit") /\ UNCHANGED raw
    /\ UNCHANGED <<config, alert, job, verdict, row, tasks, tpc, clients>>

\* enqueue_via_nats takes it over (the work queue: IngestWal), or raises, and the
\* alert is triaged here after all.
DispatchTriage(r) ==
    /\ rpc[r] = "dispatch" /\ At(r, "next")
    /\ row' = [row EXCEPT ![r] = @ + 1]
    /\ \/ viaNats /\ NoFault /\ UNCHANGED tasks
       \/ /\ (viaNats /\ Fault("nats")) \/ (~viaNats /\ NoFault)
          /\ tasks' = [tasks EXCEPT ![r] = Append(@, Item(r))]
    /\ UNCHANGED <<config, store, tpc, clients>>

Handler(r) ==
    \/ Respond(r) \/ RejectRow(r) \/ PutAlert(r) \/ QueueJob(r)
    \/ RecordRawPayload(r) \/ DispatchTriage(r)

----------------------------------------------------------------------------
(* _run_triage_background.                                                  *)

TaskAt(r, label) == tpc' = [tpc EXCEPT ![r] = label]
First(r) == Head(tasks[r])
SetJob(r, status) == job' = [job EXCEPT ![First(r)] = status]

TaskDone(r) == TaskAt(r, "idle") /\ tasks' = [tasks EXCEPT ![r] = Tail(@)]

\* An exception leaves the task: Starlette runs none of the request's others.
TaskRaises(r) == TaskAt(r, "idle") /\ tasks' = [tasks EXCEPT ![r] = <<>>]

\* set_job(running), which is outside the try.
StartTask(r) ==
    /\ rpc[r] = "sent" /\ tpc[r] = "idle" /\ tasks[r] # <<>>
    /\ \/ NoFault /\ SetJob(r, "running") /\ TaskAt(r, "triage") /\ UNCHANGED tasks
       \/ StoreFault /\ TaskRaises(r) /\ UNCHANGED job
    /\ UNCHANGED <<config, alert, verdict, raw, rpc, row, clients>>

\* The except clause, and set_job(failed) to come.
TaskFails(r) == TaskAt(r, "fail")

RunTriage(r) ==
    /\ tpc[r] = "triage"
    /\ \/ NoFault /\ TaskAt(r, "store")
       \/ Fault("triage") /\ TaskFails(r)
    /\ UNCHANGED <<config, store, handler, clients>>

\* Mutant: the job is complete before its verdict is stored.
PutVerdictLast(r) ==
    /\ tpc[r] = "store"
    /\ \/ NoFault /\ SetJob(r, "complete") /\ TaskAt(r, "finish")
       \/ StoreFault /\ TaskFails(r) /\ UNCHANGED job
    /\ UNCHANGED <<config, alert, verdict, raw, handler, clients>>

PutVerdict(r) ==
    /\ tpc[r] = "store"
    /\ \/ /\ NoFault /\ TaskAt(r, "finish")
          /\ verdict' = verdict \union {First(r)}
       \/ StoreFault /\ TaskFails(r) /\ UNCHANGED verdict
    /\ UNCHANGED <<config, alert, job, raw, handler, clients>>

SetComplete(r) ==
    /\ tpc[r] = "finish"
    /\ \/ NoFault /\ SetJob(r, "complete") /\ TaskAt(r, "notify")
       \/ StoreFault /\ TaskFails(r) /\ UNCHANGED job
    /\ UNCHANGED <<config, alert, verdict, raw, handler, clients>>

\* The metrics, the cost record, the payload of the webhook: what raises here, after the
\* job is complete and inside the try, makes it a failed one. Only the POST itself is
\* guarded by _notify_triage_webhook.
Notify(r) ==
    /\ tpc[r] = "notify"
    /\ \/ NoFault /\ TaskDone(r)
       \/ Fault("notify") /\ TaskFails(r) /\ UNCHANGED tasks
    /\ UNCHANGED <<config, store, rpc, row, clients>>

\* Mutant: a failed triage is counted and logged, and that is all.
SetFailedUnsaid(r) ==
    /\ tpc[r] = "fail" /\ TaskDone(r) /\ NoFault
    /\ UNCHANGED <<config, store, rpc, row, clients>>

SetFailed(r) ==
    /\ tpc[r] = "fail"
    /\ \/ NoFault /\ SetJob(r, "failed") /\ TaskDone(r)
       \/ StoreFault /\ TaskRaises(r) /\ UNCHANGED job
    /\ UNCHANGED <<config, alert, verdict, raw, rpc, row, clients>>

Background(r) ==
    StartTask(r) \/ RunTriage(r) \/ PutVerdict(r) \/ SetComplete(r) \/ Notify(r) \/ SetFailed(r)

----------------------------------------------------------------------------
(* The endpoints that read. Each is a few reads, one after the other.       *)

Client(c, label) == cpc' = [cpc EXCEPT ![c] = label]
Ticked(c, n) == ticks' = [ticks EXCEPT ![c] = n]
Reply(c, what) == Client(c, Closed) /\ answer' = [answer EXCEPT ![c] = what] /\ Ticked(c, 0)
GoesOn(c, label) == Client(c, label) /\ UNCHANGED <<answer, ticks>>

HasVerdict(c) == about[c] \in verdict
HasAlert(c) == about[c] \in alert
Status(c) == job[about[c]]

Begin(c) ==
    /\ cpc[c] = New
    /\ \E e \in Endpoints :
          \/ e \in {"verdict", "snapshot", "stream", "audit", "feedback"} /\ GoesOn(c, <<e, "verdict">>)
          \/ e = "jobs" /\ GoesOn(c, <<"jobs", "job">>)
          \/ e = "alert" /\ GoesOn(c, <<"alert", "alert">>)
    /\ known' = [known EXCEPT ![c] = HasAlert(c)]

\* GET /verdict: the verdict; else a failed job; else the alert is processing.
GetVerdict(c) ==
    /\ \/ /\ cpc[c] = <<"verdict", "verdict">>
          /\ IF HasVerdict(c) THEN Reply(c, "complete") ELSE GoesOn(c, <<"verdict", "job">>)
       \/ /\ cpc[c] = <<"verdict", "job">>
          /\ IF Status(c) = "failed" THEN Reply(c, "failed") ELSE GoesOn(c, <<"verdict", "alert">>)
       \/ /\ cpc[c] = <<"verdict", "alert">>
          /\ Reply(c, IF HasAlert(c) THEN "processing" ELSE "missing")
    /\ UNCHANGED known

\* Mutant: an alert without a job record is not found.
JobOrMissing(c) ==
    /\ cpc[c] = <<"jobs", "job">>
    /\ Reply(c, IF Status(c) # "none" THEN Status(c) ELSE "missing")
    /\ UNCHANGED known

\* GET /jobs: a job record, or unknown for an alert or verdict without one.
GetJobStatus(c) ==
    /\ \/ /\ cpc[c] = <<"jobs", "job">>
          /\ IF Status(c) # "none" THEN Reply(c, Status(c)) ELSE GoesOn(c, <<"jobs", "alert">>)
       \/ /\ cpc[c] = <<"jobs", "alert">>
          /\ IF HasAlert(c) THEN Reply(c, "unknown") ELSE GoesOn(c, <<"jobs", "verdict">>)
       \/ /\ cpc[c] = <<"jobs", "verdict">>
          /\ Reply(c, IF HasVerdict(c) THEN "unknown" ELSE "missing")
    /\ UNCHANGED known

GetAlert(c) ==
    /\ cpc[c] = <<"alert", "alert">> /\ Reply(c, IF HasAlert(c) THEN "found" ELSE "missing")
    /\ UNCHANGED known

\* GET /api/alerts/{id}/snapshot: both are read, a verdict outweighs the job.
GetAlertSnapshot(c) ==
    /\ \/ /\ cpc[c] = <<"snapshot", "verdict">>
          /\ GoesOn(c, IF HasVerdict(c) THEN <<"snapshot", "done">> ELSE <<"snapshot", "job">>)
       \/ cpc[c] = <<"snapshot", "done">> /\ Reply(c, "complete")
       \/ cpc[c] = <<"snapshot", "job">> /\ Reply(c, Status(c))
    /\ UNCHANGED known

\* GET /audit: the alert, for its coercion trace, only if there is a verdict; the
\* bundle is the raw payload. No alert has a trace: nothing calls record_coercion.
GetAuditBundle(c) ==
    /\ \/ /\ cpc[c] = <<"audit", "verdict">>
          /\ GoesOn(c, IF HasVerdict(c) THEN <<"audit", "alert">> ELSE <<"audit", "raw">>)
       \/ cpc[c] = <<"audit", "alert">> /\ GoesOn(c, <<"audit", "raw">>)
       \/ /\ cpc[c] = <<"audit", "raw">>
          /\ Reply(c, IF about[c] \in raw THEN "bundle" ELSE "nodata")
    /\ UNCHANGED known

\* The audit store answers None when it cannot be read.
AuditUnread(c) ==
    /\ cpc[c] = <<"audit", "raw">> /\ Fault("audit") /\ Reply(c, "nodata")
    /\ UNCHANGED known

\* POST /feedback: the verdict it is about is given, or is read.
PostFeedback(c) ==
    /\ cpc[c] = <<"feedback", "verdict">>
    /\ Reply(c, "recorded") \/ (~HasVerdict(c) /\ Reply(c, "noverdict"))
    /\ UNCHANGED known

\* GET /stream: at each tick the verdict, then the job; a verdict or a failure ends
\* it, and so does the last tick. The phases it reports on the way are left out.
StreamTriageEvents(c) ==
    /\ \/ /\ cpc[c] = <<"stream", "verdict">>
          /\ IF HasVerdict(c) THEN Reply(c, "complete") ELSE GoesOn(c, <<"stream", "job">>)
       \/ /\ cpc[c] = <<"stream", "job">>
          /\ \/ Status(c) = "failed" /\ Reply(c, "failed")
             \/ Status(c) # "failed" /\ ticks[c] + 1 = MaxTicks /\ Reply(c, "timeout")
             \/ /\ Status(c) # "failed" /\ ticks[c] + 1 < MaxTicks
                /\ Client(c, <<"stream", "verdict">>) /\ Ticked(c, ticks[c] + 1) /\ UNCHANGED answer
    /\ UNCHANGED known

\* A read raises: a 500, or the stream's last line.
ReadFails(c) ==
    /\ cpc[c] \notin {New, Closed, <<"audit", "raw">>}
    /\ ReadFault /\ Reply(c, "error")
    /\ UNCHANGED known

Call(c) ==
    \/ GetVerdict(c) \/ GetJobStatus(c) \/ GetAlert(c) \/ GetAlertSnapshot(c)
    \/ GetAuditBundle(c) \/ PostFeedback(c) \/ StreamTriageEvents(c)

Serve(c) ==
    /\ (Begin(c) /\ NoFault) \/ (Call(c) /\ NoFault) \/ ReadFails(c) \/ AuditUnread(c)
    /\ UNCHANGED <<config, store, handler, tpc, about>>

----------------------------------------------------------------------------

\* The process ends, in order or not: handlers, tasks and calls are gone, and with
\* them the dicts. Redis keeps what it has.
Restart ==
    /\ Fault("restart")
    /\ rpc' = [r \in Requests |-> IF rpc[r] \in {"new", "sent", "refused"} THEN rpc[r] ELSE "error"]
    /\ tasks' = [r \in Requests |-> <<>>] /\ tpc' = [r \in Requests |-> "idle"]
    /\ cpc' = [c \in Clients |-> IF cpc[c] = New THEN New ELSE Closed]
    /\ answer' = [c \in Clients |-> IF cpc[c] \in {New, Closed} THEN answer[c] ELSE "error"]
    /\ ticks' = [c \in Clients |-> 0]
    /\ \/ durable /\ UNCHANGED <<alert, job, verdict>>
       \/ /\ ~durable
          /\ alert' = {} /\ verdict' = {}
          /\ job' = [a \in Alerts |-> "none"]
    /\ UNCHANGED <<config, raw, row, about, known>>

Next ==
    \/ \E r \in Requests : Handler(r) \/ Background(r)
    \/ \E c \in Clients : Serve(c)
    \/ Restart

Spec == Init /\ [][Next]_vars

\* The event loop runs every coroutine it has, and a triage ends (its tool calls and
\* model calls have timeouts).
FairSpec ==
    /\ Spec
    /\ \A r \in Requests : WF_vars(Handler(r)) /\ WF_vars(Background(r))

----------------------------------------------------------------------------
(* Properties.                                                              *)

\* A job that says complete has its verdict: whoever reads the job first and the
\* verdict next finds it, through re-sent alerts, overlapping runs and failures.
CompleteHasVerdict == \A a \in Alerts : job[a] = "complete" => a \in verdict

\* What a client is told in the end is so: complete comes with a verdict, and an
\* alert that was stored when the call began is not missing (unless the process was
\* restarted in between, with nothing but its dicts).
AnswersAreHonest ==
    \A c \in Clients : cpc[c] = Closed /\ (durable \/ ~hurt) =>
        /\ answer[c] = "complete" => HasVerdict(c)
        /\ answer[c] = "missing" => ~known[c]

Statuses == {"none", "queued", "running", "complete", "failed"}

\* CompleteHasVerdict made inductive: tasks run only after the response, so that nobody
\* changes the list under them, and one is past put_verdict only with a verdict.
StoredInv ==
    /\ job \in [Alerts -> Statuses]
    /\ DOMAIN rpc = Requests /\ DOMAIN tpc = Requests /\ DOMAIN tasks = Requests
    /\ \A r \in Requests :
          /\ tpc[r] # "idle" => rpc[r] = "sent"
          /\ tpc[r] = "finish" => First(r) \in verdict
    /\ CompleteHasVerdict

\* AnswersAreHonest made inductive: what a call has read is still so at its next read.
HonestInv ==
    /\ about \in [Clients -> Alerts]
    /\ DOMAIN cpc = Clients /\ DOMAIN answer = Clients /\ DOMAIN known = Clients
    /\ durable \/ ~hurt => \A c \in Clients :
          /\ cpc[c] # New /\ known[c] => HasAlert(c)
          /\ cpc[c] = <<"jobs", "verdict">> => ~known[c]
          /\ cpc[c] = <<"snapshot", "done">> => HasVerdict(c)
    /\ AnswersAreHonest

\* Alert a is among the tasks of r that have not said how they ended.
Awaits(r, a) ==
    \E i \in DOMAIN tasks[r] : tasks[r][i] = a /\ (i > 1 \/ tpc[r] # "notify")

\* An alert that was accepted and is triaged here is decided: its job says complete
\* or failed, whatever its triage does and however often it is sent, unless a write
\* has failed or the process has died.
AcceptedIsDecided ==
    \A a \in Alerts :
        (\E r \in Requests :
            /\ rpc[r] = "sent"
            /\ Awaits(r, a) \/ (~viaNats /\ \E i \in DOMAIN Items[r] : Items[r][i] = a))
        ~> (job[a] \in {"complete", "failed"} \/ hurt)
=============================================================================
