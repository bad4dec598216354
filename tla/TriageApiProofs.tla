--------------------------- MODULE TriageApiProofs ---------------------------
(* Theorems about TriageApi, for any number of alerts, requests and clients.  *)
EXTENDS TriageApi, TLAPS

\* Nothing is stored and no task runs at first.
LEMMA InitStored == Init => StoredInv
BY DEF Init, StoredInv, CompleteHasVerdict, Statuses

\* A step of an ingest handler keeps StoredInv: it writes only the status queued, and
\* its own list of tasks before they run.
LEMMA HandlerStored ==
    ASSUME StoredInv, NEW r \in Requests, Handler(r)
    PROVE  StoredInv'
<1> USE DEF StoredInv, CompleteHasVerdict, Statuses, At, First, store, config
<1>1. CASE Respond(r)
    BY <1>1 DEF Respond
<1>2. CASE RejectRow(r)
    BY <1>2 DEF RejectRow, AtRow
<1>3. CASE PutAlert(r)
    BY <1>3 DEF PutAlert, AtRow, Abandon
<1>4. CASE QueueJob(r)
    BY <1>4 DEF QueueJob, Abandon
<1>5. CASE RecordRawPayload(r)
    BY <1>5 DEF RecordRawPayload
<1>6. CASE DispatchTriage(r)
    BY <1>6 DEF DispatchTriage
<1> QED
    BY <1>1, <1>2, <1>3, <1>4, <1>5, <1>6 DEF Handler

\* A step of a background task keeps StoredInv: complete is written only by a task whose
\* verdict is stored.
LEMMA BackgroundStored ==
    ASSUME StoredInv, NEW r \in Requests, Background(r)
    PROVE  StoredInv'
<1> USE DEF StoredInv, CompleteHasVerdict, Statuses, TaskAt, First, SetJob, TaskDone, TaskRaises,
            TaskFails, store, handler, config
<1>1. CASE StartTask(r)
    BY <1>1 DEF StartTask
<1>2. CASE RunTriage(r)
    BY <1>2 DEF RunTriage
<1>3. CASE PutVerdict(r)
    BY <1>3 DEF PutVerdict
<1>4. CASE SetComplete(r)
    BY <1>4 DEF SetComplete
<1>5. CASE Notify(r)
    BY <1>5 DEF Notify
<1>6. CASE SetFailed(r)
    BY <1>6 DEF SetFailed
<1> QED
    BY <1>1, <1>2, <1>3, <1>4, <1>5, <1>6 DEF Background

\* Readers write nothing, and a restart leaves no task and, with the dicts, no job.
LEMMA StepStored == StoredInv /\ [Next]_vars => StoredInv'
<1> SUFFICES ASSUME StoredInv, [Next]_vars PROVE StoredInv'
    OBVIOUS
<1>1. ASSUME NEW c \in Clients, Serve(c) PROVE StoredInv'
    BY <1>1 DEF Serve, StoredInv, CompleteHasVerdict, Statuses, First, store, handler
<1>2. CASE Restart
    BY <1>2 DEF Restart, StoredInv, CompleteHasVerdict, Statuses, First
<1>3. CASE UNCHANGED vars
    BY <1>3 DEF vars, StoredInv, CompleteHasVerdict, Statuses, First, store, handler
<1> QED
    BY <1>1, <1>2, <1>3, HandlerStored, BackgroundStored DEF Next

\* A job that says complete has its verdict (_run_triage_background stores the verdict
\* first), for any number of overlapping requests for one alert, failures and restarts.
THEOREM CompleteIsBacked == Spec => []CompleteHasVerdict
<1>1. StoredInv => CompleteHasVerdict
    BY DEF StoredInv
<1> QED
    BY <1>1, InitStored, StepStored, PTL DEF Spec

----------------------------------------------------------------------------

\* No client has called yet.
LEMMA InitHonest == Init => HonestInv
BY DEF Init, HonestInv, AnswersAreHonest, New, Closed

\* hurt is remembered, and the settings do not change.
LEMMA HurtIsRemembered == Next => durable' = durable /\ (hurt => hurt')
<1> SUFFICES ASSUME Next PROVE durable' = durable /\ (hurt => hurt')
    OBVIOUS
<1>0. ASSUME NoFault \/ \E kind \in FaultKinds : Fault(kind) PROVE hurt => hurt'
    <2>1. CASE NoFault
        BY <2>1 DEF NoFault
    <2>2. ASSUME NEW kind \in FaultKinds, Fault(kind) PROVE hurt => hurt'
        BY <2>2, Zenon DEF Fault
    <2> QED
        BY <1>0, <2>1, <2>2
<1> USE <1>0 DEF config, StoreFault, ReadFault, FaultKinds
<1>1. ASSUME NEW r \in Requests, Handler(r) PROVE durable' = durable /\ (hurt => hurt')
    BY <1>1 DEF Handler, Respond, RejectRow, PutAlert, QueueJob, RecordRawPayload, DispatchTriage
<1>2. ASSUME NEW r \in Requests, Background(r) PROVE durable' = durable /\ (hurt => hurt')
    BY <1>2 DEF Background, StartTask, RunTriage, PutVerdict, SetComplete, Notify, SetFailed
<1>3. ASSUME NEW c \in Clients, Serve(c) PROVE durable' = durable /\ (hurt => hurt')
    BY <1>3 DEF Serve, ReadFails, AuditUnread
<1>4. CASE Restart
    BY <1>4 DEF Restart
<1> QED
    BY <1>1, <1>2, <1>3, <1>4 DEF Next

\* What is stored stays stored, unless a process with nothing but its dicts restarts.
LEMMA StoreGrows ==
    ASSUME Next, durable' \/ ~hurt'
    PROVE  alert \subseteq alert' /\ verdict \subseteq verdict'
<1> USE DEF config, store, handler
<1>1. ASSUME NEW r \in Requests, Handler(r) PROVE alert \subseteq alert' /\ verdict \subseteq verdict'
    BY <1>1 DEF Handler, Respond, RejectRow, PutAlert, QueueJob, RecordRawPayload, DispatchTriage
<1>2. ASSUME NEW r \in Requests, Background(r) PROVE alert \subseteq alert' /\ verdict \subseteq verdict'
    BY <1>2 DEF Background, StartTask, RunTriage, PutVerdict, SetComplete, Notify, SetFailed
<1>3. ASSUME NEW c \in Clients, Serve(c) PROVE alert \subseteq alert' /\ verdict \subseteq verdict'
    BY <1>3 DEF Serve
<1>4. CASE Restart
    BY <1>4 DEF Restart, Fault
<1> QED
    BY <1>1, <1>2, <1>3, <1>4 DEF Next

\* A step that is none of the client's keeps what it has read and what it was told.
LEMMA OthersHonest ==
    ASSUME HonestInv, Next, UNCHANGED clients
    PROVE  HonestInv'
BY HurtIsRemembered, StoreGrows
DEF HonestInv, AnswersAreHonest, clients, HasAlert, HasVerdict

\* A read of a client: what it is told is what it finds stored.
LEMMA CallHonest ==
    ASSUME StoredInv, HonestInv, NEW c \in Clients, UNCHANGED <<config, store, hurt>>, Call(c), UNCHANGED about
    PROVE  HonestInv'
<1> USE DEF HonestInv, AnswersAreHonest, config, store, HasAlert, HasVerdict, Status, Reply, GoesOn,
            Client, New, Closed
<1>1. CASE GetVerdict(c)
    BY <1>1 DEF GetVerdict
<1>2. CASE GetJobStatus(c)
    BY <1>2 DEF GetJobStatus, StoredInv, Statuses, CompleteHasVerdict
<1>3. CASE GetAlert(c)
    BY <1>3 DEF GetAlert
<1>4. CASE GetAlertSnapshot(c)
    BY <1>4 DEF GetAlertSnapshot, StoredInv, Statuses, CompleteHasVerdict
<1>5. CASE GetAuditBundle(c)
    BY <1>5 DEF GetAuditBundle
<1>6. CASE PostFeedback(c)
    BY <1>6 DEF PostFeedback
<1>7. CASE StreamTriageEvents(c)
    BY <1>7 DEF StreamTriageEvents
<1> QED
    BY <1>1, <1>2, <1>3, <1>4, <1>5, <1>6, <1>7 DEF Call

\* A client begins a call, reads, or is told that a read failed.
LEMMA ServeHonest ==
    ASSUME StoredInv, HonestInv, Next, NEW c \in Clients, Serve(c)
    PROVE  HonestInv'
<1> USE DEF HonestInv, AnswersAreHonest, config, store, HasAlert, HasVerdict, Reply, GoesOn,
            Client, New, Closed
<1>1. CASE Begin(c) /\ NoFault
    <2>1. /\ UNCHANGED <<durable, hurt, alert, verdict, about, answer>>
          /\ DOMAIN cpc' = Clients /\ \A d \in Clients \ {c} : cpc'[d] = cpc[d]
          /\ cpc'[c] \notin {New, Closed, <<"jobs", "verdict">>, <<"snapshot", "done">>}
        BY <1>1 DEF Begin, Serve, NoFault
    <2>2. DOMAIN known' = Clients /\ \A d \in Clients \ {c} : known'[d] = known[d]
        BY <1>1 DEF Begin
    <2>3. known'[c] = HasAlert(c)
        BY <1>1 DEF Begin
    <2> QED
        BY <2>1, <2>2, <2>3
<1>2. CASE Call(c) /\ NoFault
    BY <1>2, CallHonest DEF Serve, NoFault
<1>3. CASE ReadFails(c) \/ AuditUnread(c)
    BY <1>3, HurtIsRemembered DEF ReadFails, AuditUnread, Serve
<1> QED
    BY <1>1, <1>2, <1>3 DEF Serve

\* Every step keeps what the clients have read true.
LEMMA StepHonest == StoredInv /\ HonestInv /\ [Next]_vars => HonestInv'
<1> SUFFICES ASSUME StoredInv, HonestInv, [Next]_vars PROVE HonestInv'
    OBVIOUS
<1>1. ASSUME Next, NEW r \in Requests, Handler(r) \/ Background(r) PROVE HonestInv'
    <2> UNCHANGED clients
        BY <1>1 DEF Handler, Respond, RejectRow, PutAlert, QueueJob, RecordRawPayload, DispatchTriage,
                    Background, StartTask, RunTriage, PutVerdict, SetComplete, Notify, SetFailed
    <2> QED
        BY <1>1, OthersHonest
<1>2. ASSUME Next, NEW c \in Clients, Serve(c) PROVE HonestInv'
    BY <1>2, ServeHonest
<1>3. ASSUME Next, Restart PROVE HonestInv'
    BY <1>3, HurtIsRemembered, StoreGrows
    DEF Restart, HonestInv, AnswersAreHonest, HasAlert, HasVerdict, New, Closed
<1>4. CASE UNCHANGED vars
    BY <1>4 DEF vars, clients, config, store, HonestInv, AnswersAreHonest, HasAlert, HasVerdict
<1> QED
    BY <1>1, <1>2, <1>3, <1>4 DEF Next

\* What a client is told of an alert is so, however its reads interleave with the writes
\* of handlers and tasks (the GET endpoints of app/main.py).
THEOREM ToldTheTruth == Spec => []AnswersAreHonest
<1>1. HonestInv => AnswersAreHonest
    BY DEF HonestInv
<1> QED
    BY <1>1, InitStored, StepStored, InitHonest, StepHonest, PTL DEF Spec
=============================================================================
