--------------------------- MODULE CancelRegistry ---------------------------
(***************************************************************************)
(* Cancellation of one alert: cancel.py, and the loop of the triage worker   *)
(* that feeds it (triage_worker.py, _run_cancel_loop). A request is held for *)
(* a grace period, in a task of the worker that took it, and then becomes    *)
(* the flag that the pipeline reads (TriagePipeline). The workers share one  *)
(* durable consumer, so the requests of the alert are spread over them. Every *)
(* call of Redis is a step of its own; one whose caller was cancelled, or did *)
(* not hear of it, may still be carried out at any later time, since the     *)
(* next call has another connection. Time is what is left of a TTL or a      *)
(* sleep, in ticks.                                                          *)
(***************************************************************************)
EXTENDS Naturals

CONSTANTS
    Workers,
    MaxTasks,    \* calls and tasks of a worker at a time (bound)
    Grace,       \* grace_seconds
    Slack,       \* how much longer cancel_pending lives, and a task may be late
    MaxFaults    \* calls that fail, late tasks and shutdowns (bound)

ASSUME CancelAssumption ==
    {MaxTasks, Grace, Slack, MaxFaults} \subseteq Nat /\ Grace > 0

VARIABLES
    pending,   \* what is left of the TTL of cancel_pending:{id}; 0 without the key
    flag,      \* cancelled:{id}
    task,      \* of each worker: its calls and grace timers
    timers,    \* its entry of _timers; 0 without one
    revoked,   \* how the last revoke found the alert: "no" from the next request on
    excused,   \* a request was lost to a failed call, a late task or a shutdown
    faults

vars == <<pending, flag, task, timers, revoked, excused, faults>>

Tasks == 1 .. MaxTasks

\* A request stores the pending key and is then the timer, which sleeps, reads, sets the
\* flag and deletes the key; or it is cancelled and has its finally clause to run.
Places == {"none", "store", "revoke", "sleep", "get", "set", "delete", "unwind"}
Commands == {"none", "pend", "flag", "unpend"}

\* left: until the pending key it was started with is gone. sent: a command that nobody
\* waits for any more.
Idle == [at |-> "none", left |-> 0, sent |-> "none"]

Init ==
    /\ pending = 0 /\ flag = FALSE
    /\ task = [w \in Workers |-> [i \in Tasks |-> Idle]] /\ timers = [w \in Workers |-> 0]
    /\ revoked = "no" /\ excused = FALSE /\ faults = 0

NoFault == UNCHANGED <<faults, excused>>
Fault == faults < MaxFaults /\ faults' = faults + 1 /\ excused' = TRUE

\* The slot of a new call.
Free(w, i) == task[w][i] = Idle /\ \A j \in 1 .. (i - 1) : task[w][j] # Idle

\* A task that is gone: the command it was waiting for is left on its connection.
Dropped(t) ==
    [Idle EXCEPT !.sent = CASE t.at = "store" -> "pend"
                            [] t.at = "set" -> "flag"
                            [] t.at \in {"delete", "revoke"} -> "unpend"
                            [] OTHER -> t.sent]

\* task.cancel(): a sleeping one returns, any other still runs its finally clause.
Cancelled(t) == IF t.at = "sleep" THEN Idle ELSE [Dropped(t) EXCEPT !.at = "unwind"]

\* The entry of _timers is popped and its task cancelled.
CancelTimer(w) == [i \in Tasks |-> IF i = timers[w] THEN Cancelled(task[w][i]) ELSE task[w][i]]
PopTimer(w) == timers' = [timers EXCEPT ![w] = 0]

\* A call begins in slot i, and calls Redis as its first step.
Calls(w, i, place) ==
    task' = [task EXCEPT ![w] = [CancelTimer(w) EXCEPT ![i] = [Idle EXCEPT !.at = place]]]

Become(w, i, t) == task' = [task EXCEPT ![w][i] = t]

\* The task is over. Its finally clause pops whichever timer is registered by now.
Ends(w, i, sent) == Become(w, i, [Idle EXCEPT !.sent = sent]) /\ PopTimer(w)

----------------------------------------------------------------------------
(* request_cancel.                                                           *)

\* A message of the cancel subject, one at a time: the timer that runs is called off.
Request(w) ==
    /\ \A j \in Tasks : task[w][j].at # "store"
    /\ \E i \in Tasks : Free(w, i) /\ Calls(w, i, "store")
    /\ PopTimer(w) /\ revoked' = "no"
    /\ UNCHANGED <<pending, flag, excused, faults>>

\* The timer of slot i starts and is registered.
Starts(w, i) ==
    /\ timers' = [timers EXCEPT ![w] = i]
    /\ Become(w, i, [Idle EXCEPT !.at = "sleep", !.left = Grace + Slack])

\* Mutant: the pending key lives as long as the timer.
RequestTight(w, i) ==
    /\ task[w][i].at = "store"
    /\ NoFault /\ pending' = Grace /\ Starts(w, i)
    /\ UNCHANGED <<flag, revoked>>

\* The pending key is written and a new timer is started; without an answer there is none.
RequestStore(w, i) ==
    /\ task[w][i].at = "store"
    /\ \/ NoFault /\ pending' = Grace + Slack /\ Starts(w, i)
       \/ Fault /\ Become(w, i, Dropped(task[w][i])) /\ UNCHANGED <<pending, timers>>
    /\ UNCHANGED <<flag, revoked>>

----------------------------------------------------------------------------
(* revoke_cancel.                                                            *)

Revoke(w) ==
    /\ \E i \in Tasks : Free(w, i) /\ Calls(w, i, "revoke")
    /\ PopTimer(w)
    /\ UNCHANGED <<pending, flag, revoked, excused, faults>>

\* No request is under way, on its way, or read by its timer.
Requested(t) == t.at = "store" \/ t.sent = "pend"
Firing(t) == t.at = "set" \/ t.sent = "flag"
Found ==
    IF \E v \in Workers, j \in Tasks : Requested(task[v][j]) THEN "no"
    ELSE IF \E v \in Workers, j \in Tasks : Firing(task[v][j]) THEN "late" ELSE "in time"

RevokeDelete(w, i) ==
    /\ task[w][i].at = "revoke"
    /\ \/ NoFault /\ pending' = 0 /\ revoked' = Found /\ Become(w, i, Idle)
       \/ Fault /\ UNCHANGED <<pending, revoked>> /\ Become(w, i, Dropped(task[w][i]))
    /\ UNCHANGED <<flag, timers>>

----------------------------------------------------------------------------
(* _fire_after_grace.                                                        *)

Wake(w, i) ==
    /\ task[w][i].at = "sleep" /\ task[w][i].left <= Slack
    /\ Become(w, i, [task[w][i] EXCEPT !.at = "get"]) /\ NoFault
    /\ UNCHANGED <<pending, flag, timers, revoked>>

Fires(w, i) == Become(w, i, [task[w][i] EXCEPT !.at = "set", !.left = 0]) /\ UNCHANGED timers

\* Mutant: the flag is set without another look at the pending key.
FireUnchecked(w, i) ==
    /\ task[w][i].at = "get" /\ NoFault /\ Fires(w, i)
    /\ UNCHANGED <<pending, flag, revoked>>

\* Whether the request still stands.
CheckPending(w, i) ==
    /\ task[w][i].at = "get"
    /\ \/ pending # 0 /\ NoFault /\ Fires(w, i)
       \/ pending = 0 /\ NoFault /\ Ends(w, i, "none")
       \/ Fault /\ Ends(w, i, "none")
    /\ UNCHANGED <<pending, flag, revoked>>

SetFlag(w, i) ==
    /\ task[w][i].at = "set"
    /\ \/ /\ NoFault /\ flag' = TRUE /\ UNCHANGED timers
          /\ Become(w, i, [task[w][i] EXCEPT !.at = "delete"])
       \/ Fault /\ Ends(w, i, "flag") /\ UNCHANGED flag
    /\ UNCHANGED <<pending, revoked>>

DeletePending(w, i) ==
    /\ task[w][i].at = "delete"
    /\ \/ NoFault /\ pending' = 0 /\ Ends(w, i, "none")
       \/ Fault /\ Ends(w, i, "unpend") /\ UNCHANGED pending
    /\ UNCHANGED <<flag, revoked>>

\* The finally clause of a task that was cancelled while it called Redis.
Unwind(w, i) ==
    /\ task[w][i].at = "unwind" /\ Ends(w, i, task[w][i].sent) /\ NoFault
    /\ UNCHANGED <<pending, flag, revoked>>

----------------------------------------------------------------------------
(* Redis, the worker's end and the clocks.                                   *)

\* Redis carries out a command that nobody waits for, or never gets it.
Arrive(w, i) ==
    LET sent == task[w][i].sent
    IN  /\ sent # "none" /\ Become(w, i, [task[w][i] EXCEPT !.sent = "none"])
        /\ \/ UNCHANGED <<pending, flag>>
           \/ sent = "pend" /\ pending' = Grace + Slack /\ UNCHANGED flag
           \/ sent = "unpend" /\ pending' = 0 /\ UNCHANGED flag
           \/ sent = "flag" /\ flag' = TRUE /\ UNCHANGED pending
        /\ UNCHANGED <<timers, revoked, excused, faults>>

\* close(), or a kill: the worker ends, and its calls and timers with it.
Close(w) ==
    /\ Fault /\ task' = [task EXCEPT ![w] = [i \in Tasks |-> Dropped(task[w][i])]]
    /\ PopTimer(w)
    /\ UNCHANGED <<pending, flag, revoked>>

\* The flag's TTL, a day, is over, and so is all that was under way when it was set. (No
\* step reads the flag: a timer started since would do as it does without one.)
FlagExpires ==
    /\ flag /\ flag' = FALSE
    /\ \A w \in Workers, i \in Tasks : task[w][i].at \in {"none", "store", "revoke"} /\ task[w][i].sent = "none"
    /\ UNCHANGED <<pending, task, timers, revoked, excused, faults>>

Down(n) == IF n = 0 THEN 0 ELSE n - 1
Due(t) == t.at \in {"sleep", "get"} /\ t.left <= Slack

\* A tick. A task that is due has read the pending key before Slack ticks are over,
\* unless the event loop is that late.
Tick ==
    /\ pending' = Down(pending)
    /\ task' = [w \in Workers |-> [i \in Tasks |-> [task[w][i] EXCEPT !.left = Down(@)]]]
    /\ IF \E w \in Workers, i \in Tasks : Due(task[w][i]) /\ task[w][i].left <= 1
       THEN Fault ELSE NoFault
    /\ UNCHANGED <<flag, timers, revoked>>

Fire(w, i) ==
    Wake(w, i) \/ CheckPending(w, i) \/ SetFlag(w, i) \/ DeletePending(w, i) \/ Unwind(w, i)
Answer(w, i) == RequestStore(w, i) \/ RevokeDelete(w, i)

Next ==
    \/ \E w \in Workers : Request(w) \/ Revoke(w) \/ Close(w)
    \/ \E w \in Workers, i \in Tasks : Answer(w, i) \/ Fire(w, i) \/ Arrive(w, i)
    \/ Tick \/ FlagExpires

Spec == Init /\ [][Next]_vars

FireAny == \E w \in Workers, i \in Tasks : Fire(w, i)
AnswerAny == \E w \in Workers, i \in Tasks : Answer(w, i)

\* The loops run what is due, Redis answers, and time goes on.
FairSpec == Spec /\ WF_vars(Tick) /\ WF_vars(FireAny) /\ WF_vars(AnswerAny)

----------------------------------------------------------------------------
(* Properties.                                                               *)

\* The types of the keys, the timers and the calls: no clock runs past its end, and
\* only a task that waits has one.
Clocks ==
    /\ pending \in 0 .. (Grace + Slack) /\ faults \in 0 .. MaxFaults
    /\ task \in [Workers -> [Tasks -> [at : Places, left : 0 .. (Grace + Slack),
                                       sent : Commands]]]
    /\ timers \in [Workers -> 0 .. MaxTasks]
    /\ revoked \in {"no", "late", "in time"}

Flags == flag \in BOOLEAN /\ excused \in BOOLEAN

TypeOK == Clocks /\ Flags

\* What makes RevokeIsFinal inductive: after a revoke in time there is no pending key, and
\* nothing is left that could write it or the flag.
NothingLeft ==
    revoked = "in time" =>
        /\ pending = 0
        /\ \A w \in Workers, i \in Tasks : ~Requested(task[w][i]) /\ ~Firing(task[w][i])

RevokeInv == Clocks /\ NothingLeft

\* After a revoke whose DELETE was answered, on whichever worker, before any timer had
\* read the pending key, and until the next request, the flag is not set: every timer
\* that still runs, registered or not, finds that the key is gone.
RevokeIsFinal == [][ ~flag /\ flag' => revoked # "in time" ]_vars

\* A request that is neither repeated nor revoked becomes the flag, whatever the timers
\* of earlier requests, cancelled tasks and their commands still do.
CancelTakesEffect ==
    (\E w \in Workers, i \in Tasks : task[w][i].at \in {"sleep", "get", "set"})
    ~> \/ flag \/ excused \/ revoked # "no"
       \/ \E w \in Workers, i \in Tasks : task[w][i].at \in {"store", "revoke"}
=============================================================================
