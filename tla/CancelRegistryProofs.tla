------------------------ MODULE CancelRegistryProofs ------------------------
(* Theorems about CancelRegistry, for any number of workers and tasks.        *)
EXTENDS CancelRegistry, TLAPS

\* The periods and the bounds are natural numbers.
LEMMA Numbers ==
    MaxTasks \in Nat /\ Grace \in Nat /\ Slack \in Nat /\ MaxFaults \in Nat /\ Grace > 0
BY CancelAssumption

TaskType == [at : Places, left : 0 .. (Grace + Slack), sent : Commands]

\* The records that the steps build are tasks, and what the steps leave of a task that
\* was cancelled or dropped asks for nothing new.
LEMMA TaskRecords ==
    /\ Idle \in TaskType /\ Idle.at = "none" /\ Idle.sent = "none"
    /\ \A t \in TaskType :
          /\ Dropped(t) \in TaskType /\ Cancelled(t) \in TaskType
          /\ ~Requested(t) /\ ~Firing(t) =>
                /\ ~Requested(Dropped(t)) /\ ~Firing(Dropped(t))
                /\ ~Requested(Cancelled(t)) /\ ~Firing(Cancelled(t))
          /\ \A p \in Places : [t EXCEPT !.at = p] \in TaskType
          /\ \A c \in Commands : [t EXCEPT !.sent = c] \in TaskType
          /\ \A n \in 0 .. (Grace + Slack) : [t EXCEPT !.left = n] \in TaskType
<1> USE Numbers
<1>1. Idle \in TaskType /\ Idle.at = "none" /\ Idle.sent = "none"
    BY DEF Idle, TaskType, Places, Commands
<1>2. ASSUME NEW t \in TaskType
      PROVE  /\ Dropped(t) \in TaskType
             /\ Dropped(t).at = "none"
             /\ ~Requested(t) /\ ~Firing(t) => ~Requested(Dropped(t)) /\ ~Firing(Dropped(t))
  <2>1. PICK c \in Commands :
           /\ Dropped(t) = [Idle EXCEPT !.sent = c]
           /\ ~Requested(t) /\ ~Firing(t) => c \notin {"pend", "flag"}
    <3>1. CASE t.at = "store"
        BY <3>1 DEF Dropped, Commands, Requested
    <3>2. CASE t.at = "set"
        BY <3>2 DEF Dropped, Commands, Firing
    <3>3. CASE t.at \in {"delete", "revoke"}
        BY <3>3 DEF Dropped, Commands
    <3>4. CASE t.at \notin {"store", "set", "delete", "revoke"}
        <4>1. Dropped(t) = [Idle EXCEPT !.sent = t.sent]
            BY <3>4 DEF Dropped
        <4>2. t.sent \in Commands
            BY DEF TaskType
        <4> QED
            BY <4>1, <4>2 DEF Requested, Firing
    <3> QED
        BY <3>1, <3>2, <3>3, <3>4
  <2> HIDE DEF Dropped
  <2> QED
    BY <2>1, <1>1 DEF TaskType, Idle, Requested, Firing
<1>3. ASSUME NEW t \in TaskType
      PROVE  /\ Cancelled(t) \in TaskType
             /\ ~Requested(t) /\ ~Firing(t) => ~Requested(Cancelled(t)) /\ ~Firing(Cancelled(t))
  <2>1. CASE t.at = "sleep"
    BY <2>1, <1>1 DEF Cancelled, Requested, Firing
  <2>2. CASE t.at # "sleep"
    <3>1. Cancelled(t) = [Dropped(t) EXCEPT !.at = "unwind"]
        BY <2>2 DEF Cancelled
    <3> HIDE DEF Dropped, Cancelled
    <3> QED
        BY <3>1, <1>2 DEF TaskType, Places, Requested, Firing
  <2> QED
    BY <2>1, <2>2
<1> QED
    BY <1>1, <1>2, <1>3 DEF TaskType

\* A new registry has no task and no revoke.
LEMMA InitRevoke == Init => RevokeInv
<1> SUFFICES ASSUME Init PROVE RevokeInv
    OBVIOUS
<1>1. task \in [Workers -> [Tasks -> TaskType]] /\ timers \in [Workers -> 0 .. MaxTasks]
    BY TaskRecords, Numbers DEF Init
<1> QED
    BY <1>1, Numbers DEF Init, RevokeInv, Clocks, NothingLeft, TaskType

Quiet(t) == ~Requested(t) /\ ~Firing(t)

\* What is left of the boards of the workers when their tasks are tasks.
LEMMA Boards ==
    ASSUME Clocks
    PROVE  /\ task \in [Workers -> [Tasks -> TaskType]]
           /\ \A w \in Workers : CancelTimer(w) \in [Tasks -> TaskType]
           /\ NothingLeft /\ revoked = "in time" =>
                \A w \in Workers, i \in Tasks : Quiet(CancelTimer(w)[i])
<1>1. task \in [Workers -> [Tasks -> TaskType]]
    BY DEF Clocks, TaskType
<1>2. ASSUME NEW w \in Workers, NEW i \in Tasks
      PROVE  /\ CancelTimer(w)[i] \in TaskType
             /\ Quiet(task[w][i]) => Quiet(CancelTimer(w)[i])
    BY <1>1, TaskRecords DEF CancelTimer, Quiet
<1>3. \A w \in Workers : CancelTimer(w) \in [Tasks -> TaskType]
    BY <1>2 DEF CancelTimer
<1> QED
    BY <1>1, <1>2, <1>3 DEF NothingLeft, Quiet

\* A step that puts one task in its slot, with or without an entry of _timers.
LEMMA BecomeKeeps ==
    ASSUME Clocks, NEW w \in Workers, NEW i \in Tasks, NEW t \in TaskType,
           task' = [task EXCEPT ![w][i] = t]
    PROVE  /\ task' \in [Workers -> [Tasks -> TaskType]]
           /\ (\A v \in Workers, j \in Tasks : Quiet(task[v][j])) /\ Quiet(t) =>
                \A v \in Workers, j \in Tasks : Quiet(task'[v][j])
<1>1. task \in [Workers -> [Tasks -> TaskType]]
    BY DEF Clocks, TaskType
<1>2. \A v \in Workers, j \in Tasks : task'[v][j] = IF v = w /\ j = i THEN t ELSE task[v][j]
    BY <1>1
<1>3. task' \in [Workers -> [Tasks -> TaskType]]
    BY <1>1
<1> QED
    BY <1>2, <1>3

\* A call begins: the timer registered is cancelled.
LEMMA CallsKeep ==
    ASSUME Clocks, NEW w \in Workers, NEW i \in Tasks, NEW p \in Places, Calls(w, i, p)
    PROVE  /\ task' \in [Workers -> [Tasks -> TaskType]]
           /\ NothingLeft /\ revoked = "in time" /\ p = "revoke" =>
                \A v \in Workers, j \in Tasks : Quiet(task'[v][j])
<1> DEFINE t == [Idle EXCEPT !.at = p]
<1>1. t \in TaskType /\ t.at = p /\ t.sent = "none"
    BY TaskRecords DEF Idle
<1>2. t = [Idle EXCEPT !.at = p]
    OBVIOUS
<1> HIDE DEF t
<1>3. task' = [task EXCEPT ![w] = [CancelTimer(w) EXCEPT ![i] = t]]
    BY <1>2 DEF Calls
<1>4. task' \in [Workers -> [Tasks -> TaskType]]
    BY <1>1, <1>3, Boards
<1>5. \A v \in Workers, j \in Tasks :
         task'[v][j] = IF v # w THEN task[v][j] ELSE IF j = i THEN t ELSE CancelTimer(w)[j]
    BY <1>3, Boards
<1>6. p = "revoke" => Quiet(t)
    BY <1>1 DEF Quiet, Requested, Firing
<1>7. NothingLeft /\ revoked = "in time" => \A v \in Workers, j \in Tasks : Quiet(task[v][j])
    BY DEF NothingLeft, Quiet
<1> QED
    BY <1>4, <1>5, <1>6, <1>7, Boards

\* The step of a task and of a call of Redis: what it makes of the keys and of its slot.
LEMMA TaskSteps ==
    ASSUME Clocks, NEW w \in Workers, NEW i \in Tasks, Answer(w, i) \/ Fire(w, i) \/ Arrive(w, i)
    PROVE  /\ pending' \in 0 .. (Grace + Slack) /\ faults' \in 0 .. MaxFaults
           /\ task' \in [Workers -> [Tasks -> TaskType]]
           /\ timers' \in [Workers -> 0 .. MaxTasks]
           /\ revoked' \in {"no", "late", "in time"}
<1>n. /\ 0 \in 0 .. (Grace + Slack) /\ (Grace + Slack) \in 0 .. (Grace + Slack)
      /\ 0 \in 0 .. MaxTasks /\ i \in 0 .. MaxTasks
    BY Numbers DEF Tasks
<1>0. /\ pending \in 0 .. (Grace + Slack) /\ faults \in 0 .. MaxFaults
      /\ task \in [Workers -> [Tasks -> TaskType]]
      /\ timers \in [Workers -> 0 .. MaxTasks] /\ revoked \in {"no", "late", "in time"}
    BY DEF Clocks, TaskType
<1>t. task[w][i] \in TaskType /\ task[w][i].sent \in Commands
    BY <1>0 DEF TaskType
<1>f. NoFault \/ Fault => faults' \in 0 .. MaxFaults
  <2>1. faults \in 0 .. MaxFaults
    BY <1>0
  <2>2. Fault => faults < MaxFaults /\ faults' = faults + 1
    BY DEF Fault
  <2>3. NoFault => faults' = faults
    BY DEF NoFault
  <2> QED
    BY <2>1, <2>2, <2>3, Numbers
<1>p. /\ PopTimer(w) => timers' \in [Workers -> 0 .. MaxTasks]
      /\ UNCHANGED timers => timers' \in [Workers -> 0 .. MaxTasks]
    BY <1>0, <1>n DEF PopTimer
<1>e. ASSUME NEW c \in Commands
      PROVE  /\ Ends(w, i, c) => timers' \in [Workers -> 0 .. MaxTasks]
             /\ Ends(w, i, c) => task' \in [Workers -> [Tasks -> TaskType]]
    BY <1>p, TaskRecords, BecomeKeeps DEF Ends, Become
<1>7. CASE RequestStore(w, i)
  <2>1. CASE Starts(w, i) /\ NoFault /\ pending' = Grace + Slack
    <3>1. [Idle EXCEPT !.at = "sleep", !.left = Grace + Slack] \in TaskType
        BY <1>n DEF Idle, TaskType, Places, Commands
    <3>3. task' \in [Workers -> [Tasks -> TaskType]]
        BY <1>0, <2>1, <3>1, BecomeKeeps DEF Starts, Become
    <3>4. timers' \in [Workers -> 0 .. MaxTasks]
        BY <1>0, <1>n, <2>1 DEF Starts
    <3> QED
        BY <1>0, <1>7, <1>n, <1>f, <2>1, <3>3, <3>4 DEF RequestStore
  <2>2. CASE Fault /\ Become(w, i, Dropped(task[w][i])) /\ UNCHANGED <<pending, timers>>
    <3>1. task' \in [Workers -> [Tasks -> TaskType]]
        BY <1>t, <2>2, TaskRecords, BecomeKeeps DEF Become
    <3> QED
        BY <1>0, <1>7, <1>f, <2>2, <3>1 DEF RequestStore
  <2> QED
    BY <1>7, <2>1, <2>2 DEF RequestStore
<1>8. CASE RevokeDelete(w, i)
  <2>1. task' \in [Workers -> [Tasks -> TaskType]]
    BY <1>t, <1>8, TaskRecords, BecomeKeeps DEF RevokeDelete, Become
  <2>2. Found \in {"no", "late", "in time"}
    BY DEF Found
  <2> QED
    BY <1>0, <1>8, <1>n, <1>f, <2>1, <2>2 DEF RevokeDelete
<1>9. CASE Wake(w, i)
  <2>1. [task[w][i] EXCEPT !.at = "get"] \in TaskType
    BY <1>t, TaskRecords DEF Places
  <2>2. task' \in [Workers -> [Tasks -> TaskType]]
    BY <1>9, <2>1, BecomeKeeps DEF Wake, Become
  <2> QED
    BY <1>0, <1>9, <1>f, <2>2 DEF Wake
<1>10. CASE CheckPending(w, i)
  <2>1. [task[w][i] EXCEPT !.at = "set", !.left = 0] \in TaskType
    BY <1>t, <1>n DEF TaskType, Places
  <2>2. Fires(w, i) => task' \in [Workers -> [Tasks -> TaskType]] /\ UNCHANGED timers
    BY <2>1, BecomeKeeps DEF Fires, Become
  <2>3. "none" \in Commands
    BY DEF Commands
  <2> QED
    BY <1>0, <1>10, <1>e, <1>f, <1>p, <2>2, <2>3 DEF CheckPending
<1>11. CASE SetFlag(w, i)
  <2>1. [task[w][i] EXCEPT !.at = "delete"] \in TaskType
    BY <1>t, TaskRecords DEF Places
  <2>2. Become(w, i, [task[w][i] EXCEPT !.at = "delete"]) => task' \in [Workers -> [Tasks -> TaskType]]
    BY <2>1, BecomeKeeps DEF Become
  <2>3. "flag" \in Commands
    BY DEF Commands
  <2> QED
    BY <1>0, <1>11, <1>e, <1>f, <1>p, <2>2, <2>3 DEF SetFlag
<1>12. CASE DeletePending(w, i)
  <2>1. "none" \in Commands /\ "unpend" \in Commands
    BY DEF Commands
  <2> QED
    BY <1>0, <1>12, <1>e, <1>f, <1>n, <2>1 DEF DeletePending
<1>13. CASE Unwind(w, i)
  <2>1. PICK c \in Commands : c = task[w][i].sent
    BY <1>t
  <2> QED
    BY <1>0, <1>13, <1>e, <1>f, <2>1 DEF Unwind, Ends
<1>14. CASE Arrive(w, i)
  <2>1. [task[w][i] EXCEPT !.sent = "none"] \in TaskType
    BY <1>t, TaskRecords DEF Commands
  <2>2. task' \in [Workers -> [Tasks -> TaskType]]
    BY <1>14, <2>1, BecomeKeeps DEF Arrive, Become
  <2> QED
    BY <1>0, <1>14, <1>n, <2>2 DEF Arrive
<1> QED
    BY <1>7, <1>8, <1>9, <1>10, <1>11, <1>12, <1>13, <1>14 DEF Answer, Fire

\* Every step keeps the types and the clocks.
LEMMA StepClocks == Clocks /\ [Next]_vars => Clocks'
<1> SUFFICES ASSUME Clocks, [Next]_vars PROVE Clocks'
    OBVIOUS
<1>0. /\ pending \in 0 .. (Grace + Slack) /\ faults \in 0 .. MaxFaults
      /\ task \in [Workers -> [Tasks -> TaskType]]
      /\ timers \in [Workers -> 0 .. MaxTasks] /\ revoked \in {"no", "late", "in time"}
    BY DEF Clocks, TaskType
<1>f. NoFault \/ Fault => faults' \in 0 .. MaxFaults
  <2>1. faults \in 0 .. MaxFaults
    BY <1>0
  <2>2. Fault => faults < MaxFaults /\ faults' = faults + 1
    BY DEF Fault
  <2>3. NoFault => faults' = faults
    BY DEF NoFault
  <2> QED
    BY <2>1, <2>2, <2>3, Numbers
<1>p. ASSUME NEW w \in Workers, PopTimer(w) PROVE timers' \in [Workers -> 0 .. MaxTasks]
  <2>1. 0 \in 0 .. MaxTasks
    BY Numbers
  <2> QED
    BY <1>0, <1>p, <2>1 DEF PopTimer
<1>1. ASSUME NEW w \in Workers, Request(w) PROVE Clocks'
  <2>1. PICK i \in Tasks : Calls(w, i, "store")
    BY <1>1 DEF Request
  <2>2. task' \in [Workers -> [Tasks -> TaskType]]
    BY <2>1, CallsKeep DEF Places
  <2> QED
    BY <1>0, <1>1, <1>p, <2>2 DEF Request, Clocks, TaskType
<1>2. ASSUME NEW w \in Workers, Revoke(w) PROVE Clocks'
  <2>1. PICK i \in Tasks : Calls(w, i, "revoke")
    BY <1>2 DEF Revoke
  <2>2. task' \in [Workers -> [Tasks -> TaskType]]
    BY <2>1, CallsKeep DEF Places
  <2> QED
    BY <1>0, <1>2, <1>p, <2>2 DEF Revoke, Clocks, TaskType
<1>3. ASSUME NEW w \in Workers, Close(w) PROVE Clocks'
  <2>1. \A i \in Tasks : Dropped(task[w][i]) \in TaskType
    BY <1>0, TaskRecords
  <2>2. task' \in [Workers -> [Tasks -> TaskType]]
    BY <1>0, <1>3, <2>1 DEF Close
  <2> QED
    BY <1>0, <1>3, <1>f, <1>p, <2>2 DEF Close, Clocks, TaskType
<1>4. ASSUME NEW w \in Workers, NEW i \in Tasks, Answer(w, i) \/ Fire(w, i) \/ Arrive(w, i)
      PROVE  Clocks'
    BY <1>4, TaskSteps DEF Clocks, TaskType
<1>5. CASE Tick
  <2>1. \A n \in 0 .. (Grace + Slack) : Down(n) \in 0 .. (Grace + Slack)
    BY Numbers DEF Down
  <2>2. ASSUME NEW w \in Workers, NEW i \in Tasks
        PROVE  [task[w][i] EXCEPT !.left = Down(@)] \in TaskType
    <3>1. PICK t \in TaskType : t = task[w][i]
        BY <1>0
    <3>2. t.left \in 0 .. (Grace + Slack)
        BY DEF TaskType
    <3>3. [t EXCEPT !.left = Down(t.left)] \in TaskType
        BY <2>1, <3>2, TaskRecords
    <3> QED
        BY <3>1, <3>3
  <2>3. task' \in [Workers -> [Tasks -> TaskType]]
    BY <1>5, <2>2 DEF Tick
  <2>4. NoFault \/ Fault
    BY <1>5 DEF Tick
  <2>5. pending' \in 0 .. (Grace + Slack)
    BY <1>0, <1>5, <2>1 DEF Tick
  <2> QED
    BY <1>0, <1>5, <1>f, <2>3, <2>4, <2>5 DEF Tick, Clocks, TaskType
<1>6. CASE FlagExpires
    BY <1>0, <1>6 DEF FlagExpires, Clocks, TaskType
<1>7. CASE UNCHANGED vars
    BY <1>0, <1>7 DEF vars, Clocks, TaskType
<1> QED
    BY <1>1, <1>2, <1>3, <1>4, <1>5, <1>6, <1>7 DEF Next

\* A revoke in time has found nothing that could set the flag, and until the next request
\* no step makes such a thing: a timer that wakes finds no pending key.
LEMMA StepLeft == RevokeInv /\ [Next]_vars => NothingLeft'
<1> SUFFICES ASSUME Clocks, NothingLeft, [Next]_vars, revoked' = "in time"
             PROVE  /\ pending' = 0
                    /\ \A v \in Workers, j \in Tasks : Quiet(task'[v][j])
    BY DEF RevokeInv, NothingLeft, Quiet
<1>0. task \in [Workers -> [Tasks -> TaskType]]
    BY DEF Clocks, TaskType
<1>i. Quiet(Idle)
    BY TaskRecords DEF Quiet, Requested, Firing
<1>1. ASSUME NEW w \in Workers, NEW i \in Tasks, RevokeDelete(w, i), revoked # "in time"
      PROVE  pending' = 0 /\ \A v \in Workers, j \in Tasks : Quiet(task'[v][j])
  <2>1. pending' = 0 /\ revoked' = Found /\ Become(w, i, Idle)
    BY <1>1 DEF RevokeDelete
  <2>2. \A v \in Workers, j \in Tasks : Quiet(task[v][j])
    BY <2>1 DEF Found, Quiet
  <2> QED
    BY <2>1, <2>2, <1>i, TaskRecords, BecomeKeeps DEF Become
<1>2. CASE revoked # "in time"
    BY <1>1, <1>2
    DEF Next, Answer, Fire, Request, Revoke, Close, RequestStore, Wake, CheckPending, SetFlag,
        DeletePending, Unwind, Arrive, Tick, FlagExpires, vars
<1>3. CASE revoked = "in time"
  <2>0. pending = 0 /\ \A v \in Workers, j \in Tasks : Quiet(task[v][j])
    BY <1>3 DEF NothingLeft, Quiet
  <2>b. ASSUME NEW w \in Workers, NEW i \in Tasks, NEW t \in TaskType, Quiet(t),
               task' = [task EXCEPT ![w][i] = t]
        PROVE  \A v \in Workers, j \in Tasks : Quiet(task'[v][j])
    BY <2>b, <2>0, BecomeKeeps
  <2>1. ASSUME NEW w \in Workers, Request(w) PROVE FALSE
    BY <2>1 DEF Request
  <2>2. ASSUME NEW w \in Workers, Revoke(w)
        PROVE  pending' = 0 /\ \A v \in Workers, j \in Tasks : Quiet(task'[v][j])
    <3>1. PICK i \in Tasks : Calls(w, i, "revoke")
        BY <2>2 DEF Revoke
    <3> QED
        BY <1>3, <2>0, <2>2, <3>1, CallsKeep DEF Revoke, Places
  <2>3. ASSUME NEW w \in Workers, Close(w)
        PROVE  pending' = 0 /\ \A v \in Workers, j \in Tasks : Quiet(task'[v][j])
    <3>1. \A i \in Tasks : Quiet(Dropped(task[w][i]))
        BY <1>0, <2>0, TaskRecords DEF Quiet
    <3>2. \A v \in Workers, j \in Tasks :
             task'[v][j] = IF v = w THEN Dropped(task[w][j]) ELSE task[v][j]
        BY <1>0, <2>3 DEF Close
    <3>3. pending' = 0
        BY <2>0, <2>3 DEF Close
    <3>4. ASSUME NEW v \in Workers, NEW j \in Tasks PROVE Quiet(task'[v][j])
        BY <2>0, <3>1, <3>2, Zenon
    <3> QED
        BY <3>3, <3>4
  <2>4. ASSUME NEW w \in Workers, NEW i \in Tasks, Answer(w, i) \/ Fire(w, i) \/ Arrive(w, i)
        PROVE  pending' = 0 /\ \A v \in Workers, j \in Tasks : Quiet(task'[v][j])
    <3>1. PICK t \in TaskType : t = task[w][i]
        BY <1>0
    <3>2. Quiet(t) /\ t.at \notin {"store", "set"} /\ t.sent \notin {"pend", "flag"}
        BY <2>0, <3>1 DEF Quiet, Requested, Firing
    <3>3. pending' = 0
        BY <2>0, <2>4, <3>1, <3>2
        DEF Answer, Fire, RequestStore, RevokeDelete, Wake, CheckPending, SetFlag,
            DeletePending, Unwind, Arrive
    <3>4. PICK n \in TaskType : task' = [task EXCEPT ![w][i] = n] /\ Quiet(n)
      <4>e. ASSUME NEW c \in Commands, c \notin {"pend", "flag"}
            PROVE  [Idle EXCEPT !.sent = c] \in TaskType /\ Quiet([Idle EXCEPT !.sent = c])
        BY <4>e, TaskRecords DEF Idle, Quiet, Requested, Firing
      <4>a. ASSUME NEW p \in Places, p \notin {"store", "set"}
            PROVE  [t EXCEPT !.at = p] \in TaskType /\ Quiet([t EXCEPT !.at = p])
        BY <4>a, <3>2, TaskRecords DEF TaskType, Quiet, Requested, Firing
      <4>1. CASE RevokeDelete(w, i)
        <5>1. Dropped(t) \in TaskType /\ Quiet(Dropped(t))
            BY <3>2, TaskRecords DEF Quiet
        <5> QED
            BY <4>1, <5>1, <1>i, <3>1, TaskRecords DEF RevokeDelete, Become
      <4>2. CASE Wake(w, i)
        <5>1. [t EXCEPT !.at = "get"] \in TaskType /\ Quiet([t EXCEPT !.at = "get"])
            BY <4>a DEF Places
        <5> QED
            BY <4>2, <3>1, <5>1 DEF Wake, Become
      <4>3. CASE CheckPending(w, i) \/ DeletePending(w, i)
        <5>1. "none" \in Commands /\ "unpend" \in Commands
            BY DEF Commands
        <5>2. Ends(w, i, "none") \/ Ends(w, i, "unpend")
            BY <4>3, <2>0, Zenon DEF CheckPending, DeletePending
        <5> QED
            BY <4>e, <5>1, <5>2 DEF Ends, Become
      <4>4. CASE Unwind(w, i)
        <5>1. t.sent \in Commands
            BY DEF TaskType
        <5> QED
            BY <4>4, <3>1, <3>2, <4>e, <5>1 DEF Unwind, Ends, Become
      <4>5. CASE Arrive(w, i)
        <5>1. [t EXCEPT !.sent = "none"] \in TaskType /\ Quiet([t EXCEPT !.sent = "none"])
            BY <3>2, TaskRecords DEF Commands, TaskType, Quiet, Requested, Firing
        <5> QED
            BY <4>5, <3>1, <5>1 DEF Arrive, Become
      <4>6. ~RequestStore(w, i) /\ ~SetFlag(w, i)
        BY <3>1, <3>2 DEF RequestStore, SetFlag
      <4> QED
        BY <2>4, <4>1, <4>2, <4>3, <4>4, <4>5, <4>6 DEF Answer, Fire
    <3> QED
        BY <2>b, <3>3, <3>4
  <2>5. CASE Tick
    <3>1. pending' = 0
        BY <2>0, <2>5 DEF Tick, Down
    <3>2. ASSUME NEW v \in Workers, NEW j \in Tasks PROVE Quiet(task'[v][j])
      <4>1. PICK t \in TaskType : t = task[v][j]
        BY <1>0
      <4>2. task'[v][j] = [t EXCEPT !.left = Down(t.left)]
        BY <2>5, <4>1 DEF Tick
      <4>3. Quiet(t)
        BY <2>0, <4>1
      <4> QED
        BY <4>2, <4>3 DEF Quiet, Requested, Firing, TaskType
    <3> QED
        BY <3>1, <3>2
  <2>6. CASE FlagExpires \/ UNCHANGED vars
    BY <2>0, <2>6 DEF FlagExpires, vars
  <2> QED
    BY <2>1, <2>2, <2>3, <2>4, <2>5, <2>6 DEF Next
<1> QED
    BY <1>2, <1>3

\* What is written to the flag is a truth value.
LEMMA StepFlags == Flags /\ [Next]_vars => Flags'
<1> SUFFICES ASSUME Flags, [Next]_vars PROVE Flags'
    OBVIOUS
<1> USE DEF Flags
<1>1. ASSUME NEW w \in Workers, Request(w) \/ Revoke(w) \/ Close(w) PROVE Flags'
    BY <1>1 DEF Request, Revoke, Close, Fault
<1>2. ASSUME NEW w \in Workers, NEW i \in Tasks, Answer(w, i) \/ Fire(w, i) PROVE Flags'
    BY <1>2 DEF Fire, Answer, RequestStore, RevokeDelete, Wake, CheckPending, SetFlag,
                DeletePending, Unwind, NoFault, Fault
<1>3. ASSUME NEW w \in Workers, NEW i \in Tasks, Arrive(w, i) PROVE Flags'
    BY <1>3 DEF Arrive
<1>4. CASE FlagExpires \/ UNCHANGED vars
    BY <1>4 DEF FlagExpires, vars
<1>5. CASE Tick
    BY <1>5 DEF Tick, NoFault, Fault
<1> QED
    BY <1>1, <1>2, <1>3, <1>4, <1>5 DEF Next

\* The keys, the timers and the calls keep their types, and no clock runs past its end.
THEOREM TypeCorrect == Spec => []TypeOK
<1>1. Init => Flags
    BY DEF Init, Flags
<1>2. Init => Clocks
    BY InitRevoke DEF RevokeInv
<1> QED
    BY <1>1, <1>2, StepClocks, StepFlags, PTL DEF Spec, TypeOK

\* The flag is set by a timer that has read the pending key, or by what such a timer left
\* on the wire.
LEMMA FlagIsFired ==
    ASSUME [Next]_vars, ~flag, flag'
    PROVE  \E w \in Workers, i \in Tasks : Firing(task[w][i])
<1>1. ASSUME NEW w \in Workers, NEW i \in Tasks, Answer(w, i) \/ Fire(w, i) \/ Arrive(w, i)
      PROVE  Firing(task[w][i])
    BY <1>1
    DEF Answer, Fire, RequestStore, RevokeDelete, Wake, CheckPending, SetFlag, DeletePending,
        Unwind, Arrive, Firing
<1> QED
    BY <1>1 DEF Next, Request, Revoke, Close, Tick, FlagExpires, vars

\* A revoke is final, on whichever worker it and the request were taken: once its DELETE
\* is answered and no timer had read the pending key by then, neither a timer of another
\* worker, nor one that dropped out of _timers, nor a command on the wire sets the flag
\* before the next request (revoke_cancel, _fire_after_grace).
THEOREM RevokeHolds == Spec => RevokeIsFinal
<1>1. RevokeInv /\ [Next]_vars => RevokeInv'
    BY StepClocks, StepLeft DEF RevokeInv
<1>2. RevokeInv /\ [Next]_vars => [~flag /\ flag' => revoked # "in time"]_vars
    BY FlagIsFired DEF RevokeInv, NothingLeft
<1> QED
    BY <1>1, <1>2, InitRevoke, PTL DEF Spec, RevokeIsFinal
=============================================================================
