------------------------- MODULE TriageWorkerProofs -------------------------
(***************************************************************************)
(* Proofs about TriageWorker, for any number of messages, workers, permits, *)
(* deliveries and faults. Each property has its own inductive invariant,    *)
(* stated next to it in TriageWorker; all rest on TypeOK.                   *)
(***************************************************************************)
EXTENDS TriageWorker, FiniteSetTheorems, TLAPS

\* A delivery is a message with the number of its delivery.
LEMMA DeliveryParts ==
    /\ \A d \in Deliveries :
          d[1] \in Messages /\ d[2] \in 1..MaxDeliver /\ d = <<d[1], d[2]>>
    /\ \A m \in Messages, n \in 1..MaxDeliver : <<m, n>> \in Deliveries
  BY DEF Deliveries

\* The initial states satisfy every invariant.
LEMMA InitInv ==
    ASSUME Init
    PROVE  TypeOK /\ HandledInv /\ DrainedInv
  <1> USE DEF Init
  <1>1. TypeOK
    BY KindAssumption, LimitAssumption, FaultsAssumption DEF TypeOK, Loops, Tasks
  <1>2. HandledInv
    BY DEF HandledInv, SettledIsHandled
  <1>3. DrainedInv
    BY WorkerAssumption DEF DrainedInv, StoppedIsDrained, Has, Waiting
  <1> QED
    BY <1>1, <1>2, <1>3

\* Every step of a run loop, of a task and of JetStream keeps the types, and a
\* delivery has an owner exactly while somebody is busy with it.
LEMMA TypeStep ==
    ASSUME TypeOK, [Next]_vars
    PROVE  TypeOK'
  <1> USE WorkerAssumption, LimitAssumption, FaultsAssumption, DeliveryParts
      DEF TypeOK, Loops, Tasks
  <1>1. CASE \E w \in Workers : Start(w) \/ BatchDone(w) \/ LoopEnds(w) \/ Drained(w)
    BY <1>1 DEF Start, BatchDone, LoopEnds, Drained, At, queue, tasks
  <1>2. CASE \E w \in Workers : \E ms \in SUBSET Available : Fetch(w, ms)
    BY <1>2 DEF Fetch, HandOut, Available, IsNext, At
  <1>3. CASE \E w \in Workers : \E ms \in SUBSET Available : FetchFails(w, ms)
    BY <1>3 DEF FetchFails, HandOut, Available, Fault, process, tasks
  <1>4. CASE \E w \in Workers : \E d \in Deliveries : Dispatch(w, d)
    BY <1>4 DEF Dispatch, Waiting, Has, queue
  <1>5. CASE \E d \in Deliveries : Verify(d)
    BY <1>5 DEF Verify, Goto, queue, process
  <1>6. CASE \E d \in Deliveries : Check(d)
    BY <1>6 DEF Check, Goto, NoFault, Fault, queue, process
  <1>7. CASE \E d \in Deliveries : Triage(d)
    BY <1>7 DEF Triage, Goto, NoFault, Fault, queue, process
  <1>8. CASE \E d \in Deliveries : Ack(d)
    BY <1>8 DEF Ack, Release, NoFault, Fault
  <1>9. CASE \E d \in Deliveries : Nak(d)
    BY <1>9 DEF Nak, Release, NoFault, Fault
  <1>10. CASE \E d \in Deliveries : Term(d)
    BY <1>10 DEF Term, Release, NoFault, Fault
  <1>11. CASE \E w \in Workers : Stop(w)
    BY <1>11 DEF Stop, queue, tasks
  <1>12. CASE \E w \in Workers : Crash(w)
    BY <1>12 DEF Crash, At, Fault, queue
  <1>13. CASE \E m \in Messages : AckWaitExpires(m)
    BY <1>13 DEF AckWaitExpires, process, tasks
  <1>14. CASE \E m \in Messages : SetFlag(m)
    BY <1>14 DEF SetFlag, queue, process, tasks
  <1>15. CASE UNCHANGED vars
    BY <1>15 DEF vars, queue, process, tasks
  <1> QED
    BY <1>1, <1>2, <1>3, <1>4, <1>5, <1>6, <1>7, <1>8, <1>9, <1>10, <1>11, <1>12, <1>13, <1>14, <1>15
    DEF Next, Loop, Handle, Environment

\* Every step keeps HandledInv.
LEMMA HandledStep ==
    ASSUME TypeOK, HandledInv, [Next]_vars
    PROVE  HandledInv'
  <1> USE DeliveryParts DEF HandledInv, SettledIsHandled, TypeOK
  <1>1. CASE \E w \in Workers : Start(w) \/ BatchDone(w) \/ LoopEnds(w) \/ Drained(w)
    BY <1>1 DEF Start, BatchDone, LoopEnds, Drained, At, queue, tasks
  <1>2. CASE \E w \in Workers : \E ms \in SUBSET Available : Fetch(w, ms)
    BY <1>2 DEF Fetch, HandOut, Available, IsNext, At
  <1>3. CASE \E w \in Workers : \E ms \in SUBSET Available : FetchFails(w, ms)
    BY <1>3 DEF FetchFails, HandOut, Available, Fault, process, tasks
  <1>4. CASE \E w \in Workers : \E d \in Deliveries : Dispatch(w, d)
    BY <1>4 DEF Dispatch, Waiting, Has, queue
  <1>5. CASE \E d \in Deliveries : Verify(d)
    BY <1>5 DEF Verify, Goto, queue, process
  <1>6. CASE \E d \in Deliveries : Check(d)
    BY <1>6 DEF Check, Goto, NoFault, Fault, queue, process
  <1>7. CASE \E d \in Deliveries : Triage(d)
    BY <1>7 DEF Triage, Goto, NoFault, Fault, queue, process
  <1>8. CASE \E d \in Deliveries : Ack(d)
    BY <1>8 DEF Ack, Release, NoFault, Fault
  <1>9. CASE \E d \in Deliveries : Nak(d)
    BY <1>9 DEF Nak, Release, NoFault, Fault
  <1>10. CASE \E d \in Deliveries : Term(d)
    BY <1>10 DEF Term, Release, NoFault, Fault
  <1>11. CASE \E w \in Workers : Stop(w)
    BY <1>11 DEF Stop, queue, tasks
  <1>12. CASE \E w \in Workers : Crash(w)
    BY <1>12 DEF Crash, At, Fault, queue
  <1>13. CASE \E m \in Messages : AckWaitExpires(m)
    BY <1>13 DEF AckWaitExpires, process, tasks
  <1>14. CASE \E m \in Messages : SetFlag(m)
    BY <1>14 DEF SetFlag, queue, process, tasks
  <1>15. CASE UNCHANGED vars
    BY <1>15 DEF vars, queue, process, tasks
  <1> QED
    BY <1>1, <1>2, <1>3, <1>4, <1>5, <1>6, <1>7, <1>8, <1>9, <1>10, <1>11, <1>12, <1>13, <1>14, <1>15
    DEF Next, Loop, Handle, Environment

\* Every step keeps DrainedInv.
LEMMA DrainedStep ==
    ASSUME TypeOK, DrainedInv, [Next]_vars
    PROVE  DrainedInv'
  <1> USE WorkerAssumption DEF DrainedInv, StoppedIsDrained, Has, Waiting, TypeOK
  <1>1. CASE \E w \in Workers : Start(w) \/ BatchDone(w) \/ LoopEnds(w) \/ Drained(w)
    BY <1>1 DEF Start, BatchDone, LoopEnds, Drained, Inflight, At, queue, tasks
  <1>2. CASE \E w \in Workers : \E ms \in SUBSET Available : Fetch(w, ms)
    BY <1>2 DEF Fetch, HandOut, Available, IsNext, At
  <1>3. CASE \E w \in Workers : \E ms \in SUBSET Available : FetchFails(w, ms)
    BY <1>3 DEF FetchFails, HandOut, Available, Fault, process, tasks
  <1>4. CASE \E w \in Workers : \E d \in Deliveries : Dispatch(w, d)
    BY <1>4 DEF Dispatch, Waiting, Has, queue
  <1>5. CASE \E d \in Deliveries : Verify(d)
    BY <1>5 DEF Verify, Goto, queue, process
  <1>6. CASE \E d \in Deliveries : Check(d)
    BY <1>6 DEF Check, Goto, NoFault, Fault, queue, process
  <1>7. CASE \E d \in Deliveries : Triage(d)
    BY <1>7 DEF Triage, Goto, NoFault, Fault, queue, process
  <1>8. CASE \E d \in Deliveries : Ack(d)
    BY <1>8 DEF Ack, Release, NoFault, Fault
  <1>9. CASE \E d \in Deliveries : Nak(d)
    BY <1>9 DEF Nak, Release, NoFault, Fault
  <1>10. CASE \E d \in Deliveries : Term(d)
    BY <1>10 DEF Term, Release, NoFault, Fault
  <1>11. CASE \E w \in Workers : Stop(w)
    BY <1>11 DEF Stop, queue, tasks
  <1>12. CASE \E w \in Workers : Crash(w)
    BY <1>12 DEF Crash, At, Fault, queue
  <1>13. CASE \E m \in Messages : AckWaitExpires(m)
    BY <1>13 DEF AckWaitExpires, process, tasks
  <1>14. CASE \E m \in Messages : SetFlag(m)
    BY <1>14 DEF SetFlag, queue, process, tasks
  <1>15. CASE UNCHANGED vars
    BY <1>15 DEF vars, queue, process, tasks
  <1> QED
    BY <1>1, <1>2, <1>3, <1>4, <1>5, <1>6, <1>7, <1>8, <1>9, <1>10, <1>11, <1>12, <1>13, <1>14, <1>15
    DEF Next, Loop, Handle, Environment

\* A process can have finitely many deliveries in hand.
LEMMA FiniteInflight ==
    /\ IsFiniteSet(Deliveries)
    /\ \A w : IsFiniteSet(Inflight(w))
  <1>1. IsFiniteSet(Deliveries)
    <2>1. IsFiniteSet(1..MaxDeliver)
      BY FS_Interval, LimitAssumption
    <2> QED
      BY <2>1, FS_Product, MessagesAssumption DEF Deliveries
  <1>2. \A w : Inflight(w) \subseteq Deliveries
    BY DEF Inflight, Has
  <1> QED
    BY <1>1, <1>2, FS_Subset

\* One permit more and one task less: the finally of _dispatch_one.
LEMMA ReleaseBalances ==
    ASSUME TypeOK, PermitsBalance, NEW e \in Deliveries,
           task[e] \notin {"none", "held"}, Release(e)
    PROVE  PermitsBalance'
  <1> USE DEF TypeOK, PermitsBalance
  <1>1. owner[e] \in Workers
    BY WorkerAssumption
  <1> SUFFICES ASSUME NEW w \in Workers
               PROVE  sem'[w] + Cardinality(Inflight(w)') = MaxInflight
    OBVIOUS
  <1>2. CASE w = owner[e]
    <2>1. e \in Inflight(w) /\ Inflight(w)' = Inflight(w) \ {e}
      BY <1>1, <1>2, WorkerAssumption DEF Inflight, Has, Release
    <2>2. Cardinality(Inflight(w)') = Cardinality(Inflight(w)) - 1
      BY <2>1, FiniteInflight, FS_RemoveElement
    <2>3. Cardinality(Inflight(w)) \in Nat
      BY FiniteInflight, FS_CardinalityType
    <2>4. sem'[w] = sem[w] + 1
      BY <1>2 DEF Release
    <2> QED
      BY <2>2, <2>3, <2>4, LimitAssumption
  <1>3. CASE w # owner[e]
    <2>1. Inflight(w)' = Inflight(w)
      BY <1>1, <1>3, WorkerAssumption DEF Inflight, Has, Release
    <2>2. sem'[w] = sem[w]
      BY <1>3 DEF Release
    <2> QED
      BY <2>1, <2>2
  <1> QED
    BY <1>2, <1>3

\* A delivery in hand has been handed out, and stays so.
LEMMA NumberedStep ==
    ASSUME TypeOK, PermitsInv, [Next]_vars
    PROVE  \A d \in Deliveries : task'[d] # "none" => d[2] <= delivered'[d[1]]
  <1> USE LimitAssumption, DeliveryParts DEF PermitsInv, TypeOK
  <1>1. CASE \E w \in Workers : Start(w) \/ BatchDone(w) \/ LoopEnds(w) \/ Drained(w)
    BY <1>1 DEF Start, BatchDone, LoopEnds, Drained, At, queue, tasks
  <1>2. CASE \E w \in Workers : \E ms \in SUBSET Available : Fetch(w, ms)
    BY <1>2 DEF Fetch, HandOut, Available, IsNext, At
  <1>3. CASE \E w \in Workers : \E ms \in SUBSET Available : FetchFails(w, ms)
    BY <1>3 DEF FetchFails, HandOut, Available, Fault, process, tasks
  <1>4. CASE \E w \in Workers : \E d \in Deliveries : Dispatch(w, d)
    BY <1>4 DEF Dispatch, Waiting, Has, queue
  <1>5. CASE \E d \in Deliveries : Verify(d)
    BY <1>5 DEF Verify, Goto, queue, process
  <1>6. CASE \E d \in Deliveries : Check(d)
    BY <1>6 DEF Check, Goto, NoFault, Fault, queue, process
  <1>7. CASE \E d \in Deliveries : Triage(d)
    BY <1>7 DEF Triage, Goto, NoFault, Fault, queue, process
  <1>8. CASE \E d \in Deliveries : Ack(d)
    BY <1>8 DEF Ack, Release, NoFault, Fault
  <1>9. CASE \E d \in Deliveries : Nak(d)
    BY <1>9 DEF Nak, Release, NoFault, Fault
  <1>10. CASE \E d \in Deliveries : Term(d)
    BY <1>10 DEF Term, Release, NoFault, Fault
  <1>11. CASE \E w \in Workers : Stop(w)
    BY <1>11 DEF Stop, queue, tasks
  <1>12. CASE \E w \in Workers : Crash(w)
    BY <1>12 DEF Crash, At, Fault, queue
  <1>13. CASE \E m \in Messages : AckWaitExpires(m)
    BY <1>13 DEF AckWaitExpires, process, tasks
  <1>14. CASE \E m \in Messages : SetFlag(m)
    BY <1>14 DEF SetFlag, queue, process, tasks
  <1>15. CASE UNCHANGED vars
    BY <1>15 DEF vars, queue, process, tasks
  <1> QED
    BY <1>1, <1>2, <1>3, <1>4, <1>5, <1>6, <1>7, <1>8, <1>9, <1>10, <1>11, <1>12, <1>13, <1>14, <1>15
    DEF Next, Loop, Handle, Environment

\* Every step keeps the permits in balance.
LEMMA PermitsStep ==
    ASSUME TypeOK, PermitsInv, [Next]_vars
    PROVE  PermitsBalance'
  <1> USE DEF TypeOK, PermitsBalance, PermitsInv
  <1> DEFINE Same == sem' = sem /\ \A w \in Workers : Inflight(w)' = Inflight(w)
  <1>0. Same => PermitsBalance'
    OBVIOUS
  <1>1. CASE \E w \in Workers : Start(w) \/ BatchDone(w) \/ LoopEnds(w) \/ Drained(w)
    <2>1. Same
      BY <1>1 DEF Start, BatchDone, LoopEnds, Drained, tasks, Inflight, Has
    <2> QED
      BY <2>1, <1>0
  <1>2. CASE \E w \in Workers : \E ms \in SUBSET Available : Fetch(w, ms)
    <2>1. PICK v \in Workers, ms \in SUBSET Available : Fetch(v, ms)
      BY <1>2
    <2>2. \A d \in Deliveries : IsNext(d, ms) => task[d] = "none" /\ task'[d] = "held"
      BY <2>1, DeliveryParts DEF Fetch, IsNext
    <2>3. \A d \in Deliveries :
             ~IsNext(d, ms) => task'[d] = task[d] /\ owner'[d] = owner[d]
      BY <2>1 DEF Fetch
    <2>4. \A d \in Deliveries : task[d] = "none" => owner[d] = NoWorker
      OBVIOUS
    <2>5. \A w \in Workers : Inflight(w)' = Inflight(w)
      BY <2>2, <2>3, <2>4, WorkerAssumption DEF Inflight, Has
    <2>6. Same
      BY <2>1, <2>5 DEF Fetch
    <2> QED
      BY <2>6, <1>0
  <1>3. CASE \E w \in Workers : \E ms \in SUBSET Available : FetchFails(w, ms)
    <2>1. Same
      BY <1>3 DEF FetchFails, process, tasks, Inflight, Has
    <2> QED
      BY <2>1, <1>0
  <1>4. CASE \E w \in Workers : \E d \in Deliveries : Dispatch(w, d)
    <2>1. PICK v \in Workers, e \in Deliveries : Dispatch(v, e)
      BY <1>4
    <2> SUFFICES ASSUME NEW w \in Workers
                 PROVE  sem'[w] + Cardinality(Inflight(w)') = MaxInflight
      OBVIOUS
    <2>2. CASE w = v
      <3>1. e \notin Inflight(w) /\ Inflight(w)' = Inflight(w) \union {e}
        BY <2>1, <2>2 DEF Dispatch, Waiting, Inflight, Has
      <3>2. Cardinality(Inflight(w)') = Cardinality(Inflight(w)) + 1
        BY <3>1, FiniteInflight, FS_AddElement
      <3>3. Cardinality(Inflight(w)) \in Nat
        BY FiniteInflight, FS_CardinalityType
      <3>4. sem'[w] = sem[w] - 1 /\ sem[w] > 0
        BY <2>1, <2>2 DEF Dispatch
      <3> QED
        BY <3>2, <3>3, <3>4, LimitAssumption
    <2>3. CASE w # v
      <3>1. Inflight(w)' = Inflight(w) /\ sem'[w] = sem[w]
        BY <2>1, <2>3 DEF Dispatch, Waiting, Inflight, Has
      <3> QED
        BY <3>1
    <2> QED
      BY <2>2, <2>3
  <1>5. CASE \E d \in Deliveries : Verify(d) \/ Check(d) \/ Triage(d)
    <2>1. Same
      BY <1>5 DEF Verify, Check, Triage, Goto, process, Inflight, Has
    <2> QED
      BY <2>1, <1>0
  <1>6. CASE \E d \in Deliveries : Ack(d) \/ Nak(d) \/ Term(d)
    <2>1. PICK e \in Deliveries : Ack(e) \/ Nak(e) \/ Term(e)
      BY <1>6
    <2>2. Release(e) /\ task[e] \notin {"none", "held"}
      BY <2>1 DEF Ack, Nak, Term
    <2> QED
      BY <2>2, ReleaseBalances DEF PermitsInv
  <1>7. CASE \E w \in Workers : Crash(w)
    <2>1. PICK v \in Workers : Crash(v)
      BY <1>7
    <2> SUFFICES ASSUME NEW w \in Workers
                 PROVE  sem'[w] + Cardinality(Inflight(w)') = MaxInflight
      OBVIOUS
    <2>2. CASE w = v
      <3>1. Inflight(w)' = {} /\ sem'[w] = MaxInflight
        BY <2>1, <2>2, WorkerAssumption DEF Crash, Inflight, Has
      <3> QED
        BY <3>1, FS_EmptySet, LimitAssumption
    <2>3. CASE w # v
      <3>1. Inflight(w)' = Inflight(w) /\ sem'[w] = sem[w]
        BY <2>1, <2>3, WorkerAssumption DEF Crash, Inflight, Has
      <3> QED
        BY <3>1
    <2> QED
      BY <2>2, <2>3
  <1>8. CASE \/ \E w \in Workers : Stop(w)
             \/ \E m \in Messages : AckWaitExpires(m) \/ SetFlag(m)
             \/ UNCHANGED vars
    <2>1. Same
      BY <1>8 DEF Stop, AckWaitExpires, SetFlag, vars, process, tasks, Inflight, Has
    <2> QED
      BY <2>1, <1>0
  <1> QED
    BY <1>1, <1>2, <1>3, <1>4, <1>5, <1>6, <1>7, <1>8
    DEF Next, Loop, Handle, Environment

\* Every variable keeps its type.
THEOREM TypeCorrect == Spec => []TypeOK
  <1>1. Init => TypeOK
    BY InitInv
  <1>2. TypeOK /\ [Next]_vars => TypeOK'
    BY TypeStep
  <1> QED
    BY <1>1, <1>2, PTL DEF Spec

\* Whatever crashes, times out, is redelivered or acknowledged late, a genuine
\* alert leaves the work queue only after handle_message returned for it.
THEOREM NoAlertDropped == Spec => []SettledIsHandled
  <1>1. Init => HandledInv
    BY InitInv
  <1>2. TypeOK /\ HandledInv /\ [Next]_vars => HandledInv'
    BY HandledStep
  <1>3. HandledInv => SettledIsHandled
    BY DEF HandledInv
  <1> QED
    BY <1>1, <1>2, <1>3, TypeCorrect, PTL DEF Spec

\* On every path out of _dispatch_one the permit comes back, exactly once: never
\* more than max_inflight tasks, and never fewer permits than idle slots.
THEOREM InflightIsBounded == Spec => []PermitsBalance
  <1>1. Init => PermitsInv
    <2> SUFFICES ASSUME Init PROVE PermitsInv
      OBVIOUS
    <2>1. \A w \in Workers : Inflight(w) = {} /\ sem[w] = MaxInflight
      BY WorkerAssumption DEF Init, Inflight, Has
    <2>2. PermitsBalance
      BY <2>1, FS_EmptySet, LimitAssumption DEF PermitsBalance
    <2> QED
      BY <2>2 DEF PermitsInv, Init
  <1>2. TypeOK /\ PermitsInv /\ [Next]_vars => PermitsInv'
    BY PermitsStep, NumberedStep DEF PermitsInv
  <1>3. PermitsInv => PermitsBalance
    BY DEF PermitsInv
  <1> QED
    BY <1>1, <1>2, <1>3, TypeCorrect, PTL DEF Spec

\* run() returns only with every task gathered and every fetched message started.
THEOREM ShutdownIsClean == Spec => []StoppedIsDrained
  <1>1. Init => DrainedInv
    BY InitInv
  <1>2. TypeOK /\ DrainedInv /\ [Next]_vars => DrainedInv'
    BY DrainedStep
  <1>3. DrainedInv => StoppedIsDrained
    BY DEF DrainedInv
  <1> QED
    BY <1>1, <1>2, <1>3, TypeCorrect, PTL DEF Spec
=============================================================================
