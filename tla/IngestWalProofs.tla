-------------------------- MODULE IngestWalProofs --------------------------
(* What TLAPS proves of IngestWal, for any number of alerts, requests and   *)
(* reconcilers, any MaxAttempts and any number of faults.                   *)
EXTENDS IngestWal, TLAPS

USE AlertOfAssumption, OwnerAssumption, AlertAssumption, AttemptsAssumption,
    DlqAssumption, FaultsAssumption

\* Saturated counters stay within the length of the backoff schedule.
LEMMA SaturateType ==
    \A n \in Nat : Saturate(n) \in 0..MaxAttempts
  BY DEF Saturate

\* A publish, stored by JetStream or not, keeps the types of the stream.
LEMMA StoreType ==
    ASSUME TypeOK, NEW a \in Alerts, Store(a) \/ UNCHANGED stream
    PROVE  /\ copies' \in [Alerts -> Nat]
           /\ remembered' \subseteq Alerts
<1>1. CASE Store(a)
  <2>1. copies' \in [Alerts -> Nat]
    BY <1>1 DEF TypeOK, Store
  <2>2. remembered' \subseteq Alerts
    BY <1>1 DEF TypeOK, Store
  <2>3. QED
    BY <2>1, <2>2
<1>2. CASE UNCHANGED stream
  BY <1>2 DEF TypeOK, stream
<1>3. QED
  BY <1>1, <1>2

\* Every step of the model keeps every variable in its type, and a reconciler
\* has a current alert exactly while it is inside _process_one or its finally.
LEMMA TypeStep == TypeOK /\ [Next]_vars => TypeOK'
<1> SUFFICES ASSUME TypeOK, [Next]_vars PROVE TypeOK'
  OBVIOUS
<1> USE DEF TypeOK, Entries, RequestStates, Holding, Working, redis, stream, scanner,
        NoFault, Fault, Forfeit, Goto, At
<1>a. \A q \in Requests : AlertOf[q] \in Alerts
  OBVIOUS
<1>b. \A r \in Reconcilers : rpc[r] \in Holding => cur[r] \in Alerts
  OBVIOUS
<1>1. ASSUME NEW q \in Requests, WriteAhead(q) PROVE TypeOK'
  BY <1>1 DEF WriteAhead
<1>2. ASSUME NEW q \in Requests, InlinePublish(q) PROVE TypeOK'
  BY <1>2, <1>a, StoreType DEF InlinePublish, PublishConfirmed, PublishUnconfirmed
<1>3. ASSUME NEW q \in Requests, InlineMark(q) PROVE TypeOK'
  BY <1>3, <1>a DEF InlineMark, MarkPublished
<1>4. ASSUME NEW q \in Requests, RequestDies(q) PROVE TypeOK'
  BY <1>4 DEF RequestDies
<1>5. ASSUME NEW r \in Reconcilers, Scan(r) PROVE TypeOK'
  BY <1>5 DEF Scan
<1>6. ASSUME NEW r \in Reconcilers, ScanEnd(r) PROVE TypeOK'
  BY <1>6 DEF ScanEnd
<1>7. ASSUME NEW r \in Reconcilers, NEW a \in Alerts, AcquireLease(r, a) PROVE TypeOK'
  BY <1>7 DEF AcquireLease
<1>8. ASSUME NEW r \in Reconcilers, ReadEntry(r) PROVE TypeOK'
  BY <1>8 DEF ReadEntry
<1>9. ASSUME NEW r \in Reconcilers, DropCorrupt(r) PROVE TypeOK'
  BY <1>9 DEF DropCorrupt
<1>10. ASSUME NEW r \in Reconcilers, IncrementAttempts(r) PROVE TypeOK'
  BY <1>10, SaturateType DEF IncrementAttempts
<1>11. ASSUME NEW r \in Reconcilers, CheckBackoff(r) PROVE TypeOK'
  BY <1>11 DEF CheckBackoff
<1>12. ASSUME NEW r \in Reconcilers, Publish(r) PROVE TypeOK'
  BY <1>12, <1>b, StoreType, SaturateType DEF Publish, PublishConfirmed, PublishUnconfirmed
<1>13. ASSUME NEW r \in Reconcilers, Mark(r) PROVE TypeOK'
  BY <1>13 DEF Mark, MarkPublished
<1>14. ASSUME NEW r \in Reconcilers, ScheduleRetry(r) PROVE TypeOK'
  BY <1>14 DEF ScheduleRetry
<1>15. ASSUME NEW r \in Reconcilers, DeadLetter(r) PROVE TypeOK'
  BY <1>15 DEF DeadLetter
<1>16. ASSUME NEW r \in Reconcilers, Cleanup(r) PROVE TypeOK'
  BY <1>16 DEF Cleanup
<1>17. ASSUME NEW r \in Reconcilers, ReleaseLease(r) PROVE TypeOK'
  BY <1>17 DEF ReleaseLease
<1>18. ASSUME NEW r \in Reconcilers, Cancel(r) PROVE TypeOK'
  BY <1>18 DEF Cancel
<1>19. ASSUME NEW r \in Reconcilers, Crash(r) PROVE TypeOK'
  BY <1>19 DEF Crash
<1>20. ASSUME NEW a \in Alerts, LeaseExpires(a) PROVE TypeOK'
  BY <1>20 DEF LeaseExpires
<1>21. ASSUME NEW a \in Alerts, BackoffElapses(a) PROVE TypeOK'
  BY <1>21 DEF BackoffElapses
<1>22. ASSUME NEW a \in Alerts, EntryExpires(a) PROVE TypeOK'
  BY <1>22 DEF EntryExpires
<1>23. ASSUME NEW a \in Alerts, AttemptsExpire(a) PROVE TypeOK'
  BY <1>23 DEF AttemptsExpire
<1>24. ASSUME NEW a \in Alerts, WindowCloses(a) PROVE TypeOK'
  BY <1>24 DEF WindowCloses
<1>25. ASSUME NEW a \in Alerts, Damage(a) PROVE TypeOK'
  BY <1>25 DEF Damage
<1>26. CASE UNCHANGED vars
  BY <1>26 DEF vars
<1>27. QED
  BY <1>1, <1>2, <1>3, <1>4, <1>5, <1>6, <1>7, <1>8, <1>9, <1>10, <1>11, <1>12,
     <1>13, <1>14, <1>15, <1>16, <1>17, <1>18, <1>19, <1>20, <1>21, <1>22, <1>23,
     <1>24, <1>25, <1>26
     DEF Next, Handle, Reconcile, Environment

\* Type correctness of the ingest path, whatever fails.
THEOREM TypeCorrect == Spec => []TypeOK
<1>1. Init => TypeOK
  BY DEF Init, TypeOK, Entries, RequestStates, Holding, Working
<1>2. QED
  BY <1>1, TypeStep, PTL DEF Spec

----------------------------------------------------------------------------
(* Durability.                                                              *)

\* What is forfeited stays forfeited.
LEMMA ForfeitedStep == ASSUME [Next]_vars PROVE forfeited \subseteq forfeited'
<1>1. ASSUME NEW q \in Requests, Handle(q) PROVE forfeited \subseteq forfeited'
  BY <1>1 DEF Handle, WriteAhead, Forfeit, InlinePublish, InlineMark
<1>2. ASSUME NEW r \in Reconcilers, Reconcile(r) PROVE forfeited \subseteq forfeited'
  BY <1>2 DEF Reconcile, Scan, ScanEnd, AcquireLease, ReadEntry, DropCorrupt,
     IncrementAttempts, CheckBackoff, Publish, Mark, ScheduleRetry, DeadLetter, Cleanup,
     ReleaseLease
<1>3. CASE Environment
  BY <1>3 DEF Environment, RequestDies, Cancel, Crash, LeaseExpires, BackoffElapses,
     EntryExpires, AttemptsExpire, WindowCloses, Damage, Forfeit
<1>4. CASE UNCHANGED vars
  BY <1>4 DEF vars
<1>5. QED
  BY <1>1, <1>2, <1>3, <1>4 DEF Next

\* No step lets go of an alert that is not forfeited: DEL follows a stored copy, the
\* last attempt or a damaged entry.
LEMMA HeldStep ==
    ASSUME TypeOK, DurableInv, [Next]_vars, NEW b \in Alerts, Held(b)
    PROVE  Held(b)' \/ b \in forfeited'
<1> USE DEF Held, NoFault, Fault, redis, stream, scanner
<1>a. \A q \in Requests : AlertOf[q] \in Alerts
  OBVIOUS
<1>b. copies \in [Alerts -> Nat] /\ pending \in [Alerts -> Entries]
  BY DEF TypeOK
<1>c. \A r \in Reconcilers : rpc[r] \in Holding => cur[r] \in Alerts
  BY DEF TypeOK
<1>d. ASSUME NEW a \in Alerts, Store(a) PROVE \A c \in Alerts : copies[c] > 0 => copies'[c] > 0
  BY <1>b, <1>d DEF Store
<1>e. b \in forfeited => b \in forfeited'
  BY ForfeitedStep
<1>1. ASSUME NEW q \in Requests, Handle(q) PROVE Held(b)' \/ b \in forfeited
  <2>1. CASE WriteAhead(q)
    BY <1>a, <1>b, <2>1 DEF WriteAhead
  <2>2. CASE InlinePublish(q)
    BY <1>a, <1>d, <2>2 DEF InlinePublish, PublishConfirmed, PublishUnconfirmed
  <2>3. CASE InlineMark(q)
    BY <1>a, <1>b, <2>3 DEF InlineMark, MarkPublished, DurableInv
  <2>4. QED
    BY <1>1, <2>1, <2>2, <2>3 DEF Handle
<1>2. ASSUME NEW r \in Reconcilers, Reconcile(r) PROVE Held(b)' \/ b \in forfeited
  <2>1. CASE Scan(r) \/ ScanEnd(r) \/ \E a \in Alerts : AcquireLease(r, a)
    BY <2>1 DEF Scan, ScanEnd, AcquireLease
  <2>2. CASE ReadEntry(r) \/ IncrementAttempts(r) \/ CheckBackoff(r) \/ ScheduleRetry(r)
    BY <2>2 DEF ReadEntry, IncrementAttempts, CheckBackoff, ScheduleRetry
  <2>3. CASE DropCorrupt(r)
    BY <1>b, <1>c, <2>3 DEF DropCorrupt, DurableInv, Holding
  <2>4. CASE Publish(r)
    BY <1>c, <1>d, <2>4
    DEF Publish, PublishConfirmed, PublishUnconfirmed, Holding, Working
  <2>5. CASE Mark(r)
    BY <1>b, <1>c, <2>5 DEF Mark, MarkPublished, DurableInv, Holding, Working
  <2>6. CASE DeadLetter(r)
    BY <2>6 DEF DeadLetter
  <2>7. CASE Cleanup(r)
    BY <1>b, <1>c, <2>7 DEF Cleanup, DurableInv, Holding, Working
  <2>8. CASE ReleaseLease(r)
    BY <2>8 DEF ReleaseLease
  <2>9. QED
    BY <1>2, <2>1, <2>2, <2>3, <2>4, <2>5, <2>6, <2>7, <2>8 DEF Reconcile
<1>3. CASE Environment
  <2>1. ASSUME NEW a \in Alerts, EntryExpires(a) \/ Damage(a)
        PROVE  Held(b)' \/ b \in forfeited'
    BY <1>b, <2>1 DEF EntryExpires, Damage, Forfeit
  <2>2. QED
    BY <1>3, <2>1 DEF Environment, RequestDies, Cancel, Crash, LeaseExpires,
       BackoffElapses, AttemptsExpire, WindowCloses
<1>4. CASE UNCHANGED vars
  BY <1>4 DEF vars
<1>5. QED
  BY <1>e, <1>1, <1>2, <1>3, <1>4 DEF Next

\* Every step keeps DurableInv.
LEMMA DurableStep ==
    ASSUME TypeOK, DurableInv, [Next]_vars PROVE DurableInv'
<1> USE DEF NoFault, Fault, redis, stream, scanner
<1>a. \A q \in Requests : AlertOf[q] \in Alerts
  OBVIOUS
<1>b. \A b \in Alerts : HeldOrForfeited(b) => HeldOrForfeited(b)'
  BY HeldStep, ForfeitedStep DEF HeldOrForfeited
<1>c. TypeOK'
  BY TypeStep
<1>d. \A r \in Reconcilers : rpc[r] \in Holding => cur[r] \in Alerts
  BY DEF TypeOK
<1>e. ASSUME NEW a \in Alerts, Store(a)
      PROVE /\ \A c \in Alerts : copies[c] > 0 => copies'[c] > 0
            /\ \A c \in remembered' : copies'[c] > 0
            /\ copies'[a] > 0
  BY <1>e DEF Store, TypeOK, DurableInv
<1> USE DEF DurableInv
<1>1. ASSUME NEW q \in Requests, Handle(q) PROVE DurableInv'
  <2>1. CASE WriteAhead(q)
    <3>1. HeldOrForfeited(AlertOf[q])'
      BY <1>a, <2>1 DEF WriteAhead, Forfeit, HeldOrForfeited, Held, TypeOK
    <3>2. QED
      BY <1>a, <1>b, <2>1, <3>1 DEF WriteAhead, Forfeit, Goto, TypeOK
  <2>2. CASE InlinePublish(q)
    BY <1>a, <1>b, <1>d, <1>e, <2>2
    DEF InlinePublish, PublishConfirmed, PublishUnconfirmed, Goto, TypeOK, Holding, Working
  <2>3. CASE InlineMark(q)
    BY <1>a, <1>b, <2>3 DEF InlineMark, MarkPublished, Goto, TypeOK
  <2>4. QED
    BY <1>1, <2>1, <2>2, <2>3 DEF Handle
<1>2. ASSUME NEW r \in Reconcilers, Reconcile(r) PROVE DurableInv'
  <2>1. CASE Scan(r) \/ ScanEnd(r)
    BY <1>a, <1>b, <2>1 DEF Scan, ScanEnd, At, TypeOK
  <2>2. ASSUME NEW a \in Alerts, AcquireLease(r, a) PROVE DurableInv'
    BY <1>a, <1>b, <2>2 DEF AcquireLease, At, TypeOK
  <2>3. CASE ReadEntry(r) \/ DropCorrupt(r)
    BY <1>a, <1>b, <1>d, <2>3 DEF ReadEntry, DropCorrupt, At, TypeOK, Holding
  <2>4. CASE IncrementAttempts(r) \/ CheckBackoff(r) \/ ScheduleRetry(r)
    BY <1>a, <1>b, <2>4 DEF IncrementAttempts, CheckBackoff, ScheduleRetry, At, TypeOK
  <2>5. CASE Publish(r)
    BY <1>a, <1>b, <1>d, <1>e, <2>5
    DEF Publish, PublishConfirmed, PublishUnconfirmed, At, TypeOK, Holding, Working
  <2>6. CASE Mark(r)
    BY <1>a, <1>b, <1>d, <2>6 DEF Mark, MarkPublished, At, TypeOK, Holding, Working
  <2>7. CASE DeadLetter(r)
    BY <1>a, <1>b, <2>7 DEF DeadLetter, At, TypeOK
  <2>8. CASE Cleanup(r)
    BY <1>a, <1>b, <1>d, <2>8 DEF Cleanup, At, TypeOK, Holding, Working
  <2>9. CASE ReleaseLease(r)
    BY <1>a, <1>b, <2>9 DEF ReleaseLease, At, TypeOK
  <2>10. QED
    BY <1>2, <2>1, <2>2, <2>3, <2>4, <2>5, <2>6, <2>7, <2>8, <2>9 DEF Reconcile
<1>3. CASE Environment
  <2>1. ASSUME NEW q \in Requests, RequestDies(q) PROVE DurableInv'
    BY <1>a, <1>b, <2>1 DEF RequestDies, Goto, TypeOK
  <2>2. ASSUME NEW r \in Reconcilers, Cancel(r) \/ Crash(r) PROVE DurableInv'
    BY <1>a, <1>b, <2>2 DEF Cancel, Crash, At, TypeOK
  <2>3. ASSUME NEW a \in Alerts, EntryExpires(a) \/ Damage(a) PROVE DurableInv'
    BY <1>a, <1>b, <2>3 DEF EntryExpires, Damage, Forfeit, TypeOK
  <2>4. ASSUME NEW a \in Alerts,
               LeaseExpires(a) \/ BackoffElapses(a) \/ AttemptsExpire(a) \/ WindowCloses(a)
        PROVE  DurableInv'
    BY <1>a, <1>b, <2>4 DEF LeaseExpires, BackoffElapses, AttemptsExpire, WindowCloses
  <2>5. QED
    BY <1>3, <2>1, <2>2, <2>3, <2>4 DEF Environment
<1>4. CASE UNCHANGED vars
  BY <1>a, <1>b, <1>4 DEF vars
<1>5. QED
  BY <1>1, <1>2, <1>3, <1>4 DEF Next

\* A 202 is never given, and never outlived, by an alert that is nowhere: for
\* any number of crashes, lost acks, Redis errors and expired leases, with or
\* without a dead-letter publisher. What may be lost is an alert whose attempts
\* were used up or whose entry Redis did not take or keep.
THEOREM Durability == Spec => []AcceptedIsHeld
<1>1. Init => DurableInv
  BY DEF Init, DurableInv
<1>2. TypeOK /\ DurableInv /\ [Next]_vars => DurableInv'
  BY DurableStep
<1>3. DurableInv => AcceptedIsHeld
  BY DEF DurableInv, AcceptedIsHeld
<1>4. QED
  BY <1>1, <1>2, <1>3, TypeCorrect, PTL DEF Spec

\* A step touches one alert at most: it holds it, drops it when nobody is owed it,
\* records its last attempt, or answers a request for it.
LEMMA ContractStep ==
    ASSUME TypeOK, DurableInv, [Next]_vars
    PROVE  [Contract!Next]_(Contract!vars)
<1> DEFINE acc == {q \in Requests : req[q] = "accepted"}
           hld == {a \in Alerts : Held(a)}
<1> USE DEF NoFault, Fault, redis, stream, scanner
<1>a. \A q \in Requests : AlertOf[q] \in Alerts
  OBVIOUS
<1>b. \A b \in Alerts : Held(b) => Held(b)' \/ b \in forfeited'
  BY HeldStep
<1>c. \A r \in Reconcilers : rpc[r] \in Holding => cur[r] \in Alerts
  BY DEF TypeOK
<1>p. ASSUME NEW a \in Alerts, acc' = acc, forfeited' = forfeited,
             \A b \in Alerts : b # a => (Held(b)' <=> Held(b))
      PROVE  [Contract!Next]_(Contract!vars)
  <2>1. CASE Held(a)'
    <3>1. hld' = hld \union {a}
      BY <1>p, <2>1
    <3>2. Contract!Persist(a)
      BY <1>p, <3>1 DEF Contract!Persist
    <3>3. QED
      BY <3>2 DEF Contract!Next
  <2>2. CASE ~Held(a)' /\ Held(a)
    <3>1. hld' = hld \ {a}
      BY <1>p, <2>2
    <3>2. a \notin Contract!Owed
      BY <1>b, <1>p, <2>2 DEF Contract!Owed
    <3>3. Contract!Discard(a)
      BY <1>p, <3>1, <3>2 DEF Contract!Discard
    <3>4. QED
      BY <3>3 DEF Contract!Next
  <2>3. CASE ~Held(a)' /\ ~Held(a)
    <3>1. hld' = hld
      BY <1>p, <2>3
    <3>2. QED
      BY <1>p, <3>1 DEF Contract!vars
  <2>4. QED
    BY <2>1, <2>2, <2>3
<1>g. ASSUME NEW a \in Alerts, acc' = acc, forfeited' = forfeited \union {a},
             \A b \in Alerts : b # a => (Held(b)' <=> Held(b))
      PROVE  [Contract!Next]_(Contract!vars)
  <2>1. hld' \in {hld, hld \union {a}, hld \ {a}}
    BY <1>g
  <2>2. Contract!GiveUp(a)
    BY <1>g, <2>1 DEF Contract!GiveUp
  <2>3. QED
    BY <2>2 DEF Contract!Next
<1>q. ASSUME NEW q \in Requests, req' = [req EXCEPT ![q] = "accepted"],
             forfeited' = forfeited, HeldOrForfeited(AlertOf[q]),
             Held(AlertOf[q]) => Held(AlertOf[q])',
             \A b \in Alerts : b # AlertOf[q] => (Held(b)' <=> Held(b))
      PROVE  [Contract!Next]_(Contract!vars)
  <2>1. acc' = acc \union {q}
    BY <1>q DEF TypeOK
  <2>2. hld' = hld \/ hld' = hld \union {AlertOf[q]}
    BY <1>a, <1>q
  <2>3. Contract!Accept(q)
    BY <1>a, <1>q, <2>1, <2>2 DEF Contract!Accept, HeldOrForfeited
  <2>4. QED
    BY <2>3 DEF Contract!Next
<1>s. ASSUME acc' = acc, forfeited' = forfeited, \A b \in Alerts : Held(b)' <=> Held(b)
      PROVE  [Contract!Next]_(Contract!vars)
  <2>1. hld' = hld
    BY <1>s
  <2>2. QED
    BY <1>s, <2>1 DEF Contract!vars
<1>1. ASSUME NEW q \in Requests, Handle(q) PROVE [Contract!Next]_(Contract!vars)
  <2>1. CASE WriteAhead(q)
    <3>1. /\ acc' = acc
          /\ forfeited' = forfeited \/ forfeited' = forfeited \union {AlertOf[q]}
      BY <2>1 DEF WriteAhead, Forfeit, Goto, TypeOK
    <3>2. \A b \in Alerts : b # AlertOf[q] => (Held(b)' <=> Held(b))
      BY <1>a, <2>1 DEF WriteAhead, Held, TypeOK
    <3>3. QED
      BY <1>a, <1>g, <1>p, <3>1, <3>2
  <2>2. CASE InlinePublish(q)
    <3>1. HeldOrForfeited(AlertOf[q])
      BY <2>2 DEF InlinePublish, DurableInv
    <3>2. /\ Held(AlertOf[q]) => Held(AlertOf[q])'
          /\ \A b \in Alerts : b # AlertOf[q] => (Held(b)' <=> Held(b))
      BY <1>a, <2>2
      DEF InlinePublish, PublishConfirmed, PublishUnconfirmed, Store, Held, TypeOK
    <3>3. forfeited' = forfeited
      BY <2>2 DEF InlinePublish
    <3>4. CASE Goto(q, "mark")
      <4>1. acc' = acc
        BY <2>2, <3>4 DEF InlinePublish, Goto, TypeOK
      <4>2. QED
        BY <1>a, <1>p, <3>2, <3>3, <4>1
    <3>5. CASE Goto(q, "accepted")
      BY <1>q, <3>1, <3>2, <3>3, <3>5 DEF Goto
    <3>6. QED
      BY <2>2, <3>4, <3>5 DEF InlinePublish
  <2>3. CASE InlineMark(q)
    <3>1. copies[AlertOf[q]] > 0 /\ HeldOrForfeited(AlertOf[q])
      BY <2>3 DEF InlineMark, DurableInv
    <3>2. \A b \in Alerts : Held(b)' <=> Held(b)
      BY <1>a, <2>3, <3>1 DEF InlineMark, MarkPublished, Held, TypeOK
    <3>3. QED
      BY <1>a, <1>q, <2>3, <3>1, <3>2 DEF InlineMark, Goto
  <2>4. QED
    BY <1>1, <2>1, <2>2, <2>3 DEF Handle
<1>2. ASSUME NEW r \in Reconcilers, Reconcile(r) PROVE [Contract!Next]_(Contract!vars)
  <2>1. CASE Scan(r) \/ ScanEnd(r) \/ \E a \in Alerts : AcquireLease(r, a)
    BY <1>s, <2>1 DEF Scan, ScanEnd, AcquireLease, Held
  <2>2. CASE ReadEntry(r) \/ IncrementAttempts(r) \/ CheckBackoff(r) \/ ScheduleRetry(r)
             \/ ReleaseLease(r)
    BY <1>s, <2>2 DEF ReadEntry, IncrementAttempts, CheckBackoff, ScheduleRetry,
       ReleaseLease, Held
  <2>3. CASE DropCorrupt(r)
    <3>1. cur[r] \in Alerts /\ acc' = acc /\ forfeited' = forfeited
      BY <1>c, <2>3 DEF DropCorrupt, Holding
    <3>2. \A b \in Alerts : b # cur[r] => (Held(b)' <=> Held(b))
      BY <2>3 DEF DropCorrupt, Held, TypeOK
    <3>3. QED
      BY <1>p, <3>1, <3>2
  <2>4. CASE Publish(r)
    <3>1. PICK a \in Alerts : a = cur[r]
      BY <1>c, <2>4 DEF Publish, Holding, Working
    <3>2. /\ Held(a) => Held(a)'
          /\ \A b \in Alerts : b # a => (Held(b)' <=> Held(b))
      BY <2>4, <3>1
      DEF Publish, PublishConfirmed, PublishUnconfirmed, Store, Held, TypeOK
    <3>3. acc' = acc
      BY <2>4 DEF Publish
    <3>4. forfeited' = forfeited \/ forfeited' = forfeited \union {a}
      BY <2>4, <3>1 DEF Publish
    <3>5. QED
      BY <1>g, <1>p, <3>2, <3>3, <3>4
  <2>5. CASE Mark(r)
    <3>1. cur[r] \in Alerts /\ copies[cur[r]] > 0
      BY <1>c, <2>5 DEF Mark, Holding, Working, DurableInv
    <3>2. \A b \in Alerts : Held(b)' <=> Held(b)
      BY <2>5, <3>1 DEF Mark, MarkPublished, Held, TypeOK
    <3>3. QED
      BY <1>s, <2>5, <3>2 DEF Mark
  <2>6. CASE DeadLetter(r)
    <3>1. cur[r] \in Alerts /\ acc' = acc /\ forfeited' = forfeited
      BY <1>c, <2>6 DEF DeadLetter, Holding, Working
    <3>2. \A b \in Alerts : b # cur[r] => (Held(b)' <=> Held(b))
      BY <2>6 DEF DeadLetter, Held
    <3>3. QED
      BY <1>p, <3>1, <3>2
  <2>7. CASE Cleanup(r)
    <3>1. cur[r] \in Alerts /\ acc' = acc /\ forfeited' = forfeited
      BY <1>c, <2>7 DEF Cleanup, Holding, Working
    <3>2. \A b \in Alerts : b # cur[r] => (Held(b)' <=> Held(b))
      BY <2>7 DEF Cleanup, Held, TypeOK
    <3>3. QED
      BY <1>p, <3>1, <3>2
  <2>8. QED
    BY <1>2, <2>1, <2>2, <2>3, <2>4, <2>5, <2>6, <2>7 DEF Reconcile
<1>3. CASE Environment
  <2>1. ASSUME NEW q \in Requests, RequestDies(q) PROVE [Contract!Next]_(Contract!vars)
    BY <1>s, <2>1 DEF RequestDies, Goto, Held, TypeOK
  <2>2. ASSUME NEW r \in Reconcilers, Cancel(r) \/ Crash(r)
        PROVE  [Contract!Next]_(Contract!vars)
    BY <1>s, <2>2 DEF Cancel, Crash, Held
  <2>3. ASSUME NEW a \in Alerts, EntryExpires(a) \/ Damage(a)
        PROVE  [Contract!Next]_(Contract!vars)
    <3>1. acc' = acc /\ forfeited' = forfeited \union {a}
      BY <2>3 DEF EntryExpires, Damage, Forfeit
    <3>2. \A b \in Alerts : b # a => (Held(b)' <=> Held(b))
      BY <2>3 DEF EntryExpires, Damage, Held, TypeOK
    <3>3. QED
      BY <1>g, <3>1, <3>2
  <2>4. ASSUME NEW a \in Alerts,
               LeaseExpires(a) \/ BackoffElapses(a) \/ AttemptsExpire(a) \/ WindowCloses(a)
        PROVE  [Contract!Next]_(Contract!vars)
    BY <1>s, <2>4 DEF LeaseExpires, BackoffElapses, AttemptsExpire, WindowCloses, Held
  <2>5. QED
    BY <1>3, <2>1, <2>2, <2>3, <2>4 DEF Environment
<1>4. CASE UNCHANGED vars
  BY <1>s, <1>4 DEF vars, Held
<1>5. QED
  BY <1>1, <1>2, <1>3, <1>4 DEF Next

\* The handlers and reconcilers implement DurableIngest, whatever fails.
THEOREM Implements == Spec => KeepsContract
<1>1. Init => DurableInv
  BY DEF Init, DurableInv
<1>2. TypeOK /\ DurableInv /\ [Next]_vars => DurableInv'
  BY DurableStep
<1>3. Init => Contract!Init
  BY DEF Init, Contract!Init, Held
<1>4. TypeOK /\ DurableInv /\ [Next]_vars => [Contract!Next]_(Contract!vars)
  BY ContractStep
<1>5. QED
  BY <1>1, <1>2, <1>3, <1>4, TypeCorrect, PTL DEF Spec, KeepsContract, Contract!Spec

----------------------------------------------------------------------------
(* Exclusion.                                                               *)

\* Every step keeps LeaseInv and ReconcilersExclusive when no lease runs out
\* under its owner and no alert is posted twice.
LEMMA LeaseStep ==
    ASSUME OneRequestPerAlert, "lease" \notin Faults,
           TypeOK, LeaseInv, ReconcilersExclusive, [Next]_vars
    PROVE  LeaseInv' /\ ReconcilersExclusive'
<1> USE DEF NoFault, Fault, redis, stream, scanner, LeaseInv, ReconcilersExclusive,
        Working, At
<1>a. \A q \in Requests : AlertOf[q] \in Alerts
  OBVIOUS
<1>b. \A r \in Reconcilers : rpc[r] \in Holding => cur[r] \in Alerts
  BY DEF TypeOK
<1>c. NoOwner \notin Reconcilers /\ NoAlert \notin Alerts
  OBVIOUS
<1>1. ASSUME NEW q \in Requests, WriteAhead(q) PROVE LeaseInv' /\ ReconcilersExclusive'
  BY <1>a, <1>1 DEF WriteAhead, Goto, OneRequestPerAlert, TypeOK
<1>2. ASSUME NEW q \in Requests, InlinePublish(q) PROVE LeaseInv' /\ ReconcilersExclusive'
  BY <1>2 DEF InlinePublish, PublishConfirmed, PublishUnconfirmed, Goto, TypeOK
<1>3. ASSUME NEW q \in Requests, InlineMark(q) PROVE LeaseInv' /\ ReconcilersExclusive'
  BY <1>a, <1>3 DEF InlineMark, MarkPublished, Goto, TypeOK
<1>4. ASSUME NEW q \in Requests, RequestDies(q) PROVE LeaseInv' /\ ReconcilersExclusive'
  BY <1>4 DEF RequestDies, Goto, TypeOK
<1>5. ASSUME NEW r \in Reconcilers, Scan(r) \/ ScanEnd(r)
      PROVE  LeaseInv' /\ ReconcilersExclusive'
  BY <1>a, <1>5 DEF Scan, ScanEnd, TypeOK
<1>6. ASSUME NEW r \in Reconcilers, NEW a \in Alerts, AcquireLease(r, a)
      PROVE  LeaseInv' /\ ReconcilersExclusive'
  BY <1>a, <1>b, <1>c, <1>6 DEF AcquireLease, TypeOK
<1>7. ASSUME NEW r \in Reconcilers, ReadEntry(r) PROVE LeaseInv' /\ ReconcilersExclusive'
  BY <1>7 DEF ReadEntry, TypeOK
<1>8. ASSUME NEW r \in Reconcilers, DropCorrupt(r) PROVE LeaseInv' /\ ReconcilersExclusive'
  BY <1>b, <1>8 DEF DropCorrupt, TypeOK, Holding
<1>9. ASSUME NEW r \in Reconcilers, IncrementAttempts(r) \/ CheckBackoff(r) \/ ScheduleRetry(r)
                                    \/ DeadLetter(r) \/ Cancel(r)
      PROVE  LeaseInv' /\ ReconcilersExclusive'
  BY <1>9 DEF IncrementAttempts, CheckBackoff, ScheduleRetry, DeadLetter, Cancel, Holding, TypeOK
<1>10. ASSUME NEW r \in Reconcilers, Publish(r) PROVE LeaseInv' /\ ReconcilersExclusive'
  BY <1>10 DEF Publish, PublishConfirmed, PublishUnconfirmed, TypeOK
<1>11. ASSUME NEW r \in Reconcilers, Mark(r) PROVE LeaseInv' /\ ReconcilersExclusive'
  BY <1>b, <1>11 DEF Mark, MarkPublished, TypeOK, Holding
<1>12. ASSUME NEW r \in Reconcilers, Cleanup(r) PROVE LeaseInv' /\ ReconcilersExclusive'
  BY <1>b, <1>12 DEF Cleanup, TypeOK, Holding
<1>13. ASSUME NEW r \in Reconcilers, ReleaseLease(r) PROVE LeaseInv' /\ ReconcilersExclusive'
  BY <1>a, <1>b, <1>c, <1>13 DEF ReleaseLease, TypeOK, Holding
<1>14. ASSUME NEW r \in Reconcilers, Crash(r) PROVE LeaseInv' /\ ReconcilersExclusive'
  BY <1>a, <1>c, <1>14 DEF Crash, TypeOK
<1>15. ASSUME NEW a \in Alerts, LeaseExpires(a) PROVE LeaseInv' /\ ReconcilersExclusive'
  BY <1>b, <1>15 DEF LeaseExpires, OwnerAtWork, TypeOK, Holding
<1>16. ASSUME NEW a \in Alerts, EntryExpires(a) \/ Damage(a)
       PROVE  LeaseInv' /\ ReconcilersExclusive'
  BY <1>a, <1>16 DEF EntryExpires, Damage, TypeOK
<1>17. ASSUME NEW a \in Alerts, BackoffElapses(a) \/ AttemptsExpire(a) \/ WindowCloses(a)
       PROVE  LeaseInv' /\ ReconcilersExclusive'
  BY <1>17 DEF BackoffElapses, AttemptsExpire, WindowCloses
<1>18. CASE UNCHANGED vars
  BY <1>18 DEF vars
<1>19. QED
  BY <1>1, <1>2, <1>3, <1>4, <1>5, <1>6, <1>7, <1>8, <1>9, <1>10, <1>11, <1>12,
     <1>13, <1>14, <1>15, <1>16, <1>17, <1>18
     DEF Next, Handle, Reconcile, Environment

\* Although mark_published deletes the lease whoever owns it, two reconcilers
\* never work on one alert at once, provided that no lease runs out under its
\* owner and no two requests carry the same alert.
THEOREM Exclusion ==
    OneRequestPerAlert /\ "lease" \notin Faults => (Spec => []ReconcilersExclusive)
<1> SUFFICES ASSUME OneRequestPerAlert, "lease" \notin Faults
             PROVE  Spec => []ReconcilersExclusive
  OBVIOUS
<1>1. Init => LeaseInv /\ ReconcilersExclusive
  BY DEF Init, LeaseInv, ReconcilersExclusive, Working
<1>2. TypeOK /\ LeaseInv /\ ReconcilersExclusive /\ [Next]_vars
        => LeaseInv' /\ ReconcilersExclusive'
  BY LeaseStep
<1>3. QED
  BY <1>1, <1>2, TypeCorrect, PTL DEF Spec
=============================================================================
