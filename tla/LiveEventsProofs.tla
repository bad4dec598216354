-------------------------- MODULE LiveEventsProofs --------------------------
(* Theorems about LiveEvents, for any number of sessions and events.         *)
EXTENDS LiveEvents, SequenceTheorems, TLAPS

USE EventsAssumption, FaultsAssumption

\* The numbers of s rise, from above lo to hi at most.
Rising(s, lo, hi) ==
    \A i \in 1..Len(s) :
        /\ lo < s[i] /\ s[i] <= hi
        /\ \A j \in 1..Len(s) : i < j => s[i] < s[j]

\* The next number at the end of a rising sequence.
LEMMA RisingAppend ==
    ASSUME NEW s \in Seq(Nat), NEW lo \in Nat, NEW hi \in Nat, lo <= hi, Rising(s, lo, hi)
    PROVE  Rising(Append(s, hi + 1), lo, hi + 1)
BY AppendProperties DEF Rising

\* A bound that is raised.
LEMMA RisingHigher ==
    ASSUME NEW s \in Seq(Nat), NEW lo \in Nat, NEW hi \in Nat, Rising(s, lo, hi)
    PROVE  Rising(s, lo, hi + 1)
BY DEF Rising

\* The head of a rising sequence is below the rest of it.
LEMMA RisingTail ==
    ASSUME NEW s \in Seq(Nat), s # <<>>, NEW lo \in Nat, NEW hi \in Nat, Rising(s, lo, hi)
    PROVE  /\ lo < Head(s) /\ Head(s) <= hi
           /\ Rising(Tail(s), Head(s), hi) /\ Rising(Tail(s), lo, hi)
<1>1. Len(s) \in Nat /\ Len(s) >= 1 /\ Head(s) = s[1] /\ 1 \in 1..Len(s)
    BY EmptySeq, LenProperties
<1>2. /\ Tail(s) \in Seq(Nat) /\ Len(Tail(s)) = Len(s) - 1
      /\ \A i \in 1..Len(Tail(s)) : Tail(s)[i] = s[i + 1] /\ i + 1 \in 1..Len(s)
    BY <1>1, HeadTailProperties
<1>3. \A i \in 1..Len(s) : s[i] \in Nat
    BY ElementOfSeq
<1>4. lo < Head(s) /\ Head(s) <= hi
    BY <1>1 DEF Rising
<1>5. \A i \in 1..Len(Tail(s)) :
          /\ Head(s) < Tail(s)[i] /\ lo < Tail(s)[i] /\ Tail(s)[i] <= hi
          /\ \A j \in 1..Len(Tail(s)) : i < j => Tail(s)[i] < Tail(s)[j]
    BY <1>1, <1>2, <1>3 DEF Rising
<1> QED
    BY <1>4, <1>5 DEF Rising

----------------------------------------------------------------------------
(* Lanes.                                                                   *)

\* A lane is the pair of its parts.
LEMMA LaneParts ==
    /\ \A l \in Lanes : l = <<l[1], l[2]>> /\ l[1] \in Fanouts /\ l[2] \in Kinds
    /\ \A f \in Fanouts, k \in Kinds : <<f, k>> \in Lanes
BY DEF Lanes

\* A publish reaches one lane of its kind and leaves the others alone.
LEMMA SendReaches ==
    ASSUME inbox \in [Lanes -> Seq(0..MaxEvents)],
           NEW kind \in Kinds, NEW m \in 0..MaxEvents, Send(kind, m)
    PROVE  /\ inbox' \in [Lanes -> Seq(0..MaxEvents)]
           /\ \E r \in Lanes : /\ r[2] = kind /\ inbox'[r] = Append(inbox[r], m)
                               /\ \A l \in Lanes : l # r => inbox'[l] = inbox[l]
<1>1. PICK f \in Fanouts : inbox' = [inbox EXCEPT ![<<f, kind>>] = Append(@, m)]
    BY DEF Send
<1>2. <<f, kind>> \in Lanes /\ <<f, kind>>[2] = kind
    BY LaneParts
<1>3. Append(inbox[<<f, kind>>], m) \in Seq(0..MaxEvents)
    BY <1>2, AppendProperties
<1> QED
    BY <1>1, <1>2, <1>3

----------------------------------------------------------------------------
(* Types.                                                                   *)

\* The part of TypeOK that is about the pushes.
PushesOK ==
    /\ push \in [Lanes -> [Sessions -> Where]]
    /\ tries \in [Lanes -> [Sessions -> 0..(MaxPushes - 1)]]
    /\ \A l \in Lanes : \A d \in Sessions : tries[l][d] > 0 => push[l][d] # "none"

\* What pushWithRetry does next about one target.
Proceeds(l, d) ==
    \/ PushDone(l, d) \/ PushAgain(l, d)
    \/ \E label \in Where \ {"none"} : PushAt(l, d, label) /\ UNCHANGED tries

\* It concerns that target only, and keeps the count of attempts within its range.
LEMMA ProceedsOK ==
    ASSUME PushesOK, NEW l \in Lanes, NEW d \in Sessions, push[l][d] # "none", Proceeds(l, d)
    PROVE  /\ PushesOK'
           /\ \A m \in Lanes, e \in Sessions : m # l \/ e # d => push'[m][e] = push[m][e]
<1>1. CASE PushDone(l, d)
    BY <1>1 DEF PushesOK, PushDone, PushAt, Where, MaxPushes
<1>2. CASE PushAgain(l, d) /\ ~PushDone(l, d)
    <2>1. /\ tries[l][d] + 1 < MaxPushes
          /\ tries' = [tries EXCEPT ![l][d] = @ + 1] /\ push' = [push EXCEPT ![l][d] = "post"]
        BY <1>2 DEF PushAgain, PushAt
    <2> QED
        BY <2>1 DEF PushesOK, Where, MaxPushes
<1>3. ASSUME NEW label \in Where \ {"none"}, PushAt(l, d, label), UNCHANGED tries
      PROVE  /\ PushesOK'
             /\ \A m \in Lanes, e \in Sessions : m # l \/ e # d => push'[m][e] = push[m][e]
    BY <1>3 DEF PushesOK, PushAt, MaxPushes
<1> QED
    BY <1>1, <1>2, <1>3 DEF Proceeds

\* The events on their way exist, and a subscription has them in order.
FlowInv ==
    \A l \in Lanes : l[2] = "event" =>
        /\ msg[l] <= published /\ Rising(inbox[l], msg[l], published)
        /\ \A d \in Sessions : push[l][d] # "none" => msg[l] > 0

\* At first there is nothing.
LEMMA InitOK == Init => TypeOK /\ FlowInv
<1>1. Init => TypeOK
    BY DEF Init, TypeOK, Where, MaxPushes
<1>2. Init => FlowInv
    BY DEF Init, FlowInv, Rising
<1> QED
    BY <1>1, <1>2

\* Faults are counted up to their bound.
LEMMA FaultsBounded ==
    ASSUME faults \in 0..MaxFaults, NEW kind, NoFault \/ Fault(kind)
    PROVE  faults' \in 0..MaxFaults
BY DEF NoFault, Fault

\* What the reads of deregisterDo can find.
LEMMA DeregistrationType ==
    ASSUME meta \in [Sessions -> {"none", "full", "bare"}], NEW d \in Sessions
    PROVE  Deregistration(d) \in {"none", "listed", "unlisted", "bare"}
BY DEF Deregistration

\* A handleWatch that moves on is counted elsewhere, and only one that has been
\* registered waits for the answer.
LEMMA MovesOK ==
    ASSUME watching \in [Sessions -> [Stages -> Nat]], NEW d \in Sessions,
           NEW from \in Stages, NEW to, WatchMoves(d, from, to)
    PROVE  /\ watching' \in [Sessions -> [Stages -> Nat]] /\ watching[d][from] > 0
           /\ \A e \in Sessions : e # d => watching'[e] = watching[e]
           /\ to # "reply" => watching'[d]["reply"] <= watching[d]["reply"]
<1>1. /\ watching[d] \in [Stages -> Nat] /\ watching[d][from] > 0
      /\ \A e \in Sessions : e # d => watching'[e] = watching[e]
    BY DEF WatchMoves
<1>2. watching' = [watching EXCEPT ![d] = [w \in Stages |->
          CASE w = from -> watching[d][w] - 1 [] w = to -> watching[d][w] + 1 [] OTHER -> watching[d][w]]]
    BY DEF WatchMoves
<1>3. \A w \in Stages : watching'[d][w] =
          CASE w = from -> watching[d][w] - 1 [] w = to -> watching[d][w] + 1 [] OTHER -> watching[d][w]
    BY <1>2
<1>4. \A w \in Stages : watching[d][w] \in Nat
    BY <1>1
<1>5. \A w \in Stages : (CASE w = from -> watching[d][w] - 1 [] w = to -> watching[d][w] + 1
                            [] OTHER -> watching[d][w]) \in Nat
    BY <1>1, <1>4
<1>6. watching' \in [Sessions -> [Stages -> Nat]]
    BY <1>2, <1>5
<1>7. to # "reply" => watching'[d]["reply"] <= watching[d]["reply"]
    BY <1>3, <1>4 DEF Stages
<1> QED
    BY <1>1, <1>6, <1>7

\* Calls are counted.
LEMMA CallsOK ==
    ASSUME calls \in [Sessions -> [Calls -> Nat]], NEW d \in Sessions, NEW c \in Calls,
           Calling(d, c) \/ Arrives(d, c)
    PROVE  /\ calls' \in [Sessions -> [Calls -> Nat]]
           /\ \A e \in Sessions, k \in Calls : e # d \/ k # c => calls'[e][k] = calls[e][k]
           /\ Arrives(d, c) => calls[d][c] > 0
<1>1. calls[d] \in [Calls -> Nat] /\ calls[d][c] \in Nat
    OBVIOUS
<1>2. CASE Calling(d, c)
    BY <1>1, <1>2 DEF Calling, Arrives
<1>3. CASE Arrives(d, c)
    BY <1>1, <1>3 DEF Arrives
<1> QED
    BY <1>2, <1>3

\* A registration puts a session into the registry and leaves the others alone.
LEMMA RegistrationOK ==
    ASSUME TypeOK, NEW d \in Sessions, Registration(d)
    PROVE  /\ meta' \in [Sessions -> {"none", "full", "bare"}] /\ base' \in [Sessions -> 0..published]
           /\ watchers' \subseteq Sessions /\ userDos' \subseteq Sessions /\ doAlerts' \subseteq Sessions
           /\ lapsed' \subseteq Sessions /\ withdrawn' \subseteq Sessions
           /\ Registered(d)' /\ base'[d] = IF Registered(d) THEN base[d] ELSE published
           /\ \A e \in Sessions : e # d =>
                 /\ meta'[e] = meta[e] /\ base'[e] = base[e] /\ Registered(e)' = Registered(e)
                 /\ (e \in lapsed' <=> e \in lapsed) /\ (e \in withdrawn' <=> e \in withdrawn)
<1>1. base' \in [Sessions -> 0..published]
    BY DEF TypeOK, Registration
<1>2. /\ meta' \in [Sessions -> {"none", "full", "bare"}]
      /\ watchers' \subseteq Sessions /\ userDos' \subseteq Sessions /\ doAlerts' \subseteq Sessions
      /\ lapsed' \subseteq Sessions /\ withdrawn' \subseteq Sessions
    BY DEF TypeOK, Registration
<1>3. Registered(d)' /\ base'[d] = IF Registered(d) THEN base[d] ELSE published
    BY DEF TypeOK, Registration, Registered
<1>4. ASSUME NEW e \in Sessions, e # d
      PROVE  /\ meta'[e] = meta[e] /\ base'[e] = base[e] /\ Registered(e)' = Registered(e)
             /\ (e \in lapsed' <=> e \in lapsed) /\ (e \in withdrawn' <=> e \in withdrawn)
    BY <1>4 DEF TypeOK, Registration, Registered
<1> QED
    BY <1>1, <1>2, <1>3, <1>4

\* The steps of an object and of the calls it makes keep the types.
LEMMA SessionType ==
    ASSUME TypeOK, NEW d \in Sessions, Session(d)
    PROVE  TypeOK'
<1>w. ASSUME NEW from \in Stages, NEW to, WatchMoves(d, from, to)
      PROVE  watching' \in [Sessions -> [Stages -> Nat]]
    BY <1>w, MovesOK DEF TypeOK
<1>c. ASSUME NEW c \in Calls, Calling(d, c) \/ Arrives(d, c)
      PROVE  calls' \in [Sessions -> [Calls -> Nat]]
    BY <1>c, CallsOK DEF TypeOK
<1>r. Registration(d) =>
          /\ meta' \in [Sessions -> {"none", "full", "bare"}] /\ base' \in [Sessions -> 0..published]
          /\ watchers' \subseteq Sessions /\ userDos' \subseteq Sessions /\ doAlerts' \subseteq Sessions
          /\ lapsed' \subseteq Sessions /\ withdrawn' \subseteq Sessions
    BY RegistrationOK
<1>s. {"snapshot", "register", "reply"} \subseteq Stages
      /\ {"watch", "unwatch", "disconnect", "cancel"} \subseteq Calls
    BY DEF Stages, Calls
<1> USE DEF TypeOK, registry, object, fanout, browser, history
<1>1. CASE Connect(d)
    BY <1>1 DEF Connect
<1>2. CASE HandleWatch(d)
    <2>1. asked' \in [Sessions -> 0..MaxWatches]
        BY <1>2 DEF HandleWatch
    <2>2. watching' \in [Sessions -> [Stages -> Nat]]
        <3>1. watching[d] \in [Stages -> Nat] /\ "snapshot" \in Stages
            BY <1>s
        <3> QED
            BY <1>2, <3>1 DEF HandleWatch
    <2> QED
        BY <1>2, <2>1, <2>2 DEF HandleWatch
<1>3. CASE FetchSnapshot(d)
    <2>1. faults' \in 0..MaxFaults /\ watching' \in [Sessions -> [Stages -> Nat]]
        BY <1>3, <1>w, <1>s, FaultsBounded DEF FetchSnapshot
    <2> QED
        BY <1>3, <2>1 DEF FetchSnapshot
<1>4. CASE RegisterWatch(d)
    <2>1. /\ faults' \in 0..MaxFaults /\ watching' \in [Sessions -> [Stages -> Nat]]
          /\ calls' \in [Sessions -> [Calls -> Nat]]
        BY <1>4, <1>w, <1>c, <1>s, FaultsBounded DEF RegisterWatch
    <2>2. UNCHANGED <<published, sock, ticket, watched, timers, asked, dereg, fanout, browser, doomed, dropped>>
        BY <1>4 DEF RegisterWatch
    <2>3. CASE Registration(d)
        BY <1>r, <2>1, <2>2, <2>3
    <2>4. CASE UNCHANGED <<registry, base, lapsed, withdrawn>>
        BY <2>1, <2>2, <2>4
    <2> QED
        BY <1>4, <2>3, <2>4 DEF RegisterWatch
<1>5. CASE WatchReply(d)
    <2>1. faults' \in 0..MaxFaults /\ watching' \in [Sessions -> [Stages -> Nat]]
        BY <1>5, <1>w, <1>s, FaultsBounded DEF WatchReply
    <2> QED
        BY <1>5, <2>1 DEF WatchReply
<1>6. CASE HandleUnwatch(d)
    <2>1. calls' \in [Sessions -> [Calls -> Nat]]
        BY <1>6, <1>c, <1>s DEF HandleUnwatch
    <2> QED
        BY <1>6, <2>1 DEF HandleUnwatch
<1>7. CASE WebSocketClose(d)
    <2>1. calls' \in [Sessions -> [Calls -> Nat]]
        BY <1>7, <1>c, <1>s DEF WebSocketClose
    <2> QED
        BY <1>7, <2>1 DEF WebSocketClose
<1>8. CASE FireCancel(d)
    <2>1. calls' \in [Sessions -> [Calls -> Nat]]
        BY <1>8, <1>c, <1>s DEF FireCancel
    <2> QED
        BY <1>8, <2>1 DEF FireCancel
<1>9. CASE Hibernate(d)
    BY <1>9 DEF Hibernate
<1>10. CASE Evict(d)
    <2>1. watching' \in [Sessions -> [Stages -> Nat]]
        BY <1>10 DEF Evict
    <2>2. calls' \in [Sessions -> [Calls -> Nat]]
        <3>1. watching[d] \in [Stages -> Nat]
            OBVIOUS
        <3>2. watching[d]["register"] \in Nat
            BY <1>s, <3>1
        <3> QED
            BY <1>10, <1>s, <3>2 DEF Evict
    <2>3. faults' \in 0..MaxFaults
        BY <1>10, FaultsBounded DEF Evict
    <2> QED
        BY <1>10, <2>1, <2>2, <2>3 DEF Evict
<1>11. CASE UnwatchCall(d)
    <2>1. faults' \in 0..MaxFaults /\ calls' \in [Sessions -> [Calls -> Nat]]
        BY <1>11, <1>c, <1>s, FaultsBounded DEF UnwatchCall
    <2> QED
        BY <1>11, <2>1 DEF UnwatchCall
<1>15. CASE WatchCall(d)
    <2>1. faults' \in 0..MaxFaults /\ calls' \in [Sessions -> [Calls -> Nat]]
        BY <1>15, <1>c, <1>s, FaultsBounded DEF WatchCall
    <2>2. UNCHANGED <<published, sock, ticket, watched, timers, asked, watching, dereg, fanout, browser,
                      doomed, dropped>>
        BY <1>15 DEF WatchCall
    <2>3. CASE Registration(d)
        BY <1>r, <2>1, <2>2, <2>3
    <2>4. CASE UNCHANGED <<registry, base, lapsed, withdrawn>>
        BY <2>1, <2>2, <2>4
    <2> QED
        BY <1>15, <2>3, <2>4 DEF WatchCall
<1>12. CASE DisconnectCall(d)
    <2>1. faults' \in 0..MaxFaults
        BY <1>12, FaultsBounded DEF DisconnectCall
    <2>2. Deregistration(d) \in {"none", "listed", "unlisted", "bare"}
        BY DeregistrationType
    <2>3. dereg' \in [Sessions -> {"none", "listed", "unlisted", "bare"}]
        BY <1>12, <2>2 DEF DisconnectCall
    <2>4. calls' \in [Sessions -> [Calls -> Nat]]
        BY <1>12, <1>c, <1>s DEF DisconnectCall
    <2> QED
        BY <1>12, <2>1, <2>3, <2>4 DEF DisconnectCall
<1>13. CASE DisconnectEnds(d)
    BY <1>13 DEF DisconnectEnds, DeregisterDo
<1>14. CASE CancelCall(d)
    <2>1. inbox' \in [Lanes -> Seq(0..MaxEvents)]
        BY <1>14, SendReaches DEF CancelCall, Kinds
    <2>2. faults' \in 0..MaxFaults /\ calls' \in [Sessions -> [Calls -> Nat]]
        BY <1>14, <1>c, <1>s, FaultsBounded DEF CancelCall
    <2> QED
        BY <1>14, <2>1, <2>2 DEF CancelCall
<1> QED
    BY <1>1, <1>2, <1>3, <1>4, <1>5, <1>6, <1>7, <1>8, <1>9, <1>10, <1>11, <1>12, <1>13, <1>14, <1>15
    DEF Session

\* An event that is forwarded exists.
LEMMA ForwardType ==
    ASSUME TypeOK, NEW d \in Sessions, NEW kind, NEW m, Forward(d, kind, m),
           kind = "event" => m \in 1..published
    PROVE  /\ got' \in [Sessions -> SUBSET (1..published)] /\ last' \in [Sessions -> 0..published]
           /\ \A e \in Sessions : last'[e] \in got'[e] \union {0}
           /\ sock' \in [Sessions -> {"new", "open", "closing", "closed"}]
<1>2. sock' \in [Sessions -> {"new", "open", "closing", "closed"}]
    BY DEF TypeOK, Forward
<1>3. CASE kind = "event"
    BY <1>2, <1>3 DEF TypeOK, Forward
<1>4. CASE kind # "event"
    <2>1. got' = got /\ last' = last
        BY <1>4 DEF TypeOK, Forward
    <2> QED
        BY <1>2, <2>1 DEF TypeOK
<1> QED
    BY <1>3, <1>4

\* One step of a push is a step of Proceeds.
LEMMA PushProceeds ==
    ASSUME TypeOK, NEW l \in Lanes, NEW d \in Sessions, Push(l, d)
    PROVE  push[l][d] # "none" /\ Proceeds(l, d) /\ UNCHANGED <<inbox, msg>>
<1> USE DEF Proceeds, Where
<1>1. CASE PushOne(l, d)
    BY <1>1 DEF PushOne
<1>2. CASE RefreshTtl(l, d)
    BY <1>2 DEF RefreshTtl
<1>3. CASE PruneStarts(l, d)
    <2>1. Deregistration(d) \in {"none", "listed", "unlisted", "bare"}
        BY DeregistrationType DEF TypeOK
    <2> QED
        BY <1>3, <2>1 DEF PruneStarts
<1>4. CASE PruneEnds(l, d)
    BY <1>4 DEF PruneEnds
<1>5. CASE RegistryFails(l, d)
    BY <1>5 DEF RegistryFails
<1> QED
    BY <1>1, <1>2, <1>3, <1>4, <1>5 DEF Push

\* The steps of a push keep the types.
LEMMA PushType ==
    ASSUME TypeOK, FlowInv, NEW l \in Lanes, NEW d \in Sessions, Push(l, d)
    PROVE  TypeOK'
<1>1. push[l][d] # "none" /\ PushesOK'
    <2>1. PushesOK
        BY DEF TypeOK, PushesOK
    <2> QED
        BY <2>1, PushProceeds, ProceedsOK
<1> USE <1>1 DEF TypeOK, PushesOK, registry, object, fanout, browser, history
<1>2. CASE PushOne(l, d)
    <2>0. l[2] = "event" => msg[l] \in 1..published
        BY DEF FlowInv
    <2>1. /\ got' \in [Sessions -> SUBSET (1..published)] /\ last' \in [Sessions -> 0..published]
          /\ \A e \in Sessions : last'[e] \in got'[e] \union {0}
          /\ sock' \in [Sessions -> {"new", "open", "closing", "closed"}]
        <3>1. CASE Forward(d, l[2], msg[l])
            BY <2>0, <3>1, ForwardType
        <3> QED
            BY <1>2, <3>1 DEF PushOne
    <2>2. faults' \in 0..MaxFaults
        BY <1>2, FaultsBounded DEF PushOne
    <2>3. UNCHANGED <<published, registry, ticket, watched, timers, asked, watching, calls, dereg,
                      inbox, msg, history>>
        BY <1>2 DEF PushOne
    <2>4. /\ late' \in [Sessions -> SUBSET (Kinds \X (0..MaxEvents))]
          /\ \A e \in Sessions : \A p \in late'[e] : p[1] = "event" => p[2] \in 1..published
        <3>1. CASE late' = [late EXCEPT ![d] = @ \union {<<l[2], msg[l]>>}]
            <4>1. <<l[2], msg[l]>> \in Kinds \X (0..MaxEvents)
                BY LaneParts
            <4> QED
                BY <2>0, <3>1, <4>1
        <3> QED
            BY <1>2, <3>1 DEF PushOne
    <2> QED
        BY <2>1, <2>2, <2>3, <2>4
<1>3. CASE RefreshTtl(l, d)
    BY <1>3 DEF RefreshTtl
<1>4. CASE PruneStarts(l, d)
    BY <1>4 DEF PruneStarts
<1>5. CASE PruneEnds(l, d)
    BY <1>5 DEF PruneEnds, DeregisterDo
<1>6. CASE RegistryFails(l, d)
    <2>1. faults' \in 0..MaxFaults
        BY <1>6, FaultsBounded DEF RegistryFails
    <2> QED
        BY <1>6, <2>1 DEF RegistryFails
<1> QED
    BY <1>2, <1>3, <1>4, <1>5, <1>6 DEF Push

\* So does a post that arrives late.
LEMMA LateType ==
    ASSUME TypeOK, NEW d \in Sessions, LatePost(d)
    PROVE  TypeOK'
<1>1. PICK p \in late[d] : Forward(d, p[1], p[2]) /\ late' = [late EXCEPT ![d] = @ \ {p}]
    BY DEF LatePost
<1>2. /\ got' \in [Sessions -> SUBSET (1..published)] /\ last' \in [Sessions -> 0..published]
      /\ \A e \in Sessions : last'[e] \in got'[e] \union {0}
      /\ sock' \in [Sessions -> {"new", "open", "closing", "closed"}]
    <2>1. p[1] = "event" => p[2] \in 1..published
        BY DEF TypeOK
    <2> QED
        BY <1>1, <2>1, ForwardType
<1>3. /\ late' \in [Sessions -> SUBSET (Kinds \X (0..MaxEvents))]
      /\ \A e \in Sessions : late'[e] \subseteq late[e]
    BY <1>1 DEF TypeOK
<1>4. UNCHANGED <<published, registry, ticket, watched, timers, asked, watching, calls, dereg,
                  inbox, msg, push, tries, history, faults>>
    BY DEF LatePost
<1> QED
    BY <1>2, <1>3, <1>4 DEF TypeOK, registry, history

\* The numbers in an inbox are natural numbers.
LEMMA InboxNat ==
    ASSUME TypeOK, NEW l \in Lanes
    PROVE  inbox[l] \in Seq(Nat) /\ msg[l] \in Nat /\ published \in Nat
<1>1. inbox[l] \in Seq(0..MaxEvents) /\ 0..MaxEvents \subseteq Nat
    BY DEF TypeOK
<1>2. inbox[l] \in Seq(Nat)
    BY <1>1, SeqMonotonic
<1> QED
    BY <1>2 DEF TypeOK

\* The next event of a subscription exists, and comes after the one before it.
LEMMA NextEvent ==
    ASSUME TypeOK, FlowInv, NEW l \in Lanes, l[2] = "event", inbox[l] # <<>>
    PROVE  /\ Head(inbox[l]) \in 1..published /\ msg[l] < Head(inbox[l])
           /\ Rising(Tail(inbox[l]), Head(inbox[l]), published)
           /\ Rising(Tail(inbox[l]), msg[l], published)
<1>1. inbox[l] \in Seq(Nat) /\ msg[l] \in Nat /\ published \in Nat
    BY InboxNat
<1>2. Rising(inbox[l], msg[l], published)
    BY DEF FlowInv
<1>3. Head(inbox[l]) \in Nat
    BY <1>1, HeadTailProperties
<1> QED
    BY <1>1, <1>2, <1>3, RisingTail

\* So do the lookups.
LEMMA LookupType ==
    ASSUME TypeOK, FlowInv, NEW l \in Lanes, Lookup(l) \/ LookupFails(l)
    PROVE  TypeOK'
<1> USE DEF TypeOK, registry, object, fanout, browser, history
<1>1. Head(inbox[l]) \in 0..MaxEvents /\ Tail(inbox[l]) \in Seq(0..MaxEvents)
    BY HeadTailProperties DEF Lookup, LookupFails
<1>2. CASE Lookup(l)
    <2>1. PICK there \in SUBSET Sessions : push' = [push EXCEPT ![l] =
               [d \in Sessions |-> IF d \in there THEN "post" ELSE "none"]]
        <3> WITNESS {d \in Sessions :
                        d \in (IF l[2] = "revoked" THEN userDos ELSE watchers) /\ meta[d] = "full"}
                    \in SUBSET Sessions
        <3> QED
            BY <1>2 DEF Lookup
    <2>2. push' \in [Lanes -> [Sessions -> Where]]
        BY <2>1 DEF Where
    <2>3. \A m \in Lanes : \A d \in Sessions : tries[m][d] > 0 => push'[m][d] # "none"
        BY <1>2, <2>1 DEF Lookup, MaxPushes
    <2>4. inbox' \in [Lanes -> Seq(0..MaxEvents)] /\ msg' \in [Lanes -> 0..MaxEvents]
        BY <1>1, <1>2 DEF Lookup
    <2> QED
        BY <1>2, <2>2, <2>3, <2>4 DEF Lookup
<1>3. CASE LookupFails(l)
    <2>1. faults' \in 0..MaxFaults
        BY <1>3, FaultsBounded DEF LookupFails
    <2>2. l[2] = "event" => Head(inbox[l]) \in 1..published
        BY <1>3, NextEvent DEF LookupFails
    <2>3. inbox' \in [Lanes -> Seq(0..MaxEvents)]
        BY <1>1, <1>3 DEF LookupFails
    <2> QED
        BY <1>3, <2>1, <2>2, <2>3 DEF LookupFails
<1> QED
    BY <1>2, <1>3

\* Publications, logouts and expiries.
LEMMA OutsideType ==
    ASSUME TypeOK, PublishPhase \/ Logout \/ KeyExpires \/ UNCHANGED vars
    PROVE  TypeOK'
<1> USE DEF TypeOK, registry, object, fanout, browser, history
<1>1. CASE PublishPhase
    <2>1. published' = published + 1 /\ published' \in 0..MaxEvents
        BY <1>1 DEF PublishPhase
    <2>2. inbox' \in [Lanes -> Seq(0..MaxEvents)]
        BY <1>1, <2>1, SendReaches DEF PublishPhase, Kinds
    <2>3. /\ got \in [Sessions -> SUBSET (1..published')]
          /\ base \in [Sessions -> 0..published'] /\ last \in [Sessions -> 0..published']
        <3>1. published \in Nat /\ 1..published \subseteq 1..published' /\ 0..published \subseteq 0..published'
            BY <2>1
        <3> QED
            BY <3>1
    <2>4. /\ dropped \subseteq 1..published'
          /\ \A d \in Sessions : \A p \in late[d] : p[1] = "event" => p[2] \in 1..published'
        BY <2>1
    <2> QED
        BY <1>1, <2>1, <2>2, <2>3, <2>4 DEF PublishPhase
<1>2. CASE Logout
    <2>1. inbox' \in [Lanes -> Seq(0..MaxEvents)]
        BY <1>2, SendReaches DEF Logout, Kinds
    <2> QED
        BY <1>2, <2>1 DEF Logout
<1>3. CASE KeyExpires
    <2>1. faults' \in 0..MaxFaults
        BY <1>3, FaultsBounded DEF KeyExpires
    <2>2. /\ meta' \in [Sessions -> {"none", "full", "bare"}]
          /\ watchers' \subseteq Sessions /\ userDos' \subseteq Sessions /\ doAlerts' \subseteq Sessions
          /\ lapsed' \subseteq Sessions /\ doomed' \subseteq Sessions
        BY <1>3 DEF KeyExpires
    <2> QED
        BY <1>3, <2>1, <2>2 DEF KeyExpires
<1>4. CASE UNCHANGED vars
    BY <1>4 DEF vars
<1> QED
    BY <1>1, <1>2, <1>3, <1>4

\* The steps that neither publish an event nor look one up leave the flow as it is.
LEMMA FlowElsewhere ==
    ASSUME TypeOK, FlowInv, UNCHANGED <<published, msg>>,
           \A l \in Lanes : l[2] = "event" =>
               /\ inbox'[l] = inbox[l]
               /\ \A d \in Sessions : push'[l][d] # "none" => push[l][d] # "none"
    PROVE  FlowInv'
BY DEF FlowInv

\* The steps of neither the worker nor the fan-out.
Quiet == (\E d \in Sessions : Session(d)) \/ Logout \/ KeyExpires \/ UNCHANGED vars

\* They leave the events alone that are on their way.
LEMMA QuietFlow ==
    ASSUME TypeOK, Quiet
    PROVE  /\ UNCHANGED <<published, msg, push, tries, late, browser, dropped>>
           /\ \A l \in Lanes : l[2] = "event" => inbox'[l] = inbox[l]
<1> USE DEF fanout, history
<1>1. ASSUME NEW d \in Sessions, Session(d)
      PROVE  /\ UNCHANGED <<published, msg, push, tries, late, browser, dropped>>
             /\ UNCHANGED inbox \/ Send("cancel", 0)
    BY <1>1 DEF Session, Connect, HandleWatch, FetchSnapshot, RegisterWatch, WatchReply,
        HandleUnwatch, WebSocketClose, FireCancel, Hibernate, Evict, UnwatchCall,
        WatchCall, DisconnectCall, DisconnectEnds, CancelCall
<1>2. /\ UNCHANGED <<published, msg, push, tries, late, browser, dropped>>
      /\ UNCHANGED inbox \/ Send("cancel", 0) \/ Send("revoked", 0)
    BY <1>1 DEF Quiet, Logout, KeyExpires, vars
<1>3. ASSUME NEW kind \in {"cancel", "revoked"}, Send(kind, 0), NEW l \in Lanes, l[2] = "event"
      PROVE  inbox'[l] = inbox[l]
    <2>1. inbox \in [Lanes -> Seq(0..MaxEvents)] /\ 0 \in 0..MaxEvents /\ kind \in Kinds
        BY DEF TypeOK, Kinds
    <2>2. PICK r \in Lanes : r[2] = kind /\ \A m \in Lanes : m # r => inbox'[m] = inbox[m]
        BY <1>3, <2>1, SendReaches
    <2> QED
        BY <1>3, <2>2
<1> QED
    BY <1>2, <1>3

\* An event goes to one subscription.
LEMMA PublishReaches ==
    ASSUME TypeOK, PublishPhase
    PROVE  \E r \in Lanes : /\ r[2] = "event" /\ inbox'[r] = Append(inbox[r], published + 1)
                             /\ \A l \in Lanes : l # r => inbox'[l] = inbox[l]
<1>1. published + 1 \in 0..MaxEvents /\ Send("event", published + 1)
    BY DEF PublishPhase, TypeOK
<1> QED
    BY <1>1, SendReaches DEF TypeOK, Kinds

\* Events are published in order and looked up in order.
LEMMA FlowStep ==
    ASSUME TypeOK, FlowInv, [Next]_vars
    PROVE  FlowInv'
<1>1. CASE PublishPhase
    <2>1. PICK r \in Lanes : /\ r[2] = "event" /\ inbox'[r] = Append(inbox[r], published + 1)
                             /\ \A l \in Lanes : l # r => inbox'[l] = inbox[l]
        BY <1>1, PublishReaches
    <2>2. ASSUME NEW l \in Lanes, l[2] = "event"
          PROVE  msg[l] <= published + 1 /\ Rising(inbox'[l], msg[l], published + 1)
        <3>1. msg[l] <= published /\ Rising(inbox[l], msg[l], published)
            BY <2>2 DEF FlowInv
        <3>2. inbox[l] \in Seq(Nat) /\ msg[l] \in Nat /\ published \in Nat
            BY InboxNat
        <3>3. CASE l = r
            <4>1. Rising(Append(inbox[l], published + 1), msg[l], published + 1)
                BY <3>1, <3>2, RisingAppend
            <4>2. inbox'[l] = Append(inbox[l], published + 1)
                BY <2>1, <3>3
            <4>3. msg[l] <= published + 1
                BY <3>1, <3>2
            <4> QED
                BY <4>1, <4>2, <4>3
        <3>4. CASE l # r
            BY <2>1, <3>1, <3>2, <3>4, RisingHigher
        <3> QED
            BY <3>3, <3>4
    <2> QED
        BY <1>1, <2>2 DEF PublishPhase, FlowInv
<1>2. ASSUME NEW l \in Lanes, Lookup(l) PROVE FlowInv'
    <2>1. ASSUME NEW m \in Lanes, m[2] = "event", m # l
          PROVE  /\ msg'[m] <= published /\ Rising(inbox'[m], msg'[m], published)
                 /\ \A d \in Sessions : push'[m][d] # "none" => msg'[m] > 0
        <3>1. inbox'[m] = inbox[m] /\ msg'[m] = msg[m] /\ push'[m] = push[m]
            BY <1>2, <2>1 DEF Lookup, TypeOK
        <3> QED
            BY <2>1, <3>1 DEF FlowInv
    <2>2. CASE l[2] = "event"
        <3>1. inbox'[l] = Tail(inbox[l]) /\ msg'[l] = Head(inbox[l])
            BY <1>2 DEF Lookup, TypeOK
        <3>2. Head(inbox[l]) \in 1..published /\ Rising(Tail(inbox[l]), Head(inbox[l]), published)
            BY <1>2, <2>2, NextEvent DEF Lookup
        <3>3. published \in Nat
            BY DEF TypeOK
        <3> QED
            BY <1>2, <2>1, <3>1, <3>2, <3>3 DEF Lookup, FlowInv
    <2>3. CASE l[2] # "event"
        BY <1>2, <2>1, <2>3 DEF Lookup, FlowInv
    <2> QED
        BY <2>2, <2>3
<1>3. ASSUME NEW l \in Lanes, LookupFails(l) PROVE FlowInv'
    <2>1. \A m \in Lanes : m # l => inbox'[m] = inbox[m]
        BY <1>3 DEF LookupFails, TypeOK
    <2>2. l[2] = "event" => Rising(inbox'[l], msg[l], published)
        BY <1>3, NextEvent DEF LookupFails, TypeOK
    <2> QED
        BY <1>3, <2>1, <2>2 DEF LookupFails, FlowInv
<1>4. ASSUME NEW l \in Lanes, NEW d \in Sessions, Push(l, d) PROVE FlowInv'
    <2>1. PushesOK
        BY DEF TypeOK, PushesOK
    <2>2. /\ push[l][d] # "none" /\ UNCHANGED <<inbox, msg>>
          /\ \A m \in Lanes, e \in Sessions : m # l \/ e # d => push'[m][e] = push[m][e]
        BY <1>4, <2>1, PushProceeds, ProceedsOK
    <2>3. published' = published
        BY <1>4 DEF Push, PushOne, RefreshTtl, PruneStarts, PruneEnds, RegistryFails
    <2> QED
        BY <2>2, <2>3, FlowElsewhere
<1>5. CASE Quiet
    BY <1>5, QuietFlow, FlowElsewhere
<1>6. ASSUME NEW d \in Sessions, LatePost(d) PROVE FlowInv'
    BY <1>6, FlowElsewhere DEF LatePost
<1> QED
    BY <1>1, <1>2, <1>3, <1>4, <1>5, <1>6 DEF Next, Fanout, Quiet

\* Every step keeps the types.
LEMMA TypeStep ==
    ASSUME TypeOK, FlowInv, [Next]_vars
    PROVE  TypeOK'
BY SessionType, PushType, LateType, LookupType, OutsideType DEF Next, Fanout

\* TypeOK and FlowInv together are inductive.
LEMMA Flow == Spec => [](TypeOK /\ FlowInv)
<1>1. TypeOK /\ FlowInv /\ [Next]_vars => (TypeOK /\ FlowInv)'
    BY TypeStep, FlowStep
<1> QED
    BY <1>1, InitOK, PTL DEF Spec

\* The registry, the objects, the fan-out and the browsers keep their types, attempts are
\* counted only while a push is under way, and a browser has only events that were
\* published, whatever fails (pushWithRetry, handlePush).
THEOREM TypeCorrect == Spec => []TypeOK
BY Flow, PTL

----------------------------------------------------------------------------
(* What an object believes, and what the registry knows of it.              *)

\* Nothing is known of an object before its socket, and nothing goes to it.
NewInv(d) ==
    sock[d] = "new" =>
        /\ \A w \in Stages : watching[d][w] = 0
        /\ \A c \in Calls : calls[d][c] = 0
        /\ d \notin ticket /\ d \notin watched /\ meta[d] # "full"
        /\ \A l \in Lanes : push[l][d] = "none"

\* Only a socket that is on its way out is deregistered as a whole.
GoneInv(d) ==
    /\ calls[d]["disconnect"] > 0 \/ dereg[d] # "none" => sock[d] = "closed"
    /\ \A l \in Lanes : push[l][d] \in {"prune", "listed", "unlisted", "bare"} =>
          sock[d] \in {"closing", "closed"}

\* WatchedIsRegistered, from the registration on and not only from its answer.
KnownInv(d) ==
    /\ watching[d]["reply"] > 0 \/ d \in watched
    /\ sock[d] = "open" /\ d \notin lapsed \union withdrawn
    => Registered(d)

SocketInv == \A d \in Sessions : NewInv(d) /\ GoneInv(d)
WatchInv == \A d \in Sessions : KnownInv(d)

\* Initially no object has a socket.
LEMMA InitWatch == Init => SocketInv /\ WatchInv
<1> SUFFICES ASSUME Init, NEW d \in Sessions
             PROVE  NewInv(d) /\ GoneInv(d) /\ KnownInv(d)
    BY DEF SocketInv, WatchInv
<1>1. /\ \A w \in Stages : watching[d][w] = 0
      /\ \A c \in Calls : calls[d][c] = 0
      /\ ticket = {} /\ watched = {} /\ meta[d] = "none" /\ dereg[d] = "none"
      /\ \A l \in Lanes : push[l][d] = "none"
    BY DEF Init
<1>2. "reply" \in Stages /\ "disconnect" \in Calls
    BY DEF Stages, Calls
<1> QED
    BY <1>1, <1>2 DEF NewInv, GoneInv, KnownInv

\* What the steps of an object and of its calls leave alone: the other objects, and
\* the calls of the other kinds.
LEMMA SessionLocal ==
    ASSUME TypeOK, NEW d \in Sessions, Session(d)
    PROVE  /\ push' = push
           /\ \A e \in Sessions : e # d =>
                 /\ sock'[e] = sock[e] /\ watching'[e] = watching[e] /\ dereg'[e] = dereg[e]
                 /\ meta'[e] = meta[e] /\ Registered(e)' = Registered(e)
                 /\ \A c \in Calls : calls'[e][c] = calls[e][c]
                 /\ (e \in ticket' <=> e \in ticket) /\ (e \in watched' <=> e \in watched)
                 /\ (e \in lapsed' <=> e \in lapsed) /\ (e \in withdrawn' <=> e \in withdrawn)
<1>w. ASSUME NEW from \in Stages, NEW to, WatchMoves(d, from, to), NEW e \in Sessions, e # d
      PROVE  watching'[e] = watching[e]
    BY <1>w, MovesOK DEF TypeOK
<1>c. ASSUME NEW k \in Calls, Calling(d, k) \/ Arrives(d, k), NEW e \in Sessions, e # d, NEW c \in Calls
      PROVE  calls'[e][c] = calls[e][c]
    BY <1>c, CallsOK DEF TypeOK
<1>s. {"snapshot", "register", "reply"} \subseteq Stages
      /\ {"watch", "unwatch", "disconnect", "cancel"} \subseteq Calls
    BY DEF Stages, Calls
<1>1. push' = push
    BY DEF Session, Connect, HandleWatch, FetchSnapshot, RegisterWatch, WatchReply, HandleUnwatch,
        WebSocketClose, FireCancel, Hibernate, Evict, UnwatchCall, WatchCall, DisconnectCall,
        DisconnectEnds, CancelCall, fanout
<1> SUFFICES ASSUME NEW e \in Sessions, e # d
             PROVE  /\ sock'[e] = sock[e] /\ watching'[e] = watching[e] /\ dereg'[e] = dereg[e]
                    /\ meta'[e] = meta[e] /\ Registered(e)' = Registered(e)
                    /\ \A c \in Calls : calls'[e][c] = calls[e][c]
                    /\ (e \in ticket' <=> e \in ticket) /\ (e \in watched' <=> e \in watched)
                    /\ (e \in lapsed' <=> e \in lapsed) /\ (e \in withdrawn' <=> e \in withdrawn)
    BY <1>1
<1>2. /\ sock'[e] = sock[e] /\ dereg'[e] = dereg[e]
      /\ (e \in ticket' <=> e \in ticket) /\ (e \in watched' <=> e \in watched)
    BY DEF Session, Connect, HandleWatch, FetchSnapshot, RegisterWatch, WatchReply, HandleUnwatch,
        WebSocketClose, FireCancel, Hibernate, Evict, UnwatchCall, WatchCall, DisconnectCall,
        DisconnectEnds, CancelCall, TypeOK
<1>3. watching'[e] = watching[e]
    <2>1. CASE FetchSnapshot(d) \/ RegisterWatch(d) \/ WatchReply(d)
        BY <1>w, <1>s, <2>1 DEF FetchSnapshot, RegisterWatch, WatchReply
    <2> QED
        BY <2>1 DEF Session, Connect, HandleWatch, HandleUnwatch, WebSocketClose, FireCancel, Hibernate,
            Evict, UnwatchCall, WatchCall, DisconnectCall, DisconnectEnds, CancelCall, TypeOK
<1>4. ASSUME NEW c \in Calls PROVE calls'[e][c] = calls[e][c]
    <2>1. CASE \E k \in Calls : Calling(d, k) \/ Arrives(d, k)
        BY <1>c, <2>1
    <2>2. CASE Evict(d)
        <3>1. calls'[e] = calls[e]
            BY <2>2 DEF Evict, TypeOK
        <3> QED
            BY <3>1
    <2>3. CASE UNCHANGED calls
        BY <2>3
    <2> QED
        BY <1>s, <2>1, <2>2, <2>3 DEF Session, Connect, HandleWatch, FetchSnapshot, RegisterWatch,
            WatchReply, HandleUnwatch, WebSocketClose, FireCancel, Hibernate, UnwatchCall, WatchCall,
            DisconnectCall, DisconnectEnds, CancelCall
<1>5. /\ meta'[e] = meta[e] /\ Registered(e)' = Registered(e)
      /\ (e \in lapsed' <=> e \in lapsed) /\ (e \in withdrawn' <=> e \in withdrawn)
    <2>1. CASE Registration(d)
        BY <2>1, RegistrationOK
    <2>2. CASE UNCHANGED <<registry, lapsed, withdrawn>>
        BY <2>2 DEF registry, Registered
    <2>3. CASE UnwatchCall(d)
        BY <2>2, <2>3 DEF UnwatchCall, Registered, registry
    <2>4. CASE DisconnectEnds(d)
        BY <2>4 DEF DisconnectEnds, DeregisterDo, Registered, TypeOK, history
    <2> QED
        BY <2>1, <2>2, <2>3, <2>4 DEF Session, Connect, HandleWatch, FetchSnapshot, RegisterWatch,
            WatchReply, HandleUnwatch, WebSocketClose, FireCancel, Hibernate, Evict, WatchCall,
            DisconnectCall, CancelCall, history
<1> QED
    BY <1>2, <1>3, <1>4, <1>5

\* The steps of an object and of its calls keep SocketInv.
LEMMA SessionSocket ==
    ASSUME TypeOK, SocketInv, NEW d \in Sessions, Session(d)
    PROVE  SocketInv'
<1>1. ASSUME NEW e \in Sessions, e # d PROVE NewInv(e)' /\ GoneInv(e)'
    <2>1. NewInv(e) /\ GoneInv(e)
        BY DEF SocketInv
    <2>2. "disconnect" \in Calls
        BY DEF Calls
    <2> QED
        BY <1>1, <2>1, <2>2, SessionLocal DEF NewInv, GoneInv
<1>2. NewInv(d) /\ GoneInv(d) /\ push' = push
    BY SessionLocal DEF SocketInv
<1>s. {"snapshot", "register", "reply"} \subseteq Stages
      /\ {"watch", "unwatch", "disconnect", "cancel"} \subseteq Calls
    BY DEF Stages, Calls
<1>3. NewInv(d)'
    <2>1. CASE sock[d] = "new"
        <3>1. /\ \A w \in Stages : ~(watching[d][w] > 0)
              /\ \A c \in Calls : ~(calls[d][c] > 0)
              /\ d \notin ticket /\ dereg[d] = "none"
            BY <1>2, <1>s, <2>1 DEF NewInv, GoneInv
        <3>2. Connect(d)
            BY <1>s, <2>1, <3>1
            DEF Session, HandleWatch, FetchSnapshot, RegisterWatch, WatchReply, WatchMoves, HandleUnwatch,
                WebSocketClose, FireCancel, Hibernate, Evict, UnwatchCall, WatchCall, DisconnectCall,
                DisconnectEnds, CancelCall, Arrives
        <3> QED
            BY <3>2 DEF Connect, TypeOK, NewInv
    <2>2. CASE sock[d] # "new"
        BY <2>2 DEF Session, Connect, HandleWatch, FetchSnapshot, RegisterWatch, WatchReply, HandleUnwatch,
            WebSocketClose, FireCancel, Hibernate, Evict, UnwatchCall, WatchCall, DisconnectCall,
            DisconnectEnds, CancelCall, TypeOK, NewInv
    <2> QED
        BY <2>1, <2>2
<1>4. GoneInv(d)'
    <2>1. /\ sock[d] = "closed" => sock'[d] = "closed"
          /\ sock[d] = "closing" => sock'[d] \in {"closing", "closed"}
        BY DEF Session, Connect, HandleWatch, FetchSnapshot, RegisterWatch, WatchReply, HandleUnwatch,
            WebSocketClose, FireCancel, Hibernate, Evict, UnwatchCall, WatchCall, DisconnectCall,
            DisconnectEnds, CancelCall, TypeOK
    <2>2. calls'[d]["disconnect"] > 0 => calls[d]["disconnect"] > 0 \/ sock'[d] = "closed"
        <3>1. ASSUME NEW c \in Calls \ {"disconnect"}, Calling(d, c) \/ Arrives(d, c)
              PROVE  calls'[d]["disconnect"] = calls[d]["disconnect"]
            BY <1>s, <3>1, CallsOK DEF TypeOK
        <3>2. CASE WebSocketClose(d) \/ Evict(d)
            BY <3>2 DEF WebSocketClose, Evict, TypeOK
        <3>3. CASE DisconnectCall(d)
            BY <3>3 DEF DisconnectCall, Arrives
        <3>4. CASE UNCHANGED calls
            BY <3>4
        <3>5. {"watch", "unwatch", "cancel"} \subseteq Calls \ {"disconnect"}
            BY DEF Calls
        <3> QED
            BY <3>1, <3>2, <3>3, <3>4, <3>5
            DEF Session, Connect, HandleWatch, FetchSnapshot, RegisterWatch, WatchReply, HandleUnwatch,
                FireCancel, Hibernate, UnwatchCall, WatchCall, DisconnectEnds, CancelCall
    <2>3. dereg'[d] # "none" => dereg[d] # "none" \/ calls[d]["disconnect"] > 0
        BY DEF Session, Connect, HandleWatch, FetchSnapshot, RegisterWatch, WatchReply, HandleUnwatch,
            WebSocketClose, FireCancel, Hibernate, Evict, UnwatchCall, WatchCall, DisconnectCall,
            DisconnectEnds, CancelCall, Arrives, TypeOK
    <2> QED
        BY <1>2, <2>1, <2>2, <2>3 DEF GoneInv
<1> QED
    BY <1>1, <1>3, <1>4 DEF SocketInv

\* They keep WatchInv: a session is taken off the list only by an unwatch, or when its
\* socket is gone.
LEMMA SessionWatch ==
    ASSUME TypeOK, SocketInv, WatchInv, NEW d \in Sessions, Session(d)
    PROVE  WatchInv'
<1>1. ASSUME NEW e \in Sessions, e # d PROVE KnownInv(e)'
    <2>1. KnownInv(e)
        BY DEF WatchInv
    <2> QED
        BY <1>1, <2>1, SessionLocal DEF KnownInv
<1>2. KnownInv(d) /\ GoneInv(d) /\ NewInv(d)
    BY DEF WatchInv, SocketInv
<1>3. KnownInv(d)'
    <2>1. CASE Registration(d)
        <3>1. Registered(d)'
            BY <2>1, RegistrationOK
        <3> QED
            BY <3>1 DEF KnownInv
    <2>2. ASSUME NEW from \in Stages, NEW to, to # "reply", WatchMoves(d, from, to)
          PROVE  watching'[d]["reply"] > 0 => watching[d]["reply"] > 0
        <3>1. /\ watching'[d]["reply"] <= watching[d]["reply"]
              /\ watching' \in [Sessions -> [Stages -> Nat]] /\ watching \in [Sessions -> [Stages -> Nat]]
            BY <2>2, MovesOK DEF TypeOK
        <3>2. watching'[d]["reply"] \in Nat /\ watching[d]["reply"] \in Nat
            BY <3>1 DEF Stages
        <3> QED
            BY <3>1, <3>2
    <2>3. CASE UNCHANGED <<registry, sock, lapsed, withdrawn>> /\ ~Registration(d)
        <3>1. CASE FetchSnapshot(d) \/ RegisterWatch(d)
            <4>1. watching'[d]["reply"] > 0 => watching[d]["reply"] > 0
                BY <2>2, <2>3, <3>1 DEF FetchSnapshot, RegisterWatch, Stages
            <4>2. watched' = watched
                BY <3>1 DEF FetchSnapshot, RegisterWatch
            <4> QED
                BY <1>2, <2>3, <4>1, <4>2 DEF KnownInv, Registered, registry
        <3>2. CASE WatchReply(d)
            <4>1. watching[d]["reply"] > 0
                BY <3>2, MovesOK DEF WatchReply, WatchMoves
            <4> QED
                BY <1>2, <2>3, <4>1 DEF KnownInv, Registered, registry
        <3>3. CASE /\ watched' \subseteq watched
                   /\ watching'[d]["reply"] > 0 => watching[d]["reply"] > 0
            BY <1>2, <2>3, <3>3 DEF KnownInv, Registered, registry
        <3>4. HandleWatch(d) => watching'[d]["reply"] = watching[d]["reply"]
            BY DEF HandleWatch, TypeOK, Stages
        <3>5. Evict(d) => ~(watching'[d]["reply"] > 0)
            BY DEF Evict, TypeOK, Stages
        <3> QED
            BY <2>3, <3>1, <3>2, <3>3, <3>4, <3>5
            DEF Session, Connect, HandleWatch, HandleUnwatch, WebSocketClose, FireCancel, Hibernate, Evict,
                UnwatchCall, WatchCall, DisconnectCall, DisconnectEnds, CancelCall
    <2>4. CASE Connect(d) \/ WebSocketClose(d) \/ Evict(d)
        <3>1. CASE Connect(d)
            <4>1. ~(watching[d]["reply"] > 0) /\ d \notin watched
                BY <1>2, <3>1 DEF Connect, NewInv, Stages
            <4> QED
                BY <3>1, <4>1 DEF Connect, KnownInv
        <3>2. CASE WebSocketClose(d) \/ Evict(d)
            <4>1. sock'[d] = "closed"
                BY <3>2 DEF WebSocketClose, Evict, TypeOK
            <4> QED
                BY <4>1 DEF KnownInv
        <3> QED
            BY <2>4, <3>1, <3>2
    <2>5. CASE UnwatchCall(d)
        <3>1. CASE d \in withdrawn'
            BY <3>1 DEF KnownInv
        <3>2. CASE d \notin withdrawn'
            BY <1>2, <2>5, <3>2 DEF UnwatchCall, KnownInv, Registered
        <3> QED
            BY <3>1, <3>2
    <2>6. CASE DisconnectEnds(d)
        <3>1. sock'[d] = "closed"
            BY <1>2, <2>6 DEF DisconnectEnds, GoneInv
        <3> QED
            BY <3>1 DEF KnownInv
    <2> QED
        BY <2>1, <2>3, <2>4, <2>5, <2>6
        DEF Session, HandleWatch, FetchSnapshot, RegisterWatch, WatchReply, HandleUnwatch, FireCancel,
            Hibernate, WatchCall, DisconnectCall, CancelCall, history, registry
<1> QED
    BY <1>1, <1>3 DEF WatchInv

\* A post that arrives late closes a socket at most.
LEMMA LateLocal ==
    ASSUME TypeOK, NEW d \in Sessions, LatePost(d)
    PROVE  /\ sock[d] = "open"
           /\ \A e \in Sessions : sock'[e] = sock[e] \/ (sock[e] = "open" /\ sock'[e] = "closing")
           /\ UNCHANGED <<published, registry, ticket, watched, asked, watching, calls, dereg,
                          inbox, msg, push, tries, history, faults>>
           /\ \E p \in late[d] :
                 /\ late' = [late EXCEPT ![d] = @ \ {p}]
                 /\ got' = [got EXCEPT ![d] = IF p[1] = "event" THEN @ \union {p[2]} ELSE @]
                 /\ last' = [last EXCEPT ![d] = IF p[1] = "event" THEN p[2] ELSE @]
<1>1. PICK p \in late[d] : Forward(d, p[1], p[2]) /\ late' = [late EXCEPT ![d] = @ \ {p}]
    BY DEF LatePost
<1>2. /\ sock[d] = "open"
      /\ UNCHANGED <<published, registry, ticket, watched, asked, watching, calls, dereg,
                     inbox, msg, push, tries, history, faults>>
    BY DEF LatePost
<1>3. \A e \in Sessions : sock'[e] = sock[e] \/ (sock[e] = "open" /\ sock'[e] = "closing")
    BY <1>1, <1>2 DEF Forward, TypeOK
<1> QED
    BY <1>1, <1>2, <1>3 DEF Forward

LEMMA LateWatch ==
    ASSUME TypeOK, NEW d \in Sessions, LatePost(d)
    PROVE  /\ SocketInv => SocketInv'
           /\ WatchInv => WatchInv'
<1>1. /\ \A e \in Sessions : sock'[e] = sock[e] \/ (sock[e] = "open" /\ sock'[e] = "closing")
      /\ UNCHANGED <<registry, ticket, watched, watching, calls, dereg, push, lapsed, withdrawn>>
    BY LateLocal DEF history
<1>2. SocketInv => SocketInv'
    BY <1>1 DEF SocketInv, NewInv, GoneInv, registry
<1>3. WatchInv => WatchInv'
    BY <1>1 DEF WatchInv, KnownInv, Registered, registry
<1> QED
    BY <1>2, <1>3

\* What a step of a push does to the socket and to the push itself.
LEMMA PushLocal ==
    ASSUME TypeOK, SocketInv, NEW l \in Lanes, NEW d \in Sessions, Push(l, d)
    PROVE  /\ push[l][d] # "none" /\ sock[d] \in {"open", "closing", "closed"}
           /\ \A m \in Lanes, e \in Sessions : m # l \/ e # d => push'[m][e] = push[m][e]
           /\ \A e \in Sessions : sock'[e] = sock[e] \/ (sock[e] = "open" /\ sock'[e] = "closing")
           /\ push'[l][d] \in {"none", "post", "refresh"} \/ sock'[d] \in {"closing", "closed"}
           /\ UNCHANGED <<published, ticket, watched, asked, watching, calls, dereg, inbox, msg, history>>
<1>1. PushesOK
    BY DEF TypeOK, PushesOK
<1>2. /\ push[l][d] # "none"
      /\ \A m \in Lanes, e \in Sessions : m # l \/ e # d => push'[m][e] = push[m][e]
    BY <1>1, PushProceeds, ProceedsOK
<1>3. sock[d] \in {"open", "closing", "closed"}
    BY <1>2 DEF SocketInv, NewInv, TypeOK
<1>4. \A e \in Sessions : sock'[e] = sock[e] \/ (sock[e] = "open" /\ sock'[e] = "closing")
    BY DEF Push, PushOne, Forward, RefreshTtl, PruneStarts, PruneEnds, RegistryFails, TypeOK, object
<1>5. push'[l][d] \in {"none", "post", "refresh"} \/ sock'[d] \in {"closing", "closed"}
    <2>1. CASE PushOne(l, d)
        BY <1>3, <2>1 DEF PushOne, PushDone, PushAt, PushAgain, TypeOK
    <2>2. CASE PruneStarts(l, d)
        BY <2>2 DEF PruneStarts, SocketInv, GoneInv, object
    <2>3. CASE RefreshTtl(l, d) \/ PruneEnds(l, d) \/ RegistryFails(l, d)
        BY <2>3 DEF RefreshTtl, PruneEnds, RegistryFails, PushDone, PushAt, PushAgain, TypeOK
    <2> QED
        BY <2>1, <2>2, <2>3 DEF Push
<1>6. UNCHANGED <<published, ticket, watched, asked, watching, calls, dereg, inbox, msg, history>>
    BY DEF Push, PushOne, RefreshTtl, PruneStarts, PruneEnds, RegistryFails, object
<1> QED
    BY <1>2, <1>3, <1>4, <1>5, <1>6

\* A push registers nobody, and deregisters only an object whose socket is going.
LEMMA PushRegistry ==
    ASSUME TypeOK, SocketInv, NEW l \in Lanes, NEW d \in Sessions, Push(l, d), NEW e \in Sessions
    PROVE  /\ meta'[e] = "full" => meta[e] = "full"
           /\ Registered(e)' => Registered(e)
           /\ Registered(e) => Registered(e)' \/ sock[e] \in {"closing", "closed"}
<1>1. CASE PushOne(l, d) \/ PruneStarts(l, d) \/ RegistryFails(l, d)
    BY <1>1 DEF PushOne, PruneStarts, RegistryFails, registry, Registered
<1>2. CASE RefreshTtl(l, d)
    BY <1>2 DEF RefreshTtl, Registered, TypeOK
<1>3. CASE PruneEnds(l, d)
    BY <1>3 DEF PruneEnds, DeregisterDo, Registered, TypeOK, SocketInv, GoneInv
<1> QED
    BY <1>1, <1>2, <1>3 DEF Push

\* The steps of the fan-out.
LEMMA FanoutSocket ==
    ASSUME TypeOK, SocketInv, NEW l \in Lanes, Fanout(l)
    PROVE  SocketInv'
<1>1. ASSUME NEW d \in Sessions, Push(l, d) PROVE SocketInv'
    <2> SUFFICES ASSUME NEW e \in Sessions PROVE NewInv(e)' /\ GoneInv(e)'
        BY DEF SocketInv
    <2>1. NewInv(e) /\ GoneInv(e)
        BY DEF SocketInv
    <2>2. NewInv(e)'
        BY <1>1, <2>1, PushLocal, PushRegistry DEF NewInv
    <2>3. GoneInv(e)'
        BY <1>1, <2>1, PushLocal DEF GoneInv
    <2> QED
        BY <2>2, <2>3
<1> USE DEF TypeOK, SocketInv, NewInv, GoneInv, registry, object
<1>2. CASE Lookup(l)
    BY <1>2 DEF Lookup
<1>3. CASE LookupFails(l)
    BY <1>3 DEF LookupFails
<1> QED
    BY <1>1, <1>2, <1>3 DEF Fanout

LEMMA FanoutWatch ==
    ASSUME TypeOK, SocketInv, WatchInv, NEW l \in Lanes, Fanout(l)
    PROVE  WatchInv'
<1>1. ASSUME NEW d \in Sessions, Push(l, d) PROVE WatchInv'
    <2> SUFFICES ASSUME NEW e \in Sessions PROVE KnownInv(e)'
        BY DEF WatchInv
    <2>1. KnownInv(e)
        BY DEF WatchInv
    <2> QED
        BY <1>1, <2>1, PushLocal, PushRegistry DEF KnownInv, history
<1>2. CASE Lookup(l) \/ LookupFails(l)
    BY <1>2 DEF Lookup, LookupFails, WatchInv, KnownInv, Registered, registry, object, history
<1> QED
    BY <1>1, <1>2 DEF Fanout

\* Publications, logouts and expiries.
LEMMA OutsideWatch ==
    ASSUME TypeOK, PublishPhase \/ Logout \/ KeyExpires \/ UNCHANGED vars
    PROVE  /\ SocketInv => SocketInv'
           /\ WatchInv => WatchInv'
<1> USE DEF TypeOK, SocketInv, WatchInv, NewInv, GoneInv, KnownInv, Registered,
        registry, object, fanout, history
<1>1. CASE PublishPhase \/ Logout
    <2>1. UNCHANGED <<registry, object, push, lapsed, withdrawn>>
        BY <1>1 DEF PublishPhase, Logout
    <2>2. UNCHANGED <<meta, watchers, sock, ticket, watched, watching, calls, dereg>>
        BY <2>1
    <2> QED
        BY <2>1, <2>2
<1>2. CASE KeyExpires
    BY <1>2 DEF KeyExpires
<1>3. CASE UNCHANGED vars
    BY <1>3 DEF vars
<1> QED
    BY <1>1, <1>2, <1>3

\* SocketInv is inductive.
LEMMA Sockets == Spec => []SocketInv
<1>1. TypeOK /\ SocketInv /\ [Next]_vars => SocketInv'
    BY SessionSocket, FanoutSocket, LateWatch, OutsideWatch DEF Next
<1> QED
    BY <1>1, InitWatch, TypeCorrect, PTL DEF Spec

\* An object that takes an alert to be watched, and so ignores further watch messages, is
\* in the registry, unless a TTL ran out, an unwatch was carried out after the latest
\* registration or its socket is going: for any number of objects, BFF processes, faults
\* and watch messages, however their handleWatch calls overlap (handleWatch, handleUnwatch,
\* deregisterDo, pruneDoEverywhere).
THEOREM WatchIsKnown == Spec => []WatchedIsRegistered
<1>1. TypeOK /\ SocketInv /\ WatchInv /\ [Next]_vars => WatchInv'
    BY SessionWatch, FanoutWatch, LateWatch, OutsideWatch DEF Next
<1>2. WatchInv => WatchedIsRegistered
    BY DEF WatchInv, KnownInv, WatchedIsRegistered
<1> QED
    BY <1>1, <1>2, InitWatch, TypeCorrect, Sockets, PTL DEF Spec

----------------------------------------------------------------------------
(* The order of the events, with one BFF process.                           *)

OneBff == \A f, g \in Fanouts : f = g

\* Then there is one subscription to the events.
LEMMA OneLane ==
    ASSUME OneBff, NEW l \in Lanes, NEW m \in Lanes, l[2] = m[2]
    PROVE  l = m
BY LaneParts DEF OneBff

\* What a step does to what the browsers have.
LEMMA BrowserStep ==
    ASSUME TypeOK, [Next]_vars, NEW d \in Sessions
    PROVE  \/ last'[d] = last[d] /\ got'[d] = got[d]
           \/ \E l \in Lanes :
                 /\ l[2] = "event" /\ push[l][d] = "post" /\ sock[d] = "open"
                 /\ last'[d] = msg[l] /\ got'[d] = got[d] \union {msg[l]}
           \/ \E n \in Nat :
                 /\ <<"event", n>> \in late[d] \ late'[d] /\ sock[d] = "open"
                 /\ last'[d] = n /\ got'[d] = got[d] \union {n}
                 /\ UNCHANGED <<published, inbox, push, msg>>
<1>1. CASE UNCHANGED browser
    BY <1>1 DEF browser
<1>2. ASSUME NEW l \in Lanes, NEW e \in Sessions, PushOne(l, e)
      PROVE  \/ last'[d] = last[d] /\ got'[d] = got[d]
             \/ /\ l[2] = "event" /\ push[l][d] = "post" /\ sock[d] = "open"
                /\ last'[d] = msg[l] /\ got'[d] = got[d] \union {msg[l]}
    <2>1. CASE sock[e] = "open" /\ Forward(e, l[2], msg[l])
        BY <1>2, <2>1 DEF PushOne, Forward, TypeOK
    <2> QED
        BY <1>1, <1>2, <2>1 DEF PushOne, browser
<1>4. ASSUME NEW e \in Sessions, LatePost(e)
      PROVE  \/ last'[d] = last[d] /\ got'[d] = got[d]
             \/ \E n \in Nat :
                   /\ <<"event", n>> \in late[d] \ late'[d] /\ sock[d] = "open"
                   /\ last'[d] = n /\ got'[d] = got[d] \union {n}
                   /\ UNCHANGED <<published, inbox, push, msg>>
    <2>1. PICK p \in late[e] :
              /\ late' = [late EXCEPT ![e] = @ \ {p}]
              /\ got' = [got EXCEPT ![e] = IF p[1] = "event" THEN @ \union {p[2]} ELSE @]
              /\ last' = [last EXCEPT ![e] = IF p[1] = "event" THEN p[2] ELSE @]
        BY <1>4, LateLocal
    <2>2. sock[e] = "open" /\ UNCHANGED <<published, inbox, push, msg>>
        BY <1>4, LateLocal
    <2>3. p = <<p[1], p[2]>> /\ p[2] \in Nat
        BY DEF TypeOK
    <2>4. CASE d = e /\ p[1] = "event"
        <3>1. last'[d] = p[2] /\ got'[d] = got[d] \union {p[2]} /\ late'[d] = late[d] \ {p}
            BY <2>1, <2>4 DEF TypeOK
        <3>2. p = <<"event", p[2]>>
            BY <2>3, <2>4
        <3>3. <<"event", p[2]>> \in late[d] \ late'[d]
            BY <2>1, <2>4, <3>1, <3>2
        <3> QED
            BY <2>2, <2>3, <2>4, <3>1, <3>3
    <2>5. CASE d # e \/ p[1] # "event"
        BY <2>1, <2>5 DEF TypeOK
    <2> QED
        BY <2>4, <2>5
<1>3. \/ UNCHANGED browser
      \/ \E l \in Lanes, e \in Sessions : PushOne(l, e)
      \/ \E e \in Sessions : LatePost(e)
    BY DEF Next, vars, browser, PublishPhase, Logout, KeyExpires, Session, Connect, HandleWatch,
        FetchSnapshot, RegisterWatch, WatchReply, HandleUnwatch, WebSocketClose, FireCancel,
        Hibernate, Evict, UnwatchCall, WatchCall, DisconnectCall, DisconnectEnds, CancelCall, Fanout,
        Lookup, LookupFails, Push, RefreshTtl, PruneStarts, PruneEnds, RegistryFails
<1> QED
    BY <1>1, <1>2, <1>3, <1>4

\* What may arrive late was posted before, for the event that its subscription was at.
LEMMA LateSource ==
    ASSUME TypeOK, [Next]_vars, NEW d \in Sessions, NEW p \in late'[d]
    PROVE  p \in late[d] \/ \E l \in Lanes : p = <<l[2], msg[l]>> /\ UNCHANGED msg
<1>1. CASE UNCHANGED late
    BY <1>1
<1>2. ASSUME NEW l \in Lanes, NEW e \in Sessions, PushOne(l, e)
      PROVE  p \in late[d] \/ (p = <<l[2], msg[l]>> /\ UNCHANGED msg)
    <2>1. CASE late' = [late EXCEPT ![e] = @ \union {<<l[2], msg[l]>>}]
        <3>1. late'[d] \subseteq late[d] \union {<<l[2], msg[l]>>}
            BY <2>1 DEF TypeOK
        <3> QED
            BY <1>2, <3>1 DEF PushOne
    <2> QED
        BY <1>1, <1>2, <2>1 DEF PushOne
<1>3. ASSUME NEW e \in Sessions, LatePost(e) PROVE p \in late[d]
    <2>1. PICK q \in late[e] : late' = [late EXCEPT ![e] = @ \ {q}]
        BY <1>3 DEF LatePost
    <2> QED
        BY <2>1 DEF TypeOK
<1>4. \/ UNCHANGED late
      \/ \E l \in Lanes, e \in Sessions : PushOne(l, e)
      \/ \E e \in Sessions : LatePost(e)
    BY DEF Next, vars, fanout, PublishPhase, Logout, KeyExpires, Session, Connect, HandleWatch,
        FetchSnapshot, RegisterWatch, WatchReply, HandleUnwatch, WebSocketClose, FireCancel,
        Hibernate, Evict, UnwatchCall, WatchCall, DisconnectCall, DisconnectEnds, CancelCall, Fanout,
        Lookup, LookupFails, Push, RefreshTtl, PruneStarts, PruneEnds, RegistryFails
<1> QED
    BY <1>1, <1>2, <1>3, <1>4

\* A subscription moves on to later events only.
LEMMA MsgStep ==
    ASSUME TypeOK, FlowInv, [Next]_vars, NEW l \in Lanes, l[2] = "event"
    PROVE  msg'[l] >= msg[l]
<1>1. msg[l] \in Nat
    BY DEF TypeOK
<1>2. ASSUME NEW m \in Lanes, Lookup(m) PROVE msg'[l] >= msg[l]
    <2>1. CASE m = l
        <3>1. inbox[l] # <<>> /\ msg'[l] = Head(inbox[l])
            BY <1>2, <2>1 DEF Lookup, TypeOK
        <3>2. Head(inbox[l]) \in 1..published /\ msg[l] < Head(inbox[l])
            BY <3>1, NextEvent
        <3> QED
            BY <1>1, <3>1, <3>2
    <2>2. CASE m # l
        BY <1>1, <1>2, <2>2 DEF Lookup, TypeOK
    <2> QED
        BY <2>1, <2>2
<1>3. \/ UNCHANGED msg
      \/ \E m \in Lanes : Lookup(m)
    BY PushProceeds
    DEF Next, vars, fanout, PublishPhase, Logout, KeyExpires, Session, Connect, HandleWatch,
        FetchSnapshot, RegisterWatch, WatchReply, HandleUnwatch, WebSocketClose, FireCancel,
        Hibernate, Evict, UnwatchCall, WatchCall, DisconnectCall, DisconnectEnds, CancelCall, Fanout,
        LookupFails, LatePost
<1> QED
    BY <1>1, <1>2, <1>3

\* No browser is ahead of the subscription.
AheadInv == \A l \in Lanes : l[2] = "event" => \A d \in Sessions : last[d] <= msg[l]

\* Nor is a post that may arrive late.
LateInv ==
    \A d \in Sessions : \A p \in late[d] :
        p[1] = "event" => \E l \in Lanes : l[2] = "event" /\ p[2] <= msg[l]

LEMMA LateStep ==
    ASSUME TypeOK, FlowInv, LateInv, [Next]_vars
    PROVE  LateInv'
<1> SUFFICES ASSUME NEW d \in Sessions, NEW p \in late'[d], p[1] = "event"
             PROVE  \E l \in Lanes : l[2] = "event" /\ p[2] <= msg'[l]
    BY DEF LateInv
<1>1. TypeOK'
    BY TypeStep
<1>2. CASE p \in late[d]
    <2>1. PICK l \in Lanes : l[2] = "event" /\ p[2] <= msg[l]
        BY <1>2 DEF LateInv
    <2>2. p[2] \in Nat /\ msg[l] \in Nat /\ msg'[l] \in Nat
        BY <1>1, <1>2 DEF TypeOK
    <2>3. msg'[l] >= msg[l]
        BY <2>1, MsgStep
    <2> QED
        BY <2>1, <2>2, <2>3
<1>3. ASSUME NEW l \in Lanes, p = <<l[2], msg[l]>>, UNCHANGED msg
      PROVE  \E m \in Lanes : m[2] = "event" /\ p[2] <= msg'[m]
    <2>1. l[2] = "event" /\ p[2] = msg[l] /\ msg[l] \in Nat
        BY <1>3 DEF TypeOK
    <2> QED
        BY <1>3, <2>1
<1> QED
    BY <1>2, <1>3, LateSource

LEMMA AheadStep ==
    ASSUME OneBff, TypeOK, FlowInv, AheadInv, LateInv, [Next]_vars
    PROVE  AheadInv'
<1> SUFFICES ASSUME NEW l \in Lanes, l[2] = "event", NEW d \in Sessions
             PROVE  last'[d] <= msg'[l]
    BY DEF AheadInv
<1>1. msg[l] \in Nat /\ msg'[l] \in Nat /\ msg[l] <= msg'[l] /\ last[d] \in Nat /\ last[d] <= msg[l]
    <2>1. TypeOK'
        BY TypeStep
    <2>2. msg'[l] >= msg[l]
        BY MsgStep
    <2>3. msg[l] \in Nat /\ msg'[l] \in Nat /\ last[d] \in Nat
        BY <2>1 DEF TypeOK
    <2>4. last[d] <= msg[l]
        BY DEF AheadInv
    <2> QED
        BY <2>2, <2>3, <2>4
<1>2. CASE last'[d] = last[d]
    BY <1>1, <1>2
<1>3. ASSUME NEW m \in Lanes, m[2] = "event", last'[d] = msg[m]
      PROVE  last'[d] <= msg'[l]
    BY <1>1, <1>3, OneLane
<1>4. ASSUME NEW n \in Nat, <<"event", n>> \in late[d], last'[d] = n
      PROVE  last'[d] <= msg'[l]
    <2>1. PICK m \in Lanes : m[2] = "event" /\ n <= msg[m]
        BY <1>4 DEF LateInv
    <2>2. m = l
        BY <2>1, OneLane
    <2> QED
        BY <1>1, <1>4, <2>1, <2>2
<1> QED
    BY <1>2, <1>3, <1>4, BrowserStep

\* At first nothing has been sent.
LEMMA InitAhead == Init => AheadInv /\ LateInv
<1>1. Init => \A l \in Lanes, d \in Sessions : msg[l] = 0 /\ last[d] = 0
    BY DEF Init
<1>2. Init => \A d \in Sessions : late[d] = {}
    BY DEF Init
<1> QED
    BY <1>1, <1>2 DEF AheadInv, LateInv

\* With one BFF process a browser gets an older event after a newer one only when a post
\* of the older one went unanswered and arrives late, however often a push is made again
\* (subscribeForever, pushWithRetry).
THEOREM DeliveredInOrder ==
    ASSUME OneBff
    PROVE  Spec => InOrder
<1>2. TypeOK /\ FlowInv /\ AheadInv /\ LateInv /\ [Next]_vars => AheadInv' /\ LateInv'
    BY AheadStep, LateStep
<1>3. ASSUME TypeOK, FlowInv, AheadInv, [Next]_vars
      PROVE  \A d \in Sessions : last'[d] >= last[d] \/ <<"event", last'[d]>> \in late[d] \ late'[d]
    <2> TAKE d \in Sessions
    <2>1. last[d] \in Nat
        BY <1>3 DEF TypeOK
    <2>2. ASSUME NEW l \in Lanes, l[2] = "event", last'[d] = msg[l] PROVE last'[d] >= last[d]
        BY <1>3, <2>1, <2>2 DEF AheadInv, TypeOK
    <2>3. last'[d] = last[d] => last'[d] >= last[d]
        BY <2>1
    <2>4. \/ last'[d] = last[d]
          \/ \E l \in Lanes : l[2] = "event" /\ last'[d] = msg[l]
          \/ \E n \in Nat : <<"event", n>> \in late[d] \ late'[d] /\ last'[d] = n
        BY <1>3, BrowserStep
    <2> QED
        BY <2>2, <2>3, <2>4
<1>4. TypeOK /\ FlowInv /\ AheadInv /\ [Next]_vars =>
          [\A d \in Sessions :
              last'[d] >= last[d] \/ <<"event", last'[d]>> \in late[d] \ late'[d]]_vars
    BY <1>3
<1> QED
    BY <1>2, <1>4, InitAhead, Flow, PTL DEF Spec, InOrder

----------------------------------------------------------------------------
(* Nothing is lost on the way, with one BFF process and fewer faults than    *)
(* pushWithRetry makes attempts.                                            *)

\* The numbers in a sequence.
In(s) == {s[i] : i \in 1..Len(s)}

\* How they change with it.
LEMMA InAppend ==
    ASSUME NEW s \in Seq(Nat), NEW x \in Nat
    PROVE  In(Append(s, x)) = In(s) \union {x}
<1>1. /\ Len(s) \in Nat /\ Len(Append(s, x)) = Len(s) + 1 /\ Append(s, x)[Len(s) + 1] = x
      /\ \A i \in 1..Len(s) : Append(s, x)[i] = s[i]
    BY AppendProperties, LenProperties
<1>2. \A i \in 1..Len(s) + 1 : i \in 1..Len(s) \/ i = Len(s) + 1
    BY <1>1
<1>3. In(Append(s, x)) \subseteq In(s) \union {x}
    BY <1>1, <1>2 DEF In
<1>4. In(s) \union {x} \subseteq In(Append(s, x))
    BY <1>1 DEF In
<1> QED
    BY <1>3, <1>4

LEMMA InTail ==
    ASSUME NEW s \in Seq(Nat), s # <<>>
    PROVE  In(s) = {Head(s)} \union In(Tail(s))
<1>1. Len(s) \in Nat /\ Len(s) >= 1 /\ Head(s) = s[1] /\ Len(Tail(s)) = Len(s) - 1
    BY EmptySeq, LenProperties, HeadTailProperties
<1>2. \A i \in 1..Len(Tail(s)) : Tail(s)[i] = s[i + 1] /\ i + 1 \in 1..Len(s)
    BY <1>1, HeadTailProperties
<1>3. \A i \in 1..Len(s) : i = 1 \/ (i - 1 \in 1..Len(Tail(s)) /\ Tail(s)[i - 1] = s[i])
    BY <1>1, <1>2
<1>4. In(s) \subseteq {Head(s)} \union In(Tail(s))
    BY <1>1, <1>3 DEF In
<1>5. {Head(s)} \union In(Tail(s)) \subseteq In(s)
    BY <1>1, <1>2 DEF In
<1> QED
    BY <1>4, <1>5

\* The numbers of attempts and of faults are natural numbers.
LEMMA TriesNat ==
    ASSUME TypeOK, NEW l \in Lanes, NEW d \in Sessions
    PROVE  tries[l][d] \in Nat /\ faults \in Nat /\ MaxPushes = 3
<1>1. tries \in [Lanes -> [Sessions -> 0..2]]
    BY DEF TypeOK, MaxPushes
<1>2. tries[l][d] \in 0..2
    BY <1>1
<1> QED
    BY <1>2 DEF TypeOK, MaxPushes

\* An attempt that failed is a fault.
TriesInv == \A l \in Lanes, d \in Sessions : tries[l][d] <= faults

\* The events a session still has to get from a subscription.
Owed(l, d) == In(inbox[l]) \union (IF push[l][d] = "post" THEN {msg[l]} ELSE {})

\* Every event since the registration of an open socket was got or dropped or is owed.
DueInv ==
    \A l \in Lanes : l[2] = "event" => \A d \in Sessions :
        Registered(d) /\ sock[d] = "open" =>
            (base[d] + 1)..published \subseteq got[d] \union dropped \union Owed(l, d)

LEMMA InitDue == Init => TriesInv /\ DueInv /\ NoGapWhileRegistered
<1> SUFFICES ASSUME Init PROVE TriesInv /\ DueInv /\ NoGapWhileRegistered
    OBVIOUS
<1>1. TriesInv
    <2>1. \A l \in Lanes, d \in Sessions : tries[l][d] = 0
        BY DEF Init
    <2>2. faults = 0
        BY DEF Init
    <2> QED
        BY <2>1, <2>2 DEF TriesInv
<1>2. \A d \in Sessions : ~Registered(d)
    BY DEF Init, Registered
<1> QED
    BY <1>1, <1>2 DEF DueInv, NoGapWhileRegistered

\* Faults are only ever added, and each attempt that fails adds one.
LEMMA TriesStep ==
    ASSUME TypeOK, TriesInv, [Next]_vars
    PROVE  TriesInv'
<1>a. tries \in [Lanes -> [Sessions -> 0..2]] /\ faults \in Nat
    BY DEF TypeOK, MaxPushes
<1>1. faults' \in {faults, faults + 1}
    BY DEF Next, vars, fanout, PublishPhase, Logout, KeyExpires, Session, Connect, HandleWatch,
        FetchSnapshot, RegisterWatch, WatchReply, HandleUnwatch, WebSocketClose, FireCancel,
        Hibernate, Evict, UnwatchCall, WatchCall, DisconnectCall, DisconnectEnds, CancelCall, Fanout,
        Lookup, LookupFails, Push, PushOne, RefreshTtl, PruneStarts, PruneEnds, RegistryFails, LatePost,
        NoFault, Fault
<1>b. ASSUME NEW l \in Lanes, NEW d \in Sessions,
             tries'[l][d] \in {0, tries[l][d]} \/ (tries'[l][d] = tries[l][d] + 1 /\ faults' = faults + 1)
      PROVE  tries'[l][d] <= faults'
    <2>1. tries[l][d] \in Nat /\ tries[l][d] <= faults
        BY <1>a DEF TriesInv
    <2> QED
        BY <1>a, <1>1, <1>b, <2>1
<1>2. ASSUME NEW l \in Lanes, NEW d \in Sessions, PushDone(l, d) PROVE TriesInv'
    <2>1. \A m \in Lanes, e \in Sessions : tries'[m][e] \in {0, tries[m][e]}
        BY <1>a, <1>2 DEF PushDone
    <2> QED
        BY <1>b, <2>1 DEF TriesInv
<1>3. ASSUME NEW l \in Lanes, NEW d \in Sessions, NEW kind, Fault(kind), PushAgain(l, d) PROVE TriesInv'
    <2>1. CASE tries' = [tries EXCEPT ![l][d] = @ + 1]
        <3>1. \A m \in Lanes, e \in Sessions : tries'[m][e] \in {tries[m][e], tries[m][e] + 1}
            BY <1>a, <2>1
        <3>2. faults' = faults + 1
            BY <1>3 DEF Fault
        <3> QED
            BY <1>b, <3>1, <3>2 DEF TriesInv
    <2> QED
        BY <1>2, <1>3, <2>1 DEF PushAgain
<1>4. CASE UNCHANGED tries
    BY <1>b, <1>4 DEF TriesInv
<1>5. ASSUME NEW l \in Lanes, NEW d \in Sessions, Push(l, d) PROVE TriesInv'
    BY <1>2, <1>3, <1>4, <1>5 DEF Push, PushOne, RefreshTtl, PruneStarts, PruneEnds, RegistryFails
<1>6. CASE Quiet
    BY <1>4, <1>6, QuietFlow
<1> QED
    BY <1>4, <1>5, <1>6 DEF Next, Fanout, Lookup, LookupFails, PublishPhase, LatePost, Quiet

\* A session that is registered was so before, or is registered anew from now on.
LEMMA RegisteredBefore ==
    ASSUME TypeOK, SocketInv, [Next]_vars, NEW d \in Sessions, Registered(d)'
    PROVE  \/ /\ Registered(d) /\ base'[d] = base[d]
              /\ sock'[d] = "open" => sock[d] = "open"
           \/ /\ base'[d] = published /\ Quiet
<1> USE DEF Registered, registry, object, history
<1>1. ASSUME NEW e \in Sessions, Registration(e), UNCHANGED sock, e # d \/ Registered(d)
      PROVE  Registered(d) /\ base'[d] = base[d] /\ sock'[d] = sock[d]
    <2>1. CASE e # d
        BY <1>1, <2>1, RegistrationOK
    <2>2. CASE e = d
        BY <1>1, <2>2, RegistrationOK
    <2> QED
        BY <2>1, <2>2
<1>2. CASE (RegisterWatch(d) \/ WatchCall(d)) /\ Registration(d) /\ ~Registered(d)
    <2>1. base'[d] = published
        BY <1>2, RegistrationOK
    <2> QED
        BY <1>2, <2>1 DEF Quiet, Session
<1>3. CASE UNCHANGED <<registry, base, sock>>
    BY <1>3
<1>4. ASSUME NEW l \in Lanes, NEW e \in Sessions, Push(l, e)
      PROVE  Registered(d) /\ base'[d] = base[d] /\ (sock'[d] = "open" => sock[d] = "open")
    <2>1. Registered(d)
        BY <1>4, PushRegistry
    <2>2. base' = base /\ (sock'[d] = "open" => sock[d] = "open")
        BY <1>4, PushLocal
    <2> QED
        BY <2>1, <2>2
<1>5. ASSUME NEW e \in Sessions, Session(e), ~(RegisterWatch(e) \/ WatchCall(e))
      PROVE  Registered(d) /\ base'[d] = base[d] /\ (sock'[d] = "open" => sock[d] = "open")
    <2>1. CASE Connect(e)
        BY <2>1 DEF Connect, SocketInv, NewInv, TypeOK
    <2>2. CASE UnwatchCall(e)
        BY <2>2 DEF UnwatchCall
    <2>3. CASE DisconnectEnds(e)
        BY <2>3 DEF DisconnectEnds, DeregisterDo, TypeOK
    <2>4. CASE WebSocketClose(e) \/ Evict(e)
        BY <2>4 DEF WebSocketClose, Evict, TypeOK
    <2> QED
        BY <1>3, <1>5, <2>1, <2>2, <2>3, <2>4
        DEF Session, HandleWatch, FetchSnapshot, WatchReply, HandleUnwatch, FireCancel, Hibernate,
            DisconnectCall, CancelCall
<1>6. CASE KeyExpires
    BY <1>6 DEF KeyExpires, TypeOK
<1>7. ASSUME NEW e \in Sessions, LatePost(e)
      PROVE  Registered(d) /\ base'[d] = base[d] /\ (sock'[d] = "open" => sock[d] = "open")
    BY <1>7, LateLocal
<1>8. ASSUME NEW e \in Sessions, RegisterWatch(e) \/ WatchCall(e)
      PROVE  \/ Registered(d) /\ base'[d] = base[d] /\ sock'[d] = sock[d]
             \/ base'[d] = published /\ Quiet
    <2>1. CASE Registration(e) /\ UNCHANGED sock
        BY <1>1, <1>2, <1>8, <2>1
    <2>2. CASE UNCHANGED <<registry, base, sock>>
        BY <1>3, <2>2
    <2> QED
        BY <1>8, <2>1, <2>2 DEF RegisterWatch, WatchCall
<1> QED
    BY <1>1, <1>2, <1>3, <1>4, <1>5, <1>6, <1>7, <1>8
    DEF Next, vars, PublishPhase, Logout, Fanout, Lookup, LookupFails

\* What an open, registered session is owed is got, dropped or still owed after a step.
LEMMA OwedStep ==
    ASSUME MaxFaults < MaxPushes, TypeOK, FlowInv, SocketInv, TriesInv, [Next]_vars,
           NEW l \in Lanes, l[2] = "event", NEW d \in Sessions,
           Registered(d), sock[d] = "open", sock'[d] = "open"
    PROVE  /\ dropped \subseteq dropped'
           /\ \/ published' = published
              \/ published' = published + 1 /\ PublishPhase
           /\ Owed(l, d) \subseteq got'[d] \union dropped' \union Owed(l, d)'
<1>1. CASE PublishPhase
    <2>1. \E r \in Lanes : /\ inbox'[r] = Append(inbox[r], published + 1)
                            /\ \A m \in Lanes : m # r => inbox'[m] = inbox[m]
        BY <1>1, PublishReaches
    <2>a. published + 1 \in Nat /\ inbox[l] \in Seq(Nat)
        BY InboxNat
    <2>b. In(Append(inbox[l], published + 1)) = In(inbox[l]) \union {published + 1}
        BY <2>a, InAppend
    <2>2. In(inbox[l]) \subseteq In(inbox'[l])
        BY <2>1, <2>b
    <2> QED
        BY <1>1, <2>2 DEF PublishPhase, Owed, history
<1>2. ASSUME NEW m \in Lanes, Lookup(m)
      PROVE  /\ UNCHANGED <<dropped, published>>
             /\ Owed(l, d) \subseteq Owed(l, d)'
    <2>1. UNCHANGED <<dropped, published>>
        BY <1>2 DEF Lookup, history
    <2>2. CASE m = l
        <3>1. /\ inbox[l] # <<>> /\ push[l][d] = "none"
              /\ inbox'[l] = Tail(inbox[l]) /\ msg'[l] = Head(inbox[l]) /\ push'[l][d] = "post"
            BY <1>2, <2>2 DEF Lookup, TypeOK, Registered
        <3>2. In(inbox[l]) = {Head(inbox[l])} \union In(Tail(inbox[l]))
            BY <3>1, InTail, InboxNat
        <3> QED
            BY <2>1, <3>1, <3>2 DEF Owed
    <2>3. CASE m # l
        BY <1>2, <2>1, <2>3 DEF Lookup, TypeOK, Owed
    <2> QED
        BY <2>2, <2>3
<1>3. ASSUME NEW m \in Lanes, LookupFails(m)
      PROVE  /\ dropped \subseteq dropped' /\ published' = published
             /\ Owed(l, d) \subseteq dropped' \union Owed(l, d)'
    <2>1. dropped \subseteq dropped' /\ UNCHANGED <<published, push, msg>>
        BY <1>3 DEF LookupFails
    <2>2. CASE m = l
        <3>1. inbox[l] # <<>> /\ inbox'[l] = Tail(inbox[l]) /\ Head(inbox[l]) \in dropped'
            BY <1>3, <2>2 DEF LookupFails, TypeOK
        <3>2. In(inbox[l]) = {Head(inbox[l])} \union In(Tail(inbox[l]))
            BY <3>1, InTail, InboxNat
        <3> QED
            BY <2>1, <3>1, <3>2 DEF Owed
    <2>3. CASE m # l
        BY <1>3, <2>1, <2>3 DEF LookupFails, TypeOK, Owed
    <2> QED
        BY <2>2, <2>3
<1>4. ASSUME NEW m \in Lanes, NEW e \in Sessions, Push(m, e)
      PROVE  /\ UNCHANGED <<dropped, published>>
             /\ Owed(l, d) \subseteq got'[d] \union Owed(l, d)'
    <2>1. /\ UNCHANGED <<dropped, published, inbox, msg>>
          /\ m # l \/ e # d => push'[l][d] = push[l][d]
        BY <1>4, PushLocal DEF history
    <2>2. CASE m = l /\ e = d /\ push[l][d] = "post"
        <3>1. PushOne(l, d)
            BY <1>4, <2>2 DEF Push, RefreshTtl, PruneStarts, PruneEnds, RegistryFails
        <3>2. CASE Forward(d, l[2], msg[l])
            BY <2>1, <3>2 DEF Forward, TypeOK, Owed
        <3>3. CASE Fault("push") /\ PushAgain(l, d)
            <4>1. tries[l][d] + 1 < MaxPushes
                <5>1. tries[l][d] \in Nat /\ faults \in Nat /\ MaxPushes = 3
                    BY TriesNat
                <5>2. tries[l][d] <= faults /\ faults < MaxFaults
                    BY <3>3 DEF Fault, TriesInv
                <5> QED
                    BY <5>1, <5>2
            <4>2. ~(tries[l][d] + 1 >= MaxPushes)
                <5>1. tries[l][d] \in Nat /\ MaxPushes = 3
                    BY TriesNat
                <5> QED
                    BY <4>1, <5>1
            <4>3. push'[l][d] = "post"
                BY <3>3, <4>1, <4>2 DEF PushAgain, PushAt, TypeOK
            <4> QED
                BY <2>1, <4>3 DEF Owed
        <3> QED
            BY <3>1, <3>2, <3>3 DEF PushOne
    <2>3. CASE m = l /\ e = d /\ push[l][d] # "post"
        BY <2>1, <2>3 DEF Owed
    <2>4. CASE m # l \/ e # d
        BY <2>1, <2>4 DEF Owed
    <2> QED
        BY <2>1, <2>2, <2>3, <2>4
<1>5. CASE Quiet
    BY <1>5, QuietFlow DEF Owed
<1>6. ASSUME NEW e \in Sessions, LatePost(e)
      PROVE  UNCHANGED <<dropped, published>> /\ Owed(l, d)' = Owed(l, d)
    BY <1>6, LateLocal DEF Owed, history
<1> QED
    BY <1>1, <1>2, <1>3, <1>4, <1>5, <1>6 DEF Next, Fanout, Quiet

\* An event that is dropped stays dropped.
LEMMA DroppedGrows ==
    ASSUME TypeOK, SocketInv, [Next]_vars
    PROVE  dropped \subseteq dropped'
<1>1. CASE Quiet
    BY <1>1, QuietFlow
<1>2. ASSUME NEW l \in Lanes, NEW d \in Sessions, Push(l, d) PROVE dropped' = dropped
    BY <1>2, PushLocal DEF history
<1> QED
    BY <1>1, <1>2 DEF Next, Fanout, Lookup, LookupFails, PublishPhase, LatePost, Quiet, history

\* DueInv and the absence of gaps are kept together.
LEMMA GapStep ==
    ASSUME OneBff, MaxFaults < MaxPushes, TypeOK, FlowInv, SocketInv, TriesInv, LateInv, DueInv,
           NoGapWhileRegistered, [Next]_vars
    PROVE  DueInv' /\ NoGapWhileRegistered'
<1>t. published \in Nat /\ \A d \in Sessions : base[d] \in 0..published /\ last[d] \in 0..published
    BY DEF TypeOK
<1>1. ASSUME NEW l \in Lanes, l[2] = "event", NEW d \in Sessions, Registered(d)', sock'[d] = "open"
      PROVE  (base'[d] + 1)..published' \subseteq got'[d] \union dropped' \union Owed(l, d)'
    <2>1. CASE base'[d] = published /\ Quiet
        <3>1. published' = published
            BY <2>1, QuietFlow
        <3> QED
            BY <1>t, <2>1, <3>1
    <2>2. CASE Registered(d) /\ base'[d] = base[d] /\ sock[d] = "open"
        <3>1. (base[d] + 1)..published \subseteq got[d] \union dropped \union Owed(l, d)
            BY <1>1, <2>2 DEF DueInv
        <3>2. got[d] \subseteq got'[d]
            BY BrowserStep
        <3>3. /\ dropped \subseteq dropped'
              /\ published' = published \/ (published' = published + 1 /\ PublishPhase)
              /\ Owed(l, d) \subseteq got'[d] \union dropped' \union Owed(l, d)'
            BY <1>1, <2>2, OwedStep
        <3>4. (base[d] + 1)..published \subseteq got'[d] \union dropped' \union Owed(l, d)'
            BY <3>1, <3>2, <3>3
        <3>5. CASE published' = published
            BY <2>2, <3>4, <3>5
        <3>6. CASE published' = published + 1 /\ PublishPhase
            <4>1. PICK r \in Lanes : r[2] = "event" /\ inbox'[r] = Append(inbox[r], published + 1)
                BY <3>6, PublishReaches
            <4>2. r = l
                BY <1>1, <4>1, OneLane
            <4>3. inbox[l] \in Seq(Nat) /\ published + 1 \in Nat
                BY InboxNat
            <4>4. published + 1 \in In(inbox'[l])
                BY <4>1, <4>2, <4>3, InAppend
            <4>5. published + 1 \in Owed(l, d)'
                BY <4>4 DEF Owed
            <4>6. \A x \in (base[d] + 1)..(published + 1) :
                      x \in (base[d] + 1)..published \/ x = published + 1
                BY <1>t
            <4> QED
                BY <2>2, <3>4, <3>6, <4>5, <4>6
        <3> QED
            BY <3>3, <3>5, <3>6
    <2> QED
        BY <1>1, <2>1, <2>2, RegisteredBefore
<1>2. ASSUME NEW d \in Sessions, Registered(d)', NEW e \in got'[d]
      PROVE  (base'[d] + 1)..e \subseteq got'[d] \union dropped'
    <2>1. CASE base'[d] = published /\ Quiet
        <3>1. e \in 1..published
            BY <1>2, <2>1, QuietFlow DEF browser, TypeOK
        <3> QED
            BY <1>t, <2>1, <3>1
    <2>2. CASE Registered(d) /\ base'[d] = base[d]
        <3>0. dropped \subseteq dropped' /\ got[d] \subseteq got'[d]
            BY DroppedGrows, BrowserStep
        <3>1. CASE e \in got[d]
            BY <2>2, <3>0, <3>1 DEF NoGapWhileRegistered
        <3>a. ASSUME NEW l \in Lanes, l[2] = "event", sock[d] = "open",
                     NEW n \in Nat, n <= msg[l], got'[d] = got[d] \union {n}
              PROVE  (base[d] + 1)..n \subseteq got'[d] \union dropped'
            <4>1. (base[d] + 1)..published \subseteq got[d] \union dropped \union In(inbox[l]) \union {msg[l]}
                BY <2>2, <3>a DEF DueInv, Owed
            <4>2. msg[l] \in Nat /\ msg[l] <= published /\ Rising(inbox[l], msg[l], published)
                BY <3>a DEF FlowInv, TypeOK
            <4>3. \A x \in In(inbox[l]) : msg[l] < x
                BY <4>2 DEF In, Rising
            <4>4. \A x \in (base[d] + 1)..n : x \in (base[d] + 1)..published /\ ~(msg[l] < x)
                BY <1>t, <3>a, <4>2
            <4>5. \A x \in (base[d] + 1)..n : x = msg[l] => x = n
                BY <1>t, <3>a, <4>2
            <4> QED
                BY <3>0, <3>a, <4>1, <4>3, <4>4, <4>5
        <3>2. ASSUME NEW l \in Lanes, l[2] = "event", sock[d] = "open", got'[d] = got[d] \union {msg[l]},
                     e \notin got[d]
              PROVE  (base[d] + 1)..e \subseteq got'[d] \union dropped'
            <4>1. e = msg[l] /\ msg[l] \in Nat /\ msg[l] <= msg[l]
                BY <3>2 DEF TypeOK
            <4> QED
                BY <3>2, <3>a, <4>1
        <3>3. ASSUME NEW n \in Nat, <<"event", n>> \in late[d], sock[d] = "open",
                     got'[d] = got[d] \union {n}, e \notin got[d]
              PROVE  (base[d] + 1)..e \subseteq got'[d] \union dropped'
            <4>1. PICK l \in Lanes : l[2] = "event" /\ n <= msg[l]
                BY <3>3 DEF LateInv
            <4>2. e = n
                BY <3>3
            <4> QED
                BY <3>3, <3>a, <4>1, <4>2
        <3> QED
            BY <2>2, <3>1, <3>2, <3>3, BrowserStep
    <2> QED
        BY <1>2, <2>1, <2>2, RegisteredBefore
<1>3. DueInv'
    BY <1>1 DEF DueInv
<1>4. NoGapWhileRegistered'
    BY <1>2 DEF NoGapWhileRegistered
<1> QED
    BY <1>3, <1>4

\* With one BFF process and fewer faults than attempts, a browser whose session stays
\* registered misses none of the events before one that it got, except those whose
\* watchers could not be read: for any number of sessions and events, and whatever late
\* posts, the other sessions, the expiry of keys, hibernations and evictions do meanwhile
\* (onTriageEvent, pushWithRetry, registerWatch).
THEOREM NothingLost ==
    ASSUME OneBff, MaxFaults < MaxPushes
    PROVE  Spec => []NoGapWhileRegistered
<1>1. TypeOK /\ TriesInv /\ [Next]_vars => TriesInv'
    BY TriesStep
<1>2. /\ TypeOK /\ FlowInv /\ SocketInv /\ TriesInv /\ LateInv /\ DueInv /\ NoGapWhileRegistered
      /\ [Next]_vars
      => DueInv' /\ NoGapWhileRegistered'
    BY GapStep
<1>3. TypeOK /\ FlowInv /\ LateInv /\ [Next]_vars => LateInv'
    BY LateStep
<1> QED
    BY <1>1, <1>2, <1>3, InitAhead, InitDue, Flow, Sockets, PTL DEF Spec
----------------------------------------------------------------------------
(* Logouts.                                                                 *)

\* The revocation of a session is on its way.
Told(d) == \E l \in Lanes : l[2] = "revoked" /\ (inbox[l] # <<>> \/ push[l][d] = "post")

\* RevocationCloses made inductive: a session that has to be closed and is open stays
\* where dosForUser finds it, and its revocation is on its way.
Findable(d) == meta[d] = "full" /\ d \in userDos
DoomInv ==
    \A d \in doomed : sock[d] # "new" /\ (sock[d] = "open" => Findable(d) /\ Told(d))

\* What a session is to be closed for is not taken back by the object's own steps.
LEMMA SessionDoom ==
    ASSUME TypeOK, SocketInv, DoomInv, NEW e \in Sessions, Session(e)
    PROVE  DoomInv'
<1>1. /\ doomed' = doomed /\ push' = push
      /\ inbox' = inbox \/ Send("cancel", 0)
    BY DEF Session, Connect, HandleWatch, FetchSnapshot, RegisterWatch, WatchReply,
        HandleUnwatch, WebSocketClose, FireCancel, Hibernate, Evict, UnwatchCall,
        WatchCall, DisconnectCall, DisconnectEnds, CancelCall, history, fanout
<1>2. \A d \in Sessions : Told(d) => Told(d)'
    <2>1. \A l \in Lanes : l[2] = "revoked" => inbox'[l] = inbox[l]
        <3>1. CASE Send("cancel", 0)
            <4>1. inbox \in [Lanes -> Seq(0..MaxEvents)] /\ 0 \in 0..MaxEvents /\ "cancel" \in Kinds
                BY DEF TypeOK, Kinds
            <4> QED
                BY <3>1, <4>1, SendReaches
        <3> QED
            BY <1>1, <3>1
    <2> QED
        BY <1>1, <2>1 DEF Told
<1>3. ASSUME NEW d \in Sessions, sock'[d] # sock[d]
      PROVE  sock[d] = "new" \/ sock'[d] = "closed"
    BY <1>3 DEF Session, Connect, HandleWatch, FetchSnapshot, RegisterWatch, WatchReply,
        HandleUnwatch, WebSocketClose, FireCancel, Hibernate, Evict, UnwatchCall,
        WatchCall, DisconnectCall, DisconnectEnds, CancelCall, object, TypeOK
<1>4. ASSUME NEW d \in Sessions, Findable(d), sock[d] = "open" PROVE Findable(d)'
    <2>1. CASE DisconnectEnds(e)
        BY <1>4, <2>1 DEF DisconnectEnds, DeregisterDo, Findable, SocketInv, GoneInv, TypeOK
    <2>2. CASE Registration(e)
        BY <1>4, <2>2 DEF Registration, Findable, TypeOK
    <2>3. CASE UNCHANGED <<meta, userDos>>
        BY <1>4, <2>3 DEF Findable
    <2> QED
        BY <2>1, <2>2, <2>3
        DEF Session, Connect, HandleWatch, FetchSnapshot, RegisterWatch, WatchReply,
            HandleUnwatch, WebSocketClose, FireCancel, Hibernate, Evict, UnwatchCall,
            WatchCall, DisconnectCall, CancelCall, registry
<1>5. doomed \subseteq Sessions
    BY DEF TypeOK
<1> QED
    BY <1>1, <1>2, <1>3, <1>4, <1>5 DEF DoomInv

\* The lookup that takes a revocation up posts it to every session that is to be closed.
LEMMA LookupDoom ==
    ASSUME TypeOK, DoomInv, NEW l \in Lanes, Lookup(l) \/ LookupFails(l)
    PROVE  DoomInv'
<1> USE DEF registry, object, history
<1>1. CASE LookupFails(l) /\ l[2] = "revoked"
    BY <1>1 DEF LookupFails, DoomInv
<1>2. CASE ~(LookupFails(l) /\ l[2] = "revoked")
    <2>1. UNCHANGED <<doomed, sock, meta, userDos>>
        BY <1>2 DEF Lookup, LookupFails
    <2>2. ASSUME NEW d \in Sessions, Findable(d), Told(d) PROVE Told(d)'
        <3>1. PICK m \in Lanes : m[2] = "revoked" /\ (inbox[m] # <<>> \/ push[m][d] = "post")
            BY <2>2 DEF Told
        <3>2. CASE m = l
            <4>1. Lookup(l)
                BY <1>2, <3>1, <3>2
            <4>2. push'[l][d] = "post"
                BY <2>2, <3>1, <3>2, <4>1 DEF Lookup, Findable, TypeOK
            <4> QED
                BY <3>1, <3>2, <4>2 DEF Told
        <3>3. CASE m # l
            <4>1. inbox'[m] = inbox[m] /\ push'[m] = push[m]
                BY <3>1, <3>3 DEF Lookup, LookupFails, TypeOK
            <4> QED
                BY <3>1, <4>1 DEF Told
        <3> QED
            BY <3>2, <3>3
    <2>3. doomed \subseteq Sessions
        BY DEF TypeOK
    <2> QED
        BY <2>1, <2>2, <2>3 DEF DoomInv, Findable
<1> QED
    BY <1>1, <1>2

\* A push that fails is made again, one that is answered closes the socket.
LEMMA PushDoom ==
    ASSUME MaxFaults < MaxPushes, TypeOK, SocketInv, TriesInv, DoomInv,
           NEW l \in Lanes, NEW e \in Sessions, Push(l, e)
    PROVE  DoomInv'
<1>1. /\ UNCHANGED <<inbox, doomed>>
      /\ \A m \in Lanes, d \in Sessions : m # l \/ d # e => push'[m][d] = push[m][d]
      /\ \A d \in Sessions : sock'[d] = sock[d] \/ (sock[d] = "open" /\ sock'[d] = "closing")
    BY PushLocal DEF history
<1>2. ASSUME NEW d \in Sessions, Findable(d), sock[d] = "open" PROVE Findable(d)'
    <2>1. CASE PushOne(l, e) \/ PruneStarts(l, e) \/ RegistryFails(l, e)
        BY <1>2, <2>1 DEF PushOne, PruneStarts, RegistryFails, registry, Findable
    <2>2. CASE RefreshTtl(l, e)
        BY <1>2, <2>2 DEF RefreshTtl, Findable, TypeOK
    <2>3. CASE PruneEnds(l, e)
        BY <1>2, <2>3 DEF PruneEnds, DeregisterDo, Findable, TypeOK, SocketInv, GoneInv
    <2> QED
        BY <2>1, <2>2, <2>3 DEF Push
<1>3. ASSUME NEW d \in Sessions, Told(d), sock'[d] = "open" PROVE Told(d)'
    <2>1. PICK m \in Lanes : m[2] = "revoked" /\ (inbox[m] # <<>> \/ push[m][d] = "post")
        BY <1>3 DEF Told
    <2>2. CASE m = l /\ d = e /\ push[l][e] = "post" /\ inbox[l] = <<>>
        <3>1. PushOne(l, e)
            BY <2>2 DEF Push, RefreshTtl, PruneStarts, PruneEnds, RegistryFails
        <3>2. sock[e] = "open"
            BY <1>1, <1>3, <2>2
        <3>3. ~Forward(e, l[2], msg[l])
            BY <1>3, <2>1, <2>2 DEF Forward, TypeOK
        <3>4. Fault("push") /\ PushAgain(l, e)
            BY <3>1, <3>2, <3>3 DEF PushOne
        <3>5. tries[l][e] \in Nat /\ faults \in Nat /\ MaxPushes = 3
            BY TriesNat
        <3>6. tries[l][e] <= faults /\ faults < MaxFaults
            BY <3>4 DEF Fault, TriesInv
        <3>7. ~(tries[l][e] + 1 >= MaxPushes)
            BY <3>5, <3>6
        <3>8. push'[l][e] = "post"
            BY <3>4, <3>7 DEF PushAgain, PushAt, TypeOK
        <3> QED
            BY <2>1, <2>2, <3>8 DEF Told
    <2>3. CASE inbox[m] # <<>>
        BY <1>1, <2>1, <2>3 DEF Told
    <2>4. CASE push[m][d] = "post" /\ (m # l \/ d # e)
        BY <1>1, <2>1, <2>4 DEF Told
    <2> QED
        BY <2>1, <2>2, <2>3, <2>4
<1>4. doomed \subseteq Sessions
    BY DEF TypeOK
<1> QED
    BY <1>1, <1>2, <1>3, <1>4 DEF DoomInv

\* Logouts, events, late posts and the expiry of keys.
LEMMA OutsideDoom ==
    ASSUME TypeOK, DoomInv,
           \/ PublishPhase \/ Logout \/ KeyExpires \/ UNCHANGED vars
           \/ \E d \in Sessions : LatePost(d)
    PROVE  DoomInv'
<1>d. doomed \subseteq Sessions
    BY DEF TypeOK
<1>1. CASE PublishPhase
    <2>1. \A l \in Lanes : l[2] = "revoked" => inbox'[l] = inbox[l]
        <3>1. inbox \in [Lanes -> Seq(0..MaxEvents)] /\ published + 1 \in 0..MaxEvents /\ "event" \in Kinds
            BY <1>1 DEF TypeOK, Kinds, PublishPhase
        <3> QED
            BY <1>1, <3>1, SendReaches DEF PublishPhase
    <2> QED
        BY <1>1, <2>1 DEF PublishPhase, DoomInv, Told, Findable, registry, object, history
<1>2. CASE Logout
    <2>1. \E r \in Lanes : r[2] = "revoked" /\ inbox'[r] = Append(inbox[r], 0) /\ inbox[r] \in Seq(0..MaxEvents)
        <3>1. inbox \in [Lanes -> Seq(0..MaxEvents)] /\ 0 \in 0..MaxEvents /\ "revoked" \in Kinds
            BY DEF TypeOK, Kinds
        <3> QED
            BY <1>2, <3>1, SendReaches DEF Logout
    <2>2. \E r \in Lanes : r[2] = "revoked" /\ inbox'[r] # <<>>
        BY <2>1, AppendProperties
    <2>3. \A d \in doomed' : sock'[d] = "open" /\ Findable(d)'
        BY <1>2 DEF Logout, Findable, registry, object
    <2> QED
        BY <2>2, <2>3 DEF DoomInv, Told
<1>3. CASE KeyExpires
    BY <1>d, <1>3 DEF KeyExpires, DoomInv, Told, Findable, object, fanout, TypeOK
<1>4. ASSUME NEW e \in Sessions, LatePost(e) PROVE DoomInv'
    <2>1. /\ UNCHANGED <<registry, inbox, push, history>>
          /\ \A d \in Sessions : sock'[d] = sock[d] \/ (sock[d] = "open" /\ sock'[d] = "closing")
        BY <1>4, LateLocal
    <2> QED
        BY <1>d, <2>1 DEF DoomInv, Told, Findable, registry, history
<1>5. CASE UNCHANGED vars
    BY <1>5 DEF vars, DoomInv, Told, Findable, registry, object, fanout, history
<1> QED
    BY <1>1, <1>2, <1>3, <1>4, <1>5

\* When the fan-out is done with a logout no socket of the user that was registered at
\* the time is open, if fewer attempts fail than pushWithRetry makes: for any number of
\* sessions and BFF processes, and whatever unwatches, disconnects, prunings, late
\* registrations and hibernations happen meanwhile (onRevocationEvent, deregisterDo).
THEOREM LogoutCloses ==
    ASSUME MaxFaults < MaxPushes
    PROVE  Spec => []RevocationCloses
<1>1. Init => DoomInv
    BY DEF Init, DoomInv
<1>2. TypeOK /\ TriesInv /\ [Next]_vars => TriesInv'
    BY TriesStep
<1>3. TypeOK /\ SocketInv /\ TriesInv /\ DoomInv /\ [Next]_vars => DoomInv'
    BY SessionDoom, LookupDoom, PushDoom, OutsideDoom DEF Next, Fanout
<1>4. TypeOK /\ DoomInv => RevocationCloses
    BY LaneParts DEF TypeOK, DoomInv, Told, RevocationCloses
<1> QED
    BY <1>1, <1>2, <1>3, <1>4, InitDue, Sockets, TypeCorrect, PTL DEF Spec
=============================================================================
