----------------------------- MODULE LiveEvents -----------------------------
(***************************************************************************)
(* Live triage events on their way to a browser, for one alert and one      *)
(* analyst: the worker numbers and publishes phase events (event_seq,       *)
(* _publish_phase), the fan-out of the BFF looks up the watchers in Redis   *)
(* (watcher-registry) and posts each event to their Durable Objects, which  *)
(* forward it over the WebSocket. A Durable Object registers for a watch,   *)
(* deregisters for an unwatch or a close, and asks for the triage to be     *)
(* cancelled some time after a close.                                       *)
(*                                                                          *)
(* A Durable Object is named after its ticket, and a ticket is redeemed     *)
(* once, so each object has one socket in its life: a tab that is opened    *)
(* again is another session.                                                *)
(*                                                                          *)
(* An event is known by its place in the order of publication; its          *)
(* event_seq, and the snapshot's last_seq, are only shown to the browser.   *)
(***************************************************************************)
EXTENDS Naturals, Sequences

CONSTANTS
    Sessions,    \* Durable Objects
    Fanouts,     \* BFF processes, one queue group
    MaxEvents,   \* events the worker publishes (a bound for TLC)
    MaxWatches,  \* watch messages that a session starts on (a bound for TLC)
    Faults,      \* the kinds of fault that may happen
    MaxFaults    \* how many of them (a bound for TLC)

\* push: a POST to a Durable Object is not answered;  bff: a call to the BFF fails;
\* expiry: a registry key runs out;                   evict: Cloudflare drops an object,
\* its memory and its socket;                         redis: a call of the fan-out to
\* the registry fails.
FaultKinds == {"push", "bff", "expiry", "evict", "redis"}

ASSUME EventsAssumption == MaxEvents \in Nat /\ MaxWatches \in Nat
ASSUME FaultsAssumption == Faults \subseteq FaultKinds /\ MaxFaults \in Nat

\* One subscription, with its own sequential loop, per subject and process.
Kinds == {"event", "cancel", "revoked"}
Lanes == Fanouts \X Kinds

\* The awaits of handleWatch, and the calls a Durable Object makes.
Stages == {"snapshot", "register", "reply"}
Calls == {"watch", "unwatch", "disconnect", "cancel"}

MaxPushes == 3

VARIABLES
    \* the worker
    published,  \* how many events there have been
    \* the registry in Redis
    meta,       \* watcher_meta:{do}: none, full, or bare (one field and no TTL)
    watchers,   \* alert_watchers
    userDos,    \* user_dos
    doAlerts,   \* the sessions whose do_alerts holds the alert
    \* the Durable Objects
    sock,       \* the WebSocket
    ticket,     \* the sessions that have their ticket in memory
    watched,    \* the sessions whose watchedAlerts holds the alert
    timers,     \* the sessions with a pending cancel
    asked,      \* how many watch messages a session has started on
    watching,   \* how many of its handleWatch calls are at each await
    calls,      \* how many calls to the BFF are on their way with nobody waiting
    dereg,      \* where the deregisterDo of a disconnect is
    \* the fan-out
    inbox,      \* messages of a subscription
    msg,        \* the event a loop is at
    push,       \* where pushWithRetry of each target is
    tries,      \* its failed attempts
    late,       \* posts to a session that were not answered and may still arrive
    \* the browser, and what the properties need
    got,        \* events that reached the socket
    last,       \* the one that came last
    base,       \* events published when the session was last registered
    lapsed,     \* sessions that lost a key to its TTL since then
    withdrawn,  \* sessions that an unwatch has taken off the alert's list since then
    dropped,    \* events whose watchers could not be read
    doomed,     \* sessions a revocation has to close
    faults

registry == <<meta, watchers, userDos, doAlerts>>
object   == <<sock, ticket, watched, timers, asked, watching, calls, dereg>>
fanout   == <<inbox, msg, push, tries, late>>
browser  == <<got, last>>
history  == <<base, lapsed, withdrawn, doomed, dropped>>
vars     == <<published, registry, object, fanout, browser, history, faults>>

Registered(d) == d \in watchers /\ meta[d] = "full"

Init ==
    /\ published = 0
    /\ meta = [d \in Sessions |-> "none"]
    /\ watchers = {} /\ userDos = {} /\ doAlerts = {}
    /\ sock = [d \in Sessions |-> "new"]
    /\ ticket = {} /\ watched = {} /\ timers = {}
    /\ asked = [d \in Sessions |-> 0]
    /\ watching = [d \in Sessions |-> [w \in Stages |-> 0]]
    /\ calls = [d \in Sessions |-> [c \in Calls |-> 0]]
    /\ dereg = [d \in Sessions |-> "none"]
    /\ inbox = [l \in Lanes |-> <<>>]
    /\ msg = [l \in Lanes |-> 0]
    /\ push = [l \in Lanes |-> [d \in Sessions |-> "none"]]
    /\ tries = [l \in Lanes |-> [d \in Sessions |-> 0]]
    /\ late = [d \in Sessions |-> {}]
    /\ got = [d \in Sessions |-> {}]
    /\ last = [d \in Sessions |-> 0]
    /\ base = [d \in Sessions |-> 0]
    /\ lapsed = {} /\ withdrawn = {} /\ doomed = {} /\ dropped = {}
    /\ faults = 0

Fault(kind) ==
    /\ kind \in Faults
    /\ faults < MaxFaults
    /\ faults' = faults + 1

NoFault == UNCHANGED faults

\* A core NATS publish: one process of the queue group gets the message.
Send(kind, m) ==
    \E f \in Fanouts : inbox' = [inbox EXCEPT ![<<f, kind>>] = Append(@, m)]

----------------------------------------------------------------------------
(* The worker: _publish_phase.                                              *)

\* next_seq, and broker.publish(..., await_ack=False).
PublishPhase ==
    /\ published < MaxEvents
    /\ published' = published + 1
    /\ Send("event", published + 1)
    /\ UNCHANGED <<registry, object, msg, push, tries, late, browser, history, faults>>

----------------------------------------------------------------------------
(* The Durable Object.                                                      *)

\* handleUpgrade with a ticket that is good.
Connect(d) ==
    /\ sock[d] = "new"
    /\ sock' = [sock EXCEPT ![d] = "open"]
    /\ ticket' = ticket \union {d}
    /\ UNCHANGED <<published, registry, watched, timers, asked, watching, calls, dereg,
                   fanout, browser, history, faults>>

\* One handleWatch goes on from an await to the next, or ends.
WatchMoves(d, from, to) ==
    /\ watching[d][from] > 0
    /\ watching' = [watching EXCEPT ![d] =
           [w \in Stages |-> CASE w = from -> @[w] - 1 [] w = to -> @[w] + 1 [] OTHER -> @[w]]]

Calling(d, call) == calls' = [calls EXCEPT ![d][call] = @ + 1]

\* handleWatch up to its first await; every watch message that arrives before the
\* alert is in watchedAlerts starts one. Without a ticket the browser gets an error.
HandleWatch(d) ==
    /\ sock[d] = "open" /\ d \in ticket /\ d \notin watched
    /\ asked[d] < MaxWatches
    /\ asked' = [asked EXCEPT ![d] = @ + 1]
    /\ timers' = timers \ {d}
    /\ watching' = [watching EXCEPT ![d]["snapshot"] = @ + 1]
    /\ UNCHANGED <<published, registry, sock, ticket, watched, calls, dereg,
                   fanout, browser, history, faults>>

\* fetchSnapshot.
FetchSnapshot(d) ==
    /\ \/ NoFault /\ WatchMoves(d, "snapshot", "register")
       \/ Fault("bff") /\ WatchMoves(d, "snapshot", "end")
    /\ UNCHANGED <<published, registry, sock, ticket, watched, timers, asked, calls, dereg,
                   fanout, browser, history>>

\* registerWatch: four keys in one transaction, each with its TTL.
Registration(d) ==
    /\ meta' = [meta EXCEPT ![d] = "full"]
    /\ watchers' = watchers \union {d}
    /\ userDos' = userDos \union {d}
    /\ doAlerts' = doAlerts \union {d}
    /\ base' = [base EXCEPT ![d] = IF Registered(d) THEN @ ELSE published]
    /\ lapsed' = lapsed \ {d}
    /\ withdrawn' = withdrawn \ {d}

\* Mutant: handleWatch does not look at what callBff returns.
RegisterWatchUnchecked(d) ==
    /\ WatchMoves(d, "register", "reply")
    /\ \/ NoFault /\ Registration(d)
       \/ Fault("bff") /\ UNCHANGED <<registry, base, lapsed, withdrawn>>
    /\ UNCHANGED <<published, sock, ticket, watched, timers, asked, calls, dereg,
                   fanout, browser, doomed, dropped>>

\* The call to /api/internal/watch is carried out; or it fails and the browser is
\* told so, while the request may still be on its way.
RegisterWatch(d) ==
    /\ \/ /\ NoFault
          /\ WatchMoves(d, "register", "reply")
          /\ Registration(d)
          /\ UNCHANGED calls
       \/ /\ Fault("bff")
          /\ WatchMoves(d, "register", "end")
          /\ Calling(d, "watch")
          /\ UNCHANGED <<registry, base, lapsed, withdrawn>>
    /\ UNCHANGED <<published, sock, ticket, watched, timers, asked, dereg,
                   fanout, browser, doomed, dropped>>

\* The answer reaches handleWatch, or is lost and the browser told of a failure.
\* The socket may have closed meanwhile.
WatchReply(d) ==
    /\ WatchMoves(d, "reply", "end")
    /\ \/ NoFault /\ watched' = watched \union {d}
       \/ Fault("bff") /\ UNCHANGED watched
    /\ UNCHANGED <<published, registry, sock, ticket, timers, asked, calls, dereg,
                   fanout, browser, history>>

\* handleUnwatch: forgets the alert at once and does not wait for the BFF.
HandleUnwatch(d) ==
    /\ sock[d] = "open" /\ d \in ticket /\ d \in watched
    /\ watched' = watched \ {d}
    /\ Calling(d, "unwatch")
    /\ UNCHANGED <<published, registry, sock, ticket, timers, asked, watching, dereg,
                   fanout, browser, history, faults>>

\* webSocketClose: scheduleCancel for a watched alert, the disconnect call, and
\* watchedAlerts.clear(); the first two only if the ticket is still in memory.
WebSocketClose(d) ==
    /\ sock[d] \in {"open", "closing"}
    /\ sock' = [sock EXCEPT ![d] = "closed"]
    /\ timers' = timers \union ({d} \intersect watched \intersect ticket)
    /\ \/ d \in ticket /\ Calling(d, "disconnect")
       \/ d \notin ticket /\ UNCHANGED calls
    /\ watched' = watched \ {d}
    /\ UNCHANGED <<published, registry, ticket, asked, watching, dereg, fanout, browser,
                   history, faults>>

\* The grace timer runs out: fireCancel.
FireCancel(d) ==
    /\ d \in timers /\ d \in ticket
    /\ timers' = timers \ {d}
    /\ Calling(d, "cancel")
    /\ UNCHANGED <<published, registry, sock, ticket, watched, asked, watching, dereg,
                   fanout, browser, history, faults>>

\* Hibernation keeps the socket and nothing of the object's fields.
Hibernate(d) ==
    /\ sock[d] = "open" /\ d \in ticket
    /\ d \notin timers
    /\ \A w \in Stages : watching[d][w] = 0
    /\ \A c \in Calls \ {"watch"} : calls[d][c] = 0
    /\ ticket' = ticket \ {d}
    /\ watched' = watched \ {d}
    /\ UNCHANGED <<published, registry, sock, timers, asked, watching, calls, dereg,
                   fanout, browser, history, faults>>

\* Eviction takes socket, fields and timers, and no handler runs; the registrations
\* that were sent are on their way.
Evict(d) ==
    /\ sock[d] # "new"
    /\ Fault("evict")
    /\ sock' = [sock EXCEPT ![d] = "closed"]
    /\ ticket' = ticket \ {d}
    /\ watched' = watched \ {d}
    /\ timers' = timers \ {d}
    /\ watching' = [watching EXCEPT ![d] = [w \in Stages |-> 0]]
    /\ calls' = [calls EXCEPT ![d]["watch"] = @ + watching[d]["register"]]
    /\ UNCHANGED <<published, registry, asked, dereg, fanout, browser, history>>

----------------------------------------------------------------------------
(* The BFF: what the Durable Object's calls do.                             *)

\* A call nobody waits for arrives, or is lost.
Arrives(d, call) ==
    /\ calls[d][call] > 0
    /\ calls' = [calls EXCEPT ![d][call] = @ - 1]

\* deregisterWatch: leaves meta and user_dos.
UnwatchCall(d) ==
    /\ Arrives(d, "unwatch")
    /\ \/ /\ NoFault
          /\ watchers' = watchers \ {d} /\ doAlerts' = doAlerts \ {d}
          /\ withdrawn' = withdrawn \union {d}
       \/ Fault("bff") /\ UNCHANGED <<watchers, doAlerts, withdrawn>>
    /\ UNCHANGED <<published, meta, userDos, sock, ticket, watched, timers, asked, watching,
                   dereg, fanout, browser, base, lapsed, doomed, dropped>>

\* A registration whose sender has given it up or is gone.
WatchCall(d) ==
    /\ Arrives(d, "watch")
    /\ \/ NoFault /\ Registration(d)
       \/ Fault("bff") /\ UNCHANGED <<registry, base, lapsed, withdrawn>>
    /\ UNCHANGED <<published, sock, ticket, watched, timers, asked, watching, dereg,
                   fanout, browser, doomed, dropped>>

\* The reads of deregisterDo: no meta, no work; a bare meta names no tenant, so
\* that the index keys it would clean up are not this session's.
Deregistration(d) ==
    CASE meta[d] = "none" -> "none"
      [] meta[d] = "bare" -> "bare"
      [] meta[d] = "full" /\ d \in doAlerts -> "listed"
      [] meta[d] = "full" /\ d \notin doAlerts -> "unlisted"

\* The transaction at its end, by what the reads have found.
DeregisterDo(d, found) ==
    /\ watchers' = IF found = "listed" THEN watchers \ {d} ELSE watchers
    /\ userDos' = IF found = "bare" THEN userDos ELSE userDos \ {d}
    /\ meta' = [meta EXCEPT ![d] = "none"]
    /\ doAlerts' = doAlerts \ {d}

DisconnectCall(d) ==
    /\ dereg[d] = "none"
    /\ Arrives(d, "disconnect")
    /\ \/ NoFault /\ dereg' = [dereg EXCEPT ![d] = Deregistration(d)]
       \/ Fault("bff") /\ UNCHANGED dereg
    /\ UNCHANGED <<published, registry, sock, ticket, watched, timers, asked, watching,
                   fanout, browser, history>>

DisconnectEnds(d) ==
    /\ dereg[d] # "none"
    /\ DeregisterDo(d, dereg[d])
    /\ dereg' = [dereg EXCEPT ![d] = "none"]
    /\ UNCHANGED <<published, sock, ticket, watched, timers, asked, watching, calls,
                   fanout, browser, history, faults>>

\* /api/internal/cancel publishes triage.cancel, which the fan-out hears as well.
CancelCall(d) ==
    /\ Arrives(d, "cancel")
    /\ \/ NoFault /\ Send("cancel", 0)
       \/ Fault("bff") /\ UNCHANGED inbox
    /\ UNCHANGED <<published, registry, sock, ticket, watched, timers, asked, watching, dereg,
                   msg, push, tries, late, browser, history>>

----------------------------------------------------------------------------
(* The fan-out: onTriageEvent, onRevocationEvent and pushWithRetry.         *)

\* Mutant: revocations go to the watchers of the alert.
LookupByAlert(l) ==
    /\ inbox[l] # <<>>
    /\ \A d \in Sessions : push[l][d] = "none"
    /\ inbox' = [inbox EXCEPT ![l] = Tail(@)]
    /\ msg' = [msg EXCEPT ![l] = Head(inbox[l])]
    /\ push' = [push EXCEPT ![l] = [d \in Sessions |-> IF Registered(d) THEN "post" ELSE "none"]]
    /\ UNCHANGED <<published, registry, object, tries, late, browser, history, faults>>

\* The next message of a subscription, once the handler of the one before has
\* returned; watchersForAlert or dosForUser, and their metas. (A bare meta has no
\* push_url: posting to it throws, and three times that is nothing.)
Lookup(l) ==
    /\ inbox[l] # <<>>
    /\ \A d \in Sessions : push[l][d] = "none"
    /\ LET listed == IF l[2] = "revoked" THEN userDos ELSE watchers IN
       push' = [push EXCEPT ![l] =
           [d \in Sessions |-> IF d \in listed /\ meta[d] = "full" THEN "post" ELSE "none"]]
    /\ inbox' = [inbox EXCEPT ![l] = Tail(@)]
    /\ msg' = [msg EXCEPT ![l] = Head(inbox[l])]
    /\ UNCHANGED <<published, registry, object, tries, late, browser, history, faults>>

\* The lookup throws: subscribeForever logs it and goes on to the next message.
LookupFails(l) ==
    /\ inbox[l] # <<>>
    /\ \A d \in Sessions : push[l][d] = "none"
    /\ Fault("redis")
    /\ inbox' = [inbox EXCEPT ![l] = Tail(@)]
    /\ dropped' = IF l[2] = "event" THEN dropped \union {Head(inbox[l])} ELSE dropped
    /\ doomed' = IF l[2] = "revoked" THEN {} ELSE doomed
    /\ UNCHANGED <<published, registry, object, msg, push, tries, late, browser, base, lapsed, withdrawn>>

PushAt(l, d, label) == push' = [push EXCEPT ![l][d] = label]

PushDone(l, d) ==
    /\ PushAt(l, d, "none")
    /\ tries' = [tries EXCEPT ![l][d] = 0]

\* The catch of pushWithRetry, which holds the registry calls too: again, at most
\* three times in all.
PushAgain(l, d) ==
    \/ /\ tries[l][d] + 1 < MaxPushes
       /\ tries' = [tries EXCEPT ![l][d] = @ + 1]
       /\ PushAt(l, d, "post")
    \/ /\ tries[l][d] + 1 >= MaxPushes
       /\ PushDone(l, d)

\* handlePush at the object: the frame goes to the socket, a revocation closes it.
Forward(d, kind, m) ==
    /\ got' = [got EXCEPT ![d] = IF kind = "event" THEN @ \union {m} ELSE @]
    /\ last' = [last EXCEPT ![d] = IF kind = "event" THEN m ELSE @]
    /\ sock' = [sock EXCEPT ![d] = IF kind = "revoked" THEN "closing" ELSE @]

\* Mutant: a post whose answer is lost is made again after the rest of the subscription.
PushRequeues(l, d) ==
    /\ push[l][d] = "post"
    /\ sock[d] = "open"
    /\ Forward(d, l[2], msg[l])
    /\ \/ NoFault /\ UNCHANGED inbox
       \/ Fault("push") /\ inbox' = [inbox EXCEPT ![l] = Append(@, msg[l])]
    /\ PushAt(l, d, "none")
    /\ UNCHANGED <<published, registry, ticket, watched, timers, asked, watching, calls, dereg,
                   msg, tries, late, history>>

\* Mutant: one attempt only.
PushOnce(l, d) ==
    /\ push[l][d] = "post"
    /\ \/ NoFault /\ sock[d] = "open" /\ Forward(d, l[2], msg[l])
       \/ NoFault /\ sock[d] # "open" /\ UNCHANGED <<got, last, sock>>
       \/ Fault("push") /\ UNCHANGED <<got, last, sock>>
    /\ PushAt(l, d, "none")
    /\ UNCHANGED <<published, registry, ticket, watched, timers, asked, watching, calls, dereg,
                   inbox, msg, tries, late, history>>

\* Mutant: the count of failed attempts survives the push.
PushKeepsTries(l, d) ==
    /\ push[l][d] = "post"
    /\ \/ NoFault /\ UNCHANGED tries /\ PushAt(l, d, "none")
       \/ Fault("push") /\ tries' = [tries EXCEPT ![l][d] = @ + 1] /\ UNCHANGED push
    /\ UNCHANGED <<published, registry, object, inbox, msg, late, browser, history>>

\* One POST. 204: the TTLs are refreshed if it was about the alert; 410 from an
\* object without a socket: prune; no answer or a 5xx: again, and the post may still
\* arrive. A socket that is closing may still be listed; sending to it throws, which
\* handlePush ignores.
PushOne(l, d) ==
    /\ push[l][d] = "post"
    /\ \/ /\ NoFault /\ sock[d] \in {"open", "closing"}
          /\ (sock[d] = "open" /\ Forward(d, l[2], msg[l]))
             \/ (sock[d] = "closing" /\ UNCHANGED <<got, last, sock>>)
          /\ \/ l[2] = "revoked" /\ PushDone(l, d)
             \/ l[2] # "revoked" /\ PushAt(l, d, "refresh") /\ UNCHANGED tries
          /\ UNCHANGED late
       \/ /\ NoFault /\ sock[d] # "open"
          /\ PushAt(l, d, "prune")
          /\ UNCHANGED <<got, last, sock, tries, late>>
       \/ /\ Fault("push")
          /\ PushAgain(l, d)
          /\ late' = [late EXCEPT ![d] = @ \union {<<l[2], msg[l]>>}]
          /\ UNCHANGED <<got, last, sock>>
    /\ UNCHANGED <<published, registry, ticket, watched, timers, asked, watching, calls, dereg,
                   inbox, msg, history>>

\* A post that was not answered arrives after all: at once, or when later ones have.
LatePost(d) ==
    /\ sock[d] = "open"
    /\ \E p \in late[d] : Forward(d, p[1], p[2]) /\ late' = [late EXCEPT ![d] = @ \ {p}]
    /\ UNCHANGED <<published, registry, ticket, watched, timers, asked, watching, calls, dereg,
                   inbox, msg, push, tries, history, faults>>

\* refreshTtl: the EXPIREs come before the HSET, which brings a meta that was
\* deleted meanwhile back to life, bare and without a TTL.
RefreshTtl(l, d) ==
    /\ push[l][d] = "refresh"
    /\ PushDone(l, d)
    /\ meta' = [meta EXCEPT ![d] = IF @ = "none" THEN "bare" ELSE @]
    /\ UNCHANGED <<published, watchers, userDos, doAlerts, object, inbox, msg, late,
                   browser, history, faults>>

\* pruneDoEverywhere, which is deregisterDo: its reads.
PruneStarts(l, d) ==
    /\ push[l][d] = "prune"
    /\ \/ Deregistration(d) = "none" /\ PushDone(l, d)
       \/ Deregistration(d) # "none" /\ PushAt(l, d, Deregistration(d)) /\ UNCHANGED tries
    /\ UNCHANGED <<published, registry, object, inbox, msg, late, browser, history, faults>>

PruneEnds(l, d) ==
    /\ push[l][d] \in {"listed", "unlisted", "bare"}
    /\ DeregisterDo(d, push[l][d])
    /\ PushDone(l, d)
    /\ UNCHANGED <<published, object, inbox, msg, late, browser, history, faults>>

\* A registry call of the three above throws: the event is posted again.
RegistryFails(l, d) ==
    /\ push[l][d] \notin {"none", "post"}
    /\ Fault("redis")
    /\ PushAgain(l, d)
    /\ UNCHANGED <<published, registry, object, inbox, msg, late, browser, history>>

----------------------------------------------------------------------------
(* The analyst's logout, and time.                                          *)

\* publishRevocation: once, for the properties below.
Logout ==
    /\ doomed = {}
    /\ \A l \in Lanes : l[2] = "revoked" =>
          inbox[l] = <<>> /\ \A d \in Sessions : push[l][d] = "none"
    /\ doomed' = {d \in userDos : meta[d] = "full" /\ sock[d] = "open"}
    /\ doomed' # {}
    /\ Send("revoked", 0)
    /\ UNCHANGED <<published, registry, object, msg, push, tries, late, browser, base, lapsed,
                   withdrawn, dropped, faults>>

\* Ten minutes without a push or a registration: a session's meta, the alert's
\* set or the user's set (which no push refreshes) is gone. A bare meta stays.
KeyExpires ==
    /\ Fault("expiry")
    /\ \/ \E d \in Sessions :
             /\ meta[d] = "full"
             /\ meta' = [meta EXCEPT ![d] = "none"]
             /\ doAlerts' = doAlerts \ {d}
             /\ lapsed' = lapsed \union {d}
             /\ doomed' = doomed \ {d}
             /\ UNCHANGED <<watchers, userDos>>
       \/ /\ watchers # {}
          /\ watchers' = {}
          /\ lapsed' = lapsed \union watchers
          /\ UNCHANGED <<meta, userDos, doAlerts, doomed>>
       \/ /\ userDos # {}
          /\ userDos' = {}
          /\ doomed' = {}
          /\ UNCHANGED <<meta, watchers, doAlerts, lapsed>>
    /\ UNCHANGED <<published, object, fanout, browser, base, withdrawn, dropped>>

Session(d) ==
    \/ Connect(d) \/ HandleWatch(d) \/ FetchSnapshot(d) \/ RegisterWatch(d) \/ WatchReply(d)
    \/ HandleUnwatch(d) \/ WebSocketClose(d) \/ FireCancel(d) \/ Hibernate(d) \/ Evict(d)
    \/ UnwatchCall(d) \/ WatchCall(d) \/ DisconnectCall(d) \/ DisconnectEnds(d) \/ CancelCall(d)

Push(l, d) ==
    PushOne(l, d) \/ RefreshTtl(l, d) \/ PruneStarts(l, d) \/ PruneEnds(l, d) \/ RegistryFails(l, d)

Fanout(l) == Lookup(l) \/ LookupFails(l) \/ \E d \in Sessions : Push(l, d)

Next ==
    \/ PublishPhase \/ Logout \/ KeyExpires
    \/ \E d \in Sessions : Session(d) \/ LatePost(d)
    \/ \E l \in Lanes : Fanout(l)

Spec == Init /\ [][Next]_vars

----------------------------------------------------------------------------
(* Properties.                                                              *)

Where == {"none", "post", "refresh", "prune", "listed", "unlisted", "bare"}

\* The types of the registry, the objects and the fan-out; attempts are counted
\* only while a push is under way, and a browser has only events that exist.
TypeOK ==
    /\ published \in 0..MaxEvents
    /\ meta \in [Sessions -> {"none", "full", "bare"}]
    /\ watchers \subseteq Sessions /\ userDos \subseteq Sessions /\ doAlerts \subseteq Sessions
    /\ sock \in [Sessions -> {"new", "open", "closing", "closed"}]
    /\ ticket \subseteq Sessions /\ watched \subseteq Sessions /\ timers \subseteq ticket
    /\ asked \in [Sessions -> 0..MaxWatches]
    /\ watching \in [Sessions -> [Stages -> Nat]] /\ calls \in [Sessions -> [Calls -> Nat]]
    /\ dereg \in [Sessions -> {"none", "listed", "unlisted", "bare"}]
    /\ inbox \in [Lanes -> Seq(0..MaxEvents)] /\ msg \in [Lanes -> 0..MaxEvents]
    /\ push \in [Lanes -> [Sessions -> Where]]
    /\ tries \in [Lanes -> [Sessions -> 0..(MaxPushes - 1)]]
    /\ \A l \in Lanes : \A d \in Sessions : tries[l][d] > 0 => push[l][d] # "none"
    /\ late \in [Sessions -> SUBSET (Kinds \X (0..MaxEvents))]
    /\ \A d \in Sessions : \A p \in late[d] : p[1] = "event" => p[2] \in 1..published
    /\ got \in [Sessions -> SUBSET (1..published)]
    /\ base \in [Sessions -> 0..published] /\ last \in [Sessions -> 0..published]
    /\ \A d \in Sessions : last[d] \in got[d] \union {0}
    /\ dropped \subseteq 1..published
    /\ lapsed \subseteq Sessions /\ withdrawn \subseteq Sessions /\ doomed \subseteq Sessions
    /\ faults \in 0..MaxFaults

\* A browser receives an older event after a newer one only if a post of the older
\* went unanswered and arrived late; the retries themselves keep the order: a
\* subscription's loop waits for the pushes of one event before it takes the next
\* (subscribeForever, pushWithRetry). With one BFF process.
InOrder ==
    [][\A d \in Sessions :
          last'[d] >= last[d] \/ <<"event", last'[d]>> \in late[d] \ late'[d]]_vars

\* While a session stays registered it misses no event before one that it got, as
\* long as fewer attempts than pushWithRetry makes fail, except events whose watchers
\* could not be read. With one BFF process.
NoGapWhileRegistered ==
    \A d \in Sessions : Registered(d) =>
        \A e \in got[d] : (base[d] + 1)..e \subseteq got[d] \union dropped

\* An object that believes it watches the alert (watchedAlerts, which makes it
\* ignore further watch messages) is in the registry, unless a TTL ran out or an
\* unwatch was carried out after the latest registration.
WatchedIsRegistered ==
    \A d \in Sessions :
        d \in watched /\ sock[d] = "open" /\ d \notin lapsed \union withdrawn => Registered(d)

\* When onRevocationEvent is done with a logout, no socket that was registered under
\* the user at the time of the logout is open, whatever it has unwatched or watched
\* since and also if it hibernates; unless a TTL or a failing lookup has lost the
\* revocation, or as many attempts failed as pushWithRetry makes.
RevocationCloses ==
    \A d \in doomed :
        (\A f \in Fanouts : inbox[<<f, "revoked">>] = <<>> /\ push[<<f, "revoked">>][d] = "none")
        => sock[d] # "open"
=============================================================================
