---------------------------- MODULE ServiceTokens ----------------------------
(***************************************************************************)
(* The service tokens of one audience: the row of secrets in Postgres and    *)
(* those who rotate it (secret_store.py, secret_publisher.py), the bundle a  *)
(* process keeps of it (jwt_bootstrap.py), and the calls of verify that the  *)
(* process serves at the same time (jwt_service.py).                         *)
(*                                                                           *)
(* A secret is the number of its rotation: the row holds the current one,    *)
(* row, and the previous one, row - 1; 0 is no secret. Tokens come from      *)
(* peers, which hold any secret there has been, or one of their own.         *)
(***************************************************************************)
EXTENDS Naturals, FiniteSets

CONSTANTS
    Rotators,    \* secret_publisher processes
    Tokens,
    Calls,       \* concurrent calls of verify
    None,
    Seeded,      \* the audience is one that initialize() seeds
    Wirings,     \* whether the store is given an on_rotate that calls refresh()
    TTL, Leeway, \* of a token, in ticks
    CacheMax,    \* _cache_max_entries
    Share,       \* the part of a full cache that is evicted: one in Share
    MaxTime, MaxVersion, MaxFaults

ASSUME TokenAssumption ==
    /\ {TTL, Leeway, CacheMax, Share, MaxTime, MaxVersion, MaxFaults} \subseteq Nat
    /\ 0 < Share /\ Share <= CacheMax
    /\ Seeded \in BOOLEAN /\ Wirings \subseteq BOOLEAN
    /\ None \notin Rotators \union Tokens

\* The secret of an in-memory store: nobody else's.
Private == MaxVersion + 1
Secrets == 0 .. Private

VARIABLES
    row,        \* the current secret in service_secrets, 0 without a row
    lock,       \* the rotator that holds the row lock
    rotator,    \* where a rotator is
    pc,         \* where the process is: down, starting, loading, up
    listening,  \* its LISTEN connection is open
    bundle,     \* the current secret of its bundle
    fetched,    \* what its load or its refresh has read
    notified,   \* refresh tasks that wait for _refresh_lock
    refresh,    \* where the one that has the lock is
    now,
    token,      \* the tokens that are minted: signing secret, exp, audience
    revoked,    \* the deny-list
    cache,      \* the verify cache, keyed by token
    call,       \* the calls of verify
    faults

db      == <<row, lock, rotator>>
process == <<pc, listening, bundle, fetched, notified, refresh>>
issued  == <<now, token, revoked>>
vars    == <<db, process, issued, cache, call, faults>>

Idle == [at |-> "idle", token |-> None, revoked |-> FALSE, began |-> 0, blind |-> FALSE]

Init ==
    /\ row = 0 /\ lock = None /\ rotator = [r \in Rotators |-> "idle"]
    /\ pc = "down" /\ listening = FALSE /\ bundle = 0 /\ fetched = 0
    /\ notified = 0 /\ refresh = "idle"
    /\ now = 0 /\ token = [t \in Tokens |-> None] /\ revoked = {}
    /\ cache = {} /\ call = [c \in Calls |-> Idle] /\ faults = 0

NoFault == UNCHANGED faults
Fault == faults < MaxFaults /\ faults' = faults + 1

----------------------------------------------------------------------------
(* The row.                                                                  *)

\* The trigger's NOTIFY and _on_notify: one task that calls on_rotate, and with it
\* refresh(). Before start() has returned there is no authority to refresh, and without
\* LISTEN nobody to tell.
Notify == notified' = IF listening /\ pc = "up" THEN notified + 1 ELSE notified

\* SELECT ... FOR UPDATE: waits for the row's lock; a row that is not there locks nothing.
RotateSelect(r) ==
    /\ rotator[r] = "idle" /\ row < MaxVersion
    /\ \/ row = 0 /\ rotator' = [rotator EXCEPT ![r] = "insert"] /\ UNCHANGED lock
       \/ row > 0 /\ lock = None /\ lock' = r /\ rotator' = [rotator EXCEPT ![r] = "update"]
    /\ NoFault
    /\ UNCHANGED <<row, process, issued, cache, call>>

\* The statement and the commit: the row moves on and the trigger fires; of two that
\* insert, the later one violates the primary key.
RotateCommit(r) ==
    /\ \/ /\ rotator[r] = "update"
          /\ row' = row + 1 /\ lock' = None /\ Notify
       \/ /\ rotator[r] = "insert" /\ row = 0
          /\ row' = 1 /\ UNCHANGED lock /\ Notify
       \/ /\ rotator[r] = "insert" /\ row # 0
          /\ UNCHANGED <<row, lock, notified>>
    /\ rotator' = [rotator EXCEPT ![r] = "idle"] /\ NoFault
    /\ UNCHANGED <<pc, listening, bundle, fetched, refresh, issued, cache, call>>

\* The rotator dies or loses its connection: the transaction is rolled back.
RotateFails(r) ==
    /\ rotator[r] # "idle" /\ Fault
    /\ rotator' = [rotator EXCEPT ![r] = "idle"]
    /\ lock' = (IF lock = r THEN None ELSE lock)
    /\ UNCHANGED <<row, process, issued, cache, call>>

----------------------------------------------------------------------------
(* The process: ServiceTokenAuthority.                                       *)

\* start(), first half: initialize() seeds a missing row and, if it has an on_rotate,
\* opens LISTEN; if it fails, an in-memory store takes the place of Postgres.
Initialize ==
    /\ pc = "down"
    /\ \/ /\ NoFault /\ pc' = "starting"
          /\ listening' \in Wirings /\ fetched' = 0
          /\ row' = (IF Seeded /\ row = 0 THEN 1 ELSE row)
       \/ /\ Fault /\ pc' = "loading"
          /\ fetched' = Private /\ UNCHANGED <<listening, row>>
    /\ UNCHANGED <<lock, rotator, bundle, notified, refresh, issued, cache, call>>

\* _load_all: the query. A failure, or no row, leaves the process without a bundle.
LoadFetch ==
    /\ pc = "starting" /\ pc' = "loading"
    /\ \/ NoFault /\ fetched' = row
       \/ Fault /\ UNCHANGED fetched
    /\ UNCHANGED <<db, listening, bundle, notified, refresh, issued, cache, call>>

\* _load_all: the bundle is set, and start() returns.
LoadStore ==
    /\ pc = "loading" /\ pc' = "up"
    /\ bundle' = fetched /\ fetched' = 0 /\ NoFault
    /\ UNCHANGED <<db, listening, notified, refresh, issued, cache, call>>

\* Mutant: refresh() takes no lock. Two of them have two results, in any order.
RefreshUnlocked ==
    /\ pc = "up" /\ notified > 0 /\ NoFault
    /\ \/ refresh = "idle" /\ fetched' = row /\ refresh' = "fetched" /\ UNCHANGED <<notified, bundle>>
       \/ /\ refresh = "fetched" /\ bundle' = row /\ notified' = notified - 1
          /\ UNCHANGED <<fetched, refresh>>
    /\ UNCHANGED <<db, pc, listening, issued, cache, call>>

\* refresh(), holding _refresh_lock: the query.
RefreshFetch ==
    /\ pc = "up" /\ notified > 0 /\ refresh = "idle"
    /\ notified' = notified - 1
    /\ \/ NoFault /\ fetched' = row /\ refresh' = "fetched"
       \/ Fault /\ UNCHANGED <<fetched, refresh>>
    /\ UNCHANGED <<db, pc, listening, bundle, issued, cache, call>>

\* refresh(): the bundle is set, and the lock released.
RefreshStore ==
    /\ pc = "up" /\ refresh = "fetched"
    /\ bundle' = fetched /\ fetched' = 0 /\ refresh' = "idle" /\ NoFault
    /\ UNCHANGED <<db, pc, listening, notified, issued, cache, call>>

\* The LISTEN connection is lost. _heartbeat logs it, and nothing opens another.
ListenerLost ==
    /\ listening /\ Fault /\ listening' = FALSE
    /\ UNCHANGED <<db, pc, bundle, fetched, notified, refresh, issued, cache, call>>

\* The process ends, and its calls with it.
Stop ==
    /\ pc # "down" /\ Fault
    /\ pc' = "down" /\ listening' = FALSE /\ bundle' = 0 /\ fetched' = 0
    /\ notified' = 0 /\ refresh' = "idle"
    /\ cache' = {} /\ call' = [c \in Calls |-> Idle]
    /\ UNCHANGED <<db, issued>>

----------------------------------------------------------------------------
(* Tokens and their verification: JWTService.                                *)

\* A peer mints a token with the secret it has, or one for another audience.
Mint(t) ==
    /\ token[t] = None
    /\ \E s \in (1 .. row) \union {Private}, own \in BOOLEAN :
          /\ own \/ s = row
          /\ token' = [token EXCEPT ![t] = [secret |-> s, exp |-> now + TTL, own |-> own]]
    /\ NoFault
    /\ UNCHANGED <<db, process, now, revoked, cache, call>>

Revoke(t) ==
    /\ token[t] # None /\ t \notin revoked
    /\ revoked' = revoked \union {t} /\ NoFault
    /\ UNCHANGED <<db, process, now, token, cache, call>>

Tick ==
    /\ now < MaxTime /\ now' = now + 1 /\ NoFault
    /\ UNCHANGED <<db, process, token, revoked, cache, call>>

\* _decode_with_rotation: the current secret or the previous one, and the claims.
Keys == IF bundle = Private THEN {bundle} ELSE {bundle, bundle - 1} \ {0}
Decodes(t) ==
    /\ bundle # 0 /\ token[t].secret \in Keys
    /\ token[t].exp + Leeway > now
    /\ token[t].own

Cached(t) == t \in cache /\ token[t].exp > now
Busy(c) == call[c].at \in {"cached", "decoded"}

\* verify(), up to its await: a cached token that has not expired is taken as it is,
\* any other is decoded.
VerifyToken(c, t) ==
    /\ pc = "up" /\ ~Busy(c) /\ token[t] # None
    /\ call' = [call EXCEPT ![c] =
          IF Cached(t) \/ Decodes(t)
          THEN [at |-> IF Cached(t) THEN "cached" ELSE "decoded", token |-> t,
                revoked |-> t \in revoked, began |-> now, blind |-> FALSE]
          ELSE Idle]
    /\ NoFault
    /\ UNCHANGED <<db, process, issued, cache>>

\* Mutant: the whole cache is kept once its expired entries are gone.
EvictExpired(kept) == kept = {t \in cache : token[t].exp > now}

\* _maybe_evict: below the limit nothing; else the expired entries and, if that is not
\* enough, one in Share of the others, those that expire first.
Evicted(kept) ==
    IF Cardinality(cache) < CacheMax THEN kept = cache
    ELSE LET live == {t \in cache : token[t].exp > now} IN
         IF Cardinality(live) < CacheMax THEN kept = live
         ELSE /\ kept \subseteq live
              /\ Cardinality(live \ kept) = Cardinality(live) \div Share
              /\ \A t \in live \ kept, u \in kept : token[t].exp <= token[u].exp

\* The deny-list is read. An error is a pass. A revoked token is refused, but its cache
\* entry stays: it is popped by jti, and the key is the token.
Passes(c) == NoFault /\ call[c].token \notin revoked
Answered(c, blind) == call' = [call EXCEPT ![c].at = "accepted", ![c].blind = blind]

\* Mutant: a cached token is not looked up in the deny-list.
VerifiedBefore(c) ==
    /\ call[c].at = "cached" /\ Answered(c, FALSE) /\ NoFault
    /\ UNCHANGED <<db, process, issued, cache>>

\* verify() of a cached token, after the await.
VerifyCached(c) ==
    /\ call[c].at = "cached"
    /\ \/ Passes(c) /\ Answered(c, FALSE)
       \/ Fault /\ Answered(c, TRUE)
       \/ call[c].token \in revoked /\ NoFault /\ call' = [call EXCEPT ![c] = Idle]
    /\ UNCHANGED <<db, process, issued, cache>>

\* verify() of a decoded token, after the await.
VerifyDecoded(c) ==
    /\ call[c].at = "decoded"
    /\ \/ /\ (Passes(c) /\ Answered(c, FALSE)) \/ (Fault /\ Answered(c, TRUE))
          /\ \E kept \in SUBSET cache : Evicted(kept) /\ cache' = kept \union {call[c].token}
       \/ /\ call[c].token \in revoked /\ NoFault
          /\ call' = [call EXCEPT ![c] = Idle] /\ UNCHANGED cache
    /\ UNCHANGED <<db, process, issued>>

----------------------------------------------------------------------------

Next ==
    \/ \E r \in Rotators : RotateSelect(r) \/ RotateCommit(r) \/ RotateFails(r)
    \/ Initialize \/ LoadFetch \/ LoadStore \/ RefreshFetch \/ RefreshStore
    \/ ListenerLost \/ Stop \/ Tick
    \/ \E t \in Tokens : Mint(t) \/ Revoke(t) \/ (\E c \in Calls : VerifyToken(c, t))
    \/ \E c \in Calls : VerifyCached(c) \/ VerifyDecoded(c)

Spec == Init /\ [][Next]_vars

----------------------------------------------------------------------------
(* Properties.                                                               *)

\* A token that verify accepts was good when the call began: minted for this audience,
\* not expired by more than the leeway and, unless the deny-list could not be read, not
\* revoked, whether it was in the cache or not and whoever verified it before.
AcceptedWasGood ==
    \A c \in Calls : call[c].at = "accepted" =>
        /\ token[call[c].token].own
        /\ token[call[c].token].exp + Leeway > call[c].began
        /\ call[c].revoked => call[c].blind

\* The verify cache keeps its limit under concurrent calls: no await separates the
\* eviction from the insertion.
CacheBounded == Cardinality(cache) <= CacheMax

\* The row and the bundle only move forward: two rotators never stamp the same secret
\* and two refreshes never leave an older bundle over a newer one.
BundlesAdvance ==
    [][ /\ row' \in {row, row + 1}
        /\ bundle' >= bundle \/ pc' = "down" ]_vars

\* What makes BundlesAdvance inductive: a refresh that has read is not behind the bundle
\* it will replace, and only a process with the row of Postgres is told.
BundleInv ==
    /\ row \in Nat /\ bundle \in Nat /\ fetched \in Nat /\ notified \in Nat
    /\ pc \in {"down", "starting", "loading", "up"} /\ refresh \in {"idle", "fetched"}
    /\ pc # "up" => bundle = 0 /\ notified = 0 /\ refresh = "idle"
    /\ pc = "down" => ~listening
    /\ pc = "starting" => fetched = 0
    /\ pc = "loading" /\ listening => fetched <= row
    /\ pc = "up" /\ (listening \/ notified > 0) => bundle <= row
    /\ refresh = "fetched" => bundle <= fetched /\ fetched <= row
=============================================================================
