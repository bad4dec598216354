------------------------- MODULE ServiceTokensProofs -------------------------
(* Theorems about ServiceTokens, for any number of rotators, tokens, calls,   *)
(* rotations and faults.                                                      *)
EXTENDS ServiceTokens, FiniteSetTheorems, TLAPS

\* The limits of the cache and of the secrets are natural numbers.
LEMMA Numbers ==
    /\ CacheMax \in Nat /\ Share \in Nat /\ MaxVersion \in Nat
    /\ 0 < Share /\ Share <= CacheMax
BY TokenAssumption

\* At first there is neither a row nor a bundle.
LEMMA InitBundle == Init => BundleInv
BY DEF Init, BundleInv

\* A step that touches neither the row nor the process.
LEMMA ElsewhereBundle ==
    ASSUME BundleInv, UNCHANGED <<row, process>>
    PROVE  BundleInv'
BY DEF BundleInv, process

\* Every step of the rotators and of the process keeps BundleInv.
LEMMA StepBundle == BundleInv /\ [Next]_vars => BundleInv'
<1> SUFFICES ASSUME BundleInv, [Next]_vars PROVE BundleInv'
    OBVIOUS
<1>1. ASSUME NEW r \in Rotators, RotateCommit(r) PROVE BundleInv'
    <2>1. CASE UNCHANGED <<row, notified>>
        BY <1>1, <2>1, ElsewhereBundle DEF RotateCommit, process
    <2>2. CASE row' = row + 1 /\ Notify
        <3>1. UNCHANGED <<pc, listening, bundle, fetched, refresh>>
            BY <1>1 DEF RotateCommit
        <3> QED
            BY <2>2, <3>1 DEF Notify, BundleInv
    <2> QED
        BY <1>1, <2>1, <2>2 DEF RotateCommit, BundleInv
<1>2. ASSUME NEW r \in Rotators, RotateSelect(r) \/ RotateFails(r) PROVE BundleInv'
    BY <1>2, ElsewhereBundle DEF RotateSelect, RotateFails
<1>3. CASE Initialize
    BY <1>3, Numbers, TokenAssumption DEF Initialize, BundleInv, Private
<1>4. CASE LoadFetch
    BY <1>4 DEF LoadFetch, BundleInv, db
<1>5. CASE LoadStore
    BY <1>5 DEF LoadStore, BundleInv, db
<1>6. CASE RefreshFetch
    BY <1>6 DEF RefreshFetch, BundleInv, db
<1>7. CASE RefreshStore
    BY <1>7 DEF RefreshStore, BundleInv, db
<1>8. CASE ListenerLost
    BY <1>8 DEF ListenerLost, BundleInv, db
<1>9. CASE Stop
    BY <1>9 DEF Stop, BundleInv, db
<1>10. CASE Tick \/ \E t \in Tokens : Mint(t) \/ Revoke(t)
    BY <1>10, ElsewhereBundle DEF Tick, Mint, Revoke, db
<1>11. ASSUME NEW c \in Calls, VerifyCached(c) \/ VerifyDecoded(c) \/ \E t \in Tokens : VerifyToken(c, t)
       PROVE  BundleInv'
    BY <1>11, ElsewhereBundle DEF VerifyCached, VerifyDecoded, VerifyToken, db
<1>12. CASE UNCHANGED vars
    BY <1>12, ElsewhereBundle DEF vars, db
<1> QED
    BY <1>1, <1>2, <1>3, <1>4, <1>5, <1>6, <1>7, <1>8, <1>9, <1>10, <1>11, <1>12 DEF Next

\* Neither the row nor a bundle ever goes back to an older secret (the row lock of rotate,
\* _refresh_lock).
THEOREM OnlyForward == Spec => BundlesAdvance
<1> DEFINE Advance == row' \in {row, row + 1} /\ (bundle' >= bundle \/ pc' = "down")
<1>1. ASSUME BundleInv, [Next]_vars PROVE [Advance]_vars
    <2>1. ASSUME NEW r \in Rotators, RotateSelect(r) \/ RotateCommit(r) \/ RotateFails(r) PROVE Advance
        BY <1>1, <2>1 DEF RotateSelect, RotateCommit, RotateFails, process, BundleInv
    <2>2. CASE Initialize \/ LoadFetch \/ LoadStore
        BY <1>1, <2>2 DEF Initialize, LoadFetch, LoadStore, db, BundleInv
    <2>3. CASE RefreshFetch \/ RefreshStore \/ ListenerLost \/ Stop
        BY <1>1, <2>3 DEF RefreshFetch, RefreshStore, ListenerLost, Stop, db, BundleInv
    <2>4. CASE Tick \/ \E t \in Tokens : Mint(t) \/ Revoke(t)
        BY <1>1, <2>4 DEF Tick, Mint, Revoke, db, process, BundleInv
    <2>5. ASSUME NEW c \in Calls, VerifyCached(c) \/ VerifyDecoded(c) \/ \E t \in Tokens : VerifyToken(c, t)
          PROVE  Advance
        <3>1. UNCHANGED <<row, bundle>>
            BY <2>5 DEF VerifyCached, VerifyDecoded, VerifyToken, db, process
        <3> QED
            BY <1>1, <3>1 DEF BundleInv
    <2> QED
        BY <1>1, <2>1, <2>2, <2>3, <2>4, <2>5 DEF Next
<1>2. BundleInv /\ [Next]_vars => [Advance]_vars
    BY <1>1
<1> QED
    BY <1>2, InitBundle, StepBundle, PTL DEF Spec, BundlesAdvance

----------------------------------------------------------------------------

\* CacheBounded made inductive: the cardinality counts only a finite cache.
CacheInv == IsFiniteSet(cache) /\ CacheBounded

\* Eviction makes room for one: of a full cache of live entries one in Share is dropped,
\* and Share is not more than there are.
LEMMA MakesRoom ==
    ASSUME CacheInv, NEW kept \in SUBSET cache, Evicted(kept)
    PROVE  IsFiniteSet(kept) /\ Cardinality(kept) < CacheMax
<1> DEFINE live == {t \in cache : token[t].exp > now}
<1>1. /\ IsFiniteSet(kept) /\ IsFiniteSet(live) /\ live \subseteq cache
      /\ Cardinality(live) \in Nat /\ Cardinality(live) <= Cardinality(cache)
      /\ Cardinality(cache) \in Nat
    BY FS_Subset, FS_CardinalityType DEF CacheInv
<1>2. CASE Cardinality(cache) < CacheMax \/ Cardinality(live) < CacheMax
    BY <1>1, <1>2, Numbers DEF Evicted
<1>3. CASE ~(Cardinality(cache) < CacheMax) /\ ~(Cardinality(live) < CacheMax)
    <2>1. kept \subseteq live /\ Cardinality(live \ kept) = Cardinality(live) \div Share
        BY <1>3 DEF Evicted
    <2>2. Cardinality(live) = CacheMax
        BY <1>1, <1>3, Numbers DEF CacheInv, CacheBounded
    <2>3. CacheMax \div Share >= 1 /\ CacheMax \div Share \in Nat
        BY Numbers, SMTT(30)
    <2>4. Cardinality(live \ kept) = Cardinality(live) - Cardinality(live \cap kept)
        BY <1>1, FS_Difference
    <2>5. live \cap kept = kept
        BY <2>1
    <2>6. Cardinality(kept) \in Nat
        BY <1>1, FS_CardinalityType
    <2>7. Cardinality(live) \div Share = Cardinality(live) - Cardinality(kept)
        BY <2>1, <2>4, <2>5
    <2>8. CacheMax \div Share = CacheMax - Cardinality(kept)
        BY <2>2, <2>7
    <2> HIDE DEF live
    <2> QED
        BY <1>1, <2>3, <2>6, <2>8, Numbers
<1> QED
    BY <1>2, <1>3

\* Only a decoded token enters the cache, after the eviction; nothing else adds to it.
LEMMA StepCache == CacheInv /\ [Next]_vars => CacheInv'
<1> SUFFICES ASSUME CacheInv, [Next]_vars PROVE CacheInv'
    OBVIOUS
<1>1. ASSUME NEW kept \in SUBSET cache, Evicted(kept), NEW t, cache' = kept \union {t} PROVE CacheInv'
    <2>1. IsFiniteSet(kept) /\ Cardinality(kept) < CacheMax
        BY <1>1, MakesRoom
    <2>2. /\ IsFiniteSet(kept \union {t}) /\ Cardinality(kept) \in Nat
          /\ Cardinality(kept \union {t}) \in {Cardinality(kept), Cardinality(kept) + 1}
        BY <2>1, FS_AddElement, FS_CardinalityType
    <2> QED
        BY <1>1, <2>1, <2>2, Numbers DEF CacheInv, CacheBounded
<1>2. CASE cache' = cache
    BY <1>2 DEF CacheInv, CacheBounded
<1>3. CASE cache' = {}
    BY <1>3, FS_EmptySet, Numbers DEF CacheInv, CacheBounded
<1>4. ASSUME NEW c \in Calls, VerifyDecoded(c) PROVE CacheInv'
    BY <1>1, <1>2, <1>4 DEF VerifyDecoded
<1> QED
    BY <1>2, <1>3, <1>4
    DEF Next, vars, RotateSelect, RotateCommit, RotateFails, Initialize, LoadFetch, LoadStore,
        RefreshFetch, RefreshStore, ListenerLost, Stop, Tick, Mint, Revoke, VerifyToken, VerifyCached

\* The verify cache never holds more than _cache_max_entries, with any number of calls
\* between their eviction and their insertion (_maybe_evict).
THEOREM CacheKeepsLimit == Spec => []CacheBounded
<1>1. Init => CacheInv
    BY FS_EmptySet, Numbers DEF Init, CacheInv, CacheBounded
<1>2. CacheInv => CacheBounded
    BY DEF CacheInv
<1> QED
    BY <1>1, <1>2, StepCache, PTL DEF Spec

----------------------------------------------------------------------------
(* What verify accepts.                                                      *)

\* A minted token that is for this audience.
Good(t) == t \in Tokens /\ token[t] # None /\ token[t].own

\* The tokens and the calls have their types, and only good tokens are cached.
TokenInv ==
    /\ now \in Nat
    /\ token \in [Tokens -> {None} \union [secret : Nat, exp : Nat, own : BOOLEAN]]
    /\ call \in [Calls -> [at : {"idle", "cached", "decoded", "accepted"}, token : Tokens \union {None},
                           revoked : BOOLEAN, began : Nat, blind : BOOLEAN]]
    /\ \A t \in cache : Good(t)

\* What AcceptedWasGood says of a call, from the time it begins: a token that was on the
\* deny-list then is on it until the call reads it.
CallInv(c) ==
    call[c].at # "idle" =>
        /\ Good(call[c].token)
        /\ token[call[c].token].exp + Leeway > call[c].began
        /\ call[c].revoked => call[c].token \in revoked /\ (call[c].at = "accepted" => call[c].blind)

VerifyInv == TokenInv /\ \A c \in Calls : CallInv(c)

\* Initially there are no tokens.
LEMMA InitVerify == Init => VerifyInv
BY DEF Init, VerifyInv, TokenInv, CallInv, Idle

\* A step that neither mints nor verifies, and at most adds to the deny-list.
LEMMA ElsewhereVerify ==
    ASSUME VerifyInv, UNCHANGED <<now, token, cache, call>>, revoked \subseteq revoked'
    PROVE  VerifyInv'
BY DEF VerifyInv, TokenInv, CallInv, Good

\* A minted token stays as it is, so that minting another changes nothing about it.
LEMMA MintVerify ==
    ASSUME VerifyInv, NEW t \in Tokens, Mint(t)
    PROVE  VerifyInv'
<1>1. PICK s \in (1 .. row) \union {Private}, own \in BOOLEAN :
          token' = [token EXCEPT ![t] = [secret |-> s, exp |-> now + TTL, own |-> own]]
    BY DEF Mint
<1>2. token[t] = None /\ UNCHANGED <<now, revoked, cache, call>>
    BY DEF Mint
<1>3. \A u \in Tokens : token[u] # None => token'[u] = token[u]
    BY <1>1, <1>2 DEF VerifyInv, TokenInv
<1>4. TokenInv'
    <2>1. s \in Nat /\ TTL \in Nat
        BY Numbers, TokenAssumption DEF Private
    <2>2. [secret |-> s, exp |-> now + TTL, own |-> own] \in [secret : Nat, exp : Nat, own : BOOLEAN]
        BY <2>1 DEF VerifyInv, TokenInv
    <2>3. token' \in [Tokens -> {None} \union [secret : Nat, exp : Nat, own : BOOLEAN]]
        BY <1>1, <2>2 DEF VerifyInv, TokenInv
    <2> QED
        BY <1>2, <1>3, <2>3 DEF VerifyInv, TokenInv, Good
<1>5. ASSUME NEW c \in Calls PROVE CallInv(c)'
    BY <1>2, <1>3 DEF VerifyInv, CallInv, Good
<1> QED
    BY <1>4, <1>5 DEF VerifyInv

\* A call that is refused or ends leaves nothing.
LEMMA IdleVerify ==
    ASSUME VerifyInv, NEW c \in Calls, call' = [call EXCEPT ![c] = Idle],
           UNCHANGED <<now, token, revoked, cache>>
    PROVE  VerifyInv'
<1>1. Idle \in [at : {"idle", "cached", "decoded", "accepted"}, token : Tokens \union {None},
                revoked : BOOLEAN, began : Nat, blind : BOOLEAN]
    BY DEF Idle
<1>2. TokenInv'
    BY <1>1 DEF VerifyInv, TokenInv, Good
<1>3. ASSUME NEW d \in Calls PROVE CallInv(d)'
    BY DEF VerifyInv, TokenInv, CallInv, Good, Idle
<1> QED
    BY <1>2, <1>3 DEF VerifyInv

\* A call begins with a token that is good now, whether it is cached or decoded.
LEMMA BeginVerify ==
    ASSUME VerifyInv, NEW c \in Calls, NEW t \in Tokens, VerifyToken(c, t)
    PROVE  VerifyInv'
<1>1. UNCHANGED <<now, token, revoked, cache>> /\ token[t] # None
    BY DEF VerifyToken, issued
<1>2. token[t] \in [secret : Nat, exp : Nat, own : BOOLEAN] /\ now \in Nat /\ Leeway \in Nat
    BY <1>1, TokenAssumption DEF VerifyInv, TokenInv
<1>3. CASE Cached(t) \/ Decodes(t)
    <2> DEFINE begun == [at |-> IF Cached(t) THEN "cached" ELSE "decoded", token |-> t,
                         revoked |-> t \in revoked, began |-> now, blind |-> FALSE]
    <2>1. call' = [call EXCEPT ![c] = begun]
        BY <1>3 DEF VerifyToken
    <2>2. begun \in [at : {"idle", "cached", "decoded", "accepted"}, token : Tokens \union {None},
                     revoked : BOOLEAN, began : Nat, blind : BOOLEAN]
        BY <1>2
    <2>3. Good(t)
        BY <1>1, <1>3 DEF Cached, Decodes, Good, VerifyInv, TokenInv
    <2>4. token[t].exp + Leeway > now
        BY <1>2, <1>3 DEF Cached, Decodes
    <2>5. /\ begun.at \in {"cached", "decoded"} /\ begun.token = t /\ begun.began = now
          /\ begun.revoked => t \in revoked
        OBVIOUS
    <2> HIDE DEF begun
    <2>6. TokenInv'
        BY <1>1, <2>1, <2>2 DEF VerifyInv, TokenInv, Good
    <2>7. ASSUME NEW d \in Calls PROVE CallInv(d)'
        <3>1. CASE d = c
            <4>1. call'[d] = begun
                BY <2>1, <3>1 DEF VerifyInv, TokenInv
            <4> QED
                BY <1>1, <2>3, <2>4, <2>5, <4>1 DEF CallInv, Good
        <3>2. CASE d # c
            BY <1>1, <2>1, <3>2 DEF VerifyInv, TokenInv, CallInv, Good
        <3> QED
            BY <3>1, <3>2
    <2> QED
        BY <2>6, <2>7 DEF VerifyInv
<1>4. CASE ~(Cached(t) \/ Decodes(t))
    BY <1>1, <1>4, IdleVerify DEF VerifyToken
<1> QED
    BY <1>3, <1>4

\* A call that is answered read the deny-list without its token, or could not read it.
LEMMA AnswerVerify ==
    ASSUME VerifyInv, NEW c \in Calls, call[c].at # "idle",
           \/ Answered(c, FALSE) /\ call[c].token \notin revoked
           \/ Answered(c, TRUE),
           UNCHANGED <<now, token, revoked>>, \A t \in cache' : Good(t)
    PROVE  VerifyInv'
<1>1. PICK blind \in BOOLEAN : /\ Answered(c, blind)
                               /\ blind \/ call[c].token \notin revoked
    OBVIOUS
<1>2. call' = [call EXCEPT ![c].at = "accepted", ![c].blind = blind]
    BY <1>1 DEF Answered
<1>3. /\ call'[c].at = "accepted" /\ call'[c].blind = blind
      /\ call'[c].token = call[c].token /\ call'[c].revoked = call[c].revoked /\ call'[c].began = call[c].began
      /\ \A d \in Calls : d # c => call'[d] = call[d]
    BY <1>2 DEF VerifyInv, TokenInv
<1>4. call' \in [Calls -> [at : {"idle", "cached", "decoded", "accepted"}, token : Tokens \union {None},
                          revoked : BOOLEAN, began : Nat, blind : BOOLEAN]]
    BY <1>2 DEF VerifyInv, TokenInv
<1>5. TokenInv'
    BY <1>4 DEF VerifyInv, TokenInv, Good
<1>6. ASSUME NEW d \in Calls PROVE CallInv(d)'
    <2>1. CASE d = c
        BY <1>1, <1>3, <2>1 DEF VerifyInv, CallInv, Good
    <2>2. CASE d # c
        BY <1>3, <2>2 DEF VerifyInv, CallInv, Good
    <2> QED
        BY <2>1, <2>2
<1> QED
    BY <1>5, <1>6 DEF VerifyInv

\* Every step keeps VerifyInv.
LEMMA StepVerify == VerifyInv /\ [Next]_vars => VerifyInv'
<1> SUFFICES ASSUME VerifyInv, [Next]_vars PROVE VerifyInv'
    OBVIOUS
<1>1. CASE UNCHANGED <<now, token, revoked, cache, call>>
    BY <1>1, ElsewhereVerify
<1>2. CASE Stop
    BY <1>2 DEF Stop, issued, VerifyInv, TokenInv, CallInv, Good, Idle
<1>3. CASE Tick
    BY <1>3 DEF Tick, VerifyInv, TokenInv, CallInv, Good
<1>4. ASSUME NEW t \in Tokens, Revoke(t) PROVE VerifyInv'
    BY <1>4, ElsewhereVerify DEF Revoke
<1>5. ASSUME NEW c \in Calls, VerifyCached(c) PROVE VerifyInv'
    <2>1. \A t \in cache : Good(t)
        BY DEF VerifyInv, TokenInv
    <2> QED
        BY <1>5, <2>1, AnswerVerify, IdleVerify DEF VerifyCached, Passes, issued
<1>6. ASSUME NEW c \in Calls, VerifyDecoded(c) PROVE VerifyInv'
    <2>1. \A t \in cache \union {call[c].token} : Good(t)
        BY <1>6 DEF VerifyDecoded, VerifyInv, TokenInv, CallInv
    <2> QED
        BY <1>6, <2>1, AnswerVerify, IdleVerify DEF VerifyDecoded, Passes, issued
<1> QED
    BY <1>1, <1>2, <1>3, <1>4, <1>5, <1>6, MintVerify, BeginVerify
    DEF Next, vars, issued, RotateSelect, RotateCommit, RotateFails, Initialize, LoadFetch, LoadStore,
        RefreshFetch, RefreshStore, ListenerLost

\* verify accepts only tokens that were good when the call began, and none that was revoked
\* by then unless the deny-list could not be read: for any number of tokens, calls,
\* rotations and restarts, and whether or not the cache was asked (verify, _maybe_evict,
\* is_revoked).
THEOREM AcceptsOnlyGood == Spec => []AcceptedWasGood
<1>1. VerifyInv => AcceptedWasGood
    BY DEF VerifyInv, CallInv, Good, AcceptedWasGood
<1> QED
    BY <1>1, InitVerify, StepVerify, PTL DEF Spec
=============================================================================
