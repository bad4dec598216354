----------------------------- MODULE AlertProofs -----------------------------
(* Theorems about what is done with an alert's JSON and asked about it:       *)
(* BurstEnrichment, for any alerts, numbers of bursts, faults and ticks, and  *)
(* AlertNormalizer, for any payloads and depth of unwrapping.                 *)
EXTENDS BurstEnrichment, AlertNormalizer, FiniteSetTheorems, WellFoundedInduction, TLAPS

----------------------------------------------------------------------------
(* Lists. The library's induction theorems are about operators; these are    *)
(* about sets, and derive what the folds compute from the least element of   *)
(* a set of numbers.                                                         *)

\* Induction over the natural numbers, for a set.
LEMMA SetInduction ==
    ASSUME NEW S, 0 \in S, \A n \in Nat : n \in S => n + 1 \in S
    PROVE  \A n \in Nat : n \in S
<1> SUFFICES ASSUME NEW n \in Nat, n \notin S PROVE FALSE
    OBVIOUS
<1> DEFINE R == OpToRel(<, Nat)
           T == Nat \ S
<1>1. \A x, y \in Nat : x < y => <<x, y>> \in R
    BY DEF OpToRel
<1>2. IsWellFoundedOn(R, Nat)
    BY NatLessThanWellFounded
<1> HIDE DEF R
<1>3. PICK x \in T : \A y \in T : <<y, x>> \notin R
    <2>1. T \subseteq Nat /\ T # {}
        OBVIOUS
    <2> QED
        BY <1>2, <2>1, WFMin
<1>4. x \in Nat /\ x # 0
    BY <1>3
<1>5. x - 1 \in Nat /\ x - 1 < x
    BY <1>4
<1>6. x - 1 \in S
    BY <1>1, <1>3, <1>4, <1>5
<1> QED
    BY <1>3, <1>5, <1>6

\* The last of the first n + 1 numbers.
LEMMA MaxIsLast ==
    ASSUME NEW n \in Nat, NEW S \in SUBSET (1..n + 1), n + 1 \in S
    PROVE  Max(S) = n + 1
<1>1. \A y \in S : n + 1 >= y
    OBVIOUS
<1>2. \A x \in S : (\A y \in S : x >= y) => x = n + 1
    <2> SUFFICES ASSUME NEW x \in S, \A y \in S : x >= y PROVE x = n + 1
        OBVIOUS
    <2>1. x >= n + 1 /\ n + 1 >= x /\ x \in Int
        BY <1>1
    <2> QED
        BY <2>1
<1> QED
    BY <1>1, <1>2 DEF Max

\* g folds AddNew over every subset of the first n places of s.
Iter(g, s, n) == g = [t \in SUBSET (1..n) |->
                         IF t = {} THEN <<>> ELSE AddNew(g[t \ {Max(t)}], s[Max(t)])]

\* There is such an iteration, by induction on n.
LEMMA IterExists ==
    ASSUME NEW s
    PROVE  \A n \in Nat : \E g : Iter(g, s, n)
<1> DEFINE S == {n \in Nat : \E g : Iter(g, s, n)}
<1>1. 0 \in S
    <2> DEFINE g == [t \in SUBSET (1..0) |-> <<>>]
    <2>1. SUBSET (1..0) = {{}}
        OBVIOUS
    <2>2. Iter(g, s, 0)
        BY <2>1 DEF Iter
    <2> QED
        BY <2>2
<1>2. ASSUME NEW n \in Nat, n \in S PROVE n + 1 \in S
    <2>1. PICK g : Iter(g, s, n)
        BY <1>2
    <2> DEFINE h == [t \in SUBSET (1..n + 1) |->
                        IF n + 1 \in t THEN AddNew(g[t \ {n + 1}], s[n + 1]) ELSE g[t]]
    <2>2. ASSUME NEW t \in SUBSET (1..n + 1)
          PROVE  h[t] = IF t = {} THEN <<>> ELSE AddNew(h[t \ {Max(t)}], s[Max(t)])
        <3>1. CASE n + 1 \in t
            <4>1. Max(t) = n + 1 /\ t # {}
                BY <3>1, MaxIsLast
            <4>2. t \ {n + 1} \in SUBSET (1..n + 1) /\ n + 1 \notin t \ {n + 1}
                OBVIOUS
            <4>3. h[t \ {n + 1}] = g[t \ {n + 1}]
                BY <4>2
            <4> QED
                BY <3>1, <4>1, <4>3
        <3>2. CASE n + 1 \notin t
            <4>1. t \in SUBSET (1..n)
                BY <3>2
            <4>2. h[t] = g[t]
                BY <3>2
            <4>3. g[t] = IF t = {} THEN <<>> ELSE AddNew(g[t \ {Max(t)}], s[Max(t)])
                BY <2>1, <4>1 DEF Iter
            <4>4. t \ {Max(t)} \in SUBSET (1..n + 1) /\ n + 1 \notin t \ {Max(t)}
                BY <3>2
            <4>5. h[t \ {Max(t)}] = g[t \ {Max(t)}]
                BY <4>4
            <4> HIDE DEF h
            <4> QED
                BY <4>2, <4>3, <4>5
        <3> QED
            BY <3>1, <3>2
    <2>3. h = [t \in SUBSET (1..n + 1) |-> h[t]]
        OBVIOUS
    <2> HIDE DEF h
    <2>4. Iter(h, s, n + 1)
        BY <2>2, <2>3 DEF Iter
    <2> QED
        BY <2>4
<1> HIDE DEF S
<1>3. \A n \in Nat : n \in S
    BY <1>1, <1>2, SetInduction
<1> QED
    BY <1>3 DEF S
\* FoldLeft takes the elements of 1..n from the last to the first.
LEMMA DistinctIter ==
    ASSUME NEW s, NEW n \in Nat, DOMAIN s = 1..n
    PROVE \E g : Iter(g, s, n) /\ Distinct(s) = g[1..n]
<1> DEFINE g == CHOOSE g : Iter(g, s, n)
<1>1. Iter(g, s, n)
    BY IterExists
<1>2. Distinct(s) = g[1..n]
    BY DEF Distinct, FoldLeft, MapThenFoldSet, Iter
<1> QED
    BY <1>1, <1>2

\* Induction up to n.
LEMMA UpTo ==
    ASSUME NEW n \in Nat, NEW S, 0 \in S, \A k \in 1..n : k - 1 \in S => k \in S
    PROVE  \A k \in 0..n : k \in S
<1> DEFINE T == {k \in Nat : k <= n => k \in S}
<1>1. 0 \in T
    OBVIOUS
<1>2. ASSUME NEW k \in Nat, k \in T PROVE k + 1 \in T
    <2> SUFFICES ASSUME k + 1 <= n PROVE k + 1 \in S
        OBVIOUS
    <2>1. k \in S /\ k + 1 \in 1..n /\ (k + 1) - 1 = k
        BY <1>2
    <2> QED
        BY <2>1
<1> HIDE DEF T
<1>3. \A k \in Nat : k \in T
    BY <1>1, <1>2, SetInduction
<1> QED
    BY <1>3 DEF T

\* Distinct is a loop over its list.
LEMMA DistinctSteps ==
    ASSUME NEW s, NEW n \in Nat, DOMAIN s = 1..n
    PROVE  \E acc : /\ acc[0] = <<>> /\ acc[n] = Distinct(s)
                    /\ \A k \in 1..n : acc[k] = AddNew(acc[k - 1], s[k])
<1>1. PICK g : Iter(g, s, n) /\ Distinct(s) = g[1..n]
    BY DistinctIter
<1> DEFINE acc == [k \in 0..n |-> g[1..k]]
<1>2. acc[0] = <<>>
    <2>1. 1..0 = {}
        OBVIOUS
    <2>2. g[{}] = <<>>
        BY <1>1 DEF Iter
    <2> QED
        BY <2>1, <2>2
<1>3. ASSUME NEW k \in 1..n PROVE acc[k] = AddNew(acc[k - 1], s[k])
    <2>1. k \in Nat /\ k - 1 \in Nat /\ k - 1 \in 0..n /\ k \in 0..n
        OBVIOUS
    <2>2. 1..k \in SUBSET (1..n) /\ k \in 1..k
        OBVIOUS
    <2>3. Max(1..k) = k
        BY <2>1, <2>2, MaxIsLast, (k - 1) + 1 = k
    <2>4. (1..k) \ {k} = 1..k - 1
        OBVIOUS
    <2>5. g[1..k] = AddNew(g[1..k - 1], s[k])
        BY <1>1, <2>2, <2>3, <2>4 DEF Iter
    <2> QED
        BY <2>1, <2>5
<1>4. acc[n] = Distinct(s)
    BY <1>1
<1> HIDE DEF acc
<1> QED
    BY <1>2, <1>3, <1>4

\* e is d with more at its end, and has x besides what d has.
Extends(e, d) == Len(d) <= Len(e) /\ \A i \in 1..Len(d) : e[i] = d[i]
Adds(e, d, x) == Range(e) = Range(d) \union {x}

\* What one more element makes of a list without repetitions.
LEMMA AddNewProperties ==
    ASSUME NEW S, NEW d \in Seq(S), IsInjective(d), NEW x \in S
    PROVE  /\ AddNew(d, x) \in Seq(S) /\ IsInjective(AddNew(d, x))
           /\ Adds(AddNew(d, x), d, x)
           /\ Extends(AddNew(d, x), d)
<1> USE DEF Extends, Adds
<1>1. CASE x \in Range(d)
    BY <1>1 DEF AddNew
<1>2. CASE x \notin Range(d)
    <2>1. AddNew(d, x) = Append(d, x)
        BY <1>2 DEF AddNew
    <2>2. /\ Append(d, x) \in Seq(S) /\ Len(Append(d, x)) = Len(d) + 1
          /\ \A i \in 1..Len(d) : Append(d, x)[i] = d[i]
          /\ Append(d, x)[Len(d) + 1] = x /\ Len(d) \in Nat
          /\ DOMAIN d = 1..Len(d) /\ DOMAIN Append(d, x) = 1..Len(d) + 1
        OBVIOUS
    <2>3. \A i \in 1..Len(d) : d[i] # x
        BY <1>2, <2>2 DEF Range
    <2>4. IsInjective(Append(d, x))
        BY <2>2, <2>3 DEF IsInjective
    <2>5. Range(Append(d, x)) = Range(d) \union {x}
        BY <2>2 DEF Range
    <2> QED
        BY <2>1, <2>2, <2>4, <2>5
<1> QED
    BY <1>1, <1>2

\* Distinct(s) has what s has, once, and what comes first in s comes first.
LEMMA DistinctProperties ==
    ASSUME NEW S, NEW s \in Seq(S), NEW m \in 0..Len(s)
    PROVE  /\ Distinct(s) \in Seq(S) /\ IsInjective(Distinct(s))
           /\ Range(Distinct(s)) = Range(s)
           /\ \E d \in Seq(S) : /\ IsInjective(d) /\ Range(d) = {s[i] : i \in 1..m}
                                /\ Extends(Distinct(s), d)
<1> DEFINE n == Len(s)
<1>1. n \in Nat /\ DOMAIN s = 1..n /\ m \in 0..n /\ \A i \in 1..n : s[i] \in S
    OBVIOUS
<1> HIDE DEF n
<1>2. PICK acc : /\ acc[0] = <<>> /\ acc[n] = Distinct(s)
                 /\ \A k \in 1..n : acc[k] = AddNew(acc[k - 1], s[k])
    BY <1>1, DistinctSteps
<1> DEFINE Good(k) == /\ acc[k] \in Seq(S) /\ IsInjective(acc[k])
                      /\ Range(acc[k]) = {s[i] : i \in 1..k}
           G == {k \in 0..n : Good(k)}
           E == {k \in 0..n : k >= m => Extends(acc[k], acc[m])}
<1>3. \A k \in 0..n : k \in G
    <2>1. 0 \in G
        <3>1. acc[0] \in Seq(S) /\ IsInjective(acc[0]) /\ Range(acc[0]) = {} /\ 1..0 = {}
            BY <1>2 DEF IsInjective, Range
        <3>2. {s[i] : i \in 1..0} = {}
            BY <3>1
        <3> QED
            BY <1>1, <3>1, <3>2
    <2>2. ASSUME NEW k \in 1..n, k - 1 \in G PROVE k \in G
        <3> DEFINE d == acc[k - 1]
        <3>0. d \in Seq(S) /\ IsInjective(d)
            BY <2>2
        <3>1. Range(d) = {s[i] : i \in 1..k - 1}
            BY <2>2
        <3>a. s[k] \in S /\ acc[k] = AddNew(d, s[k])
            BY <1>1, <1>2
        <3> HIDE DEF G, E, d
        <3>b. acc[k] \in Seq(S)
            BY <3>0, <3>a, AddNewProperties
        <3>c. IsInjective(acc[k])
            BY <3>0, <3>a, AddNewProperties
        <3>2. Adds(acc[k], d, s[k])
            BY <3>0, <3>a, AddNewProperties
        <3>3. {s[i] : i \in 1..k} = {s[i] : i \in 1..k - 1} \union {s[k]}
            <4>1. 1..k = (1..k - 1) \union {k}
                BY <1>1
            <4> QED
                BY <4>1
        <3> QED
            BY <1>1, <3>1, <3>b, <3>c, <3>2, <3>3 DEF G, Adds
    <2> HIDE DEF G
    <2> QED
        BY <1>1, <2>1, <2>2, UpTo
<1>4. \A k \in 0..n : k \in E
    <2>1. 0 \in E
        BY <1>1, <1>3 DEF Extends
    <2>2. ASSUME NEW k \in 1..n, k - 1 \in E PROVE k \in E
        <3>1. CASE k < m
            BY <1>1, <3>1
        <3>2. CASE k = m
            BY <1>1, <1>3, <3>2 DEF Extends
        <3>3. CASE k > m
            <4> DEFINE d == acc[k - 1]
            <4>1. Extends(d, acc[m]) /\ k - 1 \in 0..n
                BY <1>1, <2>2, <3>3
            <4>2. d \in Seq(S) /\ IsInjective(d) /\ acc[m] \in Seq(S) /\ acc[k] \in Seq(S)
                BY <1>1, <1>3, <4>1
            <4>3. s[k] \in S /\ acc[k] = AddNew(d, s[k])
                BY <1>1, <1>2
            <4> HIDE DEF G, E, d
            <4>4. Extends(acc[k], d)
                BY <4>2, <4>3, AddNewProperties
            <4>5. Extends(acc[k], acc[m])
                BY <4>1, <4>2, <4>4 DEF Extends
            <4> QED
                BY <1>1, <4>5 DEF E
        <3> QED
            BY <1>1, <3>1, <3>2, <3>3
    <2> HIDE DEF E
    <2> QED
        BY <1>1, <2>1, <2>2, UpTo
<1>5. Good(n) /\ Good(m) /\ Extends(acc[n], acc[m])
    <2>1. n \in 0..n /\ m \in 0..n /\ n >= m
        BY <1>1
    <2>2. n \in G /\ m \in G /\ n \in E
        BY <1>3, <1>4, <2>1
    <2> HIDE DEF Good
    <2> QED
        BY <2>1, <2>2
<1>6. {s[i] : i \in 1..n} = Range(s)
    BY <1>1 DEF Range
<1> QED
    BY <1>2, <1>5, <1>6

\* g flattens every beginning of seqs, to the n-th list.
FlatIter(g, seqs, n) ==
    g = [i \in 1..n |-> IF i = 1 THEN seqs[i] ELSE g[i - 1] \o seqs[i]]

\* There is such a function, by induction on n.
LEMMA FlatIterExists ==
    ASSUME NEW seqs
    PROVE  \A n \in Nat : \E g : FlatIter(g, seqs, n)
<1> DEFINE S == {n \in Nat : \E g : FlatIter(g, seqs, n)}
<1>1. 0 \in S
    <2>1. FlatIter([i \in 1..0 |-> <<>>], seqs, 0)
        BY DEF FlatIter
    <2> QED
        BY <2>1
<1>2. ASSUME NEW n \in Nat, n \in S PROVE n + 1 \in S
    <2>1. PICK g : FlatIter(g, seqs, n)
        BY <1>2
    <2> DEFINE h == [i \in 1..n + 1 |->
                        IF i = n + 1 THEN IF i = 1 THEN seqs[i] ELSE g[n] \o seqs[i] ELSE g[i]]
    <2>2. ASSUME NEW i \in 1..n + 1
          PROVE  h[i] = IF i = 1 THEN seqs[i] ELSE h[i - 1] \o seqs[i]
        <3>1. CASE i = n + 1
            <4>1. i # 1 => h[n] = g[n] /\ i - 1 = n
                BY <3>1
            <4>2. h[i] = IF i = 1 THEN seqs[i] ELSE g[n] \o seqs[i]
                BY <3>1
            <4> HIDE DEF h
            <4> QED
                BY <4>1, <4>2
        <3>2. CASE i \in 1..n
            <4>1. g[i] = IF i = 1 THEN seqs[i] ELSE g[i - 1] \o seqs[i]
                BY <2>1, <3>2 DEF FlatIter
            <4>2. h[i] = g[i] /\ (i # 1 => h[i - 1] = g[i - 1])
                BY <3>2
            <4> HIDE DEF h
            <4> QED
                BY <4>1, <4>2
        <3> QED
            BY <3>1, <3>2
    <2>3. h = [i \in 1..n + 1 |-> h[i]]
        OBVIOUS
    <2> HIDE DEF h
    <2>4. FlatIter(h, seqs, n + 1)
        BY <2>2, <2>3 DEF FlatIter
    <2> QED
        BY <2>4
<1> HIDE DEF S
<1>3. \A n \in Nat : n \in S
    BY <1>1, <1>2, SetInduction
<1> QED
    BY <1>3 DEF S

\* FlattenSeq is a loop over its list.
LEMMA FlattenSteps ==
    ASSUME NEW S, NEW seqs \in Seq(Seq(S))
    PROVE  \E acc : /\ acc[0] = <<>> /\ acc[Len(seqs)] = FlattenSeq(seqs)
                    /\ \A k \in 1..Len(seqs) : acc[k] = acc[k - 1] \o seqs[k]
<1> DEFINE n == Len(seqs)
<1>1. n \in Nat /\ \A i \in 1..n : seqs[i] \in Seq(S)
    OBVIOUS
<1>2. CASE n = 0
    <2> DEFINE acc == [k \in {0} |-> <<>>]
    <2>1. acc[0] = <<>> /\ acc[n] = FlattenSeq(seqs) /\ 1..n = {}
        BY <1>2 DEF FlattenSeq
    <2> QED
        BY <2>1
<1>3. CASE n # 0
    <2> DEFINE g == CHOOSE g : FlatIter(g, seqs, n)
               acc == [k \in 0..n |-> IF k = 0 THEN <<>> ELSE g[k]]
    <2>1. FlatIter(g, seqs, n)
        BY <1>1, FlatIterExists
    <2>2. FlattenSeq(seqs) = g[n]
        BY <1>3 DEF FlattenSeq, FlatIter
    <2> HIDE DEF g, n
    <2>3. acc[0] = <<>> /\ acc[n] = FlattenSeq(seqs)
        BY <1>1, <1>3, <2>2
    <2>4. ASSUME NEW k \in 1..n PROVE acc[k] = acc[k - 1] \o seqs[k]
        <3>1. g[k] = IF k = 1 THEN seqs[k] ELSE g[k - 1] \o seqs[k]
            BY <2>1 DEF FlatIter
        <3>2. acc[k] = g[k] /\ (k # 1 => acc[k - 1] = g[k - 1]) /\ (k = 1 => acc[k - 1] = <<>>)
            BY <1>1
        <3>3. <<>> \o seqs[k] = seqs[k]
            BY <1>1
        <3> HIDE DEF acc
        <3> QED
            BY <3>1, <3>2, <3>3
    <2> HIDE DEF acc
    <2> QED
        BY <2>3, <2>4 DEF n
<1> QED
    BY <1>2, <1>3

\* What a concatenation has.
LEMMA ConcatRange ==
    ASSUME NEW S, NEW d \in Seq(S), NEW e \in Seq(S)
    PROVE  d \o e \in Seq(S) /\ Range(d \o e) = Range(d) \union Range(e)
<1>1. /\ d \o e \in Seq(S) /\ Len(d) \in Nat /\ Len(e) \in Nat
      /\ DOMAIN d = 1..Len(d) /\ DOMAIN e = 1..Len(e) /\ DOMAIN (d \o e) = 1..Len(d) + Len(e)
      /\ \A i \in 1..Len(d) + Len(e) : (d \o e)[i] = IF i <= Len(d) THEN d[i] ELSE e[i - Len(d)]
    OBVIOUS
<1>2. ASSUME NEW i \in DOMAIN (d \o e) PROVE (d \o e)[i] \in Range(d) \union Range(e)
    <2>1. CASE i <= Len(d)
        BY <1>1, <2>1 DEF Range
    <2>2. CASE i > Len(d)
        <3>1. i - Len(d) \in DOMAIN e /\ (d \o e)[i] = e[i - Len(d)]
            BY <1>1, <2>2
        <3> QED
            BY <3>1 DEF Range
    <2> QED
        BY <1>1, <2>1, <2>2
<1>3. ASSUME NEW i \in DOMAIN d PROVE d[i] \in Range(d \o e)
    <2>1. i \in DOMAIN (d \o e) /\ (d \o e)[i] = d[i]
        BY <1>1
    <2> QED
        BY <2>1 DEF Range
<1>4. ASSUME NEW i \in DOMAIN e PROVE e[i] \in Range(d \o e)
    <2>1. i + Len(d) \in DOMAIN (d \o e) /\ (d \o e)[i + Len(d)] = e[i]
        BY <1>1
    <2> QED
        BY <2>1 DEF Range
<1> QED
    BY <1>1, <1>2, <1>3, <1>4 DEF Range

\* A flattened list has what its lists have.
LEMMA FlattenRange ==
    ASSUME NEW S, NEW seqs \in Seq(Seq(S))
    PROVE  /\ FlattenSeq(seqs) \in Seq(S)
           /\ Range(FlattenSeq(seqs)) = UNION {Range(seqs[i]) : i \in 1..Len(seqs)}
<1> DEFINE n == Len(seqs)
           Upto(k) == UNION {Range(seqs[i]) : i \in 1..k}
<1>1. n \in Nat /\ \A i \in 1..n : seqs[i] \in Seq(S)
    OBVIOUS
<1>2. PICK acc : /\ acc[0] = <<>> /\ acc[n] = FlattenSeq(seqs)
                 /\ \A k \in 1..n : acc[k] = acc[k - 1] \o seqs[k]
    BY FlattenSteps
<1> HIDE DEF n
<1> DEFINE G == {k \in 0..n : acc[k] \in Seq(S) /\ Range(acc[k]) = Upto(k)}
<1>3. 0 \in G
    <2>1. acc[0] \in Seq(S) /\ Range(acc[0]) = {} /\ 1..0 = {}
        BY <1>2 DEF Range
    <2> QED
        BY <1>1, <2>1
<1>4. ASSUME NEW k \in 1..n, k - 1 \in G PROVE k \in G
    <2> DEFINE d == acc[k - 1]
               e == seqs[k]
    <2>1. d \in Seq(S) /\ Range(d) = Upto(k - 1) /\ e \in Seq(S) /\ acc[k] = d \o e
        BY <1>1, <1>2, <1>4
    <2>2. Upto(k) = Upto(k - 1) \union Range(e)
        <3>1. 1..k = (1..k - 1) \union {k}
            BY <1>1
        <3> QED
            BY <3>1
    <2> HIDE DEF d, e, Upto, G
    <2>3. d \o e \in Seq(S) /\ Range(d \o e) = Range(d) \union Range(e)
        BY <2>1, ConcatRange
    <2>4. acc[k] \in Seq(S) /\ Range(acc[k]) = Upto(k)
        BY <2>1, <2>2, <2>3, Zenon
    <2>5. k \in 0..n
        BY <1>1
    <2> QED
        BY <2>4, <2>5 DEF G
<1> HIDE DEF G
<1>5. n \in Nat
    BY <1>1
<1>6. \A k \in 0..n : k \in G
    BY <1>3, <1>4, <1>5, UpTo
<1>7. FlattenSeq(seqs) \in Seq(S) /\ Range(FlattenSeq(seqs)) = Upto(n)
    <2>1. n \in G
        BY <1>5, <1>6
    <2> QED
        BY <1>2, <2>1 DEF G
<1> QED
    BY <1>7 DEF n

\* Only(s, T) has what s has of T, and repeats nothing that s does not.
LEMMA OnlyProperties ==
    ASSUME NEW S, NEW s \in Seq(S), NEW T
    PROVE  /\ Only(s, T) \in Seq(S) /\ Range(Only(s, T)) = Range(s) \intersect T
           /\ IsInjective(s) => IsInjective(Only(s, T))
<1> DEFINE seqs == [i \in DOMAIN s |-> IF s[i] \in T THEN <<s[i]>> ELSE <<>>]
           n == Len(s)
<1>1. n \in Nat /\ DOMAIN s = 1..n /\ \A i \in 1..n : s[i] \in S
    OBVIOUS
<1>2. /\ seqs \in Seq(Seq(S)) /\ Len(seqs) = n /\ Only(s, T) = FlattenSeq(seqs)
    <2>1. \A i \in 1..n : seqs[i] \in Seq(S)
        BY <1>1
    <2>2. seqs \in [1..n -> Seq(S)]
        BY <1>1, <2>1
    <2> HIDE DEF n
    <2> QED
        BY <1>1, <2>2 DEF Only
<1>3. \A i \in 1..n : Range(seqs[i]) = {s[i]} \intersect T
    <2> SUFFICES ASSUME NEW i \in 1..n PROVE Range(seqs[i]) = {s[i]} \intersect T
        OBVIOUS
    <2>1. CASE s[i] \in T
        <3>1. seqs[i] = <<s[i]>> /\ DOMAIN <<s[i]>> = {1} /\ <<s[i]>>[1] = s[i]
            BY <1>1, <2>1
        <3> QED
            BY <2>1, <3>1 DEF Range
    <2>2. CASE s[i] \notin T
        BY <1>1, <2>2 DEF Range
    <2> QED
        BY <2>1, <2>2
<1> HIDE DEF seqs, n
<1>4. Only(s, T) \in Seq(S) /\ Range(Only(s, T)) = UNION {Range(seqs[i]) : i \in 1..n}
    BY <1>2, FlattenRange
<1>5. UNION {Range(seqs[i]) : i \in 1..n} = Range(s) \intersect T
    BY <1>1, <1>3 DEF Range
<1>6. ASSUME IsInjective(s) PROVE IsInjective(Only(s, T))
    <2>1. PICK acc : /\ acc[0] = <<>> /\ acc[n] = FlattenSeq(seqs)
                     /\ \A k \in 1..n : acc[k] = acc[k - 1] \o seqs[k]
        BY <1>2, FlattenSteps
    <2> DEFINE G == {k \in 0..n : /\ acc[k] \in Seq(S) /\ IsInjective(acc[k])
                                  /\ Range(acc[k]) \subseteq {s[i] : i \in 1..k}}
    <2>2. 0 \in G
        <3>1. /\ acc[0] \in Seq(S) /\ IsInjective(acc[0]) /\ Range(acc[0]) = {}
            BY <2>1 DEF IsInjective, Range
        <3> QED
            BY <1>1, <3>1
    <2>3. ASSUME NEW k \in 1..n, k - 1 \in G PROVE k \in G
        <3> DEFINE d == acc[k - 1]
        <3>1. /\ d \in Seq(S) /\ IsInjective(d) /\ s[k] \in S /\ acc[k] = d \o seqs[k]
            BY <1>1, <2>1, <2>3
        <3>2. Range(d) \subseteq {s[i] : i \in 1..k - 1}
            BY <2>3
        <3>3. s[k] \notin Range(d)
            <4>1. \A i \in 1..k - 1 : s[i] # s[k]
                BY <1>1, <1>6 DEF IsInjective
            <4> QED
                BY <3>2, <4>1
        <3>4. {s[i] : i \in 1..k - 1} \subseteq {s[i] : i \in 1..k} /\ s[k] \in {s[i] : i \in 1..k}
            BY <1>1
        <3> HIDE DEF d
        <3>5. CASE s[k] \in T
            <4>1. acc[k] = Append(d, s[k]) /\ acc[k] = AddNew(d, s[k])
                <5>1. seqs[k] = <<s[k]>>
                    BY <1>1, <3>5 DEF seqs
                <5>2. d \o <<s[k]>> = Append(d, s[k])
                    BY <3>1
                <5> QED
                    BY <3>1, <3>3, <5>1, <5>2 DEF AddNew
            <4>2. acc[k] \in Seq(S)
                BY <3>1, <4>1, AddNewProperties
            <4>3. IsInjective(acc[k])
                BY <3>1, <4>1, AddNewProperties
            <4>4. Adds(acc[k], d, s[k])
                BY <3>1, <4>1, AddNewProperties
            <4>5. Range(acc[k]) \subseteq {s[i] : i \in 1..k}
                BY <3>2, <3>4, <4>4 DEF Adds
            <4> QED
                BY <1>1, <4>2, <4>3, <4>5
        <3>6. CASE s[k] \notin T
            <4>1. acc[k] = d
                <5>1. seqs[k] = <<>>
                    BY <1>1, <3>6 DEF seqs
                <5> QED
                    BY <3>1, <5>1
            <4> QED
                BY <1>1, <3>1, <3>2, <3>4, <4>1
        <3> QED
            BY <3>5, <3>6
    <2> HIDE DEF G
    <2>a. n \in Nat
        BY <1>1
    <2>4. \A k \in 0..n : k \in G
        BY <2>2, <2>3, <2>a, UpTo
    <2>5. n \in G
        BY <2>a, <2>4
    <2> QED
        BY <1>2, <2>1, <2>5 DEF G
<1> QED
    BY <1>4, <1>5, <1>6

\* A list without repetitions is as long as what it has is many.
LEMMA InjectiveLen ==
    ASSUME NEW S, NEW d \in Seq(S), IsInjective(d)
    PROVE  IsFiniteSet(Range(d)) /\ Cardinality(Range(d)) = Len(d)
<1> DEFINE n == Len(d)
<1>1. n \in Nat /\ DOMAIN d = 1..n /\ d \in [1..n -> Range(d)]
    BY DEF Range
<1>2. d \in Bijection(1..n, Range(d))
    BY <1>1 DEF Bijection, Injection, Surjection, IsInjective, Range
<1>3. ExistsBijection(1..n, Range(d))
    BY <1>2 DEF ExistsBijection
<1> HIDE DEF n
<1>4. Cardinality(Range(d)) = n
    BY <1>1, <1>3, FS_CountingElements
<1>5. IsFiniteSet(Range(d))
    BY <1>1, <1>3, FS_NatBijection
<1> QED
    BY <1>4, <1>5 DEF n

----------------------------------------------------------------------------
(* Times.                                                                    *)

\* The times are natural numbers.
LEMMA Times == TTL \in Nat /\ Timeout \in Nat /\ MaxFaults \in Nat
BY BurstAssumption

----------------------------------------------------------------------------
(* Calls of tools.                                                           *)

Call == [at : {"start", "asking", "storing", "done"}, asked : Nat,
         outcome : {NoValue, "cached", "error", "fresh", "raised"}]

\* Every burst has a call for each of the tools it fires.
CallsOK ==
    /\ now \in Nat
    /\ DOMAIN call = Bursts
    /\ \A b \in Bursts : call[b] \in [Range(Fired(input[b])) -> Call]

\* A source is given up in time, and a result is stored before the next tick.
InTime ==
    \A b \in Bursts : \A tool \in DOMAIN call[b] :
        call[b][tool].at \in {"asking", "storing"} =>
            call[b][tool].asked <= now /\ now <= call[b][tool].asked + Timeout

\* The forms a step gives a call.
LEMMA CallForms ==
    ASSUME CallsOK, NEW b \in Bursts, NEW tool \in DOMAIN call[b]
    PROVE  /\ Asks(b, tool) => \E new \in Call : /\ call' = [call EXCEPT ![b][tool] = new]
                                                /\ new.at = "asking" /\ new.asked = now
           /\ Moves(b, tool, "storing") =>
                 \E new \in Call : /\ call' = [call EXCEPT ![b][tool] = new]
                                   /\ new.at = "storing" /\ new.asked = call[b][tool].asked
           /\ \A outcome \in {"cached", "error", "fresh", "raised"} : Ends(b, tool, outcome) =>
                 \E new \in Call : /\ call' = [call EXCEPT ![b][tool] = new]
                                   /\ new.at = "done" /\ new.outcome = outcome
<1>1. ASSUME Asks(b, tool)
      PROVE  \E new \in Call : /\ call' = [call EXCEPT ![b][tool] = new]
                               /\ new.at = "asking" /\ new.asked = now
    <2>1. [at |-> "asking", asked |-> now, outcome |-> NoValue] \in Call
        BY DEF Call, CallsOK
    <2> QED
        BY <1>1, <2>1 DEF Asks
<1>2. ASSUME Moves(b, tool, "storing")
      PROVE  \E new \in Call : /\ call' = [call EXCEPT ![b][tool] = new]
                               /\ new.at = "storing" /\ new.asked = call[b][tool].asked
    <2>1. call[b][tool] \in Call
        BY DEF CallsOK
    <2>2. [call[b][tool] EXCEPT !.at = "storing"] \in Call
        BY <2>1 DEF Call
    <2>3. [call[b][tool] EXCEPT !.at = "storing"].at = "storing"
          /\ [call[b][tool] EXCEPT !.at = "storing"].asked = call[b][tool].asked
        BY <2>1 DEF Call
    <2> QED
        BY <1>2, <2>2, <2>3 DEF Moves
<1>3. ASSUME NEW outcome \in {"cached", "error", "fresh", "raised"}, Ends(b, tool, outcome)
      PROVE  \E new \in Call : /\ call' = [call EXCEPT ![b][tool] = new]
                               /\ new.at = "done" /\ new.outcome = outcome
    <2>1. [at |-> "done", asked |-> 0, outcome |-> outcome] \in Call
        BY DEF Call
    <2> QED
        BY <1>3, <2>1 DEF Ends
<1> QED
    BY <1>1, <1>2, <1>3

\* A call that is not waiting for its source or its store is in time.
LEMMA InTimeKept ==
    ASSUME CallsOK, InTime, NEW b \in Bursts, NEW tool \in DOMAIN call[b], NEW new \in Call,
           call' = [call EXCEPT ![b][tool] = new], UNCHANGED <<input, now>>,
           new.at \in {"asking", "storing"} => new.asked <= now /\ now <= new.asked + Timeout
    PROVE  CallsOK' /\ InTime'
<1>1. CallsOK'
    BY DEF CallsOK
<1>2. call'[b][tool] = new
    BY DEF CallsOK
<1>3. \A c \in Bursts : \A u \in DOMAIN call'[c] :
          u \in DOMAIN call[c] /\ (c # b \/ u # tool => call'[c][u] = call[c][u])
    BY DEF CallsOK
<1> QED
    BY <1>1, <1>2, <1>3 DEF InTime

----------------------------------------------------------------------------
(* The cache.                                                                *)

\* An entry expires TTL after it was stored, and was stored at most Timeout after its
\* source was asked.
CacheInv ==
    \A key \in DOMAIN cache :
        /\ cache[key].asked \in Nat /\ cache[key].expires \in Nat
        /\ cache[key].expires <= cache[key].asked + Timeout + TTL

StaleInv == CallsOK /\ InTime /\ CacheInv

\* At first nothing is cached and nothing asked.
LEMMA InitStale == Init => StaleInv
<1> SUFFICES ASSUME Init PROVE StaleInv
    OBVIOUS
<1>1. Waiting \in Call /\ Waiting.at = "start"
    BY DEF Waiting, Call
<1>2. /\ DOMAIN call = Bursts /\ now = 0
      /\ \A b \in Bursts : call[b] = [tool \in Range(Fired(input[b])) |-> Waiting]
    BY DEF Init
<1>3. DOMAIN cache = {}
    BY DEF Init
<1>4. CallsOK
    BY <1>1, <1>2 DEF CallsOK
<1>5. InTime
    BY <1>1, <1>2 DEF InTime
<1> QED
    BY <1>3, <1>4, <1>5 DEF StaleInv, CacheInv

\* What is stored is as old as the call that stores it.
LEMMA StoreStale ==
    ASSUME StaleInv, NEW b \in Bursts, NEW tool \in DOMAIN call[b], StoreResult(b, tool)
    PROVE  CacheInv'
<1> DEFINE new == [asked |-> call[b][tool].asked, expires |-> now + TTL]
<1>1. /\ new.asked \in Nat /\ new.expires \in Nat
      /\ new.expires <= new.asked + Timeout + TTL
    <2>1. call[b][tool] \in Call /\ now \in Nat
        BY DEF StaleInv, CallsOK
    <2>2. call[b][tool].asked \in Nat
        BY <2>1 DEF Call
    <2>3. now <= call[b][tool].asked + Timeout
        BY DEF StaleInv, InTime, StoreResult
    <2> QED
        BY <2>1, <2>2, <2>3, Times
<1>2. CASE cache' = [key \in DOMAIN cache \union {Key(b, tool)} |->
                       IF key = Key(b, tool) THEN new ELSE cache[key]]
    <2> HIDE DEF new
    <2>1. \A key \in DOMAIN cache' :
              cache'[key] = new \/ (key \in DOMAIN cache /\ cache'[key] = cache[key])
        BY <1>2
    <2> QED
        BY <1>1, <2>1 DEF StaleInv, CacheInv
<1>3. CASE UNCHANGED cache
    BY <1>3 DEF StaleInv, CacheInv
<1> QED
    BY <1>2, <1>3 DEF StoreResult

\* Every step keeps StaleInv.
LEMMA StepStale == StaleInv /\ [Next]_vars => StaleInv'
<1> SUFFICES ASSUME StaleInv, [Next]_vars PROVE StaleInv'
    OBVIOUS
<1>a. CallsOK /\ InTime /\ CacheInv /\ now \in Nat
    BY DEF StaleInv, CallsOK
<1>b. UNCHANGED cache => CacheInv'
    BY <1>a DEF CacheInv
<1>1. ASSUME NEW b \in Bursts, NEW tool \in DOMAIN call[b],
             \/ CheckCache(b, tool) \/ SourceAnswers(b, tool)
             \/ TimesOut(b, tool) \/ StoreResult(b, tool)
      PROVE  StaleInv'
    <2>1. UNCHANGED <<input, now>>
        BY <1>1 DEF CheckCache, SourceAnswers, TimesOut, StoreResult
    <2>2. CacheInv'
        BY <1>1, <1>b, StoreStale DEF CheckCache, SourceAnswers, TimesOut
    <2>3. CASE Asks(b, tool)
        <3>1. PICK new \in Call : /\ call' = [call EXCEPT ![b][tool] = new]
                                  /\ new.at = "asking" /\ new.asked = now
            BY <1>a, <2>3, CallForms
        <3>2. new.asked <= now /\ now <= new.asked + Timeout
            BY <1>a, <3>1, Times
        <3> QED
            BY <1>a, <2>1, <2>2, <3>1, <3>2, InTimeKept DEF StaleInv
    <2>4. CASE call[b][tool].at = "asking" /\ Moves(b, tool, "storing")
        <3>1. PICK new \in Call : /\ call' = [call EXCEPT ![b][tool] = new]
                                  /\ new.at = "storing" /\ new.asked = call[b][tool].asked
            BY <1>a, <2>4, CallForms
        <3>2. new.asked <= now /\ now <= new.asked + Timeout
            BY <1>a, <2>4, <3>1 DEF InTime
        <3> QED
            BY <1>a, <2>1, <2>2, <3>1, <3>2, InTimeKept DEF StaleInv
    <2>5. ASSUME NEW outcome \in {"cached", "error", "fresh", "raised"}, Ends(b, tool, outcome)
          PROVE  StaleInv'
        <3>1. PICK new \in Call : call' = [call EXCEPT ![b][tool] = new] /\ new.at = "done"
            BY <1>a, <2>5, CallForms
        <3> QED
            BY <1>a, <2>1, <2>2, <3>1, InTimeKept DEF StaleInv
    <2> QED
        BY <1>1, <2>3, <2>4, <2>5 DEF CheckCache, SourceAnswers, TimesOut, StoreResult
<1>2. CASE Tick
    <2>1. now' = now + 1 /\ UNCHANGED <<input, call, cache>>
        BY <1>2 DEF Tick
    <2>2. \A b \in Bursts : \A tool \in DOMAIN call[b] : call[b][tool].asked \in Nat
        BY <1>a DEF CallsOK, Call
    <2>3. InTime'
        BY <1>2, <1>a, <2>1, <2>2, Times DEF Tick, InTime
    <2>4. CallsOK'
        BY <1>a, <2>1 DEF CallsOK
    <2> QED
        BY <1>b, <2>1, <2>3, <2>4 DEF StaleInv
<1>3. CASE UNCHANGED <<input, call, cache, now>>
    BY <1>a, <1>b, <1>3 DEF StaleInv, CallsOK, InTime
<1> QED
    BY <1>1, <1>2, <1>3 DEF Next, Gather, vars

\* However many bursts share the cache and however often an entry is asked for, what it
\* serves was asked of its source less than TTL and the timeout ago (ContextCache.get and
\* set, _execute_single_tool).
THEOREM CacheIsFresh == Spec => []BoundedStaleness
<1>1. StaleInv => BoundedStaleness
    <2> SUFFICES ASSUME StaleInv, NEW key \in DOMAIN cache, Hit(key)
                 PROVE  now < cache[key].asked + TTL + Timeout
        BY DEF BoundedStaleness
    <2>1. /\ cache[key].asked \in Nat /\ cache[key].expires \in Nat /\ now \in Nat
          /\ cache[key].expires <= cache[key].asked + Timeout + TTL /\ cache[key].expires > now
        BY DEF StaleInv, CacheInv, CallsOK, Hit
    <2> QED
        BY <2>1, Times
<1> QED
    BY <1>1, InitStale, StepStale, PTL DEF Spec

----------------------------------------------------------------------------
(* The plan.                                                                 *)

Routings(techniques) == {get_routing(t) : t \in techniques}
Urgent(techniques) == {e.priority : e \in Routings(techniques)} \ {NoValue}
Prescribed(techniques) == UNION {Range(e.tools) : e \in Routings(techniques)}

\* Every technique has a list of tools, its priority tool among them.
LEMMA RoutingOK ==
    \A t : /\ get_routing(t).tools \in Seq(Tools)
           /\ get_routing(t).priority \in Range(get_routing(t).tools) \union {NoValue}
<1>1. DEFAULT_ROUTING.tools \in Seq(Tools) /\ DEFAULT_ROUTING.priority = NoValue
    BY DEF DEFAULT_ROUTING, Entry, Tools
<1> QED
    BY <1>1, RoutingAssumption DEF get_routing

\* The tools for a list of techniques: those that the techniques prescribe, each once,
\* the urgent ones first.
LEMMA PlanProperties ==
    ASSUME NEW X, NEW ts \in Seq(X)
    PROVE  /\ ToolsFor(ts) \in Seq(Tools \union {NoValue}) /\ IsInjective(ToolsFor(ts))
           /\ Range(ToolsFor(ts)) = Prescribed(Range(ts))
           /\ \A i \in DOMAIN ToolsFor(ts) :
                 ToolsFor(ts)[i] \in Urgent(Range(ts)) <=> i <= Cardinality(Urgent(Range(ts)))
<1> DEFINE n == Len(ts)
           P == Tools \union {NoValue}
           ps == [i \in DOMAIN ts |-> get_routing(ts[i]).priority]
           qs == [i \in DOMAIN ts |-> get_routing(ts[i]).tools]
           p == Only(ps, Range(ps) \ {NoValue})
           q == FlattenSeq(qs)
           s == p \o q
           plan == ToolsFor(ts)
           U == Urgent(Range(ts))
<1>1. n \in Nat /\ DOMAIN ts = 1..n
    OBVIOUS
<1>2. plan = Distinct(s)
    BY DEF ToolsFor
<1>3. ps \in Seq(P) /\ Range(ps) = {e.priority : e \in Routings(Range(ts))}
    <2>1. \A i \in 1..n : get_routing(ts[i]).priority \in P
        <3> SUFFICES ASSUME NEW i \in 1..n PROVE get_routing(ts[i]).priority \in P
            OBVIOUS
        <3>1. get_routing(ts[i]).tools \in Seq(Tools)
            BY RoutingOK
        <3>2. Range(get_routing(ts[i]).tools) \subseteq Tools
            BY <3>1 DEF Range
        <3> QED
            BY <3>2, RoutingOK
    <2>2. ps \in [1..n -> P]
        BY <1>1, <2>1
    <2>3. ps \in Seq(P)
        <3> HIDE DEF n, ps, P
        <3> QED
            BY <1>1, <2>2
    <2>4. Range(ps) = {e.priority : e \in Routings(Range(ts))}
        BY DEF Range, Routings
    <2> QED
        BY <2>3, <2>4
<1>4. qs \in Seq(Seq(Tools)) /\ Len(qs) = n /\ \A i \in 1..n : qs[i] = get_routing(ts[i]).tools
    <2>1. qs \in [1..n -> Seq(Tools)]
        BY <1>1, RoutingOK
    <2>2. \A i \in 1..n : qs[i] = get_routing(ts[i]).tools
        BY <1>1
    <2> HIDE DEF n, qs
    <2> QED
        BY <1>1, <2>1, <2>2
<1> HIDE DEF n, ps, qs, p, q, s, P
<1>5. p \in Seq(P) /\ Range(p) = U
    <2>1. p \in Seq(P) /\ Range(p) = Range(ps) \intersect (Range(ps) \ {NoValue})
        BY <1>3, OnlyProperties DEF p
    <2> QED
        BY <1>3, <2>1 DEF Urgent
<1>6. q \in Seq(P) /\ Range(q) = Prescribed(Range(ts))
    <2>1. q \in Seq(Tools) /\ Range(q) = UNION {Range(qs[i]) : i \in 1..n}
        BY <1>4, FlattenRange DEF q
    <2>2. {Range(qs[i]) : i \in 1..n} = {Range(e.tools) : e \in Routings(Range(ts))}
        <3>1. Range(ts) = {ts[i] : i \in 1..n}
            BY <1>1 DEF Range
        <3>2. ASSUME NEW i \in 1..n PROVE \E e \in Routings(Range(ts)) : qs[i] = e.tools
            BY <1>4, <3>1 DEF Routings
        <3>3. ASSUME NEW e \in Routings(Range(ts)) PROVE \E i \in 1..n : qs[i] = e.tools
            BY <1>4, <3>1 DEF Routings
        <3> QED
            BY <3>2, <3>3
    <2>3. q \in Seq(P)
        BY <2>1 DEF P
    <2> QED
        BY <2>1, <2>2, <2>3 DEF Prescribed
<1>7. U \subseteq Prescribed(Range(ts))
    BY RoutingOK DEF Urgent, Prescribed, Routings
<1>8. s \in Seq(P) /\ Range(s) = Prescribed(Range(ts))
    <2>1. p \o q \in Seq(P) /\ Range(p \o q) = Range(p) \union Range(q)
        BY <1>5, <1>6, ConcatRange
    <2> QED
        BY <1>5, <1>6, <1>7, <2>1 DEF s
<1>9. Len(p) \in 0..Len(s) /\ {s[i] : i \in 1..Len(p)} = U
    <2>1. /\ Len(p) \in Nat /\ Len(q) \in Nat /\ Len(s) = Len(p) + Len(q)
          /\ DOMAIN p = 1..Len(p) /\ \A i \in 1..Len(p) : s[i] = p[i]
        BY <1>5, <1>6 DEF s
    <2>2. {s[i] : i \in 1..Len(p)} = Range(p)
        BY <2>1 DEF Range
    <2> QED
        BY <1>5, <2>1, <2>2
<1> HIDE DEF plan, U
<1>10. plan \in Seq(P) /\ IsInjective(plan) /\ Range(plan) = Range(s)
    BY <1>2, <1>8, <1>9, DistinctProperties
<1>11. PICK d \in Seq(P) : /\ IsInjective(d) /\ Range(d) = {s[i] : i \in 1..Len(p)}
                           /\ Extends(plan, d)
    BY <1>2, <1>8, <1>9, DistinctProperties
<1>12. Len(d) = Cardinality(U) /\ Range(d) = U
    BY <1>9, <1>11, InjectiveLen
<1>13. ASSUME NEW i \in DOMAIN plan PROVE plan[i] \in U <=> i <= Len(d)
    <2>1. /\ Len(d) \in Nat /\ Len(plan) \in Nat /\ Len(d) <= Len(plan)
          /\ DOMAIN plan = 1..Len(plan) /\ DOMAIN d = 1..Len(d)
          /\ \A j \in 1..Len(d) : plan[j] = d[j]
        BY <1>10, <1>11 DEF Extends
    <2>2. ASSUME i <= Len(d) PROVE plan[i] \in U
        BY <1>12, <2>1, <2>2 DEF Range
    <2>3. ASSUME plan[i] \in U PROVE i <= Len(d)
        <3>1. PICK j \in 1..Len(d) : d[j] = plan[i]
            BY <1>12, <2>1, <2>3 DEF Range
        <3>2. j \in DOMAIN plan /\ plan[j] = plan[i]
            BY <2>1, <3>1
        <3>3. j = i
            BY <1>10, <3>2 DEF IsInjective
        <3> QED
            BY <3>1, <3>3
    <2> QED
        BY <2>2, <2>3
<1> QED
    BY <1>8, <1>10, <1>12, <1>13 DEF plan, U, P

\* The techniques named for an alert, by its source and by what was found.
Named(a, e) == Range(Declared(a)) \union Range(e.techniques)
OrDefault(techniques) == IF techniques = {} THEN {<<1082, 0>>} ELSE techniques

\* A burst's techniques are those that were named, or else T1082.
InputOK(in) ==
    /\ in.techniques \in Seq(Nat \X Nat)
    /\ Range(in.techniques) = OrDefault(Named(in.alert, in.entities))

InputInv == \A b \in Bursts : InputOK(input[b])

\* The declared technique is a list of at most one.
LEMMA DeclaredList ==
    ASSUME NEW a, a.mitre \in Nat \X Nat
    PROVE  Declared(a) \in Seq(Nat \X Nat) /\ Range(Declared(a)) \subseteq {a.mitre}
<1>1. CASE a.mitre = NoTechnique
    BY <1>1 DEF Declared, Range
<1>2. CASE a.mitre # NoTechnique
    <2>1. Declared(a) = <<a.mitre>> /\ DOMAIN <<a.mitre>> = {1} /\ <<a.mitre>>[1] = a.mitre
        BY <1>2 DEF Declared
    <2>2. <<a.mitre>> \in Seq(Nat \X Nat)
        OBVIOUS
    <2> QED
        BY <2>1, <2>2 DEF Range
<1> QED
    BY <1>1, <1>2

\* The node that hands the techniques on loses none.
LEMMA TechniquesKept ==
    ASSUME NEW a, a.mitre \in Nat \X Nat, NEW e, e.techniques \in Seq(Nat \X Nat)
    PROVE  /\ TechniqueIds(a, e) \in Seq(Nat \X Nat)
           /\ Range(TechniqueIds(a, e)) = OrDefault(Named(a, e))
<1> DEFINE es == e.techniques
           ds == Declared(a)
           ids == IF a.mitre \in Range(es) THEN es ELSE ds \o es
<1>1. ds \in Seq(Nat \X Nat) /\ Range(ds) \subseteq {a.mitre}
    BY DeclaredList
<1>2. es \in Seq(Nat \X Nat)
    OBVIOUS
<1>3. TechniqueIds(a, e) = IF ids = <<>> THEN <<<<1082, 0>>>> ELSE ids
    BY DEF TechniqueIds
<1>4. Named(a, e) = Range(ds) \union Range(es)
    BY DEF Named
<1> HIDE DEF es, ds
<1>5. ids \in Seq(Nat \X Nat) /\ Range(ids) = Named(a, e)
    <2>1. ds \o es \in Seq(Nat \X Nat) /\ Range(ds \o es) = Range(ds) \union Range(es)
        BY <1>1, <1>2, ConcatRange
    <2>2. CASE a.mitre \in Range(es)
        BY <1>1, <1>2, <1>4, <2>2
    <2>3. CASE a.mitre \notin Range(es)
        BY <1>4, <2>1, <2>3
    <2> QED
        BY <2>2, <2>3
<1> HIDE DEF ids
<1>6. CASE ids = <<>>
    <2>1. Named(a, e) = {}
        BY <1>5, <1>6 DEF Range
    <2>2. PICK d : d = <<1082, 0>>
        OBVIOUS
    <2>3. <<d>> \in Seq(Nat \X Nat) /\ DOMAIN <<d>> = {1} /\ <<d>>[1] = d
        BY <2>2
    <2>4. Range(<<d>>) = {d}
        BY <2>3 DEF Range
    <2>5. TechniqueIds(a, e) = <<d>>
        BY <1>3, <1>6, <2>2
    <2>6. OrDefault(Named(a, e)) = {d}
        BY <2>1, <2>2 DEF OrDefault
    <2> QED
        BY <2>3, <2>4, <2>5, <2>6, Zenon
<1>7. CASE ids # <<>>
    <2>1. 1 \in DOMAIN ids
        BY <1>5, <1>7
    <2>2. Named(a, e) # {}
        BY <1>5, <2>1 DEF Range
    <2> QED
        BY <1>3, <1>5, <1>7, <2>2 DEF OrDefault
<1> QED
    BY <1>6, <1>7

\* The techniques are extracted before the burst.
LEMMA InitInput == Init => InputInv
<1> SUFFICES ASSUME Init, NEW b \in Bursts PROVE InputOK(input[b])
    BY DEF InputInv
<1>1. PICK alerts \in Alerts :
          input \in {f \in [Bursts -> UNION {InputsOf(alerts[c]) : c \in Bursts}] :
                       \A c \in Bursts : f[c].alert = alerts[c]}
    BY DEF Init
<1>2. PICK c \in Bursts : input[b] \in InputsOf(alerts[c])
    BY <1>1
<1> DEFINE a == alerts[c]
<1>3. PICK e \in ExtractEntities(a) :
          input[b] = [alert |-> a, entities |-> e,
                      techniques |-> TechniqueIds(a, e), facts |-> Facts(a, e)]
    BY <1>2 DEF InputsOf
<1>4. input[b].alert = a /\ input[b].entities = e /\ input[b].techniques = TechniqueIds(a, e)
    BY <1>3
<1>5. a.mitre \in Nat \X Nat /\ a.text.techniques \in Seq(Nat \X Nat)
    BY AlertAssumption
<1> HIDE DEF a
<1>6. e.techniques \in Seq(Nat \X Nat)
    <2>1. CASE e \in ModelAnswers
        BY <2>1, ExtractorAssumption
    <2>2. CASE e \in HeuristicExtract(a)
        <3> DEFINE found == Declared(a) \o a.text.techniques
        <3>1. e.techniques = Distinct(found)
            <4>1. PICK ips, hashes : e = Heuristic(a, ips, hashes)
                BY <2>2 DEF HeuristicExtract
            <4>2. \A hs, us, ts, is :
                     [hosts |-> hs, users |-> us, techniques |-> ts, iocs |-> is].techniques = ts
                OBVIOUS
            <4>3. Heuristic(a, ips, hashes).techniques = Distinct(found)
                BY <4>2, Zenon DEF Heuristic
            <4> QED
                BY <4>1, <4>3
        <3>2. found \in Seq(Nat \X Nat)
            BY <1>5, DeclaredList
        <3> HIDE DEF found
        <3>3. 0 \in 0..Len(found)
            BY <3>2
        <3> QED
            BY <3>1, <3>2, <3>3, DistinctProperties
    <2> QED
        BY <2>1, <2>2, <1>3 DEF ExtractEntities
<1>7. TechniqueIds(a, e) \in Seq(Nat \X Nat) /\ Range(TechniqueIds(a, e)) = OrDefault(Named(a, e))
    BY <1>5, <1>6, TechniquesKept
<1> QED
    BY <1>4, <1>7 DEF InputOK

\* No step changes the input of a burst.
LEMMA StepInput == InputInv /\ [Next]_vars => InputInv'
<1> SUFFICES ASSUME InputInv, [Next]_vars PROVE InputInv'
    OBVIOUS
<1>1. input' = input
    BY DEF Next, CheckCache, SourceAnswers, TimesOut, StoreResult, Gather, Tick, vars
<1> QED
    BY <1>1 DEF InputInv

\* Whoever extracted the entities, the tools of a burst are those of the declared technique
\* and of the techniques found, each once, and those that some routing puts first come
\* first (extract_entities, get_tools_for_techniques).
THEOREM PlanRight == Spec => []PlanIsExact
<1>1. InputInv => PlanIsExact
    <2> SUFFICES ASSUME InputInv, NEW b \in Bursts
                 PROVE
          LET plan == ToolsFor(input[b].techniques)
              named == Range(Declared(input[b].alert)) \union Range(input[b].entities.techniques)
              routings == {get_routing(t) : t \in IF named = {} THEN {<<1082, 0>>} ELSE named}
              urgent == {e.priority : e \in routings} \ {NoValue}
          IN /\ Range(plan) = UNION {Range(e.tools) : e \in routings}
             /\ Len(plan) = Cardinality(Range(plan))
             /\ \A i \in DOMAIN plan : plan[i] \in urgent <=> i <= Cardinality(urgent)
        BY DEF PlanIsExact
    <2> DEFINE ts == input[b].techniques
               plan == ToolsFor(ts)
               T == OrDefault(Named(input[b].alert, input[b].entities))
    <2>1. ts \in Seq(Nat \X Nat) /\ Range(ts) = T
        BY DEF InputInv, InputOK
    <2> HIDE DEF ts, T
    <2>2. /\ plan \in Seq(Tools \union {NoValue}) /\ IsInjective(plan)
          /\ Range(plan) = Prescribed(Range(ts))
          /\ \A i \in DOMAIN plan : plan[i] \in Urgent(Range(ts)) <=> i <= Cardinality(Urgent(Range(ts)))
        BY <2>1, PlanProperties
    <2> HIDE DEF plan
    <2>3. Len(plan) = Cardinality(Range(plan))
        BY <2>2, InjectiveLen
    <2>4. /\ Range(plan) = Prescribed(T)
          /\ \A i \in DOMAIN plan : plan[i] \in Urgent(T) <=> i <= Cardinality(Urgent(T))
        BY <2>1, <2>2
    <2> QED
        BY <2>3, <2>4, Zenon DEF Routings, Urgent, Prescribed, ts, plan, T, OrDefault, Named
<1> QED
    BY <1>1, InitInput, StepInput, PTL DEF Spec

----------------------------------------------------------------------------
(* The report.                                                               *)

\* The tools a burst has records of, once all its calls are done.
Kept(in, calls) == Only(Fired(in), {tool \in DOMAIN calls : calls[tool].outcome # "raised"})

Reported(rs, in, calls) ==
    /\ \A tool \in DOMAIN calls : calls[tool].at = "done"
    /\ Len(rs) = Len(Kept(in, calls)) /\ DOMAIN rs = DOMAIN Kept(in, calls)
    /\ \A i \in DOMAIN rs : rs[i].tool = Kept(in, calls)[i]

\* A burst that is over has a record for every tool kept.
ReportInv ==
    /\ DOMAIN over = Bursts /\ DOMAIN records = Bursts
    /\ \A b \in Bursts : over[b] => Reported(records[b], input[b], call[b])

\* The tools fired are those prescribed that have parameters, and those kept are what is
\* left of them without the calls that raised.
LEMMA KeptProperties ==
    ASSUME NEW in, InputOK(in), NEW calls, DOMAIN calls = Range(Fired(in))
    PROVE  LET expected == {tool \in Prescribed(Range(in.techniques)) :
                              ParamsOf(in, tool) # NoParams /\ calls[tool].outcome # "raised"}
           IN  /\ Kept(in, calls) \in Seq(Tools \union {NoValue}) /\ IsInjective(Kept(in, calls))
               /\ Range(Kept(in, calls)) = expected
<1> DEFINE P == Tools \union {NoValue}
           plan == ToolsFor(in.techniques)
           asked == {tool \in Range(plan) : ParamsOf(in, tool) # NoParams}
           well == {tool \in DOMAIN calls : calls[tool].outcome # "raised"}
<1>1. plan \in Seq(P) /\ IsInjective(plan) /\ Range(plan) = Prescribed(Range(in.techniques))
    BY PlanProperties DEF InputOK
<1>2. Fired(in) = Only(plan, asked) /\ Kept(in, calls) = Only(Fired(in), well)
    BY DEF Fired, Kept
<1> HIDE DEF P, plan
<1>3. \A T : /\ Only(plan, T) \in Seq(P) /\ Range(Only(plan, T)) = Range(plan) \intersect T
             /\ IsInjective(Only(plan, T))
    BY <1>1, OnlyProperties
<1>4. /\ Fired(in) \in Seq(P) /\ IsInjective(Fired(in))
      /\ Range(Fired(in)) = asked
    BY <1>2, <1>3
<1>5. \A T : /\ Only(Fired(in), T) \in Seq(P)
             /\ Range(Only(Fired(in), T)) = Range(Fired(in)) \intersect T
             /\ IsInjective(Only(Fired(in), T))
    BY <1>4, OnlyProperties
<1>6. /\ Kept(in, calls) \in Seq(P) /\ IsInjective(Kept(in, calls))
      /\ Range(Kept(in, calls)) = asked \intersect well
    BY <1>2, <1>4, <1>5
<1> QED
    BY <1>1, <1>4, <1>6 DEF P

\* Every step keeps ReportInv: a burst that is over has no call left to make.
LEMMA StepReport == StaleInv /\ InputInv /\ ReportInv /\ [Next]_vars => ReportInv'
<1> SUFFICES ASSUME StaleInv, InputInv, ReportInv, [Next]_vars PROVE ReportInv'
    OBVIOUS
<1>a. /\ input' = input /\ DOMAIN call = Bursts
      /\ \A b \in Bursts : DOMAIN call[b] = Range(Fired(input[b]))
    BY DEF Next, CheckCache, SourceAnswers, TimesOut, StoreResult, Gather, Tick, vars,
           StaleInv, CallsOK
<1>1. ASSUME NEW b \in Bursts, NEW tool \in DOMAIN call[b],
             \/ CheckCache(b, tool) \/ SourceAnswers(b, tool)
             \/ TimesOut(b, tool) \/ StoreResult(b, tool)
      PROVE  ReportInv'
    <2>1. UNCHANGED <<over, records>> /\ call[b][tool].at # "done"
        BY <1>1 DEF CheckCache, SourceAnswers, TimesOut, StoreResult
    <2>2. \A c \in Bursts \ {b} : call'[c] = call[c]
        BY <1>1, <1>a DEF CheckCache, SourceAnswers, TimesOut, StoreResult, Asks, Moves, Ends
    <2>3. ~over[b]
        BY <2>1 DEF ReportInv, Reported
    <2> QED
        BY <1>a, <2>1, <2>2, <2>3 DEF ReportInv
<1>2. ASSUME NEW b \in Bursts, Gather(b) PROVE ReportInv'
    <2> DEFINE kept == Kept(input[b], call[b])
               rs == [i \in DOMAIN kept |-> Record(b, kept[i])]
    <2>1. /\ UNCHANGED <<input, call>>
          /\ \A tool \in DOMAIN call[b] : call[b][tool].at = "done"
          /\ over' = [over EXCEPT ![b] = TRUE] /\ records' = [records EXCEPT ![b] = rs]
        BY <1>2 DEF Gather, Kept
    <2>2. kept \in Seq(Tools \union {NoValue})
        BY <1>a, KeptProperties DEF InputInv
    <2> HIDE DEF kept
    <2>3. DOMAIN rs = DOMAIN kept /\ Len(rs) = Len(kept) /\ \A i \in DOMAIN rs : rs[i].tool = kept[i]
        BY <2>2 DEF Record
    <2> HIDE DEF rs
    <2>4. Reported(rs, input[b], call[b])
        BY <2>1, <2>3 DEF Reported, kept
    <2>5. /\ DOMAIN over' = Bursts /\ DOMAIN records' = Bursts
          /\ records'[b] = rs /\ \A c \in Bursts \ {b} : over'[c] = over[c] /\ records'[c] = records[c]
        BY <2>1 DEF ReportInv
    <2>6. ASSUME NEW c \in Bursts, over'[c] PROVE Reported(records'[c], input'[c], call'[c])
        <3>1. CASE c = b
            BY <2>1, <2>4, <2>5, <3>1
        <3>2. CASE c # b
            BY <2>1, <2>5, <2>6, <3>2 DEF ReportInv
        <3> QED
            BY <3>1, <3>2
    <2> QED
        BY <2>5, <2>6 DEF ReportInv
<1>3. CASE UNCHANGED <<input, call, over, records>>
    BY <1>3 DEF ReportInv
<1> QED
    BY <1>1, <1>2, <1>3 DEF Next, Tick, vars

\* However the calls of a burst end, and however bursts interleave, a burst that is over
\* has one record for every tool that its techniques prescribe and that has parameters,
\* but for those whose tasks raised (execute_enrichment_burst, asyncio.gather).
THEOREM ReportComplete == Spec => []PrescribedIsReported
<1>1. Init => ReportInv
    BY DEF Init, ReportInv
<1>2. StaleInv /\ InputInv /\ ReportInv => PrescribedIsReported
    <2> SUFFICES ASSUME StaleInv, InputInv, ReportInv, NEW b \in Bursts, over[b]
                 PROVE
          LET ts == input[b].techniques
              prescribed == UNION {Range(get_routing(ts[i]).tools) : i \in DOMAIN ts}
              expected == {tool \in prescribed : /\ ParamsOf(input[b], tool) # NoParams
                                                 /\ call[b][tool].outcome # "raised"}
          IN /\ {records[b][i].tool : i \in DOMAIN records[b]} = expected
             /\ Len(records[b]) = Cardinality(expected)
        BY DEF PrescribedIsReported
    <2> DEFINE ts == input[b].techniques
               kept == Kept(input[b], call[b])
               expected == {tool \in Prescribed(Range(ts)) : /\ ParamsOf(input[b], tool) # NoParams
                                                             /\ call[b][tool].outcome # "raised"}
    <2>1. UNION {Range(get_routing(ts[i]).tools) : i \in DOMAIN ts} = Prescribed(Range(ts))
        <3> HIDE DEF ts
        <3> QED
            BY DEF Prescribed, Routings, Range
    <2>2. kept \in Seq(Tools \union {NoValue}) /\ IsInjective(kept) /\ Range(kept) = expected
        BY KeptProperties DEF InputInv, StaleInv, CallsOK
    <2>3. /\ Len(records[b]) = Len(kept) /\ DOMAIN records[b] = DOMAIN kept
          /\ \A i \in DOMAIN records[b] : records[b][i].tool = kept[i]
        BY DEF ReportInv, Reported
    <2> HIDE DEF kept, expected
    <2>4. {records[b][i].tool : i \in DOMAIN records[b]} = Range(kept)
        BY <2>3 DEF Range
    <2>5. Len(kept) = Cardinality(expected)
        BY <2>2, InjectiveLen
    <2>6. {records[b][i].tool : i \in DOMAIN records[b]} = expected /\ Len(records[b]) = Cardinality(expected)
        BY <2>2, <2>3, <2>4, <2>5
    <2> QED
        BY <2>1, <2>6, Zenon DEF ts, expected
<1> QED
    BY <1>1, <1>2, InitStale, StepStale, InitInput, StepInput, StepReport, PTL DEF Spec

----------------------------------------------------------------------------
(* The normaliser. Where unwrapping starts, and where it is to end: at the    *)
(* vendor's own JSON, or at the event that CrowdStrike's consists of.         *)

Top == IF Holds(1, "records") THEN 2 ELSE 1

Arrived ==
    \/ at = payload.core
    \/ /\ payload.format = "crowdstrike" /\ at = payload.core + 1
       /\ Len(payload.layers) = payload.core + 1

\* The loop has made a pass for every layer it has gone down, and leaves the envelope
\* only with the vendor's own JSON.
ExpandInv ==
    /\ payload \in Payloads
    /\ Recognisable =>
          /\ pc = "records" => at = 1 /\ iterations = 0
          /\ pc = "expand" => (at \in Top..payload.core \/ Arrived) /\ iterations = at - Top
          /\ pc \in {"coerce", "normalize"} => Arrived
          /\ pc \in {"coerce", "coerced"} => payload.format = "ocsf"
          /\ pc = "done" => alert = OwnAlert

PayloadsOK == MaxUnwraps \in Nat /\ \A p \in Payloads : VendorShaped(p)

\* The numbers of the layers.
LEMMA LayerNumbers ==
    ASSUME PayloadsOK, payload \in Payloads, Recognisable
    PROVE  /\ payload.core \in Nat \ {0} /\ Top \in {1, 2} /\ Top <= payload.core
           /\ Len(payload.layers) \in {payload.core, payload.core + 1}
<1>1. VendorShaped(payload)
    BY DEF PayloadsOK
<1>2. /\ payload.core \in Nat \ {0}
      /\ Len(payload.layers) \in {payload.core, payload.core + 1}
    BY <1>1 DEF VendorShaped, Vendors, Recognisable
<1>3. payload.core = 1 => ~Holds(1, "records")
    BY <1>1, <1>2 DEF VendorShaped, Vendors, Recognisable, Holds, Layer, NoKey
<1> QED
    BY <1>2, <1>3 DEF Top

\* The vendor's own JSON, layer i, looks like the vendor's.
LEMMA OwnSource ==
    ASSUME PayloadsOK, payload \in Payloads, Recognisable, payload.format # "ocsf", NEW i,
           \/ i = payload.core
           \/ /\ payload.format = "crowdstrike" /\ i = payload.core + 1
              /\ Len(payload.layers) = payload.core + 1
    PROVE  ~IsDetectionFinding(i) /\ DetectSource(i) = payload.format
<1>1. VendorShaped(payload)
    BY DEF PayloadsOK
<1>2. /\ payload.core \in Nat \ {0} /\ Len(payload.layers) \in {payload.core, payload.core + 1}
      /\ payload.format \in {"splunk", "crowdstrike", "aws_guardduty"}
    BY LayerNumbers DEF Recognisable, Vendors
<1>3. CASE payload.format = "crowdstrike"
    <2>1. ~IsDetectionFinding(i)
        BY <1>1, <1>2, <1>3 DEF VendorShaped, IsDetectionFinding, Marked, Innermost, Layer
    <2>2. Marked(i, "DetectionId") \/ (Holds(i, "event") /\ Marked(i + 1, "DetectionId"))
        BY <1>1, <1>2, <1>3 DEF VendorShaped, Holds, Marked, Innermost, Layer
    <2> QED
        BY <1>3, <2>1, <2>2 DEF DetectSource
<1>4. CASE payload.format = "aws_guardduty"
    <2>1. ~IsDetectionFinding(i) /\ ~Marked(i, "DetectionId") /\ Marked(i, "detail-type")
        BY <1>1, <1>2, <1>4 DEF VendorShaped, IsDetectionFinding, Marked, Innermost, Layer
    <2>2. ~Holds(i, "event")
        BY <1>1, <1>2, <1>4 DEF VendorShaped, Holds, Layer
    <2> QED
        BY <1>4, <2>1, <2>2 DEF DetectSource
<1>5. CASE payload.format = "splunk"
    <2>1. /\ ~IsDetectionFinding(i) /\ ~Marked(i, "DetectionId")
          /\ ~Marked(i, "detail-type")
        BY <1>1, <1>2, <1>5 DEF VendorShaped, IsDetectionFinding, Marked, Innermost, Layer
    <2>2. /\ Marked(i, "search_name") \/ Holds(i, "result")
          /\ ~Holds(i, "event")
        BY <1>1, <1>2, <1>5 DEF VendorShaped, Holds, Layer, Marked, Innermost, NoKey
    <2> QED
        BY <1>5, <2>1, <2>2 DEF DetectSource
<1> QED
    BY <1>2, <1>3, <1>4, <1>5

\* Inside the envelope there is always another pass.
LEMMA EnvelopeOpens ==
    ASSUME PayloadsOK, payload \in Payloads, Recognisable, pc = "expand",
           at \in Top..payload.core - 1, iterations = at - Top
    PROVE  MayUnwrap /\ (InnerIsBetter(at) \/ SoleWrapper(at))
<1>1. VendorShaped(payload)
    BY DEF PayloadsOK
<1>2. /\ payload.core \in Nat \ {0} /\ Top \in {1, 2} /\ at \in Nat
      /\ 1 <= at /\ at < payload.core /\ Len(payload.layers) \in {payload.core, payload.core + 1}
    BY LayerNumbers
<1>3. ~IsDetectionFinding(at)
    BY <1>1, <1>2 DEF VendorShaped, IsDetectionFinding, Marked, Layer
<1>4. iterations < MaxUnwraps
    BY <1>2 DEF Recognisable, WithinReach, Top, PayloadsOK
<1>5. \/ SoleWrapper(at)
      \/ at = payload.core - 1 /\ Layer(at).child \in InnerKeys
    BY <1>2 DEF Recognisable, WithinReach, Top
<1>6. ASSUME at = payload.core - 1, Layer(at).child \in InnerKeys, ~SoleWrapper(at)
      PROVE  InnerIsBetter(at)
    <2>1. at + 1 = payload.core
        BY <1>2, <1>6
    <2>2. CASE payload.format = "ocsf"
        <3>1. IsDetectionFinding(payload.core)
            BY <1>1, <1>2, <2>2 DEF VendorShaped, IsDetectionFinding, Marked, Innermost, Layer
        <3> QED
            BY <1>6, <2>1, <3>1 DEF InnerIsBetter
    <2>3. CASE payload.format # "ocsf"
        <3>1. DetectSource(payload.core) = payload.format
            BY <2>3, OwnSource
        <3>2. ~Holds(at, "event") /\ ~Holds(at, "result")
            BY <1>6 DEF Holds, InnerKeys
        <3>3. \A mark : ~Marked(at, mark)
            BY <1>1, <1>2 DEF VendorShaped, Marked, Layer
        <3>4. DetectSource(at) \in {"generic", "sentinel"}
            BY <3>2, <3>3 DEF DetectSource, IsDetectionFinding
        <3> QED
            BY <1>6, <2>1, <2>3, <3>1, <3>4 DEF InnerIsBetter, Vendors, Recognisable
    <2> QED
        BY <2>2, <2>3
<1> QED
    BY <1>3, <1>4, <1>5, <1>6 DEF MayUnwrap

\* The vendor's own JSON is recognised, and only CrowdStrike's is unwrapped further.
LEMMA OwnIsRecognised ==
    ASSUME PayloadsOK, payload \in Payloads, Recognisable, Arrived
    PROVE  /\ payload.format = "ocsf" => IsDetectionFinding(at)
           /\ payload.format # "ocsf" =>
                 ~IsDetectionFinding(at) /\ DetectSource(at) = payload.format
           /\ InnerIsBetter(at) \/ SoleWrapper(at) =>
                 /\ payload.format = "crowdstrike" /\ at = payload.core
                 /\ Len(payload.layers) = payload.core + 1
<1>1. VendorShaped(payload)
    BY DEF PayloadsOK
<1>2. /\ payload.core \in Nat \ {0} /\ Len(payload.layers) \in {payload.core, payload.core + 1}
      /\ at \in {payload.core, payload.core + 1} /\ payload.format \in Vendors
    BY LayerNumbers DEF Arrived, Recognisable
<1>3. payload.format = "ocsf" => IsDetectionFinding(at)
    BY <1>1, <1>2 DEF Arrived, VendorShaped, IsDetectionFinding, Marked, Innermost, Layer
<1>5. payload.format # "ocsf" =>
          ~IsDetectionFinding(at) /\ DetectSource(at) = payload.format
    BY OwnSource DEF Arrived
<1>6. ~InnerIsBetter(at)
    BY <1>1, <1>2 DEF Arrived, VendorShaped, InnerIsBetter, InnerKeys, Layer, NoKey, Vendors
<1>7. SoleWrapper(at) =>
          /\ payload.format = "crowdstrike" /\ at = payload.core
          /\ Len(payload.layers) = payload.core + 1
    BY <1>1, <1>2 DEF Arrived, Recognisable, LooksLikeWrapper, Holds, VendorShaped, SoleWrapper,
                      Sole, SoleKeys, Layer, NoKey, Vendors
<1> QED
    BY <1>3, <1>5, <1>6, <1>7

\* The parser that is chosen makes of the layer that was arrived at what it makes of
\* the vendor's own JSON.
LEMMA OwnIsParsed ==
    ASSUME PayloadsOK, payload \in Payloads, Recognisable, Arrived
    PROVE  Parser = payload.format /\ Parsed(payload.format, at) = OwnAlert
<1>1. VendorShaped(payload)
    BY DEF PayloadsOK
<1>2. /\ payload.core \in Nat \ {0} /\ payload.format \in Vendors /\ entry = "auto"
    BY LayerNumbers DEF Recognisable
<1>3. Parser = payload.format
    BY <1>2, OwnIsRecognised DEF Parser, Source
<1>4. CASE at = payload.core
    BY <1>3, <1>4 DEF OwnAlert
<1>5. CASE /\ payload.format = "crowdstrike" /\ at = payload.core + 1
           /\ Len(payload.layers) = payload.core + 1
    <2>1. FieldLayer(at, "event") = payload.core + 1
        BY <1>1, <1>2, <1>5 DEF VendorShaped, FieldLayer, Holds, Layer, NoKey
    <2>2. FieldLayer(payload.core, "event") = payload.core + 1
        BY <1>1, <1>2, <1>5 DEF VendorShaped, FieldLayer, Holds, Layer
    <2>3. ParseCrowdstrike(at) = ParseCrowdstrike(payload.core)
        BY <2>1, <2>2 DEF ParseCrowdstrike
    <2> QED
        BY <1>3, <1>5, <2>3 DEF OwnAlert, Parsed
<1> QED
    BY <1>4, <1>5 DEF Arrived

\* The vendor's parser finds the identifier in the vendor's own JSON.
LEMMA OwnIdIsFound ==
    ASSUME PayloadsOK, payload \in Payloads, Recognisable, payload.ownId
    PROVE  OwnAlert.id = StableId(payload.format)
<1> DEFINE i == payload.core
<1>1. VendorShaped(payload)
    BY DEF PayloadsOK
<1>2. i \in Nat \ {0} /\ payload.format \in Vendors
    BY LayerNumbers DEF Recognisable
<1>3. CASE payload.format = "ocsf"
    <2>1. OwnIdIn(i)
        BY <1>1, <1>2, <1>3 DEF VendorShaped, OwnIdIn, Innermost
    <2>2. OwnAlert = ParseOcsf(i)
        BY <1>3 DEF OwnAlert, Parsed
    <2> QED
        BY <1>3, <2>1, <2>2 DEF ParseOcsf, StableId
<1>4. CASE payload.format = "splunk"
    <2>1. OwnIdIn(FieldLayer(i, "result"))
        BY <1>1, <1>2, <1>4 DEF VendorShaped, OwnIdIn, Innermost, FieldLayer, Holds, Layer, NoKey
    <2>2. OwnAlert = ParseSplunk(i)
        BY <1>4 DEF OwnAlert, Parsed
    <2> QED
        BY <1>4, <2>1, <2>2 DEF ParseSplunk, NewAlert, StableId
<1>5. CASE payload.format = "crowdstrike"
    <2>1. Marked(FieldLayer(i, "event"), "DetectionId")
        BY <1>1, <1>2, <1>5 DEF VendorShaped, Marked, Innermost, FieldLayer, Holds, Layer, NoKey
    <2>2. OwnAlert = ParseCrowdstrike(i)
        BY <1>5 DEF OwnAlert, Parsed
    <2> QED
        BY <1>5, <2>1, <2>2 DEF ParseCrowdstrike, CrowdstrikeDetection, NewAlert, StableId
<1>6. CASE payload.format = "aws_guardduty"
    <2>1. OwnIdIn(FieldLayer(i, "detail"))
        BY <1>1, <1>2, <1>6 DEF VendorShaped, OwnIdIn, Innermost, FieldLayer, Holds, Layer, NoKey
    <2>2. OwnAlert = ParseGuardduty(i)
        BY <1>6 DEF OwnAlert, Parsed
    <2> QED
        BY <1>6, <2>1, <2>2 DEF ParseGuardduty, NewAlert, StableId
<1> QED
    BY <1>2, <1>3, <1>4, <1>5, <1>6 DEF Vendors

\* What is to come of a payload is decided when it is posted.
LEMMA OwnAlertKept ==
    ASSUME payload' = payload
    PROVE  OwnAlert' = OwnAlert
BY Zenon DEF OwnAlert, Parsed, ParseOcsf, ParseSplunk, ParseCrowdstrike, ParseGuardduty, ParseGeneric,
       CrowdstrikeDetection, NewAlert, BuildDetectionFindingSlice, Listed, Observable, FieldLayer,
       FactsIn, SeverityIn, OwnIdIn, Marked, Holds, Layer, Innermost

\* Every step keeps ExpandInv.
LEMMA StepExpand ==
    ASSUME PayloadsOK, ExpandInv, [NormalizerNext]_normalizerVars
    PROVE  ExpandInv'
<1>1. UNCHANGED <<payload, entry>>
    BY DEF NormalizerNext, FirstRecord, Unwrap, Settle, NormalizeAlert, Refuse, Coerce,
           CoerceFails, normalizerVars
<1>2. /\ payload' \in Payloads /\ Recognisable' = Recognisable /\ Top' = Top
      /\ payload.core' = payload.core
    BY <1>1 DEF ExpandInv, Recognisable, Top, WithinReach, LooksLikeWrapper, Holds, SoleWrapper,
                Sole, Layer
<1>3. CASE ~Recognisable
    BY <1>2, <1>3 DEF ExpandInv
<1>4. CASE Recognisable
    <2>1. /\ payload \in Payloads /\ payload.core \in Nat \ {0} /\ Top \in {1, 2}
          /\ Top <= payload.core
        BY <1>4, LayerNumbers DEF ExpandInv
    <2>2. CASE FirstRecord
        BY <1>1, <1>2, <1>4, <2>1, <2>2 DEF ExpandInv, FirstRecord, Top
    <2>3. CASE Unwrap
        <3>1. /\ pc = "expand" /\ pc' = "expand" /\ at' = at + 1 /\ iterations' = iterations + 1
              /\ InnerIsBetter(at) \/ SoleWrapper(at)
            BY <2>3 DEF Unwrap, MayUnwrap
        <3>2. at' \in Top..payload.core \/ Arrived'
            BY <1>1, <1>4, <2>1, <3>1, OwnIsRecognised DEF ExpandInv, Arrived
        <3>3. iterations' = at' - Top
            BY <1>4, <2>1, <3>1 DEF ExpandInv, Arrived
        <3> QED
            BY <1>1, <1>2, <1>4, <3>1, <3>2, <3>3 DEF ExpandInv
    <2>4. CASE Settle
        <3>1. Arrived
            BY <1>4, <2>1, <2>4, EnvelopeOpens DEF Settle, ExpandInv, Arrived
        <3>2. pc' \in {"coerce", "normalize"} /\ Arrived'
            BY <1>1, <2>4, <3>1 DEF Settle, Arrived
        <3>3. pc' = "coerce" => payload.format = "ocsf"
            BY <1>4, <2>1, <2>4, <3>1, OwnIsRecognised DEF Settle, Recognisable, Vendors
        <3> QED
            BY <1>1, <1>2, <3>2, <3>3 DEF ExpandInv
    <2>5. CASE NormalizeAlert
        <3>1. alert' = OwnAlert /\ pc' = "done"
            BY <1>4, <2>1, <2>5, OwnIsParsed DEF NormalizeAlert, ExpandInv
        <3> QED
            BY <1>1, <1>2, <3>1, OwnAlertKept DEF ExpandInv
    <2>6. CASE Refuse \/ Coerce \/ CoerceFails
        BY <1>1, <1>2, <1>4, <2>6 DEF Refuse, Coerce, CoerceFails, ExpandInv, Arrived
    <2>7. CASE UNCHANGED normalizerVars
        BY <1>1, <1>2, <1>4, <2>7, OwnAlertKept DEF normalizerVars, ExpandInv, Arrived
    <2> QED
        BY <2>2, <2>3, <2>4, <2>5, <2>6, <2>7 DEF NormalizerNext
<1> QED
    BY <1>3, <1>4

\* ExpandInv is inductive.
LEMMA Expansion == NormalizerSpec => [](ExpandInv /\ PayloadsOK)
<1> PayloadsOK
    BY NormalizerAssumption, PayloadAssumption DEF PayloadsOK
<1>1. NormalizerInit => ExpandInv
    BY DEF NormalizerInit, ExpandInv, Recognisable
<1>2. ExpandInv /\ [NormalizerNext]_normalizerVars => ExpandInv'
    BY StepExpand
<1> QED
    BY <1>1, <1>2, PTL DEF NormalizerSpec

\* However a webhook wraps a vendor's alert, to whatever depth the loop allows for, the
\* alert is what the vendor's own endpoint makes of the same JSON: severity, indicators
\* and id (expand_auto_ingest_payload, the parsers).
THEOREM EnvelopeTransparent == NormalizerSpec => []EnvelopeIsTransparent
<1>1. ExpandInv => EnvelopeIsTransparent
    BY DEF ExpandInv, EnvelopeIsTransparent, Answered, Rewritten
<1> QED
    BY <1>1, Expansion, PTL

\* However a webhook wraps a vendor's alert, to whatever depth the loop allows for, the
\* vendor inside is recognised, the model never rewrites it (but for a ready-made
\* finding) and the alert has the id that its own identifier determines
\* (expand_auto_ingest_payload, detect_source, _stable_alert_id).
THEOREM VendorIsFound == NormalizerSpec => []InnerVendorWins
<1>1. ExpandInv /\ PayloadsOK => InnerVendorWins
    BY OwnIdIsFound DEF ExpandInv, InnerVendorWins, Answered, Rewritten
<1> QED
    BY <1>1, Expansion, PTL
=============================================================================
