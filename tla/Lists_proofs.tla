---------------------------- MODULE Lists_proofs ----------------------------
(***************************************************************************)
(* Facts the proofs of several components need about lists, positions and  *)
(* loops: a set of numbers has a least one, induction up to a number for a *)
(* given set, a loop that keeps a set of values has a value at each of its *)
(* steps, what a filter returns, and what a sum over a list comes to.      *)
(***************************************************************************)
EXTENDS Lists, Integers, FiniteSetTheorems, FunctionTheorems, SequenceTheorems, WellFoundedInduction, TLAPS

\* A set of numbers has a least one.
LEMMA LeastOf ==
  ASSUME NEW T \in SUBSET Nat, T # {}
  PROVE  \E x \in T : \A y \in T : x <= y
<1>1. PICK n \in T : TRUE
  OBVIOUS
<1> DEFINE S == 0 .. n
           U == {0 .. k : k \in {j \in T : j <= n}}
<1>2. n \in Nat /\ IsFiniteSet(S)
  BY <1>1, FS_Interval
<1>3. IsWellFoundedOn(StrictSubsetOrdering(S), SUBSET S)
  BY <1>2, FS_StrictSubsetOrderingWellFounded, FS_FiniteSubsetsOfFinite
<1>4. U \subseteq SUBSET S /\ U # {}
  <2>1. 0 .. n \in U
    BY <1>1, <1>2
  <2>2. ASSUME NEW k \in {j \in T : j <= n} PROVE 0 .. k \subseteq S
    <3>1. k \in Nat /\ k <= n
      OBVIOUS
    <3> QED BY <1>2, <3>1
  <2> QED BY <2>1, <2>2
<1>5. PICK u \in U : \A v \in U : <<v, u>> \notin StrictSubsetOrdering(S)
  <2> HIDE DEF U, S
  <2> QED BY <1>3, <1>4, WFMin
<1>6. PICK x \in T : x <= n /\ u = 0 .. x
  BY <1>5
<1>7. ASSUME NEW y \in T, y < x PROVE FALSE
  <2>1. y <= n /\ 0 .. y \in U
    BY <1>2, <1>6, <1>7
  <2>2. 0 .. y \subseteq 0 .. x /\ 0 .. y # 0 .. x
    <3>1. x \in 0 .. x /\ x \notin 0 .. y
      BY <1>7
    <3>2. 0 .. y \subseteq 0 .. x
      BY <1>7
    <3> QED BY <3>1, <3>2
  <2>3. <<0 .. y, u>> \in StrictSubsetOrdering(S)
    BY <1>4, <1>5, <1>6, <2>1, <2>2 DEF StrictSubsetOrdering
  <2> QED BY <1>5, <2>1, <2>3
<1>8. x \in Nat /\ \A y \in T : y \in Nat /\ ~(y < x)
  BY <1>6, <1>7
<1> HIDE DEF S, U
<1> QED BY <1>6, <1>8

\* The n-th member of a set of positions.
UpTo(K, i) == {j \in K : j <= i}

LEMMA NthMember ==
  ASSUME NEW length \in Nat, NEW K \in SUBSET (1 .. length), NEW n \in 1 .. Cardinality(K)
  PROVE  \E i \in K : Cardinality(UpTo(K, i)) = n
<1> DEFINE T == {m \in Nat : Cardinality(UpTo(K, m)) >= n}
<1>1. IsFiniteSet(K) /\ Cardinality(K) \in Nat
  <2>1. IsFiniteSet(1 .. length)
    BY FS_Interval
  <2> QED BY <2>1, FS_Subset, FS_CardinalityType
<1>0. \A j \in K : j \in Nat /\ 1 <= j /\ j <= length
  OBVIOUS
<1>2. \A m : IsFiniteSet(UpTo(K, m)) /\ Cardinality(UpTo(K, m)) \in Nat
  BY <1>1, FS_Subset, FS_CardinalityType DEF UpTo
<1>3. length \in T
  <2>1. UpTo(K, length) = K
    BY <1>0 DEF UpTo
  <2> QED BY <1>1, <2>1
<1>4. PICK m \in T : \A k \in T : m <= k
  <2> HIDE DEF T
  <2>1. T \in SUBSET Nat
    BY DEF T
  <2> QED BY <1>3, <2>1, LeastOf
<1>5. m # 0
  <2> HIDE DEF T
  <2>1. UpTo(K, 0) = {}
    <3>1. \A j \in K : ~(j <= 0)
      BY <1>0
    <3> QED BY <3>1 DEF UpTo
  <2> QED BY <1>4, <2>1, FS_EmptySet DEF T
<1>6. m - 1 \in Nat /\ m - 1 \notin T
  BY <1>4, <1>5
<1>7. Cardinality(UpTo(K, m - 1)) < n
  BY <1>1, <1>2, <1>6
<1>8. m \in K
  <2> SUFFICES ASSUME m \notin K PROVE FALSE
    OBVIOUS
  <2>1. UpTo(K, m) = UpTo(K, m - 1)
    <3>1. m \in Nat
      OBVIOUS
    <3>2. \A j \in K : j <= m <=> j <= m - 1
      BY <1>0, <3>1, m \notin K
    <3> QED BY <3>2 DEF UpTo
  <2> QED BY <1>4, <1>6, <2>1
<1>9. Cardinality(UpTo(K, m)) = Cardinality(UpTo(K, m - 1)) + 1
  <2>0. m \in Nat
    OBVIOUS
  <2>1. UpTo(K, m) = UpTo(K, m - 1) \cup {m} /\ m \notin UpTo(K, m - 1)
    <3>1. \A j \in K : j <= m <=> j <= m - 1 \/ j = m
      BY <1>0, <2>0
    <3>2. ~(m <= m - 1) /\ m <= m
      BY <2>0
    <3> HIDE DEF T
    <3> QED BY <1>8, <3>1, <3>2 DEF UpTo
  <2> QED BY <1>2, <2>1, FS_AddElement
<1> QED BY <1>1, <1>2, <1>4, <1>7, <1>8, <1>9

\* What holds first and is kept by each of n steps holds until the last.
LEMMA InductionUpTo ==
  ASSUME NEW n \in Nat, NEW T, 0 \in T,
         \A i \in 0 .. n - 1 : i \in T => i + 1 \in T
  PROVE  \A i \in 0 .. n : i \in T
<1> SUFFICES ASSUME NEW k \in 0 .. n, k \notin T PROVE FALSE
  OBVIOUS
<1> DEFINE U == {i \in 0 .. n : i \notin T}
<1>1. PICK i \in U : \A j \in U : i <= j
  <2>1. U \in SUBSET Nat /\ k \in U
    OBVIOUS
  <2> HIDE DEF U
  <2> QED BY <2>1, LeastOf
<1>2. i # 0 /\ i - 1 \in 0 .. n - 1
  BY <1>1
<1>3. i - 1 \in T
  BY <1>1, <1>2
<1> QED BY <1>1, <1>2, <1>3

\* The values of a loop of n rounds whose body F keeps S.
Iterates(g, n, base, F) ==
  g[0] = base /\ \A i \in 1 .. n : g[i] = F[<<i, g[i - 1]>>]

LEMMA IterationExists ==
  ASSUME NEW n \in Nat, NEW S, NEW base \in S, NEW F \in [(1 .. n) \X S -> S]
  PROVE  \E g \in [0 .. n -> S] : Iterates(g, n, base, F)
<1> DEFINE T == {k \in 0 .. n : \E g \in [0 .. k -> S] : Iterates(g, k, base, F)}
<1>1. 0 \in T
  <2> DEFINE g == [i \in 0 .. 0 |-> base]
  <2>1. g \in [0 .. 0 -> S] /\ Iterates(g, 0, base, F)
    BY DEF Iterates
  <2> QED BY <2>1
<1>2. ASSUME NEW k \in 0 .. n - 1, k \in T PROVE k + 1 \in T
  <2>1. PICK g \in [0 .. k -> S] : Iterates(g, k, base, F)
    BY <1>2
  <2>2. k \in Nat /\ k + 1 \in 1 .. n /\ k \in 0 .. k
    OBVIOUS
  <2> DEFINE next == F[<<k + 1, g[k]>>]
             h == [i \in 0 .. k + 1 |-> IF i = k + 1 THEN next ELSE g[i]]
  <2>3. next \in S
    <3>1. g[k] \in S
      BY <2>2
    <3>2. <<k + 1, g[k]>> \in (1 .. n) \X S
      BY <2>2, <3>1
    <3> QED BY <3>2
  <2>4. h \in [0 .. k + 1 -> S]
    <3>1. \A i \in 0 .. k + 1 : i # k + 1 => i \in 0 .. k
      BY <2>2
    <3> HIDE DEF next
    <3> QED BY <2>3, <3>1
  <2>5. Iterates(h, k + 1, base, F)
    <3>1. h[0] = base
      BY <2>1, <2>2 DEF Iterates
    <3>2. ASSUME NEW i \in 1 .. k + 1 PROVE h[i] = F[<<i, h[i - 1]>>]
      <4>1. i - 1 \in 0 .. k /\ h[i - 1] = g[i - 1]
        BY <2>2
      <4>2. CASE i = k + 1
        <5>1. i - 1 = k /\ h[i] = next
          BY <2>2, <4>2
        <5> HIDE DEF h
        <5> QED BY <4>1, <4>2, <5>1
      <4>3. CASE i # k + 1
        <5>1. i \in 1 .. k
          BY <2>2, <4>3
        <5>2. h[i] = g[i]
          BY <2>2, <4>3, <5>1
        <5>3. g[i] = F[<<i, g[i - 1]>>]
          BY <2>1, <5>1 DEF Iterates
        <5> QED BY <4>1, <5>2, <5>3
      <4> QED BY <4>2, <4>3
    <3> HIDE DEF h
    <3> QED BY <3>1, <3>2 DEF Iterates
  <2>6. k + 1 \in 0 .. n
    OBVIOUS
  <2> HIDE DEF h
  <2> QED BY <2>4, <2>5, <2>6
<1>3. n \in T
  <2> HIDE DEF T
  <2>1. \A i \in 0 .. n : i \in T
    BY <1>1, <1>2, InductionUpTo
  <2> QED BY <2>1
<1> QED BY <1>3

-----------------------------------------------------------------------------
LEMMA IntervalSize ==
  ASSUME NEW n \in Nat
  PROVE  IsFiniteSet(1 .. n) /\ Cardinality(1 .. n) = n
<1>1. 1 \in Int /\ n \in Int
  OBVIOUS
<1>2. Cardinality(1 .. n) = IF 1 > n THEN 0 ELSE n - 1 + 1
  BY <1>1, FS_Interval
<1> QED BY <1>1, <1>2, FS_Interval

(***************************************************************************)
(* Filters.                                                                *)
(***************************************************************************)
LEMMA UpToGrows ==
  ASSUME NEW length \in Nat, NEW K \in SUBSET (1 .. length), NEW i \in K, NEW j \in K, i < j
  PROVE  Cardinality(UpTo(K, i)) < Cardinality(UpTo(K, j))
<1>1. IsFiniteSet(K)
  <2>1. IsFiniteSet(1 .. length)
    BY FS_Interval
  <2> QED BY <2>1, FS_Subset
<1>2. \A m : IsFiniteSet(UpTo(K, m)) /\ Cardinality(UpTo(K, m)) \in Nat
  BY <1>1, FS_Subset, FS_CardinalityType DEF UpTo
<1>3. i \in Nat /\ j \in Nat /\ \A k \in K : k \in Nat
  OBVIOUS
<1>4. j \notin UpTo(K, i) /\ UpTo(K, i) \cup {j} \subseteq UpTo(K, j)
  <2>1. ~(j <= i) /\ j <= j /\ \A k \in K : k <= i => k <= j
    BY <1>3
  <2> QED BY <2>1 DEF UpTo
<1>5. Cardinality(UpTo(K, i) \cup {j}) = Cardinality(UpTo(K, i)) + 1
  BY <1>2, <1>4, FS_AddElement
<1>6. Cardinality(UpTo(K, i) \cup {j}) <= Cardinality(UpTo(K, j))
  BY <1>2, <1>4, FS_Subset
<1> QED BY <1>2, <1>5, <1>6

\* The entries of t are those of s at the positions K, in their order.
Picks(place, s, K, t) ==
  /\ \A n \in DOMAIN t : t[n] = s[place[n]]
  /\ \A m, n \in DOMAIN t : m < n => place[m] < place[n]
  /\ \A i \in K : \E n \in DOMAIN t : place[n] = i

LEMMA FilteredIs ==
  ASSUME NEW S, NEW s \in Seq(S), NEW K \in SUBSET DOMAIN s
  PROVE  /\ Filtered(s, K) \in Seq(S) /\ Len(Filtered(s, K)) <= Len(s)
         /\ Len(Filtered(s, K)) = Cardinality(K)
         /\ \E place \in [DOMAIN Filtered(s, K) -> K] : Picks(place, s, K, Filtered(s, K))
<1> DEFINE c == Cardinality(K)
           place == [n \in 1 .. c |-> CHOOSE i \in K : Cardinality(UpTo(K, i)) = n]
           t == [n \in 1 .. c |-> s[place[n]]]
<1>1. Len(s) \in Nat /\ DOMAIN s = 1 .. Len(s) /\ K \in SUBSET (1 .. Len(s))
  BY LenProperties
<1>2. IsFiniteSet(K) /\ c \in Nat /\ c <= Len(s)
  <2>1. IsFiniteSet(1 .. Len(s)) /\ Cardinality(1 .. Len(s)) = Len(s)
    BY <1>1, IntervalSize
  <2>2. IsFiniteSet(K) /\ Cardinality(K) <= Cardinality(1 .. Len(s))
    BY <1>1, <2>1, FS_Subset
  <2> QED BY <2>1, <2>2, FS_CardinalityType
<1>3. \A n \in 1 .. c : \E i \in K : Cardinality(UpTo(K, i)) = n
  BY <1>1, NthMember
<1>4. \A n \in 1 .. c : place[n] \in K /\ Cardinality(UpTo(K, place[n])) = n
  <2> HIDE DEF c
  <2> QED BY <1>3
<1>5. t = Filtered(s, K)
  BY DEF Filtered, UpTo
<1>6. \A n \in 1 .. c : s[place[n]] \in S /\ place[n] \in 1 .. Len(s)
  <2>1. \A i \in K : s[i] \in S /\ i \in 1 .. Len(s)
    BY <1>1, ElementOfSeq
  <2> HIDE DEF c, place
  <2> QED BY <1>4, <2>1
<1>7. t \in [1 .. c -> S]
  <2> HIDE DEF c, place
  <2> QED BY <1>6
<1>8. t \in Seq(S) /\ Len(t) = c /\ DOMAIN t = 1 .. c
  <2> HIDE DEF c, t
  <2>1. t \in Seq(S)
    BY <1>2, <1>7, SeqDef
  <2> QED BY <1>2, <1>7, <2>1, LenProperties
<1>9. place \in [1 .. c -> K]
  <2> DEFINE P(n) == CHOOSE i \in K : Cardinality(UpTo(K, i)) = n
  <2> HIDE DEF c
  <2>1. \A n \in 1 .. c : P(n) \in K
    BY <1>4
  <2>2. place = [n \in 1 .. c |-> P(n)]
    OBVIOUS
  <2> HIDE DEF P, place
  <2> QED BY <2>1, <2>2
<1>10. Picks(place, s, K, t)
  <2>0. \A n \in 1 .. c : t[n] = s[place[n]]
    OBVIOUS
  <2> HIDE DEF c, place, t
  <2>1. \A n \in DOMAIN t : t[n] = s[place[n]]
    BY <1>8, <2>0
  <2>2. ASSUME NEW m \in DOMAIN t, NEW n \in DOMAIN t, m < n PROVE place[m] < place[n]
    <3>1. m \in 1 .. c /\ n \in 1 .. c /\ place[m] \in Nat /\ place[n] \in Nat
      BY <1>1, <1>6, <1>8, <2>2
    <3>2. CASE place[n] < place[m]
      <4>1. Cardinality(UpTo(K, place[n])) < Cardinality(UpTo(K, place[m]))
        BY <1>1, <1>4, <3>1, <3>2, UpToGrows
      <4> QED BY <1>2, <1>4, <2>2, <3>1, <4>1
    <3>3. CASE place[n] = place[m]
      BY <1>2, <1>4, <2>2, <3>1, <3>3
    <3> QED BY <3>1, <3>2, <3>3
  <2>3. ASSUME NEW i \in K PROVE \E n \in DOMAIN t : place[n] = i
    <3> DEFINE n == Cardinality(UpTo(K, i))
    <3>1. n \in 1 .. c
      <4>1. UpTo(K, i) \subseteq K /\ i \in UpTo(K, i)
        BY <1>1, <2>3 DEF UpTo
      <4>2. n \in Nat /\ n <= c /\ n # 0
        BY <1>2, <4>1, FS_Subset, FS_CardinalityType, FS_EmptySet DEF c
      <4> QED BY <1>2, <4>2
    <3>2. place[n] \in K /\ Cardinality(UpTo(K, place[n])) = n
      BY <1>4, <3>1
    <3>3. place[n] \in Nat /\ i \in Nat
      BY <1>1, <3>2
    <3>4. ~(place[n] < i) /\ ~(i < place[n])
      <4>1. place[n] < i => n < n
        BY <1>1, <3>2, UpToGrows
      <4>2. i < place[n] => n < n
        BY <1>1, <3>2, UpToGrows
      <4> QED BY <1>2, <3>1, <4>1, <4>2
    <3>5. place[n] = i
      BY <3>3, <3>4
    <3> HIDE DEF n
    <3> QED BY <1>8, <3>1, <3>5
  <2> QED BY <2>1, <2>2, <2>3 DEF Picks
<1> HIDE DEF place, t
<1>11. place \in [DOMAIN t -> K]
  BY <1>8, <1>9
<1>12. \E p \in [DOMAIN t -> K] : Picks(p, s, K, t)
  BY <1>10, <1>11
<1> QED BY <1>2, <1>5, <1>8, <1>12

\* A filter that keeps all.
LEMMA FilteredAll ==
  ASSUME NEW S, NEW s \in Seq(S)
  PROVE  Filtered(s, DOMAIN s) = s
<1> DEFINE K == DOMAIN s
           place(n) == CHOOSE i \in K : Cardinality({j \in K : j <= i}) = n
<1>1. Len(s) \in Nat /\ K = 1 .. Len(s) /\ s = [n \in 1 .. Len(s) |-> s[n]]
  BY LenProperties
<1>2. ASSUME NEW i \in 1 .. Len(s) PROVE Cardinality({j \in 1 .. Len(s) : j <= i}) = i
  <2>1. {j \in 1 .. Len(s) : j <= i} = 1 .. i
    BY <1>1, <1>2
  <2>2. Cardinality(1 .. i) = i
    BY <1>1, IntervalSize
  <2> QED BY <2>1, <2>2
<1>3. Cardinality(K) = Len(s)
  <2>1. Cardinality(1 .. Len(s)) = Len(s)
    BY <1>1, IntervalSize
  <2> HIDE DEF K
  <2> QED BY <1>1, <2>1
<1>4. ASSUME NEW n \in 1 .. Len(s) PROVE place(n) = n
  <2> HIDE DEF K
  <2>1. \A i \in K : Cardinality({j \in K : j <= i}) = i
    BY <1>1, <1>2
  <2>2. \E i \in K : Cardinality({j \in K : j <= i}) = n
    BY <1>1, <2>1
  <2>3. place(n) \in K /\ Cardinality({j \in K : j <= place(n)}) = n
    BY <2>2
  <2> HIDE DEF place
  <2> QED BY <2>1, <2>3
<1>5. Filtered(s, K) = [n \in 1 .. Cardinality(K) |-> s[place(n)]]
  BY DEF Filtered
<1>6. [n \in 1 .. Len(s) |-> s[place(n)]] = [n \in 1 .. Len(s) |-> s[n]]
  <2> HIDE DEF K, place
  <2> QED BY <1>4
<1> HIDE DEF place
<1> QED BY <1>1, <1>3, <1>5, <1>6

-----------------------------------------------------------------------------
(***************************************************************************)
(* Sums.                                                                   *)
(***************************************************************************)
\* The sums of the beginnings of a list.
Sums(g, s) == g[0] = 0 /\ \A i \in 1 .. Len(s) : g[i] = g[i - 1] + s[i]

LEMMA SumsExist ==
  ASSUME NEW T \in {Nat, Int}, NEW s \in Seq(T)
  PROVE  \E g \in [0 .. Len(s) -> T] : Sums(g, s)
<1> DEFINE n == Len(s)
           F == [p \in (1 .. n) \X T |-> p[2] + s[p[1]]]
<1>1. n \in Nat /\ \A i \in 1 .. n : s[i] \in T
  BY LenProperties, ElementOfSeq
<1>2. F \in [(1 .. n) \X T -> T]
  <2>1. \A a, b \in T : a + b \in T
    OBVIOUS
  <2>2. ASSUME NEW p \in (1 .. n) \X T PROVE p[2] + s[p[1]] \in T
    <3>1. p[1] \in 1 .. n /\ p[2] \in T
      OBVIOUS
    <3> QED BY <1>1, <2>1, <3>1
  <2> QED BY <2>2
<1>3. 0 \in T
  OBVIOUS
<1>4. \A i \in 1 .. n, a \in T : F[<<i, a>>] = a + s[i]
  OBVIOUS
<1> HIDE DEF F, n
<1>5. PICK g \in [0 .. n -> T] : Iterates(g, n, 0, F)
  BY <1>1, <1>2, <1>3, IterationExists
<1>6. ASSUME NEW i \in 1 .. n PROVE g[i] = g[i - 1] + s[i]
  <2>1. i - 1 \in 0 .. n
    BY <1>1
  <2>2. g[i - 1] \in T /\ g[i] = F[<<i, g[i - 1]>>]
    BY <1>5, <2>1 DEF Iterates
  <2> QED BY <1>4, <2>2
<1>7. Sums(g, s)
  BY <1>5, <1>6 DEF Sums, Iterates, n
<1> QED BY <1>7 DEF n

LEMMA SumOfIs ==
  ASSUME NEW s \in Seq(Int), NEW g \in [0 .. Len(s) -> Int], Sums(g, s)
  PROVE  SumOf(s) = g[Len(s)]
<1> DEFINE n == Len(s)
           Q(h) == h = [i \in 0 .. Len(s) |-> IF i = 0 THEN 0 ELSE h[i - 1] + s[i]]
           to == CHOOSE h : Q(h)
           T == {i \in 0 .. n : to[i] = g[i]}
<1>1. n \in Nat
  BY LenProperties
<1>2. SumOf(s) = to[n]
  BY DEF SumOf
<1>3. Q(g)
  <2>1. \A i \in 0 .. Len(s) : g[i] = IF i = 0 THEN 0 ELSE g[i - 1] + s[i]
    BY <1>1 DEF Sums
  <2> QED BY <2>1
<1>4. Q(to)
  <2> HIDE DEF Q
  <2> QED BY <1>3
<1> HIDE DEF to
<1>5. 0 \in T
  BY <1>1, <1>4 DEF Sums
<1>6. ASSUME NEW i \in 0 .. n - 1, i \in T PROVE i + 1 \in T
  <2>1. i + 1 \in 1 .. n /\ i + 1 \in 0 .. n /\ i + 1 - 1 = i /\ i + 1 # 0
    BY <1>1
  <2>2. to[i + 1] = to[i] + s[i + 1]
    BY <1>4, <2>1
  <2>3. g[i + 1] = g[i] + s[i + 1]
    BY <2>1 DEF Sums
  <2> QED BY <1>6, <2>1, <2>2, <2>3
<1>7. n \in T
  <2> HIDE DEF T
  <2>1. \A i \in 0 .. n : i \in T
    BY <1>1, <1>5, <1>6, InductionUpTo
  <2> QED BY <1>1, <2>1
<1> QED BY <1>2, <1>7

LEMMA SumOfType ==
  ASSUME NEW T \in {Nat, Int}, NEW s \in Seq(T)
  PROVE  SumOf(s) \in T
<1>1. Len(s) \in Nat /\ s \in Seq(Int)
  BY LenProperties, SeqMonotonic
<1>2. PICK g \in [0 .. Len(s) -> T] : Sums(g, s)
  BY SumsExist
<1>3. g \in [0 .. Len(s) -> Int]
  BY <1>1
<1>4. SumOf(s) = g[Len(s)]
  BY <1>1, <1>2, <1>3, SumOfIs
<1> QED BY <1>1, <1>4

LEMMA SumOfEmpty == SumOf(<<>>) = 0
<1> DEFINE g == [i \in 0 .. 0 |-> 0]
<1>1. <<>> \in Seq(Int) /\ Len(<<>>) = 0
  BY EmptySeq
<1>2. g \in [0 .. Len(<<>>) -> Int] /\ Sums(g, <<>>)
  BY <1>1 DEF Sums
<1>3. SumOf(<<>>) = g[Len(<<>>)]
  BY <1>1, <1>2, SumOfIs
<1> QED BY <1>1, <1>3

LEMMA SumOfPart ==
  ASSUME NEW s \in Seq(Int), NEW g \in [0 .. Len(s) -> Int], Sums(g, s),
         NEW a \in 0 .. Len(s), NEW b \in a .. Len(s)
  PROVE  SumOf(SubSeq(s, a + 1, b)) = g[b] - g[a]
<1> DEFINE t == SubSeq(s, a + 1, b)
           h == [i \in 0 .. Len(t) |-> g[a + i] - g[a]]
<1>1. Len(s) \in Nat /\ a \in Nat /\ b \in Nat /\ a <= b /\ b <= Len(s)
  BY LenProperties
<1>2. \A i \in a + 1 .. b : s[i] \in Int
  BY <1>1, ElementOfSeq
<1>3. t \in Seq(Int) /\ Len(t) = b - a /\ \A i \in 1 .. b - a : t[i] = s[a + i]
  <2>1. a + 1 \in Int /\ b \in Int
    BY <1>1
  <2>2. /\ t \in Seq(Int)
        /\ Len(t) = (IF a + 1 <= b THEN b - (a + 1) + 1 ELSE 0)
        /\ \A i \in 1 .. b - (a + 1) + 1 : t[i] = s[a + 1 + i - 1]
    BY <1>2, <2>1, SubSeqProperties
  <2> HIDE DEF t
  <2>3. b - (a + 1) + 1 = b - a /\ \A i \in 1 .. b - a : a + 1 + i - 1 = a + i
    BY <1>1
  <2> QED BY <1>1, <2>2, <2>3
<1> HIDE DEF t
<1>4. \A i \in 0 .. Len(t) : a + i \in 0 .. Len(s) /\ g[a + i] \in Int /\ g[a] \in Int
  BY <1>1, <1>3
<1>5. h \in [0 .. Len(t) -> Int]
  BY <1>4
<1>6. Sums(h, t)
  <2>1. h[0] = 0
    <3>1. 0 \in 0 .. Len(t) /\ a + 0 = a
      BY <1>1, <1>3
    <3>2. h[0] = g[a] - g[a] /\ g[a] \in Int
      BY <1>4, <3>1
    <3> HIDE DEF h
    <3> QED BY <3>2
  <2>2. ASSUME NEW i \in 1 .. Len(t) PROVE h[i] = h[i - 1] + t[i]
    <3>1. a + i \in 1 .. Len(s) /\ i - 1 \in 0 .. Len(t) /\ i \in 0 .. Len(t) /\ a + i - 1 = a + (i - 1) /\ i \in 1 .. b - a
      BY <1>1, <1>3
    <3>2. g[a + i] = g[a + (i - 1)] + s[a + i]
      BY <3>1 DEF Sums
    <3>3. t[i] = s[a + i] /\ s[a + i] \in Int
      BY <1>3, <3>1, ElementOfSeq
    <3>4. h[i] = g[a + i] - g[a] /\ h[i - 1] = g[a + (i - 1)] - g[a]
      BY <3>1
    <3>5. g[a] \in Int /\ g[a + (i - 1)] \in Int /\ g[a + i] \in Int
      BY <1>4, <3>1
    <3>6. \A v, w, x, y \in Int : v = w + x => v - y = (w - y) + x
      OBVIOUS
    <3>7. g[a + i] - g[a] = (g[a + (i - 1)] - g[a]) + s[a + i]
      BY <3>2, <3>3, <3>5, <3>6
    <3> HIDE DEF h
    <3> QED BY <3>3, <3>4, <3>7
  <2> HIDE DEF h
  <2> QED BY <2>1, <2>2 DEF Sums
<1>7. SumOf(t) = h[Len(t)] /\ Len(t) \in 0 .. Len(t) /\ a + Len(t) = b
  <2> HIDE DEF h
  <2>1. SumOf(t) = h[Len(t)]
    BY <1>3, <1>5, <1>6, SumOfIs
  <2> QED BY <1>1, <1>3, <2>1
<1> QED BY <1>7 DEF t

LEMMA PartIs ==
  ASSUME NEW S, NEW u, NEW m \in Nat, NEW n \in Nat, \A i \in 1 .. m + n : u[i] \in S
  PROVE  /\ SubSeq(u, m + 1, m + n) \in Seq(S) /\ Len(SubSeq(u, m + 1, m + n)) = n
         /\ \A i \in 1 .. n : SubSeq(u, m + 1, m + n)[i] = u[m + i]
<1>1. m + 1 \in Int /\ m + n \in Int /\ \A i \in m + 1 .. m + n : u[i] \in S
  OBVIOUS
<1>2. /\ SubSeq(u, m + 1, m + n) \in Seq(S)
      /\ Len(SubSeq(u, m + 1, m + n)) = (IF m + 1 <= m + n THEN m + n - (m + 1) + 1 ELSE 0)
      /\ \A i \in 1 .. m + n - (m + 1) + 1 : SubSeq(u, m + 1, m + n)[i] = u[m + 1 + i - 1]
  BY <1>1, SubSeqProperties
<1>3. m + n - (m + 1) + 1 = n /\ (m + 1 <= m + n <=> 1 <= n)
  OBVIOUS
<1>4. ASSUME NEW i \in 1 .. n PROVE SubSeq(u, m + 1, m + n)[i] = u[m + i]
  <2>1. m + 1 + i - 1 = m + i
    OBVIOUS
  <2> QED BY <1>2, <1>3, <2>1
<1> QED BY <1>2, <1>3, <1>4

LEMMA PartsOfConcat ==
  ASSUME NEW S, NEW s \in Seq(S), NEW t \in Seq(S)
  PROVE  SubSeq(s \o t, 1, Len(s)) = s /\ SubSeq(s \o t, Len(s) + 1, Len(s) + Len(t)) = t
<1>1. PICK u : u = s \o t
  OBVIOUS
<1>2. PICK m \in Nat : m = Len(s)
  BY LenProperties
<1>3. PICK n \in Nat : n = Len(t)
  BY LenProperties
<1>4. u \in Seq(S) /\ Len(u) = m + n /\ \A i \in 1 .. m + n : u[i] = IF i <= m THEN s[i] ELSE t[i - m]
  BY <1>1, <1>2, <1>3, ConcatProperties
<1>5. \A i \in 1 .. m + n : u[i] \in S
  BY <1>4, ElementOfSeq
<1>6. SubSeq(u, 1, m) = s
  <2>1. SubSeq(u, 0 + 1, 0 + m) \in Seq(S) /\ Len(SubSeq(u, 0 + 1, 0 + m)) = m
        /\ \A i \in 1 .. m : SubSeq(u, 0 + 1, 0 + m)[i] = u[0 + i]
    <3>1. \A i \in 1 .. 0 + m : u[i] \in S
      BY <1>5
    <3> QED BY <3>1, PartIs
  <2>2. 0 + 1 = 1 /\ 0 + m = m /\ \A i \in 1 .. m : 0 + i = i /\ u[i] = s[i]
    BY <1>4
  <2>3. SubSeq(u, 1, m) \in Seq(S) /\ Len(SubSeq(u, 1, m)) = m /\ \A i \in 1 .. m : SubSeq(u, 1, m)[i] = s[i]
    BY <2>1, <2>2
  <2> QED BY <1>2, <2>3, SeqEqual
<1>7. SubSeq(u, m + 1, m + n) = t
  <2>1. SubSeq(u, m + 1, m + n) \in Seq(S) /\ Len(SubSeq(u, m + 1, m + n)) = n
        /\ \A i \in 1 .. n : SubSeq(u, m + 1, m + n)[i] = u[m + i]
    BY <1>5, PartIs
  <2>2. ASSUME NEW i \in 1 .. n PROVE u[m + i] = t[i]
    <3>1. m + i \in 1 .. m + n /\ ~(m + i <= m) /\ m + i - m = i
      OBVIOUS
    <3> QED BY <1>4, <3>1
  <2> QED BY <1>3, <2>1, <2>2, SeqEqual
<1> QED BY <1>1, <1>2, <1>3, <1>6, <1>7

LEMMA SumOfConcat ==
  ASSUME NEW s \in Seq(Int), NEW t \in Seq(Int)
  PROVE  SumOf(s \o t) = SumOf(s) + SumOf(t)
<1> DEFINE u == s \o t
           m == Len(s)
           n == Len(t)
<1>1. m \in Nat /\ n \in Nat /\ u \in Seq(Int) /\ Len(u) = m + n
  BY LenProperties, ConcatProperties
<1>2. SubSeq(u, 1, m) = s /\ SubSeq(u, m + 1, m + n) = t
  BY PartsOfConcat
<1> HIDE DEF u, m, n
<1>3. PICK g \in [0 .. Len(u) -> Int] : Sums(g, u)
  BY <1>1, SumsExist
<1>4. SumOf(u) = g[m + n]
  BY <1>1, <1>3, SumOfIs
<1>5. SumOf(SubSeq(u, 0 + 1, m)) = g[m] - g[0]
  <2>1. 0 \in 0 .. Len(u) /\ m \in 0 .. Len(u)
    BY <1>1
  <2> QED BY <1>1, <1>3, <2>1, SumOfPart
<1>6. SumOf(SubSeq(u, m + 1, m + n)) = g[m + n] - g[m]
  <2>1. m \in 0 .. Len(u) /\ m + n \in m .. Len(u)
    BY <1>1
  <2> QED BY <1>1, <1>3, <2>1, SumOfPart
<1>7. g[0] = 0 /\ g[m] \in Int /\ g[m + n] \in Int
  <2>1. m \in 0 .. Len(u) /\ m + n \in 0 .. Len(u)
    BY <1>1
  <2> QED BY <1>3, <2>1 DEF Sums
<1>8. SumOf(s) = g[m]
  <2>1. SumOf(s) = g[m] - g[0]
    BY <1>2, <1>5, 0 + 1 = 1
  <2>2. \A x \in Int : x - 0 = x
    OBVIOUS
  <2> QED BY <1>7, <2>1, <2>2
<1>9. SumOf(t) = g[m + n] - g[m]
  BY <1>2, <1>6
<1>10. SumOf(u) = SumOf(s) + SumOf(t)
  BY <1>4, <1>7, <1>8, <1>9
<1> QED BY <1>10 DEF u

LEMMA SumOfOne ==
  ASSUME NEW x \in Int
  PROVE  SumOf(<<x>>) = x
<1> DEFINE g == [i \in 0 .. 1 |-> IF i = 0 THEN 0 ELSE x]
<1>1. <<x>> \in Seq(Int) /\ Len(<<x>>) = 1 /\ <<x>>[1] = x
  OBVIOUS
<1>2. g \in [0 .. 1 -> Int] /\ g[0] = 0 /\ g[1] = x
  OBVIOUS
<1> HIDE DEF g
<1>3. Sums(g, <<x>>)
  BY <1>1, <1>2 DEF Sums
<1> QED BY <1>1, <1>2, <1>3, SumOfIs

LEMMA SumOfAppend ==
  ASSUME NEW s \in Seq(Int), NEW x \in Int
  PROVE  SumOf(Append(s, x)) = SumOf(s) + x
<1>1. Append(s, x) = s \o <<x>> /\ <<x>> \in Seq(Int)
  OBVIOUS
<1> QED BY <1>1, SumOfOne, SumOfConcat

-----------------------------------------------------------------------------
(***************************************************************************)
(* Sorting: the ranks of the members of a set, by a key they do not share. *)
(***************************************************************************)
LEMMA ImageSize ==
  ASSUME NEW A, IsFiniteSet(A), NEW f, \A x, y \in A : f[x] = f[y] => x = y
  PROVE  IsFiniteSet({f[x] : x \in A}) /\ Cardinality({f[x] : x \in A}) = Cardinality(A)
<1> DEFINE B == {f[x] : x \in A}
           h == [x \in A |-> f[x]]
<1>1. h \in [A -> B] /\ (\A x, y \in A : h[x] = h[y] => x = y) /\ \A z \in B : \E x \in A : h[x] = z
  OBVIOUS
<1> HIDE DEF h, B
<1>2. h \in Bijection(A, B)
  BY <1>1 DEF Bijection, Injection, Surjection, IsInjective
<1>3. ExistsBijection(A, B)
  BY <1>2 DEF ExistsBijection
<1>4. IsFiniteSet(B) /\ Cardinality(B) = Cardinality(A)
  BY <1>3, FS_Bijection
<1> QED BY <1>4 DEF B

\* Those that have c's key or exceed it.
Reach(C, key, c) == {d \in C : key[d] >= key[c]}

LEMMA RankIs ==
  ASSUME NEW C, IsFiniteSet(C), NEW top \in Nat, NEW key \in [C -> 1 .. top],
         \A c, d \in C : key[c] = key[d] => c = d
  PROVE  /\ \A n \in 1 .. Cardinality(C) : \E c \in C : Cardinality(Reach(C, key, c)) = n
         /\ \A c \in C : Cardinality(Reach(C, key, c)) \in 1 .. Cardinality(C)
         /\ \A c, d \in C : key[c] > key[d] => Cardinality(Reach(C, key, c)) < Cardinality(Reach(C, key, d))
<1> DEFINE f == [c \in C |-> top + 1 - key[c]]
           K == {f[c] : c \in C}
<1>1. \A c \in C : key[c] \in Nat /\ 1 <= key[c] /\ key[c] <= top
  OBVIOUS
<1>2. \A c \in C : f[c] = top + 1 - key[c] /\ f[c] \in 1 .. top
  BY <1>1
<1>3. \A c, d \in C : f[c] = f[d] => c = d
  BY <1>1, <1>2
<1>4. \A c, d \in C : (f[d] <= f[c] <=> key[d] >= key[c]) /\ (f[c] < f[d] <=> key[c] > key[d])
  BY <1>1, <1>2
<1> HIDE DEF f
<1>5. K \in SUBSET (1 .. top) /\ Cardinality(K) = Cardinality(C) /\ Cardinality(C) \in Nat
  BY <1>2, <1>3, ImageSize, FS_CardinalityType
<1>6. ASSUME NEW c \in C PROVE Cardinality(UpTo(K, f[c])) = Cardinality(Reach(C, key, c))
  <2> DEFINE R == Reach(C, key, c)
  <2>1. UpTo(K, f[c]) = {f[d] : d \in R}
    BY <1>4 DEF UpTo, Reach
  <2>2. IsFiniteSet(R) /\ \A x, y \in R : f[x] = f[y] => x = y
    BY <1>3, FS_Subset DEF Reach
  <2> HIDE DEF R
  <2>3. Cardinality({f[d] : d \in R}) = Cardinality(R)
    BY <2>2, ImageSize
  <2> QED BY <2>1, <2>3 DEF R
<1> DEFINE rank == [c \in C |-> Cardinality(Reach(C, key, c))]
<1>7. \A n \in 1 .. Cardinality(C) : \E c \in C : Cardinality(Reach(C, key, c)) = n
  <2> SUFFICES ASSUME NEW n \in 1 .. Cardinality(C) PROVE \E c \in C : Cardinality(Reach(C, key, c)) = n
    OBVIOUS
  <2>1. n \in 1 .. Cardinality(K)
    BY <1>5
  <2> HIDE DEF K
  <2>2. PICK i \in K : Cardinality(UpTo(K, i)) = n
    BY <1>5, <2>1, NthMember
  <2>3. PICK c \in C : i = f[c]
    BY <2>2 DEF K
  <2> QED BY <1>6, <2>2, <2>3
<1>8. ASSUME NEW c \in C PROVE Cardinality(Reach(C, key, c)) \in 1 .. Cardinality(C)
  <2> DEFINE R == Reach(C, key, c)
  <2>1. R \subseteq C /\ c \in R
    BY <1>1 DEF Reach
  <2> HIDE DEF R
  <2>2. IsFiniteSet(R) /\ Cardinality(R) <= Cardinality(C)
    BY <2>1, FS_Subset
  <2>3. Cardinality(R) \in Nat /\ Cardinality(R) # 0
    BY <2>1, <2>2, FS_CardinalityType, FS_EmptySet
  <2>4. Cardinality(R) \in 1 .. Cardinality(C)
    BY <1>5, <2>2, <2>3
  <2> QED BY <2>4 DEF R
<1>9. ASSUME NEW c \in C, NEW d \in C, key[c] > key[d]
      PROVE  Cardinality(Reach(C, key, c)) < Cardinality(Reach(C, key, d))
  <2>1. f[c] \in K /\ f[d] \in K /\ f[c] < f[d]
    BY <1>4, <1>9
  <2> HIDE DEF K
  <2>2. Cardinality(UpTo(K, f[c])) < Cardinality(UpTo(K, f[d]))
    BY <1>5, <2>1, UpToGrows
  <2> QED BY <1>6, <2>2
<1> QED BY <1>7, <1>8, <1>9
=============================================================================
