---------------------------- MODULE EpicProofs ------------------------------
(***************************************************************************)
(* Proofs about EpicRuns for every epic: any number of stories, any        *)
(* dependencies, files, gates and failures, any number of runs and of      *)
(* operations of users.                                                    *)
(***************************************************************************)
EXTENDS EpicRuns, FiniteSetTheorems, WellFoundedInduction, TLAPS

-----------------------------------------------------------------------------
(* BuildDAG for every epic: the induction over Kahn's rounds that the layers *)
(* and the error rest on.  There is no bound on the number of stories.      *)

(* The least element of a nonempty set of naturals: the inductions below    *)
(* look at the least counterexample.                                        *)
LEMMA LeastNatural ==
    ASSUME NEW T, T \subseteq Nat, T # {}
    PROVE  \E m \in T : \A k \in T : m <= k
<1>1. PICK u \in T : TRUE
  OBVIOUS
<1> DEFINE Initial == {s \in SUBSET (0..u) : \E n \in T : s = 0..n}
<1>2. Initial # {}
  OBVIOUS
<1>3. Initial \subseteq FiniteSubsetsOf(0..u)
  <2>1. IsFiniteSet(0..u)
    BY FS_Interval
  <2> QED BY <2>1, FS_FiniteSubsetsOfFinite
<1>4. \E x \in Initial : \A y \in Initial : <<y, x>> \notin StrictSubsetOrdering(0..u)
  <2> HIDE DEF Initial
  <2> QED BY <1>2, <1>3, FS_StrictSubsetOrderingWellFounded, WFMin
<1>5. PICK x \in Initial : \A y \in Initial : ~(y \subseteq x /\ y # x)
  <2>1. \A y \in Initial : y \in SUBSET (0..u)
    OBVIOUS
  <2>2. PICK x \in Initial : \A y \in Initial : <<y, x>> \notin StrictSubsetOrdering(0..u)
    BY <1>4
  <2> HIDE DEF Initial
  <2>3. ASSUME NEW y \in Initial, y \subseteq x, y # x
        PROVE  FALSE
    <3>1. <<y, x>> \in (SUBSET (0..u)) \X (SUBSET (0..u))
      BY <2>1
    <3>2. <<y, x>> \in StrictSubsetOrdering(0..u)
      BY <3>1, <2>3 DEF StrictSubsetOrdering
    <3> QED BY <2>2, <3>2
  <2> QED BY <2>3
<1>6. PICK m \in T : x = 0..m
  OBVIOUS
<1>7. ASSUME NEW k \in T, k < m
      PROVE  FALSE
  <2>1. (0..k) \in Initial /\ (0..k) \subseteq x /\ m \in x /\ m \notin 0..k
    BY <1>6, <1>7
  <2> QED BY <2>1, <1>5
<1> QED BY <1>7

LEMMA RemainingDefined ==
    ASSUME NEW all, NEW edges, IsFiniteSet(all)
    PROVE  Remaining(all, edges) = [i \in 0..Cardinality(all) |->
              IF i = 0 THEN all
              ELSE Remaining(all, edges)[i - 1] \ ZeroInDegree(Remaining(all, edges)[i - 1], edges)]
<1> DEFINE n == Cardinality(all)
           Rec(f, m) == f = [i \in 0..m |-> IF i = 0 THEN all
                                ELSE f[i - 1] \ ZeroInDegree(f[i - 1], edges)]
<1>1. n \in Nat
  BY FS_CardinalityType
<1> HIDE DEF n
<1>2. \A m \in Nat : \E f : Rec(f, m)
  <2> DEFINE Bad == {m \in Nat : ~\E f : Rec(f, m)}
  <2>1. ASSUME Bad # {}
        PROVE  FALSE
    <3>1. PICK m \in Bad : \A k \in Bad : m <= k
      BY <2>1, LeastNatural
    <3>2. CASE m = 0
      <4>1. Rec([i \in 0..0 |-> all], 0)
        OBVIOUS
      <4> QED BY <4>1, <3>2
    <3>3. CASE m # 0
      <4>1. m - 1 \in Nat /\ m - 1 \notin Bad
        <5>1. m \in Nat /\ m - 1 \in Nat /\ ~(m <= m - 1)
          BY <3>3
        <5> HIDE DEF Bad
        <5> QED BY <5>1, <3>1
      <4>2. PICK f : Rec(f, m - 1)
        BY <4>1
      <4> HIDE DEF Rec
      <4>r. f = [i \in 0..(m - 1) |-> IF i = 0 THEN all
                                ELSE f[i - 1] \ ZeroInDegree(f[i - 1], edges)]
        BY <4>2 DEF Rec
      <4>m. m \in Nat \ {0}
        BY <3>3
      <4> DEFINE g == [i \in 0..m |-> IF i = 0 THEN all
                                ELSE f[i - 1] \ ZeroInDegree(f[i - 1], edges)]
      <4>3. \A i \in 0..(m - 1) : g[i] = f[i]
        <5>1. ASSUME NEW i \in 0..(m - 1)
              PROVE  g[i] = f[i]
          <6>1. i \in 0..m
            BY <4>m
          <6> QED BY <6>1, <4>r, Zenon
        <5> QED BY <5>1
      <4> HIDE DEF g
      <4>4. Rec(g, m)
        <5>1. \A i \in 0..m : i # 0 => i - 1 \in 0..(m - 1)
          BY <4>m
        <5>2. \A i \in 0..m : i # 0 => g[i - 1] = f[i - 1]
          BY <4>3, <5>1
        <5>3. g = [i \in 0..m |-> IF i = 0 THEN all
                                 ELSE f[i - 1] \ ZeroInDegree(f[i - 1], edges)]
          BY DEF g
        <5>4. g = [i \in 0..m |-> IF i = 0 THEN all
                                 ELSE g[i - 1] \ ZeroInDegree(g[i - 1], edges)]
          BY <5>2, <5>3
        <5> QED BY <5>4 DEF Rec
      <4> QED BY <4>4
    <3> QED BY <3>2, <3>3
  <2> QED BY <2>1
<1>3. \E f : Rec(f, n)
  BY <1>1, <1>2
<1>4. Rec(CHOOSE f : Rec(f, n), n)
  BY <1>3
<1>5. Remaining(all, edges) = CHOOSE f : Rec(f, n)
  BY DEF Remaining, n
<1> QED
  BY <1>4, <1>5 DEF n

LEMMA RemainingSteps ==
    ASSUME NEW all, NEW edges, IsFiniteSet(all)
    PROVE  /\ Cardinality(all) \in Nat
           /\ Remaining(all, edges)[0] = all
           /\ \A i \in 0..(Cardinality(all) - 1) :
                Remaining(all, edges)[i + 1] =
                  Remaining(all, edges)[i] \ ZeroInDegree(Remaining(all, edges)[i], edges)
<1> DEFINE n == Cardinality(all)
           rest == Remaining(all, edges)
<1>1. n \in Nat
  BY FS_CardinalityType
<1>2. rest = [i \in 0..n |-> IF i = 0 THEN all
                            ELSE rest[i - 1] \ ZeroInDegree(rest[i - 1], edges)]
  BY RemainingDefined
<1> HIDE DEF n, rest
<1>3. rest[0] = all
  BY <1>1, <1>2
<1>4. ASSUME NEW i \in 0..(n - 1)
      PROVE  rest[i + 1] = rest[i] \ ZeroInDegree(rest[i], edges)
  <2>1. i + 1 \in 0..n /\ i + 1 # 0 /\ (i + 1) - 1 = i
    BY <1>1
  <2> DEFINE j == i + 1
  <2>2. j \in 0..n /\ j # 0 /\ j - 1 = i
    BY <2>1
  <2> HIDE DEF j
  <2>3. rest[j] = rest[j - 1] \ ZeroInDegree(rest[j - 1], edges)
    BY <1>2, <2>2, Zenon
  <2> QED BY <2>2, <2>3 DEF j
<1> QED BY <1>1, <1>3, <1>4 DEF n, rest

LEMMA RemainingShrinks ==
    ASSUME NEW all, NEW edges, IsFiniteSet(all),
           NEW i \in 0..Cardinality(all), NEW j \in 0..Cardinality(all), i <= j
    PROVE  /\ Remaining(all, edges)[j] \subseteq Remaining(all, edges)[i]
           /\ Remaining(all, edges)[i] \subseteq all
<1> DEFINE n == Cardinality(all)
           rest == Remaining(all, edges)
<1>1. /\ n \in Nat
      /\ rest[0] = all
      /\ \A k \in 0..(n - 1) : rest[k + 1] \subseteq rest[k]
  BY RemainingSteps
<1> HIDE DEF n, rest
<1>2. ASSUME NEW a \in 0..n, NEW b \in 0..n, a <= b, ~(rest[b] \subseteq rest[a])
      PROVE  FALSE
  <2> DEFINE Bad == {k \in a..n : ~(rest[k] \subseteq rest[a])}
  <2>1. PICK k \in Bad : \A l \in Bad : k <= l
    <3>1. Bad \subseteq Nat /\ b \in Bad
      BY <1>1, <1>2
    <3> HIDE DEF Bad
    <3> QED BY <3>1, LeastNatural
  <2>2. k # a /\ k \in a..n
    OBVIOUS
  <2>3. k - 1 \in a..n /\ k - 1 \in 0..(n - 1) /\ (k - 1) + 1 = k /\ ~(k <= k - 1)
    BY <1>1, <2>2
  <2>4. k - 1 \notin Bad
    <3> HIDE DEF Bad
    <3> QED BY <2>1, <2>3
  <2>5. rest[k - 1] \subseteq rest[a]
    BY <2>3, <2>4
  <2>6. rest[k] \subseteq rest[k - 1]
    <3>1. rest[(k - 1) + 1] \subseteq rest[k - 1]
      BY <1>1, <2>3
    <3> QED BY <3>1, <2>3
  <2> QED BY <2>5, <2>6
<1>3. i \in 0..n /\ j \in 0..n /\ 0 \in 0..n /\ 0 <= i
  BY <1>1 DEF n
<1>4. rest[j] \subseteq rest[i]
  BY <1>2, <1>3
<1>5. rest[i] \subseteq rest[0]
  BY <1>2, <1>3
<1> QED BY <1>1, <1>4, <1>5 DEF rest

(* Stories are left over exactly when some of them wait for each other.     *)
LEMMA RemainingIsCyclic ==
    ASSUME NEW all, NEW edges, IsFiniteSet(all)
    PROVE  Remaining(all, edges)[Cardinality(all)] # {}
             <=> \E S \in SUBSET all : S # {} /\ \A s \in S : \E p \in S : <<p, s>> \in edges
<1> DEFINE n == Cardinality(all)
           rest == Remaining(all, edges)
           Knot(S) == \A s \in S : \E p \in S : <<p, s>> \in edges
<1>1. /\ n \in Nat
      /\ rest[0] = all
      /\ \A k \in 0..(n - 1) : rest[k + 1] = rest[k] \ ZeroInDegree(rest[k], edges)
  BY RemainingSteps
<1>2. \A i, j \in 0..n : i <= j => rest[j] \subseteq rest[i] /\ rest[i] \subseteq all
  BY RemainingShrinks
<1>n. n = Cardinality(all)
  OBVIOUS
<1> HIDE DEF n, rest
<1>3. ASSUME NEW S \in SUBSET all, Knot(S), NEW i \in 0..n
      PROVE  S \subseteq rest[i]
  <2> DEFINE Bad == {k \in 0..n : ~(S \subseteq rest[k])}
  <2>1. ASSUME Bad # {}
        PROVE  FALSE
    <3>1. PICK k \in Bad : \A l \in Bad : k <= l
      <4>1. Bad \subseteq Nat
        OBVIOUS
      <4> HIDE DEF Bad
      <4> QED BY <4>1, <2>1, LeastNatural
    <3>2. k # 0 /\ k \in 0..n
      BY <1>1
    <3>3. k - 1 \in 0..n /\ k - 1 \in 0..(n - 1) /\ (k - 1) + 1 = k /\ ~(k <= k - 1)
      BY <1>1, <3>2
    <3>4. k - 1 \notin Bad
      <4> HIDE DEF Bad
      <4> QED BY <3>1, <3>3
    <3>5. S \subseteq rest[k - 1]
      BY <3>3, <3>4
    <3>6. rest[k] = rest[k - 1] \ ZeroInDegree(rest[k - 1], edges)
      <4>1. rest[(k - 1) + 1] = rest[k - 1] \ ZeroInDegree(rest[k - 1], edges)
        BY <1>1, <3>3
      <4> QED BY <4>1, <3>3
    <3>7. S \subseteq rest[k]
      BY <1>3, <3>5, <3>6 DEF ZeroInDegree
    <3> QED BY <3>7
  <2> QED BY <2>1
<1>4. ASSUME NEW i \in 0..(n - 1), rest[i + 1] = rest[i]
      PROVE  Knot(rest[i])
  BY <1>1, <1>4 DEF ZeroInDegree
<1>5. ASSUME \A i \in 0..(n - 1) : rest[i + 1] # rest[i]
      PROVE  rest[n] = {}
  <2> DEFINE Bad == {k \in 0..n : ~(Cardinality(rest[k]) <= n - k)}
  <2>0. \A k \in 0..n : IsFiniteSet(rest[k]) /\ Cardinality(rest[k]) \in Nat
    BY <1>2, FS_Subset, FS_CardinalityType
  <2>1. ASSUME Bad # {}
        PROVE  FALSE
    <3>1. PICK k \in Bad : \A l \in Bad : k <= l
      <4>1. Bad \subseteq Nat
        OBVIOUS
      <4> HIDE DEF Bad
      <4> QED BY <4>1, <2>1, LeastNatural
    <3>2. k # 0 /\ k \in 0..n
      BY <1>1, <1>n
    <3>3. k - 1 \in 0..n /\ k - 1 \in 0..(n - 1) /\ (k - 1) + 1 = k /\ ~(k <= k - 1)
      BY <1>1, <3>2
    <3>4. k - 1 \notin Bad
      <4> HIDE DEF Bad
      <4> QED BY <3>1, <3>3
    <3>5. Cardinality(rest[k - 1]) <= n - (k - 1)
      BY <3>3, <3>4
    <3>6. rest[k] \subseteq rest[k - 1] /\ rest[k] # rest[k - 1]
      <4>1. rest[(k - 1) + 1] # rest[k - 1]
        BY <1>5, <3>3
      <4>2. k - 1 <= k
        BY <3>2
      <4> QED BY <4>1, <4>2, <1>2, <3>2, <3>3
    <3>7. /\ Cardinality(rest[k]) <= Cardinality(rest[k - 1])
          /\ Cardinality(rest[k]) # Cardinality(rest[k - 1])
      BY <2>0, <3>3, <3>6, FS_Subset
    <3>8. Cardinality(rest[k]) \in Nat /\ Cardinality(rest[k - 1]) \in Nat
      BY <2>0, <3>2, <3>3
    <3>9. Cardinality(rest[k]) <= n - k
      BY <1>1, <3>2, <3>5, <3>7, <3>8
    <3> QED BY <3>9
  <2>2. n \in 0..n /\ n \notin Bad
    <3>1. n \in 0..n
      BY <1>1
    <3> HIDE DEF Bad
    <3> QED BY <3>1, <2>1
  <2>3. Cardinality(rest[n]) <= n - n
    BY <2>2
  <2>4. Cardinality(rest[n]) = 0
    BY <2>0, <2>2, <2>3, <1>1
  <2> QED BY <2>0, <2>2, <2>4, FS_EmptySet
<1>6. ASSUME rest[n] # {}
      PROVE  \E S \in SUBSET all : S # {} /\ Knot(S)
  <2>1. PICK i \in 0..(n - 1) : rest[i + 1] = rest[i]
    BY <1>5, <1>6
  <2>2. i \in 0..n /\ n \in 0..n /\ i <= n
    BY <1>1
  <2>3. rest[n] \subseteq rest[i] /\ rest[i] \subseteq all
    BY <2>2, <1>2
  <2>4. Knot(rest[i])
    BY <1>4, <2>1
  <2> QED BY <1>6, <2>3, <2>4
<1>7. ASSUME NEW S \in SUBSET all, S # {}, Knot(S)
      PROVE  rest[n] # {}
  <2>1. n \in 0..n
    BY <1>1
  <2>2. S \subseteq rest[n]
    BY <2>1, <1>3, <1>7
  <2> QED BY <1>7, <2>2
<1>8. rest[n] # {} <=> \E S \in SUBSET all : S # {} /\ Knot(S)
  BY <1>6, <1>7
<1> QED BY <1>8 DEF n, rest

(* When none is left, the layer of a story is the one index at which it     *)
(* goes, edges lead from lower to higher layers and no layer in between is  *)
(* empty.                                                                   *)
LayerOf(all, edges, s) ==
    CHOOSE i \in 0..(Cardinality(all) - 1) :
      s \in Remaining(all, edges)[i] \ Remaining(all, edges)[i + 1]

LEMMA LayerExists ==
    ASSUME NEW all, NEW edges, IsFiniteSet(all),
           Remaining(all, edges)[Cardinality(all)] = {},
           NEW s \in all
    PROVE  /\ LayerOf(all, edges, s) \in 0..(Cardinality(all) - 1)
           /\ s \in Remaining(all, edges)[LayerOf(all, edges, s)]
           /\ s \notin Remaining(all, edges)[LayerOf(all, edges, s) + 1]
<1> DEFINE n == Cardinality(all)
           rest == Remaining(all, edges)
           Bad == {k \in 0..n : s \notin rest[k]}
<1>1. n \in Nat /\ rest[0] = all
  BY RemainingSteps
<1>2. n \in Bad
  BY <1>1
<1>3. PICK k \in Bad : \A l \in Bad : k <= l
  <2>1. Bad \subseteq Nat
    OBVIOUS
  <2> HIDE DEF Bad
  <2> QED BY <1>2, <2>1, LeastNatural
<1> HIDE DEF n, rest
<1>4. k # 0 /\ k \in 0..n
  BY <1>1
<1>5. k - 1 \in 0..n /\ k - 1 \in 0..(n - 1) /\ (k - 1) + 1 = k /\ ~(k <= k - 1)
  BY <1>1, <1>4
<1>6. k - 1 \notin Bad
  <2> HIDE DEF Bad
  <2> QED BY <1>3, <1>5
<1>7. s \in rest[k - 1] /\ s \notin rest[(k - 1) + 1]
  BY <1>5, <1>6
<1>8. \E i \in 0..(n - 1) : s \in rest[i] \ rest[i + 1]
  BY <1>5, <1>7
<1>9. LayerOf(all, edges, s) = CHOOSE i \in 0..(n - 1) : s \in rest[i] \ rest[i + 1]
  BY DEF LayerOf, n, rest
<1> QED BY <1>8, <1>9 DEF n, rest

LEMMA LayerUnique ==
    ASSUME NEW all, NEW edges, IsFiniteSet(all),
           Remaining(all, edges)[Cardinality(all)] = {},
           NEW s \in all, NEW i \in 0..Cardinality(all)
    PROVE  s \in Remaining(all, edges)[i] <=> i <= LayerOf(all, edges, s)
<1> DEFINE n == Cardinality(all)
           rest == Remaining(all, edges)
           l == LayerOf(all, edges, s)
<1>1. n \in Nat /\ l \in 0..(n - 1) /\ s \in rest[l] /\ s \notin rest[l + 1]
  BY RemainingSteps, LayerExists
<1>2. \A a, b \in 0..n : a <= b => rest[b] \subseteq rest[a]
  BY RemainingShrinks
<1> HIDE DEF n, rest, l
<1>3. i \in 0..n
  BY DEF n
<1>4. CASE i <= l
  <2>1. l \in 0..n
    BY <1>1
  <2> QED BY <1>1, <1>2, <1>3, <1>4, <2>1 DEF rest, l
<1>5. CASE ~(i <= l)
  <2>1. l + 1 \in 0..n /\ l + 1 <= i
    BY <1>1, <1>3, <1>5
  <2>2. rest[i] \subseteq rest[l + 1]
    BY <1>2, <1>3, <2>1
  <2> QED BY <1>1, <1>5, <2>2 DEF rest, l
<1> QED BY <1>4, <1>5

(* Edges lead to higher layers.                                             *)
LEMMA EdgesClimb ==
    ASSUME NEW all, NEW edges, IsFiniteSet(all),
           Remaining(all, edges)[Cardinality(all)] = {},
           NEW p \in all, NEW s \in all, <<p, s>> \in edges
    PROVE  LayerOf(all, edges, p) < LayerOf(all, edges, s)
<1> DEFINE n == Cardinality(all)
           rest == Remaining(all, edges)
           l == LayerOf(all, edges, s)
<1>1. /\ n \in Nat
      /\ \A k \in 0..(n - 1) : rest[k + 1] = rest[k] \ ZeroInDegree(rest[k], edges)
  BY RemainingSteps
<1>2. l \in 0..(n - 1) /\ s \in rest[l] /\ s \notin rest[l + 1]
  BY LayerExists
<1>3. LayerOf(all, edges, p) \in 0..(n - 1)
  BY LayerExists
<1>4. l \in 0..n
  BY <1>1, <1>2
<1>5. p \in rest[l] <=> l <= LayerOf(all, edges, p)
  BY <1>4, LayerUnique
<1> HIDE DEF n, rest, l
<1>6. s \in ZeroInDegree(rest[l], edges)
  BY <1>1, <1>2
<1>7. p \notin rest[l]
  BY <1>6 DEF ZeroInDegree
<1>8. ~(l <= LayerOf(all, edges, p))
  BY <1>5, <1>7
<1>9. LayerOf(all, edges, p) < l
  BY <1>1, <1>2, <1>3, <1>8
<1> QED BY <1>9 DEF l

(* Below the layer of a story no layer is empty.                            *)
LEMMA LayersDense ==
    ASSUME NEW all, NEW edges, IsFiniteSet(all),
           Remaining(all, edges)[Cardinality(all)] = {},
           NEW s \in all, NEW i \in 0..LayerOf(all, edges, s)
    PROVE  \E t \in all : LayerOf(all, edges, t) = i
<1> DEFINE n == Cardinality(all)
           rest == Remaining(all, edges)
           l(t) == LayerOf(all, edges, t)
<1>1. /\ n \in Nat
      /\ \A k \in 0..(n - 1) : rest[k + 1] = rest[k] \ ZeroInDegree(rest[k], edges)
  BY RemainingSteps
<1>2. \A t \in all : l(t) \in 0..(n - 1)
  BY LayerExists
<1>3. \A t \in all, k \in 0..n : t \in rest[k] <=> k <= l(t)
  BY LayerUnique
<1>4. \A k \in 0..n : rest[k] \subseteq all
  BY RemainingShrinks, <1>1
<1>5. rest[n] = {}
  OBVIOUS
<1>6. i \in 0..l(s)
  OBVIOUS
<1> HIDE DEF n, rest, l
<1>7. i \in 0..(n - 1) /\ i \in 0..n /\ i + 1 \in 0..n /\ i <= l(s)
  BY <1>1, <1>2, <1>6
<1>8. s \in rest[i]
  BY <1>3, <1>7
<1>9. \E t \in rest[i] : t \notin rest[i + 1]
  <2>1. SUFFICES ASSUME rest[i] \subseteq rest[i + 1]
                 PROVE  FALSE
    OBVIOUS
  <2>2. rest[i + 1] = rest[i]
    BY <1>1, <1>7, <2>1
  <2>3. ZeroInDegree(rest[i], edges) = {}
    <3>1. rest[i] = rest[i] \ ZeroInDegree(rest[i], edges)
      BY <1>1, <1>7, <2>2
    <3> QED BY <3>1 DEF ZeroInDegree
  <2>4. \A t \in rest[i] : \E p \in rest[i] : <<p, t>> \in edges
    BY <2>3 DEF ZeroInDegree
  <2>5. rest[i] \in SUBSET all /\ rest[i] # {}
    BY <1>4, <1>7, <1>8
  <2>6. rest[n] # {}
    BY <2>4, <2>5, RemainingIsCyclic DEF rest, n
  <2> QED BY <1>5, <2>6
<1>10. PICK t \in rest[i] : t \notin rest[i + 1]
  BY <1>9
<1>11. t \in all /\ i <= l(t) /\ ~(i + 1 <= l(t))
  BY <1>3, <1>4, <1>7, <1>10
<1>12. l(t) = i
  BY <1>2, <1>7, <1>11
<1> QED BY <1>11, <1>12 DEF l

(* The chain of edges through the stories of one file leads from any of     *)
(* them to every later one.                                                 *)
LEMMA SharedFileClimbs ==
    ASSUME NEW deps, NEW files, IsFiniteSet(DOMAIN deps), DOMAIN deps \subseteq Nat,
           DOMAIN files = DOMAIN deps,
           Remaining(DOMAIN deps, Edges(deps, files))[Cardinality(DOMAIN deps)] = {},
           NEW s \in DOMAIN deps, NEW t \in DOMAIN deps, s < t,
           NEW f \in files[s] \cap files[t]
    PROVE  LayerOf(DOMAIN deps, Edges(deps, files), s) < LayerOf(DOMAIN deps, Edges(deps, files), t)
<1> DEFINE all == DOMAIN deps
           touching == {x \in all : f \in files[x]}
           l(x) == LayerOf(all, Edges(deps, files), x)
           Bad == {x \in touching : s < x /\ ~(l(s) < l(x))}
<1>1. \A x \in all : l(x) \in Nat
  BY LayerExists, FS_CardinalityType
<1>2. touching \subseteq Nat /\ s \in touching /\ t \in touching
  OBVIOUS
<1>3. \A p, x \in touching : x \in Successor(p, touching) => l(p) < l(x)
  <2> SUFFICES ASSUME NEW p \in touching, NEW x \in touching, x \in Successor(p, touching)
               PROVE  l(p) < l(x)
    OBVIOUS
  <2>1. <<p, x>> \in AddFileConflictEdges(files)
    BY DEF AddFileConflictEdges
  <2>2. <<p, x>> \in Edges(deps, files)
    BY <2>1 DEF Edges
  <2>3. p \in all /\ x \in all
    OBVIOUS
  <2> QED BY <2>2, <2>3, EdgesClimb
<1>4. ASSUME Bad # {}
      PROVE  FALSE
  <2>1. PICK x \in Bad : \A y \in Bad : x <= y
    <3>1. Bad \subseteq Nat
      BY <1>2
    <3> HIDE DEF Bad
    <3> QED BY <3>1, <1>4, LeastNatural
  <2>2. x \in touching /\ s < x /\ ~(l(s) < l(x)) /\ x \in Nat
    OBVIOUS
  <2> DEFINE Below == {x - y : y \in {z \in touching : z < x}}
  <2>3. PICK d \in Below : \A e \in Below : d <= e
    <3>1. Below \subseteq Nat
      BY <1>2, <2>2
    <3>2. x - s \in Below
      BY <1>2, <2>2
    <3> HIDE DEF Below
    <3> QED BY <3>1, <3>2, LeastNatural
  <2>4. PICK p \in touching : p < x /\ d = x - p
    OBVIOUS
  <2>5. \A y \in touching : y < x => y <= p
    <3> SUFFICES ASSUME NEW y \in touching, y < x
                 PROVE  y <= p
      OBVIOUS
    <3>1. x - y \in Below
      OBVIOUS
    <3>2. x - p <= x - y
      <4> HIDE DEF Below
      <4> QED BY <3>1, <2>3, <2>4
    <3>3. x \in Nat /\ y \in Nat /\ p \in Nat
      BY <1>2, <2>2
    <3> HIDE DEF Below, touching, Bad
    <3> QED BY <3>2, <3>3
  <2> HIDE DEF Below, Bad
  <2>6. x \in Successor(p, touching)
    <3>1. \A y \in touching : ~(p < y /\ y < x)
      BY <2>5, <1>2
    <3>2. x > p
      BY <2>4, <2>2, <1>2
    <3> QED BY <3>1, <3>2, <2>2 DEF Successor
  <2>7. l(p) < l(x)
    <3> HIDE DEF touching, l
    <3> QED BY <2>2, <2>4, <2>6, <1>3
  <2>8. s <= p
    <3> HIDE DEF touching, l
    <3> QED BY <2>5, <2>2, <1>2
  <2>9. CASE p = s
    <3> HIDE DEF l
    <3> QED BY <2>7, <2>9, <2>2
  <2>10. CASE p # s
    <3>1. p \in Nat /\ p < x /\ s < p
      <4> HIDE DEF touching, l
      <4> QED BY <2>4, <2>8, <2>10, <1>2
    <3>2. p \notin Bad
      <4> HIDE DEF touching, l
      <4> QED BY <2>1, <2>2, <3>1
    <3>3. l(s) < l(p)
      <4> HIDE DEF touching, l
      <4> QED BY <3>1, <3>2 DEF Bad
    <3>4. l(s) \in Nat /\ l(p) \in Nat /\ l(x) \in Nat
      BY <1>1, <2>2
    <3> HIDE DEF l
    <3> QED BY <3>3, <3>4, <2>7, <2>2
  <2> QED BY <2>9, <2>10
<1>5. t \notin Bad
  <2> HIDE DEF Bad
  <2> QED BY <1>4
<1> QED BY <1>5, <1>2

LEMMA BuildDAGAnswers ==
    ASSUME NEW deps, NEW files
    PROVE  LET all == DOMAIN deps
               edges == Edges(deps, files)
           IN BuildDAG(deps, files) =
                IF Remaining(all, edges)[Cardinality(all)] # {}
                THEN [error |-> Cycle]
                ELSE [layer |-> [s \in all |-> LayerOf(all, edges, s)]]
BY DEF BuildDAG, LayerOf

(* For every epic BuildDAG answers with an error exactly when some of its   *)
(* stories wait for each other: each of them depends on one of them or      *)
(* touches a file that an earlier one of them was the last to touch.        *)
THEOREM CyclesRefused ==
    ASSUME NEW deps, NEW files, IsFiniteSet(DOMAIN deps), DOMAIN deps \subseteq Nat,
           DOMAIN files = DOMAIN deps
    PROVE  "error" \in DOMAIN BuildDAG(deps, files)
             <=> \E S \in SUBSET DOMAIN deps : S # {} /\ \A s \in S : \E t \in S :
                   \/ t \in deps[s]
                   \/ t < s /\ \E f \in files[t] \cap files[s] :
                                 \A u \in DOMAIN deps : t < u /\ u < s => f \notin files[u]
<1> DEFINE all == DOMAIN deps
           edges == Edges(deps, files)
           rest == Remaining(all, edges)
           Wait(t, s) == \/ t \in deps[s]
                         \/ t < s /\ \E f \in files[t] \cap files[s] :
                                 \A u \in DOMAIN deps : t < u /\ u < s => f \notin files[u]
<1>1. "error" \in DOMAIN BuildDAG(deps, files) <=> rest[Cardinality(all)] # {}
  <2>1. CASE rest[Cardinality(all)] # {}
    <3>1. BuildDAG(deps, files) = [error |-> Cycle]
      BY <2>1, BuildDAGAnswers
    <3> QED BY <2>1, <3>1
  <2>2. CASE ~(rest[Cardinality(all)] # {})
    <3>1. BuildDAG(deps, files) = [layer |-> [s \in all |-> LayerOf(all, edges, s)]]
      BY <2>2, BuildDAGAnswers
    <3> QED BY <2>2, <3>1
  <2> QED BY <2>1, <2>2
<1>2. \A t, s \in all : <<t, s>> \in edges <=> Wait(t, s)
  <2> TAKE t, s \in all
  <2>1. <<t, s>> \in DependsOnEdges(deps) <=> t \in deps[s]
    BY DEF DependsOnEdges
  <2>2. <<t, s>> \in AddFileConflictEdges(files)
          <=> t < s /\ \E f \in files[t] \cap files[s] :
                        \A u \in DOMAIN deps : t < u /\ u < s => f \notin files[u]
    BY DEF AddFileConflictEdges, Successor
  <2> QED BY <2>1, <2>2 DEF Edges
<1>3. rest[Cardinality(all)] # {}
        <=> \E S \in SUBSET all : S # {} /\ \A s \in S : \E p \in S : <<p, s>> \in edges
  BY RemainingIsCyclic
<1> HIDE DEF rest, edges, Wait
<1>4. \A S \in SUBSET all : (\A s \in S : \E p \in S : <<p, s>> \in edges)
                            <=> (\A s \in S : \E p \in S : Wait(p, s))
  BY <1>2
<1> QED BY <1>1, <1>3, <1>4 DEF Wait

(* In the layers of BuildDAG, for every epic it accepts: a story comes      *)
(* after the stories it depends on, two stories that touch the same file    *)
(* are in different layers, and below the layer of a story none is empty.   *)
THEOREM LayersCorrect ==
    ASSUME NEW deps, NEW files, IsFiniteSet(DOMAIN deps), DOMAIN deps \subseteq Nat,
           DOMAIN files = DOMAIN deps, "layer" \in DOMAIN BuildDAG(deps, files)
    PROVE  LET layer == BuildDAG(deps, files).layer IN
             /\ layer \in [DOMAIN deps -> Nat]
             /\ \A s \in DOMAIN deps : \A d \in deps[s] \cap DOMAIN deps : layer[d] < layer[s]
             /\ \A s, t \in DOMAIN deps :
                  s # t /\ files[s] \cap files[t] # {} => layer[s] # layer[t]
             /\ \A s \in DOMAIN deps : \A i \in 0..layer[s] : \E t \in DOMAIN deps : layer[t] = i
<1> DEFINE all == DOMAIN deps
           edges == Edges(deps, files)
           rest == Remaining(all, edges)
           layer == BuildDAG(deps, files).layer
<1>1. rest[Cardinality(all)] = {}
  <2> SUFFICES ASSUME rest[Cardinality(all)] # {}
               PROVE  FALSE
    OBVIOUS
  <2>1. BuildDAG(deps, files) = [error |-> Cycle]
    BY BuildDAGAnswers
  <2> QED BY <2>1
<1>2. layer = [s \in all |-> LayerOf(all, edges, s)]
  <2>1. BuildDAG(deps, files) = [layer |-> [s \in all |-> LayerOf(all, edges, s)]]
    BY <1>1, BuildDAGAnswers
  <2> QED BY <2>1
<1>3. \A s \in all : layer[s] = LayerOf(all, edges, s) /\ layer[s] \in Nat
  <2>1. \A s \in all : LayerOf(all, edges, s) \in Nat
    BY <1>1, LayerExists, FS_CardinalityType
  <2> HIDE DEF layer
  <2> QED BY <1>2, <2>1
<1>4. layer \in [all -> Nat]
  <2> HIDE DEF layer
  <2> QED BY <1>2, <1>3
<1>5. \A s \in all : \A d \in deps[s] \cap all : layer[d] < layer[s]
  <2> TAKE s \in all
  <2> TAKE d \in deps[s] \cap all
  <2>1. <<d, s>> \in edges
    BY DEF Edges, DependsOnEdges
  <2>2. LayerOf(all, edges, d) < LayerOf(all, edges, s)
    BY <1>1, <2>1, EdgesClimb
  <2> HIDE DEF layer
  <2> QED BY <2>2, <1>3
<1>6. \A s, t \in all : s # t /\ files[s] \cap files[t] # {} => layer[s] # layer[t]
  <2>1. \A s, t \in all : s < t /\ files[s] \cap files[t] # {} => layer[s] < layer[t]
    <3> TAKE s, t \in all
    <3> HAVE s < t /\ files[s] \cap files[t] # {}
    <3>1. PICK f \in files[s] \cap files[t] : TRUE
      OBVIOUS
    <3>2. LayerOf(all, edges, s) < LayerOf(all, edges, t)
      BY <1>1, <3>1, SharedFileClimbs
    <3> HIDE DEF layer
    <3> QED BY <3>2, <1>3
  <2>2. \A s, t \in all : s # t => s < t \/ t < s
    OBVIOUS
  <2> HIDE DEF layer
  <2> QED BY <2>1, <2>2, <1>3
<1>7. \A s \in all : \A i \in 0..layer[s] : \E t \in all : layer[t] = i
  <2> TAKE s \in all
  <2>1. \A i \in 0..LayerOf(all, edges, s) : \E t \in all : LayerOf(all, edges, t) = i
    BY <1>1, LayersDense
  <2> HIDE DEF layer
  <2> QED BY <2>1, <1>3
<1> QED BY <1>4, <1>5, <1>6, <1>7

-----------------------------------------------------------------------------

Busy == {"story", "active", "create", "enqueue", "mark", "start", "poll", "step", "finish"}
OfARun == {"enqueue", "mark", "start", "poll", "step", "finish"}
RunStatus == Active \cup RunTerminal
Run == [story : Stories, status : RunStatus, done : Nat, approved : BOOLEAN]
RowStatus == {"absent", "pending", "running", "completed", "failed"}
Act == [at : Busy \cup {"off", "done", "failed"}, story : Nat, run : Nat, next : Nat]
Ops == [epic : BOOLEAN, launch : Nat, pause : Nat, resume : Nat, retry : Nat, cancel : Nat]

OpsLeft ==
    /\ plan \in Plans
    /\ ops \in Ops
    /\ ops.launch <= plan.ops.launch /\ ops.retry <= plan.ops.retry /\ ops.cancel <= plan.ops.cancel

RunsTyped == runs \in Seq(Run) /\ \A r \in DOMAIN runs : runs[r].done <= Steps(runs[r].story)

RowsTyped ==
    /\ rows \in [Stories -> [status : RowStatus, run : Nat]]
    /\ \A s \in Stories : rows[s].run # NoRun =>
         rows[s].run \in DOMAIN runs /\ runs[rows[s].run].story = s

ActOK(a) ==
    /\ a \in Stories => act[a].story = a
    /\ a = User => act[a].at \in {"off", "story", "active", "create", "enqueue"}
    /\ a = Worker => act[a].at \in {"off", "start", "poll", "step", "finish"}
    /\ act[a].at # "off" => act[a].story \in Stories
    /\ act[a].at \in OfARun => act[a].run \in DOMAIN runs /\ runs[act[a].run].story = act[a].story
    /\ act[a].at = "poll" => act[a].next \in 1..(Steps(act[a].story) + 1)
    /\ act[a].at = "step" => act[a].next \in 1..Steps(act[a].story)

Typed ==
    /\ OpsLeft
    /\ dag \in {NoDAG, BuildDAG(plan.deps, plan.files)}
    /\ story \in [Stories -> {"backlog", "running", "done", "failed"}]
    /\ RunsTyped
    /\ queue \subseteq DOMAIN runs
    /\ epic \in {"none", "pending", "running", "completed", "failed"}
    /\ RowsTyped
    /\ group \in Nat
    /\ cancelled \in BOOLEAN
    /\ act \in [Actors -> Act]
    /\ \A a \in Actors : ActOK(a)

(* The epic run: what its status, the layer under way and the context say   *)
(* about the goroutines and the rows of its stories.                        *)
EpicOK ==
    /\ epic = "none" => \A s \in Stories : rows[s].status = "absent"
    /\ epic = "pending" => \A s \in Stories : rows[s].status = "pending"
    /\ epic \in {"none", "pending"} => ~cancelled /\ \A s \in Stories : act[s].at = "off"
    /\ epic # "none" => plan.ops.epic /\ "layer" \in DOMAIN dag
                        /\ \A s \in Stories : rows[s].status # "absent"
    /\ epic \in {"running", "completed", "failed"} =>
         \A s \in Stories :
           /\ dag.layer[s] > group => act[s].at = "off" /\ rows[s].status = "pending"
           /\ dag.layer[s] = group => act[s].at # "off"
           /\ dag.layer[s] < group => act[s].at = "done" /\ rows[s].status = "completed"
    /\ ~cancelled => \A s \in Stories :
         act[s].at # "failed" /\ (act[s].at = "done" => rows[s].status = "completed")
    /\ cancelled => \E s \in Stories : act[s].at = "failed"
    /\ epic = "completed" => ~cancelled /\ \A s \in Stories : act[s].at = "done"
    /\ epic = "failed" => cancelled /\ \A s \in Stories : act[s].at \notin Busy

ActiveRun(r) == runs[r].status \in Active

(* Without launches beside the epic a story has one run, or none yet.       *)
Solo ==
    plan.polite /\ plan.ops.launch = 0 =>
      /\ act[User].at = "off"
      /\ \A r, q \in DOMAIN runs : runs[r].story = runs[q].story => r = q
      /\ \A s \in Stories : act[s].at \in {"off", "story", "active", "create"} =>
           \A r \in DOMAIN runs : runs[r].story # s

(* Without gates in an epic no run comes back to life; then the launches    *)
(* that do not overlap keep the runs of a story apart.                      *)
Apart ==
    plan.polite /\ (plan.gated = {} \/ ~plan.ops.epic) =>
      /\ \A r, q \in DOMAIN runs :
           runs[r].story = runs[q].story /\ ActiveRun(r) /\ ActiveRun(q) => r = q
      /\ \A a \in Actors : act[a].at = "create" =>
           \A r \in DOMAIN runs : runs[r].story = act[a].story => ~ActiveRun(r)
      /\ \A a, b \in Actors :
           act[a].at \in {"active", "create"} /\ act[b].at \in {"active", "create"}
             /\ act[a].story = act[b].story => a = b
      /\ ~plan.ops.epic /\ act[Worker].at \in {"poll", "step", "finish"} => ActiveRun(act[Worker].run)

IInv == Typed /\ EpicOK /\ Solo /\ Apart /\ PendingServed

-----------------------------------------------------------------------------
(* What a step leaves of the runs, and what an actor that comes to its end  *)
(* leaves behind.                                                           *)
RunsGrow ==
    /\ RunsTyped'
    /\ DOMAIN runs \subseteq DOMAIN runs'
    /\ \A r \in DOMAIN runs : runs'[r].story = runs[r].story

LEMMA StepsType ==
    ASSUME NEW s
    PROVE  Steps(s) \in 1..2
  BY DEF Steps

LEMMA RunsSame ==
    ASSUME Typed, UNCHANGED <<plan, runs>>
    PROVE  RunsGrow
  BY DEF Typed, RunsTyped, RunsGrow, Steps

LEMMA RunChanges ==
    ASSUME Typed, UNCHANGED plan, NEW r \in DOMAIN runs, NEW x \in Run,
           x.story = runs[r].story, x.done <= Steps(x.story),
           runs' = [runs EXCEPT ![r] = x]
    PROVE  RunsGrow /\ DOMAIN runs' = DOMAIN runs
<1>1. runs \in Seq(Run)
  BY DEF Typed, RunsTyped
<1>2. runs' \in Seq(Run) /\ DOMAIN runs' = DOMAIN runs
  BY <1>1
<1>3. \A q \in DOMAIN runs : runs'[q] = IF q = r THEN x ELSE runs[q]
  BY <1>1
<1>4. \A q \in DOMAIN runs : runs'[q].story = runs[q].story
  BY <1>3
<1>5. \A s : Steps(s)' = Steps(s)
  BY DEF Steps
<1>6. \A q \in DOMAIN runs : runs'[q].done <= Steps(runs'[q].story)
  <2> TAKE q \in DOMAIN runs
  <2>1. runs[q].done <= Steps(runs[q].story)
    BY DEF Typed, RunsTyped
  <2> QED BY <2>1, <1>3
<1> QED BY <1>2, <1>4, <1>5, <1>6 DEF RunsGrow, RunsTyped

LEMMA RunCreated ==
    ASSUME Typed, UNCHANGED plan, NEW s \in Stories, CreateRun(s)
    PROVE  /\ RunsGrow
           /\ DOMAIN runs' = DOMAIN runs \cup {Len(runs) + 1}
           /\ Len(runs) + 1 \notin DOMAIN runs
           /\ \A r \in DOMAIN runs : runs'[r] = runs[r]
           /\ runs'[Len(runs) + 1] = [story |-> s, status |-> "pending", done |-> 0, approved |-> FALSE]
<1> DEFINE x == [story |-> s, status |-> "pending", done |-> 0, approved |-> FALSE]
<1>1. runs \in Seq(Run)
  BY DEF Typed, RunsTyped
<1>2. x \in Run /\ runs' = Append(runs, x)
  BY DEF CreateRun, Run, RunStatus, Active
<1>3. x.done = 0
  OBVIOUS
<1> HIDE DEF x
<1>4. /\ runs' \in Seq(Run)
      /\ DOMAIN runs' = DOMAIN runs \cup {Len(runs) + 1}
      /\ Len(runs) + 1 \notin DOMAIN runs
      /\ \A r \in DOMAIN runs : runs'[r] = runs[r]
      /\ runs'[Len(runs) + 1] = x
  BY <1>1, <1>2
<1>5. \A t : Steps(t)' = Steps(t) /\ Steps(t) \in 1..2
  BY DEF Steps
<1>6. \A q \in DOMAIN runs' : runs'[q].done <= Steps(runs'[q].story)
  <2> TAKE q \in DOMAIN runs'
  <2>1. CASE q \in DOMAIN runs
    <3>1. runs[q].done <= Steps(runs[q].story)
      BY <2>1 DEF Typed, RunsTyped
    <3> QED BY <3>1, <2>1, <1>4
  <2>2. CASE q = Len(runs) + 1
    BY <2>2, <1>3, <1>4, <1>5
  <2> QED BY <2>1, <2>2, <1>4
<1>7. RunsGrow
  BY <1>4, <1>5, <1>6 DEF RunsGrow, RunsTyped
<1> QED BY <1>4, <1>7 DEF x

(* A status, or the outcome of a step, written to a run.                    *)
LEMMA StatusWritten ==
    ASSUME Typed, UNCHANGED plan, NEW r \in DOMAIN runs, NEW status \in RunStatus,
           UpdateRunStatus(r, status)
    PROVE  /\ RunsGrow /\ DOMAIN runs' = DOMAIN runs
           /\ \A q \in DOMAIN runs \ {r} : runs'[q] = runs[q]
           /\ runs'[r].status = status
<1> DEFINE x == [runs[r] EXCEPT !.status = status]
<1>1. runs \in Seq(Run) /\ runs[r] \in Run /\ runs[r].done <= Steps(runs[r].story)
  BY DEF Typed, RunsTyped
<1>2. x \in Run /\ x.story = runs[r].story /\ x.done = runs[r].done /\ x.status = status
  BY <1>1 DEF Run
<1>3. runs' = [runs EXCEPT ![r] = x]
  BY DEF UpdateRunStatus
<1> HIDE DEF x
<1>4. RunsGrow /\ DOMAIN runs' = DOMAIN runs
  BY <1>1, <1>2, <1>3, RunChanges
<1> QED BY <1>1, <1>2, <1>3, <1>4

LEMMA RecordsTyped ==
    ASSUME Typed, NEW a \in Actors
    PROVE  /\ act[a] \in Act /\ ActOK(a)
           /\ act[a].at \in OfARun =>
                /\ act[a].run \in DOMAIN runs /\ act[a].run \in Nat
                /\ runs[act[a].run] \in Run
                /\ runs[act[a].run].done <= Steps(runs[act[a].run].story)
<1>1. runs \in Seq(Run) /\ act[a] \in Act /\ ActOK(a)
  BY DEF Typed, RunsTyped
<1> QED BY <1>1 DEF Typed, RunsTyped, ActOK

(* The actors that do not move stay as they are. *)
LEMMA OthersStay ==
    ASSUME Typed, RunsGrow, UNCHANGED plan, NEW a \in Actors, NEW x \in Act,
           act' = [act EXCEPT ![a] = x], ActOK(a)'
    PROVE  act' \in [Actors -> Act] /\ (\A b \in Actors : ActOK(b)') /\ act'[a] = x
<1>1. act' \in [Actors -> Act] /\ \A b \in Actors : act'[b] = IF b = a THEN x ELSE act[b]
  BY DEF Typed
<1>2. ASSUME NEW b \in Actors, b # a
      PROVE  ActOK(b)'
  <2>1. act'[b] = act[b] /\ ActOK(b)
    BY <1>1, <1>2 DEF Typed
  <2> QED BY <2>1 DEF ActOK, RunsGrow, Steps
<1> QED BY <1>1, <1>2

Ended(a) ==
    \/ a \notin Stories /\ Off(a)
    \/ a \in Stories /\ StoryCompleted(a) /\ act[a].at \in OfARun
    \/ a \in Stories /\ StoryFailed(a, NoRun)
    \/ a \in Stories /\ StoryFailed(a, act[a].run) /\ act[a].at \in OfARun

LEMMA ReturnsEnd ==
    ASSUME NEW a \in Actors
    PROVE  /\ a # Worker /\ LaunchReturnsError(a) => Ended(a)
           /\ \A e \in BOOLEAN : a # User /\ act[a].at \in OfARun /\ ExecuteReturns(a, e) => Ended(a)
  BY StoriesAssumption DEF Actors, LaunchReturnsError, ExecuteReturns, Ended

(* An actor at its end is off, done or failed; only its own row changes.    *)
LEMMA EndedTyped ==
    ASSUME Typed, RunsGrow, UNCHANGED plan, NEW a \in Actors, act[a].at \in Busy, Ended(a)
    PROVE  /\ act' \in [Actors -> Act] /\ \A b \in Actors : ActOK(b)'
           /\ RowsTyped' /\ cancelled' \in BOOLEAN
           /\ \A b \in Actors \ {a} : act'[b] = act[b]
           /\ act'[a].at \in {"off", "done", "failed"}
           /\ a \in Stories => act'[a].at # "off" /\ act'[a].run = act[a].run
<1> USE StoriesAssumption
<1>r. act[a] \in Act /\ ActOK(a)
  BY RecordsTyped
<1>0. act \in [Actors -> Act] /\ rows \in [Stories -> [status : RowStatus, run : Nat]] /\ cancelled \in BOOLEAN
  BY DEF Typed, RowsTyped
<1>w. RowsTyped' <=> /\ rows' \in [Stories -> [status : RowStatus, run : Nat]]
                     /\ \A s \in Stories : rows'[s].run # NoRun =>
                          rows'[s].run \in DOMAIN runs' /\ runs'[rows'[s].run].story = s
  BY DEF RowsTyped
<1>s. \A s \in Stories : rows[s].run # NoRun =>
                          rows[s].run \in DOMAIN runs' /\ runs'[rows[s].run].story = s
  BY DEF Typed, RowsTyped, RunsGrow
<1>1. CASE a \notin Stories /\ Off(a)
  <2>1. Idle \in Act /\ act' = [act EXCEPT ![a] = Idle] /\ UNCHANGED <<rows, cancelled>>
    BY <1>1 DEF Off, Act, Idle, NoRun
  <2>2. act'[a] = Idle
    BY <2>1, <1>0
  <2>3. ActOK(a)'
    BY <2>2, <1>1 DEF ActOK, Idle, OfARun
  <2>4. act' \in [Actors -> Act] /\ (\A b \in Actors : ActOK(b)')
    BY <2>1, <2>3, OthersStay
  <2>5. RowsTyped'
    BY <2>1, <1>w, <1>s, <1>0
  <2>6. \A b \in Actors \ {a} : act'[b] = act[b]
    BY <2>1, <1>0
  <2> QED BY <2>1, <2>2, <2>4, <2>5, <2>6, <1>0, <1>1 DEF Idle
<1>2. ASSUME a \in Stories, NEW at \in {"done", "failed"}, NEW r \in {NoRun, act[a].run},
             NEW st \in {"completed", "failed"},
             Go(a, at), UpdateEpicRunStoryStatus(a, st, r),
             r # NoRun => act[a].at \in OfARun, cancelled' \in BOOLEAN
      PROVE  /\ act' \in [Actors -> Act] /\ \A b \in Actors : ActOK(b)'
             /\ RowsTyped'
             /\ \A b \in Actors \ {a} : act'[b] = act[b]
             /\ act'[a].at = at /\ act'[a].run = act[a].run
  <2> DEFINE x == [act[a] EXCEPT !.at = at]
  <2>1. /\ x \in Act /\ act' = [act EXCEPT ![a] = x] /\ x.at = at /\ x.story = act[a].story
        /\ x.run = act[a].run
    BY <1>2, <1>r DEF Go, Act
  <2> HIDE DEF x
  <2>2. act'[a] = x
    BY <2>1, <1>0
  <2>3. ActOK(a)'
    BY <2>1, <2>2, <1>r, <1>2 DEF ActOK, OfARun, Busy
  <2>4. act' \in [Actors -> Act] /\ (\A b \in Actors : ActOK(b)')
    BY <2>1, <2>3, OthersStay
  <2>5. [status |-> st, run |-> r] \in [status : RowStatus, run : Nat]
    BY <1>r DEF RowStatus, NoRun, Act
  <2>6. r # NoRun => r \in DOMAIN runs' /\ runs'[r].story = a
    BY <1>2, <1>r DEF ActOK, RunsGrow
  <2>7. RowsTyped'
    <3>1. \A s \in Stories : rows'[s] = rows[s] \/ (s = a /\ rows'[s] = [status |-> st, run |-> r])
      BY <1>2, <1>0 DEF UpdateEpicRunStoryStatus
    <3>2. rows' \in [Stories -> [status : RowStatus, run : Nat]]
      BY <2>5, <1>2, <1>0 DEF UpdateEpicRunStoryStatus
    <3>3. ASSUME NEW s \in Stories, rows'[s].run # NoRun
          PROVE  rows'[s].run \in DOMAIN runs' /\ runs'[rows'[s].run].story = s
      <4>1. CASE rows'[s] = rows[s]
        BY <4>1, <3>3, <1>s
      <4>2. CASE s = a /\ rows'[s] = [status |-> st, run |-> r]
        <5>1. rows'[s].run = r
          BY <4>2
        <5> QED BY <5>1, <4>2, <3>3, <2>6
      <4> QED BY <4>1, <4>2, <3>1
    <3> QED BY <3>2, <3>3, <1>w
  <2>8. \A b \in Actors \ {a} : act'[b] = act[b]
    BY <2>1, <1>0
  <2> QED BY <2>1, <2>2, <2>4, <2>7, <2>8
<1>3. CASE a \in Stories /\ StoryCompleted(a) /\ act[a].at \in OfARun
  <2>1. cancelled' \in BOOLEAN
    BY <1>3, <1>0 DEF StoryCompleted
  <2> QED BY <1>3, <1>2, <2>1 DEF StoryCompleted
<1>4. CASE a \in Stories /\ StoryFailed(a, NoRun)
  BY <1>4, <1>2 DEF StoryFailed
<1>5. CASE a \in Stories /\ StoryFailed(a, act[a].run) /\ act[a].at \in OfARun
  BY <1>5, <1>2 DEF StoryFailed
<1> QED BY <1>1, <1>3, <1>4, <1>5 DEF Ended

-----------------------------------------------------------------------------
(* Every step of a goroutine, of the worker that has a job and of the       *)
(* user's request has one effect: the actor comes to its end or goes on.    *)
GoesOn(a) ==
    /\ act' = [act EXCEPT ![a] = act'[a]] /\ act'[a] \in Act /\ act'[a].at \in Busy
    /\ ActOK(a)'
    /\ UNCHANGED cancelled
    /\ \/ UNCHANGED rows
       \/ a \in Stories /\ act[a].at = "mark" /\ UpdateEpicRunStoryStatus(a, "running", act[a].run)

Effect(a) ==
    /\ act[a].at \in Busy
    /\ UNCHANGED <<plan, dag, epic, group, ops>>
    /\ RunsGrow
    /\ story' \in [Stories -> {"backlog", "running", "done", "failed"}]
    /\ queue' \subseteq DOMAIN runs'
    /\ Ended(a) \/ GoesOn(a)

LEMMA GoStays ==
    ASSUME Typed, RunsGrow, UNCHANGED <<plan, rows, cancelled>>, NEW a \in Actors,
           NEW at \in Busy \ {"poll"}, Go(a, at),
           at = "step" => act[a].next \in 1..Steps(act[a].story),
           at \in OfARun => act[a].at \in OfARun,
           a = User => at \in {"story", "active", "create", "enqueue"},
           a = Worker => at \in {"start", "poll", "step", "finish"},
           act[a].at # "off"
    PROVE  GoesOn(a) /\ act'[a].at = at
<1>0. act \in [Actors -> Act] /\ act[a] \in Act /\ ActOK(a)
  BY RecordsTyped DEF Typed
<1> DEFINE x == [act[a] EXCEPT !.at = at]
<1>1. /\ x \in Act /\ act' = [act EXCEPT ![a] = x] /\ x.at = at /\ x.story = act[a].story
      /\ x.run = act[a].run /\ x.next = act[a].next
  BY <1>0 DEF Go, Act
<1> HIDE DEF x
<1>2. act'[a] = x
  BY <1>1, <1>0
<1>3. ActOK(a)'
  BY <1>0, <1>1, <1>2 DEF ActOK, RunsGrow, Steps
<1> QED BY <1>1, <1>2, <1>3 DEF GoesOn

LEMMA LaunchStoryEffect ==
    ASSUME Typed, NEW a \in Stories \cup {User}, LaunchStory(a)
    PROVE  Effect(a)
<1>0. a \in Actors /\ a # Worker
  BY StoriesAssumption DEF Actors, User, Worker
<1>1. RunsGrow
  BY RunsSame DEF LaunchStory
<1>2. CASE LaunchReturnsError(a)
  BY <1>0, <1>1, <1>2, ReturnsEnd DEF LaunchStory, Effect, Typed, Busy
<1>3. CASE Go(a, "active") /\ UNCHANGED <<rows, cancelled>>
  <2>1. GoesOn(a)
    BY <1>0, <1>1, <1>3, GoStays DEF LaunchStory, Busy, OfARun
  <2> QED BY <1>1, <2>1 DEF LaunchStory, Effect, Typed, Busy
<1> QED BY <1>2, <1>3 DEF LaunchStory

LEMMA LaunchActiveEffect ==
    ASSUME Typed, NEW a \in Stories \cup {User}, LaunchActive(a)
    PROVE  Effect(a)
<1>0. a \in Actors /\ a # Worker
  BY StoriesAssumption DEF Actors, User, Worker
<1>1. RunsGrow
  BY RunsSame DEF LaunchActive
<1>2. CASE LaunchReturnsError(a)
  BY <1>0, <1>1, <1>2, ReturnsEnd DEF LaunchActive, Effect, Typed, Busy
<1>3. CASE Go(a, "create") /\ UNCHANGED <<rows, cancelled>>
  <2>1. GoesOn(a)
    BY <1>0, <1>1, <1>3, GoStays DEF LaunchActive, Busy, OfARun
  <2> QED BY <1>1, <2>1 DEF LaunchActive, Effect, Typed, Busy
<1> QED BY <1>2, <1>3 DEF LaunchActive

LEMMA LaunchCreateEffect ==
    ASSUME Typed, NEW a \in Stories \cup {User}, LaunchCreate(a)
    PROVE  Effect(a)
<1>0. a \in Actors /\ a # Worker
  BY StoriesAssumption DEF Actors, User, Worker
<1>r. act[a] \in Act /\ ActOK(a) /\ act \in [Actors -> Act] /\ runs \in Seq(Run)
  BY <1>0, RecordsTyped DEF Typed, RunsTyped
<1>2. CASE LaunchReturnsError(a) /\ UNCHANGED runs
  <2>1. RunsGrow
    BY <1>2, RunsSame DEF LaunchCreate
  <2> QED BY <1>0, <2>1, <1>2, ReturnsEnd DEF LaunchCreate, Effect, Typed, Busy
<1>3. CASE /\ CreateRun(act[a].story)
           /\ act' = [act EXCEPT ![a].at = "enqueue", ![a].run = Len(runs) + 1]
           /\ UNCHANGED <<rows, cancelled>>
  <2>1. act[a].at = "create" /\ act[a].story \in Stories /\ UNCHANGED <<plan, dag, epic, group, ops, queue, story>>
    BY <1>r DEF LaunchCreate, ActOK
  <2>c. PICK s \in Stories : s = act[a].story
    BY <2>1
  <2>2. /\ RunsGrow
        /\ DOMAIN runs' = DOMAIN runs \cup {Len(runs) + 1}
        /\ runs'[Len(runs) + 1].story = act[a].story
    <3>1. UNCHANGED plan /\ CreateRun(s)
      BY <1>3, <2>1, <2>c
    <3>2. /\ RunsGrow
          /\ DOMAIN runs' = DOMAIN runs \cup {Len(runs) + 1}
          /\ runs'[Len(runs) + 1] = [story |-> s, status |-> "pending", done |-> 0, approved |-> FALSE]
      BY <3>1, RunCreated, Zenon
    <3>3. runs'[Len(runs) + 1].story = s
      BY <3>2
    <3> QED BY <3>2, <3>3, <2>c
  <2> DEFINE u == [act[a] EXCEPT !.at = "enqueue"]
             x == [u EXCEPT !.run = Len(runs) + 1]
  <2>u. u \in Act /\ u.at = "enqueue" /\ u.story = act[a].story
    BY <1>r DEF Act, Busy
  <2>x. act' = [act EXCEPT ![a] = x]
    <3>1. [act EXCEPT ![a] = u][a] = u
      BY <1>r, <1>0
    <3>2. act' = [[act EXCEPT ![a] = u] EXCEPT ![a] = x]
      BY <1>3, <3>1
    <3>3. \A v, w : [[act EXCEPT ![a] = v] EXCEPT ![a] = w] = [act EXCEPT ![a] = w]
      BY <1>r, <1>0
    <3> HIDE DEF u, x
    <3> QED BY <3>2, <3>3, Zenon
  <2>3. x \in Act /\ x.at = "enqueue" /\ x.story = act[a].story /\ x.run = Len(runs) + 1
    <3> HIDE DEF u
    <3> QED BY <2>u, <1>r, SMTT(40) DEF Act
  <2> HIDE DEF x
  <2>4. act'[a] = x
    BY <2>x, <1>r, <1>0
  <2>5. ActOK(a)'
    BY <2>1, <2>2, <2>3, <2>4, <1>r, <1>0 DEF ActOK, OfARun
  <2>6. GoesOn(a)
    BY <2>x, <2>3, <2>4, <2>5, <1>3 DEF GoesOn, Busy
  <2> QED BY <2>1, <2>2, <2>6 DEF Effect, Typed, Busy
<1> QED BY <1>2, <1>3 DEF LaunchCreate

LEMMA LaunchEnqueueEffect ==
    ASSUME Typed, NEW a \in Stories \cup {User}, LaunchEnqueue(a)
    PROVE  Effect(a)
<1>0. a \in Actors /\ a # Worker
  BY StoriesAssumption DEF Actors, User, Worker
<1>1. RunsGrow
  BY RunsSame DEF LaunchEnqueue
<1>2. CASE LaunchReturnsError(a) /\ UNCHANGED queue
  BY <1>0, <1>1, <1>2, ReturnsEnd DEF LaunchEnqueue, Effect, Typed, Busy
<1>3. CASE /\ queue' = queue \cup {act[a].run}
           /\ IF a = User THEN Off(a) ELSE Go(a, "mark") /\ UNCHANGED <<rows, cancelled>>
  <2>1. act[a].at = "enqueue" /\ ActOK(a)
    BY <1>0, RecordsTyped DEF LaunchEnqueue
  <2>2. queue' \subseteq DOMAIN runs'
    BY <2>1, <1>1, <1>3 DEF Typed, ActOK, OfARun, RunsGrow
  <2>3. CASE a = User
    <3>1. Ended(a)
      BY <1>3, <2>3, StoriesAssumption DEF Ended
    <3> QED BY <1>1, <2>1, <2>2, <3>1 DEF LaunchEnqueue, Effect, Typed, Busy
  <2>4. CASE a # User
    <3>1. GoesOn(a)
      BY <1>0, <1>1, <1>3, <2>1, <2>4, GoStays DEF LaunchEnqueue, Busy, OfARun
    <3> QED BY <1>1, <2>1, <2>2, <3>1 DEF LaunchEnqueue, Effect, Typed, Busy
  <2> QED BY <2>3, <2>4
<1> QED BY <1>2, <1>3 DEF LaunchEnqueue

LEMMA RunStoryRunningEffect ==
    ASSUME Typed, NEW s \in Stories, RunStoryRunning(s)
    PROVE  Effect(s)
<1>0. s \in Actors /\ s # Worker /\ s # User
  BY StoriesAssumption DEF Actors
<1>1. RunsGrow
  BY RunsSame DEF RunStoryRunning
<1>r. act[s] \in Act /\ ActOK(s) /\ act \in [Actors -> Act]
  BY <1>0, RecordsTyped DEF Typed
<1> DEFINE x == [act[s] EXCEPT !.at = "start"]
<1>2. /\ x \in Act /\ act' = [act EXCEPT ![s] = x] /\ x.at = "start"
      /\ x.story = act[s].story /\ x.run = act[s].run
  BY <1>r DEF Act, Busy, RunStoryRunning, Go
<1> HIDE DEF x
<1>3. act'[s] = x
  BY <1>2, <1>r, <1>0
<1>4. act[s].at = "mark"
  BY DEF RunStoryRunning
<1>5. ActOK(s)'
  BY <1>0, <1>1, <1>2, <1>3, <1>4, <1>r DEF ActOK, OfARun, RunsGrow
<1>6. GoesOn(s)
  BY <1>2, <1>3, <1>5, <1>4 DEF GoesOn, RunStoryRunning, Busy
<1> QED BY <1>1, <1>4, <1>6 DEF RunStoryRunning, Effect, Typed, Busy

LEMMA StepWritten ==
    ASSUME Typed, UNCHANGED plan, NEW a \in Actors, act[a].at = "step", StepDone(a)
    PROVE  /\ RunsGrow /\ DOMAIN runs' = DOMAIN runs
           /\ \A q \in DOMAIN runs \ {act[a].run} : runs'[q] = runs[q]
           /\ runs'[act[a].run].status = IF Suspends(a) THEN "paused" ELSE runs[act[a].run].status
<1> DEFINE r == act[a].run
           u == [runs[r] EXCEPT !.done = IF @ < act[a].next THEN act[a].next ELSE @]
           x == [u EXCEPT !.status = IF Suspends(a) THEN "paused" ELSE @]
<1>0. /\ runs \in Seq(Run) /\ r \in DOMAIN runs /\ runs[r] \in Run
      /\ runs[r].done <= Steps(runs[r].story)
      /\ act[a] \in Act /\ runs[r].story = act[a].story
      /\ act[a].next \in 1..Steps(act[a].story)
  BY RecordsTyped DEF ActOK, OfARun, Typed, RunsTyped
<1>1. /\ u \in Run /\ u.story = runs[r].story /\ u.status = runs[r].status
      /\ u.done <= Steps(u.story)
  <2>1. Steps(act[a].story) \in Nat
    BY StepsType
  <2> HIDE DEF r
  <2> QED BY <1>0, <2>1, SMTT(40) DEF Run
<1>2. runs' = [runs EXCEPT ![r] = x]
  <2>1. [runs EXCEPT ![r] = u][r] = u
    BY <1>0
  <2>2. runs' = [[runs EXCEPT ![r] = u] EXCEPT ![r] = x]
    BY <2>1 DEF StepDone
  <2>3. \A v, w : [[runs EXCEPT ![r] = v] EXCEPT ![r] = w] = [runs EXCEPT ![r] = w]
    BY <1>0
  <2> HIDE DEF u, x, r
  <2> QED BY <2>2, <2>3, Zenon
<1> HIDE DEF u
<1>3. /\ x \in Run /\ x.story = runs[r].story /\ x.done <= Steps(x.story)
      /\ x.status = IF Suspends(a) THEN "paused" ELSE runs[r].status
  BY <1>1 DEF Run, RunStatus, Active
<1> HIDE DEF x
<1>4. RunsGrow /\ DOMAIN runs' = DOMAIN runs
  BY <1>0, <1>2, <1>3, RunChanges
<1>5. runs'[r] = x /\ \A q \in DOMAIN runs \ {r} : runs'[q] = runs[q]
  BY <1>0, <1>2
<1> QED BY <1>3, <1>4, <1>5

LEMMA ExecStartEffect ==
    ASSUME Typed, NEW a \in Stories \cup {Worker}, ExecStart(a)
    PROVE  Effect(a)
<1>0. a \in Actors /\ a # User
  BY StoriesAssumption DEF Actors, User, Worker
<1>1. /\ act[a].at = "start" /\ ActOK(a) /\ act[a] \in Act /\ act \in [Actors -> Act]
      /\ act[a].run \in DOMAIN runs /\ act[a].story \in Stories /\ act[a].at \in OfARun
      /\ runs[act[a].run] \in Run /\ runs[act[a].run].story = act[a].story
      /\ runs[act[a].run].done <= Steps(act[a].story)
      /\ story \in [Stories -> {"backlog", "running", "done", "failed"}] /\ cancelled \in BOOLEAN
      /\ ContextDone(a) \in BOOLEAN
  BY <1>0, RecordsTyped DEF ExecStart, ActOK, OfARun, Typed, ContextDone
<1>2. UNCHANGED <<plan, dag, queue, epic, group, ops>>
  BY DEF ExecStart
<1>3. ASSUME UNCHANGED <<runs, story>>, ExecuteReturns(a, ContextDone(a))
      PROVE  Effect(a)
  <2>1. RunsGrow
    BY <1>2, <1>3, RunsSame
  <2>2. Ended(a)
    BY <1>0, <1>1, <1>3, ReturnsEnd
  <2> QED BY <1>1, <1>2, <1>3, <2>1, <2>2 DEF Effect, Typed, Busy, RunsGrow
<1>4. ASSUME UpdateRunStatus(act[a].run, "failed"), ExecuteReturns(a, TRUE), UNCHANGED story
      PROVE  Effect(a)
  <2>1. RunsGrow
    BY <1>1, <1>2, <1>4, StatusWritten DEF RunStatus, RunTerminal
  <2>2. Ended(a)
    BY <1>0, <1>1, <1>4, ReturnsEnd
  <2> QED BY <1>1, <1>2, <1>4, <2>1, <2>2 DEF Effect, Typed, Busy, RunsGrow
<1>5. ASSUME UpdateRunStatus(act[a].run, "running"), UpdateStory(act[a].story, "running"),
             act' = [act EXCEPT ![a].at = "poll", ![a].next = runs[act[a].run].done + 1],
             UNCHANGED <<rows, cancelled>>
      PROVE  Effect(a)
  <2>1. RunsGrow
    BY <1>1, <1>2, <1>5, StatusWritten DEF RunStatus, Active
  <2> DEFINE u == [act[a] EXCEPT !.at = "poll"]
             x == [u EXCEPT !.next = runs[act[a].run].done + 1]
  <2>u. u \in Act /\ u.at = "poll" /\ u.story = act[a].story /\ u.run = act[a].run
    BY <1>1 DEF Act, Busy
  <2>x. act' = [act EXCEPT ![a] = x]
    <3>1. [act EXCEPT ![a] = u][a] = u
      BY <1>1, <1>0
    <3>2. act' = [[act EXCEPT ![a] = u] EXCEPT ![a] = x]
      BY <1>5, <3>1
    <3>3. \A v, w : [[act EXCEPT ![a] = v] EXCEPT ![a] = w] = [act EXCEPT ![a] = w]
      BY <1>1, <1>0
    <3> HIDE DEF u, x
    <3> QED BY <3>2, <3>3, Zenon
  <2>2. /\ x \in Act /\ x.at = "poll" /\ x.story = act[a].story /\ x.run = act[a].run
        /\ x.next = runs[act[a].run].done + 1
    <3>1. runs[act[a].run].done + 1 \in Nat
      BY <1>1 DEF Run
    <3> HIDE DEF u
    <3> QED BY <2>u, <3>1 DEF Act
  <2> HIDE DEF x
  <2>3. act'[a] = x
    BY <2>x, <1>1, <1>0
  <2>4. ActOK(a)'
    <3>1. x.next \in 1..(Steps(x.story) + 1)
      BY <1>1, <2>2, StepsType DEF Run
    <3>2. act'[a].next \in 1..(Steps(act'[a].story) + 1)
      BY <2>3, <3>1
    <3>f. (act[a].next \in 1..(Steps(act[a].story) + 1))'
      BY <1>2, <3>2 DEF Steps
    <3> QED BY <2>1, <2>2, <2>3, <3>f, <1>0, <1>1 DEF ActOK, OfARun, RunsGrow
  <2>5. GoesOn(a)
    BY <2>x, <2>2, <2>3, <2>4, <1>5 DEF GoesOn, Busy
  <2>6. story' \in [Stories -> {"backlog", "running", "done", "failed"}]
    BY <1>1, <1>5 DEF UpdateStory
  <2> QED BY <1>1, <1>2, <2>1, <2>5, <2>6 DEF Effect, Typed, Busy, RunsGrow
<1> QED BY <1>3, <1>4, <1>5 DEF ExecStart

LEMMA ExecPollEffect ==
    ASSUME Typed, NEW a \in Stories \cup {Worker}, ExecPoll(a)
    PROVE  Effect(a)
<1>0. a \in Actors /\ a # User
  BY StoriesAssumption DEF Actors, User, Worker
<1>1. /\ act[a].at = "poll" /\ ActOK(a) /\ act[a] \in Act /\ act \in [Actors -> Act]
      /\ act[a].run \in DOMAIN runs /\ act[a].story \in Stories /\ act[a].at \in OfARun
      /\ story \in [Stories -> {"backlog", "running", "done", "failed"}] /\ cancelled \in BOOLEAN
      /\ act[a].next \in 1..(Steps(act[a].story) + 1)
  BY <1>0, RecordsTyped DEF ExecPoll, ActOK, OfARun, Typed
<1>2. UNCHANGED <<plan, dag, queue, epic, group, ops>>
  BY DEF ExecPoll
<1>3. ASSUME UNCHANGED <<runs, story>>, ExecuteReturns(a, TRUE)
      PROVE  Effect(a)
  <2>1. RunsGrow
    BY <1>2, <1>3, RunsSame
  <2>2. Ended(a)
    BY <1>0, <1>1, <1>3, ReturnsEnd
  <2> QED BY <1>1, <1>2, <1>3, <2>1, <2>2 DEF Effect, Typed, Busy, RunsGrow
<1>4. ASSUME UpdateRunStatus(act[a].run, "cancelled"), UpdateStory(act[a].story, "backlog"),
             ExecuteReturns(a, TRUE)
      PROVE  Effect(a)
  <2>1. RunsGrow
    BY <1>1, <1>2, <1>4, StatusWritten DEF RunStatus, RunTerminal
  <2>2. Ended(a)
    BY <1>0, <1>1, <1>4, ReturnsEnd
  <2>3. story' \in [Stories -> {"backlog", "running", "done", "failed"}]
    BY <1>1, <1>4 DEF UpdateStory
  <2> QED BY <1>1, <1>2, <2>1, <2>2, <2>3 DEF Effect, Typed, Busy, RunsGrow
<1>5. ASSUME NEW at \in {"finish", "step"}, Go(a, at), UNCHANGED <<rows, cancelled, runs, story>>,
             at = "step" => ~(act[a].next > Steps(act[a].story))
      PROVE  Effect(a)
  <2>1. RunsGrow
    BY <1>2, <1>5, RunsSame
  <2>2. at = "step" => act[a].next \in 1..Steps(act[a].story)
    BY <1>1, <1>5, StepsType
  <2>3. GoesOn(a)
    BY <1>0, <1>1, <1>2, <1>5, <2>1, <2>2, GoStays DEF Busy, OfARun
  <2> QED BY <1>1, <1>2, <1>5, <2>1, <2>3 DEF Effect, Typed, Busy, RunsGrow
<1> QED BY <1>3, <1>4, <1>5 DEF ExecPoll

LEMMA ExecStepEffect ==
    ASSUME Typed, NEW a \in Stories \cup {Worker}, ExecStep(a)
    PROVE  Effect(a)
<1>0. a \in Actors /\ a # User
  BY StoriesAssumption DEF Actors, User, Worker
<1>1. /\ act[a].at = "step" /\ ActOK(a) /\ act[a] \in Act /\ act \in [Actors -> Act]
      /\ act[a].run \in DOMAIN runs /\ act[a].story \in Stories /\ act[a].at \in OfARun
      /\ act[a].next \in 1..Steps(act[a].story)
      /\ story \in [Stories -> {"backlog", "running", "done", "failed"}] /\ cancelled \in BOOLEAN
  BY <1>0, RecordsTyped DEF ExecStep, ActOK, OfARun, Typed
<1>2. UNCHANGED <<plan, dag, queue, epic, group, ops>>
  BY DEF ExecStep
<1>3. ASSUME UNCHANGED <<runs, story>>, ExecuteReturns(a, TRUE)
      PROVE  Effect(a)
  <2>1. RunsGrow
    BY <1>2, <1>3, RunsSame
  <2>2. Ended(a)
    BY <1>0, <1>1, <1>3, ReturnsEnd
  <2> QED BY <1>1, <1>2, <1>3, <2>1, <2>2 DEF Effect, Typed, Busy, RunsGrow
<1>4. ASSUME UpdateRunStatus(act[a].run, "failed"), UpdateStory(act[a].story, "failed"),
             ExecuteReturns(a, TRUE)
      PROVE  Effect(a)
  <2>1. RunsGrow
    BY <1>1, <1>2, <1>4, StatusWritten DEF RunStatus, RunTerminal
  <2>2. Ended(a)
    BY <1>0, <1>1, <1>4, ReturnsEnd
  <2>3. story' \in [Stories -> {"backlog", "running", "done", "failed"}]
    BY <1>1, <1>4 DEF UpdateStory
  <2> QED BY <1>1, <1>2, <2>1, <2>2, <2>3 DEF Effect, Typed, Busy, RunsGrow
<1>5. ASSUME StepDone(a), UNCHANGED story
      PROVE  RunsGrow
  BY <1>0, <1>1, <1>2, <1>5, StepWritten
<1>6. ASSUME StepDone(a), UNCHANGED story, ExecuteReturns(a, FALSE)
      PROVE  Effect(a)
  <2>2. Ended(a)
    BY <1>0, <1>1, <1>6, ReturnsEnd
  <2> QED BY <1>1, <1>2, <1>5, <1>6, <2>2 DEF Effect, Typed, Busy, RunsGrow
<1>7. ASSUME StepDone(a), UNCHANGED <<story, rows, cancelled>>,
             act' = [act EXCEPT ![a].next = @ + 1,
                                ![a].at = IF act[a].next = Steps(act[a].story) THEN "finish" ELSE "poll"]
      PROVE  Effect(a)
  <2> DEFINE at == IF act[a].next = Steps(act[a].story) THEN "finish" ELSE "poll"
             u == [act[a] EXCEPT !.next = @ + 1]
             x == [u EXCEPT !.at = at]
  <2>u. u \in Act /\ u.story = act[a].story /\ u.run = act[a].run /\ u.next = act[a].next + 1
    BY <1>1 DEF Act
  <2>x. act' = [act EXCEPT ![a] = x]
    <3>1. [act EXCEPT ![a] = u][a] = u
      BY <1>1, <1>0
    <3>2. act' = [[act EXCEPT ![a] = u] EXCEPT ![a] = x]
      BY <1>7, <3>1
    <3>3. \A v, w : [[act EXCEPT ![a] = v] EXCEPT ![a] = w] = [act EXCEPT ![a] = w]
      BY <1>1, <1>0
    <3> HIDE DEF u, x
    <3> QED BY <3>2, <3>3, Zenon
  <2>a. at \in {"finish", "poll"}
    OBVIOUS
  <2>2. /\ x \in Act /\ x.at = at /\ x.story = act[a].story /\ x.run = act[a].run
        /\ x.next = act[a].next + 1
    <3> HIDE DEF u, at
    <3> QED BY <2>u, <2>a DEF Act, Busy
  <2> HIDE DEF x, at
  <2>3. act'[a] = x
    BY <2>x, <1>1, <1>0
  <2>4. ActOK(a)'
    <3>1. x.next \in 1..(Steps(x.story) + 1)
      BY <1>1, <2>2, StepsType
    <3>2. act'[a].next \in 1..(Steps(act'[a].story) + 1)
      BY <2>3, <3>1
    <3>f. (act[a].next \in 1..(Steps(act[a].story) + 1))'
      BY <1>2, <3>2 DEF Steps
    <3>3. x.run \in DOMAIN runs' /\ runs'[x.run].story = x.story
      BY <1>1, <1>5, <1>7, <2>2 DEF ActOK, RunsGrow
    <3>4. x.at \in {"finish", "poll"} /\ x.story \in Stories /\ (a \in Stories => x.story = a)
      BY <1>1, <2>2, <2>a DEF ActOK
    <3> QED BY <2>3, <3>f, <3>3, <3>4, <1>0 DEF ActOK, OfARun
  <2>5. GoesOn(a)
    BY <2>x, <2>2, <2>3, <2>4, <2>a, <1>7 DEF GoesOn, Busy
  <2> QED BY <1>1, <1>2, <1>5, <1>7, <2>5 DEF Effect, Typed, Busy, RunsGrow
<1> QED BY <1>3, <1>4, <1>6, <1>7 DEF ExecStep

LEMMA ExecFinishEffect ==
    ASSUME Typed, NEW a \in Stories \cup {Worker}, ExecFinish(a)
    PROVE  Effect(a)
<1>0. a \in Actors /\ a # User
  BY StoriesAssumption DEF Actors, User, Worker
<1>1. /\ act[a].at = "finish" /\ ActOK(a)
      /\ act[a].run \in DOMAIN runs /\ act[a].story \in Stories /\ act[a].at \in OfARun
      /\ story \in [Stories -> {"backlog", "running", "done", "failed"}]
  BY <1>0, RecordsTyped DEF ExecFinish, ActOK, OfARun, Typed
<1>2. UNCHANGED <<plan, dag, queue, epic, group, ops>>
  BY DEF ExecFinish
<1>3. CASE ExecuteReturns(a, TRUE) /\ UNCHANGED <<runs, story>>
  <2>1. RunsGrow
    BY <1>2, <1>3, RunsSame
  <2>2. Ended(a)
    BY <1>0, <1>1, <1>3, ReturnsEnd
  <2> QED BY <1>1, <1>2, <1>3, <2>1, <2>2 DEF Effect, Typed, Busy, RunsGrow
<1>4. CASE /\ UpdateRunStatus(act[a].run, "completed")
           /\ UpdateStory(act[a].story, "done")
           /\ ExecuteReturns(a, FALSE)
  <2>1. RunsGrow
    BY <1>1, <1>2, <1>4, StatusWritten DEF RunStatus, RunTerminal
  <2>2. Ended(a)
    BY <1>0, <1>1, <1>4, ReturnsEnd
  <2>3. story' \in [Stories -> {"backlog", "running", "done", "failed"}]
    BY <1>1, <1>4 DEF UpdateStory
  <2> QED BY <1>1, <1>2, <2>1, <2>2, <2>3 DEF Effect, Typed, Busy, RunsGrow
<1> QED BY <1>3, <1>4 DEF ExecFinish

(* A step of an actor at work. *)
ActorStep(a) ==
    \/ a \in Stories \cup {User} /\ Launch(a)
    \/ a \in Stories \cup {Worker} /\ ExecuteRun(a)
    \/ a \in Stories /\ RunStoryRunning(a)

LEMMA ActorEffect ==
    ASSUME Typed, NEW a \in Actors, ActorStep(a)
    PROVE  Effect(a)
  BY LaunchStoryEffect, LaunchActiveEffect, LaunchCreateEffect, LaunchEnqueueEffect,
     ExecStartEffect, ExecPollEffect, ExecStepEffect, ExecFinishEffect, RunStoryRunningEffect
     DEF ActorStep, Launch, ExecuteRun

LEMMA EffectTyped ==
    ASSUME Typed, NEW a \in Actors, Effect(a)
    PROVE  /\ Typed'
           /\ \A b \in Actors \ {a} : act'[b] = act[b]
<1>0. UNCHANGED <<plan, dag, epic, group, ops>> /\ RunsGrow /\ act \in [Actors -> Act]
  BY DEF Effect, Typed
<1>1. /\ act' \in [Actors -> Act] /\ \A b \in Actors : ActOK(b)'
      /\ RowsTyped' /\ cancelled' \in BOOLEAN
      /\ \A b \in Actors \ {a} : act'[b] = act[b]
  <2>1. CASE Ended(a)
    BY <1>0, <2>1, EndedTyped DEF Effect
  <2>2. CASE GoesOn(a)
    <3>1. PICK x \in Act : x = act'[a]
      BY <2>2 DEF GoesOn
    <3>2. act' = [act EXCEPT ![a] = x] /\ ActOK(a)'
      BY <2>2, <3>1 DEF GoesOn
    <3>3. act' \in [Actors -> Act] /\ (\A b \in Actors : ActOK(b)')
      BY <1>0, <3>2, OthersStay
    <3>4. \A b \in Actors \ {a} : act'[b] = act[b]
      BY <1>0, <3>2
    <3>5. cancelled' \in BOOLEAN
      BY <2>2 DEF GoesOn, Typed
    <3>6. RowsTyped'
      <4>1. CASE UNCHANGED rows
        BY <4>1, <1>0 DEF Typed, RowsTyped, RunsGrow
      <4>2. CASE a \in Stories /\ act[a].at = "mark" /\ UpdateEpicRunStoryStatus(a, "running", act[a].run)
        <5>1. /\ act[a].run \in DOMAIN runs' /\ act[a].run \in Nat /\ runs'[act[a].run].story = a
          BY <4>2, <1>0, RecordsTyped DEF ActOK, OfARun, RunsGrow
        <5> DEFINE row == [status |-> "running", run |-> act[a].run]
        <5>2. row \in [status : RowStatus, run : Nat] /\ row.run = act[a].run
          BY <5>1 DEF RowStatus
        <5>3. rows \in [Stories -> [status : RowStatus, run : Nat]]
          BY DEF Typed, RowsTyped
        <5>4. rows' = rows \/ rows' = [rows EXCEPT ![a] = row]
          BY <4>2 DEF UpdateEpicRunStoryStatus
        <5> HIDE DEF row
        <5>5. rows' \in [Stories -> [status : RowStatus, run : Nat]]
          BY <5>2, <5>3, <5>4
        <5>6. ASSUME NEW s \in Stories, rows'[s].run # NoRun
              PROVE  rows'[s].run \in DOMAIN runs' /\ runs'[rows'[s].run].story = s
          <6>1. CASE rows'[s] = rows[s]
            BY <6>1, <5>6, <1>0 DEF Typed, RowsTyped, RunsGrow
          <6>2. CASE s = a /\ rows'[s] = row
            BY <6>2, <5>1, <5>2
          <6> QED BY <6>1, <6>2, <5>3, <5>4
        <5> QED BY <5>5, <5>6 DEF RowsTyped
      <4> QED BY <4>1, <4>2, <2>2 DEF GoesOn
    <3> QED BY <3>3, <3>4, <3>5, <3>6
  <2> QED BY <2>1, <2>2 DEF Effect
<1>2. OpsLeft' /\ RunsTyped'
  BY <1>0 DEF Typed, OpsLeft, RunsGrow
<1>3. dag' \in {NoDAG, BuildDAG(plan.deps, plan.files)'}
  BY <1>0 DEF Typed
<1> QED BY <1>0, <1>1, <1>2, <1>3 DEF Effect, Typed

-----------------------------------------------------------------------------
(* The layers of an epic, from those of BuildDAG.                           *)
LEMMA DagSound ==
    ASSUME Typed, "layer" \in DOMAIN dag
    PROVE  /\ dag.layer \in [Stories -> Nat]
           /\ \A s \in Stories : \A d \in plan.deps[s] \cap Stories : dag.layer[d] < dag.layer[s]
           /\ \A s, t \in Stories :
                s # t /\ plan.files[s] \cap plan.files[t] # {} => dag.layer[s] # dag.layer[t]
           /\ \A s \in Stories : \A i \in 0..dag.layer[s] : \E t \in Stories : dag.layer[t] = i
<1>1. plan \in Plans /\ dag \in {NoDAG, BuildDAG(plan.deps, plan.files)}
  BY DEF Typed, OpsLeft
<1>2. DOMAIN plan.deps = Stories /\ DOMAIN plan.files = Stories
  BY <1>1, PlansAssumption
<1>3. "layer" \notin DOMAIN NoDAG
  BY DEF NoDAG
<1>4. dag = BuildDAG(plan.deps, plan.files)
  BY <1>1, <1>3
<1>5. PICK deps, files : deps = plan.deps /\ files = plan.files
  OBVIOUS
<1>6. /\ IsFiniteSet(DOMAIN deps) /\ DOMAIN deps \subseteq Nat /\ DOMAIN files = DOMAIN deps
      /\ "layer" \in DOMAIN BuildDAG(deps, files) /\ dag = BuildDAG(deps, files)
      /\ DOMAIN deps = Stories
  BY <1>2, <1>4, <1>5, StoriesAssumption
<1>7. LET layer == BuildDAG(deps, files).layer IN
             /\ layer \in [DOMAIN deps -> Nat]
             /\ \A s \in DOMAIN deps : \A d \in deps[s] \cap DOMAIN deps : layer[d] < layer[s]
             /\ \A s, t \in DOMAIN deps :
                  s # t /\ files[s] \cap files[t] # {} => layer[s] # layer[t]
             /\ \A s \in DOMAIN deps : \A i \in 0..layer[s] : \E t \in DOMAIN deps : layer[t] = i
  BY <1>6, LayersCorrect
<1> HIDE DEF BuildDAG
<1> QED BY <1>5, <1>6, <1>7

LEMMA InitTyped ==
    ASSUME Init
    PROVE  Typed
<1>1. plan \in Plans /\ ops = plan.ops /\ plan.ops \in Ops
  BY PlansAssumption DEF Init, Ops
<1>2. OpsLeft
  BY <1>1 DEF OpsLeft, Ops
<1>3. runs = <<>> /\ RunsTyped /\ DOMAIN runs = {}
  BY DEF Init, RunsTyped
<1>4. RowsTyped
  BY DEF Init, RowsTyped, RowStatus, NoRun
<1>5. \A a \in Actors : act[a] = [Idle EXCEPT !.story = IF a \in Stories THEN a ELSE 0]
  BY DEF Init
<1>6. \A a \in Actors : /\ act[a] \in Act /\ act[a].at = "off"
                        /\ a \in Stories => act[a].story = a
  <2> TAKE a \in Actors
  <2>1. PICK n \in Nat : n = IF a \in Stories THEN a ELSE 0
    BY StoriesAssumption
  <2>2. act[a] = [Idle EXCEPT !.story = n]
    BY <1>5, <2>1
  <2> QED BY <2>1, <2>2 DEF Idle, Act, NoRun
<1>7. act \in [Actors -> Act]
  <2>1. act = [a \in Actors |-> act[a]]
    BY DEF Init
  <2> QED BY <2>1, <1>6
<1>8. \A a \in Actors : ActOK(a)
  BY <1>6 DEF ActOK, OfARun
<1> QED BY <1>2, <1>3, <1>4, <1>7, <1>8 DEF Init, Typed

LEMMA WorkerTakesTyped ==
    ASSUME Typed, NEW r \in queue, WorkerTakes(r)
    PROVE  Typed' /\ \A b \in Actors \ {Worker} : act'[b] = act[b]
<1>0. Worker \in Actors /\ Worker \notin Stories /\ Worker # User
  BY StoriesAssumption DEF Actors, User, Worker
<1>1. /\ runs \in Seq(Run) /\ r \in DOMAIN runs /\ runs[r] \in Run /\ r \in Nat
      /\ act \in [Actors -> Act]
  BY DEF Typed, RunsTyped
<1>2. RunsGrow
  BY RunsSame DEF WorkerTakes
<1> DEFINE x == [at |-> "start", story |-> runs[r].story, run |-> r, next |-> 0]
<1>3. x \in Act /\ act' = [act EXCEPT ![Worker] = x]
  BY <1>1, StoriesAssumption DEF WorkerTakes, Act, Busy, Run
<1>x. x.at = "start" /\ x.run = r /\ x.story = runs[r].story /\ x.story \in Stories
  BY <1>1 DEF Run
<1> HIDE DEF x
<1>4. act'[Worker] = x
  BY <1>0, <1>1, <1>3
<1>5. ActOK(Worker)'
  BY <1>0, <1>1, <1>2, <1>x, <1>4 DEF ActOK, RunsGrow, OfARun
<1>6. act' \in [Actors -> Act] /\ \A b \in Actors : ActOK(b)'
  <2>1. UNCHANGED plan
    BY DEF WorkerTakes
  <2> QED BY <1>0, <1>2, <1>3, <1>5, <2>1, OthersStay
<1>7. \A b \in Actors \ {Worker} : act'[b] = act[b]
  BY <1>1, <1>3
<1>8. OpsLeft' /\ RunsTyped' /\ RowsTyped' /\ queue' \subseteq DOMAIN runs'
  BY <1>2 DEF WorkerTakes, Typed, OpsLeft, RunsGrow, RowsTyped
<1> QED BY <1>6, <1>7, <1>8 DEF WorkerTakes, Typed

LEMMA UserLaunchesTyped ==
    ASSUME Typed, NEW s \in Stories, UserLaunches(s)
    PROVE  /\ Typed' /\ (\A b \in Actors \ {User} : act'[b] = act[b])
           /\ act'[User].at = "story" /\ act'[User].story = s
<1>0. User \in Actors /\ User \notin Stories /\ Worker # User
  BY StoriesAssumption DEF Actors, User, Worker
<1>1. act \in [Actors -> Act] /\ ops \in Ops
  BY DEF Typed, OpsLeft
<1>2. RunsGrow
  BY RunsSame DEF UserLaunches
<1> DEFINE x == [Idle EXCEPT !.at = "story", !.story = s]
<1>3. x \in Act /\ act' = [act EXCEPT ![User] = x]
  BY StoriesAssumption DEF UserLaunches, Act, Busy, Idle, NoRun
<1>x. x.at = "story" /\ x.story = s
  BY DEF Idle
<1> HIDE DEF x
<1>4. act'[User] = x
  BY <1>0, <1>1, <1>3
<1>5. ActOK(User)'
  BY <1>0, <1>x, <1>4 DEF ActOK, OfARun
<1>6. act' \in [Actors -> Act] /\ \A b \in Actors : ActOK(b)'
  <2>1. UNCHANGED plan
    BY DEF UserLaunches
  <2> QED BY <1>0, <1>2, <1>3, <1>5, <2>1, OthersStay
<1>7. \A b \in Actors \ {User} : act'[b] = act[b]
  BY <1>1, <1>3
<1>8. OpsLeft'
  <2>1. plan.ops \in Ops
    BY PlansAssumption DEF Typed, OpsLeft, Ops
  <2> QED BY <1>1, <2>1 DEF UserLaunches, Typed, OpsLeft, Ops
<1>9. RunsTyped' /\ RowsTyped' /\ queue' \subseteq DOMAIN runs'
  BY <1>2 DEF UserLaunches, Typed, RunsGrow, RowsTyped
<1> QED BY <1>x, <1>4, <1>6, <1>7, <1>8, <1>9 DEF UserLaunches, Typed

(* The users' statements on a run leave the epic and every actor alone.     *)
LEMMA UserOnRun ==
    ASSUME Typed, NEW r \in DOMAIN runs, PauseRun(r) \/ ResumeRun(r) \/ RetryStep(r) \/ CancelRun(r)
    PROVE  /\ Typed' /\ UNCHANGED <<plan, dag, act, epic, rows, group, cancelled>>
           /\ DOMAIN runs' = DOMAIN runs /\ queue \subseteq queue'
           /\ \A q \in DOMAIN runs : runs'[q].story = runs[q].story
           /\ \A q \in DOMAIN runs \ {r} : runs'[q] = runs[q]
           /\ runs'[r].status # "pending"
           /\ runs'[r].status \in Active =>
                runs[r].status \in Active \/ (plan.ops.retry # 0 /\ RetryStep(r))
           /\ plan.ops.cancel = 0 => runs'[r].status \in Active
<1>r. runs \in Seq(Run) /\ runs[r] \in Run /\ runs[r].done <= Steps(runs[r].story)
  BY DEF Typed, RunsTyped
<1>0. /\ runs \in Seq(Run) /\ runs[r] \in Run /\ runs[r].done <= Steps(runs[r].story)
      /\ ops \in Ops /\ plan \in Plans
      /\ ops.launch <= plan.ops.launch /\ ops.retry <= plan.ops.retry /\ ops.cancel <= plan.ops.cancel
      /\ runs[r].story \in Stories /\ story \in [Stories -> {"backlog", "running", "done", "failed"}]
  BY <1>r DEF Typed, OpsLeft, Run
<1>p. plan.ops \in Ops
  BY <1>0, PlansAssumption DEF Ops
<1>1. UNCHANGED <<plan, dag, act, epic, rows, group, cancelled>>
  BY DEF PauseRun, ResumeRun, RetryStep, CancelRun
<1>2. PICK status \in {"paused", "running", "cancelled"} :
        /\ status = "cancelled" => CancelRun(r)
        /\ \/ UpdateRunStatus(r, status)
           \/ (status = "running" /\ runs' = [runs EXCEPT ![r].status = "running", ![r].approved = TRUE])
  BY DEF PauseRun, ResumeRun, RetryStep, CancelRun
<1>3. /\ RunsGrow /\ DOMAIN runs' = DOMAIN runs
      /\ \A q \in DOMAIN runs \ {r} : runs'[q] = runs[q]
      /\ runs'[r].status = status
  <2>1. CASE UpdateRunStatus(r, status)
    BY <1>1, <2>1, StatusWritten DEF RunStatus, Active, RunTerminal
  <2>2. CASE status = "running" /\ runs' = [runs EXCEPT ![r].status = "running", ![r].approved = TRUE]
    <3> DEFINE u == [runs[r] EXCEPT !.status = "running"]
               x == [u EXCEPT !.approved = TRUE]
    <3>1. /\ u \in Run /\ u.story = runs[r].story /\ u.done = runs[r].done /\ u.status = "running"
      BY <1>0 DEF Run, RunStatus, Active
    <3>2. runs' = [runs EXCEPT ![r] = x]
      <4>1. [runs EXCEPT ![r] = u][r] = u
        BY <1>0
      <4>2. runs' = [[runs EXCEPT ![r] = u] EXCEPT ![r] = x]
        BY <4>1, <2>2
      <4>3. \A v, w : [[runs EXCEPT ![r] = v] EXCEPT ![r] = w] = [runs EXCEPT ![r] = w]
        BY <1>0
      <4> HIDE DEF u, x
      <4> QED BY <4>2, <4>3, Zenon
    <3> HIDE DEF u
    <3>3. x \in Run /\ x.story = runs[r].story /\ x.done = runs[r].done /\ x.status = "running"
      BY <3>1 DEF Run
    <3> HIDE DEF x
    <3>4. RunsGrow /\ DOMAIN runs' = DOMAIN runs
      BY <1>0, <1>1, <3>2, <3>3, RunChanges
    <3> QED BY <1>0, <2>2, <3>2, <3>3, <3>4
  <2> QED BY <1>2, <2>1, <2>2
<1>o. /\ ops.launch \in Nat /\ ops.retry \in Nat /\ ops.cancel \in Nat
      /\ plan.ops.launch \in Nat /\ plan.ops.retry \in Nat /\ plan.ops.cancel \in Nat
  BY <1>0, <1>p DEF Ops
<1>4. OpsLeft'
  <2>1. CASE ops' = [ops EXCEPT !.pause = @ - 1] /\ ops.pause > 0
    <3>1. ops' \in Ops
      BY <1>0, <2>1 DEF Ops
    <3>2. ops'.launch <= ops.launch /\ ops'.retry <= ops.retry /\ ops'.cancel <= ops.cancel
      BY <1>0, <2>1 DEF Ops
    <3>3. ops'.launch \in Nat /\ ops'.retry \in Nat /\ ops'.cancel \in Nat
      BY <3>1 DEF Ops
    <3>4. /\ ops'.launch <= plan.ops.launch /\ ops'.retry <= plan.ops.retry
          /\ ops'.cancel <= plan.ops.cancel
      BY <1>0, <1>o, <3>2, <3>3, SMTT(40)
    <3> QED BY <1>0, <1>1, <3>1, <3>4 DEF OpsLeft
  <2>2. CASE ops' = [ops EXCEPT !.resume = @ - 1] /\ ops.resume > 0
    <3>1. ops' \in Ops
      BY <1>0, <2>2 DEF Ops
    <3>2. ops'.launch <= ops.launch /\ ops'.retry <= ops.retry /\ ops'.cancel <= ops.cancel
      BY <1>0, <2>2 DEF Ops
    <3>3. ops'.launch \in Nat /\ ops'.retry \in Nat /\ ops'.cancel \in Nat
      BY <3>1 DEF Ops
    <3>4. /\ ops'.launch <= plan.ops.launch /\ ops'.retry <= plan.ops.retry
          /\ ops'.cancel <= plan.ops.cancel
      BY <1>0, <1>o, <3>2, <3>3, SMTT(40)
    <3> QED BY <1>0, <1>1, <3>1, <3>4 DEF OpsLeft
  <2>3. CASE ops' = [ops EXCEPT !.retry = @ - 1] /\ ops.retry > 0
    <3>1. ops' \in Ops
      BY <1>0, <2>3 DEF Ops
    <3>2. ops'.launch <= ops.launch /\ ops'.retry <= ops.retry /\ ops'.cancel <= ops.cancel
      BY <1>0, <2>3 DEF Ops
    <3>3. ops'.launch \in Nat /\ ops'.retry \in Nat /\ ops'.cancel \in Nat
      BY <3>1 DEF Ops
    <3>4. /\ ops'.launch <= plan.ops.launch /\ ops'.retry <= plan.ops.retry
          /\ ops'.cancel <= plan.ops.cancel
      BY <1>0, <1>o, <3>2, <3>3, SMTT(40)
    <3> QED BY <1>0, <1>1, <3>1, <3>4 DEF OpsLeft
  <2>4. CASE ops' = [ops EXCEPT !.cancel = @ - 1] /\ ops.cancel > 0
    <3>1. ops' \in Ops
      BY <1>0, <2>4 DEF Ops
    <3>2. ops'.launch <= ops.launch /\ ops'.retry <= ops.retry /\ ops'.cancel <= ops.cancel
      BY <1>0, <2>4 DEF Ops
    <3>3. ops'.launch \in Nat /\ ops'.retry \in Nat /\ ops'.cancel \in Nat
      BY <3>1 DEF Ops
    <3>4. /\ ops'.launch <= plan.ops.launch /\ ops'.retry <= plan.ops.retry
          /\ ops'.cancel <= plan.ops.cancel
      BY <1>0, <1>o, <3>2, <3>3, SMTT(40)
    <3> QED BY <1>0, <1>1, <3>1, <3>4 DEF OpsLeft
  <2> QED BY <2>1, <2>2, <2>3, <2>4 DEF PauseRun, ResumeRun, RetryStep, CancelRun
<1>5. queue' \subseteq DOMAIN runs' /\ queue \subseteq queue'
  BY <1>3 DEF PauseRun, ResumeRun, RetryStep, CancelRun, Typed
<1>6. story' \in [Stories -> {"backlog", "running", "done", "failed"}]
  BY <1>0 DEF PauseRun, ResumeRun, RetryStep, CancelRun, UpdateStory
<1>7. RowsTyped'
  BY <1>1, <1>3 DEF Typed, RowsTyped, RunsGrow
<1>8. \A a \in Actors : ActOK(a)'
  <2> TAKE a \in Actors
  <2>1. ActOK(a)
    BY DEF Typed
  <2> QED BY <2>1, <1>1, <1>3 DEF ActOK, RunsGrow, Steps
<1>9. Typed'
  BY <1>1, <1>3, <1>4, <1>5, <1>6, <1>7, <1>8 DEF Typed, RunsGrow
<1>10. runs'[r].status \in Active =>
                runs[r].status \in Active \/ (plan.ops.retry # 0 /\ RetryStep(r))
  <2>1. RetryStep(r) => plan.ops.retry # 0
    BY <1>0, <1>p DEF RetryStep, Ops
  <2>2. PauseRun(r) \/ ResumeRun(r) \/ CancelRun(r) => runs[r].status \in Active
    BY DEF PauseRun, ResumeRun, CancelRun, Active
  <2> QED BY <2>1, <2>2
<1>11. plan.ops.cancel = 0 => runs'[r].status \in Active
  <2>1. plan.ops.cancel = 0 => ~CancelRun(r)
    BY <1>0, <1>p DEF CancelRun, Ops
  <2> QED BY <2>1, <1>2, <1>3 DEF Active
<1> QED BY <1>1, <1>3, <1>5, <1>9, <1>10, <1>11 DEF RunsGrow

-----------------------------------------------------------------------------
(* The epic run as a whole.                                                 *)

(* The step of a goroutine, of the worker or of the user's request.         *)
LEMMA EffectKeepsEpic ==
    ASSUME Typed, EpicOK, NEW a \in Actors, Effect(a)
    PROVE  EpicOK'
<1>0. /\ UNCHANGED <<plan, dag, epic, group>>
      /\ \A b \in Actors \ {a} : act'[b] = act[b]
      /\ rows \in [Stories -> [status : RowStatus, run : Nat]]
      /\ Stories \subseteq Actors /\ act[a].at \in Busy
      /\ cancelled \in BOOLEAN /\ cancelled' \in BOOLEAN
      /\ act \in [Actors -> Act]
  BY EffectTyped DEF Effect, Typed, RowsTyped, Actors
<1>1. CASE a \notin Stories
  <2>1. UNCHANGED <<rows, cancelled>>
    BY <1>1 DEF Effect, Ended, Off, GoesOn
  <2>2. \A s \in Stories : act'[s].at = act[s].at
    BY <1>0, <1>1
  <2> QED BY <1>0, <2>1, <2>2 DEF EpicOK
<1>2. CASE a \in Stories
  <2>1. epic = "running" /\ dag.layer[a] = group
    <3>1. epic \in {"none", "pending", "running", "completed", "failed"} /\ group \in Nat
      BY DEF Typed
    <3>2. epic = "running"
      BY <1>0, <1>2, <3>1 DEF EpicOK, Busy
    <3>3. dag.layer[a] \in Nat
      BY <1>2, <3>2, DagSound DEF EpicOK
    <3>4. ~(dag.layer[a] > group) /\ ~(dag.layer[a] < group)
      BY <1>0, <1>2, <3>2 DEF EpicOK, Busy
    <3> QED BY <3>1, <3>2, <3>3, <3>4
  <2>2. /\ \A s \in Stories \ {a} : rows'[s] = rows[s]
        /\ act'[a].at # "off"
        /\ rows'[a].status \in {rows[a].status, "running", "completed", "failed"}
        /\ ~cancelled' => /\ ~cancelled /\ act'[a].at # "failed"
                          /\ act'[a].at = "done" => rows'[a].status = "completed"
        /\ cancelled' => cancelled \/ act'[a].at = "failed"
    <3>1. CASE StoryCompleted(a)
      BY <1>0, <1>2, <3>1 DEF StoryCompleted, Go, UpdateEpicRunStoryStatus
    <3>2. CASE StoryFailed(a, NoRun) \/ StoryFailed(a, act[a].run)
      <4>1. PICK r : StoryFailed(a, r)
        BY <3>2
      <4>2. act'[a].at = "failed"
        BY <1>0, <1>2, <4>1 DEF StoryFailed, Go
      <4>3. cancelled' = TRUE
        BY <4>1 DEF StoryFailed
      <4>4. rows' = rows \/ rows' = [rows EXCEPT ![a] = [status |-> "failed", run |-> r]]
        BY <4>1 DEF StoryFailed, UpdateEpicRunStoryStatus
      <4>5. /\ \A s \in Stories \ {a} : rows'[s] = rows[s]
            /\ rows'[a].status \in {rows[a].status, "failed"}
        BY <1>0, <1>2, <4>4
      <4> QED BY <4>2, <4>3, <4>5
    <3>3. CASE GoesOn(a)
      <4>1. act'[a].at \in Busy /\ UNCHANGED cancelled
        BY <3>3 DEF GoesOn
      <4>2. CASE UNCHANGED rows
        BY <1>0, <1>2, <4>1, <4>2 DEF Busy
      <4>3. CASE UpdateEpicRunStoryStatus(a, "running", act[a].run)
        BY <1>0, <1>2, <4>1, <4>3 DEF Busy, UpdateEpicRunStoryStatus
      <4> QED BY <3>3, <4>2, <4>3 DEF GoesOn
    <3> QED BY <1>2, <3>1, <3>2, <3>3 DEF Effect, Ended
  <2>3. \A s \in Stories \ {a} : act'[s] = act[s]
    BY <1>0
  <2>4. "layer" \in DOMAIN dag /\ plan.ops.epic /\ rows'[a].status # "absent"
        /\ \A s \in Stories : rows[s].status # "absent"
    BY <1>2, <2>1, <2>2 DEF EpicOK
  <2>5. \A s \in Stories :
           /\ dag.layer[s] > group => act'[s].at = "off" /\ rows'[s].status = "pending"
           /\ dag.layer[s] = group => act'[s].at # "off"
           /\ dag.layer[s] < group => act'[s].at = "done" /\ rows'[s].status = "completed"
    <3> TAKE s \in Stories
    <3>1. /\ dag.layer[s] > group => act[s].at = "off" /\ rows[s].status = "pending"
          /\ dag.layer[s] = group => act[s].at # "off"
          /\ dag.layer[s] < group => act[s].at = "done" /\ rows[s].status = "completed"
      BY <2>1 DEF EpicOK
    <3>2. CASE s # a
      BY <3>1, <3>2, <2>2, <2>3
    <3>3. CASE s = a
      <4>1. group \in Nat
        BY DEF Typed
      <4> QED BY <3>3, <2>1, <2>2, <4>1
    <3> QED BY <3>2, <3>3
  <2>6. cancelled' => \E s \in Stories : act'[s].at = "failed"
    <3>1. CASE cancelled
      <4>1. PICK s \in Stories : act[s].at = "failed"
        BY <3>1 DEF EpicOK
      <4>2. s # a
        BY <4>1, <1>0 DEF Busy
      <4> QED BY <4>1, <4>2, <2>3
    <3>2. CASE ~cancelled
      BY <3>2, <2>2, <1>2
    <3> QED BY <3>1, <3>2
  <2>7. ~cancelled' => \A s \in Stories :
          act'[s].at # "failed" /\ (act'[s].at = "done" => rows'[s].status = "completed")
    BY <2>2, <2>3 DEF EpicOK
  <2> QED BY <1>0, <2>1, <2>2, <2>3, <2>4, <2>5, <2>6, <2>7 DEF EpicOK
<1> QED BY <1>1, <1>2

LEMMA StartGroupTyped ==
    ASSUME Typed, NEW g \in Nat, StartGroup(g), UNCHANGED <<plan, dag, story, runs, queue, rows, ops>>,
           epic' \in {"none", "pending", "running", "completed", "failed"}
    PROVE  /\ Typed' /\ group' = g /\ ~cancelled'
           /\ \A a \in Actors : act'[a] = IF a \in Layer(g) THEN [act[a] EXCEPT !.at = "story"] ELSE act[a]
<1>0. act \in [Actors -> Act] /\ DOMAIN act = Actors
  BY DEF Typed
<1>1. \A a \in Actors : act'[a] = IF a \in Layer(g) THEN [act[a] EXCEPT !.at = "story"] ELSE act[a]
  BY <1>0 DEF StartGroup
<1>2. act' \in [Actors -> Act]
  <2>1. \A a \in Actors : act'[a] \in Act
    <3> TAKE a \in Actors
    <3>1. act[a] \in Act
      BY <1>0
    <3> QED BY <3>1, <1>1 DEF Act, Busy
  <2>2. act' = [a \in Actors |-> act'[a]]
    BY <1>0 DEF StartGroup
  <2> QED BY <2>1, <2>2
<1>3. \A a \in Actors : ActOK(a)'
  <2> TAKE a \in Actors
  <2>1. ActOK(a) /\ act[a] \in Act
    BY <1>0 DEF Typed
  <2>2. CASE a \in Layer(g)
    <3>1. a \in Stories /\ a # User /\ a # Worker
      BY <2>2, StoriesAssumption DEF Layer
    <3>2. act'[a].at = "story" /\ act'[a].story = a
      BY <1>1, <2>1, <2>2, <3>1 DEF ActOK, Act
    <3> QED BY <3>1, <3>2 DEF ActOK, OfARun
  <2>3. CASE a \notin Layer(g)
    BY <1>1, <2>1, <2>3 DEF ActOK, Steps
  <2> QED BY <2>2, <2>3
<1>4. OpsLeft' /\ RunsTyped' /\ RowsTyped' /\ queue' \subseteq DOMAIN runs'
  BY RunsSame DEF Typed, OpsLeft, RunsGrow, RowsTyped
<1>5. group' = g /\ cancelled' = FALSE
  BY DEF StartGroup
<1> QED BY <1>1, <1>2, <1>3, <1>4, <1>5 DEF Typed

LEMMA ExecuteStartsKeeps ==
    ASSUME Typed, EpicOK, ExecuteStarts
    PROVE  Typed' /\ EpicOK'
<1>0. /\ epic = "pending" /\ epic' = "running" /\ StartGroup(0)
      /\ UNCHANGED <<plan, dag, story, runs, queue, rows, ops>>
  BY DEF ExecuteStarts, UpdateEpicRunStatus
<1>1. /\ Typed' /\ group' = 0 /\ ~cancelled'
      /\ \A a \in Actors : act'[a] = IF a \in Layer(0) THEN [act[a] EXCEPT !.at = "story"] ELSE act[a]
  BY <1>0, StartGroupTyped
<1>2. "layer" \in DOMAIN dag /\ dag.layer \in [Stories -> Nat] /\ plan.ops.epic
  BY <1>0, DagSound DEF EpicOK
<1>3. \A s \in Stories : act[s].at = "off" /\ rows[s].status = "pending"
  BY <1>0 DEF EpicOK
<1>4. \A s \in Stories : act'[s].at = IF dag.layer[s] = 0 THEN "story" ELSE "off"
  <2> TAKE s \in Stories
  <2>1. s \in Actors /\ act[s] \in Act
    BY DEF Actors, Typed
  <2> QED BY <2>1, <1>1, <1>3 DEF Layer, Act
<1>5. \A s \in Stories : dag.layer[s] \in Nat
  BY <1>2
<1> QED BY <1>0, <1>1, <1>2, <1>3, <1>4, <1>5 DEF EpicOK

LEMMA ExecuteGoesOnKeeps ==
    ASSUME Typed, EpicOK, ExecuteGoesOn
    PROVE  Typed' /\ EpicOK'
<1>0. /\ epic = "running" /\ GroupOver /\ group \in Nat /\ cancelled \in BOOLEAN
      /\ UNCHANGED <<plan, dag, story, runs, queue, rows, ops>>
  BY DEF ExecuteGoesOn, Typed
<1>1. /\ "layer" \in DOMAIN dag /\ plan.ops.epic
      /\ dag.layer \in [Stories -> Nat]
      /\ \A s \in Stories : \A i \in 0..dag.layer[s] : \E t \in Stories : dag.layer[t] = i
  BY <1>0, DagSound DEF EpicOK
<1>2. \A s \in Stories :
        /\ dag.layer[s] > group => act[s].at = "off" /\ rows[s].status = "pending"
        /\ dag.layer[s] < group => act[s].at = "done" /\ rows[s].status = "completed"
        /\ dag.layer[s] = group => act[s].at \in {"done", "failed"}
        /\ dag.layer[s] \in Nat
  BY <1>0, <1>1 DEF EpicOK, GroupOver, Layer
<1>3. CASE GroupFailed /\ UpdateEpicRunStatus("failed") /\ UNCHANGED <<group, cancelled, act>>
  <2>1. Typed'
    BY <1>0, <1>3, RunsSame DEF UpdateEpicRunStatus, Typed, OpsLeft, RunsGrow, RowsTyped, ActOK, Steps
  <2>2. cancelled
    BY <1>3 DEF GroupFailed, Layer, EpicOK
  <2>3. \A s \in Stories : act[s].at \notin Busy
    <3> TAKE s \in Stories
    <3>1. act[s].at \in {"off", "done", "failed"}
      BY <1>0, <1>2
    <3> QED BY <3>1 DEF Busy
  <2>4. epic' = "failed"
    BY <1>3 DEF UpdateEpicRunStatus
  <2> QED BY <1>0, <1>3, <2>1, <2>2, <2>3, <2>4 DEF EpicOK
<1>4. ASSUME ~GroupFailed
      PROVE  /\ ~cancelled
             /\ \A s \in Stories : dag.layer[s] <= group => act[s].at = "done" /\ rows[s].status = "completed"
  <2>1. \A s \in Stories : act[s].at # "failed"
    BY <1>0, <1>2, <1>4 DEF GroupFailed, Layer
  <2>2. ~cancelled
    BY <2>1, <1>0 DEF EpicOK
  <2>3. ASSUME NEW s \in Stories, dag.layer[s] <= group
        PROVE  act[s].at = "done" /\ rows[s].status = "completed"
    <3>1. act[s].at = "done"
      BY <1>0, <1>2, <2>1, <2>3
    <3> QED BY <3>1, <2>2 DEF EpicOK
  <2> QED BY <2>2, <2>3
<1>5. CASE ~GroupFailed /\ Layer(group + 1) # {} /\ StartGroup(group + 1) /\ UNCHANGED epic
  <2>1. /\ Typed' /\ group' = group + 1 /\ ~cancelled'
        /\ \A a \in Actors : act'[a] = IF a \in Layer(group + 1) THEN [act[a] EXCEPT !.at = "story"] ELSE act[a]
    BY <1>0, <1>5, StartGroupTyped
  <2>2. \A s \in Stories : act'[s].at = IF dag.layer[s] = group + 1 THEN "story" ELSE act[s].at
    <3> TAKE s \in Stories
    <3>1. s \in Actors /\ act[s] \in Act
      BY DEF Actors, Typed
    <3> QED BY <3>1, <2>1 DEF Layer, Act
  <2>3. \A s \in Stories :
          /\ dag.layer[s] > group + 1 => act'[s].at = "off" /\ rows[s].status = "pending"
          /\ dag.layer[s] = group + 1 => act'[s].at # "off"
          /\ dag.layer[s] < group + 1 => act'[s].at = "done" /\ rows[s].status = "completed"
    BY <1>0, <1>2, <1>4, <1>5, <2>2
  <2>4. \A s \in Stories : act'[s].at # "failed" /\ (act'[s].at = "done" => rows[s].status = "completed")
    BY <1>4, <1>5, <2>2 DEF EpicOK
  <2> QED BY <1>0, <1>1, <1>5, <2>1, <2>3, <2>4 DEF EpicOK
<1>6. CASE /\ ~GroupFailed /\ Layer(group + 1) = {}
           /\ UpdateEpicRunStatus("completed") /\ UNCHANGED <<group, cancelled, act>>
  <2>1. Typed'
    BY <1>0, <1>6, RunsSame DEF UpdateEpicRunStatus, Typed, OpsLeft, RunsGrow, RowsTyped, ActOK, Steps
  <2>2. \A s \in Stories : dag.layer[s] <= group
    <3> SUFFICES ASSUME NEW s \in Stories, ~(dag.layer[s] <= group)
                 PROVE  FALSE
      OBVIOUS
    <3>1. group + 1 \in 0..dag.layer[s]
      BY <1>0, <1>2
    <3>2. PICK t \in Stories : dag.layer[t] = group + 1
      BY <1>1, <3>1
    <3> QED BY <3>2, <1>6 DEF Layer
  <2>3. epic' = "completed"
    BY <1>6 DEF UpdateEpicRunStatus
  <2> QED BY <1>0, <1>4, <1>6, <2>1, <2>2, <2>3 DEF EpicOK
<1> QED BY <1>3, <1>5, <1>6 DEF ExecuteGoesOn

LEMMA LaunchEpicRunKeeps ==
    ASSUME Typed, EpicOK, LaunchEpicRun
    PROVE  Typed' /\ EpicOK'
<1>0. /\ epic = "none" /\ plan.ops.epic /\ dag' = BuildDAG(plan.deps, plan.files)
      /\ UNCHANGED <<plan, story, runs, queue, act, group, cancelled, ops>>
  BY DEF LaunchEpicRun
<1>1. /\ OpsLeft' /\ RunsTyped' /\ queue' \subseteq DOMAIN runs' /\ \A a \in Actors : ActOK(a)'
  BY <1>0, RunsSame DEF Typed, OpsLeft, RunsGrow, ActOK, Steps
<1>2. dag' \in {NoDAG, BuildDAG(plan.deps, plan.files)'}
  BY <1>0
<1>3. CASE UNCHANGED <<epic, rows>>
  <2>1. Typed'
    BY <1>0, <1>1, <1>2, <1>3 DEF Typed, RowsTyped
  <2> QED BY <1>0, <1>3, <2>1 DEF EpicOK
<1>4. CASE ~("error" \in DOMAIN dag') /\ CreateEpicRun /\ InsertEpicRunStory
  <2>1. epic' = "pending" /\ rows' = [s \in Stories |-> [status |-> "pending", run |-> NoRun]]
    BY <1>4 DEF CreateEpicRun, InsertEpicRunStory
  <2>2. RowsTyped'
    BY <2>1 DEF RowsTyped, RowStatus, NoRun
  <2>3. Typed'
    BY <1>0, <1>1, <1>2, <2>1, <2>2 DEF Typed
  <2>4. "layer" \in DOMAIN dag'
    BY <1>0, <1>4 DEF BuildDAG
  <2> QED BY <1>0, <2>1, <2>3, <2>4 DEF EpicOK
<1> QED BY <1>3, <1>4 DEF LaunchEpicRun

LEMMA GetEpicDAGKeeps ==
    ASSUME Typed, EpicOK, GetEpicDAG
    PROVE  Typed' /\ EpicOK'
<1>0. /\ dag = NoDAG /\ dag' = BuildDAG(plan.deps, plan.files)
      /\ UNCHANGED <<plan, story, runs, queue, act, epic, rows, group, cancelled, ops>>
  BY DEF GetEpicDAG
<1>1. /\ OpsLeft' /\ RunsTyped' /\ queue' \subseteq DOMAIN runs' /\ RowsTyped'
      /\ \A a \in Actors : ActOK(a)'
  BY <1>0, RunsSame DEF Typed, OpsLeft, RunsGrow, ActOK, Steps, RowsTyped
<1>2. dag' \in {NoDAG, BuildDAG(plan.deps, plan.files)'}
  BY <1>0
<1>3. Typed'
  BY <1>0, <1>1, <1>2 DEF Typed
<1>4. epic = "none"
  BY <1>0 DEF EpicOK, NoDAG, Typed
<1> QED BY <1>0, <1>3, <1>4 DEF EpicOK

-----------------------------------------------------------------------------
(* What the step of an actor does to the runs: it writes the one it works   *)
(* on, or creates one.                                                      *)
Writes(a) ==
    /\ act[a].at \in OfARun
    /\ DOMAIN runs' = DOMAIN runs
    /\ \A q \in DOMAIN runs \ {act[a].run} : runs'[q] = runs[q]
    /\ runs'[act[a].run].status = "pending" => runs[act[a].run].status = "pending"
    /\ runs'[act[a].run].status \in Active =>
         runs[act[a].run].status \in Active \/ (act[a].at = "step" /\ Suspends(a))

Creates(a) ==
    /\ act[a].at = "create" /\ CreateRun(act[a].story)
    /\ act'[a].at = "enqueue" /\ act'[a].run = Len(runs) + 1

Moved(a) ==
    /\ act'[a].at \in Busy => act'[a].story = act[a].story
    /\ act'[a].at # "story"
    /\ act'[a].at = "active" => act[a].at = "story" /\ Alone(a) /\ UNCHANGED runs
    /\ act'[a].at = "create" =>
         act[a].at = "active" /\ GetActiveRunByStory(act[a].story) = {} /\ UNCHANGED runs
    /\ act'[a].at \in {"poll", "step", "finish"} =>
         /\ act'[a].run = act[a].run
         /\ \/ runs'[act[a].run].status \in Active
            \/ act[a].at \in {"poll", "step", "finish"}
               /\ runs'[act[a].run].status = runs[act[a].run].status

HandsOver(a) ==
    /\ queue \subseteq queue'
    /\ act[a].at \in {"enqueue", "mark", "start"} =>
         \/ act[a].run \in queue'
         \/ act'[a].run = act[a].run /\ act'[a].at \in {"mark", "start"}
         \/ cancelled'
         \/ runs'[act[a].run].status # "pending"

RunsEffect(a) == Moved(a) /\ HandsOver(a) /\ (UNCHANGED runs \/ Writes(a) \/ Creates(a))

LEMMA GoValues ==
    ASSUME Typed, NEW a \in Actors, NEW at, Go(a, at)
    PROVE  act'[a].at = at /\ act'[a].story = act[a].story /\ act'[a].run = act[a].run
<1>1. act \in [Actors -> Act]
  BY DEF Typed
<1>2. act'[a] = [act[a] EXCEPT !.at = at] /\ act[a] \in Act
  BY <1>1 DEF Go
<1> QED BY <1>2 DEF Act

LEMMA EndedMoved ==
    ASSUME Typed, NEW a \in Actors, Effect(a), Ended(a)
    PROVE  Moved(a)
<1>1. act'[a].at \in {"off", "done", "failed"}
  BY EndedTyped DEF Effect
<1> QED BY <1>1 DEF Moved, Busy

LEMMA LaunchRuns ==
    ASSUME Typed, NEW a \in Stories \cup {User}, Launch(a)
    PROVE  RunsEffect(a)
<1>0. a \in Actors /\ a # Worker /\ Effect(a) /\ cancelled \in BOOLEAN
  <2>1. a \in Actors /\ a # Worker
    BY StoriesAssumption DEF Actors, User, Worker
  <2> QED BY <2>1, ActorEffect DEF ActorStep, Typed
<1>e. Ended(a) => Moved(a)
  BY <1>0, EndedMoved
<1>r. LaunchReturnsError(a) => Ended(a)
  BY <1>0, ReturnsEnd
<1>1. CASE LaunchStory(a)
  <2>1. /\ act[a].at = "story" /\ Alone(a) /\ UNCHANGED <<runs, queue>>
        /\ LaunchReturnsError(a) \/ Go(a, "active")
    BY <1>1 DEF LaunchStory
  <2>2. Moved(a)
    <3>1. CASE Go(a, "active")
      BY <1>0, <2>1, <3>1, GoValues DEF Moved
    <3> QED BY <2>1, <3>1, <1>e, <1>r
  <2> QED BY <2>1, <2>2 DEF RunsEffect, HandsOver
<1>2. CASE LaunchActive(a)
  <2>1. /\ act[a].at = "active" /\ UNCHANGED <<runs, queue>>
        /\ \/ LaunchReturnsError(a)
           \/ Go(a, "create") /\ GetActiveRunByStory(act[a].story) = {}
    BY <1>2 DEF LaunchActive
  <2>2. Moved(a)
    <3>1. CASE Go(a, "create") /\ GetActiveRunByStory(act[a].story) = {}
      BY <1>0, <2>1, <3>1, GoValues DEF Moved
    <3> QED BY <2>1, <3>1, <1>e, <1>r
  <2> QED BY <2>1, <2>2 DEF RunsEffect, HandsOver
<1>3. CASE LaunchCreate(a)
  <2>1. act[a].at = "create" /\ UNCHANGED queue
    BY <1>3 DEF LaunchCreate
  <2>2. CASE LaunchReturnsError(a) /\ UNCHANGED runs
    BY <2>1, <2>2, <1>e, <1>r DEF RunsEffect, HandsOver
  <2>3. CASE /\ CreateRun(act[a].story)
             /\ act' = [act EXCEPT ![a].at = "enqueue", ![a].run = Len(runs) + 1]
    <3> DEFINE u == [act[a] EXCEPT !.at = "enqueue"]
               x == [u EXCEPT !.run = Len(runs) + 1]
    <3>0. act \in [Actors -> Act] /\ act[a] \in Act
      BY <1>0 DEF Typed
    <3>1. [act EXCEPT ![a] = u][a] = u
      BY <3>0, <1>0
    <3>2. act' = [[act EXCEPT ![a] = u] EXCEPT ![a] = x]
      BY <2>3, <3>1
    <3>3. u \in Act /\ u.at = "enqueue" /\ u.story = act[a].story
      BY <3>0 DEF Act, Busy
    <3> HIDE DEF u
    <3>4. x.at = "enqueue" /\ x.story = act[a].story /\ x.run = Len(runs) + 1
      BY <3>3 DEF Act
    <3> HIDE DEF x
    <3>5. act'[a] = x
      BY <1>0, <3>0, <3>2
    <3>6. Moved(a) /\ Creates(a)
      BY <2>1, <2>3, <3>4, <3>5 DEF Moved, Creates, Busy
    <3> QED BY <2>1, <3>6 DEF RunsEffect, HandsOver
  <2> QED BY <1>3, <2>2, <2>3 DEF LaunchCreate
<1>4. CASE LaunchEnqueue(a)
  <2>1. act[a].at = "enqueue" /\ UNCHANGED runs
    BY <1>4 DEF LaunchEnqueue
  <2>2. CASE ContextDone(a) /\ LaunchReturnsError(a) /\ UNCHANGED queue
    <3>1. a \in Stories /\ cancelled'
      BY <2>2, StoriesAssumption DEF ContextDone, LaunchReturnsError, StoryFailed
    <3> QED BY <2>1, <2>2, <3>1, <1>e, <1>r DEF RunsEffect, HandsOver
  <2>3. CASE /\ queue' = queue \cup {act[a].run}
             /\ IF a = User THEN Off(a) ELSE Go(a, "mark") /\ UNCHANGED <<rows, cancelled>>
    <3>1. Moved(a)
      <4>1. CASE a = User
        BY <2>3, <4>1, <1>e, StoriesAssumption DEF Ended
      <4>2. CASE a # User
        BY <1>0, <2>3, <4>2, GoValues DEF Moved
      <4> QED BY <4>1, <4>2
    <3> QED BY <2>1, <2>3, <3>1 DEF RunsEffect, HandsOver
  <2> QED BY <1>4, <2>2, <2>3 DEF LaunchEnqueue
<1> QED BY <1>1, <1>2, <1>3, <1>4 DEF Launch

LEMMA StatusWrites ==
    ASSUME Typed, UNCHANGED plan, NEW a \in Actors, act[a].at \in OfARun,
           NEW status \in RunStatus \ {"pending"}, UpdateRunStatus(act[a].run, status),
           status \in RunTerminal \/ runs[act[a].run].status \in Active
    PROVE  Writes(a) /\ runs'[act[a].run].status = status
<1>1. act[a].run \in DOMAIN runs
  BY RecordsTyped
<1>2. /\ DOMAIN runs' = DOMAIN runs
      /\ \A q \in DOMAIN runs \ {act[a].run} : runs'[q] = runs[q]
      /\ runs'[act[a].run].status = status
  BY <1>1, StatusWritten
<1> QED BY <1>2 DEF Writes, RunTerminal, Active

LEMMA ExecuteRuns ==
    ASSUME Typed, NEW a \in Stories \cup {Worker}, ExecuteRun(a)
    PROVE  RunsEffect(a)
<1>0. /\ a \in Actors /\ a # User /\ Effect(a) /\ cancelled \in BOOLEAN /\ UNCHANGED <<plan, queue>>
      /\ act \in [Actors -> Act]
  <2>1. a \in Actors /\ a # User
    BY StoriesAssumption DEF Actors, User, Worker
  <2>2. UNCHANGED <<plan, queue>>
    BY DEF ExecuteRun, ExecStart, ExecPoll, ExecStep, ExecFinish
  <2> QED BY <2>1, <2>2, ActorEffect DEF ActorStep, Typed
<1>1. act[a].at \in {"start", "poll", "step", "finish"}
  BY DEF ExecuteRun, ExecStart, ExecPoll, ExecStep, ExecFinish
<1>2. act[a].at \in OfARun /\ act[a].run \in DOMAIN runs /\ runs[act[a].run] \in Run
  BY <1>0, <1>1, RecordsTyped DEF OfARun
<1>e. ASSUME NEW err \in BOOLEAN, ExecuteReturns(a, err)
      PROVE  Moved(a)
  BY <1>0, <1>2, <1>e, ReturnsEnd, EndedMoved
<1>3. CASE ExecStart(a)
  <2>1. act[a].at = "start"
    BY <1>3 DEF ExecStart
  <2>2. CASE /\ ContextDone(a) \/ runs[act[a].run].status \in RunTerminal
             /\ ExecuteReturns(a, ContextDone(a))
             /\ UNCHANGED <<runs, story>>
    <3>1. Moved(a)
      BY <1>0, <1>e, <2>2 DEF ContextDone
    <3>2. ContextDone(a) => cancelled'
      BY <2>2, <1>0, StoriesAssumption DEF ExecuteReturns, ContextDone, StoryFailed
    <3>3. runs[act[a].run].status \in RunTerminal => runs'[act[a].run].status # "pending"
      BY <2>2 DEF RunTerminal
    <3> QED BY <1>0, <2>1, <2>2, <3>1, <3>2, <3>3 DEF RunsEffect, HandsOver
  <2>3. CASE UpdateRunStatus(act[a].run, "failed") /\ ExecuteReturns(a, TRUE)
    <3>1. Moved(a)
      BY <1>e, <2>3
    <3>2. Writes(a) /\ runs'[act[a].run].status = "failed"
      BY <1>0, <1>2, <2>3, StatusWrites DEF RunStatus, RunTerminal, Active
    <3> QED BY <1>0, <2>1, <3>1, <3>2 DEF RunsEffect, HandsOver
  <2>4. CASE /\ runs[act[a].run].status \notin RunTerminal
             /\ UpdateRunStatus(act[a].run, "running")
             /\ act' = [act EXCEPT ![a].at = "poll", ![a].next = runs[act[a].run].done + 1]
    <3>1. runs[act[a].run].status \in Active
      BY <1>2, <2>4 DEF Run, RunStatus
    <3>2. Writes(a) /\ runs'[act[a].run].status = "running"
      BY <1>0, <1>2, <2>4, <3>1, StatusWrites DEF RunStatus, RunTerminal, Active
    <3> DEFINE u == [act[a] EXCEPT !.at = "poll"]
               x == [u EXCEPT !.next = runs[act[a].run].done + 1]
    <3>3. [act EXCEPT ![a] = u][a] = u
      BY <1>0
    <3>4. act' = [[act EXCEPT ![a] = u] EXCEPT ![a] = x]
      BY <2>4, <3>3
    <3>5. u \in Act /\ u.at = "poll" /\ u.story = act[a].story /\ u.run = act[a].run
      BY <1>0 DEF Act, Busy
    <3> HIDE DEF u
    <3>6. x.at = "poll" /\ x.story = act[a].story /\ x.run = act[a].run
      BY <3>5 DEF Act
    <3> HIDE DEF x
    <3>7. act'[a] = x
      BY <1>0, <3>4
    <3>8. Moved(a)
      BY <3>2, <3>6, <3>7 DEF Moved, Active
    <3> QED BY <1>0, <2>1, <3>2, <3>8 DEF RunsEffect, HandsOver
  <2> QED BY <1>3, <2>2, <2>3, <2>4 DEF ExecStart
<1>4. ASSUME act[a].at # "start"
      PROVE  HandsOver(a)
  BY <1>0, <1>1, <1>4 DEF HandsOver
<1>5. CASE ExecPoll(a)
  <2>1. act[a].at = "poll"
    BY <1>5 DEF ExecPoll
  <2>2. CASE UpdateRunStatus(act[a].run, "cancelled") /\ ExecuteReturns(a, TRUE)
    <3>1. Writes(a)
      BY <1>0, <1>2, <2>2, StatusWrites DEF RunStatus, RunTerminal, Active
    <3> QED BY <1>4, <1>e, <2>1, <2>2, <3>1 DEF RunsEffect
  <2>3. CASE UNCHANGED runs /\ ExecuteReturns(a, TRUE)
    BY <1>4, <1>e, <2>1, <2>3 DEF RunsEffect
  <2>4. CASE UNCHANGED runs /\ \E at \in {"finish", "step"} : Go(a, at)
    <3>1. Moved(a)
      BY <1>0, <2>1, <2>4, GoValues DEF Moved
    <3> QED BY <1>4, <2>1, <2>4, <3>1 DEF RunsEffect
  <2> QED BY <1>5, <2>2, <2>3, <2>4 DEF ExecPoll
<1>6. CASE ExecStep(a)
  <2>1. act[a].at = "step"
    BY <1>6 DEF ExecStep
  <2>2. CASE UNCHANGED runs /\ ExecuteReturns(a, TRUE)
    BY <1>4, <1>e, <2>1, <2>2 DEF RunsEffect
  <2>3. CASE UpdateRunStatus(act[a].run, "failed") /\ ExecuteReturns(a, TRUE)
    <3>1. Writes(a)
      BY <1>0, <1>2, <2>3, StatusWrites DEF RunStatus, RunTerminal, Active
    <3> QED BY <1>4, <1>e, <2>1, <2>3, <3>1 DEF RunsEffect
  <2>4. ASSUME StepDone(a)
        PROVE  /\ Writes(a)
               /\ ~Suspends(a) => runs'[act[a].run].status = runs[act[a].run].status
    <3>1. /\ DOMAIN runs' = DOMAIN runs
          /\ \A q \in DOMAIN runs \ {act[a].run} : runs'[q] = runs[q]
          /\ runs'[act[a].run].status = IF Suspends(a) THEN "paused" ELSE runs[act[a].run].status
      BY <1>0, <2>1, <2>4, StepWritten
    <3> QED BY <1>2, <2>1, <3>1 DEF Writes
  <2>5. CASE StepDone(a) /\ ExecuteReturns(a, FALSE)
    BY <1>4, <1>e, <2>1, <2>4, <2>5 DEF RunsEffect
  <2>6. CASE /\ StepDone(a) /\ ~Suspends(a)
             /\ act' = [act EXCEPT ![a].next = @ + 1,
                           ![a].at = IF act[a].next = Steps(act[a].story) THEN "finish" ELSE "poll"]
    <3> DEFINE at == IF act[a].next = Steps(act[a].story) THEN "finish" ELSE "poll"
               u == [act[a] EXCEPT !.next = @ + 1]
               x == [u EXCEPT !.at = at]
    <3>3. [act EXCEPT ![a] = u][a] = u
      BY <1>0
    <3>4. act' = [[act EXCEPT ![a] = u] EXCEPT ![a] = x]
      BY <2>6, <3>3
    <3>5. u \in Act /\ u.story = act[a].story /\ u.run = act[a].run
      BY <1>0 DEF Act
    <3>a. at \in {"finish", "poll"}
      OBVIOUS
    <3> HIDE DEF u, at
    <3>6. x.at = at /\ x.story = act[a].story /\ x.run = act[a].run
      BY <3>5 DEF Act
    <3> HIDE DEF x
    <3>7. act'[a] = x
      BY <1>0, <3>4
    <3>8. Moved(a)
      BY <2>1, <2>4, <2>6, <3>a, <3>6, <3>7 DEF Moved
    <3> QED BY <1>4, <2>1, <2>4, <2>6, <3>8 DEF RunsEffect
  <2> QED BY <1>6, <2>2, <2>3, <2>5, <2>6 DEF ExecStep
<1>7. CASE ExecFinish(a)
  <2>1. act[a].at = "finish"
    BY <1>7 DEF ExecFinish
  <2>2. CASE UNCHANGED runs /\ ExecuteReturns(a, TRUE)
    BY <1>4, <1>e, <2>1, <2>2 DEF RunsEffect
  <2>3. CASE UpdateRunStatus(act[a].run, "completed") /\ ExecuteReturns(a, FALSE)
    <3>1. Writes(a)
      BY <1>0, <1>2, <2>3, StatusWrites DEF RunStatus, RunTerminal, Active
    <3> QED BY <1>4, <1>e, <2>1, <2>3, <3>1 DEF RunsEffect
  <2> QED BY <1>7, <2>2, <2>3 DEF ExecFinish
<1> QED BY <1>3, <1>5, <1>6, <1>7 DEF ExecuteRun

LEMMA ActorRuns ==
    ASSUME Typed, NEW a \in Actors, ActorStep(a)
    PROVE  RunsEffect(a)
<1>1. CASE a \in Stories /\ RunStoryRunning(a)
  <2>1. act[a].at = "mark" /\ Go(a, "start") /\ UNCHANGED <<runs, queue>>
    BY <1>1 DEF RunStoryRunning
  <2>2. act'[a].at = "start" /\ act'[a].story = act[a].story /\ act'[a].run = act[a].run
    BY <2>1, GoValues
  <2> QED BY <2>1, <2>2 DEF RunsEffect, Moved, HandsOver
<1> QED BY <1>1, LaunchRuns, ExecuteRuns DEF ActorStep

-----------------------------------------------------------------------------
(* A pending run is never forgotten.                                        *)

LEMMA PendingQuiet ==
    ASSUME Typed, Typed', PendingServed, queue \subseteq queue', cancelled => cancelled',
           DOMAIN runs' = DOMAIN runs,
           \A r \in DOMAIN runs : runs'[r].status = "pending" => runs[r].status = "pending",
           \A a \in Actors : act[a].at \in {"enqueue", "mark", "start"} => act'[a] = act[a]
    PROVE  PendingServed'
<1>1. DOMAIN act = Actors /\ DOMAIN act' = Actors
  BY DEF Typed
<1> QED BY <1>1 DEF PendingServed

LEMMA PendingKept ==
    ASSUME Typed, EpicOK, PendingServed, Next, Typed'
    PROVE  PendingServed'
<1>0. DOMAIN act = Actors /\ DOMAIN act' = Actors
  BY DEF Typed
<1>1. ASSUME NEW a \in Actors, ActorStep(a)
      PROVE  PendingServed'
  <2>1. /\ RunsEffect(a) /\ Effect(a) /\ \A b \in Actors \ {a} : act'[b] = act[b]
    BY <1>1, ActorRuns, ActorEffect, EffectTyped
  <2>2. cancelled => cancelled'
    BY <2>1 DEF Effect, Ended, GoesOn, Off, StoryCompleted, StoryFailed
  <2>3. \A r \in DOMAIN runs' : runs'[r].status = "pending" =>
          \/ r \in DOMAIN runs /\ runs[r].status = "pending"
          \/ act'[a].run = r /\ act'[a].at = "enqueue"
    <3>1. CASE UNCHANGED runs
      BY <3>1
    <3>2. CASE Writes(a)
      BY <3>2 DEF Writes
    <3>3. CASE Creates(a)
      <4>1. act[a].story \in Stories /\ UNCHANGED plan
        BY <1>1, <2>1, <3>3, RecordsTyped DEF Creates, ActOK, Effect
      <4>2. PICK s \in Stories : s = act[a].story
        BY <4>1
      <4>3. CreateRun(s)
        BY <4>2, <3>3 DEF Creates
      <4>4. /\ DOMAIN runs' = DOMAIN runs \cup {Len(runs) + 1}
            /\ \A r \in DOMAIN runs : runs'[r] = runs[r]
        BY <4>1, <4>3, RunCreated
      <4> QED BY <4>4, <3>3 DEF Creates
    <3> QED BY <2>1, <3>1, <3>2, <3>3 DEF RunsEffect
  <2>4. ASSUME NEW r \in DOMAIN runs', runs'[r].status = "pending"
        PROVE  \/ r \in queue'
               \/ \E b \in Actors : act'[b].run = r /\ act'[b].at \in {"enqueue", "mark", "start"}
               \/ cancelled'
    <3>1. CASE act'[a].run = r /\ act'[a].at = "enqueue"
      BY <3>1
    <3>2. CASE r \in DOMAIN runs /\ runs[r].status = "pending"
      <4>1. \/ r \in queue
            \/ \E b \in Actors : act[b].run = r /\ act[b].at \in {"enqueue", "mark", "start"}
            \/ cancelled
        BY <1>0, <3>2 DEF PendingServed
      <4>2. CASE r \in queue \/ cancelled
        BY <4>2, <2>1, <2>2 DEF RunsEffect, HandsOver
      <4>3. CASE \E b \in Actors : act[b].run = r /\ act[b].at \in {"enqueue", "mark", "start"}
        <5>1. PICK b \in Actors : act[b].run = r /\ act[b].at \in {"enqueue", "mark", "start"}
          BY <4>3
        <5>2. CASE b = a
          BY <5>1, <5>2, <2>1, <2>4 DEF RunsEffect, HandsOver
        <5>3. CASE b # a
          BY <5>1, <5>3, <2>1
        <5> QED BY <5>2, <5>3
      <4> QED BY <4>1, <4>2, <4>3
    <3> QED BY <2>3, <2>4, <3>1, <3>2
  <2> QED BY <1>0, <2>4 DEF PendingServed
<1>2. ASSUME NEW r \in queue, WorkerTakes(r)
      PROVE  PendingServed'
  <2>1. /\ act[Worker].at = "off" /\ queue' = queue \ {r} /\ UNCHANGED <<runs, cancelled>>
        /\ Worker \in Actors
    BY <1>2 DEF WorkerTakes, Actors
  <2>2. \A b \in Actors \ {Worker} : act'[b] = act[b]
    BY <1>2, WorkerTakesTyped
  <2>3. act'[Worker].at = "start" /\ act'[Worker].run = r
    BY <1>2, <2>1 DEF WorkerTakes, Typed
  <2>4. ASSUME NEW q \in DOMAIN runs, runs[q].status = "pending"
        PROVE  \/ q \in queue'
               \/ \E b \in Actors : act'[b].run = q /\ act'[b].at \in {"enqueue", "mark", "start"}
               \/ cancelled'
    <3>1. \/ q \in queue
          \/ \E b \in Actors : act[b].run = q /\ act[b].at \in {"enqueue", "mark", "start"}
          \/ cancelled
      BY <1>0, <2>4 DEF PendingServed
    <3>2. CASE q \in queue
      BY <3>2, <2>1, <2>3
    <3>3. CASE \E b \in Actors : act[b].run = q /\ act[b].at \in {"enqueue", "mark", "start"}
      <4>1. PICK b \in Actors : act[b].run = q /\ act[b].at \in {"enqueue", "mark", "start"}
        BY <3>3
      <4>2. act'[b] = act[b]
        BY <4>1, <2>1, <2>2
      <4> QED BY <4>1, <4>2
    <3> QED BY <3>1, <3>2, <3>3, <2>1
  <2> QED BY <1>0, <2>1, <2>4 DEF PendingServed
<1>3. CASE EpicStep \/ GetEpicDAG
  <2>1. /\ UNCHANGED <<runs, queue>>
        /\ cancelled => cancelled'
    <3>1. CASE ExecuteGoesOn
      <4>1. cancelled => GroupFailed
        <5>1. ASSUME cancelled
              PROVE  GroupFailed
          <6>1. epic = "running" /\ group \in Nat
            BY <3>1 DEF ExecuteGoesOn, Typed
          <6>2. PICK s \in Stories : act[s].at = "failed"
            BY <5>1 DEF EpicOK
          <6>3. dag.layer[s] \in Nat
            BY <6>1, DagSound DEF EpicOK
          <6>4. dag.layer[s] = group
            BY <6>1, <6>2, <6>3 DEF EpicOK
          <6> QED BY <6>2, <6>4 DEF GroupFailed, Layer
        <5> QED BY <5>1
      <4> QED BY <3>1, <4>1 DEF ExecuteGoesOn
    <3>2. CASE ExecuteStarts
      BY <3>2 DEF ExecuteStarts, EpicOK
    <3>3. CASE LaunchEpicRun \/ GetEpicDAG
      BY <3>3 DEF LaunchEpicRun, GetEpicDAG
    <3> QED BY <1>3, <3>1, <3>2, <3>3 DEF EpicStep
  <2>2. \A a \in Actors : act[a].at \in {"enqueue", "mark", "start"} => act'[a] = act[a]
    <3>1. CASE UNCHANGED act
      BY <3>1
    <3>2. ASSUME NEW g \in Nat, StartGroup(g),
                 \A s \in Layer(g) : act[s].at = "off"
          PROVE  \A a \in Actors : act[a].at \in {"enqueue", "mark", "start"} => act'[a] = act[a]
      <4>1. \A a \in Actors : act'[a] = IF a \in Layer(g) THEN [act[a] EXCEPT !.at = "story"] ELSE act[a]
        BY <1>0, <3>2 DEF StartGroup
      <4> QED BY <3>2, <4>1
    <3>3. CASE ExecuteStarts
      <4>1. \A s \in Layer(0) : act[s].at = "off"
        BY <3>3 DEF ExecuteStarts, EpicOK, Layer
      <4>2. StartGroup(0)
        BY <3>3 DEF ExecuteStarts
      <4> QED BY <3>2, <4>1, <4>2
    <3>4. CASE ExecuteGoesOn /\ StartGroup(group + 1)
      <4>1. epic = "running" /\ group \in Nat
        BY <3>4 DEF ExecuteGoesOn, Typed
      <4>2. \A s \in Layer(group + 1) : act[s].at = "off"
        BY <4>1 DEF EpicOK, Layer
      <4> QED BY <3>2, <3>4, <4>1, <4>2
    <3> QED BY <1>3, <3>1, <3>3, <3>4 DEF EpicStep, LaunchEpicRun, GetEpicDAG, ExecuteGoesOn
  <2> QED BY <2>1, <2>2, PendingQuiet
<1>4. ASSUME NEW s \in Stories, UserLaunches(s)
      PROVE  PendingServed'
  <2>1. act[User].at = "off" /\ UNCHANGED <<runs, queue, cancelled>>
    BY <1>4 DEF UserLaunches
  <2>2. \A b \in Actors \ {User} : act'[b] = act[b]
    BY <1>4, UserLaunchesTyped
  <2>3. \A a \in Actors : act[a].at \in {"enqueue", "mark", "start"} => act'[a] = act[a]
    BY <2>1, <2>2
  <2> QED BY <2>1, <2>3, PendingQuiet
<1>5. ASSUME NEW r \in DOMAIN runs, PauseRun(r) \/ ResumeRun(r) \/ RetryStep(r) \/ CancelRun(r)
      PROVE  PendingServed'
  <2>1. /\ UNCHANGED <<act, cancelled>> /\ DOMAIN runs' = DOMAIN runs /\ queue \subseteq queue'
        /\ \A q \in DOMAIN runs \ {r} : runs'[q] = runs[q]
        /\ runs'[r].status # "pending"
    BY <1>5, UserOnRun
  <2> QED BY <2>1, PendingQuiet
<1> QED BY <1>1, <1>2, <1>3, <1>4, <1>5
        DEF Next, GoroutineStep, WorkerStep, UserStep, ActorStep, Actors

LEMMA NextKeeps ==
    ASSUME Typed, EpicOK, Next
    PROVE  Typed' /\ EpicOK'
<1>1. ASSUME NEW a \in Actors, ActorStep(a)
      PROVE  Typed' /\ EpicOK'
  BY <1>1, ActorEffect, EffectTyped, EffectKeepsEpic
<1>2. ASSUME UNCHANGED <<plan, dag, epic, rows, group, cancelled>>,
             \A s \in Stories : act'[s] = act[s]
      PROVE  EpicOK'
  BY <1>2 DEF EpicOK
<1>3. ASSUME NEW r \in queue, WorkerTakes(r)
      PROVE  Typed' /\ EpicOK'
  <2>1. Typed' /\ \A s \in Stories : act'[s] = act[s]
    BY <1>3, WorkerTakesTyped, StoriesAssumption DEF Actors
  <2> QED BY <2>1, <1>2, <1>3 DEF WorkerTakes
<1>4. ASSUME NEW t \in Stories, UserLaunches(t)
      PROVE  Typed' /\ EpicOK'
  <2>1. Typed' /\ \A s \in Stories : act'[s] = act[s]
    BY <1>4, UserLaunchesTyped, StoriesAssumption DEF Actors
  <2> QED BY <2>1, <1>2, <1>4 DEF UserLaunches
<1>5. ASSUME NEW r \in DOMAIN runs, PauseRun(r) \/ ResumeRun(r) \/ RetryStep(r) \/ CancelRun(r)
      PROVE  Typed' /\ EpicOK'
  BY <1>2, <1>5, UserOnRun
<1>6. CASE EpicStep \/ GetEpicDAG
  BY <1>6, LaunchEpicRunKeeps, GetEpicDAGKeeps, ExecuteStartsKeeps, ExecuteGoesOnKeeps DEF EpicStep
<1> QED BY <1>1, <1>3, <1>4, <1>5, <1>6
        DEF Next, GoroutineStep, WorkerStep, UserStep, ActorStep, Actors

-----------------------------------------------------------------------------
(* One active run for a story.                                              *)

LEMMA PolitePlan ==
    ASSUME Typed, plan.polite
    PROVE  /\ plan.ops \in Ops /\ ops.launch \in Nat /\ ops.launch <= plan.ops.launch
           /\ plan.ops.retry = 0 /\ plan.ops.cancel = 0
           /\ plan.ops.launch = 0 \/ plan.gated = {} \/ ~plan.ops.epic
<1>1. plan \in Plans /\ ops \in Ops /\ ops.launch <= plan.ops.launch
  BY DEF Typed, OpsLeft
<1>2. /\ plan.ops \in Ops /\ plan.ops.retry = 0 /\ plan.ops.cancel = 0
      /\ plan.gated = {} \/ ~plan.ops.epic \/ plan.ops.launch = 0
  BY <1>1, PlansAssumption DEF Ops
<1> QED BY <1>1, <1>2 DEF Ops

(* The run that an actor creates. *)
LEMMA CreatesRun ==
    ASSUME Typed, NEW a \in Actors, Effect(a), Creates(a)
    PROVE  /\ act[a].story \in Stories
           /\ DOMAIN runs' = DOMAIN runs \cup {Len(runs) + 1}
           /\ Len(runs) + 1 \notin DOMAIN runs
           /\ \A r \in DOMAIN runs : runs'[r] = runs[r]
           /\ runs'[Len(runs) + 1].story = act[a].story
<1>1. act[a].story \in Stories /\ UNCHANGED plan
  BY RecordsTyped DEF Creates, ActOK, Effect
<1>2. PICK s \in Stories : s = act[a].story
  BY <1>1
<1>3. CreateRun(s)
  BY <1>2 DEF Creates
<1>4. /\ DOMAIN runs' = DOMAIN runs \cup {Len(runs) + 1}
      /\ Len(runs) + 1 \notin DOMAIN runs
      /\ \A r \in DOMAIN runs : runs'[r] = runs[r]
      /\ runs'[Len(runs) + 1] = [story |-> s, status |-> "pending", done |-> 0, approved |-> FALSE]
  BY <1>1, <1>3, RunCreated, Zenon
<1> QED BY <1>1, <1>2, <1>4

LEMMA SoloKept ==
    ASSUME Typed, EpicOK, Solo, Next, Typed', UNCHANGED plan
    PROVE  Solo'
<1> SUFFICES ASSUME plan.polite, plan.ops.launch = 0
             PROVE  /\ act'[User].at = "off"
                    /\ \A r, q \in DOMAIN runs' : runs'[r].story = runs'[q].story => r = q
                    /\ \A s \in Stories : act'[s].at \in {"off", "story", "active", "create"} =>
                         \A r \in DOMAIN runs' : runs'[r].story # s
  BY DEF Solo
<1>0. /\ act[User].at = "off"
      /\ \A r, q \in DOMAIN runs : runs[r].story = runs[q].story => r = q
      /\ \A s \in Stories : act[s].at \in {"off", "story", "active", "create"} =>
           \A r \in DOMAIN runs : runs[r].story # s
      /\ ops.launch = 0
      /\ User \notin Stories /\ Worker \notin Stories /\ User # Worker
  BY PolitePlan, StoriesAssumption DEF Solo, User, Worker
<1>1. ASSUME NEW a \in Actors, ActorStep(a)
      PROVE  /\ act'[User].at = "off"
             /\ \A r, q \in DOMAIN runs' : runs'[r].story = runs'[q].story => r = q
             /\ \A s \in Stories : act'[s].at \in {"off", "story", "active", "create"} =>
                  \A r \in DOMAIN runs' : runs'[r].story # s
  <2>1. /\ RunsEffect(a) /\ Effect(a) /\ \A b \in Actors \ {a} : act'[b] = act[b]
        /\ RunsGrow
    BY <1>1, ActorRuns, ActorEffect, EffectTyped DEF Effect
  <2>2. a # User /\ User \in Actors
    BY <1>0, <2>1 DEF Effect, Busy, Actors
  <2>3. a \in Stories => act'[a].at # "off"
    BY <2>1, EndedTyped DEF Effect, GoesOn, Busy
  <2>4. CASE ~Creates(a)
    <3>1. DOMAIN runs' = DOMAIN runs /\ \A r \in DOMAIN runs : runs'[r].story = runs[r].story
      BY <2>1, <2>4 DEF RunsEffect, Writes, RunsGrow
    <3>2. \A s \in Stories : act'[s].at \in {"off", "story", "active", "create"} =>
                             act[s].at \in {"off", "story", "active", "create"}
      BY <2>1, <2>3 DEF RunsEffect, Moved, Actors
    <3> QED BY <1>0, <2>1, <2>2, <3>1, <3>2
  <2>5. CASE Creates(a)
    <3>1. /\ act[a].story \in Stories
          /\ DOMAIN runs' = DOMAIN runs \cup {Len(runs) + 1}
          /\ \A r \in DOMAIN runs : runs'[r] = runs[r]
          /\ runs'[Len(runs) + 1].story = act[a].story
      BY <2>1, <2>5, CreatesRun
    <3>2. a \in Stories /\ act[a].story = a /\ act[a].at = "create" /\ act'[a].at = "enqueue"
      BY <2>2, <2>5, <1>0, RecordsTyped DEF Creates, ActOK, Actors
    <3>3. \A r \in DOMAIN runs : runs[r].story # a
      BY <1>0, <3>2
    <3>4. \A s \in Stories \ {a} : act'[s] = act[s]
      BY <2>1 DEF Actors
    <3>5. \A s \in Stories : act'[s].at \in {"off", "story", "active", "create"} =>
                         \A r \in DOMAIN runs' : runs'[r].story # s
      BY <1>0, <3>1, <3>2, <3>4
    <3>6. \A r, q \in DOMAIN runs' : runs'[r].story = runs'[q].story => r = q
      BY <1>0, <3>1, <3>2, <3>3
    <3> QED BY <1>0, <2>1, <2>2, <3>5, <3>6
  <2> QED BY <2>4, <2>5
<1>2. CASE \E r \in queue : WorkerTakes(r)
  BY <1>0, <1>2, WorkerTakesTyped DEF WorkerTakes, Actors
<1>3. ASSUME NEW s \in Stories, UserLaunches(s)
      PROVE  FALSE
  BY <1>0, <1>3 DEF UserLaunches
<1>4. ASSUME NEW r \in DOMAIN runs, PauseRun(r) \/ ResumeRun(r) \/ RetryStep(r) \/ CancelRun(r)
      PROVE  /\ act'[User].at = "off"
             /\ \A x, q \in DOMAIN runs' : runs'[x].story = runs'[q].story => x = q
             /\ \A s \in Stories : act'[s].at \in {"off", "story", "active", "create"} =>
                  \A x \in DOMAIN runs' : runs'[x].story # s
  <2>1. /\ UNCHANGED act /\ DOMAIN runs' = DOMAIN runs
        /\ \A q \in DOMAIN runs : runs'[q].story = runs[q].story
    BY <1>4, UserOnRun
  <2> QED BY <1>0, <2>1
<1>5. CASE (EpicStep \/ GetEpicDAG) /\ UNCHANGED act
  BY <1>0, <1>5 DEF EpicStep, GetEpicDAG, LaunchEpicRun, ExecuteStarts, ExecuteGoesOn
<1>6. ASSUME NEW g \in Nat, StartGroup(g), UNCHANGED runs, \A s \in Layer(g) : act[s].at = "off"
      PROVE  /\ act'[User].at = "off"
             /\ \A r, q \in DOMAIN runs' : runs'[r].story = runs'[q].story => r = q
             /\ \A s \in Stories : act'[s].at \in {"off", "story", "active", "create"} =>
                  \A r \in DOMAIN runs' : runs'[r].story # s
  <2>1. \A a \in Actors : act'[a] = IF a \in Layer(g) THEN [act[a] EXCEPT !.at = "story"] ELSE act[a]
    BY <1>6 DEF StartGroup, Typed
  <2>2. act'[User] = act[User]
    BY <1>0, <2>1 DEF Layer, Actors
  <2>3. \A s \in Stories : act'[s].at \in {"off", "story", "active", "create"} =>
                           act[s].at \in {"off", "story", "active", "create"}
    BY <1>6, <2>1 DEF Actors
  <2> QED BY <1>0, <1>6, <2>2, <2>3
<1>7. CASE ExecuteStarts
  <2>1. StartGroup(0) /\ UNCHANGED runs /\ \A s \in Layer(0) : act[s].at = "off"
    BY <1>7 DEF ExecuteStarts, EpicOK, Layer
  <2> QED BY <2>1, <1>6
<1>8. CASE ExecuteGoesOn /\ StartGroup(group + 1)
  <2>1. epic = "running" /\ group \in Nat /\ UNCHANGED runs
    BY <1>8 DEF ExecuteGoesOn, Typed
  <2>2. \A s \in Layer(group + 1) : act[s].at = "off"
    BY <2>1 DEF EpicOK, Layer
  <2> QED BY <2>1, <2>2, <1>6, <1>8
<1>9. CASE EpicStep \/ GetEpicDAG
  BY <1>5, <1>7, <1>8, <1>9 DEF EpicStep, GetEpicDAG, LaunchEpicRun, ExecuteGoesOn
<1> QED BY <1>1, <1>2, <1>3, <1>4, <1>9
        DEF Next, GoroutineStep, WorkerStep, UserStep, ActorStep, Actors

(* A step that starts no launch, brings no run back to life and gives the   *)
(* worker no new run keeps the runs of a story apart.                       *)
LEMMA ApartQuiet ==
    ASSUME Typed, Apart, UNCHANGED plan, DOMAIN runs' = DOMAIN runs,
           \A r \in DOMAIN runs : /\ runs'[r].story = runs[r].story
                                  /\ plan.polite => (ActiveRun(r)' <=> ActiveRun(r)),
           \A a \in Actors : act'[a].at \in {"active", "create"} => act'[a] = act[a],
           act'[Worker].at \in {"poll", "step", "finish"} => act'[Worker] = act[Worker]
    PROVE  Apart'
<1> SUFFICES ASSUME plan.polite, plan.gated = {} \/ ~plan.ops.epic
             PROVE  Apart'
  BY DEF Apart
<1>1. /\ \A r, q \in DOMAIN runs :
           runs[r].story = runs[q].story /\ ActiveRun(r) /\ ActiveRun(q) => r = q
      /\ \A a \in Actors : act[a].at = "create" =>
           \A r \in DOMAIN runs : runs[r].story = act[a].story => ~ActiveRun(r)
      /\ \A a, b \in Actors :
           act[a].at \in {"active", "create"} /\ act[b].at \in {"active", "create"}
             /\ act[a].story = act[b].story => a = b
      /\ ~plan.ops.epic /\ act[Worker].at \in {"poll", "step", "finish"} => ActiveRun(act[Worker].run)
  BY DEF Apart
<1>2. \A r \in DOMAIN runs : ActiveRun(r)' <=> ActiveRun(r)
  OBVIOUS
<1>3. Worker \in Actors /\ (act[Worker].at \in {"poll", "step", "finish"} => act[Worker].run \in DOMAIN runs)
  BY RecordsTyped DEF Actors, OfARun
<1>4. \A r, q \in DOMAIN runs' :
           runs'[r].story = runs'[q].story /\ ActiveRun(r)' /\ ActiveRun(q)' => r = q
  BY <1>1, <1>2
<1>5. \A a \in Actors : act'[a].at = "create" =>
           \A r \in DOMAIN runs' : runs'[r].story = act'[a].story => ~ActiveRun(r)'
  BY <1>1, <1>2
<1>6. \A a, b \in Actors :
           act'[a].at \in {"active", "create"} /\ act'[b].at \in {"active", "create"}
             /\ act'[a].story = act'[b].story => a = b
  BY <1>1
<1>7. ~plan.ops.epic /\ act'[Worker].at \in {"poll", "step", "finish"} => ActiveRun(act[Worker].run)'
  BY <1>1, <1>2, <1>3 DEF ActiveRun
<1> QED BY <1>4, <1>5, <1>6, <1>7 DEF Apart

(* An actor's step.                                                         *)
LEMMA ApartActor ==
    ASSUME Typed, EpicOK, Apart, NEW a \in Actors, ActorStep(a), Typed'
    PROVE  Apart'
<1>0. /\ RunsEffect(a) /\ Effect(a) /\ RunsGrow /\ UNCHANGED plan
      /\ \A b \in Actors \ {a} : act'[b] = act[b]
  BY ActorRuns, ActorEffect, EffectTyped DEF Effect
<1> SUFFICES ASSUME plan.polite, plan.gated = {} \/ ~plan.ops.epic
             PROVE  Apart'
  BY <1>0 DEF Apart
<1>1. /\ \A r, q \in DOMAIN runs :
           runs[r].story = runs[q].story /\ ActiveRun(r) /\ ActiveRun(q) => r = q
      /\ \A b \in Actors : act[b].at = "create" =>
           \A r \in DOMAIN runs : runs[r].story = act[b].story => ~ActiveRun(r)
      /\ \A b, c \in Actors :
           act[b].at \in {"active", "create"} /\ act[c].at \in {"active", "create"}
             /\ act[b].story = act[c].story => b = c
      /\ ~plan.ops.epic /\ act[Worker].at \in {"poll", "step", "finish"} => ActiveRun(act[Worker].run)
  BY DEF Apart
<1>2. ~plan.ops.epic => a \notin Stories
  BY <1>0 DEF EpicOK, Effect, Busy, Typed
<1>3. \A r \in DOMAIN runs : ActiveRun(r)' => ActiveRun(r)
  <2>1. CASE UNCHANGED runs
    BY <2>1 DEF ActiveRun
  <2>2. CASE Writes(a)
    <3>1. ASSUME act[a].at = "step", Suspends(a)
          PROVE  ActiveRun(act[a].run)
      <4>1. plan.gated # {}
        BY <3>1 DEF Suspends
      <4>2. a = Worker
        <5>1. ActOK(a)
          BY DEF Typed
        <5> QED BY <1>2, <3>1, <4>1, <5>1 DEF ActOK, Actors
      <4> QED BY <1>1, <3>1, <4>1, <4>2
    <3> QED BY <2>2, <3>1 DEF Writes, ActiveRun
  <2>3. CASE Creates(a)
    BY <1>0, <2>3, CreatesRun DEF ActiveRun
  <2> QED BY <1>0, <2>1, <2>2, <2>3 DEF RunsEffect
<1>4. \A r \in DOMAIN runs : r \in DOMAIN runs' /\ runs'[r].story = runs[r].story
  BY <1>0 DEF RunsGrow
<1>5. /\ act'[a].at # "story"
      /\ act'[a].at \in {"active", "create"} => act'[a].story = act[a].story /\ UNCHANGED runs
      /\ act'[a].at = "active" => act[a].at = "story" /\ Alone(a)
      /\ act'[a].at = "create" =>
           act[a].at = "active" /\ GetActiveRunByStory(act[a].story) = {}
  BY <1>0 DEF RunsEffect, Moved, Busy
<1>6. \A r, q \in DOMAIN runs' :
           runs'[r].story = runs'[q].story /\ ActiveRun(r)' /\ ActiveRun(q)' => r = q
  <2>1. CASE Creates(a)
    <3>1. /\ DOMAIN runs' = DOMAIN runs \cup {Len(runs) + 1}
          /\ runs'[Len(runs) + 1].story = act[a].story
      BY <1>0, <2>1, CreatesRun
    <3>2. \A r \in DOMAIN runs : runs[r].story = act[a].story => ~ActiveRun(r)
      BY <1>1, <2>1 DEF Creates
    <3> QED BY <1>1, <1>3, <1>4, <3>1, <3>2
  <2>2. CASE ~Creates(a)
    <3>1. DOMAIN runs' = DOMAIN runs
      BY <1>0, <2>2 DEF RunsEffect, Writes
    <3> QED BY <1>1, <1>3, <1>4, <3>1
  <2> QED BY <2>1, <2>2
<1>7. \A b \in Actors : act'[b].at = "create" =>
           \A r \in DOMAIN runs' : runs'[r].story = act'[b].story => ~ActiveRun(r)'
  <2> SUFFICES ASSUME NEW b \in Actors, act'[b].at = "create",
                      NEW r \in DOMAIN runs', runs'[r].story = act'[b].story, ActiveRun(r)'
               PROVE  FALSE
    OBVIOUS
  <2>1. CASE b = a
    <3>1. r \in DOMAIN runs /\ runs[r].story = act[a].story /\ ActiveRun(r)
      BY <1>5, <2>1 DEF ActiveRun
    <3>2. GetActiveRunByStory(act[a].story) = {}
      BY <1>5, <2>1
    <3> QED BY <3>1, <3>2 DEF GetActiveRunByStory, ActiveRun
  <2>2. CASE b # a
    <3>1. act'[b] = act[b]
      BY <1>0, <2>2
    <3>2. CASE Creates(a)
      <4>1. /\ DOMAIN runs' = DOMAIN runs \cup {Len(runs) + 1}
            /\ runs'[Len(runs) + 1].story = act[a].story
        BY <1>0, <3>2, CreatesRun
      <4>2. act[a].story # act[b].story
        BY <1>1, <2>2, <3>1, <3>2 DEF Creates
      <4> QED BY <1>1, <1>3, <1>4, <3>1, <4>1, <4>2
    <3>3. CASE ~Creates(a)
      <4>1. DOMAIN runs' = DOMAIN runs
        BY <1>0, <3>3 DEF RunsEffect, Writes
      <4> QED BY <1>1, <1>3, <1>4, <3>1, <4>1
    <3> QED BY <3>2, <3>3
  <2> QED BY <2>1, <2>2
<1>8. \A b, c \in Actors :
           act'[b].at \in {"active", "create"} /\ act'[c].at \in {"active", "create"}
             /\ act'[b].story = act'[c].story => b = c
  <2>1. \A b \in Actors \ {a} :
          act'[b].at \in {"active", "create"} /\ act'[a].at \in {"active", "create"}
            => act'[b].story # act'[a].story
    <3> SUFFICES ASSUME NEW b \in Actors \ {a}, act'[b].at \in {"active", "create"},
                        act'[a].at \in {"active", "create"}
                 PROVE  act'[b].story # act'[a].story
      OBVIOUS
    <3>1. act'[b] = act[b] /\ act'[a].story = act[a].story
      BY <1>0, <1>5
    <3>2. CASE act'[a].at = "active"
      <4>1. Alone(a) /\ DOMAIN act = Actors
        BY <1>5, <3>2 DEF Typed
      <4> QED BY <3>1, <4>1 DEF Alone
    <3>3. CASE act'[a].at = "create"
      BY <1>1, <1>5, <3>1, <3>3
    <3> QED BY <3>2, <3>3
  <2>2. \A b \in Actors \ {a} : act'[b] = act[b]
    BY <1>0
  <2> QED BY <1>1, <2>1, <2>2
<1>9. ~plan.ops.epic /\ act'[Worker].at \in {"poll", "step", "finish"} => ActiveRun(act[Worker].run)'
  <2> SUFFICES ASSUME ~plan.ops.epic, act'[Worker].at \in {"poll", "step", "finish"}
               PROVE  ActiveRun(act[Worker].run)'
    OBVIOUS
  <2>1. CASE a = Worker
    <3>1. /\ act'[Worker].run = act[Worker].run
          /\ \/ runs'[act[Worker].run].status \in Active
             \/ act[Worker].at \in {"poll", "step", "finish"}
                /\ runs'[act[Worker].run].status = runs[act[Worker].run].status
      BY <1>0, <2>1 DEF RunsEffect, Moved
    <3> QED BY <1>1, <3>1 DEF ActiveRun
  <2>2. CASE a # Worker
    <3>1. a = User
      BY <1>2, <2>2 DEF Actors
    <3>2. act'[Worker] = act[Worker] /\ act[Worker].run \in DOMAIN runs
      BY <1>0, <2>2, RecordsTyped DEF Actors, OfARun
    <3>3. ~Writes(a) \/ UNCHANGED runs
      <4>1. ActOK(a)
        BY DEF Typed
      <4>2. act[a].at \in {"off", "story", "active", "create", "enqueue"}
        BY <3>1, <4>1 DEF ActOK
      <4>3. ActorStep(a) /\ User \notin Stories /\ Worker # User
        BY StoriesAssumption DEF User, Worker
      <4>4. Launch(a)
        BY <3>1, <4>3, StoriesAssumption DEF ActorStep
      <4>5. ~Writes(a) \/ UNCHANGED runs
        BY <4>4 DEF Launch, LaunchStory, LaunchActive, LaunchCreate, LaunchEnqueue, Writes, OfARun
      <4> QED BY <4>5
    <3>4. runs'[act[Worker].run] = runs[act[Worker].run]
      BY <1>0, <3>2, <3>3, CreatesRun DEF RunsEffect
    <3> QED BY <1>1, <3>2, <3>4 DEF ActiveRun
  <2> QED BY <2>1, <2>2
<1> QED BY <1>0, <1>6, <1>7, <1>8, <1>9 DEF Apart

LEMMA ApartKept ==
    ASSUME Typed, EpicOK, Apart, Next, Typed', UNCHANGED plan
    PROVE  Apart'
<1>1. ASSUME NEW a \in Actors, ActorStep(a)
      PROVE  Apart'
  BY <1>1, ApartActor
<1>2. ASSUME NEW r \in queue, WorkerTakes(r)
      PROVE  Apart'
  <2>1. (\A b \in Actors \ {Worker} : act'[b] = act[b]) /\ UNCHANGED runs
    BY <1>2, WorkerTakesTyped DEF WorkerTakes
  <2>2. act'[Worker].at = "start"
    BY <1>2 DEF WorkerTakes, Typed, Actors
  <2> QED BY <2>1, <2>2, ApartQuiet DEF ActiveRun
<1>3. ASSUME NEW s \in Stories, UserLaunches(s)
      PROVE  Apart'
  <2>1. /\ \A b \in Actors \ {User} : act'[b] = act[b]
        /\ act'[User].at = "story" /\ UNCHANGED runs
    BY <1>3, UserLaunchesTyped DEF UserLaunches
  <2>2. Worker \in Actors \ {User}
    BY StoriesAssumption DEF Actors, User, Worker
  <2> QED BY <2>1, <2>2, ApartQuiet DEF ActiveRun
<1>4. ASSUME NEW r \in DOMAIN runs, PauseRun(r) \/ ResumeRun(r) \/ RetryStep(r) \/ CancelRun(r)
      PROVE  Apart'
  <2>1. /\ UNCHANGED act /\ DOMAIN runs' = DOMAIN runs
        /\ \A q \in DOMAIN runs : runs'[q].story = runs[q].story
        /\ \A q \in DOMAIN runs \ {r} : runs'[q] = runs[q]
        /\ runs'[r].status \in Active =>
             runs[r].status \in Active \/ (plan.ops.retry # 0 /\ RetryStep(r))
        /\ plan.ops.cancel = 0 => runs'[r].status \in Active
    BY <1>4, UserOnRun
  <2>2. plan.polite => (ActiveRun(r)' <=> ActiveRun(r))
    BY <2>1, PolitePlan DEF ActiveRun
  <2>3. \A q \in DOMAIN runs : plan.polite => (ActiveRun(q)' <=> ActiveRun(q))
    BY <2>1, <2>2 DEF ActiveRun
  <2> QED BY <2>1, <2>3, ApartQuiet
<1>5. CASE EpicStep \/ GetEpicDAG
  <2>1. UNCHANGED runs
    BY <1>5 DEF EpicStep, GetEpicDAG, LaunchEpicRun, ExecuteStarts, ExecuteGoesOn
  <2>2. UNCHANGED act \/ \E g : StartGroup(g)
    BY <1>5 DEF EpicStep, GetEpicDAG, LaunchEpicRun, ExecuteStarts, ExecuteGoesOn
  <2>3. \A a \in Actors : act'[a] = act[a] \/ (a \in Stories /\ act'[a] = [act[a] EXCEPT !.at = "story"])
    BY <2>2 DEF StartGroup, Layer, Typed
  <2>4. \A a \in Actors : act'[a] = act[a] \/ (a \in Stories /\ act'[a].at = "story")
    BY <2>3 DEF Typed, Act
  <2>5. Worker \in Actors /\ Worker \notin Stories
    BY StoriesAssumption DEF Actors
  <2> QED BY <2>1, <2>4, <2>5, ApartQuiet DEF ActiveRun
<1> QED BY <1>1, <1>2, <1>3, <1>4, <1>5
        DEF Next, GoroutineStep, WorkerStep, UserStep, ActorStep, Actors

-----------------------------------------------------------------------------
(* The inductive invariant.                                                 *)
LEMMA InitIInv == Init => IInv
<1> SUFFICES ASSUME Init
             PROVE  IInv
  OBVIOUS
<1>1. Typed
  BY InitTyped
<1>2. /\ runs = <<>> /\ epic = "none" /\ cancelled = FALSE /\ DOMAIN runs = {}
      /\ \A s \in Stories : rows[s].status = "absent"
  BY DEF Init
<1>3. \A a \in Actors : act[a].at = "off"
  <2> TAKE a \in Actors
  <2>1. act[a] = [Idle EXCEPT !.story = IF a \in Stories THEN a ELSE 0]
    BY DEF Init
  <2> QED BY <2>1 DEF Idle
<1>4. EpicOK
  BY <1>2, <1>3 DEF EpicOK, Actors
<1>5. Solo /\ Apart /\ PendingServed
  BY <1>2, <1>3 DEF Solo, Apart, PendingServed, Actors
<1> QED BY <1>1, <1>4, <1>5 DEF IInv

LEMMA StepIInv == IInv /\ [Next]_vars => IInv'
<1> SUFFICES ASSUME IInv, [Next]_vars
             PROVE  IInv'
  OBVIOUS
<1>1. CASE Next
  <2>1. Typed' /\ EpicOK'
    BY <1>1, NextKeeps DEF IInv
  <2>2. UNCHANGED plan
    BY <1>1 DEF Next, EpicStep, LaunchEpicRun, ExecuteStarts, ExecuteGoesOn,
       GoroutineStep, WorkerStep, UserStep, Launch, LaunchStory, LaunchActive, LaunchCreate,
       LaunchEnqueue, RunStoryRunning, ExecuteRun, ExecStart, ExecPoll, ExecStep, ExecFinish,
       WorkerTakes, GetEpicDAG, UserLaunches, PauseRun, ResumeRun, RetryStep, CancelRun
  <2>3. PendingServed' /\ Solo' /\ Apart'
    BY <1>1, <2>1, <2>2, PendingKept, SoloKept, ApartKept DEF IInv
  <2> QED BY <2>1, <2>3 DEF IInv
<1>2. CASE UNCHANGED vars
  <2>1. Typed'
    <3>1. /\ UNCHANGED <<plan, ops, dag, story, runs, queue, epic, rows, group, cancelled, act>>
      BY <1>2 DEF vars
    <3> QED BY <3>1 DEF IInv, Typed, OpsLeft, RunsTyped, RowsTyped, ActOK, Steps
  <2>2. EpicOK'
    BY <1>2 DEF IInv, EpicOK, vars
  <2>3. Solo' /\ Apart' /\ PendingServed'
    BY <1>2 DEF IInv, Solo, Apart, ActiveRun, PendingServed, vars
  <2> QED BY <2>1, <2>2, <2>3 DEF IInv
<1> QED BY <1>1, <1>2

THEOREM Invariance == Spec => []IInv
BY InitIInv, StepIInv, PTL DEF Spec

(* The tables and the goroutines of an epic run have their types: a run     *)
(* never counts more steps than its story has, and a row of the epic run    *)
(* names a run that exists (epic_run_service.go, parallel_group_executor).  *)
THEOREM TypeCorrect == Spec => []TypeOK
<1>1. IInv => TypeOK
  <2> SUFFICES ASSUME Typed
               PROVE  TypeOK
    BY DEF IInv
  <2>1. DOMAIN dag \in {{"error"}, {"layer"}}
    <3>1. dag \in {NoDAG, BuildDAG(plan.deps, plan.files)}
      BY DEF Typed
    <3>2. DOMAIN BuildDAG(plan.deps, plan.files) \in {{"error"}, {"layer"}}
      BY DEF BuildDAG
    <3> QED BY <3>1, <3>2 DEF NoDAG
  <2>2. ASSUME NEW r \in DOMAIN runs
        PROVE  /\ runs[r].story \in Stories
               /\ runs[r].status \in Active \cup RunTerminal
               /\ runs[r].done \in 0..Steps(runs[r].story)
    <3>1. runs[r] \in Run /\ runs[r].done <= Steps(runs[r].story)
      BY DEF Typed, RunsTyped
    <3> QED BY <3>1, StepsType DEF Run, RunStatus
  <2>3. \A s \in Stories : /\ rows[s].status \in {"absent", "pending", "running", "completed", "failed"}
                           /\ rows[s].run \in DOMAIN runs \cup {NoRun}
    BY DEF Typed, RowsTyped, RowStatus
  <2> QED BY <2>1, <2>2, <2>3 DEF Typed, TypeOK
<1> QED BY <1>1, Invariance, PTL

(* BuildDAG refuses an epic exactly when some of its stories wait for each  *)
(* other, whatever the epic.                                                *)
THEOREM CyclesAreRefused == Spec => []CycleIffRefused
<1>1. IInv => CycleIffRefused
  <2> SUFFICES ASSUME Typed, dag # NoDAG
               PROVE  ("error" \in DOMAIN dag)
                        <=> \E S \in (SUBSET Stories) \ {{}} : \A s \in S : Waits(s, S)
    BY DEF IInv, CycleIffRefused
  <2>1. plan \in Plans /\ dag = BuildDAG(plan.deps, plan.files)
    BY DEF Typed, OpsLeft
  <2>2. DOMAIN plan.deps = Stories /\ DOMAIN plan.files = Stories
    BY <2>1, PlansAssumption
  <2>3. PICK deps, files : deps = plan.deps /\ files = plan.files
    OBVIOUS
  <2>4. /\ IsFiniteSet(DOMAIN deps) /\ DOMAIN deps \subseteq Nat /\ DOMAIN files = DOMAIN deps
        /\ dag = BuildDAG(deps, files) /\ DOMAIN deps = Stories
    BY <2>1, <2>2, <2>3, StoriesAssumption
  <2>5. "error" \in DOMAIN BuildDAG(deps, files)
             <=> \E S \in SUBSET DOMAIN deps : S # {} /\ \A s \in S : \E t \in S :
                   \/ t \in deps[s]
                   \/ t < s /\ \E f \in files[t] \cap files[s] :
                                 \A u \in DOMAIN deps : t < u /\ u < s => f \notin files[u]
    BY <2>4, CyclesRefused
  <2>6. \A S \in SUBSET Stories : (\A s \in S : Waits(s, S)) <=>
          \A s \in S : \E t \in S :
                   \/ t \in deps[s]
                   \/ t < s /\ \E f \in files[t] \cap files[s] :
                                 \A u \in Stories : t < u /\ u < s => f \notin files[u]
    BY <2>3 DEF Waits
  <2>7. \A S \in SUBSET Stories : (\A s \in S : Waits(s, S)) <=>
          \A s \in S : \E t \in S :
                   \/ t \in deps[s]
                   \/ t < s /\ \E f \in files[t] \cap files[s] :
                                 \A u \in DOMAIN deps : t < u /\ u < s => f \notin files[u]
    BY <2>4, <2>6
  <2>8. (\E S \in SUBSET Stories : S # {} /\ \A s \in S : Waits(s, S))
          <=> (\E S \in (SUBSET Stories) \ {{}} : \A s \in S : Waits(s, S))
    OBVIOUS
  <2>9. "error" \in DOMAIN dag <=> \E S \in SUBSET Stories : S # {} /\ \A s \in S : Waits(s, S)
    BY <2>4, <2>5, <2>7
  <2> QED BY <2>8, <2>9
<1> QED BY <1>1, Invariance, PTL

(* In the layers of every accepted epic a story comes after the stories it  *)
(* depends on, no two stories of a layer touch the same file and no layer   *)
(* is empty.                                                                *)
THEOREM LayersAreSound == Spec => []LayersSound
<1>1. IInv => LayersSound
  <2> SUFFICES ASSUME Typed, "layer" \in DOMAIN dag
               PROVE  LayersSound
    BY DEF IInv, LayersSound
  <2> QED BY DagSound DEF LayersSound, Layer
<1> QED BY <1>1, Invariance, PTL

(* A story is touched only after every story of the layers before it is     *)
(* marked completed, in every interleaving of the goroutines of an epic.    *)
THEOREM GroupsAreInOrder == Spec => []GroupsInOrder
<1>1. IInv => GroupsInOrder
  <2> SUFFICES ASSUME Typed, EpicOK, NEW s \in Stories, NEW t \in Stories,
                      "layer" \in DOMAIN dag, rows[s].status # "absent",
                      dag.layer[t] < dag.layer[s],
                      rows[s].status # "pending" \/ act[s].at # "off"
               PROVE  rows[t].status = "completed"
    BY DEF IInv, GroupsInOrder
  <2>1. epic \in {"running", "completed", "failed"}
    BY DEF EpicOK, Typed
  <2>2. dag.layer[s] \in Nat /\ dag.layer[t] \in Nat /\ group \in Nat
    BY DagSound DEF Typed
  <2>3. ~(dag.layer[s] > group)
    BY <2>1 DEF EpicOK
  <2>4. dag.layer[t] < group
    BY <2>2, <2>3
  <2> QED BY <2>1, <2>4 DEF EpicOK
<1> QED BY <1>1, Invariance, PTL

(* The verdict of an epic run fits its rows: completed only with every row  *)
(* completed, failed only with a failed story, and no goroutine of it left. *)
THEOREM VerdictFits == Spec => []EpicVerdict
<1>1. IInv => EpicVerdict
  <2> SUFFICES ASSUME Typed, EpicOK
               PROVE  EpicVerdict
    BY DEF IInv
  <2>1. epic = "completed" => \A s \in Stories : rows[s].status = "completed" /\ act[s].at = "done"
    BY DEF EpicOK
  <2>2. epic = "failed" => \E s \in Stories : act[s].at = "failed"
    BY DEF EpicOK
  <2>3. epic = "failed" => \A s \in Stories : act[s].at \in {"off", "done", "failed"}
    <3>1. \A s \in Stories : act[s].at \in Busy \cup {"off", "done", "failed"}
      BY DEF Typed, Act, Actors
    <3> QED BY <3>1 DEF EpicOK
  <2>4. \A s \in Stories : rows[s].run # NoRun => runs[rows[s].run].story = s
    BY DEF Typed, RowsTyped
  <2> QED BY <2>1, <2>2, <2>3, <2>4 DEF EpicVerdict
<1> QED BY <1>1, Invariance, PTL

(* While launches of a story do not overlap and nothing brings a run back   *)
(* to life, a story has at most one active run, however many stories,       *)
(* launches, approvals and failures there are (GetActiveRunByStory).        *)
THEOREM ActiveRunIsUnique == Spec => []OneActiveRun
<1>1. IInv => OneActiveRun
  <2> SUFFICES ASSUME Typed, Solo, Apart, plan.polite, NEW s \in Stories
               PROVE  Cardinality(GetActiveRunByStory(s)) <= 1
    BY DEF IInv, OneActiveRun
  <2>1. \A r, q \in GetActiveRunByStory(s) : r = q
    BY PolitePlan DEF Solo, Apart, ActiveRun, GetActiveRunByStory
  <2>2. CASE GetActiveRunByStory(s) = {}
    BY <2>2, FS_EmptySet
  <2>3. CASE \E r : r \in GetActiveRunByStory(s)
    <3>1. PICK r : r \in GetActiveRunByStory(s)
      BY <2>3
    <3>2. GetActiveRunByStory(s) = {r}
      BY <2>1, <3>1
    <3>3. Cardinality({r}) = 1
      BY FS_Singleton
    <3> QED BY <3>2, <3>3
  <2> QED BY <2>2, <2>3
<1> QED BY <1>1, Invariance, PTL

(* A pending run has a job or somebody about to queue or execute it, unless *)
(* its layer was cut short: between the statements of LaunchRun and of the  *)
(* goroutines of an epic no run is forgotten.                               *)
THEOREM PendingIsServed == Spec => []PendingServed
<1>1. IInv => PendingServed
  BY DEF IInv
<1> QED BY <1>1, Invariance, PTL
=============================================================================
