--------------------------- MODULE EstimatorProofs ---------------------------
(***************************************************************************)
(* Theorems about the latency estimator, for every set of messages, every  *)
(* window, percentile and policy: what it returns is the nearest-rank      *)
(* percentile of what was reported, what it keeps is what the messages     *)
(* since the operator started say it should keep, and an edge that misses  *)
(* the deadline by them is refused.                                        *)
(***************************************************************************)
EXTENDS TelemetryPolicyProofs, FiniteSetTheorems

-----------------------------------------------------------------------------
(* Sorting a finite set by an integer value.                               *)

\* order lists the elements of S, each once, by what val gives them.
Sorts(order, S, val) ==
  /\ order \in [1..Cardinality(S) -> S]
  /\ \A i, j \in 1..Cardinality(S) : i < j =>
       order[i] # order[j] /\ val[order[i]] <= val[order[j]]

Tops(x, S, val) == x \in S /\ \A y \in S : val[y] <= val[x]

\* Of finitely many values one is the greatest: a smallest counterexample would
\* still be one without one of its elements.
LEMMA TopExists ==
  ASSUME NEW S, IsFiniteSet(S), S # {}, NEW val \in [S -> Int]
  PROVE  \E x : Tops(x, S, val)
<1> DEFINE Topless(U) == U # {} /\ \A x : ~Tops(x, U, val)
           Bad == {n \in Nat : \E U \in SUBSET S : Cardinality(U) = n /\ Topless(U)}
<1>1. ASSUME NEW U \in SUBSET S, Topless(U)
      PROVE  \E V \in SUBSET S : /\ Topless(V) /\ Cardinality(V) < Cardinality(U)
                                 /\ Cardinality(V) \in Nat /\ Cardinality(U) \in Nat
  <2>1. PICK y \in U : TRUE
    BY <1>1
  <2> DEFINE V == U \ {y}
  <2>2. IsFiniteSet(U) /\ Cardinality(U) \in Nat
    BY FS_Subset, FS_CardinalityType
  <2>3. /\ Cardinality(V) \in Nat /\ Cardinality(V) = Cardinality(U) - 1
    BY <2>2, FS_RemoveElement, FS_CardinalityType
  <2>4. V # {}
    <3>1. SUFFICES ASSUME V = {} PROVE Tops(y, U, val)
      BY <1>1
    <3>2. \A z \in U : z = y
      BY <3>1
    <3>3. QED
      BY <3>2 DEF Tops
  <2>5. \A x : ~Tops(x, V, val)
    <3>1. SUFFICES ASSUME NEW x, Tops(x, V, val) PROVE Tops(x, U, val) \/ Tops(y, U, val)
      BY <1>1
    <3>2. x \in U /\ val[x] \in Int /\ val[y] \in Int /\ \A z \in U : val[z] \in Int
      BY <3>1 DEF Tops
    <3>3. \A z \in U : z = y \/ val[z] <= val[x]
      BY <3>1 DEF Tops
    <3>4. CASE val[y] <= val[x]
      BY <3>2, <3>3, <3>4 DEF Tops
    <3>5. CASE val[x] <= val[y]
      <4>1. \A z \in U : val[z] <= val[y]
        BY <3>2, <3>3, <3>5
      <4>2. QED
        BY <4>1 DEF Tops
    <3>6. QED
      BY <3>2, <3>4, <3>5
  <2>6. Topless(V) /\ Cardinality(V) < Cardinality(U)
    BY <2>2, <2>3, <2>4, <2>5
  <2> HIDE DEF V
  <2>7. V \in SUBSET S
    BY DEF V
  <2>8. QED
    BY <2>2, <2>3, <2>6, <2>7
<1>2. Bad = {}
  <2>1. SUFFICES ASSUME Bad # {} PROVE FALSE
    OBVIOUS
  <2>2. PICK n \in Bad : \A k \in Bad : n <= k
    <3>1. Bad \in SUBSET Nat
      OBVIOUS
    <3> HIDE DEF Bad
    <3>2. QED
      BY <2>1, <3>1, LeastElement
  <2>3. PICK U \in SUBSET S : Cardinality(U) = n /\ Topless(U)
    OBVIOUS
  <2> HIDE DEF Topless
  <2>4. PICK V \in SUBSET S : /\ Topless(V) /\ Cardinality(V) < Cardinality(U)
                              /\ Cardinality(V) \in Nat /\ Cardinality(U) \in Nat
    BY <1>1, <2>3
  <2>5. Cardinality(V) \in Bad
    BY <2>4
  <2>6. n <= Cardinality(V)
    BY <2>2, <2>5
  <2>7. QED
    BY <2>3, <2>4, <2>6
<1>3. Cardinality(S) \in Nat
  BY FS_CardinalityType
<1>4. ~Topless(S)
  <2> HIDE DEF Topless
  <2>1. QED
    BY <1>2, <1>3
<1>5. QED
  BY <1>4

\* A list in order stays one with the greatest element at its end.
LEMMA SortedExtends ==
  ASSUME NEW U, IsFiniteSet(U), NEW val \in [U -> Int], NEW x, Tops(x, U, val),
         NEW q, Sorts(q, U \ {x}, val)
  PROVE  \E order : Sorts(order, U, val)
<1> DEFINE n == Cardinality(U)
           V == U \ {x}
           p == [i \in 1..n |-> IF i = n THEN x ELSE q[i]]
<1>1. /\ n \in Nat \ {0} /\ Cardinality(V) = n - 1
  <2>1. x \in U
    BY DEF Tops
  <2>2. n \in Nat /\ Cardinality(V) = n - 1 /\ Cardinality(V) \in Nat
    BY <2>1, FS_RemoveElement, FS_CardinalityType
  <2> HIDE DEF n, V
  <2>3. QED
    BY <2>2
<1>2. q \in [1..n - 1 -> V]
  BY <1>1 DEF Sorts
<1>3. \A i, j \in 1..n - 1 : i < j => q[i] # q[j] /\ val[q[i]] <= val[q[j]]
  BY <1>1 DEF Sorts
<1> HIDE DEF n
<1>4. \A i \in 1..n : i # n => i \in 1..n - 1 /\ p[i] = q[i] /\ q[i] \in V
  BY <1>1, <1>2
<1>5. p[n] = x /\ x \in U
  BY <1>1 DEF Tops
<1>6. p \in [1..n -> U]
  BY <1>4, <1>5
<1> HIDE DEF p
<1>7. ASSUME NEW i \in 1..n, NEW j \in 1..n, i < j
      PROVE  p[i] # p[j] /\ val[p[i]] <= val[p[j]]
  <2>1. i # n
    BY <1>1, <1>7
  <2>2. CASE j = n
    BY <1>4, <1>5, <2>1, <2>2 DEF Tops
  <2>3. CASE j # n
    BY <1>3, <1>4, <1>7, <2>1, <2>3
  <2>4. QED
    BY <2>2, <2>3
<1>8. Sorts(p, U, val)
  BY <1>6, <1>7 DEF Sorts, n
<1>9. QED
  BY <1>8

\* Every finite set can be listed in order.
LEMMA SortedExists ==
  ASSUME NEW S, IsFiniteSet(S), NEW val \in [S -> Int]
  PROVE  \E order : Sorts(order, S, val)
<1> DEFINE Mixed(U) == \A order : ~Sorts(order, U, val)
           Bad == {n \in Nat : \E U \in SUBSET S : Cardinality(U) = n /\ Mixed(U)}
<1>1. ASSUME NEW U \in SUBSET S, Mixed(U)
      PROVE  \E V \in SUBSET S : /\ Mixed(V) /\ Cardinality(V) < Cardinality(U)
                                 /\ Cardinality(V) \in Nat /\ Cardinality(U) \in Nat
  <2>1. IsFiniteSet(U) /\ Cardinality(U) \in Nat
    BY FS_Subset, FS_CardinalityType
  <2>2. U # {}
    <3>1. SUFFICES ASSUME U = {} PROVE \E order : Sorts(order, U, val)
      BY <1>1
    <3>2. Cardinality(U) = 0
      BY <3>1, FS_EmptySet
    <3>3. Sorts([i \in {} |-> i], U, val)
      <4>1. 1..0 = {}
        OBVIOUS
      <4>2. [i \in {} |-> i] \in [{} -> U]
        OBVIOUS
      <4>3. QED
        BY <3>2, <4>1, <4>2 DEF Sorts
    <3>4. QED
      BY <3>3
  <2> DEFINE v == [y \in U |-> val[y]]
  <2>3. v \in [U -> Int]
    OBVIOUS
  <2>4. PICK x : Tops(x, U, v)
    <3> HIDE DEF v
    <3> QED BY <2>1, <2>2, <2>3, TopExists
  <2> DEFINE V == U \ {x}
  <2>5. x \in U
    BY <2>4 DEF Tops
  <2>6. Cardinality(V) = Cardinality(U) - 1 /\ Cardinality(V) \in Nat
    BY <2>1, <2>5, FS_RemoveElement, FS_CardinalityType
  <2>7. Mixed(V)
    <3>1. SUFFICES ASSUME NEW q, Sorts(q, V, val)
                   PROVE  \E order : Sorts(order, U, val)
      BY <1>1
    <3>2. Sorts(q, V, v)
      <4>1. q \in [1..Cardinality(V) -> V]
        BY <3>1 DEF Sorts
      <4>2. \A i \in 1..Cardinality(V) : v[q[i]] = val[q[i]]
        BY <4>1
      <4> HIDE DEF v, V
      <4>3. QED
        BY <3>1, <4>2 DEF Sorts
    <3>3. PICK order : Sorts(order, U, v)
      <4> HIDE DEF v
      <4> QED BY <2>1, <2>3, <2>4, <3>2, SortedExtends
    <3>4. Sorts(order, U, val)
      <4>1. order \in [1..Cardinality(U) -> U]
        BY <3>3 DEF Sorts
      <4>2. \A i \in 1..Cardinality(U) : v[order[i]] = val[order[i]]
        BY <4>1
      <4> HIDE DEF v
      <4>3. QED
        BY <3>3, <4>2 DEF Sorts
    <3>5. QED
      BY <3>4
  <2> HIDE DEF Mixed
  <2>8. QED
    BY <2>1, <2>6, <2>7
<1>2. Bad = {}
  <2>1. SUFFICES ASSUME Bad # {} PROVE FALSE
    OBVIOUS
  <2>2. PICK n \in Bad : \A k \in Bad : n <= k
    <3>1. Bad \in SUBSET Nat
      OBVIOUS
    <3> HIDE DEF Bad
    <3>2. QED
      BY <2>1, <3>1, LeastElement
  <2> HIDE DEF Mixed
  <2>3. PICK U \in SUBSET S : Cardinality(U) = n /\ Mixed(U)
    OBVIOUS
  <2>4. PICK V \in SUBSET S : /\ Mixed(V) /\ Cardinality(V) < Cardinality(U)
                              /\ Cardinality(V) \in Nat /\ Cardinality(U) \in Nat
    BY <1>1, <2>3
  <2>5. Cardinality(V) \in Bad
    BY <2>4
  <2>6. n <= Cardinality(V)
    BY <2>2, <2>5
  <2>7. QED
    BY <2>3, <2>4, <2>6
<1>3. Cardinality(S) \in Nat
  BY FS_CardinalityType
<1>4. ~Mixed(S)
  <2> HIDE DEF Mixed
  <2>1. QED
    BY <1>2, <1>3
<1>5. QED
  BY <1>4
-----------------------------------------------------------------------------
(* Nearest rank.                                                           *)

LEMMA SortedIsOnto ==
  ASSUME NEW S, IsFiniteSet(S), NEW val, NEW order, Sorts(order, S, val)
  PROVE  /\ \A i, j \in 1..Cardinality(S) : order[i] = order[j] => i = j
         /\ \A x \in S : \E i \in 1..Cardinality(S) : order[i] = x
<1> DEFINE n == Cardinality(S)
<1>1. n \in Nat
  BY FS_CardinalityType
<1>2. order \in [1..n -> S]
  BY DEF Sorts
<1>3. \A i, j \in 1..n : i < j => order[i] # order[j]
  BY DEF Sorts
<1>4. IsFiniteSet(1..n) /\ Cardinality(1..n) = n
  <2> HIDE DEF n
  <2>1. IsFiniteSet(1..n) /\ Cardinality(1..n) = IF 1 > n THEN 0 ELSE n - 1 + 1
    BY <1>1, FS_Interval
  <2>2. QED
    BY <1>1, <2>1
<1>5. \A i, j \in 1..n : order[i] = order[j] => i = j
  <2> HIDE DEF n
  <2>1. SUFFICES ASSUME NEW i \in 1..n, NEW j \in 1..n, order[i] = order[j], i # j
                 PROVE  FALSE
    OBVIOUS
  <2>2. i < j \/ j < i
    BY <1>1, <2>1
  <2>3. QED
    BY <1>3, <2>1, <2>2
<1>6. order \in Injection(1..n, S)
  BY <1>2, <1>5 DEF Injection, IsInjective
<1>7. order \in Surjection(1..n, S)
  BY <1>4, <1>6, FS_Injection
<1>8. QED
  BY <1>5, <1>7 DEF Surjection

\* What an injective function to a finite set says about sizes.
LEMMA FitsInto ==
  ASSUME NEW A, NEW B, IsFiniteSet(B), NEW g \in [A -> B],
         \A a, b \in A : g[a] = g[b] => a = b
  PROVE  /\ IsFiniteSet(A) /\ Cardinality(A) <= Cardinality(B)
         /\ Cardinality(A) \in Nat /\ Cardinality(B) \in Nat
<1>1. g \in Injection(A, B)
  BY DEF Injection, IsInjective
<1>2. QED
  BY <1>1, FS_Injection, FS_CardinalityType

LEMMA SizeOfInterval ==
  ASSUME NEW n \in Nat
  PROVE  IsFiniteSet(1..n) /\ Cardinality(1..n) = n
<1>1. IsFiniteSet(1..n) /\ Cardinality(1..n) = IF 1 > n THEN 0 ELSE n - 1 + 1
  BY FS_Interval
<1>2. QED
  BY <1>1

\* At least r elements of S have a value up to e, and fewer than r one below it.
Ranked(S, val, e, r) ==
  /\ Cardinality({x \in S : val[x] <= e}) >= r
  /\ Cardinality({x \in S : val[x] < e}) <= r - 1
  /\ Cardinality({x \in S : val[x] <= e}) \in Nat
  /\ Cardinality({x \in S : val[x] < e}) \in Nat

\* At the r-th place of a list in order stands a value that at least r elements
\* do not exceed, and fewer than r fall below.
LEMMA RankCounts ==
  ASSUME NEW S, IsFiniteSet(S), NEW val \in [S -> Int], NEW order, Sorts(order, S, val),
         NEW r \in 1..Cardinality(S)
  PROVE  Ranked(S, val, val[order[r]], r)
<1> DEFINE n == Cardinality(S)
           e == val[order[r]]
           A == {x \in S : val[x] <= e}
           B == {x \in S : val[x] < e}
           place == [x \in S |-> CHOOSE i \in 1..n : order[i] = x]
<1>1. n \in Nat /\ r \in Nat /\ r - 1 \in Nat
  <2>1. n \in Nat
    BY FS_CardinalityType
  <2> HIDE DEF n
  <2>2. QED
    BY <2>1 DEF n
<1>2. order \in [1..n -> S] /\ \A i, j \in 1..n : i < j => val[order[i]] <= val[order[j]]
  BY DEF Sorts
<1>3. \A i, j \in 1..n : order[i] = order[j] => i = j
  BY SortedIsOnto
<1>4. \A x \in S : place[x] \in 1..n /\ order[place[x]] = x
  <2>1. \A x \in S : \E i \in 1..n : order[i] = x
    BY SortedIsOnto
  <2> HIDE DEF n
  <2>2. QED
    BY <2>1
<1> HIDE DEF n, place
<1>5. \A x \in S : val[x] \in Int
  OBVIOUS
<1>6. order[r] \in S /\ e \in Int
  BY <1>2, <1>5 DEF n
<1>7. A \in SUBSET S /\ B \in SUBSET S
  OBVIOUS
<1>8. IsFiniteSet(A) /\ Cardinality(A) \in Nat /\ Cardinality(B) \in Nat
  BY <1>7, FS_Subset, FS_CardinalityType
<1>9. r <= Cardinality(A)
  <2> DEFINE g == [i \in 1..r |-> order[i]]
  <2>1. ASSUME NEW i \in 1..r PROVE i \in 1..n /\ order[i] \in A
    <3>1. i \in 1..n /\ r \in 1..n /\ (i = r \/ i < r)
      BY <1>1 DEF n
    <3>2. order[i] \in S
      BY <1>2, <3>1
    <3>3. val[order[i]] <= e
      BY <1>2, <1>5, <1>6, <3>1, <3>2
    <3>4. QED
      BY <3>1, <3>2, <3>3
  <2> HIDE DEF A, e
  <2>2. g \in [1..r -> A] /\ \A i, j \in 1..r : g[i] = g[j] => i = j
    BY <1>3, <2>1
  <2> HIDE DEF g
  <2>3. Cardinality(1..r) <= Cardinality(A)
    BY <1>8, <2>2, FitsInto
  <2>4. QED
    BY <1>1, <2>3, SizeOfInterval
<1>10. Cardinality(B) <= r - 1
  <2> DEFINE g == [x \in B |-> place[x]]
  <2>1. ASSUME NEW x \in B PROVE place[x] \in 1..r - 1 /\ order[place[x]] = x
    <3>1. place[x] \in 1..n /\ order[place[x]] = x /\ val[x] < e
      BY <1>4
    <3>2. r \in 1..n
      BY DEF n
    <3>3. ~(r <= place[x])
      <4>1. SUFFICES ASSUME r <= place[x] PROVE FALSE
        OBVIOUS
      <4>2. r = place[x] \/ r < place[x]
        BY <1>1, <3>1, <4>1
      <4>3. e <= val[x]
        BY <1>2, <1>6, <3>1, <3>2, <4>2
      <4>4. QED
        BY <1>5, <1>6, <3>1, <4>3
    <3>4. QED
      BY <1>1, <3>1, <3>2, <3>3
  <2> HIDE DEF B, e
  <2>2. g \in [B -> 1..r - 1] /\ \A x, y \in B : g[x] = g[y] => x = y
    BY <2>1
  <2> HIDE DEF g
  <2>3. IsFiniteSet(1..r - 1) /\ Cardinality(1..r - 1) = r - 1
    BY <1>1, SizeOfInterval
  <2>4. QED
    BY <2>2, <2>3, FitsInto
<1>11. QED
  BY <1>8, <1>9, <1>10 DEF Ranked

LEMMA PresentSamples ==
  ASSUME NEW seq \in Seq(Samples), NEW metric \in Metrics
  PROVE  /\ Present(seq, metric) = {i \in DOMAIN seq : seq[i].value[metric] # Nil}
         /\ \A i \in DOMAIN seq : seq[i].value[metric] \in Times
         /\ \A i \in Present(seq, metric) : seq[i].value[metric] \in Nat
         /\ IsFiniteSet(Present(seq, metric)) /\ Cardinality(Present(seq, metric)) \in Nat
<1>1. \A i \in DOMAIN seq : seq[i].value[metric] \in Times
  <2>1. TAKE i \in DOMAIN seq
  <2>2. seq[i] \in Samples
    OBVIOUS
  <2>3. QED
    BY <2>2 DEF Samples
<1>2. \A t \in Times : (t >= 0 <=> t # Nil) /\ (t >= 0 => t \in Nat)
  BY DEF Times, Nil
<1>3. /\ Present(seq, metric) = {i \in DOMAIN seq : seq[i].value[metric] # Nil}
      /\ \A i \in Present(seq, metric) : seq[i].value[metric] \in Nat
  BY <1>1, <1>2 DEF Present
<1>4. Present(seq, metric) \in SUBSET (1..Len(seq))
  BY DEF Present
<1>5. IsFiniteSet(1..Len(seq))
  BY SizeOfInterval
<1>6. QED
  BY <1>1, <1>3, <1>4, <1>5, FS_Subset, FS_CardinalityType

\* The order sort.Slice puts the values in exists, so CHOOSE finds one.
LEMMA AscendingSorts ==
  ASSUME NEW seq \in Seq(Samples), NEW metric \in Metrics
  PROVE  LET present == Present(seq, metric)
         IN  Sorts(Ascending(seq, metric), present,
                   [i \in present |-> seq[i].value[metric]])
<1> DEFINE present == Present(seq, metric)
           n == Cardinality(present)
           val == [i \in present |-> seq[i].value[metric]]
           Good(order) == \A i, j \in 1..n : i < j =>
                            /\ order[i] # order[j]
                            /\ seq[order[i]].value[metric] <= seq[order[j]].value[metric]
<1>1. IsFiniteSet(present) /\ val \in [present -> Int]
  BY PresentSamples
<1>2. \A order \in [1..n -> present] : Good(order) <=> Sorts(order, present, val)
  <2>1. TAKE order \in [1..n -> present]
  <2>2. \A i \in 1..n : val[order[i]] = seq[order[i]].value[metric]
    OBVIOUS
  <2> HIDE DEF val
  <2>3. QED
    BY <2>2 DEF Sorts
<1>3. \E order \in [1..n -> present] : Good(order)
  <2> HIDE DEF val, present, Good
  <2>1. PICK order : Sorts(order, present, val)
    BY <1>1, SortedExists
  <2>2. order \in [1..n -> present]
    BY <2>1 DEF Sorts
  <2>3. QED
    BY <1>2, <2>1, <2>2
<1>4. Ascending(seq, metric) = CHOOSE order \in [1..n -> present] : Good(order)
  BY DEF Ascending
<1> HIDE DEF Good, present, val
<1>5. Ascending(seq, metric) \in [1..n -> present] /\ Good(Ascending(seq, metric))
  BY <1>3, <1>4
<1>6. Sorts(Ascending(seq, metric), present, val)
  BY <1>2, <1>5
<1>7. QED
  BY <1>6 DEF present, val

\* e is the nearest-rank percentile of what the samples in present report.
IsNearest(seq, metric, present, e, fallback) ==
  LET n == Cardinality(present)
  IN  IF n < MinSamples THEN e = fallback
      ELSE /\ \E i \in present : seq[i].value[metric] = e
           /\ 100 * Cardinality({i \in present : seq[i].value[metric] <= e})
                >= Percentile * n
           /\ 100 * Cardinality({i \in present : seq[i].value[metric] < e})
                < Percentile * n

\* What estimateDeadlinePercentile returns.
LEMMA EstimateOf ==
  ASSUME NEW seq \in Seq(Samples), NEW metric \in Metrics, NEW fallback
  PROVE  IsNearest(seq, metric, Present(seq, metric),
                   EstimateDeadlinePercentile(seq, metric, fallback), fallback)
<1> DEFINE present == Present(seq, metric)
           n == Cardinality(present)
           r == NearestRank(n)
           order == Ascending(seq, metric)
           val == [i \in present |-> seq[i].value[metric]]
           e == EstimateDeadlinePercentile(seq, metric, fallback)
           below == {i \in present : seq[i].value[metric] < e}
           upto == {i \in present : seq[i].value[metric] <= e}
<1>1. e = IF n < MinSamples THEN fallback ELSE seq[order[r]].value[metric]
  BY DEF EstimateDeadlinePercentile
<1>2. /\ IsFiniteSet(present) /\ n \in Nat /\ val \in [present -> Int]
  BY PresentSamples
<1>3. Sorts(order, present, val)
  BY AscendingSorts
<1>4. MinSamples \in Nat \ {0} /\ Percentile \in 1..100
  BY PolicyAssumption
<1>5. SUFFICES ASSUME ~(n < MinSamples)
               PROVE  /\ \E i \in present : seq[i].value[metric] = e
                      /\ 100 * Cardinality(upto) >= Percentile * n
                      /\ 100 * Cardinality(below) < Percentile * n
  BY <1>1 DEF IsNearest
<1>6. n \in Nat \ {0}
  <2> HIDE DEF n
  <2> QED BY <1>2, <1>4, <1>5
<1>7. r \in 1..n /\ 100 * r >= Percentile * n /\ 100 * (r - 1) < Percentile * n
  BY <1>6, RankIsNearest
<1>8. order[r] \in present
  BY <1>3, <1>7 DEF Sorts
<1>9. e = seq[order[r]].value[metric] /\ e = val[order[r]]
  BY <1>1, <1>5, <1>8
<1> HIDE DEF e, order, present, r
<1>10. upto = {i \in present : val[i] <= e} /\ below = {i \in present : val[i] < e}
  OBVIOUS
<1> HIDE DEF val, upto, below
<1>11. /\ Cardinality(upto) >= r /\ Cardinality(below) <= r - 1
       /\ Cardinality(upto) \in Nat /\ Cardinality(below) \in Nat
  <2>1. Ranked(present, val, val[order[r]], r)
    BY <1>2, <1>3, <1>7, RankCounts
  <2>2. QED
    BY <1>9, <1>10, <2>1 DEF Ranked
<1> DEFINE share == Percentile * n
<1>12. share \in Int
  BY <1>4, <1>6
<1> HIDE DEF n
<1>13. 100 * Cardinality(upto) >= share /\ 100 * Cardinality(below) < share
  <2>1. r \in Int /\ 100 * r >= share /\ 100 * (r - 1) < share
    BY <1>6, <1>7
  <2> HIDE DEF share
  <2>2. QED
    BY <1>11, <1>12, <2>1
<1>14. QED
  BY <1>8, <1>9, <1>13

\* The estimate of every metric is the nearest-rank percentile of what was
\* reported, for every percentile, every number of samples and whatever they
\* report: the sort, the filter of missing values and the rank together pick a
\* reported value that at least Percentile percent of the reports do not exceed
\* and less than that fall below.
THEOREM EstimateNearestRank == Spec => []EstimateIsNearestRank
<1>1. ASSUME Inv PROVE EstimateIsNearestRank
  <2> DEFINE Reporting(seq, m) == {i \in DOMAIN seq : seq[i].value[m] # Nil}
  <2>1. SUFFICES ASSUME NEW m \in Metrics
                 PROVE  LET seq == samples[identity][ModeOf(m)]
                        IN  IsNearest(seq, m, Reporting(seq, m),
                              EstimateDeadlinePercentile(seq, m, Fallback(m)), Fallback(m))
    BY DEF EstimateIsNearestRank, IsNearest
  <2> DEFINE seq == samples[identity][ModeOf(m)]
  <2>2. seq \in Seq(Samples)
    BY <1>1, VersionFields DEF Inv, Types, ModeOf, Modes
  <2> HIDE DEF seq
  <2>3. Present(seq, m) = Reporting(seq, m)
    BY <2>2, PresentSamples
  <2>4. QED
    BY <2>2, <2>3, EstimateOf DEF seq
<1>2. QED
  BY <1>1, PolicyInvariance, PTL

-----------------------------------------------------------------------------
(* What the estimator keeps, told from the messages received.              *)

\* The entries that were about f while f was selected.
Counted(entries, f) ==
  {i \in DOMAIN entries : entries[i].function = f /\ entries[i].selected = f}

\* The ones with a sample of mode m, within a window of the latest of them.
Kept(entries, f, m) ==
  {i \in Counted(entries, f) :
     /\ entries[i].msg.mode = m
     /\ HasDeadlineValue(SampleFromTelemetry(entries[i].msg))
     /\ \A k \in Counted(entries, f) : entries[i].age - entries[k].age <= EstimatorWindow}

\* h says which entry of kept each sample of seq comes from: one sample each.
Stands(h, seq, entries, kept) ==
  /\ h \in [DOMAIN seq -> kept]
  /\ \A k, l \in DOMAIN seq : h[k] = h[l] => k = l
  /\ \A i \in kept : \E k \in DOMAIN seq : h[k] = i
  /\ \A k \in DOMAIN seq : /\ seq[k].age = entries[h[k]].age
                           /\ seq[k].value = SampleFromTelemetry(entries[h[k]].msg)

Matches(seq, entries, kept) == \E h : Stands(h, seq, entries, kept)

Corresponds ==
  \A f \in Functions, m \in Modes : Matches(samples[f][m], received, Kept(received, f, m))

\* Nothing is counted that did not come in.
Heard == \A i \in DOMAIN received : \E raw \in Messages : received[i].msg = Decoded(raw)

Remembers == Inv /\ Corresponds /\ Heard

\* Ageing changes no entry's message and no difference of ages.
LEMMA KeptWhenOlder ==
  ASSUME NEW entries \in Seq(Entries), OldestFirst(entries), NEW d \in Nat,
         NEW f, NEW m
  PROVE  Kept(Older(entries, d), f, m) = Kept(entries, f, m)
<1> DEFINE w == Older(entries, d)
           n == Len(entries)
<1>1. /\ DOMAIN w = 1..n /\ DOMAIN entries = 1..n
      /\ \A i \in 1..n : /\ w[i].age = entries[i].age + d /\ w[i].msg = entries[i].msg
                         /\ w[i].function = entries[i].function
                         /\ w[i].selected = entries[i].selected
  BY OlderEntries
<1>2. \A i \in 1..n : entries[i].age \in Nat
  BY EntryFields
<1>3. \A i, k \in 1..n : w[i].age - w[k].age = entries[i].age - entries[k].age
  BY <1>1, <1>2
<1> HIDE DEF w, n
<1>4. Counted(w, f) = Counted(entries, f) /\ Counted(entries, f) \subseteq 1..n
  BY <1>1 DEF Counted
<1>5. QED
  BY <1>1, <1>3, <1>4 DEF Kept, w

LEMMA MatchesWhenOlder ==
  ASSUME NEW entries \in Seq(Entries), OldestFirst(entries), NEW d \in Nat,
         NEW seq \in Seq(Samples), OldestFirst(seq),
         NEW kept \in SUBSET DOMAIN entries, Matches(seq, entries, kept)
  PROVE  Matches(Older(seq, d), Older(entries, d), kept)
<1> DEFINE w == Older(entries, d)
           o == Older(seq, d)
<1>1. \A i \in DOMAIN entries : w[i].age = entries[i].age + d /\ w[i].msg = entries[i].msg
  BY OlderEntries
<1>2. /\ DOMAIN o = DOMAIN seq
      /\ \A k \in DOMAIN seq : o[k].age = seq[k].age + d /\ o[k].value = seq[k].value
  <2>1. \A k \in DOMAIN seq : seq[k] \in Samples
    OBVIOUS
  <2>2. \A s \in Samples : LET u == [s EXCEPT !.age = @ + d]
                           IN  u.age = s.age + d /\ u.value = s.value
    BY DEF Samples
  <2>3. QED
    BY <2>1, <2>2 DEF Older
<1> HIDE DEF w, o
<1>3. PICK h : Stands(h, seq, entries, kept)
  BY DEF Matches
<1>4. Stands(h, o, w, kept)
  <2>1. /\ h \in [DOMAIN seq -> kept]
        /\ \A k, l \in DOMAIN seq : h[k] = h[l] => k = l
        /\ \A i \in kept : \E k \in DOMAIN seq : h[k] = i
        /\ \A k \in DOMAIN seq : /\ seq[k].age = entries[h[k]].age
                                 /\ seq[k].value = SampleFromTelemetry(entries[h[k]].msg)
    BY <1>3 DEF Stands
  <2>2. ASSUME NEW k \in DOMAIN seq
        PROVE  /\ o[k].age = w[h[k]].age
               /\ o[k].value = SampleFromTelemetry(w[h[k]].msg)
    <3>1. h[k] \in DOMAIN entries
      BY <2>1
    <3>2. w[h[k]].age = entries[h[k]].age + d /\ w[h[k]].msg = entries[h[k]].msg
      BY <1>1, <3>1
    <3>3. QED
      BY <1>2, <2>1, <3>2
  <2>3. DOMAIN o = DOMAIN seq
    BY <1>2
  <2>4. QED
    BY <2>1, <2>2, <2>3 DEF Stands
<1>5. QED
  BY <1>4 DEF Matches, o, w

\* An entry that is not about f, or came while another function was selected,
\* changes nothing that is kept for f.
LEMMA KeptIgnores ==
  ASSUME NEW entries \in Seq(Entries), NEW e \in Entries, NEW f, NEW m,
         ~(e.function = f /\ e.selected = f)
  PROVE  Kept(Append(entries, e), f, m) = Kept(entries, f, m)
<1> DEFINE w == Append(entries, e)
           n == Len(entries)
<1>1. /\ DOMAIN w = 1..n + 1 /\ DOMAIN entries = 1..n /\ n \in Nat
      /\ w[n + 1] = e /\ \A i \in 1..n : w[i] = entries[i]
  OBVIOUS
<1> HIDE DEF w, n
<1>2. \A i : i \in 1..n + 1 <=> i \in 1..n \/ i = n + 1
  BY <1>1
<1>3. Counted(w, f) = Counted(entries, f) /\ Counted(entries, f) \subseteq 1..n
  BY <1>1, <1>2 DEF Counted
<1>4. QED
  BY <1>1, <1>3 DEF Kept, w

\* e has a sample of mode m.
Sampled(e, m) == e.msg.mode = m /\ HasDeadlineValue(SampleFromTelemetry(e.msg))

\* What is left of the kept entries after e, and e if it has a sample.
StillKept(entries, e, f, m) ==
  {i \in Kept(entries, f, m) : entries[i].age <= EstimatorWindow}
    \cup (IF Sampled(e, m) THEN {Len(entries) + 1} ELSE {})

\* An entry that counts ends what is older than a window, and is kept itself if
\* it has a sample of the mode.
LEMMA KeptAfter ==
  ASSUME NEW entries \in Seq(Entries), NEW e \in Entries, NEW f, NEW m,
         e.function = f, e.selected = f, e.age = 0
  PROVE  Kept(Append(entries, e), f, m) = StillKept(entries, e, f, m)
<1> DEFINE w == Append(entries, e)
           n == Len(entries)
           young == {i \in Kept(entries, f, m) : entries[i].age <= EstimatorWindow}
<1>1. /\ DOMAIN w = 1..n + 1 /\ DOMAIN entries = 1..n /\ n \in Nat
      /\ w[n + 1] = e /\ \A i \in 1..n : w[i] = entries[i]
  OBVIOUS
<1>2. \A i \in 1..n : entries[i].age \in Nat
  BY EntryFields
<1>3. EstimatorWindow \in Nat
  BY ConstantTypes
<1> HIDE DEF w, n
<1>4. \A i : i \in 1..n + 1 <=> i \in 1..n \/ i = n + 1
  BY <1>1
<1>5. /\ Counted(w, f) = Counted(entries, f) \cup {n + 1}
      /\ Counted(entries, f) \subseteq 1..n /\ n + 1 \notin 1..n
  BY <1>1, <1>4 DEF Counted
<1>6. \A i : i \in Kept(w, f, m) <=>
               /\ i \in Counted(entries, f) \/ i = n + 1
               /\ Sampled(w[i], m)
               /\ \A k \in Counted(entries, f) \cup {n + 1} :
                    w[i].age - w[k].age <= EstimatorWindow
  BY <1>5 DEF Kept, Sampled
<1>7. \A i : i \in Kept(entries, f, m) <=>
               /\ i \in Counted(entries, f)
               /\ Sampled(entries[i], m)
               /\ \A k \in Counted(entries, f) :
                    entries[i].age - entries[k].age <= EstimatorWindow
  BY DEF Kept, Sampled
<1>8. ASSUME NEW i \in 1..n
      PROVE  i \in Kept(w, f, m) <=> i \in young
  <2>1. i # n + 1 /\ w[i] = entries[i] /\ entries[i].age \in Nat
    BY <1>1, <1>2, <1>5
  <2>2. \A k \in Counted(entries, f) : w[k] = entries[k] /\ entries[k].age \in Nat
    BY <1>1, <1>2, <1>5
  <2>3. w[n + 1].age = 0
    BY <1>1
  <2>4. CASE entries[i].age <= EstimatorWindow
    <3>1. \A k \in Counted(entries, f) : entries[i].age - entries[k].age <= EstimatorWindow
      BY <1>3, <2>1, <2>2, <2>4
    <3>2. \A k \in Counted(entries, f) \cup {n + 1} :
            w[i].age - w[k].age <= EstimatorWindow
      BY <1>3, <2>1, <2>2, <2>3, <2>4, <3>1
    <3>3. QED
      BY <1>6, <1>7, <2>1, <2>4, <3>1, <3>2
  <2>5. CASE ~(entries[i].age <= EstimatorWindow)
    <3>1. ~(w[i].age - w[n + 1].age <= EstimatorWindow)
      BY <1>3, <2>1, <2>3, <2>5
    <3>2. QED
      BY <1>6, <2>5, <3>1
  <2>6. QED
    BY <2>4, <2>5
<1>9. n + 1 \in Kept(w, f, m) <=> Sampled(e, m)
  <2>1. \A k \in Counted(entries, f) \cup {n + 1} : w[k].age \in Nat
    BY <1>1, <1>2, <1>5
  <2>2. \A k \in Counted(entries, f) \cup {n + 1} :
          w[n + 1].age - w[k].age <= EstimatorWindow
    BY <1>1, <1>3, <2>1
  <2>3. QED
    BY <1>1, <1>6, <2>2
<1>10. Kept(w, f, m) \subseteq 1..n + 1 /\ young \subseteq 1..n
  BY <1>1, <1>4, <1>5, <1>6, <1>7
<1>11. QED
  BY <1>4, <1>5, <1>8, <1>9, <1>10 DEF StillKept, w, n

\* A later entry does not change what the samples stand for.
LEMMA MatchesLonger ==
  ASSUME NEW entries \in Seq(Entries), NEW e \in Entries, NEW seq,
         NEW kept \in SUBSET DOMAIN entries, Matches(seq, entries, kept)
  PROVE  Matches(seq, Append(entries, e), kept)
<1> DEFINE w == Append(entries, e)
<1>1. \A i \in DOMAIN entries : w[i] = entries[i]
  OBVIOUS
<1> HIDE DEF w
<1>2. PICK h : Stands(h, seq, entries, kept)
  BY DEF Matches
<1>3. Stands(h, seq, w, kept)
  BY <1>1, <1>2 DEF Stands
<1>4. QED
  BY <1>3 DEF Matches, w

\* Its sample, filed at the end, stands for it.
LEMMA MatchesFiled ==
  ASSUME NEW entries \in Seq(Entries), NEW e \in Entries, NEW seq \in Seq(Samples),
         NEW kept \in SUBSET DOMAIN entries, Matches(seq, entries, kept),
         NEW s \in Samples, s.age = e.age, s.value = SampleFromTelemetry(e.msg)
  PROVE  Matches(Append(seq, s), Append(entries, e), kept \cup {Len(entries) + 1})
<1> DEFINE w == Append(entries, e)
           n == Len(entries)
           q == Append(seq, s)
           l == Len(seq)
<1>1. /\ n \in Nat /\ w[n + 1] = e /\ \A i \in DOMAIN entries : w[i] = entries[i]
      /\ DOMAIN entries = 1..n
  OBVIOUS
<1>2. /\ l \in Nat /\ DOMAIN seq = 1..l /\ DOMAIN q = 1..l + 1
      /\ q[l + 1] = s /\ \A k \in 1..l : q[k] = seq[k]
  OBVIOUS
<1> HIDE DEF w, n, q, l
<1>3. n + 1 \notin kept
  BY <1>1
<1>4. \A k : k \in 1..l + 1 <=> k \in 1..l \/ k = l + 1
  BY <1>2
<1>5. PICK h : Stands(h, seq, entries, kept)
  BY DEF Matches
<1> DEFINE g == [k \in 1..l + 1 |-> IF k = l + 1 THEN n + 1 ELSE h[k]]
<1>6. /\ h \in [1..l -> kept] /\ \A k, j \in 1..l : h[k] = h[j] => k = j
      /\ \A i \in kept : \E k \in 1..l : h[k] = i
      /\ \A k \in 1..l : /\ seq[k].age = entries[h[k]].age
                         /\ seq[k].value = SampleFromTelemetry(entries[h[k]].msg)
  BY <1>2, <1>5 DEF Stands
<1>7. /\ g[l + 1] = n + 1 /\ l + 1 \in 1..l + 1 /\ l + 1 \notin 1..l
      /\ \A k \in 1..l : g[k] = h[k] /\ h[k] \in kept
  BY <1>2, <1>6
<1>8. g \in [1..l + 1 -> kept \cup {n + 1}]
  BY <1>4, <1>7
<1> HIDE DEF g
<1>9. \A k, j \in 1..l + 1 : g[k] = g[j] => k = j
  BY <1>3, <1>4, <1>6, <1>7
<1>10. \A i \in kept \cup {n + 1} : \E k \in 1..l + 1 : g[k] = i
  BY <1>4, <1>6, <1>7
<1>11. \A k \in 1..l + 1 : /\ q[k].age = w[g[k]].age
                           /\ q[k].value = SampleFromTelemetry(w[g[k]].msg)
  <2>1. TAKE k \in 1..l + 1
  <2>2. CASE k = l + 1
    BY <1>1, <1>2, <1>7, <2>2
  <2>3. CASE k \in 1..l
    <3>1. q[k] = seq[k] /\ g[k] = h[k] /\ w[h[k]] = entries[h[k]]
      BY <1>1, <1>2, <1>7, <2>3
    <3>2. QED
      BY <1>6, <2>3, <3>1
  <2>4. QED
    BY <1>4, <2>2, <2>3
<1>12. Stands(g, q, w, kept \cup {n + 1})
  BY <1>2, <1>8, <1>9, <1>10, <1>11 DEF Stands
<1>13. QED
  BY <1>12 DEF Matches, q, w, n

LEMMA RestIndex ==
  ASSUME NEW l \in Nat, NEW x \in 0..l
  PROVE  /\ \A k \in 1..l - x : x + k \in 1..l /\ x + k > x
         /\ \A j \in 1..l : j > x => j - x \in 1..l - x /\ x + (j - x) = j
         /\ \A k, j \in 1..l - x : x + k = x + j => k = j
OBVIOUS

\* Dropping the front drops the samples of exactly the entries that are too old.
LEMMA MatchesPruned ==
  ASSUME NEW entries, NEW seq \in Seq(Samples), OldestFirst(seq),
         NEW kept, Matches(seq, entries, kept)
  PROVE  Matches(WithinWindow(seq, EstimatorWindow), entries,
                 {i \in kept : entries[i].age <= EstimatorWindow})
<1> DEFINE v == WithinWindow(seq, EstimatorWindow)
           l == Len(seq)
           young == {i \in kept : entries[i].age <= EstimatorWindow}
<1>1. l \in Nat /\ DOMAIN seq = 1..l
  OBVIOUS
<1>2. PICK x \in 0..l :
        /\ \A k \in DOMAIN seq : seq[k].age > EstimatorWindow <=> k <= x
        /\ IsRest(v, seq, x) /\ v \in Seq(Samples)
  BY WindowIsSuffix, SampleFields, ConstantTypes
<1>3. DOMAIN v = 1..l - x /\ \A k \in 1..l - x : v[k] = seq[x + k]
  BY <1>2 DEF IsRest
<1>4. \A k \in 1..l : seq[k].age \in Nat
  BY SampleFields
<1>5. EstimatorWindow \in Nat
  BY ConstantTypes
<1> HIDE DEF v, l
<1>6. PICK h : Stands(h, seq, entries, kept)
  BY DEF Matches
<1>7. /\ h \in [1..l -> kept] /\ \A k, j \in 1..l : h[k] = h[j] => k = j
      /\ \A i \in kept : \E k \in 1..l : h[k] = i
      /\ \A k \in 1..l : /\ seq[k].age = entries[h[k]].age
                         /\ seq[k].value = SampleFromTelemetry(entries[h[k]].msg)
  BY <1>1, <1>6 DEF Stands
<1>8. \A k \in 1..l : entries[h[k]].age <= EstimatorWindow <=> k > x
  BY <1>1, <1>2, <1>4, <1>5, <1>7
<1> DEFINE g == [k \in 1..l - x |-> h[x + k]]
<1>9. /\ \A k \in 1..l - x : x + k \in 1..l /\ x + k > x
      /\ \A j \in 1..l : j > x => j - x \in 1..l - x /\ x + (j - x) = j
      /\ \A k, j \in 1..l - x : x + k = x + j => k = j
  BY <1>1, RestIndex
<1>10. \A k \in 1..l - x : g[k] = h[x + k]
  OBVIOUS
<1>11. \A k \in 1..l - x : h[x + k] \in young
  BY <1>7, <1>8, <1>9
<1>12. g \in [1..l - x -> young]
  BY <1>11
<1> HIDE DEF g
<1>13. \A k, j \in 1..l - x : g[k] = g[j] => k = j
  BY <1>7, <1>9, <1>10
<1>14. \A i \in young : \E k \in 1..l - x : g[k] = i
  <2>1. TAKE i \in young
  <2>2. PICK j \in 1..l : h[j] = i
    BY <1>7
  <2>3. j > x
    BY <1>8, <2>2
  <2>4. j - x \in 1..l - x /\ g[j - x] = i
    BY <1>9, <1>10, <2>2, <2>3
  <2>5. QED
    BY <2>4
<1>15. \A k \in 1..l - x : /\ v[k].age = entries[g[k]].age
                           /\ v[k].value = SampleFromTelemetry(entries[g[k]].msg)
  BY <1>3, <1>7, <1>9, <1>10
<1>16. Stands(g, v, entries, young)
  BY <1>3, <1>12, <1>13, <1>14, <1>15 DEF Stands
<1>17. QED
  BY <1>16 DEF Matches, v

\* recordAndEstimate on a message that counts: the sample is filed, then the
\* samples of every mode are pruned.
LEMMA MatchesRecorded ==
  ASSUME NEW entries \in Seq(Entries), NEW e \in Entries, NEW seq \in Seq(Samples),
         OldestFirst(seq), NEW f, NEW m, Matches(seq, entries, Kept(entries, f, m)),
         e.function = f, e.selected = f, e.age = 0,
         NEW s \in Samples, s.age = 0, s.value = SampleFromTelemetry(e.msg)
  PROVE  Matches(WithinWindow(IF Sampled(e, m) THEN Append(seq, s) ELSE seq,
                              EstimatorWindow),
                 Append(entries, e), Kept(Append(entries, e), f, m))
<1> DEFINE w == Append(entries, e)
           n == Len(entries)
           kept == Kept(entries, f, m)
           all == kept \cup {n + 1}
           young == {i \in kept : entries[i].age <= EstimatorWindow}
           Recent(S) == {i \in S : w[i].age <= EstimatorWindow}
<1>1. kept \in SUBSET DOMAIN entries
  BY DEF Kept, Counted
<1>2. Kept(w, f, m) = young \cup (IF Sampled(e, m) THEN {n + 1} ELSE {})
  <2>1. Kept(w, f, m) = StillKept(entries, e, f, m)
    BY KeptAfter
  <2>2. QED
    BY <2>1 DEF StillKept
<1>3. n \in Nat /\ w[n + 1] = e /\ \A i \in DOMAIN entries : w[i] = entries[i]
  OBVIOUS
<1>4. w[n + 1].age <= EstimatorWindow
  <2>1. EstimatorWindow \in Nat
    BY ConstantTypes
  <2> HIDE DEF w, n
  <2>2. QED
    BY <1>3, <2>1
<1> HIDE DEF w, n, kept
<1>5. Recent(kept) = young
  BY <1>1, <1>3
<1>6. CASE Sampled(e, m)
  <2>1. Matches(Append(seq, s), w, all)
    BY <1>1, MatchesFiled DEF w, n, kept
  <2>2. Append(seq, s) \in Seq(Samples) /\ OldestFirst(Append(seq, s))
    BY AppendNewest, SampleFields
  <2>3. Recent(all) = Kept(w, f, m)
    BY <1>2, <1>4, <1>5, <1>6
  <2> HIDE DEF all
  <2>4. Matches(WithinWindow(Append(seq, s), EstimatorWindow), w, Recent(all))
    BY <2>1, <2>2, MatchesPruned
  <2>5. QED
    BY <1>6, <2>3, <2>4 DEF w
<1>7. CASE ~Sampled(e, m)
  <2>1. Matches(seq, w, kept)
    BY <1>1, MatchesLonger DEF w, kept
  <2>2. Recent(kept) = Kept(w, f, m)
    BY <1>2, <1>5, <1>7
  <2>3. Matches(WithinWindow(seq, EstimatorWindow), w, Recent(kept))
    BY <2>1, MatchesPruned
  <2>4. QED
    BY <1>7, <2>2, <2>3 DEF w
<1>8. QED
  BY <1>6, <1>7

\* With no message received there is nothing to keep.
LEMMA NothingKept ==
  ASSUME NEW f \in Functions, NEW m \in Modes
  PROVE  Matches(NoSamples[f][m], <<>>, Kept(<<>>, f, m))
<1>1. NoSamples[f][m] = <<>>
  BY NoSamplesType
<1>2. DOMAIN <<>> = {}
  OBVIOUS
<1>3. Kept(<<>>, f, m) = {}
  BY <1>2 DEF Kept, Counted
<1>4. Stands([k \in {} |-> k], <<>>, <<>>, {})
  BY <1>2 DEF Stands
<1>5. QED
  BY <1>1, <1>3, <1>4 DEF Matches

LEMMA InitCorresponds == Init => Corresponds /\ Heard
<1>1. SUFFICES ASSUME Init PROVE Corresponds /\ Heard
  OBVIOUS
<1>2. received = <<>> /\ samples = NoSamples
  BY <1>1 DEF Init
<1>3. QED
  BY <1>2, NothingKept DEF Corresponds, Heard

\* A restart forgets the samples, and with them what was received.
LEMMA RestartCorresponds == Restart => Corresponds' /\ Heard'
<1>1. SUFFICES ASSUME Restart PROVE Corresponds' /\ Heard'
  OBVIOUS
<1>2. received' = <<>> /\ samples' = NoSamples
  BY <1>1 DEF Restart
<1>3. QED
  BY <1>2, NothingKept DEF Corresponds, Heard

LEMMA ApplyCorresponds ==
  ASSUME Remembers, NEW raw \in Messages, Apply(raw)
  PROVE  Corresponds' /\ Heard'
<1> DEFINE msg == Decoded(raw)
           sample == SampleFromTelemetry(msg)
           new == [age |-> 0, value |-> sample]
           e == [age |-> 0, msg |-> msg, mode |-> LatestTelemetryMode(msg),
                 source |-> SourceOf(msg), function |-> FunctionOf(msg),
                 selected |-> identity]
           n == Len(received)
           Filed(f, m) ==
             IF f = identity /\ m = msg.mode /\ HasDeadlineValue(sample)
             THEN Append(samples[f][m], new) ELSE samples[f][m]
<1>1. Types /\ Ordered /\ Corresponds /\ Heard
  BY DEF Remembers, Inv
<1>2. msg \in Reports
  BY DecodedType, PolicyAssumption
<1>3. samples' = RecordSample(msg) /\ received' = Append(received, e)
  BY DEF Apply
<1>4. /\ received \in Seq(Entries) /\ identity \in Functions
      /\ samples \in [Functions -> [Modes -> Seq(Samples)]]
      /\ \A f \in Functions, m \in Modes : OldestFirst(samples[f][m])
  BY <1>1, VersionFields DEF Types, Ordered
<1>5. samples' = IF msg.function \notin {"", identity} THEN samples
                 ELSE [f \in Functions |->
                         IF f # identity THEN samples[f]
                         ELSE [m \in Modes |-> WithinWindow(Filed(f, m), EstimatorWindow)]]
  BY <1>3 DEF RecordSample
<1> HIDE DEF msg
<1>6. /\ LatestTelemetryMode(msg) \in ModeNames /\ SourceOf(msg) \in Texts
      /\ FunctionOf(msg) \in Texts \cup Functions
  <2>1. cached.observedMode \in ModeNames /\ cached.source \in Texts
    BY <1>1, VersionFields, VersionTypes
  <2>2. msg.mode \in ModeNames /\ msg.source \in Texts /\ msg.function \in Texts
    BY <1>2 DEF Reports
  <2>3. QED
    BY <1>4, <2>1, <2>2 DEF LatestTelemetryMode, SourceOf, FunctionOf
<1>7. FunctionOf(msg) = identity <=> msg.function \in {"", identity}
  BY DEF FunctionOf
<1>8. /\ e \in Entries /\ e.age = 0 /\ e.msg = msg /\ e.function = FunctionOf(msg)
      /\ e.selected = identity
  <2>1. 0 \in Nat
    OBVIOUS
  <2>2. e \in Entries
    BY <1>2, <1>4, <1>6, <2>1, Zenon DEF Entries
  <2>3. QED
    BY <2>2
<1>9. new \in Samples /\ new.age = 0 /\ new.value = sample
  <2>1. sample \in [Metrics -> Times]
    BY <1>2, SampleType
  <2> HIDE DEF sample
  <2>2. QED
    BY <2>1 DEF Samples
<1> HIDE DEF e, new, Filed
<1>10. ASSUME NEW f \in Functions, NEW m \in Modes
       PROVE  Matches(samples'[f][m], Append(received, e), Kept(Append(received, e), f, m))
  <2>1. Matches(samples[f][m], received, Kept(received, f, m))
    BY <1>1 DEF Corresponds
  <2>2. samples[f][m] \in Seq(Samples) /\ OldestFirst(samples[f][m])
    BY <1>4
  <2>3. CASE f = identity /\ msg.function \in {"", identity}
    <3>1. samples'[f][m] = WithinWindow(Filed(f, m), EstimatorWindow)
      BY <1>5, <2>3
    <3>2. Filed(f, m) = IF Sampled(e, m)
                        THEN Append(samples[f][m], new) ELSE samples[f][m]
      BY <1>8, <2>3 DEF Filed, Sampled, sample
    <3>3. e.function = f /\ e.selected = f
      BY <1>7, <1>8, <2>3
    <3>4. new.value = SampleFromTelemetry(e.msg)
      BY <1>8, <1>9 DEF sample
    <3>5. QED
      BY <1>4, <1>8, <1>9, <2>1, <2>2, <3>1, <3>2, <3>3, <3>4, MatchesRecorded
  <2>4. CASE ~(f = identity /\ msg.function \in {"", identity})
    <3>1. samples'[f][m] = samples[f][m]
      BY <1>5, <2>4
    <3>2. ~(e.function = f /\ e.selected = f)
      BY <1>7, <1>8, <2>4
    <3>3. Kept(Append(received, e), f, m) = Kept(received, f, m)
      BY <1>4, <1>8, <3>2, KeptIgnores
    <3>4. Kept(received, f, m) \in SUBSET DOMAIN received
      BY DEF Kept, Counted
    <3>5. QED
      BY <1>4, <1>8, <2>1, <3>1, <3>3, <3>4, MatchesLonger
  <2>5. QED
    BY <2>3, <2>4
<1>11. Corresponds'
  BY <1>3, <1>10 DEF Corresponds, e
<1>12. Heard'
  <2>1. \A i \in DOMAIN Append(received, e) :
          \/ i \in DOMAIN received /\ Append(received, e)[i] = received[i]
          \/ Append(received, e)[i] = e
    BY <1>4, <1>8
  <2>2. received' = Append(received, e)
    BY <1>3 DEF e
  <2>3. e.msg = Decoded(raw)
    BY <1>8 DEF msg
  <2>4. QED
    BY <1>1, <2>1, <2>2, <2>3 DEF Heard
<1>13. QED
  BY <1>11, <1>12

LEMMA PassCorresponds ==
  ASSUME Remembers, NEW d \in Gaps, Pass(d)
  PROVE  Corresponds' /\ Heard'
<1>1. Types /\ Ordered /\ Corresponds /\ Heard
  BY DEF Remembers, Inv
<1>2. d \in Nat
  BY PolicyAssumption
<1>3. /\ received' = Older(received, d)
      /\ samples' = [f \in Functions |-> [m \in Modes |-> Older(samples[f][m], d)]]
  BY DEF Pass
<1>4. /\ received \in Seq(Entries) /\ OldestFirst(received)
      /\ samples \in [Functions -> [Modes -> Seq(Samples)]]
      /\ \A f \in Functions, m \in Modes : OldestFirst(samples[f][m])
  BY <1>1 DEF Types, Ordered
<1>5. ASSUME NEW f \in Functions, NEW m \in Modes
      PROVE  Matches(samples'[f][m], received', Kept(received', f, m))
  <2>1. Matches(samples[f][m], received, Kept(received, f, m))
    BY <1>1 DEF Corresponds
  <2>2. samples[f][m] \in Seq(Samples) /\ OldestFirst(samples[f][m])
    BY <1>4
  <2>3. Kept(received, f, m) \in SUBSET DOMAIN received
    BY DEF Kept, Counted
  <2>4. Matches(Older(samples[f][m], d), Older(received, d), Kept(received, f, m))
    BY <1>2, <1>4, <2>1, <2>2, <2>3, MatchesWhenOlder
  <2>5. Kept(Older(received, d), f, m) = Kept(received, f, m)
    BY <1>2, <1>4, KeptWhenOlder
  <2>6. samples'[f][m] = Older(samples[f][m], d)
    BY <1>3
  <2>7. QED
    BY <1>3, <2>4, <2>5, <2>6
<1>6. Corresponds'
  BY <1>5 DEF Corresponds
<1>7. Heard'
  <2>1. /\ DOMAIN Older(received, d) = DOMAIN received
        /\ \A i \in DOMAIN received : Older(received, d)[i].msg = received[i].msg
    BY <1>2, <1>4, OlderEntries
  <2>2. QED
    BY <1>1, <1>3, <2>1 DEF Heard
<1>8. QED
  BY <1>6, <1>7

\* At every moment the estimator holds, for every function and mode, one sample
\* for each message about the function that this operator process applied while its
\* cache had it selected and that lies within a window of the latest of them, and
\* nothing else: appending and pruning per message (recordAndEstimate) loses,
\* repeats and invents none, also when other functions are selected in between,
\* when status patches fail or lag, and across restarts, each of which starts from
\* no sample at all (the map is in memory, deadline_estimator.go:14-18).
THEOREM EstimatorRemembers == Spec => []Remembers
<1>1. Init => Remembers
  BY InitInv, InitCorresponds DEF Remembers
<1>2. Remembers /\ [Next]_vars => Remembers'
  <2>1. SUFFICES ASSUME Remembers, [Next]_vars PROVE Corresponds' /\ Heard'
    BY StepInv DEF Remembers
  <2>2. CASE \E raw \in Messages : Apply(raw)
    BY <2>1, <2>2, ApplyCorresponds
  <2>3. CASE \E d \in Gaps : Pass(d)
    BY <2>1, <2>3, PassCorresponds
  <2>4. CASE (\E f \in Functions : Select(f)) \/ Watch \/ UNCHANGED vars
    <3>1. samples' = samples /\ received' = received
      BY <2>4 DEF Select, Watch, vars
    <3>2. QED
      BY <2>1, <3>1 DEF Remembers, Corresponds, Heard
  <2>5. CASE Restart
    BY <2>5, RestartCorresponds
  <2>6. QED
    BY <2>1, <2>2, <2>3, <2>4, <2>5 DEF Next
<1>3. QED
  BY <1>1, <1>2, PTL DEF Spec

-----------------------------------------------------------------------------
(* An edge that misses the deadline is refused.                            *)

\* Every time that is reported, profiled or configured is at most T, and sums
\* of four of them with the safety margin are int32 values.
TimesBounded(T) ==
  /\ Policy.target \in 1..Int32Max /\ Policy.minSlack \in Int
  /\ Policy.safetyMargin \in Int
  /\ \A raw \in Messages : \A t \in Timings : raw[t] <= T
  /\ \A f \in DOMAIN Profiles : Profiles[f] \in [Metrics -> 0..T]
  /\ \A m \in DOMAIN Policy.fallback : Policy.fallback[m] \in Int /\ Policy.fallback[m] <= T
  /\ 4 * T + OrDefault(Policy.safetyMargin, 250) <= Int32Max

LEMMA DecodedBounded ==
  ASSUME NEW T \in Nat, TimesBounded(T), NEW raw \in Messages
  PROVE  \A t \in Timings : Decoded(raw)[t] \in {Nil} \cup 0..T
<1>1. raw \in Payloads
  BY PolicyAssumption
<1>2. ASSUME NEW t \in Timings PROVE Decoded(raw)[t] \in {Nil} \cup 0..T
  <2>1. t \in DOMAIN raw /\ t # "battery" /\ raw[t] \in Int
    BY <1>1 DEF Payloads, Timings
  <2>2. Decoded(raw)[t] = IF raw[t] < 0 /\ raw[t] # Nil THEN 0 ELSE raw[t]
    BY <2>1 DEF Decoded
  <2>3. raw[t] <= T
    BY DEF TimesBounded
  <2>4. QED
    BY <2>1, <2>2, <2>3 DEF Nil
<1>3. QED
  BY <1>2

LEMMA SampleBounded ==
  ASSUME NEW T \in Nat, TimesBounded(T), NEW raw \in Messages, NEW metric \in Metrics
  PROVE  SampleFromTelemetry(Decoded(raw))[metric] \in {Nil} \cup 0..T
<1> DEFINE msg == Decoded(raw)
           Bounded == {Nil} \cup 0..T
<1>1. /\ msg.exec \in Bounded /\ msg.queue \in Bounded /\ msg.wake \in Bounded
      /\ msg.edgeExec \in Bounded /\ msg.network \in Bounded /\ msg.collect \in Bounded
      /\ msg.apply \in Bounded
  BY DecodedBounded DEF Timings
<1> HIDE DEF msg
<1>2. [m \in Metrics |-> Nil] \in [Metrics -> Bounded]
  OBVIOUS
<1> HIDE DEF Bounded
<1>3. \A g \in [Metrics -> Bounded], m \in Metrics, v \in Bounded :
        [g EXCEPT ![m] = v] \in [Metrics -> Bounded]
  OBVIOUS
<1>4. SampleFromTelemetry(msg) \in [Metrics -> Bounded]
  BY <1>1, <1>2, <1>3 DEF SampleFromTelemetry, Metrics
<1>5. QED
  BY <1>4 DEF Bounded, msg

\* A kept sample reports no time above the bound.
LEMMA KeptBounded ==
  ASSUME Remembers, NEW T \in Nat, TimesBounded(T), NEW m \in Modes, NEW metric \in Metrics,
         NEW k \in DOMAIN samples[identity][m]
  PROVE  samples[identity][m][k].value[metric] \in {Nil} \cup 0..T
<1> DEFINE seq == samples[identity][m]
           kept == Kept(received, identity, m)
<1>1. PICK h : Stands(h, seq, received, kept)
  BY VersionFields DEF Remembers, Inv, Corresponds, Matches
<1>2. kept \subseteq DOMAIN received
  BY DEF Kept, Counted
<1>3. h[k] \in DOMAIN received /\ seq[k].value = SampleFromTelemetry(received[h[k]].msg)
  BY <1>1, <1>2 DEF Stands
<1>4. PICK raw \in Messages : received[h[k]].msg = Decoded(raw)
  BY <1>3 DEF Remembers, Heard
<1>5. QED
  BY <1>3, <1>4, SampleBounded

LEMMA FallbackBounded ==
  ASSUME NEW T \in Nat, TimesBounded(T), identity \in DOMAIN Profiles, NEW metric \in Metrics
  PROVE  Fallback(metric) \in 0..T
<1>1. Profiles[identity][metric] \in 0..T
  BY DEF TimesBounded
<1>2. metric \in DOMAIN Policy.fallback =>
        Policy.fallback[metric] \in Int /\ Policy.fallback[metric] <= T
  BY DEF TimesBounded
<1>3. QED
  BY <1>1, <1>2 DEF Fallback, OrDefault

LEMMA EstimateBounded ==
  ASSUME Remembers, NEW T \in Nat, TimesBounded(T), identity \in DOMAIN Profiles,
         NEW metric \in Metrics
  PROVE  EstimateDeadlinePercentile(samples[identity][ModeOf(metric)], metric,
                                    Fallback(metric)) \in 0..T
<1> DEFINE m == ModeOf(metric)
           seq == samples[identity][m]
           e == EstimateDeadlinePercentile(seq, metric, Fallback(metric))
<1>1. m \in Modes /\ seq \in Seq(Samples)
  BY VersionFields DEF Remembers, Inv, Types, ModeOf, Modes
<1>2. IsNearest(seq, metric, Present(seq, metric), e, Fallback(metric))
  BY <1>1, EstimateOf
<1>3. \A k \in Present(seq, metric) : seq[k].value[metric] \in 0..T
  <2>1. \A k \in Present(seq, metric) : k \in DOMAIN seq /\ seq[k].value[metric] # Nil
    BY <1>1, PresentSamples
  <2>2. \A k \in DOMAIN seq : seq[k].value[metric] \in {Nil} \cup 0..T
    BY <1>1, KeptBounded
  <2>3. QED
    BY <2>1, <2>2
<1>4. Fallback(metric) \in 0..T
  BY FallbackBounded
<1>5. e = Fallback(metric) \/ \E k \in Present(seq, metric) : seq[k].value[metric] = e
  BY <1>2 DEF IsNearest
<1> HIDE DEF e
<1>6. e \in 0..T
  BY <1>3, <1>4, <1>5
<1>7. QED
  BY <1>6 DEF e

\* With a profile, every number of the estimate is a time within the bound.
LEMMA EstimateFields ==
  ASSUME Remembers, NEW T \in Nat, TimesBounded(T), identity \in DOMAIN Profiles
  PROVE  /\ Estimate.known /\ Estimate.available
         /\ Estimate.localExec \in 0..T /\ Estimate.queue \in 0..T /\ Estimate.wake \in 0..T
         /\ Estimate.edgeExec \in 0..T /\ Estimate.network \in 0..T
         /\ Estimate.collect \in 0..T /\ Estimate.apply \in 0..T
         /\ Estimate.network = EstimateDeadlinePercentile(
                                 samples[identity][Edge], "network", Fallback("network"))
<1> DEFINE Of(m) == EstimateDeadlinePercentile(samples[identity][ModeOf(m)], m, Fallback(m))
<1>1. Estimate = [known |-> TRUE, available |-> TRUE,
                  localExec |-> Of("localExec"), queue |-> Of("queue"), wake |-> Of("wake"),
                  edgeExec |-> Of("edgeExec"), network |-> Of("network"),
                  collect |-> Of("collect"), apply |-> Of("apply")]
  BY DEF Estimate
<1>2. \A m \in Metrics : Of(m) \in 0..T
  BY EstimateBounded
<1>3. Of("network") = EstimateDeadlinePercentile(
                        samples[identity][Edge], "network", Fallback("network"))
  BY DEF ModeOf
<1> HIDE DEF Of
<1>4. /\ Of("localExec") \in 0..T /\ Of("queue") \in 0..T /\ Of("wake") \in 0..T
      /\ Of("edgeExec") \in 0..T /\ Of("network") \in 0..T
      /\ Of("collect") \in 0..T /\ Of("apply") \in 0..T
  BY <1>2 DEF Metrics
<1>5. QED
  BY <1>1, <1>3, <1>4

LEMMA SumsFit ==
  ASSUME NEW T \in Nat, NEW margin \in Nat, NEW limit \in Nat, 4 * T + margin <= limit,
         NEW a \in 0..T, NEW b \in 0..T, NEW c \in 0..T, NEW d \in 0..T
  PROVE  /\ a + b + c + margin <= limit /\ a + b + margin <= limit
         /\ a + b + c + d + margin <= limit
OBVIOUS

\* The admission of a candidate then computes without overflow.
LEMMA EstimateFits ==
  ASSUME Remembers, NEW T \in Nat, TimesBounded(T), identity \in DOMAIN Profiles,
         NEW mode, NEW p, NEW loc
  PROVE  TimesFit(Candidate(mode, p, loc), Estimate)
<1> DEFINE wf == Candidate(mode, p, loc)
           margin == OrDefault(Policy.safetyMargin, 250)
<1>1. /\ wf.target = Policy.target /\ wf.minSlack = Policy.minSlack
      /\ wf.safetyMargin = Policy.safetyMargin
  BY CandidateFields
<1>2. /\ Policy.target \in 1..Int32Max /\ Policy.minSlack \in Int
      /\ Policy.safetyMargin \in Int /\ 4 * T + margin <= Int32Max
  BY DEF TimesBounded
<1>3. margin \in Nat
  BY <1>2 DEF OrDefault
<1> DEFINE est == Estimate
<1>4. /\ est.localExec \in 0..T /\ est.queue \in 0..T /\ est.wake \in 0..T
      /\ est.edgeExec \in 0..T /\ est.network \in 0..T
      /\ est.collect \in 0..T /\ est.apply \in 0..T
  BY EstimateFields
<1> HIDE DEF wf, est, margin
<1>5. \A c \in {Local, Edge, Hybrid} : ExactCost(c, est, margin) <= Int32Max
  <2>1. est.queue + est.wake + est.localExec + margin <= Int32Max
    BY <1>2, <1>3, <1>4, SumsFit, Int32Assumption
  <2>2. est.network + est.edgeExec + margin <= Int32Max
    BY <1>2, <1>3, <1>4, SumsFit, Int32Assumption
  <2>3. est.collect + est.network + est.edgeExec + est.apply + margin <= Int32Max
    BY <1>2, <1>3, <1>4, SumsFit, Int32Assumption
  <2>4. QED
    BY <2>1, <2>2, <2>3 DEF ExactCost
<1>6. \A x \in 0..T : x \in Nat
  OBVIOUS
<1>7. TimesFit(wf, est)
  BY <1>1, <1>2, <1>4, <1>5, <1>6 DEF TimesFit, margin
<1>8. QED
  BY <1>7 DEF wf, est

\* The entries SlowEdgeIsRefused looks at.
RecentRoundTrips ==
  {i \in Counted(received, identity) :
     /\ received[i].msg.mode = Edge /\ received[i].msg.network # Nil
     /\ \A k \in Counted(received, identity) : received[i].age - received[k].age <= EstimatorWindow}

LEMMA EdgeSample ==
  ASSUME NEW msg, msg.mode = Edge
  PROVE  SampleFromTelemetry(msg)["network"] = msg.network
BY DEF SampleFromTelemetry, Metrics, Local, Edge

\* They are the kept ones with a round trip.
LEMMA RecentIsKept ==
  RecentRoundTrips = {i \in Kept(received, identity, Edge) :
                        SampleFromTelemetry(received[i].msg)["network"] # Nil}
<1>1. \A i : received[i].msg.mode = Edge =>
        /\ SampleFromTelemetry(received[i].msg)["network"] = received[i].msg.network
        /\ received[i].msg.network # Nil => HasDeadlineValue(SampleFromTelemetry(received[i].msg))
  <2>1. TAKE i
  <2>2. HAVE received[i].msg.mode = Edge
  <2>3. SampleFromTelemetry(received[i].msg)["network"] = received[i].msg.network
    BY <2>2, EdgeSample
  <2>4. "network" \in Metrics
    BY DEF Metrics
  <2>5. QED
    BY <2>3, <2>4 DEF HasDeadlineValue
<1>2. QED
  BY <1>1 DEF RecentRoundTrips, Kept

\* If there are enough of them and all used up the target, so does the estimate.
LEMMA SlowEstimate ==
  ASSUME Remembers, identity \in Functions,
         Cardinality(RecentRoundTrips) >= MinSamples,
         \A i \in RecentRoundTrips : received[i].msg.network >= Policy.target,
         NEW fallback
  PROVE  EstimateDeadlinePercentile(samples[identity][Edge], "network", fallback)
           >= Policy.target
<1> DEFINE seq == samples[identity][Edge]
           kept == Kept(received, identity, Edge)
           present == Present(seq, "network")
           e == EstimateDeadlinePercentile(seq, "network", fallback)
           Trip(i) == SampleFromTelemetry(received[i].msg)["network"]
<1>1. Edge \in Modes /\ "network" \in Metrics
  BY DEF Modes, Metrics
<1>2. seq \in Seq(Samples)
  BY <1>1 DEF Remembers, Inv, Types
<1>3. PICK h : Stands(h, seq, received, kept)
  BY <1>1 DEF Remembers, Corresponds, Matches
<1>4. /\ present = {k \in DOMAIN seq : seq[k].value["network"] # Nil}
      /\ IsFiniteSet(present) /\ Cardinality(present) \in Nat
  BY <1>1, <1>2, PresentSamples
<1>5. RecentRoundTrips = {i \in kept : Trip(i) # Nil}
  BY RecentIsKept
<1>6. \A i \in RecentRoundTrips : Trip(i) = received[i].msg.network
  BY EdgeSample DEF RecentRoundTrips
<1>7. MinSamples \in Nat
  BY PolicyAssumption
<1>8. IsNearest(seq, "network", present, e, fallback)
  BY <1>1, <1>2, EstimateOf
<1> HIDE DEF seq, kept, present, e
<1>9. /\ h \in [DOMAIN seq -> kept]
      /\ \A i \in kept : \E k \in DOMAIN seq : h[k] = i
      /\ \A k \in DOMAIN seq : seq[k].value["network"] = Trip(h[k])
  BY <1>3 DEF Stands
<1> HIDE DEF Trip
<1>10. Cardinality(RecentRoundTrips) <= Cardinality(present)
  <2> DEFINE g == [i \in RecentRoundTrips |-> CHOOSE k \in DOMAIN seq : h[k] = i]
  <2>1. \A i \in RecentRoundTrips : g[i] \in DOMAIN seq /\ h[g[i]] = i
    BY <1>5, <1>9
  <2>2. g \in [RecentRoundTrips -> present]
    BY <1>4, <1>5, <1>9, <2>1
  <2> HIDE DEF g
  <2>3. \A i, j \in RecentRoundTrips : g[i] = g[j] => i = j
    BY <2>1
  <2>4. QED
    BY <1>4, <2>2, <2>3, FitsInto
<1>11. Cardinality(RecentRoundTrips) \in Nat
  <2>1. DOMAIN received = 1..Len(received) /\ Len(received) \in Nat
    BY DEF Remembers, Inv, Types
  <2>2. RecentRoundTrips \in SUBSET (1..Len(received))
    BY <2>1 DEF RecentRoundTrips, Counted
  <2>3. QED
    BY <2>1, <2>2, SizeOfInterval, FS_Subset, FS_CardinalityType
<1>12. ~(Cardinality(present) < MinSamples)
  BY <1>4, <1>7, <1>10, <1>11
<1>13. PICK k \in present : seq[k].value["network"] = e
  BY <1>8, <1>12 DEF IsNearest
<1>14. h[k] \in RecentRoundTrips /\ e = Trip(h[k])
  BY <1>4, <1>5, <1>9, <1>13
<1>15. e >= Policy.target
  BY <1>6, <1>14
<1>16. QED
  BY <1>15 DEF e, seq

\* Without an identity the estimator knows, only a hard proposal is admitted.
LEMMA UnknownRefused ==
  ASSUME NEW wf, NEW est, On(wf.deadlinePolicy), wf.identity = "" \/ ~est.known
  PROVE  LET d == ResolvePlacement(wf, est)
         IN  ~d.hard => d.desired = d.current
<1> DEFINE d == ResolvePlacement(wf, est)
           cand == ApplyResourceLocality(wf, Proposal(wf).to)
<1>1. SUFFICES ASSUME ~d.hard, d.desired # d.current PROVE FALSE
  OBVIOUS
<1>2. /\ d.hard = Proposal(wf).hard
      /\ EvaluateDeadlineAdmission(wf, cand, Proposal(wf).hard, est).accepted
  BY <1>1, DecisionShape
<1> HIDE DEF cand
<1>3. EvaluateDeadlineAdmission(wf, cand, Proposal(wf).hard, est).accepted
        = Proposal(wf).hard
  BY DEF EvaluateDeadlineAdmission
<1>4. QED
  BY <1>1, <1>2, <1>3

LEMMA TooLong ==
  ASSUME NEW network \in Nat, NEW target \in Nat, network >= target,
         NEW a \in Nat, NEW b \in Nat, NEW c \in Nat, NEW margin \in Nat \ {0},
         NEW slack \in Nat
  PROVE  /\ ~(network + a + margin + slack <= target)
         /\ ~(b + network + a + c + margin + slack <= target)
OBVIOUS

\* A soft move off the device is refused whenever this operator process heard of
\* MinSamples recent edge invocations of the selected function and all of them used
\* up the deadline on the network alone, whatever else was reported, in whatever
\* order and with whatever gaps: the estimator's incremental filing and pruning
\* keeps exactly those invocations, the percentile is one of them, and the admission
\* compares it without overflow.  What was heard before a restart of the operator is
\* lost and does not count.  It needs the deadline policy on, a profile for every
\* known function (without one the code admits every move) and times whose sums are
\* int32 values.
THEOREM SlowEdgeRefused ==
  ASSUME On(Policy.deadlinePolicy), KnownFunctions \subseteq DOMAIN Profiles,
         NEW T \in Nat, TimesBounded(T)
  PROVE  Spec => []SlowEdgeIsRefused
<1>1. ASSUME Remembers PROVE SlowEdgeIsRefused
  <2>1. SUFFICES ASSUME Cardinality(RecentRoundTrips) >= MinSamples,
                        \A i \in RecentRoundTrips : received[i].msg.network >= Policy.target,
                        NEW mode, NEW p, NEW loc
                 PROVE  LET d == ResolvePlacement(Candidate(mode, p, loc), Estimate)
                        IN  d.candidate # Local /\ ~d.hard => d.desired = d.current
    BY DEF SlowEdgeIsRefused, RecentRoundTrips, Counted
  <2> DEFINE wf == Candidate(mode, p, loc)
             est == Estimate
             d == ResolvePlacement(wf, est)
             margin == OrDefault(Policy.safetyMargin, 250)
             slack == OrDefault(Policy.minSlack, 500)
  <2>2. SUFFICES ASSUME d.candidate # Local, ~d.hard, d.desired # d.current
                 PROVE  FALSE
    OBVIOUS
  <2>3. /\ wf.deadlinePolicy = Policy.deadlinePolicy /\ wf.identity = identity
        /\ wf.target = Policy.target /\ wf.minSlack = Policy.minSlack
        /\ wf.safetyMargin = Policy.safetyMargin
    BY CandidateFields
  <2>4. identity \in Functions
    BY <1>1, VersionFields DEF Remembers, Inv
  <2>5. CASE wf.identity = "" \/ ~est.known
    <3> HIDE DEF wf, est
    <3> QED BY <2>2, <2>3, <2>5, UnknownRefused
  <2>6. CASE wf.identity # "" /\ est.known
    <3>1. identity \in DOMAIN Profiles
      BY <2>6 DEF Estimate, Unavailable
    <3>2. est.available /\ est.network = EstimateDeadlinePercentile(
                             samples[identity][Edge], "network", Fallback("network"))
      BY <1>1, <3>1, EstimateFields
    <3>3. est.network >= Policy.target
      BY <1>1, <2>1, <2>4, <3>2, SlowEstimate
    <3>4. TimesFit(wf, est)
      BY <1>1, <3>1, EstimateFits
    <3>5. ExactCost(d.candidate, est, margin) + slack <= Policy.target
      <4> HIDE DEF wf, est
      <4>1. ExactCost(d.candidate, est, OrDefault(wf.safetyMargin, 250))
              + OrDefault(wf.minSlack, 500) <= wf.target
        BY <2>2, <2>3, <2>6, <3>2, <3>4, AdmittedMeetsDeadline
      <4>2. QED
        BY <2>3, <4>1
    <3>6. margin \in Nat \ {0} /\ slack \in Nat /\ Policy.target \in Nat
      BY Int32Assumption DEF TimesBounded, OrDefault
    <3>7. /\ est.network \in Nat /\ est.edgeExec \in Nat /\ est.collect \in Nat
          /\ est.apply \in Nat
      BY <3>4 DEF TimesFit
    <3>8. \/ ExactCost(d.candidate, est, margin) = est.network + est.edgeExec + margin
          \/ ExactCost(d.candidate, est, margin)
               = est.collect + est.network + est.edgeExec + est.apply + margin
      <4> HIDE DEF d, est, margin
      <4> QED BY <2>2 DEF ExactCost
    <3> HIDE DEF d, est, margin, slack
    <3>9. QED
      BY <3>3, <3>5, <3>6, <3>7, <3>8, TooLong
  <2>7. QED
    BY <2>5, <2>6
<1>2. QED
  BY <1>1, EstimatorRemembers, PTL
=============================================================================
