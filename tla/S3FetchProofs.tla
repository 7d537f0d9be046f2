---------------------------- MODULE S3FetchProofs ----------------------------
(***************************************************************************)
(* Proofs about S3Fetch, for every number of parts, buffers, tasks and     *)
(* addresses.  Liveness stays with TLC.                                    *)
(***************************************************************************)
EXTENDS S3Fetch, InductionFacts

---------------------------------------------------------------------------
(* Which part a request asks for *)

\* PartsOf is the running sum of the numbers of parts of the selected columns.
LEMMA PartsAdded ==
    /\ PartsOf(0) = 0
    /\ \A i \in 0..Len(Columns) : PartsOf(i) \in Nat
    /\ \A i \in 1..Len(Columns) :
          /\ NumParts[Columns[i]] \in Nat
          /\ PartsOf(i) = PartsOf(i - 1) + NumParts[Columns[i]]
  <1>. DEFINE N == Len(Columns)
  <1>1. N \in Nat
    BY ConfigAssumption
  <1>2. \A i \in 1..N : NumParts[Columns[i]] \in Nat
    BY ConfigAssumption
  <1>3. PICK v : v = [i \in 1..N |-> NumParts[Columns[i]]]
    OBVIOUS
  <1>4. v \in [1..N -> Nat]
    BY <1>2, <1>3
  <1>. HIDE DEF N
  <1>5. PICK s : RunningSum(v, N, s)
    BY <1>1, <1>4, RunningSumExists
  <1>6. ASSUME NEW n \in 0..N
        PROVE  PartsOf(n) = s[n]
    <2>. DEFINE f == CHOOSE h : h = [i \in 0..n |-> IF i = 0 THEN 0 ELSE h[i - 1] + NumParts[Columns[i]]]
    <2>1. PICK g : g = [i \in 0..n |-> s[i]]
      OBVIOUS
    <2>2. g = [i \in 0..n |-> IF i = 0 THEN 0 ELSE g[i - 1] + NumParts[Columns[i]]]
      <3>1. PICK h : h = [i \in 0..n |-> IF i = 0 THEN 0 ELSE g[i - 1] + NumParts[Columns[i]]]
        OBVIOUS
      <3>2. ASSUME NEW i \in 0..n
            PROVE  g[i] = h[i]
        <4>1. CASE i = 0
          BY <1>5, <2>1, <3>1, <4>1 DEF RunningSum
        <4>2. CASE i # 0
          <5>1. i \in 1..N /\ i - 1 \in 0..n
            BY <1>1, <4>2
          <5>2. s[i] = s[i - 1] + v[i]
            BY <1>5, <5>1 DEF RunningSum
          <5>. QED
            BY <1>3, <2>1, <3>1, <4>2, <5>1, <5>2
        <4>. QED
          BY <4>1, <4>2
      <3>. QED
        BY <2>1, <3>1, <3>2
    <2>3. f = [i \in 0..n |-> IF i = 0 THEN 0 ELSE f[i - 1] + NumParts[Columns[i]]]
      BY <2>2, Zenon
    <2>4. PartsOf(n) = f[n]
      BY Zenon DEF PartsOf
    <2>. HIDE DEF f
    <2>5. PICK S : S = {i \in 0..n : f[i] = s[i]}
      OBVIOUS
    <2>6. 0 \in S
      BY <1>5, <2>3, <2>5 DEF RunningSum
    <2>7. ASSUME NEW i \in 0..(n - 1), i \in S
          PROVE  i + 1 \in S
      <3>1. i + 1 \in 1..N /\ i + 1 \in 0..n /\ (i + 1) - 1 = i /\ i + 1 # 0
        BY <1>1
      <3>2. s[i + 1] = s[i] + v[i + 1]
        BY <1>5, <3>1 DEF RunningSum
      <3>3. f[i + 1] = f[i] + NumParts[Columns[i + 1]]
        BY <2>3, <3>1
      <3>. QED
        BY <1>3, <2>5, <2>7, <3>1, <3>2, <3>3
    <2>8. n \in Nat
      BY <1>1
    <2>9. 0..n \subseteq S
      BY <2>6, <2>7, <2>8, IntervalInduction
    <2>. QED
      BY <2>4, <2>5, <2>8, <2>9
  <1>7. \A i \in 1..N : i \in 0..N /\ i - 1 \in 0..N
    BY <1>1
  <1>8. PartsOf(0) = 0 /\ \A i \in 0..N : PartsOf(i) \in Nat
    BY <1>1, <1>5, <1>6 DEF RunningSum
  <1>9. \A i \in 1..N : PartsOf(i) = PartsOf(i - 1) + NumParts[Columns[i]]
    BY <1>3, <1>5, <1>6, <1>7 DEF RunningSum
  <1>. QED
    BY <1>2, <1>8, <1>9 DEF N

LEMMA PartsGrow ==
    ASSUME NEW i \in 0..Len(Columns), NEW j \in 0..Len(Columns), i <= j
    PROVE  PartsOf(i) <= PartsOf(j)
  <1>1. PICK N : N = Len(Columns)
    OBVIOUS
  <1>2. N \in Nat
    BY <1>1, ConfigAssumption
  <1>3. PICK S : S = {k \in 0..N : \A h \in 0..k : PartsOf(h) <= PartsOf(k)}
    OBVIOUS
  <1>4. 0 \in S
    BY <1>2, <1>3, PartsAdded
  <1>5. ASSUME NEW k \in 0..(N - 1), k \in S
        PROVE  k + 1 \in S
    <2>1. k + 1 \in 1..N /\ (k + 1) - 1 = k
      BY <1>2
    <2>2. PartsOf(k + 1) = PartsOf(k) + NumParts[Columns[k + 1]]
          /\ NumParts[Columns[k + 1]] \in Nat
      BY <1>1, <2>1, PartsAdded
    <2>3. \A h \in 0..N : PartsOf(h) \in Nat
      BY <1>1, PartsAdded
    <2>4. PartsOf(k) <= PartsOf(k + 1)
      BY <1>2, <2>2, <2>3
    <2>5. ASSUME NEW h \in 0..(k + 1)
          PROVE  PartsOf(h) <= PartsOf(k + 1)
      <3>1. CASE h = k + 1
        <4>1. PartsOf(k + 1) \in Nat
          BY <1>2, <2>1, <2>3
        <4>. QED
          BY <3>1, <4>1
      <3>2. CASE h \in 0..k
        <4>1. PartsOf(h) <= PartsOf(k)
          BY <1>3, <1>5, <3>2
        <4>2. h \in 0..N /\ k \in 0..N /\ k + 1 \in 0..N
          BY <1>2
        <4>3. PartsOf(h) \in Nat /\ PartsOf(k) \in Nat /\ PartsOf(k + 1) \in Nat
          BY <2>3, <4>2
        <4>. QED
          BY <2>4, <4>1, <4>3
      <3>. QED
        BY <1>2, <3>1, <3>2
    <2>. QED
      BY <1>2, <1>3, <2>1, <2>5
  <1>6. 0..N \subseteq S
    BY <1>2, <1>4, <1>5, IntervalInduction
  <1>. QED
    BY <1>1, <1>2, <1>3, <1>6

LEMMA TotalPartsType == TotalParts \in Nat
  BY ConfigAssumption, PartsAdded DEF TotalParts

\* The parts of a column lie between those of the columns before and behind it.
LEMMA SlotFacts ==
    ASSUME NEW i \in 1..Len(Columns), NEW p \in 0..(NumParts[Columns[i]] - 1)
    PROVE  /\ PartsOf(i - 1) \in Nat /\ PartsOf(i) \in Nat
           /\ PartsOf(i - 1) <= PartsOf(i - 1) + p
           /\ PartsOf(i - 1) + p < PartsOf(i)
           /\ PartsOf(i - 1) + p \in 0..(TotalParts - 1)
  <1>1. PICK N : N = Len(Columns)
    OBVIOUS
  <1>2. N \in Nat
    BY <1>1, ConfigAssumption
  <1>3. i - 1 \in 0..N /\ i \in 0..N /\ N \in 0..N /\ i <= N
    BY <1>1, <1>2
  <1>4. PartsOf(i - 1) \in Nat /\ PartsOf(i) \in Nat /\ PartsOf(N) \in Nat
    BY <1>1, <1>3, PartsAdded
  <1>5. PartsOf(i) = PartsOf(i - 1) + NumParts[Columns[i]] /\ NumParts[Columns[i]] \in Nat
    BY PartsAdded
  <1>6. PartsOf(i) <= PartsOf(N)
    BY <1>1, <1>3, PartsGrow
  <1>7. TotalParts = PartsOf(N)
    BY <1>1 DEF TotalParts
  <1>. QED
    BY <1>4, <1>5, <1>6, <1>7, SMTT(30)

LEMMA SlotUnique ==
    ASSUME NEW i \in 1..Len(Columns), NEW k \in 1..Len(Columns), NEW j \in Nat,
           PartsOf(i - 1) <= j, j < PartsOf(i), PartsOf(k - 1) <= j, j < PartsOf(k)
    PROVE  i = k
  <1>1. PICK N : N = Len(Columns)
    OBVIOUS
  <1>2. N \in Nat /\ i \in 1..N /\ k \in 1..N
    BY <1>1, ConfigAssumption
  <1>3. i - 1 \in 0..N /\ i \in 0..N /\ k - 1 \in 0..N /\ k \in 0..N
    BY <1>2
  <1>4. /\ PartsOf(i - 1) \in Nat /\ PartsOf(i) \in Nat
        /\ PartsOf(k - 1) \in Nat /\ PartsOf(k) \in Nat
    BY <1>1, <1>3, PartsAdded
  <1>5. ~(i < k)
    <2>1. i < k => i <= k - 1
      BY <1>2
    <2>2. i < k => PartsOf(i) <= PartsOf(k - 1)
      BY <1>1, <1>3, <2>1, PartsGrow
    <2>. QED
      BY <1>4, <2>2
  <1>6. ~(k < i)
    <2>1. k < i => k <= i - 1
      BY <1>2
    <2>2. k < i => PartsOf(k) <= PartsOf(i - 1)
      BY <1>1, <1>3, <2>1, PartsGrow
    <2>. QED
      BY <1>4, <2>2
  <1>. QED
    BY <1>2, <1>5, <1>6

\* Every number below TotalParts belongs to some column.
LEMMA SlotExists ==
    ASSUME NEW j \in 0..(TotalParts - 1)
    PROVE  \E i \in 1..Len(Columns) : PartsOf(i - 1) <= j /\ j < PartsOf(i)
  <1>1. PICK N : N = Len(Columns)
    OBVIOUS
  <1>2. N \in Nat
    BY <1>1, ConfigAssumption
  <1>3. TotalParts = PartsOf(N) /\ \A i \in 0..N : PartsOf(i) \in Nat
    BY <1>1, PartsAdded DEF TotalParts
  <1>4. PICK T : T = {i \in 0..N : j < PartsOf(i)}
    OBVIOUS
  <1>5. N \in T /\ T \subseteq Nat
    BY <1>2, <1>3, <1>4
  <1>6. PICK i \in T : \A k \in T : i <= k
    BY <1>5, LeastNumber, Zenon
  <1>7. i # 0
    BY <1>4, PartsAdded
  <1>8. i \in 1..N /\ i - 1 \in 0..N
    BY <1>2, <1>4, <1>7
  <1>9. i - 1 \notin T
    BY <1>6, <1>8
  <1>10. PartsOf(i - 1) <= j
    BY <1>3, <1>4, <1>8, <1>9
  <1>. QED
    BY <1>1, <1>4, <1>8, <1>10

\* Where in the sequence of requests part p of the i-th selected column is, in the q-th
\* repetition (all three counted on from the first).
RequestOf(q, i, p) == q * TotalParts + (PartsOf(i - 1) + p) + 1

LEMMA KeyOfRequest ==
    ASSUME NEW q \in 0..(Reps - 1), NEW i \in 1..Len(Columns),
           NEW p \in 0..(NumParts[Columns[i]] - 1)
    PROVE  /\ RequestOf(q, i, p) \in Requests
           /\ KeyOf(RequestOf(q, i, p)) = <<Columns[i], p>>
  <1>1. PICK j : j = PartsOf(i - 1) + p
    OBVIOUS
  <1>2. PICK b : b = TotalParts
    OBVIOUS
  <1>3. /\ j \in 0..(b - 1) /\ b \in Nat \ {0} /\ q \in Nat /\ Reps \in Nat /\ q < Reps
        /\ PartsOf(i - 1) \in Nat /\ p \in Nat
        /\ PartsOf(i - 1) <= j /\ j < PartsOf(i)
    BY <1>1, <1>2, SlotFacts, TotalPartsType, ConfigAssumption, SMTT(30)
  <1>4. q * b \in Nat /\ Reps * b \in Nat
    BY <1>3
  <1>5. PICK r : r = q * b + j + 1
    OBVIOUS
  <1>6. RequestOf(q, i, p) = r
    BY <1>1, <1>2, <1>5 DEF RequestOf
  <1>7. q * b + j < Reps * b
    BY <1>3, SmallerQuotient
  <1>8. r \in Requests
    BY <1>2, <1>3, <1>4, <1>5, <1>7 DEF Requests
  <1>9. r - 1 = q * b + j
    BY <1>3, <1>4, <1>5
  <1>10. (r - 1) % TotalParts = j
    <2>1. (q * b + j) % b = j
      BY <1>3, Quotient
    <2>. QED
      BY <1>2, <1>9, <2>1, Zenon
  <1>11. (CHOOSE k \in 1..Len(Columns) : PartsOf(k - 1) <= j /\ j < PartsOf(k)) = i
    <2>1. \E k \in 1..Len(Columns) : PartsOf(k - 1) <= j /\ j < PartsOf(k)
      BY <1>3
    <2>2. PICK k : k = CHOOSE h \in 1..Len(Columns) : PartsOf(h - 1) <= j /\ j < PartsOf(h)
      OBVIOUS
    <2>3. k \in 1..Len(Columns) /\ PartsOf(k - 1) <= j /\ j < PartsOf(k)
      BY <2>1, <2>2, Zenon
    <2>4. k = i
      BY <1>3, <2>3, SlotUnique
    <2>. QED
      BY <2>2, <2>4
  <1>12. KeyOf(r) = <<Columns[i], j - PartsOf(i - 1)>>
    BY <1>10, <1>11 DEF KeyOf
  <1>13. j - PartsOf(i - 1) = p
    BY <1>1, <1>3
  <1>. QED
    BY <1>6, <1>8, <1>12, <1>13

LEMMA RequestIsOf ==
    ASSUME NEW r \in Requests
    PROVE  \E q \in 0..(Reps - 1) : \E i \in 1..Len(Columns) :
              \E p \in 0..(NumParts[Columns[i]] - 1) : r = RequestOf(q, i, p)
  <1>1. PICK b : b = TotalParts
    OBVIOUS
  <1>2. b \in Nat /\ Reps \in Nat
    BY <1>1, TotalPartsType, ConfigAssumption
  <1>3. r \in 1..(Reps * b)
    BY <1>1 DEF Requests
  <1>4. b # 0
    <2>1. b = 0 => Reps * b = 0
      BY <1>2
    <2>. QED
      BY <1>3, <2>1
  <1>5. r - 1 \in Nat /\ r \in Nat
    BY <1>3
  <1>6. PICK q \in Nat, j \in 0..(b - 1) : r - 1 = q * b + j
    BY <1>2, <1>4, <1>5, Division
  <1>7. q * b \in Nat /\ Reps * b \in Nat
    BY <1>2
  <1>8. q * b + j < Reps * b
    BY <1>2, <1>3, <1>5, <1>6, <1>7
  <1>9. q < Reps
    BY <1>2, <1>4, <1>8, SmallerQuotient
  <1>10. PICK i \in 1..Len(Columns) : PartsOf(i - 1) <= j /\ j < PartsOf(i)
    BY <1>1, SlotExists
  <1>11. i - 1 \in 0..Len(Columns)
    BY ConfigAssumption
  <1>12. /\ PartsOf(i - 1) \in Nat /\ NumParts[Columns[i]] \in Nat
         /\ PartsOf(i) = PartsOf(i - 1) + NumParts[Columns[i]]
    BY <1>11, PartsAdded
  <1>13. j - PartsOf(i - 1) \in 0..(NumParts[Columns[i]] - 1)
    BY <1>10, <1>12
  <1>14. PartsOf(i - 1) + (j - PartsOf(i - 1)) = j
    BY <1>12
  <1>15. r = q * b + j + 1
    BY <1>2, <1>5, <1>6, <1>7
  <1>16. r = RequestOf(q, i, j - PartsOf(i - 1))
    BY <1>1, <1>14, <1>15 DEF RequestOf
  <1>17. q \in 0..(Reps - 1)
    BY <1>2, <1>9
  <1>. QED
    BY <1>13, <1>16, <1>17

LEMMA RequestsDiffer ==
    ASSUME NEW q \in Nat, NEW h \in Nat, NEW i \in 1..Len(Columns), NEW k \in 1..Len(Columns),
           NEW p \in Nat, p < NumParts[Columns[i]], p < NumParts[Columns[k]],
           RequestOf(q, i, p) = RequestOf(h, k, p)
    PROVE  q = h /\ i = k
  <1>1. NumParts[Columns[i]] \in Nat /\ NumParts[Columns[k]] \in Nat
    BY PartsAdded
  <1>2. p \in 0..(NumParts[Columns[i]] - 1) /\ p \in 0..(NumParts[Columns[k]] - 1)
    BY <1>1
  <1>3. PICK b : b = TotalParts
    OBVIOUS
  <1>4. PICK x : x = PartsOf(i - 1) + p
    OBVIOUS
  <1>5. PICK y : y = PartsOf(k - 1) + p
    OBVIOUS
  <1>6. x \in 0..(b - 1) /\ PartsOf(i - 1) <= x /\ x < PartsOf(i)
    BY <1>2, <1>3, <1>4, SlotFacts
  <1>7. y \in 0..(b - 1) /\ PartsOf(k - 1) <= y /\ y < PartsOf(k)
    BY <1>2, <1>3, <1>5, SlotFacts
  <1>8. b \in Nat \ {0}
    BY <1>3, <1>6, TotalPartsType
  <1>9. q * b \in Nat /\ h * b \in Nat
    BY <1>8
  <1>10. q * b + x = h * b + y
    <2>1. PICK m : m = q * b
      OBVIOUS
    <2>2. PICK n : n = h * b
      OBVIOUS
    <2>3. x \in Nat /\ y \in Nat /\ m \in Nat /\ n \in Nat
      BY <1>6, <1>7, <1>8, <1>9, <2>1, <2>2
    <2>4. m + x + 1 = n + y + 1
      BY <1>3, <1>4, <1>5, <2>1, <2>2 DEF RequestOf
    <2>5. m + x = n + y
      BY <2>3, <2>4
    <2>. QED
      BY <2>1, <2>2, <2>5
  <1>11. q = h /\ x = y
    <2>1. x \in 0..(b - 1) /\ y \in 0..(b - 1) /\ b \in Nat \ {0}
      BY <1>6, <1>7, <1>8
    <2>2. /\ q * b + x = h * b + y => q = h
          /\ q * b + x = h * b + y => x = y
      BY <2>1, DivisionUnique
    <2>. QED
      BY <1>10, <2>2
  <1>12. x \in Nat
    BY <1>6, <1>8
  <1>. QED
    BY <1>6, <1>7, <1>11, <1>12, SlotUnique

\* Each selected part is asked for Reps times for each time its column was selected.
LEMMA RequestsOfPart ==
    ASSUME NEW i \in 1..Len(Columns), NEW p \in 0..(NumParts[Columns[i]] - 1)
    PROVE  Cardinality({r \in Requests : KeyOf(r) = <<Columns[i], p>>})
             = Reps * Cardinality({j \in 1..Len(Columns) : Columns[j] = Columns[i]})
  <1>1. PICK J : J = {j \in 1..Len(Columns) : Columns[j] = Columns[i]}
    OBVIOUS
  <1>2. PICK Q : Q = 0..(Reps - 1)
    OBVIOUS
  <1>3. PICK R : R = {r \in Requests : KeyOf(r) = <<Columns[i], p>>}
    OBVIOUS
  <1>4. IsFiniteSet(J)
    <2>1. IsFiniteSet(1..Len(Columns))
      BY ConfigAssumption, FS_Interval
    <2>. QED
      BY <1>1, <2>1, FS_Subset
  <1>5. Reps \in Nat
    BY ConfigAssumption
  <1>6. IsFiniteSet(Q) /\ Cardinality(Q) = Reps
    BY <1>2, <1>5, FS_Interval
  <1>7. IsFiniteSet(Q \X J) /\ Cardinality(Q \X J) = Reps * Cardinality(J)
    BY <1>4, <1>6, FS_Product
  <1>8. PICK f : f = [z \in Q \X J |-> RequestOf(z[1], z[2], p)]
    OBVIOUS
  <1>9. p \in Nat /\ p < NumParts[Columns[i]]
    BY PartsAdded
  <1>10. ASSUME NEW z \in Q \X J
         PROVE  f[z] \in R
    <2>1. z[1] \in 0..(Reps - 1) /\ z[2] \in 1..Len(Columns) /\ Columns[z[2]] = Columns[i]
      BY <1>1, <1>2
    <2>2. p \in 0..(NumParts[Columns[z[2]]] - 1)
      BY <2>1
    <2>3. /\ RequestOf(z[1], z[2], p) \in Requests
          /\ KeyOf(RequestOf(z[1], z[2], p)) = <<Columns[i], p>>
      BY <2>1, <2>2, KeyOfRequest
    <2>. QED
      BY <1>3, <1>8, <2>3
  <1>11. ASSUME NEW y \in Q \X J, NEW z \in Q \X J, f[y] = f[z]
         PROVE  y = z
    <2>1. /\ y[1] \in Nat /\ y[2] \in 1..Len(Columns) /\ Columns[y[2]] = Columns[i]
          /\ z[1] \in Nat /\ z[2] \in 1..Len(Columns) /\ Columns[z[2]] = Columns[i]
      BY <1>1, <1>2, <1>5
    <2>2. RequestOf(y[1], y[2], p) = RequestOf(z[1], z[2], p)
      BY <1>8, <1>11
    <2>3. y[1] = z[1] /\ y[2] = z[2]
      <3>1. PICK q : q = y[1]
        OBVIOUS
      <3>2. PICK h : h = z[1]
        OBVIOUS
      <3>3. PICK j : j = y[2]
        OBVIOUS
      <3>4. PICK k : k = z[2]
        OBVIOUS
      <3>5. p < NumParts[Columns[j]] /\ p < NumParts[Columns[k]]
        BY <1>9, <2>1, <3>3, <3>4
      <3>6. q = h /\ j = k
        <4>1. /\ q \in Nat /\ h \in Nat /\ j \in 1..Len(Columns) /\ k \in 1..Len(Columns)
              /\ p \in Nat /\ RequestOf(q, j, p) = RequestOf(h, k, p)
          BY <1>9, <2>1, <2>2, <3>1, <3>2, <3>3, <3>4
        <4>. QED
          BY <3>5, <4>1, RequestsDiffer, Zenon
      <3>. QED
        BY <3>1, <3>2, <3>3, <3>4, <3>6
    <2>. QED
      BY <2>3
  <1>12. ASSUME NEW r \in R
         PROVE  \E z \in Q \X J : f[z] = r
    <2>1. r \in Requests /\ KeyOf(r) = <<Columns[i], p>>
      BY <1>3
    <2>2. PICK q \in 0..(Reps - 1), k \in 1..Len(Columns) :
             \E e \in 0..(NumParts[Columns[k]] - 1) : r = RequestOf(q, k, e)
      BY <2>1, RequestIsOf
    <2>3. PICK e \in 0..(NumParts[Columns[k]] - 1) : r = RequestOf(q, k, e)
      BY <2>2
    <2>4. KeyOf(r) = <<Columns[k], e>>
      BY <2>3, KeyOfRequest
    <2>5. Columns[k] = Columns[i] /\ e = p
      BY <2>1, <2>4
    <2>6. <<q, k>> \in Q \X J
      BY <1>1, <1>2, <2>2, <2>5
    <2>. QED
      BY <1>8, <2>3, <2>5, <2>6
  <1>13. f \in Bijection(Q \X J, R)
    <2>1. f \in [Q \X J -> R]
      BY <1>8, <1>10
    <2>2. f \in Injection(Q \X J, R)
      BY <1>11, <2>1 DEF Injection, IsInjective
    <2>3. f \in Surjection(Q \X J, R)
      BY <1>12, <2>1 DEF Surjection
    <2>. QED
      BY <2>2, <2>3 DEF Bijection
  <1>14. Cardinality(R) = Cardinality(Q \X J)
    BY <1>7, <1>13, FS_Bijection DEF ExistsBijection
  <1>. QED
    BY <1>1, <1>3, <1>7, <1>14

---------------------------------------------------------------------------
(* Types *)

NumRequests == Reps * TotalParts

RequestPcs == {"unsent", "asked", "asleep", "taken", "streaming", "received", "returned", "gone"}
TaskPcs == {"queued", "reading", "renewing", "releasing", "notifying", "counting", "waking", "done"}
RequestType == [pc : RequestPcs, buffer : Buffers \cup {None},
                address : Addresses \cup {None}, object : Nat]
TaskType == [pc : TaskPcs, buffer : Buffers]

LEMMA RequestsFinite ==
    /\ NumRequests \in Nat
    /\ Requests = 1..NumRequests
    /\ IsFiniteSet(Requests) /\ Cardinality(Requests) = NumRequests
  <1>1. NumRequests \in Nat
    BY ConfigAssumption, TotalPartsType DEF NumRequests
  <1>2. Requests = 1..NumRequests
    BY DEF Requests, NumRequests
  <1>. QED
    BY <1>1, <1>2, FS_Interval

LEMMA AfterTyped ==
    /\ After("reading") = "renewing" /\ After("renewing") = "releasing"
    /\ After("releasing") = "notifying" /\ After("notifying") = "counting"
    /\ Steps[1] = "reading"
  <1>1. /\ Steps[1] = "reading" /\ Steps[2] = "renewing" /\ Steps[3] = "releasing"
        /\ Steps[4] = "notifying" /\ Steps[5] = "counting"
    BY DEF Steps
  <1>2. 1..4 = {1, 2, 3, 4}
    OBVIOUS
  <1>. QED
    BY <1>1, <1>2 DEF After

---------------------------------------------------------------------------
(* The inductive invariant *)

\* What is known of a request by where it is.
Taking(r) == request[r].pc \in {"taken", "streaming", "received"}
Using(k) == task[k].pc \in {"queued", "reading", "renewing", "releasing"}
Reading(k) == task[k].pc \in {"queued", "reading"}
Back(r) == request[r].pc \in {"returned", "gone"}
Tasks == 1..Len(task)
Queued == 1..Len(available)

RequestsOK ==
    \A r \in Requests :
        /\ r > next_index => request[r].pc = "unsent"
        /\ Taking(r) \/ Live(r) => request[r].buffer \in Buffers
        /\ Live(r) => request[r].address \in Addresses

\* The map leads every stream back to its buffer: no two streams have one address.
AddressesOK ==
    \A r \in Requests : Live(r) =>
        /\ occupied_map[request[r].address] = request[r].buffer
        /\ \A q \in Requests : Live(q) /\ request[q].address = request[r].address => q = r

\* BufferHasOneUser without counting: never at two places, never at none.
QueueOK ==
    /\ \A i, j \in Queued : available[i] = available[j] => i = j
    /\ \A i \in Queued : \A r \in Requests : Taking(r) => available[i] # request[r].buffer
    /\ \A i \in Queued : \A k \in Tasks : Using(k) => available[i] # task[k].buffer
TakersOK ==
    \A r \in Requests : Taking(r) =>
        /\ \A q \in Requests : Taking(q) /\ request[q].buffer = request[r].buffer => q = r
        /\ \A k \in Tasks : Using(k) => task[k].buffer # request[r].buffer
UsersOK ==
    \A k, l \in Tasks : Using(k) /\ Using(l) /\ task[k].buffer = task[l].buffer => k = l
NoneLost ==
    \A b \in Buffers :
        \/ \E i \in Queued : available[i] = b
        \/ \E r \in Requests : Taking(r) /\ request[r].buffer = b
        \/ \E k \in Tasks : Using(k) /\ task[k].buffer = b

\* The bytes of a request that has come back are in the buffer of a task that will
\* read them, or have been decompressed.
ContentOK ==
    /\ \A r \in Requests :
         /\ request[r].pc = "received" => content[request[r].buffer] = r
         /\ ~Back(r) => decompressed[r] = 0
         /\ Back(r) => \/ decompressed[r] = 1
                       \/ \E k \in Tasks : Reading(k) /\ content[task[k].buffer] = r
    /\ \A k \in Tasks : Reading(k) =>
         LET r == content[task[k].buffer] IN r \in Requests /\ Back(r) /\ decompressed[r] = 0
    /\ \A k, l \in Tasks :
         Reading(k) /\ Reading(l) /\ content[task[k].buffer] = content[task[l].buffer] => k = l

\* A stream has the current streambuf of its buffer until a task renews it.
StreambufsOK ==
    \A r \in Requests :
        /\ request[r].pc \in {"streaming", "received"} =>
             request[r].object = streambuf[request[r].buffer]
        /\ request[r].pc = "returned" =>
             /\ request[r].object <= streambuf[request[r].buffer]
             /\ request[r].object = streambuf[request[r].buffer] =>
                  \E k \in Tasks : Using(k) /\ task[k].pc # "releasing"
                                   /\ task[k].buffer = request[r].buffer

\* Every request that has come back made a task, and remaining counts those that have
\* not ended.
Returned == {r \in Requests : Back(r)}
Counted == {k \in Tasks : task[k].pc \in {"waking", "done"}}
CountsOK ==
    /\ Len(task) = Cardinality(Returned)
    /\ remaining = NumRequests - Cardinality(Counted)
    /\ \A k \in Tasks : k > started <=> task[k].pc = "queued"

\* Once main has left its wait nothing comes any more, and then nothing runs.
MainOK ==
    /\ main \in {"draining", "freeing", "finished"} => remaining = 0
    /\ main \in {"freeing", "finished"} => \A k \in Tasks : task[k].pc = "done"
    /\ IF main = "finished" THEN deleted = {<<b, streambuf[b]>> : b \in Buffers} ELSE deleted = {}

BuffersOK == QueueOK /\ TakersOK /\ UsersOK /\ NoneLost
IInv ==
    /\ TypeOK /\ RequestsOK /\ AddressesOK /\ BuffersOK /\ ContentOK
    /\ StreambufsOK /\ CountsOK /\ MainOK

---------------------------------------------------------------------------
(* What the invariant says about types and numbers *)

LEMMA Typed ==
    ASSUME TypeOK
    PROVE  /\ request \in [Requests -> RequestType]
           /\ task \in Seq(TaskType)
           /\ available \in Seq(Buffers)
           /\ Len(task) \in Nat /\ Len(available) \in Nat
           /\ \A k \in Tasks : task[k] \in TaskType
           /\ \A i \in Queued : available[i] \in Buffers
           /\ next_index \in 0..NumRequests /\ remaining \in 0..NumRequests
  <1>1. request \in [Requests -> RequestType] /\ task \in Seq(TaskType)
    BY DEF TypeOK, RequestType, RequestPcs, TaskType, TaskPcs
  <1>2. available \in Seq(Buffers)
    BY DEF TypeOK
  <1>3. next_index \in 0..NumRequests /\ remaining \in 0..NumRequests
    BY RequestsFinite DEF TypeOK
  <1>. QED
    BY <1>1, <1>2, <1>3 DEF Tasks, Queued

LEMMA Counting ==
    ASSUME TypeOK, CountsOK
    PROVE  /\ IsFiniteSet(Returned) /\ IsFiniteSet(Counted)
           /\ Cardinality(Returned) \in Nat /\ Cardinality(Counted) \in Nat
           /\ Cardinality(Counted) <= Len(task) /\ Len(task) <= NumRequests
           /\ remaining = 0 => Counted = Tasks /\ Returned = Requests
  <1>1. /\ IsFiniteSet(Returned) /\ Cardinality(Returned) <= NumRequests
        /\ Cardinality(Returned) = NumRequests => Returned = Requests
    BY RequestsFinite, FS_Subset DEF Returned
  <1>2. IsFiniteSet(Tasks) /\ Cardinality(Tasks) = Len(task) /\ Len(task) \in Nat
    <2>1. Len(task) \in Nat
      BY Typed
    <2>2. /\ IsFiniteSet(1..Len(task))
          /\ Cardinality(1..Len(task)) = IF 1 > Len(task) THEN 0 ELSE Len(task) - 1 + 1
      BY <2>1, FS_Interval
    <2>. QED
      BY <2>1, <2>2 DEF Tasks
  <1>3. /\ IsFiniteSet(Counted) /\ Cardinality(Counted) <= Len(task)
        /\ Cardinality(Counted) = Len(task) => Counted = Tasks
    BY <1>2, FS_Subset DEF Counted
  <1>4. Cardinality(Returned) \in Nat /\ Cardinality(Counted) \in Nat
    BY <1>1, <1>3, FS_CardinalityType
  <1>. QED
    BY <1>1, <1>2, <1>3, <1>4, RequestsFinite DEF CountsOK

---------------------------------------------------------------------------
(* Steps *)

LEMMA InitInv == Init => IInv
  <1>. SUFFICES ASSUME Init PROVE IInv
    OBVIOUS
  <1>1. task = <<>> /\ Len(task) = 0 /\ Tasks = {} /\ Counted = {}
    BY DEF Init, Tasks, Counted
  <1>2. Returned = {} /\ \A r \in Requests : request[r].pc = "unsent"
    BY DEF Init, Returned, Back
  <1>3. available \in Seq(Buffers) /\ Len(available) = NumBuffers
        /\ \A b \in Buffers : available[b] = b
    BY ConfigAssumption DEF Init, Buffers
  <1>4. TypeOK
    <2>1. request \in [Requests -> RequestType]
      BY DEF Init, RequestType, RequestPcs, None
    <2>2. /\ streambuf \in [Buffers -> Nat \ {0}] /\ deleted \subseteq Buffers \X (Nat \ {0})
          /\ occupied_map \in [Addresses -> Buffers \cup {None}]
          /\ content \in [Buffers -> Requests \cup {None}] /\ decompressed \in [Requests -> Nat]
      BY DEF Init
    <2>3. task \in Seq(TaskType) /\ started \in 0..Len(task)
      BY <1>1 DEF Init
    <2>4. main = "requesting" /\ crashed \in BOOLEAN
      BY Zenon DEF Init
    <2>5. next_index \in 0..Cardinality(Requests) /\ remaining \in 0..Cardinality(Requests)
      BY RequestsFinite DEF Init
    <2>6. main \in {"requesting", "awake", "asleep", "draining", "freeing", "finished"}
      BY DEF Init
    <2>. QED
      BY <1>3, <2>1, <2>2, <2>3, <2>4, <2>5, <2>6, Zenon DEF TypeOK, RequestType, RequestPcs, TaskType, TaskPcs
  <1>5. RequestsOK /\ AddressesOK /\ ContentOK /\ StreambufsOK
    BY <1>1, <1>2 DEF Init, RequestsOK, AddressesOK, ContentOK, StreambufsOK, Taking, Live, Back
  <1>6. BuffersOK
    BY <1>1, <1>2, <1>3 DEF BuffersOK, QueueOK, TakersOK, UsersOK, NoneLost, Queued, Buffers, Taking
  <1>7. CountsOK
    BY <1>1, <1>2, FS_EmptySet, RequestsFinite DEF CountsOK, Init
  <1>8. MainOK
    BY DEF MainOK, Init
  <1>. QED
    BY <1>4, <1>5, <1>6, <1>7, <1>8 DEF IInv

\* One request changes, one task changes.
Only(r) == request' \in [Requests -> RequestType] /\ \A q \in Requests : q # r => request'[q] = request[q]
OnlyTask(k) ==
    /\ task' \in Seq(TaskType) /\ Len(task') = Len(task)
    /\ task'[k].buffer = task[k].buffer
    /\ \A l \in Tasks : l # k => task'[l] = task[l]

\* Requests that have no buffer yet and tasks that have none any more.
Idle == {"unsent", "asked", "asleep"}
Ending == {"notifying", "counting", "waking", "done"}
QuietRequests ==
    \A r \in Requests : request'[r] = request[r] \/ (request[r].pc \in Idle /\ request'[r].pc \in Idle)
QuietTasks ==
    /\ Len(task') = Len(task)
    /\ \A k \in Tasks : task'[k] = task[k] \/ (task[k].pc \in Ending /\ task'[k].pc \in Ending)

LEMMA Quiet ==
    ASSUME IInv, QuietRequests, QuietTasks,
           UNCHANGED <<available, occupied_map, streambuf, content, decompressed>>
    PROVE  AddressesOK' /\ BuffersOK' /\ ContentOK' /\ StreambufsOK' /\ Returned' = Returned
  <1>1. AddressesOK /\ BuffersOK /\ ContentOK /\ StreambufsOK
    BY DEF IInv
  <1>2. Tasks' = Tasks
    BY DEF QuietTasks, Tasks
  <1>3. AddressesOK'
    BY <1>1 DEF AddressesOK, Live, QuietRequests, Idle
  <1>4. BuffersOK'
    <2>1. QueueOK'
      BY <1>1, <1>2 DEF BuffersOK, QueueOK, Queued, Taking, Using, QuietRequests, QuietTasks, Idle, Ending
    <2>2. TakersOK' /\ UsersOK'
      BY <1>1, <1>2 DEF BuffersOK, TakersOK, UsersOK, Taking, Using, QuietRequests, QuietTasks, Idle, Ending
    <2>3. NoneLost'
      BY <1>1, <1>2 DEF BuffersOK, NoneLost, Queued, Taking, Using, QuietRequests, QuietTasks, Idle, Ending
    <2>. QED
      BY <2>1, <2>2, <2>3 DEF BuffersOK
  <1>5. ContentOK'
    BY <1>1, <1>2, SMTT(30) DEF ContentOK, Back, Reading, QuietRequests, QuietTasks, Idle, Ending
  <1>6. StreambufsOK'
    BY <1>1, <1>2 DEF StreambufsOK, Using, QuietRequests, QuietTasks, Idle, Ending
  <1>7. Returned' = Returned
    BY DEF Returned, Back, QuietRequests, Idle
  <1>. QED
    BY <1>3, <1>4, <1>5, <1>6, <1>7

---------------------------------------------------------------------------
(* The steps of main *)

LEMMA RequestFileInv ==
    ASSUME IInv, RequestFile, crashed' = crashed
    PROVE  IInv'
  <1>. DEFINE r == next_index + 1
  <1>1. TypeOK /\ RequestsOK /\ CountsOK /\ MainOK
    BY DEF IInv
  <1>2. r \in Requests /\ request[r].pc = "unsent"
    BY <1>1, RequestsFinite, Typed DEF RequestFile, MoreToSend, RequestsOK
  <1>3. Only(r) /\ request'[r].pc = "asked"
    BY <1>1, <1>2, Typed DEF RequestFile, Only, RequestType, RequestPcs
  <1>4. UNCHANGED <<main, available, occupied_map, streambuf, deleted, content, task, started,
                    remaining, decompressed>> /\ next_index' = r
    BY DEF RequestFile
  <1>5. AddressesOK' /\ BuffersOK' /\ ContentOK' /\ StreambufsOK' /\ Returned' = Returned
    BY <1>2, <1>3, <1>4, Quiet DEF QuietRequests, QuietTasks, Only, Idle
  <1>6. TypeOK'
    <2>1. next_index' \in 0..Cardinality(Requests)
      BY <1>1, <1>2, <1>4, Typed, RequestsFinite
    <2>2. request' \in [Requests -> RequestType]
      BY <1>3 DEF Only
    <2>. QED
      BY <1>1, <1>4, <2>1, <2>2, Zenon DEF TypeOK, RequestType, RequestPcs
  <1>7. RequestsOK'
    BY <1>1, <1>2, <1>3, <1>4, Typed, RequestsFinite, SMTT(30) DEF RequestsOK, Taking, Live, Only
  <1>8. CountsOK' /\ MainOK'
    BY <1>1, <1>4, <1>5 DEF CountsOK, MainOK, Counted, Tasks
  <1>. QED
    BY <1>5, <1>6, <1>7, <1>8 DEF IInv

\* Main goes on and nothing else changes.
LEMMA MainGoesOn ==
    ASSUME IInv, (AllSent \/ WaitForEnd \/ WaitForAll \/ FreeBuffers), crashed' = crashed
    PROVE  IInv'
  <1>1. TypeOK /\ RequestsOK /\ CountsOK /\ MainOK
    BY DEF IInv
  <1>2. UNCHANGED <<next_index, request, available, occupied_map, streambuf, content, task, started,
                    remaining, decompressed>>
    BY DEF AllSent, WaitForEnd, WaitForAll, FreeBuffers
  <1>3. AddressesOK' /\ BuffersOK' /\ ContentOK' /\ StreambufsOK' /\ Returned' = Returned
    BY <1>2, Quiet DEF QuietRequests, QuietTasks
  <1>4. TypeOK'
    <2>1. main' \in {"requesting", "awake", "asleep", "draining", "freeing", "finished"}
      BY DEF AllSent, WaitForEnd, WaitForAll, FreeBuffers
    <2>2. deleted' \subseteq Buffers \X (Nat \ {0})
      BY <1>1 DEF TypeOK, AllSent, WaitForEnd, WaitForAll, FreeBuffers
    <2>. QED
      BY <1>1, <1>2, <2>1, <2>2, Zenon DEF TypeOK
  <1>5. RequestsOK' /\ CountsOK'
    BY <1>1, <1>2, <1>3 DEF RequestsOK, CountsOK, Taking, Live, Counted, Tasks
  <1>6. MainOK'
    <2>1. CASE AllSent \/ WaitForEnd
      BY <1>1, <1>2, <2>1 DEF AllSent, WaitForEnd, MayLeaveWait, MainOK, Tasks
    <2>2. CASE WaitForAll
      BY <1>1, <1>2, <2>2 DEF WaitForAll, GraphIdle, MainOK, Tasks
    <2>3. CASE FreeBuffers
      BY <1>1, <1>2, <2>3 DEF FreeBuffers, MainOK, Tasks
    <2>. QED
      BY <2>1, <2>2, <2>3
  <1>. QED
    BY <1>3, <1>4, <1>5, <1>6 DEF IInv

---------------------------------------------------------------------------
(* The steps of the client *)

LEMMA WaitForBuffer ==
    ASSUME IInv, NEW r \in Requests, TakeBuffer(r), available = <<>>, crashed' = crashed
    PROVE  IInv'
  <1>1. TypeOK /\ RequestsOK /\ CountsOK /\ MainOK
    BY DEF IInv
  <1>2. Only(r) /\ request[r].pc = "asked" /\ request'[r].pc = "asleep"
    BY <1>1, Typed, SMTT(30) DEF TakeBuffer, Only, RequestType, RequestPcs
  <1>3. UNCHANGED <<main, next_index, available, occupied_map, streambuf, deleted, content, task,
                    started, remaining, decompressed>>
    BY DEF TakeBuffer
  <1>4. AddressesOK' /\ BuffersOK' /\ ContentOK' /\ StreambufsOK' /\ Returned' = Returned
    BY <1>2, <1>3, Quiet DEF QuietRequests, QuietTasks, Only, Idle
  <1>5. TypeOK'
    <2>1. request' \in [Requests -> RequestType]
      BY <1>2 DEF Only
    <2>. QED
      BY <1>1, <1>3, <2>1, Zenon DEF TypeOK, RequestType, RequestPcs
  <1>6. RequestsOK'
    BY <1>1, <1>2, <1>3 DEF RequestsOK, Taking, Live, Only
  <1>7. CountsOK' /\ MainOK'
    BY <1>1, <1>3, <1>4 DEF CountsOK, MainOK, Counted, Tasks
  <1>. QED
    BY <1>4, <1>5, <1>6, <1>7 DEF IInv

\* The first of the queue becomes the buffer of the request.
LEMMA GetBuffer ==
    ASSUME IInv, NEW r \in Requests, TakeBuffer(r), available # <<>>, crashed' = crashed
    PROVE  IInv'
  <1>1. /\ TypeOK /\ RequestsOK /\ AddressesOK /\ QueueOK /\ TakersOK /\ UsersOK /\ NoneLost
        /\ ContentOK /\ StreambufsOK /\ CountsOK /\ MainOK
    BY DEF IInv, BuffersOK
  <1>2. Len(available) >= 1 /\ available[1] \in Buffers /\ Head(available) = available[1]
    BY <1>1, Typed, EmptySeq DEF TakeBuffer, Queued
  <1>3. /\ available' = Tail(available) /\ available' \in Seq(Buffers)
        /\ Len(available') = Len(available) - 1
        /\ \A i \in Queued' : i + 1 \in Queued /\ available'[i] = available[i + 1]
        /\ \A i \in Queued : i = 1 \/ (i - 1 \in Queued' /\ available'[i - 1] = available[i])
    <2>1. available' = Tail(available)
      BY <1>1, Typed DEF TakeBuffer
    <2>2. /\ available' \in Seq(Buffers) /\ Len(available') = Len(available) - 1
          /\ \A i \in 1..Len(available') : available'[i] = available[i + 1]
      BY <1>1, <2>1, Typed, HeadTailProperties
    <2>. QED
      BY <1>1, <1>2, <2>1, <2>2, Typed DEF Queued
  <1>4. /\ Only(r) /\ request[r].pc = "asked"
        /\ request'[r].pc = "taken" /\ request'[r].buffer = available[1]
    <2>1. request' = [request EXCEPT ![r].pc = "taken", ![r].buffer = available[1]]
      BY <1>2 DEF TakeBuffer
    <2>2. request[r].pc = "asked"
      BY DEF TakeBuffer
    <2>. QED
      BY <1>1, <1>2, <2>1, <2>2, Typed, ZenonT(30) DEF Only, RequestType, RequestPcs
  <1>5. UNCHANGED <<main, next_index, occupied_map, streambuf, deleted, content, task, started,
                    remaining, decompressed>>
    BY DEF TakeBuffer
  <1>6. Tasks' = Tasks
    BY <1>5 DEF Tasks
  <1>7. TypeOK'
    <2>1. request' \in [Requests -> RequestType]
      BY <1>4 DEF Only
    <2>. QED
      BY <1>1, <1>3, <1>5, <2>1, Zenon DEF TypeOK, RequestType, RequestPcs
  <1>8. RequestsOK'
    BY <1>1, <1>2, <1>4, <1>5 DEF RequestsOK, Taking, Live, Only
  <1>9. AddressesOK'
    BY <1>1, <1>4, <1>5 DEF AddressesOK, Live, Only
  <1>10. BuffersOK'
    <2>1. QueueOK'
      <3>1. \A i, j \in Queued' : available'[i] = available'[j] => i = j
        BY <1>1, <1>3, Typed DEF QueueOK, Queued
      <3>2. \A i \in Queued' : available'[i] # available[1]
        BY <1>1, <1>2, <1>3, Typed DEF QueueOK, Queued
      <3>3. \A i \in Queued' : \A q \in Requests : Taking(q)' => available'[i] # request'[q].buffer
        BY <1>1, <1>3, <1>4, <3>2, Typed DEF QueueOK, Queued, Taking, Only
      <3>4. \A i \in Queued' : \A k \in Tasks' : Using(k)' => available'[i] # task'[k].buffer
        BY <1>1, <1>3, <1>5, <1>6, Typed DEF QueueOK, Queued, Using
      <3>. QED
        BY <3>1, <3>3, <3>4 DEF QueueOK
    <2>2. TakersOK'
      <3>1. 1 \in Queued
        BY <1>1, <1>2, Typed DEF Queued
      <3>2. \A q \in Requests : Taking(q) => request[q].buffer # available[1]
        BY <1>1, <3>1 DEF QueueOK
      <3>3. \A k \in Tasks : Using(k) => task[k].buffer # available[1]
        BY <1>1, <3>1 DEF QueueOK
      <3>. QED
        BY <1>1, <1>4, <1>5, <1>6, <3>2, <3>3 DEF TakersOK, Taking, Using, Only
    <2>3. UsersOK'
      BY <1>1, <1>5, <1>6 DEF UsersOK, Using
    <2>4. NoneLost'
      <3>. SUFFICES ASSUME NEW b \in Buffers
                    PROVE  \/ \E i \in Queued' : available'[i] = b
                           \/ \E q \in Requests : Taking(q)' /\ request'[q].buffer = b
                           \/ \E k \in Tasks' : Using(k)' /\ task'[k].buffer = b
        BY DEF NoneLost
      <3>1. CASE \E i \in Queued : available[i] = b
        <4>1. Taking(r)' /\ request'[r].buffer = available[1]
          BY <1>4 DEF Taking
        <4>2. PICK i \in Queued : available[i] = b
          BY <3>1
        <4>3. i = 1 \/ (i - 1 \in Queued' /\ available'[i - 1] = b)
          BY <1>3, <4>2
        <4>. QED
          BY <4>1, <4>2, <4>3, Zenon
      <3>2. CASE \E q \in Requests : Taking(q) /\ request[q].buffer = b
        BY <1>4, <3>2 DEF Taking, Only
      <3>3. CASE \E k \in Tasks : Using(k) /\ task[k].buffer = b
        BY <1>5, <1>6, <3>3 DEF Using
      <3>. QED
        BY <1>1, <3>1, <3>2, <3>3 DEF NoneLost
    <2>. QED
      BY <2>1, <2>2, <2>3, <2>4 DEF BuffersOK
  <1>11. ContentOK'
    BY <1>1, <1>4, <1>5, <1>6 DEF ContentOK, Back, Reading, Only
  <1>12. StreambufsOK'
    BY <1>1, <1>4, <1>5, <1>6 DEF StreambufsOK, Using, Only
  <1>13. CountsOK'
    <2>1. Returned' = Returned
      BY <1>4 DEF Returned, Back, Only
    <2>. QED
      BY <1>1, <1>5, <2>1 DEF CountsOK, Counted, Tasks
  <1>14. MainOK'
    BY <1>1, <1>5 DEF MainOK, Tasks
  <1>. QED
    BY <1>7, <1>8, <1>9, <1>10, <1>11, <1>12, <1>13, <1>14 DEF IInv

\* Nobody takes a buffer or gives one back.
SamePlaces ==
    /\ available' = available /\ Len(task') = Len(task)
    /\ \A r \in Requests : (Taking(r)' <=> Taking(r)) /\ request'[r].buffer = request[r].buffer
    /\ \A k \in Tasks : (Using(k)' <=> Using(k)) /\ task'[k].buffer = task[k].buffer

LEMMA SamePlacesInv ==
    ASSUME BuffersOK, SamePlaces
    PROVE  BuffersOK'
  <1>1. Tasks' = Tasks /\ Queued' = Queued
    BY DEF SamePlaces, Tasks, Queued
  <1>2. QueueOK'
    BY <1>1 DEF BuffersOK, QueueOK, SamePlaces
  <1>3. TakersOK' /\ UsersOK'
    BY <1>1 DEF BuffersOK, TakersOK, UsersOK, SamePlaces
  <1>4. NoneLost'
    BY <1>1 DEF BuffersOK, NoneLost, SamePlaces
  <1>. QED
    BY <1>2, <1>3, <1>4 DEF BuffersOK

\* A stream at an address that no other stream has.
LEMMA MakeStreamInv ==
    ASSUME IInv, NEW r \in Requests, MakeStream(r), crashed' = crashed
    PROVE  IInv'
  <1>1. /\ TypeOK /\ RequestsOK /\ AddressesOK /\ BuffersOK
        /\ ContentOK /\ StreambufsOK /\ CountsOK /\ MainOK
    BY DEF IInv
  <1>2. PICK a \in FreeAddresses :
          /\ request' = [request EXCEPT ![r].pc = "streaming", ![r].address = a,
                                         ![r].object = streambuf[request[r].buffer]]
          /\ occupied_map' = [occupied_map EXCEPT ![a] = request[r].buffer]
    BY DEF MakeStream, Entered
  <1>3. /\ request[r].pc = "taken" /\ request[r].buffer \in Buffers /\ a \in Addresses
        /\ streambuf[request[r].buffer] \in Nat
    BY <1>1 DEF MakeStream, RequestsOK, Taking, FreeAddresses, TypeOK
  <1>4. /\ Only(r) /\ request'[r].pc = "streaming" /\ request'[r].address = a
        /\ request'[r].object = streambuf[request[r].buffer]
        /\ request'[r].buffer = request[r].buffer
    BY <1>1, <1>2, <1>3, Typed DEF Only, RequestType, RequestPcs
  <1>5. UNCHANGED <<main, next_index, available, streambuf, deleted, content, task, started,
                    remaining, decompressed>>
    BY DEF MakeStream
  <1>6. \A q \in Requests : Live(q) => request[q].address # a
    BY DEF FreeAddresses
  <1>7. TypeOK'
    <2>1. request' \in [Requests -> RequestType]
      BY <1>4 DEF Only
    <2>2. occupied_map' \in [Addresses -> Buffers \cup {None}]
      BY <1>1, <1>2, <1>3 DEF TypeOK
    <2>. QED
      BY <1>1, <1>5, <2>1, <2>2, Zenon DEF TypeOK, RequestType, RequestPcs
  <1>8. RequestsOK'
    BY <1>1, <1>3, <1>4, <1>5 DEF RequestsOK, Taking, Live, Only
  <1>9. AddressesOK'
    <2>1. occupied_map'[a] = request[r].buffer
      BY <1>1, <1>2, <1>3 DEF TypeOK
    <2>2. \A q \in Requests : Live(q) => occupied_map'[request[q].address] = request[q].buffer
      BY <1>1, <1>2, <1>6 DEF TypeOK, AddressesOK, RequestsOK
    <2>. QED
      BY <1>1, <1>4, <1>6, <2>1, <2>2 DEF AddressesOK, Live, Only
  <1>10. BuffersOK'
    BY <1>1, <1>3, <1>4, <1>5, SamePlacesInv DEF SamePlaces, Taking, Using, Only
  <1>11. Tasks' = Tasks
    BY <1>5 DEF Tasks
  <1>12. ContentOK'
    BY <1>1, <1>3, <1>4, <1>5, <1>11 DEF ContentOK, Back, Reading, Only
  <1>13. StreambufsOK'
    BY <1>1, <1>3, <1>4, <1>5, <1>11 DEF StreambufsOK, Using, Only
  <1>14. CountsOK' /\ MainOK'
    <2>1. Returned' = Returned
      BY <1>3, <1>4 DEF Returned, Back, Only
    <2>. QED
      BY <1>1, <1>5, <2>1 DEF CountsOK, MainOK, Counted, Tasks
  <1>. QED
    BY <1>7, <1>8, <1>9, <1>10, <1>12, <1>13, <1>14 DEF IInv

\* The bytes go into the buffer of the request, which no task is reading.
LEMMA DownloadInv ==
    ASSUME IInv, NEW r \in Requests, Download(r), crashed' = crashed
    PROVE  IInv'
  <1>1. /\ TypeOK /\ RequestsOK /\ AddressesOK /\ BuffersOK
        /\ ContentOK /\ StreambufsOK /\ CountsOK /\ MainOK
    BY DEF IInv
  <1>. DEFINE b == request[r].buffer
  <1>2. request[r].pc = "streaming" /\ Taking(r) /\ b \in Buffers
    BY <1>1 DEF Download, RequestsOK, Taking
  <1>3. /\ Only(r) /\ request'[r].pc = "received"
        /\ request'[r].buffer = b /\ request'[r].address = request[r].address
        /\ request'[r].object = request[r].object
    BY <1>1, <1>2, Typed DEF Download, Only, RequestType, RequestPcs
  <1>4. UNCHANGED <<main, next_index, available, occupied_map, streambuf, deleted, task, started,
                    remaining, decompressed>>
    BY DEF Download
  <1>5. /\ content' \in [Buffers -> Requests \cup {None}]
        /\ content'[b] = r /\ \A c \in Buffers : c # b => content'[c] = content[c]
    BY <1>1, <1>2 DEF Download, TypeOK
  <1>6. Tasks' = Tasks
    BY <1>4 DEF Tasks
  <1>7. TypeOK'
    <2>1. request' \in [Requests -> RequestType]
      BY <1>3 DEF Only
    <2>. QED
      BY <1>1, <1>4, <1>5, <2>1, Zenon DEF TypeOK, RequestType, RequestPcs
  <1>8. RequestsOK' /\ AddressesOK'
    BY <1>1, <1>2, <1>3, <1>4 DEF RequestsOK, AddressesOK, Taking, Live, Only
  <1>9. BuffersOK'
    BY <1>1, <1>2, <1>3, <1>4, SamePlacesInv DEF SamePlaces, Taking, Using, Only
  <1>10. ContentOK'
    <2>1. \A k \in Tasks : Reading(k) => content'[task[k].buffer] = content[task[k].buffer]
      <3>1. \A k \in Tasks : Reading(k) => task[k].buffer # b /\ task[k].buffer \in Buffers
        BY <1>1, <1>2, Typed DEF BuffersOK, TakersOK, Using, Reading, TaskType
      <3>. QED
        BY <1>5, <3>1
    <2>2. \A q \in Requests : q # r /\ request[q].pc = "received" =>
            content'[request[q].buffer] = content[request[q].buffer]
      <3>1. \A q \in Requests : q # r /\ request[q].pc = "received" =>
              request[q].buffer # b /\ request[q].buffer \in Buffers
        BY <1>1, <1>2 DEF BuffersOK, TakersOK, RequestsOK, Taking
      <3>. QED
        BY <1>5, <3>1
    <2>. QED
      BY <1>1, <1>2, <1>3, <1>4, <1>5, <1>6, <2>1, <2>2 DEF ContentOK, Back, Reading, Only
  <1>11. StreambufsOK'
    BY <1>1, <1>2, <1>3, <1>4, <1>6 DEF StreambufsOK, Using, Only
  <1>12. CountsOK' /\ MainOK'
    <2>1. Returned' = Returned
      BY <1>2, <1>3 DEF Returned, Back, Only
    <2>. QED
      BY <1>1, <1>4, <2>1 DEF CountsOK, MainOK, Counted, Tasks
  <1>. QED
    BY <1>7, <1>8, <1>9, <1>10, <1>11, <1>12 DEF IInv

\* The buffer goes from the request to a new task.
LEMMA CallbackInv ==
    ASSUME IInv, NEW r \in Requests, Callback(r), crashed' = crashed
    PROVE  IInv'
  <1>1. /\ TypeOK /\ RequestsOK /\ AddressesOK /\ QueueOK /\ TakersOK /\ UsersOK /\ NoneLost
        /\ ContentOK /\ StreambufsOK /\ CountsOK /\ MainOK
    BY DEF IInv, BuffersOK
  <1>. DEFINE b == request[r].buffer
  <1>0. PICK n : n = Len(task) + 1
    OBVIOUS
  <1>2. /\ request[r].pc = "received" /\ Taking(r) /\ Live(r) /\ b \in Buffers
        /\ occupied_map[request[r].address] = b
    BY <1>1 DEF Callback, RequestsOK, AddressesOK, Taking, Live
  <1>3. /\ Only(r) /\ request'[r].pc = "returned"
        /\ request'[r].buffer = b /\ request'[r].address = request[r].address
        /\ request'[r].object = request[r].object
    BY <1>1, <1>2, Typed DEF Callback, Only, RequestType, RequestPcs
  <1>4. UNCHANGED <<main, next_index, available, occupied_map, streambuf, deleted, content, started,
                    remaining, decompressed>>
    BY DEF Callback
  <1>5. /\ task' \in Seq(TaskType) /\ Len(task') = n /\ n \in Nat
        /\ Tasks' = Tasks \cup {n} /\ n \notin Tasks
        /\ task'[n].pc = "queued" /\ task'[n].buffer = b
        /\ \A k \in Tasks : task'[k] = task[k]
    <2>. DEFINE t == [pc |-> "queued", buffer |-> b]
    <2>1. t \in TaskType /\ task' = Append(task, t)
      BY <1>2 DEF Callback, TaskType, TaskPcs
    <2>2. task \in Seq(TaskType) /\ Len(task) \in Nat
      BY <1>1, Typed
    <2>. HIDE DEF t
    <2>3. /\ task' \in Seq(TaskType) /\ Len(task') = n /\ task'[n] = t
          /\ \A k \in 1..Len(task) : task'[k] = task[k]
      BY <1>0, <2>1, <2>2, AppendProperties
    <2>4. 1..n = (1..Len(task)) \cup {n} /\ n \notin 1..Len(task)
      BY <1>0, <2>2
    <2>. QED
      BY <1>0, <2>2, <2>3, <2>4 DEF Tasks, t
  <1>6. TypeOK'
    <2>1. request' \in [Requests -> RequestType]
      BY <1>3 DEF Only
    <2>2. started' \in 0..Len(task')
      BY <1>0, <1>1, <1>4, <1>5 DEF TypeOK
    <2>. QED
      BY <1>1, <1>4, <1>5, <2>1, <2>2, Zenon DEF TypeOK, RequestType, RequestPcs, TaskType, TaskPcs
  <1>7. RequestsOK' /\ AddressesOK'
    BY <1>1, <1>2, <1>3, <1>4 DEF RequestsOK, AddressesOK, Taking, Live, Only
  <1>8. /\ \A q \in Requests : Taking(q)' <=> q # r /\ Taking(q)
        /\ \A q \in Requests : Taking(q)' => request'[q] = request[q]
        /\ \A k \in Tasks : Using(k)' <=> Using(k)
        /\ Using(n)'
    BY <1>2, <1>3, <1>5 DEF Taking, Using, Only
  <1>9. Queued' = Queued
    BY <1>4 DEF Queued
  <1>10. BuffersOK'
    <2>1. QueueOK'
      BY <1>1, <1>2, <1>4, <1>5, <1>8, <1>9 DEF QueueOK
    <2>2. TakersOK'
      BY <1>1, <1>2, <1>5, <1>8 DEF TakersOK
    <2>3. UsersOK'
      BY <1>1, <1>2, <1>5, <1>8 DEF UsersOK, TakersOK
    <2>4. NoneLost'
      BY <1>1, <1>2, <1>4, <1>5, <1>8, <1>9 DEF NoneLost
    <2>. QED
      BY <2>1, <2>2, <2>3, <2>4 DEF BuffersOK
  <1>11. ContentOK'
    <2>1. content[b] = r /\ decompressed[r] = 0
      BY <1>1, <1>2 DEF ContentOK, Back
    <2>2. /\ \A q \in Requests : Back(q)' <=> q = r \/ Back(q)
          /\ \A k \in Tasks : Reading(k)' <=> Reading(k)
          /\ Reading(n)'
      BY <1>2, <1>3, <1>5 DEF Back, Reading, Only
    <2>3. \A q \in Requests : request'[q].pc = "received" => request'[q] = request[q]
      BY <1>3 DEF Only
    <2>4. \A k \in Tasks : Reading(k) => content[task[k].buffer] # r
      BY <1>1, <1>2 DEF ContentOK, Back
    <2>5. \A k \in Tasks' : Reading(k)' =>
            \E q \in Requests : q = content'[task'[k].buffer] /\ Back(q)' /\ decompressed'[q] = 0
      <3>1. \A k \in Tasks : Reading(k) =>
              \E q \in Requests : q = content[task[k].buffer] /\ Back(q) /\ decompressed[q] = 0
        BY <1>1 DEF ContentOK
      <3>. QED
        BY <1>4, <1>5, <2>1, <2>2, <3>1
    <2>6. \A k, l \in Tasks' :
            Reading(k)' /\ Reading(l)' /\ content'[task'[k].buffer] = content'[task'[l].buffer]
              => k = l
      BY <1>1, <1>4, <1>5, <2>1, <2>2, <2>4 DEF ContentOK
    <2>7. \A q \in Requests : Back(q)' =>
            \/ decompressed'[q] = 1
            \/ \E k \in Tasks' : Reading(k)' /\ content'[task'[k].buffer] = q
      BY <1>1, <1>4, <1>5, <2>1, <2>2 DEF ContentOK
    <2>. QED
      BY <1>1, <1>4, <2>2, <2>3, <2>5, <2>6, <2>7 DEF ContentOK, Back
  <1>12. StreambufsOK'
    <2>1. streambuf[b] \in Nat
      BY <1>1, <1>2 DEF TypeOK
    <2>2. request'[r].object = streambuf'[b] /\ Using(n)' /\ task'[n].pc # "releasing"
      BY <1>1, <1>2, <1>3, <1>4, <1>5, <1>8 DEF StreambufsOK
    <2>. QED
      BY <1>1, <1>3, <1>4, <1>5, <2>1, <2>2 DEF StreambufsOK, Using, Only
  <1>13. CountsOK'
    <2>1. Returned' = Returned \cup {r} /\ r \notin Returned
      BY <1>2, <1>3 DEF Returned, Back, Only
    <2>2. Cardinality(Returned') = Cardinality(Returned) + 1
      BY <1>1, <2>1, Counting, FS_AddElement
    <2>3. Counted' = Counted
      BY <1>5 DEF Counted
    <2>4. started \in Nat /\ started <= Len(task)
      BY <1>1, Typed DEF TypeOK
    <2>. QED
      BY <1>0, <1>1, <1>4, <1>5, <2>2, <2>3, <2>4 DEF CountsOK
  <1>14. MainOK'
    <2>1. remaining # 0
      BY <1>1, <1>2, Counting DEF Returned, Back
    <2>. QED
      BY <1>1, <1>4, <2>1 DEF MainOK
  <1>. QED
    BY <1>6, <1>7, <1>10, <1>11, <1>12, <1>13, <1>14 DEF IInv

LEMMA DeleteStreamInv ==
    ASSUME IInv, NEW r \in Requests, DeleteStream(r), crashed' = crashed
    PROVE  IInv'
  <1>1. /\ TypeOK /\ RequestsOK /\ AddressesOK /\ BuffersOK
        /\ ContentOK /\ StreambufsOK /\ CountsOK /\ MainOK
    BY DEF IInv
  <1>2. /\ Only(r) /\ request[r].pc = "returned" /\ request'[r].pc = "gone"
        /\ request'[r].buffer = request[r].buffer
    BY <1>1, Typed DEF DeleteStream, Only, RequestType, RequestPcs
  <1>3. UNCHANGED <<main, next_index, available, occupied_map, streambuf, deleted, content, task,
                    started, remaining, decompressed>>
    BY DEF DeleteStream
  <1>4. Tasks' = Tasks
    BY <1>3 DEF Tasks
  <1>5. TypeOK'
    <2>1. request' \in [Requests -> RequestType]
      BY <1>2 DEF Only
    <2>. QED
      BY <1>1, <1>3, <2>1, Zenon DEF TypeOK, RequestType, RequestPcs
  <1>6. RequestsOK' /\ AddressesOK'
    BY <1>1, <1>2, <1>3 DEF RequestsOK, AddressesOK, Taking, Live, Only
  <1>7. BuffersOK'
    BY <1>1, <1>2, <1>3, SamePlacesInv DEF SamePlaces, Taking, Using, Only
  <1>8. ContentOK'
    BY <1>1, <1>2, <1>3, <1>4 DEF ContentOK, Back, Reading, Only
  <1>9. StreambufsOK'
    BY <1>1, <1>2, <1>3, <1>4 DEF StreambufsOK, Using, Only
  <1>10. CountsOK' /\ MainOK'
    <2>1. Returned' = Returned
      BY <1>2 DEF Returned, Back, Only
    <2>. QED
      BY <1>1, <1>3, <2>1 DEF CountsOK, MainOK, Counted, Tasks
  <1>. QED
    BY <1>5, <1>6, <1>7, <1>8, <1>9, <1>10 DEF IInv

---------------------------------------------------------------------------
(* The steps of the node and its tasks *)

LEMMA OneTask ==
    ASSUME TypeOK, NEW k \in Tasks, NEW p \in TaskPcs, task' = [task EXCEPT ![k].pc = p]
    PROVE  OnlyTask(k) /\ task'[k].pc = p /\ Tasks' = Tasks
  <1>1. task \in Seq(TaskType) /\ Len(task) \in Nat /\ task[k] \in TaskType
    BY Typed
  <1>2. [task[k] EXCEPT !.pc = p] \in TaskType
    BY <1>1 DEF TaskType
  <1>3. task' \in Seq(TaskType) /\ Len(task') = Len(task)
    BY <1>1, <1>2 DEF Tasks
  <1>4. task'[k] = [task[k] EXCEPT !.pc = p] /\ \A l \in Tasks : l # k => task'[l] = task[l]
    BY <1>1 DEF Tasks
  <1>. QED
    BY <1>1, <1>3, <1>4 DEF OnlyTask, Tasks, TaskType

\* A task that runs keeps main out of the end of its wait.
LEMMA RunningTask ==
    ASSUME TypeOK, CountsOK, MainOK, NEW k \in 1..started
    PROVE  /\ k \in Tasks /\ task[k] \in TaskType /\ task[k].pc # "queued"
           /\ task[k].pc # "done" => main \notin {"freeing", "finished"} /\ deleted = {}
  <1>1. k \in Tasks
    BY Typed DEF TypeOK, Tasks
  <1>. QED
    BY <1>1, Typed, SMTT(30) DEF CountsOK, MainOK, TypeOK

LEMMA StartTaskInv ==
    ASSUME IInv, StartTask, crashed' = crashed
    PROVE  IInv'
  <1>1. /\ TypeOK /\ RequestsOK /\ AddressesOK /\ BuffersOK
        /\ ContentOK /\ StreambufsOK /\ CountsOK /\ MainOK
    BY DEF IInv
  <1>2. PICK k : k = started + 1
    OBVIOUS
  <1>3. k \in Tasks /\ task[k].pc = "queued" /\ started \in Nat
    BY <1>1, <1>2, Typed, SMTT(30) DEF StartTask, Tasks, CountsOK, TypeOK
  <1>4. OnlyTask(k) /\ task'[k].pc = "reading" /\ Tasks' = Tasks
    BY <1>1, <1>2, <1>3, OneTask, AfterTyped DEF StartTask, TaskPcs
  <1>5. UNCHANGED <<main, next_index, request, available, occupied_map, streambuf, deleted,
                    content, remaining, decompressed>> /\ started' = k
    BY <1>2 DEF StartTask
  <1>6. TypeOK'
    <2>1. started' \in 0..Len(task')
      BY <1>1, <1>3, <1>4, <1>5, Typed DEF OnlyTask, Tasks
    <2>2. task' \in Seq(TaskType)
      BY <1>4 DEF OnlyTask
    <2>. QED
      BY <1>1, <1>5, <2>1, <2>2, Zenon DEF TypeOK, TaskType, TaskPcs
  <1>7. RequestsOK' /\ AddressesOK'
    BY <1>1, <1>5 DEF RequestsOK, AddressesOK, Taking, Live
  <1>8. BuffersOK'
    BY <1>1, <1>3, <1>4, <1>5, SamePlacesInv DEF SamePlaces, Taking, Using, OnlyTask
  <1>9. ContentOK'
    <2>1. \A l \in Tasks : (Reading(l)' <=> Reading(l)) /\ task'[l].buffer = task[l].buffer
      BY <1>3, <1>4 DEF Reading, OnlyTask
    <2>. QED
      BY <1>1, <1>4, <1>5, <2>1 DEF ContentOK, Back
  <1>10. StreambufsOK'
    <2>1. \A l \in Tasks : Using(l) /\ task[l].pc # "releasing" =>
            Using(l)' /\ task'[l].pc # "releasing" /\ task'[l].buffer = task[l].buffer
      BY <1>3, <1>4 DEF Using, OnlyTask
    <2>. QED
      BY <1>1, <1>4, <1>5, <2>1 DEF StreambufsOK
  <1>11. CountsOK'
    <2>1. Returned' = Returned /\ Counted' = Counted
      BY <1>3, <1>4, <1>5 DEF Returned, Back, Counted, OnlyTask
    <2>2. \A l \in Tasks : l > k <=> task'[l].pc = "queued"
      BY <1>1, <1>2, <1>3, <1>4, Typed DEF CountsOK, OnlyTask, Tasks
    <2>. QED
      BY <1>1, <1>4, <1>5, <2>1, <2>2 DEF CountsOK, OnlyTask
  <1>12. MainOK'
    BY <1>1, <1>3, <1>5 DEF MainOK
  <1>. QED
    BY <1>6, <1>7, <1>8, <1>9, <1>10, <1>11, <1>12 DEF IInv

\* The task reads the bytes of a request that has come back and was not decompressed yet.
LEMMA ReadPartInv ==
    ASSUME IInv, NEW k \in 1..started, ReadPart(k), crashed' = crashed
    PROVE  IInv'
  <1>1. /\ TypeOK /\ RequestsOK /\ AddressesOK /\ BuffersOK
        /\ ContentOK /\ StreambufsOK /\ CountsOK /\ MainOK
    BY DEF IInv
  <1>2. k \in Tasks /\ task[k].pc = "reading" /\ main \notin {"freeing", "finished"}
    BY <1>1, RunningTask DEF ReadPart
  <1>3. OnlyTask(k) /\ task'[k].pc = "renewing" /\ Tasks' = Tasks
    <2>1. task' = [task EXCEPT ![k].pc = "renewing"]
      BY <1>2, AfterTyped DEF ReadPart
    <2>. QED
      BY <1>1, <1>2, <2>1, OneTask DEF TaskPcs
  <1>4. PICK r : r = content[task[k].buffer]
    OBVIOUS
  <1>5. r \in Requests /\ Back(r) /\ decompressed[r] = 0
    BY <1>1, <1>2, <1>4 DEF ContentOK, Reading
  <1>6. /\ decompressed' \in [Requests -> Nat] /\ decompressed'[r] = 1
        /\ \A q \in Requests : q # r => decompressed'[q] = decompressed[q]
    BY <1>1, <1>4, <1>5 DEF ReadPart, TypeOK
  <1>7. UNCHANGED <<main, next_index, request, available, occupied_map, streambuf, deleted,
                    content, started, remaining>>
    BY DEF ReadPart
  <1>8. TypeOK'
    <2>1. task' \in Seq(TaskType) /\ started' \in 0..Len(task')
      BY <1>1, <1>3, <1>7 DEF OnlyTask, TypeOK
    <2>. QED
      BY <1>1, <1>6, <1>7, <2>1, Zenon DEF TypeOK, TaskType, TaskPcs
  <1>9. RequestsOK' /\ AddressesOK'
    BY <1>1, <1>7 DEF RequestsOK, AddressesOK, Taking, Live
  <1>10. BuffersOK'
    BY <1>1, <1>2, <1>3, <1>7, SamePlacesInv DEF SamePlaces, Taking, Using, OnlyTask
  <1>11. ContentOK'
    <2>1. /\ \A l \in Tasks : Reading(l)' <=> l # k /\ Reading(l)
          /\ \A l \in Tasks : task'[l].buffer = task[l].buffer
      BY <1>2, <1>3 DEF Reading, OnlyTask
    <2>2. \A l \in Tasks : Reading(l)' => content[task[l].buffer] # r
      BY <1>1, <1>2, <1>4, <2>1 DEF ContentOK, Reading
    <2>3. \A q \in Requests : Back(q)' <=> Back(q)
      BY <1>7 DEF Back
    <2>. QED
      BY <1>1, <1>3, <1>4, <1>5, <1>6, <1>7, <2>1, <2>2, <2>3 DEF ContentOK
  <1>12. StreambufsOK'
    <2>1. \A l \in Tasks : Using(l) /\ task[l].pc # "releasing" =>
            Using(l)' /\ task'[l].pc # "releasing" /\ task'[l].buffer = task[l].buffer
      BY <1>2, <1>3 DEF Using, OnlyTask
    <2>. QED
      BY <1>1, <1>3, <1>7, <2>1 DEF StreambufsOK
  <1>13. CountsOK' /\ MainOK'
    <2>1. Returned' = Returned /\ Counted' = Counted
      BY <1>2, <1>3, <1>7 DEF Returned, Back, Counted, OnlyTask
    <2>2. \A l \in Tasks : task'[l].pc = "queued" <=> task[l].pc = "queued"
      BY <1>2, <1>3 DEF OnlyTask
    <2>. QED
      BY <1>1, <1>2, <1>3, <1>7, <2>1, <2>2 DEF CountsOK, MainOK, OnlyTask
  <1>. QED
    BY <1>8, <1>9, <1>10, <1>11, <1>12, <1>13 DEF IInv

\* No stream is open over the buffer whose streambuf is replaced, only streams that are
\* going to be deleted.
LEMMA RenewStreambufInv ==
    ASSUME IInv, NEW k \in 1..started, RenewStreambuf(k), crashed' = crashed
    PROVE  IInv'
  <1>1. /\ TypeOK /\ RequestsOK /\ AddressesOK /\ BuffersOK
        /\ ContentOK /\ StreambufsOK /\ CountsOK /\ MainOK
    BY DEF IInv
  <1>2. /\ k \in Tasks /\ task[k] \in TaskType /\ task[k].pc = "renewing"
        /\ main \notin {"freeing", "finished"}
    BY <1>1, RunningTask DEF RenewStreambuf
  <1>3. OnlyTask(k) /\ task'[k].pc = "releasing" /\ Tasks' = Tasks
    <2>1. task' = [task EXCEPT ![k].pc = "releasing"]
      BY <1>2, AfterTyped DEF RenewStreambuf
    <2>. QED
      BY <1>1, <1>2, <2>1, OneTask DEF TaskPcs
  <1>4. PICK b \in Buffers : b = task[k].buffer
    BY <1>2 DEF TaskType
  <1>5. /\ streambuf' \in [Buffers -> Nat \ {0}] /\ streambuf'[b] = streambuf[b] + 1
        /\ streambuf[b] \in Nat
        /\ \A c \in Buffers : c # b => streambuf'[c] = streambuf[c]
    BY <1>1, <1>4, SMTT(30) DEF RenewStreambuf, Renewed, TypeOK
  <1>6. UNCHANGED <<main, next_index, request, available, occupied_map, deleted,
                    content, started, remaining, decompressed>>
    BY DEF RenewStreambuf
  <1>7. TypeOK'
    <2>1. task' \in Seq(TaskType) /\ started' \in 0..Len(task')
      BY <1>1, <1>3, <1>6 DEF OnlyTask, TypeOK
    <2>. QED
      BY <1>1, <1>5, <1>6, <2>1, Zenon DEF TypeOK, TaskType, TaskPcs
  <1>8. RequestsOK' /\ AddressesOK'
    BY <1>1, <1>6 DEF RequestsOK, AddressesOK, Taking, Live
  <1>9. BuffersOK'
    BY <1>1, <1>2, <1>3, <1>6, SamePlacesInv DEF SamePlaces, Taking, Using, OnlyTask
  <1>10. ContentOK'
    <2>1. \A l \in Tasks : (Reading(l)' <=> Reading(l)) /\ task'[l].buffer = task[l].buffer
      BY <1>2, <1>3 DEF Reading, OnlyTask
    <2>. QED
      BY <1>1, <1>3, <1>6, <2>1 DEF ContentOK, Back
  <1>11. StreambufsOK'
    <2>1. \A r \in Requests : Taking(r) => request[r].buffer \in Buffers /\ request[r].buffer # b
      BY <1>1, <1>2, <1>4 DEF BuffersOK, TakersOK, RequestsOK, Using
    <2>2. \A r \in Requests : request[r].pc = "returned" =>
            request[r].buffer \in Buffers /\ request[r].object \in Nat
      BY <1>1, Typed DEF RequestsOK, Live, RequestType
    <2>3. \A l \in Tasks : Using(l) /\ task[l].pc # "releasing" /\ task[l].buffer # b =>
            Using(l)' /\ task'[l].pc # "releasing" /\ task'[l].buffer = task[l].buffer
      BY <1>3, <1>4 DEF Using, OnlyTask
    <2>4. \A r \in Requests : request[r].pc = "returned" =>
            /\ request[r].object <= streambuf'[request[r].buffer]
            /\ request[r].object = streambuf'[request[r].buffer] => request[r].buffer # b
      <3>. SUFFICES ASSUME NEW r \in Requests, request[r].pc = "returned"
                    PROVE  /\ request[r].object <= streambuf'[request[r].buffer]
                           /\ request[r].object = streambuf'[request[r].buffer] =>
                                request[r].buffer # b
        OBVIOUS
      <3>1. request[r].object <= streambuf[request[r].buffer]
        BY <1>1 DEF StreambufsOK
      <3>2. streambuf[request[r].buffer] \in Nat
        BY <1>1, <2>2 DEF TypeOK
      <3>. QED
        BY <1>5, <2>2, <3>1, <3>2
    <2>5. \A r \in Requests : request[r].pc \in {"streaming", "received"} =>
            request[r].object = streambuf'[request[r].buffer]
      BY <1>1, <1>5, <2>1 DEF StreambufsOK, Taking
    <2>6. ASSUME NEW r \in Requests, request[r].pc = "returned",
                 request[r].object = streambuf'[request[r].buffer]
          PROVE  \E l \in Tasks' : Using(l)' /\ task'[l].pc # "releasing"
                                   /\ task'[l].buffer = request[r].buffer
      <3>1. request[r].buffer # b /\ streambuf'[request[r].buffer] = streambuf[request[r].buffer]
        BY <1>5, <2>2, <2>4, <2>6
      <3>2. PICK l \in Tasks : Using(l) /\ task[l].pc # "releasing"
                               /\ task[l].buffer = request[r].buffer
        BY <1>1, <2>6, <3>1 DEF StreambufsOK
      <3>. QED
        BY <1>3, <2>3, <3>1, <3>2
    <2>. QED
      BY <1>6, <2>4, <2>5, <2>6 DEF StreambufsOK
  <1>12. CountsOK' /\ MainOK'
    <2>1. Returned' = Returned /\ Counted' = Counted
      BY <1>2, <1>3, <1>6 DEF Returned, Back, Counted, OnlyTask
    <2>2. \A l \in Tasks : task'[l].pc = "queued" <=> task[l].pc = "queued"
      BY <1>2, <1>3 DEF OnlyTask
    <2>. QED
      BY <1>1, <1>2, <1>3, <1>6, <2>1, <2>2 DEF CountsOK, MainOK, OnlyTask
  <1>. QED
    BY <1>7, <1>8, <1>9, <1>10, <1>11, <1>12 DEF IInv

\* The buffer goes from the task to the end of the queue.
LEMMA ReleaseBufferInv ==
    ASSUME IInv, NEW k \in 1..started, ReleaseBuffer(k), crashed' = crashed
    PROVE  IInv'
  <1>1. /\ TypeOK /\ RequestsOK /\ AddressesOK /\ QueueOK /\ TakersOK /\ UsersOK /\ NoneLost
        /\ ContentOK /\ StreambufsOK /\ CountsOK /\ MainOK
    BY DEF IInv, BuffersOK
  <1>2. /\ k \in Tasks /\ task[k] \in TaskType /\ task[k].pc = "releasing"
        /\ main \notin {"freeing", "finished"}
    BY <1>1, RunningTask DEF ReleaseBuffer
  <1>3. OnlyTask(k) /\ task'[k].pc = "notifying" /\ Tasks' = Tasks
    <2>1. task' = [task EXCEPT ![k].pc = "notifying"]
      BY <1>2, AfterTyped DEF ReleaseBuffer
    <2>. QED
      BY <1>1, <1>2, <2>1, OneTask DEF TaskPcs
  <1>4. PICK b \in Buffers : b = task[k].buffer
    BY <1>2 DEF TaskType
  <1>5. PICK n : n = Len(available) + 1
    OBVIOUS
  <1>6. /\ available' \in Seq(Buffers) /\ Queued' = Queued \cup {n} /\ n \notin Queued
        /\ available'[n] = b /\ \A i \in Queued : available'[i] = available[i]
    <2>1. available' = Append(available, b) /\ available \in Seq(Buffers) /\ Len(available) \in Nat
      BY <1>1, <1>4, Typed DEF ReleaseBuffer
    <2>2. /\ available' \in Seq(Buffers) /\ Len(available') = n /\ available'[n] = b
          /\ \A i \in 1..Len(available) : available'[i] = available[i]
      BY <1>5, <2>1, AppendProperties
    <2>3. 1..n = (1..Len(available)) \cup {n} /\ n \notin 1..Len(available)
      BY <1>5, <2>1
    <2>. QED
      BY <2>2, <2>3 DEF Queued
  <1>7. UNCHANGED <<main, next_index, request, occupied_map, streambuf, deleted, content,
                    started, remaining, decompressed>>
    BY DEF ReleaseBuffer
  <1>8. TypeOK'
    <2>1. task' \in Seq(TaskType) /\ started' \in 0..Len(task')
      BY <1>1, <1>3, <1>7 DEF OnlyTask, TypeOK
    <2>. QED
      BY <1>1, <1>6, <1>7, <2>1, Zenon DEF TypeOK, TaskType, TaskPcs
  <1>9. RequestsOK' /\ AddressesOK'
    BY <1>1, <1>7 DEF RequestsOK, AddressesOK, Taking, Live
  <1>10. /\ \A l \in Tasks : Using(l)' <=> l # k /\ Using(l)
         /\ \A l \in Tasks : task'[l].buffer = task[l].buffer
         /\ \A r \in Requests : Taking(r)' <=> Taking(r)
         /\ Using(k)
    BY <1>2, <1>3, <1>7 DEF Using, Taking, OnlyTask
  <1>11. BuffersOK'
    <2>1. QueueOK'
      <3>1. /\ \A i \in Queued : available[i] # b
            /\ \A r \in Requests : Taking(r) => request[r].buffer # b
            /\ \A l \in Tasks : l # k /\ Using(l) => task[l].buffer # b
        BY <1>1, <1>2, <1>4, <1>10 DEF QueueOK, TakersOK, UsersOK
      <3>2. \A i, j \in Queued' : available'[i] = available'[j] => i = j
        BY <1>1, <1>6, <3>1 DEF QueueOK
      <3>3. \A i \in Queued' : \A r \in Requests : Taking(r)' => available'[i] # request'[r].buffer
        BY <1>1, <1>6, <1>7, <1>10, <3>1 DEF QueueOK
      <3>4. \A i \in Queued' : \A l \in Tasks' : Using(l)' => available'[i] # task'[l].buffer
        BY <1>1, <1>3, <1>6, <1>10, <3>1 DEF QueueOK
      <3>. QED
        BY <3>2, <3>3, <3>4 DEF QueueOK
    <2>2. TakersOK' /\ UsersOK'
      BY <1>1, <1>3, <1>7, <1>10 DEF TakersOK, UsersOK
    <2>3. NoneLost'
      BY <1>1, <1>2, <1>3, <1>4, <1>6, <1>7, <1>10 DEF NoneLost
    <2>. QED
      BY <2>1, <2>2, <2>3 DEF BuffersOK
  <1>12. ContentOK'
    <2>1. \A l \in Tasks : (Reading(l)' <=> Reading(l)) /\ task'[l].buffer = task[l].buffer
      BY <1>2, <1>3 DEF Reading, OnlyTask
    <2>. QED
      BY <1>1, <1>3, <1>7, <2>1 DEF ContentOK, Back
  <1>13. StreambufsOK'
    <2>1. \A l \in Tasks : Using(l) /\ task[l].pc # "releasing" =>
            Using(l)' /\ task'[l].pc # "releasing" /\ task'[l].buffer = task[l].buffer
      BY <1>2, <1>3 DEF Using, OnlyTask
    <2>. QED
      BY <1>1, <1>3, <1>7, <2>1 DEF StreambufsOK
  <1>14. CountsOK' /\ MainOK'
    <2>1. Returned' = Returned /\ Counted' = Counted
      BY <1>2, <1>3, <1>7 DEF Returned, Back, Counted, OnlyTask
    <2>2. \A l \in Tasks : task'[l].pc = "queued" <=> task[l].pc = "queued"
      BY <1>2, <1>3 DEF OnlyTask
    <2>. QED
      BY <1>1, <1>2, <1>3, <1>7, <2>1, <2>2 DEF CountsOK, MainOK, OnlyTask
  <1>. QED
    BY <1>8, <1>9, <1>11, <1>12, <1>13, <1>14 DEF IInv

\* A sleeper is woken, or nobody sleeps.
LEMMA NotifyBufferInv ==
    ASSUME IInv, NEW k \in 1..started, NotifyBuffer(k), crashed' = crashed
    PROVE  IInv'
  <1>1. TypeOK /\ RequestsOK /\ CountsOK /\ MainOK
    BY DEF IInv
  <1>2. k \in Tasks /\ task[k].pc = "notifying" /\ main \notin {"freeing", "finished"}
    BY <1>1, RunningTask DEF NotifyBuffer
  <1>3. OnlyTask(k) /\ task'[k].pc = "counting" /\ Tasks' = Tasks
    <2>1. task' = [task EXCEPT ![k].pc = "counting"]
      BY <1>2, AfterTyped DEF NotifyBuffer
    <2>. QED
      BY <1>1, <1>2, <2>1, OneTask DEF TaskPcs
  <1>4. /\ request' \in [Requests -> RequestType]
        /\ \A q \in Requests :
             request'[q] = request[q] \/ (request[q].pc = "asleep" /\ request'[q].pc = "asked")
    <2>1. CASE request' = request
      BY <1>1, <2>1, Typed
    <2>2. CASE \E r \in Asleep : request' = [request EXCEPT ![r].pc = "asked"]
      <3>1. PICK r \in Requests : request[r].pc = "asleep" /\ request' = [request EXCEPT ![r].pc = "asked"]
        BY <2>2 DEF Asleep
      <3>2. request \in [Requests -> RequestType] /\ [request[r] EXCEPT !.pc = "asked"] \in RequestType
        BY <1>1, Typed DEF RequestType, RequestPcs
      <3>3. request'[r].pc = "asked"
        BY <3>1, <3>2 DEF RequestType
      <3>. QED
        BY <3>1, <3>2, <3>3
    <2>. QED
      BY <2>1, <2>2 DEF NotifyBuffer, Woken
  <1>5. UNCHANGED <<main, next_index, available, occupied_map, streambuf, deleted, content,
                    started, remaining, decompressed>>
    BY DEF NotifyBuffer
  <1>6. AddressesOK' /\ BuffersOK' /\ ContentOK' /\ StreambufsOK' /\ Returned' = Returned
    <2>1. QuietRequests
      BY <1>4 DEF QuietRequests, Idle
    <2>2. QuietTasks
      BY <1>2, <1>3 DEF QuietTasks, OnlyTask, Ending
    <2>. QED
      BY <1>5, <2>1, <2>2, Quiet
  <1>7. TypeOK'
    <2>1. task' \in Seq(TaskType) /\ started' \in 0..Len(task')
      BY <1>1, <1>3, <1>5 DEF OnlyTask, TypeOK
    <2>. QED
      BY <1>1, <1>4, <1>5, <2>1, Zenon DEF TypeOK, RequestType, RequestPcs, TaskType, TaskPcs
  <1>8. RequestsOK'
    BY <1>1, <1>4, <1>5 DEF RequestsOK, Taking, Live
  <1>9. CountsOK' /\ MainOK'
    <2>1. Counted' = Counted /\ \A l \in Tasks : task'[l].pc = "queued" <=> task[l].pc = "queued"
      BY <1>2, <1>3 DEF Counted, OnlyTask
    <2>. QED
      BY <1>1, <1>2, <1>3, <1>5, <1>6, <2>1 DEF CountsOK, MainOK, OnlyTask
  <1>. QED
    BY <1>6, <1>7, <1>8, <1>9 DEF IInv

\* A task that has not counted keeps remaining above 0.
LEMMA CountResultInv ==
    ASSUME IInv, NEW k \in 1..started, CountResult(k), crashed' = crashed
    PROVE  IInv'
  <1>1. TypeOK /\ RequestsOK /\ CountsOK /\ MainOK
    BY DEF IInv
  <1>2. k \in Tasks /\ task[k].pc = "counting" /\ k \notin Counted
    BY <1>1, RunningTask DEF CountResult, Counted
  <1>3. PICK p \in {"waking", "done"} : task' = [task EXCEPT ![k].pc = p]
    BY DEF CountResult
  <1>4. OnlyTask(k) /\ task'[k].pc = p /\ Tasks' = Tasks
    BY <1>1, <1>2, <1>3, OneTask DEF TaskPcs
  <1>5. /\ UNCHANGED <<main, next_index, request, available, occupied_map, streambuf, deleted,
                       content, started, decompressed>>
        /\ remaining' = remaining - 1
    BY DEF CountResult
  <1>6. AddressesOK' /\ BuffersOK' /\ ContentOK' /\ StreambufsOK' /\ Returned' = Returned
    <2>1. QuietRequests
      BY <1>5 DEF QuietRequests
    <2>2. QuietTasks
      BY <1>2, <1>4 DEF QuietTasks, OnlyTask, Ending
    <2>. QED
      BY <1>5, <2>1, <2>2, Quiet
  <1>7. remaining # 0 /\ remaining \in 0..NumRequests
    BY <1>1, <1>2, Counting, Typed
  <1>8. Counted' = Counted \cup {k} /\ Cardinality(Counted') = Cardinality(Counted) + 1
    <2>1. Counted' = Counted \cup {k}
      BY <1>2, <1>4 DEF Counted, OnlyTask
    <2>. QED
      BY <1>1, <1>2, <2>1, Counting, FS_AddElement
  <1>9. TypeOK'
    <2>1. task' \in Seq(TaskType) /\ started' \in 0..Len(task')
      BY <1>1, <1>4, <1>5 DEF OnlyTask, TypeOK
    <2>2. remaining' \in 0..Cardinality(Requests)
      BY <1>5, <1>7, RequestsFinite
    <2>. QED
      BY <1>1, <1>5, <2>1, <2>2, Zenon DEF TypeOK, TaskType, TaskPcs
  <1>10. RequestsOK'
    BY <1>1, <1>5 DEF RequestsOK, Taking, Live
  <1>11. CountsOK'
    <2>1. \A l \in Tasks : task'[l].pc = "queued" <=> task[l].pc = "queued"
      BY <1>2, <1>4 DEF OnlyTask
    <2>2. remaining' = NumRequests - Cardinality(Counted')
      BY <1>1, <1>5, <1>7, <1>8, Counting, RequestsFinite DEF CountsOK
    <2>. QED
      BY <1>1, <1>4, <1>5, <1>6, <2>1, <2>2 DEF CountsOK, OnlyTask
  <1>12. MainOK'
    BY <1>1, <1>5, <1>7 DEF MainOK
  <1>. QED
    BY <1>6, <1>9, <1>10, <1>11, <1>12 DEF IInv

LEMMA WakeMainInv ==
    ASSUME IInv, NEW k \in 1..started, WakeMain(k), crashed' = crashed
    PROVE  IInv'
  <1>1. TypeOK /\ RequestsOK /\ CountsOK /\ MainOK
    BY DEF IInv
  <1>2. k \in Tasks /\ task[k].pc = "waking" /\ main \notin {"freeing", "finished"}
    BY <1>1, RunningTask DEF WakeMain
  <1>3. OnlyTask(k) /\ task'[k].pc = "done" /\ Tasks' = Tasks
    <2>1. task' = [task EXCEPT ![k].pc = "done"]
      BY DEF WakeMain
    <2>. QED
      BY <1>1, <1>2, <2>1, OneTask DEF TaskPcs
  <1>4. UNCHANGED <<next_index, request, available, occupied_map, streambuf, deleted, content,
                    started, remaining, decompressed>>
    BY DEF WakeMain
  <1>5. AddressesOK' /\ BuffersOK' /\ ContentOK' /\ StreambufsOK' /\ Returned' = Returned
    <2>1. QuietRequests
      BY <1>4 DEF QuietRequests
    <2>2. QuietTasks
      BY <1>2, <1>3 DEF QuietTasks, OnlyTask, Ending
    <2>. QED
      BY <1>4, <2>1, <2>2, Quiet
  <1>6. TypeOK'
    <2>1. task' \in Seq(TaskType) /\ started' \in 0..Len(task')
      BY <1>1, <1>3, <1>4 DEF OnlyTask, TypeOK
    <2>2. main' \in {"requesting", "awake", "asleep", "draining", "freeing", "finished"}
      BY <1>1 DEF WakeMain, TypeOK
    <2>. QED
      BY <1>1, <1>4, <2>1, <2>2, Zenon DEF TypeOK, TaskType, TaskPcs
  <1>7. RequestsOK'
    BY <1>1, <1>4 DEF RequestsOK, Taking, Live
  <1>8. CountsOK'
    <2>1. Counted' = Counted /\ \A l \in Tasks : task'[l].pc = "queued" <=> task[l].pc = "queued"
      BY <1>2, <1>3 DEF Counted, OnlyTask
    <2>. QED
      BY <1>1, <1>3, <1>4, <1>5, <2>1 DEF CountsOK, OnlyTask
  <1>9. MainOK'
    BY <1>1, <1>2, <1>4 DEF MainOK, WakeMain
  <1>. QED
    BY <1>5, <1>6, <1>7, <1>8, <1>9 DEF IInv

---------------------------------------------------------------------------
(* The invariant *)

LEMMA ClientInv ==
    ASSUME IInv, NEW r \in Requests, Client(r), crashed' = crashed
    PROVE  IInv'
  <1>1. CASE TakeBuffer(r)
    BY <1>1, WaitForBuffer, GetBuffer
  <1>2. CASE MakeStream(r)
    BY <1>2, MakeStreamInv
  <1>3. CASE Download(r)
    BY <1>3, DownloadInv
  <1>4. CASE Callback(r)
    BY <1>4, CallbackInv
  <1>5. CASE DeleteStream(r)
    BY <1>5, DeleteStreamInv
  <1>. QED
    BY <1>1, <1>2, <1>3, <1>4, <1>5 DEF Client

LEMMA TaskInv ==
    ASSUME IInv, NEW k \in 1..started, Task(k), crashed' = crashed
    PROVE  IInv'
  <1>1. CASE ReadPart(k)
    BY <1>1, ReadPartInv
  <1>2. CASE RenewStreambuf(k)
    BY <1>2, RenewStreambufInv
  <1>3. CASE ReleaseBuffer(k)
    BY <1>3, ReleaseBufferInv
  <1>4. CASE NotifyBuffer(k)
    BY <1>4, NotifyBufferInv
  <1>5. CASE CountResult(k)
    BY <1>5, CountResultInv
  <1>6. CASE WakeMain(k)
    BY <1>6, WakeMainInv
  <1>. QED
    BY <1>1, <1>2, <1>3, <1>4, <1>5, <1>6 DEF Task

\* A failed request, the end and a stuttering step change at most crashed.
LEMMA SameInv ==
    ASSUME IInv, crashed' \in BOOLEAN,
           UNCHANGED <<main, next_index, request, available, occupied_map, streambuf, deleted,
                       content, task, started, remaining, decompressed>>
    PROVE  IInv'
  <1>1. TypeOK /\ RequestsOK /\ CountsOK /\ MainOK
    BY DEF IInv
  <1>2. AddressesOK' /\ BuffersOK' /\ ContentOK' /\ StreambufsOK' /\ Returned' = Returned
    BY Quiet DEF QuietRequests, QuietTasks
  <1>3. TypeOK'
    BY <1>1, Zenon DEF TypeOK
  <1>4. RequestsOK' /\ CountsOK' /\ MainOK'
    BY <1>1, <1>2 DEF RequestsOK, CountsOK, MainOK, Taking, Live, Counted, Tasks
  <1>. QED
    BY <1>2, <1>3, <1>4 DEF IInv

LEMMA StepInv == IInv /\ [Next]_vars => IInv'
  <1>. SUFFICES ASSUME IInv, [Next]_vars PROVE IInv'
    OBVIOUS
  <1>1. CASE Step /\ crashed' = crashed
    <2>1. CASE Main
      BY <1>1, <2>1, RequestFileInv, MainGoesOn DEF Main
    <2>2. CASE StartTask
      BY <1>1, <2>2, StartTaskInv
    <2>3. CASE \E r \in Requests : Client(r)
      BY <1>1, <2>3, ClientInv
    <2>4. CASE \E k \in 1..started : Task(k)
      BY <1>1, <2>4, TaskInv
    <2>. QED
      BY <1>1, <2>1, <2>2, <2>3, <2>4 DEF Step
  <1>2. CASE \E r \in Requests : RequestFails(r)
    <2>1. crashed' \in BOOLEAN
      BY <1>2, Zenon DEF RequestFails
    <2>. QED
      BY <1>2, <2>1, SameInv DEF RequestFails
  <1>3. CASE UNCHANGED vars
    <2>1. crashed' \in BOOLEAN
      BY <1>3, Zenon DEF IInv, TypeOK, vars
    <2>. QED
      BY <1>3, <2>1, SameInv DEF vars
  <1>4. \/ Step /\ crashed' = crashed
        \/ \E r \in Requests : RequestFails(r)
        \/ UNCHANGED vars
    BY Zenon DEF Next, Finished
  <1>. QED
    BY <1>1, <1>2, <1>3, <1>4

\* Every reachable state satisfies the invariant: buffers, streams, bytes and counters
\* of the fetch agree, whatever the client, the allocator and the scheduler do.
THEOREM Invariance == Spec => []IInv
  <1>. QED
    BY InitInv, StepInv, PTL DEF Spec

---------------------------------------------------------------------------
(* What follows from it *)

\* Every variable of the fetch keeps its type: no index leaves the buffers, the requests
\* or the messages, and remaining_results never gets below 0.
THEOREM TypeCorrect == Spec => []TypeOK
  <1>1. IInv => TypeOK
    BY DEF IInv
  <1>. QED
    BY <1>1, Invariance, PTL

\* The queue of s3_getStream, the requests and the tasks of decompressPart share the
\* buffers so that each is at exactly one place, for any number of buffers and requests.
THEOREM BuffersHaveOneUser == Spec => []BufferHasOneUser
  <1>1. ASSUME IInv PROVE BufferHasOneUser
    <2>. SUFFICES ASSUME NEW b \in Buffers
                  PROVE  Cardinality(QueueSlots(b)) + Cardinality(Takers(b))
                           + Cardinality(Users(b)) = 1
      BY DEF BufferHasOneUser
    <2>1. QueueOK /\ TakersOK /\ UsersOK /\ NoneLost
      BY <1>1 DEF IInv, BuffersOK
    <2>2. /\ QueueSlots(b) = {i \in Queued : available[i] = b}
          /\ Takers(b) = {r \in Requests : Taking(r) /\ request[r].buffer = b}
          /\ Users(b) = {k \in Tasks : Using(k) /\ task[k].buffer = b}
      BY DEF QueueSlots, Takers, Users, Queued, Tasks, Taking, Using
    <2>3. Cardinality({}) = 0 /\ \A x : Cardinality({x}) = 1
      BY FS_EmptySet, FS_Singleton
    <2>4. CASE \E i \in Queued : available[i] = b
      <3>1. PICK i \in Queued : available[i] = b
        BY <2>4
      <3>2. QueueSlots(b) = {i} /\ Takers(b) = {} /\ Users(b) = {}
        BY <2>1, <2>2, <3>1 DEF QueueOK
      <3>. QED
        BY <2>3, <3>2
    <2>5. CASE \E r \in Requests : Taking(r) /\ request[r].buffer = b
      <3>1. PICK r \in Requests : Taking(r) /\ request[r].buffer = b
        BY <2>5
      <3>2. Takers(b) = {r}
        BY <2>1, <2>2, <3>1 DEF TakersOK
      <3>3. QueueSlots(b) = {} /\ Users(b) = {}
        BY <2>1, <2>2, <3>1 DEF QueueOK, TakersOK
      <3>. QED
        BY <2>3, <3>2, <3>3
    <2>6. CASE \E k \in Tasks : Using(k) /\ task[k].buffer = b
      <3>1. PICK k \in Tasks : Using(k) /\ task[k].buffer = b
        BY <2>6
      <3>2. Users(b) = {k}
        BY <2>1, <2>2, <3>1 DEF UsersOK
      <3>3. QueueSlots(b) = {} /\ Takers(b) = {}
        BY <2>1, <2>2, <3>1 DEF QueueOK, TakersOK
      <3>. QED
        BY <2>3, <3>2, <3>3
    <2>. QED
      BY <2>1, <2>4, <2>5, <2>6 DEF NoneLost
  <1>. QED
    BY <1>1, Invariance, PTL

\* s3_free_buffers runs after the last task has replaced its streambuf, so the objects it
\* deletes are under no stream, although the client may delete its streams later.
THEOREM StreambufsOutliveStreams == Spec => []StreambufOutlivesStream
  <1>1. ASSUME IInv PROVE StreambufOutlivesStream
    <2>1. /\ TypeOK /\ RequestsOK /\ StreambufsOK /\ CountsOK /\ MainOK
      BY <1>1 DEF IInv
    <2>2. CASE main # "finished"
      BY <2>1, <2>2 DEF MainOK, StreambufOutlivesStream
    <2>3. CASE main = "finished"
      <3>1. Returned = Requests /\ \A k \in Tasks : task[k].pc = "done"
        BY <2>1, <2>3, Counting DEF MainOK
      <3>2. \A r \in Requests : Live(r) => request[r].pc = "returned"
        BY <3>1 DEF Live, Returned, Back
      <3>3. \A r \in Requests : Live(r) => request[r].object # streambuf[request[r].buffer]
        BY <2>1, <3>1, <3>2 DEF StreambufsOK, Using
      <3>4. deleted = {<<b, streambuf[b]>> : b \in Buffers}
        BY <2>1, <2>3 DEF MainOK
      <3>. QED
        BY <3>3, <3>4 DEF StreambufOutlivesStream
    <2>. QED
      BY <2>2, <2>3
  <1>. QED
    BY <1>1, Invariance, PTL

\* Each request is decompressed at most once, and when main has left s3_wait_for_end
\* exactly once: no callback is lost, and no buffer is filled again before it was read.
DecompressedOnce ==
    /\ \A r \in Requests : decompressed[r] <= 1
    /\ main \in {"draining", "freeing", "finished"} => \A r \in Requests : decompressed[r] = 1

\* The first half of EachPartOnce, and the second one request by request.
THEOREM RequestsDecompressedOnce == Spec => []DecompressedOnce
  <1>1. ASSUME IInv PROVE DecompressedOnce
    <2>1. TypeOK /\ ContentOK /\ CountsOK /\ MainOK
      BY <1>1 DEF IInv
    <2>2. \A r \in Requests : decompressed[r] \in {0, 1}
      BY <2>1 DEF ContentOK
    <2>3. CASE main \in {"draining", "freeing", "finished"}
      <3>1. Returned = Requests /\ Counted = Tasks
        BY <2>1, <2>3, Counting DEF MainOK
      <3>2. \A r \in Requests : Back(r)
        BY <3>1 DEF Returned
      <3>3. \A k \in Tasks : ~Reading(k)
        BY <3>1 DEF Counted, Reading
      <3>. QED
        BY <2>1, <2>2, <3>2, <3>3 DEF ContentOK, DecompressedOnce
    <2>. QED
      BY <2>2, <2>3 DEF DecompressedOnce
  <1>. QED
    BY <1>1, Invariance, PTL

\* Counted part by part: none is decompressed more often than it was asked for, and when
\* main has left its wait, each selected part was decompressed in every repetition, as
\* often as its column was selected.
THEOREM PartsDecompressedOnce == Spec => []EachPartOnce
  <1>1. ASSUME DecompressedOnce PROVE EachPartOnce
    <2>1. ASSUME main \in {"draining", "freeing", "finished"},
                 NEW i \in 1..Len(Columns), NEW p \in 0..(NumParts[Columns[i]] - 1)
          PROVE  Cardinality({r \in Requests : KeyOf(r) = <<Columns[i], p>> /\ decompressed[r] = 1})
                   = Reps * Cardinality({j \in 1..Len(Columns) : Columns[j] = Columns[i]})
      <3>1. \A r \in Requests : decompressed[r] = 1
        BY <1>1, <2>1, Zenon DEF DecompressedOnce
      <3>2. {r \in Requests : KeyOf(r) = <<Columns[i], p>> /\ decompressed[r] = 1}
              = {r \in Requests : KeyOf(r) = <<Columns[i], p>>}
        BY <3>1, Zenon
      <3>. QED
        BY <3>2, RequestsOfPart, Zenon
    <2>2. \A r \in Requests : decompressed[r] <= 1
      BY <1>1 DEF DecompressedOnce
    <2>. QED
      BY <2>1, <2>2, Zenon DEF EachPartOnce
  <1>. QED
    BY <1>1, RequestsDecompressedOnce, PTL
=============================================================================
