---------------------------- MODULE InductionFacts ----------------------------
(***************************************************************************)
(* What the proofs share.                                                  *)
(*                                                                         *)
(* Induction over the natural numbers in a form the provers can use: the   *)
(* hypothesis is about a set, not about an operator.  From it, that a      *)
(* function defined by recursion over an interval exists, and what the     *)
(* fold of a sequence that adds up numbers is, in whatever order the fold  *)
(* takes them; what \div, % and the powers of two are; that finitely many   *)
(* numbers have a least one; that the members of a finite set, ranked by a *)
(* strict total order, rise and leave none out; where the parts of a       *)
(* flattened sequence lie, and that different parts of it are no longer    *)
(* than all of it.                                                         *)
(***************************************************************************)
EXTENDS SequencesExt, Integers, FiniteSetTheorems, SequenceTheorems, WellFoundedInduction, TLAPS

LEMMA LeastNumber ==
    ASSUME NEW T, T \subseteq Nat, T # {}
    PROVE  \E m \in T : \A n \in T : m <= n
  <1>1. PICK m \in T : \A n \in T : <<n, m>> \notin OpToRel(<, Nat)
    BY NatLessThanWellFounded, WFMin, Zenon
  <1>2. \A n \in T : ~(n < m)
    BY <1>1, Zenon DEF OpToRel
  <1>. QED
    BY <1>2

LEMMA SetInduction ==
    ASSUME NEW S, 0 \in S, \A n \in Nat : n \in S => n + 1 \in S
    PROVE  Nat \subseteq S
  <1>. SUFFICES ASSUME Nat \ S # {} PROVE FALSE
    BY Zenon
  <1>1. Nat \ S \subseteq Nat
    OBVIOUS
  <1>2. PICK m \in Nat \ S : \A n \in Nat \ S : m <= n
    BY <1>1, LeastNumber, Zenon
  <1>3. m - 1 \in Nat
    BY <1>2
  <1>4. m - 1 \in S
    BY <1>2, <1>3
  <1>. QED
    BY <1>2, <1>3, <1>4

LEMMA IntervalInduction ==
    ASSUME NEW n \in Nat, NEW S, 0 \in S, \A i \in 0..(n - 1) : i \in S => i + 1 \in S
    PROVE  0..n \subseteq S
  <1>. DEFINE T == {i \in Nat : i <= n => i \in S}
  <1>1. 0 \in T
    OBVIOUS
  <1>2. \A i \in Nat : i \in T => i + 1 \in T
    OBVIOUS
  <1>. HIDE DEF T
  <1>3. Nat \subseteq T
    BY <1>1, <1>2, SetInduction
  <1>. QED
    BY <1>3 DEF T

\* f is defined by recursion: its first value, and each other one from the one before.
FromZero(f, n, base, step) == f[0] = base /\ \A i \in 1..n : f[i] = step[<<i, f[i - 1]>>]

FromOne(f, n, base, step) == f[1] = base /\ \A i \in 2..n : f[i] = step[<<i, f[i - 1]>>]

\* There is such a function for every first value and every step.
LEMMA RecursionFromZero ==
    ASSUME NEW n \in Nat, NEW V, NEW base \in V, NEW step \in [(1..n) \X V -> V]
    PROVE  \E f \in [0..n -> V] : FromZero(f, n, base, step)
  <1>. DEFINE Partial(m, f) == FromZero(f, m, base, step)
              S == {m \in 0..n : \E f \in [0..m -> V] : Partial(m, f)}
  <1>. USE DEF FromZero
  <1>1. 0 \in S
    <2>1. PICK f : f = [i \in 0..0 |-> base]
      OBVIOUS
    <2>2. f \in [0..0 -> V] /\ Partial(0, f)
      BY <2>1
    <2>3. 0 \in 0..n
      OBVIOUS
    <2>. QED
      BY <2>2, <2>3
  <1>2. ASSUME NEW m \in 0..(n - 1), m \in S
        PROVE  m + 1 \in S
    <2>1. PICK f \in [0..m -> V] : Partial(m, f)
      BY <1>2
    <2>2. PICK g : g = [i \in 0..(m + 1) |-> IF i = m + 1 THEN step[<<m + 1, f[m]>>] ELSE f[i]]
      OBVIOUS
    <2>3. m + 1 \in 1..n /\ m \in 0..m /\ f[m] \in V /\ step[<<m + 1, f[m]>>] \in V
      OBVIOUS
    <2>4. g \in [0..(m + 1) -> V]
      BY <2>2, <2>3
    <2>5. g[m + 1] = step[<<m + 1, f[m]>>] /\ \A i \in 0..m : g[i] = f[i]
      BY <2>2
    <2>6. \A i \in 1..(m + 1) : g[i] = step[<<i, g[i - 1]>>]
      <3>1. TAKE i \in 1..(m + 1)
      <3>2. CASE i = m + 1
        <4>1. i - 1 = m /\ m \in 0..m
          BY <3>2
        <4>. QED
          BY <2>5, <3>2, <4>1
      <3>3. CASE i # m + 1
        <4>1. i \in 1..m /\ i \in 0..m /\ i - 1 \in 0..m
          BY <3>3
        <4>. QED
          BY <2>1, <2>5, <4>1
      <3>. QED
        BY <3>2, <3>3
    <2>7. Partial(m + 1, g)
      BY <2>1, <2>5, <2>6
    <2>. QED
      BY <2>4, <2>7
  <1>3. 0..n \subseteq S
    <2>. HIDE DEF S
    <2>. QED
      BY <1>1, <1>2, IntervalInduction
  <1>. QED
    BY <1>3

\* The same from 1, in the form of a recursive definition.
LEMMA RecursionFromOne ==
    ASSUME NEW n \in Nat \ {0}, NEW V, NEW base \in V, NEW step \in [(2..n) \X V -> V]
    PROVE  \E f \in [1..n -> V] : FromOne(f, n, base, step)
  <1>1. PICK down \in [(1..(n - 1)) \X V -> V] :
            \A i \in 1..(n - 1), v \in V : down[<<i, v>>] = step[<<i + 1, v>>]
    <2>1. PICK d : d = [p \in (1..(n - 1)) \X V |-> step[<<p[1] + 1, p[2]>>]]
      OBVIOUS
    <2>2. \A p \in (1..(n - 1)) \X V : <<p[1] + 1, p[2]>> \in (2..n) \X V
      OBVIOUS
    <2>3. d \in [(1..(n - 1)) \X V -> V]
      BY <2>1, <2>2
    <2>4. \A i \in 1..(n - 1), v \in V : d[<<i, v>>] = step[<<i + 1, v>>]
      BY <2>1
    <2>. QED
      BY <2>3, <2>4
  <1>2. PICK m \in Nat : m = n - 1
    OBVIOUS
  <1>3. down \in [(1..m) \X V -> V]
    BY <1>1, <1>2
  <1>4. PICK g \in [0..m -> V] : FromZero(g, m, base, down)
    BY <1>3, RecursionFromZero, Zenon
  <1>5. PICK f \in [1..n -> V] : \A i \in 1..n : f[i] = g[i - 1]
    <2>1. \A i \in 1..n : i - 1 \in 0..m
      BY <1>2
    <2>2. PICK h : h = [i \in 1..n |-> g[i - 1]]
      OBVIOUS
    <2>3. h \in [1..n -> V] /\ \A i \in 1..n : h[i] = g[i - 1]
      BY <2>1, <2>2
    <2>. QED
      BY <2>3, Zenon
  <1>6. f[1] = base
    BY <1>2, <1>4, <1>5 DEF FromZero
  <1>7. ASSUME NEW i \in 2..n
        PROVE  f[i] = step[<<i, f[i - 1]>>]
    <2>1. i - 1 \in 1..m /\ i \in 1..n /\ i - 1 \in 1..n /\ (i - 1) - 1 \in 0..m
      BY <1>2
    <2>2. f[i] = g[i - 1] /\ f[i - 1] = g[(i - 1) - 1] /\ f[i - 1] \in V
      BY <1>5, <2>1
    <2>3. g[i - 1] = down[<<i - 1, g[(i - 1) - 1]>>]
      BY <1>4, <2>1 DEF FromZero
    <2>4. down[<<i - 1, f[i - 1]>>] = step[<<(i - 1) + 1, f[i - 1]>>]
      BY <1>1, <1>2, <2>1, <2>2
    <2>5. (i - 1) + 1 = i
      OBVIOUS
    <2>. QED
      BY <2>2, <2>3, <2>4, <2>5
  <1>. QED
    BY <1>6, <1>7 DEF FromOne

---------------------------------------------------------------------------
(* Sums *)

\* w is added up over a set by taking some member of it out, as the folds do.
SumsTo(w, n, sum) ==
    \A s \in SUBSET (1..n) :
        sum[s] = IF s = {} THEN 0
                 ELSE w[CHOOSE x \in s : TRUE] + sum[s \ {CHOOSE x \in s : TRUE}]

\* The sum in order, of the members of s alone.
OnlyOf(w, n, s) == [i \in 1..n |-> IF i \in s THEN w[i] ELSE 0]

RunningSum(v, n, total) ==
    /\ total \in [0..n -> Nat] /\ total[0] = 0
    /\ \A i \in 1..n : total[i] = total[i - 1] + v[i]

LEMMA RunningSumExists ==
    ASSUME NEW n \in Nat, NEW v \in [1..n -> Nat]
    PROVE  \E total : RunningSum(v, n, total)
  <1>1. PICK step : step = [p \in (1..n) \X Nat |-> p[2] + v[p[1]]]
    OBVIOUS
  <1>2. step \in [(1..n) \X Nat -> Nat]
    BY <1>1
  <1>3. PICK f \in [0..n -> Nat] : FromZero(f, n, 0, step)
    BY <1>2, RecursionFromZero
  <1>4. ASSUME NEW i \in 1..n
        PROVE  f[i] = f[i - 1] + v[i]
    <2>1. i - 1 \in 0..n /\ f[i - 1] \in Nat
      OBVIOUS
    <2>2. f[i] = step[<<i, f[i - 1]>>]
      BY <1>3 DEF FromZero
    <2>3. step[<<i, f[i - 1]>>] = f[i - 1] + v[i]
      BY <1>1, <2>1
    <2>. QED
      BY <2>2, <2>3
  <1>. QED
    BY <1>3, <1>4 DEF RunningSum, FromZero

\* Taking a member out of the set takes its number off the sum.
LEMMA RunningSumWithout ==
    ASSUME NEW n \in Nat, NEW w \in [1..n -> Nat], NEW s \in SUBSET (1..n), NEW x \in s,
           NEW t, RunningSum(OnlyOf(w, n, s), n, t),
           NEW u, RunningSum(OnlyOf(w, n, s \ {x}), n, u)
    PROVE  t[n] = u[n] + w[x]
  <1>. DEFINE S == {i \in 0..n : (i >= x => t[i] = u[i] + w[x]) /\ (i < x => t[i] = u[i])}
  <1>1. x \in 1..n /\ w[x] \in Nat /\ t \in [0..n -> Nat] /\ u \in [0..n -> Nat]
    BY DEF RunningSum
  <1>2. 0 \in S
    BY <1>1 DEF RunningSum
  <1>3. ASSUME NEW i \in 0..(n - 1), i \in S
        PROVE  i + 1 \in S
    <2>1. i + 1 \in 1..n /\ (i + 1) - 1 = i /\ w[i + 1] \in Nat /\ t[i] \in Nat /\ u[i] \in Nat
      BY <1>1
    <2>2. t[i + 1] = t[i] + (IF i + 1 \in s THEN w[i + 1] ELSE 0)
      BY <2>1 DEF RunningSum, OnlyOf
    <2>3. u[i + 1] = u[i] + (IF i + 1 \in s \ {x} THEN w[i + 1] ELSE 0)
      BY <2>1 DEF RunningSum, OnlyOf
    <2>4. (i >= x => t[i] = u[i] + w[x]) /\ (i < x => t[i] = u[i])
      BY <1>3
    <2>5. (i + 1 >= x => t[i + 1] = u[i + 1] + w[x]) /\ (i + 1 < x => t[i + 1] = u[i + 1])
      <3>. HIDE DEF S
      <3>1. CASE i + 1 = x
        <4>1. t[i + 1] = t[i] + w[i + 1] /\ u[i + 1] = u[i] + 0
          BY <2>2, <2>3, <3>1
        <4>2. i < x
          BY <1>1, <3>1
        <4>3. t[i] = u[i] /\ w[i + 1] = w[x]
          BY <2>4, <3>1, <4>2, Zenon
        <4>. QED
          BY <1>1, <2>1, <3>1, <4>1, <4>3
      <3>2. CASE i + 1 # x
        <4>1. i + 1 \in s <=> i + 1 \in s \ {x}
          BY <3>2
        <4>2. PICK d \in Nat : t[i + 1] = t[i] + d /\ u[i + 1] = u[i] + d
          <5>1. CASE i + 1 \in s
            BY <2>1, <2>2, <2>3, <4>1, <5>1
          <5>2. CASE i + 1 \notin s
            BY <2>1, <2>2, <2>3, <4>1, <5>2
          <5>. QED
            BY <5>1, <5>2
        <4>3. CASE i >= x
          <5>1. t[i] = u[i] + w[x]
            BY <2>4, <4>3, Zenon
          <5>2. t[i + 1] = u[i + 1] + w[x]
            BY <1>1, <2>1, <4>2, <5>1, SMTT(30)
          <5>. QED
            BY <1>1, <4>3, <5>2
        <4>4. CASE i < x
          <5>1. t[i] = u[i]
            BY <2>4, <4>4, Zenon
          <5>2. t[i + 1] = u[i + 1]
            BY <4>2, <5>1
          <5>. QED
            BY <1>1, <3>2, <4>4, <5>2
        <4>. QED
          BY <1>1, <4>3, <4>4
      <3>. QED
        BY <3>1, <3>2
    <2>. QED
      BY <2>5
  <1>4. 0..n \subseteq S
    <2>. HIDE DEF S
    <2>. QED
      BY <1>2, <1>3, IntervalInduction
  <1>. QED
    BY <1>1, <1>4

LEMMA RunningSumOfNothing ==
    ASSUME NEW n \in Nat, NEW w \in [1..n -> Nat], NEW t, RunningSum(OnlyOf(w, n, {}), n, t)
    PROVE  t[n] = 0
  <1>. DEFINE S == {i \in 0..n : t[i] = 0}
  <1>1. 0 \in S
    BY DEF RunningSum
  <1>2. ASSUME NEW i \in 0..(n - 1), i \in S
        PROVE  i + 1 \in S
    <2>1. i + 1 \in 1..n /\ (i + 1) - 1 = i /\ i + 1 \in 0..n
      OBVIOUS
    <2>2. t[i + 1] = t[i] + 0
      BY <2>1 DEF RunningSum, OnlyOf
    <2>. QED
      BY <1>2, <2>1, <2>2
  <1>3. 0..n \subseteq S
    <2>. HIDE DEF S
    <2>. QED
      BY <1>1, <1>2, IntervalInduction
  <1>. QED
    BY <1>3

LEMMA OnlyOfType ==
    ASSUME NEW n \in Nat, NEW w \in [1..n -> Nat], NEW s
    PROVE  OnlyOf(w, n, s) \in [1..n -> Nat]
  BY DEF OnlyOf

LEMMA FiniteWithout ==
    ASSUME NEW n \in Nat, NEW s \in SUBSET (1..n)
    PROVE  /\ IsFiniteSet(s) /\ Cardinality(s) \in Nat
           /\ s # {} => Cardinality(s) # 0
           /\ \A x \in s : Cardinality(s \ {x}) = Cardinality(s) - 1
  <1>1. IsFiniteSet(1..n)
    BY FS_Interval
  <1>2. IsFiniteSet(s)
    BY <1>1, FS_Subset
  <1>. QED
    BY <1>2, FS_CardinalityType, FS_EmptySet, FS_RemoveElement

\* In whatever order the fold takes the members, it comes to the sum in order.
LEMMA FoldIsSumOf ==
    ASSUME NEW n \in Nat, NEW w \in [1..n -> Nat], NEW sum, SumsTo(w, n, sum)
    PROVE  \A s \in SUBSET (1..n) : \A t : RunningSum(OnlyOf(w, n, s), n, t) => sum[s] = t[n]
  <1>. DEFINE S == {m \in Nat : \A s \in SUBSET (1..n) : Cardinality(s) = m =>
                       \A t : RunningSum(OnlyOf(w, n, s), n, t) => sum[s] = t[n]}
  <1>1. 0 \in S
    <2>. SUFFICES ASSUME NEW s \in SUBSET (1..n), Cardinality(s) = 0,
                         NEW t, RunningSum(OnlyOf(w, n, s), n, t)
                  PROVE  sum[s] = t[n]
      OBVIOUS
    <2>1. s = {}
      BY FiniteWithout
    <2>2. t[n] = 0
      BY <2>1, RunningSumOfNothing
    <2>3. sum[s] = 0
      BY <2>1 DEF SumsTo
    <2>. QED
      BY <2>2, <2>3
  <1>2. ASSUME NEW m \in Nat, m \in S
        PROVE  m + 1 \in S
    <2>. m + 1 \in Nat
      OBVIOUS
    <2>. SUFFICES ASSUME NEW s \in SUBSET (1..n), Cardinality(s) = m + 1,
                         NEW t, RunningSum(OnlyOf(w, n, s), n, t)
                  PROVE  sum[s] = t[n]
      BY Zenon
    <2>1. s # {}
      BY FS_EmptySet
    <2>2. PICK x \in s : x = CHOOSE y \in s : TRUE
      BY <2>1
    <2>3. PICK r \in SUBSET (1..n) : r = s \ {x}
      OBVIOUS
    <2>4. Cardinality(r) = m
      <3>1. Cardinality(r) = Cardinality(s) - 1
        BY <2>3, FiniteWithout
      <3>. QED
        BY <3>1
    <2>5. PICK u : RunningSum(OnlyOf(w, n, r), n, u)
      BY OnlyOfType, RunningSumExists
    <2>6. sum[r] = u[n]
      BY <1>2, <2>4, <2>5
    <2>7. t[n] = u[n] + w[x]
      BY <2>3, <2>5, RunningSumWithout
    <2>8. sum[s] = w[x] + sum[r]
      BY <2>1, <2>2, <2>3, Zenon DEF SumsTo
    <2>9. w[x] \in Nat /\ u[n] \in Nat
      BY <2>5 DEF RunningSum
    <2>. QED
      BY <2>6, <2>7, <2>8, <2>9
  <1>3. Nat \subseteq S
    <2>. HIDE DEF S
    <2>. QED
      BY <1>1, <1>2, SetInduction
  <1>4. ASSUME NEW s \in SUBSET (1..n), NEW t, RunningSum(OnlyOf(w, n, s), n, t)
        PROVE  sum[s] = t[n]
    <2>1. Cardinality(s) \in S
      BY <1>3, FiniteWithout
    <2>. QED
      BY <1>4, <2>1
  <1>. QED
    BY <1>4

LEMMA FoldIsSum ==
    ASSUME NEW n \in Nat, NEW w \in [1..n -> Nat], NEW sum, SumsTo(w, n, sum),
           NEW t, RunningSum(w, n, t)
    PROVE  sum[1..n] = t[n]
  <1>1. OnlyOf(w, n, 1..n) = w
    BY DEF OnlyOf
  <1>. QED
    BY <1>1, FoldIsSumOf

\* The fold exists.
LEMMA FoldExists ==
    ASSUME NEW n \in Nat, NEW w \in [1..n -> Nat]
    PROVE  \E sum : sum = [s \in SUBSET (1..n) |->
               IF s = {} THEN 0
               ELSE w[CHOOSE x \in s : TRUE] + sum[s \ {CHOOSE x \in s : TRUE}]]
  <1>. DEFINE T(s) == CHOOSE t : RunningSum(OnlyOf(w, n, s), n, t)
  <1>1. ASSUME NEW s \in SUBSET (1..n)
        PROVE  RunningSum(OnlyOf(w, n, s), n, T(s))
    BY OnlyOfType, RunningSumExists
  <1>. HIDE DEF T
  <1>2. PICK sum : sum = [s \in SUBSET (1..n) |-> T(s)[n]]
    OBVIOUS
  <1>3. ASSUME NEW s \in SUBSET (1..n)
        PROVE  sum[s] = IF s = {} THEN 0
                        ELSE w[CHOOSE x \in s : TRUE] + sum[s \ {CHOOSE x \in s : TRUE}]
    <2>1. CASE s = {}
      <3>1. T(s)[n] = 0
        BY <1>1, <2>1, RunningSumOfNothing
      <3>. QED
        BY <1>2, <2>1, <3>1
    <2>2. CASE s # {}
      <3>1. PICK x \in s : x = CHOOSE y \in s : TRUE
        BY <2>2
      <3>2. PICK r \in SUBSET (1..n) : r = s \ {x}
        OBVIOUS
      <3>3. T(s)[n] = T(r)[n] + w[x]
        BY <1>1, <3>2, RunningSumWithout
      <3>4. T(r)[n] \in Nat /\ w[x] \in Nat
        BY <1>1 DEF RunningSum
      <3>5. sum[s] = w[x] + sum[r]
        BY <1>2, <3>3, <3>4
      <3>. QED
        BY <2>2, <3>1, <3>2, <3>5, Zenon
    <2>. QED
      BY <2>1, <2>2
  <1>4. sum = [s \in SUBSET (1..n) |->
                 IF s = {} THEN 0
                 ELSE w[CHOOSE x \in s : TRUE] + sum[s \ {CHOOSE x \in s : TRUE}]]
    <2>1. PICK g : g = [s \in SUBSET (1..n) |->
                 IF s = {} THEN 0
                 ELSE w[CHOOSE x \in s : TRUE] + sum[s \ {CHOOSE x \in s : TRUE}]]
      OBVIOUS
    <2>2. \A s \in SUBSET (1..n) : sum[s] = g[s]
      BY <1>3, <2>1, Zenon
    <2>3. sum = g
      BY <1>2, <2>1, <2>2, Zenon
    <2>. QED
      BY <2>1, <2>3
  <1>. QED
    BY <1>4

---------------------------------------------------------------------------
(* FlattenSeq *)

\* The values of a function that satisfies such a recursion are of the type of its first.
LEMMA FromOneType ==
    ASSUME NEW n \in Nat \ {0}, NEW V, NEW f, f[1] \in V,
           \A i \in 2..n : f[i - 1] \in V => f[i] \in V
    PROVE  \A i \in 1..n : f[i] \in V
  <1>. DEFINE S == {i \in 0..n : i > 0 => f[i] \in V}
  <1>1. 0 \in S
    OBVIOUS
  <1>2. ASSUME NEW i \in 0..(n - 1), i \in S
        PROVE  i + 1 \in S
    <2>1. CASE i = 0
      <3>1. 0 + 1 = 1 /\ i + 1 \in 0..n
        OBVIOUS
      <3>. QED
        BY <2>1, <3>1
    <2>2. CASE i # 0
      <3>1. i + 1 \in 2..n /\ (i + 1) - 1 = i /\ i > 0 /\ i + 1 \in 0..n
        BY <2>2
      <3>2. f[i] \in V
        BY <1>2, <3>1
      <3>3. f[i + 1] \in V
        BY <3>1, <3>2
      <3>. QED
        BY <3>1, <3>3
    <2>. QED
      BY <2>1, <2>2
  <1>3. 0..n \subseteq S
    <2>. HIDE DEF S
    <2>. QED
      BY <1>1, <1>2, IntervalInduction
  <1>. QED
    BY <1>3

Flattening(f, seqs) ==
    /\ f[1] = seqs[1] /\ \A i \in 2..Len(seqs) : f[i] = f[i - 1] \o seqs[i]
    /\ FlattenSeq(seqs) = f[Len(seqs)]

LEMMA FlattenDef ==
    ASSUME NEW n \in Nat \ {0}, NEW X, NEW seqs \in Seq(Seq(X)), Len(seqs) = n
    PROVE  \E f \in [1..n -> Seq(X)] : Flattening(f, seqs)
  <1>1. n = Len(seqs)
    OBVIOUS
  <1>2. \A i \in 1..n : seqs[i] \in Seq(X)
    BY <1>1
  <1>3. 1 \in 1..n
    OBVIOUS
  <1>4. seqs[1] \in Seq(X)
    BY <1>2, <1>3
  <1>5. PICK step : step = [p \in (2..n) \X Seq(X) |-> p[2] \o seqs[p[1]]]
    OBVIOUS
  <1>6. step \in [(2..n) \X Seq(X) -> Seq(X)]
    <2>1. \A p \in (2..n) \X Seq(X) : p[2] \o seqs[p[1]] \in Seq(X)
      BY <1>2, ConcatProperties
    <2>. QED
      BY <1>5, <2>1
  <1>7. PICK g \in [1..n -> Seq(X)] : FromOne(g, n, seqs[1], step)
    BY <1>4, <1>6, RecursionFromOne
  <1>8. ASSUME NEW i \in 2..n
        PROVE  g[i] = g[i - 1] \o seqs[i]
    <2>1. g[i] = step[<<i, g[i - 1]>>] /\ i - 1 \in 1..n /\ g[i - 1] \in Seq(X)
      BY <1>7 DEF FromOne
    <2>. QED
      BY <1>5, <2>1
  <1>9. g = [i \in 1..n |-> IF i = 1 THEN seqs[i] ELSE g[i - 1] \o seqs[i]]
    <2>1. PICK h : h = [i \in 1..n |-> IF i = 1 THEN seqs[i] ELSE g[i - 1] \o seqs[i]]
      OBVIOUS
    <2>2. ASSUME NEW i \in 1..n
          PROVE  g[i] = h[i]
      <3>1. CASE i = 1
        BY <1>7, <2>1, <3>1 DEF FromOne
      <3>2. CASE i # 1
        <4>1. i \in 2..n
          BY <3>2
        <4>. QED
          BY <1>8, <2>1, <3>2, <4>1
      <3>. QED
        BY <3>1, <3>2
    <2>. QED
      BY <2>1, <2>2
  <1>. DEFINE f == CHOOSE h : h = [i \in 1..n |-> IF i = 1 THEN seqs[i] ELSE h[i - 1] \o seqs[i]]
  <1>10. f = [i \in 1..n |-> IF i = 1 THEN seqs[i] ELSE f[i - 1] \o seqs[i]]
    BY <1>9, Zenon
  <1>11. FlattenSeq(seqs) = f[n]
    BY <1>1, Zenon DEF FlattenSeq
  <1>. HIDE DEF f
  <1>12. f[1] = seqs[1]
    BY <1>3, <1>10
  <1>13. \A i \in 2..n : f[i] = f[i - 1] \o seqs[i]
    <2>1. \A i \in 2..n : i \in 1..n /\ i # 1
      OBVIOUS
    <2>. QED
      BY <1>10, <2>1
  <1>14. \A i \in 1..n : f[i] \in Seq(X)
    <2>1. \A i \in 2..n : f[i - 1] \in Seq(X) => f[i] \in Seq(X)
      <3>. SUFFICES ASSUME NEW i \in 2..n, f[i - 1] \in Seq(X)
                    PROVE  f[i] \in Seq(X)
        OBVIOUS
      <3>1. seqs[i] \in Seq(X)
        BY <1>2
      <3>2. f[i - 1] \o seqs[i] \in Seq(X)
        BY <3>1, ConcatProperties
      <3>. QED
        BY <1>13, <3>2
    <2>. QED
      BY <1>4, <1>12, <2>1, FromOneType
  <1>15. f \in [1..n -> Seq(X)]
    BY <1>10, <1>14
  <1>. QED
    BY <1>1, <1>11, <1>12, <1>13, <1>15 DEF Flattening

LEMMA FlattenAppend ==
    ASSUME NEW X, NEW seqs \in Seq(Seq(X)), NEW s \in Seq(X)
    PROVE  FlattenSeq(Append(seqs, s)) = FlattenSeq(seqs) \o s
  <1>1. PICK more \in Seq(Seq(X)) : more = Append(seqs, s)
    BY AppendProperties
  <1>2. PICK n \in Nat : n = Len(seqs)
    OBVIOUS
  <1>3. Len(more) = n + 1 /\ more[n + 1] = s /\ \A i \in 1..n : more[i] = seqs[i]
    BY <1>1, <1>2, AppendProperties
  <1>4. PICK f \in [1..(n + 1) -> Seq(X)] : Flattening(f, more)
    <2>1. n + 1 \in Nat \ {0}
      OBVIOUS
    <2>. QED
      BY <1>3, <2>1, FlattenDef, Zenon
  <1>5. CASE n = 0
    <2>1. seqs = <<>>
      BY <1>2, <1>5, EmptySeq
    <2>2. FlattenSeq(seqs) = <<>>
      BY <2>1 DEF FlattenSeq
    <2>3. FlattenSeq(more) = s
      BY <1>3, <1>4, <1>5 DEF Flattening
    <2>. QED
      BY <1>1, <2>2, <2>3, ConcatEmptySeq
  <1>6. CASE n # 0
    <2>1. PICK g \in [1..n -> Seq(X)] : Flattening(g, seqs)
      <3>1. n \in Nat \ {0}
        BY <1>6
      <3>. QED
        BY <1>2, <3>1, FlattenDef, Zenon
    <2>. DEFINE S == {i \in 0..n : i > 0 => f[i] = g[i]}
    <2>2. 0 \in S
      OBVIOUS
    <2>3. ASSUME NEW i \in 0..(n - 1), i \in S
          PROVE  i + 1 \in S
      <3>1. i + 1 \in 1..n
        OBVIOUS
      <3>2. CASE i = 0
        <4>1. i + 1 = 1 /\ f[1] = more[1] /\ g[1] = seqs[1] /\ more[1] = seqs[1]
          BY <1>3, <1>4, <2>1, <3>1, <3>2 DEF Flattening
        <4>2. f[i + 1] = g[i + 1]
          BY <4>1
        <4>. QED
          BY <4>2
      <3>3. CASE i # 0
        <4>1. i + 1 \in 2..Len(more) /\ i + 1 \in 2..Len(seqs) /\ (i + 1) - 1 = i /\ i > 0
          BY <1>2, <1>3, <3>3
        <4>2. f[i + 1] = f[i] \o more[i + 1] /\ g[i + 1] = g[i] \o seqs[i + 1]
          BY <1>4, <2>1, <4>1 DEF Flattening
        <4>3. f[i] = g[i] /\ more[i + 1] = seqs[i + 1]
          BY <1>3, <2>3, <3>1, <4>1
        <4>4. f[i + 1] = g[i + 1]
          BY <4>2, <4>3
        <4>. QED
          BY <4>4
      <3>. QED
        BY <3>2, <3>3
    <2>4. 0..n \subseteq S
      <3>. HIDE DEF S
      <3>. QED
        BY <2>2, <2>3, IntervalInduction
    <2>5. f[n] = g[n]
      BY <1>6, <2>4
    <2>6. FlattenSeq(more) = f[n + 1] /\ FlattenSeq(seqs) = g[n]
      BY <1>2, <1>3, <1>4, <2>1 DEF Flattening
    <2>7. f[n + 1] = f[n] \o more[n + 1]
      <3>1. n + 1 \in 2..Len(more) /\ (n + 1) - 1 = n
        BY <1>3, <1>6
      <3>. QED
        BY <1>4, <3>1 DEF Flattening
    <2>. QED
      BY <1>1, <1>3, <2>5, <2>6, <2>7
  <1>. QED
    BY <1>5, <1>6

\* Where the members of the first m sequences are in their concatenation g.
Placed(g, seqs, b, m) ==
    /\ Len(g) = b[m]
    /\ \A p \in 1..m : \A i \in 1..Len(seqs[p]) :
          b[p - 1] + i \in 1..b[m] /\ g[b[p - 1] + i] = seqs[p][i]

LEMMA PlacedNext ==
    ASSUME NEW X, NEW seqs, NEW b, NEW m \in Nat, NEW g \in Seq(X), Placed(g, seqs, b, m),
           NEW s \in Seq(X), s = seqs[m + 1], b[m] \in Nat, b[m + 1] = b[m] + Len(s)
    PROVE  Placed(g \o s, seqs, b, m + 1)
  <1>1. PICK h \in Seq(X) : h = g \o s
    BY ConcatProperties
  <1>2. PICK l \in Nat : l = Len(s)
    OBVIOUS
  <1>5. Len(g) = b[m]
    BY DEF Placed
  <1>6. /\ Len(h) = Len(g) + l
        /\ \A i \in 1..(Len(g) + l) : h[i] = IF i <= Len(g) THEN g[i] ELSE s[i - Len(g)]
    BY <1>1, <1>2, ConcatProperties
  <1>3. /\ Len(h) = b[m] + l /\ b[m + 1] = b[m] + l
        /\ \A i \in 1..(b[m] + l) : h[i] = IF i <= b[m] THEN g[i] ELSE seqs[m + 1][i - b[m]]
    BY <1>2, <1>5, <1>6
  <1>4. ASSUME NEW p \in 1..(m + 1), NEW i \in 1..Len(seqs[p])
        PROVE  b[p - 1] + i \in 1..b[m + 1] /\ h[b[p - 1] + i] = seqs[p][i]
    <2>1. CASE p = m + 1
      <3>1. p - 1 = m /\ i \in 1..l
        BY <1>2, <2>1
      <3>2. b[m] + i \in 1..(b[m] + l) /\ ~(b[m] + i <= b[m]) /\ (b[m] + i) - b[m] = i
        BY <3>1
      <3>3. h[b[m] + i] = seqs[m + 1][i]
        BY <1>3, <3>2
      <3>. QED
        BY <1>3, <2>1, <3>1, <3>2, <3>3
    <2>2. CASE p # m + 1
      <3>1. p \in 1..m
        BY <2>2
      <3>2. b[p - 1] + i \in 1..b[m] /\ g[b[p - 1] + i] = seqs[p][i]
        BY <3>1 DEF Placed
      <3>3. PICK k : k = b[p - 1] + i
        OBVIOUS
      <3>4. k \in 1..(b[m] + l) /\ k <= b[m]
        BY <3>2, <3>3
      <3>5. h[k] = g[k]
        BY <1>3, <3>4
      <3>. QED
        BY <1>3, <3>2, <3>3, <3>4, <3>5
    <2>. QED
      BY <2>1, <2>2
  <1>. QED
    BY <1>1, <1>3, <1>4 DEF Placed

\* Where the members of the sequences end up.
LEMMA FlattenPlaces ==
    ASSUME NEW X, NEW n \in Nat, NEW seqs \in Seq(Seq(X)), Len(seqs) = n,
           NEW b \in [0..n -> Nat], b[0] = 0,
           \A p \in 1..n : b[p] = b[p - 1] + Len(seqs[p])
    PROVE  FlattenSeq(seqs) \in Seq(X) /\ Placed(FlattenSeq(seqs), seqs, b, n)
  <1>1. CASE n = 0
    <2>1. seqs = <<>>
      BY <1>1, EmptySeq
    <2>2. FlattenSeq(seqs) = <<>>
      BY <2>1 DEF FlattenSeq
    <2>. QED
      BY <1>1, <2>2, EmptySeq DEF Placed
  <1>2. CASE n # 0
    <2>1. PICK f \in [1..n -> Seq(X)] : Flattening(f, seqs)
      <3>1. n \in Nat \ {0}
        BY <1>2
      <3>. QED
        BY <3>1, FlattenDef, Zenon
    <2>. DEFINE S == {m \in 0..n : m > 0 => Placed(f[m], seqs, b, m)}
    <2>2. 0 \in S
      OBVIOUS
    <2>3. ASSUME NEW m \in 0..(n - 1), m \in S
          PROVE  m + 1 \in S
      <3>1. /\ m + 1 \in 1..n /\ (m + 1) - 1 = m /\ m + 1 \in 0..n /\ m \in Nat
            /\ b[m] \in Nat /\ b[m + 1] \in Nat
        OBVIOUS
      <3>2. b[m + 1] = b[m] + Len(seqs[m + 1]) /\ seqs[m + 1] \in Seq(X)
        BY <3>1
      <3>3. CASE m = 0
        <4>1. f[1] = seqs[1] /\ b[1] = b[0] + Len(seqs[1]) /\ seqs[1] \in Seq(X)
          BY <2>1, <3>2, <3>3 DEF Flattening
        <4>2. Placed(<<>>, seqs, b, 0) /\ <<>> \in Seq(X)
          BY EmptySeq DEF Placed
        <4>3. Placed(<<>> \o seqs[1], seqs, b, 1)
          <5>1. PICK z \in Nat : z = 0 /\ z + 1 = 1
            OBVIOUS
          <5>2. Placed(<<>> \o seqs[1], seqs, b, z + 1)
            <6>1. Placed(<<>>, seqs, b, z) /\ seqs[1] = seqs[z + 1] /\ b[z] \in Nat
                    /\ b[z + 1] = b[z] + Len(seqs[1])
              BY <4>1, <4>2, <5>1
            <6>. QED
              BY <4>1, <4>2, <6>1, PlacedNext, Zenon
          <5>. QED
            BY <5>1, <5>2
        <4>4. <<>> \o seqs[1] = seqs[1]
          BY <4>1, ConcatEmptySeq
        <4>5. Placed(f[m + 1], seqs, b, m + 1)
          BY <3>3, <4>1, <4>3, <4>4
        <4>. QED
          BY <3>1, <4>5
      <3>4. CASE m # 0
        <4>1. m \in 1..n /\ m > 0 /\ m + 1 \in 2..n
          BY <3>4
        <4>2. f[m + 1] = f[m] \o seqs[m + 1]
          BY <2>1, <3>1, <4>1 DEF Flattening
        <4>3. Placed(f[m], seqs, b, m) /\ f[m] \in Seq(X)
          BY <2>3, <4>1
        <4>4. Placed(f[m + 1], seqs, b, m + 1)
          <5>1. Placed(f[m] \o seqs[m + 1], seqs, b, m + 1)
            BY <3>1, <3>2, <4>3, PlacedNext, Zenon
          <5>. QED
            BY <4>2, <5>1
        <4>. QED
          BY <3>1, <4>4
      <3>. QED
        BY <3>3, <3>4
    <2>4. 0..n \subseteq S
      <3>. HIDE DEF S
      <3>. QED
        BY <2>2, <2>3, IntervalInduction
    <2>5. Placed(f[n], seqs, b, n)
      BY <1>2, <2>4
    <2>. HIDE DEF S
    <2>6. FlattenSeq(seqs) = f[n] /\ f[n] \in Seq(X)
      BY <1>2, <2>1 DEF Flattening
    <2>. QED
      BY <2>5, <2>6
  <1>. QED
    BY <1>1, <1>2

---------------------------------------------------------------------------
(* Division and powers of two *)

LEMMA Division ==
    ASSUME NEW b \in Nat \ {0}
    PROVE  \A a \in Nat : \E q \in Nat : \E x \in 0..(b - 1) : a = q * b + x
  <1>. DEFINE S == {a \in Nat : \E q \in Nat : \E x \in 0..(b - 1) : a = q * b + x}
  <1>1. 0 \in S
    <2>1. 0 = 0 * b + 0 /\ 0 \in 0..(b - 1)
      OBVIOUS
    <2>. QED
      BY <2>1
  <1>2. ASSUME NEW a \in Nat, a \in S
        PROVE  a + 1 \in S
    <2>1. PICK q \in Nat, x \in 0..(b - 1) : a = q * b + x
      BY <1>2
    <2>2. CASE x < b - 1
      <3>1. a + 1 = q * b + (x + 1) /\ x + 1 \in 0..(b - 1)
        BY <2>1, <2>2
      <3>. QED
        BY <3>1
    <2>3. CASE x = b - 1
      <3>1. a + 1 = (q + 1) * b + 0 /\ q + 1 \in Nat /\ 0 \in 0..(b - 1) /\ a + 1 \in Nat
        BY <2>1, <2>3
      <3>. QED
        BY <3>1, Zenon
    <2>. QED
      BY <2>1, <2>2, <2>3
  <1>. HIDE DEF S
  <1>3. Nat \subseteq S
    BY <1>1, <1>2, SetInduction
  <1>. QED
    BY <1>3 DEF S

LEMMA Quotient ==
    ASSUME NEW q \in Nat, NEW b \in Nat \ {0}, NEW x \in 0..(b - 1)
    PROVE  (q * b + x) \div b = q /\ (q * b + x) % b = x
  <1>1. (q * b + x) \div b = q
    BY Z3
  <1>2. (q * b + x) % b = x
    BY Z3
  <1>. QED
    BY <1>1, <1>2

LEMMA DivisionUnique ==
    ASSUME NEW q \in Nat, NEW p \in Nat, NEW b \in Nat \ {0},
           NEW x \in 0..(b - 1), NEW y \in 0..(b - 1), q * b + x = p * b + y
    PROVE  q = p /\ x = y
  BY Z3

LEMMA SmallerQuotient ==
    ASSUME NEW q \in Nat, NEW n \in Nat, NEW b \in Nat \ {0}, NEW x \in 0..(b - 1)
    PROVE  q < n <=> q * b + x < n * b
  <1>1. q < n => q * b + x < n * b
    <2>1. q < n => (q + 1) * b <= n * b
      BY Z3
    <2>2. (q + 1) * b = q * b + b
      BY Z3
    <2>3. q * b \in Nat /\ n * b \in Nat /\ (q + 1) * b \in Nat
      OBVIOUS
    <2>. QED
      BY <2>1, <2>2, <2>3
  <1>2. n <= q => n * b <= q * b + x
    BY Z3
  <1>3. q * b \in Nat /\ n * b \in Nat
    OBVIOUS
  <1>. QED
    BY <1>1, <1>2, <1>3

\* What \div and % mean.
LEMMA Divided ==
    ASSUME NEW a \in Nat, NEW b \in Nat \ {0}
    PROVE  \E q \in Nat : \E x \in 0..(b - 1) : a = q * b + x /\ a \div b = q /\ a % b = x
  <1>1. PICK q \in Nat, x \in 0..(b - 1) : a = q * b + x
    BY Division
  <1>2. a \div b = q /\ a % b = x
    BY <1>1, Quotient
  <1>. QED
    BY <1>1, <1>2

\* Dividing twice, and the remainder of twice as much.
LEMMA DividedTwice ==
    ASSUME NEW a \in Nat, NEW b \in Nat \ {0}, NEW c \in Nat \ {0}
    PROVE  a \div (b * c) = (a \div b) \div c
  <1>1. PICK q \in Nat, x \in 0..(b - 1) : a = q * b + x
    BY Division
  <1>2. PICK h \in Nat, y \in 0..(c - 1) : q = h * c + y
    BY Division
  <1>3. PICK d : d = b * c
    OBVIOUS
  <1>4. d \in Nat \ {0}
    <2>1. b * c > 0
      BY Z3
    <2>. QED
      BY <1>3, <2>1
  <1>5. PICK z : z = y * b + x
    OBVIOUS
  <1>6. z \in 0..(d - 1)
    <2>1. y < c
      OBVIOUS
    <2>2. y \in Nat /\ x \in Nat
      OBVIOUS
    <2>3. y * b + x < c * b
      BY <2>1, <2>2, SmallerQuotient
    <2>4. c * b = d /\ y * b \in Nat
      BY <1>3, <2>2
    <2>. QED
      BY <1>4, <1>5, <2>2, <2>3, <2>4
  <1>7. a = h * d + z
    <2>1. a = (h * c + y) * b + x
      BY <1>1, <1>2
    <2>2. (h * c + y) * b = h * (b * c) + y * b
      BY Z3
    <2>3. h * d \in Nat /\ y * b \in Nat
      BY <1>4
    <2>. QED
      BY <1>3, <1>5, <2>1, <2>2, <2>3
  <1>8. a \div d = h
    BY <1>4, <1>6, <1>7, Quotient
  <1>9. a \div b = q /\ q \div c = h
    BY <1>1, <1>2, Quotient
  <1>. QED
    BY <1>3, <1>8, <1>9

LEMMA RemainderOfTwice ==
    ASSUME NEW a \in Nat, NEW b \in Nat \ {0}
    PROVE  a % (2 * b) = (a % b) + ((a \div b) % 2) * b
  <1>1. PICK q \in Nat, x \in 0..(b - 1) : a = q * b + x
    BY Division
  <1>2. PICK h \in Nat, y \in 0..1 : q = h * 2 + y
    <2>1. PICK two \in Nat \ {0} : two = 2
      OBVIOUS
    <2>2. PICK h \in Nat, y \in 0..(two - 1) : q = h * two + y
      BY Division
    <2>. QED
      BY <2>1, <2>2
  <1>3. PICK z : z = x + y * b
    OBVIOUS
  <1>4. PICK d : d = 2 * b
    OBVIOUS
  <1>5. z \in 0..(d - 1) /\ d \in Nat \ {0}
    <2>1. y = 0 \/ y = 1
      OBVIOUS
    <2>. QED
      BY <1>3, <1>4, <2>1
  <1>6. a = h * d + z
    <2>1. a = (h * 2 + y) * b + x
      BY <1>1, <1>2
    <2>2. (h * 2 + y) * b = h * (2 * b) + y * b
      BY Z3
    <2>3. h * d \in Nat /\ y * b \in Nat
      BY <1>5
    <2>. QED
      BY <1>3, <1>4, <2>1, <2>2, <2>3
  <1>7. a % d = z
    BY <1>5, <1>6, Quotient
  <1>8. a \div b = q /\ a % b = x
    BY <1>1, Quotient
  <1>9. q % 2 = y
    BY <1>2
  <1>. QED
    BY <1>3, <1>4, <1>7, <1>8, <1>9

\* That 2^(n + 1) is twice 2^n follows from the number of subsets of a set.
LEMMA SubsetsOfOneMore ==
    ASSUME NEW S, NEW x, IsFiniteSet(S), x \notin S
    PROVE  Cardinality(SUBSET (S \cup {x})) = 2 * Cardinality(SUBSET S)
  <1>1. PICK A : A = SUBSET S
    OBVIOUS
  <1>2. PICK B : B = {T \in SUBSET (S \cup {x}) : x \in T}
    OBVIOUS
  <1>3. SUBSET (S \cup {x}) = A \cup B /\ A \cap B = {}
    <2>1. ASSUME NEW T \in SUBSET (S \cup {x}) PROVE T \in A \cup B
      BY <1>1, <1>2
    <2>2. A \subseteq SUBSET (S \cup {x}) /\ B \subseteq SUBSET (S \cup {x})
      BY <1>1, <1>2
    <2>3. A \cap B = {}
      BY <1>1, <1>2
    <2>. QED
      BY <2>1, <2>2, <2>3
  <1>4. IsFiniteSet(A)
    BY <1>1, FS_SUBSET
  <1>5. PICK f : f = [T \in A |-> T \cup {x}]
    OBVIOUS
  <1>6. f \in Bijection(A, B)
    <2>1. f \in [A -> B]
      BY <1>1, <1>2, <1>5
    <2>2. ASSUME NEW T \in A, NEW U \in A, f[T] = f[U] PROVE T = U
      BY <1>1, <1>5, <2>2
    <2>3. ASSUME NEW T \in B PROVE \E U \in A : f[U] = T
      <3>1. PICK U : U = T \ {x}
        OBVIOUS
      <3>2. U \in A /\ U \cup {x} = T
        BY <1>1, <1>2, <3>1
      <3>. QED
        BY <1>5, <3>2
    <2>. QED
      BY <2>1, <2>2, <2>3 DEF Bijection, Injection, Surjection, IsInjective
  <1>7. IsFiniteSet(B) /\ Cardinality(B) = Cardinality(A)
    BY <1>4, <1>6, FS_Bijection DEF ExistsBijection
  <1>8. Cardinality(A \cup B) = Cardinality(A) + Cardinality(B) - Cardinality(A \cap B)
    BY <1>4, <1>7, FS_Union
  <1>9. Cardinality(A) \in Nat
    BY <1>4, FS_CardinalityType
  <1>10. Cardinality(A \cap B) = 0
    BY <1>3, FS_EmptySet
  <1>11. Cardinality(A \cup B) = 2 * Cardinality(A)
    BY <1>7, <1>8, <1>9, <1>10
  <1>. QED
    BY <1>1, <1>3, <1>11

LEMMA PowerNext ==
    ASSUME NEW n \in Nat
    PROVE  2^n \in Nat \ {0} /\ 2^(n + 1) = 2 * 2^n
  <1>1. PICK S : S = 1..n
    OBVIOUS
  <1>2. IsFiniteSet(S) /\ Cardinality(S) = n /\ n + 1 \notin S
    BY <1>1, FS_Interval
  <1>3. IsFiniteSet(S \cup {n + 1}) /\ Cardinality(S \cup {n + 1}) = n + 1
    BY <1>2, FS_AddElement
  <1>4. 2^n = Cardinality(SUBSET S) /\ IsFiniteSet(SUBSET S)
    BY <1>2, FS_SUBSET
  <1>5. 2^(n + 1) = Cardinality(SUBSET (S \cup {n + 1}))
    BY <1>3, FS_SUBSET
  <1>6. Cardinality(SUBSET S) \in Nat /\ Cardinality(SUBSET S) # 0
    <2>1. {} \in SUBSET S
      OBVIOUS
    <2>. QED
      BY <1>4, <2>1, FS_CardinalityType, FS_EmptySet
  <1>. QED
    BY <1>2, <1>4, <1>5, <1>6, SubsetsOfOneMore

LEMMA PowerOfNothing == 2^0 = 1
  OBVIOUS

LEMMA PowerAdds ==
    ASSUME NEW m \in Nat
    PROVE  \A n \in Nat : 2^(m + n) = 2^m * 2^n
  <1>1. PICK S : S = {n \in Nat : 2^(m + n) = 2^m * 2^n}
    OBVIOUS
  <1>2. 2^m \in Nat
    BY PowerNext
  <1>3. 0 \in S
    <2>1. m + 0 = m
      OBVIOUS
    <2>2. 2^m * 2^0 = 2^m
      BY <1>2, PowerOfNothing
    <2>. QED
      BY <1>1, <2>1, <2>2
  <1>4. ASSUME NEW n \in Nat, n \in S
        PROVE  n + 1 \in S
    <2>1. m + (n + 1) = (m + n) + 1 /\ m + n \in Nat
      OBVIOUS
    <2>2. 2^(m + (n + 1)) = 2 * 2^(m + n)
      BY <2>1, PowerNext
    <2>3. 2^(n + 1) = 2 * 2^n /\ 2^n \in Nat
      BY PowerNext
    <2>4. 2^(m + n) = 2^m * 2^n
      BY <1>1, <1>4
    <2>5. PICK p \in Nat, q \in Nat : p = 2^m /\ q = 2^n
      BY <1>2, <2>3
    <2>6. 2 * (p * q) = p * (2 * q)
      BY Z3
    <2>7. 2^(m + (n + 1)) = 2^m * 2^(n + 1)
      BY <2>2, <2>3, <2>4, <2>5, <2>6
    <2>. QED
      BY <1>1, <2>7
  <1>5. Nat \subseteq S
    BY <1>3, <1>4, SetInduction
  <1>. QED
    BY <1>1, <1>5

LEMMA PowerGrows ==
    ASSUME NEW m \in Nat, NEW n \in Nat, m <= n
    PROVE  2^m <= 2^n
  <1>1. PICK d \in Nat : n = m + d
    <2>1. n - m \in Nat /\ n = m + (n - m)
      OBVIOUS
    <2>. QED
      BY <2>1
  <1>2. 2^n = 2^m * 2^d
    BY <1>1, PowerAdds
  <1>3. PICK p \in Nat \ {0}, q \in Nat \ {0} : p = 2^m /\ q = 2^d
    BY PowerNext
  <1>4. p <= p * q
    BY Z3
  <1>. QED
    BY <1>2, <1>3, <1>4

\* The lower bits of a number are the lowest of them and a section above those.
LEMMA LowerBits ==
    ASSUME NEW v \in Nat, NEW a \in Nat, NEW b \in Nat
    PROVE  v % 2^(a + b) = (v % 2^a) + ((v \div 2^a) % 2^b) * 2^a
  <1>1. PICK A \in Nat \ {0}, B \in Nat \ {0} : A = 2^a /\ B = 2^b /\ 2^(a + b) = A * B
    BY PowerNext, PowerAdds
  <1>2. PICK q \in Nat, x \in 0..(A - 1) : v = q * A + x /\ v \div A = q /\ v % A = x
    BY Divided
  <1>3. PICK h \in Nat, y \in 0..(B - 1) : q = h * B + y /\ q % B = y
    BY Divided
  <1>4. PICK C \in Nat \ {0} : C = A * B
    OBVIOUS
  <1>5. y * A + x \in 0..(C - 1)
    <2>1. y < B
      OBVIOUS
    <2>2. y * A + x < B * A
      BY <2>1, SmallerQuotient
    <2>3. PICK e \in Nat : e = y * A
      OBVIOUS
    <2>4. B * A = C
      BY <1>4
    <2>5. e + x < C
      BY <2>2, <2>3, <2>4
    <2>6. e + x \in 0..(C - 1)
      BY <2>5
    <2>. QED
      BY <2>3, <2>6
  <1>6. v = h * C + (y * A + x)
    <2>1. (h * B + y) * A + x = h * (A * B) + (y * A + x)
      BY Z3
    <2>. QED
      BY <1>2, <1>3, <1>4, <2>1
  <1>7. PICK z \in 0..(C - 1) : z = y * A + x
    BY <1>5
  <1>8. v % C = z
    <2>1. (h * C + z) % C = z
      BY Quotient
    <2>. QED
      BY <1>6, <1>7, <2>1
  <1>9. PICK e \in Nat : e = y * A
    OBVIOUS
  <1>10. e + x = x + e
    OBVIOUS
  <1>. QED
    BY <1>1, <1>2, <1>3, <1>4, <1>7, <1>8, <1>9, <1>10

\* What a number is of a divisor and a remainder, below zero too.
LEMMA RemainderOf ==
    ASSUME NEW q \in Int, NEW b \in Nat \ {0}, NEW x \in 0..(b - 1)
    PROVE  (q * b + x) % b = x
  BY Z3

LEMMA QuotientOf ==
    ASSUME NEW q \in Int, NEW b \in Nat \ {0}, NEW x \in 0..(b - 1)
    PROVE  (q * b + x) \div b = q
  BY Z3

LEMMA AnyDivision ==
    ASSUME NEW a \in Int, NEW b \in Nat \ {0}
    PROVE  \E q \in Int : \E x \in 0..(b - 1) : /\ a = q * b + x /\ a \div b = q /\ a % b = x
                                               /\ a \in Nat => q \in Nat
  <1>1. \E q \in Int : \E x \in 0..(b - 1) : a = q * b + x /\ (a \in Nat => q \in Nat)
    <2>1. CASE a \in Nat
      <3>1. PICK q \in Nat, x \in 0..(b - 1) : a = q * b + x
        BY <2>1, Division
      <3>2. q \in Int
        OBVIOUS
      <3>. QED
        BY <3>1, <3>2, Zenon
    <2>2. CASE a \notin Nat
      <3>1. PICK c \in Nat : c = -a
        BY <2>2
      <3>2. PICK q \in Nat, x \in 0..(b - 1) : c = q * b + x
        BY Division
      <3>3. (-q) * b = -(q * b) /\ (-q - 1) * b = -(q * b) - b /\ q * b \in Int /\ -q \in Int /\ -q - 1 \in Int
        BY Z3
      <3>4. CASE x = 0
        <4>1. a = (-q) * b + 0 /\ 0 \in 0..(b - 1)
          BY <3>1, <3>2, <3>3, <3>4
        <4>. QED
          BY <2>2, <3>3, <4>1, Zenon
      <3>5. CASE x # 0
        <4>1. a = (-q - 1) * b + (b - x) /\ b - x \in 0..(b - 1)
          BY <3>1, <3>2, <3>3, <3>5
        <4>. QED
          BY <2>2, <3>3, <4>1, Zenon
      <3>. QED
        BY <3>4, <3>5
    <2>. QED
      BY <2>1, <2>2
  <1>2. PICK q \in Int, x \in 0..(b - 1) : a = q * b + x /\ (a \in Nat => q \in Nat)
    BY <1>1
  <1>3. a \div b = q /\ a % b = x
    BY <1>2, RemainderOf, QuotientOf
  <1>. QED
    BY <1>2, <1>3

---------------------------------------------------------------------------
(* The least and the greatest *)

\* Numbers at finitely many places: there is a least one, and a first place that has it.
LEMMA FirstLeast ==
    ASSUME NEW n \in Nat, NEW S \in SUBSET (0..n), S # {}, NEW f \in [S -> Int]
    PROVE  \E j \in S : \A i \in S : f[j] < f[i] \/ (f[j] = f[i] /\ j <= i)
  <1>. DEFINE Best(j, m) == \A i \in S : i <= m => f[j] < f[i] \/ (f[j] = f[i] /\ j <= i)
  <1>. DEFINE T == {m \in 0..n : (\E i \in S : i <= m) => \E j \in S : j <= m /\ Best(j, m)}
  <1>1. 0 \in T
    <2>. SUFFICES ASSUME NEW i \in S, i <= 0 PROVE \E j \in S : j <= 0 /\ Best(j, 0)
      OBVIOUS
    <2>1. i = 0 /\ \A h \in S : h <= 0 => h = 0
      OBVIOUS
    <2>. QED
      BY <2>1
  <1>2. ASSUME NEW m \in 0..(n - 1), m \in T
        PROVE  m + 1 \in T
    <2>. SUFFICES ASSUME NEW i \in S, i <= m + 1 PROVE \E j \in S : j <= m + 1 /\ Best(j, m + 1)
      OBVIOUS
    <2>1. \A h \in S : h \in Int /\ f[h] \in Int /\ (h <= m + 1 => h <= m \/ h = m + 1)
      OBVIOUS
    <2>2. CASE m + 1 \notin S
      <3>1. \A h \in S : h <= m + 1 => h <= m
        BY <2>1, <2>2
      <3>2. PICK j \in S : j <= m /\ Best(j, m)
        BY <1>2, <3>1
      <3>3. j <= m + 1 /\ Best(j, m + 1)
        BY <3>1, <3>2
      <3>. QED
        BY <3>3
    <2>3. CASE m + 1 \in S /\ \E h \in S : h <= m
      <3>1. PICK j \in S : j <= m /\ Best(j, m)
        BY <1>2, <2>3
      <3>2. CASE f[m + 1] < f[j]
        <4>1. Best(m + 1, m + 1)
          <5>1. ASSUME NEW h \in S, h <= m + 1
                PROVE  f[m + 1] < f[h] \/ (f[m + 1] = f[h] /\ m + 1 <= h)
            <6>1. CASE h <= m
              <7>1. f[j] <= f[h] /\ f[h] \in Int /\ f[j] \in Int /\ f[m + 1] \in Int
                BY <2>1, <2>3, <3>1, <6>1
              <7>. QED
                BY <3>2, <7>1
            <6>2. CASE h = m + 1
              BY <6>2
            <6>. QED
              BY <2>1, <5>1, <6>1, <6>2
          <5>. QED
            BY <5>1
        <4>2. m + 1 <= m + 1
          OBVIOUS
        <4>. QED
          BY <2>3, <4>1, <4>2
      <3>3. CASE f[j] <= f[m + 1]
        <4>1. Best(j, m + 1)
          <5>1. ASSUME NEW h \in S, h <= m + 1
                PROVE  f[j] < f[h] \/ (f[j] = f[h] /\ j <= h)
            <6>1. CASE h <= m
              BY <3>1, <6>1
            <6>2. CASE h = m + 1
              BY <2>1, <3>1, <3>3, <6>2
            <6>. QED
              BY <2>1, <5>1, <6>1, <6>2
          <5>. QED
            BY <5>1
        <4>2. j <= m + 1
          BY <3>1
        <4>. QED
          BY <4>1, <4>2
      <3>. QED
        BY <2>1, <2>3, <3>2, <3>3
    <2>4. CASE m + 1 \in S /\ ~\E h \in S : h <= m
      <3>1. \A h \in S : h <= m + 1 => h = m + 1
        BY <2>1, <2>4
      <3>2. Best(m + 1, m + 1)
        BY <3>1
      <3>3. m + 1 <= m + 1
        OBVIOUS
      <3>. QED
        BY <2>4, <3>2, <3>3
    <2>. QED
      BY <2>2, <2>3, <2>4
  <1>3. 0..n \subseteq T
    <2>. HIDE DEF T
    <2>. QED
      BY <1>1, <1>2, IntervalInduction
  <1>4. n \in T /\ \A i \in S : i <= n
    <2>1. n \in 0..n /\ \A i \in S : i <= n
      OBVIOUS
    <2>. HIDE DEF T
    <2>. QED
      BY <1>3, <2>1
  <1>5. PICK j \in S : Best(j, n)
    <2>1. (\E i \in S : i <= n) => \E j \in S : j <= n /\ Best(j, n)
      BY <1>4
    <2>. HIDE DEF Best
    <2>. QED
      BY <1>4, <2>1
  <1>. QED
    BY <1>4, <1>5

---------------------------------------------------------------------------
(* The members of a finite set in their order *)

\* What lies below each member, for a strict total order.
Ordered(s, below) ==
    /\ below \in [s -> SUBSET s]
    /\ \A a \in s : a \notin below[a]
    /\ \A a \in s, b \in s : b \in below[a] => below[b] \subseteq below[a]
    /\ \A a \in s, b \in s : a # b => b \in below[a] \/ a \in below[b]

LEMMA RankRises ==
    ASSUME NEW s, IsFiniteSet(s), NEW below, Ordered(s, below), NEW a \in s, NEW b \in s, b \in below[a]
    PROVE  /\ Cardinality(below[b]) \in Nat /\ Cardinality(below[a]) \in Nat
           /\ Cardinality(below[b]) < Cardinality(below[a])
  <1>1. below[a] \subseteq s /\ below[b] \subseteq below[a] /\ b \notin below[b]
    BY DEF Ordered
  <1>2. IsFiniteSet(below[a]) /\ IsFiniteSet(below[b])
    BY <1>1, FS_Subset
  <1>3. Cardinality(below[b]) <= Cardinality(below[a])
        /\ (Cardinality(below[b]) = Cardinality(below[a]) => below[b] = below[a])
    BY <1>1, <1>2, FS_Subset
  <1>4. Cardinality(below[b]) \in Nat /\ Cardinality(below[a]) \in Nat
    BY <1>2, FS_CardinalityType
  <1>. QED
    BY <1>1, <1>3, <1>4

LEMMA Ranks ==
    ASSUME NEW s, IsFiniteSet(s), NEW below, Ordered(s, below)
    PROVE  /\ Cardinality(s) \in Nat
           /\ \A a \in s : Cardinality(below[a]) \in 0..(Cardinality(s) - 1)
           /\ \A a \in s, b \in s : Cardinality(below[a]) = Cardinality(below[b]) => a = b
           /\ \A k \in 1..Cardinality(s) : \E a \in s : Cardinality(below[a]) = k - 1
  <1>1. PICK n \in Nat : n = Cardinality(s)
    BY FS_CardinalityType
  <1>2. ASSUME NEW a \in s PROVE Cardinality(below[a]) \in 0..(n - 1)
    <2>1. below[a] \subseteq s /\ a \notin below[a]
      BY DEF Ordered
    <2>2. IsFiniteSet(below[a]) /\ Cardinality(below[a]) \in Nat
      BY <2>1, FS_Subset, FS_CardinalityType
    <2>3. Cardinality(below[a]) <= n /\ (Cardinality(below[a]) = n => below[a] = s)
      BY <1>1, <2>1, FS_Subset
    <2>. QED
      BY <2>1, <2>2, <2>3
  <1>3. ASSUME NEW a \in s, NEW b \in s, Cardinality(below[a]) = Cardinality(below[b])
        PROVE  a = b
    <2>1. b \notin below[a] /\ a \notin below[b]
      <3>1. ASSUME b \in below[a] PROVE FALSE
        BY <1>3, <3>1, RankRises
      <3>2. ASSUME a \in below[b] PROVE FALSE
        BY <1>3, <3>2, RankRises
      <3>. QED
        BY <3>1, <3>2
    <2>. QED
      BY <2>1 DEF Ordered
  <1>4. ASSUME NEW k \in 1..n PROVE \E a \in s : Cardinality(below[a]) = k - 1
    <2>. SUFFICES ASSUME \A a \in s : Cardinality(below[a]) # k - 1 PROVE FALSE
      OBVIOUS
    <2>1. PICK free : free = (0..(n - 1)) \ {k - 1}
      OBVIOUS
    <2>2. PICK f : f = [a \in s |-> Cardinality(below[a])]
      OBVIOUS
    <2>3. f \in [s -> free]
      BY <1>2, <2>1, <2>2
    <2>4. IsFiniteSet(0..(n - 1)) /\ Cardinality(0..(n - 1)) = n
      <3>1. 0 \in Int /\ n - 1 \in Int /\ (n - 1) - 0 + 1 = n /\ 0 <= n - 1
        OBVIOUS
      <3>2. IsFiniteSet(0..(n - 1)) /\ Cardinality(0..(n - 1)) = IF 0 > n - 1 THEN 0 ELSE (n - 1) - 0 + 1
        BY <3>1, FS_Interval
      <3>. QED
        BY <3>1, <3>2
    <2>5. k - 1 \in 0..(n - 1)
      OBVIOUS
    <2>6. IsFiniteSet(free) /\ Cardinality(free) = n - 1
      BY <2>1, <2>4, <2>5, FS_RemoveElement
    <2>7. n - 1 < n
      OBVIOUS
    <2>8. \E a, b \in s : a # b /\ f[a] = f[b]
      BY <1>1, <2>3, <2>6, <2>7, FS_PigeonHole
    <2>. QED
      BY <1>3, <2>2, <2>8
  <1>. QED
    BY <1>1, <1>2, <1>3, <1>4

LEMMA RankReached ==
    ASSUME NEW s, IsFiniteSet(s), NEW below, Ordered(s, below)
    PROVE  \A k \in 1..Cardinality(s) : \E a \in s : Cardinality(below[a]) = k - 1
  BY Ranks

LEMMA RankUnique ==
    ASSUME NEW s, IsFiniteSet(s), NEW below, Ordered(s, below), NEW a \in s, NEW b \in s,
           Cardinality(below[a]) = Cardinality(below[b])
    PROVE  a = b
  BY Ranks

\* The members in their order, each with as many below it as there are before it in the list.
RankedBy(list, s, below) ==
    /\ DOMAIN list = 1..Cardinality(s)
    /\ \A k \in 1..Cardinality(s) : list[k] \in s /\ Cardinality(below[list[k]]) = k - 1

InRankOrder(list, s, below) ==
    /\ \A a \in s : \E k \in 1..Cardinality(s) : list[k] = a
    /\ \A i \in 1..Cardinality(s), j \in 1..Cardinality(s) : i < j => list[i] \in below[list[j]]

LEMMA RankedRises ==
    ASSUME NEW s, IsFiniteSet(s), NEW below, Ordered(s, below), NEW list, RankedBy(list, s, below)
    PROVE  InRankOrder(list, s, below)
  <1>1. PICK n \in Nat : n = Cardinality(s)
    BY FS_CardinalityType
  <1>2. \A k \in 1..n : list[k] \in s /\ Cardinality(below[list[k]]) = k - 1
    BY <1>1, Zenon DEF RankedBy
  <1>3. ASSUME NEW a \in s PROVE \E k \in 1..n : list[k] = a
    <2>1. PICK c \in 0..(n - 1) : Cardinality(below[a]) = c
      BY <1>1, Ranks
    <2>2. PICK k \in 1..n : c = k - 1
      <3>1. c + 1 \in 1..n /\ c = (c + 1) - 1
        OBVIOUS
      <3>. QED
        BY <3>1
    <2>3. list[k] \in s /\ Cardinality(below[list[k]]) = Cardinality(below[a])
      BY <1>2, <2>1, <2>2
    <2>. QED
      BY <2>3, RankUnique, Zenon
  <1>4. ASSUME NEW i \in 1..n, NEW j \in 1..n, i < j PROVE list[i] \in below[list[j]]
    <2>1. list[i] \in s /\ list[j] \in s /\ Cardinality(below[list[i]]) = i - 1 /\ Cardinality(below[list[j]]) = j - 1
      BY <1>2
    <2>2. list[i] # list[j]
      BY <1>4, <2>1
    <2>3. ASSUME list[j] \in below[list[i]] PROVE FALSE
      <3>1. Cardinality(below[list[j]]) < Cardinality(below[list[i]])
        BY <2>1, <2>3, RankRises
      <3>. QED
        BY <1>4, <2>1, <3>1
    <2>. QED
      BY <2>1, <2>2, <2>3, Zenon DEF Ordered
  <1>. QED
    BY <1>1, <1>3, <1>4, Zenon DEF InRankOrder

-------------------------------------------------------------------------------
(* Sums of a part *)

Without(s, n, x, y) == s \subseteq 1..n /\ x \in s /\ y = s \ {x}

SumOfOnly(w, n, s, total) == RunningSum(OnlyOf(w, n, s), n, total)

LEMMA SumWithout ==
    ASSUME NEW n \in Nat, NEW w \in [1..n -> Nat], NEW s, NEW y, NEW x, Without(s, n, x, y),
           NEW total, SumOfOnly(w, n, s, total), NEW less, SumOfOnly(w, n, y, less)
    PROVE  total[n] = less[n] + w[x]
  <1>1. s \subseteq 1..n /\ y = s \ {x}
    BY DEF Without
  <1>2. PICK v \in SUBSET (1..n) : v = s
    BY <1>1
  <1>3. PICK z \in v : z = x
    BY <1>2 DEF Without
  <1>4. RunningSum(OnlyOf(w, n, v), n, total) /\ RunningSum(OnlyOf(w, n, v \ {z}), n, less)
    BY <1>1, <1>2, <1>3 DEF SumOfOnly
  <1>5. total[n] = less[n] + w[z]
    BY <1>4, RunningSumWithout
  <1>. QED
    BY <1>3, <1>5

Below(w, n, s, e) == \A any : SumOfOnly(w, n, s, any) => any[n] <= e

LEMMA SumStep ==
    ASSUME NEW n \in Nat, NEW w \in [1..n -> Nat], NEW s, NEW y, NEW x, Without(s, n, x, y),
           NEW e \in Nat, Below(w, n, y, e)
    PROVE  Below(w, n, s, e + w[x])
  <1>1. ASSUME NEW total, SumOfOnly(w, n, s, total) PROVE total[n] <= e + w[x]
    <2>1. OnlyOf(w, n, y) \in [1..n -> Nat]
      BY OnlyOfType
    <2>2. PICK u : RunningSum(OnlyOf(w, n, y), n, u)
      BY <2>1, RunningSumExists
    <2>3. SumOfOnly(w, n, y, u)
      BY <2>2 DEF SumOfOnly
    <2>4. total[n] = u[n] + w[x]
      BY <1>1, <2>3, SumWithout
    <2>5. u[n] <= e
      BY <2>3 DEF Below
    <2>6. u[n] \in Nat
      BY <2>2 DEF RunningSum
    <2>7. w[x] \in Nat
      BY DEF Without
    <2>. QED
      BY <2>4, <2>5, <2>6, <2>7
  <1>. QED
    BY <1>1 DEF Below

LEMMA LengthOf ==
    ASSUME NEW n \in Nat, NEW f \in [1..n -> Nat]
    PROVE  DOMAIN f = 1..n /\ Len(f) = n
  <1>1. f \in Seq(Nat)
    OBVIOUS
  <1>. QED
    BY <1>1

LEMMA RowSums ==
    ASSUME NEW start \in Nat, NEW a \in Nat, NEW b \in Nat, NEW c \in Nat, NEW len \in Nat,
           NEW write \in Nat, NEW end \in Nat, NEW hi \in Nat, NEW limit \in Int,
           b = a + len, b <= c, write = start + a, end = write + len + 8, hi <= start, start + c + 8 <= limit
    PROVE  hi <= limit /\ end <= limit /\ write + len = start + b
  OBVIOUS

LEMMA SumRises ==
    ASSUME NEW n \in Nat, NEW v \in [1..n -> Nat], NEW total, RunningSum(v, n, total), NEW i \in 0..n
    PROVE  \A j \in i..n : total[i] <= total[j]
  <1>. DEFINE S == {d \in Nat : i + d <= n => total[i] <= total[i + d]}
  <1>1. total \in [0..n -> Nat] /\ \A j \in 1..n : total[j] = total[j - 1] + v[j]
    BY DEF RunningSum
  <1>2. 0 \in S
    BY <1>1
  <1>3. ASSUME NEW d \in Nat, d \in S PROVE d + 1 \in S
    <2>. SUFFICES ASSUME i + (d + 1) <= n PROVE total[i] <= total[i + (d + 1)]
      OBVIOUS
    <2>1. i + (d + 1) \in 1..n /\ (i + (d + 1)) - 1 = i + d /\ i + d \in 0..n
      OBVIOUS
    <2>2. total[i + (d + 1)] = total[i + d] + v[i + (d + 1)] /\ v[i + (d + 1)] \in Nat
      BY <1>1, <2>1
    <2>3. total[i] \in Nat /\ total[i + d] \in Nat
      BY <1>1, <2>1
    <2>4. total[i] <= total[i + d]
      BY <1>3, <2>1
    <2>. QED
      BY <2>2, <2>3, <2>4
  <1>4. Nat \subseteq S
    <2>. HIDE DEF S
    <2>. QED
      BY <1>2, <1>3, SetInduction
  <1>. SUFFICES ASSUME NEW j \in i..n PROVE total[i] <= total[j]
    OBVIOUS
  <1>5. j - i \in Nat /\ i + (j - i) = j
    OBVIOUS
  <1>6. j - i \in S
    BY <1>4, <1>5
  <1>. QED
    BY <1>5, <1>6

-------------------------------------------------------------------------------
(* Sequences by their elements *)

IsSequence(s) == \E S : s \in Seq(S)

LEMMA SequenceIs ==
    ASSUME NEW s, IsSequence(s)
    PROVE  Len(s) \in Nat /\ DOMAIN s = 1..Len(s) /\ (s # <<>> <=> Len(s) # 0)
  BY DEF IsSequence

LEMMA SequenceFrom ==
    ASSUME NEW n \in Nat, NEW f, f = [i \in 1..n |-> f[i]]
    PROVE  IsSequence(f) /\ Len(f) = n
  <1>1. PICK S : S = {f[i] : i \in 1..n}
    OBVIOUS
  <1>2. f \in [1..n -> S]
    BY <1>1
  <1>3. f \in Seq(S) /\ Len(f) = n
    BY <1>2
  <1>. QED
    BY <1>3 DEF IsSequence

IsMore(new, s, e) == new = Append(s, e)

LEMMA OneMore ==
    ASSUME NEW s, IsSequence(s), NEW e, NEW new, IsMore(new, s, e)
    PROVE  /\ IsSequence(new) /\ Len(new) = Len(s) + 1 /\ new[Len(s) + 1] = e
           /\ \A i \in 1..Len(s) : new[i] = s[i]
  <1>1. PICK S : s \in Seq(S)
    BY DEF IsSequence
  <1>2. PICK U : U = S \cup {e}
    OBVIOUS
  <1>3. s \in Seq(U) /\ e \in U
    BY <1>1, <1>2
  <1>4. Append(s, e) \in Seq(U) /\ Len(Append(s, e)) = Len(s) + 1 /\ Append(s, e)[Len(s) + 1] = e
        /\ \A i \in 1..Len(s) : Append(s, e)[i] = s[i]
    BY <1>3, AppendProperties
  <1>. QED
    BY <1>4, Zenon DEF IsSequence, IsMore

LEMMA EmptyIs == IsSequence(<<>>) /\ Len(<<>>) = 0 /\ 1..0 = {}
  <1>1. <<>> \in Seq({}) /\ Len(<<>>) = 0
    OBVIOUS
  <1>. QED
    BY <1>1 DEF IsSequence

LEMMA PartIs ==
    ASSUME NEW S, NEW v \in Seq(S), NEW o \in Nat, NEW n \in Nat \ {0}, o + n <= Len(v)
    PROVE  /\ SubSeq(v, o + 1, o + n) \in Seq(S) /\ Len(SubSeq(v, o + 1, o + n)) = n
           /\ \A k \in 1..n : SubSeq(v, o + 1, o + n)[k] = v[o + k] /\ o + k \in 1..Len(v)
  <1>1. Len(v) \in Nat
    OBVIOUS
  <1>2. o + 1 <= (o + n) + 1 /\ (o + n) - (o + 1) + 1 = n /\ 1 <= o + 1 /\ o + 1 \in Int /\ o + n \in Int
    OBVIOUS
  <1>3. \A i \in (o + 1)..(o + n) : v[i] \in S
    <2>. SUFFICES ASSUME NEW i \in (o + 1)..(o + n) PROVE v[i] \in S
      OBVIOUS
    <2>1. i \in 1..Len(v)
      BY <1>1
    <2>. QED
      BY <2>1
  <1>4. SubSeq(v, o + 1, o + n) \in Seq(S) /\ Len(SubSeq(v, o + 1, o + n)) = n
    BY <1>1, <1>2, <1>3, SubSeqProperties
  <1>5. ASSUME NEW k \in 1..n PROVE SubSeq(v, o + 1, o + n)[k] = v[o + k] /\ o + k \in 1..Len(v)
    <2>1. (o + 1) + k - 1 = o + k /\ k \in 1..((o + n) - (o + 1) + 1) /\ o + k \in 1..Len(v)
      BY <1>1
    <2>. QED
      BY <1>1, <1>2, <1>3, <2>1, SubSeqProperties
  <1>. QED
    BY <1>4, <1>5

PairsOf(n, x, y) == [i \in 1..n |-> <<x[i], y[i]>>]

LEMMA PairsFlat ==
    ASSUME NEW n \in Nat, NEW x \in [1..n -> Nat], NEW y \in [1..n -> Nat]
    PROVE  /\ DOMAIN FlattenSeq(PairsOf(n, x, y)) = 1..(2 * n) /\ Len(FlattenSeq(PairsOf(n, x, y))) = 2 * n
           /\ \A i \in 1..n : /\ FlattenSeq(PairsOf(n, x, y))[2 * (i - 1) + 1] = x[i]
                              /\ FlattenSeq(PairsOf(n, x, y))[2 * (i - 1) + 2] = y[i]
  <1>1. PICK p : p = PairsOf(n, x, y)
    OBVIOUS
  <1>2. p = [i \in 1..n |-> <<x[i], y[i]>>]
    BY <1>1, Zenon DEF PairsOf
  <1>3. \A i \in 1..n : p[i] \in Seq(Nat) /\ Len(p[i]) = 2 /\ p[i][1] = x[i] /\ p[i][2] = y[i]
    BY <1>2
  <1>4. p \in Seq(Seq(Nat)) /\ Len(p) = n
    <2>1. p \in [1..n -> Seq(Nat)]
      BY <1>2, <1>3
    <2>. QED
      BY <2>1
  <1>5. PICK b : b = [k \in 0..n |-> 2 * k]
    OBVIOUS
  <1>6. b \in [0..n -> Nat] /\ b[0] = 0 /\ \A k \in 0..n : b[k] = 2 * k
    BY <1>5
  <1>7. \A q \in 1..n : b[q] = b[q - 1] + Len(p[q])
    <2>1. ASSUME NEW q \in 1..n PROVE b[q] = b[q - 1] + Len(p[q])
      <3>1. q \in 0..n /\ q - 1 \in 0..n /\ 2 * q = 2 * (q - 1) + 2
        OBVIOUS
      <3>. QED
        BY <1>3, <1>6, <3>1
    <2>. QED
      BY <2>1
  <1>8. PICK flat : flat = FlattenSeq(p)
    OBVIOUS
  <1>9. flat \in Seq(Nat) /\ Placed(flat, p, b, n)
    BY <1>4, <1>6, <1>7, <1>8, FlattenPlaces, Zenon
  <1>10. /\ Len(flat) = b[n]
         /\ \A q \in 1..n : \A i \in 1..Len(p[q]) : flat[b[q - 1] + i] = p[q][i]
    BY <1>9, Zenon DEF Placed
  <1>11. Len(flat) = 2 * n /\ DOMAIN flat = 1..(2 * n)
    BY <1>6, <1>9, <1>10
  <1>12. ASSUME NEW i \in 1..n
         PROVE  flat[2 * (i - 1) + 1] = x[i] /\ flat[2 * (i - 1) + 2] = y[i]
    <2>1. 1 \in 1..Len(p[i]) /\ 2 \in 1..Len(p[i])
      BY <1>3
    <2>2. flat[b[i - 1] + 1] = p[i][1] /\ flat[b[i - 1] + 2] = p[i][2]
      BY <1>10, <2>1, Zenon
    <2>3. b[i - 1] = 2 * (i - 1)
      BY <1>6
    <2>. QED
      BY <1>3, <2>2, <2>3, Zenon
  <1>. QED
    BY <1>1, <1>8, <1>11, <1>12, Zenon

-------------------------------------------------------------------------------
(* Where texts lie that follow one another *)

Lengths(t) == [k \in 1..Len(t) |-> Len(t[k])]

TextPlaces(t) == CHOOSE p : RunningSum(Lengths(t), Len(t), p)

AreTexts(t) == t \in Seq(Seq(Nat))

LEMMA PlacesAre ==
    ASSUME NEW t, AreTexts(t)
    PROVE  /\ Len(t) \in Nat /\ DOMAIN t = 1..Len(t)
           /\ RunningSum(Lengths(t), Len(t), TextPlaces(t))
           /\ TextPlaces(t) \in [0..Len(t) -> Nat] /\ TextPlaces(t)[0] = 0
           /\ \A k \in 1..Len(t) : /\ TextPlaces(t)[k] = TextPlaces(t)[k - 1] + Len(t[k])
                                   /\ t[k] \in Seq(Nat) /\ Len(t[k]) \in Nat /\ k - 1 \in 0..Len(t)
  <1>1. Lengths(t) \in [1..Len(t) -> Nat] /\ Len(t) \in Nat
    BY DEF Lengths, AreTexts
  <1>2. \E p : RunningSum(Lengths(t), Len(t), p)
    BY <1>1, RunningSumExists
  <1>3. RunningSum(Lengths(t), Len(t), TextPlaces(t))
    BY <1>2, Zenon DEF TextPlaces
  <1>. QED
    BY <1>3 DEF RunningSum, Lengths, AreTexts

LEMMA PlacesRise ==
    ASSUME NEW t, AreTexts(t), NEW i \in 0..Len(t)
    PROVE  \A j \in i..Len(t) : TextPlaces(t)[i] <= TextPlaces(t)[j]
  <1>. DEFINE S == {d \in Nat : i + d <= Len(t) => TextPlaces(t)[i] <= TextPlaces(t)[i + d]}
  <1>1. 0 \in S
    BY PlacesAre
  <1>2. ASSUME NEW d \in Nat, d \in S PROVE d + 1 \in S
    <2>. SUFFICES ASSUME i + (d + 1) <= Len(t) PROVE TextPlaces(t)[i] <= TextPlaces(t)[i + (d + 1)]
      OBVIOUS
    <2>1. i + (d + 1) \in 1..Len(t) /\ (i + (d + 1)) - 1 = i + d /\ i + d \in 0..Len(t)
      OBVIOUS
    <2>2. /\ TextPlaces(t)[i + (d + 1)] = TextPlaces(t)[i + d] + Len(t[i + (d + 1)])
          /\ Len(t[i + (d + 1)]) \in Nat
      BY <2>1, PlacesAre
    <2>3. TextPlaces(t)[i] \in Nat /\ TextPlaces(t)[i + d] \in Nat
      BY <2>1, PlacesAre
    <2>4. TextPlaces(t)[i] <= TextPlaces(t)[i + d]
      BY <1>2, <2>1
    <2>. QED
      BY <2>2, <2>3, <2>4
  <1>3. Nat \subseteq S
    <2>. HIDE DEF S
    <2>. QED
      BY <1>1, <1>2, SetInduction
  <1>. SUFFICES ASSUME NEW j \in i..Len(t) PROVE TextPlaces(t)[i] <= TextPlaces(t)[j]
    OBVIOUS
  <1>4. j - i \in Nat /\ i + (j - i) = j
    OBVIOUS
  <1>5. j - i \in S
    BY <1>3, <1>4
  <1>. QED
    BY <1>4, <1>5

LEMMA FlattenIsPlaced ==
    ASSUME NEW t, AreTexts(t)
    PROVE  /\ FlattenSeq(t) \in Seq(Nat) /\ Placed(FlattenSeq(t), t, TextPlaces(t), Len(t))
           /\ Len(FlattenSeq(t)) = TextPlaces(t)[Len(t)]
  <1>1. PICK n \in Nat : n = Len(t)
    BY PlacesAre
  <1>2. /\ TextPlaces(t) \in [0..n -> Nat] /\ TextPlaces(t)[0] = 0
        /\ \A p \in 1..n : TextPlaces(t)[p] = TextPlaces(t)[p - 1] + Len(t[p])
    BY <1>1, PlacesAre
  <1>3. FlattenSeq(t) \in Seq(Nat) /\ Placed(FlattenSeq(t), t, TextPlaces(t), n)
    <2>1. PICK b : b = TextPlaces(t)
      OBVIOUS
    <2>2. FlattenSeq(t) \in Seq(Nat) /\ Placed(FlattenSeq(t), t, b, n)
      BY <1>1, <1>2, <2>1, FlattenPlaces, Zenon DEF AreTexts
    <2>. QED
      BY <2>1, <2>2
  <1>4. Len(FlattenSeq(t)) = TextPlaces(t)[n]
    BY <1>3, Zenon DEF Placed
  <1>. QED
    BY <1>1, <1>3, <1>4, Zenon

\* A part of a sequence of strings has the places of the whole, moved.
LEMMA PlacesOfPart ==
    ASSUME NEW v, AreTexts(v), NEW t, AreTexts(t), NEW o \in Nat, o + Len(t) <= Len(v),
           \A k \in 1..Len(t) : t[k] = v[o + k]
    PROVE  \A k \in 0..Len(t) : TextPlaces(v)[o + k] = TextPlaces(v)[o] + TextPlaces(t)[k]
  <1>1. PICK n \in Nat : n = Len(t)
    OBVIOUS
  <1>2. o \in 0..Len(v) /\ TextPlaces(v)[o] \in Nat
    <2>1. Len(v) \in Nat /\ Len(t) \in Nat
      OBVIOUS
    <2>2. o \in 0..Len(v)
      BY <2>1
    <2>. QED
      BY <2>2, PlacesAre
  <1>. DEFINE S == {k \in 0..n : TextPlaces(v)[o + k] = TextPlaces(v)[o] + TextPlaces(t)[k]}
  <1>3. 0 \in S
    BY <1>2, PlacesAre
  <1>4. ASSUME NEW k \in 0..(n - 1), k \in S PROVE k + 1 \in S
    <2>1. /\ k + 1 \in 1..Len(t) /\ (k + 1) - 1 = k /\ k \in 0..Len(t)
          /\ o + (k + 1) \in 1..Len(v) /\ (o + (k + 1)) - 1 = o + k /\ o + k \in 0..Len(v)
      BY <1>1
    <2>2. TextPlaces(t)[k + 1] = TextPlaces(t)[k] + Len(t[k + 1]) /\ Len(t[k + 1]) \in Nat /\ TextPlaces(t)[k] \in Nat
      BY <2>1, PlacesAre
    <2>3. TextPlaces(v)[o + (k + 1)] = TextPlaces(v)[o + k] + Len(v[o + (k + 1)])
      BY <2>1, PlacesAre
    <2>4. t[k + 1] = v[o + (k + 1)]
      BY <2>1
    <2>5. TextPlaces(v)[o + k] = TextPlaces(v)[o] + TextPlaces(t)[k]
      BY <1>4
    <2>6. k + 1 \in 0..n
      OBVIOUS
    <2>. QED
      BY <1>2, <2>2, <2>3, <2>4, <2>5, <2>6
  <1>5. 0..n \subseteq S
    <2>. HIDE DEF S
    <2>. QED
      BY <1>3, <1>4, IntervalInduction
  <1>. QED
    BY <1>1, <1>5

\* Different strings that all occur are no longer than all of them together.
LEMMA DistinctFits ==
    ASSUME NEW t, AreTexts(t), NEW d, AreTexts(d),
           \A i \in 1..Len(d), j \in 1..Len(d) : d[i] = d[j] => i = j,
           \A j \in 1..Len(d) : \E k \in 1..Len(t) : t[k] = d[j]
    PROVE  TextPlaces(d)[Len(d)] <= TextPlaces(t)[Len(t)]
  <1>1. PICK n \in Nat, m \in Nat : n = Len(t) /\ m = Len(d)
    BY PlacesAre
  <1>2. PICK r : r = [j \in 1..m |-> CHOOSE k \in 1..n : t[k] = d[j]]
    OBVIOUS
  <1>3. \A j \in 1..m : r[j] \in 1..n /\ t[r[j]] = d[j]
    BY <1>1, <1>2
  <1>4. \A i \in 1..m, j \in 1..m : r[i] = r[j] => i = j
    BY <1>1, <1>3
  <1>5. PICK w \in [1..m -> Nat] : w = Lengths(d)
    BY <1>1, PlacesAre DEF Lengths
  <1>6. \A j \in 1..m : w[j] = Len(t[r[j]])
    BY <1>1, <1>3, <1>5 DEF Lengths
  <1>7. PICK b \in [0..n -> Nat] : b = TextPlaces(t)
    BY <1>1, PlacesAre
  <1>8. b[0] = 0 /\ \A k \in 1..n : b[k] = b[k - 1] + Len(t[k]) /\ Len(t[k]) \in Nat
    BY <1>1, <1>7, PlacesAre
  <1>. DEFINE Upto(k) == {j \in 1..m : r[j] <= k}
              S == {k \in 0..n : Below(w, m, Upto(k), b[k])}
  <1>9. 0 \in S
    <2>1. Upto(0) = {}
      BY <1>3
    <2>2. ASSUME NEW total, RunningSum(OnlyOf(w, m, {}), m, total) PROVE total[m] <= b[0]
      <3>1. total[m] = 0
        BY <2>2, RunningSumOfNothing
      <3>. QED
        BY <1>8, <3>1
    <2>3. Below(w, m, {}, b[0])
      BY <2>2 DEF Below, SumOfOnly
    <2>4. Below(w, m, Upto(0), b[0])
      BY <2>1, <2>3, Zenon
    <2>5. 0 \in 0..n
      OBVIOUS
    <2>. QED
      BY <2>4, <2>5, Zenon
  <1>10. ASSUME NEW k \in 0..(n - 1), k \in S PROVE k + 1 \in S
    <2>1. k + 1 \in 1..n /\ (k + 1) - 1 = k /\ k + 1 \in 0..n
      OBVIOUS
    <2>2. b[k + 1] = b[k] + Len(t[k + 1]) /\ b[k] \in Nat
      BY <1>8, <2>1
    <2>3. Below(w, m, Upto(k), b[k])
      BY <1>10
    <2>4. CASE \E x \in 1..m : r[x] = k + 1
      <3>1. PICK x \in 1..m : r[x] = k + 1
        BY <2>4
      <3>2. \A j \in 1..m : r[j] \in Nat
        BY <1>3
      <3>3. \A j \in 1..m : j # x => r[j] # k + 1
        BY <1>4, <3>1
      <3>4. ASSUME NEW j \in 1..m PROVE r[j] <= k <=> r[j] <= k + 1 /\ j # x
        <4>1. CASE j = x
          BY <3>1, <4>1
        <4>2. CASE j # x
          BY <3>2, <3>3, <4>2, SMTT(60)
        <4>. QED
          BY <4>1, <4>2
      <3>5. Without(Upto(k + 1), m, x, Upto(k))
        <4>1. x \in Upto(k + 1)
          BY <3>1
        <4>2. ASSUME NEW j PROVE j \in Upto(k) <=> j \in Upto(k + 1) \ {x}
          BY <3>4
        <4>3. Upto(k + 1) \subseteq 1..m
          OBVIOUS
        <4>4. Upto(k) = Upto(k + 1) \ {x}
          <5>. HIDE DEF Upto
          <5>. QED
            BY <4>2
        <4>. QED
          BY <4>1, <4>3, <4>4, Zenon DEF Without
      <3>6. Below(w, m, Upto(k + 1), b[k] + w[x])
        <4>1. PICK new, old : new = Upto(k + 1) /\ old = Upto(k)
          OBVIOUS
        <4>2. PICK e \in Nat : e = b[k]
          BY <2>2
        <4>3. Without(new, m, x, old) /\ Below(w, m, old, e)
          BY <2>3, <3>5, <4>1, <4>2, Zenon
        <4>4. Below(w, m, new, e + w[x])
          BY <4>3, SumStep
        <4>. QED
          BY <4>1, <4>2, <4>4, Zenon
      <3>7. w[x] = Len(t[k + 1])
        BY <1>6, <3>1
      <3>8. Below(w, m, Upto(k + 1), b[k + 1])
        BY <2>2, <3>6, <3>7, Zenon
      <3>. QED
        BY <2>1, <3>8
    <2>5. CASE ~\E x \in 1..m : r[x] = k + 1
      <3>1. Upto(k + 1) = Upto(k)
        <4>1. \A j \in 1..m : r[j] \in Nat /\ r[j] # k + 1
          BY <1>3, <2>5
        <4>2. \A j \in 1..m : r[j] <= k + 1 <=> r[j] <= k
          BY <4>1
        <4>. QED
          BY <4>2
      <3>2. ASSUME NEW total, SumOfOnly(w, m, Upto(k), total) PROVE total[m] <= b[k + 1]
        <4>1. total[m] \in Nat
          BY <3>2 DEF SumOfOnly, RunningSum
        <4>2. total[m] <= b[k]
          BY <2>3, <3>2, Zenon DEF Below
        <4>3. Len(t[k + 1]) \in Nat
          BY <1>8, <2>1
        <4>. QED
          BY <2>2, <4>1, <4>2, <4>3
      <3>3. Below(w, m, Upto(k), b[k + 1])
        BY <3>2, Zenon DEF Below
      <3>. QED
        BY <2>1, <3>1, <3>3
    <2>. QED
      BY <2>4, <2>5
  <1>11. 0..n \subseteq S
    <2>. HIDE DEF S
    <2>. QED
      BY <1>9, <1>10, IntervalInduction
  <1>12. Upto(n) = 1..m
    BY <1>3
  <1>13. OnlyOf(w, m, 1..m) = w
    BY DEF OnlyOf
  <1>14. RunningSum(OnlyOf(w, m, Upto(n)), m, TextPlaces(d))
    <2>1. RunningSum(Lengths(d), Len(d), TextPlaces(d))
      BY PlacesAre
    <2>. QED
      BY <1>1, <1>5, <1>12, <1>13, <2>1, Zenon
  <1>15. n \in 0..n
    OBVIOUS
  <1>16. Below(w, m, Upto(n), b[n])
    BY <1>11, <1>15
  <1>17. TextPlaces(d)[m] <= b[n]
    BY <1>14, <1>16, Zenon DEF Below, SumOfOnly
  <1>. QED
    BY <1>1, <1>7, <1>17

LEMMA TextsFinite ==
    ASSUME NEW t, AreTexts(t)
    PROVE  IsFiniteSet({t[k] : k \in 1..Len(t)})
  <1>1. PICK n \in Nat : n = Len(t)
    BY PlacesAre
  <1>. DEFINE First(j) == {t[k] : k \in 1..j}
              S == {j \in 0..n : IsFiniteSet(First(j))}
  <1>2. 0 \in S
    <2>1. First(0) = {}
      OBVIOUS
    <2>2. IsFiniteSet(First(0))
      BY <2>1, FS_EmptySet, Zenon
    <2>3. 0 \in 0..n
      OBVIOUS
    <2>. QED
      BY <2>2, <2>3, Zenon
  <1>3. ASSUME NEW j \in 0..(n - 1), j \in S PROVE j + 1 \in S
    <2>1. First(j + 1) = First(j) \cup {t[j + 1]}
      <3>1. \A k \in 1..(j + 1) : k \in 1..j \/ k = j + 1
        OBVIOUS
      <3>2. \A k \in 1..j : k \in 1..(j + 1)
        OBVIOUS
      <3>3. j + 1 \in 1..(j + 1)
        OBVIOUS
      <3>. QED
        BY <3>1, <3>2, <3>3, Zenon
    <2>2. IsFiniteSet(First(j))
      BY <1>3, Zenon
    <2>. HIDE DEF First
    <2>3. IsFiniteSet(First(j) \cup {t[j + 1]})
      BY <2>2, FS_AddElement
    <2>4. j + 1 \in 0..n
      OBVIOUS
    <2>. QED
      BY <2>1, <2>3, <2>4, Zenon
  <1>4. 0..n \subseteq S
    <2>. HIDE DEF S
    <2>. QED
      BY <1>2, <1>3, IntervalInduction
  <1>5. n \in 0..n
    OBVIOUS
  <1>6. IsFiniteSet(First(n))
    BY <1>4, <1>5, Zenon
  <1>. QED
    BY <1>1, <1>6, Zenon

\* Rows a + 1 to a + n have the same string.
SameText(t, a, n, s) == a + n <= Len(t) /\ \A j \in 1..n : t[a + j] = s

LEMMA PlacesOfRun ==
    ASSUME NEW t, AreTexts(t), NEW a \in Nat, NEW n \in Nat, NEW s \in Seq(Nat), SameText(t, a, n, s)
    PROVE  \A j \in 0..n : TextPlaces(t)[a + j] = TextPlaces(t)[a] + j * Len(s)
  <1>. DEFINE S == {j \in 0..n : TextPlaces(t)[a + j] = TextPlaces(t)[a] + j * Len(s)}
  <1>1. Len(t) \in Nat /\ TextPlaces(t) \in [0..Len(t) -> Nat] /\ a + n <= Len(t)
    BY PlacesAre DEF SameText
  <1>2. PICK len \in Nat : len = Len(s)
    OBVIOUS
  <1>3. PICK p : p = TextPlaces(t)
    OBVIOUS
  <1>4. a \in 0..Len(t) /\ p[a] \in Nat
    <2>1. a \in 0..Len(t)
      BY <1>1
    <2>. QED
      BY <1>1, <1>3, <2>1, Zenon
  <1>5. 0 \in S
    <2>1. a + 0 = a /\ 0 * len = 0 /\ 0 \in 0..n
      OBVIOUS
    <2>. QED
      BY <1>2, <1>3, <1>4, <2>1
  <1>6. ASSUME NEW j \in 0..(n - 1), j \in S PROVE j + 1 \in S
    <2>1. a + j + 1 \in 1..Len(t) /\ (a + j + 1) - 1 = a + j /\ j + 1 \in 1..n /\ a + (j + 1) = a + j + 1
      BY <1>1
    <2>2. p[a + j + 1] = p[a + j] + Len(t[a + j + 1])
      BY <1>3, <2>1, PlacesAre
    <2>3. t[a + j + 1] = s
      BY <2>1 DEF SameText
    <2>4. (j + 1) * len = j * len + len /\ j * len \in Nat
      BY Z3
    <2>5. p[a + j] = p[a] + j * len
      BY <1>2, <1>3, <1>6
    <2>6. p[a + (j + 1)] = p[a] + (j + 1) * len
      BY <1>2, <1>4, <2>1, <2>2, <2>3, <2>4, <2>5
    <2>. QED
      BY <1>2, <1>3, <2>1, <2>6
  <1>7. 0..n \subseteq S
    <2>. HIDE DEF S
    <2>. QED
      BY <1>5, <1>6, IntervalInduction
  <1>. QED
    BY <1>7

AllEmpty(t) == AreTexts(t) /\ \A k \in 1..Len(t) : t[k] = <<>>

LEMMA NoPlaces ==
    ASSUME NEW t, AllEmpty(t)
    PROVE  \A k \in 0..Len(t) : TextPlaces(t)[k] = 0
  <1>1. PICK n \in Nat : n = Len(t)
    BY PlacesAre DEF AllEmpty
  <1>2. SameText(t, 0, n, <<>>)
    BY <1>1 DEF SameText, AllEmpty
  <1>3. \A k \in 0..n : TextPlaces(t)[0 + k] = TextPlaces(t)[0] + k * Len(<<>>)
    <2>1. AreTexts(t) /\ 0 \in Nat /\ <<>> \in Seq(Nat)
      BY DEF AllEmpty
    <2>2. PICK s \in Seq(Nat) : s = <<>>
      BY <2>1, Zenon
    <2>3. SameText(t, 0, n, s)
      BY <1>2, <2>2, Zenon
    <2>4. \A k \in 0..n : TextPlaces(t)[0 + k] = TextPlaces(t)[0] + k * Len(s)
      BY <2>1, <2>3, PlacesOfRun
    <2>. QED
      BY <2>2, <2>4, Zenon
  <1>4. TextPlaces(t)[0] = 0 /\ Len(<<>>) = 0
    BY PlacesAre DEF AllEmpty
  <1>5. ASSUME NEW k \in 0..n PROVE TextPlaces(t)[k] = 0
    <2>1. 0 + k = k /\ k * 0 = 0
      OBVIOUS
    <2>2. TextPlaces(t)[k] = 0 + 0
      BY <1>3, <1>4, <2>1
    <2>. QED
      BY <2>2
  <1>. QED
    BY <1>1, <1>5

-------------------------------------------------------------------------------
(* Runs of equal codes *)

RunLists == Seq([code : Nat, count : Nat \ {0}])

\* Runs stand for the first k codes: what each one stands for follows the one before.
Counts(r) == [j \in 1..Len(r) |-> r[j].count]

StandFor(r, codes, k, p) ==
    /\ RunningSum(Counts(r), Len(r), p) /\ p[Len(r)] = k
    /\ \A j \in 1..Len(r) : \A i \in 1..(r[j].count) : codes[p[j - 1] + i] = r[j].code

LEMMA CountsAre ==
    ASSUME NEW r \in RunLists
    PROVE  /\ Len(r) \in Nat /\ Counts(r) \in [1..Len(r) -> Nat]
           /\ \A j \in 1..Len(r) : r[j].code \in Nat /\ r[j].count \in Nat \ {0} /\ Counts(r)[j] = r[j].count
  <1>1. Len(r) \in Nat /\ \A j \in 1..Len(r) : r[j] \in [code : Nat, count : Nat \ {0}]
    <2>1. r \in Seq([code : Nat, count : Nat \ {0}])
      BY DEF RunLists
    <2>. QED
      BY <2>1, LenProperties, ElementOfSeq
  <1>2. ASSUME NEW j \in 1..Len(r) PROVE r[j].code \in Nat /\ r[j].count \in Nat \ {0}
    <2>1. PICK e \in [code : Nat, count : Nat \ {0}] : e = r[j]
      BY <1>1
    <2>2. e.code \in Nat /\ e.count \in Nat \ {0}
      OBVIOUS
    <2>. QED
      BY <2>1, <2>2
  <1>3. \A j \in 1..Len(r) : r[j].count \in Nat
    BY <1>2
  <1>4. Counts(r) \in [1..Len(r) -> Nat]
    BY <1>3 DEF Counts
  <1>5. \A j \in 1..Len(r) : Counts(r)[j] = r[j].count
    BY DEF Counts
  <1>. QED
    BY <1>1, <1>2, <1>4, <1>5
===============================================================================
