-------------------------- MODULE SplitEncoderProofs --------------------------
(***************************************************************************)
(* Proofs about SplitEncoder, SplitPlanner and BitPacking, for every width *)
(* of a value, every column and every setting.                             *)
(*                                                                         *)
(* First the sample, the extracted range and the plan; then the bytes:     *)
(* what BitPacking packs is what it unpacks, whole or row by row, for      *)
(* every size of a block, and what is read of a column is what was         *)
(* encoded, whatever the plan, the schemes of the sections and the address *)
(* of the output.                                                          *)
(***************************************************************************)
EXTENDS SplitEncoder, InductionFacts

---------------------------------------------------------------------------
(* The sample *)

\* Rising numbers from lo on and below hi.
Rising(s, lo, hi) ==
    /\ s \in Seq(Nat)
    /\ \A i \in 1..Len(s) : lo <= s[i] /\ s[i] < hi
    /\ \A i \in 1..Len(s) : \A j \in 1..Len(s) : i < j => s[i] < s[j]

\* A function on 1..n is a sequence of length n.
LEMMA ASequence ==
    ASSUME NEW A, NEW n \in Nat, NEW f \in [1..n -> A]
    PROVE  f \in Seq(A) /\ Len(f) = n
  OBVIOUS

LEMMA RisingConcat ==
    ASSUME NEW lo \in Nat, NEW mid \in Nat, NEW hi \in Nat, lo <= mid, mid <= hi,
           NEW s, Rising(s, lo, mid), NEW t, Rising(t, mid, hi)
    PROVE  Rising(s \o t, lo, hi)
  <1>1. s \in Seq(Nat) /\ t \in Seq(Nat)
    BY DEF Rising
  <1>2. PICK u : u = s \o t
    OBVIOUS
  <1>3. /\ u \in Seq(Nat) /\ Len(u) = Len(s) + Len(t)
        /\ \A i \in 1..Len(u) : u[i] = IF i <= Len(s) THEN s[i] ELSE t[i - Len(s)]
    BY <1>1, <1>2, ConcatProperties
  <1>4. PICK m \in Nat, n \in Nat : m = Len(s) /\ n = Len(t)
    BY <1>1
  <1>5. ASSUME NEW i \in 1..(m + n)
        PROVE  /\ i <= m => i \in 1..m /\ u[i] = s[i] /\ lo <= u[i] /\ u[i] < mid
               /\ i > m => i - m \in 1..n /\ u[i] = t[i - m] /\ mid <= u[i] /\ u[i] < hi
    <2>1. i <= m => i \in 1..m
      OBVIOUS
    <2>2. i > m => i - m \in 1..n
      OBVIOUS
    <2>3. u[i] = IF i <= m THEN s[i] ELSE t[i - m]
      BY <1>3, <1>4
    <2>. QED
      BY <1>4, <2>1, <2>2, <2>3 DEF Rising
  <1>6. ASSUME NEW i \in 1..(m + n)
        PROVE  lo <= u[i] /\ u[i] < hi
    <2>1. u[i] \in Nat
      BY <1>3, <1>4
    <2>. QED
      BY <1>5, <2>1
  <1>7. ASSUME NEW i \in 1..(m + n), NEW j \in 1..(m + n), i < j
        PROVE  u[i] < u[j]
    <2>1. CASE j <= m
      <3>1. i \in 1..m /\ j \in 1..m /\ u[i] = s[i] /\ u[j] = s[j]
        BY <1>5, <1>7, <2>1
      <3>. QED
        BY <1>4, <1>7, <3>1 DEF Rising
    <2>2. CASE i > m
      <3>1. /\ i - m \in 1..n /\ j - m \in 1..n /\ u[i] = t[i - m] /\ u[j] = t[j - m]
            /\ i - m < j - m
        BY <1>5, <1>7, <2>2
      <3>. QED
        BY <1>4, <3>1 DEF Rising
    <2>3. CASE i <= m /\ j > m
      <3>1. u[i] < mid /\ mid <= u[j] /\ u[i] \in Nat /\ u[j] \in Nat
        BY <1>3, <1>4, <1>5, <2>3, SMTT(30)
      <3>. QED
        BY <3>1
    <2>. QED
      BY <2>1, <2>2, <2>3
  <1>. QED
    BY <1>2, <1>3, <1>4, <1>6, <1>7 DEF Rising

LEMMA TargetType ==
    ASSUME config \in Configs, NEW n \in Nat
    PROVE  Target(n) \in 0..n /\ (n > 0 => Target(n) > 0)
  <1>1. config.maxSamples \in Nat
    BY PlannerAssumption
  <1>. QED
    BY <1>1 DEF Target, AtMost

\* One row of every stride.
LEMMA EveryNthRises ==
    ASSUME NEW n \in Nat \ {0}, NEW stride \in Nat \ {0}
    PROVE  Rising(EveryNth(n, stride), 0, n) /\ Len(EveryNth(n, stride)) > 0
  <1>1. n + stride - 1 \in Nat
    OBVIOUS
  <1>2. PICK q \in Nat, x \in 0..(stride - 1) :
           n + stride - 1 = q * stride + x /\ (n + stride - 1) \div stride = q
    BY <1>1, Divided
  <1>3. PICK e : e = EveryNth(n, stride)
    OBVIOUS
  <1>4. e = [k \in 1..q |-> (k - 1) * stride]
    BY <1>2, <1>3 DEF EveryNth
  <1>5. e \in Seq(Nat) /\ Len(e) = q
    <2>1. \A k \in 1..q : (k - 1) * stride \in Nat
      <3>1. \A k \in 1..q : k - 1 \in Nat
        OBVIOUS
      <3>. QED
        BY <3>1
    <2>. QED
      BY <1>4, <2>1, IsASeq, LenProperties
  <1>6. q > 0
    <2>1. q = 0 => q * stride = 0
      OBVIOUS
    <2>. QED
      BY <1>2, <2>1
  <1>7. ASSUME NEW k \in 1..q
        PROVE  0 <= e[k] /\ e[k] < n
    <2>1. PICK p \in Nat : p = (k - 1) * stride
      BY <1>4, <1>5
    <2>2. (k - 1) * stride <= (q - 1) * stride
      BY Z3
    <2>3. (q - 1) * stride = q * stride - stride
      BY Z3
    <2>4. PICK r \in Nat : r = q * stride
      OBVIOUS
    <2>5. p <= r - stride
      BY <2>1, <2>2, <2>3, <2>4
    <2>6. n + stride - 1 = r + x
      BY <1>2, <2>4
    <2>7. e[k] = p
      BY <1>4, <2>1
    <2>. QED
      BY <2>5, <2>6, <2>7
  <1>8. ASSUME NEW i \in 1..q, NEW j \in 1..q, i < j
        PROVE  e[i] < e[j]
    <2>1. (i - 1) * stride < (j - 1) * stride
      BY <1>8, Z3
    <2>. QED
      BY <1>4, <2>1
  <1>. QED
    BY <1>3, <1>5, <1>6, <1>7, <1>8 DEF Rising
\* The rows of a block end before the next block starts, so all blocks together rise.
LEMMA BlocksRise ==
    ASSUME config \in Configs, config.blockSize > 0, NEW n \in Nat \ {0}
    PROVE  Rising(Blocks(n), 0, n)
  <1>1. PICK z \in Nat \ {0} : z = config.blockSize
    BY PlannerAssumption
  <1>2. PICK t \in 1..n : t = Target(n)
    BY TargetType
  <1>3. PICK B : B = AtLeast(1, t \div z)
    OBVIOUS
  <1>4. PICK S : S = AtLeast(1, n \div B)
    OBVIOUS
  <1>5. PICK tq \in Nat, tx \in 0..(z - 1) : t = tq * z + tx /\ t \div z = tq
    <2>1. t \in Nat
      OBVIOUS
    <2>. QED
      BY <2>1, Divided
  <1>6. B \in Nat \ {0} /\ (B = 1 \/ B = tq)
    BY <1>3, <1>5 DEF AtLeast
  <1>7. PICK nq \in Nat, nx \in 0..(B - 1) : n = nq * B + nx /\ n \div B = nq
    BY <1>6, Divided
  <1>8. S \in Nat \ {0} /\ nq <= S
    BY <1>4, <1>7 DEF AtLeast
  <1>9. B > 1 => z <= S
    <2>. SUFFICES ASSUME B > 1 PROVE z <= S
      OBVIOUS
    <2>1. B = tq
      BY <1>6
    <2>2. tq * z \in Nat
      OBVIOUS
    <2>3. B * z <= n
      BY <1>2, <1>5, <2>1, <2>2
    <2>4. z * B + 0 < (nq + 1) * B
      <3>1. (nq + 1) * B = nq * B + B
        BY <1>6, Z3
      <3>2. nq * B \in Nat
        BY <1>6
      <3>3. z * B = B * z
        BY <1>6
      <3>4. PICK m \in Nat : m = nq * B
        BY <3>2
      <3>5. PICK l \in Nat : l = B * z
        BY <1>6
      <3>6. l < m + B
        BY <1>6, <1>7, <2>3, <3>4, <3>5
      <3>. QED
        BY <3>1, <3>3, <3>4, <3>5, <3>6
    <2>5. z < nq + 1
      <3>1. 0 \in 0..(B - 1) /\ nq + 1 \in Nat /\ z \in Nat
        BY <1>6
      <3>. QED
        BY <1>6, <2>4, <3>1, SmallerQuotient
    <2>. QED
      BY <1>8, <2>5
  <1>10. B = 1 => S = n
    <2>. SUFFICES ASSUME B = 1 PROVE S = n
      OBVIOUS
    <2>1. nx = 0 /\ n = nq
      BY <1>7
    <2>. QED
      BY <1>4, <1>7, <2>1 DEF AtLeast
  <1>11. ASSUME NEW b \in 1..B
         PROVE  (b - 1) * S \in Nat /\ b * S \in Nat /\ b * S = (b - 1) * S + S
    <2>1. b - 1 \in Nat /\ b \in Nat
      BY <1>6
    <2>2. (b - 1) * S \in Nat /\ b * S \in Nat
      BY <1>8, <2>1
    <2>3. b * S = (b - 1) * S + S
      BY <1>8, <2>1, Z3
    <2>. QED
      BY <2>2, <2>3
  <1>12. ASSUME NEW b \in 1..B
         PROVE  BlockEnd((b - 1) * S, n) \in Nat /\ BlockEnd((b - 1) * S, n) <= n
                /\ BlockEnd((b - 1) * S, n) <= b * S
    <2>1. PICK p \in Nat : p = (b - 1) * S
      BY <1>11
    <2>2. b * S = p + S
      BY <1>11, <2>1
    <2>3. BlockEnd(p, n) = IF p + z <= n THEN p + z ELSE n
      BY <1>1 DEF BlockEnd, AtMost
    <2>4. CASE B = 1
      <3>1. b = 1 /\ 0 * S = 0
        BY <1>8, <2>4
      <3>2. p = 0 /\ S = n
        BY <1>10, <2>1, <2>4, <3>1
      <3>. QED
        BY <2>1, <2>2, <2>3, <3>2
    <2>5. CASE B # 1
      <3>1. z <= S
        BY <1>6, <1>9, <2>5
      <3>. QED
        BY <1>8, <2>1, <2>2, <2>3, <3>1
    <2>. QED
      BY <2>4, <2>5
  <1>13. PICK rows : rows = [b \in 1..B |-> [k \in 1..(BlockEnd((b - 1) * S, n) - (b - 1) * S)
                                               |-> (b - 1) * S + k - 1]]
    OBVIOUS
  <1>14. Blocks(n) = FlattenSeq(rows)
    BY <1>1, <1>2, <1>3, <1>4, <1>13, Zenon DEF Blocks
  <1>15. ASSUME NEW b \in 1..B
         PROVE  rows[b] \in Seq(Nat) /\ Rising(rows[b], (b - 1) * S, b * S) /\ Rising(rows[b], 0, n)
    <2>1. PICK p \in Nat : p = (b - 1) * S
      BY <1>11
    <2>2. PICK e \in Nat : e = BlockEnd(p, n)
      BY <1>12, <2>1
    <2>3. PICK d : d = b * S
      OBVIOUS
    <2>4. e <= n /\ e <= d /\ d \in Nat
      BY <1>11, <1>12, <2>1, <2>2, <2>3
    <2>5. PICK r : r = rows[b]
      OBVIOUS
    <2>6. r = [k \in 1..(e - p) |-> p + k - 1]
      BY <1>13, <2>1, <2>2, <2>5
    <2>7. PICK l \in Nat : 1..(e - p) = 1..l /\ p + l <= IF l = 0 THEN p ELSE e
      <3>1. CASE e >= p
        <4>1. e - p \in Nat /\ p + (e - p) <= IF e - p = 0 THEN p ELSE e
          BY <3>1
        <4>. QED
          BY <4>1
      <3>2. CASE e < p
        <4>1. 1..(e - p) = 1..0 /\ 0 \in Nat /\ p + 0 <= IF 0 = 0 THEN p ELSE e
          BY <3>2
        <4>. QED
          BY <4>1
      <3>. QED
        BY <3>1, <3>2
    <2>7a. r = [k \in 1..l |-> p + k - 1]
      BY <2>6, <2>7, Zenon
    <2>8. r \in Seq(Nat) /\ Len(r) = l
      <3>1. \A k \in 1..l : p + k - 1 \in Nat
        OBVIOUS
      <3>. QED
        BY <2>7a, <3>1, IsASeq, LenProperties
    <2>9. \A k \in 1..l : r[k] = p + k - 1
      BY <2>7a
    <2>10. \A k \in 1..l : p <= r[k] /\ r[k] < e
      BY <2>7, <2>9
    <2>11. \A i \in 1..l : \A j \in 1..l : i < j => r[i] < r[j]
      BY <2>9
    <2>12. Rising(r, p, d)
      BY <2>4, <2>8, <2>10, <2>11 DEF Rising
    <2>13. Rising(r, 0, n)
      BY <2>4, <2>8, <2>10, <2>11 DEF Rising
    <2>14. r \in Seq(Nat) /\ Rising(r, p, d) /\ Rising(r, 0, n)
      BY <2>8, <2>12, <2>13
    <2>15. r = rows[b] /\ p = (b - 1) * S /\ d = b * S
      BY <2>1, <2>3, <2>5
    <2>. QED
      BY <2>14, <2>15, Zenon
  <1>16. rows \in Seq(Seq(Nat)) /\ Len(rows) = B
    <2>1. rows = [b \in 1..B |-> rows[b]]
      BY <1>13, Zenon
    <2>2. B \in Nat /\ \A b \in 1..B : rows[b] \in Seq(Nat)
      BY <1>6, <1>15
    <2>3. [b \in 1..B |-> rows[b]] \in Seq(Seq(Nat))
      <3>1. [b \in 1..B |-> rows[b]] \in [1..B -> Seq(Nat)]
        BY <2>2, Zenon
      <3>. QED
        BY <2>2, <3>1, ASequence, Zenon
    <2>4. DOMAIN rows = 1..B
      BY <2>1, Zenon
    <2>5. rows \in Seq(Seq(Nat))
      BY <2>1, <2>3, Zenon
    <2>. QED
      BY <2>2, <2>4, <2>5, LenProperties
  <1>17. PICK f \in [1..B -> Seq(Nat)] : Flattening(f, rows)
    BY <1>6, <1>16, FlattenDef
  <1>18. PICK T : T = {b \in 0..B : b > 0 => Rising(f[b], 0, b * S) /\ Rising(f[b], 0, n)}
    OBVIOUS
  <1>19. 0 \in T
    BY <1>6, <1>18
  <1>20. ASSUME NEW b \in 0..(B - 1), b \in T
         PROVE  b + 1 \in T
    <2>1. b + 1 \in 1..B /\ b + 1 \in 0..B /\ (b + 1) - 1 = b
      BY <1>6
    <2>2. /\ Rising(rows[b + 1], b * S, (b + 1) * S) /\ Rising(rows[b + 1], 0, n)
          /\ b * S \in Nat /\ (b + 1) * S \in Nat /\ b * S <= (b + 1) * S
      <3>1. /\ Rising(rows[b + 1], ((b + 1) - 1) * S, (b + 1) * S) /\ Rising(rows[b + 1], 0, n)
            /\ ((b + 1) - 1) * S \in Nat /\ (b + 1) * S \in Nat
            /\ (b + 1) * S = ((b + 1) - 1) * S + S
        BY <1>11, <1>15, <2>1
      <3>2. PICK x \in Nat : x = b * S
        BY <2>1, <3>1
      <3>3. (b + 1) * S = x + S
        BY <2>1, <3>1, <3>2
      <3>4. x <= x + S
        BY <1>8
      <3>. QED
        BY <2>1, <3>1, <3>2, <3>3, <3>4
    <2>3. CASE b = 0
      <3>1. f[1] = rows[1]
        BY <1>17 DEF Flattening
      <3>2. Rising(rows[1], 0, 1 * S) /\ Rising(rows[1], 0, n)
        <4>1. 0 * S = 0
          BY <1>8
        <4>. QED
          BY <2>2, <2>3, <4>1
      <3>. QED
        BY <1>18, <2>1, <2>3, <3>1, <3>2
    <2>4. CASE b # 0
      <3>1. Rising(f[b], 0, b * S) /\ Rising(f[b], 0, n)
        BY <1>6, <1>18, <1>20, <2>4
      <3>2. b + 1 \in 2..Len(rows)
        BY <1>6, <1>16, <2>1, <2>4
      <3>3. f[b + 1] = f[b] \o rows[b + 1]
        BY <1>17, <2>1, <3>2 DEF Flattening
      <3>4. Rising(f[b + 1], 0, (b + 1) * S)
        <4>1. 0 \in Nat /\ 0 <= b * S
          BY <2>2
        <4>. QED
          BY <2>2, <3>1, <3>3, <4>1, RisingConcat, Zenon
      <3>5. Rising(f[b + 1], 0, n)
        <4>1. f[b] \in Seq(Nat) /\ rows[b + 1] \in Seq(Nat)
          BY <2>2, <3>1 DEF Rising
        <4>2. PICK u : u = f[b + 1]
          OBVIOUS
        <4>3. PICK v : v = f[b]
          OBVIOUS
        <4>4. PICK w : w = rows[b + 1]
          OBVIOUS
        <4>5. /\ u \in Seq(Nat) /\ Len(u) = Len(v) + Len(w)
              /\ \A i \in 1..Len(u) : u[i] = IF i <= Len(v) THEN v[i] ELSE w[i - Len(v)]
          <5>1. u = v \o w /\ v \in Seq(Nat) /\ w \in Seq(Nat)
            BY <3>3, <4>1, <4>2, <4>3, <4>4, Zenon
          <5>. QED
            BY <5>1, ConcatProperties
        <4>6. /\ \A i \in 1..Len(v) : 0 <= v[i] /\ v[i] < n
              /\ \A i \in 1..Len(w) : 0 <= w[i] /\ w[i] < n
          BY <2>2, <3>1, <4>3, <4>4 DEF Rising
        <4>7. Len(v) \in Nat /\ Len(w) \in Nat
          BY <4>1, <4>3, <4>4
        <4>8. ASSUME NEW i \in 1..Len(u)
              PROVE  0 <= u[i] /\ u[i] < n
          <5>1. i <= Len(v) => i \in 1..Len(v)
            BY <4>5, <4>7
          <5>2. ~(i <= Len(v)) => i - Len(v) \in 1..Len(w)
            BY <4>5, <4>7
          <5>. QED
            BY <4>5, <4>6, <5>1, <5>2, Zenon
        <4>9. \A i \in 1..Len(u) : \A j \in 1..Len(u) : i < j => u[i] < u[j]
          BY <3>4, <4>2 DEF Rising
        <4>. QED
          BY <4>2, <4>5, <4>8, <4>9 DEF Rising
      <3>. QED
        BY <1>18, <2>1, <3>4, <3>5
    <2>. QED
      BY <2>3, <2>4
  <1>21. 0..B \subseteq T
    BY <1>6, <1>19, <1>20, IntervalInduction
  <1>22. Rising(f[B], 0, n)
    BY <1>6, <1>18, <1>21
  <1>. QED
    BY <1>14, <1>16, <1>17, <1>22 DEF Flattening

LEMMA LookedAtRises ==
    ASSUME config \in Configs, NEW n \in Nat \ {0}
    PROVE  Rising(LookedAt(n), 0, n) /\ Rising(Uniform(n), 0, n) /\ Len(Uniform(n)) > 0
  <1>1. config.blockSize \in Nat
    BY PlannerAssumption
  <1>2. Rising(Uniform(n), 0, n) /\ Len(Uniform(n)) > 0
    <2>1. PICK t \in Nat \ {0} : t = Target(n)
      BY TargetType
    <2>2. PICK q \in Nat : n \div t = q
      BY Divided
    <2>3. AtLeast(1, n \div Target(n)) \in Nat \ {0}
      BY <2>1, <2>2 DEF AtLeast
    <2>. QED
      BY <2>3, EveryNthRises DEF Uniform
  <1>. QED
    BY <1>1, <1>2, BlocksRise DEF LookedAt
\* What is drawn from a list of rows: as many of its rows that are not null as the target
\* allows, in order, and none only if all of them are null.
DrawnFrom(out, rows, k, n) ==
    /\ Rising(out, 0, n) /\ Len(out) <= Target(n)
    /\ \A i \in 1..Len(out) : IsPresent(out[i])
    /\ \A i \in 1..Len(out) : \E j \in 1..k : out[i] = rows[j]
    /\ out = <<>> => \A j \in 1..k : ~IsPresent(rows[j])

LEMMA DrawnNext ==
    ASSUME config \in Configs, NEW n \in Nat \ {0}, NEW rows, Rising(rows, 0, n),
           NEW k \in 0..(Len(rows) - 1), NEW out, DrawnFrom(out, rows, k, n),
           NEW next, next = IF Len(out) < Target(n) /\ IsPresent(rows[k + 1])
                            THEN Append(out, rows[k + 1]) ELSE out
    PROVE  DrawnFrom(next, rows, k + 1, n)
  <1>1. rows \in Seq(Nat) /\ out \in Seq(Nat) /\ Len(rows) \in Nat /\ Len(out) \in Nat
    BY DEF Rising, DrawnFrom
  <1>2. k + 1 \in 1..Len(rows) /\ k \in Nat
    BY <1>1
  <1>3. PICK r \in Nat : r = rows[k + 1] /\ r < n
    BY <1>1, <1>2 DEF Rising
  <1>4. PICK t \in Nat \ {0} : t = Target(n)
    BY TargetType
  <1>5. CASE Len(out) < Target(n) /\ IsPresent(r)
    <2>1. next = Append(out, r)
      BY <1>3, <1>5
    <2>2. PICK m \in Nat : m = Len(out)
      BY <1>1
    <2>3. next \in Seq(Nat) /\ Len(next) = m + 1
      BY <1>1, <1>3, <2>1, <2>2, AppendProperties
    <2>4. \A i \in 1..m : next[i] = out[i]
      BY <1>1, <1>3, <2>1, <2>2, AppendProperties
    <2>5. next[m + 1] = r
      BY <1>1, <1>3, <2>1, <2>2, AppendProperties
    <2>6. ASSUME NEW i \in 1..(m + 1)
          PROVE  \/ i \in 1..m /\ next[i] = out[i]
                 \/ i = m + 1 /\ next[i] = r
      <3>1. i \in 1..m \/ i = m + 1
        OBVIOUS
      <3>. QED
        BY <2>4, <2>5, <3>1, Zenon
    <2>7. ASSUME NEW i \in 1..m
          PROVE  out[i] < r /\ out[i] \in Nat
      <3>1. PICK j \in 1..k : out[i] = rows[j]
        BY <2>2 DEF DrawnFrom
      <3>2. j \in 1..Len(rows) /\ j < k + 1
        BY <1>2
      <3>3. rows[j] < rows[k + 1] /\ rows[j] \in Nat
        BY <1>1, <1>2, <3>2 DEF Rising
      <3>. QED
        BY <1>3, <3>1, <3>3
    <2>8. Rising(next, 0, n)
      <3>1. ASSUME NEW i \in 1..(m + 1)
            PROVE  0 <= next[i] /\ next[i] < n
        BY <1>3, <2>2, <2>6 DEF DrawnFrom, Rising
      <3>2. ASSUME NEW i \in 1..(m + 1), NEW j \in 1..(m + 1), i < j
            PROVE  next[i] < next[j]
        <4>0. i \in 1..m /\ (j \in 1..m \/ j = m + 1)
          BY <3>2
        <4>1. i \in 1..m /\ next[i] = out[i]
          BY <2>4, <4>0, Zenon
        <4>2. CASE j \in 1..m
          BY <2>2, <2>4, <3>2, <4>1, <4>2 DEF DrawnFrom, Rising
        <4>3. CASE j = m + 1
          BY <2>5, <2>7, <4>1, <4>3
        <4>. QED
          BY <4>0, <4>2, <4>3, Zenon
      <3>. QED
        BY <2>3, <3>1, <3>2 DEF Rising
    <2>9. Len(next) <= Target(n)
      BY <1>4, <1>5, <2>2, <2>3
    <2>10. \A i \in 1..(m + 1) : IsPresent(next[i])
      <3>1. ASSUME NEW i \in 1..(m + 1)
            PROVE  IsPresent(next[i])
        <4>1. CASE i \in 1..m /\ next[i] = out[i]
          <5>1. IsPresent(out[i])
            BY <2>2, <4>1 DEF DrawnFrom
          <5>. QED
            BY <4>1, <5>1, Zenon
        <4>2. CASE i = m + 1 /\ next[i] = r
          BY <1>5, <4>2, Zenon
        <4>. QED
          BY <2>6, <4>1, <4>2
      <3>. QED
        BY <3>1
    <2>11. \A i \in 1..(m + 1) : \E j \in 1..(k + 1) : next[i] = rows[j]
      <3>1. ASSUME NEW i \in 1..(m + 1)
            PROVE  \E j \in 1..(k + 1) : next[i] = rows[j]
        <4>1. CASE i \in 1..m /\ next[i] = out[i]
          <5>1. PICK j \in 1..k : out[i] = rows[j]
            BY <2>2, <4>1 DEF DrawnFrom
          <5>2. j \in 1..(k + 1)
            BY <1>2
          <5>. QED
            BY <4>1, <5>1, <5>2
        <4>2. CASE i = m + 1 /\ next[i] = r
          <5>1. k + 1 \in 1..(k + 1)
            BY <1>2
          <5>. QED
            BY <1>3, <4>2, <5>1, Zenon
        <4>. QED
          BY <2>6, <4>1, <4>2
      <3>. QED
        BY <3>1
    <2>12. next # <<>>
      BY <2>3
    <2>. QED
      BY <2>3, <2>8, <2>9, <2>10, <2>11, <2>12 DEF DrawnFrom
  <1>6. CASE ~(Len(out) < Target(n) /\ IsPresent(r))
    <2>1. next = out
      BY <1>3, <1>6
    <2>2. \A i \in 1..Len(out) : \E j \in 1..(k + 1) : out[i] = rows[j]
      <3>1. 1..k \subseteq 1..(k + 1)
        BY <1>2
      <3>. QED
        BY <3>1 DEF DrawnFrom
    <2>3. out = <<>> => \A j \in 1..(k + 1) : ~IsPresent(rows[j])
      <3>. SUFFICES ASSUME out = <<>>, NEW j \in 1..(k + 1) PROVE ~IsPresent(rows[j])
        OBVIOUS
      <3>1. ~IsPresent(r)
        BY <1>4, <1>6
      <3>2. CASE j \in 1..k
        BY <3>2 DEF DrawnFrom
      <3>3. CASE j = k + 1
        BY <1>3, <3>1, <3>3, Zenon
      <3>. QED
        BY <1>2, <3>2, <3>3
    <2>. QED
      BY <2>1, <2>2, <2>3 DEF DrawnFrom
  <1>. QED
    BY <1>5, <1>6

LEMMA AppendedDraws ==
    ASSUME config \in Configs, NEW n \in Nat \ {0}, NEW rows, Rising(rows, 0, n)
    PROVE  DrawnFrom(Appended(rows, n), rows, Len(rows), n)
  <1>1. rows \in Seq(Nat)
    BY DEF Rising
  <1>2. PICK m \in Nat : m = Len(rows)
    BY <1>1
  <1>3. PICK step : step = [p \in (1..m) \X Seq(Nat) |->
                               IF Len(p[2]) < Target(n) /\ IsPresent(rows[p[1]])
                               THEN Append(p[2], rows[p[1]]) ELSE p[2]]
    OBVIOUS
  <1>4. ASSUME NEW k \in 1..m, NEW s \in Seq(Nat)
        PROVE  /\ step[<<k, s>>] = IF Len(s) < Target(n) /\ IsPresent(rows[k])
                                   THEN Append(s, rows[k]) ELSE s
               /\ step[<<k, s>>] \in Seq(Nat)
    <2>1. <<k, s>> \in (1..m) \X Seq(Nat)
      OBVIOUS
    <2>2. step[<<k, s>>] = IF Len(s) < Target(n) /\ IsPresent(rows[k])
                           THEN Append(s, rows[k]) ELSE s
      BY <1>3, <2>1
    <2>3. rows[k] \in Nat
      BY <1>1, <1>2
    <2>4. Append(s, rows[k]) \in Seq(Nat)
      BY <2>3, AppendProperties
    <2>. QED
      BY <2>2, <2>4, Zenon
  <1>5. step \in [(1..m) \X Seq(Nat) -> Seq(Nat)]
    <2>1. DOMAIN step = (1..m) \X Seq(Nat) /\ step = [p \in (1..m) \X Seq(Nat) |-> step[p]]
      BY <1>3
    <2>2. ASSUME NEW p \in (1..m) \X Seq(Nat)
          PROVE  step[p] \in Seq(Nat)
      <3>1. PICK k \in 1..m, s \in Seq(Nat) : p = <<k, s>>
        OBVIOUS
      <3>. QED
        BY <1>4, <3>1
    <2>. QED
      BY <2>1, <2>2
  <1>6. <<>> \in Seq(Nat)
    OBVIOUS
  <1>7. PICK f \in [0..m -> Seq(Nat)] : FromZero(f, m, <<>>, step)
    BY <1>5, <1>6, RecursionFromZero, Zenon
  <1>8. f[0] = <<>> /\ \A k \in 1..m : f[k] = step[<<k, f[k - 1]>>]
    BY <1>7 DEF FromZero
  <1>9. ASSUME NEW k \in 0..m
        PROVE  f[k] = IF k = 0 THEN <<>>
                      ELSE IF Len(f[k - 1]) < Target(n) /\ IsPresent(rows[k])
                      THEN Append(f[k - 1], rows[k])
                      ELSE f[k - 1]
    <2>1. CASE k = 0
      BY <1>8, <2>1
    <2>2. CASE k # 0
      <3>1. k \in 1..m /\ k - 1 \in 0..m
        BY <2>2
      <3>2. f[k - 1] \in Seq(Nat)
        BY <3>1
      <3>. QED
        BY <1>4, <1>8, <2>2, <3>1, <3>2, Zenon
    <2>. QED
      BY <2>1, <2>2
  <1>. DEFINE out == CHOOSE out : out = [k \in 0..Len(rows) |->
                        IF k = 0 THEN <<>>
                        ELSE IF Len(out[k - 1]) < Target(n) /\ IsPresent(rows[k])
                        THEN Append(out[k - 1], rows[k])
                        ELSE out[k - 1]]
  <1>10. \E h : h = [k \in 0..Len(rows) |->
                        IF k = 0 THEN <<>>
                        ELSE IF Len(h[k - 1]) < Target(n) /\ IsPresent(rows[k])
                        THEN Append(h[k - 1], rows[k])
                        ELSE h[k - 1]]
    <2>1. f = [k \in 0..m |-> f[k]]
      OBVIOUS
    <2>2. f = [k \in 0..m |->
                        IF k = 0 THEN <<>>
                        ELSE IF Len(f[k - 1]) < Target(n) /\ IsPresent(rows[k])
                        THEN Append(f[k - 1], rows[k])
                        ELSE f[k - 1]]
      BY <1>9, <2>1, Zenon
    <2>. QED
      BY <1>2, <2>2, Zenon
  <1>11. out = [k \in 0..Len(rows) |->
                        IF k = 0 THEN <<>>
                        ELSE IF Len(out[k - 1]) < Target(n) /\ IsPresent(rows[k])
                        THEN Append(out[k - 1], rows[k])
                        ELSE out[k - 1]]
    BY <1>10, Zenon
  <1>12. Appended(rows, n) = out[Len(rows)]
    BY Zenon DEF Appended
  <1>. HIDE DEF out
  <1>13. \A k \in 0..m : out[k] = IF k = 0 THEN <<>>
                        ELSE IF Len(out[k - 1]) < Target(n) /\ IsPresent(rows[k])
                        THEN Append(out[k - 1], rows[k])
                        ELSE out[k - 1]
    BY <1>2, <1>11, Zenon
  <1>14. PICK T : T = {k \in 0..m : DrawnFrom(out[k], rows, k, n)}
    OBVIOUS
  <1>15. 0 \in T
    <2>1. out[0] = <<>>
      BY <1>2, <1>13
    <2>2. PICK t \in Nat : t = Target(n)
      BY TargetType
    <2>3. DrawnFrom(<<>>, rows, 0, n)
      BY <2>2 DEF DrawnFrom, Rising
    <2>4. 0 \in 0..m
      OBVIOUS
    <2>. QED
      BY <1>14, <2>1, <2>3, <2>4, Zenon
  <1>16. ASSUME NEW k \in 0..(m - 1), k \in T
         PROVE  k + 1 \in T
    <2>1. k + 1 \in 0..m /\ k + 1 # 0 /\ (k + 1) - 1 = k
      BY <1>2
    <2>2. out[k + 1] = IF Len(out[k]) < Target(n) /\ IsPresent(rows[k + 1])
                       THEN Append(out[k], rows[k + 1]) ELSE out[k]
      BY <1>13, <2>1, Zenon
    <2>3. DrawnFrom(out[k], rows, k, n)
      BY <1>14, <1>16, Zenon
    <2>4. DrawnFrom(out[k + 1], rows, k + 1, n)
      BY <1>2, <2>2, <2>3, DrawnNext, Zenon
    <2>. QED
      BY <1>14, <2>1, <2>4, Zenon
  <1>17. 0..m \subseteq T
    BY <1>15, <1>16, IntervalInduction
  <1>18. m \in T
    BY <1>17
  <1>. QED
    BY <1>2, <1>12, <1>14, <1>18, Zenon
\* What SampleSound says of a sample.
IsSample(s) ==
    /\ s # <<>> /\ Len(s) <= Target(Len(column.values))
    /\ \A i \in DOMAIN s :
         /\ s[i] \in 0..(Len(column.values) - 1)
         /\ i > 1 => s[i - 1] < s[i]
    /\ (\E i \in DOMAIN s : ~IsPresent(s[i])) =>
         \A i \in DOMAIN LookedAt(Len(column.values)) : ~IsPresent(LookedAt(Len(column.values))[i])

LEMMA RisingIsSample ==
    ASSUME config \in Configs, column \in Inputs, NEW n \in Nat \ {0}, n = Len(column.values),
           NEW s, Rising(s, 0, n), s # <<>>, Len(s) <= Target(n),
           \/ \A i \in 1..Len(s) : IsPresent(s[i])
           \/ \A i \in 1..Len(LookedAt(n)) : ~IsPresent(LookedAt(n)[i])
    PROVE  IsSample(s)
  <1>1. s \in Seq(Nat) /\ Len(s) \in Nat /\ DOMAIN s = 1..Len(s)
    BY DEF Rising
  <1>2. LookedAt(n) \in Seq(Nat) /\ DOMAIN LookedAt(n) = 1..Len(LookedAt(n))
    <2>1. Rising(LookedAt(n), 0, n)
      BY LookedAtRises
    <2>2. LookedAt(n) \in Seq(Nat)
      BY <2>1, Zenon DEF Rising
    <2>. QED
      BY <2>2
  <1>3. ASSUME NEW i \in DOMAIN s
        PROVE  s[i] \in 0..(n - 1) /\ (i > 1 => s[i - 1] < s[i])
    <2>1. i \in 1..Len(s) /\ s[i] \in Nat
      BY <1>1
    <2>2. s[i] < n
      BY <2>1 DEF Rising
    <2>3. i > 1 => s[i - 1] < s[i]
      <3>1. i > 1 => i - 1 \in 1..Len(s) /\ i - 1 < i
        BY <1>1
      <3>. QED
        BY <2>1, <3>1 DEF Rising
    <2>. QED
      BY <2>1, <2>2, <2>3
  <1>4. (\E i \in DOMAIN s : ~IsPresent(s[i])) =>
           \A i \in DOMAIN LookedAt(n) : ~IsPresent(LookedAt(n)[i])
    BY <1>1, <1>2, Zenon
  <1>. QED
    BY <1>3, <1>4, Zenon DEF IsSample

LEMMA SampledSound ==
    ASSUME config \in Configs, column \in Inputs
    PROVE  SampledRows \in Seq(Nat) /\ (SampledRows # <<>> => IsSample(SampledRows))
  <1>1. PICK n \in Nat : n = Len(column.values)
    BY PlannerAssumption
  <1>2. CASE n = 0
    <2>1. SampledRows = <<>>
      BY <1>1, <1>2, Zenon DEF SampledRows
    <2>. QED
      BY <2>1
  <1>3. CASE n # 0
    <2>1. n \in Nat \ {0}
      BY <1>3
    <2>2. PICK rows : rows = LookedAt(n)
      OBVIOUS
    <2>3. Rising(rows, 0, n) /\ Rising(Uniform(n), 0, n) /\ Len(Uniform(n)) > 0
      BY <2>1, <2>2, LookedAtRises
    <2>4. PICK out : out = Appended(rows, n)
      OBVIOUS
    <2>5. DrawnFrom(out, rows, Len(rows), n)
      BY <2>1, <2>3, <2>4, AppendedDraws
    <2>6. CASE out # <<>>
      <3>1. SampledRows = out
        BY <1>1, <1>3, <2>2, <2>4, <2>6, Zenon DEF SampledRows
      <3>2. /\ Rising(out, 0, n) /\ Len(out) <= Target(n)
            /\ \A i \in 1..Len(out) : IsPresent(out[i])
        BY <2>5, Zenon DEF DrawnFrom
      <3>3. IsSample(out)
        BY <1>1, <2>1, <2>6, <3>2, RisingIsSample, Zenon
      <3>. QED
        BY <3>1, <3>2, <3>3 DEF Rising
    <2>7. CASE out = <<>>
      <3>1. PICK u : u = Uniform(n)
        OBVIOUS
      <3>2. u \in Seq(Nat) /\ Len(u) \in Nat \ {0}
        BY <2>3, <3>1 DEF Rising
      <3>3. PICK t \in Nat \ {0} : t = Target(n)
        BY <2>1, TargetType
      <3>4. PICK l \in 1..Len(u) : l = AtMost(Len(u), t) /\ l <= t
        BY <3>2, <3>3 DEF AtMost
      <3>5. PICK s : s = SubSeq(u, 1, l)
        OBVIOUS
      <3>6. SampledRows = s
        BY <1>1, <1>3, <2>2, <2>4, <2>7, <3>1, <3>3, <3>4, <3>5, Zenon DEF SampledRows
      <3>7. s \in Seq(Nat) /\ Len(s) = l /\ \A i \in 1..l : s[i] = u[i]
        <4>1. u \in Seq(Nat) /\ 1 \in 1..(Len(u) + 1) /\ l \in 0..Len(u) /\ l - 1 + 1 = l
          BY <3>2
        <4>2. Len(s) = l /\ s \in Seq(Nat)
          BY <3>2, <3>5, SubSeqProperties
        <4>3. \A i \in 1..l : s[i] = u[1 + i - 1]
          BY <3>2, <3>5, SubSeqProperties
        <4>. QED
          BY <4>2, <4>3
      <3>8. Rising(s, 0, n)
        <4>1. 1..l \subseteq 1..Len(u)
          BY <3>2
        <4>2. Rising(u, 0, n)
          BY <2>3, <3>1
        <4>3. \A i \in 1..l : 0 <= u[i] /\ u[i] < n
          BY <4>1, <4>2 DEF Rising
        <4>4. \A i \in 1..l : \A j \in 1..l : i < j => u[i] < u[j]
          BY <4>1, <4>2 DEF Rising
        <4>. QED
          BY <3>7, <4>3, <4>4 DEF Rising
      <3>9. \A i \in 1..Len(LookedAt(n)) : ~IsPresent(LookedAt(n)[i])
        BY <2>2, <2>5, <2>7, Zenon DEF DrawnFrom
      <3>10. s # <<>> /\ Len(s) <= Target(n)
        BY <3>3, <3>4, <3>7
      <3>11. IsSample(s)
        BY <1>1, <2>1, <3>8, <3>9, <3>10, RisingIsSample, Zenon
      <3>. QED
        BY <3>6, <3>7, <3>11, Zenon
    <2>. QED
      BY <2>6, <2>7
  <1>. QED
    BY <1>2, <1>3
---------------------------------------------------------------------------
(* The costs are numbers *)

LEMMA MinIs ==
    ASSUME NEW S \in SUBSET Int, NEW m \in S, \A x \in S : m <= x
    PROVE  Min(S) = m
  <1>1. PICK l : l = Min(S)
    OBVIOUS
  <1>2. l \in S /\ \A x \in S : l <= x
    BY <1>1, Zenon DEF Min
  <1>3. l <= m /\ m <= l /\ l \in Int /\ m \in Int
    BY <1>2
  <1>4. l = m
    BY <1>3
  <1>. QED
    BY <1>1, <1>4

LEMMA MaxIs ==
    ASSUME NEW S \in SUBSET Int, NEW m \in S, \A x \in S : x <= m
    PROVE  Max(S) = m
  <1>1. PICK l : l = Max(S)
    OBVIOUS
  <1>2. m \in S /\ \A x \in S : m >= x
    OBVIOUS
  <1>3. l \in S /\ \A x \in S : l >= x
    BY <1>1, <1>2, Zenon DEF Max
  <1>4. l <= m /\ m <= l /\ l \in Int /\ m \in Int
    BY <1>3
  <1>5. l = m
    BY <1>4
  <1>. QED
    BY <1>1, <1>5

\* Of finitely many numbers, the least and the greatest.
LEMMA LeastOfAll ==
    ASSUME NEW n \in Nat \ {0}, NEW f \in [1..n -> Int]
    PROVE  /\ \E j \in 1..n : \A i \in 1..n : f[j] <= f[i]
           /\ \E j \in 1..n : \A i \in 1..n : f[i] <= f[j]
  <1>1. 1..n \in SUBSET (0..n) /\ 1..n # {}
    OBVIOUS
  <1>2. \E j \in 1..n : \A i \in 1..n : f[j] <= f[i]
    <2>1. PICK j \in 1..n : \A i \in 1..n : f[j] < f[i] \/ (f[j] = f[i] /\ j <= i)
      BY <1>1, FirstLeast, Zenon
    <2>2. \A i \in 1..n : f[i] \in Int
      OBVIOUS
    <2>3. \A i \in 1..n : f[j] <= f[i]
      BY <2>1, <2>2
    <2>. QED
      BY <2>3
  <1>3. PICK g \in [1..n -> Int] : g = [i \in 1..n |-> -f[i]]
    <2>1. \A i \in 1..n : -f[i] \in Int
      OBVIOUS
    <2>. QED
      BY <2>1
  <1>4. PICK j \in 1..n : \A i \in 1..n : g[j] < g[i] \/ (g[j] = g[i] /\ j <= i)
    BY <1>1, FirstLeast, Zenon
  <1>5. ASSUME NEW i \in 1..n
        PROVE  f[i] <= f[j]
    <2>1. g[i] = -f[i] /\ g[j] = -f[j] /\ f[i] \in Int /\ f[j] \in Int
      BY <1>3
    <2>. QED
      BY <1>4, <2>1
  <1>. QED
    BY <1>2, <1>5

LEMMA RangeBounds ==
    ASSUME NEW b \in Nat, NEW values \in Seq(0..b), Len(values) > 0
    PROVE  Min(Range(values)) \in 0..b /\ Max(Range(values)) \in 0..b
           /\ Max(Range(values)) - Min(Range(values)) \in 0..b
  <1>1. PICK n \in Nat \ {0} : n = Len(values)
    OBVIOUS
  <1>2. values \in [1..n -> 0..b] /\ values \in [1..n -> Int]
    BY <1>1
  <1>3. PICK R : R = Range(values)
    OBVIOUS
  <1>4. R = {values[i] : i \in 1..n}
    BY <1>2, <1>3 DEF Range
  <1>5. R \in SUBSET (0..b) /\ R \in SUBSET Int
    BY <1>2, <1>4
  <1>6. PICK j \in 1..n : \A i \in 1..n : values[j] <= values[i]
    BY <1>2, LeastOfAll
  <1>7. PICK h \in 1..n : \A i \in 1..n : values[i] <= values[h]
    BY <1>2, LeastOfAll
  <1>8. Min(R) = values[j]
    <2>1. values[j] \in R /\ \A x \in R : values[j] <= x
      BY <1>4, <1>6
    <2>. QED
      BY <1>5, <2>1, MinIs
  <1>9. Max(R) = values[h]
    <2>1. values[h] \in R /\ \A x \in R : x <= values[h]
      BY <1>4, <1>7
    <2>. QED
      BY <1>5, <2>1, MaxIs
  <1>10. values[j] \in 0..b /\ values[h] \in 0..b /\ values[h] - values[j] \in 0..b
    BY <1>2, <1>6
  <1>. QED
    BY <1>3, <1>8, <1>9, <1>10, Zenon

LEMMA BitWidthType ==
    ASSUME NEW v \in Nat, v < 2^ValueBits
    PROVE  BitWidthOf(v) \in 0..ValueBits /\ v < 2^BitWidthOf(v)
  <1>1. PICK n \in Nat : n = ValueBits
    BY PlannerAssumption
  <1>2. PICK S : S = {w \in 0..n : v < 2^w}
    OBVIOUS
  <1>3. S \in SUBSET Nat /\ S # {} /\ S \in SUBSET Int
    <2>1. n \in 0..n /\ v < 2^n
      BY <1>1
    <2>2. n \in S
      BY <1>2, <2>1, Zenon
    <2>3. S \in SUBSET (0..n)
      BY <1>2, Zenon
    <2>. QED
      BY <2>2, <2>3
  <1>4. PICK m \in S : \A x \in S : m <= x
    BY <1>3, LeastNumber
  <1>5. BitWidthOf(v) = m
    <2>1. Min(S) = m
      BY <1>3, <1>4, MinIs
    <2>. QED
      BY <1>1, <1>2, <2>1, Zenon DEF BitWidthOf
  <1>. QED
    BY <1>1, <1>2, <1>5

LEMMA DistinctValues ==
    ASSUME NEW b \in Nat, NEW values \in Seq(0..b)
    PROVE  IsFiniteSet(Range(values)) /\ Cardinality(Range(values)) \in 0..(b + 1)
  <1>1. Range(values) \in SUBSET (0..b)
    BY DEF Range
  <1>2. IsFiniteSet(0..b) /\ Cardinality(0..b) = b + 1
    BY FS_Interval
  <1>3. /\ IsFiniteSet(Range(values)) /\ Cardinality(Range(values)) <= b + 1
        /\ Cardinality(Range(values)) \in Nat
    BY <1>1, <1>2, FS_Subset, FS_CardinalityType
  <1>. QED
    BY <1>3

LEMMA PartOfInterval ==
    ASSUME NEW n \in Nat, NEW S \in SUBSET (1..n)
    PROVE  Cardinality(S) \in 0..n
  <1>1. IsFiniteSet(1..n) /\ Cardinality(1..n) = n
    BY FS_Interval
  <1>2. Cardinality(S) <= n /\ Cardinality(S) \in Nat
    BY <1>1, FS_Subset, FS_CardinalityType
  <1>. QED
    BY <1>2

LEMMA CountTypes ==
    ASSUME NEW b \in Nat, NEW values \in Seq(0..b), Len(values) > 0
    PROVE  /\ RunCount(values) \in Nat
           /\ Max({Count(values, v) : v \in Range(values)}) \in 0..Len(values)
  <1>1. PICK n \in Nat \ {0} : n = Len(values)
    OBVIOUS
  <1>2. RunCount(values) \in Nat
    <2>1. PICK S : S = {i \in 2..n : values[i] # values[i - 1]}
      OBVIOUS
    <2>2. S \in SUBSET (1..n)
      BY <2>1
    <2>3. Cardinality(S) \in Nat
      <3>1. Cardinality(S) \in 0..n
        BY <2>2, PartOfInterval, Zenon
      <3>. QED
        BY <3>1
    <2>4. RunCount(values) = 1 + Cardinality(S)
      BY <1>1, <2>1, Zenon DEF RunCount
    <2>. QED
      BY <2>3, <2>4
  <1>3. \A v : Count(values, v) \in 0..n
    <2>1. ASSUME NEW v
          PROVE  Count(values, v) \in 0..n
      <3>1. PICK S : S = {i \in DOMAIN values : values[i] = v}
        OBVIOUS
      <3>2. S \in SUBSET (1..n)
        BY <1>1, <3>1
      <3>3. Cardinality(S) \in 0..n
        BY <3>2, PartOfInterval
      <3>. QED
        BY <3>1, <3>3, Zenon DEF Count
    <2>. QED
      BY <2>1
  <1>4. PICK f : f = [i \in 1..n |-> Count(values, values[i])]
    OBVIOUS
  <1>5. f \in [1..n -> Int] /\ \A i \in 1..n : f[i] = Count(values, values[i]) /\ f[i] \in 0..n
    <2>1. \A i \in 1..n : Count(values, values[i]) \in 0..n /\ Count(values, values[i]) \in Int
      BY <1>3
    <2>. QED
      BY <1>4, <2>1
  <1>6. PICK h \in 1..n : \A i \in 1..n : f[i] <= f[h]
    BY <1>5, LeastOfAll
  <1>7. PICK S : S = {Count(values, v) : v \in Range(values)}
    OBVIOUS
  <1>8. S = {f[i] : i \in 1..n}
    <2>1. Range(values) = {values[i] : i \in 1..n}
      BY <1>1 DEF Range
    <2>2. S = {Count(values, values[i]) : i \in 1..n}
      BY <1>7, <2>1, Zenon
    <2>. QED
      BY <1>5, <2>2, Zenon
  <1>9. Max(S) = f[h]
    <2>1. S \in SUBSET Int /\ f[h] \in S /\ \A x \in S : x <= f[h]
      BY <1>5, <1>6, <1>8
    <2>. QED
      BY <2>1, MaxIs
  <1>. QED
    BY <1>1, <1>2, <1>5, <1>7, <1>9, Zenon

\* What a model that applies says a range costs, of values that fit it.
LEMMA CostIsNat ==
    ASSUME NEW w \in 1..ValueBits, NEW values \in Seq(0..(2^w - 1)), Len(values) > 0,
           NEW k \in 1..6, Applies(Models[k], Metrics(values, w))
    PROVE  CostBits(Models[k], Metrics(values, w), Len(values), w) \in Nat
  <1>1. PICK n \in Nat \ {0} : n = Len(values)
    OBVIOUS
  <1>2. ValueBits \in Nat /\ w \in Nat /\ w <= ValueBits
    BY PlannerAssumption
  <1>3. PICK b \in Nat : b = 2^w - 1 /\ b < 2^ValueBits
    <2>1. 2^w \in Nat \ {0} /\ 2^ValueBits \in Nat /\ 2^w <= 2^ValueBits
      BY <1>2, PowerNext, PowerGrows
    <2>. QED
      BY <2>1
  <1>4. values \in Seq(0..b)
    BY <1>3
  <1>5. PICK m : m = Metrics(values, w)
    OBVIOUS
  <1>6. /\ m.span = Max(Range(values)) - Min(Range(values))
        /\ m.runs = RunCount(values)
        /\ m.capped = Capped(values, w)
        /\ m.unique = Cardinality(Range(Counted(values, w)))
        /\ m.dominant = Max({Count(Counted(values, w), v) : v \in Range(Counted(values, w))})
    BY <1>5 DEF Metrics
  <1>7. m.span \in 0..b /\ m.runs \in Nat
    BY <1>1, <1>4, <1>6, RangeBounds, CountTypes
  <1>8. PICK p \in Nat : p = AtMost(w, BitWidthOf(m.span))
    <2>1. PICK v \in Nat : v = m.span /\ v < 2^ValueBits
      <3>1. PICK x \in Nat : x = 2^ValueBits
        BY <1>2, PowerNext
      <3>. QED
        BY <1>3, <1>7, <3>1
    <2>2. BitWidthOf(v) \in 0..ValueBits
      BY <2>1, BitWidthType
    <2>3. PICK o \in Nat : o = BitWidthOf(m.span)
      BY <1>2, <2>1, <2>2
    <2>. QED
      BY <1>2, <2>3 DEF AtMost
  <1>9. ~m.capped => m.unique \in 0..(b + 1) /\ m.dominant \in 0..n
    <2>. SUFFICES ASSUME ~m.capped PROVE m.unique \in 0..(b + 1) /\ m.dominant \in 0..n
      OBVIOUS
    <2>1. Counted(values, w) = values
      BY <1>6, Zenon DEF Counted
    <2>. QED
      BY <1>1, <1>4, <1>6, <2>1, DistinctValues, CountTypes, Zenon
  <1>10. PICK c : c = IF m.unique <= 1 THEN 1 ELSE BitWidthOf(m.unique - 1)
    OBVIOUS
  <1>11. ~m.capped => c \in Nat
    <2>. SUFFICES ASSUME ~m.capped PROVE c \in Nat
      OBVIOUS
    <2>1. PICK u \in 0..(b + 1) : u = m.unique
      BY <1>9
    <2>2. CASE u <= 1
      BY <1>10, <2>1, <2>2
    <2>3. CASE ~(u <= 1)
      <3>1. u - 1 \in Nat /\ u - 1 < 2^ValueBits
        <4>1. PICK x \in Nat : x = 2^ValueBits
          BY <1>2, PowerNext
        <4>. QED
          BY <1>3, <2>3, <4>1
      <3>2. BitWidthOf(u - 1) \in Nat
        BY <1>2, <3>1, BitWidthType
      <3>. QED
        BY <1>10, <2>1, <2>3, <3>2, Zenon
    <2>. QED
      BY <2>2, <2>3
  <1>12. PICK model : model = Models[k]
    OBVIOUS
  <1>13. Applies(model, m)
    BY <1>5, <1>12, Zenon
  <1>14. CostBits(model, m, n, w) =
            CASE model = "UNCOMPRESSED" -> n * StorageBits
              [] model = "BP"        -> Headers.BP + p * n
              [] model = "ONE_VALUE" -> StorageBits
              [] model = "FREQUENCY" -> Headers.FREQUENCY + (PositionBits + p) * (n - m.dominant)
              [] model = "DICT"      -> Headers.DICT + m.unique * StorageBits + c * n
              [] model = "RLE"       -> Headers.RLE + m.runs * (p + RunBits)
    BY <1>8, <1>10, Zenon DEF CostBits
  <1>15. \/ model = "UNCOMPRESSED" \/ model = "BP" \/ model = "ONE_VALUE"
         \/ model = "FREQUENCY" \/ model = "DICT" \/ model = "RLE"
    BY <1>12 DEF Models
  <1>16. CASE model = "UNCOMPRESSED" \/ model = "ONE_VALUE"
    <2>1. CostBits(model, m, n, w) = n * StorageBits \/ CostBits(model, m, n, w) = StorageBits
      BY <1>14, <1>16
    <2>2. StorageBits \in Nat /\ n * StorageBits \in Nat
      BY PlannerAssumption
    <2>. QED
      BY <1>1, <1>5, <1>12, <2>1, <2>2, Zenon
  <1>17. CASE model = "BP"
    <2>1. CostBits(model, m, n, w) = Headers.BP + p * n
      BY <1>14, <1>17
    <2>2. Headers.BP \in Nat /\ p * n \in Nat
      BY PlannerAssumption
    <2>3. CostBits(model, m, n, w) \in Nat
      BY <2>1, <2>2
    <2>. QED
      BY <1>1, <1>5, <1>12, <2>3, Zenon
  <1>18. CASE model = "FREQUENCY"
    <2>1. CostBits(model, m, n, w) = Headers.FREQUENCY + (PositionBits + p) * (n - m.dominant)
      BY <1>14, <1>18
    <2>2. ~m.capped
      BY <1>13, <1>18 DEF Applies
    <2>3. PICK d \in Nat : d = n - m.dominant
      BY <1>9, <2>2
    <2>4. PICK e \in Nat : e = PositionBits + p
      BY PlannerAssumption
    <2>5. Headers.FREQUENCY \in Nat /\ e * d \in Nat
      BY PlannerAssumption
    <2>6. CostBits(model, m, n, w) \in Nat
      BY <2>1, <2>3, <2>4, <2>5, SMTT(30)
    <2>. QED
      BY <1>1, <1>5, <1>12, <2>6, Zenon
  <1>19. CASE model = "DICT"
    <2>1. CostBits(model, m, n, w) = Headers.DICT + m.unique * StorageBits + c * n
      BY <1>14, <1>19
    <2>2. ~m.capped
      BY <1>13, <1>19 DEF Applies
    <2>3. PICK u \in Nat : u = m.unique
      BY <1>9, <2>2
    <2>4. c \in Nat
      BY <1>11, <2>2
    <2>5. Headers.DICT \in Nat /\ u * StorageBits \in Nat /\ c * n \in Nat
      BY <2>4, PlannerAssumption
    <2>6. CostBits(model, m, n, w) \in Nat
      BY <2>1, <2>3, <2>5
    <2>. QED
      BY <1>1, <1>5, <1>12, <2>6, Zenon
  <1>20. CASE model = "RLE"
    <2>1. CostBits(model, m, n, w) = Headers.RLE + m.runs * (p + RunBits)
      BY <1>14, <1>20
    <2>2. PICK e \in Nat : e = p + RunBits
      BY PlannerAssumption
    <2>3. PICK r \in Nat : r = m.runs
      BY <1>7
    <2>4. Headers.RLE \in Nat /\ r * e \in Nat
      BY PlannerAssumption
    <2>5. CostBits(model, m, n, w) \in Nat
      BY <2>1, <2>2, <2>3, <2>4, SMTT(30)
    <2>. QED
      BY <1>1, <1>5, <1>12, <2>5, Zenon
  <1>. QED
    BY <1>15, <1>16, <1>17, <1>18, <1>19, <1>20
\* The score of a range: none, or one with a cost that is a number.
LEMMA ScoreIsOne ==
    ASSUME column \in Inputs, NEW l \in Int, NEW r \in Int, r - l + 1 \in 1..ValueBits,
           NEW values \in Seq(0..(2^(r - l + 1) - 1)), Len(values) > 0
    PROVE  \/ ScoreOf(values, l, r) = {}
           \/ \E c \in Nat : \E scheme :
                 ScoreOf(values, l, r) = {[from |-> l, to |-> r, cost |-> c, scheme |-> scheme]}
  <1>1. PICK m : m = Metrics(values, r - l + 1)
    OBVIOUS
  <1>2. PICK usable : usable = {k \in DOMAIN Models : Models[k] \in config.models /\ Applies(Models[k], m)}
    OBVIOUS
  <1>3. DOMAIN Models = 1..6
    BY DEF Models
  <1>4. usable \in SUBSET (1..6) /\ \A k \in usable : Applies(Models[k], m)
    BY <1>2, <1>3
  <1>. DEFINE cost(k) == CostBits(Models[k], m, Len(values), r - l + 1)
  <1>5. \A k \in usable : cost(k) \in Nat
    BY <1>1, <1>4, CostIsNat, Zenon
  <1>6. PICK set : set = {k \in usable : \A j \in usable : cost(k) <= cost(j)}
    OBVIOUS
  <1>7. PICK best : best = Min(set)
    OBVIOUS
  <1>8. ScoreOf(values, l, r) =
            IF usable = {} THEN {}
            ELSE {[from |-> l, to |-> r, cost |-> cost(best) * Len(column.values), scheme |-> Models[best]]}
    BY <1>1, <1>2, <1>6, <1>7, Zenon DEF ScoreOf
  <1>9. CASE usable # {}
    <2>. HIDE DEF cost
    <2>1. PICK f : f = [k \in usable |-> cost(k)]
      OBVIOUS
    <2>2. f \in [usable -> Int] /\ \A k \in usable : f[k] = cost(k) /\ f[k] \in Nat
      BY <1>5, <2>1
    <2>3. usable \in SUBSET (0..6) /\ 6 \in Nat
      BY <1>4
    <2>4. PICK j \in usable : \A i \in usable : f[j] < f[i] \/ (f[j] = f[i] /\ j <= i)
      BY <1>9, <2>2, <2>3, FirstLeast, Zenon
    <2>5. \A i \in usable : f[j] <= f[i]
      BY <2>2, <2>4
    <2>6. j \in set
      BY <1>6, <2>2, <2>5, Zenon
    <2>7. set \in SUBSET usable
      BY <1>6
    <2>8. set \in SUBSET Nat /\ set # {} /\ set \in SUBSET Int
      BY <1>4, <2>6, <2>7
    <2>9. PICK b \in set : \A i \in set : b <= i
      BY <2>8, LeastNumber
    <2>10. best = b
      BY <1>7, <2>8, <2>9, MinIs
    <2>11. cost(best) \in Nat
      BY <1>5, <2>7, <2>9, <2>10
    <2>12. Len(column.values) \in Nat
      BY PlannerAssumption
    <2>13. cost(best) * Len(column.values) \in Nat
      BY <2>11, <2>12
    <2>. QED
      BY <1>8, <1>9, <2>13, Zenon
  <1>. QED
    BY <1>8, <1>9, Zenon

---------------------------------------------------------------------------
(* The bits of a value *)

LEMMA FieldType ==
    ASSUME NEW v \in Nat, NEW l \in Nat, NEW w \in Nat
    PROVE  (v \div 2^l) % 2^w \in 0..(2^w - 1)
  <1>1. 2^l \in Nat \ {0} /\ 2^w \in Nat \ {0}
    BY PowerNext
  <1>2. v \div 2^l \in Nat
    BY <1>1, Divided
  <1>. QED
    BY <1>1, <1>2, Divided

LEMMA BitIsField ==
    ASSUME NEW v \in Nat, NEW l \in Nat
    PROVE  Bit(v, l) = Field(v, l, l) /\ Bit(v, l) \in 0..1
  <1>1. l - l + 1 = 1 /\ 2^1 = 2
    BY PowerOfNothing, PowerNext
  <1>2. Bit(v, l) = Field(v, l, l)
    BY <1>1 DEF Bit, Field
  <1>3. (v \div 2^l) % 2^1 \in 0..(2^1 - 1)
    BY FieldType
  <1>. QED
    BY <1>1, <1>2, <1>3 DEF Bit

\* One more bit, as BitRangeExtractor::extend adds it.
LEMMA FieldExtends ==
    ASSUME NEW v \in Nat, NEW l \in Nat, NEW r \in Nat, l <= r, NEW z, z = r + 1
    PROVE  Field(v, l, z) = Field(v, l, r) + Bit(v, z) * 2^(z - l)
  <1>1. PICK w \in Nat : w = r - l + 1 /\ z - l + 1 = w + 1 /\ z - l = w /\ l + w = z
    OBVIOUS
  <1>2. PICK b \in Nat \ {0} : b = 2^w
    BY PowerNext
  <1>3. 2^(w + 1) = 2 * b
    BY <1>2, PowerNext
  <1>4. PICK d \in Nat \ {0} : d = 2^l
    BY PowerNext
  <1>5. 2^(z) = d * b
    BY <1>1, <1>2, <1>4, PowerAdds
  <1>6. PICK a \in Nat : a = v \div d
    BY Divided
  <1>7. Field(v, l, z) = a % (2 * b)
    BY <1>1, <1>3, <1>4, <1>6 DEF Field
  <1>8. Field(v, l, r) = a % b
    BY <1>1, <1>2, <1>4, <1>6 DEF Field
  <1>9. v \div 2^(z) = a \div b
    <2>1. v \div (d * b) = (v \div d) \div b
      BY DividedTwice, Zenon
    <2>. QED
      BY <1>5, <1>6, <2>1, Zenon
  <1>10. Bit(v, z) = (a \div b) % 2
    BY <1>9 DEF Bit
  <1>. QED
    BY <1>1, <1>2, <1>7, <1>8, <1>10, RemainderOfTwice

LEMMA SumOfOne ==
    ASSUME NEW x \in Nat
    PROVE  SumSet({x}) = x
  <1>. DEFINE iter == CHOOSE iter : iter = [s \in SUBSET {x} |->
                         IF s = {} THEN 0
                         ELSE (CHOOSE y \in s : TRUE) + iter[s \ {CHOOSE y \in s : TRUE}]]
  <1>1. SumSet({x}) = iter[{x}]
    BY Zenon DEF SumSet, FoldSet, MapThenFoldSet
  <1>2. \E h : h = [s \in SUBSET {x} |->
                         IF s = {} THEN 0
                         ELSE (CHOOSE y \in s : TRUE) + h[s \ {CHOOSE y \in s : TRUE}]]
    <2>1. PICK h : h = [s \in SUBSET {x} |-> IF s = {} THEN 0 ELSE x]
      OBVIOUS
    <2>2. ASSUME NEW s \in SUBSET {x}
          PROVE  h[s] = IF s = {} THEN 0 ELSE (CHOOSE y \in s : TRUE) + h[s \ {CHOOSE y \in s : TRUE}]
      <3>1. CASE s = {}
        BY <2>1, <3>1
      <3>2. CASE s # {}
        <4>1. s = {x}
          BY <3>2
        <4>2. PICK y : y = CHOOSE z \in s : TRUE
          OBVIOUS
        <4>3. y = x
          BY <4>1, <4>2
        <4>4. s \ {y} = {} /\ h[{}] = 0 /\ h[s] = x
          BY <2>1, <3>2, <4>1, <4>3
        <4>5. h[s] = y + h[s \ {y}]
          BY <4>3, <4>4
        <4>6. h[s] = (CHOOSE z \in s : TRUE) + h[s \ {CHOOSE z \in s : TRUE}]
          BY <4>2, <4>5, Zenon
        <4>. QED
          BY <3>2, <4>6, Zenon
      <3>. QED
        BY <3>1, <3>2
    <2>3. PICK g : g = [s \in SUBSET {x} |->
                 IF s = {} THEN 0
                 ELSE (CHOOSE y \in s : TRUE) + h[s \ {CHOOSE y \in s : TRUE}]]
      OBVIOUS
    <2>4. \A s \in SUBSET {x} : h[s] = g[s]
      BY <2>2, <2>3, Zenon
    <2>5. h = g
      BY <2>1, <2>3, <2>4, Zenon
    <2>. QED
      BY <2>3, <2>5
  <1>3. iter = [s \in SUBSET {x} |->
                   IF s = {} THEN 0
                   ELSE (CHOOSE y \in s : TRUE) + iter[s \ {CHOOSE y \in s : TRUE}]]
    BY <1>2, Zenon
  <1>. HIDE DEF iter
  <1>4. iter[{}] = 0
    BY <1>3
  <1>5. PICK y : y = CHOOSE z \in {x} : TRUE
    OBVIOUS
  <1>6. y = x
    BY <1>5
  <1>7. iter[{x}] = y + iter[{x} \ {y}]
    BY <1>3, <1>5, Zenon
  <1>8. {x} \ {y} = {}
    BY <1>6
  <1>. QED
    BY <1>1, <1>4, <1>6, <1>7, <1>8
---------------------------------------------------------------------------
(* The inductive invariant *)

\* A column is planned and encoded with the settings of the call.
Called ==
    /\ pc \in {"idle", "sampling", "scoring", "solving", "planned", "encoding", "encoded", "raw"}
    /\ column \in Inputs \cup {NoColumn} /\ config \in Configs \cup {NoConfig}
    /\ pc \notin {"idle", "raw"} => column \in Inputs /\ config \in Configs

Sampled ==
    /\ samples \in Seq(Nat)
    /\ pc \in {"scoring", "solving"} => IsSample(samples)

\* The extracted values are the bits of the samples.
FieldsOf(l, r) == [i \in DOMAIN samples |-> Field(ValueOf(samples[i]), l, r)]
RangeIs(l, r) ==
    /\ l \in Bits /\ r \in l..(ValueBits - 1) /\ r <= l + MaxWidth - 1
    /\ range = [start |-> l, end |-> r, values |-> FieldsOf(l, r)]
Extracted ==
    /\ pc = "sampling" => range = NoRange /\ scores = {}
    /\ pc \in {"scoring", "solving"} =>
          \/ pc = "scoring" /\ range = NoRange /\ scores = {}
          \/ \E l, r \in Bits : RangeIs(l, r) /\ (pc = "solving" <=> l = ValueBits - 1)

\* The scores are those of the ranges passed, all of them.
Allowed(l, r) == l \in Bits /\ r \in Bits /\ r - l + 1 \in MinWidth..MaxWidth
Passed(l, r) == range # NoRange /\ (l < range.start \/ (l = range.start /\ r <= range.end))
ScoresAre ==
    /\ \A s \in scores : Allowed(s.from, s.to) /\ s \in RangeScore(s.from, s.to)
    /\ \A l, r \in Bits : Allowed(l, r) /\ Passed(l, r) => RangeScore(l, r) \subseteq scores
Scored == pc \in {"scoring", "solving"} => ScoresAre

Ranged(segments) ==
    /\ DOMAIN segments = 1..Len(segments) /\ Len(segments) \in Nat \ {0}
    /\ \A k \in DOMAIN segments : segments[k].from \in Nat /\ segments[k].to \in Nat
ForcedTiles ==
    /\ Len(forced) \in Nat /\ Len(plan.segments) \in Nat
    /\ forced # <<>> => Tiles(forced) /\ Ranged(forced)

\* The plan that a column is encoded by still tiles it.
PlanReady == pc \in {"planned", "encoding", "encoded"} => Tiles(plan.segments) /\ Ranged(plan.segments)

IInv ==
    Called /\ Sampled /\ Extracted /\ Scored /\ ForcedTiles /\ PlanReady /\ PlanTiles /\ PlanIsCheapest

---------------------------------------------------------------------------
(* What depends on the column, the settings and the sample alone *)

LEMMA Frame ==
    ASSUME UNCHANGED <<column, config, samples>>
    PROVE  /\ MaxWidth' = MaxWidth /\ MinWidth' = MinWidth /\ MaxSections' = MaxSections
           /\ \A l, r : FieldsOf(l, r)' = FieldsOf(l, r)
           /\ \A l, r : RangeScore(l, r)' = RangeScore(l, r)
           /\ IsSample(samples)' <=> IsSample(samples)
  <1>1. MaxWidth' = MaxWidth /\ MinWidth' = MinWidth /\ MaxSections' = MaxSections
    BY DEF MaxWidth, MinWidth, MaxSections
  <1>2. \A l, r : FieldsOf(l, r)' = FieldsOf(l, r)
    BY DEF FieldsOf, ValueOf
  <1>3. \A l, r : RangeScore(l, r)' = RangeScore(l, r)
    BY DEF RangeScore, ScoreOf, ValueOf
  <1>4. IsSample(samples)' <=> IsSample(samples)
    BY DEF IsSample, LookedAt, Blocks, Uniform, Target, BlockEnd, IsPresent
  <1>. QED
    BY <1>1, <1>2, <1>3, <1>4

LEMMA WidthTypes ==
    ASSUME config \in Configs
    PROVE  /\ MaxWidth \in 1..ValueBits /\ MinWidth \in 1..MaxWidth
           /\ MaxSections \in Nat \ {0} /\ MaxWidth \in Nat /\ MinWidth \in Nat
           /\ ValueBits \in Nat \ {0}
  <1>1. /\ config.maxSectionBits \in Int /\ config.minSectionBits \in Int
        /\ config.maxSections \in Int /\ ValueBits \in Nat \ {0}
    BY PlannerAssumption
  <1>2. MaxWidth \in 1..ValueBits
    BY <1>1 DEF MaxWidth, AtLeast, AtMost
  <1>3. MinWidth \in 1..MaxWidth
    BY <1>1, <1>2 DEF MinWidth, AtLeast, AtMost
  <1>4. MaxSections \in Nat \ {0}
    BY <1>1 DEF MaxSections, AtLeast
  <1>. QED
    BY <1>1, <1>2, <1>3, <1>4

LEMMA SampleValues ==
    ASSUME column \in Inputs, config \in Configs, samples \in Seq(Nat), IsSample(samples)
    PROVE  /\ DOMAIN samples = 1..Len(samples) /\ Len(samples) \in Nat \ {0}
           /\ \A i \in DOMAIN samples : ValueOf(samples[i]) \in Nat
  <1>1. column.values \in Seq(0..(2^ValueBits - 1))
    BY PlannerAssumption
  <1>2. PICK n \in Nat : n = Len(column.values)
    BY <1>1
  <1>3. PICK b \in Nat : b = 2^ValueBits - 1
    <2>1. 2^ValueBits \in Nat \ {0}
      BY PlannerAssumption, PowerNext
    <2>. QED
      BY <2>1
  <1>4. \A j \in 1..n : column.values[j] \in Nat
    BY <1>1, <1>2, <1>3
  <1>5. ASSUME NEW i \in DOMAIN samples
        PROVE  ValueOf(samples[i]) \in Nat
    <2>1. samples[i] \in 0..(n - 1)
      BY <1>2 DEF IsSample
    <2>2. samples[i] + 1 \in 1..n
      BY <2>1
    <2>. QED
      BY <1>4, <2>2 DEF ValueOf
  <1>6. samples # <<>>
    BY DEF IsSample
  <1>. QED
    BY <1>5, <1>6

LEMMA FieldsType ==
    ASSUME column \in Inputs, config \in Configs, samples \in Seq(Nat), IsSample(samples),
           NEW l \in Bits, NEW r \in l..(ValueBits - 1)
    PROVE  FieldsOf(l, r) \in Seq(0..(2^(r - l + 1) - 1)) /\ Len(FieldsOf(l, r)) > 0
  <1>1. l \in Nat /\ r - l + 1 \in Nat
    BY PlannerAssumption DEF Bits
  <1>2. PICK n \in Nat \ {0} : n = Len(samples) /\ DOMAIN samples = 1..n
    BY SampleValues
  <1>3. PICK F : F = 0..(2^(r - l + 1) - 1)
    OBVIOUS
  <1>4. \A i \in 1..n : Field(ValueOf(samples[i]), l, r) \in F
    BY <1>1, <1>2, <1>3, SampleValues, FieldType DEF Field
  <1>5. FieldsOf(l, r) \in [1..n -> F]
    BY <1>2, <1>4 DEF FieldsOf
  <1>6. FieldsOf(l, r) \in Seq(F) /\ Len(FieldsOf(l, r)) = n
    BY <1>5, ASequence
  <1>. QED
    BY <1>3, <1>6

\* Each range has at most one score, with its bounds and a cost that is a number.
LEMMA RangeScoreIs ==
    ASSUME column \in Inputs, config \in Configs, samples \in Seq(Nat), IsSample(samples),
           NEW l \in Bits, NEW r \in l..(ValueBits - 1)
    PROVE  /\ RangeScore(l, r) = ScoreOf(FieldsOf(l, r), l, r)
           /\ \A s \in RangeScore(l, r) : s.from = l /\ s.to = r /\ s.cost \in Nat
           /\ \A s \in RangeScore(l, r) : RangeScore(l, r) = {s}
  <1>1. RangeScore(l, r) = ScoreOf(FieldsOf(l, r), l, r)
    BY Zenon DEF RangeScore, FieldsOf
  <1>2. l \in Int /\ r \in Int /\ r - l + 1 \in 1..ValueBits
    BY PlannerAssumption DEF Bits
  <1>3. FieldsOf(l, r) \in Seq(0..(2^(r - l + 1) - 1)) /\ Len(FieldsOf(l, r)) > 0
    BY FieldsType
  <1>4. \/ RangeScore(l, r) = {}
        \/ \E c \in Nat : \E scheme :
              RangeScore(l, r) = {[from |-> l, to |-> r, cost |-> c, scheme |-> scheme]}
    <2>1. PICK F \in Seq(0..(2^(r - l + 1) - 1)) : F = FieldsOf(l, r) /\ Len(F) > 0
      BY <1>3
    <2>2. \/ ScoreOf(F, l, r) = {}
          \/ \E c \in Nat : \E scheme :
                ScoreOf(F, l, r) = {[from |-> l, to |-> r, cost |-> c, scheme |-> scheme]}
      BY <1>2, <2>1, ScoreIsOne
    <2>. QED
      BY <1>1, <2>1, <2>2, Zenon
  <1>. QED
    BY <1>1, <1>4

---------------------------------------------------------------------------
(* BitRangeExtractor *)

LEMMA ResetExtracts ==
    ASSUME column \in Inputs, config \in Configs, samples \in Seq(Nat), IsSample(samples),
           NEW l \in Bits
    PROVE  ResetTo(l) = [start |-> l, end |-> l, values |-> FieldsOf(l, l)]
  <1>1. l \in Nat
    BY DEF Bits
  <1>2. \A i \in DOMAIN samples : Bit(ValueOf(samples[i]), l) = Field(ValueOf(samples[i]), l, l)
    BY <1>1, SampleValues, BitIsField
  <1>3. [i \in DOMAIN samples |-> Bit(ValueOf(samples[i]), l)] = FieldsOf(l, l)
    <2>1. PICK g : g = [i \in DOMAIN samples |-> Bit(ValueOf(samples[i]), l)]
      OBVIOUS
    <2>2. PICK h : h = [i \in DOMAIN samples |-> Field(ValueOf(samples[i]), l, l)]
      OBVIOUS
    <2>3. \A i \in DOMAIN samples : g[i] = h[i]
      BY <1>2, <2>1, <2>2, Zenon
    <2>4. g = h
      BY <2>1, <2>2, <2>3, Zenon
    <2>. QED
      BY <2>1, <2>2, <2>4, Zenon DEF FieldsOf
  <1>. QED
    BY <1>3, Zenon DEF ResetTo

LEMMA ExtendExtracts ==
    ASSUME column \in Inputs, config \in Configs, samples \in Seq(Nat), IsSample(samples),
           NEW l \in Bits, NEW r \in l..(ValueBits - 1), NEW z \in Bits, z = r + 1,
           NEW e, e = [start |-> l, end |-> r, values |-> FieldsOf(l, r)]
    PROVE  ExtendedTo(e, z) = [start |-> l, end |-> z, values |-> FieldsOf(l, z)]
  <1>1. l \in Nat /\ r \in Nat /\ l <= r
    BY PlannerAssumption DEF Bits
  <1>2. e.start = l /\ e.end = r /\ e.values = FieldsOf(l, r)
    OBVIOUS
  <1>3. AtLeast(e.end, z) = z
    BY <1>1, <1>2 DEF AtLeast
  <1>4. DOMAIN e.values = DOMAIN samples
    BY <1>2 DEF FieldsOf
  <1>5. ASSUME NEW i \in DOMAIN samples
        PROVE  e.values[i] + SumSet({Bit(ValueOf(samples[i]), b) * 2^(b - e.start) : b \in (e.end + 1)..z})
                 = Field(ValueOf(samples[i]), l, z)
    <2>1. PICK v \in Nat : v = ValueOf(samples[i])
      BY SampleValues
    <2>2. (e.end + 1)..z = {z}
      BY <1>1, <1>2
    <2>3. PICK x : x = Bit(v, z) * 2^(z - l)
      OBVIOUS
    <2>4. {Bit(ValueOf(samples[i]), b) * 2^(b - e.start) : b \in (e.end + 1)..z} = {x}
      <3>2. (e.end + 1)..z = {z} /\ e.start = l
        BY <1>2, <2>2
      <3>3. ASSUME NEW b \in (e.end + 1)..z
            PROVE  Bit(ValueOf(samples[i]), b) * 2^(b - e.start) = x
        <4>1. b = z
          <5>1. b \in {z}
            BY <3>2, Zenon
          <5>. QED
            BY <5>1
        <4>. QED
          BY <2>1, <2>3, <3>2, <4>1, Zenon
      <3>4. z \in (e.end + 1)..z
        BY <3>2
      <3>. QED
        BY <3>3, <3>4, Zenon
    <2>5. x \in Nat
      <3>1. z \in Nat /\ z - l \in Nat
        BY <1>1
      <3>2. Bit(v, z) \in 0..1 /\ 2^(z - l) \in Nat
        BY <3>1, BitIsField, PowerNext, Zenon
      <3>. QED
        BY <2>3, <3>2
    <2>6. SumSet({x}) = x
      BY <2>5, SumOfOne
    <2>7. e.values[i] = Field(v, l, r)
      BY <1>2, <2>1 DEF FieldsOf
    <2>8. Field(v, l, z) = Field(v, l, r) + x
      BY <1>1, <2>3, FieldExtends, ZenonT(30)
    <2>. QED
      BY <2>1, <2>4, <2>6, <2>7, <2>8, Zenon
  <1>6. PICK g : g = [i \in DOMAIN e.values |->
                 e.values[i] + SumSet({Bit(ValueOf(samples[i]), b) * 2^(b - e.start) : b \in (e.end + 1)..z})]
    OBVIOUS
  <1>7. g = FieldsOf(l, z)
    <2>1. DOMAIN g = DOMAIN samples /\ \A i \in DOMAIN samples : g[i] = Field(ValueOf(samples[i]), l, z)
      BY <1>4, <1>5, <1>6, Zenon
    <2>2. g = [i \in DOMAIN samples |-> g[i]]
      BY <1>4, <1>6, Zenon
    <2>. QED
      BY <2>1, <2>2 DEF FieldsOf
  <1>8. ExtendedTo(e, z) = [e EXCEPT !.end = z, !.values = g]
    BY <1>3, <1>6, Zenon DEF ExtendedTo
  <1>. QED
    BY <1>7, <1>8
---------------------------------------------------------------------------
(* The grid of ranges *)

\* The range after this one is a range of the grid, and of the ranges up to it whose width
\* is allowed it is the only one not passed before.
LEMMA RangeAdvances ==
    ASSUME column \in Inputs, config \in Configs, samples \in Seq(Nat), IsSample(samples),
           pc = "scoring", Extracted,
           NEW e, e = IF range = NoRange THEN ResetTo(0)
                      ELSE IF RowEnds THEN ResetTo(range.start + 1)
                      ELSE ExtendedTo(range, range.end + 1)
    PROVE  \E l \in Bits : \E r \in l..(ValueBits - 1) :
              /\ r <= l + MaxWidth - 1
              /\ e = [start |-> l, end |-> r, values |-> FieldsOf(l, r)]
              /\ \A a, b \in Bits : Allowed(a, b) /\ (a < l \/ (a = l /\ b <= r)) =>
                    Passed(a, b) \/ (a = l /\ b = r)
  <1>1. /\ MaxWidth \in Nat /\ MinWidth \in Nat /\ MinWidth >= 1 /\ MaxWidth >= 1
        /\ ValueBits \in Nat \ {0}
    BY WidthTypes
  <1>2. PICK W \in Nat \ {0} : W = MaxWidth
    BY <1>1
  <1>3. PICK N \in Nat \ {0} : N = ValueBits
    BY <1>1
  <1>4. Bits = 0..(N - 1)
    BY <1>3 DEF Bits
  <1>5. \A a, b \in Bits : Allowed(a, b) => a <= b /\ b <= a + W - 1 /\ a \in Int /\ b \in Int
    BY <1>1, <1>2, <1>4 DEF Allowed
  <1>6. CASE range = NoRange
    <2>1. 0 \in Bits /\ 0 \in 0..(N - 1) /\ 0 <= 0 + W - 1
      BY <1>4
    <2>2. e = [start |-> 0, end |-> 0, values |-> FieldsOf(0, 0)]
      BY <1>6, <2>1, ResetExtracts
    <2>3. \A a, b \in Bits : Allowed(a, b) /\ (a < 0 \/ (a = 0 /\ b <= 0)) =>
             Passed(a, b) \/ (a = 0 /\ b = 0)
      BY <1>4
    <2>. QED
      BY <1>2, <1>3, <2>1, <2>2, <2>3
  <1>7. CASE range # NoRange
    <2>1. PICK l \in Bits, r \in Bits : RangeIs(l, r) /\ l # N - 1
      BY <1>3, <1>7 DEF Extracted
    <2>2. /\ l \in 0..(N - 1) /\ r \in l..(N - 1) /\ r <= l + W - 1
          /\ range = [start |-> l, end |-> r, values |-> FieldsOf(l, r)]
      BY <1>2, <1>3, <1>4, <2>1 DEF RangeIs
    <2>3. range.start = l /\ range.end = r
      BY <2>2
    <2>4. \A a, b : Passed(a, b) <=> a < l \/ (a = l /\ b <= r)
      BY <1>7, <2>3 DEF Passed
    <2>5. PICK z : z = AtMost(N - 1, l + W - 1)
      OBVIOUS
    <2>6. z \in Int /\ z <= N - 1 /\ z <= l + W - 1 /\ (z = N - 1 \/ z = l + W - 1)
      BY <2>2, <2>5 DEF AtMost
    <2>7. RowEnds <=> r >= z
      BY <1>2, <1>3, <2>3, <2>5 DEF RowEnds
    <2>8. CASE r >= z
      <3>1. PICK k : k = l + 1
        OBVIOUS
      <3>2. k \in Bits /\ k \in k..(N - 1) /\ k <= k + W - 1
        BY <1>4, <2>1, <2>2, <3>1
      <3>3. e = [start |-> k, end |-> k, values |-> FieldsOf(k, k)]
        <4>1. e = ResetTo(k)
          BY <1>7, <2>3, <2>7, <2>8, <3>1
        <4>. QED
          BY <3>2, <4>1, ResetExtracts
      <3>4. ASSUME NEW a \in Bits, NEW b \in Bits, Allowed(a, b), a < k \/ (a = k /\ b <= k)
            PROVE  Passed(a, b) \/ (a = k /\ b = k)
        <4>1. a <= b /\ b <= a + W - 1 /\ a \in Int /\ b \in Int /\ b <= N - 1
          BY <1>4, <1>5, <3>4
        <4>2. CASE a < l
          BY <2>4, <4>2
        <4>3. CASE a = l
          <5>1. b <= z
            BY <2>2, <2>6, <4>1, <4>3
          <5>2. b <= r
            BY <2>2, <2>6, <2>8, <4>1, <5>1
          <5>. QED
            BY <2>4, <4>3, <5>2
        <4>4. CASE a = k /\ b <= k
          BY <3>1, <4>1, <4>4
        <4>. QED
          BY <2>2, <3>1, <3>4, <4>1, <4>2, <4>3, <4>4
      <3>. QED
        BY <1>2, <1>3, <3>2, <3>3, <3>4
    <2>9. CASE ~(r >= z)
      <3>1. PICK k : k = r + 1
        OBVIOUS
      <3>2. k \in Bits /\ k \in l..(N - 1) /\ k <= l + W - 1
        BY <1>4, <2>2, <2>6, <2>9, <3>1
      <3>3. e = [start |-> l, end |-> k, values |-> FieldsOf(l, k)]
        <4>1. e = ExtendedTo(range, k)
          BY <1>7, <2>3, <2>7, <2>9, <3>1
        <4>2. r \in l..(ValueBits - 1)
          BY <1>3, <2>2
        <4>. QED
          BY <2>1, <2>2, <3>1, <3>2, <4>1, <4>2, ExtendExtracts
      <3>4. ASSUME NEW a \in Bits, NEW b \in Bits, Allowed(a, b), a < l \/ (a = l /\ b <= k)
            PROVE  Passed(a, b) \/ (a = l /\ b = k)
        <4>1. a \in Int /\ b \in Int
          BY <1>5, <3>4
        <4>2. CASE a < l
          BY <2>4, <4>2
        <4>3. CASE a = l /\ b <= k
          <5>1. b <= r \/ b = k
            BY <2>2, <3>1, <4>1, <4>3
          <5>. QED
            BY <2>4, <4>3, <5>1
        <4>. QED
          BY <3>4, <4>2, <4>3
      <3>. QED
        BY <1>2, <1>3, <2>1, <3>2, <3>3, <3>4
    <2>. QED
      BY <2>8, <2>9
  <1>. QED
    BY <1>6, <1>7

LEMMA ScoreStep ==
    ASSUME Called, Sampled, Extracted, Scored, ScoreRange
    PROVE  Extracted' /\ Scored'
  <1>1. /\ pc = "scoring" /\ column \in Inputs /\ config \in Configs
        /\ samples \in Seq(Nat) /\ IsSample(samples)
    BY DEF ScoreRange, Called, Sampled
  <1>2. UNCHANGED <<column, config, samples>>
    BY DEF ScoreRange
  <1>3. range' = IF range = NoRange THEN ResetTo(0)
                 ELSE IF RowEnds THEN ResetTo(range.start + 1)
                 ELSE ExtendedTo(range, range.end + 1)
    BY DEF ScoreRange
  <1>4. PICK e : e = range'
    OBVIOUS
  <1>5a. PICK l \in Bits : \E r \in l..(ValueBits - 1) :
           /\ r <= l + MaxWidth - 1
           /\ e = [start |-> l, end |-> r, values |-> FieldsOf(l, r)]
           /\ \A a, b \in Bits : Allowed(a, b) /\ (a < l \/ (a = l /\ b <= r)) =>
                 Passed(a, b) \/ (a = l /\ b = r)
    <2>1. e = IF range = NoRange THEN ResetTo(0)
              ELSE IF RowEnds THEN ResetTo(range.start + 1)
              ELSE ExtendedTo(range, range.end + 1)
      BY <1>3, <1>4, Zenon
    <2>. QED
      BY <1>1, <2>1, RangeAdvances
  <1>5. PICK r \in l..(ValueBits - 1) :
           /\ r <= l + MaxWidth - 1
           /\ e = [start |-> l, end |-> r, values |-> FieldsOf(l, r)]
           /\ \A a, b \in Bits : Allowed(a, b) /\ (a < l \/ (a = l /\ b <= r)) =>
                 Passed(a, b) \/ (a = l /\ b = r)
    BY <1>5a, Zenon
  <1>6. e.start = l /\ e.end = r /\ e.values = FieldsOf(l, r)
    BY <1>5
  <1>7. /\ MaxWidth \in Nat /\ MinWidth \in Nat /\ MinWidth >= 1 /\ MaxWidth >= 1
        /\ ValueBits \in Nat \ {0} /\ l \in Nat /\ r \in Bits /\ r \in Nat
    <2>1. MaxWidth \in Nat /\ MinWidth \in Nat /\ MinWidth >= 1 /\ MaxWidth >= 1 /\ ValueBits \in Nat \ {0}
      BY <1>1, WidthTypes
    <2>. QED
      BY <2>1 DEF Bits
  <1>8. e # NoRange
    BY <1>6, <1>7 DEF NoRange
  <1>9. pc' = IF l = ValueBits - 1 THEN "solving" ELSE "scoring"
    BY <1>4, <1>6 DEF ScoreRange
  <1>10. Extracted'
    <2>1. RangeIs(l, r)'
      <3>1. range' = [start |-> l, end |-> r, values |-> FieldsOf(l, r)']
        BY <1>2, <1>4, <1>5, Frame
      <3>2. r <= l + MaxWidth' - 1
        BY <1>2, <1>5, Frame
      <3>. QED
        BY <3>1, <3>2 DEF RangeIs
    <2>. QED
      BY <1>7, <1>9, <2>1 DEF Extracted
  <1>11. PICK new : new = IF r - l + 1 < MinWidth THEN {} ELSE RangeScore(l, r)
    OBVIOUS
  <1>12. scores' = scores \cup new
    <2>1. RangeScore(l, r) = ScoreOf(FieldsOf(l, r), l, r)
      BY <1>1, RangeScoreIs
    <2>2. scores' = scores \cup (IF range'.end - range'.start + 1 < MinWidth THEN {}
                                 ELSE ScoreOf(range'.values, range'.start, range'.end))
      BY DEF ScoreRange
    <2>. QED
      BY <1>4, <1>6, <1>11, <2>1, <2>2, Zenon
  <1>13. Allowed(l, r) <=> ~(r - l + 1 < MinWidth)
    BY <1>5, <1>7 DEF Allowed
  <1>14. ScoresAre
    BY <1>1 DEF Scored
  <1>15. \A s \in scores' : Allowed(s.from, s.to) /\ s \in RangeScore(s.from, s.to)
    <2>1. ASSUME NEW s \in new
          PROVE  Allowed(s.from, s.to) /\ s \in RangeScore(s.from, s.to)
      <3>1. s \in RangeScore(l, r) /\ Allowed(l, r)
        BY <1>11, <1>13
      <3>2. s.from = l /\ s.to = r
        BY <1>1, <3>1, RangeScoreIs
      <3>. QED
        BY <3>1, <3>2
    <2>. QED
      BY <1>12, <1>14, <2>1 DEF ScoresAre
  <1>16. ASSUME NEW a \in Bits, NEW b \in Bits, Allowed(a, b), a < l \/ (a = l /\ b <= r)
         PROVE  RangeScore(a, b) \subseteq scores'
    <2>1. CASE Passed(a, b)
      BY <1>12, <1>14, <1>16, <2>1 DEF ScoresAre
    <2>2. CASE a = l /\ b = r
      BY <1>11, <1>12, <1>13, <1>16, <2>2
    <2>. QED
      BY <1>5, <1>16, <2>1, <2>2
  <1>17. \A a, b : Allowed(a, b)' <=> Allowed(a, b)
    BY <1>2, Frame DEF Allowed
  <1>18. \A a, b : RangeScore(a, b)' = RangeScore(a, b)
    BY <1>2, Frame
  <1>19. \A a, b : Passed(a, b)' <=> a < l \/ (a = l /\ b <= r)
    BY <1>4, <1>6, <1>8 DEF Passed
  <1>20. ScoresAre'
    <2>1. \A s \in scores' : Allowed(s.from, s.to)' /\ s \in RangeScore(s.from, s.to)'
      BY <1>15, <1>17, <1>18
    <2>2. \A a, b \in Bits : Allowed(a, b)' /\ Passed(a, b)' => RangeScore(a, b)' \subseteq scores'
      BY <1>16, <1>17, <1>18, <1>19
    <2>. QED
      BY <2>1, <2>2 DEF ScoresAre
  <1>. QED
    BY <1>10, <1>20 DEF Scored
---------------------------------------------------------------------------
(* The dynamic program *)

\* What it finds: the score of every range allowed, and only those.
ScoresComplete ==
    \A l, r \in Bits : ScoredAs(l, r) = IF Allowed(l, r) THEN RangeScore(l, r) ELSE {}

LEMMA AllScored ==
    ASSUME Called, Sampled, Extracted, Scored, pc = "solving"
    PROVE  ScoresComplete
  <1>1. /\ column \in Inputs /\ config \in Configs /\ samples \in Seq(Nat) /\ IsSample(samples)
        /\ ScoresAre
    BY DEF Called, Sampled, Scored
  <1>2. PICK l \in Bits, r \in Bits : RangeIs(l, r) /\ l = ValueBits - 1
    BY DEF Extracted
  <1>3. PICK N \in Nat \ {0} : N = ValueBits
    BY PlannerAssumption
  <1>4. Bits = 0..(N - 1)
    BY <1>3 DEF Bits
  <1>5. range.start = N - 1 /\ range.end = N - 1 /\ range # NoRange
    <2>1. range.start = l /\ range.end = r /\ r = l /\ l \in Nat
      BY <1>2, <1>3, <1>4 DEF RangeIs
    <2>. QED
      BY <1>2, <1>3, <2>1 DEF NoRange
  <1>6. \A a, b \in Bits : Passed(a, b)
    BY <1>4, <1>5 DEF Passed
  <1>7. \A a, b \in Bits : Allowed(a, b) => b \in a..(ValueBits - 1)
    <2>1. MinWidth \in Nat /\ MaxWidth \in Nat /\ MinWidth >= 1
      BY <1>1, WidthTypes
    <2>. QED
      BY <1>3, <1>4, <2>1 DEF Allowed
  <1>8. ASSUME NEW a \in Bits, NEW b \in Bits
        PROVE  ScoredAs(a, b) = IF Allowed(a, b) THEN RangeScore(a, b) ELSE {}
    <2>1. \A s \in ScoredAs(a, b) : Allowed(a, b) /\ s \in RangeScore(a, b)
      BY <1>1 DEF ScoredAs, ScoresAre
    <2>2. Allowed(a, b) => RangeScore(a, b) \subseteq ScoredAs(a, b)
      <3>. SUFFICES ASSUME Allowed(a, b), NEW s \in RangeScore(a, b) PROVE s \in ScoredAs(a, b)
        OBVIOUS
      <3>1. s \in scores
        BY <1>1, <1>6 DEF ScoresAre
      <3>2. s.from = a /\ s.to = b
        BY <1>1, <1>7, RangeScoreIs
      <3>. QED
        BY <3>1, <3>2 DEF ScoredAs
    <2>. QED
      BY <2>1, <2>2
  <1>. QED
    BY <1>8 DEF ScoresComplete

\* A cell of the table holds one record at most.
Cells == SUBSET [cost : Int, cut : Int]
IsCell(cell) == cell \in Cells /\ \A c \in cell : cell = {c}

\* What a cell promises: a cover that ends with a range of the grid, as cheap as any.
CellCovers(cell, fewer, i, k) ==
    /\ \A c \in cell :
          /\ Allowed(c.cut, i - 1)
          /\ fewer[c.cut] # {}
          /\ \E last \in ScoredAs(c.cut, i - 1) :
                c.cost = TheOne(fewer[c.cut]).cost + last.cost + Penalty(k)
    /\ \A j \in Bits : Allowed(j, i - 1) /\ fewer[j] # {} =>
          \A last \in ScoredAs(j, i - 1) :
             \E c \in cell : c.cost <= TheOne(fewer[j]).cost + last.cost + Penalty(k)

\* What the proofs about the dynamic program assume: a column, its settings, its sample and
\* its scores.
Solvable ==
    /\ column \in Inputs /\ config \in Configs /\ samples \in Seq(Nat) /\ IsSample(samples)
    /\ ScoresComplete

LEMMA AllowedIs ==
    ASSUME config \in Configs, NEW i \in 0..ValueBits, NEW j
    PROVE  /\ Allowed(j, i - 1) <=> j \in AtLeast(0, i - MaxWidth)..(i - MinWidth)
           /\ Allowed(j, i - 1) => /\ j \in Bits /\ i - 1 \in Bits /\ i - 1 \in j..(ValueBits - 1)
                                   /\ j \in Nat /\ j < i /\ j \in 0..ValueBits
                                   /\ i - j \in MinWidth..MaxWidth
  <1>1. /\ MaxWidth \in Nat /\ MinWidth \in Nat /\ MinWidth >= 1 /\ MinWidth <= MaxWidth
        /\ ValueBits \in Nat \ {0}
    BY WidthTypes
  <1>2. PICK W \in Nat, w \in Nat, N \in Nat \ {0} : W = MaxWidth /\ w = MinWidth /\ N = ValueBits
    BY <1>1
  <1>3. Bits = 0..(N - 1)
    BY <1>2 DEF Bits
  <1>4. i \in 0..N /\ i \in Int
    BY <1>2
  <1>5. PICK a \in Int : a = AtLeast(0, i - W) /\ a >= 0 /\ a >= i - W /\ (a = 0 \/ a = i - W)
    BY <1>4 DEF AtLeast
  <1>6. Allowed(j, i - 1) <=> j \in a..(i - w)
    BY <1>1, <1>2, <1>3, <1>4, <1>5 DEF Allowed
  <1>7. j \in a..(i - w) => /\ j \in Bits /\ i - 1 \in Bits /\ i - 1 \in j..(N - 1)
                            /\ j \in Nat /\ j < i /\ j \in 0..N
                            /\ i - j \in w..W
    BY <1>1, <1>2, <1>3, <1>4, <1>5
  <1>. QED
    BY <1>2, <1>5, <1>6, <1>7

LEMMA ScoredAsIs ==
    ASSUME Solvable, NEW i \in 0..ValueBits, NEW j, Allowed(j, i - 1)
    PROVE  /\ ScoredAs(j, i - 1) = RangeScore(j, i - 1)
           /\ \A s \in ScoredAs(j, i - 1) : s.cost \in Nat /\ ScoredAs(j, i - 1) = {s}
  <1>1. j \in Bits /\ i - 1 \in Bits /\ i - 1 \in j..(ValueBits - 1)
    BY AllowedIs DEF Solvable
  <1>2. ScoredAs(j, i - 1) = RangeScore(j, i - 1)
    BY <1>1 DEF Solvable, ScoresComplete
  <1>. QED
    BY <1>1, <1>2, RangeScoreIs DEF Solvable

LEMMA PenaltyType ==
    ASSUME Solvable, NEW k
    PROVE  Penalty(k) \in Int
  <1>1. config.splitPenalty \in Int /\ Len(samples) \in Int
    BY PlannerAssumption DEF Solvable
  <1>2. config.splitPenalty * Len(samples) \in Int
    BY <1>1
  <1>. QED
    BY <1>2 DEF Penalty
\* The covers of the first i bits by k sections.
LEMMA CoversAre ==
    ASSUME Solvable, NEW i \in 0..ValueBits, NEW k,
           NEW fewer \in [0..ValueBits -> Cells]
    PROVE  /\ Covers(fewer, i, k) \in Cells
           /\ \A c \in Covers(fewer, i, k) :
                 /\ Allowed(c.cut, i - 1) /\ fewer[c.cut] # {}
                 /\ \E last \in ScoredAs(c.cut, i - 1) :
                       c.cost = TheOne(fewer[c.cut]).cost + last.cost + Penalty(k)
           /\ \A j : Allowed(j, i - 1) /\ fewer[j] # {} =>
                 \A last \in ScoredAs(j, i - 1) :
                    [cost |-> TheOne(fewer[j]).cost + last.cost + Penalty(k), cut |-> j]
                       \in Covers(fewer, i, k)
  <1>1. config \in Configs
    BY DEF Solvable
  <1>2. PICK D : D = {cut \in AtLeast(0, i - MaxWidth)..(i - MinWidth) : fewer[cut] # {}}
    OBVIOUS
  <1>3. \A j : Allowed(j, i - 1) /\ fewer[j] # {} <=> j \in D
    BY <1>1, <1>2, AllowedIs
  <1>4. PICK C : C = Covers(fewer, i, k)
    OBVIOUS
  <1>5. C = UNION {{[cost |-> TheOne(fewer[j]).cost + last.cost + Penalty(k), cut |-> j] :
                      last \in ScoredAs(j, i - 1)} : j \in D}
    BY <1>2, <1>4, Zenon DEF Covers
  <1>6. ASSUME NEW c \in C
        PROVE  \E j \in D : \E last \in ScoredAs(j, i - 1) :
                  c = [cost |-> TheOne(fewer[j]).cost + last.cost + Penalty(k), cut |-> j]
    BY <1>5
  <1>7. ASSUME NEW j \in D, NEW last \in ScoredAs(j, i - 1)
        PROVE  [cost |-> TheOne(fewer[j]).cost + last.cost + Penalty(k), cut |-> j] \in C
    BY <1>5
  <1>8. ASSUME NEW c \in C
        PROVE  /\ c \in [cost : Int, cut : Int] /\ Allowed(c.cut, i - 1) /\ fewer[c.cut] # {}
               /\ \E last \in ScoredAs(c.cut, i - 1) :
                     c.cost = TheOne(fewer[c.cut]).cost + last.cost + Penalty(k)
    <2>1. PICK j \in D : \E last \in ScoredAs(j, i - 1) :
                  c = [cost |-> TheOne(fewer[j]).cost + last.cost + Penalty(k), cut |-> j]
      BY <1>6
    <2>2. PICK last \in ScoredAs(j, i - 1) :
                  c = [cost |-> TheOne(fewer[j]).cost + last.cost + Penalty(k), cut |-> j]
      BY <2>1
    <2>3. Allowed(j, i - 1) /\ fewer[j] # {} /\ j \in 0..ValueBits /\ j \in Int
      <3>1. Allowed(j, i - 1) /\ fewer[j] # {}
        BY <1>3
      <3>2. j \in 0..ValueBits /\ j \in Nat
        BY <1>1, <3>1, AllowedIs
      <3>. QED
        BY <3>1, <3>2
    <2>4. PICK before : before = TheOne(fewer[j])
      OBVIOUS
    <2>5. before.cost \in Int /\ last.cost \in Int /\ Penalty(k) \in Int
      <3>1. last.cost \in Nat
        BY <2>3, ScoredAsIs
      <3>2. before \in fewer[j]
        BY <2>3, <2>4, Zenon DEF TheOne
      <3>3. fewer[j] \in Cells
        BY <2>3
      <3>. QED
        BY <3>1, <3>2, <3>3, PenaltyType DEF Cells
    <2>6. before.cost + last.cost + Penalty(k) \in Int
      BY <2>5
    <2>7. c.cut = j /\ c.cost = before.cost + last.cost + Penalty(k)
      BY <2>2, <2>4
    <2>. QED
      BY <2>2, <2>3, <2>4, <2>6, <2>7
  <1>9. C \in Cells
    BY <1>8 DEF Cells
  <1>. QED
    BY <1>3, <1>4, <1>7, <1>8, <1>9
\* The first of the cheapest covers: one if there is a cover, and then the only one.
LEMMA FirstCheapestIs ==
    ASSUME NEW n \in Nat, NEW C \in Cells,
           \A c \in C : c.cut \in 0..n,
           \A c \in C : \A d \in C : c.cut = d.cut => c = d
    PROVE  /\ IsCell(FirstCheapest(C)) /\ FirstCheapest(C) \subseteq C
           /\ \A d \in C : \E c \in FirstCheapest(C) : c.cost <= d.cost
  <1>1. PICK F : F = FirstCheapest(C)
    OBVIOUS
  <1>2. F = {c \in C : \A d \in C : c.cost < d.cost \/ (c.cost = d.cost /\ c.cut <= d.cut)}
    BY <1>1, Zenon DEF FirstCheapest
  <1>3. \A c \in C : c.cost \in Int /\ c.cut \in Int /\ c \in [cost : Int, cut : Int]
    BY DEF Cells
  <1>4. ASSUME NEW c \in F, NEW d \in F
        PROVE  c = d
    <2>1. c \in C /\ d \in C
      BY <1>2
    <2>2. c.cost < d.cost \/ (c.cost = d.cost /\ c.cut <= d.cut)
      BY <1>2, <2>1
    <2>3. d.cost < c.cost \/ (d.cost = c.cost /\ d.cut <= c.cut)
      BY <1>2, <2>1
    <2>4. c.cut = d.cut
      BY <1>3, <2>1, <2>2, <2>3
    <2>. QED
      BY <2>1, <2>4
  <1>5. F \subseteq C
    BY <1>2
  <1>6. IsCell(F)
    <2>1. F \in Cells
      BY <1>5 DEF Cells
    <2>2. \A c \in F : F = {c}
      BY <1>4
    <2>. QED
      BY <2>1, <2>2 DEF IsCell
  <1>7. ASSUME NEW e \in C
        PROVE  \E c \in F : c.cost <= e.cost
    <2>1. PICK S : S = {c.cut : c \in C}
      OBVIOUS
    <2>2. S \in SUBSET (0..n) /\ S # {}
      BY <2>1
    <2>. DEFINE At(j) == CHOOSE c \in C : c.cut = j
    <2>3. ASSUME NEW c \in C
          PROVE  At(c.cut) = c
      <3>1. At(c.cut) \in C /\ At(c.cut).cut = c.cut
        BY Zenon
      <3>. QED
        BY <3>1
    <2>. HIDE DEF At
    <2>4. PICK f : f = [j \in S |-> At(j).cost]
      OBVIOUS
    <2>5. \A c \in C : c.cut \in S /\ f[c.cut] = c.cost
      BY <2>1, <2>3, <2>4
    <2>6. f \in [S -> Int]
      <3>1. \A j \in S : At(j).cost \in Int
        <4>1. ASSUME NEW j \in S
              PROVE  At(j).cost \in Int
          <5>1. PICK c \in C : c.cut = j
            BY <2>1
          <5>2. At(j) = c
            BY <2>3, <5>1
          <5>. QED
            BY <1>3, <5>2
        <4>. QED
          BY <4>1
      <3>. QED
        BY <2>4, <3>1
    <2>7. PICK j \in S : \A i \in S : f[j] < f[i] \/ (f[j] = f[i] /\ j <= i)
      BY <2>2, <2>6, FirstLeast, Zenon
    <2>8. PICK c \in C : c.cut = j
      BY <2>1
    <2>9. ASSUME NEW d \in C
          PROVE  c.cost < d.cost \/ (c.cost = d.cost /\ c.cut <= d.cut)
      <3>1. d.cut \in S /\ f[d.cut] = d.cost /\ f[j] = c.cost
        BY <2>5, <2>8
      <3>. QED
        BY <2>7, <2>8, <3>1
    <2>10. c \in F
      BY <1>2, <2>9
    <2>11. c.cost <= e.cost
      BY <1>3, <2>9
    <2>. QED
      BY <2>10, <2>11
  <1>. QED
    BY <1>1, <1>5, <1>6, <1>7

LEMMA CellIs ==
    ASSUME Solvable, NEW i \in 0..ValueBits, NEW k,
           NEW fewer \in [0..ValueBits -> Cells], \A j \in 0..ValueBits : IsCell(fewer[j])
    PROVE  /\ IsCell(FirstCheapest(Covers(fewer, i, k)))
           /\ CellCovers(FirstCheapest(Covers(fewer, i, k)), fewer, i, k)
  <1>1. config \in Configs /\ ValueBits \in Nat
    BY PlannerAssumption DEF Solvable
  <1>2. PICK C : C = Covers(fewer, i, k)
    OBVIOUS
  <1>3. C \in Cells
    BY <1>2, CoversAre
  <1>4. \A c \in C :
           /\ Allowed(c.cut, i - 1) /\ fewer[c.cut] # {}
           /\ \E last \in ScoredAs(c.cut, i - 1) :
                 c.cost = TheOne(fewer[c.cut]).cost + last.cost + Penalty(k)
    BY <1>2, CoversAre
  <1>5. \A j : Allowed(j, i - 1) /\ fewer[j] # {} =>
           \A last \in ScoredAs(j, i - 1) :
              [cost |-> TheOne(fewer[j]).cost + last.cost + Penalty(k), cut |-> j] \in C
    BY <1>2, CoversAre
  <1>6. \A c \in C : c.cut \in 0..ValueBits
    BY <1>1, <1>4, AllowedIs
  <1>7. ASSUME NEW c \in C, NEW d \in C, c.cut = d.cut
        PROVE  c = d
    <2>1. PICK last \in ScoredAs(c.cut, i - 1) :
             c.cost = TheOne(fewer[c.cut]).cost + last.cost + Penalty(k)
      BY <1>4
    <2>2. PICK other \in ScoredAs(c.cut, i - 1) :
             d.cost = TheOne(fewer[c.cut]).cost + other.cost + Penalty(k)
      BY <1>4, <1>7
    <2>3. ScoredAs(c.cut, i - 1) = {last}
      BY <1>4, ScoredAsIs
    <2>4. last = other
      BY <2>3
    <2>5. c.cost = d.cost
      BY <2>1, <2>2, <2>4
    <2>6. c \in [cost : Int, cut : Int] /\ d \in [cost : Int, cut : Int]
      BY <1>3 DEF Cells
    <2>. QED
      BY <1>7, <2>5, <2>6
  <1>8. PICK F : F = FirstCheapest(C)
    OBVIOUS
  <1>9. /\ IsCell(F) /\ F \subseteq C
        /\ \A d \in C : \E c \in F : c.cost <= d.cost
    BY <1>1, <1>3, <1>6, <1>7, <1>8, FirstCheapestIs
  <1>10. CellCovers(F, fewer, i, k)
    <2>1. ASSUME NEW j \in Bits, Allowed(j, i - 1), fewer[j] # {}, NEW last \in ScoredAs(j, i - 1)
          PROVE  \E c \in F : c.cost <= TheOne(fewer[j]).cost + last.cost + Penalty(k)
      <3>1. PICK d : d = [cost |-> TheOne(fewer[j]).cost + last.cost + Penalty(k), cut |-> j]
        OBVIOUS
      <3>2. d \in C
        BY <1>5, <2>1, <3>1
      <3>3. d.cost = TheOne(fewer[j]).cost + last.cost + Penalty(k)
        BY <3>1
      <3>. QED
        BY <1>9, <3>2, <3>3, Zenon
    <2>. QED
      BY <1>4, <1>9, <2>1 DEF CellCovers
  <1>. QED
    BY <1>2, <1>8, <1>9, <1>10
\* The table of the dynamic program.
Table(cover) ==
    /\ cover[0][0] = {NoBits} /\ \A i \in 1..ValueBits : cover[0][i] = {}
    /\ \A k \in 0..MaxSections : \A i \in 0..ValueBits : IsCell(cover[k][i])
    /\ \A k \in 1..MaxSections : \A i \in 0..ValueBits :
          CellCovers(cover[k][i], cover[k - 1], i, k)

LEMMA CheapestIsTable ==
    ASSUME Solvable
    PROVE  Table(Cheapest)
  <1>1. PICK M \in Nat \ {0}, N \in Nat \ {0} : M = MaxSections /\ N = ValueBits
    BY WidthTypes DEF Solvable
  <1>2. PICK V : V = [0..N -> Cells]
    OBVIOUS
  <1>3. PICK row : row = [i \in 0..N |-> IF i = 0 THEN {NoBits} ELSE {}]
    OBVIOUS
  <1>4. row \in V
    <2>1. {NoBits} \in Cells /\ {} \in Cells
      BY DEF NoBits, Cells
    <2>. QED
      BY <1>2, <1>3, <2>1
  <1>5. ASSUME NEW fewer \in V, NEW k
        PROVE  [i \in 0..N |-> FirstCheapest(Covers(fewer, i, k))] \in V
    <2>1. ASSUME NEW i \in 0..N
          PROVE  FirstCheapest(Covers(fewer, i, k)) \in Cells
      <3>1. Covers(fewer, i, k) \in Cells
        BY <1>1, <1>2, CoversAre
      <3>2. FirstCheapest(Covers(fewer, i, k)) \subseteq Covers(fewer, i, k)
        BY DEF FirstCheapest
      <3>. QED
        BY <3>1, <3>2 DEF Cells
    <2>. QED
      BY <1>2, <2>1
  <1>6. PICK step : step = [p \in (1..M) \X V |->
                               [i \in 0..N |-> FirstCheapest(Covers(p[2], i, p[1]))]]
    OBVIOUS
  <1>7. ASSUME NEW k \in 1..M, NEW fewer \in V
        PROVE  step[<<k, fewer>>] = [i \in 0..N |-> FirstCheapest(Covers(fewer, i, k))]
    <2>1. <<k, fewer>> \in (1..M) \X V
      OBVIOUS
    <2>. QED
      BY <1>6, <2>1
  <1>8. step \in [(1..M) \X V -> V]
    <2>1. DOMAIN step = (1..M) \X V /\ step = [p \in (1..M) \X V |-> step[p]]
      BY <1>6
    <2>2. ASSUME NEW p \in (1..M) \X V
          PROVE  step[p] \in V
      <3>1. PICK k \in 1..M, fewer \in V : p = <<k, fewer>>
        OBVIOUS
      <3>2. step[<<k, fewer>>] = [i \in 0..N |-> FirstCheapest(Covers(fewer, i, k))]
        BY <1>7
      <3>3. [i \in 0..N |-> FirstCheapest(Covers(fewer, i, k))] \in V
        BY <1>5
      <3>. QED
        BY <3>1, <3>2, <3>3, Zenon
    <2>. QED
      BY <2>1, <2>2
  <1>9. PICK f \in [0..M -> V] : FromZero(f, M, row, step)
    BY <1>4, <1>8, RecursionFromZero, Zenon
  <1>10. f[0] = row /\ \A k \in 1..M : f[k] = step[<<k, f[k - 1]>>]
    BY <1>9 DEF FromZero
  <1>11. ASSUME NEW k \in 1..M
         PROVE  f[k - 1] \in V /\ f[k] = [i \in 0..N |-> FirstCheapest(Covers(f[k - 1], i, k))]
    <2>1. k - 1 \in 0..M
      OBVIOUS
    <2>2. f[k - 1] \in V
      BY <2>1
    <2>. QED
      BY <1>7, <1>10, <2>2, Zenon
  <1>12. f = [k \in 0..M |-> [i \in 0..N |->
                IF k = 0 THEN (IF i = 0 THEN {NoBits} ELSE {})
                ELSE FirstCheapest(Covers(f[k - 1], i, k))]]
    <2>1. PICK g : g = [k \in 0..M |-> [i \in 0..N |->
                IF k = 0 THEN (IF i = 0 THEN {NoBits} ELSE {})
                ELSE FirstCheapest(Covers(f[k - 1], i, k))]]
      OBVIOUS
    <2>2. ASSUME NEW k \in 0..M
          PROVE  g[k] = f[k]
      <3>1. g[k] = [i \in 0..N |->
                IF k = 0 THEN (IF i = 0 THEN {NoBits} ELSE {})
                ELSE FirstCheapest(Covers(f[k - 1], i, k))]
        BY <2>1, Zenon
      <3>2. CASE k = 0
        BY <1>3, <1>10, <3>1, <3>2, Zenon
      <3>3. CASE k # 0
        <4>1. k \in 1..M
          BY <3>3
        <4>2. g[k] = [i \in 0..N |-> FirstCheapest(Covers(f[k - 1], i, k))]
          BY <3>1, <3>3, Zenon
        <4>. QED
          BY <1>11, <4>1, <4>2, Zenon
      <3>. QED
        BY <3>2, <3>3
    <2>3. DOMAIN f = 0..M /\ f = [k \in 0..M |-> f[k]]
      OBVIOUS
    <2>4. f = g
      BY <2>1, <2>2, <2>3, Zenon
    <2>. QED
      BY <2>1, <2>4
  <1>. DEFINE cover == CHOOSE cover : cover = [k \in 0..MaxSections |->
          [i \in 0..ValueBits |->
             IF k = 0 THEN (IF i = 0 THEN {NoBits} ELSE {})
             ELSE FirstCheapest(Covers(cover[k - 1], i, k))]]
  <1>13. cover = [k \in 0..MaxSections |->
          [i \in 0..ValueBits |->
             IF k = 0 THEN (IF i = 0 THEN {NoBits} ELSE {})
             ELSE FirstCheapest(Covers(cover[k - 1], i, k))]]
    <2>1. f = [k \in 0..MaxSections |->
          [i \in 0..ValueBits |->
             IF k = 0 THEN (IF i = 0 THEN {NoBits} ELSE {})
             ELSE FirstCheapest(Covers(f[k - 1], i, k))]]
      BY <1>1, <1>12
    <2>. QED
      BY <2>1, Zenon
  <1>14. Cheapest = cover
    BY Zenon DEF Cheapest
  <1>. HIDE DEF cover
  <1>15. cover[0] = row
    <2>1. 0 \in 0..MaxSections
      BY <1>1
    <2>. QED
      BY <1>1, <1>3, <1>13, <2>1, Zenon
  <1>16. ASSUME NEW k \in 1..M
         PROVE  cover[k] = [i \in 0..N |-> FirstCheapest(Covers(cover[k - 1], i, k))]
    <2>1. k \in 0..MaxSections /\ k # 0
      BY <1>1
    <2>. QED
      BY <1>1, <1>13, <2>1, Zenon
  <1>17. PICK T : T = {k \in 0..M : cover[k] \in V /\ \A i \in 0..N : IsCell(cover[k][i])}
    OBVIOUS
  <1>18. 0 \in T
    <2>1. \A i \in 0..N : row[i] = {NoBits} \/ row[i] = {}
      BY <1>3
    <2>2. IsCell({NoBits}) /\ IsCell({})
      BY DEF IsCell, Cells, NoBits
    <2>3. 0 \in 0..M
      OBVIOUS
    <2>4. \A i \in 0..N : IsCell(cover[0][i])
      BY <1>15, <2>1, <2>2, Zenon
    <2>. QED
      BY <1>4, <1>15, <1>17, <2>3, <2>4, Zenon
  <1>19. ASSUME NEW k \in 0..M, k \in T, k + 1 \in 1..M
         PROVE  /\ k + 1 \in T
                /\ \A i \in 0..N : CellCovers(cover[k + 1][i], cover[k], i, k + 1)
    <2>1. k + 1 \in 0..M /\ (k + 1) - 1 = k
      BY <1>19
    <2>2. PICK fewer \in V : fewer = cover[k] /\ \A i \in 0..N : IsCell(fewer[i])
      BY <1>17, <1>19, Zenon
    <2>3. cover[k + 1] = [i \in 0..N |-> FirstCheapest(Covers(fewer, i, k + 1))]
      BY <1>16, <1>19, <2>1, <2>2, Zenon
    <2>4. \A i \in 0..N : cover[k + 1][i] = FirstCheapest(Covers(fewer, i, k + 1))
      BY <2>3, Zenon
    <2>5. \A i \in 0..N : IsCell(cover[k + 1][i]) /\ CellCovers(cover[k + 1][i], fewer, i, k + 1)
      <3>1. fewer \in [0..ValueBits -> Cells] /\ \A i \in 0..ValueBits : IsCell(fewer[i])
        BY <1>1, <1>2, <2>2, Zenon
      <3>2. \A i \in 0..ValueBits :
               /\ IsCell(FirstCheapest(Covers(fewer, i, k + 1)))
               /\ CellCovers(FirstCheapest(Covers(fewer, i, k + 1)), fewer, i, k + 1)
        BY <3>1, CellIs, Zenon
      <3>. QED
        BY <1>1, <2>4, <3>2, Zenon
    <2>6. cover[k + 1] \in V
      <3>1. PICK h : h = k + 1
        OBVIOUS
      <3>2. [i \in 0..N |-> FirstCheapest(Covers(fewer, i, h))] \in V
        BY <1>5
      <3>. QED
        BY <2>3, <3>1, <3>2, Zenon
    <2>. QED
      BY <1>17, <2>1, <2>2, <2>5, <2>6, Zenon
  <1>20. 0..M \subseteq T
    <2>1. \A k \in 0..(M - 1) : k \in T => k + 1 \in T
      <3>1. \A k \in 0..(M - 1) : k \in 0..M /\ k + 1 \in 1..M
        OBVIOUS
      <3>. QED
        BY <1>19, <3>1, Zenon
    <2>. QED
      BY <1>18, <2>1, IntervalInduction
  <1>21. cover[0][0] = {NoBits} /\ \A i \in 1..N : cover[0][i] = {}
    <2>1. 0 \in 0..N /\ \A i \in 1..N : i \in 0..N /\ i # 0
      OBVIOUS
    <2>. QED
      BY <1>3, <1>15, <2>1, Zenon
  <1>22. \A k \in 0..M : \A i \in 0..N : IsCell(cover[k][i])
    BY <1>17, <1>20, Zenon
  <1>23. ASSUME NEW k \in 1..M
         PROVE  \A i \in 0..N : CellCovers(cover[k][i], cover[k - 1], i, k)
    <2>1. k - 1 \in 0..M /\ (k - 1) + 1 = k
      OBVIOUS
    <2>2. k - 1 \in T
      BY <1>20, <2>1
    <2>. QED
      BY <1>19, <2>1, <2>2
  <1>. QED
    BY <1>1, <1>14, <1>21, <1>22, <1>23, Zenon DEF Table
\* A way through the bits by n ranges of the grid: t where they end, w what the first k cost.
PathCosts(t, w, n) ==
    /\ t[0] = 0 /\ w[0] = 0
    /\ \A k \in 1..n :
          /\ t[k] \in 0..ValueBits /\ Allowed(t[k - 1], t[k] - 1) /\ w[k] \in Int
          /\ \E s \in ScoredAs(t[k - 1], t[k] - 1) : w[k] = w[k - 1] + s.cost + Penalty(k)

LEMMA TheOneIs ==
    ASSUME NEW cell, IsCell(cell), NEW c \in cell
    PROVE  TheOne(cell) = c /\ c.cost \in Int /\ c.cut \in Int
  <1>1. cell = {c}
    BY DEF IsCell
  <1>2. TheOne(cell) \in cell
    BY Zenon DEF TheOne
  <1>3. c \in [cost : Int, cut : Int]
    BY DEF IsCell, Cells
  <1>. QED
    BY <1>1, <1>2, <1>3

\* No way through the bits is cheaper than the cell it leads to.
LEMMA Reached ==
    ASSUME Solvable, NEW cover, Table(cover), NEW n \in 0..MaxSections, NEW t, NEW w,
           PathCosts(t, w, n)
    PROVE  \A k \in 0..n : \E c \in cover[k][t[k]] : c.cost <= w[k]
  <1>1. PICK M \in Nat \ {0}, N \in Nat \ {0} : M = MaxSections /\ N = ValueBits
    BY WidthTypes DEF Solvable
  <1>2. n \in Nat /\ n <= M
    BY <1>1
  <1>3. \A k \in 0..n : t[k] \in 0..N /\ w[k] \in Int
    <2>1. ASSUME NEW k \in 0..n
          PROVE  t[k] \in 0..N /\ w[k] \in Int
      <3>1. k = 0 \/ k \in 1..n
        BY <1>2
      <3>. QED
        BY <1>1, <3>1 DEF PathCosts
    <2>. QED
      BY <2>1
  <1>4. PICK S : S = {k \in 0..n : \E c \in cover[k][t[k]] : c.cost <= w[k]}
    OBVIOUS
  <1>5. 0 \in S
    <2>1. cover[0][t[0]] = {NoBits} /\ w[0] = 0
      BY DEF Table, PathCosts
    <2>2. NoBits.cost = 0 /\ NoBits \in {NoBits}
      BY DEF NoBits
    <2>3. \E c \in cover[0][t[0]] : c.cost <= w[0]
      BY <2>1, <2>2
    <2>4. 0 \in 0..n
      BY <1>2
    <2>. QED
      BY <1>4, <2>3, <2>4
  <1>6. ASSUME NEW k \in 0..(n - 1), k \in S
        PROVE  k + 1 \in S
    <2>1. PICK m : m = k + 1
      OBVIOUS
    <2>2. m \in 1..n /\ m \in 0..n /\ m \in 1..M /\ m - 1 = k /\ k \in 0..n /\ k \in 0..M
      BY <1>2, <2>1
    <2>3. PICK c \in cover[k][t[k]] : c.cost <= w[k]
      BY <1>4, <1>6
    <2>4. IsCell(cover[k][t[k]])
      BY <1>1, <1>3, <2>2 DEF Table
    <2>5. TheOne(cover[k][t[k]]) = c /\ c.cost \in Int
      BY <2>3, <2>4, TheOneIs
    <2>6. t[m] \in 0..ValueBits /\ Allowed(t[k], t[m] - 1)
      BY <2>2 DEF PathCosts
    <2>7. PICK s \in ScoredAs(t[k], t[m] - 1) : w[m] = w[k] + s.cost + Penalty(m)
      BY <2>2 DEF PathCosts
    <2>8. s.cost \in Int /\ Penalty(m) \in Int /\ t[k] \in Bits
      <3>1. s.cost \in Nat
        BY <2>6, ScoredAsIs
      <3>2. t[k] \in Bits
        BY <2>6, AllowedIs DEF Solvable
      <3>. QED
        BY <3>1, <3>2, PenaltyType
    <2>9. CellCovers(cover[m][t[m]], cover[k], t[m], m)
      <3>1. CellCovers(cover[m][t[m]], cover[m - 1], t[m], m)
        BY <1>1, <2>2, <2>6, Zenon DEF Table
      <3>. QED
        BY <2>2, <3>1
    <2>10. cover[k][t[k]] # {}
      BY <2>3
    <2>11. PICK d \in cover[m][t[m]] : d.cost <= c.cost + s.cost + Penalty(m)
      <3>1. \E d \in cover[m][t[m]] : d.cost <= TheOne(cover[k][t[k]]).cost + s.cost + Penalty(m)
        BY <2>6, <2>8, <2>9, <2>10, Zenon DEF CellCovers
      <3>. QED
        BY <2>5, <3>1
    <2>12. d.cost \in Int
      <3>1. IsCell(cover[m][t[m]])
        BY <1>1, <1>3, <2>2 DEF Table
      <3>. QED
        BY <2>11, <3>1, TheOneIs
    <2>13. d.cost <= w[m]
      <3>1. w[k] \in Int /\ w[m] \in Int
        BY <1>3, <2>2
      <3>2. PICK a \in Int, b \in Int, e \in Int, f \in Int, g \in Int, h \in Int :
              a = c.cost /\ b = s.cost /\ e = Penalty(m) /\ f = w[k] /\ g = w[m] /\ h = d.cost
        BY <2>5, <2>8, <2>12, <3>1
      <3>3. a <= f /\ g = f + b + e /\ h <= a + b + e
        BY <2>3, <2>7, <2>11, <3>2
      <3>. QED
        BY <3>2, <3>3
    <2>. QED
      BY <1>4, <2>1, <2>2, <2>11, <2>13
  <1>7. 0..n \subseteq S
    BY <1>2, <1>5, <1>6, IntervalInduction
  <1>. QED
    BY <1>4, <1>7
\* What a cell says of the cell before it.
LEMMA CellBefore ==
    ASSUME Solvable, NEW cover, Table(cover), NEW k \in 1..MaxSections, NEW i \in 0..ValueBits,
           cover[k][i] # {}, NEW c, c = TheOne(cover[k][i])
    PROVE  /\ c.cut \in 0..ValueBits /\ c.cost \in Int /\ Allowed(c.cut, i - 1)
           /\ cover[k - 1][c.cut] # {}
           /\ \E last \in ScoredAs(c.cut, i - 1) :
                 c.cost = TheOne(cover[k - 1][c.cut]).cost + last.cost + Penalty(k)
  <1>1. c \in cover[k][i]
    BY Zenon DEF TheOne
  <1>2. CellCovers(cover[k][i], cover[k - 1], i, k)
    BY Zenon DEF Table
  <1>3. /\ Allowed(c.cut, i - 1) /\ cover[k - 1][c.cut] # {}
        /\ \E last \in ScoredAs(c.cut, i - 1) :
              c.cost = TheOne(cover[k - 1][c.cut]).cost + last.cost + Penalty(k)
    BY <1>1, <1>2, Zenon DEF CellCovers
  <1>4. c.cut \in 0..ValueBits
    BY <1>3, AllowedIs DEF Solvable
  <1>5. k \in 0..MaxSections
    OBVIOUS
  <1>6. IsCell(cover[k][i])
    BY <1>5, Zenon DEF Table
  <1>. QED
    BY <1>1, <1>3, <1>4, <1>6, TheOneIs

GoesBack(end, cover, n) ==
    /\ end[n] = ValueBits
    /\ \A k \in 1..(n - 1) : end[k + 1] \in 0..ValueBits /\ cover[k + 1][end[k + 1]] # {} =>
          end[k] = TheOne(cover[k + 1][end[k + 1]]).cut

\* Going back from the last bit ends up in cells that hold a record.
LEMMA Backwards ==
    ASSUME Solvable, NEW cover, Table(cover), NEW n \in 1..MaxSections,
           cover[n][ValueBits] # {}, NEW end, GoesBack(end, cover, n)
    PROVE  \A k \in 1..n : end[k] \in 0..ValueBits /\ cover[k][end[k]] # {}
  <1>1. PICK M \in Nat \ {0}, N \in Nat \ {0} : M = MaxSections /\ N = ValueBits
    BY WidthTypes DEF Solvable
  <1>2. n \in Nat \ {0} /\ n <= M
    BY <1>1
  <1>3. PICK S : S = {i \in 0..(n - 1) : end[n - i] \in 0..N /\ cover[n - i][end[n - i]] # {}}
    OBVIOUS
  <1>4. 0 \in S
    <2>1. n - 0 = n /\ 0 \in 0..(n - 1) /\ N \in 0..N
      BY <1>1, <1>2
    <2>. QED
      BY <1>1, <1>3, <2>1 DEF GoesBack
  <1>5. ASSUME NEW i \in 0..((n - 1) - 1), i \in S
        PROVE  i + 1 \in S
    <2>1. PICK k \in 1..(n - 1) : k = n - (i + 1)
      BY <1>2
    <2>2. PICK m \in 1..M : m = k + 1 /\ m = n - i /\ m - 1 = k /\ i + 1 \in 0..(n - 1)
      BY <1>2, <2>1
    <2>3. end[m] \in 0..ValueBits /\ cover[m][end[m]] # {}
      BY <1>1, <1>3, <1>5, <2>2
    <2>4. PICK c : c = TheOne(cover[m][end[m]])
      OBVIOUS
    <2>5. end[k] = c.cut
      BY <2>2, <2>3, <2>4 DEF GoesBack
    <2>6. c.cut \in 0..ValueBits /\ cover[m - 1][c.cut] # {}
      <3>1. m \in 1..MaxSections
        BY <1>1
      <3>2. PICK last \in 0..ValueBits : last = end[m]
        BY <2>3
      <3>. QED
        BY <2>3, <2>4, <3>1, <3>2, CellBefore
    <2>7. end[k] \in 0..N /\ cover[k][end[k]] # {}
      BY <1>1, <2>2, <2>5, <2>6
    <2>. QED
      BY <1>3, <2>1, <2>2, <2>7
  <1>6. 0..(n - 1) \subseteq S
    BY <1>2, <1>4, <1>5, IntervalInduction
  <1>7. ASSUME NEW k \in 1..n
        PROVE  end[k] \in 0..N /\ cover[k][end[k]] # {}
    <2>1. PICK i \in 0..(n - 1) : i = n - k /\ k = n - i
      BY <1>2
    <2>2. i \in S
      BY <1>6
    <2>. QED
      BY <1>3, <2>1, <2>2
  <1>. QED
    BY <1>1, <1>7

\* The segments traced back are a way through the bits that costs what the last cell says.
IsTrace(segments, t, n) ==
    /\ DOMAIN segments = 1..n /\ segments = [k \in 1..n |-> segments[k]]
    /\ \A k \in 1..n : segments[k].from = t[k - 1] /\ segments[k].to = t[k] - 1

LEMMA EndExists ==
    ASSUME Solvable, NEW cover, Table(cover), NEW n \in 1..MaxSections, cover[n][ValueBits] # {}
    PROVE  \E end : end = [k \in 1..n |->
               IF k = n THEN ValueBits ELSE TheOne(cover[k + 1][end[k + 1]]).cut]
  <1>1. PICK M \in Nat \ {0}, N \in Nat \ {0} : M = MaxSections /\ N = ValueBits
    BY WidthTypes DEF Solvable
  <1>2. n \in Nat \ {0} /\ n <= M /\ n - 1 \in Nat
    BY <1>1
  <1>3. PICK V : V = 0..N /\ N \in V /\ 0 \in V
    OBVIOUS
  <1>4. PICK step : step = [p \in (1..(n - 1)) \X V |->
                              IF cover[n - p[1] + 1][p[2]] # {}
                              THEN TheOne(cover[n - p[1] + 1][p[2]]).cut ELSE 0]
    OBVIOUS
  <1>5. step \in [(1..(n - 1)) \X V -> V]
    <2>1. ASSUME NEW p \in (1..(n - 1)) \X V, cover[n - p[1] + 1][p[2]] # {}
          PROVE  TheOne(cover[n - p[1] + 1][p[2]]).cut \in V
      <3>1. n - p[1] + 1 \in 1..M /\ p[2] \in 0..N
        BY <1>2, <1>3
      <3>2. PICK m, i, c :
               m \in 1..MaxSections /\ i \in 0..ValueBits /\ m = n - p[1] + 1 /\ i = p[2] /\ c = TheOne(cover[m][i])
        BY <1>1, <3>1
      <3>3. cover[m][i] # {}
        BY <2>1, <3>2
      <3>4. c.cut \in 0..ValueBits
        BY <3>2, <3>3, CellBefore
      <3>. QED
        BY <1>1, <1>3, <3>2, <3>4
    <2>. QED
      BY <1>3, <1>4, <2>1
  <1>6. PICK g \in [0..(n - 1) -> V] : FromZero(g, n - 1, N, step)
    BY <1>2, <1>3, <1>5, RecursionFromZero, Zenon
  <1>7. PICK end : end = [k \in 1..n |-> g[n - k]]
    OBVIOUS
  <1>8. end[n] = ValueBits
    <2>1. n \in 1..n /\ n - n = 0
      BY <1>2
    <2>2. g[0] = N
      BY <1>6 DEF FromZero
    <2>. QED
      BY <1>1, <1>7, <2>1, <2>2
  <1>9. ASSUME NEW k \in 1..(n - 1), cover[k + 1][end[k + 1]] # {}
        PROVE  end[k] = TheOne(cover[k + 1][end[k + 1]]).cut
    <2>1. PICK i \in 1..(n - 1) : i = n - k /\ i - 1 = n - (k + 1) /\ k + 1 = n - i + 1
      BY <1>2
    <2>2. k \in 1..n /\ k + 1 \in 1..n /\ i - 1 \in 0..(n - 1)
      BY <1>2, <2>1
    <2>3. end[k] = g[i] /\ end[k + 1] = g[i - 1] /\ g[i - 1] \in V
      BY <1>7, <2>1, <2>2
    <2>4. g[i] = step[<<i, g[i - 1]>>]
      BY <1>6 DEF FromZero
    <2>5. step[<<i, g[i - 1]>>] = TheOne(cover[n - i + 1][g[i - 1]]).cut
      <3>1. <<i, g[i - 1]>> \in (1..(n - 1)) \X V
        BY <2>3
      <3>2. cover[n - i + 1][g[i - 1]] # {}
        BY <1>9, <2>1, <2>3
      <3>. QED
        BY <1>4, <3>1, <3>2
    <2>. QED
      BY <2>1, <2>3, <2>4, <2>5
  <1>10. \A k \in 1..n : end[k] \in 0..ValueBits /\ cover[k][end[k]] # {}
    <2>1. GoesBack(end, cover, n)
      BY <1>8, <1>9 DEF GoesBack
    <2>. QED
      BY <2>1, Backwards
  <1>11. end = [k \in 1..n |->
               IF k = n THEN ValueBits ELSE TheOne(cover[k + 1][end[k + 1]]).cut]
    <2>1. PICK h : h = [k \in 1..n |->
               IF k = n THEN ValueBits ELSE TheOne(cover[k + 1][end[k + 1]]).cut]
      OBVIOUS
    <2>2. ASSUME NEW k \in 1..n
          PROVE  h[k] = end[k]
      <3>1. CASE k = n
        BY <1>8, <2>1, <3>1
      <3>2. CASE k # n
        <4>1. k \in 1..(n - 1) /\ k + 1 \in 1..n
          BY <1>2, <3>2
        <4>2. end[k] = TheOne(cover[k + 1][end[k + 1]]).cut
          BY <1>9, <1>10, <4>1
        <4>. QED
          BY <2>1, <3>2, <4>2
      <3>. QED
        BY <3>1, <3>2
    <2>3. end = [k \in 1..n |-> end[k]]
      BY <1>7
    <2>4. end = h
      BY <2>1, <2>2, <2>3, Zenon
    <2>. QED
      BY <2>1, <2>4
  <1>. QED
    BY <1>11

LEMMA TracedIs ==
    ASSUME Solvable, NEW cover, Table(cover), NEW n \in 1..MaxSections, cover[n][ValueBits] # {}
    PROVE  \E t, w : /\ DOMAIN t = 0..n /\ PathCosts(t, w, n) /\ t[n] = ValueBits
                     /\ w[n] = TheOne(cover[n][ValueBits]).cost
                     /\ IsTrace(Traced(cover, n), t, n)
  <1>. DEFINE end == CHOOSE end : end = [k \in 1..n |->
               IF k = n THEN ValueBits ELSE TheOne(cover[k + 1][end[k + 1]]).cut]
  <1>1. end = [k \in 1..n |->
               IF k = n THEN ValueBits ELSE TheOne(cover[k + 1][end[k + 1]]).cut]
    <2>1. \E e : e = [k \in 1..n |->
               IF k = n THEN ValueBits ELSE TheOne(cover[k + 1][e[k + 1]]).cut]
      BY EndExists, SMTT(30)
    <2>. QED
      BY <2>1, Zenon
  <1>. DEFINE seg == [k \in 1..n |->
           [from |-> TheOne(cover[k][end[k]]).cut, to |-> end[k] - 1,
            scheme |-> TheOne(ScoredAs(TheOne(cover[k][end[k]]).cut, end[k] - 1)).scheme]]
  <1>2. Traced(cover, n) = seg
    BY Zenon DEF Traced
  <1>. HIDE DEF end
  <1>3. \A k \in 1..n : seg[k].from = TheOne(cover[k][end[k]]).cut /\ seg[k].to = end[k] - 1
    OBVIOUS
  <1>4. DOMAIN seg = 1..n /\ seg = [k \in 1..n |-> seg[k]]
    OBVIOUS
  <1>. HIDE DEF seg
  <1>5. PICK M \in Nat \ {0}, N \in Nat \ {0} : M = MaxSections /\ N = ValueBits
    BY WidthTypes DEF Solvable
  <1>6. n \in Nat \ {0} /\ n <= M
    BY <1>5
  <1>7. end[n] = ValueBits
    <2>1. n \in 1..n
      BY <1>6
    <2>. QED
      BY <1>1, <2>1, Zenon
  <1>8. \A k \in 1..(n - 1) : end[k] = TheOne(cover[k + 1][end[k + 1]]).cut
    <2>1. \A k \in 1..(n - 1) : k \in 1..n /\ k # n
      BY <1>6
    <2>. QED
      BY <1>1, <2>1, Zenon
  <1>9. \A k \in 1..n : end[k] \in 0..ValueBits /\ cover[k][end[k]] # {}
    <2>1. GoesBack(end, cover, n)
      BY <1>7, <1>8 DEF GoesBack
    <2>. QED
      BY <2>1, Backwards
  <1>10. PICK t : t = [k \in 0..n |-> IF k = 0 THEN 0 ELSE end[k]]
    OBVIOUS
  <1>11. PICK w : w = [k \in 0..n |-> IF k = 0 THEN 0 ELSE TheOne(cover[k][end[k]]).cost]
    OBVIOUS
  <1>12. t[0] = 0 /\ w[0] = 0 /\ DOMAIN t = 0..n
    BY <1>6, <1>10, <1>11
  <1>13. \A k \in 1..n : t[k] = end[k] /\ w[k] = TheOne(cover[k][end[k]]).cost
    BY <1>6, <1>10, <1>11
  <1>14. ASSUME NEW k \in 1..n
         PROVE  /\ seg[k].from = t[k - 1] /\ seg[k].to = t[k] - 1
                /\ t[k] \in 0..ValueBits /\ Allowed(t[k - 1], t[k] - 1) /\ w[k] \in Int
                /\ \E s \in ScoredAs(t[k - 1], t[k] - 1) : w[k] = w[k - 1] + s.cost + Penalty(k)
    <2>1. PICK c, i : c = TheOne(cover[k][end[k]]) /\ i = end[k]
      OBVIOUS
    <2>2. k \in 1..MaxSections /\ i \in 0..ValueBits /\ cover[k][i] # {} /\ c = TheOne(cover[k][i])
      BY <1>5, <1>6, <1>9, <2>1
    <2>3. /\ c.cut \in 0..ValueBits /\ c.cost \in Int /\ Allowed(c.cut, i - 1)
          /\ cover[k - 1][c.cut] # {}
          /\ \E last \in ScoredAs(c.cut, i - 1) :
                c.cost = TheOne(cover[k - 1][c.cut]).cost + last.cost + Penalty(k)
      BY <2>2, CellBefore
    <2>4. c.cut = t[k - 1] /\ w[k - 1] = TheOne(cover[k - 1][c.cut]).cost
      <3>1. CASE k = 1
        <4>1. k - 1 = 0
          BY <3>1
        <4>2. c.cut = 0
          <5>1. c.cut \notin 1..ValueBits
            BY <2>3, <4>1 DEF Table
          <5>. QED
            BY <1>5, <2>3, <5>1
        <4>3. cover[0][0] = {NoBits} /\ IsCell(cover[0][0])
          <5>1. 0 \in 0..MaxSections /\ 0 \in 0..ValueBits
            BY <1>5
          <5>. QED
            BY <5>1, Zenon DEF Table
        <4>4. TheOne(cover[0][0]) = NoBits
          <5>1. NoBits \in cover[0][0]
            BY <4>3
          <5>. QED
            BY <4>3, <5>1, TheOneIs
        <4>5. NoBits.cost = 0
          BY DEF NoBits
        <4>. QED
          BY <1>12, <4>1, <4>2, <4>4, <4>5
      <3>2. CASE k # 1
        <4>1. PICK j \in 1..(n - 1) : j = k - 1 /\ j + 1 = k
          BY <1>6, <3>2
        <4>2. j \in 1..n
          BY <1>6
        <4>3. end[j] = c.cut
          BY <1>8, <2>1, <4>1
        <4>4. t[j] = end[j] /\ w[j] = TheOne(cover[j][end[j]]).cost
          BY <1>13, <4>2
        <4>. QED
          BY <4>1, <4>3, <4>4
      <3>. QED
        BY <3>1, <3>2
    <2>5. t[k] = i /\ w[k] = c.cost /\ seg[k].from = c.cut /\ seg[k].to = i - 1
      BY <1>3, <1>13, <2>1
    <2>. QED
      BY <2>2, <2>3, <2>4, <2>5
  <1>15. PathCosts(t, w, n)
    BY <1>12, <1>14 DEF PathCosts
  <1>16. n \in 1..n
    BY <1>6
  <1>17. t[n] = ValueBits /\ w[n] = TheOne(cover[n][ValueBits]).cost
    BY <1>7, <1>13, <1>16
  <1>18. IsTrace(Traced(cover, n), t, n)
    BY <1>2, <1>4, <1>14 DEF IsTrace
  <1>. QED
    BY <1>12, <1>15, <1>17, <1>18
\* The segments of a way through the bits tile the value, within the widths.
LEMMA PathTiles ==
    ASSUME Solvable, NEW n \in 1..MaxSections, NEW t, NEW w, PathCosts(t, w, n), t[n] = ValueBits,
           NEW segments, IsTrace(segments, t, n)
    PROVE  /\ Tiles(segments) /\ Ranged(segments) /\ Len(segments) = n
           /\ \A k \in DOMAIN segments : WidthOf(segments[k]) \in MinWidth..MaxWidth
  <1>1. PICK M \in Nat \ {0}, N \in Nat \ {0} : M = MaxSections /\ N = ValueBits
    BY WidthTypes DEF Solvable
  <1>2. n \in Nat \ {0} /\ n <= M
    BY <1>1
  <1>3. /\ DOMAIN segments = 1..n
        /\ \A k \in 1..n : segments[k].from = t[k - 1] /\ segments[k].to = t[k] - 1
    BY DEF IsTrace
  <1>4. Len(segments) = n /\ segments # <<>>
    <2>1. PICK S : S = {segments[k] : k \in 1..n}
      OBVIOUS
    <2>2. segments \in [1..n -> S]
      BY <2>1 DEF IsTrace
    <2>3. segments \in Seq(S) /\ Len(segments) = n
      BY <1>2, <2>2, ASequence
    <2>. QED
      BY <1>2, <2>3
  <1>5. ASSUME NEW k \in 1..n
        PROVE  t[k] \in 0..N /\ t[k - 1] \in Nat /\ t[k - 1] < t[k] /\ t[k] - t[k - 1] \in MinWidth..MaxWidth
    <2>1. t[k] \in 0..ValueBits /\ Allowed(t[k - 1], t[k] - 1)
      BY DEF PathCosts
    <2>. QED
      BY <1>1, <2>1, AllowedIs DEF Solvable
  <1>6. ASSUME NEW k \in 1..n
        PROVE  /\ segments[k].from <= segments[k].to
               /\ segments[k].from = (IF k = 1 THEN 0 ELSE segments[k - 1].to + 1)
               /\ WidthOf(segments[k]) \in MinWidth..MaxWidth
    <2>1. PICK a \in Nat, b \in Nat : a = t[k - 1] /\ b = t[k] /\ a < b
      BY <1>5
    <2>2. segments[k].from = a /\ segments[k].to = b - 1
      BY <1>3, <2>1
    <2>3. WidthOf(segments[k]) \in MinWidth..MaxWidth
      <3>1. WidthOf(segments[k]) = b - a
        BY <2>1, <2>2 DEF WidthOf
      <3>. QED
        BY <1>5, <2>1, <3>1
    <2>4. CASE k = 1
      <3>1. a = 0
        BY <2>1, <2>4 DEF PathCosts
      <3>. QED
        BY <2>1, <2>2, <2>3, <2>4, <3>1
    <2>5. CASE k # 1
      <3>1. k - 1 \in 1..n
        BY <2>5
      <3>2. segments[k - 1].to = a - 1
        BY <1>3, <2>1, <3>1
      <3>. QED
        BY <2>1, <2>2, <2>3, <2>5, <3>2
    <2>. QED
      BY <2>4, <2>5
  <1>7. segments[n].to = ValueBits - 1
    <2>1. n \in 1..n
      BY <1>2
    <2>. QED
      BY <1>3, <2>1
  <1>8. Ranged(segments)
    <2>1. ASSUME NEW k \in 1..n
          PROVE  segments[k].from \in Nat /\ segments[k].to \in Nat
      <3>1. PICK a \in Nat, b \in Nat : a = t[k - 1] /\ b = t[k] /\ a < b
        BY <1>5
      <3>2. segments[k].from = a /\ segments[k].to = b - 1
        BY <1>3, <3>1
      <3>. QED
        BY <3>1, <3>2
    <2>. QED
      BY <1>3, <1>4, <2>1 DEF Ranged
  <1>. QED
    BY <1>3, <1>4, <1>6, <1>7, <1>8 DEF Tiles

\* The fallback tiles the value, in sections of the greatest width at most.
LEMMA FallbackTiles ==
    ASSUME config \in Configs
    PROVE  /\ Tiles(Fallback.segments) /\ Ranged(Fallback.segments) /\ Len(Fallback.segments) \in Nat
           /\ \A k \in DOMAIN Fallback.segments : WidthOf(Fallback.segments[k]) <= MaxWidth
           /\ Fallback.fallback = TRUE /\ Fallback.cost = 0
  <1>1. PICK W \in Nat \ {0}, N \in Nat \ {0} : W = MaxWidth /\ N = ValueBits
    BY WidthTypes
  <1>2. PICK n \in Nat, x \in 0..(W - 1) : N + W - 1 = n * W + x /\ (N + W - 1) \div W = n
    <2>1. N + W - 1 \in Nat
      BY <1>1
    <2>2. PICK a \in Nat : a = N + W - 1
      BY <2>1
    <2>3. \E q \in Nat : \E y \in 0..(W - 1) : a = q * W + y /\ a \div W = q /\ a % W = y
      BY <1>1, Divided, Zenon
    <2>. QED
      BY <2>2, <2>3
  <1>3. n * W >= N /\ n * W < N + W
    <2>1. PICK p \in Nat : p = n * W
      OBVIOUS
    <2>2. N + W - 1 = p + x
      BY <1>2, <2>1
    <2>. QED
      BY <2>1, <2>2
  <1>4. n >= 1 /\ (n - 1) * W < N
    <2>1. n # 0
      <3>1. n = 0 => n * W = 0
        OBVIOUS
      <3>. QED
        BY <1>1, <1>3, <3>1
    <2>2. (n - 1) * W = n * W - W
      OBVIOUS
    <2>3. PICK p \in Nat : p = n * W
      OBVIOUS
    <2>. QED
      BY <1>3, <2>1, <2>2, <2>3
  <1>5. PICK g : g = [k \in 1..n |->
                  [from |-> (k - 1) * W, to |-> AtMost(k * W, N) - 1, scheme |-> "UNCOMPRESSED"]]
    OBVIOUS
  <1>6. Fallback.segments = g /\ Fallback.fallback = TRUE /\ Fallback.cost = 0
    BY <1>1, <1>2, <1>5 DEF Fallback
  <1>7. Len(g) = n /\ g # <<>> /\ DOMAIN g = 1..n
    <2>1. PICK S : S = {g[k] : k \in 1..n}
      OBVIOUS
    <2>2. g \in [1..n -> S]
      BY <1>5, <2>1
    <2>3. g \in Seq(S) /\ Len(g) = n
      BY <2>2, ASequence
    <2>4. n # 0 /\ DOMAIN g = 1..n
      BY <1>4, <1>5
    <2>. QED
      BY <2>3, <2>4
  <1>8. \A k \in 1..n : g[k].from = (k - 1) * W /\ g[k].to = AtMost(k * W, N) - 1
    BY <1>5
  <1>9. ASSUME NEW k \in 1..n
        PROVE  /\ g[k].from \in Nat /\ g[k].to \in Nat
               /\ g[k].from <= g[k].to /\ WidthOf(g[k]) <= W
               /\ g[k].from = (IF k = 1 THEN 0 ELSE g[k - 1].to + 1)
               /\ k < n => k * W <= N
               /\ k = n => g[k].to = N - 1
    <2>1. PICK a \in Nat : a = (k - 1) * W /\ k * W = a + W
      OBVIOUS
    <2>2. a < N
      <3>1. PICK d \in Nat : d = n - k
        OBVIOUS
      <3>2. (n - 1) * W = a + d * W
        BY <2>1, <3>1, Z3
      <3>3. d * W \in Nat
        BY <1>1
      <3>4. PICK p \in Nat : p = d * W
        BY <3>3
      <3>. QED
        BY <1>4, <2>1, <3>2, <3>4
    <2>3. k < n => a + W <= N
      <3>. SUFFICES ASSUME k < n PROVE a + W <= N
        OBVIOUS
      <3>1. PICK d \in Nat : d = (n - 1) - k
        OBVIOUS
      <3>2. (n - 1) * W = (a + W) + d * W
        BY <2>1, <3>1, Z3
      <3>3. PICK p \in Nat : p = d * W
        BY <1>1
      <3>. QED
        BY <1>1, <1>4, <2>1, <3>2, <3>3
    <2>4. k = n => a + W >= N
      <3>1. k = n => n * W = a + W
        BY <2>1
      <3>2. PICK p \in Nat : p = n * W
        OBVIOUS
      <3>. QED
        BY <1>1, <1>3, <2>1, <3>1, <3>2
    <2>5. g[k].from = a /\ g[k].to = (IF a + W <= N THEN a + W ELSE N) - 1
      BY <1>8, <2>1 DEF AtMost
    <2>6. /\ g[k].from \in Nat /\ g[k].to \in Nat
          /\ g[k].from <= g[k].to /\ WidthOf(g[k]) <= W /\ (k = n => g[k].to = N - 1)
      <3>1. PICK e \in Int : e = g[k].to /\ e = (IF a + W <= N THEN a + W ELSE N) - 1
        BY <1>1, <2>1, <2>5
      <3>2. WidthOf(g[k]) = e - a + 1
        BY <2>5, <3>1 DEF WidthOf
      <3>3. a <= e /\ e - a + 1 <= W /\ (k = n => e = N - 1)
        BY <1>1, <2>1, <2>2, <2>4, <3>1
      <3>. QED
        BY <2>5, <3>1, <3>2, <3>3
    <2>7. g[k].from = (IF k = 1 THEN 0 ELSE g[k - 1].to + 1)
      <3>1. CASE k = 1
        BY <2>1, <2>5, <3>1
      <3>2. CASE k # 1
        <4>1. k - 1 \in 1..n /\ a < N
          BY <2>2, <3>2
        <4>2. g[k - 1].to = AtMost(a, N) - 1
          BY <1>8, <2>1, <4>1
        <4>. QED
          BY <2>1, <2>5, <3>2, <4>1, <4>2 DEF AtMost
      <3>. QED
        BY <3>1, <3>2
    <2>. QED
      BY <2>1, <2>3, <2>6, <2>7
  <1>10. Tiles(g)
    <2>1. g[n].to = ValueBits - 1
      <3>1. n \in 1..n
        BY <1>4
      <3>. QED
        BY <1>1, <1>9, <3>1
    <2>. QED
      BY <1>7, <1>9, <2>1 DEF Tiles
  <1>11. Ranged(g)
    BY <1>7, <1>9 DEF Ranged
  <1>. QED
    BY <1>1, <1>6, <1>7, <1>9, <1>10, <1>11
---------------------------------------------------------------------------
(* What a tiling costs *)

LEMMA TilingCostIs ==
    ASSUME NEW n \in Nat \ {0}, NEW t, DOMAIN t = 0..n, NEW c \in [1..n -> Nat],
           \A k \in 1..n : c[k] = TheOne(RangeScore(t[k - 1], t[k] - 1)).cost,
           NEW total, RunningSum(c, n, total)
    PROVE  TilingCost(t) = total[n] + config.splitPenalty * Len(samples) * (n - 1)
  <1>. DEFINE Cost(k) == TheOne(RangeScore(t[k - 1], t[k] - 1)).cost
              Fold(f) == f = [z \in SUBSET (1..n) |->
                                IF z = {} THEN 0
                                ELSE Cost(CHOOSE x \in z : TRUE) + f[z \ {CHOOSE x \in z : TRUE}]]
              fold == CHOOSE f : Fold(f)
  <1>1. Cardinality(DOMAIN t) - 1 = n
    <2>1. Cardinality(0..n) = n - 0 + 1
      BY FS_Interval
    <2>. QED
      BY <2>1
  <1>2. TilingCost(t) = fold[1..n] + config.splitPenalty * Len(samples) * (n - 1)
    BY <1>1, Zenon DEF TilingCost, MapThenSumSet, MapThenFoldSet
  <1>3. \A k \in 1..n : Cost(k) = c[k]
    OBVIOUS
  <1>. HIDE DEF Cost
  <1>4. \A z \in SUBSET (1..n) : z # {} => Cost(CHOOSE x \in z : TRUE) = c[CHOOSE x \in z : TRUE]
    <2>1. \A z \in SUBSET (1..n) : z # {} => (CHOOSE x \in z : TRUE) \in 1..n
      OBVIOUS
    <2>. QED
      BY <1>3, <2>1, Zenon
  <1>5. PICK sum : sum = [z \in SUBSET (1..n) |->
                             IF z = {} THEN 0
                             ELSE c[CHOOSE x \in z : TRUE] + sum[z \ {CHOOSE x \in z : TRUE}]]
    BY FoldExists, Zenon
  <1>6. Fold(sum)
    <2>1. PICK h : h = [z \in SUBSET (1..n) |->
                          IF z = {} THEN 0
                          ELSE Cost(CHOOSE x \in z : TRUE) + sum[z \ {CHOOSE x \in z : TRUE}]]
      OBVIOUS
    <2>2. ASSUME NEW z \in SUBSET (1..n)
          PROVE  sum[z] = h[z]
      <3>1. CASE z = {}
        <4>1. sum[z] = 0 /\ h[z] = 0
          BY <1>5, <2>1, <3>1, Zenon
        <4>. QED
          BY <4>1
      <3>2. CASE z # {}
        <4>1. Cost(CHOOSE x \in z : TRUE) = c[CHOOSE x \in z : TRUE]
          BY <1>4, <3>2, Zenon
        <4>2. sum[z] = c[CHOOSE x \in z : TRUE] + sum[z \ {CHOOSE x \in z : TRUE}]
          BY <1>5, <3>2, Zenon
        <4>3. h[z] = Cost(CHOOSE x \in z : TRUE) + sum[z \ {CHOOSE x \in z : TRUE}]
          BY <2>1, <3>2, Zenon
        <4>. QED
          BY <4>1, <4>2, <4>3, Zenon
      <3>. QED
        BY <3>1, <3>2
    <2>3. sum = h
      BY <1>5, <2>1, <2>2, Zenon
    <2>. QED
      BY <2>1, <2>3, Zenon
  <1>7. Fold(fold)
    <2>. HIDE DEF Fold
    <2>. QED
      BY <1>6, Zenon
  <1>. HIDE DEF fold
  <1>8. SumsTo(c, n, fold)
    <2>1. ASSUME NEW z \in SUBSET (1..n)
          PROVE  fold[z] = IF z = {} THEN 0
                           ELSE c[CHOOSE x \in z : TRUE] + fold[z \ {CHOOSE x \in z : TRUE}]
      <3>1. fold[z] = IF z = {} THEN 0
                      ELSE Cost(CHOOSE x \in z : TRUE) + fold[z \ {CHOOSE x \in z : TRUE}]
        BY <1>7, Zenon
      <3>2. CASE z = {}
        BY <3>1, <3>2, Zenon
      <3>3. CASE z # {}
        <4>1. Cost(CHOOSE x \in z : TRUE) = c[CHOOSE x \in z : TRUE]
          BY <1>4, <3>3, Zenon
        <4>2. fold[z] = Cost(CHOOSE x \in z : TRUE) + fold[z \ {CHOOSE x \in z : TRUE}]
          BY <3>1, <3>3, Zenon
        <4>. QED
          BY <3>3, <4>1, <4>2, Zenon
      <3>. QED
        BY <3>2, <3>3
    <2>. QED
      BY <2>1, Zenon DEF SumsTo
  <1>9. fold[1..n] = total[n]
    BY <1>8, FoldIsSum
  <1>. QED
    BY <1>2, <1>9, Zenon
LEMMA TimesNext ==
    ASSUME NEW a \in Int, NEW b \in Int
    PROVE  a * (b + 1) = a * b + a /\ a * b \in Int /\ a * 0 = 0
  OBVIOUS

\* The costs of a way through the bits add up to those of the tiling.
LEMMA PathCostIs ==
    ASSUME Solvable, NEW n \in 1..MaxSections, NEW t, DOMAIN t = 0..n, NEW w, PathCosts(t, w, n)
    PROVE  w[n] = TilingCost(t)
  <1>1. n \in Nat \ {0}
    BY WidthTypes DEF Solvable
  <1>2. PICK c : c = [k \in 1..n |-> TheOne(RangeScore(t[k - 1], t[k] - 1)).cost]
    OBVIOUS
  <1>3. ASSUME NEW k \in 1..n
        PROVE  c[k] \in Nat /\ w[k] = w[k - 1] + c[k] + Penalty(k) /\ w[k] \in Int
    <2>1. /\ t[k] \in 0..ValueBits /\ Allowed(t[k - 1], t[k] - 1) /\ w[k] \in Int
          /\ \E s \in ScoredAs(t[k - 1], t[k] - 1) : w[k] = w[k - 1] + s.cost + Penalty(k)
      BY DEF PathCosts
    <2>2. PICK s \in ScoredAs(t[k - 1], t[k] - 1) : w[k] = w[k - 1] + s.cost + Penalty(k)
      BY <2>1
    <2>3. /\ ScoredAs(t[k - 1], t[k] - 1) = RangeScore(t[k - 1], t[k] - 1)
          /\ s.cost \in Nat /\ ScoredAs(t[k - 1], t[k] - 1) = {s}
      BY <2>1, ScoredAsIs
    <2>4. TheOne(RangeScore(t[k - 1], t[k] - 1)) = s
      <3>1. TheOne({s}) \in {s}
        BY Zenon DEF TheOne
      <3>. QED
        BY <2>3, <3>1
    <2>5. c[k] = s.cost
      BY <1>2, <2>4
    <2>. QED
      BY <2>1, <2>2, <2>3, <2>5
  <1>4. c \in [1..n -> Nat]
    BY <1>2, <1>3
  <1>5. PICK total : RunningSum(c, n, total)
    BY <1>1, <1>4, RunningSumExists
  <1>6. PICK P \in Int : P = config.splitPenalty * Len(samples)
    <2>1. config.splitPenalty \in Int /\ Len(samples) \in Int
      BY PlannerAssumption DEF Solvable
    <2>. QED
      BY <2>1
  <1>7. PICK S : S = {k \in 0..n : w[k] = total[k] + (IF k = 0 THEN 0 ELSE P * (k - 1))}
    OBVIOUS
  <1>8. 0 \in S
    <2>1. total[0] = 0 /\ w[0] = 0 /\ 0 \in 0..n
      BY <1>1, <1>5 DEF RunningSum, PathCosts
    <2>. QED
      BY <1>7, <2>1
  <1>9. ASSUME NEW k \in 0..(n - 1), k \in S
        PROVE  k + 1 \in S
    <2>1. PICK m \in 1..n : m = k + 1 /\ m - 1 = k /\ k \in 0..n /\ m \in 0..n /\ m # 0
      BY <1>1
    <2>2. w[k] = total[k] + (IF k = 0 THEN 0 ELSE P * (k - 1))
      BY <1>7, <1>9
    <2>3. PICK a \in Nat, b \in Nat : a = total[k] /\ b = c[m] /\ total[m] = a + b
      BY <1>4, <1>5, <2>1, SMTT(30) DEF RunningSum
    <2>4. w[m] = w[k] + b + Penalty(m)
      BY <1>3, <2>1, <2>3
    <2>5. w[m] = total[m] + P * (m - 1)
      <3>1. CASE k = 0
        <4>1. Penalty(m) = 0
          BY <2>1, <3>1 DEF Penalty
        <4>2. w[k] = a
          BY <2>2, <2>3, <3>1
        <4>3. P * (m - 1) = 0
          BY <1>6, <2>1, <3>1
        <4>. QED
          BY <2>3, <2>4, <4>1, <4>2, <4>3
      <3>2. CASE k # 0
        <4>1. Penalty(m) = P
          BY <1>6, <2>1, <3>2 DEF Penalty
        <4>2. PICK y \in Int : y = k - 1 /\ m - 1 = y + 1
          BY <2>1
        <4>3. PICK x \in Int : x = P * y
          OBVIOUS
        <4>4. P * (m - 1) = x + P
          BY <4>2, <4>3, TimesNext
        <4>5. w[k] = a + x
          BY <2>2, <2>3, <3>2, <4>2, <4>3
        <4>6. w[m] = a + x + b + P
          BY <2>4, <4>1, <4>5
        <4>7. total[m] + P * (m - 1) = a + b + (x + P)
          BY <2>3, <4>4
        <4>. QED
          BY <4>6, <4>7
      <3>. QED
        BY <3>1, <3>2
    <2>. QED
      BY <1>7, <2>1, <2>5
  <1>10. 0..n \subseteq S
    BY <1>1, <1>8, <1>9, IntervalInduction
  <1>11. w[n] = total[n] + P * (n - 1)
    BY <1>1, <1>7, <1>10
  <1>12. TilingCost(t) = total[n] + config.splitPenalty * Len(samples) * (n - 1)
    BY <1>1, <1>2, <1>4, <1>5, TilingCostIs
  <1>. QED
    BY <1>6, <1>11, <1>12

\* Every tiling the settings allow is a way through the bits.
LEMMA TilingIsPath ==
    ASSUME Solvable, NEW t \in Tilings
    PROVE  \E n \in 1..MaxSections : \E w :
              DOMAIN t = 0..n /\ t[n] = ValueBits /\ PathCosts(t, w, n)
  <1>1. PICK M \in Nat \ {0}, N \in Nat \ {0} : M = MaxSections /\ N = ValueBits
    BY WidthTypes DEF Solvable
  <1>2. PICK n \in 1..AtMost(M, N) : t \in [0..n -> 0..N]
    BY <1>1 DEF Tilings
  <1>3. n \in Nat \ {0} /\ n <= M
    BY <1>1, <1>2 DEF AtMost
  <1>4. Cardinality(DOMAIN t) - 1 = n
    <2>1. Cardinality(0..n) = n - 0 + 1
      BY <1>3, FS_Interval
    <2>. QED
      BY <1>2, <1>3, <2>1
  <1>5. /\ t[0] = 0 /\ t[n] = N
        /\ \A k \in 1..n : t[k] - t[k - 1] \in MinWidth..MaxWidth /\ RangeScore(t[k - 1], t[k] - 1) # {}
    BY <1>1, <1>4 DEF Tilings
  <1>6. ASSUME NEW k \in 1..n
        PROVE  /\ t[k] \in 0..N /\ Allowed(t[k - 1], t[k] - 1)
               /\ ScoredAs(t[k - 1], t[k] - 1) = RangeScore(t[k - 1], t[k] - 1)
    <2>1. k \in 0..n /\ k - 1 \in 0..n
      BY <1>3
    <2>2. PICK a \in 0..N, b \in 0..N : a = t[k - 1] /\ b = t[k]
      BY <1>2, <2>1
    <2>3. b - a \in MinWidth..MaxWidth
      BY <1>5, <2>2
    <2>4. MinWidth \in Nat /\ MinWidth >= 1 /\ MaxWidth \in Nat
      BY WidthTypes DEF Solvable
    <2>5. Allowed(a, b - 1)
      BY <1>1, <2>2, <2>3, <2>4 DEF Allowed, Bits
    <2>6. ScoredAs(a, b - 1) = RangeScore(a, b - 1)
      BY <1>1, <2>5, ScoredAsIs
    <2>. QED
      BY <2>2, <2>5, <2>6
  <1>7. PICK c : c = [k \in 1..n |-> TheOne(RangeScore(t[k - 1], t[k] - 1)).cost]
    OBVIOUS
  <1>8. ASSUME NEW k \in 1..n
        PROVE  \E s \in ScoredAs(t[k - 1], t[k] - 1) : c[k] = s.cost /\ c[k] \in Nat
    <2>1. PICK s : s = TheOne(RangeScore(t[k - 1], t[k] - 1))
      OBVIOUS
    <2>2. s \in ScoredAs(t[k - 1], t[k] - 1)
      <3>1. RangeScore(t[k - 1], t[k] - 1) # {}
        BY <1>5
      <3>2. s \in RangeScore(t[k - 1], t[k] - 1)
        BY <2>1, <3>1, Zenon DEF TheOne
      <3>. QED
        BY <1>6, <3>2
    <2>3. s.cost \in Nat
      <3>1. t[k] \in 0..ValueBits /\ Allowed(t[k - 1], t[k] - 1)
        BY <1>1, <1>6
      <3>. QED
        BY <2>2, <3>1, ScoredAsIs
    <2>4. c[k] = s.cost
      BY <1>7, <2>1
    <2>. QED
      BY <2>2, <2>3, <2>4
  <1>9. c \in [1..n -> Nat]
    BY <1>7, <1>8
  <1>10. PICK total : RunningSum(c, n, total)
    BY <1>3, <1>9, RunningSumExists
  <1>11. PICK P \in Int : P = config.splitPenalty * Len(samples)
    <2>1. config.splitPenalty \in Int /\ Len(samples) \in Int
      BY PlannerAssumption DEF Solvable
    <2>. QED
      BY <2>1
  <1>12. PICK w : w = [k \in 0..n |-> IF k = 0 THEN 0 ELSE total[k] + P * (k - 1)]
    OBVIOUS
  <1>13. w[0] = 0
    BY <1>3, <1>12
  <1>14. ASSUME NEW k \in 1..n
         PROVE  w[k] \in Int /\ w[k] = w[k - 1] + c[k] + Penalty(k)
    <2>1. PICK j \in 0..(n - 1) : j = k - 1 /\ k = j + 1 /\ j \in 0..n /\ k \in 0..n /\ k # 0
      BY <1>3
    <2>2. PICK a \in Nat, b \in Nat : a = total[j] /\ b = c[k] /\ total[k] = a + b
      <3>1. total[k] = total[k - 1] + c[k] /\ total \in [0..n -> Nat] /\ c[k] \in Nat
        BY <1>9, <1>10 DEF RunningSum
      <3>2. total[j] \in Nat /\ total[k] = total[j] + c[k]
        BY <2>1, <3>1
      <3>. QED
        BY <3>1, <3>2
    <2>3. PICK x \in Int : x = P * j
      BY <1>11, <2>1
    <2>4. w[k] = a + b + x
      BY <1>12, <2>1, <2>2, <2>3
    <2>5. CASE j = 0
      <3>1. Penalty(k) = 0 /\ x = 0 /\ w[j] = 0 /\ a = 0
        BY <1>10, <1>11, <1>13, <2>1, <2>2, <2>3, <2>5 DEF Penalty, RunningSum
      <3>. QED
        BY <2>1, <2>2, <2>4, <3>1
    <2>6. CASE j # 0
      <3>1. Penalty(k) = P
        BY <1>11, <2>1, <2>6 DEF Penalty
      <3>2. PICK y \in Int : y = j - 1 /\ j = y + 1
        BY <2>1
      <3>3. PICK z \in Int : z = P * y
        OBVIOUS
      <3>4. x = z + P
        BY <2>3, <3>2, <3>3, TimesNext
      <3>5. w[j] = a + z
        BY <1>12, <2>1, <2>2, <2>6, <3>2, <3>3
      <3>6. w[j] + c[k] + Penalty(k) = a + z + b + P
        BY <2>2, <3>1, <3>5
      <3>. QED
        BY <2>1, <2>4, <3>4, <3>6
    <2>. QED
      BY <2>5, <2>6
  <1>15. PathCosts(t, w, n)
    <2>1. \A k \in 1..n : \E s \in ScoredAs(t[k - 1], t[k] - 1) : w[k] = w[k - 1] + s.cost + Penalty(k)
      BY <1>8, <1>14
    <2>. QED
      BY <1>1, <1>5, <1>6, <1>13, <1>14, <2>1 DEF PathCosts
  <1>. QED
    BY <1>1, <1>2, <1>3, <1>5, <1>15

---------------------------------------------------------------------------
(* The plan *)

\* The last bit is reached by the best of the ways through the bits, or there is none.
LEMMA SolvedIs ==
    ASSUME Solvable
    PROVE  \/ Solved = Fallback /\ Tilings = {}
           \/ \E n \in 1..MaxSections : \E t, w :
                 /\ DOMAIN t = 0..n /\ PathCosts(t, w, n) /\ t[n] = ValueBits
                 /\ IsTrace(Solved.segments, t, n)
                 /\ Solved.cost = w[n] /\ Solved.fallback = FALSE
                 /\ \A u \in Tilings : Solved.cost <= TilingCost(u)
  <1>1. PICK M \in Nat \ {0}, N \in Nat \ {0} : M = MaxSections /\ N = ValueBits
    BY WidthTypes DEF Solvable
  <1>2. PICK cover : cover = Cheapest
    OBVIOUS
  <1>3. Table(cover)
    BY <1>2, CheapestIsTable
  <1>. DEFINE Cost(k) == TheOne(cover[k][ValueBits]).cost
  <1>4. PICK found : found = {k \in 1..MaxSections : cover[k][ValueBits] # {}}
    OBVIOUS
  <1>5. PICK least : least = {k \in found : \A j \in found : Cost(k) <= Cost(j)}
    OBVIOUS
  <1>6. PICK best : best = Min(least)
    OBVIOUS
  <1>7. Solved = IF found = {} THEN Fallback
                 ELSE [segments |-> Traced(cover, best), cost |-> Cost(best), fallback |-> FALSE]
    BY <1>2, <1>4, <1>5, <1>6, Zenon DEF Solved
  <1>8. \A k \in found : Cost(k) \in Int
    <2>1. ASSUME NEW k \in found
          PROVE  Cost(k) \in Int
      <3>1. k \in 1..MaxSections /\ cover[k][ValueBits] # {} /\ ValueBits \in 0..ValueBits
        BY <1>1, <1>4
      <3>2. PICK c : c = TheOne(cover[k][ValueBits])
        OBVIOUS
      <3>3. c.cost \in Int
        BY <1>3, <3>1, <3>2, CellBefore
      <3>. QED
        BY <3>2, <3>3
    <2>. QED
      BY <2>1
  <1>9. \A u \in Tilings : \E k \in found : Cost(k) <= TilingCost(u)
    <2>1. ASSUME NEW u \in Tilings
          PROVE  \E k \in found : Cost(k) <= TilingCost(u)
      <3>1. PICK n \in 1..MaxSections : \E w :
                  DOMAIN u = 0..n /\ u[n] = ValueBits /\ PathCosts(u, w, n)
        BY TilingIsPath
      <3>2. PICK w : DOMAIN u = 0..n /\ u[n] = ValueBits /\ PathCosts(u, w, n)
        BY <3>1
      <3>3. n \in 0..MaxSections /\ n \in 0..n /\ ValueBits \in 0..ValueBits
        BY <1>1
      <3>4. PICK c \in cover[n][ValueBits] : c.cost <= w[n]
        <4>1. \A k \in 0..n : \E c \in cover[k][u[k]] : c.cost <= w[k]
          BY <1>3, <3>2, <3>3, Reached
        <4>. QED
          BY <3>2, <3>3, <4>1
      <3>5. IsCell(cover[n][ValueBits])
        BY <1>3, <3>3, Zenon DEF Table
      <3>6. Cost(n) = c.cost
        BY <3>4, <3>5, TheOneIs
      <3>7. w[n] = TilingCost(u)
        BY <3>2, PathCostIs
      <3>8. n \in found
        BY <1>4, <3>4
      <3>. QED
        BY <3>4, <3>6, <3>7, <3>8
    <2>. QED
      BY <2>1
  <1>. HIDE DEF Cost
  <1>10. CASE found = {}
    BY <1>7, <1>9, <1>10
  <1>11. CASE found # {}
    <2>1. best \in found /\ \A j \in found : Cost(best) <= Cost(j)
      <3>1. found \in SUBSET (0..M)
        BY <1>1, <1>4
      <3>2. PICK f : f = [k \in found |-> Cost(k)]
        OBVIOUS
      <3>3. f \in [found -> Int]
        BY <1>8, <3>2
      <3>4. PICK k \in found : \A i \in found : f[k] < f[i] \/ (f[k] = f[i] /\ k <= i)
        BY <1>1, <1>11, <3>1, <3>3, FirstLeast
      <3>5. \A i \in found : Cost(k) <= Cost(i)
        BY <1>8, <3>2, <3>4
      <3>6. k \in least /\ least \subseteq Nat /\ least \in SUBSET Int
        <4>1. least \subseteq found /\ found \subseteq Nat
          BY <1>5, <3>1
        <4>2. k \in least
          BY <1>5, <3>4, <3>5, Zenon
        <4>. QED
          BY <4>1, <4>2
      <3>7. best \in least
        <4>1. PICK m \in least : \A j \in least : m <= j
          BY <3>6, LeastNumber
        <4>2. best = m
          BY <1>6, <3>6, <4>1, MinIs
        <4>. QED
          BY <4>2
      <3>. QED
        BY <1>5, <3>7
    <2>2. best \in 1..MaxSections /\ cover[best][ValueBits] # {}
      BY <1>4, <2>1
    <2>3. PICK t, w : /\ DOMAIN t = 0..best /\ PathCosts(t, w, best) /\ t[best] = ValueBits
                      /\ w[best] = TheOne(cover[best][ValueBits]).cost
                      /\ IsTrace(Traced(cover, best), t, best)
      BY <1>3, <2>2, TracedIs
    <2>4. /\ Solved.segments = Traced(cover, best) /\ Solved.cost = Cost(best)
          /\ Solved.fallback = FALSE
      BY <1>7, <1>11
    <2>5. Cost(best) = w[best]
      BY <2>3 DEF Cost
    <2>6. \A u \in Tilings : Solved.cost <= TilingCost(u)
      <3>1. ASSUME NEW u \in Tilings
            PROVE  Cost(best) <= TilingCost(u)
        <4>1. PICK k \in found : Cost(k) <= TilingCost(u)
          BY <1>9
        <4>2. TilingCost(u) \in Int
          <5>1. PICK n \in 1..MaxSections : \E x :
                  DOMAIN u = 0..n /\ u[n] = ValueBits /\ PathCosts(u, x, n)
            BY TilingIsPath
          <5>2. PICK x : DOMAIN u = 0..n /\ u[n] = ValueBits /\ PathCosts(u, x, n)
            BY <5>1
          <5>3. n \in 1..n
            BY <1>1
          <5>4. x[n] \in Int
            BY <5>2, <5>3 DEF PathCosts
          <5>5. x[n] = TilingCost(u)
            BY <5>2, PathCostIs
          <5>. QED
            BY <5>4, <5>5
        <4>3. Cost(best) <= Cost(k) /\ Cost(best) \in Int /\ Cost(k) \in Int
          BY <1>8, <2>1
        <4>. QED
          BY <4>1, <4>2, <4>3
      <3>. QED
        BY <2>4, <3>1
    <2>. QED
      BY <2>2, <2>3, <2>4, <2>5, <2>6
  <1>. QED
    BY <1>10, <1>11

\* What the planner promises of a plan it made, with nothing forced.
LEMMA SolvedPlan ==
    ASSUME Solvable
    PROVE  /\ Tiles(Solved.segments) /\ Ranged(Solved.segments) /\ Len(Solved.segments) \in Nat
           /\ Solved.fallback \in BOOLEAN
           /\ \A k \in DOMAIN Solved.segments : WidthOf(Solved.segments[k]) <= MaxWidth
           /\ ~Solved.fallback =>
                 /\ Len(Solved.segments) <= MaxSections
                 /\ \A k \in DOMAIN Solved.segments : WidthOf(Solved.segments[k]) >= MinWidth
                 /\ \A u \in Tilings : Solved.cost <= TilingCost(u)
                 /\ Solved.cost = TilingCost([k \in 0..Len(Solved.segments) |->
                                                IF k = 0 THEN 0 ELSE Solved.segments[k].to + 1])
           /\ Solved.fallback => Tilings = {}
  <1>1. MinWidth \in Nat /\ MaxWidth \in Nat /\ MaxSections \in Nat
    BY WidthTypes DEF Solvable
  <1>2. CASE Solved = Fallback /\ Tilings = {}
    BY <1>2, FallbackTiles DEF Solvable
  <1>3. ASSUME NEW n \in 1..MaxSections, NEW t, NEW w,
               DOMAIN t = 0..n, PathCosts(t, w, n), t[n] = ValueBits,
               IsTrace(Solved.segments, t, n),
               Solved.cost = w[n], Solved.fallback = FALSE,
               \A u \in Tilings : Solved.cost <= TilingCost(u)
        PROVE  /\ Tiles(Solved.segments) /\ Ranged(Solved.segments) /\ Len(Solved.segments) \in Nat
               /\ \A k \in DOMAIN Solved.segments : WidthOf(Solved.segments[k]) \in MinWidth..MaxWidth
               /\ Len(Solved.segments) <= MaxSections
               /\ Solved.cost = TilingCost([k \in 0..Len(Solved.segments) |->
                                              IF k = 0 THEN 0 ELSE Solved.segments[k].to + 1])
    <2>1. PICK segments : segments = Solved.segments
      OBVIOUS
    <2>2. /\ Tiles(segments) /\ Ranged(segments) /\ Len(segments) = n
          /\ \A k \in DOMAIN segments : WidthOf(segments[k]) \in MinWidth..MaxWidth
      BY <1>3, <2>1, PathTiles
    <2>3. PICK u : u = [k \in 0..n |-> IF k = 0 THEN 0 ELSE segments[k].to + 1]
      OBVIOUS
    <2>4. \A k \in 0..n : u[k] = t[k]
      <3>1. ASSUME NEW k \in 0..n
            PROVE  u[k] = t[k]
        <4>1. CASE k = 0
          BY <1>3, <2>3, <4>1 DEF PathCosts
        <4>2. CASE k # 0
          <5>1. k \in 1..n
            BY <4>2
          <5>2. segments[k].to = t[k] - 1
            BY <1>3, <2>1, <5>1 DEF IsTrace
          <5>3. t[k] \in Int
            BY <1>3, <5>1 DEF PathCosts
          <5>. QED
            BY <2>3, <4>2, <5>2, <5>3
        <4>. QED
          BY <4>1, <4>2
      <3>. QED
        BY <3>1
    <2>5. PathCosts(u, w, n) /\ DOMAIN u = 0..n
      <3>1. 0 \in 0..n /\ \A k \in 1..n : k \in 0..n /\ k - 1 \in 0..n
        BY <1>1
      <3>. QED
        BY <1>3, <2>3, <2>4, <3>1 DEF PathCosts
    <2>6. w[n] = TilingCost(u)
      BY <2>5, PathCostIs
    <2>7. u = [k \in 0..Len(segments) |-> IF k = 0 THEN 0 ELSE segments[k].to + 1]
      BY <2>2, <2>3
    <2>8. Solved.cost = TilingCost([k \in 0..Len(segments) |-> IF k = 0 THEN 0 ELSE segments[k].to + 1])
      BY <1>3, <2>6, <2>7
    <2>. QED
      BY <1>1, <2>1, <2>2, <2>8
  <1>4. CASE ~(Solved = Fallback /\ Tilings = {})
    <2>1. PICK n \in 1..MaxSections : \E t, w :
                 /\ DOMAIN t = 0..n /\ PathCosts(t, w, n) /\ t[n] = ValueBits
                 /\ IsTrace(Solved.segments, t, n)
                 /\ Solved.cost = w[n] /\ Solved.fallback = FALSE
                 /\ \A u \in Tilings : Solved.cost <= TilingCost(u)
      BY <1>4, SolvedIs
    <2>2. PICK t, w :
                 /\ DOMAIN t = 0..n /\ PathCosts(t, w, n) /\ t[n] = ValueBits
                 /\ IsTrace(Solved.segments, t, n)
                 /\ Solved.cost = w[n] /\ Solved.fallback = FALSE
                 /\ \A u \in Tilings : Solved.cost <= TilingCost(u)
      BY <2>1
    <2>3. /\ Tiles(Solved.segments) /\ Ranged(Solved.segments) /\ Len(Solved.segments) \in Nat
          /\ \A k \in DOMAIN Solved.segments : WidthOf(Solved.segments[k]) \in MinWidth..MaxWidth
          /\ Len(Solved.segments) <= MaxSections
          /\ Solved.cost = TilingCost([k \in 0..Len(Solved.segments) |->
                                         IF k = 0 THEN 0 ELSE Solved.segments[k].to + 1])
      BY <1>3, <2>2
    <2>4. \A k \in DOMAIN Solved.segments :
             WidthOf(Solved.segments[k]) <= MaxWidth /\ WidthOf(Solved.segments[k]) >= MinWidth
      BY <1>1, <2>3
    <2>. QED
      BY <2>2, <2>3, <2>4
  <1>. QED
    BY <1>2, <1>4

---------------------------------------------------------------------------
(* Every step keeps the invariant *)

LEMMA TilingFrame ==
    ASSUME UNCHANGED <<column, config, samples>>
    PROVE  Tilings' = Tilings /\ \A t : TilingCost(t)' = TilingCost(t)
  <1>1. MaxWidth' = MaxWidth /\ MinWidth' = MinWidth /\ MaxSections' = MaxSections
    BY Frame
  <1>2. \A l, r : RangeScore(l, r)' = RangeScore(l, r)
    BY Frame
  <1>3. Tilings' = Tilings
    BY <1>1, <1>2 DEF Tilings
  <1>4. ASSUME NEW t
        PROVE  TilingCost(t)' = TilingCost(t)
    BY <1>2, Zenon DEF TilingCost, MapThenSumSet, MapThenFoldSet
  <1>. QED
    BY <1>3, <1>4
\* The planner is left alone by what follows it.
LEMMA Untouched ==
    ASSUME IInv, UNCHANGED plannerVars
    PROVE  IInv'
  <1>1. UNCHANGED <<pc, column, config, forced, samples, range, scores, plan>>
    BY DEF plannerVars
  <1>2. /\ MaxWidth' = MaxWidth /\ MinWidth' = MinWidth /\ MaxSections' = MaxSections
        /\ \A l, r : FieldsOf(l, r)' = FieldsOf(l, r)
        /\ \A l, r : RangeScore(l, r)' = RangeScore(l, r)
        /\ IsSample(samples)' <=> IsSample(samples)
    BY <1>1, Frame
  <1>3. Tilings' = Tilings /\ \A t : TilingCost(t)' = TilingCost(t)
    BY <1>1, TilingFrame
  <1>4. Called' /\ Sampled' /\ ForcedTiles' /\ PlanReady'
    BY <1>1, <1>2 DEF IInv, Called, Sampled, ForcedTiles, PlanReady, Tiles, Ranged
  <1>5. Extracted'
    BY <1>1, <1>2 DEF IInv, Extracted, RangeIs
  <1>6. Scored'
    BY <1>1, <1>2 DEF IInv, Scored, ScoresAre, Allowed, Passed
  <1>7. PlanTiles'
    BY <1>1, <1>2 DEF IInv, PlanTiles, Tiles, WidthOf
  <1>8. PlanIsCheapest'
    BY <1>1, <1>3 DEF IInv, PlanIsCheapest
  <1>. QED
    BY <1>4, <1>5, <1>6, <1>7, <1>8 DEF IInv

LEMMA EnforceStep ==
    ASSUME IInv, EnforceBoundaries
    PROVE  IInv'
  <1>1. pc = "idle" /\ UNCHANGED <<pc, column, config, samples, range, scores, plan>>
    BY DEF EnforceBoundaries
  <1>2. Called' /\ Sampled' /\ Extracted' /\ Scored' /\ PlanReady' /\ PlanTiles' /\ PlanIsCheapest'
    BY <1>1 DEF IInv, Called, Sampled, Extracted, Scored, PlanReady, PlanTiles, PlanIsCheapest
  <1>3. PICK text \in Texts :
           forced' = IF Accepts(text)
                     THEN [k \in DOMAIN text |->
                             [from |-> text[k].from, to |-> text[k].to, scheme |-> "UNCOMPRESSED"]]
                     ELSE <<>>
    BY DEF EnforceBoundaries
  <1>4. CASE ~Accepts(text)
    <2>1. forced' = <<>> /\ Len(plan'.segments) \in Nat
      BY <1>1, <1>3, <1>4 DEF IInv, ForcedTiles
    <2>. QED
      BY <1>2, <2>1 DEF IInv, ForcedTiles
  <1>5. CASE Accepts(text)
    <2>1. PICK n \in Nat : n = Len(text) /\ DOMAIN text = 1..n
      BY PlannerAssumption
    <2>2. PICK f : f = [k \in 1..n |->
                          [from |-> text[k].from, to |-> text[k].to, scheme |-> "UNCOMPRESSED"]]
      OBVIOUS
    <2>3. forced' = f
      BY <1>3, <1>5, <2>1, <2>2
    <2>4. \A k \in 1..n : f[k].from = text[k].from /\ f[k].to = text[k].to
      BY <2>2
    <2>5. n # 0
      <3>1. text # <<>> /\ text \in Seq([from : Int, to : Int, readable : BOOLEAN])
        BY <1>5, PlannerAssumption DEF Accepts
      <3>. QED
        BY <2>1, <3>1
    <2>6. Len(f) = n /\ DOMAIN f = 1..n /\ f # <<>>
      <3>1. PICK S : S = {f[k] : k \in 1..n}
        OBVIOUS
      <3>2. f \in [1..n -> S] /\ DOMAIN f = 1..n
        BY <2>2, <3>1
      <3>3. f \in Seq(S) /\ Len(f) = n
        BY <3>2, ASequence
      <3>. QED
        BY <2>5, <3>2, <3>3
    <2>7. ValueBits \in Nat
      BY PlannerAssumption
    <2>8. ASSUME NEW k \in 1..n
          PROVE  /\ f[k].from <= f[k].to /\ f[k].from \in Int /\ f[k].to \in Int
                 /\ f[k].from = (IF k = 1 THEN 0 ELSE f[k - 1].to + 1)
      <3>1. /\ text[k].from = (IF k = 1 THEN 0 ELSE text[k - 1].to + 1)
            /\ text[k].to \in text[k].from..(ValueBits - 1)
            /\ text[k].from \in Int
        <4>1. PICK R : R = [from : Int, to : Int, readable : BOOLEAN]
          OBVIOUS
        <4>2. text \in Seq(R)
          BY <4>1, PlannerAssumption
        <4>3. text[k] \in R
          BY <2>1, <4>2
        <4>4. text[k].from \in Int
          BY <4>1, <4>3
        <4>. QED
          BY <1>5, <2>1, <4>4 DEF Accepts
      <3>2. k # 1 => k - 1 \in 1..n
        BY <2>1
      <3>. QED
        BY <2>4, <2>7, <3>1, <3>2
    <2>9. f[n].to = ValueBits - 1
      <3>1. n \in 1..n
        BY <2>5
      <3>. QED
        BY <1>5, <2>1, <2>4, <3>1 DEF Accepts
    <2>10. Tiles(f)
      BY <2>6, <2>8, <2>9 DEF Tiles
    <2>11. Ranged(f)
      <3>. DEFINE S == {k \in 0..n : k # 0 => f[k].from \in Nat /\ f[k].to \in Nat}
      <3>1. 0..n \subseteq S
        <4>1. 0 \in S
          OBVIOUS
        <4>2. ASSUME NEW k \in 0..(n - 1), k \in S
              PROVE  k + 1 \in S
          <5>1. PICK m \in 1..n : m = k + 1 /\ m - 1 = k
            OBVIOUS
          <5>2. /\ f[m].from <= f[m].to /\ f[m].from \in Int /\ f[m].to \in Int
                /\ f[m].from = (IF m = 1 THEN 0 ELSE f[k].to + 1)
            BY <2>8, <5>1
          <5>3. m # 1 => f[k].to \in Nat
            BY <4>2, <5>1
          <5>. QED
            BY <5>1, <5>2, <5>3
        <4>. HIDE DEF S
        <4>. QED
          BY <4>1, <4>2, IntervalInduction
      <3>2. \A k \in 1..n : f[k].from \in Nat /\ f[k].to \in Nat
        <4>1. \A k \in 1..n : k \in 0..n /\ k # 0
          OBVIOUS
        <4>. QED
          BY <3>1, <4>1
      <3>. QED
        BY <2>6, <3>2 DEF Ranged
    <2>12. Tiles(forced)' /\ Ranged(forced)'
      BY <2>3, <2>10, <2>11 DEF Tiles, Ranged
    <2>13. Len(plan'.segments) \in Nat
      BY <1>1 DEF IInv, ForcedTiles
    <2>. QED
      BY <1>2, <2>3, <2>6, <2>12, <2>13 DEF IInv, ForcedTiles
  <1>. QED
    BY <1>2, <1>4, <1>5 DEF IInv

LEMMA StartStep ==
    ASSUME IInv, StartPlan
    PROVE  IInv'
  <1>1. /\ pc = "idle" /\ column' \in Inputs /\ config' \in Configs
        /\ range' = NoRange /\ scores' = {} /\ UNCHANGED <<forced, samples>>
    BY DEF StartPlan
  <1>2. CASE forced # <<>>
    <2>1. plan' = [NoPlan EXCEPT !.segments = forced] /\ pc' = "planned"
      BY <1>2 DEF StartPlan
    <2>2. plan'.segments = forced
      BY <2>1 DEF NoPlan
    <2>3. Called' /\ Sampled' /\ Extracted' /\ Scored'
      BY <1>1, <2>1 DEF IInv, Called, Sampled, Extracted, Scored
    <2>4. ForcedTiles' /\ PlanReady' /\ PlanTiles'
      BY <1>1, <1>2, <2>2 DEF IInv, ForcedTiles, PlanReady, PlanTiles, Tiles, Ranged
    <2>5. PlanIsCheapest'
      BY <1>1, <1>2 DEF PlanIsCheapest
    <2>. QED
      BY <2>3, <2>4, <2>5 DEF IInv
  <1>3. CASE forced = <<>>
    <2>1. plan' = NoPlan /\ pc' = "sampling"
      BY <1>3 DEF StartPlan
    <2>2. Called' /\ Sampled' /\ Extracted' /\ Scored'
      BY <1>1, <2>1 DEF IInv, Called, Sampled, Extracted, Scored
    <2>3. ForcedTiles' /\ PlanReady' /\ PlanTiles' /\ PlanIsCheapest'
      BY <1>1, <1>3, <2>1 DEF IInv, ForcedTiles, PlanReady, PlanTiles, PlanIsCheapest, NoPlan
    <2>. QED
      BY <2>2, <2>3 DEF IInv
  <1>. QED
    BY <1>2, <1>3

LEMMA SampleStep ==
    ASSUME IInv, Sample
    PROVE  IInv'
  <1>1. /\ pc = "sampling" /\ samples' = SampledRows
        /\ UNCHANGED <<column, config, forced, range, scores>>
    BY DEF Sample, Drawn
  <1>2. column \in Inputs /\ config \in Configs /\ range = NoRange /\ scores = {}
    BY <1>1 DEF IInv, Called, Extracted
  <1>3. SampledRows \in Seq(Nat) /\ (SampledRows # <<>> => IsSample(SampledRows))
    BY <1>2, SampledSound
  <1>4. MaxWidth' = MaxWidth
    BY <1>1 DEF MaxWidth
  <1>5. CASE samples' = <<>>
    <2>1. pc' = "planned" /\ plan' = Fallback
      BY <1>5 DEF Sample
    <2>2. Called' /\ Sampled' /\ Extracted' /\ Scored'
      BY <1>1, <1>2, <1>3, <2>1 DEF IInv, Called, Sampled, Extracted, Scored
    <2>3. PICK f : f = Fallback
      OBVIOUS
    <2>4. /\ Tiles(f.segments) /\ Ranged(f.segments) /\ Len(f.segments) \in Nat /\ f.fallback = TRUE
          /\ \A k \in DOMAIN f.segments : WidthOf(f.segments[k]) <= MaxWidth
      BY <1>2, <2>3, FallbackTiles
    <2>5. plan' = f
      BY <2>1, <2>3
    <2>6. ForcedTiles' /\ PlanReady' /\ PlanTiles'
      BY <1>1, <1>4, <2>4, <2>5 DEF IInv, ForcedTiles, PlanReady, PlanTiles, Tiles, Ranged, WidthOf
    <2>7. PlanIsCheapest'
      BY <1>5 DEF PlanIsCheapest
    <2>. QED
      BY <2>2, <2>6, <2>7 DEF IInv
  <1>6. CASE samples' # <<>>
    <2>1. pc' = "scoring" /\ UNCHANGED plan
      BY <1>6 DEF Sample
    <2>2. IsSample(samples)'
      <3>1. PICK s : s = SampledRows
        OBVIOUS
      <3>2. IsSample(s) /\ samples' = s
        BY <1>1, <1>3, <1>6, <3>1
      <3>. QED
        BY <1>1, <3>2 DEF IsSample, LookedAt, Blocks, Uniform, Target, BlockEnd, IsPresent
    <2>3. Called' /\ Sampled' /\ Extracted' /\ Scored'
      BY <1>1, <1>2, <1>3, <2>1, <2>2 DEF IInv, Called, Sampled, Extracted, Scored, ScoresAre, Passed
    <2>4. ForcedTiles' /\ PlanReady' /\ PlanTiles' /\ PlanIsCheapest'
      BY <1>1, <2>1 DEF IInv, ForcedTiles, PlanReady, PlanTiles, PlanIsCheapest, Tiles, Ranged
    <2>. QED
      BY <2>3, <2>4 DEF IInv
  <1>. QED
    BY <1>5, <1>6

LEMMA ScoringStep ==
    ASSUME IInv, ScoreRange
    PROVE  IInv'
  <1>1. pc = "scoring" /\ UNCHANGED <<column, config, forced, samples, plan>>
    BY DEF ScoreRange
  <1>2. pc' \in {"scoring", "solving"}
    BY DEF ScoreRange
  <1>3. Extracted' /\ Scored'
    BY ScoreStep DEF IInv
  <1>4. IsSample(samples)' <=> IsSample(samples)
    BY <1>1, Frame
  <1>5. Called' /\ Sampled'
    BY <1>1, <1>2, <1>4 DEF IInv, Called, Sampled
  <1>6. ForcedTiles' /\ PlanReady' /\ PlanTiles' /\ PlanIsCheapest'
    BY <1>1, <1>2 DEF IInv, ForcedTiles, PlanReady, PlanTiles, PlanIsCheapest, Tiles, Ranged
  <1>. QED
    BY <1>3, <1>5, <1>6 DEF IInv

LEMMA SolveStep ==
    ASSUME IInv, Solve
    PROVE  IInv'
  <1>1. /\ pc = "solving" /\ pc' = "planned" /\ plan' = Solved
        /\ UNCHANGED <<column, config, forced, samples, range, scores>>
    BY DEF Solve
  <1>2. Solvable
    <2>1. ScoresComplete
      BY <1>1, AllScored DEF IInv
    <2>. QED
      BY <1>1, <2>1 DEF IInv, Called, Sampled, Solvable
  <1>3. PICK s : s = Solved
    OBVIOUS
  <1>4. /\ Tiles(s.segments) /\ Ranged(s.segments) /\ Len(s.segments) \in Nat
        /\ \A k \in DOMAIN s.segments : WidthOf(s.segments[k]) <= MaxWidth
        /\ ~s.fallback =>
              /\ Len(s.segments) <= MaxSections
              /\ \A k \in DOMAIN s.segments : WidthOf(s.segments[k]) >= MinWidth
              /\ \A u \in Tilings : s.cost <= TilingCost(u)
              /\ s.cost = TilingCost([k \in 0..Len(s.segments) |->
                                        IF k = 0 THEN 0 ELSE s.segments[k].to + 1])
        /\ s.fallback => Tilings = {}
    BY <1>2, <1>3, SolvedPlan
  <1>5. plan' = s
    BY <1>1, <1>3
  <1>6. MaxWidth' = MaxWidth /\ MinWidth' = MinWidth /\ MaxSections' = MaxSections
    BY <1>1, Frame
  <1>7. Tilings' = Tilings /\ \A t : TilingCost(t)' = TilingCost(t)
    BY <1>1, TilingFrame
  <1>8. Called' /\ Sampled' /\ Extracted' /\ Scored'
    BY <1>1 DEF IInv, Called, Sampled, Extracted, Scored
  <1>9. ForcedTiles' /\ PlanReady' /\ PlanTiles'
    BY <1>1, <1>4, <1>5, <1>6 DEF IInv, ForcedTiles, PlanReady, PlanTiles, Tiles, Ranged, WidthOf
  <1>10. PlanIsCheapest'
    BY <1>4, <1>5, <1>7 DEF PlanIsCheapest
  <1>. QED
    BY <1>8, <1>9, <1>10 DEF IInv

\* The steps that follow the plan leave pc where the planner promises nothing.
LEMMA LaterStep ==
    ASSUME IInv, EncodeNothing \/ StartEncode \/ EncodeSection \/ EndEncode \/ Done
    PROVE  IInv'
  <1>1. /\ pc' \in {"idle", "encoding", "encoded", "raw"}
        /\ samples' = samples
        /\ \/ UNCHANGED <<column, config>>
           \/ pc' \in {"idle", "raw"} /\ column' = NoColumn /\ config' \in {config, NoConfig}
        /\ forced' \in {forced, <<>>}
        /\ plan' \in {plan, NoPlan}
        /\ pc' \notin {"idle", "raw"} => pc \notin {"idle", "raw"}
    BY DEF IInv, Called, EncodeNothing, StartEncode, EncodeSection, EndEncode, Done
  <1>2. Called' /\ Sampled' /\ Extracted' /\ Scored' /\ PlanTiles' /\ PlanIsCheapest'
    BY <1>1 DEF IInv, Called, Sampled, Extracted, Scored, PlanTiles, PlanIsCheapest
  <1>3. ForcedTiles'
    BY <1>1 DEF IInv, ForcedTiles, Tiles, Ranged, NoPlan
  <1>4. PlanReady'
    <2>1. pc' \in {"encoding", "encoded"} => plan' = plan /\ pc \in {"planned", "encoding"}
      BY DEF EncodeNothing, StartEncode, EncodeSection, EndEncode, Done
    <2>2. pc' # "planned"
      BY <1>1
    <2>. QED
      BY <2>1, <2>2 DEF IInv, PlanReady, Tiles, Ranged
  <1>. QED
    BY <1>2, <1>3, <1>4 DEF IInv

LEMMA InitInv == Init => IInv
  <1>. SUFFICES ASSUME Init PROVE IInv
    OBVIOUS
  <1>1. /\ pc = "idle" /\ column = NoColumn /\ config = NoConfig
        /\ forced = <<>> /\ samples = <<>> /\ plan = NoPlan
    BY DEF Init, PlanInit
  <1>2. Called /\ Sampled /\ Extracted /\ Scored /\ PlanReady /\ PlanTiles /\ PlanIsCheapest
    BY <1>1 DEF Called, Sampled, Extracted, Scored, PlanReady, PlanTiles, PlanIsCheapest
  <1>3. ForcedTiles
    BY <1>1 DEF ForcedTiles, NoPlan
  <1>. QED
    BY <1>2, <1>3 DEF IInv

LEMMA StepInv == IInv /\ [Next]_vars => IInv'
  <1>. SUFFICES ASSUME IInv, [Next]_vars PROVE IInv'
    OBVIOUS
  <1>1. CASE PlanNext
    BY <1>1, EnforceStep, StartStep, SampleStep, ScoringStep, SolveStep DEF PlanNext
  <1>2. CASE EncodeNothing \/ StartEncode \/ EncodeSection \/ EndEncode \/ Done
    BY <1>2, LaterStep
  <1>3. CASE Decode \/ Gather \/ UNCHANGED vars
    <2>1. UNCHANGED plannerVars
      BY <1>3 DEF Decode, Gather, vars, plannerVars
    <2>. QED
      BY <2>1, Untouched
  <1>. QED
    BY <1>1, <1>2, <1>3 DEF Next

\* The invariant of the planner holds in every state, for every column and every setting.
THEOREM Invariance == Spec => []IInv
  <1>. QED
    BY InitInv, StepInv, PTL DEF Spec

\* The sample that the costs are taken from is sound in every state in which ranges are
\* scored (sampleIntoU64).
THEOREM SamplesAreSound == Spec => []SampleSound
  <1>1. IInv => SampleSound
    BY DEF IInv, Sampled, IsSample, SampleSound
  <1>. QED
    BY <1>1, Invariance, PTL

\* Every plan covers each bit exactly once, within the widths and the number of sections
\* that the settings allow (planSplit).
THEOREM PlansTile == Spec => []PlanTiles
  <1>1. IInv => PlanTiles
    BY DEF IInv
  <1>. QED
    BY <1>1, Invariance, PTL

\* The dynamic program finds the cheapest of all tilings allowed, reports its cost, and
\* falls back only when there is none (selectSplits).
THEOREM PlansAreCheapest == Spec => []PlanIsCheapest
  <1>1. IInv => PlanIsCheapest
    BY DEF IInv
  <1>. QED
    BY <1>1, Invariance, PTL

---------------------------------------------------------------------------
(* The bits a value needs *)

LEMMA BelowPower ==
    ASSUME NEW v \in Nat
    PROVE  v < 2^v
  <1>. DEFINE S == {n \in Nat : n < 2^n}
  <1>1. 0 \in S
    BY PowerOfNothing
  <1>2. ASSUME NEW n \in Nat, n \in S
        PROVE  n + 1 \in S
    <2>1. PICK p \in Nat \ {0} : p = 2^n /\ 2^(n + 1) = 2 * p
      BY PowerNext
    <2>2. n < p
      BY <1>2, <2>1
    <2>3. n + 1 < 2 * p
      BY <2>2
    <2>. QED
      BY <2>1, <2>3
  <1>3. Nat \subseteq S
    <2>. HIDE DEF S
    <2>. QED
      BY <1>1, <1>2, SetInduction
  <1>. QED
    BY <1>3

LEMMA NeededBits ==
    ASSUME NEW v \in Nat
    PROVE  BitsNeeded(v) \in Nat /\ v < 2^BitsNeeded(v)
  <1>1. PICK S : S = {w \in 0..v : v < 2^w}
    OBVIOUS
  <1>2. v \in S /\ S \subseteq Nat
    <2>1. v \in 0..v
      OBVIOUS
    <2>2. v \in S
      BY <1>1, <2>1, BelowPower, Zenon
    <2>. QED
      BY <1>1, <2>2
  <1>3. PICK m \in S : \A n \in S : m <= n
    BY <1>2, LeastNumber
  <1>4. m \in 0..v /\ v < 2^m
    BY <1>1, <1>3
  <1>5. \A u \in 0..(m - 1) : 2^u <= v
    <2>1. ASSUME NEW u \in 0..(m - 1)
          PROVE  2^u <= v
      <3>1. u \in 0..v /\ u \in Nat /\ ~(m <= u)
        BY <1>4
      <3>2. u \notin S
        BY <1>3, <3>1
      <3>3. ~(v < 2^u)
        BY <1>1, <3>1, <3>2
      <3>4. 2^u \in Nat
        BY <3>1, PowerNext
      <3>. QED
        BY <3>3, <3>4
    <2>. QED
      BY <2>1
  <1>. DEFINE Needs(w) == v < 2^w /\ \A u \in 0..(w - 1) : 2^u <= v
  <1>6. PICK b : b = CHOOSE w \in 0..v : Needs(w)
    OBVIOUS
  <1>7. b \in 0..v /\ Needs(b)
    <2>1. Needs(m)
      BY <1>4, <1>5
    <2>. HIDE DEF Needs
    <2>. QED
      BY <1>4, <1>6, <2>1, Zenon
  <1>8. BitsNeeded(v) = b
    BY <1>6 DEF BitsNeeded
  <1>. QED
    BY <1>7, <1>8

LEMMA WidthOfValues ==
    ASSUME NEW n \in Nat, NEW values \in Seq(Nat), Len(values) = n
    PROVE  /\ WidthOfAll(values) \in Nat
           /\ WidthOfAll(values) = 0 => \A i \in 1..n : values[i] = 0
  <1>1. \A i \in 1..n : values[i] \in Nat
    OBVIOUS
  <1>2. PICK f : f = [i \in 1..(n + 1) |-> IF i = n + 1 THEN 0 ELSE BitsNeeded(values[i])]
    OBVIOUS
  <1>3. /\ \A i \in 1..n : f[i] = BitsNeeded(values[i]) /\ f[i] \in Nat
        /\ f[n + 1] = 0
    <2>1. ASSUME NEW i \in 1..n
          PROVE  f[i] = BitsNeeded(values[i]) /\ f[i] \in Nat
      <3>1. i \in 1..(n + 1) /\ i # n + 1
        OBVIOUS
      <3>2. f[i] = BitsNeeded(values[i])
        BY <1>2, <3>1
      <3>. QED
        BY <1>1, <3>2, NeededBits
    <2>2. n + 1 \in 1..(n + 1)
      OBVIOUS
    <2>. QED
      BY <1>2, <2>1, <2>2
  <1>4. f \in [1..(n + 1) -> Int] /\ n + 1 \in Nat \ {0}
    <2>1. \A i \in 1..(n + 1) : i = n + 1 \/ i \in 1..n
      OBVIOUS
    <2>2. \A i \in 1..(n + 1) : f[i] \in Int
      BY <1>3, <2>1
    <2>. QED
      BY <1>2, <2>2
  <1>5. PICK j \in 1..(n + 1) : \A i \in 1..(n + 1) : f[i] <= f[j]
    BY <1>4, LeastOfAll
  <1>6. PICK S : S = {0} \cup {BitsNeeded(values[i]) : i \in 1..n}
    OBVIOUS
  <1>7. /\ S \in SUBSET Int /\ f[j] \in S /\ \A x \in S : x <= f[j]
    <2>1. ASSUME NEW x \in S
          PROVE  \E i \in 1..(n + 1) : x = f[i]
      <3>1. CASE x = 0
        BY <1>3, <3>1
      <3>2. CASE x # 0
        <4>1. PICK i \in 1..n : x = BitsNeeded(values[i])
          BY <1>6, <3>2
        <4>. QED
          BY <1>3, <4>1
      <3>. QED
        BY <3>1, <3>2
    <2>2. \A i \in 1..(n + 1) : f[i] \in S
      <3>1. \A i \in 1..(n + 1) : i = n + 1 \/ i \in 1..n
        OBVIOUS
      <3>. QED
        BY <1>3, <1>6, <3>1
    <2>. QED
      BY <1>4, <1>5, <2>1, <2>2
  <1>8. Max(S) = f[j]
    BY <1>7, MaxIs
  <1>9. WidthOfAll(values) = f[j]
    <2>1. DOMAIN values = 1..n
      OBVIOUS
    <2>. QED
      BY <1>6, <1>8, <2>1, Zenon DEF WidthOfAll
  <1>10. f[j] \in Nat
    <2>1. f[n + 1] <= f[j] /\ f[n + 1] = 0 /\ f[j] \in Int
      BY <1>3, <1>4, <1>5
    <2>. QED
      BY <2>1
  <1>11. ASSUME f[j] = 0, NEW i \in 1..n
         PROVE  values[i] = 0
    <2>1. f[i] <= 0 /\ f[i] \in Nat /\ f[i] = BitsNeeded(values[i])
      BY <1>3, <1>5, <1>11
    <2>2. BitsNeeded(values[i]) = 0
      BY <2>1
    <2>3. values[i] < 2^0
      BY <1>1, <2>2, NeededBits
    <2>. QED
      BY <1>1, <2>3, PowerOfNothing
  <1>. QED
    BY <1>9, <1>10, <1>11

---------------------------------------------------------------------------
(* Pieces of a size, one behind the other *)

\* The p-th of the pieces of a size.
IsPiece(g, s, size, p) ==
    /\ Len(g) = size
    /\ \A i \in 1..size : g[i] = s[(p - 1) * size + i] /\ (p - 1) * size + i \in 1..Len(s)

LEMMA PieceIs ==
    ASSUME NEW X, NEW s \in Seq(X), NEW size \in Nat \ {0}, NEW n \in Nat,
           n * size <= Len(s), NEW p \in 1..n
    PROVE  Piece(s, size, p) \in Seq(X) /\ IsPiece(Piece(s, size, p), s, size, p)
  <1>1. PICK a \in Nat : a = (p - 1) * size
    OBVIOUS
  <1>2. p * size = a + size
    BY <1>1
  <1>3. a + size <= Len(s)
    <2>1. PICK d \in Nat : n = p + d
      OBVIOUS
    <2>2. PICK e \in Nat : e = d * size
      OBVIOUS
    <2>3. n * size = a + size + e
      <3>1. (p + d) * size = p * size + d * size
        BY Z3
      <3>. QED
        BY <1>2, <2>1, <2>2, <3>1
    <2>4. Len(s) \in Nat
      OBVIOUS
    <2>. QED
      BY <2>3, <2>4
  <1>4. PICK l \in Nat : l = Len(s)
    OBVIOUS
  <1>5. \A i \in (a + 1)..(a + size) : i \in 1..l
    BY <1>3, <1>4
  <1>6. \A i \in (a + 1)..(a + size) : s[i] \in X
    BY <1>4, <1>5
  <1>7. PICK g : g = SubSeq(s, a + 1, a + size)
    OBVIOUS
  <1>8. /\ g \in Seq(X) /\ Len(g) = size
        /\ \A i \in 1..size : g[i] = s[a + i]
    <2>1. PICK lo \in Int, hi \in Int : lo = a + 1 /\ hi = a + size
      OBVIOUS
    <2>2. g = SubSeq(s, lo, hi) /\ \A i \in lo..hi : s[i] \in X
      BY <1>6, <1>7, <2>1
    <2>3. /\ g \in Seq(X) /\ Len(g) = IF lo <= hi THEN hi - lo + 1 ELSE 0
          /\ \A i \in 1..(hi - lo + 1) : g[i] = s[lo + i - 1]
      BY <2>2, SubSeqProperties
    <2>4. lo <= hi /\ hi - lo + 1 = size /\ \A i \in 1..size : lo + i - 1 = a + i
      BY <2>1
    <2>. QED
      BY <2>3, <2>4
  <1>9. Piece(s, size, p) = g
    BY <1>1, <1>2, <1>7, Zenon DEF Piece
  <1>10. \A i \in 1..size : a + i \in 1..l
    BY <1>3, <1>4
  <1>11. IsPiece(g, s, size, p)
    BY <1>1, <1>4, <1>8, <1>10, Zenon DEF IsPiece
  <1>. QED
    BY <1>8, <1>9, <1>11, Zenon

\* Pieces of one size make up the sequence they are the pieces of.
ArePieces(seqs, s, size, n) == \A p \in 1..n : IsPiece(seqs[p], s, size, p)

LEMMA PiecesFlatten ==
    ASSUME NEW s \in Seq(Nat), NEW size \in Nat \ {0}, NEW n \in Nat, n * size <= Len(s),
           NEW seqs \in Seq(Seq(Nat)), Len(seqs) = n, ArePieces(seqs, s, size, n)
    PROVE  FlattenSeq(seqs) = SubSeq(s, 1, n * size) /\ FlattenSeq(seqs) \in Seq(Nat)
  <1>1. PICK b : b = [p \in 0..n |-> p * size]
    OBVIOUS
  <1>2. /\ b \in [0..n -> Nat] /\ b[0] = 0
        /\ \A p \in 1..n : b[p - 1] = (p - 1) * size /\ b[p] = p * size /\ b[p] = b[p - 1] + size
    <2>1. \A p \in 0..n : p * size \in Nat
      OBVIOUS
    <2>2. \A p \in 1..n : p - 1 \in 0..n /\ p \in 0..n /\ p * size = (p - 1) * size + size
      OBVIOUS
    <2>3. 0 \in 0..n /\ 0 * size = 0
      OBVIOUS
    <2>. QED
      BY <1>1, <2>1, <2>2, <2>3
  <1>3. \A p \in 1..n : b[p] = b[p - 1] + Len(seqs[p])
    BY <1>2 DEF ArePieces, IsPiece
  <1>4. PICK g : g = FlattenSeq(seqs)
    OBVIOUS
  <1>5. g \in Seq(Nat) /\ Placed(g, seqs, b, n)
    BY <1>2, <1>3, <1>4, FlattenPlaces, Zenon
  <1>6. PICK l \in Nat : l = n * size /\ l <= Len(s)
    OBVIOUS
  <1>7. Len(g) = l
    BY <1>2, <1>5, <1>6, n \in 0..n DEF Placed
  <1>8. PICK h : h = SubSeq(s, 1, l)
    OBVIOUS
  <1>9. h \in Seq(Nat) /\ Len(h) = l /\ \A i \in 1..l : h[i] = s[i]
    <2>1. \A i \in 1..l : s[i] \in Nat
      BY <1>6
    <2>2. /\ h \in Seq(Nat) /\ Len(h) = IF 1 <= l THEN l - 1 + 1 ELSE 0
          /\ \A i \in 1..(l - 1 + 1) : h[i] = s[1 + i - 1]
      BY <1>8, <2>1, SubSeqProperties
    <2>3. l - 1 + 1 = l /\ \A i \in 1..l : 1 + i - 1 = i
      OBVIOUS
    <2>. QED
      BY <2>2, <2>3
  <1>10. ASSUME NEW k \in 1..l
         PROVE  g[k] = h[k]
    <2>1. PICK q \in Nat, x \in 0..(size - 1) : k - 1 = q * size + x
      <3>1. k - 1 \in Nat
        OBVIOUS
      <3>. QED
        BY <3>1, Division
    <2>2. q < n
      <3>1. q * size + x < n * size
        <4>1. k - 1 < l
          OBVIOUS
        <4>. QED
          BY <1>6, <2>1, <4>1, Zenon
      <3>. QED
        BY <3>1, SmallerQuotient
    <2>3. PICK p \in 1..n, i \in 1..size : p = q + 1 /\ i = x + 1
      BY <2>2
    <2>4. (p - 1) * size + i = k
      <3>1. p - 1 = q
        BY <2>3
      <3>. QED
        BY <2>1, <2>3, <3>1
    <2>5. g[b[p - 1] + i] = seqs[p][i]
      BY <1>5, <2>3 DEF Placed, ArePieces, IsPiece
    <2>6. seqs[p][i] = s[k]
      BY <2>3, <2>4 DEF ArePieces, IsPiece
    <2>7. b[p - 1] + i = k
      BY <1>2, <2>4
    <2>. QED
      BY <1>9, <2>5, <2>6, <2>7
  <1>11. g = h
    BY <1>5, <1>7, <1>9, <1>10, SeqEqual
  <1>. QED
    BY <1>4, <1>5, <1>6, <1>8, <1>11

---------------------------------------------------------------------------
(* A packed block *)

MiniWords == [kind : {"mini"}, values : Seq(Nat), word : Nat]
HeaderWords == [kind : {"header"}, widths : Seq(Nat)]
TailPart == [kind : {"tail"}, values : Seq(Nat), word : Nat]
LengthWords == [kind : {"length"}, count : Nat]
AnyWord == LengthWords \cup HeaderWords \cup MiniWords \cup TailPart

LEMMA Sizes == /\ MiniSize \in Nat \ {0} /\ MinisPerBlock \in Nat \ {0} /\ BlockSize \in Nat \ {0}
               /\ MinisPerBlock * MiniSize = BlockSize
  <1>1. MiniSize \in Nat \ {0} /\ MinisPerBlock \in Nat \ {0}
    BY PackingAssumption
  <1>2. PICK a \in Nat \ {0}, b \in Nat \ {0} : a = MiniSize /\ b = MinisPerBlock
    BY <1>1
  <1>3. a * b \in Nat \ {0} /\ b * a = a * b
    OBVIOUS
  <1>. QED
    BY <1>1, <1>2, <1>3 DEF BlockSize

LEMMA MinisAre ==
    ASSUME NEW block \in Seq(Nat), Len(block) = BlockSize, NEW m \in 1..MinisPerBlock
    PROVE  /\ Minis(block)[m] \in Seq(Nat) /\ Len(Minis(block)[m]) = MiniSize
           /\ IsPiece(Minis(block)[m], block, MiniSize, m)
  <1>1. Minis(block)[m] = Piece(block, MiniSize, m)
    BY DEF Minis
  <1>2. PICK size \in Nat \ {0}, n \in Nat : size = MiniSize /\ n = MinisPerBlock
    BY Sizes
  <1>3. n * size <= Len(block) /\ m \in 1..n
    BY <1>2, Sizes
  <1>4. Piece(block, size, m) \in Seq(Nat) /\ IsPiece(Piece(block, size, m), block, size, m)
    BY <1>3, PieceIs, Zenon
  <1>. QED
    BY <1>1, <1>2, <1>4, Zenon DEF IsPiece

\* The words of the mini blocks come one behind the other after the header, which says
\* how many there are of each.
Header(w) == [kind |-> "header", widths |-> w]
MiniWord(block, m, i) == [kind |-> "mini", values |-> Minis(block)[m], word |-> i]
BlockWords(pb, block, w, t) ==
    /\ w \in [1..MinisPerBlock -> Nat] /\ w \in Seq(Nat) /\ RunningSum(w, MinisPerBlock, t)
    /\ pb \in Seq(AnyWord) /\ Len(pb) = 1 + t[MinisPerBlock]
    /\ pb[1] = Header(w)
    /\ \A m \in 1..MinisPerBlock : \A i \in 1..w[m] :
          1 + t[m - 1] + i \in 1..Len(pb) /\ pb[1 + t[m - 1] + i] = MiniWord(block, m, i)
    /\ \A m \in 1..MinisPerBlock : w[m] = 0 => \A i \in 1..MiniSize : Minis(block)[m][i] = 0

LEMMA OneMember ==
    ASSUME NEW S, NEW x \in S
    PROVE  <<x>> \in Seq(S) /\ Len(<<x>>) = 1 /\ <<x>>[1] = x
  OBVIOUS

LEMMA PackedBlockWords ==
    ASSUME NEW block \in Seq(Nat), Len(block) = BlockSize
    PROVE  \E w, t : BlockWords(PackedBlock(block), block, w, t)
  <1>1. PICK M \in Nat \ {0} : M = MinisPerBlock
    BY Sizes
  <1>. DEFINE minis == Minis(block)
              width(m) == WidthOfAll(minis[m])
  <1>2. PICK w : w = [m \in 1..MinisPerBlock |-> width(m)]
    OBVIOUS
  <1>3. PICK seqs : seqs = [m \in 1..MinisPerBlock |->
                      [w_1 \in 1..width(m) |-> [kind |-> "mini", values |-> minis[m], word |-> w_1]]]
    OBVIOUS
  <1>4. PICK flat : flat = FlattenSeq(seqs)
    OBVIOUS
  <1>5. PackedBlock(block) = <<Header(w)>> \o flat
    BY <1>2, <1>3, <1>4 DEF PackedBlock, Header
  <1>6. \A m \in 1..M : /\ width(m) \in Nat
                        /\ width(m) = 0 => \A i \in 1..MiniSize : minis[m][i] = 0
    <2>1. ASSUME NEW m \in 1..M
          PROVE  /\ width(m) \in Nat
                 /\ width(m) = 0 => \A i \in 1..MiniSize : minis[m][i] = 0
      <3>1. minis[m] \in Seq(Nat) /\ Len(minis[m]) = MiniSize
        BY <1>1, MinisAre
      <3>2. MiniSize \in Nat
        BY Sizes
      <3>. HIDE DEF minis
      <3>. QED
        BY <3>1, <3>2, WidthOfValues
    <2>. QED
      BY <2>1
  <1>. HIDE DEF width
  <1>7. w \in [1..M -> Nat] /\ \A m \in 1..M : w[m] = width(m)
    BY <1>1, <1>2, <1>6
  <1>8. w \in Seq(Nat) /\ w \in [1..MinisPerBlock -> Nat]
    <2>1. w \in Seq(Nat)
      BY <1>7, ASequence
    <2>. QED
      BY <1>1, <1>7, <2>1
  <1>9. PICK t : RunningSum(w, M, t)
    BY <1>7, RunningSumExists
  <1>10. t \in [0..M -> Nat] /\ t[0] = 0 /\ \A m \in 1..M : t[m] = t[m - 1] + w[m]
    BY <1>9 DEF RunningSum
  <1>11. /\ seqs \in [1..M -> Seq(MiniWords)]
         /\ \A m \in 1..M : /\ Len(seqs[m]) = w[m]
                            /\ \A i \in 1..w[m] : seqs[m][i] = MiniWord(block, m, i)
    <2>1. ASSUME NEW m \in 1..M
          PROVE  /\ seqs[m] \in Seq(MiniWords) /\ Len(seqs[m]) = w[m]
                 /\ \A i \in 1..w[m] : seqs[m][i] = MiniWord(block, m, i)
      <3>1. PICK n \in Nat : n = w[m]
        BY <1>7
      <3>2. PICK v \in Seq(Nat) : v = minis[m]
        BY <1>1, MinisAre
      <3>3. PICK s : s = [i \in 1..n |-> [kind |-> "mini", values |-> v, word |-> i]]
        OBVIOUS
      <3>4. seqs[m] = s
        BY <1>1, <1>3, <1>7, <3>1, <3>2, <3>3
      <3>5. s \in [1..n -> MiniWords]
        <4>1. \A i \in 1..n : [kind |-> "mini", values |-> v, word |-> i] \in MiniWords
          BY DEF MiniWords
        <4>. QED
          BY <3>3, <4>1
      <3>6. s \in Seq(MiniWords) /\ Len(s) = n
        BY <3>5, ASequence
      <3>7. \A i \in 1..n : s[i] = MiniWord(block, m, i)
        BY <3>2, <3>3 DEF MiniWord
      <3>. QED
        BY <3>1, <3>4, <3>6, <3>7
    <2>2. DOMAIN seqs = 1..M
      BY <1>1, <1>3
    <2>3. seqs = [m \in 1..M |-> seqs[m]]
      BY <1>1, <1>3
    <2>. QED
      BY <2>1, <2>3
  <1>12. seqs \in Seq(Seq(MiniWords)) /\ Len(seqs) = M
    BY <1>11, ASequence
  <1>13. flat \in Seq(MiniWords) /\ Placed(flat, seqs, t, M)
    <2>1. \A m \in 1..M : t[m] = t[m - 1] + Len(seqs[m])
      BY <1>10, <1>11
    <2>2. M \in Nat
      OBVIOUS
    <2>. QED
      BY <1>4, <1>10, <1>12, <2>1, <2>2, FlattenPlaces, Zenon
  <1>14. /\ Len(flat) = t[M]
         /\ \A m \in 1..M : \A i \in 1..w[m] :
               t[m - 1] + i \in 1..t[M] /\ flat[t[m - 1] + i] = MiniWord(block, m, i)
    BY <1>11, <1>13 DEF Placed
  <1>15. PICK T \in Nat : T = t[M]
    BY <1>10
  <1>16. PICK f : f = <<Header(w)>> \o flat
    OBVIOUS
  <1>17. /\ f \in Seq(AnyWord) /\ Len(f) = 1 + T /\ f[1] = Header(w)
         /\ \A i \in 1..T : f[1 + i] = flat[i]
    <2>1. PICK h \in Seq(AnyWord) : h = <<Header(w)>> /\ Len(h) = 1 /\ h[1] = Header(w)
      <3>1. Header(w) \in AnyWord
        BY <1>8 DEF Header, AnyWord, HeaderWords
      <3>. QED
        BY <3>1, OneMember
    <2>2. Len(h) = 1 /\ h[1] = Header(w)
      BY <2>1
    <2>3. flat \in Seq(AnyWord) /\ Len(flat) = T
      <3>1. MiniWords \subseteq AnyWord
        BY DEF AnyWord
      <3>. HIDE DEF AnyWord
      <3>2. flat \in Seq(AnyWord)
        BY <1>13, <3>1
      <3>. QED
        BY <1>14, <1>15, <3>2
    <2>4. f = h \o flat
      BY <1>16, <2>1
    <2>5. /\ f \in Seq(AnyWord) /\ Len(f) = Len(h) + Len(flat)
          /\ \A i \in 1..(Len(h) + Len(flat)) :
                f[i] = IF i <= Len(h) THEN h[i] ELSE flat[i - Len(h)]
      BY <2>3, <2>4, ConcatProperties
    <2>6. \A i \in 1..T : f[1 + i] = flat[i]
      <3>1. ASSUME NEW i \in 1..T
            PROVE  f[1 + i] = flat[i]
        <4>1. PICK k : k = 1 + i /\ k \in 1..(1 + T) /\ ~(k <= 1) /\ k - 1 = i
          OBVIOUS
        <4>2. PICK l \in Nat : l = Len(h) /\ l = 1
          BY <2>2
        <4>3. f[k] = IF k <= l THEN h[k] ELSE flat[k - l]
          BY <2>3, <2>5, <4>1, <4>2
        <4>. QED
          BY <4>1, <4>2, <4>3
      <3>. QED
        BY <3>1
    <2>. QED
      BY <2>2, <2>3, <2>5, <2>6
  <1>18. ASSUME NEW m \in 1..M, NEW i \in 1..w[m]
         PROVE  1 + t[m - 1] + i \in 1..Len(f) /\ f[1 + t[m - 1] + i] = MiniWord(block, m, i)
    <2>1. PICK k \in 1..T : k = t[m - 1] + i
      BY <1>14, <1>15
    <2>2. flat[k] = MiniWord(block, m, i)
      BY <1>14, <2>1
    <2>3. t[m - 1] \in Nat /\ i \in Nat
      BY <1>7, <1>10
    <2>4. 1 + t[m - 1] + i = 1 + k
      BY <2>1, <2>3
    <2>5. 1 + k \in 1..Len(f) /\ f[1 + k] = flat[k]
      BY <1>17
    <2>. QED
      BY <2>2, <2>4, <2>5
  <1>19. BlockWords(f, block, w, t)
    <2>1. \A m \in 1..M : w[m] = 0 => \A i \in 1..MiniSize : Minis(block)[m][i] = 0
      BY <1>6, <1>7
    <2>2. Len(f) = 1 + t[M]
      BY <1>15, <1>17
    <2>. QED
      BY <1>1, <1>8, <1>9, <1>17, <1>18, <2>1, <2>2, Zenon DEF BlockWords
  <1>. QED
    BY <1>5, <1>16, <1>19
---------------------------------------------------------------------------
(* The remainder *)

BytesFor(v) == Max({1, (BitsNeeded(v) + 6) \div 7})
SumOfBytes(s) == FoldSeq(LAMBDA v, m : BytesFor(v) + m, 0, s)

LEMMA BytesAreSome ==
    ASSUME NEW v \in Nat
    PROVE  BytesFor(v) \in Nat \ {0}
  <1>1. PICK b \in Nat : b = BitsNeeded(v)
    BY NeededBits
  <1>2. PICK a \in Int : a = (b + 6) \div 7
    OBVIOUS
  <1>3. {1, a} \in SUBSET Int
    OBVIOUS
  <1>4. CASE a <= 1
    <2>1. 1 \in {1, a} /\ \A x \in {1, a} : x <= 1
      BY <1>4
    <2>2. Max({1, a}) = 1
      BY <1>3, <2>1, MaxIs
    <2>. QED
      BY <1>1, <1>2, <2>2 DEF BytesFor
  <1>5. CASE ~(a <= 1)
    <2>1. a \in {1, a} /\ \A x \in {1, a} : x <= a
      BY <1>5
    <2>2. Max({1, a}) = a
      BY <1>3, <2>1, MaxIs
    <2>. QED
      BY <1>1, <1>2, <1>5, <2>2 DEF BytesFor
  <1>. QED
    BY <1>4, <1>5

LEMMA BytesAddUp ==
    ASSUME NEW n \in Nat, NEW s \in Seq(Nat), Len(s) = n,
           NEW w \in [1..n -> Nat], \A i \in 1..n : w[i] = BytesFor(s[i]),
           NEW total, RunningSum(w, n, total)
    PROVE  SumOfBytes(s) = total[n]
  <1>1. PICK sum : sum = [z \in SUBSET (1..n) |->
                             IF z = {} THEN 0
                             ELSE w[CHOOSE x \in z : TRUE] + sum[z \ {CHOOSE x \in z : TRUE}]]
    BY FoldExists, Zenon
  <1>2. \A z \in SUBSET (1..n) : z # {} => w[CHOOSE x \in z : TRUE] = BytesFor(s[CHOOSE x \in z : TRUE])
    <2>1. \A z \in SUBSET (1..n) : z # {} => (CHOOSE x \in z : TRUE) \in z
      OBVIOUS
    <2>. QED
      BY <2>1
  <1>. DEFINE Fold(iter) == iter = [z \in SUBSET DOMAIN s |->
                  IF z = {} THEN 0
                  ELSE BytesFor(s[CHOOSE x \in z : TRUE]) + iter[z \ {CHOOSE x \in z : TRUE}]]
              f == CHOOSE iter : Fold(iter)
  <1>3. DOMAIN s = 1..n
    OBVIOUS
  <1>4. Fold(sum)
    <2>1. PICK h : h = [z \in SUBSET DOMAIN s |->
                  IF z = {} THEN 0
                  ELSE BytesFor(s[CHOOSE x \in z : TRUE]) + sum[z \ {CHOOSE x \in z : TRUE}]]
      OBVIOUS
    <2>2. ASSUME NEW z \in SUBSET (1..n)
          PROVE  sum[z] = h[z]
      <3>1. CASE z = {}
        <4>1. sum[z] = 0 /\ h[z] = 0
          BY <1>1, <1>3, <2>1, <3>1, Zenon
        <4>. QED
          BY <4>1
      <3>2. CASE z # {}
        <4>1. w[CHOOSE x \in z : TRUE] = BytesFor(s[CHOOSE x \in z : TRUE])
          BY <1>2, <3>2, Zenon
        <4>2. sum[z] = w[CHOOSE x \in z : TRUE] + sum[z \ {CHOOSE x \in z : TRUE}]
          BY <1>1, <3>2, Zenon
        <4>3. h[z] = BytesFor(s[CHOOSE x \in z : TRUE]) + sum[z \ {CHOOSE x \in z : TRUE}]
          BY <1>3, <2>1, <3>2, Zenon
        <4>. QED
          BY <4>1, <4>2, <4>3, Zenon
      <3>. QED
        BY <3>1, <3>2
    <2>3. sum = h
      BY <1>1, <1>3, <2>1, <2>2, Zenon
    <2>. QED
      BY <2>1, <2>3, Zenon
  <1>5. SumOfBytes(s) = f[DOMAIN s]
    BY DEF SumOfBytes, FoldSeq, FoldFunction, FoldFunctionOnSet, MapThenFoldSet
  <1>6. Fold(f)
    <2>. HIDE DEF Fold
    <2>. QED
      BY <1>4, Zenon
  <1>. HIDE DEF f
  <1>7. SumsTo(w, n, f)
    <2>1. ASSUME NEW z \in SUBSET (1..n)
          PROVE  f[z] = IF z = {} THEN 0
                        ELSE w[CHOOSE x \in z : TRUE] + f[z \ {CHOOSE x \in z : TRUE}]
      <3>1. f[z] = IF z = {} THEN 0
                   ELSE BytesFor(s[CHOOSE x \in z : TRUE]) + f[z \ {CHOOSE x \in z : TRUE}]
        <4>1. z \in SUBSET DOMAIN s
          BY <1>3, Zenon
        <4>. QED
          BY <1>6, <4>1, Zenon
      <3>2. CASE z = {}
        BY <3>1, <3>2, Zenon
      <3>3. CASE z # {}
        <4>1. w[CHOOSE x \in z : TRUE] = BytesFor(s[CHOOSE x \in z : TRUE])
          BY <1>2, <3>3, Zenon
        <4>2. f[z] = BytesFor(s[CHOOSE x \in z : TRUE]) + f[z \ {CHOOSE x \in z : TRUE}]
          BY <3>1, <3>3, Zenon
        <4>. QED
          BY <3>3, <4>1, <4>2, Zenon
      <3>. QED
        BY <3>2, <3>3
    <2>. QED
      BY <2>1, Zenon DEF SumsTo
  <1>8. f[1..n] = total[n]
    <2>1. PICK g : g = f
      OBVIOUS
    <2>2. SumsTo(w, n, g)
      BY <1>7, <2>1
    <2>3. g[1..n] = total[n]
      BY <2>2, FoldIsSum
    <2>. QED
      BY <2>1, <2>3
  <1>. QED
    BY <1>3, <1>5, <1>8, Zenon

LEMMA TailIs ==
    ASSUME NEW tail \in Seq(Nat), NEW n \in Nat, Len(tail) = n
    PROVE  /\ TailWords(tail) \in Seq(TailPart)
           /\ Len(TailWords(tail)) = 0 <=> n = 0
           /\ \A i \in 1..Len(TailWords(tail)) : TailWords(tail)[i].values = tail
  <1>1. PICK w \in [1..n -> Nat] : \A i \in 1..n : w[i] = BytesFor(tail[i]) /\ w[i] # 0
    <2>1. PICK w : w = [i \in 1..n |-> BytesFor(tail[i])]
      OBVIOUS
    <2>2. \A i \in 1..n : tail[i] \in Nat
      OBVIOUS
    <2>3. \A i \in 1..n : w[i] = BytesFor(tail[i]) /\ w[i] \in Nat \ {0}
      BY <2>1, <2>2, BytesAreSome
    <2>. QED
      BY <2>1, <2>3
  <1>2. PICK total : RunningSum(w, n, total)
    BY RunningSumExists
  <1>3. PICK bytes \in Nat : bytes = total[n] /\ (bytes = 0 <=> n = 0)
    <2>1. total[n] \in Nat /\ total[0] = 0
      BY <1>2 DEF RunningSum
    <2>2. n # 0 => total[n] # 0
      <3>1. ASSUME n # 0
            PROVE  total[n] # 0
        <4>1. PICK a \in Nat, b \in Nat : a = total[n - 1] /\ b = w[n] /\ b # 0 /\ total[n] = a + b
          <5>1. n \in 1..n /\ n - 1 \in 0..n
            BY <3>1
          <5>. QED
            BY <1>1, <1>2, <5>1 DEF RunningSum
        <4>. QED
          BY <4>1
      <3>. QED
        BY <3>1
    <2>. QED
      BY <2>1, <2>2
  <1>4. SumOfBytes(tail) = bytes
    <2>1. \A i \in 1..n : w[i] = BytesFor(tail[i])
      BY <1>1
    <2>2. SumOfBytes(tail) = total[n]
      BY <1>2, <2>1, BytesAddUp
    <2>. QED
      BY <1>3, <2>2
  <1>5. PICK k \in Nat : k = (bytes + 3) \div 4 /\ (k = 0 <=> bytes = 0)
    OBVIOUS
  <1>6. PICK g : g = [i \in 1..k |-> [kind |-> "tail", values |-> tail, word |-> i]]
    OBVIOUS
  <1>7. TailWords(tail) = g
    <2>1. FoldSeq(LAMBDA v, m : Max({1, (BitsNeeded(v) + 6) \div 7}) + m, 0, tail) = bytes
      BY <1>4 DEF SumOfBytes, BytesFor
    <2>. QED
      BY <1>5, <1>6, <2>1 DEF TailWords
  <1>8. g \in [1..k -> TailPart] /\ \A i \in 1..k : g[i].values = tail
    <2>1. \A i \in 1..k : [kind |-> "tail", values |-> tail, word |-> i] \in TailPart
      BY DEF TailPart
    <2>. QED
      BY <1>6, <2>1
  <1>9. g \in Seq(TailPart) /\ Len(g) = k
    BY <1>8, ASequence
  <1>. QED
    BY <1>3, <1>5, <1>7, <1>8, <1>9

---------------------------------------------------------------------------
(* How far it is to the next header *)

LEMMA WordsOfHeader ==
    ASSUME NEW n \in Nat, NEW w \in [1..n -> Nat], NEW total, RunningSum(w, n, total)
    PROVE  WordsOf(Header(w)) = 1 + total[n]
  <1>. DEFINE Fold(iter) == iter = [z \in SUBSET DOMAIN w |->
                  IF z = {} THEN 0
                  ELSE w[CHOOSE x \in z : TRUE] + iter[z \ {CHOOSE x \in z : TRUE}]]
              f == CHOOSE iter : Fold(iter)
  <1>1. DOMAIN w = 1..n
    OBVIOUS
  <1>2. WordsOf(Header(w)) = 1 + f[DOMAIN w]
    BY DEF Header, WordsOf, FoldSeq, FoldFunction, FoldFunctionOnSet, MapThenFoldSet
  <1>3. Fold(f)
    <2>1. PICK sum : sum = [z \in SUBSET (1..n) |->
                  IF z = {} THEN 0
                  ELSE w[CHOOSE x \in z : TRUE] + sum[z \ {CHOOSE x \in z : TRUE}]]
      BY FoldExists, Zenon
    <2>2. Fold(sum)
      BY <1>1, <2>1, Zenon
    <2>. HIDE DEF Fold
    <2>. QED
      BY <2>2, Zenon
  <1>. HIDE DEF f
  <1>4. SumsTo(w, n, f)
    <2>1. ASSUME NEW z \in SUBSET (1..n)
          PROVE  f[z] = IF z = {} THEN 0
                        ELSE w[CHOOSE x \in z : TRUE] + f[z \ {CHOOSE x \in z : TRUE}]
      <3>1. z \in SUBSET DOMAIN w
        BY <1>1, Zenon
      <3>. QED
        BY <1>3, <3>1, Zenon
    <2>. QED
      BY <2>1, Zenon DEF SumsTo
  <1>5. f[1..n] = total[n]
    BY <1>4, FoldIsSum
  <1>. QED
    BY <1>1, <1>2, <1>5, Zenon
---------------------------------------------------------------------------
(* The words of a stream *)

\* From at on the words of a block, and the next header after them.
BlockAt(g, at, block, next) ==
    \E w, t :
        /\ w \in [1..MinisPerBlock -> Nat] /\ RunningSum(w, MinisPerBlock, t)
        /\ g[at] = Header(w) /\ next = at + 1 + t[MinisPerBlock]
        /\ \A m \in 1..MinisPerBlock : \A i \in 1..w[m] :
              g[at + t[m - 1] + i] = MiniWord(block, m, i)
        /\ \A m \in 1..MinisPerBlock : w[m] = 0 => \A i \in 1..MiniSize : Minis(block)[m][i] = 0

\* The count, block after block, and the remainder if there is one.
Remainder(values, n) == SubSeq(values, n * BlockSize + 1, Len(values))
Layout(g, values, n, b) ==
    /\ g \in Seq(AnyWord)
    /\ b \in [0..n -> Nat] /\ b[0] = 0
    /\ BlockPackedCount(g) = n * BlockSize
    /\ \A p \in 1..n : BlockAt(g, 2 + b[p - 1], Piece(values, BlockSize, p), 2 + b[p])
    /\ IF n * BlockSize = Len(values) THEN Len(g) = 1 + b[n]
       ELSE Len(g) > 1 + b[n] /\ g[2 + b[n]].values = Remainder(values, n)

CopiedTo(g, d, pb) == \A i \in 1..Len(pb) : g[1 + d + i] = pb[i]

LEMMA BlockMoved ==
    ASSUME NEW pb, NEW block, NEW w, NEW t, BlockWords(pb, block, w, t),
           NEW g, NEW d \in Nat, CopiedTo(g, d, pb)
    PROVE  BlockAt(g, 2 + d, block, 2 + d + Len(pb)) /\ Len(pb) \in Nat
  <1>1. PICK M \in Nat \ {0} : M = MinisPerBlock
    BY Sizes
  <1>2. w \in [1..M -> Nat] /\ t \in [0..M -> Nat] /\ RunningSum(w, M, t)
    BY <1>1 DEF BlockWords, RunningSum
  <1>3. PICK T \in Nat : T = t[M] /\ Len(pb) = 1 + T
    BY <1>1, <1>2 DEF BlockWords
  <1>4. g[2 + d] = Header(w)
    <2>1. 1 \in 1..Len(pb) /\ 1 + d + 1 = 2 + d
      BY <1>3
    <2>2. g[1 + d + 1] = pb[1]
      BY <2>1 DEF CopiedTo
    <2>. QED
      BY <2>1, <2>2 DEF BlockWords
  <1>5. ASSUME NEW m \in 1..M, NEW i \in 1..w[m]
        PROVE  g[(2 + d) + t[m - 1] + i] = MiniWord(block, m, i)
    <2>1. /\ 1 + t[m - 1] + i \in 1..Len(pb)
          /\ pb[1 + t[m - 1] + i] = MiniWord(block, m, i)
      BY <1>1 DEF BlockWords
    <2>2. PICK a \in Nat, j \in Nat : a = t[m - 1] /\ j = i
      BY <1>2
    <2>3. 1 + d + (1 + a + j) = (2 + d) + a + j
      OBVIOUS
    <2>4. g[1 + d + (1 + a + j)] = pb[1 + a + j]
      BY <2>1, <2>2 DEF CopiedTo
    <2>. QED
      BY <2>1, <2>2, <2>3, <2>4
  <1>6. 2 + d + Len(pb) = (2 + d) + 1 + t[MinisPerBlock] /\ Len(pb) \in Nat
    <2>1. PICK L \in Nat : L = Len(pb) /\ L = 1 + T
      BY <1>3
    <2>2. 2 + d + L = (2 + d) + 1 + T
      BY <2>1
    <2>. QED
      BY <1>1, <1>3, <2>1, <2>2
  <1>7. \A m \in 1..M : w[m] = 0 => \A i \in 1..MiniSize : Minis(block)[m][i] = 0
    BY <1>1 DEF BlockWords
  <1>8. BlockAt(g, 2 + d, block, 2 + d + Len(pb))
    BY <1>1, <1>2, <1>4, <1>5, <1>6, <1>7, Zenon DEF BlockAt
  <1>. QED
    BY <1>6, <1>8

LEMMA PackedLayout ==
    ASSUME NEW values \in Seq(Nat), NEW n \in Nat, n = Len(values) \div BlockSize
    PROVE  /\ n * BlockSize <= Len(values)
           /\ \E b : Layout(Packed(values), values, n, b)
  <1>1. PICK B \in Nat \ {0} : B = BlockSize
    BY Sizes
  <1>2. PICK l \in Nat : l = Len(values)
    OBVIOUS
  <1>3. PICK r \in 0..(B - 1) : l = n * B + r
    <2>1. PICK q \in Nat, x \in 0..(B - 1) : l = q * B + x /\ l \div B = q
      BY Divided
    <2>. QED
      BY <1>1, <1>2, <2>1
  <1>4. PICK c \in Nat : c = n * B /\ c <= l /\ (c = l <=> r = 0)
    <2>1. PICK c \in Nat : c = n * B
      OBVIOUS
    <2>. QED
      BY <1>3, <2>1
  <1>5. ASSUME NEW p \in 1..n
        PROVE  Piece(values, B, p) \in Seq(Nat) /\ Len(Piece(values, B, p)) = BlockSize
    <2>1. n * B <= Len(values)
      BY <1>2, <1>4
    <2>2. Piece(values, B, p) \in Seq(Nat) /\ IsPiece(Piece(values, B, p), values, B, p)
      BY <2>1, PieceIs, Zenon
    <2>. QED
      BY <1>1, <2>2 DEF IsPiece
  <1>6. PICK seqs : seqs = [p \in 1..n |-> PackedBlock(Piece(values, B, p))]
    OBVIOUS
  <1>7. \A p \in 1..n : \E w, t : BlockWords(seqs[p], Piece(values, B, p), w, t)
    BY <1>5, <1>6, PackedBlockWords
  <1>8. \A p \in 1..n : seqs[p] \in Seq(AnyWord)
    BY <1>7 DEF BlockWords
  <1>9. seqs \in [1..n -> Seq(AnyWord)]
    BY <1>6, <1>8
  <1>10. seqs \in Seq(Seq(AnyWord)) /\ Len(seqs) = n
    BY <1>9, ASequence
  <1>11. PICK k \in [1..n -> Nat] : \A p \in 1..n : k[p] = Len(seqs[p])
    <2>1. PICK k : k = [p \in 1..n |-> Len(seqs[p])]
      OBVIOUS
    <2>2. \A p \in 1..n : Len(seqs[p]) \in Nat
      BY <1>9
    <2>. QED
      BY <2>1, <2>2
  <1>12. PICK b : RunningSum(k, n, b)
    BY RunningSumExists
  <1>13. /\ b \in [0..n -> Nat] /\ b[0] = 0
         /\ \A p \in 1..n : b[p] = b[p - 1] + Len(seqs[p])
    BY <1>11, <1>12 DEF RunningSum
  <1>14. PICK flat : flat = FlattenSeq(seqs)
    OBVIOUS
  <1>15. flat \in Seq(AnyWord) /\ Placed(flat, seqs, b, n)
    BY <1>10, <1>13, <1>14, FlattenPlaces, Zenon
  <1>16. PICK h : h = [kind |-> "length", count |-> c]
    OBVIOUS
  <1>17. <<h>> \in Seq(AnyWord) /\ Len(<<h>>) = 1 /\ <<h>>[1] = h
    <2>1. h \in AnyWord
      BY <1>16 DEF AnyWord, LengthWords
    <2>. QED
      BY <2>1, OneMember
  <1>18. PICK s : s = Remainder(values, n)
    OBVIOUS
  <1>19. s \in Seq(Nat) /\ Len(s) = r
    <2>1. PICK lo \in Int, hi \in Int : lo = c + 1 /\ hi = l
      OBVIOUS
    <2>2. s = SubSeq(values, lo, hi)
      BY <1>1, <1>2, <1>4, <1>18, <2>1 DEF Remainder
    <2>3. \A i \in lo..hi : values[i] \in Nat
      BY <1>2, <2>1
    <2>4. s \in Seq(Nat) /\ Len(s) = IF lo <= hi THEN hi - lo + 1 ELSE 0
      BY <2>2, <2>3, SubSeqProperties
    <2>5. l = c + r
      BY <1>3, <1>4
    <2>6. (IF lo <= hi THEN hi - lo + 1 ELSE 0) = r
      BY <2>1, <2>5
    <2>. QED
      BY <2>4, <2>6
  <1>20. PICK tail : tail = TailWords(s)
    OBVIOUS
  <1>21. /\ tail \in Seq(AnyWord) /\ (Len(tail) = 0 <=> r = 0)
         /\ \A i \in 1..Len(tail) : tail[i].values = s
    <2>1. r \in Nat
      OBVIOUS
    <2>2. /\ tail \in Seq(TailPart) /\ (Len(tail) = 0 <=> r = 0)
          /\ \A i \in 1..Len(tail) : tail[i].values = s
      BY <1>19, <1>20, <2>1, TailIs, Zenon
    <2>3. TailPart \subseteq AnyWord
      BY DEF AnyWord
    <2>4. tail \in Seq(AnyWord)
      BY <2>2, <2>3
    <2>. QED
      BY <2>2, <2>4
  <1>22. PICK g : g = (<<h>> \o flat) \o tail
    OBVIOUS
  <1>23. Packed(values) = g
    <2>1. Packed(values) = <<[kind |-> "length", count |-> n * BlockSize]>> \o
             FlattenSeq([p \in 1..n |-> PackedBlock(Piece(values, BlockSize, p))]) \o
             TailWords(SubSeq(values, n * BlockSize + 1, Len(values)))
      BY Zenon DEF Packed
    <2>. QED
      BY <1>1, <1>4, <1>6, <1>14, <1>16, <1>18, <1>20, <1>22, <2>1, Zenon DEF Remainder
  <1>24. PICK e \in Nat : e = b[n] /\ e = Len(flat)
    BY <1>13, <1>15 DEF Placed
  <1>25. PICK f : f = <<h>> \o flat
    OBVIOUS
  <1>26. f \in Seq(AnyWord) /\ Len(f) = 1 + e /\ f[1] = h /\ \A i \in 1..e : f[1 + i] = flat[i]
    <2>1. PICK o \in Seq(AnyWord) : o = <<h>>
      BY <1>17
    <2>2. /\ f \in Seq(AnyWord) /\ Len(f) = Len(o) + Len(flat)
          /\ \A i \in 1..(Len(o) + Len(flat)) :
                f[i] = IF i <= Len(o) THEN o[i] ELSE flat[i - Len(o)]
      BY <1>15, <1>25, <2>1, ConcatProperties
    <2>3. Len(f) = 1 + e /\ \A i \in 1..(1 + e) : f[i] = IF i <= 1 THEN o[i] ELSE flat[i - 1]
      BY <1>17, <1>24, <2>1, <2>2
    <2>4. f[1] = h
      BY <1>17, <2>1, <2>3
    <2>5. \A i \in 1..e : f[1 + i] = flat[i]
      <3>1. ASSUME NEW i \in 1..e
            PROVE  f[1 + i] = flat[i]
        <4>1. PICK z : z = 1 + i /\ z \in 1..(1 + e) /\ ~(z <= 1) /\ z - 1 = i
          OBVIOUS
        <4>2. f[z] = flat[z - 1]
          BY <2>3, <4>1
        <4>. QED
          BY <4>1, <4>2
      <3>. QED
        BY <3>1
    <2>. QED
      BY <2>2, <2>3, <2>4, <2>5
  <1>27. PICK u \in Nat : u = Len(tail)
    BY <1>21
  <1>28. /\ g \in Seq(AnyWord) /\ Len(g) = 1 + e + u
         /\ \A i \in 1..(1 + e) : g[i] = f[i]
         /\ u # 0 => g[2 + e] = tail[1]
    <2>1. /\ g \in Seq(AnyWord) /\ Len(g) = Len(f) + Len(tail)
          /\ \A i \in 1..(Len(f) + Len(tail)) :
                g[i] = IF i <= Len(f) THEN f[i] ELSE tail[i - Len(f)]
      BY <1>21, <1>22, <1>25, <1>26, ConcatProperties
    <2>2. /\ Len(g) = 1 + e + u
          /\ \A i \in 1..(1 + e + u) : g[i] = IF i <= 1 + e THEN f[i] ELSE tail[i - (1 + e)]
      BY <1>26, <1>27, <2>1
    <2>3. \A i \in 1..(1 + e) : i \in 1..(1 + e + u) /\ i <= 1 + e
      OBVIOUS
    <2>4. u # 0 => 2 + e \in 1..(1 + e + u) /\ ~(2 + e <= 1 + e) /\ (2 + e) - (1 + e) = 1
      OBVIOUS
    <2>. QED
      BY <2>1, <2>2, <2>3, <2>4
  <1>29. ASSUME NEW p \in 1..n
         PROVE  BlockAt(g, 2 + b[p - 1], Piece(values, BlockSize, p), 2 + b[p])
    <2>1. PICK w, t : BlockWords(seqs[p], Piece(values, B, p), w, t)
      BY <1>7
    <2>2. PICK d \in Nat, m \in Nat : d = b[p - 1] /\ m = Len(seqs[p]) /\ b[p] = d + m
      <3>1. p - 1 \in 0..n /\ k[p] = Len(seqs[p]) /\ k[p] \in Nat
        BY <1>11
      <3>2. b[p - 1] \in Nat /\ b[p] = b[p - 1] + Len(seqs[p])
        BY <1>13, <3>1
      <3>. QED
        BY <3>1, <3>2
    <2>3. \A i \in 1..m : d + i \in 1..e /\ flat[d + i] = seqs[p][i]
      <3>1. \A i \in 1..Len(seqs[p]) :
               b[p - 1] + i \in 1..b[n] /\ flat[b[p - 1] + i] = seqs[p][i]
        BY <1>15 DEF Placed
      <3>. QED
        BY <1>24, <2>2, <3>1, Zenon
    <2>4. ASSUME NEW i \in 1..m
          PROVE  g[1 + d + i] = seqs[p][i]
      <3>1. PICK j \in 1..e : j = d + i /\ flat[j] = seqs[p][i]
        BY <2>3
      <3>2. 1 + d + i = 1 + j /\ 1 + j \in 1..(1 + e)
        BY <3>1
      <3>3. g[1 + j] = f[1 + j] /\ f[1 + j] = flat[j]
        BY <1>26, <1>28, <3>2
      <3>. QED
        BY <3>1, <3>2, <3>3, Zenon
    <2>5. BlockAt(g, 2 + d, Piece(values, B, p), 2 + d + Len(seqs[p]))
      <3>1. CopiedTo(g, d, seqs[p])
        BY <2>2, <2>4, Zenon DEF CopiedTo
      <3>. QED
        BY <2>1, <3>1, BlockMoved, Zenon
    <2>6. 2 + d + Len(seqs[p]) = 2 + b[p] /\ 2 + d = 2 + b[p - 1]
      <3>1. 2 + d + m = 2 + (d + m)
        OBVIOUS
      <3>. QED
        BY <2>2, <3>1, Zenon
    <2>7. BlockAt(g, 2 + b[p - 1], Piece(values, B, p), 2 + b[p])
      <3>1. PICK at, next : at = 2 + d /\ next = 2 + d + Len(seqs[p])
        OBVIOUS
      <3>2. BlockAt(g, at, Piece(values, B, p), next)
        BY <2>5, <3>1, Zenon
      <3>3. at = 2 + b[p - 1] /\ next = 2 + b[p]
        BY <2>6, <3>1, Zenon
      <3>. QED
        BY <3>2, <3>3, Zenon
    <2>. QED
      BY <1>1, <2>7
  <1>30. BlockPackedCount(g) = n * BlockSize
    BY <1>1, <1>4, <1>16, <1>26, <1>28 DEF BlockPackedCount
  <1>31. IF n * BlockSize = Len(values) THEN Len(g) = 1 + b[n]
         ELSE Len(g) > 1 + b[n] /\ g[2 + b[n]].values = Remainder(values, n)
    <2>1. CASE r = 0
      BY <1>1, <1>2, <1>4, <1>21, <1>24, <1>27, <1>28, <2>1
    <2>2. CASE r # 0
      <3>1. u # 0 /\ tail[1].values = s
        BY <1>21, <1>27, <2>2
      <3>. QED
        BY <1>1, <1>2, <1>4, <1>18, <1>24, <1>28, <2>2, <3>1
    <2>. QED
      BY <2>1, <2>2
  <1>32. Layout(g, values, n, b)
    BY <1>13, <1>28, <1>29, <1>30, <1>31, Zenon DEF Layout
  <1>. QED
    BY <1>1, <1>2, <1>4, <1>23, <1>32
---------------------------------------------------------------------------
(* Reading a stream *)

LEMMA HeaderPlaces ==
    ASSUME NEW g, NEW values, NEW n \in Nat, NEW b, Layout(g, values, n, b), NEW j \in 0..n
    PROVE  HeaderAt(g, j) = 2 + b[j]
  <1>. DEFINE At(at) == at = [i \in 0..j |->
                  IF i = 0 THEN 2
                  ELSE IF g[at[i - 1]].kind = "header" THEN at[i - 1] + WordsOf(g[at[i - 1]])
                  ELSE at[i - 1]]
              f == CHOOSE at : At(at)
  <1>1. HeaderAt(g, j) = f[j]
    BY DEF HeaderAt
  <1>2. b \in [0..n -> Nat] /\ b[0] = 0
    BY DEF Layout
  <1>3. ASSUME NEW i \in 1..j
        PROVE  /\ g[2 + b[i - 1]].kind = "header"
               /\ 2 + b[i] = (2 + b[i - 1]) + WordsOf(g[2 + b[i - 1]])
    <2>1. i \in 1..n
      OBVIOUS
    <2>2. BlockAt(g, 2 + b[i - 1], Piece(values, BlockSize, i), 2 + b[i])
      BY <2>1 DEF Layout
    <2>3. PICK w, t :
             /\ w \in [1..MinisPerBlock -> Nat] /\ RunningSum(w, MinisPerBlock, t)
             /\ g[2 + b[i - 1]] = Header(w)
             /\ 2 + b[i] = (2 + b[i - 1]) + 1 + t[MinisPerBlock]
      BY <2>2 DEF BlockAt
    <2>4. MinisPerBlock \in Nat
      BY Sizes
    <2>5. WordsOf(Header(w)) = 1 + t[MinisPerBlock]
      BY <2>3, <2>4, WordsOfHeader
    <2>6. t[MinisPerBlock] \in Nat /\ b[i - 1] \in Nat
      BY <1>2, <2>1, <2>3, <2>4 DEF RunningSum
    <2>7. Header(w).kind = "header"
      BY DEF Header
    <2>8. (2 + b[i - 1]) + (1 + t[MinisPerBlock]) = (2 + b[i - 1]) + 1 + t[MinisPerBlock]
      BY <2>6
    <2>. QED
      BY <2>3, <2>5, <2>7, <2>8
  <1>4. At(f)
    <2>1. PICK a : a = [i \in 0..j |-> 2 + b[i]]
      OBVIOUS
    <2>2. PICK h : h = [i \in 0..j |->
                  IF i = 0 THEN 2
                  ELSE IF g[a[i - 1]].kind = "header" THEN a[i - 1] + WordsOf(g[a[i - 1]])
                  ELSE a[i - 1]]
      OBVIOUS
    <2>3. ASSUME NEW i \in 0..j
          PROVE  a[i] = h[i]
      <3>1. CASE i = 0
        BY <1>2, <2>1, <2>2, <3>1
      <3>2. CASE i # 0
        <4>1. i \in 1..j /\ i - 1 \in 0..j
          BY <3>2
        <4>2. a[i - 1] = 2 + b[i - 1] /\ a[i] = 2 + b[i]
          BY <2>1, <4>1
        <4>3. g[a[i - 1]].kind = "header" /\ a[i] = a[i - 1] + WordsOf(g[a[i - 1]])
          BY <1>3, <4>1, <4>2
        <4>. QED
          BY <2>2, <3>2, <4>3, Zenon
      <3>. QED
        BY <3>1, <3>2
    <2>4. a = h
      BY <2>1, <2>2, <2>3, Zenon
    <2>5. At(a)
      BY <2>2, <2>4, Zenon
    <2>. HIDE DEF At
    <2>. QED
      BY <2>5, Zenon
  <1>5. /\ f[0] = 2
        /\ \A i \in 1..j : g[f[i - 1]].kind = "header" => f[i] = f[i - 1] + WordsOf(g[f[i - 1]])
    <2>. HIDE DEF f
    <2>1. \A i \in 0..j :
             f[i] = IF i = 0 THEN 2
                    ELSE IF g[f[i - 1]].kind = "header" THEN f[i - 1] + WordsOf(g[f[i - 1]])
                    ELSE f[i - 1]
      BY <1>4, Zenon
    <2>2. 0 \in 0..j /\ \A i \in 1..j : i \in 0..j /\ i # 0
      OBVIOUS
    <2>. QED
      BY <2>1, <2>2, Zenon
  <1>. HIDE DEF f
  <1>. DEFINE S == {i \in 0..j : f[i] = 2 + b[i]}
  <1>6. 0 \in S
    BY <1>2, <1>5
  <1>7. ASSUME NEW i \in 0..(j - 1), i \in S
        PROVE  i + 1 \in S
    <2>1. PICK k \in 1..j : k = i + 1 /\ k - 1 = i
      OBVIOUS
    <2>2. f[k - 1] = 2 + b[k - 1]
      BY <1>7, <2>1
    <2>3. f[k] = 2 + b[k]
      BY <1>3, <1>5, <2>2
    <2>. QED
      BY <2>1, <2>3
  <1>8. 0..j \subseteq S
    <2>1. j \in Nat
      OBVIOUS
    <2>. HIDE DEF S
    <2>. QED
      BY <1>6, <1>7, <2>1, IntervalInduction
  <1>. QED
    BY <1>1, <1>8

\* Nothing is written for a mini block of zeros, and zeros are read.
LEMMA MiniRead ==
    ASSUME NEW block \in Seq(Nat), Len(block) = BlockSize, NEW m \in 1..MinisPerBlock,
           NEW g, NEW at, NEW width \in Nat,
           width # 0 => g[at] = MiniWord(block, m, 1),
           width = 0 => \A i \in 1..MiniSize : Minis(block)[m][i] = 0
    PROVE  Unpacked(g, at, width) = Minis(block)[m]
  <1>1. PICK v \in Seq(Nat) : v = Minis(block)[m] /\ Len(v) = MiniSize
    BY MinisAre
  <1>2. PICK size \in Nat : size = MiniSize
    BY Sizes
  <1>3. PICK u : u = Unpacked(g, at, width)
    OBVIOUS
  <1>4. u = [i \in 1..size |-> IF width = 0 THEN 0
                               ELSE IF g[at].kind = "mini" /\ g[at].word = 1 THEN g[at].values[i]
                               ELSE Garbled]
    BY <1>2, <1>3 DEF Unpacked
  <1>5. ASSUME NEW i \in 1..size
        PROVE  u[i] = v[i]
    <2>1. CASE width = 0
      BY <1>1, <1>2, <1>4, <2>1
    <2>2. CASE width # 0
      <3>1. g[at].kind = "mini" /\ g[at].word = 1 /\ g[at].values = v
        BY <1>1, <2>2 DEF MiniWord
      <3>. QED
        BY <1>4, <2>2, <3>1
    <2>. QED
      BY <2>1, <2>2
  <1>6. v = [i \in 1..size |-> v[i]]
    BY <1>1, <1>2
  <1>7. u = v
    BY <1>4, <1>5, <1>6, Zenon
  <1>. QED
    BY <1>1, <1>3, <1>7

LEMMA WholeSequence ==
    ASSUME NEW X, NEW s \in Seq(X), NEW n \in Nat, n = Len(s)
    PROVE  SubSeq(s, 1, n) = s
  BY SubSeqFull

LEMMA MinisFlatten ==
    ASSUME NEW block \in Seq(Nat), Len(block) = BlockSize,
           NEW seqs, seqs = [m \in 1..MinisPerBlock |-> Minis(block)[m]]
    PROVE  FlattenSeq(seqs) = block
  <1>1. PICK M \in Nat \ {0}, size \in Nat \ {0} : M = MinisPerBlock /\ size = MiniSize
    BY Sizes
  <1>2. M * size = Len(block) /\ M * size \in Nat
    BY <1>1, Sizes
  <1>3. \A m \in 1..M : /\ seqs[m] \in Seq(Nat) /\ IsPiece(seqs[m], block, size, m)
    BY <1>1, MinisAre
  <1>4. seqs \in [1..M -> Seq(Nat)]
    BY <1>1, <1>3
  <1>5. seqs \in Seq(Seq(Nat)) /\ Len(seqs) = M
    BY <1>4, ASequence
  <1>6. ArePieces(seqs, block, size, M)
    BY <1>3 DEF ArePieces
  <1>7. M \in Nat /\ M * size <= Len(block)
    BY <1>2
  <1>8. FlattenSeq(seqs) = SubSeq(block, 1, M * size)
    BY <1>5, <1>6, <1>7, PiecesFlatten
  <1>9. PICK l \in Nat : l = M * size /\ l = Len(block)
    BY <1>2
  <1>10. SubSeq(block, 1, l) = block
    BY <1>9, WholeSequence
  <1>. QED
    BY <1>8, <1>9, <1>10, Zenon

\* A block is found behind its header and unpacked.
LEMMA BlockRead ==
    ASSUME NEW g, NEW values \in Seq(Nat), NEW n \in Nat, NEW b, Layout(g, values, n, b),
           n * BlockSize <= Len(values), NEW j \in 0..(n - 1)
    PROVE  DecompressBlock(g, j) = Piece(values, BlockSize, j + 1)
  <1>1. PICK M \in Nat \ {0} : M = MinisPerBlock
    BY Sizes
  <1>2. PICK block : block = Piece(values, BlockSize, j + 1)
    OBVIOUS
  <1>3. block \in Seq(Nat) /\ Len(block) = BlockSize
    <2>1. PICK B \in Nat \ {0} : B = BlockSize
      BY Sizes
    <2>2. j + 1 \in 1..n
      OBVIOUS
    <2>3. n * B <= Len(values)
      BY <2>1
    <2>4. Piece(values, B, j + 1) \in Seq(Nat) /\ IsPiece(Piece(values, B, j + 1), values, B, j + 1)
      BY <2>2, <2>3, PieceIs, Zenon
    <2>. QED
      BY <1>2, <2>1, <2>4 DEF IsPiece
  <1>4. PICK header \in Nat : header = 2 + b[j] /\ header = HeaderAt(g, j)
    <2>1. j \in 0..n /\ b[j] \in Nat
      BY DEF Layout
    <2>2. HeaderAt(g, j) = 2 + b[j]
      BY <2>1, HeaderPlaces
    <2>. QED
      BY <2>1, <2>2
  <1>5. BlockAt(g, header, block, 2 + b[j + 1])
    <2>1. PICK p \in 1..n : p = j + 1 /\ p - 1 = j
      OBVIOUS
    <2>2. BlockAt(g, 2 + b[p - 1], Piece(values, BlockSize, p), 2 + b[p])
      BY DEF Layout
    <2>. QED
      BY <1>2, <1>4, <2>1, <2>2
  <1>6. PICK w, t :
           /\ w \in [1..M -> Nat] /\ RunningSum(w, M, t) /\ g[header] = Header(w)
           /\ \A m \in 1..M : \A i \in 1..w[m] : g[header + t[m - 1] + i] = MiniWord(block, m, i)
           /\ \A m \in 1..M : w[m] = 0 => \A i \in 1..MiniSize : Minis(block)[m][i] = 0
    BY <1>1, <1>5, Zenon DEF BlockAt
  <1>7. t \in [0..M -> Nat] /\ t[0] = 0 /\ \A m \in 1..M : t[m] = t[m - 1] + w[m]
    BY <1>6 DEF RunningSum
  <1>. DEFINE at == HeaderAt(g, j)
              widths == IF g[at].kind = "header" THEN g[at].widths ELSE [m \in 1..MinisPerBlock |-> 0]
              Start(start) == start = [m \in 1..MinisPerBlock |->
                  IF m = 1 THEN at + 1 ELSE start[m - 1] + widths[m - 1]]
              f == CHOOSE start : Start(start)
  <1>8. /\ DecompressBlock(g, j) =
              FlattenSeq([m \in 1..MinisPerBlock |-> Unpacked(g, f[m], widths[m])])
        /\ at = header /\ widths = w
    <2>1. g[header].kind = "header" /\ g[header].widths = w
      BY <1>6 DEF Header
    <2>2. at = header
      BY <1>4
    <2>3. widths = w
      BY <2>1, <2>2
    <2>. QED
      BY <2>2, <2>3, Zenon DEF DecompressBlock
  <1>. HIDE DEF at, widths
  <1>9. Start(f)
    <2>1. PICK a : a = [m \in 1..MinisPerBlock |-> header + 1 + t[m - 1]]
      OBVIOUS
    <2>2. PICK h : h = [m \in 1..MinisPerBlock |->
                  IF m = 1 THEN header + 1 ELSE a[m - 1] + w[m - 1]]
      OBVIOUS
    <2>3. ASSUME NEW m \in 1..M
          PROVE  a[m] = h[m]
      <3>1. CASE m = 1
        BY <1>1, <1>7, <2>1, <2>2, <3>1
      <3>2. CASE m # 1
        <4>1. m - 1 \in 1..M /\ (m - 1) - 1 \in 0..M /\ m - 1 \in 0..M
          BY <3>2
        <4>2. PICK x \in Nat, y \in Nat : x = t[(m - 1) - 1] /\ y = w[m - 1] /\ t[m - 1] = x + y
          BY <1>6, <1>7, <4>1, ZenonT(30)
        <4>3. a[m - 1] = header + 1 + x /\ a[m] = header + 1 + (x + y)
          BY <1>1, <2>1, <4>1, <4>2
        <4>4. h[m] = a[m - 1] + y
          BY <1>1, <2>2, <3>2, <4>2
        <4>. QED
          BY <4>3, <4>4
      <3>. QED
        BY <3>1, <3>2
    <2>4. a = h
      BY <1>1, <2>1, <2>2, <2>3, Zenon
    <2>5. Start(a)
      BY <1>8, <2>2, <2>4, Zenon
    <2>. HIDE DEF Start
    <2>. QED
      BY <2>5, Zenon
  <1>10. /\ f[1] = header + 1
         /\ \A m \in 2..M : f[m] = f[m - 1] + w[m - 1]
    <2>. HIDE DEF f
    <2>1. \A m \in 1..MinisPerBlock : f[m] = IF m = 1 THEN header + 1 ELSE f[m - 1] + w[m - 1]
      BY <1>8, <1>9, Zenon
    <2>2. 1 \in 1..M /\ \A m \in 2..M : m \in 1..M /\ m # 1
      OBVIOUS
    <2>. QED
      BY <1>1, <2>1, <2>2, Zenon
  <1>. HIDE DEF f
  <1>. DEFINE S == {k \in 0..(M - 1) : f[k + 1] = header + 1 + t[k]}
  <1>11. 0..(M - 1) \subseteq S
    <2>1. 0 \in S
      BY <1>7, <1>10
    <2>2. ASSUME NEW k \in 0..((M - 1) - 1), k \in S
          PROVE  k + 1 \in S
      <3>1. PICK m \in 2..M : m = k + 2 /\ m - 1 = k + 1 /\ (k + 1) + 1 = m /\ k + 1 \in 1..M
        OBVIOUS
      <3>2. f[m] = f[k + 1] + w[k + 1] /\ f[k + 1] = header + 1 + t[k]
        BY <1>10, <2>2, <3>1
      <3>3. PICK x \in Nat, y \in Nat : x = t[k] /\ y = w[k + 1] /\ t[k + 1] = x + y
        <4>1. (k + 1) - 1 = k /\ k \in 0..M
          OBVIOUS
        <4>2. w[k + 1] \in Nat
          BY <1>6, <3>1
        <4>3. t[k] \in Nat /\ t[k + 1] = t[k] + w[k + 1]
          BY <1>7, <3>1, <4>1
        <4>. QED
          BY <4>2, <4>3
      <3>4. f[m] = header + 1 + t[k + 1]
        BY <3>2, <3>3
      <3>. QED
        BY <3>1, <3>4
    <2>3. M - 1 \in Nat
      OBVIOUS
    <2>. HIDE DEF S
    <2>. QED
      BY <2>1, <2>2, <2>3, IntervalInduction
  <1>12. ASSUME NEW m \in 1..M
         PROVE  Unpacked(g, f[m], w[m]) = Minis(block)[m]
    <2>1. PICK k \in 0..(M - 1) : k = m - 1 /\ k + 1 = m
      OBVIOUS
    <2>2. f[m] = header + 1 + t[k]
      BY <1>11, <2>1
    <2>3. w[m] # 0 => g[f[m]] = MiniWord(block, m, 1)
      <3>1. ASSUME w[m] # 0
            PROVE  g[f[m]] = MiniWord(block, m, 1)
        <4>1. 1 \in 1..w[m]
          BY <1>6, <3>1
        <4>2. g[header + t[m - 1] + 1] = MiniWord(block, m, 1)
          BY <1>6, <4>1
        <4>3. header + t[m - 1] + 1 = f[m]
          <5>1. PICK x \in Nat : x = t[k]
            BY <1>7
          <5>2. header + x + 1 = header + 1 + x
            OBVIOUS
          <5>. QED
            BY <2>1, <2>2, <5>1, <5>2
        <4>. QED
          BY <4>2, <4>3
      <3>. QED
        BY <3>1
    <2>4. w[m] \in Nat
      BY <1>6
    <2>. QED
      BY <1>1, <1>3, <1>6, <2>3, <2>4, MiniRead
  <1>13. PICK seqs : seqs = [m \in 1..MinisPerBlock |-> Unpacked(g, f[m], w[m])]
    OBVIOUS
  <1>14. seqs = [m \in 1..MinisPerBlock |-> Minis(block)[m]]
    BY <1>1, <1>12, <1>13
  <1>15. FlattenSeq(seqs) = block
    BY <1>3, <1>14, MinisFlatten
  <1>. QED
    BY <1>2, <1>8, <1>13, <1>15

\* A stream is decompressed to what it was packed from (FBP::compress and decompress).
LEMMA PackedReadBack ==
    ASSUME NEW values \in Seq(Nat)
    PROVE  Decompressed(Packed(values)) = values
  <1>1. PICK B \in Nat \ {0} : B = BlockSize
    BY Sizes
  <1>2. PICK l \in Nat : l = Len(values)
    OBVIOUS
  <1>3. PICK n \in Nat : n = Len(values) \div BlockSize
    BY <1>1, <1>2
  <1>4. n * BlockSize <= Len(values) /\ \E b : Layout(Packed(values), values, n, b)
    BY <1>3, PackedLayout
  <1>5. PICK c \in Nat : c = n * B /\ c <= l
    BY <1>1, <1>2, <1>4
  <1>6. PICK g : g = Packed(values)
    OBVIOUS
  <1>7. PICK b : Layout(g, values, n, b)
    BY <1>4, <1>6
  <1>8. BlockPackedCount(g) = c /\ BlockPackedCount(g) \div BlockSize = n
    <2>1. BlockPackedCount(g) = c
      BY <1>1, <1>5, <1>7 DEF Layout
    <2>2. PICK z \in 0..(B - 1) : z = 0
      OBVIOUS
    <2>3. (n * B + z) \div B = n
      BY Quotient
    <2>4. n * B + z = c
      BY <1>5, <2>2
    <2>. QED
      BY <1>1, <2>1, <2>3, <2>4
  <1>9. PICK seqs : seqs = [b_1 \in 1..n |-> DecompressBlock(g, b_1 - 1)]
    OBVIOUS
  <1>10. \A p \in 1..n : /\ seqs[p] \in Seq(Nat) /\ IsPiece(seqs[p], values, B, p)
    <2>1. ASSUME NEW p \in 1..n
          PROVE  seqs[p] \in Seq(Nat) /\ IsPiece(seqs[p], values, B, p)
      <3>1. PICK j \in 0..(n - 1) : j = p - 1 /\ j + 1 = p
        OBVIOUS
      <3>2. DecompressBlock(g, j) = Piece(values, BlockSize, j + 1)
        BY <1>4, <1>7, BlockRead
      <3>3. seqs[p] = Piece(values, B, p)
        BY <1>1, <1>9, <3>1, <3>2
      <3>4. n * B <= Len(values)
        BY <1>2, <1>5
      <3>5. Piece(values, B, p) \in Seq(Nat) /\ IsPiece(Piece(values, B, p), values, B, p)
        BY <3>4, PieceIs, Zenon
      <3>. QED
        BY <3>3, <3>5
    <2>. QED
      BY <2>1
  <1>11. seqs \in Seq(Seq(Nat)) /\ Len(seqs) = n
    <2>1. seqs \in [1..n -> Seq(Nat)]
      BY <1>9, <1>10
    <2>. QED
      BY <2>1, ASequence
  <1>12. PICK first : first = FlattenSeq(seqs)
    OBVIOUS
  <1>13. first = SubSeq(values, 1, c)
    <2>1. ArePieces(seqs, values, B, n)
      BY <1>10 DEF ArePieces
    <2>2. n * B <= Len(values)
      BY <1>2, <1>5
    <2>3. FlattenSeq(seqs) = SubSeq(values, 1, n * B)
      BY <1>11, <2>1, <2>2, PiecesFlatten
    <2>. QED
      BY <1>5, <1>12, <2>3
  <1>14. first \in Seq(Nat) /\ Len(first) = c /\ \A i \in 1..c : first[i] = values[i]
    <2>1. \A i \in 1..c : values[i] \in Nat
      BY <1>2, <1>5
    <2>2. /\ first \in Seq(Nat) /\ Len(first) = IF 1 <= c THEN c - 1 + 1 ELSE 0
          /\ \A i \in 1..(c - 1 + 1) : first[i] = values[1 + i - 1]
      BY <1>13, <2>1, SubSeqProperties
    <2>3. c - 1 + 1 = c /\ \A i \in 1..c : 1 + i - 1 = i
      OBVIOUS
    <2>. QED
      BY <2>2, <2>3
  <1>15. PICK tail : tail = TailOf(g)
    OBVIOUS
  <1>16. /\ tail \in Seq(Nat) /\ Len(tail) = l - c
         /\ \A i \in 1..(l - c) : tail[i] = values[c + i]
    <2>1. HeaderAt(g, n) = 2 + b[n]
      BY <1>7, HeaderPlaces
    <2>2. PICK e \in Nat : e = b[n]
      BY <1>7 DEF Layout
    <2>3. TailOf(g) = IF 2 + e > Len(g) THEN <<>> ELSE g[2 + e].values
      BY <1>8, <2>1, <2>2 DEF TailOf
    <2>4. CASE c = l
      <3>1. PICK k \in Nat : k = Len(g) /\ k = 1 + e
        BY <1>1, <1>2, <1>5, <1>7, <2>2, <2>4 DEF Layout
      <3>2. tail = <<>>
        BY <1>15, <2>3, <3>1
      <3>. QED
        BY <2>4, <3>2
    <2>5. CASE c # l
      <3>1. PICK k \in Nat : k = Len(g)
        BY <1>7 DEF Layout
      <3>2. k > 1 + e /\ g[2 + e].values = Remainder(values, n)
        BY <1>1, <1>2, <1>5, <1>7, <2>2, <2>5, <3>1 DEF Layout
      <3>3. tail = Remainder(values, n)
        BY <1>15, <2>3, <3>1, <3>2
      <3>4. PICK lo \in Int : lo = c + 1
        OBVIOUS
      <3>5. tail = SubSeq(values, lo, l)
        BY <1>1, <1>2, <1>5, <3>3, <3>4 DEF Remainder
      <3>6. \A i \in lo..l : values[i] \in Nat
        BY <1>2, <3>4
      <3>7. /\ tail \in Seq(Nat) /\ Len(tail) = IF lo <= l THEN l - lo + 1 ELSE 0
            /\ \A i \in 1..(l - lo + 1) : tail[i] = values[lo + i - 1]
        BY <3>5, <3>6, SubSeqProperties
      <3>8. lo <= l /\ l - lo + 1 = l - c /\ \A i \in 1..(l - c) : lo + i - 1 = c + i
        BY <1>5, <2>5, <3>4
      <3>. QED
        BY <3>7, <3>8
    <2>. QED
      BY <2>4, <2>5
  <1>17. PICK h : h = first \o tail
    OBVIOUS
  <1>18. Decompressed(g) = h
    BY <1>8, <1>9, <1>12, <1>15, <1>17 DEF Decompressed
  <1>19. /\ h \in Seq(Nat) /\ Len(h) = l
         /\ \A i \in 1..l : h[i] = values[i]
    <2>1. /\ h \in Seq(Nat) /\ Len(h) = Len(first) + Len(tail)
          /\ \A i \in 1..(Len(first) + Len(tail)) :
                h[i] = IF i <= Len(first) THEN first[i] ELSE tail[i - Len(first)]
      BY <1>14, <1>16, <1>17, ConcatProperties
    <2>2. Len(first) + Len(tail) = l
      <3>1. c + (l - c) = l
        OBVIOUS
      <3>. QED
        BY <1>14, <1>16, <3>1, Zenon
    <2>3. \A i \in 1..l : h[i] = IF i <= c THEN first[i] ELSE tail[i - c]
      BY <1>14, <2>1, <2>2
    <2>4. ASSUME NEW i \in 1..l
          PROVE  h[i] = values[i]
      <3>1. CASE i <= c
        BY <1>14, <2>3, <3>1
      <3>2. CASE ~(i <= c)
        <4>1. PICK k \in 1..(l - c) : k = i - c /\ c + k = i
          BY <1>5, <3>2
        <4>. QED
          BY <1>16, <2>3, <3>2, <4>1
      <3>. QED
        BY <3>1, <3>2
    <2>. QED
      BY <2>1, <2>2, <2>4
  <1>20. h = values
    BY <1>2, <1>19, SeqEqual
  <1>. QED
    BY <1>6, <1>18, <1>20

\* A packed stream is a sequence of words.
LEMMA PackedWords ==
    ASSUME NEW values \in Seq(Nat)
    PROVE  Packed(values) \in Seq(AnyWord)
  <1>1. Len(values) \div BlockSize \in Nat
    <2>1. PICK B \in Nat \ {0}, l \in Nat : B = BlockSize /\ l = Len(values)
      BY Sizes
    <2>2. l \div B \in Nat
      BY Divided
    <2>. QED
      BY <2>1, <2>2
  <1>. QED
    BY <1>1, PackedLayout DEF Layout

\* A row is found in its block, or in the remainder (FBP::gather).
LEMMA PackedGatherRead ==
    ASSUME NEW values \in Seq(Nat), NEW positions, NEW k \in DOMAIN positions,
           positions[k] \in 0..(Len(values) - 1)
    PROVE  PackedGather(Packed(values), positions)[k] = values[positions[k] + 1]
  <1>1. PICK B \in Nat \ {0}, l \in Nat : B = BlockSize /\ l = Len(values)
    <2>1. Len(values) \in Nat
      OBVIOUS
    <2>. QED
      BY <2>1, Sizes, Zenon
  <1>2. PICK n \in Nat : n = Len(values) \div BlockSize
    <2>1. l \div B \in Nat
      BY Divided
    <2>. QED
      BY <1>1, <2>1
  <1>3. n * BlockSize <= Len(values) /\ \E b : Layout(Packed(values), values, n, b)
    BY <1>2, PackedLayout
  <1>4. PICK g : g = Packed(values)
    OBVIOUS
  <1>5. PICK b : Layout(g, values, n, b)
    BY <1>3, <1>4
  <1>6. PICK c \in Nat : c = n * B /\ BlockPackedCount(g) = c
    BY <1>1, <1>5 DEF Layout
  <1>7. PICK row \in Nat : row = positions[k] /\ row < l
    BY <1>1
  <1>8. PackedGather(g, positions)[k] =
           IF row >= c THEN Decompressed(g)[row + 1]
           ELSE DecompressBlock(g, row \div BlockSize)[(row % BlockSize) + 1]
    BY <1>6, <1>7, Zenon DEF PackedGather
  <1>9. CASE row >= c
    <2>1. Decompressed(g) = values
      BY <1>4, PackedReadBack
    <2>. QED
      BY <1>4, <1>7, <1>8, <1>9, <2>1
  <1>10. CASE row < c
    <2>1. PICK q \in Nat, x \in 0..(B - 1) : row = q * B + x /\ row \div B = q /\ row % B = x
      BY Divided
    <2>2. q < n
      <3>1. q * B + x < n * B
        BY <1>6, <1>10, <2>1
      <3>. QED
        BY <3>1, SmallerQuotient
    <2>3. q \in 0..(n - 1) /\ q + 1 \in 1..n
      BY <2>2
    <2>4. DecompressBlock(g, q) = Piece(values, BlockSize, q + 1)
      BY <1>3, <1>5, <2>3, BlockRead
    <2>5. n * B <= Len(values)
      BY <1>1, <1>3
    <2>6. IsPiece(Piece(values, B, q + 1), values, B, q + 1)
      BY <2>3, <2>5, PieceIs, Zenon
    <2>7. PICK i \in 1..B : i = x + 1
      OBVIOUS
    <2>8. Piece(values, B, q + 1)[i] = values[((q + 1) - 1) * B + i]
      BY <2>6, <2>7 DEF IsPiece
    <2>9. ((q + 1) - 1) * B + i = row + 1
      <3>1. (q + 1) - 1 = q
        OBVIOUS
      <3>2. PICK y \in Nat : y = q * B
        OBVIOUS
      <3>3. y + i = row + 1
        BY <2>1, <2>7, <3>2
      <3>. QED
        BY <3>1, <3>2, <3>3
    <2>10. ~(row >= c)
      BY <1>10
    <2>. QED
      BY <1>1, <1>4, <1>7, <1>8, <2>1, <2>4, <2>7, <2>8, <2>9, <2>10
  <1>. QED
    BY <1>6, <1>7, <1>9, <1>10

---------------------------------------------------------------------------
(* The sizes of the sections *)

SumOfUsed(p) == FoldSeq(LAMBDA s, m : s.used + m, 0, p)

LEMMA SizesAddUp ==
    ASSUME NEW n \in Nat, NEW p, DOMAIN p = 1..n,
           NEW w \in [1..n -> Nat], \A k \in 1..n : w[k] = p[k].used,
           NEW total, RunningSum(w, n, total)
    PROVE  SumOfUsed(p) = total[n]
  <1>1. PICK sum : sum = [z \in SUBSET (1..n) |->
                             IF z = {} THEN 0
                             ELSE w[CHOOSE x \in z : TRUE] + sum[z \ {CHOOSE x \in z : TRUE}]]
    BY FoldExists, Zenon
  <1>2. \A z \in SUBSET (1..n) : z # {} => w[CHOOSE x \in z : TRUE] = p[CHOOSE x \in z : TRUE].used
    <2>1. \A z \in SUBSET (1..n) : z # {} => (CHOOSE x \in z : TRUE) \in z
      OBVIOUS
    <2>. QED
      BY <2>1
  <1>. DEFINE Fold(iter) == iter = [z \in SUBSET DOMAIN p |->
                  IF z = {} THEN 0
                  ELSE p[CHOOSE x \in z : TRUE].used + iter[z \ {CHOOSE x \in z : TRUE}]]
              f == CHOOSE iter : Fold(iter)
  <1>3. DOMAIN p = 1..n
    OBVIOUS
  <1>4. Fold(sum)
    <2>1. PICK h : h = [z \in SUBSET DOMAIN p |->
                  IF z = {} THEN 0
                  ELSE p[CHOOSE x \in z : TRUE].used + sum[z \ {CHOOSE x \in z : TRUE}]]
      OBVIOUS
    <2>2. ASSUME NEW z \in SUBSET (1..n)
          PROVE  sum[z] = h[z]
      <3>1. CASE z = {}
        <4>1. sum[z] = 0 /\ h[z] = 0
          BY <1>1, <1>3, <2>1, <3>1, Zenon
        <4>. QED
          BY <4>1
      <3>2. CASE z # {}
        <4>1. w[CHOOSE x \in z : TRUE] = p[CHOOSE x \in z : TRUE].used
          BY <1>2, <3>2, Zenon
        <4>2. sum[z] = w[CHOOSE x \in z : TRUE] + sum[z \ {CHOOSE x \in z : TRUE}]
          BY <1>1, <3>2, Zenon
        <4>3. h[z] = p[CHOOSE x \in z : TRUE].used + sum[z \ {CHOOSE x \in z : TRUE}]
          BY <1>3, <2>1, <3>2, Zenon
        <4>. QED
          BY <4>1, <4>2, <4>3, Zenon
      <3>. QED
        BY <3>1, <3>2
    <2>3. sum = h
      BY <1>1, <1>3, <2>1, <2>2, Zenon
    <2>. QED
      BY <2>1, <2>3, Zenon
  <1>5. SumOfUsed(p) = f[DOMAIN p]
    BY DEF SumOfUsed, FoldSeq, FoldFunction, FoldFunctionOnSet, MapThenFoldSet
  <1>6. Fold(f)
    <2>. HIDE DEF Fold
    <2>. QED
      BY <1>4, Zenon
  <1>. HIDE DEF f
  <1>7. SumsTo(w, n, f)
    <2>1. ASSUME NEW z \in SUBSET (1..n)
          PROVE  f[z] = IF z = {} THEN 0
                        ELSE w[CHOOSE x \in z : TRUE] + f[z \ {CHOOSE x \in z : TRUE}]
      <3>1. f[z] = IF z = {} THEN 0
                   ELSE p[CHOOSE x \in z : TRUE].used + f[z \ {CHOOSE x \in z : TRUE}]
        <4>1. z \in SUBSET DOMAIN p
          BY <1>3, Zenon
        <4>. QED
          BY <1>6, <4>1, Zenon
      <3>2. CASE z = {}
        BY <3>1, <3>2, Zenon
      <3>3. CASE z # {}
        <4>1. w[CHOOSE x \in z : TRUE] = p[CHOOSE x \in z : TRUE].used
          BY <1>2, <3>3, Zenon
        <4>2. f[z] = p[CHOOSE x \in z : TRUE].used + f[z \ {CHOOSE x \in z : TRUE}]
          BY <3>1, <3>3, Zenon
        <4>. QED
          BY <3>3, <4>1, <4>2, Zenon
      <3>. QED
        BY <3>2, <3>3
    <2>. QED
      BY <2>1, Zenon DEF SumsTo
  <1>. HIDE DEF Fold
  <1>8. f[1..n] = total[n]
    BY <1>7, FoldIsSum
  <1>. QED
    BY <1>3, <1>5, <1>8, Zenon

---------------------------------------------------------------------------
(* The sections of a value *)

Shifted(p, section, i, k) == (section[k][i] % 2^(p[k].to - p[k].from + 1)) * 2^p[k].from
JoinedOf(p, section, i, s) == FoldSeq(LAMBDA k, v : Shifted(p, section, i, k) + v, 0, s)

LEMMA SectionsAddUp ==
    ASSUME NEW n \in Nat, NEW p, NEW section, NEW i, NEW s, s = [k \in 1..n |-> k],
           NEW w \in [1..n -> Nat], \A k \in 1..n : w[k] = Shifted(p, section, i, k),
           NEW total, RunningSum(w, n, total)
    PROVE  JoinedOf(p, section, i, s) = total[n]
  <1>1. PICK sum : sum = [z \in SUBSET (1..n) |->
                             IF z = {} THEN 0
                             ELSE w[CHOOSE x \in z : TRUE] + sum[z \ {CHOOSE x \in z : TRUE}]]
    BY FoldExists, Zenon
  <1>2. \A z \in SUBSET (1..n) : z # {} => w[CHOOSE x \in z : TRUE] = Shifted(p, section, i, s[CHOOSE x \in z : TRUE])
    <2>1. \A z \in SUBSET (1..n) : z # {} => (CHOOSE x \in z : TRUE) \in z
      OBVIOUS
    <2>. QED
      BY <2>1
  <1>. DEFINE Fold(iter) == iter = [z \in SUBSET DOMAIN s |->
                  IF z = {} THEN 0
                  ELSE Shifted(p, section, i, s[CHOOSE x \in z : TRUE]) + iter[z \ {CHOOSE x \in z : TRUE}]]
              f == CHOOSE iter : Fold(iter)
  <1>3. DOMAIN s = 1..n
    OBVIOUS
  <1>4. Fold(sum)
    <2>1. PICK h : h = [z \in SUBSET DOMAIN s |->
                  IF z = {} THEN 0
                  ELSE Shifted(p, section, i, s[CHOOSE x \in z : TRUE]) + sum[z \ {CHOOSE x \in z : TRUE}]]
      OBVIOUS
    <2>2. ASSUME NEW z \in SUBSET (1..n)
          PROVE  sum[z] = h[z]
      <3>1. CASE z = {}
        <4>1. sum[z] = 0 /\ h[z] = 0
          BY <1>1, <1>3, <2>1, <3>1, Zenon
        <4>. QED
          BY <4>1
      <3>2. CASE z # {}
        <4>1. w[CHOOSE x \in z : TRUE] = Shifted(p, section, i, s[CHOOSE x \in z : TRUE])
          BY <1>2, <3>2, Zenon
        <4>2. sum[z] = w[CHOOSE x \in z : TRUE] + sum[z \ {CHOOSE x \in z : TRUE}]
          BY <1>1, <3>2, Zenon
        <4>3. h[z] = Shifted(p, section, i, s[CHOOSE x \in z : TRUE]) + sum[z \ {CHOOSE x \in z : TRUE}]
          BY <1>3, <2>1, <3>2, Zenon
        <4>. QED
          BY <4>1, <4>2, <4>3, Zenon
      <3>. QED
        BY <3>1, <3>2
    <2>3. sum = h
      BY <1>1, <1>3, <2>1, <2>2, Zenon
    <2>. QED
      BY <2>1, <2>3, Zenon
  <1>5. JoinedOf(p, section, i, s) = f[DOMAIN s]
    BY DEF JoinedOf, FoldSeq, FoldFunction, FoldFunctionOnSet, MapThenFoldSet
  <1>6. Fold(f)
    <2>. HIDE DEF Fold
    <2>. QED
      BY <1>4, Zenon
  <1>. HIDE DEF f
  <1>7. SumsTo(w, n, f)
    <2>1. ASSUME NEW z \in SUBSET (1..n)
          PROVE  f[z] = IF z = {} THEN 0
                        ELSE w[CHOOSE x \in z : TRUE] + f[z \ {CHOOSE x \in z : TRUE}]
      <3>1. f[z] = IF z = {} THEN 0
                   ELSE Shifted(p, section, i, s[CHOOSE x \in z : TRUE]) + f[z \ {CHOOSE x \in z : TRUE}]
        <4>1. z \in SUBSET DOMAIN s
          BY <1>3, Zenon
        <4>. QED
          BY <1>6, <4>1, Zenon
      <3>2. CASE z = {}
        BY <3>1, <3>2, Zenon
      <3>3. CASE z # {}
        <4>1. w[CHOOSE x \in z : TRUE] = Shifted(p, section, i, s[CHOOSE x \in z : TRUE])
          BY <1>2, <3>3, Zenon
        <4>2. f[z] = Shifted(p, section, i, s[CHOOSE x \in z : TRUE]) + f[z \ {CHOOSE x \in z : TRUE}]
          BY <3>1, <3>3, Zenon
        <4>. QED
          BY <3>3, <4>1, <4>2, Zenon
      <3>. QED
        BY <3>2, <3>3
    <2>. QED
      BY <2>1, Zenon DEF SumsTo
  <1>. HIDE DEF Fold
  <1>8. f[1..n] = total[n]
    BY <1>7, FoldIsSum
  <1>. QED
    BY <1>3, <1>5, <1>8, Zenon

\* The sections of a value, and that they are all of its bits.
SectionOf(v, s) == (v \div 2^s.from) % 2^(s.to - s.from + 1)
Covering(p, n) ==
    /\ DOMAIN p = 1..n
    /\ \A k \in 1..n : /\ p[k].from \in Nat /\ p[k].to \in Nat /\ p[k].from <= p[k].to
                       /\ p[k].from = (IF k = 1 THEN 0 ELSE p[k - 1].to + 1)
    /\ p[n].to = ValueBits - 1

LEMMA SectionsJoin ==
    ASSUME NEW n \in Nat \ {0}, NEW p, Covering(p, n), NEW v \in Nat, v < 2^ValueBits,
           NEW section, NEW i, \A k \in 1..n : section[k][i] = SectionOf(v, p[k])
    PROVE  JoinedOf(p, section, i, [k \in 1..n |-> k]) = v
  <1>1. PICK N \in Nat \ {0} : N = ValueBits
    BY PlannerAssumption
  <1>2. PICK limit \in Nat \ {0} : limit = 2^ValueBits
    BY <1>1, PowerNext
  <1>3. v \in 0..(limit - 1)
    BY <1>2
  <1>4. PICK t : t = [k \in 0..n |-> IF k = 0 THEN 0 ELSE p[k].to + 1]
    OBVIOUS
  <1>5. /\ t \in [0..n -> Nat] /\ t[0] = 0 /\ t[n] = N
        /\ \A k \in 1..n : t[k - 1] = p[k].from /\ t[k] = p[k].to + 1
    <2>1. \A k \in 0..n : t[k] \in Nat
      BY <1>4 DEF Covering
    <2>2. ASSUME NEW k \in 1..n
          PROVE  t[k - 1] = p[k].from /\ t[k] = p[k].to + 1
      BY <1>4 DEF Covering
    <2>3. t[n] = N
      BY <1>1, <1>4 DEF Covering
    <2>4. t \in [0..n -> Nat] /\ t[0] = 0
      BY <1>4, <2>1
    <2>. QED
      BY <2>2, <2>3, <2>4, Zenon
  <1>6. PICK w : w = [k \in 1..n |-> Shifted(p, section, i, k)]
    OBVIOUS
  <1>7. PICK total : total = [k \in 0..n |-> v % 2^t[k]]
    OBVIOUS
  <1>8. ASSUME NEW k \in 1..n
        PROVE  w[k] \in Nat /\ total[k - 1] \in Nat /\ total[k] = total[k - 1] + w[k]
    <2>1. PICK a \in Nat, b \in Nat : /\ a = t[k - 1] /\ a = p[k].from /\ t[k] = a + b
                                      /\ p[k].to - p[k].from + 1 = b
      <3>1. p[k].from \in Nat /\ p[k].to \in Nat /\ p[k].from <= p[k].to
        BY DEF Covering
      <3>2. PICK f \in Nat, e \in Nat : f = p[k].from /\ e = p[k].to /\ f <= e
        BY <3>1
      <3>3. e - f + 1 \in Nat /\ e + 1 = f + (e - f + 1)
        BY <3>2
      <3>. QED
        BY <1>5, <3>2, <3>3
    <2>2. PICK A \in Nat \ {0}, B \in Nat \ {0} : A = 2^a /\ B = 2^b
      BY PowerNext
    <2>3. PICK x \in Nat : x = (v \div A) % B /\ x % B = x
      <3>1. v \div A \in Nat
        BY Divided
      <3>2. (v \div A) % B \in 0..(B - 1)
        BY <3>1, Divided
      <3>3. PICK x \in 0..(B - 1) : x = (v \div A) % B
        BY <3>2
      <3>4. (0 * B + x) % B = x
        BY Quotient
      <3>5. 0 * B + x = x
        OBVIOUS
      <3>. QED
        BY <3>3, <3>4, <3>5
    <2>4. section[k][i] = x
      BY <2>1, <2>2, <2>3 DEF SectionOf
    <2>5. w[k] = x * A
      BY <1>6, <2>1, <2>2, <2>3, <2>4 DEF Shifted
    <2>6. total[k - 1] = v % A /\ total[k] = v % 2^(a + b)
      <3>1. k - 1 \in 0..n /\ k \in 0..n
        OBVIOUS
      <3>. QED
        BY <1>7, <2>1, <2>2, <3>1, Zenon
    <2>7. v % 2^(a + b) = (v % A) + x * A
      <3>1. v % 2^(a + b) = (v % 2^a) + ((v \div 2^a) % 2^b) * 2^a
        BY LowerBits
      <3>. QED
        BY <2>2, <2>3, <3>1, Zenon
    <2>8. PICK y \in Nat, e \in Nat : y = v % A /\ e = x * A
      <3>1. v % A \in Nat
        BY Divided
      <3>2. x * A \in Nat
        OBVIOUS
      <3>. QED
        BY <3>1, <3>2
    <2>. QED
      BY <2>5, <2>6, <2>7, <2>8
  <1>9. total[0] = 0
    <2>1. v % 1 = 0 /\ 0 \in 0..n
      OBVIOUS
    <2>. QED
      BY <1>5, <1>7, <2>1, PowerOfNothing, Zenon
  <1>10. total[n] = v
    <2>1. 0 \in Nat /\ (0 * limit + v) % limit = v
      BY <1>3, Quotient
    <2>2. 0 * limit + v = v
      BY <1>3
    <2>3. v % limit = v
      BY <2>1, <2>2
    <2>. QED
      BY <1>1, <1>5, <1>7, <1>2, <2>3
  <1>11. w \in [1..n -> Nat] /\ RunningSum(w, n, total)
    <2>1. \A k \in 0..n : total[k] \in Nat
      <3>1. ASSUME NEW k \in 0..n
            PROVE  total[k] \in Nat
        <4>1. PICK B \in Nat \ {0} : B = 2^t[k]
          BY <1>5, PowerNext
        <4>2. v % B \in Nat
          BY Divided
        <4>. QED
          BY <1>7, <4>1, <4>2
      <3>. QED
        BY <3>1
    <2>. QED
      BY <1>6, <1>7, <1>8, <1>9, <2>1 DEF RunningSum
  <1>12. PICK s : s = [k \in 1..n |-> k]
    OBVIOUS
  <1>13. \A k \in 1..n : w[k] = Shifted(p, section, i, k)
    BY <1>6
  <1>14. JoinedOf(p, section, i, s) = total[n]
    BY <1>11, <1>12, <1>13, SectionsAddUp, SMTT(30)
  <1>. QED
    BY <1>10, <1>12, <1>14, Zenon

---------------------------------------------------------------------------
(* Where the sections are *)

\* Each section starts where the one before it said it ends.
Chained(p, n) ==
    \A k \in 1..n : /\ p[k].used \in Nat
                    /\ p[k].offset = (IF k = 1 THEN 0 ELSE p[k - 1].offset + p[k - 1].used)
PlacedAt(p, n, t) ==
    /\ t \in [0..n -> Nat] /\ t[0] = 0 /\ SumOfUsed(p) = t[n]
    /\ \A k \in 1..n : /\ p[k].used \in Nat /\ p[k].offset = t[k - 1]
                       /\ t[k] = t[k - 1] + p[k].used

LEMMA SectionsPlaced ==
    ASSUME NEW n \in Nat, NEW p, DOMAIN p = 1..n, Chained(p, n)
    PROVE  \E t : PlacedAt(p, n, t)
  <1>1. PICK w : w = [k \in 1..n |-> p[k].used]
    OBVIOUS
  <1>2. w \in [1..n -> Nat] /\ \A k \in 1..n : w[k] = p[k].used
    BY <1>1 DEF Chained
  <1>3. PICK t : RunningSum(w, n, t)
    BY <1>2, RunningSumExists
  <1>4. t \in [0..n -> Nat] /\ t[0] = 0 /\ \A k \in 1..n : t[k] = t[k - 1] + p[k].used
    BY <1>2, <1>3 DEF RunningSum
  <1>5. SumOfUsed(p) = t[n]
    BY <1>2, <1>3, SizesAddUp
  <1>. DEFINE S == {k \in 0..n : k # 0 => p[k].offset = t[k - 1]}
  <1>6. 0..n \subseteq S
    <2>1. 0 \in S
      OBVIOUS
    <2>2. ASSUME NEW k \in 0..(n - 1), k \in S
          PROVE  k + 1 \in S
      <3>1. PICK m \in 1..n : m = k + 1 /\ m - 1 = k
        OBVIOUS
      <3>2. CASE k = 0
        <4>1. p[m].offset = 0
          BY <3>1, <3>2 DEF Chained
        <4>. QED
          BY <1>4, <3>1, <3>2, <4>1
      <3>3. CASE k # 0
        <4>1. k \in 1..n
          BY <3>3
        <4>2. p[m].offset = p[k].offset + p[k].used
          BY <3>1, <3>3 DEF Chained
        <4>3. p[k].offset = t[k - 1] /\ t[k] = t[k - 1] + p[k].used
          BY <1>4, <2>2, <4>1
        <4>. QED
          BY <3>1, <4>2, <4>3
      <3>. QED
        BY <3>2, <3>3
    <2>. HIDE DEF S
    <2>. QED
      BY <2>1, <2>2, IntervalInduction
  <1>7. \A k \in 1..n : p[k].offset = t[k - 1]
    <2>1. \A k \in 1..n : k \in 0..n /\ k # 0
      OBVIOUS
    <2>. QED
      BY <1>6, <2>1
  <1>. QED
    BY <1>2, <1>4, <1>5, <1>7 DEF PlacedAt, Chained

\* A later section starts after an earlier one.
LEMMA LaterStarts ==
    ASSUME NEW n \in Nat, NEW p, NEW t, PlacedAt(p, n, t), NEW k \in 1..n, NEW j \in (k + 1)..n
    PROVE  p[k].offset + p[k].used <= p[j].offset /\ p[k].offset \in Nat /\ p[j].offset \in Nat
  <1>. DEFINE S == {m \in 0..n : m >= k => t[k] <= t[m]}
  <1>1. \A m \in 0..n : t[m] \in Nat
    BY DEF PlacedAt
  <1>2. 0..n \subseteq S
    <2>1. 0 \in S
      OBVIOUS
    <2>2. ASSUME NEW m \in 0..(n - 1), m \in S
          PROVE  m + 1 \in S
      <3>1. PICK i \in 1..n : i = m + 1 /\ i - 1 = m
        OBVIOUS
      <3>2. PICK a \in Nat, b \in Nat, c \in Nat : a = t[m] /\ b = t[i] /\ c = t[k]
        BY <1>1
      <3>3. a <= b
        <4>1. PICK u \in Nat : u = p[i].used
          BY DEF PlacedAt
        <4>2. t[i] = t[i - 1] + u
          BY <4>1 DEF PlacedAt
        <4>. QED
          BY <3>1, <3>2, <4>2
      <3>. QED
        BY <2>2, <3>1, <3>2, <3>3
    <2>. HIDE DEF S
    <2>. QED
      BY <2>1, <2>2, IntervalInduction
  <1>3. PICK i \in 0..n : i = j - 1 /\ i >= k /\ k \in 0..n /\ k - 1 \in 0..n
    OBVIOUS
  <1>4. t[k] <= t[i]
    BY <1>2, <1>3
  <1>5. PICK a \in Nat, u \in Nat, e \in Nat :
           /\ a = p[k].offset /\ u = p[k].used /\ a = t[k - 1] /\ t[k] = a + u
           /\ e = p[j].offset /\ e = t[i]
    <2>1. j \in 1..n
      OBVIOUS
    <2>2. p[k].offset = t[k - 1] /\ p[k].used \in Nat /\ t[k] = t[k - 1] + p[k].used /\ p[j].offset = t[j - 1]
      BY <2>1 DEF PlacedAt
    <2>. QED
      BY <1>1, <1>3, <2>2
  <1>. QED
    BY <1>4, <1>5

\* What a section says it uses, of what it wrote.
AllSchemes == {"ONE_VALUE", "UNCOMPRESSED", "BP", "PFOR"}
Sized(s) ==
    /\ s.scheme \in AllSchemes /\ Len(s.data) \in Nat
    /\ s.scheme = "ONE_VALUE" => Len(s.data) = 1 /\ s.used = 4
    /\ s.scheme = "UNCOMPRESSED" => s.used = 4 * Len(s.data)
    /\ s.scheme = "BP" => s.used = 8 + 4 * Len(s.data)
    /\ s.scheme = "PFOR" => s.used = 24 + 4 * Len(s.data)

\* It writes no byte that it does not say it uses, whatever its address is.
LEMMA BytesWithin ==
    ASSUME NEW s, Sized(s), base \in Nat, s.offset \in Nat, s.used \in Nat
    PROVE  \A x \in BytesOf(s) : x \in base + s.offset .. base + s.offset + s.used - 1
  <1>1. PICK start \in Nat, l \in Nat, u \in Nat :
           start = base + s.offset /\ l = Len(s.data) /\ u = s.used
    BY DEF Sized
  <1>2. CASE s.scheme = "ONE_VALUE"
    <2>1. BytesOf(s) = start..(start + 4 * l - 1)
      BY <1>1, <1>2, Zenon DEF BytesOf
    <2>2. l = 1 /\ u = 4
      BY <1>1, <1>2 DEF Sized
    <2>. QED
      BY <1>1, <2>1, <2>2
  <1>3. CASE s.scheme = "UNCOMPRESSED"
    <2>1. BytesOf(s) = start..(start + 4 * l - 1)
      BY <1>1, <1>3, Zenon DEF BytesOf
    <2>2. u = 4 * l
      BY <1>1, <1>3 DEF Sized
    <2>. QED
      BY <1>1, <2>1, <2>2
  <1>4. ASSUME s.scheme \in {"BP", "PFOR"}
        PROVE  \A x \in BytesOf(s) : x \in start..(start + u - 1)
    <2>1. BytesOf(s) = PackedBytes(s.scheme, start, s.data)
      <3>1. s.scheme \notin {"ONE_VALUE", "UNCOMPRESSED"}
        BY <1>4
      <3>. QED
        BY <1>1, <3>1, Zenon DEF BytesOf
    <2>2. PICK a \in Nat \ {0} : a = Alignment(s.scheme) /\ a \in {4, 16} /\ (s.scheme = "BP" <=> a = 4)
      BY <1>4 DEF Alignment
    <2>3. PICK d \in 0..(a - 1) : d = Padding(s.scheme, start)
      <3>1. PICK r \in 0..(a - 1) : r = (start + 5) % a
        <4>1. start + 5 \in Nat
          OBVIOUS
        <4>2. (start + 5) % a \in 0..(a - 1)
          BY <4>1, Divided
        <4>. QED
          BY <4>2
      <3>2. (a - r) % a \in 0..(a - 1)
        <4>1. a - r \in Nat
          BY <3>1
        <4>. QED
          BY <4>1, Divided
      <3>3. Padding(s.scheme, start) = (a - r) % a
        BY <2>2, <3>1 DEF Padding, DataOffset
      <3>. QED
        BY <3>2, <3>3
    <2>4. PICK data \in Nat : data = start + 5 + d
      OBVIOUS
    <2>5. BytesOf(s) = start..(start + 5 - 1) \cup data..(data + 4 * l - 1)
      BY <1>1, <2>1, <2>3, <2>4 DEF PackedBytes, DataOffset
    <2>6. u = (IF a = 4 THEN 8 ELSE 24) + 4 * l
      BY <1>1, <1>4, <2>2 DEF Sized
    <2>7. d <= (IF a = 4 THEN 3 ELSE 15)
      BY <2>2
    <2>8. PICK m \in Nat : m = 4 * l
      OBVIOUS
    <2>9. start + 5 - 1 <= start + u - 1 /\ data + m - 1 <= start + u - 1 /\ start <= data
      BY <2>4, <2>6, <2>7, <2>8
    <2>. QED
      BY <2>5, <2>8, <2>9
  <1>. QED
    BY <1>1, <1>2, <1>3, <1>4 DEF Sized, AllSchemes

LEMMA ApartAfter ==
    ASSUME NEW b \in Nat, NEW a \in Nat, NEW u \in Nat, NEW e \in Nat, NEW v \in Nat, a + u <= e
    PROVE  \A x : ~(x \in b + a .. b + a + u - 1 /\ x \in b + e .. b + e + v - 1)
  <1>1. b + a + u - 1 < b + e
    OBVIOUS
  <1>2. PICK h \in Int, l \in Int : h = b + a + u - 1 /\ l = b + e /\ h < l
    BY <1>1
  <1>3. \A x : x \in b + a .. h => x \in Int /\ x <= h
    OBVIOUS
  <1>4. \A x : x \in l .. b + e + v - 1 => x \in Int /\ l <= x
    OBVIOUS
  <1>5. \A x \in Int : ~(x <= h /\ l <= x)
    BY <1>2
  <1>. QED
    BY <1>2, <1>3, <1>4, <1>5, Zenon

\* No section is written over an earlier one.
LEMMA SectionsApart ==
    ASSUME NEW n \in Nat, DOMAIN packed = 1..n, Len(packed) = n, Chained(packed, n), base \in Nat,
           \A k \in 1..n : Sized(packed[k]), NEW k \in 1..n
    PROVE  Intact(k)
  <1>1. PICK t : PlacedAt(packed, n, t)
    BY SectionsPlaced
  <1>2. ASSUME NEW j \in (k + 1)..n
        PROVE  BytesOf(packed[k]) \cap BytesOf(packed[j]) = {}
    <2>1. /\ packed[k].offset + packed[k].used <= packed[j].offset
          /\ packed[k].offset \in Nat /\ packed[j].offset \in Nat
      BY <1>1, LaterStarts
    <2>2. j \in 1..n
      OBVIOUS
    <2>3. packed[k].used \in Nat /\ packed[j].used \in Nat
      BY <2>2 DEF Chained
    <2>4. Sized(packed[k]) /\ Sized(packed[j])
      BY <2>2
    <2>5. \A x \in BytesOf(packed[k]) :
             x \in base + packed[k].offset .. base + packed[k].offset + packed[k].used - 1
      BY <2>1, <2>3, <2>4, BytesWithin, Zenon
    <2>6. \A x \in BytesOf(packed[j]) :
             x \in base + packed[j].offset .. base + packed[j].offset + packed[j].used - 1
      BY <2>1, <2>3, <2>4, BytesWithin, Zenon
    <2>7. \A x : ~(/\ x \in base + packed[k].offset .. base + packed[k].offset + packed[k].used - 1
                  /\ x \in base + packed[j].offset .. base + packed[j].offset + packed[j].used - 1)
      BY <2>1, <2>3, ApartAfter, Zenon
    <2>. QED
      BY <2>5, <2>6, <2>7, Zenon
  <1>. QED
    BY <1>2 DEF Intact

---------------------------------------------------------------------------
(* A section and what is read of it *)

IsRange(s) == s.from \in Nat /\ s.to \in Nat /\ s.from <= s.to

\* A section written is the section of the segment, by one of the schemes.
IsSection(s, segment) ==
    /\ s.from = segment.from /\ s.to = segment.to /\ s.scheme \in AllSchemes
    /\ s.scheme = "ONE_VALUE" => IsConstant(SectionValues(segment))
    /\ s.used = PackedBy(s.scheme, SectionValues(segment)).used
    /\ s.data = PackedBy(s.scheme, SectionValues(segment)).data

LEMMA ColumnTypes ==
    ASSUME column \in Inputs
    PROVE  /\ column.values \in Seq(Nat) /\ Rows \in Nat
           /\ \A i \in 1..Rows : column.values[i] \in Nat /\ column.values[i] < 2^ValueBits
  <1>1. PICK b \in Nat \ {0} : b = 2^ValueBits
    BY PlannerAssumption, PowerNext
  <1>2. column.values \in Seq(0..(b - 1))
    BY <1>1, PlannerAssumption
  <1>3. PICK v \in Seq(0..(b - 1)) : v = column.values
    BY <1>2
  <1>4. v \in Seq(Nat)
    BY <1>3
  <1>5. \A i \in 1..Len(v) : v[i] \in 0..(b - 1)
    BY <1>3
  <1>6. \A i \in 1..Len(v) : v[i] \in Nat /\ v[i] < b
    BY <1>5
  <1>. QED
    BY <1>1, <1>3, <1>4, <1>6 DEF Rows

LEMMA SectionValuesAre ==
    ASSUME column \in Inputs, NEW s, IsRange(s), NEW values, values = SectionValues(s)
    PROVE  /\ values \in Seq(Nat) /\ Len(values) = Rows
           /\ \A i \in 1..Rows : values[i] = SectionOf(column.values[i], s)
           /\ \E b \in Nat : values \in Seq(0..b)
  <1>1. PICK n \in Nat : n = Rows
    BY ColumnTypes
  <1>2. PICK from \in Nat, w \in Nat : from = s.from /\ w = s.to - s.from + 1
    BY DEF IsRange
  <1>3. PICK b \in Nat : b = 2^w - 1
    <2>1. PICK B \in Nat \ {0} : B = 2^w
      BY PowerNext
    <2>. QED
      BY <2>1
  <1>4. values = [i \in 1..n |-> SectionOf(column.values[i], s)]
    BY <1>1, Zenon DEF SectionValues, SectionOf
  <1>5. ASSUME NEW i \in 1..n
        PROVE  SectionOf(column.values[i], s) \in 0..b
    <2>1. PICK v \in Nat : v = column.values[i]
      BY <1>1, ColumnTypes
    <2>2. (v \div 2^from) % 2^w \in 0..(2^w - 1)
      BY FieldType
    <2>. QED
      BY <1>2, <1>3, <2>1, <2>2, Zenon DEF SectionOf
  <1>6. values \in [1..n -> 0..b] /\ values \in [1..n -> Nat]
    BY <1>4, <1>5
  <1>. QED
    BY <1>1, <1>4, <1>6, ASequence

LEMMA ConstantValues ==
    ASSUME NEW b \in Nat, NEW values \in Seq(0..b), IsConstant(values), NEW i \in 1..Len(values)
    PROVE  values[i] = values[1]
  <1>1. IsFiniteSet(Range(values))
    BY DistinctValues
  <1>2. PICK x : Range(values) = {x}
    BY <1>1, FS_Singleton DEF IsConstant
  <1>3. i \in DOMAIN values /\ 1 \in DOMAIN values
    OBVIOUS
  <1>4. values[i] \in Range(values) /\ values[1] \in Range(values)
    BY <1>3, Zenon DEF Range
  <1>. QED
    BY <1>2, <1>4

LEMMA SectionSize ==
    ASSUME column \in Inputs, NEW segment, IsRange(segment), NEW s, IsSection(s, segment)
    PROVE  Sized(s) /\ s.used \in Nat
  <1>1. PICK values : values = SectionValues(segment)
    OBVIOUS
  <1>2. values \in Seq(Nat)
    BY <1>1, SectionValuesAre
  <1>3. /\ s.scheme \in AllSchemes /\ s.used = PackedBy(s.scheme, values).used
        /\ s.data = PackedBy(s.scheme, values).data
    BY <1>1 DEF IsSection
  <1>4. CASE s.scheme = "ONE_VALUE"
    <2>1. s.used = 4 /\ s.data = <<values[1]>>
      BY <1>3, <1>4 DEF PackedBy
    <2>. QED
      BY <1>4, <2>1 DEF Sized, AllSchemes
  <1>5. CASE s.scheme = "UNCOMPRESSED"
    <2>1. s.used = 4 * Len(values) /\ s.data = values
      BY <1>3, <1>5 DEF PackedBy
    <2>. QED
      BY <1>2, <1>5, <2>1 DEF Sized, AllSchemes
  <1>6. CASE s.scheme \in {"BP", "PFOR"}
    <2>1. PICK words : words = Packed(values)
      OBVIOUS
    <2>2. PICK l \in Nat : l = Len(words)
      BY <1>2, <2>1, PackedWords
    <2>3. s.used = PackedSize(s.scheme, words) /\ s.data = words
      <3>1. s.scheme # "ONE_VALUE" /\ s.scheme # "UNCOMPRESSED"
        BY <1>6
      <3>. QED
        BY <1>3, <2>1, <3>1 DEF PackedBy
    <2>4. s.used = 8 + 4 * l + (IF s.scheme = "PFOR" THEN 16 ELSE 0)
      BY <2>2, <2>3, Zenon DEF PackedSize, StructureSize
    <2>. QED
      BY <1>6, <2>2, <2>3, <2>4 DEF Sized, AllSchemes
  <1>. QED
    BY <1>3, <1>4, <1>5, <1>6 DEF AllSchemes

\* Read whole or row by row, a section gives back its part of every value.
LEMMA SectionRead ==
    ASSUME column \in Inputs, NEW k, NEW segment, IsRange(segment), IsSection(packed[k], segment),
           Intact(k), NEW i \in 1..Rows
    PROVE  SectionAll(k)[i] = SectionOf(column.values[i], segment)
  <1>1. PICK values : values = SectionValues(segment)
    OBVIOUS
  <1>2. /\ values \in Seq(Nat) /\ Len(values) = Rows
        /\ values[i] = SectionOf(column.values[i], segment)
        /\ \E b \in Nat : values \in Seq(0..b)
    BY <1>1, SectionValuesAre
  <1>3. PICK s : s = packed[k]
    OBVIOUS
  <1>4. /\ s.scheme \in AllSchemes /\ s.data = PackedBy(s.scheme, values).data
        /\ s.scheme = "ONE_VALUE" => IsConstant(values)
    BY <1>1, <1>3 DEF IsSection
  <1>5. CASE s.scheme = "ONE_VALUE"
    <2>1. SectionAll(k)[i] = s.data[1]
      BY <1>3, <1>5, Zenon DEF SectionAll
    <2>2. s.data[1] = values[1]
      BY <1>4, <1>5 DEF PackedBy
    <2>3. values[i] = values[1]
      BY <1>2, <1>4, <1>5, ConstantValues
    <2>. QED
      BY <1>2, <2>1, <2>2, <2>3
  <1>6. CASE s.scheme = "UNCOMPRESSED"
    <2>1. SectionAll(k) = s.data
      <3>1. s.scheme # "ONE_VALUE"
        BY <1>6
      <3>. QED
        BY <1>3, <1>6, <3>1, Zenon DEF SectionAll
    <2>2. s.data = values
      BY <1>4, <1>6 DEF PackedBy
    <2>. QED
      BY <1>2, <2>1, <2>2
  <1>7. CASE s.scheme \in {"BP", "PFOR"}
    <2>1. s.scheme # "ONE_VALUE" /\ s.scheme # "UNCOMPRESSED"
      BY <1>7
    <2>2. SectionAll(k) = Decompressed(s.data)
      BY <1>3, <2>1, Zenon DEF SectionAll
    <2>3. s.data = Packed(values)
      BY <1>4, <2>1 DEF PackedBy
    <2>4. Decompressed(Packed(values)) = values
      BY <1>2, PackedReadBack
    <2>. QED
      BY <1>2, <2>2, <2>3, <2>4
  <1>. QED
    BY <1>4, <1>5, <1>6, <1>7 DEF AllSchemes

LEMMA SectionRowRead ==
    ASSUME column \in Inputs, NEW k, NEW segment, IsRange(segment), IsSection(packed[k], segment),
           Intact(k), NEW positions, NEW i \in DOMAIN positions, positions[i] \in 0..(Rows - 1)
    PROVE  SectionAt(k, positions)[i] = SectionOf(column.values[positions[i] + 1], segment)
  <1>1. PICK values : values = SectionValues(segment)
    OBVIOUS
  <1>2. PICK n \in Nat, row \in Nat : n = Rows /\ row = positions[i] /\ row < n
    <2>1. Rows \in Nat
      BY ColumnTypes
    <2>. QED
      BY <2>1
  <1>3. row + 1 \in 1..n
    BY <1>2
  <1>4. /\ values \in Seq(Nat) /\ Len(values) = n
        /\ values[row + 1] = SectionOf(column.values[row + 1], segment)
        /\ \E b \in Nat : values \in Seq(0..b)
    BY <1>1, <1>2, <1>3, SectionValuesAre
  <1>5. PICK s : s = packed[k]
    OBVIOUS
  <1>6. /\ s.scheme \in AllSchemes /\ s.data = PackedBy(s.scheme, values).data
        /\ s.scheme = "ONE_VALUE" => IsConstant(values)
    BY <1>1, <1>5 DEF IsSection
  <1>7. CASE s.scheme = "ONE_VALUE"
    <2>1. SectionAt(k, positions)[i] = s.data[1]
      BY <1>5, <1>7, Zenon DEF SectionAt
    <2>2. s.data[1] = values[1]
      BY <1>6, <1>7 DEF PackedBy
    <2>3. values[row + 1] = values[1]
      <3>1. PICK j \in 1..Len(values) : j = row + 1
        BY <1>3, <1>4
      <3>. QED
        BY <1>4, <1>6, <1>7, <3>1, ConstantValues
    <2>. QED
      BY <1>2, <1>4, <2>1, <2>2, <2>3
  <1>8. CASE s.scheme = "UNCOMPRESSED"
    <2>1. SectionAt(k, positions)[i] = s.data[positions[i] + 1]
      <3>1. s.scheme # "ONE_VALUE"
        BY <1>8
      <3>. QED
        BY <1>5, <1>8, <3>1, Zenon DEF SectionAt
    <2>2. s.data = values
      BY <1>6, <1>8 DEF PackedBy
    <2>. QED
      BY <1>2, <1>4, <2>1, <2>2
  <1>9. CASE s.scheme = "BP"
    <2>1. s.scheme # "ONE_VALUE" /\ s.scheme # "UNCOMPRESSED"
      BY <1>9
    <2>2. SectionAt(k, positions)[i] = PackedGather(s.data, positions)[i]
      BY <1>5, <1>9, <2>1, Zenon DEF SectionAt
    <2>3. s.data = Packed(values)
      BY <1>6, <2>1 DEF PackedBy
    <2>4. positions[i] \in 0..(Len(values) - 1)
      BY <1>2, <1>4
    <2>5. PackedGather(Packed(values), positions)[i] = values[positions[i] + 1]
      BY <1>4, <2>4, PackedGatherRead
    <2>. QED
      BY <1>2, <1>4, <2>2, <2>3, <2>5
  <1>10. CASE s.scheme = "PFOR"
    <2>1. s.scheme # "ONE_VALUE" /\ s.scheme # "UNCOMPRESSED" /\ s.scheme # "BP"
      BY <1>10
    <2>2. SectionAt(k, positions)[i] = Decompressed(s.data)[positions[i] + 1]
      BY <1>5, <2>1, Zenon DEF SectionAt
    <2>3. s.data = Packed(values)
      BY <1>6, <2>1 DEF PackedBy
    <2>4. Decompressed(Packed(values)) = values
      BY <1>4, PackedReadBack
    <2>. QED
      BY <1>2, <1>4, <2>2, <2>3, <2>4
  <1>. QED
    BY <1>6, <1>7, <1>8, <1>9, <1>10 DEF AllSchemes

\* A sequence of whatever it is a sequence of.
Listed(f, n) == f = [k \in 1..n |-> f[k]]

HasOneMore(g, f, n, x) ==
    /\ Len(g) = n + 1 /\ Listed(g, n + 1) /\ DOMAIN g = 1..(n + 1)
    /\ \A k \in 1..n : g[k] = f[k]
    /\ g[n + 1] = x

LEMMA AppendIs ==
    ASSUME NEW n \in Nat, NEW f, Listed(f, n), NEW x
    PROVE  HasOneMore(Append(f, x), f, n, x)
  <1>. DEFINE g == Append(f, x)
  <1>1. PICK S : S = {f[k] : k \in 1..n} \cup {x}
    OBVIOUS
  <1>2. \A k \in 1..n : f[k] \in S
    BY <1>1
  <1>3. f \in [1..n -> S]
    BY <1>2 DEF Listed
  <1>4. f \in Seq(S) /\ Len(f) = n
    BY <1>3, ASequence
  <1>5. x \in S
    BY <1>1
  <1>6. /\ g \in Seq(S) /\ Len(g) = n + 1 /\ g[n + 1] = x
        /\ \A k \in 1..n : g[k] = f[k]
    BY <1>4, <1>5, AppendProperties
  <1>. HIDE DEF g
  <1>7. Listed(g, n + 1) /\ DOMAIN g = 1..(n + 1)
    BY <1>6 DEF Listed
  <1>8. HasOneMore(g, f, n, x)
    BY <1>6, <1>7 DEF HasOneMore
  <1>. QED
    BY <1>8 DEF g

\* What the next section adds.
LEMMA OneMoreSection ==
    ASSUME NEW n \in Nat, NEW p, DOMAIN p = 1..n, Chained(p, n),
           NEW q, DOMAIN q = 1..(n + 1), \A k \in 1..n : q[k] = p[k],
           q[n + 1].used \in Nat, q[n + 1].offset = SumOfUsed(p)
    PROVE  /\ Chained(q, n + 1) /\ SumOfUsed(p) \in Nat
           /\ SumOfUsed(q) = SumOfUsed(p) + q[n + 1].used
  <1>1. PICK t : PlacedAt(p, n, t)
    BY SectionsPlaced
  <1>2. PICK m \in Nat : m = n + 1 /\ m - 1 = n /\ m \in 1..m
    OBVIOUS
  <1>3. \A k \in 1..n : k \in 1..m /\ k # m /\ (k # 1 => k - 1 \in 1..n)
    BY <1>2
  <1>4. q[m].offset = (IF m = 1 THEN 0 ELSE q[m - 1].offset + q[m - 1].used)
    <2>1. q[m].offset = t[n]
      BY <1>1, <1>2 DEF PlacedAt
    <2>2. CASE n = 0
      BY <1>1, <1>2, <2>1, <2>2 DEF PlacedAt
    <2>3. CASE n # 0
      <3>1. n \in 1..n
        BY <2>3
      <3>2. p[n].offset = t[n - 1] /\ t[n] = t[n - 1] + p[n].used
        BY <1>1, <3>1 DEF PlacedAt
      <3>3. q[m - 1] = p[n]
        BY <1>2, <3>1
      <3>. QED
        BY <1>2, <2>1, <2>3, <3>2, <3>3
    <2>. QED
      BY <2>2, <2>3
  <1>5. ASSUME NEW k \in 1..m
        PROVE  /\ q[k].used \in Nat
               /\ q[k].offset = (IF k = 1 THEN 0 ELSE q[k - 1].offset + q[k - 1].used)
    <2>1. CASE k = m
      BY <1>2, <1>4, <2>1
    <2>2. CASE k # m
      <3>1. k \in 1..n
        BY <1>2, <2>2
      <3>2. k # 1 => k - 1 \in 1..n
        BY <3>1
      <3>3. /\ p[k].used \in Nat
            /\ p[k].offset = (IF k = 1 THEN 0 ELSE p[k - 1].offset + p[k - 1].used)
        BY <3>1 DEF Chained
      <3>. QED
        BY <3>1, <3>2, <3>3
    <2>. QED
      BY <2>1, <2>2
  <1>6. Chained(q, m)
    BY <1>5 DEF Chained
  <1>7. PICK u : PlacedAt(q, m, u)
    BY <1>2, <1>6, SectionsPlaced
  <1>8. q[m].offset = u[m - 1] /\ u[m] = u[m - 1] + q[m].used /\ SumOfUsed(q) = u[m]
    BY <1>2, <1>7 DEF PlacedAt
  <1>9. SumOfUsed(p) \in Nat
    BY <1>1 DEF PlacedAt
  <1>. QED
    BY <1>2, <1>6, <1>8, <1>9

LEMMA NothingUsed == SumOfUsed(<<>>) = 0
  <1>1. PICK p : p = <<>>
    OBVIOUS
  <1>2. DOMAIN p = 1..0 /\ Chained(p, 0)
    BY <1>1 DEF Chained
  <1>3. PICK t : PlacedAt(p, 0, t)
    BY <1>2, SectionsPlaced
  <1>4. SumOfUsed(p) = 0
    BY <1>3 DEF PlacedAt
  <1>. QED
    BY <1>1, <1>4

---------------------------------------------------------------------------
(* The inductive invariant of the encoder *)

\* What is written so far is the sections of the plan so far, within the values' size.
Encoding ==
    /\ base \in Nat
    /\ pc \in {"encoding", "encoded"} => Rows > 0
    /\ pc \notin {"encoding", "encoded"} => packed = <<>>
    /\ Len(packed) \in Nat /\ Listed(packed, Len(packed))
    /\ Len(packed) <= Len(plan.segments)
    /\ pc = "encoded" => Len(packed) = Len(plan.segments)
    /\ Written <= RawSize
    /\ \A k \in 1..Len(packed) : IsSection(packed[k], plan.segments[k])
    /\ Chained(packed, Len(packed))

\* Only what is written or given up is read.
Answered ==
    /\ pc \notin {"encoded", "raw"} => answer = NoRows
    /\ Len(answer.values) = Len(answer.rows)
    /\ SectionsReadBack

EInv == IInv /\ Encoding /\ Answered

LEMMA RowsType ==
    ASSUME NEW c \in Inputs \cup {NoColumn}
    PROVE  Len(c.values) \in Nat /\ Len(c.values) * ValueBytes \in Nat
  <1>1. Len(c.values) \in Nat
    <2>1. CASE c = NoColumn
      BY <2>1 DEF NoColumn
    <2>2. CASE c \in Inputs
      <3>1. PICK v \in Seq(0..(2^ValueBits - 1)) : v = c.values
        BY <2>2, PlannerAssumption
      <3>2. Len(v) \in Nat
        OBVIOUS
      <3>. QED
        BY <3>1, <3>2
    <2>. QED
      BY <2>1, <2>2
  <1>2. PICK n \in Nat, b \in Nat : n = Len(c.values) /\ b = ValueBytes
    BY <1>1, EncoderAssumption
  <1>3. n * b \in Nat
    OBVIOUS
  <1>. QED
    BY <1>2, <1>3

\* An empty output is as it should be before the encoding and after it is given up.
LEMMA NothingWritten ==
    ASSUME IInv', packed' = <<>>, base' \in Nat, pc' # "encoded", pc' = "encoding" => Rows' > 0
    PROVE  Encoding'
  <1>1. Len(plan'.segments) \in Nat /\ column' \in Inputs \cup {NoColumn}
    BY DEF IInv, ForcedTiles, Called
  <1>2. Written' = 0
    <2>1. Written' = SumOfUsed(packed')
      BY Zenon DEF Written, SumOfUsed, FoldSeq, FoldFunction, FoldFunctionOnSet, MapThenFoldSet
    <2>. QED
      BY <2>1, NothingUsed
  <1>3. RawSize' \in Nat
    BY <1>1, RowsType DEF RawSize, Rows
  <1>4. Chained(packed, Len(packed))' /\ Len(packed)' = 0 /\ Listed(packed, Len(packed))'
    BY DEF Chained, Listed
  <1>5. \A k \in 1..Len(packed)' : IsSection(packed[k], plan.segments[k])'
    BY <1>4
  <1>. QED
    BY <1>1, <1>2, <1>3, <1>4, <1>5 DEF Encoding

LEMMA NoAnswer ==
    ASSUME answer' = NoRows
    PROVE  Answered'
  BY DEF Answered, SectionsReadBack, NoRows

LEMMA EncoderInit == Init => EInv
  <1>. SUFFICES ASSUME Init PROVE EInv
    OBVIOUS
  <1>1. /\ pc = "idle" /\ column = NoColumn /\ plan = NoPlan
        /\ base = 0 /\ packed = <<>> /\ answer = NoRows
    BY DEF Init, PlanInit
  <1>2. IInv
    BY InitInv
  <1>3. Answered
    BY <1>1 DEF Answered, SectionsReadBack, NoRows
  <1>4. Len(plan.segments) = 0
    BY <1>1 DEF NoPlan
  <1>5. Written = 0
    BY <1>1, NothingUsed DEF Written, SumOfUsed
  <1>6. RawSize \in Nat
    BY <1>1, RowsType DEF RawSize, Rows
  <1>7. Chained(packed, Len(packed)) /\ Len(packed) = 0 /\ Listed(packed, Len(packed))
    BY <1>1 DEF Chained, Listed
  <1>8. \A k \in 1..Len(packed) : IsSection(packed[k], plan.segments[k])
    BY <1>7
  <1>. QED
    BY <1>1, <1>2, <1>3, <1>4, <1>5, <1>6, <1>7, <1>8 DEF EInv, Encoding

---------------------------------------------------------------------------
(* Every step keeps the encoder's invariant *)

LEMMA WrittenIs == Written = SumOfUsed(packed) /\ Written' = SumOfUsed(packed')
  BY Zenon DEF Written, SumOfUsed, FoldSeq, FoldFunction, FoldFunctionOnSet, MapThenFoldSet

LEMMA SectionFrame ==
    ASSUME UNCHANGED column
    PROVE  /\ Rows' = Rows /\ RawSize' = RawSize
           /\ \A segment : SectionValues(segment)' = SectionValues(segment)
           /\ \A s, segment : IsSection(s, segment)' <=> IsSection(s, segment)
  BY DEF Rows, RawSize, SectionValues, IsSection

LEMMA PlannerStep ==
    ASSUME EInv, IInv', PlanNext, UNCHANGED <<base, packed, answer>>
    PROVE  EInv'
  <1>1. pc \notin {"encoding", "encoded", "raw"} /\ pc' \notin {"encoding", "encoded", "raw"}
    BY DEF EInv, IInv, Called, PlanNext, EnforceBoundaries, StartPlan, Sample, ScoreRange, Solve
  <1>2. packed = <<>> /\ answer = NoRows /\ base \in Nat
    BY <1>1 DEF EInv, Encoding, Answered
  <1>3. Encoding'
    BY <1>1, <1>2, NothingWritten
  <1>4. Answered'
    BY <1>2, NoAnswer
  <1>. QED
    BY <1>3, <1>4 DEF EInv

LEMMA EncodeNothingStep ==
    ASSUME EInv, IInv', EncodeNothing
    PROVE  EInv'
  <1>1. /\ packed' = <<>> /\ answer' = NoRows /\ base' \in Nat /\ pc' = "raw"
    BY EncoderAssumption DEF EInv, Encoding, Answered, EncodeNothing
  <1>2. Encoding'
    BY <1>1, NothingWritten
  <1>3. Answered'
    BY <1>1, NoAnswer
  <1>. QED
    BY <1>2, <1>3 DEF EInv

LEMMA StartEncodeStep ==
    ASSUME EInv, IInv', StartEncode
    PROVE  EInv'
  <1>1. /\ packed' = <<>> /\ answer' = NoRows /\ base' \in Nat /\ pc' = "encoding"
    BY EncoderAssumption DEF EInv, Encoding, Answered, StartEncode
  <1>2. Rows' > 0
    BY DEF StartEncode, Rows
  <1>3. Encoding'
    BY <1>1, <1>2, NothingWritten
  <1>4. Answered'
    BY <1>1, NoAnswer
  <1>. QED
    BY <1>3, <1>4 DEF EInv

LEMMA DoneStep ==
    ASSUME EInv, IInv', Done
    PROVE  EInv'
  <1>1. packed' = <<>> /\ answer' = NoRows /\ base' \in Nat /\ pc' = "idle"
    BY DEF Done
  <1>2. Encoding'
    BY <1>1, NothingWritten
  <1>3. Answered'
    BY <1>1, NoAnswer
  <1>. QED
    BY <1>2, <1>3 DEF EInv

LEMMA SectionStep ==
    ASSUME EInv, IInv', EncodeSection
    PROVE  EInv'
  <1>1. /\ pc = "encoding" /\ UNCHANGED <<column, plan, base, answer>>
        /\ Len(packed) < Len(plan.segments)
    BY DEF EncodeSection
  <1>2. answer' = NoRows /\ base' \in Nat
    BY <1>1 DEF EInv, Answered, Encoding
  <1>3. Answered'
    BY <1>2, NoAnswer
  <1>4. PICK n \in Nat : n = Len(packed) /\ n < Len(plan.segments)
    BY <1>1 DEF EInv, Encoding
  <1>5. PICK segment, values : segment = plan.segments[n + 1] /\ values = SectionValues(segment)
    OBVIOUS
  <1>6. PICK scheme \in IF IsConstant(values) THEN {"ONE_VALUE"} ELSE Schemes :
           IF TooLarge(PackedBy(scheme, values).used)
           THEN pc' = "raw" /\ packed' = <<>>
           ELSE /\ packed' = Append(packed, [from |-> segment.from, to |-> segment.to,
                                             scheme |-> scheme, offset |-> Written,
                                             used |-> PackedBy(scheme, values).used,
                                             data |-> PackedBy(scheme, values).data])
                /\ UNCHANGED pc
    BY <1>4, <1>5, Zenon DEF EncodeSection
  <1>7. CASE pc' = "raw" /\ packed' = <<>>
    <2>1. Encoding'
      BY <1>2, <1>7, NothingWritten
    <2>. QED
      BY <1>3, <2>1 DEF EInv
  <1>8. CASE ~TooLarge(PackedBy(scheme, values).used)
    <2>1. PICK s : s = [from |-> segment.from, to |-> segment.to, scheme |-> scheme,
                        offset |-> Written, used |-> PackedBy(scheme, values).used,
                        data |-> PackedBy(scheme, values).data]
      OBVIOUS
    <2>2. packed' = Append(packed, s) /\ pc' = "encoding"
      BY <1>1, <1>6, <1>8, <2>1, Zenon
    <2>3. /\ Listed(packed, n) /\ Chained(packed, n) /\ DOMAIN packed = 1..n
          /\ \A k \in 1..n : IsSection(packed[k], plan.segments[k])
      BY <1>4 DEF EInv, Encoding, Listed
    <2>4. PICK g : g = packed'
      OBVIOUS
    <2>5. /\ Len(g) = n + 1 /\ Listed(g, n + 1) /\ DOMAIN g = 1..(n + 1)
          /\ \A k \in 1..n : g[k] = packed[k]
          /\ g[n + 1] = s
      <3>1. HasOneMore(Append(packed, s), packed, n, s)
        BY <2>3, AppendIs
      <3>. QED
        BY <2>2, <2>4, <3>1 DEF HasOneMore
    <2>6. IsSection(s, segment)
      <3>1. scheme \in AllSchemes /\ (scheme = "ONE_VALUE" => IsConstant(values))
        BY <1>6, EncoderAssumption DEF AllSchemes
      <3>. QED
        BY <1>5, <2>1, <3>1 DEF IsSection
    <2>7. column \in Inputs /\ IsRange(segment)
      <3>1. column \in Inputs
        BY <1>1 DEF EInv, IInv, Called
      <3>2. Tiles(plan.segments) /\ Ranged(plan.segments)
        BY <1>1 DEF EInv, IInv, PlanReady
      <3>3. n + 1 \in DOMAIN plan.segments
        BY <1>4, <3>2 DEF Ranged
      <3>. QED
        BY <1>5, <3>1, <3>2, <3>3 DEF Ranged, Tiles, IsRange
    <2>8. s.used \in Nat
      BY <2>6, <2>7, SectionSize
    <2>9. s.offset = SumOfUsed(packed)
      BY <2>1, WrittenIs
    <2>10. /\ Chained(g, n + 1) /\ SumOfUsed(packed) \in Nat
           /\ SumOfUsed(g) = SumOfUsed(packed) + s.used
      <3>1. g[n + 1].used \in Nat /\ g[n + 1].offset = SumOfUsed(packed)
        BY <2>5, <2>8, <2>9
      <3>. QED
        BY <2>3, <2>5, <3>1, OneMoreSection
    <2>11. Written' <= RawSize'
      <3>1. RawSize \in Nat
        BY <2>7, RowsType DEF RawSize, Rows
      <3>2. ~(Written + s.used > RawSize)
        BY <1>8, <2>1 DEF TooLarge
      <3>3. Written = SumOfUsed(packed) /\ Written' = SumOfUsed(g)
        BY <2>4, WrittenIs
      <3>4. RawSize' = RawSize
        BY <1>1, SectionFrame
      <3>. QED
        BY <2>8, <2>10, <3>1, <3>2, <3>3, <3>4
    <2>12. ASSUME NEW k \in 1..(n + 1)
           PROVE  IsSection(g[k], plan.segments[k])
      <3>1. CASE k = n + 1
        BY <1>5, <2>5, <2>6, <3>1
      <3>2. CASE k # n + 1
        <4>1. k \in 1..n
          BY <3>2
        <4>. QED
          BY <2>3, <2>5, <4>1
      <3>. QED
        BY <3>1, <3>2
    <2>13. \A k \in 1..(n + 1) : IsSection(packed[k], plan.segments[k])'
      <3>1. \A k \in 1..(n + 1) : IsSection(g[k], plan.segments[k])'
        BY <1>1, <2>12, SectionFrame
      <3>. QED
        BY <2>4, <3>1
    <2>14. Rows' > 0
      BY <1>1, SectionFrame DEF EInv, Encoding
    <2>15. Len(packed)' = n + 1 /\ n + 1 \in Nat /\ n + 1 <= Len(plan.segments)'
      <3>1. Len(plan.segments) \in Nat
        BY DEF EInv, IInv, ForcedTiles
      <3>. QED
        BY <1>1, <1>4, <2>4, <2>5, <3>1
    <2>16. Listed(packed, n + 1)' /\ Chained(packed, n + 1)'
      BY <2>4, <2>5, <2>10 DEF Chained, Listed
    <2>17. Encoding'
      BY <1>2, <2>2, <2>11, <2>13, <2>14, <2>15, <2>16 DEF Encoding
    <2>. QED
      BY <1>3, <2>17 DEF EInv
  <1>. QED
    BY <1>6, <1>7, <1>8

LEMMA EndEncodeStep ==
    ASSUME EInv, IInv', EndEncode
    PROVE  EInv'
  <1>1. /\ pc = "encoding" /\ pc' = "encoded" /\ Len(packed) = Len(plan.segments)
        /\ UNCHANGED <<column, plan, base, packed, answer>>
    BY DEF EndEncode
  <1>2. answer' = NoRows
    BY <1>1 DEF EInv, Answered
  <1>3. Answered'
    BY <1>2, NoAnswer
  <1>4. Written' = Written
    BY <1>1, WrittenIs
  <1>5. Encoding'
    BY <1>1, <1>4, SectionFrame DEF EInv, Encoding, Chained, Listed
  <1>. QED
    BY <1>3, <1>5 DEF EInv

\* Sections that are read right are joined to the value.
LEMMA Joined ==
    ASSUME EInv, pc = "encoded", NEW v \in Nat, v < 2^ValueBits, NEW section, NEW i,
           \A k \in DOMAIN packed : section[k][i] = SectionOf(v, plan.segments[k])
    PROVE  JoinedAt(section, i) = v
  <1>1. Tiles(plan.segments) /\ Ranged(plan.segments)
    BY DEF EInv, IInv, PlanReady
  <1>2. PICK n \in Nat \ {0} : /\ n = Len(plan.segments) /\ n = Len(packed)
                               /\ DOMAIN plan.segments = 1..n /\ DOMAIN packed = 1..n
    BY <1>1 DEF EInv, Encoding, Ranged, Listed
  <1>3. \A k \in 1..n : packed[k].from = plan.segments[k].from /\ packed[k].to = plan.segments[k].to
    BY <1>2 DEF EInv, Encoding, IsSection
  <1>4. Covering(packed, n)
    <2>1. ASSUME NEW k \in 1..n
          PROVE  /\ packed[k].from \in Nat /\ packed[k].to \in Nat /\ packed[k].from <= packed[k].to
                 /\ packed[k].from = (IF k = 1 THEN 0 ELSE packed[k - 1].to + 1)
      <3>1. k # 1 => k - 1 \in 1..n
        OBVIOUS
      <3>. QED
        BY <1>1, <1>2, <1>3, <3>1 DEF Ranged, Tiles
    <2>2. packed[n].to = ValueBits - 1
      <3>1. n \in 1..n
        OBVIOUS
      <3>. QED
        BY <1>1, <1>2, <1>3, <3>1 DEF Tiles
    <2>. QED
      BY <1>2, <2>1, <2>2 DEF Covering
  <1>5. \A k \in 1..n : section[k][i] = SectionOf(v, packed[k])
    BY <1>2, <1>3 DEF SectionOf
  <1>6. JoinedOf(packed, section, i, [k \in 1..n |-> k]) = v
    BY <1>4, <1>5, SectionsJoin
  <1>7. JoinedAt(section, i) = JoinedOf(packed, section, i, [k \in DOMAIN packed |-> k])
    BY DEF JoinedAt, JoinedOf, Shifted
  <1>. QED
    BY <1>2, <1>6, <1>7, Zenon

\* Every section of the output is one of the plan's and still what was written.
LEMMA SectionsWhole ==
    ASSUME EInv, pc = "encoded", NEW k \in DOMAIN packed
    PROVE  /\ column \in Inputs /\ IsRange(plan.segments[k])
           /\ IsSection(packed[k], plan.segments[k]) /\ Intact(k)
  <1>1. Tiles(plan.segments) /\ Ranged(plan.segments) /\ column \in Inputs
    BY DEF EInv, IInv, PlanReady, Called
  <1>2. PICK n \in Nat : /\ n = Len(plan.segments) /\ n = Len(packed)
                         /\ DOMAIN plan.segments = 1..n /\ DOMAIN packed = 1..n
    BY <1>1 DEF EInv, Encoding, Ranged, Listed
  <1>3. \A j \in 1..n : IsRange(plan.segments[j])
    BY <1>1, <1>2 DEF Ranged, Tiles, IsRange
  <1>4. \A j \in 1..n : IsSection(packed[j], plan.segments[j])
    BY <1>2 DEF EInv, Encoding
  <1>5. \A j \in 1..n : Sized(packed[j])
    BY <1>1, <1>3, <1>4, SectionSize
  <1>6. Chained(packed, n) /\ base \in Nat
    BY <1>2 DEF EInv, Encoding
  <1>7. k \in 1..n
    BY <1>2
  <1>8. Intact(k)
    BY <1>2, <1>5, <1>6, <1>7, SectionsApart
  <1>. QED
    BY <1>1, <1>3, <1>4, <1>7, <1>8

\* What is read is the values of the column, and nothing else changes.
Reads(rows, values) ==
    /\ answer' = [rows |-> rows, values |-> values]
    /\ Len(values) = Len(rows)
    /\ \A i \in DOMAIN rows : values[i] = column.values[rows[i] + 1]

LEMMA ReadStep ==
    ASSUME EInv, IInv', pc \in {"encoded", "raw"}, NEW rows, NEW values, Reads(rows, values),
           UNCHANGED <<pc, column, config, forced, samples, range, scores, plan, base, packed>>
    PROVE  EInv'
  <1>1. Written' = Written
    BY WrittenIs
  <1>2. Encoding'
    BY <1>1, SectionFrame DEF EInv, Encoding, Chained, Listed
  <1>3. answer'.rows = rows /\ answer'.values = values
    BY DEF Reads
  <1>4. Answered'
    BY <1>3 DEF Reads, Answered, SectionsReadBack
  <1>. QED
    BY <1>2, <1>4 DEF EInv

LEMMA DecodeStep ==
    ASSUME EInv, IInv', Decode
    PROVE  EInv'
  <1>1. PICK n \in Nat : n = Rows
    BY RowsType DEF EInv, IInv, Called, Rows
  <1>2. PICK section : section = [k \in DOMAIN packed |-> SectionAll(k)]
    OBVIOUS
  <1>3. PICK rows, values :
           /\ rows = [i \in 1..n |-> i - 1]
           /\ values = (IF pc = "raw" THEN column.values ELSE [i \in 1..n |-> JoinedAt(section, i)])
    OBVIOUS
  <1>4. /\ answer' = [rows |-> rows, values |-> values] /\ pc \in {"encoded", "raw"}
        /\ UNCHANGED <<pc, column, config, forced, samples, range, scores, plan, base, packed>>
    BY <1>1, <1>2, <1>3, Zenon DEF Decode
  <1>5. rows \in Seq(Int) /\ Len(rows) = n /\ DOMAIN rows = 1..n
    <2>1. rows \in [1..n -> Int]
      BY <1>3
    <2>. QED
      BY <2>1, ASequence
  <1>6. CASE pc = "raw"
    <2>1. values = column.values /\ Len(values) = n
      BY <1>1, <1>3, <1>6 DEF Rows
    <2>2. ASSUME NEW i \in DOMAIN rows
          PROVE  values[i] = column.values[rows[i] + 1]
      <3>1. i \in 1..n /\ rows[i] = i - 1 /\ (i - 1) + 1 = i
        BY <1>3, <1>5
      <3>. QED
        BY <2>1, <3>1
    <2>3. Reads(rows, values)
      BY <1>4, <1>5, <2>1, <2>2 DEF Reads
    <2>. QED
      BY <1>4, <2>3, ReadStep
  <1>7. CASE pc = "encoded"
    <2>1. values = [i \in 1..n |-> JoinedAt(section, i)]
      BY <1>3, <1>7
    <2>2. ASSUME NEW i \in 1..n
          PROVE  values[i] = column.values[i] /\ values[i] \in Nat
      <3>1. column \in Inputs
        BY <1>7 DEF EInv, IInv, Called
      <3>2. PICK v \in Nat : v = column.values[i] /\ v < 2^ValueBits
        BY <1>1, <3>1, ColumnTypes
      <3>3. ASSUME NEW k \in DOMAIN packed
            PROVE  section[k][i] = SectionOf(v, plan.segments[k])
        <4>1. i \in 1..Rows
          BY <1>1
        <4>2. SectionAll(k)[i] = SectionOf(column.values[i], plan.segments[k])
          BY <1>7, <4>1, SectionsWhole, SectionRead
        <4>. QED
          BY <1>2, <3>2, <4>2
      <3>4. JoinedAt(section, i) = v
        BY <1>7, <3>2, <3>3, Joined
      <3>. QED
        BY <2>1, <3>2, <3>4
    <2>3. Len(values) = n
      <3>1. values \in [1..n -> Nat]
        BY <2>1, <2>2
      <3>. QED
        BY <3>1, ASequence
    <2>4. ASSUME NEW i \in DOMAIN rows
          PROVE  values[i] = column.values[rows[i] + 1]
      <3>1. i \in 1..n /\ rows[i] = i - 1 /\ (i - 1) + 1 = i
        BY <1>3, <1>5
      <3>. QED
        BY <2>2, <3>1
    <2>5. Reads(rows, values)
      BY <1>4, <1>5, <2>3, <2>4 DEF Reads
    <2>. QED
      BY <1>4, <2>5, ReadStep
  <1>. QED
    BY <1>4, <1>6, <1>7

LEMMA GatherStep ==
    ASSUME EInv, IInv', Gather
    PROVE  EInv'
  <1>1. PICK n \in 1..MaxPositions : \E positions \in [1..n -> 0..(Rows - 1)] :
           answer' = [rows |-> positions,
                      values |-> [i \in 1..n |->
                         IF pc = "raw" THEN column.values[positions[i] + 1]
                         ELSE JoinedAt([k \in DOMAIN packed |-> SectionAt(k, positions)], i)]]
    BY Zenon DEF Gather
  <1>2. PICK positions \in [1..n -> 0..(Rows - 1)] :
           answer' = [rows |-> positions,
                      values |-> [i \in 1..n |->
                         IF pc = "raw" THEN column.values[positions[i] + 1]
                         ELSE JoinedAt([k \in DOMAIN packed |-> SectionAt(k, positions)], i)]]
    BY <1>1
  <1>3. PICK section : section = [k \in DOMAIN packed |-> SectionAt(k, positions)]
    OBVIOUS
  <1>4. PICK values : values = [i \in 1..n |-> IF pc = "raw" THEN column.values[positions[i] + 1]
                                               ELSE JoinedAt(section, i)]
    OBVIOUS
  <1>5. /\ answer' = [rows |-> positions, values |-> values] /\ pc \in {"encoded", "raw"}
        /\ UNCHANGED <<pc, column, config, forced, samples, range, scores, plan, base, packed>>
    BY <1>2, <1>3, <1>4, Zenon DEF Gather
  <1>6. n \in Nat /\ DOMAIN positions = 1..n
    BY EncoderAssumption
  <1>7. ASSUME NEW i \in 1..n
        PROVE  values[i] = column.values[positions[i] + 1]
    <2>1. CASE pc = "raw"
      BY <1>4, <2>1
    <2>2. CASE pc = "encoded"
      <3>1. column \in Inputs
        BY <2>2 DEF EInv, IInv, Called
      <3>2. PICK row \in Nat : row = positions[i] /\ row + 1 \in 1..Rows
        <4>1. Rows \in Nat
          BY <3>1, ColumnTypes
        <4>2. positions[i] \in 0..(Rows - 1)
          OBVIOUS
        <4>. QED
          BY <4>1, <4>2
      <3>3. PICK v \in Nat : v = column.values[row + 1] /\ v < 2^ValueBits
        BY <3>1, <3>2, ColumnTypes
      <3>4. ASSUME NEW k \in DOMAIN packed
            PROVE  section[k][i] = SectionOf(v, plan.segments[k])
        <4>1. positions[i] \in 0..(Rows - 1) /\ i \in DOMAIN positions
          BY <1>6
        <4>2. SectionAt(k, positions)[i] = SectionOf(column.values[positions[i] + 1], plan.segments[k])
          BY <2>2, <4>1, SectionsWhole, SectionRowRead
        <4>. QED
          BY <1>3, <3>2, <3>3, <4>2
      <3>5. JoinedAt(section, i) = v
        BY <2>2, <3>3, <3>4, Joined
      <3>. QED
        BY <1>4, <2>2, <3>2, <3>3, <3>5
    <2>. QED
      BY <1>5, <2>1, <2>2
  <1>8. Len(values) = n /\ Len(positions) = n
    <2>1. PICK S : S = {values[i] : i \in 1..n}
      OBVIOUS
    <2>2. values \in [1..n -> S]
      BY <1>4, <2>1
    <2>. QED
      BY <1>6, <2>2, ASequence
  <1>9. Reads(positions, values)
    BY <1>5, <1>6, <1>7, <1>8 DEF Reads
  <1>. QED
    BY <1>5, <1>9, ReadStep

LEMMA EncoderStep == EInv /\ [Next]_vars => EInv'
  <1>. SUFFICES ASSUME EInv, [Next]_vars PROVE EInv'
    OBVIOUS
  <1>1. IInv'
    BY StepInv DEF EInv
  <1>2. CASE PlanNext /\ UNCHANGED <<base, packed, answer>>
    BY <1>1, <1>2, PlannerStep
  <1>3. CASE EncodeNothing
    BY <1>1, <1>3, EncodeNothingStep
  <1>4. CASE StartEncode
    BY <1>1, <1>4, StartEncodeStep
  <1>5. CASE EncodeSection
    BY <1>1, <1>5, SectionStep
  <1>6. CASE EndEncode
    BY <1>1, <1>6, EndEncodeStep
  <1>7. CASE Decode
    BY <1>1, <1>7, DecodeStep
  <1>8. CASE Gather
    BY <1>1, <1>8, GatherStep
  <1>9. CASE Done
    BY <1>1, <1>9, DoneStep
  <1>10. CASE UNCHANGED vars
    <2>1. Written' = Written
      BY <1>10, WrittenIs DEF vars
    <2>2. Encoding' /\ Answered'
      BY <1>10, <2>1, SectionFrame
         DEF vars, EInv, Encoding, Answered, SectionsReadBack, Chained, Listed
    <2>. QED
      BY <1>1, <2>2 DEF EInv
  <1>. QED
    BY <1>2, <1>3, <1>4, <1>5, <1>6, <1>7, <1>8, <1>9, <1>10 DEF Next

\* The invariant of the encoder holds in every state, for every width of a value, every
\* column, every plan, every block size and every address.
THEOREM EncoderInvariance == Spec => []EInv
  <1>. QED
    BY EncoderInit, EncoderStep, PTL DEF Spec

\* Every variable has its type.
THEOREM EncoderTypes == Spec => []TypeOK
  <1>1. EInv => TypeOK
    <2>. SUFFICES ASSUME EInv PROVE TypeOK
      OBVIOUS
    <2>1. \A i \in DOMAIN samples : samples[i] \in Nat
      BY DEF EInv, IInv, Sampled
    <2>2. Written \in 0..RawSize
      <3>1. RawSize \in Nat
        BY RowsType DEF EInv, IInv, Called, RawSize, Rows
      <3>2. PICK n \in Nat : n = Len(packed) /\ DOMAIN packed = 1..n /\ Chained(packed, n)
        BY DEF EInv, Encoding, Listed
      <3>3. PICK t : PlacedAt(packed, n, t)
        BY <3>2, SectionsPlaced
      <3>4. Written \in Nat
        BY <3>2, <3>3, WrittenIs DEF PlacedAt
      <3>. QED
        BY <3>1, <3>4 DEF EInv, Encoding
    <2>. QED
      BY <2>1, <2>2 DEF EInv, IInv, Called, Encoding, Answered, TypeOK
  <1>. QED
    BY <1>1, EncoderInvariance, PTL

\* What is read of an encoded column is what was encoded, whole or row by row, whatever
\* the plan, the schemes of its sections and the address (SubIntSplitCore, FBP and PBP).
THEOREM ReadsBack == Spec => []SectionsReadBack
  <1>1. EInv => SectionsReadBack
    BY DEF EInv, Answered
  <1>. QED
    BY <1>1, EncoderInvariance, PTL
===============================================================================
