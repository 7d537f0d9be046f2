------------------------- MODULE NumberColumnsProofs --------------------------
(***************************************************************************)
(* Proofs about NumberColumns, for every width, cascade depth, input and   *)
(* content of the buffers.                                                 *)
(*                                                                         *)
(* Encoded, Encodings, Decode and Gather are functions of the cascade      *)
(* depth; first they are shown to be what their definitions say            *)
(* (EncodedIs, EncodingsIs, DecodeIs, GatherIs).  A stream is Kept when    *)
(* reading its encoding gives it back and, for whole numbers, so does any  *)
(* lookup in it.  Every scheme keeps a stream at a depth if all streams    *)
(* are kept at the depth below it (KeptBy), one part of the module for     *)
(* each: its runs, sections, exceptions or decimals go to the streams it   *)
(* compresses further and come back together.  By induction every encoding *)
(* of every stream is kept (Good), so what a chunk reads and answers       *)
(* follows, and what a part answers from where its chunks start.           *)
(***************************************************************************)
EXTENDS NumberColumns, InductionFacts

---------------------------------------------------------------------------
(* Two's complement *)

LEMMA WidthsAre ==
    /\ NarrowBits \in Nat \ {0} /\ CodeBits \in Nat \ {0} /\ CodeBits <= NarrowBits
    /\ BlockSize \in Nat \ {0} /\ MaxExponent \in Nat /\ MaxSections \in Nat \ {0} /\ NegZero \in Int
  BY WidthAssumption

\* The numbers of a width.
Numbers(bits) == (-(2^(bits - 1)))..(2^(bits - 1) - 1)

LEMMA HalfOf ==
    ASSUME NEW bits \in Nat \ {0}
    PROVE  \E h \in Nat \ {0} : h = 2^(bits - 1) /\ 2^bits = 2 * h
  <1>1. bits - 1 \in Nat /\ (bits - 1) + 1 = bits
    OBVIOUS
  <1>. QED
    BY <1>1, PowerNext

\* Signed keeps a number up to a multiple of the modulus.
LEMMA SignedIs ==
    ASSUME NEW bits \in Nat \ {0}, NEW v \in Int
    PROVE  /\ Signed(v, bits) \in Numbers(bits) /\ Signed(v, bits) \in Int
           /\ \E q \in Int : v = q * 2^bits + Signed(v, bits)
           /\ Unsigned(v, bits) \in 0..(2^bits - 1)
  <1>1. PICK h \in Nat \ {0} : h = 2^(bits - 1) /\ 2^bits = 2 * h
    BY HalfOf
  <1>2. PICK m \in Nat \ {0} : m = 2 * h
    OBVIOUS
  <1>3. PICK q \in Int, x \in 0..(m - 1) : v % m = x /\ v = q * m + x
    <2>1. \E q \in Int : \E x \in 0..(m - 1) : /\ v = q * m + x /\ v \div m = q /\ v % m = x
                                               /\ v \in Nat => q \in Nat
      BY AnyDivision
    <2>. QED
      BY <2>1, Zenon
  <1>4. Unsigned(v, bits) = x
    BY <1>1, <1>2, <1>3 DEF Unsigned
  <1>5. Signed(v, bits) = IF x < h THEN x ELSE x - m
    BY <1>1, <1>2, <1>4 DEF Signed
  <1>6. Signed(v, bits) \in (-h)..(h - 1)
    BY <1>2, <1>5
  <1>7. \E p \in Int : v = p * m + Signed(v, bits)
    <2>1. CASE x < h
      BY <1>3, <1>5, <2>1
    <2>2. CASE ~(x < h)
      <3>1. (q + 1) * m = q * m + m /\ q * m \in Int /\ q + 1 \in Int
        BY Z3
      <3>2. v = (q + 1) * m + (x - m)
        BY <1>3, <3>1
      <3>. QED
        BY <1>5, <2>2, <3>1, <3>2
    <2>. QED
      BY <2>1, <2>2
  <1>8. Signed(v, bits) \in Numbers(bits) /\ Signed(v, bits) \in Int
    BY <1>1, <1>6 DEF Numbers
  <1>9. Unsigned(v, bits) \in 0..(2^bits - 1)
    BY <1>1, <1>2, <1>4
  <1>10. \E p \in Int : v = p * 2^bits + Signed(v, bits)
    BY <1>1, <1>2, <1>7
  <1>. QED
    BY <1>8, <1>9, <1>10

LEMMA SignedOf ==
    ASSUME NEW bits \in Nat \ {0}, NEW v \in Int, NEW w \in Numbers(bits), NEW q \in Int, v = q * 2^bits + w
    PROVE  Signed(v, bits) = w
  <1>1. PICK h \in Nat \ {0} : h = 2^(bits - 1) /\ 2^bits = 2 * h
    BY HalfOf
  <1>2. PICK m \in Nat \ {0} : m = 2 * h /\ m = 2^bits
    BY <1>1
  <1>3. w \in (-h)..(h - 1)
    BY <1>1 DEF Numbers
  <1>4. CASE w >= 0
    <2>1. w \in 0..(m - 1)
      BY <1>2, <1>3, <1>4
    <2>2. v % m = w
      BY <1>2, <2>1, RemainderOf
    <2>. QED
      BY <1>1, <1>2, <1>3, <2>2 DEF Signed, Unsigned
  <1>5. CASE w < 0
    <2>1. w + m \in 0..(m - 1) /\ q - 1 \in Int /\ ~(w + m < h)
      BY <1>2, <1>3, <1>5
    <2>2. (q - 1) * m = q * m - m /\ q * m \in Int
      BY Z3
    <2>3. v = (q - 1) * m + (w + m)
      BY <1>2, <1>3, <2>2
    <2>4. v % m = w + m
      <3>1. PICK p \in Int : p = q - 1
        OBVIOUS
      <3>2. PICK x \in 0..(m - 1) : x = w + m
        BY <2>1
      <3>3. (p * m + x) % m = x
        BY RemainderOf
      <3>. QED
        BY <2>3, <3>1, <3>2, <3>3
    <2>. QED
      BY <1>1, <1>2, <1>3, <2>1, <2>4 DEF Signed, Unsigned
  <1>. QED
    BY <1>3, <1>4, <1>5

LEMMA SignedSelf ==
    ASSUME NEW bits \in Nat \ {0}, NEW v \in Numbers(bits)
    PROVE  Signed(v, bits) = v /\ v \in Int
  <1>1. 2^(bits - 1) \in Nat /\ 2^bits \in Nat
    BY HalfOf
  <1>2. v \in Int
    BY <1>1 DEF Numbers
  <1>3. v = 0 * 2^bits + v
    BY <1>1, <1>2
  <1>. QED
    BY <1>2, <1>3, SignedOf

\* What is taken away and wraps comes back when it is added and wraps.
LEMMA SignedBack ==
    ASSUME NEW bits \in Nat \ {0}, NEW a \in Numbers(bits), NEW b \in Int
    PROVE  Signed(Signed(a - b, bits) + b, bits) = a /\ Signed(b + Signed(a - b, bits), bits) = a
  <1>1. PICK m \in Nat \ {0} : m = 2^bits
    BY HalfOf
  <1>2. a \in Int
    BY SignedSelf
  <1>3. PICK d \in Int, q \in Int : d = Signed(a - b, bits) /\ a - b = q * m + d
    <2>1. PICK v \in Int : v = a - b
      BY <1>2
    <2>2. Signed(v, bits) \in Int /\ \E q \in Int : v = q * 2^bits + Signed(v, bits)
      BY SignedIs
    <2>. QED
      BY <1>1, <2>1, <2>2
  <1>4. (-q) * m = -(q * m) /\ q * m \in Int /\ -q \in Int
    BY Z3
  <1>5. d + b = (-q) * m + a /\ d + b \in Int /\ b + d = d + b
    BY <1>2, <1>3, <1>4
  <1>6. PICK v \in Int, p \in Int : v = d + b /\ p = -q /\ v = p * 2^bits + a
    BY <1>1, <1>4, <1>5
  <1>7. Signed(v, bits) = a
    BY <1>6, SignedOf
  <1>. QED
    BY <1>3, <1>5, <1>6, <1>7

---------------------------------------------------------------------------
(* What comparisons see *)

LEMMA SameIs ==
    ASSUME NEW a \in Int, NEW b \in Int
    PROVE  /\ Value(a) \in Int /\ Same(a, a) /\ (Same(a, b) => Same(b, a))
           /\ Less(a, b) \/ Less(b, a) \/ Same(a, b)
           /\ ~(Less(a, b) /\ Same(a, b)) /\ ~(Less(a, b) /\ Less(b, a))
           /\ \A c \in Int : /\ Same(a, b) /\ Same(b, c) => Same(a, c)
                             /\ Less(a, b) /\ Less(b, c) => Less(a, c)
                             /\ Same(a, b) => (Less(a, c) <=> Less(b, c)) /\ (Less(c, a) <=> Less(c, b))
  BY DEF Value, Same, Less

LEMMA SameSelf ==
    ASSUME NEW a \in Int
    PROVE  Same(a, a) /\ ~Less(a, a)
  BY DEF Value, Same, Less

LEMMA NotTwice ==
    ASSUME NEW a \in Int, NEW b \in Int, Same(a, b), (a # 0 /\ b # 0) \/ (a # NegZero /\ b # NegZero)
    PROVE  a = b
  BY WidthsAre DEF Value, Same

LEMMA NotNegZero ==
    ASSUME NEW type \in Types, type # "DOUBLE", NEW a \in NumbersOf(type)
    PROVE  a \in Int /\ a # NegZero /\ a \in Numbers(Bits(type)) /\ Bits(type) \in Nat \ {0}
           /\ Numbers(Bits(type)) = NumbersOf(type)
  <1>1. Bits(type) \in Nat \ {0} /\ Bits(type) <= 2 * NarrowBits
    BY WidthsAre DEF Bits
  <1>2. NumbersOf(type) = Numbers(Bits(type))
    BY DEF NumbersOf, Numbers
  <1>3. PICK h \in Nat \ {0} : h = 2^(Bits(type) - 1)
    BY <1>1, HalfOf
  <1>4. h <= 2^(2 * NarrowBits - 1)
    <2>1. Bits(type) - 1 \in Nat /\ 2 * NarrowBits - 1 \in Nat /\ Bits(type) - 1 <= 2 * NarrowBits - 1
      BY <1>1, WidthsAre
    <2>. QED
      BY <1>3, <2>1, PowerGrows
  <1>5. PICK H \in Nat \ {0} : H = 2^(2 * NarrowBits - 1)
    <2>1. 2 * NarrowBits \in Nat \ {0}
      BY WidthsAre
    <2>. QED
      BY <2>1, HalfOf
  <1>6. NegZero < -H /\ NegZero \in Int
    BY <1>5, WidthAssumption
  <1>7. a \in (-h)..(h - 1)
    BY <1>2, <1>3 DEF Numbers
  <1>8. a \in Int /\ a # NegZero
    BY <1>4, <1>5, <1>6, <1>7
  <1>. QED
    BY <1>1, <1>2, <1>8

---------------------------------------------------------------------------
(* The order of rows and of keys *)

IsList(list, s) ==
    /\ Cardinality(s) \in Nat /\ list \in [1..Cardinality(s) -> s]
    /\ \A a \in s : \E k \in 1..Cardinality(s) : list[k] = a

LEMMA RankedRows ==
    ASSUME NEW s, s \subseteq Int, IsFiniteSet(s)
    PROVE  /\ IsList(Ranked(s, <), s) /\ Cardinality(s) \in Nat
           /\ \A i \in 1..Cardinality(s), j \in 1..Cardinality(s) : i < j => Ranked(s, <)[i] < Ranked(s, <)[j]
           /\ \A k \in 1..Cardinality(s) : Cardinality({b \in s : b < Ranked(s, <)[k]}) = k - 1
  <1>1. PICK below : below = [a \in s |-> {b \in s : b < a}]
    OBVIOUS
  <1>2. \A a \in s : below[a] = {b \in s : b < a}
    BY <1>1, Zenon
  <1>3. \A a \in s : a \in Int
    OBVIOUS
  <1>4. Ordered(s, below)
    <2>1. below \in [s -> SUBSET s]
      <3>1. \A a \in s : {b \in s : b < a} \in SUBSET s
        OBVIOUS
      <3>. QED
        BY <1>1, <3>1, Zenon
    <2>2. \A a \in s, b \in s : b \in below[a] <=> b < a
      BY <1>2, Zenon
    <2>3. \A a \in s, b \in s, c \in s : c < b /\ b < a => c < a
      BY <1>3
    <2>4. \A a \in s, b \in s : a # b => b < a \/ a < b
      BY <1>3
    <2>5. \A a \in s : ~(a < a)
      BY <1>3
    <2>6. ASSUME NEW a \in s, NEW b \in s, b \in below[a] PROVE below[b] \subseteq below[a]
      <3>1. ASSUME NEW c \in below[b] PROVE c \in below[a]
        <4>1. c \in s
          BY <1>2, <3>1, Zenon
        <4>. QED
          BY <2>2, <2>3, <2>6, <3>1, <4>1, Zenon
      <3>. QED
        BY <3>1
    <2>. QED
      BY <2>1, <2>2, <2>4, <2>5, <2>6, Zenon DEF Ordered
  <1>5. PICK n \in Nat : n = Cardinality(s)
    BY FS_CardinalityType
  <1>6. PICK list : list = Ranked(s, <)
    OBVIOUS
  <1>7. DOMAIN list = 1..n /\ \A k \in 1..n : list[k] = CHOOSE a \in s : Cardinality({b \in s : b < a}) = k - 1
    BY <1>5, <1>6 DEF Ranked
  <1>8. ASSUME NEW k \in 1..n PROVE list[k] \in s /\ Cardinality(below[list[k]]) = k - 1
    <2>1. \E a \in s : Cardinality({b \in s : b < a}) = k - 1
      <3>1. PICK a \in s : Cardinality(below[a]) = k - 1
        BY <1>4, <1>5, RankReached
      <3>. QED
        BY <1>2, <3>1, Zenon
    <2>2. list[k] \in s /\ Cardinality({b \in s : b < list[k]}) = k - 1
      BY <1>7, <2>1, Zenon
    <2>. QED
      BY <1>2, <2>2, Zenon
  <1>9. RankedBy(list, s, below)
    BY <1>5, <1>7, <1>8, Zenon DEF RankedBy
  <1>10. InRankOrder(list, s, below)
    BY <1>4, <1>9, RankedRises, Zenon
  <1>11. IsList(list, s)
    <2>1. list = [k \in 1..n |-> list[k]]
      BY <1>5, <1>6, <1>7, Zenon DEF Ranked
    <2>2. list \in [1..n -> s]
      BY <1>8, <2>1
    <2>. QED
      BY <1>5, <1>10, <2>2, Zenon DEF IsList, InRankOrder
  <1>12. \A i \in 1..n, j \in 1..n : i < j => list[i] < list[j]
    BY <1>2, <1>5, <1>8, <1>10, Zenon DEF InRankOrder
  <1>13. \A k \in 1..n : Cardinality({b \in s : b < list[k]}) = k - 1
    BY <1>2, <1>8, Zenon
  <1>. QED
    BY <1>5, <1>6, <1>11, <1>12, <1>13, Zenon

\* No two of the keys are the same.
Distinguished(s) == \A a \in s, b \in s : Same(a, b) => a = b

LEMMA RankedKeys ==
    ASSUME NEW s, s \subseteq Int, IsFiniteSet(s), Distinguished(s)
    PROVE  /\ IsList(Ranked(s, Less), s) /\ Cardinality(s) \in Nat
           /\ \A i \in 1..Cardinality(s), j \in 1..Cardinality(s) : i < j => Less(Ranked(s, Less)[i], Ranked(s, Less)[j])
  <1>1. PICK below : below = [a \in s |-> {b \in s : Less(b, a)}]
    OBVIOUS
  <1>2. \A a \in s : below[a] = {b \in s : Less(b, a)}
    BY <1>1, Zenon
  <1>3. \A a \in s : a \in Int
    OBVIOUS
  <1>4. Ordered(s, below)
    <2>1. below \in [s -> SUBSET s]
      <3>1. \A a \in s : {b \in s : Less(b, a)} \in SUBSET s
        OBVIOUS
      <3>. QED
        BY <1>1, <3>1, Zenon
    <2>2. \A a \in s, b \in s : b \in below[a] <=> Less(b, a)
      BY <1>2, Zenon
    <2>3. \A a \in s, b \in s, c \in s : Less(c, b) /\ Less(b, a) => Less(c, a)
      BY <1>3, SameIs, Zenon
    <2>4. \A a \in s, b \in s : a # b => Less(b, a) \/ Less(a, b)
      BY <1>3, SameIs, Zenon DEF Distinguished
    <2>5. \A a \in s : ~Less(a, a)
      BY <1>3, SameIs, Zenon
    <2>6. ASSUME NEW a \in s, NEW b \in s, b \in below[a] PROVE below[b] \subseteq below[a]
      <3>1. ASSUME NEW c \in below[b] PROVE c \in below[a]
        <4>1. c \in s
          BY <1>2, <3>1, Zenon
        <4>. QED
          BY <2>2, <2>3, <2>6, <3>1, <4>1, Zenon
      <3>. QED
        BY <3>1
    <2>. QED
      BY <2>1, <2>2, <2>4, <2>5, <2>6, Zenon DEF Ordered
  <1>5. PICK n \in Nat : n = Cardinality(s)
    BY FS_CardinalityType
  <1>6. PICK list : list = Ranked(s, Less)
    OBVIOUS
  <1>7. DOMAIN list = 1..n /\ \A k \in 1..n : list[k] = CHOOSE a \in s : Cardinality({b \in s : Less(b, a)}) = k - 1
    BY <1>5, <1>6 DEF Ranked
  <1>8. ASSUME NEW k \in 1..n PROVE list[k] \in s /\ Cardinality(below[list[k]]) = k - 1
    <2>1. \E a \in s : Cardinality({b \in s : Less(b, a)}) = k - 1
      <3>1. PICK a \in s : Cardinality(below[a]) = k - 1
        BY <1>4, <1>5, RankReached
      <3>. QED
        BY <1>2, <3>1, Zenon
    <2>2. list[k] \in s /\ Cardinality({b \in s : Less(b, list[k])}) = k - 1
      BY <1>7, <2>1, Zenon
    <2>. QED
      BY <1>2, <2>2, Zenon
  <1>9. RankedBy(list, s, below)
    BY <1>5, <1>7, <1>8, Zenon DEF RankedBy
  <1>10. InRankOrder(list, s, below)
    BY <1>4, <1>9, RankedRises, Zenon
  <1>11. IsList(list, s)
    <2>1. list = [k \in 1..n |-> list[k]]
      BY <1>5, <1>6, <1>7, Zenon DEF Ranked
    <2>2. list \in [1..n -> s]
      BY <1>8, <2>1
    <2>. QED
      BY <1>5, <1>10, <2>2, Zenon DEF IsList, InRankOrder
  <1>12. \A i \in 1..n, j \in 1..n : i < j => Less(list[i], list[j])
    BY <1>2, <1>5, <1>8, <1>10, Zenon DEF InRankOrder
  <1>. QED
    BY <1>5, <1>6, <1>11, <1>12, Zenon

---------------------------------------------------------------------------
(* The dictionary and the codes of a stream *)

LEMMA KeysAre ==
    ASSUME NEW src \in Seq(Int)
    PROVE  /\ Keys(src) \subseteq Int /\ IsFiniteSet(Keys(src)) /\ Distinguished(Keys(src))
           /\ Cardinality(Keys(src)) \in Nat /\ Cardinality(Keys(src)) <= Len(src)
           /\ \A i \in 1..Len(src) : \E a \in Keys(src) : Same(a, src[i])
           /\ \A a \in Keys(src) : \E i \in 1..Len(src) : src[i] = a
  <1>1. PICK n \in Nat : n = Len(src) /\ DOMAIN src = 1..n /\ \A i \in 1..n : src[i] \in Int
    OBVIOUS
  <1>2. PICK first : first = {j \in 1..n : \A k \in 1..(j - 1) : ~Same(src[k], src[j])}
    OBVIOUS
  <1>3. Keys(src) = {src[i] : i \in first}
    BY <1>1, <1>2, Zenon DEF Keys, RowsOf
  <1>4. IsFiniteSet(first) /\ Cardinality(first) \in Nat /\ Cardinality(first) <= n
    <2>1. IsFiniteSet(1..n) /\ Cardinality(1..n) = n
      BY FS_Interval
    <2>2. first \in SUBSET (1..n)
      BY <1>2
    <2>. QED
      BY <2>1, <2>2, FS_Subset, FS_CardinalityType
  <1>5. PICK f : f = [i \in first |-> src[i]]
    OBVIOUS
  <1>6. f \in Surjection(first, Keys(src))
    BY <1>3, <1>5 DEF Surjection
  <1>7. IsFiniteSet(Keys(src)) /\ Cardinality(Keys(src)) \in Nat /\ Cardinality(Keys(src)) <= n
    <2>1. IsFiniteSet(Keys(src)) /\ Cardinality(Keys(src)) <= Cardinality(first)
      BY <1>4, <1>6, FS_Surjection
    <2>. QED
      BY <1>4, <2>1, FS_CardinalityType
  <1>8. \A a \in Keys(src) : \E i \in first : src[i] = a
    BY <1>3
  <1>9. \A i \in first : i \in 1..n /\ \A k \in 1..(i - 1) : ~Same(src[k], src[i])
    BY <1>2
  <1>10. Distinguished(Keys(src))
    <2>1. ASSUME NEW i \in first, NEW j \in first, Same(src[i], src[j]), i < j PROVE FALSE
      <3>1. i \in 1..(j - 1)
        BY <1>9, <2>1
      <3>. QED
        BY <1>9, <2>1, <3>1
    <2>2. ASSUME NEW i \in first, NEW j \in first, Same(src[i], src[j]) PROVE src[i] = src[j]
      <3>1. Same(src[j], src[i])
        BY <1>1, <1>9, <2>2, SameIs
      <3>2. i \in Nat /\ j \in Nat
        BY <1>9
      <3>3. CASE i = j
        BY <3>3
      <3>4. CASE i < j
        BY <2>1, <2>2, <3>4
      <3>5. CASE j < i
        BY <2>1, <3>1, <3>5
      <3>. QED
        BY <3>2, <3>3, <3>4, <3>5
    <2>. QED
      BY <1>8, <2>2, Zenon DEF Distinguished
  <1>11. ASSUME NEW i \in 1..n PROVE \E a \in Keys(src) : Same(a, src[i])
    <2>1. PICK T : T = {j \in 1..n : Same(src[j], src[i])}
      OBVIOUS
    <2>2. T \subseteq Nat /\ i \in T
      <3>1. src[i] \in Int
        BY <1>1
      <3>2. Same(src[i], src[i])
        BY <3>1, SameSelf
      <3>. QED
        BY <2>1, <3>2
    <2>3. PICK j \in T : \A k \in T : j <= k
      BY <2>2, LeastNumber
    <2>4. j \in 1..n /\ Same(src[j], src[i])
      BY <2>1
    <2>5. ASSUME NEW k \in 1..(j - 1) PROVE ~Same(src[k], src[j])
      <3>1. k \in 1..n /\ ~(j <= k)
        BY <2>4
      <3>2. k \notin T
        BY <2>3, <3>1
      <3>3. ~Same(src[k], src[i])
        BY <2>1, <3>1, <3>2
      <3>4. src[k] \in Int /\ src[j] \in Int /\ src[i] \in Int
        BY <1>1, <2>4, <3>1
      <3>. QED
        BY <2>4, <3>3, <3>4, SameIs
    <2>6. j \in first
      BY <1>2, <2>4, <2>5, Zenon
    <2>. QED
      BY <1>3, <2>4, <2>6
  <1>12. Keys(src) \subseteq Int
    BY <1>1, <1>8, <1>9
  <1>. QED
    BY <1>1, <1>7, <1>8, <1>9, <1>10, <1>11, <1>12, Zenon

LEMMA DictionaryIs ==
    ASSUME NEW src \in Seq(Int)
    PROVE  /\ IsList(Dictionary(src), Keys(src)) /\ Len(Dictionary(src)) = Cardinality(Keys(src))
           /\ Dictionary(src) \in Seq(Int) /\ DOMAIN Dictionary(src) = 1..Len(Dictionary(src))
           /\ Len(Dictionary(src)) \in Nat /\ Len(Dictionary(src)) <= Len(src)
           /\ \A k \in 1..Len(Dictionary(src)) : \E i \in 1..Len(src) : Dictionary(src)[k] = src[i]
           /\ \A i \in 1..Len(src) : \E k \in 1..Len(Dictionary(src)) : Same(Dictionary(src)[k], src[i])
           /\ \A i \in 1..Len(Dictionary(src)), j \in 1..Len(Dictionary(src)) :
                 i < j => Less(Dictionary(src)[i], Dictionary(src)[j])
  <1>1. PICK dict : dict = Dictionary(src)
    OBVIOUS
  <1>2. PICK keys : keys = Keys(src)
    OBVIOUS
  <1>3. /\ keys \subseteq Int /\ IsFiniteSet(keys) /\ Distinguished(keys) /\ Cardinality(keys) <= Len(src)
        /\ \A i \in 1..Len(src) : \E a \in keys : Same(a, src[i])
        /\ \A a \in keys : \E i \in 1..Len(src) : src[i] = a
    BY <1>2, KeysAre, Zenon
  <1>4. PICK n \in Nat : n = Cardinality(keys)
    BY <1>3, FS_CardinalityType
  <1>5. IsList(dict, keys) /\ \A i \in 1..n, j \in 1..n : i < j => Less(dict[i], dict[j])
    BY <1>1, <1>2, <1>3, <1>4, RankedKeys, Zenon DEF Dictionary
  <1>6. dict \in [1..n -> keys] /\ \A a \in keys : \E k \in 1..n : dict[k] = a
    BY <1>4, <1>5, Zenon DEF IsList
  <1>7. Len(dict) = n /\ dict \in Seq(Int) /\ DOMAIN dict = 1..n
    <2>1. DOMAIN dict = 1..n /\ dict \in [1..n -> Int]
      BY <1>3, <1>6
    <2>. QED
      BY <2>1
  <1>8. \A k \in 1..n : \E i \in 1..Len(src) : dict[k] = src[i]
    <2>1. ASSUME NEW k \in 1..n PROVE \E i \in 1..Len(src) : dict[k] = src[i]
      <3>1. dict[k] \in keys
        BY <1>6
      <3>. QED
        BY <1>3, <3>1, Zenon
    <2>. QED
      BY <2>1
  <1>9. \A i \in 1..Len(src) : \E k \in 1..n : Same(dict[k], src[i])
    BY <1>3, <1>6, Zenon
  <1>. QED
    BY <1>1, <1>2, <1>3, <1>4, <1>5, <1>7, <1>8, <1>9, Zenon

LEMMA CodeIs ==
    ASSUME NEW dict \in Seq(Int), \A i \in 1..Len(dict), j \in 1..Len(dict) : i < j => Less(dict[i], dict[j]),
           NEW k \in 1..Len(dict), NEW v \in Int, Same(dict[k], v)
    PROVE  CodeOf(dict, v) = k - 1
  <1>1. PICK n \in Nat : n = Len(dict) /\ DOMAIN dict = 1..n /\ \A i \in 1..n : dict[i] \in Int
    OBVIOUS
  <1>2. ASSUME NEW j \in 1..n PROVE Less(dict[j], v) <=> j \in 1..(k - 1)
    <2>1. dict[j] \in Int /\ dict[k] \in Int
      BY <1>1
    <2>2. Less(dict[j], v) <=> Less(dict[j], dict[k])
      BY <2>1, SameIs
    <2>3. CASE j < k
      BY <1>1, <2>2, <2>3
    <2>4. CASE j = k
      <3>1. ~Less(dict[k], dict[k]) /\ j \notin 1..(k - 1)
        BY <2>1, <2>4, SameSelf
      <3>. QED
        BY <2>2, <2>4, <3>1, Zenon
    <2>5. CASE k < j
      <3>1. Less(dict[k], dict[j])
        BY <1>1, <2>5
      <3>2. ~Less(dict[j], dict[k])
        BY <2>1, <3>1, SameIs
      <3>. QED
        BY <1>1, <2>2, <2>5, <3>2
    <2>. QED
      BY <1>1, <2>3, <2>4, <2>5
  <1>3. {j \in DOMAIN dict : Less(dict[j], v)} = 1..(k - 1)
    BY <1>1, <1>2
  <1>4. Cardinality(1..(k - 1)) = k - 1
    BY <1>1, FS_Interval
  <1>. QED
    BY <1>3, <1>4, Zenon DEF CodeOf

LEMMA CodesRead ==
    ASSUME NEW src \in Seq(Int)
    PROVE  /\ CodesOf(src) \in Seq(Nat) /\ Len(CodesOf(src)) = Len(src) /\ DOMAIN CodesOf(src) = 1..Len(src)
           /\ \A i \in 1..Len(src) : /\ CodesOf(src)[i] \in 0..(Len(Dictionary(src)) - 1)
                                     /\ CodesOf(src)[i] + 1 \in 1..Len(Dictionary(src))
                                     /\ Same(Dictionary(src)[CodesOf(src)[i] + 1], src[i])
  <1>1. PICK dict : dict = Dictionary(src)
    OBVIOUS
  <1>2. PICK codes : codes = CodesOf(src)
    OBVIOUS
  <1>3. /\ dict \in Seq(Int) /\ Len(dict) \in Nat
        /\ \A i \in 1..Len(src) : \E k \in 1..Len(dict) : Same(dict[k], src[i])
        /\ \A i \in 1..Len(dict), j \in 1..Len(dict) : i < j => Less(dict[i], dict[j])
    BY <1>1, DictionaryIs, Zenon
  <1>4. codes = [i \in 1..Len(src) |-> CodeOf(dict, src[i])]
    BY <1>1, <1>2 DEF CodesOf, RowsOf
  <1>5. \A i \in 1..Len(src) : codes[i] = CodeOf(dict, src[i])
    BY <1>4, Zenon
  <1>6. ASSUME NEW i \in 1..Len(src)
        PROVE  codes[i] \in 0..(Len(dict) - 1) /\ codes[i] + 1 \in 1..Len(dict) /\ Same(dict[codes[i] + 1], src[i])
    <2>1. PICK k \in 1..Len(dict) : Same(dict[k], src[i])
      BY <1>3
    <2>2. src[i] \in Int
      OBVIOUS
    <2>3. CodeOf(dict, src[i]) = k - 1
      BY <1>3, <2>1, <2>2, CodeIs
    <2>4. codes[i] = k - 1 /\ (k - 1) + 1 = k /\ k - 1 \in 0..(Len(dict) - 1)
      BY <1>3, <1>5, <2>3
    <2>. QED
      BY <2>1, <2>4
  <1>7. codes \in [1..Len(src) -> Nat] /\ DOMAIN codes = 1..Len(src)
    <2>1. \A i \in 1..Len(src) : codes[i] \in Nat
      BY <1>3, <1>6
    <2>2. \A i \in 1..Len(src) : CodeOf(dict, src[i]) \in Nat
      BY <1>5, <2>1, Zenon
    <2>. QED
      BY <1>4, <2>2, Zenon
  <1>8. codes \in Seq(Nat) /\ Len(codes) = Len(src)
    BY <1>7
  <1>. QED
    BY <1>1, <1>2, <1>6, <1>7, <1>8, Zenon

---------------------------------------------------------------------------
(* Rows picked out of a stream, and their ranks *)

LEMMA RowsAre ==
    ASSUME NEW n \in Nat, NEW rows \in SUBSET (1..n)
    PROVE  /\ IsList(Ranked(rows, <), rows) /\ Cardinality(rows) \in Nat /\ Cardinality(rows) <= n
           /\ \A i \in 1..Cardinality(rows), j \in 1..Cardinality(rows) : i < j => Ranked(rows, <)[i] < Ranked(rows, <)[j]
           /\ \A k \in 1..Cardinality(rows) : RankOf(rows, Ranked(rows, <)[k]) = k
           /\ \A i \in rows : RankOf(rows, i) \in 1..Cardinality(rows) /\ Ranked(rows, <)[RankOf(rows, i)] = i
  <1>1. IsFiniteSet(rows) /\ Cardinality(rows) <= n
    <2>1. IsFiniteSet(1..n) /\ Cardinality(1..n) = n
      BY FS_Interval
    <2>. QED
      BY <2>1, FS_Subset
  <1>2. PICK list : list = Ranked(rows, <)
    OBVIOUS
  <1>3. PICK c \in Nat : c = Cardinality(rows)
    BY <1>1, FS_CardinalityType
  <1>4. rows \subseteq Int /\ \A i \in rows : i \in 1..n
    OBVIOUS
  <1>5. /\ IsList(list, rows)
        /\ \A i \in 1..c, j \in 1..c : i < j => list[i] < list[j]
        /\ \A k \in 1..c : Cardinality({b \in rows : b < list[k]}) = k - 1
    BY <1>1, <1>2, <1>3, <1>4, RankedRows, Zenon
  <1>6. list \in [1..c -> rows] /\ \A a \in rows : \E k \in 1..c : list[k] = a
    BY <1>3, <1>5, Zenon DEF IsList
  <1>7. ASSUME NEW k \in 1..c PROVE RankOf(rows, list[k]) = k
    <2>1. PICK a \in rows : a = list[k]
      BY <1>6
    <2>2. PICK below : below = {b \in rows : b < a}
      OBVIOUS
    <2>3. {j \in rows : j <= a} = below \cup {a} /\ a \notin below
      <3>1. \A j \in rows : (j <= a <=> j < a \/ j = a) /\ ~(a < a)
        BY <1>4
      <3>2. \A j : j \in {x \in rows : x <= a} <=> j \in below \cup {a}
        BY <2>2, <3>1, Zenon
      <3>3. a \notin below
        BY <2>2, <3>1, Zenon
      <3>. QED
        BY <3>2, <3>3, Zenon
    <2>4. IsFiniteSet(below) /\ Cardinality(below) = k - 1
      <3>1. below \in SUBSET rows
        BY <2>2
      <3>2. Cardinality(below) = k - 1
        BY <1>5, <2>1, <2>2
      <3>. QED
        BY <1>1, <3>1, <3>2, FS_Subset
    <2>5. Cardinality(below \cup {a}) = k
      <3>1. Cardinality(below \cup {a}) = Cardinality(below) + 1
        BY <2>3, <2>4, FS_AddElement
      <3>. QED
        BY <2>4, <3>1
    <2>. QED
      BY <2>1, <2>3, <2>5, Zenon DEF RankOf
  <1>8. ASSUME NEW i \in rows PROVE RankOf(rows, i) \in 1..c /\ list[RankOf(rows, i)] = i
    <2>1. PICK k \in 1..c : list[k] = i
      BY <1>6
    <2>2. RankOf(rows, i) = k
      BY <1>7, <2>1
    <2>. QED
      BY <2>1, <2>2
  <1>. QED
    BY <1>1, <1>2, <1>3, <1>5, <1>7, <1>8, Zenon

LEMMA SelectedIs ==
    ASSUME NEW X, NEW src \in Seq(X), NEW rows \in SUBSET (1..Len(src))
    PROVE  /\ Selected(src, rows) \in Seq(X) /\ Len(Selected(src, rows)) = Cardinality(rows)
           /\ Cardinality(rows) \in Nat /\ Cardinality(rows) <= Len(src)
           /\ \A i \in rows : /\ RankOf(rows, i) \in 1..Cardinality(rows)
                              /\ Selected(src, rows)[RankOf(rows, i)] = src[i]
           /\ \A k \in 1..Cardinality(rows) : \E i \in rows : Selected(src, rows)[k] = src[i]
  <1>1. PICK list : list = Ranked(rows, <)
    OBVIOUS
  <1>2. PICK n \in Nat : n = Len(src) /\ DOMAIN src = 1..n /\ \A i \in 1..n : src[i] \in X
    OBVIOUS
  <1>3. PICK c \in Nat : c = Cardinality(rows) /\ c <= n
    BY <1>2, RowsAre
  <1>4. /\ IsList(list, rows)
        /\ \A i \in rows : RankOf(rows, i) \in 1..c /\ list[RankOf(rows, i)] = i
    BY <1>1, <1>2, <1>3, RowsAre, Zenon
  <1>5. list \in [1..c -> rows] /\ DOMAIN list = 1..c
    BY <1>3, <1>4 DEF IsList
  <1>6. PICK sel : sel = Selected(src, rows)
    OBVIOUS
  <1>7. sel = [k \in 1..c |-> src[list[k]]]
    BY <1>1, <1>5, <1>6, Zenon DEF Selected
  <1>8. \A i \in rows : src[i] \in X
    BY <1>2
  <1>9. sel \in [1..c -> X]
    <2>1. \A k \in 1..c : src[list[k]] \in X
      BY <1>5, <1>8
    <2>. QED
      BY <1>7, <2>1
  <1>10. sel \in Seq(X) /\ Len(sel) = c
    BY <1>9
  <1>11. \A i \in rows : RankOf(rows, i) \in 1..c /\ sel[RankOf(rows, i)] = src[i]
    BY <1>4, <1>7, Zenon
  <1>12. \A k \in 1..c : \E i \in rows : sel[k] = src[i]
    BY <1>5, <1>7
  <1>. QED
    BY <1>2, <1>3, <1>6, <1>10, <1>11, <1>12, Zenon

---------------------------------------------------------------------------
(* PFOR_DELTA *)

LEMMA DeltasBack ==
    ASSUME NEW src \in Seq(Numbers(NarrowBits))
    PROVE  Deltas(src) \in Seq(Int) /\ Undeltas(Deltas(src)) = src
  <1>1. PICK n \in Nat : n = Len(src) /\ DOMAIN src = 1..n /\ \A i \in 1..n : src[i] \in Numbers(NarrowBits)
    OBVIOUS
  <1>2. NarrowBits \in Nat \ {0}
    BY WidthsAre
  <1>3. \A i \in 1..n : src[i] \in Int
    BY <1>1, <1>2, SignedSelf
  <1>4. PICK d : d = Deltas(src)
    OBVIOUS
  <1>5. d = [i \in 1..n |-> IF i = 1 THEN src[1] ELSE Signed(src[i] - src[i - 1], NarrowBits)]
    BY <1>1, <1>4, Zenon DEF Deltas, RowsOf
  <1>6. ASSUME NEW i \in 1..n, i # 1
        PROVE  d[i] \in Int /\ Signed(src[i - 1] + d[i], NarrowBits) = src[i]
    <2>1. i - 1 \in 1..n
      BY <1>6
    <2>2. PICK b \in Int : b = src[i - 1]
      BY <1>3, <2>1
    <2>3. PICK a \in Numbers(NarrowBits) : a = src[i] /\ a \in Int
      BY <1>1, <1>3
    <2>4. d[i] = Signed(a - b, NarrowBits)
      BY <1>5, <1>6, <2>2, <2>3
    <2>5. Signed(b + Signed(a - b, NarrowBits), NarrowBits) = a
      BY <1>2, <2>2, <2>3, SignedBack
    <2>6. Signed(a - b, NarrowBits) \in Int
      <3>1. a - b \in Int
        BY <2>2, <2>3
      <3>. QED
        BY <1>2, <3>1, SignedIs
    <2>. QED
      BY <2>2, <2>3, <2>4, <2>5, <2>6
  <1>7. d[1] = src[1] \/ n = 0
    BY <1>1, <1>5
  <1>8. DOMAIN d = 1..n /\ d \in Seq(Int)
    <2>1. ASSUME NEW i \in 1..n PROVE d[i] \in Int
      <3>1. CASE i = 1
        BY <1>1, <1>3, <1>7, <3>1
      <3>2. CASE i # 1
        BY <1>6, <3>2
      <3>. QED
        BY <3>1, <3>2
    <2>2. d = [i \in 1..n |-> d[i]] /\ DOMAIN d = 1..n
      BY <1>5
    <2>3. d \in [1..n -> Int]
      BY <2>1, <2>2
    <2>. QED
      BY <2>2, <2>3
  <1>9. src = [i \in 1..n |-> IF i = 1 THEN d[1] ELSE Signed(src[i - 1] + d[i], NarrowBits)]
    <2>1. PICK h : h = [i \in 1..n |-> IF i = 1 THEN d[1] ELSE Signed(src[i - 1] + d[i], NarrowBits)]
      OBVIOUS
    <2>2. \A i \in 1..n : src[i] = h[i]
      BY <1>6, <1>7, <2>1
    <2>. QED
      BY <1>1, <2>1, <2>2
  <1>. DEFINE f == CHOOSE h : h = [i \in DOMAIN d |-> IF i = 1 THEN d[1] ELSE Signed(h[i - 1] + d[i], NarrowBits)]
  <1>10. f = [i \in DOMAIN d |-> IF i = 1 THEN d[1] ELSE Signed(f[i - 1] + d[i], NarrowBits)]
    BY <1>8, <1>9, Zenon
  <1>11. Undeltas(d) = [i \in DOMAIN d |-> f[i]]
    BY Zenon DEF Undeltas
  <1>. HIDE DEF f
  <1>12. f = [i \in 1..n |-> IF i = 1 THEN d[1] ELSE Signed(f[i - 1] + d[i], NarrowBits)]
    BY <1>8, <1>10, Zenon
  <1>13. \A i \in 1..n : f[i] = src[i]
    <2>. DEFINE S == {i \in 0..n : i > 0 => f[i] = src[i]}
    <2>1. 0 \in S
      OBVIOUS
    <2>2. ASSUME NEW i \in 0..(n - 1), i \in S PROVE i + 1 \in S
      <3>1. CASE i = 0
        <4>1. 1 \in 1..n /\ i + 1 = 1 /\ 1 \in 0..n
          BY <3>1
        <4>2. f[1] = d[1] /\ d[1] = src[1]
          BY <1>7, <1>12, <4>1
        <4>. QED
          BY <4>1, <4>2
      <3>2. CASE i # 0
        <4>1. i + 1 \in 1..n /\ i + 1 # 1 /\ (i + 1) - 1 = i /\ i > 0 /\ i + 1 \in 0..n
          BY <3>2
        <4>2. f[i + 1] = Signed(f[i] + d[i + 1], NarrowBits)
          BY <1>12, <4>1
        <4>3. f[i] = src[i]
          BY <2>2, <4>1
        <4>4. Signed(src[i] + d[i + 1], NarrowBits) = src[i + 1]
          BY <1>6, <4>1
        <4>. QED
          BY <4>1, <4>2, <4>3, <4>4
      <3>. QED
        BY <3>1, <3>2
    <2>3. 0..n \subseteq S
      <3>. HIDE DEF S
      <3>. QED
        BY <2>1, <2>2, IntervalInduction
    <2>. QED
      BY <2>3
  <1>14. Undeltas(d) = src
    <2>1. PICK g : g = Undeltas(d)
      OBVIOUS
    <2>2. g = [i \in 1..n |-> f[i]]
      BY <1>8, <1>11, <2>1
    <2>3. DOMAIN g = 1..n /\ \A i \in 1..n : g[i] = src[i]
      BY <1>13, <2>2
    <2>. QED
      BY <1>1, <2>1, <2>2, <2>3
  <1>. QED
    BY <1>4, <1>8, <1>14

---------------------------------------------------------------------------
(* The recursive functions are what their definitions say *)

\* Encoded's own equation: the functions that satisfy it up to a level agree, and there is one for
\* every level.
EncodedStep(d, p) == Formats(IF d = 0 THEN {} ELSE p)

EncodedUpto(f, n) == f[0] = EncodedStep(0, {}) /\ \A d \in 1..n : f[d] = EncodedStep(d, f[d - 1])

LEMMA EncodedUnique ==
    ASSUME NEW n \in Nat, NEW f, NEW g, EncodedUpto(f, n), EncodedUpto(g, n)
    PROVE  f[n] = g[n]
  <1>. DEFINE S == {i \in 0..n : f[i] = g[i]}
  <1>1. 0 \in S
    BY DEF EncodedUpto
  <1>2. ASSUME NEW i \in 0..(n - 1), i \in S PROVE i + 1 \in S
    <2>1. i + 1 \in 1..n /\ (i + 1) - 1 = i /\ i + 1 \in 0..n
      OBVIOUS
    <2>2. f[i + 1] = EncodedStep(i + 1, f[i]) /\ g[i + 1] = EncodedStep(i + 1, g[i])
      BY <2>1, Zenon DEF EncodedUpto
    <2>. QED
      BY <1>2, <2>1, <2>2, Zenon
  <1>3. 0..n \subseteq S
    <2>. HIDE DEF S
    <2>. QED
      BY <1>1, <1>2, IntervalInduction
  <1>. QED
    BY <1>3

LEMMA EncodedExists ==
    ASSUME NEW n \in Nat
    PROVE  \E f : EncodedUpto(f, n)
  <1>. DEFINE S == {i \in Nat : \E f : EncodedUpto(f, i)}
  <1>1. 0 \in S
    <2>1. PICK f : f = [i \in {0} |-> EncodedStep(0, {})]
      OBVIOUS
    <2>2. f[0] = EncodedStep(0, {})
      BY <2>1, Zenon
    <2>3. EncodedUpto(f, 0)
      BY <2>2 DEF EncodedUpto
    <2>. QED
      BY <2>3
  <1>2. ASSUME NEW i \in Nat, i \in S PROVE i + 1 \in S
    <2>1. PICK f : EncodedUpto(f, i)
      BY <1>2
    <2>2. PICK g : g = [j \in 0..(i + 1) |-> IF j = i + 1 THEN EncodedStep(i + 1, f[i]) ELSE f[j]]
      OBVIOUS
    <2>3. g[i + 1] = EncodedStep(i + 1, f[i])
      <3>1. i + 1 \in 0..(i + 1)
        OBVIOUS
      <3>. QED
        BY <2>2, <3>1, Zenon
    <2>4. \A j \in 0..i : g[j] = f[j]
      <3>1. \A j \in 0..i : j \in 0..(i + 1) /\ j # i + 1
        OBVIOUS
      <3>. QED
        BY <2>2, <3>1, Zenon
    <2>5. g[0] = EncodedStep(0, {})
      <3>1. 0 \in 0..i
        OBVIOUS
      <3>. QED
        BY <2>1, <2>4, <3>1, Zenon DEF EncodedUpto
    <2>6. ASSUME NEW j \in 1..(i + 1) PROVE g[j] = EncodedStep(j, g[j - 1])
      <3>1. CASE j = i + 1
        <4>1. j - 1 = i /\ i \in 0..i
          BY <3>1
        <4>. QED
          BY <2>3, <2>4, <3>1, <4>1, Zenon
      <3>2. CASE j # i + 1
        <4>1. j \in 1..i /\ j \in 0..i /\ j - 1 \in 0..i
          BY <3>2
        <4>. QED
          BY <2>1, <2>4, <4>1, Zenon DEF EncodedUpto
      <3>. QED
        BY <3>1, <3>2
    <2>7. EncodedUpto(g, i + 1)
      BY <2>5, <2>6, Zenon DEF EncodedUpto
    <2>. QED
      BY <2>7
  <1>. HIDE DEF S
  <1>3. Nat \subseteq S
    BY <1>1, <1>2, SetInduction
  <1>. QED
    BY <1>3 DEF S

LEMMA EncodedIs ==
    ASSUME NEW d \in Nat
    PROVE  Encoded[d] = Formats(IF d = 0 THEN {} ELSE Encoded[d - 1])
  <1>0. PICK c : c = [i \in Nat |-> CHOOSE f : EncodedUpto(f, i)]
    OBVIOUS
  <1>2. PICK F : F = [i \in Nat |-> c[i][i]]
    OBVIOUS
  <1>1. ASSUME NEW i \in Nat PROVE F[i] = IF i = 0 THEN EncodedStep(0, {}) ELSE EncodedStep(i, F[i - 1])
    <2>1. PICK f : f = CHOOSE g : EncodedUpto(g, i)
      OBVIOUS
    <2>2. EncodedUpto(f, i) /\ F[i] = f[i]
      BY <1>0, <1>2, <2>1, EncodedExists, Zenon
    <2>3. CASE i = 0
      BY <2>2, <2>3, Zenon DEF EncodedUpto
    <2>4. CASE i # 0
      <3>1. i - 1 \in Nat /\ i \in 1..i /\ \A j \in 1..(i - 1) : j \in 1..i
        BY <2>4
      <3>2. PICK h : h = CHOOSE g : EncodedUpto(g, i - 1)
        OBVIOUS
      <3>3. EncodedUpto(h, i - 1) /\ F[i - 1] = h[i - 1]
        BY <1>0, <1>2, <3>1, <3>2, EncodedExists, Zenon
      <3>4. EncodedUpto(f, i - 1)
        BY <2>2, <3>1, Zenon DEF EncodedUpto
      <3>5. h[i - 1] = f[i - 1]
        BY <3>1, <3>3, <3>4, EncodedUnique, Zenon
      <3>6. f[i] = EncodedStep(i, f[i - 1])
        BY <2>2, <3>1, Zenon DEF EncodedUpto
      <3>. QED
        BY <2>2, <2>4, <3>3, <3>5, <3>6, Zenon
    <2>. QED
      BY <2>3, <2>4
  <1>3. F = [i \in Nat |-> F[i]]
    BY <1>2
  <1>4. \A i \in Nat : F[i] = Formats(IF i = 0 THEN {} ELSE F[i - 1])
    BY <1>1, Zenon DEF EncodedStep
  <1>5. F = [i \in Nat |-> Formats(IF i = 0 THEN {} ELSE F[i - 1])]
    BY <1>3, <1>4, Zenon
  <1>6. Encoded = [i \in Nat |-> Formats(IF i = 0 THEN {} ELSE Encoded[i - 1])]
    BY <1>5, Zenon DEF Encoded
  <1>. QED
    BY <1>6, Zenon

\* Encodings's own equation: the functions that satisfy it up to a level agree, and there is one for
\* every level.
EncodingsStep(d, p) == [s \in Streams |-> EncodingsAt(d, IF d = 0 THEN <<>> ELSE p, s)]

EncodingsUpto(f, n) == f[0] = EncodingsStep(0, {}) /\ \A d \in 1..n : f[d] = EncodingsStep(d, f[d - 1])

LEMMA EncodingsUnique ==
    ASSUME NEW n \in Nat, NEW f, NEW g, EncodingsUpto(f, n), EncodingsUpto(g, n)
    PROVE  f[n] = g[n]
  <1>. DEFINE S == {i \in 0..n : f[i] = g[i]}
  <1>1. 0 \in S
    BY DEF EncodingsUpto
  <1>2. ASSUME NEW i \in 0..(n - 1), i \in S PROVE i + 1 \in S
    <2>1. i + 1 \in 1..n /\ (i + 1) - 1 = i /\ i + 1 \in 0..n
      OBVIOUS
    <2>2. f[i + 1] = EncodingsStep(i + 1, f[i]) /\ g[i + 1] = EncodingsStep(i + 1, g[i])
      BY <2>1, Zenon DEF EncodingsUpto
    <2>. QED
      BY <1>2, <2>1, <2>2, Zenon
  <1>3. 0..n \subseteq S
    <2>. HIDE DEF S
    <2>. QED
      BY <1>1, <1>2, IntervalInduction
  <1>. QED
    BY <1>3

LEMMA EncodingsExists ==
    ASSUME NEW n \in Nat
    PROVE  \E f : EncodingsUpto(f, n)
  <1>. DEFINE S == {i \in Nat : \E f : EncodingsUpto(f, i)}
  <1>1. 0 \in S
    <2>1. PICK f : f = [i \in {0} |-> EncodingsStep(0, {})]
      OBVIOUS
    <2>2. f[0] = EncodingsStep(0, {})
      BY <2>1, Zenon
    <2>3. EncodingsUpto(f, 0)
      BY <2>2 DEF EncodingsUpto
    <2>. QED
      BY <2>3
  <1>2. ASSUME NEW i \in Nat, i \in S PROVE i + 1 \in S
    <2>1. PICK f : EncodingsUpto(f, i)
      BY <1>2
    <2>2. PICK g : g = [j \in 0..(i + 1) |-> IF j = i + 1 THEN EncodingsStep(i + 1, f[i]) ELSE f[j]]
      OBVIOUS
    <2>3. g[i + 1] = EncodingsStep(i + 1, f[i])
      <3>1. i + 1 \in 0..(i + 1)
        OBVIOUS
      <3>. QED
        BY <2>2, <3>1, Zenon
    <2>4. \A j \in 0..i : g[j] = f[j]
      <3>1. \A j \in 0..i : j \in 0..(i + 1) /\ j # i + 1
        OBVIOUS
      <3>. QED
        BY <2>2, <3>1, Zenon
    <2>5. g[0] = EncodingsStep(0, {})
      <3>1. 0 \in 0..i
        OBVIOUS
      <3>. QED
        BY <2>1, <2>4, <3>1, Zenon DEF EncodingsUpto
    <2>6. ASSUME NEW j \in 1..(i + 1) PROVE g[j] = EncodingsStep(j, g[j - 1])
      <3>1. CASE j = i + 1
        <4>1. j - 1 = i /\ i \in 0..i
          BY <3>1
        <4>. QED
          BY <2>3, <2>4, <3>1, <4>1, Zenon
      <3>2. CASE j # i + 1
        <4>1. j \in 1..i /\ j \in 0..i /\ j - 1 \in 0..i
          BY <3>2
        <4>. QED
          BY <2>1, <2>4, <4>1, Zenon DEF EncodingsUpto
      <3>. QED
        BY <3>1, <3>2
    <2>7. EncodingsUpto(g, i + 1)
      BY <2>5, <2>6, Zenon DEF EncodingsUpto
    <2>. QED
      BY <2>7
  <1>. HIDE DEF S
  <1>3. Nat \subseteq S
    BY <1>1, <1>2, SetInduction
  <1>. QED
    BY <1>3 DEF S

LEMMA EncodingsIs ==
    ASSUME NEW d \in Nat
    PROVE  Encodings[d] = [s \in Streams |-> EncodingsAt(d, IF d = 0 THEN <<>> ELSE Encodings[d - 1], s)]
  <1>0. PICK c : c = [i \in Nat |-> CHOOSE f : EncodingsUpto(f, i)]
    OBVIOUS
  <1>2. PICK F : F = [i \in Nat |-> c[i][i]]
    OBVIOUS
  <1>1. ASSUME NEW i \in Nat PROVE F[i] = IF i = 0 THEN EncodingsStep(0, {}) ELSE EncodingsStep(i, F[i - 1])
    <2>1. PICK f : f = CHOOSE g : EncodingsUpto(g, i)
      OBVIOUS
    <2>2. EncodingsUpto(f, i) /\ F[i] = f[i]
      BY <1>0, <1>2, <2>1, EncodingsExists, Zenon
    <2>3. CASE i = 0
      BY <2>2, <2>3, Zenon DEF EncodingsUpto
    <2>4. CASE i # 0
      <3>1. i - 1 \in Nat /\ i \in 1..i /\ \A j \in 1..(i - 1) : j \in 1..i
        BY <2>4
      <3>2. PICK h : h = CHOOSE g : EncodingsUpto(g, i - 1)
        OBVIOUS
      <3>3. EncodingsUpto(h, i - 1) /\ F[i - 1] = h[i - 1]
        BY <1>0, <1>2, <3>1, <3>2, EncodingsExists, Zenon
      <3>4. EncodingsUpto(f, i - 1)
        BY <2>2, <3>1, Zenon DEF EncodingsUpto
      <3>5. h[i - 1] = f[i - 1]
        BY <3>1, <3>3, <3>4, EncodingsUnique, Zenon
      <3>6. f[i] = EncodingsStep(i, f[i - 1])
        BY <2>2, <3>1, Zenon DEF EncodingsUpto
      <3>. QED
        BY <2>2, <2>4, <3>3, <3>5, <3>6, Zenon
    <2>. QED
      BY <2>3, <2>4
  <1>3. F = [i \in Nat |-> F[i]]
    BY <1>2
  <1>4. \A i \in Nat : F[i] = [s \in Streams |-> EncodingsAt(i, IF i = 0 THEN <<>> ELSE F[i - 1], s)]
    BY <1>1, Zenon DEF EncodingsStep
  <1>5. F = [i \in Nat |-> [s \in Streams |-> EncodingsAt(i, IF i = 0 THEN <<>> ELSE F[i - 1], s)]]
    BY <1>3, <1>4, Zenon
  <1>6. Encodings = [i \in Nat |-> [s \in Streams |-> EncodingsAt(i, IF i = 0 THEN <<>> ELSE Encodings[i - 1], s)]]
    BY <1>5, Zenon DEF Encodings
  <1>. QED
    BY <1>6, Zenon

\* Decode's own equation: the functions that satisfy it up to a level agree, and there is one for
\* every level.
DecodeStep(d, p) == [e \in Encoded[d] |-> [r \in Requests |-> DecodedBy(IF d = 0 THEN <<>> ELSE p, e, r)]]

DecodeUpto(f, n) == f[0] = DecodeStep(0, {}) /\ \A d \in 1..n : f[d] = DecodeStep(d, f[d - 1])

LEMMA DecodeUnique ==
    ASSUME NEW n \in Nat, NEW f, NEW g, DecodeUpto(f, n), DecodeUpto(g, n)
    PROVE  f[n] = g[n]
  <1>. DEFINE S == {i \in 0..n : f[i] = g[i]}
  <1>1. 0 \in S
    BY DEF DecodeUpto
  <1>2. ASSUME NEW i \in 0..(n - 1), i \in S PROVE i + 1 \in S
    <2>1. i + 1 \in 1..n /\ (i + 1) - 1 = i /\ i + 1 \in 0..n
      OBVIOUS
    <2>2. f[i + 1] = DecodeStep(i + 1, f[i]) /\ g[i + 1] = DecodeStep(i + 1, g[i])
      BY <2>1, Zenon DEF DecodeUpto
    <2>. QED
      BY <1>2, <2>1, <2>2, Zenon
  <1>3. 0..n \subseteq S
    <2>. HIDE DEF S
    <2>. QED
      BY <1>1, <1>2, IntervalInduction
  <1>. QED
    BY <1>3

LEMMA DecodeExists ==
    ASSUME NEW n \in Nat
    PROVE  \E f : DecodeUpto(f, n)
  <1>. DEFINE S == {i \in Nat : \E f : DecodeUpto(f, i)}
  <1>1. 0 \in S
    <2>1. PICK f : f = [i \in {0} |-> DecodeStep(0, {})]
      OBVIOUS
    <2>2. f[0] = DecodeStep(0, {})
      BY <2>1, Zenon
    <2>3. DecodeUpto(f, 0)
      BY <2>2 DEF DecodeUpto
    <2>. QED
      BY <2>3
  <1>2. ASSUME NEW i \in Nat, i \in S PROVE i + 1 \in S
    <2>1. PICK f : DecodeUpto(f, i)
      BY <1>2
    <2>2. PICK g : g = [j \in 0..(i + 1) |-> IF j = i + 1 THEN DecodeStep(i + 1, f[i]) ELSE f[j]]
      OBVIOUS
    <2>3. g[i + 1] = DecodeStep(i + 1, f[i])
      <3>1. i + 1 \in 0..(i + 1)
        OBVIOUS
      <3>. QED
        BY <2>2, <3>1, Zenon
    <2>4. \A j \in 0..i : g[j] = f[j]
      <3>1. \A j \in 0..i : j \in 0..(i + 1) /\ j # i + 1
        OBVIOUS
      <3>. QED
        BY <2>2, <3>1, Zenon
    <2>5. g[0] = DecodeStep(0, {})
      <3>1. 0 \in 0..i
        OBVIOUS
      <3>. QED
        BY <2>1, <2>4, <3>1, Zenon DEF DecodeUpto
    <2>6. ASSUME NEW j \in 1..(i + 1) PROVE g[j] = DecodeStep(j, g[j - 1])
      <3>1. CASE j = i + 1
        <4>1. j - 1 = i /\ i \in 0..i
          BY <3>1
        <4>. QED
          BY <2>3, <2>4, <3>1, <4>1, Zenon
      <3>2. CASE j # i + 1
        <4>1. j \in 1..i /\ j \in 0..i /\ j - 1 \in 0..i
          BY <3>2
        <4>. QED
          BY <2>1, <2>4, <4>1, Zenon DEF DecodeUpto
      <3>. QED
        BY <3>1, <3>2
    <2>7. DecodeUpto(g, i + 1)
      BY <2>5, <2>6, Zenon DEF DecodeUpto
    <2>. QED
      BY <2>7
  <1>. HIDE DEF S
  <1>3. Nat \subseteq S
    BY <1>1, <1>2, SetInduction
  <1>. QED
    BY <1>3 DEF S

LEMMA DecodeIs ==
    ASSUME NEW d \in Nat
    PROVE  Decode[d] = [e \in Encoded[d] |-> [r \in Requests |-> DecodedBy(IF d = 0 THEN <<>> ELSE Decode[d - 1], e, r)]]
  <1>0. PICK c : c = [i \in Nat |-> CHOOSE f : DecodeUpto(f, i)]
    OBVIOUS
  <1>2. PICK F : F = [i \in Nat |-> c[i][i]]
    OBVIOUS
  <1>1. ASSUME NEW i \in Nat PROVE F[i] = IF i = 0 THEN DecodeStep(0, {}) ELSE DecodeStep(i, F[i - 1])
    <2>1. PICK f : f = CHOOSE g : DecodeUpto(g, i)
      OBVIOUS
    <2>2. DecodeUpto(f, i) /\ F[i] = f[i]
      BY <1>0, <1>2, <2>1, DecodeExists, Zenon
    <2>3. CASE i = 0
      BY <2>2, <2>3, Zenon DEF DecodeUpto
    <2>4. CASE i # 0
      <3>1. i - 1 \in Nat /\ i \in 1..i /\ \A j \in 1..(i - 1) : j \in 1..i
        BY <2>4
      <3>2. PICK h : h = CHOOSE g : DecodeUpto(g, i - 1)
        OBVIOUS
      <3>3. DecodeUpto(h, i - 1) /\ F[i - 1] = h[i - 1]
        BY <1>0, <1>2, <3>1, <3>2, DecodeExists, Zenon
      <3>4. DecodeUpto(f, i - 1)
        BY <2>2, <3>1, Zenon DEF DecodeUpto
      <3>5. h[i - 1] = f[i - 1]
        BY <3>1, <3>3, <3>4, DecodeUnique, Zenon
      <3>6. f[i] = DecodeStep(i, f[i - 1])
        BY <2>2, <3>1, Zenon DEF DecodeUpto
      <3>. QED
        BY <2>2, <2>4, <3>3, <3>5, <3>6, Zenon
    <2>. QED
      BY <2>3, <2>4
  <1>3. F = [i \in Nat |-> F[i]]
    BY <1>2
  <1>4. \A i \in Nat : F[i] = [e \in Encoded[i] |-> [r \in Requests |-> DecodedBy(IF i = 0 THEN <<>> ELSE F[i - 1], e, r)]]
    BY <1>1, Zenon DEF DecodeStep
  <1>5. F = [i \in Nat |-> [e \in Encoded[i] |-> [r \in Requests |-> DecodedBy(IF i = 0 THEN <<>> ELSE F[i - 1], e, r)]]]
    BY <1>3, <1>4, Zenon
  <1>6. Decode = [i \in Nat |-> [e \in Encoded[i] |-> [r \in Requests |-> DecodedBy(IF i = 0 THEN <<>> ELSE Decode[i - 1], e, r)]]]
    BY <1>5, Zenon DEF Decode
  <1>. QED
    BY <1>6, Zenon

\* Gather's own equation: the functions that satisfy it up to a level agree, and there is one for
\* every level.
GatherStep(d, p) == [e \in Encoded[d] |-> [q \in Lookups |-> GatheredBy(d, IF d = 0 THEN <<>> ELSE p, e, q)]]

GatherUpto(f, n) == f[0] = GatherStep(0, {}) /\ \A d \in 1..n : f[d] = GatherStep(d, f[d - 1])

LEMMA GatherUnique ==
    ASSUME NEW n \in Nat, NEW f, NEW g, GatherUpto(f, n), GatherUpto(g, n)
    PROVE  f[n] = g[n]
  <1>. DEFINE S == {i \in 0..n : f[i] = g[i]}
  <1>1. 0 \in S
    BY DEF GatherUpto
  <1>2. ASSUME NEW i \in 0..(n - 1), i \in S PROVE i + 1 \in S
    <2>1. i + 1 \in 1..n /\ (i + 1) - 1 = i /\ i + 1 \in 0..n
      OBVIOUS
    <2>2. f[i + 1] = GatherStep(i + 1, f[i]) /\ g[i + 1] = GatherStep(i + 1, g[i])
      BY <2>1, Zenon DEF GatherUpto
    <2>. QED
      BY <1>2, <2>1, <2>2, Zenon
  <1>3. 0..n \subseteq S
    <2>. HIDE DEF S
    <2>. QED
      BY <1>1, <1>2, IntervalInduction
  <1>. QED
    BY <1>3

LEMMA GatherExists ==
    ASSUME NEW n \in Nat
    PROVE  \E f : GatherUpto(f, n)
  <1>. DEFINE S == {i \in Nat : \E f : GatherUpto(f, i)}
  <1>1. 0 \in S
    <2>1. PICK f : f = [i \in {0} |-> GatherStep(0, {})]
      OBVIOUS
    <2>2. f[0] = GatherStep(0, {})
      BY <2>1, Zenon
    <2>3. GatherUpto(f, 0)
      BY <2>2 DEF GatherUpto
    <2>. QED
      BY <2>3
  <1>2. ASSUME NEW i \in Nat, i \in S PROVE i + 1 \in S
    <2>1. PICK f : GatherUpto(f, i)
      BY <1>2
    <2>2. PICK g : g = [j \in 0..(i + 1) |-> IF j = i + 1 THEN GatherStep(i + 1, f[i]) ELSE f[j]]
      OBVIOUS
    <2>3. g[i + 1] = GatherStep(i + 1, f[i])
      <3>1. i + 1 \in 0..(i + 1)
        OBVIOUS
      <3>. QED
        BY <2>2, <3>1, Zenon
    <2>4. \A j \in 0..i : g[j] = f[j]
      <3>1. \A j \in 0..i : j \in 0..(i + 1) /\ j # i + 1
        OBVIOUS
      <3>. QED
        BY <2>2, <3>1, Zenon
    <2>5. g[0] = GatherStep(0, {})
      <3>1. 0 \in 0..i
        OBVIOUS
      <3>. QED
        BY <2>1, <2>4, <3>1, Zenon DEF GatherUpto
    <2>6. ASSUME NEW j \in 1..(i + 1) PROVE g[j] = GatherStep(j, g[j - 1])
      <3>1. CASE j = i + 1
        <4>1. j - 1 = i /\ i \in 0..i
          BY <3>1
        <4>. QED
          BY <2>3, <2>4, <3>1, <4>1, Zenon
      <3>2. CASE j # i + 1
        <4>1. j \in 1..i /\ j \in 0..i /\ j - 1 \in 0..i
          BY <3>2
        <4>. QED
          BY <2>1, <2>4, <4>1, Zenon DEF GatherUpto
      <3>. QED
        BY <3>1, <3>2
    <2>7. GatherUpto(g, i + 1)
      BY <2>5, <2>6, Zenon DEF GatherUpto
    <2>. QED
      BY <2>7
  <1>. HIDE DEF S
  <1>3. Nat \subseteq S
    BY <1>1, <1>2, SetInduction
  <1>. QED
    BY <1>3 DEF S

LEMMA GatherIs ==
    ASSUME NEW d \in Nat
    PROVE  Gather[d] = [e \in Encoded[d] |-> [q \in Lookups |-> GatheredBy(d, IF d = 0 THEN <<>> ELSE Gather[d - 1], e, q)]]
  <1>0. PICK c : c = [i \in Nat |-> CHOOSE f : GatherUpto(f, i)]
    OBVIOUS
  <1>2. PICK F : F = [i \in Nat |-> c[i][i]]
    OBVIOUS
  <1>1. ASSUME NEW i \in Nat PROVE F[i] = IF i = 0 THEN GatherStep(0, {}) ELSE GatherStep(i, F[i - 1])
    <2>1. PICK f : f = CHOOSE g : GatherUpto(g, i)
      OBVIOUS
    <2>2. GatherUpto(f, i) /\ F[i] = f[i]
      BY <1>0, <1>2, <2>1, GatherExists, Zenon
    <2>3. CASE i = 0
      BY <2>2, <2>3, Zenon DEF GatherUpto
    <2>4. CASE i # 0
      <3>1. i - 1 \in Nat /\ i \in 1..i /\ \A j \in 1..(i - 1) : j \in 1..i
        BY <2>4
      <3>2. PICK h : h = CHOOSE g : GatherUpto(g, i - 1)
        OBVIOUS
      <3>3. GatherUpto(h, i - 1) /\ F[i - 1] = h[i - 1]
        BY <1>0, <1>2, <3>1, <3>2, GatherExists, Zenon
      <3>4. GatherUpto(f, i - 1)
        BY <2>2, <3>1, Zenon DEF GatherUpto
      <3>5. h[i - 1] = f[i - 1]
        BY <3>1, <3>3, <3>4, GatherUnique, Zenon
      <3>6. f[i] = GatherStep(i, f[i - 1])
        BY <2>2, <3>1, Zenon DEF GatherUpto
      <3>. QED
        BY <2>2, <2>4, <3>3, <3>5, <3>6, Zenon
    <2>. QED
      BY <2>3, <2>4
  <1>3. F = [i \in Nat |-> F[i]]
    BY <1>2
  <1>4. \A i \in Nat : F[i] = [e \in Encoded[i] |-> [q \in Lookups |-> GatheredBy(i, IF i = 0 THEN <<>> ELSE F[i - 1], e, q)]]
    BY <1>1, Zenon DEF GatherStep
  <1>5. F = [i \in Nat |-> [e \in Encoded[i] |-> [q \in Lookups |-> GatheredBy(i, IF i = 0 THEN <<>> ELSE F[i - 1], e, q)]]]
    BY <1>3, <1>4, Zenon
  <1>6. Gather = [i \in Nat |-> [e \in Encoded[i] |-> [q \in Lookups |-> GatheredBy(i, IF i = 0 THEN <<>> ELSE Gather[i - 1], e, q)]]]
    BY <1>5, Zenon DEF Gather
  <1>. QED
    BY <1>6, Zenon

---------------------------------------------------------------------------
(* What is to be shown of an encoded stream *)

\* What a stream to compress is: the number of its rows fits an INTEGER, its nulls are rows of
\* it, codes are forced to BP and constant sections to ONE_VALUE, and columns have rows.
IsStream(level, type, src, nulls, force) ==
    /\ type \in Types /\ src \in Seq(NumbersOf(type)) /\ Len(src) < 2^(NarrowBits - 1)
    /\ nulls \subseteq 1..Len(src)
    /\ \/ force = AutoScheme
       \/ force = "BP" /\ type = "INTEGER"
       \/ force = "ONE_VALUE" /\ Cardinality(Keys(src)) = 1
    /\ src = <<>> => level # CascadeDepth

StreamOK(level, s) ==
    /\ s = Stream(s.type, s.src, s.nulls, s.force, s.junk) /\ s.junk \in Int
    /\ IsStream(level, s.type, s.src, s.nulls, s.force)

\* Doubles are kept to the sign of zero when no zero is among them.
Exact(type, src, nulls) == type # "DOUBLE" \/ (nulls = {} /\ \A i \in 1..Len(src) : src[i] # 0)

Agrees(v, w, exact) == IF exact THEN v = w ELSE Same(v, w)

ReadsAs(values, type, src, nulls) ==
    /\ values \in Seq(Int) /\ Len(values) = Len(src)
    /\ \A i \in 1..Len(src) : i \notin nulls => Agrees(values[i], src[i], Exact(type, src, nulls))

IsLookup(positions, n) == positions \in Seq(Nat) /\ \A k \in 1..Len(positions) : positions[k] + 1 \in 1..n

PicksAs(values, src, nulls, positions) ==
    /\ values \in Seq(Int) /\ Len(values) = Len(positions)
    /\ \A k \in 1..Len(positions) : positions[k] + 1 \notin nulls => values[k] = src[positions[k] + 1]

Reads(d, e, type, src, nulls) ==
    \A junk \in Int : ReadsAs(Decode[d][e][Request(type, nulls, Len(src), junk)], type, src, nulls)

Picks(d, e, type, src, nulls) ==
    \A junk \in Int, positions \in Seq(Nat) :
        IsLookup(positions, Len(src)) =>
            PicksAs(Gather[d][e][Lookup(type, nulls, Len(src), junk, positions)], src, nulls, positions)

Kept(d, e, type, src, nulls) ==
    e \in Encoded[d] /\ Reads(d, e, type, src, nulls) /\ (type # "DOUBLE" => Picks(d, e, type, src, nulls))

AllKept(d) ==
    \A s \in Streams : StreamOK(d, s) => \A e \in Encodings[d][s] : Kept(d, e, s.type, s.src, s.nulls)

LEMMA NumbersAre ==
    ASSUME NEW type \in Types
    PROVE  NumbersOf(type) \subseteq Int
  <1>1. CASE type = "DOUBLE"
    BY <1>1 DEF NumbersOf
  <1>2. CASE type # "DOUBLE"
    BY <1>2, NotNegZero
  <1>. QED
    BY <1>1, <1>2

LEMMA StreamIs ==
    ASSUME NEW level, NEW type, NEW src, NEW nulls, NEW force, IsStream(level, type, src, nulls, force)
    PROVE  /\ type \in Types /\ src \in Seq(Int) /\ Len(src) \in Nat /\ DOMAIN src = 1..Len(src)
           /\ nulls \subseteq 1..Len(src) /\ nulls \in SUBSET Nat
           /\ \A i \in 1..Len(src) : src[i] \in NumbersOf(type) /\ src[i] \in Int
           /\ force \in Schemes \cup {AutoScheme}
           /\ \A junk \in Int : Stream(type, src, nulls, force, junk) \in Streams
  <1>1. type \in Types /\ src \in Seq(NumbersOf(type)) /\ nulls \subseteq 1..Len(src)
    BY DEF IsStream
  <1>2. NumbersOf(type) \subseteq Int
    BY <1>1, NumbersAre
  <1>3. Len(src) \in Nat /\ DOMAIN src = 1..Len(src) /\ \A i \in 1..Len(src) : src[i] \in NumbersOf(type)
    BY <1>1
  <1>4. src \in Seq(Int)
    <2>1. \A i \in 1..Len(src) : src[i] \in Int
      BY <1>2, <1>3
    <2>. QED
      BY <1>1, <1>3, <2>1
  <1>5. force \in Schemes \cup {AutoScheme}
    BY DEF IsStream, Schemes
  <1>6. nulls \in SUBSET Nat
    BY <1>1, <1>3
  <1>. QED
    BY <1>1, <1>2, <1>3, <1>4, <1>5, <1>6 DEF Stream, Streams

LEMMA EncodingsOf ==
    ASSUME NEW d \in Nat, NEW s \in Streams
    PROVE  Encodings[d][s] = EncodingsAt(d, IF d = 0 THEN <<>> ELSE Encodings[d - 1], s)
  <1>1. PICK f : f = Encodings[d]
    OBVIOUS
  <1>2. f = [t \in Streams |-> EncodingsAt(d, IF d = 0 THEN <<>> ELSE Encodings[d - 1], t)]
    BY <1>1, EncodingsIs, Zenon
  <1>. QED
    BY <1>1, <1>2, Zenon

LEMMA DecodeOf ==
    ASSUME NEW d \in Nat, NEW e \in Encoded[d], NEW r \in Requests
    PROVE  Decode[d][e][r] = DecodedBy(IF d = 0 THEN <<>> ELSE Decode[d - 1], e, r)
  <1>1. PICK f : f = Decode[d]
    OBVIOUS
  <1>2. f = [x \in Encoded[d] |-> [y \in Requests |-> DecodedBy(IF d = 0 THEN <<>> ELSE Decode[d - 1], x, y)]]
    BY <1>1, DecodeIs, Zenon
  <1>3. PICK g : g = f[e]
    OBVIOUS
  <1>4. g = [y \in Requests |-> DecodedBy(IF d = 0 THEN <<>> ELSE Decode[d - 1], e, y)]
    BY <1>2, <1>3, Zenon
  <1>. QED
    BY <1>1, <1>3, <1>4, Zenon

LEMMA GatherOf ==
    ASSUME NEW d \in Nat, NEW e \in Encoded[d], NEW q \in Lookups
    PROVE  Gather[d][e][q] = GatheredBy(d, IF d = 0 THEN <<>> ELSE Gather[d - 1], e, q)
  <1>1. PICK f : f = Gather[d]
    OBVIOUS
  <1>2. f = [x \in Encoded[d] |-> [y \in Lookups |-> GatheredBy(d, IF d = 0 THEN <<>> ELSE Gather[d - 1], x, y)]]
    BY <1>1, GatherIs, Zenon
  <1>3. PICK g : g = f[e]
    OBVIOUS
  <1>4. g = [y \in Lookups |-> GatheredBy(d, IF d = 0 THEN <<>> ELSE Gather[d - 1], e, y)]
    BY <1>2, <1>3, Zenon
  <1>. QED
    BY <1>1, <1>3, <1>4, Zenon

\* What a sub-stream that a scheme compresses is read back as.
LEMMA SubKept ==
    ASSUME NEW d \in Nat, AllKept(d), NEW type, NEW src, NEW nulls, NEW force, NEW junk \in Int,
           IsStream(d, type, src, nulls, force), NEW e \in Encodings[d][Stream(type, src, nulls, force, junk)]
    PROVE  Kept(d, e, type, src, nulls)
  <1>1. PICK s : s = Stream(type, src, nulls, force, junk)
    OBVIOUS
  <1>2. s.type = type /\ s.src = src /\ s.nulls = nulls /\ s.force = force /\ s.junk = junk
    BY <1>1 DEF Stream
  <1>3. s \in Streams
    BY <1>1, StreamIs, Zenon
  <1>4. StreamOK(d, s)
    BY <1>1, <1>2, Zenon DEF StreamOK
  <1>5. Kept(d, e, s.type, s.src, s.nulls)
    BY <1>1, <1>3, <1>4, Zenon DEF AllKept
  <1>. QED
    BY <1>2, <1>5, Zenon

\* What is read whole is the stream.
LEMMA ReadsWhole ==
    ASSUME NEW type, NEW src \in Seq(Int), NEW values, ReadsAs(values, type, src, {}), Exact(type, src, {})
    PROVE  values = src
  <1>1. PICK n \in Nat : n = Len(src) /\ DOMAIN src = 1..n
    OBVIOUS
  <1>2. values \in Seq(Int) /\ Len(values) = n /\ DOMAIN values = 1..n
    BY <1>1 DEF ReadsAs
  <1>3. \A i \in 1..n : values[i] = src[i]
    BY <1>1, Zenon DEF ReadsAs, Agrees
  <1>. QED
    BY <1>1, <1>2, <1>3

\* A scheme keeps a stream at a level.
KeptBy(d, e, type, src, nulls) ==
    /\ e \in Formats(IF d = 0 THEN {} ELSE Encoded[d - 1])
    /\ \A junk \in Int :
          ReadsAs(DecodedBy(IF d = 0 THEN <<>> ELSE Decode[d - 1], e, Request(type, nulls, Len(src), junk)), type, src, nulls)
    /\ type # "DOUBLE" =>
          \A junk \in Int, positions \in Seq(Nat) :
             IsLookup(positions, Len(src)) =>
                PicksAs(GatheredBy(d, IF d = 0 THEN <<>> ELSE Gather[d - 1], e, Lookup(type, nulls, Len(src), junk, positions)),
                        src, nulls, positions)

LEMMA RequestIs ==
    ASSUME NEW type \in Types, NEW nulls \in SUBSET Nat, NEW count \in Nat, NEW junk \in Int
    PROVE  /\ Request(type, nulls, count, junk) \in Requests
           /\ \A positions \in Seq(Nat) : Lookup(type, nulls, count, junk, positions) \in Lookups
  BY DEF Request, Requests, Lookup, Lookups

LEMMA KeptByIs ==
    ASSUME NEW d \in Nat, NEW e, NEW type \in Types, NEW src \in Seq(Int), NEW nulls \in SUBSET Nat,
           KeptBy(d, e, type, src, nulls)
    PROVE  Kept(d, e, type, src, nulls)
  <1>1. e \in Encoded[d]
    BY EncodedIs, Zenon DEF KeptBy
  <1>2. Len(src) \in Nat
    OBVIOUS
  <1>3. Reads(d, e, type, src, nulls)
    BY <1>1, <1>2, RequestIs, DecodeOf, Zenon DEF KeptBy, Reads
  <1>4. ASSUME type # "DOUBLE" PROVE Picks(d, e, type, src, nulls)
    BY <1>1, <1>2, <1>4, RequestIs, GatherOf, Zenon DEF KeptBy, Picks
  <1>. QED
    BY <1>1, <1>3, <1>4, Zenon DEF Kept

---------------------------------------------------------------------------
(* The schemes without sub-streams *)

Simple == {"UNCOMPRESSED", "RAW", "BP", "DOUBLE_BP", "PFOR_DELTA", "ONE_VALUE", "PSEUDODECIMAL"}

LEMMA SimpleGather ==
    ASSUME NEW d, NEW subs, NEW e, e.scheme \in Simple, NEW q
    PROVE  GatheredBy(d, subs, e, q) = At(Decode[d][e][RequestOf(q)], q.positions)
  BY DEF GatheredBy, Simple

LEMMA PicksRead ==
    ASSUME NEW type, type # "DOUBLE", NEW src \in Seq(Int), NEW nulls, NEW values, ReadsAs(values, type, src, nulls),
           NEW positions, IsLookup(positions, Len(src))
    PROVE  PicksAs(At(values, positions), src, nulls, positions)
  <1>1. PICK n \in Nat : n = Len(src)
    OBVIOUS
  <1>2. values \in Seq(Int) /\ Len(values) = n
    BY <1>1 DEF ReadsAs
  <1>3. ASSUME NEW i \in 1..n, i \notin nulls PROVE values[i] = src[i]
    BY <1>1, <1>3, Zenon DEF ReadsAs, Agrees, Exact
  <1>4. PICK m \in Nat : m = Len(positions) /\ DOMAIN positions = 1..m /\ \A k \in 1..m : positions[k] + 1 \in 1..n
    BY <1>1 DEF IsLookup
  <1>5. PICK at : at = At(values, positions)
    OBVIOUS
  <1>6. at = [k \in 1..m |-> values[positions[k] + 1]]
    BY <1>4, <1>5, Zenon DEF At
  <1>7. at \in Seq(Int) /\ Len(at) = m
    <2>1. \A i \in 1..n : values[i] \in Int
      BY <1>2
    <2>2. \A k \in 1..m : values[positions[k] + 1] \in Int
      BY <1>4, <2>1, Zenon
    <2>3. at \in [1..m -> Int]
      BY <1>6, <2>2, Zenon
    <2>. QED
      BY <2>3
  <1>8. \A k \in 1..m : positions[k] + 1 \notin nulls => at[k] = src[positions[k] + 1]
    BY <1>3, <1>4, <1>6, Zenon
  <1>. QED
    BY <1>4, <1>5, <1>7, <1>8, Zenon DEF PicksAs

LEMMA KeptSimply ==
    ASSUME NEW d \in Nat, NEW e, NEW type \in Types, NEW src \in Seq(Int), NEW nulls \in SUBSET Nat,
           e.scheme \in Simple, e \in Formats(IF d = 0 THEN {} ELSE Encoded[d - 1]),
           \A junk \in Int :
               ReadsAs(DecodedBy(IF d = 0 THEN <<>> ELSE Decode[d - 1], e, Request(type, nulls, Len(src), junk)), type, src, nulls)
    PROVE  KeptBy(d, e, type, src, nulls)
  <1>1. ASSUME type # "DOUBLE", NEW junk \in Int, NEW positions \in Seq(Nat), IsLookup(positions, Len(src))
        PROVE  PicksAs(GatheredBy(d, IF d = 0 THEN <<>> ELSE Gather[d - 1], e, Lookup(type, nulls, Len(src), junk, positions)),
                        src, nulls, positions)
    <2>1. PICK q : q = Lookup(type, nulls, Len(src), junk, positions)
      OBVIOUS
    <2>2. q.positions = positions /\ RequestOf(q) = Request(type, nulls, Len(src), junk)
      BY <2>1 DEF Lookup, RequestOf
    <2>3. PICK r : r = Request(type, nulls, Len(src), junk)
      OBVIOUS
    <2>4. e \in Encoded[d] /\ r \in Requests
      <3>1. Len(src) \in Nat
        OBVIOUS
      <3>. QED
        BY <2>3, <3>1, EncodedIs, RequestIs, Zenon
    <2>5. ReadsAs(Decode[d][e][r], type, src, nulls)
      BY <2>3, <2>4, DecodeOf, Zenon
    <2>6. PicksAs(At(Decode[d][e][r], positions), src, nulls, positions)
      BY <1>1, <2>5, PicksRead, Zenon
    <2>7. GatheredBy(d, IF d = 0 THEN <<>> ELSE Gather[d - 1], e, q) = At(Decode[d][e][RequestOf(q)], q.positions)
      BY SimpleGather
    <2>8. At(Decode[d][e][RequestOf(q)], q.positions) = At(Decode[d][e][r], positions)
      BY <2>2, <2>3
    <2>9. PicksAs(GatheredBy(d, IF d = 0 THEN <<>> ELSE Gather[d - 1], e, q), src, nulls, positions)
      BY <2>6, <2>7, <2>8
    <2>. QED
      BY <2>1, <2>9
  <1>. QED
    BY <1>1, Zenon DEF KeptBy

LEMMA SelfAgrees ==
    ASSUME NEW v \in Int, NEW exact
    PROVE  Agrees(v, v, exact)
  BY SameSelf DEF Agrees

LEMMA SelfReads ==
    ASSUME NEW type, NEW src \in Seq(Int), NEW nulls
    PROVE  ReadsAs(src, type, src, nulls)
  <1>1. \A i \in 1..Len(src) : src[i] \in Int
    OBVIOUS
  <1>. QED
    BY <1>1, SelfAgrees, Zenon DEF ReadsAs

LEMMA PlainKept ==
    ASSUME NEW d \in Nat, NEW type, NEW src, NEW nulls, NEW force, IsStream(d, type, src, nulls, force),
           NEW scheme \in {"UNCOMPRESSED", "RAW", "BP", "DOUBLE_BP"}
    PROVE  Kept(d, Plain(scheme, src), type, src, nulls)
  <1>1. type \in Types /\ src \in Seq(Int) /\ nulls \in SUBSET Nat
    BY StreamIs, Zenon
  <1>2. PICK e : e = Plain(scheme, src)
    OBVIOUS
  <1>3. e.scheme = scheme /\ e.values = src /\ e.scheme \in Simple
    BY <1>2 DEF Plain, Simple
  <1>4. e \in Formats(IF d = 0 THEN {} ELSE Encoded[d - 1])
    BY <1>1, <1>2 DEF Plain, Formats
  <1>5. \A subs, r : DecodedBy(subs, e, r) = src
    BY <1>3 DEF DecodedBy
  <1>6. KeptBy(d, e, type, src, nulls)
    BY <1>1, <1>3, <1>4, <1>5, KeptSimply, SelfReads, Zenon
  <1>. QED
    BY <1>1, <1>2, <1>6, KeptByIs, Zenon

LEMMA DeltaKept ==
    ASSUME NEW d \in Nat, NEW type, NEW src, NEW nulls, NEW force, IsStream(d, type, src, nulls, force), type = "INTEGER"
    PROVE  Kept(d, Plain("PFOR_DELTA", Deltas(src)), type, src, nulls)
  <1>1. type \in Types /\ src \in Seq(Int) /\ nulls \in SUBSET Nat
    BY StreamIs, Zenon
  <1>2. PICK e : e = Plain("PFOR_DELTA", Deltas(src))
    OBVIOUS
  <1>3. Deltas(src) \in Seq(Int) /\ Undeltas(Deltas(src)) = src
    <2>1. NumbersOf("INTEGER") = Numbers(NarrowBits)
      BY DEF NumbersOf, Bits, Numbers
    <2>2. src \in Seq(Numbers(NarrowBits))
      BY <2>1 DEF IsStream
    <2>. QED
      BY <2>2, DeltasBack
  <1>4. e.scheme = "PFOR_DELTA" /\ e.values = Deltas(src) /\ e.scheme \in Simple
    BY <1>2 DEF Plain, Simple
  <1>5. e \in Formats(IF d = 0 THEN {} ELSE Encoded[d - 1])
    BY <1>2, <1>3 DEF Plain, Formats
  <1>6. \A subs, r : DecodedBy(subs, e, r) = Undeltas(e.values)
    BY <1>4 DEF DecodedBy
  <1>7. \A subs, r : DecodedBy(subs, e, r) = src
    BY <1>3, <1>4, <1>6, Zenon
  <1>8. KeptBy(d, e, type, src, nulls)
    BY <1>1, <1>4, <1>5, <1>7, KeptSimply, SelfReads, Zenon
  <1>. QED
    BY <1>1, <1>2, <1>8, KeptByIs, Zenon

\* A value of the stream that is the same as another one stands for it.
LEMMA SameAgrees ==
    ASSUME NEW level, NEW type, NEW src, NEW nulls, NEW force, IsStream(level, type, src, nulls, force),
           NEW i \in 1..Len(src), NEW j \in 1..Len(src), Same(src[j], src[i])
    PROVE  Agrees(src[j], src[i], Exact(type, src, nulls))
  <1>1. PICK a \in Int, b \in Int : a = src[j] /\ b = src[i]
    BY StreamIs, Zenon
  <1>2. ASSUME Exact(type, src, nulls) PROVE a = b
    <2>1. CASE type # "DOUBLE"
      <3>1. type \in Types /\ a \in NumbersOf(type) /\ b \in NumbersOf(type)
        BY <1>1, StreamIs, Zenon
      <3>2. a # NegZero /\ b # NegZero
        BY <2>1, <3>1, NotNegZero
      <3>. QED
        BY <1>1, <3>2, NotTwice
    <2>2. CASE type = "DOUBLE"
      <3>1. a # 0 /\ b # 0
        BY <1>1, <1>2, <2>2 DEF Exact
      <3>. QED
        BY <1>1, <3>1, NotTwice
    <2>. QED
      BY <2>1, <2>2
  <1>. QED
    BY <1>1, <1>2, Zenon DEF Agrees

LEMMA DictionaryReads ==
    ASSUME NEW level, NEW type, NEW src, NEW nulls, NEW force, IsStream(level, type, src, nulls, force),
           NEW i \in 1..Len(src), NEW k \in 1..Len(Dictionary(src)), Same(Dictionary(src)[k], src[i])
    PROVE  Agrees(Dictionary(src)[k], src[i], Exact(type, src, nulls))
  <1>1. src \in Seq(Int)
    BY StreamIs, Zenon
  <1>2. PICK j \in 1..Len(src) : Dictionary(src)[k] = src[j]
    BY <1>1, DictionaryIs, Zenon
  <1>. QED
    BY <1>2, SameAgrees, Zenon

LEMMA OneValueKept ==
    ASSUME NEW d \in Nat, NEW type, NEW src, NEW nulls, NEW force, IsStream(d, type, src, nulls, force),
           src # <<>>, nulls = 1..Len(src) \/ Cardinality(Keys(src)) = 1
    PROVE  Kept(d, OneValue(src), type, src, nulls)
  <1>1. type \in Types /\ src \in Seq(Int) /\ nulls \in SUBSET Nat /\ Len(src) \in Nat
    BY StreamIs, Zenon
  <1>2. PICK e : e = OneValue(src)
    OBVIOUS
  <1>3. PICK dict : dict = Dictionary(src)
    OBVIOUS
  <1>4. /\ dict \in Seq(Int) /\ Len(dict) \in Nat /\ Len(dict) = Cardinality(Keys(src))
        /\ \A i \in 1..Len(src) : \E k \in 1..Len(dict) : Same(dict[k], src[i])
    BY <1>1, <1>3, DictionaryIs, Zenon
  <1>5. 1 \in 1..Len(dict) /\ dict[1] \in Int
    <2>1. 1 \in 1..Len(src)
      BY <1>1
    <2>2. PICK k \in 1..Len(dict) : Same(dict[k], src[1])
      BY <1>4, <2>1
    <2>. QED
      BY <1>4, <2>2
  <1>6. e.scheme = "ONE_VALUE" /\ e.value = dict[1] /\ e.scheme \in Simple
    BY <1>2, <1>3 DEF OneValue, Simple
  <1>7. e \in Formats(IF d = 0 THEN {} ELSE Encoded[d - 1])
    BY <1>2, <1>3, <1>5 DEF OneValue, Formats
  <1>8. \A subs, r : DecodedBy(subs, e, r) = [i \in 1..r.count |-> dict[1]]
    BY <1>6 DEF DecodedBy
  <1>9. ASSUME NEW i \in 1..Len(src), i \notin nulls PROVE Agrees(dict[1], src[i], Exact(type, src, nulls))
    <2>1. Cardinality(Keys(src)) = 1
      BY <1>9
    <2>2. PICK k \in 1..Len(dict) : Same(dict[k], src[i])
      BY <1>4
    <2>3. k = 1
      BY <1>4, <2>1, <2>2
    <2>. QED
      BY <1>3, <1>5, <2>2, <2>3, DictionaryReads, Zenon
  <1>10. ASSUME NEW subs, NEW junk \in Int
         PROVE  ReadsAs(DecodedBy(subs, e, Request(type, nulls, Len(src), junk)), type, src, nulls)
    <2>1. PICK v : v = [i \in 1..Len(src) |-> dict[1]]
      OBVIOUS
    <2>2. DecodedBy(subs, e, Request(type, nulls, Len(src), junk)) = v
      BY <1>8, <2>1 DEF Request
    <2>3. v \in Seq(Int) /\ Len(v) = Len(src)
      BY <1>1, <1>5, <2>1
    <2>4. ReadsAs(v, type, src, nulls)
      BY <1>9, <2>1, <2>3, Zenon DEF ReadsAs
    <2>. QED
      BY <2>2, <2>4, Zenon
  <1>11. KeptBy(d, e, type, src, nulls)
    BY <1>1, <1>6, <1>7, <1>10, KeptSimply, Zenon
  <1>. QED
    BY <1>1, <1>2, <1>11, KeptByIs, Zenon

\* Reading a dictionary by codes, for some of the rows or for all.
LookedUp(v, codes, row, m, src) ==
    /\ \A k \in 1..m : row[k] \in 1..Len(src) /\ codes[k] = CodesOf(src)[row[k]]
    /\ v = [k \in 1..m |-> Dictionary(src)[codes[k] + 1]]

LEMMA CodesLookedUp ==
    ASSUME NEW level, NEW type, NEW src, NEW nulls, NEW force, IsStream(level, type, src, nulls, force),
           NEW m \in Nat, NEW row, NEW codes, NEW v, LookedUp(v, codes, row, m, src)
    PROVE  /\ v \in Seq(Int) /\ Len(v) = m
           /\ \A k \in 1..m : Agrees(v[k], src[row[k]], Exact(type, src, nulls))
  <1>1. src \in Seq(Int)
    BY StreamIs, Zenon
  <1>4. PICK dict : dict = Dictionary(src)
    OBVIOUS
  <1>5. /\ \A k \in 1..m : row[k] \in 1..Len(src) /\ codes[k] = CodesOf(src)[row[k]]
        /\ v = [k \in 1..m |-> dict[codes[k] + 1]]
    BY <1>4, Zenon DEF LookedUp
  <1>2. ASSUME NEW k \in 1..m
        PROVE  v[k] \in Int /\ Agrees(v[k], src[row[k]], Exact(type, src, nulls))
    <2>1. PICK i \in 1..Len(src) : i = row[k]
      BY <1>5
    <2>2. PICK c \in 1..Len(dict) : c = CodesOf(src)[i] + 1 /\ Same(dict[c], src[i])
      BY <1>1, <1>4, CodesRead, Zenon
    <2>3. v[k] = dict[c]
      BY <1>5, <2>1, <2>2
    <2>4. dict[c] \in Int
      <3>1. dict \in Seq(Int)
        BY <1>1, <1>4, DictionaryIs, Zenon
      <3>. QED
        BY <3>1
    <2>. QED
      BY <1>4, <2>1, <2>2, <2>3, <2>4, DictionaryReads, Zenon
  <1>3. v \in [1..m -> Int]
    <2>1. \A k \in 1..m : dict[codes[k] + 1] \in Int
      BY <1>2, <1>5
    <2>. QED
      BY <1>5, <2>1
  <1>. QED
    BY <1>2, <1>3

LEMMA FixedDictionaryKept ==
    ASSUME NEW d \in Nat, NEW type, NEW src, NEW nulls, NEW force, IsStream(d, type, src, nulls, force)
    PROVE  Kept(d, FixedDictionary(src), type, src, nulls)
  <1>1. type \in Types /\ src \in Seq(Int) /\ nulls \in SUBSET Nat
    BY StreamIs, Zenon
  <1>2. PICK e : e = FixedDictionary(src)
    OBVIOUS
  <1>3. PICK dict : dict = Dictionary(src)
    OBVIOUS
  <1>4. PICK codes : codes = CodesOf(src)
    OBVIOUS
  <1>5. e.scheme = "DICTIONARY_8" /\ e.dict = dict /\ e.bytes = codes
    BY <1>2, <1>3, <1>4 DEF FixedDictionary
  <1>6. e \in Formats(IF d = 0 THEN {} ELSE Encoded[d - 1])
    <2>1. dict \in Seq(Int) /\ codes \in Seq(Nat)
      BY <1>1, <1>3, <1>4, DictionaryIs, CodesRead, Zenon
    <2>. QED
      BY <1>2, <1>3, <1>4, <2>1 DEF FixedDictionary, Formats
  <1>7. PICK n \in Nat : n = Len(src)
    BY <1>1
  <1>8. ASSUME NEW junk \in Int, NEW subs
        PROVE  ReadsAs(DecodedBy(subs, e, Request(type, nulls, Len(src), junk)), type, src, nulls)
    <2>1. PICK v : v = [i \in 1..n |-> dict[codes[i] + 1]]
      OBVIOUS
    <2>2. DecodedBy(subs, e, Request(type, nulls, Len(src), junk)) = v
      BY <1>5, <1>7, <2>1 DEF DecodedBy, Request
    <2>3. PICK row : row = [i \in 1..n |-> i]
      OBVIOUS
    <2>4. LookedUp(v, codes, row, n, src)
      BY <1>3, <1>4, <1>7, <2>1, <2>3 DEF LookedUp
    <2>5. v \in Seq(Int) /\ Len(v) = n /\ \A k \in 1..n : Agrees(v[k], src[row[k]], Exact(type, src, nulls))
      BY <2>4, CodesLookedUp, Zenon
    <2>6. \A k \in 1..n : Agrees(v[k], src[k], Exact(type, src, nulls))
      BY <2>3, <2>5, Zenon
    <2>7. ReadsAs(v, type, src, nulls)
      BY <1>7, <2>5, <2>6, Zenon DEF ReadsAs
    <2>. QED
      BY <2>2, <2>7, Zenon
  <1>9. ASSUME type # "DOUBLE", NEW junk \in Int, NEW positions \in Seq(Nat), IsLookup(positions, Len(src)), NEW subs
        PROVE  PicksAs(GatheredBy(d, subs, e, Lookup(type, nulls, Len(src), junk, positions)), src, nulls, positions)
    <2>1. PICK m \in Nat : m = Len(positions) /\ DOMAIN positions = 1..m /\ \A k \in 1..m : positions[k] + 1 \in 1..n
      BY <1>7, <1>9 DEF IsLookup
    <2>2. PICK row : row = [k \in 1..m |-> positions[k] + 1]
      OBVIOUS
    <2>3. PICK cs : cs = [k \in 1..m |-> codes[positions[k] + 1]]
      OBVIOUS
    <2>4. PICK v : v = [k \in 1..m |-> dict[cs[k] + 1]]
      OBVIOUS
    <2>5. GatheredBy(d, subs, e, Lookup(type, nulls, Len(src), junk, positions)) = v
      <3>1. v = [k \in 1..m |-> dict[codes[positions[k] + 1] + 1]]
        BY <2>3, <2>4
      <3>. QED
        BY <1>5, <2>1, <3>1 DEF GatheredBy, Lookup
    <2>6. LookedUp(v, cs, row, m, src)
      BY <1>3, <1>4, <1>7, <2>1, <2>2, <2>3, <2>4 DEF LookedUp
    <2>7. v \in Seq(Int) /\ Len(v) = m /\ \A k \in 1..m : Agrees(v[k], src[row[k]], Exact(type, src, nulls))
      BY <2>6, CodesLookedUp, Zenon
    <2>8. \A k \in 1..m : v[k] = src[positions[k] + 1]
      BY <1>9, <2>2, <2>7, Zenon DEF Agrees, Exact
    <2>9. PicksAs(v, src, nulls, positions)
      BY <2>1, <2>7, <2>8, Zenon DEF PicksAs
    <2>. QED
      BY <2>5, <2>9
  <1>10. KeptBy(d, e, type, src, nulls)
    BY <1>6, <1>8, <1>9, Zenon DEF KeptBy
  <1>. QED
    BY <1>1, <1>2, <1>10, KeptByIs, Zenon

---------------------------------------------------------------------------
(* The schemes with sub-streams *)

LEMMA DepthIs == CascadeDepth \in Nat
  BY PoolAssumption

KeptDeep(d, e, type, src, nulls) ==
    /\ e \in Formats(Encoded[d - 1])
    /\ \A junk \in Int : ReadsAs(DecodedBy(Decode[d - 1], e, Request(type, nulls, Len(src), junk)), type, src, nulls)
    /\ type # "DOUBLE" =>
          \A junk \in Int, positions \in Seq(Nat) :
             IsLookup(positions, Len(src)) =>
                PicksAs(GatheredBy(d, Gather[d - 1], e, Lookup(type, nulls, Len(src), junk, positions)), src, nulls, positions)

LEMMA KeptDeepIs ==
    ASSUME NEW d \in 1..CascadeDepth, NEW e, NEW type, NEW src, NEW nulls, NEW force,
           IsStream(d, type, src, nulls, force), KeptDeep(d, e, type, src, nulls)
    PROVE  Kept(d, e, type, src, nulls)
  <1>1. type \in Types /\ src \in Seq(Int) /\ nulls \in SUBSET Nat
    BY StreamIs, Zenon
  <1>2. d \in Nat /\ d # 0
    BY DepthIs
  <1>3. KeptBy(d, e, type, src, nulls)
    BY <1>2, Zenon DEF KeptBy, KeptDeep
  <1>. QED
    BY <1>1, <1>2, <1>3, KeptByIs, Zenon

LEMMA FitsInteger ==
    ASSUME NEW n \in Nat, n < 2^(NarrowBits - 1)
    PROVE  n \in NumbersOf("INTEGER")
  <1>1. PICK h \in Nat \ {0} : h = 2^(NarrowBits - 1)
    BY WidthsAre, HalfOf
  <1>2. NumbersOf("INTEGER") = (-h)..(h - 1)
    BY <1>1 DEF NumbersOf, Bits
  <1>. QED
    BY <1>1, <1>2

LEMMA IntegersAre ==
    ASSUME NEW s \in Seq(Nat), \A i \in 1..Len(s) : s[i] < 2^(NarrowBits - 1)
    PROVE  s \in Seq(NumbersOf("INTEGER"))
  <1>1. \A i \in 1..Len(s) : s[i] \in NumbersOf("INTEGER")
    <2>1. \A i \in 1..Len(s) : s[i] \in Nat
      OBVIOUS
    <2>. QED
      BY <2>1, FitsInteger
  <1>. QED
    BY <1>1

\* A sub-stream without nulls.
IsSub(d, type, src, force) == IsStream(d, type, src, {}, force) /\ Exact(type, src, {})

LEMMA SubWhole ==
    ASSUME NEW d \in 1..CascadeDepth, AllKept(d - 1), NEW type, NEW src, NEW force, NEW junk \in Int,
           IsSub(d - 1, type, src, force),
           NEW e \in Encodings[d - 1][Stream(type, src, {}, force, junk)]
    PROVE  /\ e \in Encoded[d - 1]
           /\ \A j \in Int : Decode[d - 1][e][Request(type, {}, Len(src), j)] = src
           /\ type # "DOUBLE" => Picks(d - 1, e, type, src, {})
  <1>1. d - 1 \in Nat
    BY DepthIs
  <1>2. Kept(d - 1, e, type, src, {})
    BY <1>1, SubKept, Zenon DEF IsSub
  <1>3. src \in Seq(Int)
    BY StreamIs, Zenon DEF IsSub
  <1>4. ASSUME NEW j \in Int PROVE Decode[d - 1][e][Request(type, {}, Len(src), j)] = src
    <2>1. ReadsAs(Decode[d - 1][e][Request(type, {}, Len(src), j)], type, src, {})
      BY <1>2, Zenon DEF Kept, Reads
    <2>. QED
      BY <1>3, <2>1, ReadsWhole, Zenon DEF IsSub
  <1>. QED
    BY <1>2, <1>4, Zenon DEF Kept

LEMMA CodesAre ==
    ASSUME NEW d \in 1..CascadeDepth, NEW type, NEW src, NEW nulls, NEW force, IsStream(d, type, src, nulls, force)
    PROVE  IsSub(d - 1, "INTEGER", CodesOf(src), "BP")
  <1>1. PICK codes : codes = CodesOf(src)
    OBVIOUS
  <1>2. src \in Seq(Int) /\ Len(src) \in Nat /\ Len(src) < 2^(NarrowBits - 1)
    <2>1. Len(src) < 2^(NarrowBits - 1)
      BY Zenon DEF IsStream
    <2>. QED
      BY <2>1, StreamIs, Zenon
  <1>3. /\ codes \in Seq(Nat) /\ Len(codes) = Len(src)
        /\ \A i \in 1..Len(src) : codes[i] \in 0..(Len(Dictionary(src)) - 1)
    BY <1>1, <1>2, CodesRead, Zenon
  <1>4. Len(Dictionary(src)) \in Nat /\ Len(Dictionary(src)) <= Len(src)
    BY <1>2, DictionaryIs, Zenon
  <1>5. PICK h \in Nat : h = 2^(NarrowBits - 1)
    BY WidthsAre, HalfOf
  <1>6. codes \in Seq(NumbersOf("INTEGER"))
    <2>1. \A i \in 1..Len(codes) : codes[i] < 2^(NarrowBits - 1)
      BY <1>2, <1>3, <1>4, <1>5
    <2>. QED
      BY <1>3, <2>1, IntegersAre
  <1>7. d - 1 # CascadeDepth
    BY DepthIs
  <1>8. IsStream(d - 1, "INTEGER", codes, {}, "BP")
    <2>1. "INTEGER" \in Types /\ {} \subseteq 1..Len(codes)
      BY DEF Types
    <2>. QED
      BY <1>2, <1>3, <1>6, <1>7, <2>1 DEF IsStream
  <1>9. Exact("INTEGER", codes, {})
    BY DEF Exact
  <1>. QED
    BY <1>1, <1>8, <1>9, Zenon DEF IsSub

LEMMA DictKept ==
    ASSUME NEW d \in 1..CascadeDepth, AllKept(d - 1), NEW type, NEW src, NEW nulls, NEW force,
           IsStream(d, type, src, nulls, force), NEW junk \in Int,
           NEW c \in Encodings[d - 1][Stream("INTEGER", CodesOf(src), {}, "BP", junk)]
    PROVE  Kept(d, [scheme |-> "DICT", dict |-> Dictionary(src), codes |-> c], type, src, nulls)
  <1>1. type \in Types /\ src \in Seq(Int) /\ nulls \in SUBSET Nat
    BY StreamIs, Zenon
  <1>3. PICK dict : dict = Dictionary(src)
    OBVIOUS
  <1>4. PICK codes : codes = CodesOf(src)
    OBVIOUS
  <1>2. PICK e : e = [scheme |-> "DICT", dict |-> dict, codes |-> c]
    OBVIOUS
  <1>5. e.scheme = "DICT" /\ e.dict = dict /\ e.codes = c
    BY <1>2
  <1>6. /\ c \in Encoded[d - 1]
        /\ \A j \in Int : Decode[d - 1][c][Request("INTEGER", {}, Len(codes), j)] = codes
        /\ Picks(d - 1, c, "INTEGER", codes, {})
    <2>1. "INTEGER" # "DOUBLE"
      OBVIOUS
    <2>2. IsSub(d - 1, "INTEGER", codes, "BP")
      BY <1>4, CodesAre, Zenon
    <2>3. c \in Encodings[d - 1][Stream("INTEGER", codes, {}, "BP", junk)]
      BY <1>4, Zenon
    <2>4. /\ c \in Encoded[d - 1]
          /\ \A j \in Int : Decode[d - 1][c][Request("INTEGER", {}, Len(codes), j)] = codes
          /\ "INTEGER" # "DOUBLE" => Picks(d - 1, c, "INTEGER", codes, {})
      BY <2>2, <2>3, SubWhole, Zenon
    <2>. QED
      BY <2>1, <2>4, Zenon
  <1>7. e \in Formats(Encoded[d - 1])
    <2>1. dict \in Seq(Int)
      BY <1>1, <1>3, DictionaryIs, Zenon
    <2>. QED
      BY <1>2, <1>6, <2>1 DEF Formats
  <1>8. PICK n \in Nat : n = Len(src) /\ Len(codes) = n
    BY <1>1, <1>4, CodesRead
  <1>9. ASSUME NEW j \in Int
        PROVE  ReadsAs(DecodedBy(Decode[d - 1], e, Request(type, nulls, Len(src), j)), type, src, nulls)
    <2>1. PICK v : v = [i \in 1..n |-> dict[codes[i] + 1]]
      OBVIOUS
    <2>2. DecodedBy(Decode[d - 1], e, Request(type, nulls, n, j)) = v
      <3>1. PICK r : r = Request(type, nulls, n, j)
        OBVIOUS
      <3>2. r.count = n /\ r.junk = j
        BY <3>1 DEF Request
      <3>3. DecodedBy(Decode[d - 1], e, r) = DictDecode(Decode[d - 1], e, r)
        BY <1>5 DEF DecodedBy
      <3>4. Decode[d - 1][e.codes][Request("INTEGER", {}, r.count, r.junk)] = codes
        BY <1>5, <1>6, <1>8, <3>2
      <3>5. DictDecode(Decode[d - 1], e, r) = v
        BY <1>5, <2>1, <3>2, <3>4, Zenon DEF DictDecode
      <3>. QED
        BY <3>1, <3>3, <3>5
    <2>3. PICK row : row = [i \in 1..n |-> i]
      OBVIOUS
    <2>4. LookedUp(v, codes, row, n, src)
      BY <1>3, <1>4, <1>8, <2>1, <2>3 DEF LookedUp
    <2>5. v \in Seq(Int) /\ Len(v) = n /\ \A k \in 1..n : Agrees(v[k], src[row[k]], Exact(type, src, nulls))
      BY <2>4, CodesLookedUp, Zenon
    <2>6. \A k \in 1..n : Agrees(v[k], src[k], Exact(type, src, nulls))
      BY <2>3, <2>5, Zenon
    <2>7. ReadsAs(v, type, src, nulls)
      BY <1>8, <2>5, <2>6, Zenon DEF ReadsAs
    <2>. QED
      BY <1>8, <2>2, <2>7, Zenon
  <1>10. ASSUME type # "DOUBLE", NEW j \in Int, NEW positions \in Seq(Nat), IsLookup(positions, Len(src))
        PROVE  PicksAs(GatheredBy(d, Gather[d - 1], e, Lookup(type, nulls, Len(src), j, positions)), src, nulls, positions)
    <2>1. PICK m \in Nat : m = Len(positions) /\ DOMAIN positions = 1..m /\ \A k \in 1..m : positions[k] + 1 \in 1..n
      BY <1>8, <1>10 DEF IsLookup
    <2>2. PICK row : row = [k \in 1..m |-> positions[k] + 1]
      OBVIOUS
    <2>3. PICK cs : cs = Gather[d - 1][c][Lookup("INTEGER", {}, n, j, positions)]
      OBVIOUS
    <2>4. PICK v : v = [k \in 1..m |-> dict[cs[k] + 1]]
      OBVIOUS
    <2>5. PicksAs(cs, codes, {}, positions)
      BY <1>6, <1>8, <1>10, <2>3, Zenon DEF Picks
    <2>6. \A k \in 1..m : cs[k] = codes[positions[k] + 1]
      BY <2>1, <2>5 DEF PicksAs
    <2>7. GatheredBy(d, Gather[d - 1], e, Lookup(type, nulls, n, j, positions)) = v
      <3>1. PICK q : q = Lookup(type, nulls, n, j, positions)
        OBVIOUS
      <3>2. q.count = n /\ q.junk = j /\ q.positions = positions
        BY <3>1 DEF Lookup
      <3>3. GatheredBy(d, Gather[d - 1], e, q) = DictGather(Gather[d - 1], e, q)
        BY <1>5 DEF GatheredBy
      <3>4. Gather[d - 1][e.codes][Lookup("INTEGER", {}, q.count, q.junk, q.positions)] = cs
        BY <1>5, <2>3, <3>2
      <3>5. DictGather(Gather[d - 1], e, q) = v
        BY <1>5, <2>1, <2>4, <3>2, <3>4, Zenon DEF DictGather
      <3>. QED
        BY <3>1, <3>3, <3>5
    <2>8. LookedUp(v, cs, row, m, src)
      BY <1>3, <1>4, <1>8, <2>1, <2>2, <2>4, <2>6 DEF LookedUp
    <2>9. v \in Seq(Int) /\ Len(v) = m /\ \A k \in 1..m : Agrees(v[k], src[row[k]], Exact(type, src, nulls))
      BY <2>8, CodesLookedUp, Zenon
    <2>10. \A k \in 1..m : v[k] = src[positions[k] + 1]
      BY <1>10, <2>2, <2>9, Zenon DEF Agrees, Exact
    <2>11. PicksAs(v, src, nulls, positions)
      BY <2>1, <2>9, <2>10, Zenon DEF PicksAs
    <2>. QED
      BY <1>8, <2>7, <2>11
  <1>11. KeptDeep(d, e, type, src, nulls)
    BY <1>7, <1>9, <1>10, Zenon DEF KeptDeep
  <1>12. Kept(d, e, type, src, nulls)
    BY <1>11, KeptDeepIs, Zenon
  <1>. QED
    BY <1>2, <1>3, <1>12, Zenon

---------------------------------------------------------------------------
(* TRUNCATION and FOR *)

LEMMA LeastIs ==
    ASSUME NEW src \in Seq(Int), src # <<>>
    PROVE  /\ Least(src) \in Int
           /\ \A i \in 1..Len(src) : Least(src) <= src[i]
           /\ \A i \in 1..Len(src) : FitsCode(src) => src[i] - Least(src) < 2^CodeBits
  <1>1. PICK n \in Nat : n = Len(src) /\ n # 0 /\ DOMAIN src = 1..n /\ src \in [1..n -> Int]
    OBVIOUS
  <1>2. PICK vs : vs = ToSet(src)
    OBVIOUS
  <1>3. vs = {src[i] : i \in 1..n}
    BY <1>1, <1>2 DEF ToSet
  <1>4. PICK rows \in SUBSET (0..n) : rows = 1..n /\ rows # {}
    <2>1. 1 \in 1..n /\ \A i \in 1..n : i \in 0..n
      BY <1>1
    <2>. QED
      BY <2>1, Zenon
  <1>5. PICK low \in vs : \A w \in vs : low <= w
    <2>1. PICK j \in 1..n : \A i \in 1..n : src[j] < src[i] \/ (src[j] = src[i] /\ j <= i)
      <3>1. src \in [rows -> Int]
        BY <1>1, <1>4
      <3>2. \E j \in rows : \A i \in rows : src[j] < src[i] \/ (src[j] = src[i] /\ j <= i)
        BY <1>4, <3>1, FirstLeast
      <3>. QED
        BY <1>4, <3>2, Zenon
    <2>2. src[j] \in vs /\ \A i \in 1..n : src[j] <= src[i]
      BY <1>1, <1>3, <2>1
    <2>. QED
      BY <1>3, <2>2
  <1>6. PICK high \in vs : \A w \in vs : w <= high
    <2>1. PICK f : f = [i \in 1..n |-> -src[i]]
      OBVIOUS
    <2>2. f \in [1..n -> Int]
      BY <1>1, <2>1
    <2>3. PICK j \in 1..n : \A i \in 1..n : f[j] < f[i] \/ (f[j] = f[i] /\ j <= i)
      <3>1. f \in [rows -> Int]
        BY <1>4, <2>2
      <3>2. \E j \in rows : \A i \in rows : f[j] < f[i] \/ (f[j] = f[i] /\ j <= i)
        BY <1>4, <3>1, FirstLeast
      <3>. QED
        BY <1>4, <3>2, Zenon
    <2>4. src[j] \in vs /\ \A i \in 1..n : src[i] <= src[j]
      BY <1>1, <1>3, <2>1, <2>3
    <2>. QED
      BY <1>3, <2>4
  <1>7. Least(src) \in vs /\ \A w \in vs : Least(src) <= w
    BY <1>2, <1>5, Zenon DEF Least
  <1>8. Greatest(src) \in vs /\ \A w \in vs : w <= Greatest(src)
    BY <1>2, <1>6, Zenon DEF Greatest
  <1>9. \A i \in 1..n : src[i] \in vs
    BY <1>3
  <1>10. vs \subseteq Int
    BY <1>1, <1>3
  <1>11. PICK m \in Nat : m = 2^CodeBits
    BY WidthsAre, PowerNext
  <1>12. FitsCode(src) => Greatest(src) - Least(src) < m
    BY <1>11 DEF FitsCode
  <1>13. PICK a \in Int, z \in Int : a = Least(src) /\ z = Greatest(src)
    BY <1>7, <1>8, <1>10
  <1>14. ASSUME NEW i \in 1..n PROVE a <= src[i] /\ (FitsCode(src) => src[i] - a < m)
    <2>1. PICK x \in Int : x = src[i] /\ a <= x /\ x <= z
      <3>1. src[i] \in Int /\ a <= src[i] /\ src[i] <= z
        BY <1>7, <1>8, <1>9, <1>10, <1>13
      <3>. QED
        BY <3>1, Zenon
    <2>2. FitsCode(src) => z - a < m
      BY <1>12, <1>13
    <2>. QED
      BY <2>1, <2>2
  <1>. QED
    BY <1>1, <1>11, <1>13, <1>14, Zenon

LEMMA TruncationKept ==
    ASSUME NEW d \in Nat, NEW type, NEW src, NEW nulls, NEW force, IsStream(d, type, src, nulls, force),
           NEW junk \in Int, type # "DOUBLE", src # <<>>, FitsCode(src)
    PROVE  Kept(d, Truncation(Stream(type, src, nulls, force, junk)), type, src, nulls)
  <1>1. type \in Types /\ src \in Seq(Int) /\ nulls \in SUBSET Nat
    BY StreamIs, Zenon
  <1>2. PICK e : e = Truncation(Stream(type, src, nulls, force, junk))
    OBVIOUS
  <1>3. PICK n \in Nat : n = Len(src) /\ DOMAIN src = 1..n /\ \A i \in 1..n : src[i] \in Int
    BY <1>1
  <1>4. PICK bytes : bytes = Truncated(src, nulls, junk)
    OBVIOUS
  <1>5. PICK low \in Int : low = Least(src) /\ \A i \in 1..n : low <= src[i] /\ src[i] - low < 2^CodeBits
    BY <1>1, <1>3, LeastIs
  <1>6. e = [scheme |-> "TRUNCATION_8", base |-> low, bytes |-> bytes]
    BY <1>2, <1>4, <1>5 DEF Truncation, Stream
  <1>7. e.scheme = "TRUNCATION_8" /\ e.base = low /\ e.bytes = bytes
    BY <1>6
  <1>8. PICK m \in Nat \ {0} : m = 2^CodeBits
    BY WidthsAre, PowerNext
  <1>9. bytes = [i \in 1..n |-> IF i \in nulls THEN junk % m ELSE (src[i] - low) % m]
    BY <1>3, <1>4, <1>5, <1>8 DEF Truncated, Unsigned, RowsOf
  <1>10. ASSUME NEW i \in 1..n, i \notin nulls PROVE bytes[i] = src[i] - low
    <2>1. PICK x \in 0..(m - 1) : x = src[i] - low
      BY <1>3, <1>5, <1>8
    <2>2. x % m = x
      BY <2>1
    <2>. QED
      BY <1>9, <1>10, <2>1, <2>2
  <1>11. \A x \in Int : x % m \in Nat
    BY <1>8
  <1>12. bytes \in [1..n -> Nat] /\ \A i \in 1..n : bytes[i] \in Nat
    <2>1. ASSUME NEW i \in 1..n PROVE bytes[i] \in Nat
      <3>1. src[i] - low \in Int
        BY <1>3
      <3>. QED
        BY <1>9, <1>11, <3>1
    <2>. QED
      BY <1>9, <2>1
  <1>13. e \in Formats(IF d = 0 THEN {} ELSE Encoded[d - 1])
    BY <1>6, <1>12 DEF Formats
  <1>14. ASSUME NEW subs, NEW j \in Int
         PROVE  ReadsAs(DecodedBy(subs, e, Request(type, nulls, Len(src), j)), type, src, nulls)
    <2>1. PICK v : v = [i \in 1..n |-> IF i \in nulls THEN j ELSE low + bytes[i]]
      OBVIOUS
    <2>2. PICK r : r = Request(type, nulls, n, j)
      OBVIOUS
    <2>3. r.count = n /\ r.junk = j /\ r.nulls = nulls
      BY <2>2 DEF Request
    <2>4. DecodedBy(subs, e, r) = TruncationDecode(e, r)
      BY <1>7 DEF DecodedBy
    <2>5. TruncationDecode(e, r) = v
      BY <1>7, <2>1, <2>3 DEF TruncationDecode
    <2>6. v \in Seq(Int) /\ Len(v) = n
      BY <1>12, <2>1
    <2>7. ASSUME NEW i \in 1..n, i \notin nulls PROVE v[i] = src[i]
      <3>1. v[i] = low + bytes[i]
        BY <2>1, <2>7
      <3>. QED
        BY <1>3, <1>10, <2>7, <3>1
    <2>8. ReadsAs(v, type, src, nulls)
      BY <1>3, <2>6, <2>7, SelfAgrees, Zenon DEF ReadsAs
    <2>. QED
      BY <1>3, <2>2, <2>4, <2>5, <2>8, Zenon
  <1>15. ASSUME NEW j \in Int, NEW positions \in Seq(Nat), IsLookup(positions, Len(src)), NEW subs
         PROVE  PicksAs(GatheredBy(d, subs, e, Lookup(type, nulls, Len(src), j, positions)), src, nulls, positions)
    <2>1. PICK k \in Nat : k = Len(positions) /\ DOMAIN positions = 1..k /\ \A i \in 1..k : positions[i] + 1 \in 1..n
      BY <1>3, <1>15 DEF IsLookup
    <2>2. PICK v : v = [i \in 1..k |-> low + bytes[positions[i] + 1]]
      OBVIOUS
    <2>3. GatheredBy(d, subs, e, Lookup(type, nulls, Len(src), j, positions)) = v
      BY <1>7, <2>1, <2>2 DEF GatheredBy, Lookup
    <2>4. ASSUME NEW i \in 1..k
          PROVE  v[i] \in Int /\ (positions[i] + 1 \notin nulls => v[i] = src[positions[i] + 1])
      <3>1. PICK row \in 1..n : row = positions[i] + 1
        BY <2>1
      <3>2. v[i] = low + bytes[row]
        BY <2>2, <3>1
      <3>. QED
        BY <1>3, <1>10, <1>12, <3>1, <3>2
    <2>5. v \in Seq(Int) /\ Len(v) = k
      <3>1. \A i \in 1..k : v[i] \in Int
        BY <2>4
      <3>. QED
        BY <2>2, <3>1
    <2>6. PicksAs(v, src, nulls, positions)
      BY <2>1, <2>4, <2>5, Zenon DEF PicksAs
    <2>. QED
      BY <2>3, <2>6
  <1>16. KeptBy(d, e, type, src, nulls)
    BY <1>13, <1>14, <1>15, Zenon DEF KeptBy
  <1>. QED
    BY <1>1, <1>2, <1>16, KeptByIs, Zenon

LEMMA BiasedIs ==
    ASSUME NEW d \in 1..CascadeDepth, NEW type, NEW src, NEW nulls, NEW force, IsStream(d, type, src, nulls, force),
           type # "DOUBLE", src # <<>>, NEW biased, biased = Biased(src, nulls, Bits(type))
    PROVE  /\ IsStream(d - 1, type, biased, nulls, AutoScheme) /\ Len(biased) = Len(src) /\ biased \in Seq(Int)
           /\ \A i \in 1..Len(src) :
                 i \notin nulls => Signed(biased[i] + Least(src), Bits(type)) = src[i]
  <1>1. /\ type \in Types /\ src \in Seq(Int) /\ nulls \in SUBSET Nat
        /\ \A i \in 1..Len(src) : src[i] \in NumbersOf(type) /\ src[i] \in Int
    BY StreamIs, Zenon
  <1>2. PICK n \in Nat : n = Len(src) /\ DOMAIN src = 1..n
    BY <1>1
  <1>3. PICK bits \in Nat \ {0} : bits = Bits(type) /\ (n # 0 => NumbersOf(type) = Numbers(bits))
    <2>1. Bits(type) \in Nat \ {0}
      BY WidthsAre DEF Bits
    <2>2. n # 0 => NumbersOf(type) = Numbers(Bits(type))
      <3>1. ASSUME n # 0 PROVE NumbersOf(type) = Numbers(Bits(type))
        <4>1. src[1] \in NumbersOf(type)
          BY <1>1, <1>2, <3>1
        <4>. QED
          BY <1>1, <4>1, NotNegZero
      <3>. QED
        BY <3>1
    <2>. QED
      BY <2>1, <2>2
  <1>4. PICK low \in Int : low = Least(src)
    BY <1>1, LeastIs
  <1>5. biased = [i \in 1..n |-> IF i \in nulls THEN src[i] ELSE Signed(src[i] - low, bits)]
    BY <1>2, <1>3, <1>4 DEF Biased, RowsOf
  <1>6. ASSUME NEW i \in 1..n
        PROVE  /\ biased[i] \in NumbersOf(type) /\ biased[i] \in Int
               /\ i \notin nulls => Signed(biased[i] + low, bits) = src[i]
    <2>1. PICK v \in Numbers(bits) : v = src[i] /\ v \in Int
      BY <1>1, <1>2, <1>3
    <2>2. NumbersOf(type) = Numbers(bits)
      BY <1>3
    <2>3. CASE i \in nulls
      BY <1>5, <2>1, <2>2, <2>3
    <2>4. CASE i \notin nulls
      <3>1. biased[i] = Signed(v - low, bits)
        BY <1>5, <2>1, <2>4
      <3>2. Signed(v - low, bits) \in Numbers(bits) /\ Signed(v - low, bits) \in Int
        <4>1. v - low \in Int
          BY <2>1
        <4>. QED
          BY <4>1, SignedIs, Zenon
      <3>3. Signed(Signed(v - low, bits) + low, bits) = v
        BY <2>1, SignedBack
      <3>. QED
        BY <2>1, <2>2, <3>1, <3>2, <3>3
    <2>. QED
      BY <2>3, <2>4
  <1>7. biased \in Seq(NumbersOf(type)) /\ Len(biased) = n /\ biased \in Seq(Int)
    <2>1. \A i \in 1..n : biased[i] \in NumbersOf(type) /\ biased[i] \in Int
      BY <1>6
    <2>. QED
      BY <1>5, <2>1
  <1>8. IsStream(d - 1, type, biased, nulls, AutoScheme)
    <2>1. n < 2^(NarrowBits - 1) /\ nulls \subseteq 1..n
      BY <1>2, Zenon DEF IsStream
    <2>2. d - 1 # CascadeDepth
      BY DepthIs
    <2>. QED
      BY <1>1, <1>7, <2>1, <2>2, Zenon DEF IsStream
  <1>. QED
    BY <1>2, <1>3, <1>4, <1>6, <1>7, <1>8

\* What FOR adds back, to a whole stream or to what is looked up.
AddedBack(v, values, e, r) ==
    /\ v \in Seq(Int) /\ Len(v) = Len(values)
    /\ ~AllNull(r) => \A i \in 1..Len(values) : v[i] = Signed(values[i] + e.bias, Bits(r.type))

LEMMA UnbiasedIs ==
    ASSUME NEW values \in Seq(Int), NEW e, e.bias \in Int, NEW r, Bits(r.type) \in Nat \ {0}
    PROVE  AddedBack(Unbiased(values, e, r), values, e, r)
  <1>1. CASE AllNull(r)
    BY <1>1 DEF Unbiased, AddedBack
  <1>2. CASE ~AllNull(r)
    <2>1. PICK n \in Nat : n = Len(values) /\ DOMAIN values = 1..n /\ \A i \in 1..n : values[i] \in Int
      OBVIOUS
    <2>2. PICK v : v = Unbiased(values, e, r)
      OBVIOUS
    <2>3. v = [i \in 1..n |-> Signed(values[i] + e.bias, Bits(r.type))]
      BY <1>2, <2>1, <2>2 DEF Unbiased
    <2>4. \A i \in 1..n : Signed(values[i] + e.bias, Bits(r.type)) \in Int
      <3>1. \A i \in 1..n : values[i] + e.bias \in Int
        BY <2>1
      <3>. QED
        BY <3>1, SignedIs, Zenon
    <2>5. v \in [1..n -> Int]
      BY <2>3, <2>4, Zenon
    <2>6. v \in Seq(Int) /\ Len(v) = n
      BY <2>5
    <2>7. \A i \in 1..n : v[i] = Signed(values[i] + e.bias, Bits(r.type))
      BY <2>3, Zenon
    <2>. QED
      BY <2>1, <2>2, <2>6, <2>7, Zenon DEF AddedBack
  <1>. QED
    BY <1>1, <1>2

LEMMA ForKept ==
    ASSUME NEW d \in 1..CascadeDepth, AllKept(d - 1), NEW type, NEW src, NEW nulls, NEW force,
           IsStream(d, type, src, nulls, force), type # "DOUBLE", src # <<>>, NEW junk \in Int,
           NEW b \in Encodings[d - 1][Stream(type, Biased(src, nulls, Bits(type)), nulls, AutoScheme, junk)]
    PROVE  Kept(d, [scheme |-> "FOR", bias |-> Least(src), biased |-> b], type, src, nulls)
  <1>1. type \in Types /\ src \in Seq(Int) /\ nulls \in SUBSET Nat
    BY StreamIs, Zenon
  <1>2. PICK n \in Nat : n = Len(src) /\ \A i \in 1..n : src[i] \in Int
    BY <1>1
  <1>3. PICK biased : biased = Biased(src, nulls, Bits(type))
    OBVIOUS
  <1>4. PICK low \in Int : low = Least(src)
    BY <1>1, LeastIs
  <1>5. PICK e : e = [scheme |-> "FOR", bias |-> low, biased |-> b]
    OBVIOUS
  <1>6. e.scheme = "FOR" /\ e.bias = low /\ e.biased = b
    BY <1>5
  <1>7. PICK bits \in Nat \ {0} : bits = Bits(type)
    BY WidthsAre DEF Bits
  <1>8. /\ IsStream(d - 1, type, biased, nulls, AutoScheme) /\ Len(biased) = n /\ biased \in Seq(Int)
        /\ \A i \in 1..n : i \notin nulls => Signed(biased[i] + low, bits) = src[i]
    <2>1. /\ IsStream(d - 1, type, biased, nulls, AutoScheme) /\ Len(biased) = Len(src) /\ biased \in Seq(Int)
          /\ \A i \in 1..Len(src) : i \notin nulls => Signed(biased[i] + Least(src), Bits(type)) = src[i]
      BY <1>3, BiasedIs
    <2>. QED
      BY <1>2, <1>4, <1>7, <2>1
  <1>9. Kept(d - 1, b, type, biased, nulls)
    <2>1. d - 1 \in Nat
      BY DepthIs
    <2>. QED
      BY <1>3, <1>8, <2>1, SubKept, Zenon
  <1>10. /\ b \in Encoded[d - 1]
         /\ \A j \in Int : ReadsAs(Decode[d - 1][b][Request(type, nulls, n, j)], type, biased, nulls)
         /\ \A j \in Int, positions \in Seq(Nat) :
               IsLookup(positions, n) =>
                  PicksAs(Gather[d - 1][b][Lookup(type, nulls, n, j, positions)], biased, nulls, positions)
    BY <1>8, <1>9, Zenon DEF Kept, Reads, Picks
  <1>11. e \in Formats(Encoded[d - 1])
    BY <1>5, <1>10 DEF Formats
  <1>12. ASSUME NEW j \in Int
         PROVE  ReadsAs(DecodedBy(Decode[d - 1], e, Request(type, nulls, Len(src), j)), type, src, nulls)
    <2>1. PICK r : r = Request(type, nulls, n, j)
      OBVIOUS
    <2>2. r.count = n /\ r.nulls = nulls /\ r.type = type
      BY <2>1 DEF Request
    <2>3. PICK values : values = Decode[d - 1][b][r]
      OBVIOUS
    <2>4. ReadsAs(values, type, biased, nulls)
      BY <1>10, <2>1, <2>3, Zenon
    <2>5. /\ values \in Seq(Int) /\ Len(values) = n
          /\ \A i \in 1..n : i \notin nulls => values[i] = biased[i]
      BY <1>8, <2>4, Zenon DEF ReadsAs, Agrees, Exact
    <2>6. PICK v : v = Unbiased(values, e, r)
      OBVIOUS
    <2>8. v \in Seq(Int) /\ Len(v) = n /\ (~AllNull(r) => \A i \in 1..n : v[i] = Signed(values[i] + low, bits))
      <3>1. e.bias \in Int /\ Bits(r.type) \in Nat \ {0}
        BY <1>4, <1>6, <1>7, <2>2
      <3>2. /\ v \in Seq(Int) /\ Len(v) = Len(values)
            /\ ~AllNull(r) => \A i \in 1..Len(values) : v[i] = Signed(values[i] + e.bias, Bits(r.type))
        <4>1. AddedBack(Unbiased(values, e, r), values, e, r)
          BY <3>1, <2>5, UnbiasedIs, Zenon
        <4>. QED
          BY <4>1, <2>6, Zenon DEF AddedBack
      <3>. QED
        BY <1>6, <1>7, <2>2, <2>5, <3>2, Zenon
    <2>9. ASSUME NEW i \in 1..n, i \notin nulls PROVE v[i] = src[i]
      <3>1. ~AllNull(r)
        BY <2>2, <2>9 DEF AllNull
      <3>. QED
        BY <1>8, <2>5, <2>8, <2>9, <3>1, Zenon
    <2>10. ReadsAs(v, type, src, nulls)
      BY <1>2, <2>8, <2>9, SelfAgrees, Zenon DEF ReadsAs
    <2>11. DecodedBy(Decode[d - 1], e, r) = v
      BY <1>6, <2>3, <2>6 DEF DecodedBy
    <2>. QED
      BY <1>2, <2>1, <2>10, <2>11, Zenon
  <1>13. ASSUME NEW j \in Int, NEW positions \in Seq(Nat), IsLookup(positions, Len(src))
         PROVE  PicksAs(GatheredBy(d, Gather[d - 1], e, Lookup(type, nulls, Len(src), j, positions)), src, nulls, positions)
    <2>1. PICK q : q = Lookup(type, nulls, n, j, positions)
      OBVIOUS
    <2>2. q.count = n /\ q.nulls = nulls /\ q.type = type
      BY <2>1 DEF Lookup
    <2>3. PICK values : values = Gather[d - 1][b][q]
      OBVIOUS
    <2>4. PicksAs(values, biased, nulls, positions)
      BY <1>2, <1>10, <1>13, <2>1, <2>3, Zenon
    <2>5. PICK m \in Nat : m = Len(positions) /\ \A k \in 1..m : positions[k] + 1 \in 1..n
      BY <1>2, <1>13 DEF IsLookup
    <2>6. /\ values \in Seq(Int) /\ Len(values) = m
          /\ \A k \in 1..m : positions[k] + 1 \notin nulls => values[k] = biased[positions[k] + 1]
      BY <2>4, <2>5, Zenon DEF PicksAs
    <2>7. PICK v : v = Unbiased(values, e, q)
      OBVIOUS
    <2>9. v \in Seq(Int) /\ Len(v) = m /\ (~AllNull(q) => \A k \in 1..m : v[k] = Signed(values[k] + low, bits))
      <3>1. e.bias \in Int /\ Bits(q.type) \in Nat \ {0}
        BY <1>4, <1>6, <1>7, <2>2
      <3>2. /\ v \in Seq(Int) /\ Len(v) = Len(values)
            /\ ~AllNull(q) => \A k \in 1..Len(values) : v[k] = Signed(values[k] + e.bias, Bits(q.type))
        <4>1. AddedBack(Unbiased(values, e, q), values, e, q)
          BY <3>1, <2>6, UnbiasedIs, Zenon
        <4>. QED
          BY <4>1, <2>7, Zenon DEF AddedBack
      <3>. QED
        BY <1>6, <1>7, <2>2, <2>6, <3>2, Zenon
    <2>10. ASSUME NEW k \in 1..m, positions[k] + 1 \notin nulls PROVE v[k] = src[positions[k] + 1]
      <3>1. ~AllNull(q)
        BY <2>2, <2>5, <2>10 DEF AllNull
      <3>. QED
        BY <1>8, <2>5, <2>6, <2>9, <2>10, <3>1, Zenon
    <2>11. PicksAs(v, src, nulls, positions)
      BY <2>5, <2>9, <2>10, Zenon DEF PicksAs
    <2>12. GatheredBy(d, Gather[d - 1], e, q) = v
      BY <1>6, <2>3, <2>7 DEF GatheredBy
    <2>. QED
      BY <1>2, <2>1, <2>11, <2>12, Zenon
  <1>14. KeptDeep(d, e, type, src, nulls)
    BY <1>11, <1>12, <1>13, Zenon DEF KeptDeep
  <1>15. Kept(d, e, type, src, nulls)
    BY <1>14, KeptDeepIs, Zenon
  <1>. QED
    BY <1>4, <1>5, <1>15, Zenon

---------------------------------------------------------------------------
(* FREQUENCY *)

LEMMA ExactPart ==
    ASSUME NEW type, NEW src \in Seq(Int), NEW nulls, Exact(type, src, nulls), NEW sel,
           \A k \in 1..Len(sel) : \E i \in 1..Len(src) : sel[k] = src[i]
    PROVE  Exact(type, sel, {})
  BY DEF Exact

LEMMA TopIs ==
    ASSUME NEW d, NEW type, NEW src, NEW nulls, NEW force, IsStream(d, type, src, nulls, force), src # <<>>
    PROVE  /\ TopValue(src, nulls) \in Int
           /\ \A i \in 1..Len(src) :
                 Same(src[i], TopValue(src, nulls)) => Agrees(TopValue(src, nulls), src[i], Exact(type, src, nulls))
  <1>1. /\ type \in Types /\ src \in Seq(Int) /\ nulls \in SUBSET Nat
        /\ \A i \in 1..Len(src) : src[i] \in NumbersOf(type) /\ src[i] \in Int
    BY StreamIs, Zenon
  <1>2. PICK n \in Nat : n = Len(src) /\ n # 0 /\ DOMAIN src = 1..n
    BY <1>1
  <1>3. PICK top : top = TopValue(src, nulls)
    OBVIOUS
  <1>4. CASE MostlyNull(src, nulls)
    <2>1. top = 0 /\ top \in Int
      BY <1>3, <1>4 DEF TopValue, NULL_CODE
    <2>2. NegZero # 0
      BY WidthAssumption, WidthsAre, PowerNext
    <2>3. ASSUME NEW i \in 1..n, Same(src[i], top), Exact(type, src, nulls) PROVE top = src[i]
      <3>1. type # "DOUBLE"
        <4>1. nulls # {}
          <5>1. PICK c : c = Cardinality(nulls)
            OBVIOUS
          <5>2. c * 100 >= 90 * n
            BY <1>2, <1>4, <5>1, Zenon DEF MostlyNull
          <5>3. nulls = {} => c = 0
            BY <5>1, FS_EmptySet, Zenon
          <5>. QED
            BY <1>2, <5>2, <5>3
        <4>. QED
          BY <2>3, <4>1 DEF Exact
      <3>2. src[i] # NegZero /\ src[i] \in Int
        BY <1>1, <1>2, <3>1, NotNegZero
      <3>. QED
        BY <2>1, <2>2, <2>3, <3>2, NotTwice
    <2>4. ASSUME NEW i \in 1..n, Same(src[i], top) PROVE Agrees(top, src[i], Exact(type, src, nulls))
      <3>1. Same(top, src[i])
        BY <1>1, <1>2, <2>1, <2>4, SameIs, Zenon
      <3>. QED
        BY <2>3, <2>4, <3>1, Zenon DEF Agrees
    <2>. QED
      BY <1>2, <1>3, <2>1, <2>4, Zenon
  <1>5. CASE ~MostlyNull(src, nulls)
    <2>1. PICK dict : dict = Dictionary(src)
      OBVIOUS
    <2>2. /\ dict \in Seq(Int) /\ DOMAIN dict = 1..Len(dict) /\ Len(dict) \in Nat
          /\ \A i \in 1..Len(src) : \E k \in 1..Len(dict) : Same(dict[k], src[i])
      BY <1>1, <2>1, DictionaryIs, Zenon
    <2>3. PICK len \in Nat : len = Len(dict) /\ len # 0
      <3>1. 1 \in 1..Len(src)
        BY <1>2
      <3>2. PICK k \in 1..Len(dict) : Same(dict[k], src[1])
        BY <2>2, <3>1
      <3>3. PICK len \in Nat : len = Len(dict)
        BY <2>2, Zenon
      <3>. QED
        BY <3>2, <3>3
    <2>4. PICK f : f = [k \in 1..len |-> -Occurrences(src, dict[k])]
      OBVIOUS
    <2>5. \A v : Occurrences(src, v) \in Nat
      <3>1. ASSUME NEW v PROVE Occurrences(src, v) \in Nat
        <4>1. PICK same \in SUBSET (1..n) : same = {i \in 1..n : Same(src[i], v)}
          OBVIOUS
        <4>2. Cardinality(same) \in Nat
          BY <4>1, FiniteWithout
        <4>3. Occurrences(src, v) = Cardinality(same)
          BY <1>2, <4>1, Zenon DEF Occurrences, RowsOf
        <4>. QED
          BY <4>2, <4>3
      <3>. QED
        BY <3>1
    <2>6. PICK ks \in SUBSET (0..len) : ks = 1..len /\ ks # {}
      <3>1. 1 \in 1..len /\ \A i \in 1..len : i \in 0..len
        BY <2>3
      <3>. QED
        BY <3>1, Zenon
    <2>7. PICK best \in 1..len : \A m \in 1..len : f[best] < f[m] \/ (f[best] = f[m] /\ best <= m)
      <3>1. f \in [ks -> Int]
        <4>1. \A k \in 1..len : -Occurrences(src, dict[k]) \in Int
          BY <2>5
        <4>. QED
          BY <2>4, <2>6, <4>1, Zenon
      <3>2. \E j \in ks : \A i \in ks : f[j] < f[i] \/ (f[j] = f[i] /\ j <= i)
        BY <2>6, <3>1, FirstLeast
      <3>. QED
        BY <2>6, <3>2, Zenon
    <2>8. \A m \in 1..len : /\ Occurrences(src, dict[m]) <= Occurrences(src, dict[best])
                            /\ m < best => Occurrences(src, dict[m]) < Occurrences(src, dict[best])
      <3>1. ASSUME NEW m \in 1..len
            PROVE  /\ Occurrences(src, dict[m]) <= Occurrences(src, dict[best])
                   /\ m < best => Occurrences(src, dict[m]) < Occurrences(src, dict[best])
        <4>1. PICK x \in Nat, y \in Nat : x = Occurrences(src, dict[m]) /\ y = Occurrences(src, dict[best])
          BY <2>5, Zenon
        <4>2. f[m] = -x /\ f[best] = -y
          BY <2>4, <4>1
        <4>. QED
          BY <2>7, <4>1, <4>2
      <3>. QED
        BY <3>1
    <2>9. PICK most \in 1..len : top = dict[most]
      <3>1. PICK most : most = CHOOSE k \in DOMAIN dict : \A m \in DOMAIN dict :
                  /\ Occurrences(src, dict[m]) <= Occurrences(src, dict[k])
                  /\ m < k => Occurrences(src, dict[m]) < Occurrences(src, dict[k])
        OBVIOUS
      <3>2. most \in 1..len
        BY <2>2, <2>3, <2>8, <3>1, Zenon
      <3>3. top = dict[most]
        BY <1>3, <1>5, <2>1, <3>1, Zenon DEF TopValue
      <3>. QED
        BY <3>2, <3>3
    <2>10. top \in Int /\ most \in 1..Len(Dictionary(src))
      BY <2>1, <2>2, <2>3, <2>9
    <2>11. ASSUME NEW i \in 1..n, Same(src[i], top) PROVE Agrees(top, src[i], Exact(type, src, nulls))
      <3>1. Same(top, src[i])
        BY <1>1, <1>2, <2>10, <2>11, SameIs, Zenon
      <3>. QED
        BY <1>2, <2>1, <2>9, <2>10, <3>1, DictionaryReads, Zenon
    <2>. QED
      BY <1>2, <1>3, <2>10, <2>11, Zenon
  <1>. QED
    BY <1>4, <1>5

LEMMA PartKept ==
    ASSUME NEW d \in 1..CascadeDepth, AllKept(d - 1), NEW type, NEW src, NEW nulls, NEW force,
           IsStream(d, type, src, nulls, force), NEW junk \in Int,
           NEW sel \in Seq(NumbersOf(type)), Len(sel) <= Len(src),
           \A k \in 1..Len(sel) : \E i \in 1..Len(src) : sel[k] = src[i],
           NEW x \in Encodings[d - 1][Stream(type, sel, {}, AutoScheme, junk)]
    PROVE  /\ Kept(d - 1, x, type, sel, {})
           /\ Exact(type, src, nulls) => Exact(type, sel, {})
  <1>1. type \in Types /\ src \in Seq(Int) /\ Len(src) \in Nat
    BY StreamIs, Zenon
  <1>2. IsStream(d - 1, type, sel, {}, AutoScheme)
    <2>1. Len(src) < 2^(NarrowBits - 1)
      BY Zenon DEF IsStream
    <2>2. PICK h \in Nat : h = 2^(NarrowBits - 1)
      BY WidthsAre, HalfOf
    <2>3. Len(sel) < 2^(NarrowBits - 1)
      BY <1>1, <2>1, <2>2
    <2>4. d - 1 # CascadeDepth /\ {} \subseteq 1..Len(sel)
      BY DepthIs
    <2>. QED
      BY <1>1, <2>3, <2>4, Zenon DEF IsStream
  <1>3. d - 1 \in Nat
    BY DepthIs
  <1>4. Kept(d - 1, x, type, sel, {})
    BY <1>2, <1>3, SubKept, Zenon
  <1>. QED
    BY <1>1, <1>4, ExactPart, Zenon

LEMMA AgreesMore ==
    ASSUME NEW v, NEW w, NEW type, NEW src, NEW nulls, NEW sel, Agrees(v, w, Exact(type, sel, {})),
           Exact(type, src, nulls) => Exact(type, sel, {}), NEW t \in Int, v \in Int, w = t
    PROVE  Agrees(v, t, Exact(type, src, nulls))
  <1>1. CASE Exact(type, sel, {})
    BY <1>1, SameSelf DEF Agrees
  <1>2. CASE ~Exact(type, sel, {})
    BY <1>2 DEF Agrees
  <1>. QED
    BY <1>1, <1>2

LEMMA FrequencyKept ==
    ASSUME NEW d \in 1..CascadeDepth, AllKept(d - 1), NEW type, NEW src, NEW nulls, NEW force,
           IsStream(d, type, src, nulls, force), src # <<>>, NEW junk \in Int,
           NEW x \in Encodings[d - 1][Stream(type, Selected(src, Exceptions(src, nulls)), {}, AutoScheme, junk)]
    PROVE  Kept(d, [scheme |-> "FREQUENCY", top |-> TopValue(src, nulls), rows |-> Exceptions(src, nulls),
                    exceptions |-> x], type, src, nulls)
  <1>1. /\ type \in Types /\ src \in Seq(Int) /\ nulls \in SUBSET Nat
        /\ \A i \in 1..Len(src) : src[i] \in NumbersOf(type) /\ src[i] \in Int
    BY StreamIs, Zenon
  <1>2. PICK n \in Nat : n = Len(src) /\ DOMAIN src = 1..n
    BY <1>1
  <1>3. PICK top \in Int : /\ top = TopValue(src, nulls)
                           /\ \A i \in 1..n : Same(src[i], top) => Agrees(top, src[i], Exact(type, src, nulls))
    BY <1>2, TopIs, Zenon
  <1>4. PICK rows : rows = Exceptions(src, nulls)
    OBVIOUS
  <1>5. rows \in SUBSET (1..n) /\ \A i \in 1..n : i \notin rows /\ i \notin nulls => Same(src[i], top)
    BY <1>2, <1>3, <1>4 DEF Exceptions, RowsOf
  <1>6. PICK e : e = [scheme |-> "FREQUENCY", top |-> top, rows |-> rows, exceptions |-> x]
    OBVIOUS
  <1>7. e.scheme = "FREQUENCY" /\ e.top = top /\ e.rows = rows /\ e.exceptions = x
    BY <1>6
  <1>8. PICK sel : sel = Selected(src, rows)
    OBVIOUS
  <1>9. src \in Seq(NumbersOf(type))
    BY Zenon DEF IsStream
  <1>10. PICK c \in Nat : c = Cardinality(rows) /\ c = Len(sel) /\ c <= n /\ sel \in Seq(NumbersOf(type))
    BY <1>2, <1>5, <1>8, <1>9, SelectedIs, Zenon
  <1>11. /\ \A i \in rows : RankOf(rows, i) \in 1..c /\ sel[RankOf(rows, i)] = src[i]
         /\ \A k \in 1..c : \E i \in rows : sel[k] = src[i]
    <2>1. rows \in SUBSET (1..Len(src))
      BY <1>2, <1>5, Zenon
    <2>2. /\ \A i \in rows : /\ RankOf(rows, i) \in 1..Cardinality(rows)
                              /\ Selected(src, rows)[RankOf(rows, i)] = src[i]
          /\ \A k \in 1..Cardinality(rows) : \E i \in rows : Selected(src, rows)[k] = src[i]
      BY <1>9, <2>1, SelectedIs, Zenon
    <2>. QED
      BY <1>8, <1>10, <2>2, Zenon
  <1>12. Kept(d - 1, x, type, sel, {}) /\ (Exact(type, src, nulls) => Exact(type, sel, {}))
    <2>1. \A k \in 1..Len(sel) : \E i \in 1..Len(src) : sel[k] = src[i]
      BY <1>2, <1>5, <1>10, <1>11, Zenon
    <2>2. Len(sel) <= Len(src)
      BY <1>2, <1>10
    <2>3. x \in Encodings[d - 1][Stream(type, sel, {}, AutoScheme, junk)]
      BY <1>4, <1>8, Zenon
    <2>. QED
      BY <1>10, <2>1, <2>2, <2>3, PartKept, Zenon
  <1>13. /\ x \in Encoded[d - 1]
         /\ \A j \in Int : ReadsAs(Decode[d - 1][x][Request(type, {}, c, j)], type, sel, {})
         /\ type # "DOUBLE" => \A j \in Int, ranks \in Seq(Nat) :
               IsLookup(ranks, c) => PicksAs(Gather[d - 1][x][Lookup(type, {}, c, j, ranks)], sel, {}, ranks)
    BY <1>10, <1>12, Zenon DEF Kept, Reads, Picks
  <1>14. e \in Formats(Encoded[d - 1])
    <2>1. rows \in SUBSET Nat
      BY <1>5
    <2>. QED
      BY <1>6, <1>13, <2>1 DEF Formats
  <1>15. ASSUME NEW j \in Int
         PROVE  ReadsAs(DecodedBy(Decode[d - 1], e, Request(type, nulls, Len(src), j)), type, src, nulls)
    <2>1. PICK r : r = Request(type, nulls, n, j)
      OBVIOUS
    <2>2. r.count = n /\ r.type = type /\ r.junk = j
      BY <2>1 DEF Request
    <2>3. PICK exc : exc = Decode[d - 1][x][Request(type, {}, c, j)]
      OBVIOUS
    <2>4. ReadsAs(exc, type, sel, {})
      BY <1>13, <2>3, Zenon
    <2>5. /\ exc \in Seq(Int) /\ Len(exc) = c
          /\ \A k \in 1..c : Agrees(exc[k], sel[k], Exact(type, sel, {}))
      BY <1>10, <2>4, Zenon DEF ReadsAs
    <2>6. PICK v : v = [i \in 1..n |-> IF i \in rows THEN exc[RankOf(rows, i)] ELSE top]
      OBVIOUS
    <2>7. DecodedBy(Decode[d - 1], e, r) = v
      <3>1. DecodedBy(Decode[d - 1], e, r) = FrequencyDecode(Decode[d - 1], e, r)
        BY <1>7 DEF DecodedBy
      <3>2. Decode[d - 1][e.exceptions][Request(r.type, {}, Cardinality(e.rows), r.junk)] = exc
        BY <1>7, <1>10, <2>2, <2>3
      <3>3. FrequencyDecode(Decode[d - 1], e, r) = v
        BY <1>7, <2>2, <2>6, <3>2, Zenon DEF FrequencyDecode
      <3>. QED
        BY <3>1, <3>3
    <2>8. ASSUME NEW i \in 1..n
          PROVE  v[i] \in Int /\ (i \notin nulls => Agrees(v[i], src[i], Exact(type, src, nulls)))
      <3>1. CASE i \in rows
        <4>1. PICK k \in 1..c : k = RankOf(rows, i) /\ sel[k] = src[i]
          BY <1>11, <3>1
        <4>2. v[i] = exc[k] /\ exc[k] \in Int
          BY <2>5, <2>6, <3>1, <4>1
        <4>3. Agrees(exc[k], sel[k], Exact(type, sel, {}))
          BY <2>5, <4>1
        <4>4. src[i] \in Int
          BY <1>1, <1>2
        <4>5. Agrees(exc[k], src[i], Exact(type, src, nulls))
          BY <1>12, <4>1, <4>2, <4>3, <4>4, AgreesMore, Zenon
        <4>. QED
          BY <4>2, <4>5, Zenon
      <3>2. CASE i \notin rows
        <4>1. v[i] = top
          BY <2>6, <3>2
        <4>. QED
          BY <1>3, <1>5, <3>2, <4>1, Zenon
      <3>. QED
        BY <3>1, <3>2
    <2>9. v \in Seq(Int) /\ Len(v) = n
      <3>1. \A i \in 1..n : v[i] \in Int
        BY <2>8
      <3>. QED
        BY <2>6, <3>1
    <2>10. ReadsAs(v, type, src, nulls)
      BY <1>2, <2>8, <2>9, Zenon DEF ReadsAs
    <2>. QED
      BY <1>2, <2>1, <2>7, <2>10, Zenon
  <1>16. ASSUME type # "DOUBLE", NEW j \in Int, NEW positions \in Seq(Nat), IsLookup(positions, Len(src))
         PROVE  PicksAs(GatheredBy(d, Gather[d - 1], e, Lookup(type, nulls, Len(src), j, positions)), src, nulls, positions)
    <2>1. PICK q : q = Lookup(type, nulls, n, j, positions)
      OBVIOUS
    <2>2. q.positions = positions /\ q.type = type /\ q.junk = j
      BY <2>1 DEF Lookup
    <2>3. PICK m \in Nat : m = Len(positions) /\ DOMAIN positions = 1..m /\ \A k \in 1..m : positions[k] + 1 \in 1..n
      BY <1>2, <1>16 DEF IsLookup
    <2>4. PICK excepted \in SUBSET (1..m) : excepted = {k \in 1..m : positions[k] + 1 \in rows}
      OBVIOUS
    <2>5. PICK slots : slots = Ranked(excepted, <)
      OBVIOUS
    <2>6. PICK w \in Nat : w = Cardinality(excepted) /\ slots \in [1..w -> excepted]
      BY <2>4, <2>5, RowsAre, Zenon DEF IsList
    <2>7. \A k \in excepted : RankOf(excepted, k) \in 1..w /\ slots[RankOf(excepted, k)] = k
      BY <2>4, <2>5, <2>6, RowsAre, Zenon
    <2>8. PICK ranks : ranks = [i \in 1..w |-> RankOf(rows, positions[slots[i]] + 1) - 1]
      OBVIOUS
    <2>9. ASSUME NEW i \in 1..w
          PROVE  /\ ranks[i] \in Nat /\ ranks[i] + 1 \in 1..c
                 /\ sel[ranks[i] + 1] = src[positions[slots[i]] + 1] /\ slots[i] \in 1..m
      <3>1. PICK k \in 1..m : k = slots[i] /\ positions[k] + 1 \in rows
        BY <2>4, <2>6
      <3>2. PICK row \in rows : row = positions[k] + 1
        BY <3>1
      <3>3. PICK a \in 1..c : a = RankOf(rows, row) /\ sel[a] = src[row]
        BY <1>11
      <3>4. ranks[i] = a - 1
        BY <2>8, <3>1, <3>2, <3>3
      <3>5. ranks[i] \in Nat /\ ranks[i] + 1 = a
        BY <3>3, <3>4
      <3>. QED
        BY <3>1, <3>2, <3>3, <3>5
    <2>10. ranks \in Seq(Nat) /\ Len(ranks) = w /\ IsLookup(ranks, c)
      <3>1. \A i \in 1..w : ranks[i] \in Nat
        BY <2>9
      <3>2. ranks \in Seq(Nat) /\ Len(ranks) = w
        BY <2>8, <3>1
      <3>. QED
        BY <2>9, <3>2 DEF IsLookup
    <2>11. PICK resolved : resolved = Gather[d - 1][x][Lookup(type, {}, c, j, ranks)]
      OBVIOUS
    <2>12. PicksAs(resolved, sel, {}, ranks)
      BY <1>13, <1>16, <2>10, <2>11, Zenon
    <2>13. resolved \in Seq(Int) /\ Len(resolved) = w /\ \A i \in 1..w : resolved[i] = sel[ranks[i] + 1]
      BY <2>10, <2>12 DEF PicksAs
    <2>14. PICK v : v = [k \in 1..m |-> IF k \in excepted THEN resolved[RankOf(excepted, k)] ELSE top]
      OBVIOUS
    <2>15. GatheredBy(d, Gather[d - 1], e, q) = v
      <3>1. GatheredBy(d, Gather[d - 1], e, q) = FrequencyGather(Gather[d - 1], e, q)
        BY <1>7 DEF GatheredBy
      <3>2. {k \in DOMAIN q.positions : q.positions[k] + 1 \in e.rows} = excepted
        BY <1>7, <2>2, <2>3, <2>4
      <3>3. DOMAIN slots = 1..w
        BY <2>6
      <3>4. [i \in DOMAIN slots |-> RankOf(e.rows, q.positions[slots[i]] + 1) - 1] = ranks
        BY <1>7, <2>2, <2>8, <3>3
      <3>5. Gather[d - 1][e.exceptions][Lookup(q.type, {}, Cardinality(e.rows), q.junk, ranks)] = resolved
        BY <1>7, <1>10, <2>2, <2>11
      <3>6. FrequencyGather(Gather[d - 1], e, q) = v
        BY <1>7, <2>2, <2>3, <2>5, <2>14, <3>2, <3>4, <3>5, Zenon DEF FrequencyGather
      <3>. QED
        BY <3>1, <3>6
    <2>16. ASSUME NEW k \in 1..m
           PROVE  v[k] \in Int /\ (positions[k] + 1 \notin nulls => v[k] = src[positions[k] + 1])
      <3>1. CASE k \in excepted
        <4>1. PICK i \in 1..w : i = RankOf(excepted, k) /\ slots[i] = k
          BY <2>7, <3>1
        <4>2. v[k] = resolved[i]
          BY <2>14, <3>1, <4>1
        <4>3. sel[ranks[i] + 1] = src[positions[k] + 1]
          BY <2>9, <4>1
        <4>4. resolved[i] = sel[ranks[i] + 1] /\ resolved[i] \in Int
          BY <2>13
        <4>. QED
          BY <4>2, <4>3, <4>4, Zenon
      <3>2. CASE k \notin excepted
        <4>1. PICK row \in 1..n : row = positions[k] + 1 /\ row \notin rows
          BY <2>3, <2>4, <3>2
        <4>2. v[k] = top
          BY <2>14, <3>2
        <4>3. row \notin nulls => Agrees(top, src[row], Exact(type, src, nulls))
          BY <1>3, <1>5, <4>1, Zenon
        <4>. QED
          BY <1>3, <1>16, <4>1, <4>2, <4>3, Zenon DEF Agrees, Exact
      <3>. QED
        BY <3>1, <3>2
    <2>17. v \in Seq(Int) /\ Len(v) = m
      <3>1. \A k \in 1..m : v[k] \in Int
        BY <2>16
      <3>. QED
        BY <2>14, <3>1
    <2>18. PicksAs(v, src, nulls, positions)
      BY <2>3, <2>16, <2>17, Zenon DEF PicksAs
    <2>. QED
      BY <1>2, <2>1, <2>15, <2>18, Zenon
  <1>17. KeptDeep(d, e, type, src, nulls)
    BY <1>14, <1>15, <1>16, Zenon DEF KeptDeep
  <1>18. Kept(d, e, type, src, nulls)
    BY <1>17, KeptDeepIs, Zenon
  <1>. QED
    BY <1>3, <1>4, <1>6, <1>18, Zenon

---------------------------------------------------------------------------
(* The runs of RLE *)

\* The rows where runs start: each is the last head at or before its rows.
HeadsAre(head, src, nulls, n) ==
    /\ head \in [1..n -> 1..n] /\ head[1] = 1
    /\ \A i \in 2..n : head[i] = IF EndsRun(src, nulls, i, head[i - 1]) THEN i ELSE head[i - 1]

LEMMA RunHeadsAre ==
    ASSUME NEW src \in Seq(Int), NEW nulls, NEW n \in Nat \ {0}, n = Len(src)
    PROVE  HeadsAre(RunHeads(src, nulls), src, nulls, n)
  <1>1. DOMAIN src = 1..n
    OBVIOUS
  <1>2. PICK step : step = [p \in (2..n) \X (1..n) |-> IF EndsRun(src, nulls, p[1], p[2]) THEN p[1] ELSE p[2]]
    OBVIOUS
  <1>3. step \in [(2..n) \X (1..n) -> 1..n]
    BY <1>2
  <1>4. 1 \in 1..n
    OBVIOUS
  <1>5. PICK f \in [1..n -> 1..n] : FromOne(f, n, 1, step)
    BY <1>3, <1>4, RecursionFromOne, Zenon
  <1>6. f[1] = 1 /\ \A i \in 2..n : f[i] = step[<<i, f[i - 1]>>]
    BY <1>5 DEF FromOne
  <1>7. ASSUME NEW i \in 2..n PROVE f[i] = IF EndsRun(src, nulls, i, f[i - 1]) THEN i ELSE f[i - 1]
    <2>1. PICK h \in 1..n : h = f[i - 1]
      <3>1. i - 1 \in 1..n
        OBVIOUS
      <3>. QED
        BY <1>5, <3>1
    <2>2. step[<<i, h>>] = IF EndsRun(src, nulls, i, h) THEN i ELSE h
      BY <1>2
    <2>. QED
      BY <1>6, <2>1, <2>2
  <1>8. f = [i \in DOMAIN src |-> IF i = 1 THEN 1
                                  ELSE IF EndsRun(src, nulls, i, f[i - 1]) THEN i ELSE f[i - 1]]
    <2>1. PICK g : g = [i \in 1..n |-> IF i = 1 THEN 1
                                  ELSE IF EndsRun(src, nulls, i, f[i - 1]) THEN i ELSE f[i - 1]]
      OBVIOUS
    <2>2. ASSUME NEW i \in 1..n PROVE g[i] = f[i]
      <3>1. CASE i = 1
        BY <1>6, <2>1, <3>1
      <3>2. CASE i # 1
        <4>1. i \in 2..n
          BY <3>2
        <4>. QED
          BY <1>7, <2>1, <3>2, <4>1
      <3>. QED
        BY <3>1, <3>2
    <2>3. g = f
      BY <1>5, <2>1, <2>2
    <2>. QED
      BY <1>1, <2>1, <2>3
  <1>. DEFINE head == CHOOSE h : h = [i \in DOMAIN src |-> IF i = 1 THEN 1
                                  ELSE IF EndsRun(src, nulls, i, h[i - 1]) THEN i ELSE h[i - 1]]
  <1>9. head = [i \in DOMAIN src |-> IF i = 1 THEN 1
                                  ELSE IF EndsRun(src, nulls, i, head[i - 1]) THEN i ELSE head[i - 1]]
    BY <1>8, Zenon
  <1>10. RunHeads(src, nulls) = head
    BY Zenon DEF RunHeads, RowsOf
  <1>. HIDE DEF head
  <1>11. head = [i \in 1..n |-> IF i = 1 THEN 1
                                  ELSE IF EndsRun(src, nulls, i, head[i - 1]) THEN i ELSE head[i - 1]]
    BY <1>1, <1>9, Zenon
  <1>12. head[1] = 1 /\ \A i \in 2..n : head[i] = IF EndsRun(src, nulls, i, head[i - 1]) THEN i ELSE head[i - 1]
    <2>1. head[1] = 1
      BY <1>4, <1>11
    <2>2. ASSUME NEW i \in 2..n PROVE head[i] = IF EndsRun(src, nulls, i, head[i - 1]) THEN i ELSE head[i - 1]
      <3>1. i \in 1..n /\ i # 1
        OBVIOUS
      <3>. QED
        BY <1>11, <3>1, Zenon
    <2>. QED
      BY <2>1, <2>2
  <1>13. \A i \in 1..n : head[i] \in 1..n
    <2>1. ASSUME NEW i \in 2..n, head[i - 1] \in 1..n PROVE head[i] \in 1..n
      BY <1>12, <2>1
    <2>2. head[1] \in 1..n
      BY <1>12
    <2>. QED
      BY <2>1, <2>2, FromOneType, Zenon
  <1>14. head \in [1..n -> 1..n]
    <2>1. head = [i \in 1..n |-> head[i]]
      BY <1>11
    <2>. QED
      BY <1>13, <2>1
  <1>. QED
    BY <1>10, <1>12, <1>14, Zenon DEF HeadsAre

\* A head is at or before its rows, is its own head, and the heads rise with the rows.
HeadsRise(head, n) ==
    /\ \A i \in 1..n : head[i] <= i /\ head[head[i]] = head[i]
    /\ \A i \in 1..n, j \in 1..n : i <= j => head[i] <= head[j]

LEMMA HeadsDoRise ==
    ASSUME NEW src \in Seq(Int), NEW nulls, NEW n \in Nat \ {0}, NEW head, HeadsAre(head, src, nulls, n)
    PROVE  /\ HeadsRise(head, n)
           /\ n = Len(src) => \A i \in 1..n : i \notin nulls => Same(src[i], src[head[i]])
  <1>1. /\ \A i \in 1..n : head[i] \in 1..n
        /\ head[1] = 1
        /\ \A i \in 2..n : head[i] = IF EndsRun(src, nulls, i, head[i - 1]) THEN i ELSE head[i - 1]
    BY DEF HeadsAre
  <1>. DEFINE S == {m \in 0..n : /\ \A i \in 1..m : head[i] <= i /\ head[head[i]] = head[i]
                                 /\ \A i \in 1..m : head[i] <= head[m]}
  <1>2. 0 \in S
    OBVIOUS
  <1>3. ASSUME NEW m \in 0..(n - 1), m \in S PROVE m + 1 \in S
    <2>1. CASE m = 0
      <3>1. \A i \in 1..(m + 1) : i = 1
        BY <2>1
      <3>. QED
        BY <1>1, <2>1, <3>1
    <2>2. CASE m # 0
      <3>1. PICK k \in 2..n : k = m + 1 /\ k - 1 = m /\ m \in 1..n
        <4>1. m + 1 \in 2..n /\ (m + 1) - 1 = m /\ m \in 1..n
          BY <2>2
        <4>. QED
          BY <4>1, Zenon
      <3>2. head[k] = k \/ head[k] = head[m]
        BY <1>1, <3>1
      <3>3. \A i \in 1..m : head[i] <= i /\ head[head[i]] = head[i] /\ head[i] <= head[m]
        BY <1>3
      <3>4. head[k] <= k /\ head[head[k]] = head[k]
        BY <1>1, <3>1, <3>2, <3>3
      <3>5. head[m] <= head[k]
        BY <1>1, <3>1, <3>2, <3>3
      <3>6. \A i \in 1..m : head[i] <= head[k]
        <4>1. ASSUME NEW i \in 1..m PROVE head[i] <= head[k]
          <5>1. i \in 1..n /\ m \in 1..n /\ k \in 1..n
            BY <3>1
          <5>2. PICK a \in 1..n, b \in 1..n, c \in 1..n : a = head[i] /\ b = head[m] /\ c = head[k]
            BY <1>1, <5>1, Zenon
          <5>. QED
            BY <3>3, <3>5, <5>2
        <4>. QED
          BY <4>1
      <3>7. \A i \in 1..k : i \in 1..m \/ i = k
        BY <3>1
      <3>8. \A i \in 1..k : head[i] <= i /\ head[head[i]] = head[i] /\ head[i] <= head[k]
        <4>1. head[k] <= head[k]
          BY <1>1, <3>1
        <4>. QED
          BY <3>3, <3>4, <3>6, <3>7, <4>1, Zenon
      <3>. QED
        BY <3>1, <3>8
    <2>. QED
      BY <2>1, <2>2
  <1>4. 0..n \subseteq S
    <2>. HIDE DEF S
    <2>. QED
      BY <1>2, <1>3, IntervalInduction
  <1>5. HeadsRise(head, n)
    <2>1. \A i \in 1..n : head[i] <= i /\ head[head[i]] = head[i]
      BY <1>4
    <2>2. ASSUME NEW i \in 1..n, NEW j \in 1..n, i <= j PROVE head[i] <= head[j]
      <3>1. j \in S /\ i \in 1..j
        BY <1>4, <2>2
      <3>. QED
        BY <3>1
    <2>. QED
      BY <2>1, <2>2, Zenon DEF HeadsRise
  <1>6. ASSUME n = Len(src), NEW i \in 1..n, i \notin nulls PROVE Same(src[i], src[head[i]])
    <2>1. src[i] \in Int
      BY <1>6
    <2>2. CASE head[i] = i
      BY <2>1, <2>2, SameSelf
    <2>3. CASE head[i] # i
      <3>1. i \in 2..n
        BY <1>1, <2>3
      <3>2. head[i] = head[i - 1] /\ ~EndsRun(src, nulls, i, head[i - 1])
        BY <1>1, <2>3, <3>1
      <3>. QED
        BY <1>6, <3>2, Zenon DEF EndsRun
    <2>. QED
      BY <2>2, <2>3
  <1>. QED
    BY <1>5, <1>6

\* Where runs end: the rows of run p are ends[p - 1] + 1 up to ends[p], and start with its head.
Partition(head, heads, ends, k, n) ==
    /\ n \in Nat /\ head \in [1..n -> 1..n] /\ k <= n
    /\ k \in Nat \ {0} /\ heads \in [1..k -> 1..n] /\ ends \in [0..k -> 0..n]
    /\ ends[0] = 0 /\ ends[k] = n
    /\ \A p \in 1..k : /\ ends[p - 1] < ends[p] /\ heads[p] = ends[p - 1] + 1
                       /\ \A i \in 1..n : head[i] = heads[p] <=> (ends[p - 1] < i /\ i <= ends[p])
    /\ \A i \in 1..n : \E p \in 1..k : head[i] = heads[p]

HeadsListed(heads, head, n) ==
    /\ IsList(heads, {head[i] : i \in 1..n})
    /\ \A i \in 1..Cardinality({head[j] : j \in 1..n}), j \in 1..Cardinality({head[j] : j \in 1..n}) :
          i < j => heads[i] < heads[j]

LEMMA HeadsAreListed ==
    ASSUME NEW n \in Nat \ {0}, NEW head \in [1..n -> 1..n]
    PROVE  HeadsListed(Ranked({head[i] : i \in 1..n}, <), head, n)
  <1>1. PICK s \in SUBSET (1..n) : s = {head[i] : i \in 1..n}
    <2>1. {head[i] : i \in 1..n} \subseteq 1..n
      OBVIOUS
    <2>. QED
      BY <2>1, Zenon
  <1>. QED
    BY <1>1, RowsAre, Zenon DEF HeadsListed

LEMMA RunsPart ==
    ASSUME NEW n \in Nat \ {0}, NEW head \in [1..n -> 1..n], head[1] = 1, HeadsRise(head, n),
           NEW heads, HeadsListed(heads, head, n)
    PROVE  \E k, ends : Partition(head, heads, ends, k, n) /\ DOMAIN heads = 1..k
  <1>1. PICK s \in SUBSET (1..n) : s = {head[i] : i \in 1..n}
    <2>1. {head[i] : i \in 1..n} \subseteq 1..n
      OBVIOUS
    <2>. QED
      BY <2>1, Zenon
  <1>2. PICK k \in Nat : k = Cardinality(s) /\ k <= n
    <2>1. n \in Nat
      OBVIOUS
    <2>. QED
      BY <1>1, <2>1, RowsAre, Zenon
  <1>4. IsList(heads, s) /\ \A i \in 1..k, j \in 1..k : i < j => heads[i] < heads[j]
    BY <1>1, <1>2, Zenon DEF HeadsListed
  <1>5. heads \in [1..k -> s] /\ \A a \in s : \E p \in 1..k : heads[p] = a
    BY <1>2, <1>4, Zenon DEF IsList
  <1>6. \A p \in 1..k : heads[p] \in 1..n /\ \E i \in 1..n : heads[p] = head[i]
    BY <1>1, <1>5
  <1>7. \A i \in 1..n : \E p \in 1..k : head[i] = heads[p]
    <2>1. \A i \in 1..n : head[i] \in s
      BY <1>1
    <2>. QED
      BY <1>5, <2>1, Zenon
  <1>8. 1 \in 1..n
    OBVIOUS
  <1>9. k # 0
    BY <1>7, <1>8
  <1>10. \A p \in 1..k : head[heads[p]] = heads[p]
    BY <1>6, Zenon DEF HeadsRise
  <1>11. /\ \A i \in 1..n : head[i] <= i
         /\ \A i \in 1..n, j \in 1..n : i <= j => head[i] <= head[j]
    BY DEF HeadsRise
  <1>12. heads[1] = 1
    <2>1. PICK p \in 1..k : heads[p] = 1
      BY <1>7, <1>8
    <2>2. 1 \in 1..k /\ heads[1] \in 1..n
      BY <1>6, <1>9
    <2>3. 1 < p => heads[1] < heads[p]
      BY <1>4, <2>2, Zenon
    <2>. QED
      BY <2>1, <2>2, <2>3
  <1>13. PICK ends : ends = [p \in 0..k |-> IF p = k THEN n ELSE heads[p + 1] - 1]
    OBVIOUS
  <1>14. \A p \in 0..(k - 1) : p + 1 \in 1..k /\ ends[p] = heads[p + 1] - 1
    BY <1>13
  <1>15. ends[k] = n /\ k \in 0..k
    BY <1>13
  <1>16. ends[0] = 0
    <2>1. 0 \in 0..(k - 1) /\ 0 + 1 = 1
      BY <1>9
    <2>. QED
      BY <1>12, <1>14, <2>1
  <1>17. ends \in [0..k -> 0..n]
    <2>1. ASSUME NEW p \in 0..k PROVE ends[p] \in 0..n
      <3>1. CASE p = k
        BY <1>15, <3>1
      <3>2. CASE p # k
        <4>1. p \in 0..(k - 1)
          BY <3>2
        <4>2. heads[p + 1] \in 1..n
          BY <1>6, <1>14, <4>1
        <4>. QED
          BY <1>14, <4>1, <4>2
      <3>. QED
        BY <3>1, <3>2
    <2>. QED
      BY <1>13, <2>1
  <1>18. ASSUME NEW p \in 1..k
         PROVE  /\ ends[p - 1] < ends[p] /\ heads[p] = ends[p - 1] + 1
                /\ \A i \in 1..n : head[i] = heads[p] <=> (ends[p - 1] < i /\ i <= ends[p])
    <2>1. PICK h \in 1..n : h = heads[p] /\ head[h] = h
      BY <1>6, <1>10
    <2>2. p - 1 \in 0..(k - 1) /\ (p - 1) + 1 = p
      OBVIOUS
    <2>3. ends[p - 1] = h - 1
      BY <1>14, <2>1, <2>2
    <2>4. CASE p = k
      <3>1. ends[p] = n
        BY <1>15, <2>4
      <3>2. ASSUME NEW i \in 1..n, h <= i PROVE head[i] = h
        <4>1. PICK a \in 1..n : a = head[i] /\ h <= a
          BY <1>11, <2>1, <3>2
        <4>2. PICK b \in 1..k : heads[b] = a
          BY <1>7, <4>1
        <4>3. b < p => heads[b] < heads[p]
          BY <1>4
        <4>. QED
          BY <2>1, <2>4, <4>1, <4>2, <4>3
      <3>3. ASSUME NEW i \in 1..n, head[i] = h PROVE h <= i
        BY <1>11, <3>3
      <3>. QED
        BY <2>1, <2>3, <3>1, <3>2, <3>3
    <2>5. CASE p # k
      <3>1. PICK r \in 1..k : r = p + 1
        BY <2>5
      <3>2. PICK g \in 1..n : g = heads[r] /\ head[g] = g
        BY <1>6, <1>10
      <3>3. ends[p] = g - 1
        <4>1. p \in 0..(k - 1)
          BY <2>5
        <4>. QED
          BY <1>14, <3>1, <3>2, <4>1
      <3>4. h < g
        BY <1>4, <2>1, <3>1, <3>2
      <3>5. ASSUME NEW i \in 1..n, h <= i, i < g PROVE head[i] = h
        <4>1. PICK a \in 1..n : a = head[i] /\ h <= a /\ a <= i
          BY <1>11, <2>1, <3>5
        <4>2. PICK b \in 1..k : heads[b] = a
          BY <1>7, <4>1
        <4>3. b < p => heads[b] < heads[p]
          BY <1>4
        <4>4. r < b => heads[r] < heads[b]
          BY <1>4
        <4>5. ~(b < p) /\ ~(r < b) /\ b # r
          <5>1. ~(b < p)
            BY <2>1, <4>1, <4>2, <4>3
          <5>2. ~(r < b)
            <6>1. r < b => g < a
              BY <3>2, <4>2, <4>4, Zenon
            <6>2. ~(g < a)
              BY <3>5, <4>1
            <6>. QED
              BY <6>1, <6>2
          <5>3. b # r
            BY <3>2, <3>5, <4>1, <4>2
          <5>. QED
            BY <5>1, <5>2, <5>3
        <4>6. b = p
          BY <3>1, <4>5
        <4>. QED
          BY <2>1, <4>1, <4>2, <4>6
      <3>6. ASSUME NEW i \in 1..n, head[i] = h PROVE h <= i /\ i < g
        <4>1. g <= i => g <= head[i]
          BY <1>11, <3>2
        <4>. QED
          BY <1>11, <3>4, <3>6, <4>1
      <3>. QED
        <4>1. ends[p - 1] < ends[p] /\ heads[p] = ends[p - 1] + 1
          <5>1. h - 1 < g - 1 /\ h = (h - 1) + 1
            BY <3>4
          <5>. QED
            BY <2>1, <2>3, <3>3, <5>1, Zenon
        <4>2. ASSUME NEW i \in 1..n PROVE head[i] = heads[p] <=> (ends[p - 1] < i /\ i <= ends[p])
          <5>1. ends[p - 1] < i <=> h <= i
            BY <2>3
          <5>2. i <= ends[p] <=> i < g
            BY <3>3
          <5>3. head[i] = h <=> h <= i /\ i < g
            BY <3>5, <3>6
          <5>. QED
            BY <2>1, <5>1, <5>2, <5>3, Zenon
        <4>. QED
          BY <4>1, <4>2
    <2>. QED
      BY <2>4, <2>5
  <1>19. heads \in [1..k -> 1..n] /\ DOMAIN heads = 1..k
    BY <1>5, <1>6
  <1>20. Partition(head, heads, ends, k, n)
    <2>1. n \in Nat /\ k \in Nat \ {0} /\ k <= n
      BY <1>2, <1>9
    <2>. QED
      BY <1>7, <1>15, <1>16, <1>17, <1>18, <1>19, <2>1, Zenon DEF Partition
  <1>. QED
    BY <1>19, <1>20, Zenon

\* The runs of a stream: run p has the rows ends[p - 1] + 1 up to ends[p] and their value.
Cut(src, nulls, n, values, counts, ends, k) ==
    /\ k \in Nat \ {0} /\ k <= n /\ ends \in [0..k -> 0..n] /\ ends[0] = 0 /\ ends[k] = n
    /\ values = [p \in 1..k |-> src[ends[p - 1] + 1]]
    /\ counts = [p \in 1..k |-> ends[p] - ends[p - 1]]
    /\ \A p \in 1..k : ends[p - 1] < ends[p]
    /\ \A i \in 1..n : \E p \in 1..k : ends[p - 1] < i /\ i <= ends[p]
    /\ \A p \in 1..k : \A i \in 1..n :
          ends[p - 1] < i /\ i <= ends[p] /\ i \notin nulls => Same(src[i], src[ends[p - 1] + 1])

RowsOfRun(head, h, a, b, n) ==
    /\ n \in Nat /\ head \in [1..n -> 1..n] /\ a \in 0..n /\ b \in 0..n /\ a < b
    /\ \A i \in 1..n : head[i] = h <=> (a < i /\ i <= b)

LEMMA RunLengthIs ==
    ASSUME NEW n, NEW head, NEW h, NEW a, NEW b, RowsOfRun(head, h, a, b, n)
    PROVE  RunLength(head, h) = b - a
  <1>6. n \in Nat /\ head \in [1..n -> 1..n] /\ a \in 0..n /\ b \in 0..n /\ a < b
    BY DEF RowsOfRun
  <1>1. PICK rows : rows = {i \in 1..n : head[i] = h}
    OBVIOUS
  <1>2. rows = (a + 1)..b
    <2>1. \A i \in 1..n : i \in rows <=> (a < i /\ i <= b)
      BY <1>1, Zenon DEF RowsOfRun
    <2>2. \A i \in rows : i \in 1..n
      BY <1>1
    <2>3. \A i \in rows : i \in (a + 1)..b
      BY <1>6, <2>1, <2>2
    <2>4. \A i \in (a + 1)..b : i \in 1..n /\ a < i /\ i <= b
      BY <1>6
    <2>5. \A i \in (a + 1)..b : i \in rows
      BY <2>1, <2>4, Zenon
    <2>. QED
      BY <2>3, <2>5, Zenon
  <1>3. Cardinality((a + 1)..b) = b - a
    <2>1. PICK c \in Int : c = a + 1 /\ ~(c > b) /\ b - c + 1 = b - a
      <3>1. a + 1 \in Int /\ ~(a + 1 > b) /\ b - (a + 1) + 1 = b - a
        BY <1>6
      <3>. QED
        BY <3>1, Zenon
    <2>2. Cardinality(c..b) = b - c + 1
      BY <1>6, <2>1, FS_Interval
    <2>. QED
      BY <2>1, <2>2, Zenon
  <1>4. DOMAIN head = 1..n
    BY <1>6
  <1>5. RunLength(head, h) = Cardinality(rows)
    BY <1>1, <1>4, Zenon DEF RunLength
  <1>. QED
    BY <1>2, <1>3, <1>5, Zenon

LengthsOfRuns(head, heads, ends, k) == \A p \in 1..k : RunLength(head, heads[p]) = ends[p] - ends[p - 1]

LEMMA RunLengthsAre ==
    ASSUME NEW n, NEW head, NEW heads, NEW ends, NEW k, Partition(head, heads, ends, k, n)
    PROVE  LengthsOfRuns(head, heads, ends, k)
  <1>1. /\ n \in Nat /\ head \in [1..n -> 1..n] /\ k \in Nat \ {0} /\ ends \in [0..k -> 0..n]
        /\ \A p \in 1..k : /\ ends[p - 1] < ends[p]
                           /\ \A i \in 1..n : head[i] = heads[p] <=> (ends[p - 1] < i /\ i <= ends[p])
    BY Zenon DEF Partition
  <1>2. ASSUME NEW p \in 1..k PROVE RunLength(head, heads[p]) = ends[p] - ends[p - 1]
    <2>1. p - 1 \in 0..k /\ p \in 0..k
      BY <1>1
    <2>2. ends[p - 1] \in 0..n /\ ends[p] \in 0..n
      BY <1>1, <2>1
    <2>3. RowsOfRun(head, heads[p], ends[p - 1], ends[p], n)
      BY <1>1, <2>2, Zenon DEF RowsOfRun
    <2>. QED
      BY <2>3, RunLengthIs
  <1>. QED
    BY <1>2, Zenon DEF LengthsOfRuns

LEMMA RunsCut ==
    ASSUME NEW src \in Seq(Int), NEW nulls, NEW n \in Nat \ {0}, n = Len(src)
    PROVE  \E k, ends : Cut(src, nulls, n, Runs(src, nulls).values, Runs(src, nulls).counts, ends, k)
  <1>1. PICK head : head = RunHeads(src, nulls)
    OBVIOUS
  <1>2. HeadsAre(head, src, nulls, n)
    BY <1>1, RunHeadsAre, Zenon
  <1>3. head \in [1..n -> 1..n] /\ head[1] = 1
    BY <1>2, Zenon DEF HeadsAre
  <1>4. HeadsRise(head, n) /\ \A i \in 1..n : i \notin nulls => Same(src[i], src[head[i]])
    BY <1>2, HeadsDoRise, Zenon
  <1>5. \E heads : /\ HeadsListed(heads, head, n)
                   /\ Runs(src, nulls) = [values |-> [r \in DOMAIN heads |-> src[heads[r]]],
                                          counts |-> [r \in DOMAIN heads |-> RunLength(head, heads[r])]]
    <2>1. PICK heads : heads = Ranked({head[i] : i \in 1..n}, <)
      OBVIOUS
    <2>2. HeadsListed(heads, head, n)
      BY <1>3, <2>1, HeadsAreListed, Zenon
    <2>3. DOMAIN src = 1..n
      OBVIOUS
    <2>4. heads = Ranked({head[i] : i \in RowsOf(src)}, <)
      BY <2>1, <2>3, Zenon DEF RowsOf
    <2>5. Runs(src, nulls) = [values |-> [r \in DOMAIN heads |-> src[heads[r]]],
                              counts |-> [r \in DOMAIN heads |-> RunLength(head, heads[r])]]
      BY <1>1, <2>4, Zenon DEF Runs
    <2>. QED
      BY <2>2, <2>5, Zenon
  <1>6. PICK heads : /\ HeadsListed(heads, head, n)
                     /\ Runs(src, nulls) = [values |-> [r \in DOMAIN heads |-> src[heads[r]]],
                                            counts |-> [r \in DOMAIN heads |-> RunLength(head, heads[r])]]
    BY <1>5
  <1>7. PICK k, ends : Partition(head, heads, ends, k, n) /\ DOMAIN heads = 1..k
    BY <1>3, <1>4, <1>6, RunsPart, Zenon
  <1>8. /\ k \in Nat \ {0} /\ k <= n /\ heads \in [1..k -> 1..n] /\ ends \in [0..k -> 0..n]
        /\ ends[0] = 0 /\ ends[k] = n
        /\ \A p \in 1..k : /\ ends[p - 1] < ends[p] /\ heads[p] = ends[p - 1] + 1
                           /\ \A i \in 1..n : head[i] = heads[p] <=> (ends[p - 1] < i /\ i <= ends[p])
        /\ \A i \in 1..n : \E p \in 1..k : head[i] = heads[p]
    BY <1>7, Zenon DEF Partition
  <1>9. PICK values : values = Runs(src, nulls).values
    OBVIOUS
  <1>10. PICK counts : counts = Runs(src, nulls).counts
    OBVIOUS
  <1>11. values = [p \in 1..k |-> src[ends[p - 1] + 1]]
    <2>1. values = [p \in 1..k |-> src[heads[p]]]
      BY <1>6, <1>7, <1>9
    <2>. QED
      BY <1>8, <2>1
  <1>12. counts = [p \in 1..k |-> ends[p] - ends[p - 1]]
    <2>1. counts = [p \in 1..k |-> RunLength(head, heads[p])]
      BY <1>6, <1>7, <1>10
    <2>2. \A p \in 1..k : RunLength(head, heads[p]) = ends[p] - ends[p - 1]
      <3>1. LengthsOfRuns(head, heads, ends, k)
        BY <1>7, RunLengthsAre, Zenon
      <3>. QED
        BY <3>1, Zenon DEF LengthsOfRuns
    <2>. QED
      BY <2>1, <2>2
  <1>13. \A i \in 1..n : \E p \in 1..k : ends[p - 1] < i /\ i <= ends[p]
    BY <1>8, Zenon
  <1>14. ASSUME NEW p \in 1..k, NEW i \in 1..n, ends[p - 1] < i /\ i <= ends[p], i \notin nulls
         PROVE  Same(src[i], src[ends[p - 1] + 1])
    <2>1. head[i] = ends[p - 1] + 1
      BY <1>8, <1>14, Zenon
    <2>. QED
      BY <1>4, <1>14, <2>1, Zenon
  <1>15. Cut(src, nulls, n, values, counts, ends, k)
    BY <1>8, <1>11, <1>12, <1>13, <1>14, Zenon DEF Cut
  <1>. QED
    BY <1>9, <1>10, <1>15, Zenon

\* Repeating the values gives a row of each run the value of the run.
RepeatedOf(values, counts, ends, k, n) ==
    /\ k \in Nat /\ ends \in [0..k -> 0..n] /\ ends[0] = 0 /\ ends[k] = n
    /\ \A p \in 1..k : ends[p - 1] < ends[p]
    /\ values \in Seq(Int) /\ Len(values) = k /\ counts = [p \in 1..k |-> ends[p] - ends[p - 1]]

RepeatsAre(list, values, ends, k, n) ==
    /\ list \in Seq(Int) /\ Len(list) = n
    /\ \A p \in 1..k : \A i \in 1..n : ends[p - 1] < i /\ i <= ends[p] => list[i] = values[p]

LEMMA RepeatedIs ==
    ASSUME NEW values, NEW counts, NEW ends, NEW k, NEW n \in Nat, RepeatedOf(values, counts, ends, k, n)
    PROVE  RepeatsAre(Repeated(values, counts), values, ends, k, n)
  <1>. USE DEF RepeatedOf
  <1>1. PICK seqs : seqs = [r \in 1..k |-> [i \in 1..counts[r] |-> values[r]]]
    OBVIOUS
  <1>2. ASSUME NEW p \in 1..k
        PROVE  /\ seqs[p] \in Seq(Int) /\ ends[p] = ends[p - 1] + Len(seqs[p])
               /\ \A i \in 1..n : ends[p - 1] < i /\ i <= ends[p] =>
                     /\ i - ends[p - 1] \in 1..Len(seqs[p]) /\ ends[p - 1] + (i - ends[p - 1]) = i
                     /\ seqs[p][i - ends[p - 1]] = values[p]
    <2>1. PICK a \in 0..n : a = ends[p - 1]
      <3>1. p - 1 \in 0..k
        OBVIOUS
      <3>. QED
        BY <3>1
    <2>2. PICK b \in 0..n : b = ends[p] /\ a < b
      <3>1. p \in 0..k
        OBVIOUS
      <3>2. ends[p - 1] < ends[p]
        OBVIOUS
      <3>. QED
        BY <2>1, <3>1, <3>2, Zenon
    <2>3. PICK v \in Int : v = values[p]
      OBVIOUS
    <2>4. PICK c \in Nat : c = counts[p] /\ c = b - a
      BY <2>1, <2>2
    <2>5. PICK s : s = seqs[p] /\ s = [i \in 1..c |-> v]
      BY <1>1, <2>3, <2>4
    <2>6. s \in Seq(Int) /\ Len(s) = c /\ \A i \in 1..c : s[i] = v
      BY <2>5
    <2>7. \A i \in 1..n : a < i /\ i <= b => i - a \in 1..c /\ a + (i - a) = i
      BY <2>4
    <2>8. b = a + c
      BY <2>4
    <2>9. seqs[p] \in Seq(Int) /\ ends[p] = ends[p - 1] + Len(seqs[p])
      BY <2>1, <2>2, <2>5, <2>6, <2>8, Zenon
    <2>10. ASSUME NEW i \in 1..n, ends[p - 1] < i, i <= ends[p]
           PROVE  /\ i - ends[p - 1] \in 1..Len(seqs[p]) /\ ends[p - 1] + (i - ends[p - 1]) = i
                  /\ seqs[p][i - ends[p - 1]] = values[p]
      <3>1. a < i /\ i <= b
        BY <2>1, <2>2, <2>10, Zenon
      <3>2. i - a \in 1..c /\ a + (i - a) = i
        BY <2>7, <3>1, Zenon
      <3>3. s[i - a] = v
        BY <2>6, <3>2, Zenon
      <3>. QED
        BY <2>1, <2>3, <2>5, <2>6, <3>2, <3>3, Zenon
    <2>. QED
      BY <2>9, <2>10
  <1>3. seqs \in Seq(Seq(Int)) /\ Len(seqs) = k
    <2>1. \A p \in 1..k : seqs[p] \in Seq(Int)
      BY <1>2
    <2>2. seqs \in [1..k -> Seq(Int)]
      BY <1>1, <2>1, Zenon
    <2>. QED
      BY <2>2
  <1>4. ends \in [0..k -> Nat]
    OBVIOUS
  <1>5. PICK g : g = FlattenSeq(seqs)
    OBVIOUS
  <1>6. \A p \in 1..k : ends[p] = ends[p - 1] + Len(seqs[p])
    BY <1>2
  <1>7. g \in Seq(Int) /\ Placed(g, seqs, ends, k)
    BY <1>3, <1>4, <1>5, <1>6, FlattenPlaces, Zenon
  <1>8. Len(g) = n /\ \A p \in 1..k : \A i \in 1..Len(seqs[p]) : g[ends[p - 1] + i] = seqs[p][i]
    BY <1>7, Zenon DEF Placed
  <1>9. ASSUME NEW p \in 1..k, NEW i \in 1..n, ends[p - 1] < i /\ i <= ends[p] PROVE g[i] = values[p]
    <2>1. PICK j \in 1..Len(seqs[p]) : j = i - ends[p - 1] /\ ends[p - 1] + j = i /\ seqs[p][j] = values[p]
      BY <1>2, <1>9, Zenon
    <2>2. g[ends[p - 1] + j] = seqs[p][j]
      BY <1>8, Zenon
    <2>. QED
      BY <2>1, <2>2, Zenon
  <1>10. Repeated(values, counts) = g
    <2>1. DOMAIN values = 1..k
      OBVIOUS
    <2>. QED
      BY <1>1, <1>5, <2>1, Zenon DEF Repeated
  <1>. QED
    BY <1>7, <1>8, <1>9, <1>10, Zenon DEF RepeatsAre

\* The ends of the runs from their counts.
EndsOf(counts, ends, k, n) ==
    /\ n \in Nat /\ k \in Nat \ {0} /\ ends \in [0..k -> 0..n] /\ ends[0] = 0 /\ ends[k] = n
    /\ counts = [p \in 1..k |-> ends[p] - ends[p - 1]]

EndsListed(list, ends, k) == list = [p \in 1..k |-> ends[p]]

LEMMA PrefixSumsAre ==
    ASSUME NEW counts, NEW ends, NEW k, NEW n, EndsOf(counts, ends, k, n)
    PROVE  EndsListed(PrefixSums(counts), ends, k)
  <1>1. /\ n \in Nat /\ k \in Nat \ {0} /\ ends \in [0..k -> 0..n] /\ ends[0] = 0
        /\ counts = [p \in 1..k |-> ends[p] - ends[p - 1]]
    BY DEF EndsOf
  <1>2. ASSUME NEW p \in 1..k
        PROVE  counts[p] \in Int /\ ends[p - 1] + counts[p] = ends[p] /\ p - 1 \in 0..k /\ p \in 0..k /\ p # 0
    <2>1. p - 1 \in 0..k /\ p \in 0..k /\ p # 0
      BY <1>1
    <2>2. PICK a \in 0..n, b \in 0..n : a = ends[p - 1] /\ b = ends[p]
      BY <1>1, <2>1
    <2>3. counts[p] = b - a
      BY <1>1, <2>2
    <2>4. a \in Int /\ b \in Int
      <3>1. n \in Nat
        BY <1>1, Zenon
      <3>. QED
        BY <3>1
    <2>5. b - a \in Int /\ a + (b - a) = b
      BY <2>4
    <2>. QED
      BY <2>1, <2>2, <2>3, <2>5
  <1>3. DOMAIN counts = 1..k /\ Len(counts) = k
    <2>1. counts \in [1..k -> Int]
      BY <1>1, <1>2
    <2>. QED
      BY <1>1, <2>1
  <1>4. ends = [j \in 0..Len(counts) |-> IF j = 0 THEN 0 ELSE ends[j - 1] + counts[j]]
    <2>1. PICK h : h = [j \in 0..k |-> IF j = 0 THEN 0 ELSE ends[j - 1] + counts[j]]
      OBVIOUS
    <2>2. ASSUME NEW j \in 0..k PROVE ends[j] = h[j]
      <3>1. CASE j = 0
        BY <1>1, <2>1, <3>1
      <3>2. CASE j # 0
        <4>1. j \in 1..k
          BY <1>1, <3>2
        <4>. QED
          BY <1>2, <2>1, <3>2, <4>1
      <3>. QED
        BY <3>1, <3>2
    <2>3. ends = h
      BY <1>1, <2>1, <2>2
    <2>. QED
      BY <1>3, <2>1, <2>3, Zenon
  <1>. DEFINE sum == CHOOSE h : h = [j \in 0..Len(counts) |-> IF j = 0 THEN 0 ELSE h[j - 1] + counts[j]]
  <1>5. sum = [j \in 0..Len(counts) |-> IF j = 0 THEN 0 ELSE sum[j - 1] + counts[j]]
    BY <1>4, Zenon
  <1>6. PrefixSums(counts) = [j \in DOMAIN counts |-> sum[j]]
    BY Zenon DEF PrefixSums
  <1>. HIDE DEF sum
  <1>7. sum[0] = 0 /\ \A j \in 1..k : sum[j] = sum[j - 1] + counts[j]
    <2>1. sum = [j \in 0..k |-> IF j = 0 THEN 0 ELSE sum[j - 1] + counts[j]]
      BY <1>3, <1>5, Zenon
    <2>2. 0 \in 0..k /\ \A j \in 1..k : j \in 0..k /\ j # 0
      BY <1>1
    <2>. QED
      BY <2>1, <2>2, Zenon
  <1>8. \A j \in 0..k : sum[j] = ends[j]
    <2>. DEFINE S == {j \in 0..k : sum[j] = ends[j]}
    <2>1. 0 \in S
      BY <1>1, <1>7
    <2>2. ASSUME NEW j \in 0..(k - 1), j \in S PROVE j + 1 \in S
      <3>1. PICK m \in 1..k : m = j + 1 /\ m - 1 = j
        <4>1. j + 1 \in 1..k /\ (j + 1) - 1 = j
          BY <1>1
        <4>. QED
          BY <4>1, Zenon
      <3>2. sum[m] = ends[j] + counts[m]
        BY <1>7, <2>2, <3>1
      <3>3. ends[j] + counts[m] = ends[m] /\ m \in 0..k
        BY <1>2, <3>1
      <3>. QED
        BY <3>1, <3>2, <3>3
    <2>3. 0..k \subseteq S
      <3>. HIDE DEF S
      <3>1. k \in Nat
        BY <1>1
      <3>. QED
        BY <2>1, <2>2, <3>1, IntervalInduction
    <2>. QED
      BY <2>3
  <1>9. \A j \in 1..k : sum[j] = ends[j]
    BY <1>2, <1>8
  <1>. QED
    BY <1>3, <1>6, <1>9, Zenon DEF EndsListed

---------------------------------------------------------------------------
(* The binary search *)

Halve(f, row, s) ==
    LET lo == s.lo
        hi == s.hi
        mid == lo + (hi - lo) \div 2
    IN  IF lo >= hi THEN [lo |-> lo, hi |-> hi]
        ELSE IF GoesOn(f[mid + 1], row) THEN [lo |-> mid + 1, hi |-> hi]
        ELSE [lo |-> lo, hi |-> mid]

\* The run is between lo and hi.
Between(f, row, k, s) ==
    /\ s \in [lo : 0..k, hi : 0..k] /\ s.lo <= s.hi
    /\ s.lo = 0 \/ f[s.lo] <= row
    /\ s.hi = k \/ ~(f[s.hi + 1] <= row)

LEMMA HalveIs ==
    ASSUME NEW k \in Nat, NEW f, NEW row, NEW s, Between(f, row, k, s)
    PROVE  /\ Between(f, row, k, Halve(f, row, s))
           /\ Halve(f, row, s).hi - Halve(f, row, s).lo <= s.hi - s.lo
           /\ s.lo # s.hi => Halve(f, row, s).hi - Halve(f, row, s).lo < s.hi - s.lo
  <1>1. PICK lo \in 0..k, hi \in 0..k : lo = s.lo /\ hi = s.hi /\ lo <= hi /\ s = [lo |-> lo, hi |-> hi]
    BY DEF Between
  <1>2. (lo = 0 \/ f[lo] <= row) /\ (hi = k \/ ~(f[hi + 1] <= row))
    BY <1>1, Zenon DEF Between
  <1>3. CASE lo >= hi
    <2>1. Halve(f, row, s) = s
      BY <1>1, <1>3 DEF Halve
    <2>. QED
      BY <1>1, <1>3, <2>1
  <1>4. CASE ~(lo >= hi)
    <2>1. PICK mid \in Nat : mid = lo + (hi - lo) \div 2 /\ lo <= mid /\ mid < hi
      <3>1. PICK w \in Nat : w = hi - lo /\ w # 0
        BY <1>1, <1>4
      <3>2. PICK h \in Nat : h = w \div 2 /\ h < w
        BY <3>1
      <3>. QED
        BY <1>1, <3>1, <3>2
    <2>2. CASE f[mid + 1] <= row
      <3>1. PICK t : t = Halve(f, row, s)
        OBVIOUS
      <3>2. t = [lo |-> mid + 1, hi |-> hi]
        BY <1>1, <1>4, <2>1, <2>2, <3>1 DEF Halve, GoesOn
      <3>3. t.lo = mid + 1 /\ t.hi = hi
        BY <3>2
      <3>4. mid + 1 \in 0..k /\ mid + 1 <= hi /\ hi - (mid + 1) < hi - lo
        BY <2>1
      <3>5. t \in [lo : 0..k, hi : 0..k]
        BY <3>2, <3>4
      <3>6. Between(f, row, k, t)
        BY <1>2, <2>2, <3>3, <3>4, <3>5, Zenon DEF Between
      <3>7. t.hi - t.lo < s.hi - s.lo /\ t.hi - t.lo <= s.hi - s.lo
        BY <1>1, <3>3, <3>4
      <3>. QED
        BY <3>1, <3>6, <3>7
    <2>3. CASE ~(f[mid + 1] <= row)
      <3>1. PICK t : t = Halve(f, row, s)
        OBVIOUS
      <3>2. t = [lo |-> lo, hi |-> mid]
        BY <1>1, <1>4, <2>1, <2>3, <3>1 DEF Halve, GoesOn
      <3>3. t.lo = lo /\ t.hi = mid
        BY <3>2
      <3>4. mid \in 0..k /\ lo <= mid /\ mid - lo < hi - lo
        BY <2>1
      <3>5. t \in [lo : 0..k, hi : 0..k]
        BY <3>2, <3>4
      <3>6. Between(f, row, k, t)
        BY <1>2, <2>3, <3>3, <3>4, <3>5, Zenon DEF Between
      <3>7. t.hi - t.lo < s.hi - s.lo /\ t.hi - t.lo <= s.hi - s.lo
        BY <1>1, <3>3, <3>4
      <3>. QED
        BY <3>1, <3>6, <3>7
    <2>. QED
      BY <2>2, <2>3
  <1>. QED
    BY <1>3, <1>4

SearchOf(g, f, row, k) ==
    /\ g[0] = [lo |-> 0, hi |-> k] /\ \A j \in 1..k : g[j] = Halve(f, row, g[j - 1])

LEMMA RunOfIs ==
    ASSUME NEW k \in Nat, NEW f \in [1..k -> Nat], NEW row
    PROVE  \E g : SearchOf(g, f, row, k) /\ RunOf(f, row) = g[k].lo
  <1>1. f \in Seq(Nat) /\ Len(f) = k
    OBVIOUS
  <1>2. PICK V : V = {s \in [lo : 0..k, hi : 0..k] : TRUE}
    OBVIOUS
  <1>. DEFINE W == [lo : 0..k, hi : 0..k]
  <1>3. \A s \in W : Halve(f, row, s) \in W
    <2>1. ASSUME NEW s \in W PROVE Halve(f, row, s) \in W
      <3>1. PICK lo \in 0..k, hi \in 0..k : lo = s.lo /\ hi = s.hi
        OBVIOUS
      <3>2. CASE lo >= hi
        BY <3>1, <3>2 DEF Halve
      <3>3. CASE ~(lo >= hi)
        <4>1. PICK mid \in 0..k : mid = lo + (hi - lo) \div 2 /\ mid + 1 \in 0..k
          <5>1. PICK w \in Nat : w = hi - lo /\ w # 0
            BY <3>3
          <5>2. PICK h \in Nat : h = w \div 2 /\ h < w
            BY <5>1
          <5>. QED
            BY <5>1, <5>2
        <4>2. Halve(f, row, s) \in {[lo |-> mid + 1, hi |-> hi], [lo |-> lo, hi |-> mid]}
          BY <3>1, <3>3, <4>1 DEF Halve
        <4>. QED
          BY <4>1, <4>2
      <3>. QED
        BY <3>2, <3>3
    <2>. QED
      BY <2>1
  <1>4. [lo |-> 0, hi |-> k] \in W
    OBVIOUS
  <1>5. PICK step : step = [p \in (1..k) \X W |-> Halve(f, row, p[2])]
    OBVIOUS
  <1>6. step \in [(1..k) \X W -> W]
    BY <1>3, <1>5
  <1>. HIDE DEF W
  <1>7. PICK g \in [0..k -> W] : FromZero(g, k, [lo |-> 0, hi |-> k], step)
    BY <1>4, <1>6, RecursionFromZero, Zenon
  <1>8. SearchOf(g, f, row, k)
    <2>1. g[0] = [lo |-> 0, hi |-> k] /\ \A i \in 1..k : g[i] = step[<<i, g[i - 1]>>]
      BY <1>7, Zenon DEF FromZero
    <2>2. ASSUME NEW i \in 1..k PROVE step[<<i, g[i - 1]>>] = Halve(f, row, g[i - 1])
      <3>1. i - 1 \in 0..k
        OBVIOUS
      <3>2. PICK s \in W : s = g[i - 1]
        BY <1>7, <3>1
      <3>3. step[<<i, s>>] = Halve(f, row, s)
        BY <1>5
      <3>. QED
        BY <3>2, <3>3
    <2>. QED
      BY <2>1, <2>2, Zenon DEF SearchOf
  <1>9. g = [j \in 0..Len(f) |-> IF j = 0 THEN [lo |-> 0, hi |-> Len(f)] ELSE Halve(f, row, g[j - 1])]
    <2>1. PICK h : h = [j \in 0..k |-> IF j = 0 THEN [lo |-> 0, hi |-> k] ELSE Halve(f, row, g[j - 1])]
      OBVIOUS
    <2>2. ASSUME NEW j \in 0..k PROVE g[j] = h[j]
      <3>1. CASE j = 0
        BY <1>8, <2>1, <3>1, Zenon DEF SearchOf
      <3>2. CASE j # 0
        <4>1. j \in 1..k
          BY <3>2
        <4>. QED
          BY <1>8, <2>1, <3>2, <4>1, Zenon DEF SearchOf
      <3>. QED
        BY <3>1, <3>2
    <2>3. g = h
      BY <1>7, <2>1, <2>2
    <2>. QED
      BY <1>1, <2>1, <2>3, Zenon
  <1>. DEFINE r == CHOOSE h : h = [j \in 0..Len(f) |-> IF j = 0 THEN [lo |-> 0, hi |-> Len(f)] ELSE Halve(f, row, h[j - 1])]
  <1>10. r = [j \in 0..Len(f) |-> IF j = 0 THEN [lo |-> 0, hi |-> Len(f)] ELSE Halve(f, row, r[j - 1])]
    BY <1>9, Zenon
  <1>11. RunOf(f, row) = r[Len(f)].lo
    BY Zenon DEF RunOf, Halve
  <1>. HIDE DEF r
  <1>12. SearchOf(r, f, row, k)
    <2>1. r = [j \in 0..k |-> IF j = 0 THEN [lo |-> 0, hi |-> k] ELSE Halve(f, row, r[j - 1])]
      BY <1>1, <1>10, Zenon
    <2>2. 0 \in 0..k /\ \A j \in 1..k : j \in 0..k /\ j # 0
      OBVIOUS
    <2>. QED
      BY <2>1, <2>2, Zenon DEF SearchOf
  <1>. QED
    BY <1>1, <1>11, <1>12, Zenon

\* The search finds the run of the row.
RunFound(list, row, ends, k) ==
    \E p \in 1..k : RunOf(list, row) = p - 1 /\ ends[p - 1] < row + 1 /\ row + 1 <= ends[p]

LEMMA SearchFinds ==
    ASSUME NEW counts, NEW ends, NEW k, NEW n, EndsOf(counts, ends, k, n), NEW list, EndsListed(list, ends, k),
           NEW row \in 0..(n - 1)
    PROVE  RunFound(list, row, ends, k)
  <1>1. /\ n \in Nat /\ k \in Nat \ {0} /\ ends \in [0..k -> 0..n] /\ ends[0] = 0 /\ ends[k] = n
        /\ list = [p \in 1..k |-> ends[p]]
    BY DEF EndsOf, EndsListed
  <1>2. list \in [1..k -> Nat]
    BY <1>1
  <1>3. k \in Nat
    BY <1>1
  <1>4. PICK g : SearchOf(g, list, row, k) /\ RunOf(list, row) = g[k].lo
    BY <1>2, <1>3, RunOfIs, Zenon
  <1>. DEFINE S == {j \in 0..k : Between(list, row, k, g[j]) /\ g[j].hi - g[j].lo <= k - j}
  <1>5. 0 \in S
    <2>1. g[0] = [lo |-> 0, hi |-> k]
      BY <1>4, Zenon DEF SearchOf
    <2>2. g[0] \in [lo : 0..k, hi : 0..k] /\ g[0].lo = 0 /\ g[0].hi = k
      BY <1>1, <2>1
    <2>3. 0 <= k /\ 0 \in 0..k /\ k - 0 <= k - 0
      BY <1>1
    <2>4. Between(list, row, k, g[0])
      BY <2>2, <2>3, Zenon DEF Between
    <2>. QED
      BY <2>2, <2>3, <2>4
  <1>6. ASSUME NEW j \in 0..(k - 1), j \in S PROVE j + 1 \in S
    <2>1. PICK s : s = g[j]
      OBVIOUS
    <2>2. Between(list, row, k, s) /\ s.hi - s.lo <= k - j
      BY <1>6, <2>1
    <2>3. PICK t : t = Halve(list, row, s)
      OBVIOUS
    <2>4. /\ Between(list, row, k, t) /\ t.hi - t.lo <= s.hi - s.lo
          /\ s.lo # s.hi => t.hi - t.lo < s.hi - s.lo
      BY <1>3, <2>2, <2>3, HalveIs
    <2>5. j + 1 \in 1..k /\ (j + 1) - 1 = j /\ j + 1 \in 0..k
      BY <1>1
    <2>6. g[j + 1] = t
      BY <1>4, <2>1, <2>3, <2>5 DEF SearchOf
    <2>7. PICK a \in Nat, b \in Nat, c \in Nat, e \in Nat :
             a = s.lo /\ b = s.hi /\ c = t.lo /\ e = t.hi /\ a <= b /\ c <= e
      BY <2>2, <2>4 DEF Between
    <2>8. e - c <= k - (j + 1)
      <3>1. b - a <= k - j /\ e - c <= b - a /\ (a # b => e - c < b - a)
        BY <2>2, <2>4, <2>7
      <3>. QED
        <4>1. CASE a = b
          <5>1. e - c <= 0 /\ 0 <= k - (j + 1)
            BY <1>3, <2>7, <3>1, <4>1
          <5>. QED
            BY <1>3, <2>7, <5>1
        <4>2. CASE a # b
          <5>1. e - c < b - a /\ b - a <= k - j
            BY <3>1, <4>2
          <5>. QED
            BY <1>3, <2>7, <5>1
        <4>. QED
          BY <4>1, <4>2
    <2>. QED
      BY <2>4, <2>5, <2>6, <2>7, <2>8
  <1>7. 0..k \subseteq S
    <2>. HIDE DEF S
    <2>. QED
      BY <1>3, <1>5, <1>6, IntervalInduction
  <1>8. PICK s : s = g[k] /\ Between(list, row, k, s) /\ s.hi - s.lo <= k - k
    <2>1. k \in S
      BY <1>1, <1>7
    <2>. QED
      BY <2>1
  <1>9. PICK lo \in 0..k : lo = s.lo /\ lo = s.hi /\ (lo = 0 \/ list[lo] <= row) /\ (lo = k \/ ~(list[lo + 1] <= row))
    <2>1. PICK a \in 0..k, b \in 0..k : a = s.lo /\ b = s.hi /\ a <= b /\ b - a <= k - k
      BY <1>8 DEF Between
    <2>2. a = b
      BY <1>1, <2>1
    <2>. QED
      BY <1>8, <2>1, <2>2, Zenon DEF Between
  <1>10. lo # k
    <2>1. list[k] = n /\ k \in 1..k /\ k # 0
      BY <1>1
    <2>2. ~(n <= row)
      BY <1>1
    <2>. QED
      BY <1>9, <2>1, <2>2, Zenon
  <1>11. PICK p \in 1..k : p = lo + 1 /\ p - 1 = lo
    <2>1. lo + 1 \in 1..k /\ (lo + 1) - 1 = lo
      BY <1>1, <1>9, <1>10
    <2>. QED
      BY <2>1, Zenon
  <1>12. ends[lo] <= row
    <2>1. CASE lo = 0
      BY <1>1, <2>1
    <2>2. CASE lo # 0
      <3>1. lo \in 1..k
        BY <1>9, <2>2
      <3>. QED
        BY <1>1, <1>9, <2>2, <3>1
    <2>. QED
      BY <2>1, <2>2
  <1>13. ~(ends[p] <= row)
    <2>1. list[p] = ends[p]
      BY <1>1
    <2>. QED
      BY <1>9, <1>10, <1>11, <2>1, Zenon
  <1>14. PICK a \in 0..n, b \in 0..n : a = ends[p - 1] /\ b = ends[p] /\ a <= row /\ ~(b <= row)
    <2>1. p - 1 \in 0..k /\ p \in 0..k
      BY <1>1
    <2>2. ends[p - 1] \in 0..n /\ ends[p] \in 0..n
      BY <1>1, <2>1
    <2>. QED
      BY <1>11, <1>12, <1>13, <2>2, Zenon
  <1>15. a < row + 1 /\ row + 1 <= b
    BY <1>1, <1>14
  <1>16. RunOf(list, row) = p - 1
    BY <1>4, <1>8, <1>9, <1>11, Zenon
  <1>. QED
    BY <1>14, <1>15, <1>16, Zenon DEF RunFound

---------------------------------------------------------------------------
(* RLE *)

LEMMA AgreesVia ==
    ASSUME NEW d, NEW type, NEW src, NEW nulls, NEW force, IsStream(d, type, src, nulls, force), NEW sel,
           Exact(type, src, nulls) => Exact(type, sel, {}), NEW v \in Int, NEW i \in 1..Len(src), NEW j \in 1..Len(src),
           Agrees(v, src[j], Exact(type, sel, {})), Same(src[i], src[j])
    PROVE  Agrees(v, src[i], Exact(type, src, nulls))
  <1>1. src[i] \in Int /\ src[j] \in Int
    BY StreamIs, Zenon
  <1>2. Same(src[j], src[i])
    BY <1>1, SameIs, Zenon
  <1>3. Agrees(src[j], src[i], Exact(type, src, nulls))
    BY <1>2, SameAgrees, Zenon
  <1>4. CASE Exact(type, src, nulls)
    <2>1. src[j] = src[i] /\ v = src[j]
      BY <1>3, <1>4, Zenon DEF Agrees
    <2>. QED
      BY <1>4, <2>1, Zenon DEF Agrees
  <1>5. CASE ~Exact(type, src, nulls)
    <2>1. Same(v, src[j])
      <3>1. v = src[j] \/ Same(v, src[j])
        BY Zenon DEF Agrees
      <3>. QED
        BY <1>1, <3>1, SameSelf, Zenon
    <2>2. Same(v, src[i])
      BY <1>1, <1>2, <2>1, SameIs, Zenon
    <2>. QED
      BY <1>5, <2>2, Zenon DEF Agrees
  <1>. QED
    BY <1>4, <1>5

LEMMA CutIs ==
    ASSUME NEW d, NEW type, NEW src, NEW nulls, NEW force, IsStream(d, type, src, nulls, force), NEW n, NEW k, NEW ends,
           NEW values, NEW counts, n = Len(src), Cut(src, nulls, n, values, counts, ends, k)
    PROVE  /\ EndsOf(counts, ends, k, n) /\ k <= Len(src)
           /\ values \in Seq(NumbersOf(type)) /\ Len(values) = k
           /\ \A p \in 1..Len(values) : \E i \in 1..Len(src) : values[p] = src[i]
           /\ counts \in Seq(NumbersOf("INTEGER")) /\ Len(counts) = k
  <1>1. /\ n \in Nat /\ src \in Seq(NumbersOf(type)) /\ n < 2^(NarrowBits - 1)
        /\ \A i \in 1..n : src[i] \in NumbersOf(type)
    <2>1. Len(src) \in Nat /\ \A i \in 1..Len(src) : src[i] \in NumbersOf(type)
      BY StreamIs, Zenon
    <2>. QED
      BY <2>1, Zenon DEF IsStream
  <1>2. /\ k \in Nat \ {0} /\ k <= n /\ ends \in [0..k -> 0..n] /\ ends[0] = 0 /\ ends[k] = n
        /\ values = [p \in 1..k |-> src[ends[p - 1] + 1]]
        /\ counts = [p \in 1..k |-> ends[p] - ends[p - 1]]
        /\ \A p \in 1..k : ends[p - 1] < ends[p]
    BY Zenon DEF Cut
  <1>3. EndsOf(counts, ends, k, n)
    BY <1>1, <1>2, Zenon DEF EndsOf
  <1>4. PICK h \in Nat : h = 2^(NarrowBits - 1)
    BY WidthsAre, HalfOf
  <1>5. ASSUME NEW p \in 1..k
        PROVE  /\ ends[p - 1] + 1 \in 1..n /\ ends[p] - ends[p - 1] \in Nat
               /\ ends[p] - ends[p - 1] < 2^(NarrowBits - 1)
    <2>1. p - 1 \in 0..k /\ p \in 0..k
      BY <1>2
    <2>2. PICK a \in 0..n, b \in 0..n : a = ends[p - 1] /\ b = ends[p]
      BY <1>2, <2>1
    <2>3. a < b
      BY <1>2, <2>2
    <2>4. a + 1 \in 1..n /\ b - a \in Nat /\ b - a < h
      BY <1>1, <1>4, <2>3
    <2>. QED
      BY <1>4, <2>2, <2>4, Zenon
  <1>6. values \in Seq(NumbersOf(type)) /\ Len(values) = k
    <2>1. \A p \in 1..k : src[ends[p - 1] + 1] \in NumbersOf(type)
      BY <1>1, <1>5, Zenon
    <2>2. values \in [1..k -> NumbersOf(type)]
      BY <1>2, <2>1, Zenon
    <2>. QED
      BY <1>2, <2>2
  <1>7. \A p \in 1..k : \E i \in 1..n : values[p] = src[i]
    BY <1>2, <1>5, Zenon
  <1>8. counts \in Seq(Nat) /\ Len(counts) = k
    <2>1. counts \in [1..k -> Nat]
      BY <1>2, <1>5, Zenon
    <2>. QED
      BY <1>2, <2>1
  <1>9. counts \in Seq(NumbersOf("INTEGER"))
    <2>1. \A p \in 1..k : counts[p] < 2^(NarrowBits - 1)
      BY <1>2, <1>5, Zenon
    <2>. QED
      BY <1>8, <2>1, IntegersAre, Zenon
  <1>. QED
    BY <1>2, <1>3, <1>6, <1>7, <1>8, <1>9, Zenon

LEMMA RleKept ==
    ASSUME NEW d \in 1..CascadeDepth, AllKept(d - 1), NEW type, NEW src, NEW nulls, NEW force,
           IsStream(d, type, src, nulls, force), src # <<>>, NEW junk \in Int,
           NEW x \in Encodings[d - 1][Stream(type, Runs(src, nulls).values, {}, AutoScheme, junk)],
           NEW y \in Encodings[d - 1][Stream("INTEGER", Runs(src, nulls).counts, {}, AutoScheme, junk)]
    PROVE  Kept(d, [scheme |-> "RLE", runs |-> Len(Runs(src, nulls).values), values |-> x, counts |-> y], type, src, nulls)
  <1>1. /\ type \in Types /\ src \in Seq(Int) /\ nulls \in SUBSET Nat
        /\ \A i \in 1..Len(src) : src[i] \in NumbersOf(type) /\ src[i] \in Int
    BY StreamIs, Zenon
  <1>2. PICK n \in Nat \ {0} : n = Len(src)
    BY <1>1
  <1>3. PICK values, counts : values = Runs(src, nulls).values /\ counts = Runs(src, nulls).counts
    OBVIOUS
  <1>4. PICK k, ends : Cut(src, nulls, n, values, counts, ends, k)
    BY <1>1, <1>2, <1>3, RunsCut, Zenon
  <1>5. /\ EndsOf(counts, ends, k, n) /\ k <= Len(src)
        /\ values \in Seq(NumbersOf(type)) /\ Len(values) = k
        /\ \A p \in 1..Len(values) : \E i \in 1..Len(src) : values[p] = src[i]
        /\ counts \in Seq(NumbersOf("INTEGER")) /\ Len(counts) = k
    BY <1>2, <1>4, CutIs
  <1>6. /\ k \in Nat \ {0} /\ k \in Nat /\ k <= n /\ ends \in [0..k -> 0..n] /\ ends[0] = 0 /\ ends[k] = n
        /\ \A p \in 1..k : values[p] = src[ends[p - 1] + 1]
        /\ counts = [p \in 1..k |-> ends[p] - ends[p - 1]]
        /\ \A p \in 1..k : ends[p - 1] < ends[p]
        /\ \A i \in 1..n : \E p \in 1..k : ends[p - 1] < i /\ i <= ends[p]
        /\ \A p \in 1..k : \A i \in 1..n :
              ends[p - 1] < i /\ i <= ends[p] /\ i \notin nulls => Same(src[i], src[ends[p - 1] + 1])
    BY <1>4, Zenon DEF Cut
  <1>7. \A p \in 1..k : ends[p - 1] + 1 \in 1..n
    <2>1. ASSUME NEW p \in 1..k PROVE ends[p - 1] + 1 \in 1..n
      <3>1. p - 1 \in 0..k /\ p \in 0..k
        BY <1>6
      <3>2. PICK a \in 0..n, b \in 0..n : a = ends[p - 1] /\ b = ends[p]
        BY <1>6, <3>1
      <3>3. a < b
        BY <1>6, <3>2
      <3>. QED
        BY <3>2, <3>3
    <2>. QED
      BY <2>1
  <1>8. PICK e : e = [scheme |-> "RLE", runs |-> k, values |-> x, counts |-> y]
    OBVIOUS
  <1>9. e.scheme = "RLE" /\ e.runs = k /\ e.values = x /\ e.counts = y
    BY <1>8
  <1>10. Kept(d - 1, x, type, values, {}) /\ (Exact(type, src, nulls) => Exact(type, values, {}))
    <2>1. x \in Encodings[d - 1][Stream(type, values, {}, AutoScheme, junk)]
      BY <1>3, Zenon
    <2>2. Len(values) <= Len(src)
      BY <1>5, Zenon
    <2>. QED
      BY <1>5, <2>1, <2>2, PartKept, Zenon
  <1>11. /\ x \in Encoded[d - 1]
         /\ \A j \in Int : ReadsAs(Decode[d - 1][x][Request(type, {}, k, j)], type, values, {})
         /\ type # "DOUBLE" => \A j \in Int, ps \in Seq(Nat) :
               IsLookup(ps, k) => PicksAs(Gather[d - 1][x][Lookup(type, {}, k, j, ps)], values, {}, ps)
    BY <1>5, <1>10, Zenon DEF Kept, Reads, Picks
  <1>12. IsSub(d - 1, "INTEGER", counts, AutoScheme)
    <2>1. "INTEGER" \in Types /\ {} \subseteq 1..Len(counts)
      BY DEF Types
    <2>2. Len(counts) < 2^(NarrowBits - 1)
      <3>1. Len(src) < 2^(NarrowBits - 1)
        BY Zenon DEF IsStream
      <3>2. PICK h \in Nat : h = 2^(NarrowBits - 1)
        BY WidthsAre, HalfOf
      <3>3. n < h
        BY <1>2, <3>1, <3>2, Zenon
      <3>4. k < h
        BY <1>6, <3>3
      <3>. QED
        BY <1>5, <3>2, <3>4, Zenon
    <2>3. d - 1 # CascadeDepth
      BY DepthIs
    <2>4. Exact("INTEGER", counts, {})
      BY DEF Exact
    <2>5. IsStream(d - 1, "INTEGER", counts, {}, AutoScheme)
      BY <1>5, <2>1, <2>2, <2>3, Zenon DEF IsStream
    <2>. QED
      BY <2>4, <2>5, Zenon DEF IsSub
  <1>13. /\ y \in Encoded[d - 1]
         /\ \A j \in Int : Decode[d - 1][y][Request("INTEGER", {}, k, j)] = counts
    <2>1. y \in Encodings[d - 1][Stream("INTEGER", counts, {}, AutoScheme, junk)]
      BY <1>3, Zenon
    <2>2. /\ y \in Encoded[d - 1]
          /\ \A j \in Int : Decode[d - 1][y][Request("INTEGER", {}, Len(counts), j)] = counts
          /\ "INTEGER" # "DOUBLE" => Picks(d - 1, y, "INTEGER", counts, {})
      BY <1>12, <2>1, SubWhole, Zenon
    <2>. QED
      BY <1>5, <2>2, Zenon
  <1>14. e \in Formats(Encoded[d - 1])
    BY <1>6, <1>8, <1>11, <1>13 DEF Formats
  <1>15. ASSUME NEW j \in Int
         PROVE  ReadsAs(DecodedBy(Decode[d - 1], e, Request(type, nulls, Len(src), j)), type, src, nulls)
    <2>1. PICK r : r = Request(type, nulls, n, j)
      OBVIOUS
    <2>2. r.type = type /\ r.junk = j
      BY <2>1 DEF Request
    <2>3. PICK vals : vals = Decode[d - 1][x][Request(type, {}, k, j)]
      OBVIOUS
    <2>4. ReadsAs(vals, type, values, {})
      BY <1>11, <2>3, Zenon
    <2>5. /\ vals \in Seq(Int) /\ Len(vals) = k
          /\ \A p \in 1..k : Agrees(vals[p], values[p], Exact(type, values, {}))
      BY <1>5, <2>4, Zenon DEF ReadsAs
    <2>6. PICK g : g = Repeated(vals, counts)
      OBVIOUS
    <2>7. DecodedBy(Decode[d - 1], e, r) = g
      <3>1. DecodedBy(Decode[d - 1], e, r) = Repeated(RunValues(Decode[d - 1], e, r), RunCounts(Decode[d - 1], e, r))
        BY <1>9 DEF DecodedBy
      <3>2. RunValues(Decode[d - 1], e, r) = vals
        BY <1>9, <2>2, <2>3, Zenon DEF RunValues
      <3>3. RunCounts(Decode[d - 1], e, r) = counts
        BY <1>9, <1>13, <2>2, Zenon DEF RunCounts
      <3>. QED
        BY <2>6, <3>1, <3>2, <3>3, Zenon
    <2>8. /\ g \in Seq(Int) /\ Len(g) = n
          /\ \A p \in 1..k : \A i \in 1..n : ends[p - 1] < i /\ i <= ends[p] => g[i] = vals[p]
      <3>1. RepeatedOf(vals, counts, ends, k, n)
        BY <1>6, <2>5, Zenon DEF RepeatedOf
      <3>2. RepeatsAre(Repeated(vals, counts), vals, ends, k, n)
        BY <3>1, RepeatedIs, Zenon
      <3>. QED
        BY <2>6, <3>2, Zenon DEF RepeatsAre
    <2>9. ASSUME NEW i \in 1..n, i \notin nulls PROVE Agrees(g[i], src[i], Exact(type, src, nulls))
      <3>1. PICK p \in 1..k : ends[p - 1] < i /\ i <= ends[p]
        BY <1>6, Zenon
      <3>2. PICK h \in 1..n : h = ends[p - 1] + 1 /\ values[p] = src[h]
        BY <1>6, <1>7, Zenon
      <3>3. Same(src[i], src[h])
        BY <1>6, <2>9, <3>1, <3>2, Zenon
      <3>4. g[i] = vals[p]
        BY <2>8, <3>1, Zenon
      <3>5. vals[p] \in Int
        BY <2>5
      <3>6. Agrees(vals[p], src[h], Exact(type, values, {}))
        BY <2>5, <3>2, Zenon
      <3>7. i \in 1..Len(src) /\ h \in 1..Len(src)
        BY <1>2, <3>2, Zenon
      <3>. QED
        BY <1>10, <3>3, <3>4, <3>5, <3>6, <3>7, AgreesVia, Zenon
    <2>10. ReadsAs(g, type, src, nulls)
      BY <1>2, <2>8, <2>9, Zenon DEF ReadsAs
    <2>. QED
      BY <1>2, <2>1, <2>7, <2>10, Zenon
  <1>16. ASSUME type # "DOUBLE", NEW j \in Int, NEW positions \in Seq(Nat), IsLookup(positions, Len(src))
         PROVE  PicksAs(GatheredBy(d, Gather[d - 1], e, Lookup(type, nulls, Len(src), j, positions)), src, nulls, positions)
    <2>1. PICK q : q = Lookup(type, nulls, n, j, positions)
      OBVIOUS
    <2>2. q.positions = positions /\ q.type = type /\ q.junk = j
      BY <2>1 DEF Lookup
    <2>3. PICK m \in Nat : m = Len(positions) /\ DOMAIN positions = 1..m /\ \A i \in 1..m : positions[i] + 1 \in 1..n
      BY <1>2, <1>16 DEF IsLookup
    <2>4. PICK list : list = PrefixSums(counts)
      OBVIOUS
    <2>5. EndsListed(list, ends, k)
      BY <1>5, <2>4, PrefixSumsAre, Zenon
    <2>6. PICK ps : ps = [i \in 1..m |-> RunOf(list, positions[i])]
      OBVIOUS
    <2>7. ASSUME NEW i \in 1..m
          PROVE  \E p \in 1..k : ps[i] = p - 1 /\ ends[p - 1] < positions[i] + 1 /\ positions[i] + 1 <= ends[p]
      <3>1. PICK row \in 0..(n - 1) : row = positions[i]
        <4>1. positions[i] \in Nat /\ positions[i] + 1 \in 1..n
          BY <2>3
        <4>. QED
          BY <4>1
      <3>3. \E p \in 1..k : RunOf(list, row) = p - 1 /\ ends[p - 1] < row + 1 /\ row + 1 <= ends[p]
        <4>1. RunFound(list, row, ends, k)
          BY <1>5, <2>5, <3>1, SearchFinds, Zenon
        <4>. QED
          BY <4>1, Zenon DEF RunFound
      <3>2. \E p \in 1..k : RunOf(list, positions[i]) = p - 1 /\ ends[p - 1] < positions[i] + 1 /\ positions[i] + 1 <= ends[p]
        BY <3>1, <3>3, Zenon
      <3>. QED
        BY <2>6, <3>2, Zenon
    <2>8. ps \in Seq(Nat) /\ Len(ps) = m /\ IsLookup(ps, k)
      <3>1. \A i \in 1..m : ps[i] \in Nat /\ ps[i] + 1 \in 1..k
        <4>1. ASSUME NEW i \in 1..m PROVE ps[i] \in Nat /\ ps[i] + 1 \in 1..k
          <5>1. PICK p \in 1..k : ps[i] = p - 1
            BY <2>7
          <5>2. p - 1 \in Nat /\ (p - 1) + 1 \in 1..k
            BY <1>6
          <5>. QED
            BY <5>1, <5>2
        <4>. QED
          BY <4>1
      <3>2. ps \in Seq(Nat) /\ Len(ps) = m
        BY <2>6, <3>1
      <3>. QED
        BY <3>1, <3>2 DEF IsLookup
    <2>9. PICK v : v = Gather[d - 1][x][Lookup(type, {}, k, j, ps)]
      OBVIOUS
    <2>10. PicksAs(v, values, {}, ps)
      BY <1>11, <1>16, <2>8, <2>9, Zenon
    <2>11. v \in Seq(Int) /\ Len(v) = m /\ \A i \in 1..m : v[i] = values[ps[i] + 1]
      BY <2>8, <2>10 DEF PicksAs
    <2>12. GatheredBy(d, Gather[d - 1], e, q) = v
      <3>1. GatheredBy(d, Gather[d - 1], e, q) = RleGather(Decode[d - 1], Gather[d - 1], e, q)
        BY <1>9 DEF GatheredBy
      <3>2. RunCounts(Decode[d - 1], e, q) = counts
        BY <1>9, <1>13, <2>2, Zenon DEF RunCounts
      <3>3. RleGather(Decode[d - 1], Gather[d - 1], e, q) = v
        BY <1>9, <2>2, <2>3, <2>4, <2>6, <2>9, <3>2, Zenon DEF RleGather
      <3>. QED
        BY <3>1, <3>3
    <2>13. ASSUME NEW i \in 1..m, positions[i] + 1 \notin nulls PROVE v[i] = src[positions[i] + 1]
      <3>1. PICK p \in 1..k : ps[i] = p - 1 /\ ends[p - 1] < positions[i] + 1 /\ positions[i] + 1 <= ends[p]
        BY <2>7
      <3>2. PICK row \in 1..n : row = positions[i] + 1
        BY <2>3
      <3>3. PICK h \in 1..n : h = ends[p - 1] + 1 /\ values[p] = src[h]
        BY <1>6, <1>7, Zenon
      <3>4. Same(src[row], src[h])
        BY <1>6, <2>13, <3>1, <3>2, <3>3, Zenon
      <3>5. v[i] = values[p]
        <4>1. (p - 1) + 1 = p
          BY <1>6
        <4>. QED
          BY <2>11, <3>1, <4>1, Zenon
      <3>6. src[h] = src[row]
        <4>1. src[h] \in Int /\ src[row] \in Int /\ row \in 1..Len(src) /\ h \in 1..Len(src)
          BY <1>1, <1>2, <3>2, <3>3, Zenon
        <4>2. Same(src[h], src[row])
          BY <3>4, <4>1, SameIs, Zenon
        <4>3. Agrees(src[h], src[row], Exact(type, src, nulls))
          BY <4>1, <4>2, SameAgrees, Zenon
        <4>. QED
          BY <1>16, <4>3, Zenon DEF Agrees, Exact
      <3>. QED
        BY <3>2, <3>3, <3>5, <3>6, Zenon
    <2>14. PicksAs(v, src, nulls, positions)
      BY <2>3, <2>11, <2>13, Zenon DEF PicksAs
    <2>. QED
      BY <1>2, <2>1, <2>12, <2>14, Zenon
  <1>17. KeptDeep(d, e, type, src, nulls)
    BY <1>14, <1>15, <1>16, Zenon DEF KeptDeep
  <1>18. Kept(d, e, type, src, nulls)
    BY <1>17, KeptDeepIs, Zenon
  <1>. QED
    BY <1>3, <1>5, <1>8, <1>18, Zenon

---------------------------------------------------------------------------
(* Bit sections *)

\* Adjacent sections of a number, from its lowest bit to its highest, none wider than an INTEGER.
Adjacent(plan, b, m, bits) ==
    /\ m \in Nat \ {0} /\ bits \in Nat \ {0} /\ b \in [0..m -> Nat] /\ b[0] = 0 /\ b[m] = bits
    /\ plan \in Seq([first : Nat, last : Nat]) /\ Len(plan) = m
    /\ \A k \in 1..m : /\ plan[k].first = b[k - 1] /\ plan[k].last = b[k] - 1
                       /\ b[k - 1] < b[k] /\ b[k] - b[k - 1] <= NarrowBits

\* Bits a.. of a number, w of them.
Cutout(v, a, w, bits) == (Unsigned(v, bits) \div 2^a) % 2^w

LEMMA CutoutIs ==
    ASSUME NEW v \in Int, NEW bits \in Nat \ {0}, NEW a \in Nat, NEW w \in 1..NarrowBits
    PROVE  /\ Unsigned(v, bits) \in Nat /\ Cutout(v, a, w, bits) \in 0..(2^w - 1)
           /\ Signed(Cutout(v, a, w, bits), NarrowBits) \in NumbersOf("INTEGER")
           /\ Unsigned(Signed(Cutout(v, a, w, bits), NarrowBits), w) = Cutout(v, a, w, bits)
  <1>1. PICK u \in Nat : u = Unsigned(v, bits)
    <2>1. 2^bits \in Nat
      BY HalfOf
    <2>. QED
      BY <2>1, SignedIs
  <1>2. w \in Nat /\ NarrowBits \in Nat \ {0} /\ NarrowBits - w \in Nat /\ w + (NarrowBits - w) = NarrowBits
    BY WidthsAre
  <1>3. PICK A \in Nat \ {0}, W \in Nat \ {0}, R \in Nat \ {0} :
            A = 2^a /\ W = 2^w /\ R = 2^(NarrowBits - w) /\ 2^NarrowBits = W * R
    <2>1. PICK r \in Nat : r = NarrowBits - w /\ w + r = NarrowBits
      BY <1>2
    <2>2. 2^a \in Nat \ {0} /\ 2^w \in Nat \ {0} /\ 2^r \in Nat \ {0}
      BY <1>2, PowerNext
    <2>3. 2^(w + r) = 2^w * 2^r
      BY <1>2, PowerAdds
    <2>. QED
      BY <2>1, <2>2, <2>3
  <1>4. PICK x \in 0..(W - 1) : x = Cutout(v, a, w, bits)
    <2>1. PICK q \in Nat : q = u \div A
      BY Divided
    <2>2. PICK x \in 0..(W - 1) : x = q % W
      BY Divided
    <2>. QED
      BY <1>1, <1>3, <2>1, <2>2 DEF Cutout
  <1>5. PICK p \in Int : p = Signed(x, NarrowBits) /\ p \in NumbersOf("INTEGER") /\ \E q \in Int : x = q * (W * R) + p
    <2>1. x \in Int
      OBVIOUS
    <2>2. /\ Signed(x, NarrowBits) \in Numbers(NarrowBits) /\ Signed(x, NarrowBits) \in Int
          /\ \E q \in Int : x = q * 2^NarrowBits + Signed(x, NarrowBits)
      BY <1>2, <2>1, SignedIs
    <2>3. NumbersOf("INTEGER") = Numbers(NarrowBits)
      BY DEF NumbersOf, Bits, Numbers
    <2>. QED
      BY <1>3, <2>2, <2>3
  <1>6. PICK q \in Int : x = q * (W * R) + p
    BY <1>5
  <1>7. PICK c \in Int : c = -(q * R) /\ c * W = -(q * (W * R))
    <2>1. -(q * R) \in Int /\ (-(q * R)) * W = -(q * (W * R))
      BY Z3
    <2>. QED
      BY <2>1
  <1>8. p = c * W + x
    <2>1. PICK t \in Int : t = q * (W * R)
      OBVIOUS
    <2>. QED
      BY <1>6, <1>7, <2>1
  <1>9. p % W = x
    BY <1>8, RemainderOf
  <1>10. Unsigned(p, w) = x
    BY <1>3, <1>9 DEF Unsigned
  <1>. QED
    BY <1>1, <1>3, <1>4, <1>5, <1>10

\* What the sections add up to in a row.
BitsOf(parts, plan, k, i) == Unsigned(parts[k][i], plan[k].last - plan[k].first + 1) * 2^plan[k].first

SumOf(parts, plan, i) == MapThenSumSet(LAMBDA k : BitsOf(parts, plan, k, i), DOMAIN plan)

AddsUp(parts, plan, i, c, n) ==
    DOMAIN plan = 1..n /\ \A k \in 1..n : BitsOf(parts, plan, k, i) = c[k]

LEMMA SumOfIs ==
    ASSUME NEW n \in Nat, NEW plan, NEW parts, NEW i, NEW c \in [1..n -> Nat],
           AddsUp(parts, plan, i, c, n), NEW total, RunningSum(c, n, total)
    PROVE  SumOf(parts, plan, i) = total[n]
  <1>. DEFINE Cost(k) == BitsOf(parts, plan, k, i)
              Fold(f) == f = [z \in SUBSET (1..n) |->
                                IF z = {} THEN 0
                                ELSE Cost(CHOOSE x \in z : TRUE) + f[z \ {CHOOSE x \in z : TRUE}]]
              fold == CHOOSE f : Fold(f)
  <1>2. SumOf(parts, plan, i) = fold[1..n]
    <2>1. DOMAIN plan = 1..n
      BY DEF AddsUp
    <2>. QED
      BY <2>1, Zenon DEF SumOf, MapThenSumSet, MapThenFoldSet
  <1>3. \A k \in 1..n : Cost(k) = c[k]
    BY DEF AddsUp
  <1>. HIDE DEF Cost
  <1>4. \A z \in SUBSET (1..n) : z # {} => Cost(CHOOSE x \in z : TRUE) = c[CHOOSE x \in z : TRUE]
    <2>1. \A z \in SUBSET (1..n) : z # {} => (CHOOSE x \in z : TRUE) \in 1..n
      OBVIOUS
    <2>. QED
      BY <1>3, <2>1, Zenon
  <1>5. PICK sum : sum = [z \in SUBSET (1..n) |->
                             IF z = {} THEN 0
                             ELSE c[CHOOSE x \in z : TRUE] + sum[z \ {CHOOSE x \in z : TRUE}]]
    BY FoldExists, Zenon
  <1>6. Fold(sum)
    <2>1. PICK h : h = [z \in SUBSET (1..n) |->
                          IF z = {} THEN 0
                          ELSE Cost(CHOOSE x \in z : TRUE) + sum[z \ {CHOOSE x \in z : TRUE}]]
      OBVIOUS
    <2>2. ASSUME NEW z \in SUBSET (1..n)
          PROVE  sum[z] = h[z]
      <3>1. CASE z = {}
        <4>1. sum[z] = 0 /\ h[z] = 0
          BY <1>5, <2>1, <3>1, Zenon
        <4>. QED
          BY <4>1
      <3>2. CASE z # {}
        <4>1. Cost(CHOOSE x \in z : TRUE) = c[CHOOSE x \in z : TRUE]
          BY <1>4, <3>2, Zenon
        <4>2. sum[z] = c[CHOOSE x \in z : TRUE] + sum[z \ {CHOOSE x \in z : TRUE}]
          BY <1>5, <3>2, Zenon
        <4>3. h[z] = Cost(CHOOSE x \in z : TRUE) + sum[z \ {CHOOSE x \in z : TRUE}]
          BY <2>1, <3>2, Zenon
        <4>. QED
          BY <4>1, <4>2, <4>3, Zenon
      <3>. QED
        BY <3>1, <3>2
    <2>3. sum = h
      BY <1>5, <2>1, <2>2, Zenon
    <2>. QED
      BY <2>1, <2>3, Zenon
  <1>7. Fold(fold)
    <2>. HIDE DEF Fold
    <2>. QED
      BY <1>6, Zenon
  <1>. HIDE DEF fold
  <1>8. SumsTo(c, n, fold)
    <2>1. ASSUME NEW z \in SUBSET (1..n)
          PROVE  fold[z] = IF z = {} THEN 0
                           ELSE c[CHOOSE x \in z : TRUE] + fold[z \ {CHOOSE x \in z : TRUE}]
      <3>1. fold[z] = IF z = {} THEN 0
                      ELSE Cost(CHOOSE x \in z : TRUE) + fold[z \ {CHOOSE x \in z : TRUE}]
        BY <1>7, Zenon
      <3>2. CASE z = {}
        BY <3>1, <3>2, Zenon
      <3>3. CASE z # {}
        <4>1. Cost(CHOOSE x \in z : TRUE) = c[CHOOSE x \in z : TRUE]
          BY <1>4, <3>3, Zenon
        <4>2. fold[z] = Cost(CHOOSE x \in z : TRUE) + fold[z \ {CHOOSE x \in z : TRUE}]
          BY <3>1, <3>3, Zenon
        <4>. QED
          BY <3>3, <4>1, <4>2, Zenon
      <3>. QED
        BY <3>2, <3>3
    <2>. QED
      BY <2>1, Zenon DEF SumsTo
  <1>9. fold[1..n] = total[n]
    BY <1>8, FoldIsSum
  <1>. QED
    BY <1>2, <1>9, Zenon

\* The row is put together again.
Joins(parts, plan, b, m, bits, i, v) ==
    \A k \in 1..m : parts[k][i] = Signed(Cutout(v, b[k - 1], b[k] - b[k - 1], bits), NarrowBits)

RowOfParts(parts, m, i) == \A k \in 1..m : parts[k][i] \in Int

LEMMA JoinedRow ==
    ASSUME NEW plan, NEW b, NEW m, NEW bits, Adjacent(plan, b, m, bits), NEW parts, NEW i, RowOfParts(parts, m, i)
    PROVE  /\ Signed(SumOf(parts, plan, i), bits) \in Int
           /\ \A v \in Numbers(bits) : Joins(parts, plan, b, m, bits, i, v) => Signed(SumOf(parts, plan, i), bits) = v
  <1>1. /\ m \in Nat \ {0} /\ bits \in Nat \ {0} /\ b \in [0..m -> Nat] /\ b[0] = 0 /\ b[m] = bits
        /\ DOMAIN plan = 1..m
    BY DEF Adjacent
  <1>2. ASSUME NEW k \in 1..m
        PROVE  /\ b[k] \in Nat /\ b[k - 1] \in Nat /\ b[k] - b[k - 1] \in 1..NarrowBits
               /\ plan[k].first = b[k - 1] /\ plan[k].last - plan[k].first + 1 = b[k] - b[k - 1]
    <2>1. /\ b[k] \in Nat /\ b[k - 1] \in Nat /\ plan[k].first = b[k - 1] /\ plan[k].last = b[k] - 1
          /\ b[k - 1] < b[k] /\ b[k] - b[k - 1] <= NarrowBits
      <3>1. k \in 0..m /\ k - 1 \in 0..m
        BY <1>1
      <3>2. b[k] \in Nat /\ b[k - 1] \in Nat
        BY <1>1, <3>1
      <3>. QED
        BY <3>2, Zenon DEF Adjacent
    <2>. QED
      BY <2>1, WidthsAre
  <1>3. PICK c : c = [k \in 1..m |-> Unsigned(parts[k][i], b[k] - b[k - 1]) * 2^b[k - 1]]
    OBVIOUS
  <1>4. ASSUME NEW k \in 1..m PROVE c[k] \in Nat /\ BitsOf(parts, plan, k, i) = c[k]
    <2>1. PICK x \in Nat, y \in Nat : x = Unsigned(parts[k][i], b[k] - b[k - 1]) /\ y = 2^b[k - 1]
      <3>1. b[k] - b[k - 1] \in Nat \ {0} /\ b[k - 1] \in Nat
        BY <1>2
      <3>2. 2^(b[k] - b[k - 1]) \in Nat \ {0} /\ 2^b[k - 1] \in Nat
        BY <3>1, PowerNext
      <3>3. Unsigned(parts[k][i], b[k] - b[k - 1]) \in 0..(2^(b[k] - b[k - 1]) - 1)
        BY <3>1, SignedIs DEF RowOfParts
      <3>. QED
        BY <3>2, <3>3
    <2>2. x * y \in Nat
      BY Z3
    <2>3. c[k] = x * y
      BY <1>3, <2>1
    <2>. QED
      BY <1>2, <2>1, <2>2, <2>3 DEF BitsOf
  <1>5. c \in [1..m -> Nat]
    BY <1>3, <1>4, Zenon
  <1>6. PICK total : RunningSum(c, m, total)
    BY <1>1, <1>5, RunningSumExists
  <1>7. SumOf(parts, plan, i) = total[m]
    <2>1. AddsUp(parts, plan, i, c, m) /\ m \in Nat
      BY <1>1, <1>4 DEF AddsUp
    <2>. QED
      BY <1>5, <1>6, <2>1, SumOfIs, Zenon
  <1>8. total[m] \in Int
    BY <1>1, <1>6 DEF RunningSum
  <1>9. Signed(SumOf(parts, plan, i), bits) \in Int
    BY <1>1, <1>7, <1>8, SignedIs
  <1>10. ASSUME NEW v \in Numbers(bits), Joins(parts, plan, b, m, bits, i, v)
         PROVE  Signed(SumOf(parts, plan, i), bits) = v
    <2>1. v \in Int /\ Signed(v, bits) = v
      BY <1>1, SignedSelf
    <2>2. PICK u \in Nat : u = Unsigned(v, bits) /\ u \in 0..(2^bits - 1) /\ 2^bits \in Nat \ {0}
      <3>1. 2^bits \in Nat \ {0}
        BY <1>1, PowerNext
      <3>2. Unsigned(v, bits) \in 0..(2^bits - 1)
        BY <1>1, <2>1, SignedIs
      <3>. QED
        BY <3>1, <3>2
    <2>3. ASSUME NEW k \in 1..m PROVE c[k] = ((u \div 2^b[k - 1]) % 2^(b[k] - b[k - 1])) * 2^b[k - 1]
      <3>1. parts[k][i] = Signed(Cutout(v, b[k - 1], b[k] - b[k - 1], bits), NarrowBits)
        BY <1>10 DEF Joins
      <3>2. Unsigned(parts[k][i], b[k] - b[k - 1]) = Cutout(v, b[k - 1], b[k] - b[k - 1], bits)
        <4>1. b[k - 1] \in Nat /\ b[k] - b[k - 1] \in 1..NarrowBits
          BY <1>2
        <4>2. Unsigned(Signed(Cutout(v, b[k - 1], b[k] - b[k - 1], bits), NarrowBits), b[k] - b[k - 1])
                 = Cutout(v, b[k - 1], b[k] - b[k - 1], bits)
          BY <1>1, <2>1, <4>1, CutoutIs, Zenon
        <4>. QED
          BY <3>1, <4>2, Zenon
      <3>3. Cutout(v, b[k - 1], b[k] - b[k - 1], bits) = (u \div 2^b[k - 1]) % 2^(b[k] - b[k - 1])
        BY <2>2, Zenon DEF Cutout
      <3>. QED
        BY <1>3, <3>2, <3>3
    <2>. DEFINE S == {k \in 0..m : total[k] = u % 2^b[k]}
    <2>4. 0 \in S
      <3>1. total[0] = 0
        BY <1>6 DEF RunningSum
      <3>2. u % 1 = 0
        <4>1. 0 \in 0..(1 - 1) /\ u = u * 1 + 0
          OBVIOUS
        <4>2. (u * 1 + 0) % 1 = 0
          BY <4>1, Quotient
        <4>. QED
          BY <4>1, <4>2
      <3>3. 2^b[0] = 1
        BY <1>1, PowerOfNothing
      <3>4. 0 \in 0..m /\ total[0] = u % 2^b[0]
        BY <1>1, <3>1, <3>2, <3>3
      <3>. QED
        BY <3>4
    <2>5. ASSUME NEW k \in 0..(m - 1), k \in S PROVE k + 1 \in S
      <3>1. k + 1 \in 1..m /\ (k + 1) - 1 = k /\ k + 1 \in 0..m
        BY <1>1
      <3>2. PICK x \in Nat, w \in Nat : x = b[k] /\ w = b[k + 1] - b[k] /\ x + w = b[k + 1]
        <4>1. b[k + 1] \in Nat /\ b[k] \in Nat /\ b[k + 1] - b[k] \in 1..NarrowBits
          BY <1>2, <3>1
        <4>2. b[k + 1] - b[k] \in Nat /\ b[k] + (b[k + 1] - b[k]) = b[k + 1]
          BY <4>1
        <4>. QED
          BY <4>1, <4>2
      <3>3. total[k + 1] = total[k] + c[k + 1]
        BY <1>6, <3>1 DEF RunningSum
      <3>4. c[k + 1] = ((u \div 2^x) % 2^w) * 2^x
        BY <2>3, <3>1, <3>2
      <3>5. u % 2^(x + w) = (u % 2^x) + ((u \div 2^x) % 2^w) * 2^x
        BY LowerBits
      <3>6. total[k] = u % 2^x
        BY <2>5, <3>2
      <3>7. total[k + 1] = u % 2^(x + w)
        BY <3>3, <3>4, <3>5, <3>6, Zenon
      <3>. QED
        BY <3>1, <3>2, <3>7
    <2>6. 0..m \subseteq S
      <3>. HIDE DEF S
      <3>. QED
        BY <1>1, <2>4, <2>5, IntervalInduction
    <2>7. total[m] = u % 2^bits
      BY <1>1, <2>6
    <2>8. u % 2^bits = u
      <3>1. PICK M \in Nat \ {0} : M = 2^bits /\ u \in 0..(M - 1)
        BY <2>2
      <3>2. (0 * M + u) % M = u
        BY <3>1, Quotient
      <3>. QED
        BY <3>1, <3>2
    <2>9. Unsigned(u, bits) = Unsigned(v, bits)
      BY <2>2, <2>8 DEF Unsigned
    <2>10. Signed(u, bits) = Signed(v, bits)
      BY <2>9, Zenon DEF Signed
    <2>. QED
      BY <1>7, <2>1, <2>7, <2>8, <2>10, Zenon
  <1>. QED
    BY <1>9, <1>10

\* The rows of the k-th section of a stream.
SectionIn(sec, src, b, k, bits) ==
    /\ sec \in Seq(NumbersOf("INTEGER")) /\ Len(sec) = Len(src)
    /\ \A i \in 1..Len(src) : sec[i] = Signed(Cutout(src[i], b[k - 1], b[k] - b[k - 1], bits), NarrowBits)

LEMMA SectionIs ==
    ASSUME NEW plan, NEW b, NEW m, NEW bits, Adjacent(plan, b, m, bits), NEW k \in 1..m,
           NEW src \in Seq(Int)
    PROVE  SectionIn(Section(src, plan[k], bits), src, b, k, bits)
  <1>1. PICK n \in Nat : n = Len(src) /\ DOMAIN src = 1..n
    OBVIOUS
  <1>2. PICK sec : sec = Section(src, plan[k], bits)
    OBVIOUS
  <1>3. PICK a \in Nat, w \in 1..NarrowBits : /\ a = b[k - 1] /\ w = b[k] - b[k - 1] /\ plan[k].first = a
                                              /\ plan[k].last - plan[k].first + 1 = w
    <2>1. /\ plan[k].first = b[k - 1] /\ plan[k].last = b[k] - 1 /\ b[k - 1] < b[k] /\ b[k] - b[k - 1] <= NarrowBits
          /\ b \in [0..m -> Nat] /\ m \in Nat \ {0}
      BY DEF Adjacent
    <2>2. b[k] \in Nat /\ b[k - 1] \in Nat
      BY <2>1
    <2>. QED
      BY <2>1, <2>2, WidthsAre
  <1>4. sec = [i \in 1..n |-> Signed(Cutout(src[i], a, w, bits), NarrowBits)]
    BY <1>1, <1>2, <1>3, Zenon DEF Section, Cutout, RowsOf
  <1>5. \A i \in 1..n : Signed(Cutout(src[i], a, w, bits), NarrowBits) \in NumbersOf("INTEGER")
    <2>1. bits \in Nat \ {0}
      BY DEF Adjacent
    <2>2. \A i \in 1..n : src[i] \in Int
      BY <1>1
    <2>. QED
      BY <2>1, <2>2, CutoutIs, Zenon
  <1>6. sec \in Seq(NumbersOf("INTEGER")) /\ Len(sec) = n
    BY <1>4, <1>5
  <1>. QED
    BY <1>1, <1>2, <1>3, <1>4, <1>6 DEF SectionIn

RowsOfParts(parts, m, n) == \A i \in 1..n : RowOfParts(parts, m, i)

JoinedAs(values, parts, plan, b, m, bits, n) ==
    /\ values \in Seq(Int) /\ Len(values) = n
    /\ \A i \in 1..n, v \in Numbers(bits) : Joins(parts, plan, b, m, bits, i, v) => values[i] = v

LEMMA JoinedIs ==
    ASSUME NEW plan, NEW b, NEW m, NEW bits, Adjacent(plan, b, m, bits), NEW parts, NEW n \in Nat, RowsOfParts(parts, m, n)
    PROVE  JoinedAs(Joined(parts, plan, n, bits), parts, plan, b, m, bits, n)
  <1>1. PICK v : v = Joined(parts, plan, n, bits)
    OBVIOUS
  <1>2. v = [i \in 1..n |-> Signed(SumOf(parts, plan, i), bits)]
    BY <1>1, Zenon DEF Joined, SumOf, BitsOf
  <1>3. ASSUME NEW i \in 1..n
        PROVE  /\ v[i] \in Int
               /\ \A x \in Numbers(bits) : Joins(parts, plan, b, m, bits, i, x) => v[i] = x
    <2>1. RowOfParts(parts, m, i)
      BY DEF RowsOfParts
    <2>2. v[i] = Signed(SumOf(parts, plan, i), bits)
      BY <1>2
    <2>. QED
      BY <2>1, <2>2, JoinedRow, Zenon
  <1>4. v \in Seq(Int) /\ Len(v) = n
    <2>1. \A i \in 1..n : v[i] \in Int
      BY <1>3, Zenon
    <2>. QED
      BY <1>2, <2>1
  <1>. QED
    BY <1>1, <1>3, <1>4, Zenon DEF JoinedAs

\* An encoded stream of sections, each kept.  The nulls are passed on by BP64 only.
NullsPassed(e, nulls) == IF e.scheme = "BP64" THEN nulls ELSE {}

SectionsOf(d, e, type, src, nulls, plan, b, m) ==
    /\ Adjacent(plan, b, m, Bits(type))
    /\ e.scheme \in {"BP64", "SUB_INT_SPLIT"} /\ e.sections = plan
    /\ e = [scheme |-> e.scheme, sections |-> plan, parts |-> e.parts]
    /\ e.parts \in Seq(Encoded[d - 1]) /\ Len(e.parts) = m
    /\ \A k \in 1..m : Kept(d - 1, e.parts[k], "INTEGER", Section(src, plan[k], Bits(type)), NullsPassed(e, nulls))

RowsOfSection(values, src, nulls, b, k, bits) ==
    /\ values \in Seq(Int) /\ Len(values) = Len(src)
    /\ \A i \in 1..Len(src) : i \notin nulls =>
          values[i] = Signed(Cutout(src[i], b[k - 1], b[k] - b[k - 1], bits), NarrowBits)

PickedOfSection(values, src, nulls, b, k, bits, positions) ==
    /\ values \in Seq(Int) /\ Len(values) = Len(positions)
    /\ \A i \in 1..Len(positions) : positions[i] + 1 \notin nulls =>
          values[i] = Signed(Cutout(src[positions[i] + 1], b[k - 1], b[k] - b[k - 1], bits), NarrowBits)

LEMMA SectionRead ==
    ASSUME NEW plan, NEW b, NEW m, NEW bits, Adjacent(plan, b, m, bits), NEW k \in 1..m, NEW src \in Seq(Int), NEW nulls,
           NEW values, ReadsAs(values, "INTEGER", Section(src, plan[k], bits), nulls)
    PROVE  RowsOfSection(values, src, nulls, b, k, bits)
  <1>1. /\ Len(Section(src, plan[k], bits)) = Len(src)
        /\ \A i \in 1..Len(src) : Section(src, plan[k], bits)[i]
                                       = Signed(Cutout(src[i], b[k - 1], b[k] - b[k - 1], bits), NarrowBits)
    <2>1. SectionIn(Section(src, plan[k], bits), src, b, k, bits)
      BY SectionIs, Zenon
    <2>. QED
      BY <2>1, Zenon DEF SectionIn
  <1>2. /\ values \in Seq(Int) /\ Len(values) = Len(src)
        /\ \A i \in 1..Len(src) : i \notin nulls => values[i] = Section(src, plan[k], bits)[i]
    <2>1. "INTEGER" # "DOUBLE"
      OBVIOUS
    <2>. QED
      BY <1>1, <2>1, Zenon DEF ReadsAs, Agrees, Exact
  <1>. QED
    BY <1>1, <1>2, Zenon DEF RowsOfSection

LEMMA SectionPicked ==
    ASSUME NEW plan, NEW b, NEW m, NEW bits, Adjacent(plan, b, m, bits), NEW k \in 1..m, NEW src \in Seq(Int), NEW nulls,
           NEW positions, IsLookup(positions, Len(src)),
           NEW values, PicksAs(values, Section(src, plan[k], bits), nulls, positions)
    PROVE  PickedOfSection(values, src, nulls, b, k, bits, positions)
  <1>1. \A i \in 1..Len(src) : Section(src, plan[k], bits)[i]
                                       = Signed(Cutout(src[i], b[k - 1], b[k] - b[k - 1], bits), NarrowBits)
    <2>1. SectionIn(Section(src, plan[k], bits), src, b, k, bits)
      BY SectionIs, Zenon
    <2>. QED
      BY <2>1, Zenon DEF SectionIn
  <1>2. \A i \in 1..Len(positions) : positions[i] + 1 \in 1..Len(src)
    BY DEF IsLookup
  <1>. QED
    BY <1>1, <1>2, Zenon DEF PicksAs, PickedOfSection

LEMMA SectionsKept ==
    ASSUME NEW d \in 1..CascadeDepth, NEW type, NEW src, NEW nulls, NEW force,
           IsStream(d, type, src, nulls, force), type # "DOUBLE",
           NEW e, NEW plan, NEW b, NEW m, SectionsOf(d, e, type, src, nulls, plan, b, m)
    PROVE  Kept(d, e, type, src, nulls)
  <1>1. /\ type \in Types /\ src \in Seq(Int) /\ nulls \in SUBSET Nat
        /\ \A i \in 1..Len(src) : src[i] \in NumbersOf(type) /\ src[i] \in Int
    BY StreamIs, Zenon
  <1>2. PICK n \in Nat : n = Len(src) /\ DOMAIN src = 1..n
    BY <1>1
  <1>3. PICK bits : bits = Bits(type)
    OBVIOUS
  <1>4. Adjacent(plan, b, m, bits) /\ m \in Nat \ {0}
    BY <1>3, Zenon DEF SectionsOf, Adjacent
  <1>5. /\ e.scheme \in {"BP64", "SUB_INT_SPLIT"} /\ e.sections = plan
        /\ e = [scheme |-> e.scheme, sections |-> plan, parts |-> e.parts]
        /\ e.parts \in Seq(Encoded[d - 1]) /\ Len(e.parts) = m /\ DOMAIN e.parts = 1..m
    <2>1. /\ e.scheme \in {"BP64", "SUB_INT_SPLIT"} /\ e.sections = plan
          /\ e = [scheme |-> e.scheme, sections |-> plan, parts |-> e.parts]
          /\ e.parts \in Seq(Encoded[d - 1]) /\ Len(e.parts) = m
      BY Zenon DEF SectionsOf
    <2>. QED
      BY <2>1
  <1>6. PICK sub : sub = NullsPassed(e, nulls) /\ (sub = nulls \/ sub = {})
    BY DEF NullsPassed
  <1>7. ASSUME NEW k \in 1..m
        PROVE  /\ \A j \in Int : ReadsAs(Decode[d - 1][e.parts[k]][Request("INTEGER", sub, n, j)], "INTEGER",
                                         Section(src, plan[k], bits), sub)
               /\ \A j \in Int, positions \in Seq(Nat) : IsLookup(positions, n) =>
                     PicksAs(Gather[d - 1][e.parts[k]][Lookup("INTEGER", sub, n, j, positions)],
                             Section(src, plan[k], bits), sub, positions)
    <2>1. Kept(d - 1, e.parts[k], "INTEGER", Section(src, plan[k], bits), sub)
      BY <1>3, <1>6, Zenon DEF SectionsOf
    <2>2. Len(Section(src, plan[k], bits)) = n
      <3>1. SectionIn(Section(src, plan[k], bits), src, b, k, bits)
        BY <1>1, <1>4, SectionIs, Zenon
      <3>. QED
        BY <1>2, <3>1, Zenon DEF SectionIn
    <2>3. "INTEGER" # "DOUBLE"
      OBVIOUS
    <2>. QED
      BY <2>1, <2>2, <2>3, Zenon DEF Kept, Reads, Picks
  <1>8. e \in Formats(Encoded[d - 1])
    <2>1. plan \in Seq([first : Nat, last : Nat])
      BY <1>4 DEF Adjacent
    <2>. QED
      BY <1>5, <2>1 DEF Formats
  <1>9. \A i \in 1..n : src[i] \in Numbers(bits)
    BY <1>1, <1>2, <1>3, NotNegZero
  <1>10. ASSUME NEW j \in Int
         PROVE  ReadsAs(DecodedBy(Decode[d - 1], e, Request(type, nulls, Len(src), j)), type, src, nulls)
    <2>1. PICK r : r = Request(type, nulls, n, j)
      OBVIOUS
    <2>2. r.count = n /\ r.type = type /\ r.junk = j /\ r.nulls = nulls
      BY <2>1 DEF Request
    <2>3. PICK parts : parts = [k \in 1..m |-> Decode[d - 1][e.parts[k]][Request("INTEGER", sub, n, j)]]
      OBVIOUS
    <2>4. PICK v : v = Joined(parts, plan, n, bits)
      OBVIOUS
    <2>5. DecodedBy(Decode[d - 1], e, r) = v
      <3>1. DecodedBy(Decode[d - 1], e, r) = SectionsDecode(Decode[d - 1], e, r)
        BY <1>5 DEF DecodedBy
      <3>2. NullsOfSections(e, r) = sub
        BY <1>6, <2>2, Zenon DEF NullsOfSections, NullsPassed
      <3>3. SectionsDecode(Decode[d - 1], e, r) = v
        BY <1>3, <1>5, <2>2, <2>3, <2>4, <3>2, Zenon DEF SectionsDecode
      <3>. QED
        BY <3>1, <3>3
    <2>6. ASSUME NEW k \in 1..m
          PROVE  /\ parts[k] \in Seq(Int) /\ Len(parts[k]) = n
                 /\ \A i \in 1..n : i \notin sub =>
                       parts[k][i] = Signed(Cutout(src[i], b[k - 1], b[k] - b[k - 1], bits), NarrowBits)
      <3>1. ReadsAs(parts[k], "INTEGER", Section(src, plan[k], bits), sub)
        BY <1>7, <2>3, Zenon
      <3>2. RowsOfSection(parts[k], src, sub, b, k, bits)
        BY <1>1, <1>4, <3>1, SectionRead, Zenon
      <3>. QED
        BY <1>2, <3>2, Zenon DEF RowsOfSection
    <2>7. RowsOfParts(parts, m, n)
      <3>1. ASSUME NEW k \in 1..m, NEW i \in 1..n PROVE parts[k][i] \in Int
        BY <2>6
      <3>. QED
        BY <3>1, Zenon DEF RowsOfParts, RowOfParts
    <2>8. JoinedAs(v, parts, plan, b, m, bits, n)
      BY <1>4, <2>4, <2>7, JoinedIs, Zenon
    <2>9. ASSUME NEW i \in 1..n, i \notin nulls PROVE v[i] = src[i]
      <3>1. i \notin sub
        BY <1>6, <2>9, Zenon
      <3>2. Joins(parts, plan, b, m, bits, i, src[i])
        BY <2>6, <3>1, Zenon DEF Joins
      <3>. QED
        BY <1>9, <2>8, <3>2, Zenon DEF JoinedAs
    <2>10. ReadsAs(v, type, src, nulls)
      <3>1. v \in Seq(Int) /\ Len(v) = n
        BY <2>8, Zenon DEF JoinedAs
      <3>2. ASSUME NEW i \in 1..n, i \notin nulls PROVE Agrees(v[i], src[i], Exact(type, src, nulls))
        BY <1>1, <1>2, <2>9, <3>2, SelfAgrees, Zenon
      <3>. QED
        BY <1>2, <3>1, <3>2, Zenon DEF ReadsAs
    <2>. QED
      BY <1>2, <2>1, <2>5, <2>10, Zenon
  <1>11. ASSUME type # "DOUBLE", NEW j \in Int, NEW positions \in Seq(Nat), IsLookup(positions, Len(src))
         PROVE  PicksAs(GatheredBy(d, Gather[d - 1], e, Lookup(type, nulls, Len(src), j, positions)), src, nulls, positions)
    <2>1. PICK q : q = Lookup(type, nulls, n, j, positions)
      OBVIOUS
    <2>2. q.positions = positions /\ q.type = type /\ q.junk = j /\ q.nulls = nulls /\ q.count = n
      BY <2>1 DEF Lookup
    <2>3. PICK w \in Nat : w = Len(positions) /\ DOMAIN positions = 1..w /\ \A k \in 1..w : positions[k] + 1 \in 1..n
      BY <1>2, <1>11 DEF IsLookup
    <2>4. PICK parts : parts = [k \in 1..m |-> Gather[d - 1][e.parts[k]][Lookup("INTEGER", sub, n, j, positions)]]
      OBVIOUS
    <2>5. PICK v : v = Joined(parts, plan, w, bits)
      OBVIOUS
    <2>6. GatheredBy(d, Gather[d - 1], e, q) = v
      <3>1. GatheredBy(d, Gather[d - 1], e, q) = SectionsGather(Gather[d - 1], e, q)
        BY <1>5 DEF GatheredBy
      <3>2. NullsOfSections(e, q) = sub
        BY <1>6, <2>2, Zenon DEF NullsOfSections, NullsPassed
      <3>3. SectionsGather(Gather[d - 1], e, q) = v
        BY <1>3, <1>5, <2>2, <2>3, <2>4, <2>5, <3>2, Zenon DEF SectionsGather
      <3>. QED
        BY <3>1, <3>3
    <2>7. ASSUME NEW k \in 1..m
          PROVE  /\ parts[k] \in Seq(Int) /\ Len(parts[k]) = w
                 /\ \A i \in 1..w : positions[i] + 1 \notin sub =>
                       parts[k][i] = Signed(Cutout(src[positions[i] + 1], b[k - 1], b[k] - b[k - 1], bits), NarrowBits)
      <3>1. PicksAs(parts[k], Section(src, plan[k], bits), sub, positions)
        BY <1>2, <1>7, <1>11, <2>4, Zenon
      <3>2. PickedOfSection(parts[k], src, sub, b, k, bits, positions)
        BY <1>1, <1>4, <1>11, <3>1, SectionPicked, Zenon
      <3>. QED
        BY <2>3, <3>2, Zenon DEF PickedOfSection
    <2>8. RowsOfParts(parts, m, w)
      <3>1. ASSUME NEW k \in 1..m, NEW i \in 1..w PROVE parts[k][i] \in Int
        BY <2>7
      <3>. QED
        BY <3>1, Zenon DEF RowsOfParts, RowOfParts
    <2>9. JoinedAs(v, parts, plan, b, m, bits, w)
      BY <1>4, <2>5, <2>8, JoinedIs, Zenon
    <2>10. ASSUME NEW i \in 1..w, positions[i] + 1 \notin nulls PROVE v[i] = src[positions[i] + 1]
      <3>1. positions[i] + 1 \notin sub
        BY <1>6, <2>10, Zenon
      <3>2. Joins(parts, plan, b, m, bits, i, src[positions[i] + 1])
        BY <2>7, <3>1, Zenon DEF Joins
      <3>3. src[positions[i] + 1] \in Numbers(bits)
        BY <1>9, <2>3, Zenon
      <3>. QED
        BY <2>9, <3>2, <3>3, Zenon DEF JoinedAs
    <2>11. PicksAs(v, src, nulls, positions)
      BY <2>3, <2>9, <2>10, Zenon DEF PicksAs, JoinedAs
    <2>. QED
      BY <1>2, <2>1, <2>6, <2>11, Zenon
  <1>12. KeptDeep(d, e, type, src, nulls)
    BY <1>8, <1>10, <1>11, Zenon DEF KeptDeep
  <1>. QED
    BY <1>12, KeptDeepIs, Zenon

IsPlan(plan, bits) == \E b, m : Adjacent(plan, b, m, bits)

LEMMA HalvesAre == IsPlan(Halves, Bits("BIGINT"))
  <1>1. PICK w \in Nat \ {0} : w = NarrowBits
    BY WidthsAre
  <1>2. PICK h : h = Halves
    OBVIOUS
  <1>3. /\ h \in Seq([first : Nat, last : Nat]) /\ Len(h) = 2
        /\ h[1].first = 0 /\ h[1].last = w - 1 /\ h[2].first = w /\ h[2].last = 2 * w - 1
    BY <1>1, <1>2 DEF Halves
  <1>4. PICK b : b = [k \in 0..2 |-> IF k = 0 THEN 0 ELSE IF k = 1 THEN w ELSE 2 * w]
    OBVIOUS
  <1>5. b \in [0..2 -> Nat] /\ b[0] = 0 /\ b[1] = w /\ b[2] = 2 * w
    BY <1>4
  <1>6. Bits("BIGINT") = 2 * w /\ 2 * w \in Nat \ {0} /\ 2 \in Nat \ {0}
    BY <1>1 DEF Bits
  <1>7. \A k \in 1..2 : /\ h[k].first = b[k - 1] /\ h[k].last = b[k] - 1
                        /\ b[k - 1] < b[k] /\ b[k] - b[k - 1] <= w
    <2>1. 1..2 = {1, 2}
      OBVIOUS
    <2>. QED
      BY <1>3, <1>5, <2>1
  <1>8. Adjacent(h, b, 2, 2 * w)
    BY <1>1, <1>3, <1>5, <1>6, <1>7 DEF Adjacent
  <1>. QED
    BY <1>2, <1>6, <1>8, Zenon DEF IsPlan

\* The borders of a plan, in order.
BordersAre(list, c, bits) ==
    /\ IsList(list, c \cup {0, bits})
    /\ \A i \in 1..Cardinality(c \cup {0, bits}), j \in 1..Cardinality(c \cup {0, bits}) : i < j => list[i] < list[j]

LEMMA BordersRanked ==
    ASSUME NEW bits \in Nat \ {0}, NEW c \in SUBSET (1..(bits - 1))
    PROVE  BordersAre(Ranked(c \cup {0, bits}, <), c, bits)
  <1>1. PICK s : s = c \cup {0, bits}
    OBVIOUS
  <1>2. s \subseteq Int
    BY <1>1
  <1>3. IsFiniteSet(s)
    <2>1. s \subseteq 0..bits
      BY <1>1
    <2>2. IsFiniteSet(0..bits)
      BY FS_Interval
    <2>. QED
      BY <2>1, <2>2, FS_Subset
  <1>. QED
    BY <1>1, <1>2, <1>3, RankedRows, Zenon DEF BordersAre

PlanOf(list, len) == [k \in 1..(len - 1) |-> [first |-> list[k], last |-> list[k + 1] - 1]]

LEMMA BordersTile ==
    ASSUME NEW bits \in Nat \ {0}, NEW c \in SUBSET (1..(bits - 1)), NEW list, BordersAre(list, c, bits),
           NEW plan, plan = PlanOf(list, Len(list)), \A k \in DOMAIN plan : plan[k].last - plan[k].first < NarrowBits
    PROVE  IsPlan(plan, bits)
  <1>1. PICK s : s = c \cup {0, bits}
    OBVIOUS
  <1>2. PICK n \in Nat : n = Cardinality(s) /\ list \in [1..n -> s] /\ \A a \in s : \E k \in 1..n : list[k] = a
    BY <1>1 DEF BordersAre, IsList
  <1>3. \A i \in 1..n, j \in 1..n : i < j => list[i] < list[j]
    BY <1>1, <1>2 DEF BordersAre
  <1>4. \A k \in 1..n : list[k] \in 0..bits
    <2>1. \A a \in s : a \in 0..bits
      BY <1>1
    <2>2. \A k \in 1..n : list[k] \in s
      BY <1>2, Zenon
    <2>. QED
      BY <2>1, <2>2, Zenon
  <1>5. PICK x \in 1..n, y \in 1..n : list[x] = 0 /\ list[y] = bits
    <2>1. 0 \in s /\ bits \in s
      BY <1>1
    <2>. QED
      BY <1>2, <2>1, Zenon
  <1>6. x = 1
    <2>1. ~(1 < x)
      <3>1. 1 \in 1..n
        OBVIOUS
      <3>. QED
        BY <1>3, <1>4, <1>5, <3>1
    <2>. QED
      BY <2>1
  <1>7. y = n
    <2>1. ~(y < n)
      <3>1. n \in 1..n
        OBVIOUS
      <3>. QED
        BY <1>3, <1>4, <1>5, <3>1
    <2>. QED
      BY <2>1
  <1>8. PICK m \in Nat \ {0} : n = m + 1
    <2>1. n # 1
      BY <1>5, <1>6, <1>7
    <2>2. n - 1 \in Nat \ {0} /\ n = (n - 1) + 1
      BY <1>2, <1>5, <2>1
    <2>. QED
      BY <2>2
  <1>9. Len(list) = n
    BY <1>2
  <1>10. plan = [k \in 1..m |-> [first |-> list[k], last |-> list[k + 1] - 1]]
    <2>1. n - 1 = m
      BY <1>8
    <2>. QED
      BY <1>9, <2>1, Zenon DEF PlanOf
  <1>11. PICK b : b = [k \in 0..m |-> list[k + 1]]
    OBVIOUS
  <1>12. ASSUME NEW k \in 0..m PROVE b[k] \in Nat /\ b[k] = list[k + 1] /\ k + 1 \in 1..n
    <2>1. k + 1 \in 1..n
      BY <1>8
    <2>. QED
      BY <1>4, <1>11, <2>1
  <1>13. b \in [0..m -> Nat] /\ b[0] = 0 /\ b[m] = bits
    <2>1. b \in [0..m -> Nat]
      BY <1>11, <1>12, Zenon
    <2>2. 0 \in 0..m /\ m \in 0..m /\ 0 + 1 = 1
      OBVIOUS
    <2>3. b[0] = list[1] /\ b[m] = list[n]
      BY <1>8, <1>12, <2>2
    <2>. QED
      BY <1>5, <1>6, <1>7, <2>1, <2>3
  <1>14. ASSUME NEW k \in 1..m
         PROVE  /\ plan[k] = [first |-> b[k - 1], last |-> b[k] - 1] /\ b[k - 1] < b[k] /\ b[k] - b[k - 1] <= NarrowBits
                /\ b[k - 1] \in Nat /\ b[k] \in Nat
    <2>1. k - 1 \in 0..m /\ k \in 0..m /\ (k - 1) + 1 = k /\ k \in 1..n /\ k + 1 \in 1..n /\ k < k + 1
      BY <1>8
    <2>2. b[k - 1] = list[k] /\ b[k] = list[k + 1] /\ b[k - 1] \in Nat /\ b[k] \in Nat
      BY <1>12, <2>1
    <2>3. plan[k] = [first |-> b[k - 1], last |-> b[k] - 1]
      BY <1>10, <2>2
    <2>4. plan[k].last - plan[k].first < NarrowBits
      BY <1>10
    <2>5. (b[k] - 1) - b[k - 1] < NarrowBits
      BY <2>3, <2>4
    <2>6. b[k - 1] < b[k]
      BY <1>3, <2>1, <2>2
    <2>. QED
      BY <2>2, <2>3, <2>5, <2>6, WidthsAre
  <1>15. plan \in Seq([first : Nat, last : Nat]) /\ Len(plan) = m
    <2>1. ASSUME NEW k \in 1..m PROVE plan[k] \in [first : Nat, last : Nat]
      <3>1. b[k] - 1 \in Nat /\ b[k - 1] \in Nat
        <4>1. PICK lo \in Nat, hi \in Nat : lo = b[k - 1] /\ hi = b[k] /\ lo < hi
          BY <1>14
        <4>. QED
          BY <4>1
      <3>2. plan[k] = [first |-> b[k - 1], last |-> b[k] - 1]
        BY <1>14
      <3>. QED
        BY <3>1, <3>2
    <2>. QED
      BY <1>10, <2>1
  <1>16. Adjacent(plan, b, m, bits)
    BY <1>13, <1>14, <1>15 DEF Adjacent
  <1>. QED
    BY <1>16, Zenon DEF IsPlan

LEMMA PlansAre ==
    ASSUME NEW bits \in Nat \ {0}, NEW plan \in Plans(bits)
    PROVE  IsPlan(plan, bits)
  <1>1. PICK c \in SUBSET (1..(bits - 1)) : /\ plan = PlanOf(Ranked(c \cup {0, bits}, <), Len(Ranked(c \cup {0, bits}, <)))
                                            /\ \A k \in DOMAIN plan : plan[k].last - plan[k].first < NarrowBits
    BY Zenon DEF Plans, PlanOf
  <1>2. PICK list : list = Ranked(c \cup {0, bits}, <)
    OBVIOUS
  <1>3. BordersAre(list, c, bits) /\ plan = PlanOf(list, Len(list))
    BY <1>1, <1>2, BordersRanked, Zenon
  <1>. QED
    BY <1>1, <1>3, BordersTile, Zenon

LEMMA SectionKept ==
    ASSUME NEW d \in 1..CascadeDepth, AllKept(d - 1), NEW type, NEW src, NEW nulls, NEW force,
           IsStream(d, type, src, nulls, force), type # "DOUBLE", NEW junk \in Int,
           NEW plan, NEW b, NEW m, Adjacent(plan, b, m, Bits(type)), NEW k \in 1..m, NEW sub, sub = nulls \/ sub = {},
           NEW with, with = AutoScheme \/ with = SectionScheme(Section(src, plan[k], Bits(type))),
           NEW x \in Encodings[d - 1][Stream("INTEGER", Section(src, plan[k], Bits(type)), sub, with, junk)]
    PROVE  Kept(d - 1, x, "INTEGER", Section(src, plan[k], Bits(type)), sub)
  <1>1. src \in Seq(Int) /\ nulls \subseteq 1..Len(src)
    BY StreamIs, Zenon
  <1>2. PICK sec : sec = Section(src, plan[k], Bits(type))
    OBVIOUS
  <1>3. sec \in Seq(NumbersOf("INTEGER")) /\ Len(sec) = Len(src)
    <2>1. SectionIn(Section(src, plan[k], Bits(type)), src, b, k, Bits(type))
      BY <1>1, SectionIs, Zenon
    <2>. QED
      BY <1>2, <2>1, Zenon DEF SectionIn
  <1>4. IsStream(d - 1, "INTEGER", sec, sub, with)
    <2>1. Len(src) < 2^(NarrowBits - 1)
      BY Zenon DEF IsStream
    <2>2. "INTEGER" \in Types /\ d - 1 # CascadeDepth
      BY DepthIs DEF Types
    <2>3. sub \subseteq 1..Len(sec) /\ Len(sec) < 2^(NarrowBits - 1)
      <3>1. sub \subseteq 1..Len(src)
        BY <1>1, Zenon
      <3>. QED
        BY <1>3, <2>1, <3>1
    <2>4. with = AutoScheme \/ (with = "ONE_VALUE" /\ Cardinality(Keys(sec)) = 1)
      BY <1>2, Zenon DEF SectionScheme
    <2>. QED
      BY <1>3, <2>2, <2>3, <2>4, Zenon DEF IsStream
  <1>5. d - 1 \in Nat /\ x \in Encodings[d - 1][Stream("INTEGER", sec, sub, with, junk)]
    BY <1>2, DepthIs
  <1>6. Kept(d - 1, x, "INTEGER", sec, sub)
    BY <1>4, <1>5, SubKept, Zenon
  <1>. QED
    BY <1>2, <1>6

LEMMA Bp64Kept ==
    ASSUME NEW d \in 1..CascadeDepth, AllKept(d - 1), NEW src, NEW nulls, NEW force,
           IsStream(d, "BIGINT", src, nulls, force), NEW junk \in Int,
           NEW x \in Encodings[d - 1][Stream("INTEGER", Section(src, Halves[1], Bits("BIGINT")), nulls, AutoScheme, junk)],
           NEW y \in Encodings[d - 1][Stream("INTEGER", Section(src, Halves[2], Bits("BIGINT")), nulls, AutoScheme, junk)]
    PROVE  Kept(d, [scheme |-> "BP64", sections |-> Halves, parts |-> <<x, y>>], "BIGINT", src, nulls)
  <1>1. PICK plan : plan = Halves
    OBVIOUS
  <1>2. PICK b, m : Adjacent(plan, b, m, Bits("BIGINT"))
    BY <1>1, HalvesAre, Zenon DEF IsPlan
  <1>3. m = 2
    <2>1. Len(plan) = 2
      BY <1>1 DEF Halves
    <2>2. Len(plan) = m
      BY <1>2 DEF Adjacent
    <2>. QED
      BY <2>1, <2>2
  <1>4. PICK parts : parts = <<x, y>>
    OBVIOUS
  <1>5. PICK e : e = [scheme |-> "BP64", sections |-> plan, parts |-> parts]
    OBVIOUS
  <1>6. 1 \in 1..m /\ 2 \in 1..m
    BY <1>3
  <1>7. "BIGINT" # "DOUBLE"
    OBVIOUS
  <1>8. PICK p : p = Section(src, plan[1], Bits("BIGINT"))
    OBVIOUS
  <1>9. PICK q : q = Section(src, plan[2], Bits("BIGINT"))
    OBVIOUS
  <1>10. Kept(d - 1, x, "INTEGER", p, nulls)
    <2>1. x \in Encodings[d - 1][Stream("INTEGER", Section(src, plan[1], Bits("BIGINT")), nulls, AutoScheme, junk)]
      BY <1>1, Zenon
    <2>2. Kept(d - 1, x, "INTEGER", Section(src, plan[1], Bits("BIGINT")), nulls)
      BY <1>2, <1>6, <1>7, <2>1, SectionKept, Zenon
    <2>. QED
      BY <1>8, <2>2
  <1>11. Kept(d - 1, y, "INTEGER", q, nulls)
    <2>1. y \in Encodings[d - 1][Stream("INTEGER", Section(src, plan[2], Bits("BIGINT")), nulls, AutoScheme, junk)]
      BY <1>1, Zenon
    <2>2. Kept(d - 1, y, "INTEGER", Section(src, plan[2], Bits("BIGINT")), nulls)
      BY <1>2, <1>6, <1>7, <2>1, SectionKept, Zenon
    <2>. QED
      BY <1>9, <2>2
  <1>12. x \in Encoded[d - 1] /\ y \in Encoded[d - 1]
    BY <1>10, <1>11, Zenon DEF Kept
  <1>13. e.scheme = "BP64" /\ e.sections = plan /\ e.parts = parts
    BY <1>5
  <1>14. SectionsOf(d, e, "BIGINT", src, nulls, plan, b, m)
    <2>1. parts \in Seq(Encoded[d - 1]) /\ Len(parts) = m /\ parts[1] = x /\ parts[2] = y
      <3>1. PICK subs : subs = Encoded[d - 1]
        OBVIOUS
      <3>2. x \in subs /\ y \in subs
        BY <1>12, <3>1
      <3>3. parts \in Seq(subs) /\ Len(parts) = 2 /\ parts[1] = x /\ parts[2] = y
        BY <1>4, <3>2
      <3>. QED
        BY <1>3, <3>1, <3>3
    <2>2. ASSUME NEW k \in 1..m
          PROVE  Kept(d - 1, parts[k], "INTEGER", Section(src, plan[k], Bits("BIGINT")), NullsPassed(e, nulls))
      <3>1. NullsPassed(e, nulls) = nulls
        BY <1>13 DEF NullsPassed
      <3>2. k = 1 \/ k = 2
        BY <1>3
      <3>. QED
        BY <1>8, <1>9, <1>10, <1>11, <2>1, <3>1, <3>2, Zenon
    <2>. QED
      BY <1>2, <1>5, <1>13, <2>1, <2>2 DEF SectionsOf
  <1>15. Kept(d, e, "BIGINT", src, nulls)
    BY <1>7, <1>14, SectionsKept, Zenon
  <1>. QED
    BY <1>1, <1>4, <1>5, <1>15, Zenon

LEMMA SplitKept ==
    ASSUME NEW d \in 1..CascadeDepth, AllKept(d - 1), NEW type, NEW src, NEW nulls, NEW force,
           IsStream(d, type, src, nulls, force), type # "DOUBLE", NEW junk \in Int,
           NEW plan \in Plans(Bits(type)),
           NEW parts \in PartsOf(Encodings[d - 1], Stream(type, src, nulls, force, junk), plan)
    PROVE  Kept(d, [scheme |-> "SUB_INT_SPLIT", sections |-> plan, parts |-> parts], type, src, nulls)
  <1>1. PICK bits \in Nat \ {0} : bits = Bits(type)
    BY WidthsAre DEF Bits
  <1>2. PICK b, m : Adjacent(plan, b, m, bits)
    BY <1>1, PlansAre, Zenon DEF IsPlan
  <1>3. m \in Nat \ {0} /\ DOMAIN plan = 1..m
    BY <1>2 DEF Adjacent
  <1>4. PICK s : s = Stream(type, src, nulls, force, junk)
    OBVIOUS
  <1>5. s.type = type /\ s.src = src /\ s.junk = junk
    BY <1>4 DEF Stream
  <1>6. PICK of : of = [k \in 1..m |-> Encodings[d - 1][Stream("INTEGER", Section(src, plan[k], bits), {},
                                                       SectionScheme(Section(src, plan[k], bits)), junk)]]
    OBVIOUS
  <1>7. parts \in {f \in [1..m -> UNION {of[k] : k \in 1..m}] : \A k \in 1..m : f[k] \in of[k]}
    <2>1. parts \in PartsOf(Encodings[d - 1], s, plan)
      BY <1>4
    <2>2. of = [k \in DOMAIN plan |-> Encodings[d - 1][Stream("INTEGER", Section(s.src, plan[k], Bits(s.type)), {},
                                          SectionScheme(Section(s.src, plan[k], Bits(s.type))), s.junk)]]
      BY <1>1, <1>3, <1>5, <1>6, Zenon
    <2>3. parts \in {f \in [DOMAIN plan -> UNION {of[k] : k \in DOMAIN plan}] : \A k \in DOMAIN plan : f[k] \in of[k]}
      BY <2>1, <2>2 DEF PartsOf
    <2>. QED
      BY <1>3, <2>3, Zenon
  <1>8. DOMAIN parts = 1..m /\ \A k \in 1..m : parts[k] \in of[k]
    BY <1>7
  <1>9. PICK e : e = [scheme |-> "SUB_INT_SPLIT", sections |-> plan, parts |-> parts]
    OBVIOUS
  <1>10. e.scheme = "SUB_INT_SPLIT" /\ e.sections = plan /\ e.parts = parts
    BY <1>9
  <1>11. ASSUME NEW k \in 1..m
         PROVE  Kept(d - 1, parts[k], "INTEGER", Section(src, plan[k], bits), {})
    <2>1. parts[k] \in Encodings[d - 1][Stream("INTEGER", Section(src, plan[k], bits), {},
                                               SectionScheme(Section(src, plan[k], bits)), junk)]
      BY <1>6, <1>8, Zenon
    <2>2. Adjacent(plan, b, m, Bits(type))
      BY <1>1, <1>2, Zenon
    <2>3. parts[k] \in Encodings[d - 1][Stream("INTEGER", Section(src, plan[k], Bits(type)), {},
                                               SectionScheme(Section(src, plan[k], Bits(type))), junk)]
      BY <1>1, <2>1, Zenon
    <2>4. Kept(d - 1, parts[k], "INTEGER", Section(src, plan[k], Bits(type)), {})
      BY <2>2, <2>3, SectionKept, Zenon
    <2>. QED
      BY <1>1, <2>4, Zenon
  <1>12. SectionsOf(d, e, type, src, nulls, plan, b, m)
    <2>1. parts \in Seq(Encoded[d - 1]) /\ Len(parts) = m
      <3>1. \A k \in 1..m : parts[k] \in Encoded[d - 1]
        BY <1>11, Zenon DEF Kept
      <3>2. parts = [k \in 1..m |-> parts[k]]
        BY <1>7, Zenon
      <3>. QED
        BY <1>3, <3>1, <3>2
    <2>2. NullsPassed(e, nulls) = {}
      BY <1>10 DEF NullsPassed
    <2>3. \A k \in 1..m : Kept(d - 1, e.parts[k], "INTEGER", Section(src, plan[k], bits), NullsPassed(e, nulls))
      BY <1>10, <1>11, <2>2, Zenon
    <2>. QED
      BY <1>1, <1>2, <1>9, <1>10, <2>1, <2>3 DEF SectionsOf
  <1>13. Kept(d, e, type, src, nulls)
    BY <1>12, SectionsKept, Zenon
  <1>. QED
    BY <1>9, <1>13, Zenon

---------------------------------------------------------------------------
(* PSEUDODECIMAL *)

LEMMA PowersAre == \A e \in 0..MaxExponent : PowerOfTen[e] \in Nat \ {0}
  <1>1. PICK n \in Nat : n = MaxExponent
    BY WidthsAre
  <1>2. PICK step : step = [p \in (1..n) \X (Nat \ {0}) |-> 10 * p[2]]
    OBVIOUS
  <1>3. step \in [(1..n) \X (Nat \ {0}) -> Nat \ {0}]
    BY <1>2
  <1>4. PICK f \in [0..n -> Nat \ {0}] : FromZero(f, n, 1, step)
    <2>1. 1 \in Nat \ {0}
      OBVIOUS
    <2>2. \E f \in [0..n -> Nat \ {0}] : FromZero(f, n, 1, step)
      BY <1>3, <2>1, RecursionFromZero, Zenon
    <2>. QED
      BY <2>2
  <1>5. f = [e \in 0..MaxExponent |-> IF e = 0 THEN 1 ELSE 10 * f[e - 1]]
    <2>1. PICK h : h = [e \in 0..n |-> IF e = 0 THEN 1 ELSE 10 * f[e - 1]]
      OBVIOUS
    <2>2. ASSUME NEW e \in 0..n PROVE f[e] = h[e]
      <3>1. CASE e = 0
        <4>1. f[0] = 1
          BY <1>4 DEF FromZero
        <4>. QED
          BY <2>1, <3>1, <4>1
      <3>2. CASE e # 0
        <4>1. e \in 1..n /\ e - 1 \in 0..n
          BY <3>2
        <4>2. f[e] = step[<<e, f[e - 1]>>]
          BY <1>4, <4>1 DEF FromZero
        <4>3. f[e - 1] \in Nat \ {0}
          BY <1>4, <4>1
        <4>4. step[<<e, f[e - 1]>>] = 10 * f[e - 1]
          BY <1>2, <4>1, <4>3
        <4>. QED
          BY <2>1, <3>2, <4>2, <4>4
      <3>. QED
        BY <3>1, <3>2
    <2>3. f = h
      BY <1>4, <2>1, <2>2
    <2>. QED
      BY <1>1, <2>1, <2>3, Zenon
  <1>. DEFINE ten == CHOOSE g : g = [e \in 0..MaxExponent |-> IF e = 0 THEN 1 ELSE 10 * g[e - 1]]
  <1>6. ten = [e \in 0..MaxExponent |-> IF e = 0 THEN 1 ELSE 10 * ten[e - 1]]
    BY <1>5, Zenon
  <1>7. PowerOfTen = ten
    BY Zenon DEF PowerOfTen
  <1>. HIDE DEF ten
  <1>8. ten[0] = 1 /\ \A e \in 1..n : ten[e] = 10 * ten[e - 1]
    <2>1. ten = [e \in 0..n |-> IF e = 0 THEN 1 ELSE 10 * ten[e - 1]]
      BY <1>1, <1>6, Zenon
    <2>2. 0 \in 0..n /\ \A e \in 1..n : e \in 0..n /\ e # 0
      OBVIOUS
    <2>. QED
      BY <2>1, <2>2, Zenon
  <1>. DEFINE S == {e \in 0..n : ten[e] \in Nat \ {0}}
  <1>9. 0 \in S
    BY <1>8
  <1>10. ASSUME NEW e \in 0..(n - 1), e \in S PROVE e + 1 \in S
    <2>1. e + 1 \in 1..n /\ (e + 1) - 1 = e /\ e + 1 \in 0..n
      OBVIOUS
    <2>2. ten[e + 1] = 10 * ten[e] /\ ten[e] \in Nat \ {0}
      BY <1>8, <1>10, <2>1
    <2>. QED
      BY <2>1, <2>2
  <1>11. 0..n \subseteq S
    <2>. HIDE DEF S
    <2>. QED
      BY <1>9, <1>10, IntervalInduction
  <1>. QED
    BY <1>1, <1>7, <1>11

LEMMA ExponentIs ==
    ASSUME NEW v \in Int
    PROVE  /\ Exponent(v) \in 0..(MaxExponent + 1)
           /\ Exponent(v) = ExceptionCode => v # 0
           /\ Exponent(v) # ExceptionCode => /\ Scaled(v, Exponent(v)) \in 0..(2^(NarrowBits - 1) - 1)
                                             /\ Converted(Scaled(v, Exponent(v)), Exponent(v)) = v
  <1>1. PICK n \in Nat : n = MaxExponent
    BY WidthsAre
  <1>2. \A e \in 0..n : n - e \in 0..n /\ PowerOfTen[n - e] \in Nat \ {0}
    <2>1. \A e \in 0..n : n - e \in 0..n
      OBVIOUS
    <2>. QED
      BY <1>1, <2>1, PowersAre, Zenon
  <1>3. PICK h \in Nat \ {0} : h = 2^(NarrowBits - 1)
    BY WidthsAre, HalfOf
  <1>4. PICK es \in SUBSET (0..n) : es = {e \in 0..n : Fits(v, e)}
    OBVIOUS
  <1>5. CASE v = NegZero \/ es = {}
    <2>1. Exponent(v) = n + 1 /\ ExceptionCode = n + 1
      BY <1>1, <1>4, <1>5, Zenon DEF Exponent, ExceptionCode
    <2>2. ASSUME v = 0 PROVE FALSE
      <3>1. v # NegZero
        BY <2>2, WidthAssumption, WidthsAre, PowerNext
      <3>2. PICK p \in Nat \ {0} : p = PowerOfTen[n - 0]
        BY <1>2
      <3>3. 0 % p = 0 /\ 0 \div p = 0
        <4>1. (0 * p + 0) % p = 0 /\ (0 * p + 0) \div p = 0
          BY Quotient
        <4>. QED
          BY <4>1
      <3>4. Fits(v, 0)
        BY <1>1, <1>3, <2>2, <3>2, <3>3 DEF Fits, Scaled, DigitBits
      <3>. QED
        BY <1>4, <1>5, <3>1, <3>4
    <2>. QED
      BY <1>1, <2>1, <2>2
  <1>6. CASE v # NegZero /\ es # {}
    <2>1. PICK low : low = Min(es)
      OBVIOUS
    <2>2. low \in es
      <3>1. \E m \in es : \A x \in es : m <= x
        <4>1. es \subseteq Nat
          OBVIOUS
        <4>. QED
          BY <1>6, <4>1, LeastNumber, Zenon
      <3>. QED
        BY <2>1, <3>1, Zenon DEF Min
    <2>3. PICK e \in 0..n : e = low /\ Fits(v, e)
      BY <1>4, <2>2
    <2>4. Exponent(v) = e
      BY <1>1, <1>4, <1>6, <2>1, <2>3, Zenon DEF Exponent
    <2>5. PICK p \in Nat \ {0} : p = PowerOfTen[n - e]
      BY <1>2
    <2>6. PICK q \in Int, x \in 0..(p - 1) : v = q * p + x /\ v \div p = q /\ v % p = x
      <3>1. \E q \in Int : \E x \in 0..(p - 1) : /\ v = q * p + x /\ v \div p = q /\ v % p = x
                                                 /\ v \in Nat => q \in Nat
        BY AnyDivision
      <3>. QED
        BY <3>1, Zenon
    <2>7. x = 0 /\ Scaled(v, e) = q /\ q \in 0..(h - 1)
      BY <1>1, <1>3, <2>3, <2>5, <2>6 DEF Fits, Scaled, DigitBits
    <2>8. Converted(q, e) = q * p
      BY <1>1, <2>5 DEF Converted
    <2>9. q * p = v
      <3>1. q * p \in Int
        BY Z3
      <3>. QED
        BY <2>6, <2>7, <3>1
    <2>10. e # n + 1 /\ ExceptionCode = n + 1 /\ e \in 0..(n + 1)
      BY <1>1 DEF ExceptionCode
    <2>. QED
      BY <1>1, <1>3, <2>4, <2>7, <2>8, <2>9, <2>10
  <1>. QED
    BY <1>5, <1>6

\* The rows before and at a row are those of a set and those beside it.
LEMMA RanksApart ==
    ASSUME NEW n \in Nat, NEW rows \in SUBSET (1..n), NEW i \in 1..n
    PROVE  /\ i - RankOf(rows, i) = RankOf((1..n) \ rows, i)
           /\ n - Cardinality(rows) = Cardinality((1..n) \ rows) /\ Cardinality(rows) \in 0..n
  <1>1. PICK S : S = 1..i
    OBVIOUS
  <1>2. PICK T : T = {j \in rows : j <= i}
    OBVIOUS
  <1>3. IsFiniteSet(S) /\ Cardinality(S) = i
    BY <1>1, FS_Interval
  <1>4. S \ T = {j \in (1..n) \ rows : j <= i} /\ S \cap T = T
    <2>1. \A j : j \in S <=> (j \in 1..n /\ j <= i)
      BY <1>1
    <2>2. \A j : j \in T <=> (j \in 1..n /\ j \in rows /\ j <= i)
      BY <1>2
    <2>3. \A j : j \in {x \in (1..n) \ rows : x <= i} <=> (j \in 1..n /\ j \notin rows /\ j <= i)
      OBVIOUS
    <2>4. \A j : j \in S \ T <=> j \in {x \in (1..n) \ rows : x <= i}
      BY <2>1, <2>2, <2>3, Zenon
    <2>5. \A j : j \in S \cap T <=> j \in T
      BY <2>1, <2>2, Zenon
    <2>. QED
      BY <2>4, <2>5, Zenon
  <1>5. Cardinality(S \ T) = Cardinality(S) - Cardinality(S \cap T)
    BY <1>3, FS_Difference
  <1>6. Cardinality(T) \in Nat
    <2>1. T \in SUBSET (1..n)
      BY <1>2
    <2>. QED
      BY <2>1, FiniteWithout
  <1>7. IsFiniteSet(1..n) /\ Cardinality(1..n) = n
    BY FS_Interval
  <1>8. Cardinality((1..n) \ rows) = n - Cardinality(rows)
    <2>1. Cardinality((1..n) \ rows) = Cardinality(1..n) - Cardinality((1..n) \cap rows)
      BY <1>7, FS_Difference
    <2>2. (1..n) \cap rows = rows
      OBVIOUS
    <2>. QED
      BY <1>7, <2>1, <2>2
  <1>9. Cardinality(rows) \in Nat /\ Cardinality(rows) <= n
    BY RowsAre
  <1>10. PICK t \in Nat : t = RankOf(rows, i) /\ t = Cardinality(T)
    BY <1>2, <1>6, Zenon DEF RankOf
  <1>11. RankOf((1..n) \ rows, i) = Cardinality(S \ T)
    BY <1>4, Zenon DEF RankOf
  <1>12. Cardinality(S \ T) = i - t
    BY <1>3, <1>4, <1>5, <1>10
  <1>. QED
    BY <1>8, <1>9, <1>10, <1>11, <1>12

Patched(src) == {i \in 1..Len(src) : Exponent(src[i]) = ExceptionCode}

\* What PSEUDODECIMAL splits a stream into.
DecimalsOf(d, src) ==
    /\ d.exponents = [i \in 1..Len(src) |-> Exponent(src[i])]
    /\ d.exponents \in Seq(Nat) /\ Len(d.exponents) = Len(src)
    /\ \A i \in 1..Len(src) : d.exponents[i] < 2^(NarrowBits - 1)
    /\ d.numbers \in Seq(Nat) /\ Len(d.numbers) = Len(src) - Cardinality(Patched(src))
    /\ \A k \in 1..Len(d.numbers) : d.numbers[k] < 2^(NarrowBits - 1)
    /\ \A i \in (1..Len(src)) \ Patched(src) :
          d.numbers[i - RankOf(Patched(src), i)] = Scaled(src[i], Exponent(src[i]))
    /\ d.patches = Selected(src, Patched(src)) /\ d.blocks = {Block(i) : i \in Patched(src)}

DecimalsBy(src, rows, exponents, patched) ==
    [exponents |-> exponents,
     numbers |-> [k \in 1..(Len(src) - Cardinality(patched)) |->
                    LET i == Ranked(rows \ patched, <)[k] IN Scaled(src[i], exponents[i])],
     patches |-> Selected(src, patched),
     blocks |-> {Block(i) : i \in patched}]

LEMMA DecimalsAre ==
    ASSUME NEW src \in Seq(Int)
    PROVE  DecimalsOf(Decimals(src), src)
  <1>1. PICK n \in Nat : n = Len(src) /\ DOMAIN src = 1..n
    OBVIOUS
  <1>2. PICK exponents : exponents = [i \in 1..n |-> Exponent(src[i])]
    OBVIOUS
  <1>3. PICK patched \in SUBSET (1..n) : patched = Patched(src)
    BY <1>1 DEF Patched
  <1>4. {i \in 1..n : exponents[i] = ExceptionCode} = patched
    BY <1>1, <1>2, <1>3, Zenon DEF Patched
  <1>5. PICK d : d = Decimals(src)
    OBVIOUS
  <1>6. PICK rest \in SUBSET (1..n) : rest = (1..n) \ patched
    OBVIOUS
  <1>7. PICK list : list = Ranked(rest, <)
    OBVIOUS
  <1>8. PICK h \in Nat \ {0} : h = 2^(NarrowBits - 1)
    BY WidthsAre, HalfOf
  <1>9. PICK c \in 0..n : c = Cardinality(patched) /\ n - c = Cardinality(rest)
    <2>1. CASE n = 0
      <3>1. patched = {} /\ rest = {}
        BY <1>6, <2>1
      <3>2. Cardinality(patched) = 0 /\ Cardinality(rest) = 0
        BY <3>1, FS_EmptySet
      <3>3. 0 \in 0..n /\ 0 = Cardinality(patched) /\ n - 0 = Cardinality(rest)
        BY <2>1, <3>2
      <3>. QED
        BY <3>3, Zenon
    <2>2. CASE n # 0
      <3>1. 1 \in 1..n
        BY <2>2
      <3>2. n - Cardinality(patched) = Cardinality((1..n) \ patched) /\ Cardinality(patched) \in 0..n
        BY <3>1, RanksApart
      <3>. QED
        BY <1>6, <3>2
    <2>. QED
      BY <2>1, <2>2
  <1>10. list \in [1..(n - c) -> rest]
    <2>1. IsList(list, rest)
      BY <1>7, RowsAre, Zenon
    <2>. QED
      BY <1>9, <2>1, Zenon DEF IsList
  <1>11. \A i \in rest : RankOf(rest, i) \in 1..(n - c) /\ list[RankOf(rest, i)] = i
    BY <1>7, <1>9, RowsAre, Zenon
  <1>12. PICK numbers : numbers = [k \in 1..(n - c) |-> Scaled(src[list[k]], exponents[list[k]])]
    OBVIOUS
  <1>13. /\ d.exponents = exponents /\ d.numbers = numbers /\ d.patches = Selected(src, patched)
         /\ d.blocks = {Block(i) : i \in patched}
    <2>0. d = DecimalsBy(src, RowsOf(src), [i \in RowsOf(src) |-> Exponent(src[i])],
                         {i \in RowsOf(src) : [j \in RowsOf(src) |-> Exponent(src[j])][i] = ExceptionCode})
      BY <1>5 DEF Decimals, DecimalsBy
    <2>1. d = [exponents |-> exponents,
               numbers |-> [k \in 1..(Len(src) - Cardinality(patched)) |->
                              LET i == Ranked((1..n) \ patched, <)[k] IN Scaled(src[i], exponents[i])],
               patches |-> Selected(src, patched), blocks |-> {Block(i) : i \in patched}]
      <3>1. RowsOf(src) = 1..n
        BY <1>1 DEF RowsOf
      <3>2. d = DecimalsBy(src, 1..n, exponents, patched)
        BY <1>2, <1>4, <2>0, <3>1, Zenon
      <3>. QED
        BY <3>2, Zenon DEF DecimalsBy
    <2>2. [k \in 1..(Len(src) - Cardinality(patched)) |->
              LET i == Ranked((1..n) \ patched, <)[k] IN Scaled(src[i], exponents[i])] = numbers
      BY <1>1, <1>6, <1>7, <1>9, <1>12, Zenon
    <2>. QED
      BY <2>1, <2>2
  <1>14. ASSUME NEW i \in 1..n
         PROVE  /\ exponents[i] = Exponent(src[i]) /\ exponents[i] \in Nat /\ exponents[i] < h
                /\ i \notin patched => Scaled(src[i], exponents[i]) \in 0..(h - 1)
    <2>1. src[i] \in Int
      BY <1>1
    <2>2. exponents[i] = Exponent(src[i])
      BY <1>2
    <2>3. Exponent(src[i]) \in 0..(MaxExponent + 1) /\ MaxExponent \in Nat /\ MaxExponent + 1 < h
      BY <1>8, <2>1, ExponentIs, WidthAssumption
    <2>4. ASSUME i \notin patched PROVE Scaled(src[i], exponents[i]) \in 0..(h - 1)
      <3>1. Exponent(src[i]) # ExceptionCode
        BY <1>2, <1>4, <2>2, <2>4
      <3>2. Scaled(src[i], Exponent(src[i])) \in 0..(2^(NarrowBits - 1) - 1)
        BY <2>1, <3>1, ExponentIs
      <3>. QED
        BY <1>8, <2>2, <3>2
    <2>. QED
      BY <2>2, <2>3, <2>4
  <1>15. exponents \in Seq(Nat) /\ Len(exponents) = n
    <2>1. \A i \in 1..n : exponents[i] \in Nat
      BY <1>14
    <2>. QED
      BY <1>2, <2>1
  <1>16. ASSUME NEW k \in 1..(n - c) PROVE numbers[k] \in Nat /\ numbers[k] < h
    <2>1. PICK i \in 1..n : i = list[k] /\ i \notin patched
      BY <1>6, <1>10
    <2>2. numbers[k] = Scaled(src[i], exponents[i])
      BY <1>12, <2>1
    <2>3. Scaled(src[i], exponents[i]) \in 0..(h - 1)
      BY <1>14, <2>1
    <2>. QED
      BY <2>2, <2>3
  <1>17. numbers \in Seq(Nat) /\ Len(numbers) = n - c
    <2>1. \A k \in 1..(n - c) : numbers[k] \in Nat
      BY <1>16
    <2>2. n - c \in Nat
      OBVIOUS
    <2>. QED
      BY <1>12, <2>1, <2>2
  <1>18. ASSUME NEW i \in (1..n) \ patched PROVE numbers[i - RankOf(patched, i)] = Scaled(src[i], Exponent(src[i]))
    <2>1. i \in 1..n /\ i \in rest
      BY <1>6
    <2>2. i - RankOf(patched, i) = RankOf(rest, i)
      BY <1>6, <2>1, RanksApart
    <2>3. PICK k \in 1..(n - c) : k = RankOf(rest, i) /\ list[k] = i
      BY <1>11, <2>1
    <2>4. numbers[k] = Scaled(src[i], exponents[i])
      BY <1>12, <2>3
    <2>. QED
      BY <1>2, <2>1, <2>2, <2>3, <2>4
  <1>19. /\ d.exponents = [i \in 1..Len(src) |-> Exponent(src[i])]
         /\ d.exponents \in Seq(Nat) /\ Len(d.exponents) = Len(src)
         /\ \A i \in 1..Len(src) : d.exponents[i] < 2^(NarrowBits - 1)
    BY <1>1, <1>2, <1>8, <1>13, <1>14, <1>15
  <1>20. /\ d.numbers \in Seq(Nat) /\ Len(d.numbers) = Len(src) - Cardinality(Patched(src))
         /\ \A k \in 1..Len(d.numbers) : d.numbers[k] < 2^(NarrowBits - 1)
    BY <1>1, <1>3, <1>8, <1>9, <1>13, <1>16, <1>17
  <1>21. \A i \in (1..Len(src)) \ Patched(src) :
            d.numbers[i - RankOf(Patched(src), i)] = Scaled(src[i], Exponent(src[i]))
    BY <1>1, <1>3, <1>13, <1>18
  <1>22. d.patches = Selected(src, Patched(src)) /\ d.blocks = {Block(i) : i \in Patched(src)}
    BY <1>3, <1>13
  <1>. QED
    BY <1>5, <1>19, <1>20, <1>21, <1>22, Zenon DEF DecimalsOf

LEMMA RestoredIs ==
    ASSUME NEW src \in Seq(Int), NEW x, DecimalsOf(x, src), NEW d,
           d = [blocks |-> x.blocks, numbers |-> x.numbers, exponents |-> x.exponents, patches |-> x.patches]
    PROVE  Restored(d, Len(src)) = src
  <1>1. PICK n \in Nat : n = Len(src) /\ DOMAIN src = 1..n
    OBVIOUS
  <1>2. PICK rows \in SUBSET (1..n) : rows = Patched(src)
    BY <1>1 DEF Patched
  <1>3. d.blocks = x.blocks /\ d.numbers = x.numbers /\ d.exponents = x.exponents /\ d.patches = x.patches
    OBVIOUS
  <1>4. \A i \in 1..n : d.exponents[i] = Exponent(src[i])
    BY <1>1, <1>3, Zenon DEF DecimalsOf
  <1>5. d.patches = Selected(src, rows) /\ d.blocks = {Block(i) : i \in rows}
    BY <1>2, <1>3, Zenon DEF DecimalsOf
  <1>6. {i \in 1..n : ~Unrolled(d, n, i) /\ d.exponents[i] = ExceptionCode} = rows
    <2>1. \A i \in 1..n : i \in rows <=> d.exponents[i] = ExceptionCode
      BY <1>1, <1>2, <1>4, Zenon DEF Patched
    <2>2. \A i \in rows : ~Unrolled(d, n, i)
      BY <1>5, Zenon DEF Unrolled
    <2>. QED
      BY <2>1, <2>2, Zenon
  <1>7. PICK v : v = [i \in 1..n |-> IF i \in rows THEN d.patches[RankOf(rows, i)]
                                     ELSE Converted(d.numbers[i - RankOf(rows, i)], d.exponents[i])]
    OBVIOUS
  <1>8. Restored(d, n) = v
    BY <1>6, <1>7, Zenon DEF Restored
  <1>9. ASSUME NEW i \in 1..n PROVE v[i] = src[i]
    <2>1. CASE i \in rows
      <3>1. rows \in SUBSET (1..Len(src))
        BY <1>1
      <3>2. Selected(src, rows)[RankOf(rows, i)] = src[i]
        BY <2>1, <3>1, SelectedIs
      <3>. QED
        BY <1>5, <1>7, <2>1, <3>2
    <2>2. CASE i \notin rows
      <3>1. d.numbers[i - RankOf(rows, i)] = Scaled(src[i], Exponent(src[i]))
        BY <1>1, <1>2, <1>3, <2>2, Zenon DEF DecimalsOf
      <3>2. Exponent(src[i]) # ExceptionCode
        BY <1>1, <1>2, <2>2 DEF Patched
      <3>3. src[i] \in Int
        BY <1>1
      <3>4. Converted(Scaled(src[i], Exponent(src[i])), Exponent(src[i])) = src[i]
        BY <3>2, <3>3, ExponentIs
      <3>5. v[i] = Converted(d.numbers[i - RankOf(rows, i)], d.exponents[i])
        BY <1>7, <2>2, Zenon
      <3>. QED
        BY <1>4, <3>1, <3>4, <3>5, Zenon
    <2>. QED
      BY <2>1, <2>2
  <1>10. v = src
    BY <1>1, <1>7, <1>9
  <1>. QED
    BY <1>1, <1>8, <1>10

LEMMA DecimalSubs ==
    ASSUME NEW d \in 1..CascadeDepth, NEW type, NEW src, NEW nulls, NEW force,
           IsStream(d, type, src, nulls, force), NEW x, DecimalsOf(x, src)
    PROVE  /\ IsSub(d - 1, "INTEGER", x.numbers, AutoScheme) /\ IsSub(d - 1, "INTEGER", x.exponents, AutoScheme)
           /\ IsSub(d - 1, "DOUBLE", x.patches, AutoScheme)
  <1>1. src \in Seq(Int) /\ Len(src) \in Nat /\ DOMAIN src = 1..Len(src)
    BY StreamIs, Zenon
  <1>2. PICK n \in Nat : n = Len(src)
    BY <1>1
  <1>3. PICK h \in Nat \ {0} : h = 2^(NarrowBits - 1) /\ n < h
    <2>1. Len(src) < 2^(NarrowBits - 1)
      BY Zenon DEF IsStream
    <2>. QED
      BY <1>2, <2>1, WidthsAre, HalfOf
  <1>4. PICK rows \in SUBSET (1..n) : rows = Patched(src)
    BY <1>2 DEF Patched
  <1>5. PICK c \in Nat : c = Cardinality(rows) /\ c <= n
    BY RowsAre
  <1>6. x.exponents \in Seq(Nat) /\ Len(x.exponents) = n /\ \A i \in 1..n : x.exponents[i] < h
    BY <1>2, <1>3, Zenon DEF DecimalsOf
  <1>7. x.numbers \in Seq(Nat) /\ Len(x.numbers) = n - c /\ \A k \in 1..Len(x.numbers) : x.numbers[k] < h
    BY <1>2, <1>3, <1>4, <1>5, Zenon DEF DecimalsOf
  <1>8. PICK patches : patches = x.patches /\ patches = Selected(src, rows)
    BY <1>4, Zenon DEF DecimalsOf
  <1>9. /\ patches \in Seq(Int) /\ Len(patches) = c
        /\ \A k \in 1..c : \E i \in rows : patches[k] = src[i]
    <2>1. rows \in SUBSET (1..Len(src))
      BY <1>2
    <2>2. /\ Selected(src, rows) \in Seq(Int) /\ Len(Selected(src, rows)) = Cardinality(rows)
          /\ \A k \in 1..Cardinality(rows) : \E i \in rows : Selected(src, rows)[k] = src[i]
      BY <1>1, <2>1, SelectedIs, Zenon
    <2>. QED
      BY <1>5, <1>8, <2>2, Zenon
  <1>10. \A k \in 1..c : patches[k] # 0
    <2>1. ASSUME NEW i \in rows PROVE src[i] # 0
      <3>1. src[i] \in Int /\ Exponent(src[i]) = ExceptionCode
        BY <1>1, <1>2, <1>4 DEF Patched
      <3>. QED
        BY <3>1, ExponentIs
    <2>. QED
      BY <1>9, <2>1
  <1>11. "INTEGER" \in Types /\ "DOUBLE" \in Types /\ d - 1 # CascadeDepth
    BY DepthIs DEF Types
  <1>12. IsSub(d - 1, "INTEGER", x.numbers, AutoScheme)
    <2>1. x.numbers \in Seq(NumbersOf("INTEGER"))
      BY <1>3, <1>7, IntegersAre
    <2>2. Len(x.numbers) < 2^(NarrowBits - 1) /\ {} \subseteq 1..Len(x.numbers)
      BY <1>3, <1>5, <1>7
    <2>3. Exact("INTEGER", x.numbers, {})
      BY DEF Exact
    <2>. QED
      BY <1>11, <2>1, <2>2, <2>3, Zenon DEF IsSub, IsStream
  <1>13. IsSub(d - 1, "INTEGER", x.exponents, AutoScheme)
    <2>1. x.exponents \in Seq(NumbersOf("INTEGER"))
      BY <1>3, <1>6, IntegersAre
    <2>2. Len(x.exponents) < 2^(NarrowBits - 1) /\ {} \subseteq 1..Len(x.exponents)
      BY <1>3, <1>6
    <2>3. Exact("INTEGER", x.exponents, {})
      BY DEF Exact
    <2>. QED
      BY <1>11, <2>1, <2>2, <2>3, Zenon DEF IsSub, IsStream
  <1>14. IsSub(d - 1, "DOUBLE", patches, AutoScheme)
    <2>1. patches \in Seq(NumbersOf("DOUBLE"))
      BY <1>9 DEF NumbersOf
    <2>2. Len(patches) < 2^(NarrowBits - 1) /\ {} \subseteq 1..Len(patches)
      BY <1>3, <1>5, <1>9
    <2>3. Exact("DOUBLE", patches, {})
      BY <1>9, <1>10, Zenon DEF Exact
    <2>. QED
      BY <1>11, <2>1, <2>2, <2>3, Zenon DEF IsSub, IsStream
  <1>. QED
    BY <1>8, <1>12, <1>13, <1>14, Zenon

\* What PSEUDODECIMAL writes over its three encoded sub-streams.
DecimalStream(x, m, e, p) ==
    [scheme |-> "PSEUDODECIMAL", blocks |-> x.blocks, count |-> Len(x.numbers), numbers |-> m, exponents |-> e, patches |-> p]

\* Kept, and by PSEUDODECIMAL to the sign of zero.
DecimalExact(d, e, type, src, nulls) ==
    e.scheme = "PSEUDODECIMAL" => \A junk \in Int : Decode[d][e][Request(type, nulls, Len(src), junk)] = src

Good(d, e, type, src, nulls) == Kept(d, e, type, src, nulls) /\ DecimalExact(d, e, type, src, nulls)

LEMMA DecimalKept ==
    ASSUME NEW d \in 1..CascadeDepth, AllKept(d - 1), NEW src, NEW nulls, NEW force,
           IsStream(d, "DOUBLE", src, nulls, force), NEW junk \in Int, NEW x, DecimalsOf(x, src),
           NEW m \in Encodings[d - 1][Stream("INTEGER", x.numbers, {}, AutoScheme, junk)],
           NEW y \in Encodings[d - 1][Stream("INTEGER", x.exponents, {}, AutoScheme, junk)],
           NEW p \in Encodings[d - 1][Stream("DOUBLE", x.patches, {}, AutoScheme, junk)]
    PROVE  Good(d, DecimalStream(x, m, y, p), "DOUBLE", src, nulls)
  <1>1. src \in Seq(Int) /\ Len(src) \in Nat /\ DOMAIN src = 1..Len(src) /\ nulls \in SUBSET Nat /\ "DOUBLE" \in Types
    BY StreamIs, Zenon
  <1>2. PICK n \in Nat : n = Len(src)
    BY <1>1
  <1>3. /\ IsSub(d - 1, "INTEGER", x.numbers, AutoScheme) /\ IsSub(d - 1, "INTEGER", x.exponents, AutoScheme)
        /\ IsSub(d - 1, "DOUBLE", x.patches, AutoScheme)
    BY DecimalSubs, Zenon
  <1>4. m \in Encoded[d - 1] /\ \A j \in Int : Decode[d - 1][m][Request("INTEGER", {}, Len(x.numbers), j)] = x.numbers
    <2>1. /\ m \in Encoded[d - 1]
          /\ \A j \in Int : Decode[d - 1][m][Request("INTEGER", {}, Len(x.numbers), j)] = x.numbers
          /\ "INTEGER" # "DOUBLE" => Picks(d - 1, m, "INTEGER", x.numbers, {})
      BY <1>3, SubWhole, Zenon
    <2>. QED
      BY <2>1, Zenon
  <1>5. y \in Encoded[d - 1] /\ \A j \in Int : Decode[d - 1][y][Request("INTEGER", {}, Len(x.exponents), j)] = x.exponents
    <2>1. /\ y \in Encoded[d - 1]
          /\ \A j \in Int : Decode[d - 1][y][Request("INTEGER", {}, Len(x.exponents), j)] = x.exponents
          /\ "INTEGER" # "DOUBLE" => Picks(d - 1, y, "INTEGER", x.exponents, {})
      BY <1>3, SubWhole, Zenon
    <2>. QED
      BY <2>1, Zenon
  <1>6. p \in Encoded[d - 1] /\ \A j \in Int : Decode[d - 1][p][Request("DOUBLE", {}, Len(x.patches), j)] = x.patches
    <2>1. PICK type : type = "DOUBLE"
      OBVIOUS
    <2>2. IsSub(d - 1, type, x.patches, AutoScheme) /\ p \in Encodings[d - 1][Stream(type, x.patches, {}, AutoScheme, junk)]
      BY <1>3, <2>1, Zenon
    <2>3. /\ p \in Encoded[d - 1]
          /\ \A j \in Int : Decode[d - 1][p][Request(type, {}, Len(x.patches), j)] = x.patches
          /\ type # "DOUBLE" => Picks(d - 1, p, type, x.patches, {})
      BY <2>2, SubWhole, Zenon
    <2>. QED
      BY <2>1, <2>3, Zenon
  <1>7. PICK e : e = DecimalStream(x, m, y, p)
    OBVIOUS
  <1>8. PICK w \in Nat : w = Len(x.numbers)
    <2>1. x.numbers \in Seq(Nat)
      BY Zenon DEF DecimalsOf
    <2>. QED
      BY <2>1
  <1>9. /\ e.scheme = "PSEUDODECIMAL" /\ e.blocks = x.blocks /\ e.count = w /\ e.numbers = m
        /\ e.exponents = y /\ e.patches = p /\ e.scheme \in Simple
    BY <1>7, <1>8 DEF DecimalStream, Simple
  <1>10. e \in Formats(Encoded[d - 1])
    <2>1. x.blocks \in SUBSET Nat
      <3>1. \A i \in Patched(src) : Block(i) \in Nat
        <4>1. ASSUME NEW i \in Patched(src) PROVE Block(i) \in Nat
          <5>1. i - 1 \in Nat
            BY <1>2 DEF Patched
          <5>2. BlockSize \in Nat \ {0}
            BY WidthsAre
          <5>3. (i - 1) \div BlockSize \in Nat
            BY <5>1, <5>2, Divided
          <5>. QED
            BY <5>3 DEF Block
        <4>. QED
          BY <4>1
      <3>2. x.blocks = {Block(i) : i \in Patched(src)}
        BY Zenon DEF DecimalsOf
      <3>. QED
        BY <3>1, <3>2
    <2>. QED
      BY <1>4, <1>5, <1>6, <1>7, <1>8, <2>1 DEF Formats, DecimalStream
  <1>11. Len(x.exponents) = n /\ n - w = Len(x.patches)
    <2>1. PICK rows \in SUBSET (1..n) : rows = Patched(src)
      BY <1>2 DEF Patched
    <2>2. PICK c \in Nat : c = Cardinality(rows) /\ c <= n
      BY RowsAre
    <2>3. Len(x.exponents) = Len(src) /\ Len(x.numbers) = Len(src) - Cardinality(Patched(src))
          /\ x.patches = Selected(src, Patched(src))
      BY Zenon DEF DecimalsOf
    <2>4. rows \in SUBSET (1..Len(src))
      BY <1>2
    <2>5. Len(Selected(src, rows)) = c
      BY <1>1, <2>2, <2>4, SelectedIs
    <2>. QED
      BY <1>2, <1>8, <2>1, <2>2, <2>3, <2>5
  <1>12. ASSUME NEW j \in Int PROVE DecodedBy(Decode[d - 1], e, Request("DOUBLE", nulls, Len(src), j)) = src
    <2>1. PICK r : r = Request("DOUBLE", nulls, n, j)
      OBVIOUS
    <2>2. r.count = n /\ r.junk = j
      BY <2>1 DEF Request
    <2>3. DecodedBy(Decode[d - 1], e, r) = DecimalDecode(Decode[d - 1], e, r)
      BY <1>9 DEF DecodedBy
    <2>4. /\ Decode[d - 1][e.numbers][Request("INTEGER", {}, e.count, r.junk)] = x.numbers
          /\ Decode[d - 1][e.exponents][Request("INTEGER", {}, r.count, r.junk)] = x.exponents
          /\ Decode[d - 1][e.patches][Request("DOUBLE", {}, r.count - e.count, r.junk)] = x.patches
      <3>1. Decode[d - 1][m][Request("INTEGER", {}, Len(x.numbers), j)] = x.numbers
        BY <1>4, Zenon
      <3>2. Decode[d - 1][y][Request("INTEGER", {}, Len(x.exponents), j)] = x.exponents
        BY <1>5, Zenon
      <3>3. Decode[d - 1][p][Request("DOUBLE", {}, Len(x.patches), j)] = x.patches
        BY <1>6, Zenon
      <3>4. /\ e.numbers = m /\ e.exponents = y /\ e.patches = p /\ r.junk = j /\ e.count = Len(x.numbers)
            /\ r.count = Len(x.exponents) /\ r.count - e.count = Len(x.patches)
        BY <1>8, <1>9, <1>11, <2>2
      <3>. QED
        BY <3>1, <3>2, <3>3, <3>4, Zenon
    <2>5. PICK z : z = [blocks |-> x.blocks, numbers |-> x.numbers, exponents |-> x.exponents, patches |-> x.patches]
      OBVIOUS
    <2>6. DecimalDecode(Decode[d - 1], e, r) = Restored(z, n)
      BY <1>9, <2>2, <2>4, <2>5, Zenon DEF DecimalDecode
    <2>7. Restored(z, n) = src
      BY <1>1, <1>2, <2>5, RestoredIs
    <2>. QED
      BY <1>2, <2>1, <2>3, <2>6, <2>7
  <1>13. d \in Nat /\ d # 0
    BY DepthIs
  <1>14. e \in Encoded[d]
    <2>1. Encoded[d] = Formats(IF d = 0 THEN {} ELSE Encoded[d - 1])
      BY <1>13, EncodedIs, Zenon
    <2>. QED
      BY <1>10, <1>13, <2>1, Zenon
  <1>15. ASSUME NEW j \in Int PROVE Decode[d][e][Request("DOUBLE", nulls, Len(src), j)] = src
    <2>1. PICK r \in Requests : r = Request("DOUBLE", nulls, Len(src), j)
      BY <1>1, RequestIs, Zenon
    <2>2. Decode[d][e][r] = DecodedBy(IF d = 0 THEN <<>> ELSE Decode[d - 1], e, r)
      BY <1>13, <1>14, DecodeOf, Zenon
    <2>. QED
      BY <1>12, <1>13, <2>1, <2>2, Zenon
  <1>16. Kept(d, e, "DOUBLE", src, nulls)
    <2>1. Reads(d, e, "DOUBLE", src, nulls)
      BY <1>1, <1>15, SelfReads, Zenon DEF Reads
    <2>. QED
      BY <1>14, <2>1, Zenon DEF Kept
  <1>. QED
    BY <1>7, <1>15, <1>16, Zenon DEF Good, DecimalExact

---------------------------------------------------------------------------
(* Every encoding of a stream keeps it *)

\* The scheme that compress runs at a level.
Runnable(level, s, c) == (s.force = AutoScheme /\ c \in Usable(level, s)) \/ (s.force # AutoScheme /\ c = s.force)

LEMMA SchemeIs ==
    ASSUME NEW type \in Types, NEW c \in SchemesOf(type)
    PROVE  /\ c \in {"RLE", "DICT", "FREQUENCY", "DICTIONARY_8", "BP", "PFOR_DELTA", "FOR", "TRUNCATION_8",
                     "SUB_INT_SPLIT", "BP64", "PSEUDODECIMAL", "DOUBLE_BP"}
           /\ c = "PFOR_DELTA" => type = "INTEGER"
           /\ c \in {"FOR", "TRUNCATION_8", "SUB_INT_SPLIT"} => type # "DOUBLE"
           /\ c = "BP64" => type = "BIGINT"
           /\ c = "PSEUDODECIMAL" => type = "DOUBLE"
  BY DEF SchemesOf, Types

LEMMA RunnableIs ==
    ASSUME NEW d, NEW s, StreamOK(d, s), NEW c, Runnable(d, s, c)
    PROVE  /\ c \in {"RLE", "DICT", "FREQUENCY", "DICTIONARY_8", "BP", "PFOR_DELTA", "FOR", "TRUNCATION_8",
                     "SUB_INT_SPLIT", "BP64", "PSEUDODECIMAL", "DOUBLE_BP", "ONE_VALUE"}
           /\ c = "PFOR_DELTA" => s.type = "INTEGER"
           /\ c \in {"FOR", "TRUNCATION_8", "SUB_INT_SPLIT"} => s.type # "DOUBLE"
           /\ c = "BP64" => s.type = "BIGINT"
           /\ c = "PSEUDODECIMAL" => s.type = "DOUBLE"
           /\ c = "TRUNCATION_8" => FitsCode(s.src)
           /\ c = "ONE_VALUE" => Cardinality(Keys(s.src)) = 1
  <1>1. s.type \in Types /\ IsStream(d, s.type, s.src, s.nulls, s.force)
    BY Zenon DEF StreamOK, IsStream
  <1>2. CASE s.force = AutoScheme
    <2>1. c \in SchemesOf(s.type) /\ (c = "TRUNCATION_8" => FitsCode(s.src))
      BY <1>2, Zenon DEF Runnable, Usable
    <2>. QED
      BY <1>1, <2>1, SchemeIs
  <1>3. CASE s.force # AutoScheme
    <2>1. c = s.force
      BY <1>3 DEF Runnable
    <2>2. (s.force = "BP" /\ s.type = "INTEGER") \/ (s.force = "ONE_VALUE" /\ Cardinality(Keys(s.src)) = 1)
      BY <1>1, <1>3, Zenon DEF IsStream
    <2>. QED
      BY <2>1, <2>2
  <1>. QED
    BY <1>2, <1>3

NotDecimal(e) == e.scheme # "PSEUDODECIMAL"

LEMMA GoodIs ==
    ASSUME NEW d, NEW e, NEW type, NEW src, NEW nulls, Kept(d, e, type, src, nulls), NotDecimal(e)
    PROVE  Good(d, e, type, src, nulls)
  BY DEF Good, DecimalExact, NotDecimal

Flat(c) == c \in {"ONE_VALUE", "BP", "DOUBLE_BP", "PFOR_DELTA", "DICTIONARY_8", "TRUNCATION_8"}

LEMMA FlatGood ==
    ASSUME NEW d \in 1..CascadeDepth, NEW s, StreamOK(d, s), s.src # <<>>, NEW c, Runnable(d, s, c), NEW subs, Flat(c),
           NEW e \in EncodingsBy(c, subs, s)
    PROVE  Good(d, e, s.type, s.src, s.nulls)
  <1>10. PICK type : s.type = type
    OBVIOUS
  <1>11. PICK src : s.src = src
    OBVIOUS
  <1>12. PICK nulls : s.nulls = nulls
    OBVIOUS
  <1>13. PICK force : s.force = force
    OBVIOUS
  <1>14. PICK junk \in Int : s.junk = junk
    BY Zenon DEF StreamOK
  <1>1. s.type = type /\ s.src = src /\ s.nulls = nulls /\ s.force = force /\ s.junk = junk
    BY <1>10, <1>11, <1>12, <1>13, <1>14
  <1>2. s = Stream(type, src, nulls, force, junk) /\ IsStream(d, type, src, nulls, force) /\ src # <<>>
    BY <1>1, Zenon DEF StreamOK
  <1>3. d \in Nat
    BY DepthIs
  <1>4. CASE c \in {"BP", "DOUBLE_BP"}
    <2>1. e = Plain(c, src)
      BY <1>1, <1>4 DEF EncodingsBy
    <2>2. Kept(d, Plain(c, src), type, src, nulls)
      <3>1. c \in {"UNCOMPRESSED", "RAW", "BP", "DOUBLE_BP"}
        BY <1>4
      <3>. QED
        BY <1>2, <1>3, <3>1, PlainKept, Zenon
    <2>3. NotDecimal(e)
      BY <1>4, <2>1 DEF Plain, NotDecimal
    <2>. QED
      BY <1>1, <2>1, <2>2, <2>3, GoodIs, Zenon
  <1>5. CASE c = "ONE_VALUE"
    <2>1. e = OneValue(src)
      BY <1>1, <1>5 DEF EncodingsBy
    <2>2. Cardinality(Keys(src)) = 1
      BY <1>1, <1>5, RunnableIs
    <2>3. Kept(d, OneValue(src), type, src, nulls)
      BY <1>2, <1>3, <2>2, OneValueKept, Zenon
    <2>4. NotDecimal(e)
      BY <2>1 DEF OneValue, NotDecimal
    <2>. QED
      BY <1>1, <2>1, <2>3, <2>4, GoodIs, Zenon
  <1>6. CASE c = "PFOR_DELTA"
    <2>1. e = Plain("PFOR_DELTA", Deltas(src))
      BY <1>1, <1>6 DEF EncodingsBy
    <2>2. type = "INTEGER"
      BY <1>1, <1>6, RunnableIs
    <2>3. Kept(d, Plain("PFOR_DELTA", Deltas(src)), type, src, nulls)
      BY <1>2, <1>3, <2>2, DeltaKept, Zenon
    <2>4. NotDecimal(e)
      BY <2>1 DEF Plain, NotDecimal
    <2>. QED
      BY <1>1, <2>1, <2>3, <2>4, GoodIs, Zenon
  <1>7. CASE c = "DICTIONARY_8"
    <2>1. e = FixedDictionary(src)
      BY <1>1, <1>7 DEF EncodingsBy
    <2>2. Kept(d, FixedDictionary(src), type, src, nulls)
      BY <1>2, <1>3, FixedDictionaryKept, Zenon
    <2>3. NotDecimal(e)
      BY <2>1 DEF FixedDictionary, NotDecimal
    <2>. QED
      BY <1>1, <2>1, <2>2, <2>3, GoodIs, Zenon
  <1>8. CASE c = "TRUNCATION_8"
    <2>1. e = Truncation(s)
      BY <1>8 DEF EncodingsBy
    <2>2. type # "DOUBLE" /\ FitsCode(src)
      BY <1>1, <1>8, RunnableIs
    <2>3. Kept(d, Truncation(Stream(type, src, nulls, force, junk)), type, src, nulls)
      BY <1>2, <1>3, <2>2, TruncationKept, Zenon
    <2>4. NotDecimal(e)
      BY <2>1 DEF Truncation, NotDecimal
    <2>. QED
      BY <1>1, <1>2, <2>1, <2>3, <2>4, GoodIs, Zenon
  <1>. QED
    BY <1>4, <1>5, <1>6, <1>7, <1>8 DEF Flat

LEMMA DeepGood ==
    ASSUME NEW d \in 1..CascadeDepth, AllKept(d - 1), NEW s, StreamOK(d, s), s.src # <<>>, NEW c, Runnable(d, s, c),
           c \in {"RLE", "DICT", "FREQUENCY", "FOR"}, NEW e \in EncodingsBy(c, Encodings[d - 1], s)
    PROVE  Good(d, e, s.type, s.src, s.nulls)
  <1>10. PICK type : s.type = type
    OBVIOUS
  <1>11. PICK src : s.src = src
    OBVIOUS
  <1>12. PICK nulls : s.nulls = nulls
    OBVIOUS
  <1>13. PICK force : s.force = force
    OBVIOUS
  <1>14. PICK junk \in Int : s.junk = junk
    BY Zenon DEF StreamOK
  <1>1. s.type = type /\ s.src = src /\ s.nulls = nulls /\ s.force = force /\ s.junk = junk
    BY <1>10, <1>11, <1>12, <1>13, <1>14
  <1>2. IsStream(d, type, src, nulls, force) /\ src # <<>>
    BY <1>1, Zenon DEF StreamOK
  <1>3. PICK subs : subs = Encodings[d - 1]
    OBVIOUS
  <1>4. CASE c = "RLE"
    <2>1. e \in RleEncodings(subs, s)
      BY <1>3, <1>4 DEF EncodingsBy
    <2>2. PICK x \in subs[Stream(type, Runs(src, nulls).values, {}, AutoScheme, junk)],
               y \in subs[Stream("INTEGER", Runs(src, nulls).counts, {}, AutoScheme, junk)] :
              e = [scheme |-> "RLE", runs |-> Len(Runs(src, nulls).values), values |-> x, counts |-> y]
      BY <1>1, <2>1 DEF RleEncodings
    <2>3. Kept(d, [scheme |-> "RLE", runs |-> Len(Runs(src, nulls).values), values |-> x, counts |-> y], type, src, nulls)
      <3>1. /\ x \in Encodings[d - 1][Stream(type, Runs(src, nulls).values, {}, AutoScheme, junk)]
            /\ y \in Encodings[d - 1][Stream("INTEGER", Runs(src, nulls).counts, {}, AutoScheme, junk)]
        BY <1>3, <2>2, Zenon
      <3>. QED
        BY <1>2, <3>1, RleKept, Zenon
    <2>4. NotDecimal(e)
      BY <2>2 DEF NotDecimal
    <2>. QED
      BY <1>1, <2>2, <2>3, <2>4, GoodIs, Zenon
  <1>5. CASE c = "DICT"
    <2>1. e \in DictEncodings(subs, s)
      BY <1>3, <1>5 DEF EncodingsBy
    <2>2. PICK x \in subs[Stream("INTEGER", CodesOf(src), {}, "BP", junk)] :
              e = [scheme |-> "DICT", dict |-> Dictionary(src), codes |-> x]
      BY <1>1, <2>1 DEF DictEncodings
    <2>3. Kept(d, [scheme |-> "DICT", dict |-> Dictionary(src), codes |-> x], type, src, nulls)
      <3>1. x \in Encodings[d - 1][Stream("INTEGER", CodesOf(src), {}, "BP", junk)]
        BY <1>3, <2>2, Zenon
      <3>. QED
        BY <1>2, <3>1, DictKept, Zenon
    <2>4. NotDecimal(e)
      BY <2>2 DEF NotDecimal
    <2>. QED
      BY <1>1, <2>2, <2>3, <2>4, GoodIs, Zenon
  <1>6. CASE c = "FREQUENCY"
    <2>1. e \in FrequencyEncodings(subs, s)
      BY <1>3, <1>6 DEF EncodingsBy
    <2>2. PICK x \in subs[Stream(type, Selected(src, Exceptions(src, nulls)), {}, AutoScheme, junk)] :
              e = [scheme |-> "FREQUENCY", top |-> TopValue(src, nulls), rows |-> Exceptions(src, nulls), exceptions |-> x]
      BY <1>1, <2>1 DEF FrequencyEncodings
    <2>3. Kept(d, [scheme |-> "FREQUENCY", top |-> TopValue(src, nulls), rows |-> Exceptions(src, nulls),
                   exceptions |-> x], type, src, nulls)
      <3>1. x \in Encodings[d - 1][Stream(type, Selected(src, Exceptions(src, nulls)), {}, AutoScheme, junk)]
        BY <1>3, <2>2, Zenon
      <3>. QED
        BY <1>2, <3>1, FrequencyKept, Zenon
    <2>4. NotDecimal(e)
      BY <2>2 DEF NotDecimal
    <2>. QED
      BY <1>1, <2>2, <2>3, <2>4, GoodIs, Zenon
  <1>7. CASE c = "FOR"
    <2>1. e \in ForEncodings(subs, s)
      BY <1>3, <1>7 DEF EncodingsBy
    <2>2. PICK x \in subs[Stream(type, Biased(src, nulls, Bits(type)), nulls, AutoScheme, junk)] :
              e = [scheme |-> "FOR", bias |-> Least(src), biased |-> x]
      BY <1>1, <2>1 DEF ForEncodings
    <2>3. type # "DOUBLE"
      BY <1>1, <1>7, RunnableIs
    <2>4. Kept(d, [scheme |-> "FOR", bias |-> Least(src), biased |-> x], type, src, nulls)
      <3>1. x \in Encodings[d - 1][Stream(type, Biased(src, nulls, Bits(type)), nulls, AutoScheme, junk)]
        BY <1>3, <2>2, Zenon
      <3>. QED
        BY <1>2, <2>3, <3>1, ForKept, Zenon
    <2>5. NotDecimal(e)
      BY <2>2 DEF NotDecimal
    <2>. QED
      BY <1>1, <2>2, <2>4, <2>5, GoodIs, Zenon
  <1>. QED
    BY <1>4, <1>5, <1>6, <1>7

LEMMA SectionsGood ==
    ASSUME NEW d \in 1..CascadeDepth, AllKept(d - 1), NEW s, StreamOK(d, s), s.src # <<>>, NEW c, Runnable(d, s, c),
           c \in {"BP64", "SUB_INT_SPLIT"}, NEW e \in EncodingsBy(c, Encodings[d - 1], s)
    PROVE  Good(d, e, s.type, s.src, s.nulls)
  <1>10. PICK type : s.type = type
    OBVIOUS
  <1>11. PICK src : s.src = src
    OBVIOUS
  <1>12. PICK nulls : s.nulls = nulls
    OBVIOUS
  <1>13. PICK force : s.force = force
    OBVIOUS
  <1>14. PICK junk \in Int : s.junk = junk
    BY Zenon DEF StreamOK
  <1>1. s.type = type /\ s.src = src /\ s.nulls = nulls /\ s.force = force /\ s.junk = junk
    BY <1>10, <1>11, <1>12, <1>13, <1>14
  <1>2. s = Stream(type, src, nulls, force, junk) /\ IsStream(d, type, src, nulls, force) /\ src # <<>>
    BY <1>1, Zenon DEF StreamOK
  <1>3. PICK subs : subs = Encodings[d - 1]
    OBVIOUS
  <1>4. CASE c = "BP64"
    <2>1. e \in Bp64Encodings(subs, s)
      BY <1>3, <1>4 DEF EncodingsBy
    <2>2. PICK x \in subs[Stream("INTEGER", Section(src, Halves[1], Bits("BIGINT")), nulls, AutoScheme, junk)],
               y \in subs[Stream("INTEGER", Section(src, Halves[2], Bits("BIGINT")), nulls, AutoScheme, junk)] :
              e = [scheme |-> "BP64", sections |-> Halves, parts |-> <<x, y>>]
      BY <1>1, <2>1 DEF Bp64Encodings
    <2>3. type = "BIGINT"
      BY <1>1, <1>4, RunnableIs
    <2>4. Kept(d, [scheme |-> "BP64", sections |-> Halves, parts |-> <<x, y>>], "BIGINT", src, nulls)
      <3>1. /\ x \in Encodings[d - 1][Stream("INTEGER", Section(src, Halves[1], Bits("BIGINT")), nulls, AutoScheme, junk)]
            /\ y \in Encodings[d - 1][Stream("INTEGER", Section(src, Halves[2], Bits("BIGINT")), nulls, AutoScheme, junk)]
        BY <1>3, <2>2, Zenon
      <3>2. IsStream(d, "BIGINT", src, nulls, force)
        BY <1>2, <2>3, Zenon
      <3>. QED
        BY <3>1, <3>2, Bp64Kept, Zenon
    <2>5. NotDecimal(e)
      BY <2>2 DEF NotDecimal
    <2>. QED
      BY <1>1, <2>2, <2>3, <2>4, <2>5, GoodIs, Zenon
  <1>5. CASE c = "SUB_INT_SPLIT"
    <2>1. e \in SplitEncodings(subs, s)
      BY <1>3, <1>5 DEF EncodingsBy
    <2>2. e = Plain("RAW", src) \/ \E plan \in Plans(Bits(type)) : \E p \in PartsOf(subs, s, plan) :
              e = [scheme |-> "SUB_INT_SPLIT", sections |-> plan, parts |-> p]
      BY <1>1, <2>1 DEF SplitEncodings
    <2>3. type # "DOUBLE" /\ d \in Nat
      BY <1>1, <1>5, RunnableIs, DepthIs
    <2>4. CASE e = Plain("RAW", src)
      <3>1. Kept(d, Plain("RAW", src), type, src, nulls)
        <4>1. "RAW" \in {"UNCOMPRESSED", "RAW", "BP", "DOUBLE_BP"}
          OBVIOUS
        <4>. QED
          BY <1>2, <2>3, <4>1, PlainKept, Zenon
      <3>2. NotDecimal(e)
        BY <2>4 DEF Plain, NotDecimal
      <3>. QED
        BY <1>1, <2>4, <3>1, <3>2, GoodIs, Zenon
    <2>5. ASSUME NEW plan \in Plans(Bits(type)), NEW p \in PartsOf(subs, s, plan),
                 e = [scheme |-> "SUB_INT_SPLIT", sections |-> plan, parts |-> p]
          PROVE  Good(d, e, s.type, s.src, s.nulls)
      <3>1. p \in PartsOf(Encodings[d - 1], Stream(type, src, nulls, force, junk), plan)
        BY <1>2, <1>3, Zenon
      <3>2. Kept(d, [scheme |-> "SUB_INT_SPLIT", sections |-> plan, parts |-> p], type, src, nulls)
        BY <1>2, <2>3, <3>1, SplitKept, Zenon
      <3>3. NotDecimal(e)
        BY <2>5 DEF NotDecimal
      <3>. QED
        BY <1>1, <2>5, <3>2, <3>3, GoodIs, Zenon
    <2>. QED
      BY <2>2, <2>4, <2>5, Zenon
  <1>. QED
    BY <1>4, <1>5

LEMMA DecimalGood ==
    ASSUME NEW d \in 1..CascadeDepth, AllKept(d - 1), NEW s, StreamOK(d, s), s.src # <<>>, NEW c, Runnable(d, s, c),
           c \in {"PSEUDODECIMAL"}, NEW e \in EncodingsBy(c, Encodings[d - 1], s)
    PROVE  Good(d, e, s.type, s.src, s.nulls)
  <1>10. PICK type : s.type = type
    OBVIOUS
  <1>11. PICK src : s.src = src
    OBVIOUS
  <1>12. PICK nulls : s.nulls = nulls
    OBVIOUS
  <1>13. PICK force : s.force = force
    OBVIOUS
  <1>14. PICK junk \in Int : s.junk = junk
    BY Zenon DEF StreamOK
  <1>1. s.type = type /\ s.src = src /\ s.nulls = nulls /\ s.force = force /\ s.junk = junk
    BY <1>10, <1>11, <1>12, <1>13, <1>14
  <1>2. IsStream(d, type, src, nulls, force)
    BY <1>1, Zenon DEF StreamOK
  <1>3. PICK subs : subs = Encodings[d - 1]
    OBVIOUS
  <1>4. e \in DecimalEncodings(subs, s)
    BY <1>3 DEF EncodingsBy
  <1>5. PICK x : x = Decimals(src)
    OBVIOUS
  <1>6. PICK m \in subs[Stream("INTEGER", x.numbers, {}, AutoScheme, junk)],
             y \in subs[Stream("INTEGER", x.exponents, {}, AutoScheme, junk)],
             p \in subs[Stream("DOUBLE", x.patches, {}, AutoScheme, junk)] : e = DecimalStream(x, m, y, p)
    BY <1>1, <1>4, <1>5 DEF DecimalEncodings, DecimalStream
  <1>7. type = "DOUBLE"
    BY <1>1, RunnableIs
  <1>8. DecimalsOf(x, src)
    <2>1. src \in Seq(Int)
      BY <1>2, StreamIs, Zenon
    <2>. QED
      BY <1>5, <2>1, DecimalsAre, Zenon
  <1>9. Good(d, DecimalStream(x, m, y, p), "DOUBLE", src, nulls)
    <2>1. /\ m \in Encodings[d - 1][Stream("INTEGER", x.numbers, {}, AutoScheme, junk)]
          /\ y \in Encodings[d - 1][Stream("INTEGER", x.exponents, {}, AutoScheme, junk)]
          /\ p \in Encodings[d - 1][Stream("DOUBLE", x.patches, {}, AutoScheme, junk)]
      BY <1>3, <1>6, Zenon
    <2>2. IsStream(d, "DOUBLE", src, nulls, force)
      BY <1>2, <1>7, Zenon
    <2>. QED
      BY <1>8, <2>1, <2>2, DecimalKept, Zenon
  <1>. QED
    BY <1>1, <1>6, <1>7, <1>9, Zenon

LEMMA ByGood ==
    ASSUME NEW d \in 1..CascadeDepth, AllKept(d - 1), NEW s, StreamOK(d, s), s.src # <<>>, NEW c, Runnable(d, s, c),
           NEW e \in EncodingsBy(c, Encodings[d - 1], s)
    PROVE  Good(d, e, s.type, s.src, s.nulls)
  <1>1. \/ c \in {"ONE_VALUE", "BP", "DOUBLE_BP", "PFOR_DELTA", "DICTIONARY_8", "TRUNCATION_8"}
        \/ c \in {"RLE", "DICT", "FREQUENCY", "FOR"}
        \/ c \in {"BP64", "SUB_INT_SPLIT"}
        \/ c \in {"PSEUDODECIMAL"}
    BY RunnableIs
  <1>2. CASE c \in {"ONE_VALUE", "BP", "DOUBLE_BP", "PFOR_DELTA", "DICTIONARY_8", "TRUNCATION_8"}
    <2>1. Flat(c)
      BY <1>2 DEF Flat
    <2>. QED
      BY <2>1, FlatGood, Zenon
  <1>3. CASE c \in {"RLE", "DICT", "FREQUENCY", "FOR"}
    BY <1>3, DeepGood, Zenon
  <1>4. CASE c \in {"BP64", "SUB_INT_SPLIT"}
    BY <1>4, SectionsGood, Zenon
  <1>5. CASE c \in {"PSEUDODECIMAL"}
    BY <1>5, DecimalGood, Zenon
  <1>. QED
    BY <1>1, <1>2, <1>3, <1>4, <1>5, Zenon

LEMMA EncodingIs ==
    ASSUME NEW level, NEW subs, NEW s, NEW e \in EncodingsAt(level, subs, s)
    PROVE  \/ /\ e = OneValue(s.src) /\ level = CascadeDepth
              /\ s.nulls = RowsOf(s.src) \/ Cardinality(Keys(s.src)) = 1
           \/ e = Plain("UNCOMPRESSED", s.src)
           \/ /\ level # 0 /\ s.src # <<>>
              /\ \E c : Runnable(level, s, c) /\ e \in EncodingsBy(c, subs, s)
  <1>1. CASE level = CascadeDepth /\ (s.nulls = RowsOf(s.src) \/ Cardinality(Keys(s.src)) = 1)
    BY <1>1, Zenon DEF EncodingsAt
  <1>2. CASE ~(level = CascadeDepth /\ (s.nulls = RowsOf(s.src) \/ Cardinality(Keys(s.src)) = 1))
    <2>1. e \in {Plain("UNCOMPRESSED", s.src)} \cup
                IF level = 0 \/ s.src = <<>> THEN {}
                ELSE UNION {EncodingsBy(c, subs, s) :
                              c \in IF s.force = AutoScheme THEN Usable(level, s) ELSE {s.force}}
      BY <1>2, Zenon DEF EncodingsAt
    <2>2. CASE e = Plain("UNCOMPRESSED", s.src)
      BY <2>2
    <2>3. CASE e # Plain("UNCOMPRESSED", s.src)
      <3>1. level # 0 /\ s.src # <<>>
        BY <2>1, <2>3
      <3>2. PICK set : set = IF s.force = AutoScheme THEN Usable(level, s) ELSE {s.force}
        OBVIOUS
      <3>3. e \in UNION {EncodingsBy(c, subs, s) : c \in set}
        BY <2>1, <2>3, <3>1, <3>2, Zenon
      <3>4. PICK c \in set : e \in EncodingsBy(c, subs, s)
        BY <3>3, Zenon
      <3>5. Runnable(level, s, c)
        BY <3>2, <3>4, Zenon DEF Runnable
      <3>. QED
        BY <3>1, <3>4, <3>5, Zenon
    <2>. QED
      BY <2>2, <2>3, Zenon
  <1>. QED
    BY <1>1, <1>2, Zenon

LEMMA LevelGood ==
    ASSUME NEW d \in 0..CascadeDepth, d # 0 => AllKept(d - 1), NEW s \in Streams, StreamOK(d, s), NEW e \in Encodings[d][s]
    PROVE  Good(d, e, s.type, s.src, s.nulls)
  <1>1. d \in Nat
    BY DepthIs
  <1>2. IsStream(d, s.type, s.src, s.nulls, s.force)
    BY Zenon DEF StreamOK
  <1>3. e \in EncodingsAt(d, IF d = 0 THEN <<>> ELSE Encodings[d - 1], s)
    BY <1>1, EncodingsOf, Zenon
  <1>4. CASE /\ e = OneValue(s.src) /\ d = CascadeDepth
             /\ s.nulls = RowsOf(s.src) \/ Cardinality(Keys(s.src)) = 1
    <2>1. s.src # <<>>
      BY <1>2, <1>4, Zenon DEF IsStream
    <2>2. DOMAIN s.src = 1..Len(s.src)
      BY <1>2, StreamIs, Zenon
    <2>3. s.nulls = 1..Len(s.src) \/ Cardinality(Keys(s.src)) = 1
      BY <1>4, <2>2, Zenon DEF RowsOf
    <2>4. Kept(d, OneValue(s.src), s.type, s.src, s.nulls)
      BY <1>1, <1>2, <2>1, <2>3, OneValueKept, Zenon
    <2>5. NotDecimal(e)
      BY <1>4 DEF OneValue, NotDecimal
    <2>. QED
      BY <1>4, <2>4, <2>5, GoodIs, Zenon
  <1>5. CASE e = Plain("UNCOMPRESSED", s.src)
    <2>1. "UNCOMPRESSED" \in {"UNCOMPRESSED", "RAW", "BP", "DOUBLE_BP"}
      OBVIOUS
    <2>2. Kept(d, Plain("UNCOMPRESSED", s.src), s.type, s.src, s.nulls)
      BY <1>1, <1>2, <2>1, PlainKept, Zenon
    <2>3. NotDecimal(e)
      BY <1>5 DEF Plain, NotDecimal
    <2>. QED
      BY <1>5, <2>2, <2>3, GoodIs, Zenon
  <1>6. CASE /\ d # 0 /\ s.src # <<>>
             /\ \E c : Runnable(d, s, c) /\ e \in EncodingsBy(c, IF d = 0 THEN <<>> ELSE Encodings[d - 1], s)
    <2>1. d \in 1..CascadeDepth
      BY <1>6, DepthIs
    <2>2. PICK c : Runnable(d, s, c) /\ e \in EncodingsBy(c, Encodings[d - 1], s)
      BY <1>6, Zenon
    <2>. QED
      BY <1>6, <2>1, <2>2, ByGood, Zenon
  <1>. QED
    BY <1>3, <1>4, <1>5, <1>6, EncodingIs, Zenon

LEMMA AllAreKept == AllKept(CascadeDepth) /\ (CascadeDepth # 0 => AllKept(CascadeDepth - 1))
  <1>1. PICK n \in Nat : n = CascadeDepth
    BY DepthIs
  <1>. DEFINE S == {d \in 0..n : AllKept(d)}
  <1>2. ASSUME NEW d \in 0..n, d # 0 => AllKept(d - 1) PROVE AllKept(d)
    <2>1. ASSUME NEW s \in Streams, StreamOK(d, s), NEW e \in Encodings[d][s]
          PROVE  Kept(d, e, s.type, s.src, s.nulls)
      <3>1. d \in 0..CascadeDepth
        BY <1>1
      <3>2. Good(d, e, s.type, s.src, s.nulls)
        BY <1>2, <2>1, <3>1, LevelGood, Zenon
      <3>. QED
        BY <3>2, Zenon DEF Good
    <2>. QED
      BY <2>1, Zenon DEF AllKept
  <1>3. 0 \in S
    BY <1>2
  <1>4. ASSUME NEW d \in 0..(n - 1), d \in S PROVE d + 1 \in S
    <2>1. d + 1 \in 0..n /\ (d + 1) - 1 = d
      OBVIOUS
    <2>2. AllKept(d)
      BY <1>4
    <2>3. AllKept(d + 1)
      BY <1>2, <2>1, <2>2
    <2>. QED
      BY <2>1, <2>3
  <1>5. 0..n \subseteq S
    <2>. HIDE DEF S
    <2>. QED
      BY <1>3, <1>4, IntervalInduction
  <1>6. n \in 0..n /\ (n # 0 => n - 1 \in 0..n)
    OBVIOUS
  <1>. QED
    BY <1>1, <1>5, <1>6

\* What a chunk is encoded to keeps it.
LEMMA ChunkGood ==
    ASSUME NEW s \in Streams, StreamOK(CascadeDepth, s), NEW e \in Encodings[CascadeDepth][s]
    PROVE  Good(CascadeDepth, e, s.type, s.src, s.nulls)
  <1>1. CascadeDepth \in 0..CascadeDepth
    BY DepthIs
  <1>. QED
    BY <1>1, AllAreKept, LevelGood, Zenon

---------------------------------------------------------------------------
(* The chunks of a part and where their rows start *)

\* The rows of the first m chunks.
RowsUpTo(p, m) == MapThenSumSet(LAMBDA j : Len(p[j].src), 1..m)

SourceLengths(p, c, m) == \A k \in 1..m : Len(p[k].src) = c[k]

LEMMA RowsUpToIs ==
    ASSUME NEW n \in Nat, NEW p, NEW c \in [1..n -> Nat],
           SourceLengths(p, c, n), NEW total, RunningSum(c, n, total)
    PROVE  RowsUpTo(p, n) = total[n]
  <1>. DEFINE Cost(k) == Len(p[k].src)
              Fold(f) == f = [z \in SUBSET (1..n) |->
                                IF z = {} THEN 0
                                ELSE Cost(CHOOSE x \in z : TRUE) + f[z \ {CHOOSE x \in z : TRUE}]]
              fold == CHOOSE f : Fold(f)
  <1>2. RowsUpTo(p, n) = fold[1..n]
    BY Zenon DEF RowsUpTo, MapThenSumSet, MapThenFoldSet
  <1>3. \A k \in 1..n : Cost(k) = c[k]
    BY DEF SourceLengths
  <1>. HIDE DEF Cost
  <1>4. \A z \in SUBSET (1..n) : z # {} => Cost(CHOOSE x \in z : TRUE) = c[CHOOSE x \in z : TRUE]
    <2>1. \A z \in SUBSET (1..n) : z # {} => (CHOOSE x \in z : TRUE) \in 1..n
      OBVIOUS
    <2>. QED
      BY <1>3, <2>1, Zenon
  <1>5. PICK sum : sum = [z \in SUBSET (1..n) |->
                             IF z = {} THEN 0
                             ELSE c[CHOOSE x \in z : TRUE] + sum[z \ {CHOOSE x \in z : TRUE}]]
    BY FoldExists, Zenon
  <1>6. Fold(sum)
    <2>1. PICK h : h = [z \in SUBSET (1..n) |->
                          IF z = {} THEN 0
                          ELSE Cost(CHOOSE x \in z : TRUE) + sum[z \ {CHOOSE x \in z : TRUE}]]
      OBVIOUS
    <2>2. ASSUME NEW z \in SUBSET (1..n)
          PROVE  sum[z] = h[z]
      <3>1. CASE z = {}
        <4>1. sum[z] = 0 /\ h[z] = 0
          BY <1>5, <2>1, <3>1, Zenon
        <4>. QED
          BY <4>1
      <3>2. CASE z # {}
        <4>1. Cost(CHOOSE x \in z : TRUE) = c[CHOOSE x \in z : TRUE]
          BY <1>4, <3>2, Zenon
        <4>2. sum[z] = c[CHOOSE x \in z : TRUE] + sum[z \ {CHOOSE x \in z : TRUE}]
          BY <1>5, <3>2, Zenon
        <4>3. h[z] = Cost(CHOOSE x \in z : TRUE) + sum[z \ {CHOOSE x \in z : TRUE}]
          BY <2>1, <3>2, Zenon
        <4>. QED
          BY <4>1, <4>2, <4>3, Zenon
      <3>. QED
        BY <3>1, <3>2
    <2>3. sum = h
      BY <1>5, <2>1, <2>2, Zenon
    <2>. QED
      BY <2>1, <2>3, Zenon
  <1>7. Fold(fold)
    <2>. HIDE DEF Fold
    <2>. QED
      BY <1>6, Zenon
  <1>. HIDE DEF fold
  <1>8. SumsTo(c, n, fold)
    <2>1. ASSUME NEW z \in SUBSET (1..n)
          PROVE  fold[z] = IF z = {} THEN 0
                           ELSE c[CHOOSE x \in z : TRUE] + fold[z \ {CHOOSE x \in z : TRUE}]
      <3>1. fold[z] = IF z = {} THEN 0
                      ELSE Cost(CHOOSE x \in z : TRUE) + fold[z \ {CHOOSE x \in z : TRUE}]
        BY <1>7, Zenon
      <3>2. CASE z = {}
        BY <3>1, <3>2, Zenon
      <3>3. CASE z # {}
        <4>1. Cost(CHOOSE x \in z : TRUE) = c[CHOOSE x \in z : TRUE]
          BY <1>4, <3>3, Zenon
        <4>2. fold[z] = Cost(CHOOSE x \in z : TRUE) + fold[z \ {CHOOSE x \in z : TRUE}]
          BY <3>1, <3>3, Zenon
        <4>. QED
          BY <3>3, <4>1, <4>2, Zenon
      <3>. QED
        BY <3>2, <3>3
    <2>. QED
      BY <2>1, Zenon DEF SumsTo
  <1>9. fold[1..n] = total[n]
    BY <1>8, FoldIsSum
  <1>. QED
    BY <1>2, <1>9, Zenon

\* Where the chunks of a part end.
Bounds(p, n, b) ==
    /\ b \in [0..n -> Nat] /\ b[0] = 0
    /\ \A k \in 1..n : Len(p[k].src) \in Nat \ {0} /\ b[k] = b[k - 1] + Len(p[k].src)

LEMMA BoundIs ==
    ASSUME NEW n \in Nat, NEW p, NEW b, Bounds(p, n, b), NEW m \in 0..n
    PROVE  RowsUpTo(p, m) = b[m] /\ b[m] \in Nat
  <1>1. b \in [0..n -> Nat] /\ b[0] = 0 /\ \A k \in 1..n : Len(p[k].src) \in Nat \ {0} /\ b[k] = b[k - 1] + Len(p[k].src)
    BY Zenon DEF Bounds
  <1>2. PICK c : c = [k \in 1..m |-> Len(p[k].src)]
    OBVIOUS
  <1>3. PICK t : t = [k \in 0..m |-> b[k]]
    OBVIOUS
  <1>4. c \in [1..m -> Nat] /\ SourceLengths(p, c, m)
    BY <1>1, <1>2 DEF SourceLengths
  <1>5. RunningSum(c, m, t)
    BY <1>1, <1>2, <1>3 DEF RunningSum
  <1>6. m \in Nat
    OBVIOUS
  <1>7. RowsUpTo(p, m) = t[m]
    BY <1>4, <1>5, <1>6, RowsUpToIs, Zenon
  <1>8. m \in 0..m
    BY <1>6
  <1>. QED
    BY <1>1, <1>3, <1>7, <1>8

LEMMA BoundsExist ==
    ASSUME NEW n \in Nat, NEW p, \A k \in 1..n : Len(p[k].src) \in Nat \ {0}
    PROVE  \E b : Bounds(p, n, b)
  <1>1. PICK c : c = [k \in 1..n |-> Len(p[k].src)]
    OBVIOUS
  <1>2. c \in [1..n -> Nat]
    BY <1>1
  <1>3. PICK b : RunningSum(c, n, b)
    BY <1>2, RunningSumExists, Zenon
  <1>. QED
    BY <1>1, <1>3 DEF Bounds, RunningSum

\* The starts that the reader computes.
LEMMA StartsNow == (\A k : ChunkStart(k) = RowsUpTo(part, k - 1)) /\ Total = RowsUpTo(part, (Len(part) + 1) - 1)
  BY Zenon DEF Total, ChunkStart, RowsIn, RowsUpTo, MapThenSumSet, MapThenFoldSet

LEMMA TotalNext == Total' = RowsUpTo(part', (Len(part') + 1) - 1)
  BY Zenon DEF Total, ChunkStart, RowsIn, RowsUpTo, MapThenSumSet, MapThenFoldSet

LEMMA BoundsGrow ==
    ASSUME NEW n \in Nat, NEW p, NEW b, Bounds(p, n, b)
    PROVE  \A j \in 0..n : \A i \in 0..j : b[i] <= b[j]
  <1>1. b \in [0..n -> Nat] /\ \A k \in 1..n : b[k - 1] <= b[k]
    <2>1. ASSUME NEW k \in 1..n PROVE b[k - 1] <= b[k]
      <3>1. Len(p[k].src) \in Nat /\ b[k] = b[k - 1] + Len(p[k].src) /\ b[k - 1] \in Nat
        BY DEF Bounds
      <3>. QED
        BY <3>1
    <2>. QED
      BY <2>1 DEF Bounds
  <1>. DEFINE S == {j \in 0..n : \A i \in 0..j : b[i] <= b[j]}
  <1>2. 0 \in S
    BY <1>1
  <1>3. ASSUME NEW j \in 0..(n - 1), j \in S PROVE j + 1 \in S
    <2>1. j + 1 \in 1..n /\ (j + 1) - 1 = j
      OBVIOUS
    <2>2. b[j] <= b[j + 1] /\ b[j] \in Nat /\ b[j + 1] \in Nat
      BY <1>1, <2>1
    <2>3. ASSUME NEW i \in 0..(j + 1) PROVE b[i] <= b[j + 1]
      <3>1. i = j + 1 \/ i \in 0..j
        OBVIOUS
      <3>2. CASE i = j + 1
        BY <2>2, <3>2
      <3>3. CASE i \in 0..j
        <4>1. b[i] <= b[j] /\ b[i] \in Nat
          BY <1>1, <1>3, <3>3
        <4>. QED
          BY <2>2, <4>1
      <3>. QED
        BY <3>1, <3>2, <3>3
    <2>. QED
      BY <2>1, <2>3
  <1>4. 0..n \subseteq S
    <2>. HIDE DEF S
    <2>. QED
      BY <1>2, <1>3, IntervalInduction
  <1>. QED
    BY <1>4

\* Every row is in one chunk.
LEMMA RowIsInChunk ==
    ASSUME NEW n \in Nat, NEW p, NEW b, Bounds(p, n, b), NEW pos \in 0..(b[n] - 1)
    PROVE  \E k \in 1..n : b[k - 1] <= pos /\ pos < b[k]
  <1>1. b \in [0..n -> Nat] /\ b[0] = 0
    BY DEF Bounds
  <1>. DEFINE T == {m \in 0..n : pos < b[m]}
  <1>2. T \subseteq Nat /\ n \in T
    BY <1>1
  <1>3. PICK m \in T : \A j \in T : m <= j
    <2>1. T # {}
      BY <1>2
    <2>. HIDE DEF T
    <2>. QED
      BY <1>2, <2>1, LeastNumber
  <1>4. m \in 1..n
    BY <1>1, <1>3
  <1>5. b[m - 1] <= pos
    <2>1. m - 1 \in 0..n /\ m - 1 \notin T
      BY <1>3, <1>4
    <2>. QED
      BY <1>1, <2>1
  <1>. QED
    BY <1>3, <1>4, <1>5

LEMMA ChunkOfIs ==
    ASSUME NEW n \in Nat, n = Len(part), DOMAIN part = 1..n, NEW b, Bounds(part, n, b), NEW pos \in 0..(b[n] - 1)
    PROVE  ChunkOf(pos) \in 1..n /\ b[ChunkOf(pos) - 1] <= pos /\ pos < b[ChunkOf(pos)]
  <1>1. b \in [0..n -> Nat] /\ b[0] = 0
    BY DEF Bounds
  <1>2. PICK k \in 1..n : b[k - 1] <= pos /\ pos < b[k]
    BY RowIsInChunk
  <1>3. \A j \in 1..n : ChunkStart(j) = b[j - 1]
    <2>1. ASSUME NEW j \in 1..n PROVE ChunkStart(j) = b[j - 1]
      <3>1. PICK m \in 0..n : m = j - 1
        OBVIOUS
      <3>2. RowsUpTo(part, m) = b[m]
        BY <3>1, BoundIs, Zenon
      <3>3. ChunkStart(j) = RowsUpTo(part, j - 1)
        BY StartsNow, Zenon
      <3>. QED
        BY <3>1, <3>2, <3>3
    <2>. QED
      BY <2>1
  <1>4. PICK S : S = {j \in 1..n : b[j - 1] <= pos}
    OBVIOUS
  <1>5. ChunkOf(pos) = Max(S)
    <2>1. {j \in 1..n : ChunkStart(j) <= pos} = S
      BY <1>3, <1>4
    <2>. QED
      BY <2>1, Zenon DEF ChunkOf
  <1>6. k \in S /\ \A y \in S : k >= y
    <2>1. ASSUME NEW y \in S, y > k PROVE FALSE
      <3>1. k \in 0..(y - 1) /\ y - 1 \in 0..n
        BY <1>4, <2>1
      <3>2. b[k] <= b[y - 1]
        BY <3>1, BoundsGrow
      <3>3. b[y - 1] <= pos /\ b[y - 1] \in Nat /\ b[k] \in Nat
        BY <1>1, <1>4, <3>1
      <3>. QED
        BY <1>2, <3>2, <3>3
    <2>. QED
      BY <1>2, <1>4, <2>1
  <1>7. Max(S) \in S /\ \A y \in S : Max(S) >= y
    BY <1>6, Zenon DEF Max
  <1>8. Max(S) = k
    <2>1. PICK x \in S : x = Max(S)
      BY <1>7
    <2>2. x \in 1..n /\ x >= k /\ k >= x
      BY <1>4, <1>6, <1>7, <2>1
    <2>. QED
      BY <2>1, <2>2
  <1>. QED
    BY <1>2, <1>5, <1>8

\* What a slot list of the reader is: the positions of one chunk, in order.
SlotsAre(list, chunk, m, k) ==
    /\ list \in Seq(Nat)
    /\ \A j \in 1..Len(list) : list[j] \in 1..m /\ chunk[list[j]] = k
    /\ \A i \in 1..m : chunk[i] = k => \E j \in 1..Len(list) : list[j] = i
    /\ \A i \in 1..Len(list), j \in 1..Len(list) : list[i] = list[j] => i = j

LEMMA SlotsOfIs ==
    ASSUME NEW m \in Nat, NEW positions, DOMAIN positions = 1..m, NEW chunk,
           \A i \in 1..m : chunk[i] = ChunkOf(positions[i]), NEW k
    PROVE  SlotsAre(SlotsOf(k, positions), chunk, m, k)
  <1>1. PICK rows \in SUBSET (1..m) : rows = {i \in 1..m : chunk[i] = k}
    OBVIOUS
  <1>2. SlotsOf(k, positions) = Ranked(rows, <)
    <2>1. {i \in 1..m : ChunkOf(positions[i]) = k} = rows
      BY <1>1
    <2>. QED
      BY <2>1, Zenon DEF SlotsOf
  <1>3. PICK c \in Nat : c = Cardinality(rows)
    BY RowsAre
  <1>4. PICK list : list = Ranked(rows, <)
    OBVIOUS
  <1>5. IsList(list, rows) /\ \A i \in 1..c, j \in 1..c : i < j => list[i] < list[j]
    BY <1>3, <1>4, RowsAre
  <1>6. list \in [1..c -> rows] /\ \A i \in rows : \E j \in 1..c : list[j] = i
    BY <1>3, <1>5, Zenon DEF IsList
  <1>7. list \in Seq(Nat) /\ Len(list) = c
    BY <1>1, <1>6
  <1>8. ASSUME NEW i \in 1..c, NEW j \in 1..c, list[i] = list[j] PROVE i = j
    <2>1. list[i] \in Int /\ list[j] \in Int
      BY <1>1, <1>6
    <2>. QED
      BY <1>5, <1>8, <2>1
  <1>9. \A j \in 1..c : list[j] \in 1..m /\ chunk[list[j]] = k
    BY <1>1, <1>6
  <1>10. \A i \in 1..m : chunk[i] = k => \E j \in 1..c : list[j] = i
    BY <1>1, <1>6
  <1>11. SlotsAre(list, chunk, m, k)
    BY <1>7, <1>8, <1>9, <1>10 DEF SlotsAre
  <1>. QED
    BY <1>2, <1>4, <1>11, Zenon

\* What the slots of all chunks are.
SlotListsAre(slots, chunk, m, n) ==
    /\ DOMAIN slots = 1..n /\ \A k \in 1..n : SlotsAre(slots[k], chunk, m, k)
    /\ \A i \in 1..m : chunk[i] \in 1..n

ScatteredAs(values, answers, slots, chunk, m) ==
    /\ Len(values) = m
    /\ \A i \in 1..m : \E j \in 1..Len(slots[chunk[i]]) :
          slots[chunk[i]][j] = i /\ values[i] = answers[chunk[i]][j]

LEMMA ScatteredIs ==
    ASSUME NEW n \in Nat, NEW m \in Nat, NEW slots, NEW chunk, SlotListsAre(slots, chunk, m, n), NEW answers
    PROVE  ScatteredAs(Scattered(answers, slots, m), answers, slots, chunk, m)
  <1>1. DOMAIN slots = 1..n /\ \A k \in 1..n : SlotsAre(slots[k], chunk, m, k)
    BY Zenon DEF SlotListsAre
  <1>2. \A i \in 1..m : chunk[i] \in 1..n
    BY Zenon DEF SlotListsAre
  <1>3. PICK s : s = Scattered(answers, slots, m)
    OBVIOUS
  <1>4. DOMAIN s = 1..m /\ Len(s) = m
    BY <1>3 DEF Scattered
  <1>5. ASSUME NEW i \in 1..m
        PROVE  \E j \in 1..Len(slots[chunk[i]]) : slots[chunk[i]][j] = i /\ s[i] = answers[chunk[i]][j]
    <2>1. PICK k \in 1..n : k = chunk[i]
      BY <1>2
    <2>2. ASSUME NEW c \in 1..n PROVE Len(slots[c]) \in Nat /\ DOMAIN slots[c] = 1..Len(slots[c])
      <3>1. SlotsAre(slots[c], chunk, m, c)
        BY <1>1
      <3>2. slots[c] \in Seq(Nat)
        BY <3>1, Zenon DEF SlotsAre
      <3>. QED
        BY <3>2
    <2>3. /\ \A j \in 1..Len(slots[k]) : slots[k][j] \in 1..m /\ chunk[slots[k][j]] = k
          /\ \E j \in 1..Len(slots[k]) : slots[k][j] = i
          /\ \A j \in 1..Len(slots[k]), l \in 1..Len(slots[k]) : slots[k][j] = slots[k][l] => j = l
      <3>1. SlotsAre(slots[k], chunk, m, k)
        BY <1>1
      <3>. QED
        BY <2>1, <3>1, Zenon DEF SlotsAre
    <2>4. ASSUME NEW c \in 1..n, NEW j \in 1..Len(slots[c]), slots[c][j] = i PROVE c = k
      <3>1. SlotsAre(slots[c], chunk, m, c)
        BY <1>1
      <3>2. chunk[slots[c][j]] = c
        BY <3>1, Zenon DEF SlotsAre
      <3>. QED
        BY <2>1, <2>4, <3>2
    <2>5. PICK kk : kk = CHOOSE c \in DOMAIN slots : \E j \in DOMAIN slots[c] : slots[c][j] = i
      OBVIOUS
    <2>6. kk = k
      <3>1. \E c \in DOMAIN slots : \E j \in DOMAIN slots[c] : slots[c][j] = i
        BY <1>1, <2>2, <2>3
      <3>2. kk \in DOMAIN slots /\ \E j \in DOMAIN slots[kk] : slots[kk][j] = i
        BY <2>5, <3>1, Zenon
      <3>. QED
        BY <1>1, <2>2, <2>4, <3>2
    <2>7. PICK jj : jj = CHOOSE j \in DOMAIN slots[k] : slots[k][j] = i
      OBVIOUS
    <2>8. jj \in 1..Len(slots[k]) /\ slots[k][jj] = i
      <3>1. \E j \in DOMAIN slots[k] : slots[k][j] = i
        BY <2>2, <2>3
      <3>2. jj \in DOMAIN slots[k] /\ slots[k][jj] = i
        BY <2>7, <3>1, Zenon
      <3>. QED
        BY <2>2, <3>2
    <2>9. s[i] = answers[k][jj]
      BY <1>3, <2>5, <2>6, <2>7, Zenon DEF Scattered
    <2>. QED
      BY <2>1, <2>8, <2>9
  <1>. QED
    BY <1>3, <1>4, <1>5, Zenon DEF ScatteredAs

\* What the part holds of a chunk: an input and one of its encodings.
Written(c) ==
    /\ [type |-> c.type, src |-> c.src, nulls |-> c.nulls] \in Inputs
    /\ \E junk \in Leftovers : c.encoded \in Encodings[CascadeDepth][Stream(c.type, c.src, c.nulls, AutoScheme, junk)]

LEMMA InputIs ==
    ASSUME NEW type, NEW src, NEW nulls, [type |-> type, src |-> src, nulls |-> nulls] \in Inputs
    PROVE  /\ IsStream(CascadeDepth, type, src, nulls, AutoScheme) /\ src # <<>>
           /\ Len(src) \in Nat \ {0} /\ DOMAIN src = 1..Len(src)
  <1>1. PICK c \in Inputs : c = [type |-> type, src |-> src, nulls |-> nulls]
    OBVIOUS
  <1>2. c.type = type /\ c.src = src /\ c.nulls = nulls
    BY <1>1
  <1>3. /\ type \in Types /\ src \in Seq(NumbersOf(type)) /\ nulls \subseteq DOMAIN src
        /\ Len(src) \in 1..(2^(NarrowBits - 1) - 1)
    BY <1>2, InputsAssumption, Zenon
  <1>4. PICK h \in Nat \ {0} : h = 2^(NarrowBits - 1)
    BY HalfOf, WidthsAre
  <1>5. Len(src) \in Nat \ {0} /\ Len(src) < 2^(NarrowBits - 1)
    BY <1>3, <1>4
  <1>6. src # <<>> /\ DOMAIN src = 1..Len(src)
    BY <1>3, <1>5
  <1>. QED
    BY <1>3, <1>5, <1>6, Zenon DEF IsStream

LEMMA WrittenIs ==
    ASSUME NEW c, Written(c)
    PROVE  /\ IsStream(CascadeDepth, c.type, c.src, c.nulls, AutoScheme) /\ c.src # <<>>
           /\ Len(c.src) \in Nat \ {0} /\ DOMAIN c.src = 1..Len(c.src)
           /\ Good(CascadeDepth, c.encoded, c.type, c.src, c.nulls)
  <1>1. /\ IsStream(CascadeDepth, c.type, c.src, c.nulls, AutoScheme) /\ c.src # <<>>
        /\ Len(c.src) \in Nat \ {0} /\ DOMAIN c.src = 1..Len(c.src)
    BY InputIs, Zenon DEF Written
  <1>2. PICK junk \in Leftovers : c.encoded \in Encodings[CascadeDepth][Stream(c.type, c.src, c.nulls, AutoScheme, junk)]
    BY Zenon DEF Written
  <1>3. junk \in Int
    BY <1>2, PoolAssumption
  <1>4. PICK s : s = Stream(c.type, c.src, c.nulls, AutoScheme, junk)
    OBVIOUS
  <1>5. s.type = c.type /\ s.src = c.src /\ s.nulls = c.nulls /\ s.force = AutoScheme /\ s.junk = junk
    BY <1>4 DEF Stream
  <1>6. s \in Streams
    BY <1>1, <1>3, <1>4, StreamIs, Zenon
  <1>7. StreamOK(CascadeDepth, s)
    BY <1>1, <1>3, <1>4, <1>5, Zenon DEF StreamOK
  <1>8. Good(CascadeDepth, c.encoded, s.type, s.src, s.nulls)
    BY <1>2, <1>4, <1>6, <1>7, ChunkGood, Zenon
  <1>. QED
    BY <1>1, <1>5, <1>8, Zenon

\* A chunk's answer to the positions in it.
LEMMA ChunkAnswers ==
    ASSUME NEW c, Written(c), c.type # "DOUBLE", NEW junk \in Int, NEW locals, IsLookup(locals, Len(c.src))
    PROVE  PicksAs(Gather[CascadeDepth][c.encoded][Lookup(c.type, c.nulls, Len(c.src), junk, locals)], c.src, c.nulls, locals)
  <1>1. Good(CascadeDepth, c.encoded, c.type, c.src, c.nulls)
    BY WrittenIs, Zenon
  <1>2. Picks(CascadeDepth, c.encoded, c.type, c.src, c.nulls)
    BY <1>1, Zenon DEF Good, Kept
  <1>3. locals \in Seq(Nat)
    BY Zenon DEF IsLookup
  <1>. QED
    BY <1>2, <1>3, Zenon DEF Picks

\* The positions of a chunk's slots, counted from its first row.
LocalsOf(slots, positions, k) == [j \in DOMAIN slots[k] |-> positions[slots[k][j]] - ChunkStart(k)]

AnswersOf(slots, positions, junk) ==
    [k \in DOMAIN part |->
        IF slots[k] = <<>> THEN <<>>
        ELSE Gather[CascadeDepth][part[k].encoded]
                   [Lookup(part[k].type, part[k].nulls, RowsIn(k), junk, LocalsOf(slots, positions, k))]]

\* The part and the positions asked of it.
PartAsked(n, b, m, positions) ==
    /\ DOMAIN part = 1..n /\ Len(part) = n /\ Bounds(part, n, b)
    /\ \A k \in 1..n : Written(part[k]) /\ part[k].type # "DOUBLE"
    /\ positions \in [1..m -> 0..(b[n] - 1)] /\ Len(positions) = m

\* The row of a chunk that a position asks for.
AnswersRow(values, b, n, positions, i) ==
    \E k \in 1..n : \E x \in 1..Len(part[k].src) :
        /\ positions[i] + 1 = b[k - 1] + x
        /\ x \notin part[k].nulls => values[i] = part[k].src[x]

AnswersAll(values, b, n, positions, m) ==
    Len(values) = m /\ \A i \in 1..m : AnswersRow(values, b, n, positions, i)

LEMMA StartIs ==
    ASSUME NEW n \in Nat, NEW b, Bounds(part, n, b), NEW k \in 1..n
    PROVE  ChunkStart(k) = b[k - 1] /\ b[k - 1] \in Nat
  <1>1. PICK m \in 0..n : m = k - 1
    OBVIOUS
  <1>2. RowsUpTo(part, m) = b[m] /\ b[m] \in Nat
    BY <1>1, BoundIs, Zenon
  <1>3. ChunkStart(k) = RowsUpTo(part, k - 1)
    BY StartsNow, Zenon
  <1>. QED
    BY <1>1, <1>2, <1>3

LEMMA PositionsAnswered ==
    ASSUME NEW n \in Nat, NEW b, NEW m \in Nat, NEW positions, PartAsked(n, b, m, positions), NEW junk \in Int
    PROVE  AnswersAll(GatherResult(positions, junk), b, n, positions, m)
  <1>1. DOMAIN part = 1..n /\ n = Len(part) /\ Bounds(part, n, b)
    BY DEF PartAsked
  <1>2. \A k \in 1..n : Written(part[k]) /\ part[k].type # "DOUBLE"
    BY Zenon DEF PartAsked
  <1>3. positions \in [1..m -> 0..(b[n] - 1)] /\ Len(positions) = m
    BY Zenon DEF PartAsked
  <1>4. b \in [0..n -> Nat] /\ \A k \in 1..n : Len(part[k].src) \in Nat \ {0} /\ b[k] = b[k - 1] + Len(part[k].src)
    BY <1>1, Zenon DEF Bounds
  <1>5. PICK chunk : chunk = [i \in 1..m |-> ChunkOf(positions[i])]
    OBVIOUS
  <1>6. PICK slots : slots = [k \in DOMAIN part |-> SlotsOf(k, positions)]
    OBVIOUS
  <1>7. PICK answers : answers = AnswersOf(slots, positions, junk)
    OBVIOUS
  <1>8. GatherResult(positions, junk) = Scattered(answers, slots, m)
    <2>1. GatherResult(positions, junk) = Scattered(AnswersOf(slots, positions, junk), slots, Len(positions))
      BY <1>6, Zenon DEF GatherResult, AnswersOf, LocalsOf
    <2>. QED
      BY <1>3, <1>7, <2>1, Zenon
  <1>9. ASSUME NEW i \in 1..m
        PROVE  chunk[i] \in 1..n /\ b[chunk[i] - 1] <= positions[i] /\ positions[i] < b[chunk[i]]
    <2>1. PICK pos \in 0..(b[n] - 1) : pos = positions[i]
      BY <1>3
    <2>2. ChunkOf(pos) \in 1..n /\ b[ChunkOf(pos) - 1] <= pos /\ pos < b[ChunkOf(pos)]
      BY <1>1, <2>1, ChunkOfIs, Zenon
    <2>3. chunk[i] = ChunkOf(pos)
      BY <1>5, <2>1
    <2>. QED
      BY <2>1, <2>2, <2>3
  <1>10. SlotListsAre(slots, chunk, m, n)
    <2>1. ASSUME NEW k \in 1..n PROVE SlotsAre(slots[k], chunk, m, k)
      <3>1. slots[k] = SlotsOf(k, positions)
        BY <1>1, <1>6, Zenon
      <3>2. DOMAIN positions = 1..m /\ \A i \in 1..m : chunk[i] = ChunkOf(positions[i])
        BY <1>3, <1>5
      <3>3. SlotsAre(SlotsOf(k, positions), chunk, m, k)
        BY <3>2, SlotsOfIs, Zenon
      <3>. QED
        BY <3>1, <3>3, Zenon
    <2>2. DOMAIN slots = 1..n
      BY <1>1, <1>6
    <2>. QED
      BY <1>9, <2>1, <2>2 DEF SlotListsAre
  <1>11. PICK values : values = Scattered(answers, slots, m)
    OBVIOUS
  <1>12. /\ Len(values) = m
         /\ \A i \in 1..m : \E j \in 1..Len(slots[chunk[i]]) : slots[chunk[i]][j] = i /\ values[i] = answers[chunk[i]][j]
    <2>1. ScatteredAs(values, answers, slots, chunk, m)
      BY <1>10, <1>11, ScatteredIs, Zenon
    <2>. QED
      BY <2>1, Zenon DEF ScatteredAs
  <1>13. ASSUME NEW i \in 1..m PROVE AnswersRow(values, b, n, positions, i)
    <2>1. PICK k \in 1..n : k = chunk[i] /\ b[k - 1] <= positions[i] /\ positions[i] < b[k]
      BY <1>9
    <2>2. PICK j \in 1..Len(slots[k]) : slots[k][j] = i /\ values[i] = answers[k][j]
      BY <1>12, <2>1, Zenon
    <2>3. PICK list : list = slots[k]
      OBVIOUS
    <2>4. SlotsAre(list, chunk, m, k)
      BY <1>10, <2>3, Zenon DEF SlotListsAre
    <2>5. list \in Seq(Nat) /\ \A l \in 1..Len(list) : list[l] \in 1..m /\ chunk[list[l]] = k
      BY <2>4, Zenon DEF SlotsAre
    <2>6. PICK w \in Nat : w = Len(list)
      BY <2>5
    <2>7. DOMAIN list = 1..w /\ list # <<>>
      BY <2>2, <2>3, <2>5, <2>6
    <2>8. PICK locals : locals = LocalsOf(slots, positions, k)
      OBVIOUS
    <2>9. ChunkStart(k) = b[k - 1] /\ b[k - 1] \in Nat
      BY <1>1, StartIs, Zenon
    <2>10. locals = [l \in 1..w |-> positions[list[l]] - b[k - 1]]
      BY <2>3, <2>7, <2>8, <2>9, Zenon DEF LocalsOf
    <2>11. Len(part[k].src) \in Nat \ {0} /\ b[k] = b[k - 1] + Len(part[k].src)
      BY <1>4
    <2>12. PICK size \in Nat : size = Len(part[k].src)
      BY <2>11
    <2>13. ASSUME NEW l \in 1..w PROVE locals[l] \in Nat /\ locals[l] + 1 \in 1..size
      <3>1. list[l] \in 1..m /\ chunk[list[l]] = k
        BY <2>5, <2>6
      <3>2. PICK pos \in 0..(b[n] - 1) : pos = positions[list[l]]
        BY <1>3, <3>1
      <3>3. b[k - 1] <= pos /\ pos < b[k]
        BY <1>9, <3>1, <3>2
      <3>4. PICK low \in Nat : low = b[k - 1]
        BY <2>9
      <3>5. b[n] \in Nat
        BY <1>4
      <3>6. pos \in Nat
        BY <3>2, <3>5
      <3>7. locals[l] = pos - low
        BY <2>10, <3>2, <3>4
      <3>8. pos < low + size
        BY <2>11, <2>12, <3>3, <3>4
      <3>9. low <= pos
        BY <3>3, <3>4
      <3>. QED
        BY <3>6, <3>7, <3>8, <3>9
    <2>14. locals \in Seq(Nat) /\ Len(locals) = w
      BY <2>10, <2>13
    <2>15. IsLookup(locals, size)
      BY <2>13, <2>14 DEF IsLookup
    <2>16. PICK c : c = part[k]
      OBVIOUS
    <2>17. Written(c) /\ c.type # "DOUBLE" /\ size = Len(c.src)
      BY <1>2, <2>12, <2>16
    <2>18. PICK answer2 : answer2 = Gather[CascadeDepth][c.encoded][Lookup(c.type, c.nulls, size, junk, locals)]
      OBVIOUS
    <2>19. PicksAs(answer2, c.src, c.nulls, locals)
      BY <2>15, <2>17, <2>18, ChunkAnswers, Zenon
    <2>20. answers[k] = answer2
      <3>1. k \in DOMAIN part
        BY <1>1
      <3>2. answers[k] = IF slots[k] = <<>> THEN <<>>
                         ELSE Gather[CascadeDepth][part[k].encoded]
                                [Lookup(part[k].type, part[k].nulls, RowsIn(k), junk, LocalsOf(slots, positions, k))]
        BY <1>7, <3>1, Zenon DEF AnswersOf
      <3>3. RowsIn(k) = size
        BY <2>12, Zenon DEF RowsIn
      <3>. QED
        BY <2>3, <2>7, <2>8, <2>16, <2>18, <3>2, <3>3, Zenon
    <2>21. locals[j] + 1 \notin c.nulls => answer2[j] = c.src[locals[j] + 1]
      <3>1. j \in 1..Len(locals)
        BY <2>2, <2>3, <2>6, <2>14
      <3>. QED
        BY <2>19, <3>1, Zenon DEF PicksAs
    <2>22. PICK x \in 1..size : x = locals[j] + 1
      BY <2>2, <2>3, <2>6, <2>13
    <2>23. positions[i] + 1 = b[k - 1] + x
      <3>1. locals[j] = positions[i] - b[k - 1]
        BY <2>2, <2>3, <2>6, <2>10
      <3>2. PICK pos \in 0..(b[n] - 1) : pos = positions[i]
        BY <1>3
      <3>3. b[n] \in Nat
        BY <1>4
      <3>4. pos \in Int
        BY <3>2, <3>3
      <3>. QED
        BY <2>9, <2>22, <3>1, <3>2, <3>4
    <2>24. x \notin part[k].nulls => values[i] = part[k].src[x]
      BY <2>2, <2>16, <2>20, <2>21, <2>22, Zenon
    <2>. QED
      BY <2>12, <2>22, <2>23, <2>24, Zenon DEF AnswersRow
  <1>. QED
    BY <1>8, <1>11, <1>12, <1>13, Zenon DEF AnswersAll

\* Every row of a chunk is a row of the column.
InColumn(column, present, b, n) ==
    \A k \in 1..n : \A x \in 1..Len(part[k].src) :
        column[b[k - 1] + x] = part[k].src[x] /\ (present[b[k - 1] + x] <=> x \notin part[k].nulls)

LEMMA ColumnIs ==
    ASSUME NEW n \in Nat, DOMAIN part = 1..n, NEW b, Bounds(part, n, b), \A k \in 1..n : Written(part[k]),
           NEW column, column = FlattenSeq([k \in DOMAIN part |-> part[k].src]),
           NEW present, present = FlattenSeq([k \in DOMAIN part |->
                         [i \in DOMAIN part[k].src |-> i \notin part[k].nulls]])
    PROVE  InColumn(column, present, b, n)
  <1>1. \A k \in 1..n : part[k].src \in Seq(Int) /\ Len(part[k].src) \in Nat /\ DOMAIN part[k].src = 1..Len(part[k].src)
    <2>1. ASSUME NEW k \in 1..n
          PROVE  part[k].src \in Seq(Int) /\ Len(part[k].src) \in Nat /\ DOMAIN part[k].src = 1..Len(part[k].src)
      <3>1. PICK c : c = part[k]
        OBVIOUS
      <3>2. IsStream(CascadeDepth, c.type, c.src, c.nulls, AutoScheme)
        BY <3>1, WrittenIs, Zenon
      <3>3. c.src \in Seq(Int)
        BY <3>2, StreamIs, Zenon
      <3>. QED
        BY <3>1, <3>3
    <2>. QED
      BY <2>1
  <1>2. b \in [0..n -> Nat] /\ b[0] = 0 /\ \A k \in 1..n : b[k] = b[k - 1] + Len(part[k].src)
    BY Zenon DEF Bounds
  <1>3. PICK seqs : seqs = [k \in 1..n |-> part[k].src]
    OBVIOUS
  <1>4. PICK marks : marks = [k \in 1..n |-> [i \in DOMAIN part[k].src |-> i \notin part[k].nulls]]
    OBVIOUS
  <1>5. column = FlattenSeq(seqs) /\ present = FlattenSeq(marks)
    BY <1>3, <1>4, Zenon
  <1>6. Placed(column, seqs, b, n)
    <2>1. seqs \in Seq(Seq(Int)) /\ Len(seqs) = n
      BY <1>1, <1>3
    <2>2. \A k \in 1..n : b[k] = b[k - 1] + Len(seqs[k])
      BY <1>2, <1>3
    <2>. QED
      BY <1>2, <1>5, <2>1, <2>2, FlattenPlaces, Zenon
  <1>7. \A k \in 1..n : /\ marks[k] \in Seq(BOOLEAN) /\ Len(marks[k]) = Len(part[k].src)
                        /\ \A x \in 1..Len(part[k].src) : marks[k][x] <=> x \notin part[k].nulls
    <2>1. ASSUME NEW k \in 1..n
          PROVE  /\ marks[k] \in Seq(BOOLEAN) /\ Len(marks[k]) = Len(part[k].src)
                 /\ \A x \in 1..Len(part[k].src) : marks[k][x] <=> x \notin part[k].nulls
      <3>1. PICK w \in Nat : w = Len(part[k].src) /\ DOMAIN part[k].src = 1..w
        BY <1>1
      <3>2. PICK nulls : nulls = part[k].nulls
        OBVIOUS
      <3>3. marks[k] = [i \in DOMAIN part[k].src |-> i \notin part[k].nulls]
        BY <1>4, Zenon
      <3>4. PICK f : f = marks[k]
        OBVIOUS
      <3>5. f = [i \in 1..w |-> i \notin nulls]
        BY <3>1, <3>2, <3>3, <3>4, Zenon
      <3>6. f \in Seq(BOOLEAN) /\ Len(f) = w
        BY <3>5
      <3>7. \A x \in 1..w : f[x] <=> x \notin nulls
        BY <3>5, Zenon
      <3>. QED
        BY <3>1, <3>2, <3>4, <3>6, <3>7, Zenon
    <2>. QED
      BY <2>1, Zenon
  <1>8. Placed(present, marks, b, n)
    <2>1. marks \in Seq(Seq(BOOLEAN)) /\ Len(marks) = n
      <3>1. \A k \in 1..n : marks[k] \in Seq(BOOLEAN)
        BY <1>7, Zenon
      <3>2. DOMAIN marks = 1..n /\ marks = [k \in 1..n |-> marks[k]]
        BY <1>4, Zenon
      <3>. QED
        BY <3>1, <3>2
    <2>2. \A k \in 1..n : b[k] = b[k - 1] + Len(marks[k])
      BY <1>2, <1>7, Zenon
    <2>. QED
      BY <1>2, <1>5, <2>1, <2>2, FlattenPlaces, Zenon
  <1>. SUFFICES ASSUME NEW k \in 1..n, NEW x \in 1..Len(part[k].src)
                PROVE  column[b[k - 1] + x] = part[k].src[x] /\ (present[b[k - 1] + x] <=> x \notin part[k].nulls)
    BY Zenon DEF InColumn
  <1>9. column[b[k - 1] + x] = part[k].src[x]
    <2>1. seqs[k] = part[k].src
      BY <1>3, Zenon
    <2>2. x \in 1..Len(seqs[k])
      BY <2>1, Zenon
    <2>3. column[b[k - 1] + x] = seqs[k][x]
      BY <1>6, <2>2, Zenon DEF Placed
    <2>. QED
      BY <2>1, <2>3, Zenon
  <1>10. present[b[k - 1] + x] <=> x \notin part[k].nulls
    <2>1. x \in 1..Len(marks[k]) /\ (marks[k][x] <=> x \notin part[k].nulls)
      BY <1>7, Zenon
    <2>2. present[b[k - 1] + x] = marks[k][x]
      BY <1>8, <2>1, Zenon DEF Placed
    <2>. QED
      BY <2>1, <2>2, Zenon
  <1>. QED
    BY <1>9, <1>10, Zenon

\* The answers to positions are the rows of the column.
AnsweredFrom(p, positions, values) ==
    LET column == FlattenSeq([k \in DOMAIN p |-> p[k].src])
        present == FlattenSeq([k \in DOMAIN p |->
                     [i \in DOMAIN p[k].src |-> i \notin p[k].nulls]]) IN
    \A i \in DOMAIN positions :
        LET row == positions[i] + 1 IN present[row] => values[i] = column[row]

LEMMA AnsweredIs ==
    ASSUME NEW n \in Nat, NEW b, NEW m \in Nat, NEW positions, PartAsked(n, b, m, positions), NEW values,
           \A i \in 1..m : AnswersRow(values, b, n, positions, i)
    PROVE  AnsweredFrom(part, positions, values)
  <1>1. DOMAIN part = 1..n /\ Bounds(part, n, b)
    BY Zenon DEF PartAsked
  <1>2. \A k \in 1..n : Written(part[k])
    BY Zenon DEF PartAsked
  <1>3. DOMAIN positions = 1..m
    BY DEF PartAsked
  <1>4. PICK column : column = FlattenSeq([k \in DOMAIN part |-> part[k].src])
    OBVIOUS
  <1>5. PICK present : present = FlattenSeq([k \in DOMAIN part |->
                                   [i \in DOMAIN part[k].src |-> i \notin part[k].nulls]])
    OBVIOUS
  <1>6. InColumn(column, present, b, n)
    BY <1>1, <1>2, <1>4, <1>5, ColumnIs, Zenon
  <1>7. ASSUME NEW i \in 1..m, present[positions[i] + 1] PROVE values[i] = column[positions[i] + 1]
    <2>1. PICK k \in 1..n : \E x \in 1..Len(part[k].src) :
            /\ positions[i] + 1 = b[k - 1] + x
            /\ x \notin part[k].nulls => values[i] = part[k].src[x]
      BY Zenon DEF AnswersRow
    <2>2. PICK x \in 1..Len(part[k].src) :
            /\ positions[i] + 1 = b[k - 1] + x
            /\ x \notin part[k].nulls => values[i] = part[k].src[x]
      BY <2>1, Zenon
    <2>3. column[b[k - 1] + x] = part[k].src[x] /\ (present[b[k - 1] + x] <=> x \notin part[k].nulls)
      BY <1>6, <2>2, Zenon DEF InColumn
    <2>. QED
      BY <1>7, <2>2, <2>3, Zenon
  <1>. QED
    BY <1>3, <1>4, <1>5, <1>7, Zenon DEF AnsweredFrom

---------------------------------------------------------------------------
(* The invariant *)

\* The chunks of a part are written from inputs of one type.
PartOK ==
    /\ part \in Seq([type : Types, src : Seq(Int), nulls : SUBSET Nat, encoded : Encoded[CascadeDepth]])
    /\ \A k \in 1..Len(part) : Written(part[k]) /\ part[k].type = part[1].type

IInv == PartOK /\ TypeOK /\ RoundTrip /\ GatherAgrees /\ SignOfZeroKept

LEMMA PartOfReader ==
    ASSUME PartOK
    PROVE  /\ Len(part) \in Nat /\ DOMAIN part = 1..Len(part)
           /\ \A k \in 1..Len(part) : Written(part[k]) /\ part[k].type = part[1].type
           /\ \E b : Bounds(part, Len(part), b) /\ Total = b[Len(part)]
  <1>1. PICK n \in Nat : n = Len(part) /\ DOMAIN part = 1..n
    BY DEF PartOK
  <1>2. \A k \in 1..n : Written(part[k]) /\ part[k].type = part[1].type
    BY <1>1, Zenon DEF PartOK
  <1>3. \A k \in 1..n : Len(part[k].src) \in Nat \ {0}
    BY <1>2, WrittenIs, Zenon
  <1>4. PICK b : Bounds(part, n, b)
    BY <1>3, BoundsExist, Zenon
  <1>5. Total = b[n]
    <2>1. n \in 0..n
      OBVIOUS
    <2>2. RowsUpTo(part, n) = b[n]
      BY <1>4, <2>1, BoundIs, Zenon
    <2>3. (n + 1) - 1 = n
      OBVIOUS
    <2>. QED
      BY <1>1, <2>2, <2>3, StartsNow, Zenon
  <1>. QED
    BY <1>1, <1>2, <1>4, <1>5, Zenon

LEMMA InitInvariant == Init => IInv
  <1>. SUFFICES ASSUME Init PROVE IInv
    OBVIOUS
  <1>1. part = <<>> /\ answer = NoAnswer
    BY DEF Init
  <1>2. answer.kind = "none"
    BY <1>1 DEF NoAnswer
  <1>3. PartOK
    BY <1>1 DEF PartOK
  <1>4. Total = 0
    <2>1. Bounds(part, 0, [k \in {0} |-> 0])
      <3>1. 0..0 = {0} /\ 1..0 = {}
        OBVIOUS
      <3>. QED
        BY <3>1 DEF Bounds
    <2>2. PICK b : Bounds(part, 0, b) /\ b[0] = 0
      BY <2>1, Zenon DEF Bounds
    <2>3. RowsUpTo(part, 0) = b[0]
      <3>1. 0 \in 0..0 /\ 0 \in Nat
        OBVIOUS
      <3>. QED
        BY <2>2, <3>1, BoundIs, Zenon
    <2>4. (Len(part) + 1) - 1 = 0
      BY <1>1
    <2>. QED
      BY <2>2, <2>3, <2>4, StartsNow
  <1>5. TypeOK
    <2>1. DOMAIN part = {} /\ MaxRows \in Nat
      BY <1>1, PoolAssumption
    <2>. QED
      BY <1>2, <1>4, <2>1 DEF TypeOK
  <1>6. RoundTrip /\ SignOfZeroKept
    BY <1>2 DEF RoundTrip, SignOfZeroKept
  <1>7. GatherAgrees
    BY <1>2 DEF GatherAgrees
  <1>. QED
    BY <1>3, <1>5, <1>6, <1>7 DEF IInv

LEMMA WriteInvariant == IInv /\ WriteChunk => IInv'
  <1>. SUFFICES ASSUME IInv, WriteChunk PROVE IInv'
    OBVIOUS
  <1>1. PartOK
    BY DEF IInv
  <1>2. PICK n \in Nat : n = Len(part) /\ DOMAIN part = 1..n
    BY <1>1, PartOfReader
  <1>3. PICK c \in Inputs, junk \in Leftovers :
          /\ Total + Len(c.src) <= MaxRows
          /\ part # <<>> => part[1].type = c.type
          /\ \E e \in Encodings[CascadeDepth][Stream(c.type, c.src, c.nulls, AutoScheme, junk)] :
               part' = Append(part, [type |-> c.type, src |-> c.src, nulls |-> c.nulls, encoded |-> e])
          /\ answer' = NoAnswer
    BY Zenon DEF WriteChunk
  <1>4. PICK e \in Encodings[CascadeDepth][Stream(c.type, c.src, c.nulls, AutoScheme, junk)] :
          part' = Append(part, [type |-> c.type, src |-> c.src, nulls |-> c.nulls, encoded |-> e])
    BY <1>3, Zenon
  <1>5. PICK w : w = [type |-> c.type, src |-> c.src, nulls |-> c.nulls, encoded |-> e]
    OBVIOUS
  <1>6. w.type = c.type /\ w.src = c.src /\ w.nulls = c.nulls /\ w.encoded = e
    BY <1>5
  <1>7. [type |-> w.type, src |-> w.src, nulls |-> w.nulls] \in Inputs
    <2>1. c = [type |-> c.type, src |-> c.src, nulls |-> c.nulls]
      BY InputsAssumption, Zenon
    <2>. QED
      BY <1>6, <2>1, Zenon
  <1>8. Written(w)
    BY <1>4, <1>6, <1>7, Zenon DEF Written
  <1>9. w \in [type : Types, src : Seq(Int), nulls : SUBSET Nat, encoded : Encoded[CascadeDepth]]
    <2>1. IsStream(CascadeDepth, w.type, w.src, w.nulls, AutoScheme) /\ Good(CascadeDepth, w.encoded, w.type, w.src, w.nulls)
      BY <1>8, WrittenIs, Zenon
    <2>2. w.type \in Types /\ w.src \in Seq(Int) /\ w.nulls \in SUBSET Nat
      BY <2>1, StreamIs, Zenon
    <2>3. w.encoded \in Encoded[CascadeDepth]
      BY <2>1, Zenon DEF Good, Kept
    <2>. QED
      BY <1>5, <1>6, <2>2, <2>3
  <1>10. /\ part' = Append(part, w)
         /\ part \in Seq([type : Types, src : Seq(Int), nulls : SUBSET Nat, encoded : Encoded[CascadeDepth]])
    BY <1>1, <1>4, <1>5, Zenon DEF PartOK
  <1>11. /\ Len(part') = n + 1 /\ part'[n + 1] = w /\ \A k \in 1..n : part'[k] = part[k]
         /\ part' \in Seq([type : Types, src : Seq(Int), nulls : SUBSET Nat, encoded : Encoded[CascadeDepth]])
         /\ DOMAIN part' = 1..(n + 1)
    BY <1>2, <1>9, <1>10
  <1>12. \A k \in 1..(n + 1) : Written(part'[k]) /\ part'[k].type = part'[1].type
    <2>1. \A k \in 1..n : Written(part[k]) /\ part[k].type = part[1].type
      BY <1>1, <1>2, PartOfReader, Zenon
    <2>2. ASSUME NEW k \in 1..(n + 1) PROVE Written(part'[k]) /\ part'[k].type = part'[1].type
      <3>1. k \in 1..n \/ k = n + 1
        OBVIOUS
      <3>2. CASE k \in 1..n
        <4>1. 1 \in 1..n
          BY <3>2
        <4>2. part'[k] = part[k] /\ part'[1] = part[1]
          BY <1>11, <3>2, <4>1, Zenon
        <4>. QED
          BY <2>1, <3>2, <4>2, Zenon
      <3>3. CASE k = n + 1
        <4>1. Written(part'[k])
          BY <1>8, <1>11, <3>3, Zenon
        <4>2. CASE n = 0
          BY <3>3, <4>1, <4>2
        <4>3. CASE n # 0
          <5>1. 1 \in 1..n /\ part # <<>>
            BY <1>2, <4>3
          <5>2. part'[1].type = c.type
            BY <1>3, <1>11, <5>1, Zenon
          <5>3. part'[k].type = c.type
            BY <1>6, <1>11, <3>3, Zenon
          <5>. QED
            BY <4>1, <5>2, <5>3
        <4>. QED
          BY <4>2, <4>3
      <3>. QED
        BY <3>1, <3>2, <3>3
    <2>. QED
      BY <2>2
  <1>13. PartOK'
    BY <1>11, <1>12, Zenon DEF PartOK, Written
  <1>14. Total' <= MaxRows
    <2>1. PICK b : Bounds(part, n, b) /\ Total = b[n]
      BY <1>1, <1>2, PartOfReader, Zenon
    <2>2. PICK size \in Nat : size = Len(w.src) /\ size # 0
      BY <1>8, WrittenIs
    <2>3. b \in [0..n -> Nat] /\ b[0] = 0 /\ \A k \in 1..n : Len(part[k].src) \in Nat \ {0} /\ b[k] = b[k - 1] + Len(part[k].src)
      BY <2>1, Zenon DEF Bounds
    <2>4. PICK d : d = [k \in 0..(n + 1) |-> IF k = n + 1 THEN b[n] + size ELSE b[k]]
      OBVIOUS
    <2>5. Bounds(part', n + 1, d)
      <3>1. d \in [0..(n + 1) -> Nat] /\ d[0] = 0
        BY <2>3, <2>4
      <3>2. ASSUME NEW k \in 1..(n + 1) PROVE Len(part'[k].src) \in Nat \ {0} /\ d[k] = d[k - 1] + Len(part'[k].src)
        <4>1. k \in 1..n \/ k = n + 1
          OBVIOUS
        <4>2. CASE k \in 1..n
          <5>1. part'[k] = part[k]
            BY <1>11, <4>2, Zenon
          <5>2. Len(part[k].src) \in Nat \ {0} /\ b[k] = b[k - 1] + Len(part[k].src)
            BY <2>3, <4>2, Zenon
          <5>3. d[k] = b[k] /\ d[k - 1] = b[k - 1]
            BY <2>4, <4>2
          <5>. QED
            BY <5>1, <5>2, <5>3, Zenon
        <4>3. CASE k = n + 1
          <5>1. d[k] = b[n] + size /\ d[k - 1] = b[n]
            BY <2>4, <4>3
          <5>2. Len(part'[k].src) = size
            BY <1>11, <2>2, <4>3, Zenon
          <5>. QED
            BY <2>2, <5>1, <5>2
        <4>. QED
          BY <4>1, <4>2, <4>3
      <3>. QED
        BY <3>1, <3>2, Zenon DEF Bounds
    <2>6. PICK m \in Nat : m = n + 1
      OBVIOUS
    <2>7. RowsUpTo(part', m) = d[m]
      <3>1. m \in 0..m
        BY <2>6
      <3>2. Bounds(part', m, d)
        BY <2>5, <2>6, Zenon
      <3>3. PICK p : p = part'
        OBVIOUS
      <3>4. Bounds(p, m, d)
        BY <3>2, <3>3, Zenon
      <3>5. RowsUpTo(p, m) = d[m]
        BY <3>1, <3>4, BoundIs, Zenon
      <3>. QED
        BY <3>3, <3>5, Zenon
    <2>8. Total' = RowsUpTo(part', (Len(part') + 1) - 1)
      BY TotalNext
    <2>9. (Len(part') + 1) - 1 = m
      BY <1>11, <2>6
    <2>10. d[m] = Total + size
      BY <2>1, <2>4, <2>6
    <2>11. Total + size <= MaxRows
      BY <1>3, <1>6, <2>2, Zenon
    <2>. QED
      BY <2>7, <2>8, <2>9, <2>10, <2>11, Zenon
  <1>15. answer'.kind = "none"
    BY <1>3 DEF NoAnswer
  <1>16. TypeOK'
    <2>1. \A k \in 1..(n + 1) : [type |-> part'[k].type, src |-> part'[k].src, nulls |-> part'[k].nulls] \in Inputs
      BY <1>12, Zenon DEF Written
    <2>2. answer'.kind # "read" /\ answer'.kind # "gather"
      BY <1>15
    <2>. QED
      BY <1>11, <1>14, <2>1, <2>2, Zenon DEF TypeOK
  <1>17. RoundTrip' /\ SignOfZeroKept'
    BY <1>15 DEF RoundTrip, SignOfZeroKept
  <1>18. GatherAgrees'
    BY <1>15 DEF GatherAgrees
  <1>. QED
    BY <1>13, <1>16, <1>17, <1>18 DEF IInv

\* The part does not change while it is read.
LEMMA PartUnchanged ==
    ASSUME PartOK, TypeOK, part' = part
    PROVE  /\ PartOK' /\ Total' <= MaxRows
           /\ \A k \in DOMAIN part' : [type |-> part'[k].type, src |-> part'[k].src, nulls |-> part'[k].nulls] \in Inputs
  <1>1. PartOK'
    BY Zenon DEF PartOK, Written
  <1>2. Total' = Total
    <2>1. Total = RowsUpTo(part, (Len(part) + 1) - 1)
      BY StartsNow, Zenon
    <2>. QED
      BY <2>1, TotalNext, Zenon
  <1>3. Total <= MaxRows
    BY Zenon DEF TypeOK
  <1>4. \A k \in DOMAIN part : [type |-> part[k].type, src |-> part[k].src, nulls |-> part[k].nulls] \in Inputs
    BY Zenon DEF TypeOK
  <1>. QED
    BY <1>1, <1>2, <1>3, <1>4, Zenon

LEMMA ReadInvariant == IInv /\ ReadColumn => IInv'
  <1>. SUFFICES ASSUME IInv, ReadColumn PROVE IInv'
    OBVIOUS
  <1>1. PartOK /\ TypeOK
    BY DEF IInv
  <1>2. PICK k \in DOMAIN part, junk \in Leftovers :
          /\ answer' = [kind |-> "read", chunk |-> k,
                        values |-> Decode[CascadeDepth][part[k].encoded]
                                         [Request(part[k].type, part[k].nulls, RowsIn(k), junk)]]
          /\ UNCHANGED part
    BY Zenon DEF ReadColumn
  <1>3. PICK n \in Nat : n = Len(part) /\ DOMAIN part = 1..n
    BY <1>1, PartOfReader
  <1>4. PICK c : c = part[k]
    OBVIOUS
  <1>5. Written(c)
    BY <1>1, <1>2, <1>3, <1>4, PartOfReader, Zenon
  <1>6. IsStream(CascadeDepth, c.type, c.src, c.nulls, AutoScheme) /\ Good(CascadeDepth, c.encoded, c.type, c.src, c.nulls)
    BY <1>5, WrittenIs, Zenon
  <1>7. PICK size \in Nat : size = Len(c.src)
    BY <1>5, WrittenIs
  <1>8. PICK values : values = Decode[CascadeDepth][c.encoded][Request(c.type, c.nulls, size, junk)]
    OBVIOUS
  <1>9. RowsIn(k) = size
    BY <1>4, <1>7, Zenon DEF RowsIn
  <1>10. answer' = [kind |-> "read", chunk |-> k, values |-> values] /\ part' = part
    BY <1>2, <1>4, <1>8, <1>9, Zenon
  <1>11. answer'.kind = "read" /\ answer'.chunk = k /\ answer'.values = values
    BY <1>10
  <1>12. junk \in Int
    BY <1>2, PoolAssumption
  <1>13. ReadsAs(values, c.type, c.src, c.nulls)
    BY <1>6, <1>7, <1>8, <1>12, Zenon DEF Good, Kept, Reads
  <1>14. Len(values) = size /\ \A i \in 1..size : i \notin c.nulls => Agrees(values[i], c.src[i], Exact(c.type, c.src, c.nulls))
    BY <1>7, <1>13, Zenon DEF ReadsAs
  <1>15. ASSUME NEW i \in 1..size, i \notin c.nulls PROVE Same(values[i], c.src[i])
    <2>1. values[i] \in Int
      <3>1. values \in Seq(Int)
        BY <1>13, Zenon DEF ReadsAs
      <3>. QED
        BY <1>14, <3>1
    <2>2. Agrees(values[i], c.src[i], Exact(c.type, c.src, c.nulls))
      BY <1>14, <1>15
    <2>3. values[i] = c.src[i] \/ Same(values[i], c.src[i])
      BY <2>2, Zenon DEF Agrees
    <2>. QED
      BY <2>1, <2>3, SameSelf, Zenon
  <1>16. /\ PartOK' /\ Total' <= MaxRows
         /\ \A j \in DOMAIN part' : [type |-> part'[j].type, src |-> part'[j].src, nulls |-> part'[j].nulls] \in Inputs
    BY <1>1, <1>10, PartUnchanged, Zenon
  <1>17. RowsIn(answer.chunk)' = size
    BY <1>4, <1>7, <1>10, <1>11, Zenon DEF RowsIn
  <1>18. TypeOK'
    <2>1. answer'.kind # "gather"
      BY <1>11
    <2>2. Len(answer'.values) = RowsIn(answer.chunk)'
      BY <1>11, <1>14, <1>17, Zenon
    <2>. QED
      BY <1>16, <2>1, <2>2, Zenon DEF TypeOK
  <1>19. RoundTrip'
    BY <1>4, <1>10, <1>11, <1>15, <1>17, Zenon DEF RoundTrip
  <1>20. GatherAgrees'
    BY <1>11 DEF GatherAgrees
  <1>21. SignOfZeroKept'
    <2>1. ASSUME c.encoded.scheme = "PSEUDODECIMAL" PROVE values = c.src
      <3>1. DecimalExact(CascadeDepth, c.encoded, c.type, c.src, c.nulls)
        BY <1>6, Zenon DEF Good
      <3>. QED
        BY <1>7, <1>8, <1>12, <2>1, <3>1, Zenon DEF DecimalExact
    <2>. QED
      BY <1>4, <1>10, <1>11, <2>1, Zenon DEF SignOfZeroKept
  <1>. QED
    BY <1>16, <1>18, <1>19, <1>20, <1>21 DEF IInv

LEMMA GatherInvariant == IInv /\ GatherColumn => IInv'
  <1>. SUFFICES ASSUME IInv, GatherColumn PROVE IInv'
    OBVIOUS
  <1>1. PartOK /\ TypeOK
    BY DEF IInv
  <1>2. PICK n \in 1..Len(part), junk \in Leftovers :
          /\ part # <<>>
          /\ part[1].type # "DOUBLE"
          /\ \E positions \in [1..n -> 0..(Total - 1)] :
               answer' = [kind |-> "gather", positions |-> positions, values |-> GatherResult(positions, junk)]
          /\ UNCHANGED part
    BY Zenon DEF GatherColumn
  <1>3. PICK positions \in [1..n -> 0..(Total - 1)] :
          answer' = [kind |-> "gather", positions |-> positions, values |-> GatherResult(positions, junk)]
    BY <1>2, Zenon
  <1>4. PICK size \in Nat : size = Len(part) /\ DOMAIN part = 1..size
    BY <1>1, PartOfReader
  <1>5. \A k \in 1..size : Written(part[k]) /\ part[k].type = part[1].type
    BY <1>1, <1>4, PartOfReader, Zenon
  <1>6. PICK b : Bounds(part, size, b) /\ Total = b[size]
    BY <1>1, <1>4, PartOfReader, Zenon
  <1>7. n \in Nat /\ positions \in [1..n -> 0..(b[size] - 1)] /\ Len(positions) = n
    BY <1>2, <1>3, <1>4, <1>6
  <1>8. PartAsked(size, b, n, positions)
    <2>1. \A k \in 1..size : Written(part[k]) /\ part[k].type # "DOUBLE"
      BY <1>2, <1>5, Zenon
    <2>. QED
      BY <1>4, <1>6, <1>7, <2>1, Zenon DEF PartAsked
  <1>9. junk \in Int
    BY <1>2, PoolAssumption
  <1>10. PICK values : values = GatherResult(positions, junk)
    OBVIOUS
  <1>11. Len(values) = n /\ \A i \in 1..n : AnswersRow(values, b, size, positions, i)
    <2>1. AnswersAll(values, b, size, positions, n)
      BY <1>7, <1>8, <1>9, <1>10, PositionsAnswered, Zenon
    <2>. QED
      BY <2>1, Zenon DEF AnswersAll
  <1>12. AnsweredFrom(part, positions, values)
    BY <1>7, <1>8, <1>11, AnsweredIs, Zenon
  <1>13. answer' = [kind |-> "gather", positions |-> positions, values |-> values] /\ part' = part
    BY <1>2, <1>3, <1>10, Zenon
  <1>14. answer'.kind = "gather" /\ answer'.positions = positions /\ answer'.values = values
    BY <1>13
  <1>15. /\ PartOK' /\ Total' <= MaxRows
         /\ \A j \in DOMAIN part' : [type |-> part'[j].type, src |-> part'[j].src, nulls |-> part'[j].nulls] \in Inputs
    BY <1>1, <1>13, PartUnchanged, Zenon
  <1>16. answer'.kind # "read"
    BY <1>14
  <1>17. TypeOK'
    <2>1. Len(answer'.values) = Len(answer'.positions)
      BY <1>7, <1>11, <1>14, Zenon
    <2>. QED
      BY <1>15, <1>16, <2>1, Zenon DEF TypeOK
  <1>18. RoundTrip' /\ SignOfZeroKept'
    BY <1>16, Zenon DEF RoundTrip, SignOfZeroKept
  <1>19. GatherAgrees'
    <2>1. AnsweredFrom(part', answer'.positions, answer'.values)
      BY <1>12, <1>13, <1>14, Zenon
    <2>. QED
      BY <2>1, Zenon DEF GatherAgrees, AnsweredFrom
  <1>. QED
    BY <1>15, <1>17, <1>18, <1>19 DEF IInv

LEMMA StutterInvariant == IInv /\ UNCHANGED vars => IInv'
  <1>. SUFFICES ASSUME IInv, UNCHANGED vars PROVE IInv'
    OBVIOUS
  <1>1. part' = part /\ answer' = answer
    BY DEF vars
  <1>2. PartOK /\ TypeOK /\ RoundTrip /\ GatherAgrees /\ SignOfZeroKept
    BY DEF IInv
  <1>3. /\ PartOK' /\ Total' <= MaxRows
        /\ \A j \in DOMAIN part' : [type |-> part'[j].type, src |-> part'[j].src, nulls |-> part'[j].nulls] \in Inputs
    BY <1>1, <1>2, PartUnchanged, Zenon
  <1>4. TypeOK'
    BY <1>1, <1>2, <1>3, Zenon DEF TypeOK, RowsIn
  <1>5. RoundTrip'
    BY <1>1, <1>2, Zenon DEF RoundTrip, RowsIn
  <1>6. GatherAgrees'
    BY <1>1, <1>2, Zenon DEF GatherAgrees
  <1>7. SignOfZeroKept'
    BY <1>1, <1>2, Zenon DEF SignOfZeroKept
  <1>. QED
    BY <1>3, <1>4, <1>5, <1>6, <1>7 DEF IInv

\* The invariant of the part and its reader: every chunk is an input with one of its
\* encodings, and the last answer is right (WriteChunk, ReadColumn, GatherColumn).
THEOREM Invariance == Spec => []IInv
  <1>1. IInv /\ [Next]_vars => IInv'
    BY WriteInvariant, ReadInvariant, GatherInvariant, StutterInvariant, Zenon DEF Next
  <1>. QED
    BY <1>1, InitInvariant, PTL DEF Spec

\* A part never holds more rows than it may, its chunks are the inputs, and an answer
\* has a value for every row or position asked for.
THEOREM TypesKept == Spec => []TypeOK
  <1>1. IInv => TypeOK
    BY DEF IInv
  <1>. QED
    BY <1>1, Invariance, PTL

\* A chunk read back has the written values in its rows that are not null, whatever
\* cascade it went through (every scheme's compress and decompress).
THEOREM ChunksReadBack == Spec => []RoundTrip
  <1>1. IInv => RoundTrip
    BY DEF IInv
  <1>. QED
    BY <1>1, Invariance, PTL

\* Random access by positions answers the rows of the column (BtrReader::gatherColumn and
\* every scheme's gather).
THEOREM RowsGathered == Spec => []GatherAgrees
  <1>1. IInv => GatherAgrees
    BY DEF IInv
  <1>. QED
    BY <1>1, Invariance, PTL

\* Doubles that PSEUDODECIMAL writes are read back to the sign of zero (Decimal::compress).
THEOREM SignsReadBack == Spec => []SignOfZeroKept
  <1>1. IInv => SignOfZeroKept
    BY DEF IInv
  <1>. QED
    BY <1>1, Invariance, PTL
===============================================================================
