--------------------------- MODULE DatablocksProofs ---------------------------
(***************************************************************************)
(* Proofs about Datablocks, for every table, every setting and every size  *)
(* of slots, batches and overruns.                                         *)
(*                                                                         *)
(* The first part is about what the string schemes write and what is read  *)
(* of it.  Memory is told apart by where words and texts lie (HasWord,     *)
(* HasText): a store leaves a piece of memory Beside an interval as it     *)
(* was, and is Grown by no address outside of it.  Stored says that the    *)
(* slots and texts of a sequence of strings lie where they should, and     *)
(* StoredRead that they read back.  The loops over the runs of DICT have   *)
(* an invariant each (OffsetsPhase, CopiesPhase, FsstPhase, ViewsPhase):   *)
(* what is written of the rows so far, and that the cache names, for each  *)
(* string, a place that still holds its copies.                            *)
(*                                                                         *)
(* The second part is the inductive invariant, which follows the data: the *)
(* columns hold the cells of the rows converted (TableIs), the range lies  *)
(* within them (RangeIs), a compressed column keeps its part of the range  *)
(* whichever scheme was chosen (BlockIs, LayoutIs), and what is            *)
(* decompressed of the open column is as far as its loops say (ColumnOpen).*)
(***************************************************************************)
EXTENDS Datablocks, InductionFacts

---------------------------------------------------------------------------
(* Memory *)

LEMMA SlotIs == SlotBytes \in Nat \ {0} /\ OffsetBatch \in Nat \ {0} /\ RunViews \in Nat \ {0}
                /\ ValueViews \in Nat \ {0} /\ SimdExtra \in Nat /\ FsstOverrun \in Nat
  BY SimdAssumption

\* A word lies in a memory, or a text does.
HasWord(m, at, v) == \A k \in 0..(SlotBytes - 1) : Cell(m, at + k) = <<v, k>>

HasText(m, at, s) == \A k \in 1..Len(s) : Cell(m, at + k - 1) = <<s[k], 0>>

\* Two memories agree outside of an interval; the addresses written are in it.
Beside(m, n, from, to) == \A a \in Int : ~(from <= a /\ a < to) => Cell(n, a) = Cell(m, a)

Grown(m, n, from, to) == \A a \in DOMAIN n : a \in DOMAIN m \/ (a \in Int /\ from <= a /\ a < to)

LEMMA CellOfPut ==
    ASSUME NEW m, NEW at \in Int, NEW n \in Nat, NEW cells, DOMAIN cells = 0..(n - 1)
    PROVE  \A a \in Int : Cell(Put(m, at, cells), a) =
               IF at <= a /\ a < at + n THEN cells[a - at] ELSE Cell(m, a)
  <1>. SUFFICES ASSUME NEW a \in Int
                PROVE  Cell(Put(m, at, cells), a) =
                         IF at <= a /\ a < at + n THEN cells[a - at] ELSE Cell(m, a)
    OBVIOUS
  <1>1. PICK f : f = [b \in {at + i : i \in DOMAIN cells} |-> cells[b - at]] OBVIOUS
  <1>2. \A b \in Int : b \in DOMAIN f <=> at <= b /\ b < at + n
    <2>. SUFFICES ASSUME NEW b \in Int PROVE b \in DOMAIN f <=> at <= b /\ b < at + n OBVIOUS
    <2>1. DOMAIN f = {at + i : i \in DOMAIN cells} BY <1>1
    <2>2. b \in DOMAIN f => at <= b /\ b < at + n BY <2>1
    <2>3. at <= b /\ b < at + n => b - at \in 0..(n - 1) /\ b = at + (b - at) OBVIOUS
    <2>4. at <= b /\ b < at + n => b \in DOMAIN f BY <2>1, <2>3
    <2>. QED BY <2>2, <2>4
  <1>3. Put(m, at, cells) = Over(f, m) BY <1>1 DEF Put
  <1>4. CASE at <= a /\ a < at + n
    <2>1. a \in DOMAIN f BY <1>2, <1>4
    <2>2. f[a] = cells[a - at] BY <1>1, <2>1
    <2>. QED BY <1>3, <1>4, <2>1, <2>2 DEF Over, Cell
  <1>5. CASE ~(at <= a /\ a < at + n)
    <2>1. a \notin DOMAIN f BY <1>2, <1>5
    <2>. QED BY <1>3, <1>5, <2>1 DEF Over, Cell
  <1>. QED BY <1>4, <1>5

LEMMA PutGrown ==
    ASSUME NEW m, NEW at \in Int, NEW n \in Nat, NEW cells, DOMAIN cells = 0..(n - 1)
    PROVE  Beside(m, Put(m, at, cells), at, at + n) /\ Grown(m, Put(m, at, cells), at, at + n)
  <1>1. Beside(m, Put(m, at, cells), at, at + n) BY CellOfPut DEF Beside
  <1>2. Grown(m, Put(m, at, cells), at, at + n) BY DEF Grown, Put, Over
  <1>. QED BY <1>1, <1>2

LEMMA WordRead ==
    ASSUME NEW m, NEW at \in Int, NEW v, HasWord(m, at, v)
    PROVE  Word(m, at) = v
  <1>1. 0 \in 0..(SlotBytes - 1) /\ at + 0 = at BY SlotIs
  <1>2. Cell(m, at) = <<v, 0>> BY <1>1 DEF HasWord
  <1>3. Cell(m, at)[1] = v BY <1>2
  <1>. QED BY <1>3 DEF Word, HasWord

LEMMA TextRead ==
    ASSUME NEW m, NEW at \in Int, NEW s \in Seq(Nat), HasText(m, at, s)
    PROVE  Text(m, at, Len(s)) = s
  <1>1. \A k \in 1..Len(s) : Cell(m, at + k - 1)[1] = s[k] BY DEF HasText
  <1>2. Text(m, at, Len(s)) = [k \in 1..Len(s) |-> s[k]] BY <1>1 DEF Text
  <1>. QED BY <1>2

\* What is read of a slot and the next one, and of a view.
LEMMA StringRead ==
    ASSUME NEW m, NEW i \in Nat, NEW f \in Nat, NEW s \in Seq(Nat),
           HasWord(m, SlotBytes * i, f), HasWord(m, SlotBytes * (i + 1), f + Len(s)), HasText(m, f, s)
    PROVE  StringAt(m, i) = s
  <1>1. SlotBytes * i \in Int /\ SlotBytes * (i + 1) \in Int BY SlotIs
  <1>2. Word(m, SlotBytes * i) = f /\ Word(m, SlotBytes * (i + 1)) = f + Len(s) BY <1>1, WordRead
  <1>3. PICK l \in Nat : l = Len(s) OBVIOUS
  <1>4. Lost \notin {f, f + l} /\ ~(f + l < f) /\ (f + l) - f = l BY DEF Lost
  <1>5. Text(m, f, l) = s BY <1>3, TextRead
  <1>. QED BY <1>2, <1>3, <1>4, <1>5 DEF StringAt

LEMMA ViewRead ==
    ASSUME NEW m, NEW i \in Nat, NEW f \in Nat, NEW s \in Seq(Nat),
           HasWord(m, ViewBytes * i, Len(s)), HasWord(m, ViewBytes * i + SlotBytes, f), HasText(m, f, s)
    PROVE  ViewedAt(m, i) = s
  <1>1. ViewBytes * i \in Int /\ ViewBytes * i + SlotBytes \in Int BY SlotIs DEF ViewBytes
  <1>2. Word(m, ViewBytes * i) = Len(s) /\ Word(m, ViewBytes * i + SlotBytes) = f BY <1>1, WordRead
  <1>3. PICK l \in Nat : l = Len(s) OBVIOUS
  <1>4. Lost \notin {l, f} BY DEF Lost
  <1>5. Text(m, f, l) = s BY <1>3, TextRead
  <1>. QED BY <1>2, <1>3, <1>4, <1>5 DEF ViewedAt

LEMMA WordKept ==
    ASSUME NEW m, NEW n, NEW from \in Int, NEW to \in Int, NEW at \in Int, NEW v,
           Beside(m, n, from, to), HasWord(m, at, v), at + SlotBytes <= from \/ to <= at
    PROVE  HasWord(n, at, v)
  <1>. SUFFICES ASSUME NEW k \in 0..(SlotBytes - 1) PROVE Cell(n, at + k) = <<v, k>> BY DEF HasWord
  <1>1. at + k \in Int /\ ~(from <= at + k /\ at + k < to) BY SlotIs
  <1>. QED BY <1>1 DEF Beside, HasWord

LEMMA TextKept ==
    ASSUME NEW m, NEW n, NEW from \in Int, NEW to \in Int, NEW at \in Int, NEW s \in Seq(Nat),
           Beside(m, n, from, to), HasText(m, at, s), at + Len(s) <= from \/ to <= at
    PROVE  HasText(n, at, s)
  <1>. SUFFICES ASSUME NEW k \in 1..Len(s) PROVE Cell(n, at + k - 1) = <<s[k], 0>> BY DEF HasText
  <1>1. at + k - 1 \in Int /\ ~(from <= at + k - 1 /\ at + k - 1 < to) OBVIOUS
  <1>. QED BY <1>1 DEF Beside, HasText

---------------------------------------------------------------------------
(* What is put where *)

LEMMA WordPlaces ==
    ASSUME NEW m, NEW at \in Int, NEW n \in Nat, NEW ws, DOMAIN ws = 1..n, Len(ws) = n
    PROVE  /\ \A k \in 0..(n - 1) : HasWord(Put(m, at, Words(ws)), at + SlotBytes * k, ws[k + 1])
           /\ SlotBytes * n \in Nat
           /\ Beside(m, Put(m, at, Words(ws)), at, at + SlotBytes * n)
           /\ Grown(m, Put(m, at, Words(ws)), at, at + SlotBytes * n)
  <1>1. PICK c \in Nat : c = SlotBytes * n BY SlotIs
  <1>2. DOMAIN Words(ws) = 0..(c - 1) BY <1>1 DEF Words
  <1>3. ASSUME NEW k \in 0..(n - 1)
        PROVE  HasWord(Put(m, at, Words(ws)), at + SlotBytes * k, ws[k + 1])
    <2>. SUFFICES ASSUME NEW j \in 0..(SlotBytes - 1)
                  PROVE  Cell(Put(m, at, Words(ws)), at + SlotBytes * k + j) = <<ws[k + 1], j>>
      BY DEF HasWord
    <2>1. PICK q \in Int : q = k * SlotBytes + j BY SlotIs
    <2>2. q = SlotBytes * k + j BY <2>1, SlotIs, Z3
    <2>3. 0 <= q /\ q < c
      <3>1. q < n * SlotBytes BY <2>1, SlotIs, SmallerQuotient
      <3>2. n * SlotBytes = SlotBytes * n BY SlotIs, Z3
      <3>3. k * SlotBytes \in Nat BY SlotIs
      <3>. QED BY <1>1, <2>1, <3>1, <3>2, <3>3
    <2>4. q \div SlotBytes = k /\ q % SlotBytes = j BY <2>1, SlotIs, Quotient
    <2>5. Words(ws)[q] = <<ws[k + 1], j>> BY <1>1, <2>3, <2>4 DEF Words
    <2>6. at + q \in Int /\ at <= at + q /\ at + q < at + c /\ (at + q) - at = q BY <2>3
    <2>7. Cell(Put(m, at, Words(ws)), at + q) = Words(ws)[q] BY <1>2, <2>6, CellOfPut
    <2>8. at + SlotBytes * k + j = at + q BY <2>2, SlotIs
    <2>. QED BY <2>5, <2>7, <2>8
  <1>. QED BY <1>1, <1>2, <1>3, PutGrown

LEMMA CharacterPlaces ==
    ASSUME NEW m, NEW at \in Int, NEW s \in Seq(Nat)
    PROVE  /\ HasText(Put(m, at, Characters(s)), at, s)
           /\ Beside(m, Put(m, at, Characters(s)), at, at + Len(s))
           /\ Grown(m, Put(m, at, Characters(s)), at, at + Len(s))
  <1>1. DOMAIN Characters(s) = 0..(Len(s) - 1) /\ Len(s) \in Nat BY DEF Characters
  <1>2. ASSUME NEW k \in 1..Len(s)
        PROVE  Cell(Put(m, at, Characters(s)), at + k - 1) = <<s[k], 0>>
    <2>1. at + k - 1 \in Int /\ at <= at + k - 1 /\ at + k - 1 < at + Len(s)
          /\ (at + k - 1) - at = k - 1 /\ (k - 1) + 1 = k /\ k - 1 \in 0..(Len(s) - 1)
      OBVIOUS
    <2>2. Cell(Put(m, at, Characters(s)), at + k - 1) = Characters(s)[k - 1] BY <1>1, <2>1, CellOfPut
    <2>. QED BY <2>1, <2>2 DEF Characters
  <1>. QED BY <1>1, <1>2, PutGrown DEF HasText

LEMMA FsstPlaces ==
    ASSUME NEW m, NEW at \in Int, NEW s \in Seq(Nat)
    PROVE  /\ HasText(FsstDecompressed(m, at, s), at, s)
           /\ Beside(m, FsstDecompressed(m, at, s), at, at + Len(s) + FsstOverrun)
           /\ Grown(m, FsstDecompressed(m, at, s), at, at + Len(s) + FsstOverrun)
  <1>1. PICK n \in Nat : n = Len(s) + FsstOverrun /\ Len(s) <= n /\ at + Len(s) + FsstOverrun = at + n BY SlotIs
  <1>. DEFINE cells == [i \in 0..(Len(s) + FsstOverrun - 1) |->
                           IF i < Len(s) THEN <<s[i + 1], 0>> ELSE Junk]
  <1>3. FsstDecompressed(m, at, s) = Put(m, at, cells) BY DEF FsstDecompressed
  <1>4. DOMAIN cells = 0..(n - 1) BY <1>1, SlotIs
  <1>2. \A i \in 0..(n - 1) : i < Len(s) => cells[i] = <<s[i + 1], 0>> BY <1>1, SlotIs
  <1>. HIDE DEF cells
  <1>5. ASSUME NEW k \in 1..Len(s)
        PROVE  Cell(Put(m, at, cells), at + k - 1) = <<s[k], 0>>
    <2>1. at + k - 1 \in Int /\ at <= at + k - 1 /\ at + k - 1 < at + n
          /\ (at + k - 1) - at = k - 1 /\ (k - 1) + 1 = k /\ k - 1 \in 0..(n - 1) /\ k - 1 < Len(s)
      BY <1>1
    <2>2. Cell(Put(m, at, cells), at + k - 1) = cells[k - 1] BY <1>4, <2>1, CellOfPut
    <2>. QED BY <1>2, <2>1, <2>2
  <1>. QED BY <1>1, <1>3, <1>4, <1>5, PutGrown DEF HasText

LEMMA BatchesCover ==
    ASSUME NEW n \in Nat \ {0}, NEW b \in Nat \ {0}
    PROVE  Batches(n, b) \in Nat /\ n <= Batches(n, b) /\ Batches(n, b) <= n + b - 1
  <1>1. n + b - 1 \in Nat OBVIOUS
  <1>2. PICK q \in Nat, x \in 0..(b - 1) : n + b - 1 = q * b + x /\ (n + b - 1) \div b = q BY <1>1, Divided
  <1>3. b * q = q * b /\ q * b \in Nat BY Z3
  <1>4. Batches(n, b) = q * b BY <1>2, <1>3 DEF Batches
  <1>. QED BY <1>2, <1>3, <1>4

\* The interval may be taken wider.
LEMMA Wider ==
    ASSUME NEW m, NEW n, NEW from \in Int, NEW to \in Int, NEW lo \in Int, NEW hi \in Int,
           Beside(m, n, from, to), Grown(m, n, from, to), lo <= from, to <= hi
    PROVE  Beside(m, n, lo, hi) /\ Grown(m, n, lo, hi)
  BY DEF Beside, Grown

\* Offsets that are stored in batches: those asked for, and what lies behind them.
LEMMA OffsetPlaces ==
    ASSUME NEW m, NEW at \in Int, NEW start \in Nat, NEW length \in Nat, NEW n \in Nat
    PROVE  /\ \A k \in 0..(n - 1) :
                HasWord(WriteOffsets(m, at, start, length, n), at + SlotBytes * k, start + k * length)
           /\ SlotBytes * (n + OffsetBatch) \in Nat
           /\ Beside(m, WriteOffsets(m, at, start, length, n), at, at + SlotBytes * (n + OffsetBatch))
           /\ Grown(m, WriteOffsets(m, at, start, length, n), at, at + SlotBytes * (n + OffsetBatch))
  <1>. DEFINE Count == IF n <= OffsetBatch THEN OffsetBatch ELSE Batches(n, OffsetBatch)
  <1>1. PICK c \in Nat : c = Count /\ n <= c /\ c <= n + OffsetBatch
    <2>1. CASE n <= OffsetBatch BY <2>1, SlotIs
    <2>2. CASE ~(n <= OffsetBatch)
      <3>1. n \in Nat \ {0} BY <2>2, SlotIs
      <3>2. Batches(n, OffsetBatch) \in Nat /\ n <= Batches(n, OffsetBatch)
            /\ Batches(n, OffsetBatch) <= n + OffsetBatch - 1
        BY <3>1, SlotIs, BatchesCover
      <3>. QED BY <2>2, <3>2, SlotIs
    <2>. QED BY <2>1, <2>2
  <1>. DEFINE ws == [k \in 1..c |-> start + (k - 1) * length]
  <1>2. WriteOffsets(m, at, start, length, n) = Put(m, at, Words(ws)) BY <1>1 DEF WriteOffsets
  <1>3. DOMAIN ws = 1..c /\ Len(ws) = c OBVIOUS
  <1>4. ASSUME NEW k \in 0..(n - 1)
        PROVE  k \in 0..(c - 1) /\ ws[k + 1] = start + k * length
    <2>1. k + 1 \in 1..c /\ (k + 1) - 1 = k BY <1>1
    <2>. QED BY <2>1
  <1>. HIDE DEF ws
  <1>5. /\ \A k \in 0..(c - 1) : HasWord(Put(m, at, Words(ws)), at + SlotBytes * k, ws[k + 1])
        /\ SlotBytes * c \in Nat
        /\ Beside(m, Put(m, at, Words(ws)), at, at + SlotBytes * c)
        /\ Grown(m, Put(m, at, Words(ws)), at, at + SlotBytes * c)
    BY <1>3, WordPlaces
  <1>6. PICK e \in Nat : e = SlotBytes * (n + OffsetBatch) /\ SlotBytes * c <= e
    <2>1. SlotBytes * c <= SlotBytes * (n + OffsetBatch) BY <1>1, SlotIs, Z3
    <2>. QED BY <2>1, SlotIs
  <1>7. /\ Beside(m, Put(m, at, Words(ws)), at, at + e)
        /\ Grown(m, Put(m, at, Words(ws)), at, at + e)
    BY <1>5, <1>6, Wider
  <1>. QED BY <1>2, <1>4, <1>5, <1>6, <1>7

---------------------------------------------------------------------------
(* Copies of a string *)

Copies(m, at, s, n) == \A c \in 0..(n - 1) : HasText(m, at + c * Len(s), s)

LEMMA NoText ==
    ASSUME NEW m, NEW at \in Int, NEW s \in Seq(Nat), Len(s) = 0
    PROVE  HasText(m, at, s)
  BY DEF HasText

LEMMA Nothing ==
    ASSUME NEW m, NEW from, NEW to
    PROVE  Beside(m, m, from, to) /\ Grown(m, m, from, to)
  BY DEF Beside, Grown

LEMMA CopyPlaces ==
    ASSUME NEW m, NEW dest \in Int, NEW source, NEW at \in Int, NEW s \in Seq(Nat), NEW n \in Nat,
           NEW known \in Nat \ {0}, Copies(source, at, s, known)
    PROVE  /\ n * Len(s) \in Nat
           /\ Copies(MultiplyString(m, dest, source, at, Len(s), n, known), dest, s, n)
           /\ Beside(m, MultiplyString(m, dest, source, at, Len(s), n, known), dest, dest + n * Len(s))
           /\ Grown(m, MultiplyString(m, dest, source, at, Len(s), n, known), dest, dest + n * Len(s))
  <1>1. PICK l \in Nat : l = Len(s) OBVIOUS
  <1>2. PICK z \in Nat : z = n * l OBVIOUS
  <1>3. CASE n = 0 \/ l = 0
    <2>1. MultiplyString(m, dest, source, at, l, n, known) = m BY <1>3 DEF MultiplyString
    <2>2. Copies(m, dest, s, n)
      <3>. SUFFICES ASSUME NEW c \in 0..(n - 1) PROVE HasText(m, dest + c * Len(s), s) BY DEF Copies
      <3>1. l = 0 BY <1>3
      <3>. QED BY <1>1, <3>1 DEF HasText
    <2>. QED BY <1>1, <1>2, <2>1, <2>2, Nothing
  <1>4. CASE n # 0 /\ l # 0
    <2>1. PICK o \in Nat \ {0} : o = IF n < known THEN n ELSE known BY <1>4
    <2>. DEFINE cells == [j \in 0..(n * l - 1) |->
                           Cell(source, at + ((j \div l) % o) * l + (j % l))]
    <2>2. MultiplyString(m, dest, source, at, l, n, known) = Put(m, dest, cells) BY <1>4, <2>1 DEF MultiplyString
    <2>3. DOMAIN cells = 0..(z - 1)
          /\ \A j \in 0..(z - 1) : cells[j] = Cell(source, at + ((j \div l) % o) * l + (j % l))
      BY <1>2
    <2>. HIDE DEF cells
    <2>4. ASSUME NEW c \in 0..(n - 1), NEW k \in 1..l
          PROVE  /\ c * l + (k - 1) \in 0..(z - 1)
                 /\ cells[c * l + (k - 1)] = <<s[k], 0>>
      <3>1. PICK x \in 0..(l - 1) : x = k - 1 OBVIOUS
      <3>2. PICK q \in Int : q = c * l + x OBVIOUS
      <3>3. 0 <= q /\ q < z
        <4>1. q < n * l BY <1>4, <3>2, SmallerQuotient
        <4>2. c * l \in Nat OBVIOUS
        <4>. QED BY <1>2, <3>2, <4>1, <4>2
      <3>4. q \div l = c /\ q % l = x BY <1>4, <3>2, Quotient
      <3>5. PICK p \in Nat, d \in 0..(o - 1) : c % o = d
        <4>1. c \in Nat OBVIOUS
        <4>. QED BY <4>1, Divided
      <3>6. d \in 0..(known - 1) BY <2>1, <3>5
      <3>7. cells[q] = Cell(source, at + d * l + x)
        <4>1. q \in 0..(z - 1) BY <3>3
        <4>. QED BY <2>3, <3>4, <3>5, <4>1
      <3>8. HasText(source, at + d * l, s) BY <1>1, <3>6 DEF Copies
      <3>9. PICK y \in Int : y = d * l OBVIOUS
      <3>10. Cell(source, (at + y) + k - 1) = <<s[k], 0>> BY <1>1, <3>8, <3>9 DEF HasText
      <3>11. (at + y) + k - 1 = at + y + x BY <3>1
      <3>. QED
        <4>1. q = c * l + (k - 1) /\ q \in 0..(z - 1) BY <3>1, <3>2, <3>3
        <4>2. cells[q] = <<s[k], 0>> BY <3>7, <3>9, <3>10, <3>11
        <4>. QED BY <4>1, <4>2
    <2>5. ASSUME NEW c \in 0..(n - 1), NEW k \in 1..Len(s)
          PROVE  Cell(Put(m, dest, cells), (dest + c * Len(s)) + k - 1) = <<s[k], 0>>
      <3>1. k \in 1..l BY <1>1
      <3>2. PICK y \in Int : y = c * l OBVIOUS
      <3>3. y + (k - 1) \in 0..(z - 1) /\ cells[y + (k - 1)] = <<s[k], 0>> BY <2>4, <3>1, <3>2
      <3>4. /\ (dest + y) + k - 1 \in Int
            /\ dest <= (dest + y) + k - 1 /\ (dest + y) + k - 1 < dest + z
            /\ ((dest + y) + k - 1) - dest = y + (k - 1)
        BY <3>3
      <3>5. Cell(Put(m, dest, cells), (dest + y) + k - 1) = cells[y + (k - 1)] BY <2>3, <3>4, CellOfPut
      <3>. QED BY <1>1, <3>2, <3>3, <3>5
    <2>6. Copies(Put(m, dest, cells), dest, s, n) BY <2>5 DEF Copies, HasText
    <2>7. Beside(m, Put(m, dest, cells), dest, dest + z) /\ Grown(m, Put(m, dest, cells), dest, dest + z)
      BY <2>3, PutGrown
    <2>. QED BY <1>1, <1>2, <2>2, <2>6, <2>7
  <1>. QED BY <1>3, <1>4

\* A string on its own is a memory with one copy of it.
LEMMA OneCopy ==
    ASSUME NEW s \in Seq(Nat)
    PROVE  Copies(Characters(s), 0, s, 1)
  <1>1. ASSUME NEW c \in 0..(1 - 1), NEW k \in 1..Len(s)
        PROVE  Cell(Characters(s), (0 + c * Len(s)) + k - 1) = <<s[k], 0>>
    <2>1. c = 0 /\ 0 * Len(s) = 0 OBVIOUS
    <2>2. (0 + c * Len(s)) + k - 1 = k - 1 BY <2>1
    <2>3. k - 1 \in 0..(Len(s) - 1) /\ (k - 1) + 1 = k OBVIOUS
    <2>4. Cell(Characters(s), k - 1) = <<s[k], 0>> BY <2>3 DEF Cell, Characters
    <2>. QED BY <2>2, <2>4
  <1>. QED BY <1>1 DEF Copies, HasText

---------------------------------------------------------------------------
(* Where strings lie that follow one another *)

LEMMA SumIs ==
    ASSUME NEW n \in Nat, NEW w \in [1..n -> Nat], NEW total, RunningSum(w, n, total)
    PROVE  SumOf(w) = total[n]
  <1>. DEFINE Fold(iter) == iter = [z \in SUBSET DOMAIN w |->
                  IF z = {} THEN 0 ELSE w[CHOOSE x \in z : TRUE] + iter[z \ {CHOOSE x \in z : TRUE}]]
              f == CHOOSE iter : Fold(iter)
  <1>1. DOMAIN w = 1..n OBVIOUS
  <1>2. \E sum : Fold(sum)
    <2>1. PICK sum : sum = [z \in SUBSET (1..n) |->
               IF z = {} THEN 0 ELSE w[CHOOSE x \in z : TRUE] + sum[z \ {CHOOSE x \in z : TRUE}]]
      BY FoldExists, Zenon
    <2>. QED BY <1>1, <2>1, Zenon
  <1>3. SumOf(w) = f[DOMAIN w] BY DEF SumOf, FoldSeq, FoldFunction, FoldFunctionOnSet, MapThenFoldSet
  <1>4. Fold(f)
    <2>. HIDE DEF Fold
    <2>. QED BY <1>2, Zenon
  <1>. HIDE DEF f
  <1>5. SumsTo(w, n, f)
    <2>1. ASSUME NEW z \in SUBSET (1..n)
          PROVE  f[z] = IF z = {} THEN 0
                        ELSE w[CHOOSE x \in z : TRUE] + f[z \ {CHOOSE x \in z : TRUE}]
      BY <1>1, <1>4, Zenon
    <2>. QED BY <2>1, Zenon DEF SumsTo
  <1>6. f[1..n] = total[n]
    <2>1. PICK g : g = f OBVIOUS
    <2>2. SumsTo(w, n, g) BY <1>5, <2>1
    <2>3. g[1..n] = total[n] BY <2>2, FoldIsSum
    <2>. QED BY <2>1, <2>3
  <1>. QED BY <1>1, <1>3, <1>6, Zenon

\* The slots of the first strings, and their texts.
SlotsUpto(m, t, start, n) == \A k \in 0..(n - 1) : HasWord(m, SlotBytes * k, start + TextPlaces(t)[k])

TextsUpto(m, t, start, n) == \A k \in 1..n : HasText(m, start + TextPlaces(t)[k - 1], t[k])

Stored(m, t, start) == SlotsUpto(m, t, start, Len(t) + 1) /\ TextsUpto(m, t, start, Len(t))

LEMMA StoredRead ==
    ASSUME NEW t, AreTexts(t), NEW m, NEW start \in Nat, Stored(m, t, start), NEW i \in 1..Len(t)
    PROVE  StringAt(m, i - 1) = t[i]
  <1>1. /\ i - 1 \in 0..((Len(t) + 1) - 1) /\ i \in 0..((Len(t) + 1) - 1)
        /\ i - 1 \in Nat /\ (i - 1) + 1 = i
    OBVIOUS
  <1>2. HasWord(m, SlotBytes * (i - 1), start + TextPlaces(t)[i - 1]) BY <1>1 DEF Stored, SlotsUpto
  <1>3. HasWord(m, SlotBytes * i, start + TextPlaces(t)[i]) BY <1>1 DEF Stored, SlotsUpto
  <1>4. HasText(m, start + TextPlaces(t)[i - 1], t[i]) BY DEF Stored, TextsUpto
  <1>5. TextPlaces(t)[i - 1] \in Nat /\ TextPlaces(t)[i] = TextPlaces(t)[i - 1] + Len(t[i]) /\ t[i] \in Seq(Nat)
    BY PlacesAre
  <1>6. PICK f \in Nat : f = start + TextPlaces(t)[i - 1] BY <1>5
  <1>7. start + TextPlaces(t)[i] = f + Len(t[i]) BY <1>5, <1>6
  <1>8. HasWord(m, SlotBytes * ((i - 1) + 1), f + Len(t[i])) BY <1>1, <1>3, <1>7
  <1>. QED BY <1>1, <1>2, <1>4, <1>5, <1>6, <1>8, StringRead

\* All strings stored as one text.
LEMMA TextsOfWhole ==
    ASSUME NEW t, AreTexts(t), NEW m, NEW start \in Int, NEW x \in Seq(Nat),
           Placed(x, t, TextPlaces(t), Len(t)), HasText(m, start, x)
    PROVE  TextsUpto(m, t, start, Len(t))
  <1>1. ASSUME NEW k \in 1..Len(t), NEW i \in 1..Len(t[k])
        PROVE  Cell(m, (start + TextPlaces(t)[k - 1]) + i - 1) = <<t[k][i], 0>>
    <2>1. PICK p \in Nat : p = TextPlaces(t)[k - 1] BY PlacesAre
    <2>2. p + i \in 1..TextPlaces(t)[Len(t)] /\ x[p + i] = t[k][i] /\ Len(x) = TextPlaces(t)[Len(t)]
      BY <2>1 DEF Placed
    <2>3. i \in Int BY PlacesAre
    <2>4. Cell(m, start + (p + i) - 1) = <<x[p + i], 0>> BY <2>2 DEF HasText
    <2>5. start + (p + i) - 1 = (start + p) + i - 1 BY <2>3
    <2>. QED BY <2>1, <2>2, <2>4, <2>5
  <1>. QED BY <1>1 DEF TextsUpto, HasText

---------------------------------------------------------------------------
(* The strings of a chunk *)

LEMMA FileSlotsAre ==
    ASSUME NEW v, AreTexts(v), NEW i \in 1..Len(v)
    PROVE  FileSlots(v)[i].size = Len(v[i]) /\ FileSlots(v)[i].offset = TextPlaces(v)[i - 1]
  <1>1. PICK n \in Nat : n = i - 1 /\ i = n + 1 OBVIOUS
  <1>2. PICK w : w = [j \in 1..n |-> Len(v[j])] OBVIOUS
  <1>3. \A j \in 1..n : j \in 1..Len(v) BY <1>1
  <1>4. w \in [1..n -> Nat] BY <1>2, <1>3, PlacesAre
  <1>5. PICK p : p = [j \in 0..n |-> TextPlaces(v)[j]] OBVIOUS
  <1>6. RunningSum(w, n, p)
    <2>1. \A j \in 0..n : j \in 0..Len(v) BY <1>1
    <2>2. p \in [0..n -> Nat] /\ p[0] = 0
      <3>1. \A j \in 0..n : TextPlaces(v)[j] \in Nat BY <2>1, PlacesAre
      <3>2. TextPlaces(v)[0] = 0 /\ 0 \in 0..n BY PlacesAre
      <3>. QED BY <1>5, <3>1, <3>2
    <2>3. ASSUME NEW j \in 1..n PROVE p[j] = p[j - 1] + w[j]
      <3>1. j \in 0..n /\ j - 1 \in 0..n /\ j \in 1..Len(v) BY <1>1
      <3>. QED BY <1>2, <1>5, <3>1, PlacesAre
    <2>. QED BY <2>2, <2>3 DEF RunningSum
  <1>7. SumOf(w) = p[n] BY <1>4, <1>6, SumIs
  <1>8. p[n] = TextPlaces(v)[i - 1] BY <1>1, <1>5
  <1>9. w = [j \in 1..(i - 1) |-> Len(v[j])] BY <1>1, <1>2
  <1>10. i \in DOMAIN v OBVIOUS
  <1>11. FileSlots(v)[i] = [size |-> Len(v[i]), offset |-> SumOf([j \in 1..(i - 1) |-> Len(v[j])])]
    BY <1>10 DEF FileSlots
  <1>12. SumOf([j \in 1..(i - 1) |-> Len(v[j])]) = TextPlaces(v)[i - 1] BY <1>7, <1>8, <1>9, Zenon
  <1>. QED BY <1>11, <1>12

LEMMA WordsAlone ==
    ASSUME NEW n \in Nat, NEW ws, DOMAIN ws = 1..n, Len(ws) = n
    PROVE  /\ \A k \in 0..(n - 1) : HasWord(Words(ws), SlotBytes * k, ws[k + 1])
           /\ SlotBytes * n \in Nat /\ DOMAIN Words(ws) = 0..(SlotBytes * n - 1)
  <1>1. PICK c \in Nat : c = SlotBytes * n BY SlotIs
  <1>2. DOMAIN Words(ws) = 0..(c - 1) BY <1>1 DEF Words
  <1>3. ASSUME NEW k \in 0..(n - 1), NEW j \in 0..(SlotBytes - 1)
        PROVE  Cell(Words(ws), SlotBytes * k + j) = <<ws[k + 1], j>>
    <2>1. PICK q \in Int : q = k * SlotBytes + j BY SlotIs
    <2>2. q = SlotBytes * k + j BY <2>1, SlotIs, Z3
    <2>3. 0 <= q /\ q < c
      <3>1. q < n * SlotBytes BY <2>1, SlotIs, SmallerQuotient
      <3>2. n * SlotBytes = SlotBytes * n BY SlotIs, Z3
      <3>3. k * SlotBytes \in Nat BY SlotIs
      <3>. QED BY <1>1, <2>1, <3>1, <3>2, <3>3
    <2>4. q \div SlotBytes = k /\ q % SlotBytes = j BY <2>1, SlotIs, Quotient
    <2>5. q \in DOMAIN Words(ws) BY <1>2, <2>3
    <2>6. Words(ws)[q] = <<ws[k + 1], j>> BY <1>1, <2>3, <2>4 DEF Words
    <2>. QED BY <2>2, <2>5, <2>6 DEF Cell
  <1>. QED BY <1>1, <1>2, <1>3 DEF HasWord

\* A chunk of strings holds them, its offsets counted from its own first slot.
LEMMA ChunkReads ==
    ASSUME NEW v, AreTexts(v), NEW o \in Nat, NEW n \in Nat \ {0}, o + n <= Len(v),
           NEW t, AreTexts(t), Len(t) = n, \A k \in 1..n : t[k] = v[o + k]
    PROVE  /\ SlotsSize(n) \in Nat
           /\ Stored(StringChunk(v, o, n).memory, t, SlotsSize(n))
           /\ StringChunk(v, o, n).size = SlotsSize(n) + TextPlaces(t)[n]
           /\ \A a \in DOMAIN StringChunk(v, o, n).memory : a \in 0..(StringChunk(v, o, n).size - 1)
  <1>1. PICK s0 \in Nat : s0 = SlotsSize(n) BY SlotIs DEF SlotsSize
  <1>2. \A k \in 0..n : k \in 0..Len(t) /\ o + k \in 0..Len(v) /\ TextPlaces(v)[o + k] = TextPlaces(v)[o] + TextPlaces(t)[k]
    BY PlacesOfPart, SMTT(60)
  <1>3. PICK b \in Nat : b = TextPlaces(v)[o] /\ \A k \in 0..n : TextPlaces(v)[o + k] = b + TextPlaces(t)[k]
    <2>1. o \in 0..Len(v) OBVIOUS
    <2>. QED BY <1>2, <2>1, PlacesAre
  <1>4. PICK q \in [0..n -> Nat] : q = TextPlaces(t) BY PlacesAre
  <1>5. /\ q[0] = 0 /\ q[n] = q[n - 1] + Len(t[n]) /\ n \in 1..n /\ n - 1 \in 0..n
        /\ t[n] = v[o + n]
    <2>1. n \in 1..n /\ n - 1 \in 0..n OBVIOUS
    <2>2. t[n] = v[o + n] /\ n \in 1..Len(t) BY <2>1
    <2>. QED BY <1>4, <2>1, <2>2, PlacesAre
  <1>6. PICK slots : slots = FileSlots(v) OBVIOUS
  <1>7. ASSUME NEW i \in 1..n
        PROVE  slots[o + i].offset = b + q[i - 1] /\ slots[o + i].size = Len(v[o + i])
    <2>1. o + i \in 1..Len(v) /\ (o + i) - 1 = o + (i - 1) /\ i - 1 \in 0..n
      <3>1. Len(v) \in Nat BY PlacesAre
      <3>. QED BY <3>1
    <2>2. slots[o + i].size = Len(v[o + i]) /\ slots[o + i].offset = TextPlaces(v)[(o + i) - 1]
      BY <1>6, <2>1, FileSlotsAre
    <2>3. TextPlaces(v)[o + (i - 1)] = b + q[i - 1] BY <1>3, <1>4, <2>1
    <2>. QED BY <2>1, <2>2, <2>3
  <1>8. slots[o + 1].offset = b /\ 1 \in 1..n
    <2>1. 1 \in 1..n /\ 1 - 1 = 0 /\ b + 0 = b OBVIOUS
    <2>2. slots[o + 1].offset = b + q[1 - 1] BY <1>7, <2>1
    <2>. QED BY <1>5, <2>1, <2>2
  <1>9. PICK z \in Nat : z = q[n] OBVIOUS
  <1>10. StringsSize(slots[o + 1], slots[o + n]) = z
    <2>1. slots[o + n].offset = b + q[n - 1] /\ slots[o + n].size = Len(v[o + n]) BY <1>5, <1>7
    <2>2. PICK u \in Nat : u = q[n - 1] BY <1>5
    <2>3. PICK l \in Nat : l = Len(t[n]) BY <1>5, PlacesAre
    <2>4. z = u + l BY <1>5, <1>9, <2>2, <2>3
    <2>5. slots[o + n].offset = b + u /\ slots[o + n].size = l BY <1>5, <2>1, <2>2, <2>3
    <2>6. StringsSize(slots[o + 1], slots[o + n]) = ((b + u) - b) + l BY <1>8, <2>5 DEF StringsSize
    <2>. QED BY <2>4, <2>6
  <1>11. Bias(slots, o, s0) = b - s0 BY <1>8 DEF Bias
  <1>12. PICK offsets : offsets = [i \in 1..n |-> slots[o + i].offset - (b - s0)] OBVIOUS
  <1>13. PICK x : x = SubSeq(FileText(v), b + 1, b + z) OBVIOUS
  <1>14. PICK ws : ws = Append(offsets, s0 + z) OBVIOUS
  <1>15. /\ StringChunk(v, o, n).memory = Put(Words(ws), s0, Characters(x))
         /\ StringChunk(v, o, n).size = s0 + z
    BY <1>1, <1>6, <1>8, <1>10, <1>11, <1>12, <1>13, <1>14, Zenon DEF StringChunk
  <1>16. /\ DOMAIN ws = 1..(n + 1) /\ Len(ws) = n + 1
         /\ \A k \in 0..n : ws[k + 1] = s0 + q[k]
    <2>1. offsets \in Seq(Int) /\ Len(offsets) = n /\ \A i \in 1..n : offsets[i] = s0 + q[i - 1]
      <3>1. \A i \in 1..n : slots[o + i].offset - (b - s0) = s0 + q[i - 1]
        <4>1. \A i \in 1..n : i - 1 \in 0..n /\ q[i - 1] \in Nat OBVIOUS
        <4>. QED BY <1>7, <4>1
      <3>2. \A i \in 1..n : i - 1 \in 0..n /\ s0 + q[i - 1] \in Int
        <4>1. \A i \in 1..n : i - 1 \in 0..n OBVIOUS
        <4>. QED BY <4>1
      <3>3. \A i \in 1..n : offsets[i] = s0 + q[i - 1] /\ offsets[i] \in Int BY <1>12, <3>1, <3>2
      <3>4. offsets = [i \in 1..n |-> offsets[i]] BY <1>12
      <3>5. offsets \in [1..n -> Int] BY <3>3, <3>4
      <3>. QED BY <3>3, <3>5
    <2>2. s0 + z \in Int OBVIOUS
    <2>3. ws \in Seq(Int) /\ Len(ws) = n + 1
          /\ \A i \in 1..(n + 1) : ws[i] = IF i = n + 1 THEN s0 + z ELSE offsets[i]
      <3>1. PICK e \in Int : e = s0 + z OBVIOUS
      <3>. QED BY <1>14, <2>1, <3>1, AppendProperties, SMTT(60)
    <2>4. ASSUME NEW k \in 0..n PROVE ws[k + 1] = s0 + q[k]
      <3>1. k + 1 \in 1..(n + 1) /\ (k + 1) - 1 = k /\ (k # n => k + 1 \in 1..n /\ k + 1 # n + 1) OBVIOUS
      <3>. QED BY <1>9, <2>1, <2>3, <3>1
    <2>. QED BY <2>3, <2>4
  <1>17. FileText(v) \in Seq(Nat) /\ Placed(FileText(v), v, TextPlaces(v), Len(v))
         /\ Len(FileText(v)) = TextPlaces(v)[Len(v)]
    BY FlattenIsPlaced, Zenon DEF FileText
  <1>18. b + z <= Len(FileText(v))
    <2>1. o + n \in 0..Len(v) /\ Len(v) \in (o + n)..Len(v) OBVIOUS
    <2>2. TextPlaces(v)[o + n] <= TextPlaces(v)[Len(v)] BY <2>1, PlacesRise
    <2>3. TextPlaces(v)[o + n] = b + z BY <1>3, <1>4, <1>9
    <2>. QED BY <1>17, <2>2, <2>3
  <1>19. x \in Seq(Nat) /\ Len(x) = z /\ \A i \in 1..z : x[i] = FileText(v)[b + i]
    <2>1. PICK y \in Seq(Nat) : y = FileText(v) BY <1>17
    <2>5. Len(y) \in Nat /\ b + z <= Len(y) BY <1>18, <2>1
    <2>2. \A i \in (b + 1)..(b + z) : i \in 1..Len(y) BY <2>5
    <2>3. \A i \in (b + 1)..(b + z) : y[i] \in Nat BY <2>2
    <2>4. x = SubSeq(y, b + 1, b + z) /\ b + z <= Len(y) BY <1>13, <1>18, <2>1
    <2>. QED BY <2>1, <2>2, <2>3, <2>4
  <1>20. Placed(x, t, TextPlaces(t), n)
    <2>1. ASSUME NEW k \in 1..n, NEW i \in 1..Len(t[k])
          PROVE  q[k - 1] + i \in 1..q[n] /\ x[q[k - 1] + i] = t[k][i]
      <3>1. o + k \in 1..Len(v) /\ (o + k) - 1 = o + (k - 1) /\ k - 1 \in 0..n /\ k \in 0..n
            /\ t[k] = v[o + k]
        <4>1. Len(v) \in Nat OBVIOUS
        <4>. QED BY <4>1
      <3>2. q[k] = q[k - 1] + Len(t[k]) /\ Len(t[k]) \in Nat /\ q[k - 1] \in Nat BY <1>4, PlacesAre
      <3>3. q[k] <= z
        <4>1. k \in 0..Len(t) /\ n \in k..Len(t) OBVIOUS
        <4>. QED BY <1>4, <1>9, <4>1, PlacesRise
      <3>4. q[k - 1] + i \in 1..z
        <4>1. PICK l \in Nat, u \in Nat : l = Len(t[k]) /\ u = q[k - 1] BY <3>2
        <4>2. i \in 1..l /\ u + l <= z BY <3>2, <3>3, <4>1
        <4>3. u + i \in 1..z BY <4>2
        <4>. QED BY <4>1, <4>3
      <3>5. i \in 1..Len(v[o + k]) BY <3>1
      <3>6. FileText(v)[TextPlaces(v)[(o + k) - 1] + i] = v[o + k][i] BY <1>17, <3>1, <3>5 DEF Placed
      <3>7. TextPlaces(v)[(o + k) - 1] = b + q[k - 1] BY <1>3, <1>4, <3>1
      <3>8. (b + q[k - 1]) + i = b + (q[k - 1] + i) BY <3>2, <3>4
      <3>. QED BY <1>9, <1>19, <3>1, <3>4, <3>6, <3>7, <3>8, SMTT(60)
    <2>. QED BY <1>4, <1>9, <1>19, <2>1 DEF Placed
  <1>21. PICK m : m = Put(Words(ws), s0, Characters(x)) OBVIOUS
  <1>22. HasText(m, s0, x) /\ Beside(Words(ws), m, s0, s0 + z) /\ Grown(Words(ws), m, s0, s0 + z)
    <2>1. HasText(m, s0, x) /\ Beside(Words(ws), m, s0, s0 + Len(x)) /\ Grown(Words(ws), m, s0, s0 + Len(x))
      <3>1. s0 \in Int /\ x \in Seq(Nat) BY <1>19
      <3>. QED BY <1>21, <3>1, CharacterPlaces, Zenon
    <2>. QED BY <1>19, <2>1
  <1>23. TextsUpto(m, t, s0, n) BY <1>19, <1>20, <1>22, TextsOfWhole
  <1>24. /\ \A k \in 0..((n + 1) - 1) : HasWord(Words(ws), SlotBytes * k, ws[k + 1])
         /\ SlotBytes * (n + 1) \in Nat /\ DOMAIN Words(ws) = 0..(SlotBytes * (n + 1) - 1)
    <2>1. n + 1 \in Nat OBVIOUS
    <2>. QED BY <1>16, <2>1, WordsAlone
  <1>25. s0 = SlotBytes * (n + 1) BY <1>1 DEF SlotsSize
  <1>26. SlotsUpto(m, t, s0, n + 1)
    <2>1. ASSUME NEW k \in 0..((n + 1) - 1)
          PROVE  HasWord(m, SlotBytes * k, s0 + TextPlaces(t)[k])
      <3>1. k \in 0..n OBVIOUS
      <3>2. HasWord(Words(ws), SlotBytes * k, s0 + q[k]) BY <1>16, <1>24, <3>1
      <3>3. PICK at \in Int : at = SlotBytes * k BY SlotIs
      <3>4. at + SlotBytes <= s0
        <4>1. SlotBytes * k + SlotBytes <= SlotBytes * (n + 1) BY <3>1, SlotIs, Z3
        <4>. QED BY <1>25, <3>3, <4>1
      <3>5. HasWord(m, at, s0 + q[k]) BY <1>22, <3>2, <3>3, <3>4, WordKept
      <3>. QED BY <1>4, <3>3, <3>5
    <2>. QED BY <2>1 DEF SlotsUpto
  <1>27. \A a \in DOMAIN m : a \in 0..(s0 + z - 1)
    <2>. SUFFICES ASSUME NEW a \in DOMAIN m PROVE a \in 0..(s0 + z - 1) OBVIOUS
    <2>1. a \in DOMAIN Words(ws) \/ (a \in Int /\ s0 <= a /\ a < s0 + z) BY <1>22, Zenon DEF Grown
    <2>2. DOMAIN Words(ws) = 0..(s0 - 1) BY <1>24, <1>25, Zenon
    <2>3. a \in 0..(s0 - 1) \/ (a \in Int /\ s0 <= a /\ a < s0 + z) BY <2>1, <2>2
    <2>. QED BY <2>3
  <1>28. Stored(m, t, s0) BY <1>23, <1>26 DEF Stored
  <1>. QED BY <1>1, <1>4, <1>9, <1>15, <1>21, <1>27, <1>28

---------------------------------------------------------------------------
(* The members of a finite set in their order *)

\* Numbers in their order.
LEMMA RankedNumbers ==
    ASSUME NEW s, s \subseteq Nat, IsFiniteSet(s)
    PROVE  /\ Cardinality(s) \in Nat /\ Ranked(s, <) \in [1..Cardinality(s) -> s]
           /\ \A a \in s : \E k \in 1..Cardinality(s) : Ranked(s, <)[k] = a
           /\ \A i \in 1..Cardinality(s), j \in 1..Cardinality(s) : i < j => Ranked(s, <)[i] < Ranked(s, <)[j]
  <1>1. PICK below : below = [a \in s |-> {b \in s : b < a}] OBVIOUS
  <1>2. \A a \in s : below[a] = {b \in s : b < a} BY <1>1, Zenon
  <1>3. Ordered(s, below)
    <2>1. below \in [s -> SUBSET s]
      <3>1. \A a \in s : {b \in s : b < a} \in SUBSET s OBVIOUS
      <3>. QED BY <1>1, <3>1, Zenon
    <2>2. \A a \in s, b \in s : b \in below[a] <=> b < a BY <1>2, Zenon
    <2>3. \A a \in s : a \in Nat OBVIOUS
    <2>4. \A a \in s, b \in s, c \in s : c < b /\ b < a => c < a BY <2>3
    <2>5. \A a \in s, b \in s : a # b => b < a \/ a < b BY <2>3
    <2>6. \A a \in s : ~(a < a) BY <2>3
    <2>7. ASSUME NEW a \in s, NEW b \in s, b \in below[a] PROVE below[b] \subseteq below[a]
      <3>1. ASSUME NEW c \in below[b] PROVE c \in below[a]
        <4>1. c \in s BY <1>2, <3>1, Zenon
        <4>. QED BY <2>2, <2>4, <2>7, <3>1, <4>1, Zenon
      <3>. QED BY <3>1
    <2>. QED BY <2>1, <2>2, <2>5, <2>6, <2>7, Zenon DEF Ordered
  <1>4. PICK n \in Nat : n = Cardinality(s) BY FS_CardinalityType
  <1>5. PICK list : list = Ranked(s, <) OBVIOUS
  <1>6. DOMAIN list = 1..n /\ \A k \in 1..n : list[k] = CHOOSE a \in s : Cardinality({b \in s : b < a}) = k - 1
    BY <1>4, <1>5 DEF Ranked
  <1>7. ASSUME NEW k \in 1..n PROVE list[k] \in s /\ Cardinality(below[list[k]]) = k - 1
    <2>1. PICK a \in s : Cardinality(below[a]) = k - 1 BY <1>3, <1>4, RankReached
    <2>2. \E b \in s : Cardinality({c \in s : c < b}) = k - 1 BY <1>2, <2>1, Zenon
    <2>3. list[k] \in s /\ Cardinality({b \in s : b < list[k]}) = k - 1 BY <1>6, <2>2, Zenon
    <2>. QED BY <1>2, <2>3, Zenon
  <1>8. InRankOrder(list, s, below)
    <2>1. RankedBy(list, s, below) BY <1>4, <1>6, <1>7, Zenon DEF RankedBy
    <2>. QED BY <1>3, <2>1, RankedRises, Zenon
  <1>9. list \in [1..n -> s]
    <2>1. list = [k \in 1..n |-> list[k]] BY <1>4, <1>5, <1>6, Zenon DEF Ranked
    <2>. QED BY <1>7, <2>1
  <1>10. \A i \in 1..n, j \in 1..n : i < j => list[i] < list[j] BY <1>2, <1>4, <1>7, <1>8, Zenon DEF InRankOrder
  <1>. QED BY <1>4, <1>5, <1>8, <1>9, <1>10, Zenon DEF InRankOrder

---------------------------------------------------------------------------
(* The order of the strings *)

\* Two strings agree before a place, and there the first one ends or is smaller.
Splits(s, t, i) ==
    /\ i \in 1..(Len(s) + 1) /\ i <= Len(t)
    /\ \A j \in 1..(i - 1) : s[j] = t[j]
    /\ i <= Len(s) => s[i] < t[i]

LEMMA LessIs ==
    ASSUME NEW s \in Seq(Nat), NEW t \in Seq(Nat)
    PROVE  Less(s, t) <=> \E i \in 1..(Len(s) + 1) : Splits(s, t, i)
  <1>1. ASSUME Less(s, t) PROVE \E i \in 1..(Len(s) + 1) : Splits(s, t, i)
    <2>1. CASE IsStrictPrefix(s, t)
      <3>1. Len(s) <= Len(t) /\ SubSeq(s, 1, Len(s)) = SubSeq(t, 1, Len(s)) /\ s # t
        BY <2>1 DEF IsStrictPrefix, IsPrefix
      <3>2. \A j \in 1..Len(s) : s[j] = t[j]
        <4>1. \A j \in 1..Len(s) : SubSeq(s, 1, Len(s))[j] = s[j] /\ SubSeq(t, 1, Len(s))[j] = t[j] BY <3>1
        <4>. QED BY <3>1, <4>1
      <3>3. Len(s) # Len(t) BY <3>1, <3>2, SeqEqual
      <3>4. Len(s) + 1 \in 1..(Len(s) + 1) /\ Len(s) + 1 <= Len(t) /\ (Len(s) + 1) - 1 = Len(s) /\ ~(Len(s) + 1 <= Len(s))
        BY <3>1, <3>3
      <3>5. Splits(s, t, Len(s) + 1) BY <3>2, <3>4 DEF Splits
      <3>. QED BY <3>4, <3>5
    <2>2. CASE ~IsStrictPrefix(s, t)
      <3>1. PICK i \in DOMAIN s \cap DOMAIN t : s[i] < t[i] /\ \A j \in 1..(i - 1) : s[j] = t[j]
        BY <1>1, <2>2 DEF Less
      <3>2. i \in 1..(Len(s) + 1) /\ i <= Len(t) OBVIOUS
      <3>3. Splits(s, t, i) BY <3>1, <3>2 DEF Splits
      <3>. QED BY <3>2, <3>3
    <2>. QED BY <2>1, <2>2
  <1>2. ASSUME NEW i \in 1..(Len(s) + 1), Splits(s, t, i) PROVE Less(s, t)
    <2>1. i <= Len(t) /\ (\A j \in 1..(i - 1) : s[j] = t[j]) /\ (i <= Len(s) => s[i] < t[i]) BY <1>2 DEF Splits
    <2>2. CASE i <= Len(s)
      <3>1. i \in DOMAIN s \cap DOMAIN t BY <2>1, <2>2
      <3>. QED BY <2>1, <2>2, <3>1 DEF Less
    <2>3. CASE ~(i <= Len(s))
      <3>1. i = Len(s) + 1 /\ Len(s) < Len(t) /\ i - 1 = Len(s) BY <2>1, <2>3
      <3>2. \A j \in 1..Len(s) : s[j] = t[j] /\ j \in 1..Len(t) BY <2>1, <3>1
      <3>3. SubSeq(s, 1, Len(s)) \in Seq(Nat) /\ Len(SubSeq(s, 1, Len(s))) = Len(s)
            /\ \A j \in 1..Len(s) : SubSeq(s, 1, Len(s))[j] = s[j]
        OBVIOUS
      <3>4. SubSeq(t, 1, Len(s)) \in Seq(Nat) /\ Len(SubSeq(t, 1, Len(s))) = Len(s)
            /\ \A j \in 1..Len(s) : SubSeq(t, 1, Len(s))[j] = t[j]
        <4>1. \A j \in 1..Len(s) : t[j] \in Nat BY <3>2
        <4>. QED BY <3>1, <4>1
      <3>5. SubSeq(s, 1, Len(s)) = SubSeq(t, 1, Len(s)) BY <3>2, <3>3, <3>4, SeqEqual
      <3>6. s # t BY <3>1
      <3>. QED BY <3>1, <3>5, <3>6 DEF Less, IsStrictPrefix, IsPrefix
    <2>. QED BY <2>2, <2>3
  <1>. QED BY <1>1, <1>2

LEMMA LessNotSelf ==
    ASSUME NEW s \in Seq(Nat)
    PROVE  ~Less(s, s)
  <1>1. ASSUME NEW i \in 1..(Len(s) + 1), Splits(s, s, i) PROVE FALSE BY <1>1 DEF Splits
  <1>. QED BY <1>1, LessIs

LEMMA LessTransitive ==
    ASSUME NEW s \in Seq(Nat), NEW t \in Seq(Nat), NEW u \in Seq(Nat), Less(s, t), Less(t, u)
    PROVE  Less(s, u)
  <1>1. PICK i \in 1..(Len(s) + 1) : Splits(s, t, i) BY LessIs
  <1>2. PICK k \in 1..(Len(t) + 1) : Splits(t, u, k) BY LessIs
  <1>3. i <= Len(t) /\ (\A j \in 1..(i - 1) : s[j] = t[j]) /\ (i <= Len(s) => s[i] < t[i]) BY <1>1 DEF Splits
  <1>4. k <= Len(u) /\ (\A j \in 1..(k - 1) : t[j] = u[j]) /\ (k <= Len(t) => t[k] < u[k]) BY <1>2 DEF Splits
  <1>5. CASE i < k
    <2>1. i <= Len(u) /\ t[i] = u[i] /\ \A j \in 1..(i - 1) : s[j] = u[j] BY <1>3, <1>4, <1>5
    <2>2. Splits(s, u, i) BY <1>3, <2>1 DEF Splits
    <2>. QED BY <2>2, LessIs
  <1>6. CASE i = k
    <2>1. i <= Len(u) /\ (\A j \in 1..(i - 1) : s[j] = u[j]) /\ t[i] < u[i] BY <1>3, <1>4, <1>6
    <2>2. i <= Len(s) => s[i] < u[i]
      <3>1. ASSUME i <= Len(s) PROVE s[i] < u[i]
        <4>1. i \in 1..Len(s) /\ i \in 1..Len(t) /\ i \in 1..Len(u) BY <1>3, <2>1, <3>1
        <4>4. s[i] \in Nat BY <4>1
        <4>5. t[i] \in Nat BY <4>1
        <4>6. u[i] \in Nat BY <4>1
        <4>2. PICK x \in Nat, y \in Nat, z \in Nat : s[i] = x /\ t[i] = y /\ u[i] = z BY <4>4, <4>5, <4>6
        <4>3. x < y /\ y < z BY <1>3, <2>1, <3>1, <4>2
        <4>. QED BY <4>2, <4>3
      <3>. QED BY <3>1
    <2>3. Splits(s, u, i) BY <2>1, <2>2 DEF Splits
    <2>. QED BY <2>3, LessIs
  <1>7. CASE k < i
    <2>3. k \in 1..(i - 1) /\ k \in 1..(Len(s) + 1) /\ k <= Len(t) BY <1>3, <1>7, SMTT(60)
    <2>4. \A j \in 1..(k - 1) : j \in 1..(i - 1) BY <1>7
    <2>5. \A j \in 1..(k - 1) : s[j] = u[j] BY <1>3, <1>4, <2>4
    <2>1. k \in 1..(Len(s) + 1) /\ k <= Len(u) /\ s[k] = t[k] /\ k <= Len(t) /\ \A j \in 1..(k - 1) : s[j] = u[j]
      BY <1>3, <1>4, <2>3, <2>5
    <2>2. Splits(s, u, k) BY <1>4, <2>1 DEF Splits
    <2>. QED BY <2>1, <2>2, LessIs
  <1>. QED BY <1>5, <1>6, <1>7

LEMMA LessTotal ==
    ASSUME NEW s \in Seq(Nat), NEW t \in Seq(Nat), s # t
    PROVE  Less(s, t) \/ Less(t, s)
  <1>1. PICK d : d = {i \in Nat : i >= 1 /\ (i > Len(s) \/ i > Len(t) \/ s[i] # t[i])} OBVIOUS
  <1>2. d \subseteq Nat /\ d # {}
    <2>1. Len(s) + 1 \in d BY <1>1
    <2>. QED BY <1>1, <2>1
  <1>3. PICK i \in d : \A j \in d : i <= j BY <1>2, LeastNumber
  <1>4. i \in Nat /\ i >= 1 /\ (i > Len(s) \/ i > Len(t) \/ s[i] # t[i]) BY <1>1
  <1>5. \A j \in 1..(i - 1) : j <= Len(s) /\ j <= Len(t) /\ s[j] = t[j]
    <2>1. ASSUME NEW j \in 1..(i - 1), ~(j <= Len(s) /\ j <= Len(t) /\ s[j] = t[j]) PROVE FALSE
      <3>1. j \in d BY <1>1, <1>4, <2>1
      <3>. QED BY <1>3, <1>4, <3>1
    <2>. QED BY <2>1
  <1>6. i <= Len(s) + 1 /\ i <= Len(t) + 1
    <2>1. CASE i = 1 BY <2>1
    <2>2. CASE i # 1
      <3>1. i - 1 \in 1..(i - 1) BY <1>4, <2>2
      <3>2. i - 1 <= Len(s) /\ i - 1 <= Len(t) BY <1>5, <3>1
      <3>. QED BY <1>4, <3>2
    <2>. QED BY <2>1, <2>2
  <1>7. i <= Len(s) \/ i <= Len(t)
    <2>1. ASSUME i > Len(s), i > Len(t) PROVE FALSE
      <3>1. Len(s) = Len(t) /\ i - 1 = Len(s) BY <1>4, <1>6, <2>1
      <3>2. s = t BY <1>5, <3>1, SeqEqual
      <3>. QED BY <3>2
    <2>. QED BY <1>4, <2>1
  <1>8. Splits(s, t, i) \/ Splits(t, s, i)
    <2>1. i \in 1..(Len(s) + 1) /\ i \in 1..(Len(t) + 1) BY <1>4, <1>6
    <2>2. CASE ~(i <= Len(s)) BY <1>5, <1>7, <2>1, <2>2 DEF Splits
    <2>3. CASE ~(i <= Len(t)) BY <1>5, <1>7, <2>1, <2>3 DEF Splits
    <2>4. CASE i <= Len(s) /\ i <= Len(t)
      <3>1. s[i] \in Nat /\ t[i] \in Nat /\ s[i] # t[i] BY <1>4, <2>4
      <3>2. s[i] < t[i] \/ t[i] < s[i] BY <3>1
      <3>. QED BY <1>5, <2>1, <2>4, <3>2 DEF Splits
    <2>. QED BY <2>2, <2>3, <2>4
  <1>9. i \in 1..(Len(s) + 1) /\ i \in 1..(Len(t) + 1) BY <1>4, <1>6
  <1>. QED BY <1>8, <1>9, LessIs

\* Strings in their order.
Rising(t) == \A i \in DOMAIN t, j \in DOMAIN t : i < j => Less(t[i], t[j])

LEMMA RankedTexts ==
    ASSUME NEW s, s \subseteq Seq(Nat), IsFiniteSet(s)
    PROVE  /\ Cardinality(s) \in Nat /\ Ranked(s, Less) \in [1..Cardinality(s) -> s]
           /\ \A a \in s : \E k \in 1..Cardinality(s) : Ranked(s, Less)[k] = a
           /\ \A i \in 1..Cardinality(s), j \in 1..Cardinality(s) : i < j => Less(Ranked(s, Less)[i], Ranked(s, Less)[j])
  <1>1. PICK below : below = [a \in s |-> {b \in s : Less(b, a)}] OBVIOUS
  <1>2. \A a \in s : below[a] = {b \in s : Less(b, a)} BY <1>1, Zenon
  <1>3. Ordered(s, below)
    <2>1. below \in [s -> SUBSET s]
      <3>1. \A a \in s : {b \in s : Less(b, a)} \in SUBSET s OBVIOUS
      <3>. QED BY <1>1, <3>1, Zenon
    <2>2. \A a \in s, b \in s : b \in below[a] <=> Less(b, a) BY <1>2, Zenon
    <2>3. \A a \in s : a \in Seq(Nat) BY Zenon
    <2>4. \A a \in s : a \notin below[a] BY <2>2, <2>3, LessNotSelf, Zenon
    <2>5. \A a \in s, b \in s : a # b => b \in below[a] \/ a \in below[b] BY <2>2, <2>3, LessTotal, Zenon
    <2>6. ASSUME NEW a \in s, NEW b \in s, b \in below[a] PROVE below[b] \subseteq below[a]
      <3>1. ASSUME NEW c \in below[b] PROVE c \in below[a]
        <4>1. c \in s BY <1>2, <3>1, Zenon
        <4>2. Less(c, a) BY <2>2, <2>3, <2>6, <3>1, <4>1, LessTransitive, Zenon
        <4>. QED BY <2>2, <4>1, <4>2, Zenon
      <3>. QED BY <3>1
    <2>. QED BY <2>1, <2>4, <2>5, <2>6, Zenon DEF Ordered
  <1>4. PICK n \in Nat : n = Cardinality(s) BY FS_CardinalityType
  <1>5. PICK list : list = Ranked(s, Less) OBVIOUS
  <1>6. DOMAIN list = 1..n /\ \A k \in 1..n : list[k] = CHOOSE a \in s : Cardinality({b \in s : Less(b, a)}) = k - 1
    BY <1>4, <1>5 DEF Ranked
  <1>7. ASSUME NEW k \in 1..n PROVE list[k] \in s /\ Cardinality(below[list[k]]) = k - 1
    <2>1. PICK a \in s : Cardinality(below[a]) = k - 1 BY <1>3, <1>4, RankReached
    <2>2. \E b \in s : Cardinality({c \in s : Less(c, b)}) = k - 1 BY <1>2, <2>1, Zenon
    <2>3. list[k] \in s /\ Cardinality({b \in s : Less(b, list[k])}) = k - 1 BY <1>6, <2>2, Zenon
    <2>. QED BY <1>2, <2>3, Zenon
  <1>8. InRankOrder(list, s, below)
    <2>1. RankedBy(list, s, below) BY <1>4, <1>6, <1>7, Zenon DEF RankedBy
    <2>. QED BY <1>3, <2>1, RankedRises, Zenon
  <1>9. list \in [1..n -> s]
    <2>1. list = [k \in 1..n |-> list[k]] BY <1>4, <1>5, <1>6, Zenon DEF Ranked
    <2>. QED BY <1>7, <2>1
  <1>10. \A i \in 1..n, j \in 1..n : i < j => Less(list[i], list[j]) BY <1>2, <1>4, <1>7, <1>8, Zenon DEF InRankOrder
  <1>. QED BY <1>4, <1>5, <1>8, <1>9, <1>10, Zenon DEF InRankOrder

\* A code is the place of its string, counted from 0.
LEMMA CodeIsPlace ==
    ASSUME NEW t, AreTexts(t), Rising(t), NEW k \in 1..Len(t)
    PROVE  CodeOf(t, t[k]) = k - 1
  <1>1. DOMAIN t = 1..Len(t) /\ Len(t) \in Nat BY PlacesAre
  <1>2. \A i \in 1..Len(t) : t[i] \in Seq(Nat) BY PlacesAre, Zenon
  <1>3. ASSUME NEW i \in 1..Len(t) PROVE Less(t[i], t[k]) <=> i < k
    <2>1. CASE i < k BY <1>1, <2>1 DEF Rising
    <2>2. CASE i = k
      <3>1. ~Less(t[i], t[k]) BY <1>2, <2>2, LessNotSelf
      <3>. QED BY <2>2, <3>1
    <2>3. CASE k < i
      <3>1. Less(t[k], t[i]) BY <1>1, <2>3 DEF Rising
      <3>2. ASSUME Less(t[i], t[k]) PROVE FALSE
        <4>1. Less(t[k], t[k]) BY <1>2, <3>1, <3>2, LessTransitive, Zenon
        <4>. QED BY <1>2, <4>1, LessNotSelf, Zenon
      <3>. QED BY <2>3, <3>2
    <2>4. i < k \/ i = k \/ k < i BY <1>1
    <2>. QED BY <2>1, <2>2, <2>3, <2>4
  <1>4. {i \in DOMAIN t : Less(t[i], t[k])} = 1..(k - 1) BY <1>1, <1>3
  <1>5. Cardinality(1..(k - 1)) = k - 1
    <2>1. 1 \in Int /\ k - 1 \in Int BY <1>1
    <2>2. Cardinality(1..(k - 1)) = IF 1 > k - 1 THEN 0 ELSE (k - 1) - 1 + 1 BY <2>1, FS_Interval
    <2>. QED BY <1>1, <2>2
  <1>. QED BY <1>4, <1>5, Zenon DEF CodeOf

---------------------------------------------------------------------------
(* Runs *)

LEMMA ExtendedRuns ==
    ASSUME NEW r \in RunLists, NEW c \in Nat
    PROVE  Extended(r, c) \in RunLists
  <1>1. CASE r # <<>> /\ Last(r).code = c
    <2>1. PICK n \in Nat \ {0} : n = Len(r)
      <3>1. r \in Seq([code : Nat, count : Nat \ {0}]) BY DEF RunLists
      <3>. QED BY <1>1, <3>1, EmptySeq
    <2>2. r[n] \in [code : Nat, count : Nat \ {0}]
      <3>1. n \in 1..Len(r) /\ r \in Seq([code : Nat, count : Nat \ {0}]) BY <2>1 DEF RunLists
      <3>. QED BY <3>1, ElementOfSeq
    <2>3. PICK e : e = [r[n] EXCEPT !.count = @ + 1] OBVIOUS
    <2>4. e \in [code : Nat, count : Nat \ {0}] BY <2>2, <2>3
    <2>5. Extended(r, c) = [r EXCEPT ![n] = e] BY <1>1, <2>1, <2>3 DEF Extended
    <2>6. n \in 1..Len(r) BY <2>1
    <2>. QED BY <2>4, <2>5, <2>6, ExceptSeq DEF RunLists
  <1>2. CASE ~(r # <<>> /\ Last(r).code = c)
    <2>1. PICK e : e = [code |-> c, count |-> 1] OBVIOUS
    <2>2. e \in [code : Nat, count : Nat \ {0}] BY <2>1
    <2>3. Extended(r, c) = Append(r, e) BY <1>2, <2>1 DEF Extended
    <2>. QED BY <2>2, <2>3, AppendProperties DEF RunLists
  <1>. QED BY <1>1, <1>2

LEMMA ExtendedCovers ==
    ASSUME NEW r \in RunLists, NEW codes, NEW k \in Nat, NEW p, StandFor(r, codes, k, p),
           codes[k + 1] \in Nat
    PROVE  \E q : StandFor(Extended(r, codes[k + 1]), codes, k + 1, q)
  <1>1. PICK c \in Nat : c = codes[k + 1] OBVIOUS
  <1>2. PICK n \in Nat : n = Len(r) BY CountsAre
  <1>3. /\ p \in [0..n -> Nat] /\ p[0] = 0 /\ p[n] = k
        /\ \A j \in 1..n : p[j] = p[j - 1] + r[j].count /\ r[j].count \in Nat \ {0} /\ r[j].code \in Nat
        /\ \A j \in 1..n : \A i \in 1..(r[j].count) : codes[p[j - 1] + i] = r[j].code
    BY <1>2, CountsAre DEF StandFor, RunningSum
  <1>4. CASE r # <<>> /\ Last(r).code = c
    <2>1. n # 0
      <3>1. r \in Seq([code : Nat, count : Nat \ {0}]) BY DEF RunLists
      <3>. QED BY <1>2, <1>4, <3>1, EmptySeq
    <2>2. PICK e : e = [code |-> r[n].code, count |-> r[n].count + 1] OBVIOUS
    <2>3. r[n] \in [code : Nat, count : Nat \ {0}] /\ n \in 1..n /\ n \in 1..Len(r)
      <3>1. n \in 1..Len(r) /\ n \in 1..n /\ r \in Seq([code : Nat, count : Nat \ {0}]) BY <1>2, <2>1 DEF RunLists
      <3>. QED BY <3>1, ElementOfSeq
    <2>4. [r[n] EXCEPT !.count = @ + 1] = e /\ e \in [code : Nat, count : Nat \ {0}] BY <2>2, <2>3
    <2>5. PICK x : x = [r EXCEPT ![n] = e] OBVIOUS
    <2>6. Extended(r, c) = x /\ r[n].code = c BY <1>2, <1>4, <2>4, <2>5 DEF Extended, Last
    <2>7. x \in RunLists /\ Len(x) = n /\ \A j \in 1..n : x[j] = IF j = n THEN e ELSE r[j]
      BY <1>2, <2>3, <2>4, <2>5, ExceptSeq DEF RunLists
    <2>8. PICK q : q = [j \in 0..n |-> IF j = n THEN k + 1 ELSE p[j]] OBVIOUS
    <2>9. q \in [0..n -> Nat] /\ q[0] = 0 /\ q[n] = k + 1 /\ \A j \in 0..(n - 1) : q[j] = p[j] BY <1>3, <2>1, <2>8
    <2>10. k = p[n - 1] + r[n].count /\ n - 1 \in 0..n /\ p[n - 1] \in Nat BY <1>3, <2>3
    <2>11. ASSUME NEW j \in 1..n PROVE q[j] = q[j - 1] + x[j].count
      <3>1. CASE j = n
        <4>1. q[n] = k + 1 /\ q[n - 1] = p[n - 1] /\ x[n].count = r[n].count + 1 BY <2>2, <2>3, <2>7, <2>9
        <4>2. PICK a \in Nat, b \in Nat : a = p[n - 1] /\ b = r[n].count BY <2>3, <2>10
        <4>. QED BY <2>10, <3>1, <4>1, <4>2
      <3>2. CASE j # n
        <4>1. q[j] = p[j] /\ q[j - 1] = p[j - 1] /\ x[j] = r[j] BY <2>7, <2>9, <3>2
        <4>. QED BY <1>3, <4>1
      <3>. QED BY <3>1, <3>2
    <2>12. ASSUME NEW j \in 1..n, NEW i \in 1..(x[j].count) PROVE codes[q[j - 1] + i] = x[j].code
      <3>1. q[j - 1] = p[j - 1] BY <2>9
      <3>2. CASE j = n
        <4>1. x[j].code = c /\ x[j].count = r[n].count + 1 BY <2>2, <2>6, <2>7, <3>2
        <4>2. PICK b \in Nat : b = r[n].count BY <2>3
        <4>3. i \in 1..b \/ i = b + 1 BY <4>1, <4>2
        <4>4. CASE i \in 1..b BY <1>3, <2>6, <3>1, <3>2, <4>1, <4>2, <4>4
        <4>5. CASE i = b + 1
          <5>1. q[j - 1] + i = k + 1 BY <2>10, <3>1, <3>2, <4>2, <4>5
          <5>. QED BY <1>1, <4>1, <5>1
        <4>. QED BY <4>3, <4>4, <4>5
      <3>3. CASE j # n
        <4>1. x[j] = r[j] BY <2>7, <3>3
        <4>. QED BY <1>3, <3>1, <4>1
      <3>. QED BY <3>2, <3>3
    <2>13. RunningSum(Counts(x), n, q)
      <3>1. \A j \in 1..n : Counts(x)[j] = x[j].count BY <2>7, CountsAre
      <3>. QED BY <2>9, <2>11, <3>1 DEF RunningSum
    <2>14. StandFor(x, codes, k + 1, q) BY <2>7, <2>9, <2>12, <2>13 DEF StandFor
    <2>. QED BY <1>1, <2>6, <2>14
  <1>5. CASE ~(r # <<>> /\ Last(r).code = c)
    <2>1. PICK e : e = [code |-> c, count |-> 1] OBVIOUS
    <2>2. e \in [code : Nat, count : Nat \ {0}] BY <2>1
    <2>3. PICK x : x = Append(r, e) OBVIOUS
    <2>4. Extended(r, c) = x BY <1>5, <2>1, <2>3 DEF Extended
    <2>5. x \in RunLists /\ Len(x) = n + 1 /\ \A j \in 1..(n + 1) : x[j] = IF j = n + 1 THEN e ELSE r[j]
      BY <1>2, <2>2, <2>3, AppendProperties DEF RunLists
    <2>6. PICK q : q = [j \in 0..(n + 1) |-> IF j = n + 1 THEN k + 1 ELSE p[j]] OBVIOUS
    <2>7. q \in [0..(n + 1) -> Nat] /\ q[0] = 0 /\ q[n + 1] = k + 1 /\ \A j \in 0..n : q[j] = p[j] BY <1>3, <2>6
    <2>8. ASSUME NEW j \in 1..(n + 1) PROVE q[j] = q[j - 1] + x[j].count
      <3>1. CASE j = n + 1
        <4>1. q[j] = k + 1 /\ j - 1 = n /\ q[n] = k /\ x[j].count = 1 BY <1>3, <2>1, <2>5, <2>7, <3>1
        <4>. QED BY <4>1
      <3>2. CASE j # n + 1
        <4>1. j \in 1..n /\ j - 1 \in 0..n BY <3>2
        <4>2. q[j] = p[j] /\ q[j - 1] = p[j - 1] /\ x[j] = r[j] BY <2>5, <2>7, <4>1, <3>2
        <4>. QED BY <1>3, <4>1, <4>2
      <3>. QED BY <3>1, <3>2
    <2>9. ASSUME NEW j \in 1..(n + 1), NEW i \in 1..(x[j].count) PROVE codes[q[j - 1] + i] = x[j].code
      <3>1. CASE j = n + 1
        <4>1. j - 1 = n /\ q[n] = k /\ x[j].count = 1 /\ x[j].code = c BY <1>3, <2>1, <2>5, <2>7, <3>1
        <4>2. i = 1 BY <4>1
        <4>. QED BY <1>1, <4>1, <4>2
      <3>2. CASE j # n + 1
        <4>1. j \in 1..n /\ j - 1 \in 0..n BY <3>2
        <4>2. q[j - 1] = p[j - 1] /\ x[j] = r[j] BY <2>5, <2>7, <4>1, <3>2
        <4>. QED BY <1>3, <4>1, <4>2
      <3>. QED BY <3>1, <3>2
    <2>10. RunningSum(Counts(x), n + 1, q)
      <3>1. \A j \in 1..(n + 1) : Counts(x)[j] = x[j].count BY <2>5, CountsAre
      <3>. QED BY <2>7, <2>8, <3>1 DEF RunningSum
    <2>11. StandFor(x, codes, k + 1, q) BY <2>5, <2>7, <2>9, <2>10 DEF StandFor
    <2>. QED BY <1>1, <2>4, <2>11
  <1>. QED BY <1>4, <1>5

LEMMA RunsRecursion ==
    ASSUME NEW codes \in Seq(Nat)
    PROVE  \E f \in [0..Len(codes) -> RunLists] :
              /\ f[0] = <<>> /\ Runs(codes) = f[Len(codes)]
              /\ \A k \in 1..Len(codes) : f[k] = Extended(f[k - 1], codes[k])
  <1>1. PICK n \in Nat : n = Len(codes) OBVIOUS
  <1>2. \A k \in 1..n : codes[k] \in Nat BY <1>1
  <1>3. PICK step : step = [p \in (1..n) \X RunLists |-> Extended(p[2], codes[p[1]])] OBVIOUS
  <1>4. step \in [(1..n) \X RunLists -> RunLists]
    <2>1. \A p \in (1..n) \X RunLists : Extended(p[2], codes[p[1]]) \in RunLists BY <1>2, ExtendedRuns
    <2>. QED BY <1>3, <2>1
  <1>5. <<>> \in RunLists BY DEF RunLists
  <1>6. PICK g \in [0..n -> RunLists] : FromZero(g, n, <<>>, step) BY <1>4, <1>5, RecursionFromZero
  <1>7. ASSUME NEW k \in 1..n PROVE g[k] = Extended(g[k - 1], codes[k])
    <2>1. g[k] = step[<<k, g[k - 1]>>] /\ k - 1 \in 0..n /\ g[k - 1] \in RunLists BY <1>6 DEF FromZero
    <2>. QED BY <1>3, <2>1
  <1>8. g = [k \in 0..n |-> IF k = 0 THEN <<>> ELSE Extended(g[k - 1], codes[k])]
    <2>1. PICK h : h = [k \in 0..n |-> IF k = 0 THEN <<>> ELSE Extended(g[k - 1], codes[k])] OBVIOUS
    <2>2. ASSUME NEW k \in 0..n PROVE g[k] = h[k]
      <3>1. CASE k = 0 BY <1>6, <2>1, <3>1 DEF FromZero
      <3>2. CASE k # 0
        <4>1. k \in 1..n BY <3>2
        <4>. QED BY <1>7, <2>1, <3>2, <4>1
      <3>. QED BY <3>1, <3>2
    <2>. QED BY <2>1, <2>2
  <1>. DEFINE f == CHOOSE h : h = [k \in 0..n |-> IF k = 0 THEN <<>> ELSE Extended(h[k - 1], codes[k])]
  <1>9. f = [k \in 0..n |-> IF k = 0 THEN <<>> ELSE Extended(f[k - 1], codes[k])] BY <1>8, Zenon
  <1>10. Runs(codes) = f[n] BY <1>1, Zenon DEF Runs
  <1>. HIDE DEF f
  <1>11. DOMAIN f = 0..n /\ f[0] = <<>>
    <2>1. 0 \in 0..n OBVIOUS
    <2>. QED BY <1>9, <2>1
  <1>12. ASSUME NEW k \in 1..n PROVE f[k] = Extended(f[k - 1], codes[k])
    <2>1. k \in 0..n /\ k # 0 OBVIOUS
    <2>. QED BY <1>9, <2>1, Zenon
  <1>13. \A k \in 0..n : f[k] \in RunLists
    <2>. DEFINE S == {k \in 0..n : f[k] \in RunLists}
    <2>1. 0 \in S BY <1>5, <1>11
    <2>2. ASSUME NEW k \in 0..(n - 1), k \in S PROVE k + 1 \in S
      <3>1. k + 1 \in 1..n /\ (k + 1) - 1 = k OBVIOUS
      <3>2. f[k + 1] = Extended(f[k], codes[k + 1]) /\ codes[k + 1] \in Nat BY <1>2, <1>12, <3>1
      <3>3. f[k + 1] \in RunLists BY <2>2, <3>2, ExtendedRuns
      <3>. QED BY <3>3
    <2>3. 0..n \subseteq S
      <3>. HIDE DEF S
      <3>. QED BY <2>1, <2>2, IntervalInduction
    <2>. QED BY <2>3
  <1>14. f \in [0..n -> RunLists]
    <2>1. f = [k \in 0..n |-> f[k]] BY <1>9, <1>11, Zenon
    <2>. QED BY <1>13, <2>1
  <1>. QED BY <1>1, <1>10, <1>11, <1>12, <1>14

\* The runs of codes stand for them.
LEMMA RunsCover ==
    ASSUME NEW codes \in Seq(Nat)
    PROVE  Runs(codes) \in RunLists /\ \E p : StandFor(Runs(codes), codes, Len(codes), p)
  <1>1. PICK n \in Nat : n = Len(codes) OBVIOUS
  <1>2. PICK f \in [0..n -> RunLists] :
              /\ f[0] = <<>> /\ Runs(codes) = f[n]
              /\ \A k \in 1..n : f[k] = Extended(f[k - 1], codes[k])
    BY <1>1, RunsRecursion
  <1>. DEFINE S == {k \in 0..n : \E p : StandFor(f[k], codes, k, p)}
  <1>3. 0 \in S
    <2>1. PICK r \in RunLists : r = f[0] OBVIOUS
    <2>2. r = <<>> /\ Len(r) = 0 BY <1>2, <2>1
    <2>3. PICK p : p = [j \in 0..0 |-> 0] OBVIOUS
    <2>4. StandFor(r, codes, 0, p) BY <2>2, <2>3 DEF StandFor, RunningSum
    <2>. QED BY <2>1, <2>4
  <1>4. ASSUME NEW k \in 0..(n - 1), k \in S PROVE k + 1 \in S
    <2>1. k + 1 \in 1..n /\ (k + 1) - 1 = k /\ k \in 0..n /\ k \in Nat OBVIOUS
    <2>2. f[k + 1] = Extended(f[k], codes[k + 1]) /\ codes[k + 1] \in Nat /\ f[k] \in RunLists BY <1>1, <1>2, <2>1
    <2>3. PICK p : StandFor(f[k], codes, k, p) BY <1>4
    <2>4. \E q : StandFor(Extended(f[k], codes[k + 1]), codes, k + 1, q) BY <2>1, <2>2, <2>3, ExtendedCovers
    <2>. QED BY <2>1, <2>2, <2>4
  <1>5. 0..n \subseteq S
    <2>. HIDE DEF S
    <2>. QED BY <1>3, <1>4, IntervalInduction
  <1>6. n \in 0..n OBVIOUS
  <1>. QED BY <1>1, <1>2, <1>5, <1>6

---------------------------------------------------------------------------
(* Bitmaps *)

LEMMA NullmapIs ==
    ASSUME NEW present \in Seq(BOOLEAN), NEW nm, nm = Nullmap(present)
    PROVE  /\ nm.type \in {"ALLZEROS", "ALLONES", "REGULAR", "FLIPPED"} /\ nm.rows \subseteq 1..Len(present)
           /\ nm.type = "ALLZEROS" => \A i \in 1..Len(present) : ~present[i]
           /\ nm.type = "ALLONES" => \A i \in 1..Len(present) : present[i]
           /\ nm.type = "REGULAR" => \A i \in 1..Len(present) : i \in nm.rows <=> present[i]
           /\ nm.type = "FLIPPED" => \A i \in 1..Len(present) : i \notin nm.rows <=> present[i]
           /\ nm.type \in {"REGULAR", "FLIPPED"} => \E i \in 1..Len(present) : ~present[i]
  <1>1. PICK n \in Nat : n = Len(present) /\ DOMAIN present = 1..n OBVIOUS
  <1>2. PICK ones : ones = {i \in DOMAIN present : present[i]} OBVIOUS
  <1>3. ones \subseteq 1..n /\ \A i \in 1..n : present[i] <=> i \in ones BY <1>1, <1>2
  <1>4. CASE ones = {}
    <2>1. nm = [type |-> "ALLZEROS", rows |-> {}] BY <1>2, <1>4, Zenon DEF Nullmap
    <2>. QED BY <1>1, <1>3, <1>4, <2>1
  <1>5. CASE ones # {} /\ ones = DOMAIN present
    <2>1. nm = [type |-> "ALLONES", rows |-> {}] BY <1>2, <1>5 DEF Nullmap
    <2>. QED BY <1>1, <1>3, <1>5, <2>1
  <1>6. CASE ones # {} /\ ones # DOMAIN present
    <2>1. \/ nm = [type |-> "REGULAR", rows |-> ones]
          \/ nm = [type |-> "FLIPPED", rows |-> DOMAIN present \ ones]
      BY <1>2, <1>6 DEF Nullmap
    <2>2. \E i \in 1..n : ~present[i] BY <1>1, <1>3, <1>6
    <2>3. CASE nm = [type |-> "REGULAR", rows |-> ones] BY <1>1, <1>3, <2>2, <2>3
    <2>4. CASE nm = [type |-> "FLIPPED", rows |-> DOMAIN present \ ones] BY <1>1, <1>3, <2>2, <2>4
    <2>. QED BY <2>1, <2>3, <2>4
  <1>. QED BY <1>4, <1>5, <1>6

LEMMA BitmapReadBack ==
    ASSUME NEW present \in Seq(BOOLEAN), NEW nm, nm = Nullmap(present)
    PROVE  \A i \in 1..Len(present) : WriteBITMAP(nm, Len(present))[i] = present[i]
  <1>1. PICK n \in Nat : n = Len(present) OBVIOUS
  <1>2. \A i \in 1..n : present[i] \in BOOLEAN BY <1>1
  <1>3. CASE nm.type = "ALLONES"
    <2>1. WriteBITMAP(nm, n) = [i \in 1..n |-> TRUE] BY <1>3 DEF WriteBITMAP
    <2>2. \A i \in 1..n : present[i] BY <1>1, <1>3, NullmapIs
    <2>. QED BY <1>1, <1>2, <2>1, <2>2
  <1>4. CASE nm.type = "ALLZEROS"
    <2>1. WriteBITMAP(nm, n) = [i \in 1..n |-> FALSE] BY <1>4 DEF WriteBITMAP
    <2>2. \A i \in 1..n : ~present[i] BY <1>1, <1>4, NullmapIs
    <2>. QED BY <1>1, <1>2, <2>1, <2>2
  <1>5. CASE nm.type = "REGULAR"
    <2>1. WriteBITMAP(nm, n) = [i \in 1..n |-> i \in nm.rows] BY <1>5 DEF WriteBITMAP
    <2>2. \A i \in 1..n : i \in nm.rows <=> present[i] BY <1>1, <1>5, NullmapIs
    <2>3. \A i \in 1..n : WriteBITMAP(nm, n)[i] <=> i \in nm.rows BY <2>1
    <2>4. \A i \in 1..n : WriteBITMAP(nm, n)[i] \in BOOLEAN BY <2>1
    <2>. QED BY <1>1, <1>2, <2>2, <2>3, <2>4
  <1>6. CASE nm.type = "FLIPPED"
    <2>1. WriteBITMAP(nm, n) = [i \in 1..n |-> i \notin nm.rows] BY <1>6 DEF WriteBITMAP
    <2>2. \A i \in 1..n : i \notin nm.rows <=> present[i] BY <1>1, <1>6, NullmapIs
    <2>3. \A i \in 1..n : WriteBITMAP(nm, n)[i] <=> i \notin nm.rows BY <2>1
    <2>4. \A i \in 1..n : WriteBITMAP(nm, n)[i] \in BOOLEAN BY <2>1
    <2>. QED BY <1>1, <1>2, <2>2, <2>3, <2>4
  <1>7. nm.type \in {"ALLZEROS", "ALLONES", "REGULAR", "FLIPPED"} BY NullmapIs
  <1>. QED BY <1>3, <1>4, <1>5, <1>6, <1>7

LEMMA SetRowsAre ==
    ASSUME NEW present \in Seq(BOOLEAN), NEW nm, nm = Nullmap(present)
    PROVE  /\ SetRows(nm, Len(present)) \in Nat
           /\ (\A i \in 1..Len(present) : present[i]) => SetRows(nm, Len(present)) = Len(present)
  <1>1. PICK n \in Nat : n = Len(present) OBVIOUS
  <1>2. PICK set : set = {i \in 1..n : WriteBITMAP(nm, n)[i]} OBVIOUS
  <1>3. set \subseteq 1..n BY <1>2
  <1>4. IsFiniteSet(1..n) /\ Cardinality(1..n) = n
    <2>1. 1 \in Int /\ n \in Int OBVIOUS
    <2>2. IsFiniteSet(1..n) /\ Cardinality(1..n) = IF 1 > n THEN 0 ELSE n - 1 + 1 BY <2>1, FS_Interval
    <2>. QED BY <2>2
  <1>5. Cardinality(set) \in Nat BY <1>3, <1>4, FS_Subset, FS_CardinalityType
  <1>6. ASSUME \A i \in 1..n : present[i] PROVE set = 1..n BY <1>1, <1>2, <1>6, BitmapReadBack
  <1>7. SetRows(nm, n) = Cardinality(set) BY <1>2, Zenon DEF SetRows
  <1>. QED BY <1>1, <1>4, <1>5, <1>6, <1>7

---------------------------------------------------------------------------
(* What is kept of the strings of a chunk *)

Total(t) == SlotsSize(Len(t)) + TextPlaces(t)[Len(t)]

\* A chunk holds strings, a null is an empty one.
Holds(chunk, t, present) ==
    /\ AreTexts(t) /\ Len(t) # 0
    /\ present \in Seq(BOOLEAN) /\ Len(present) = Len(t) /\ chunk.present = present
    /\ \A k \in 1..Len(t) : ~present[k] => t[k] = <<>>
    /\ Stored(chunk.memory, t, SlotsSize(Len(t))) /\ chunk.size = Total(t)
    /\ \A a \in DOMAIN chunk.memory : a \in 0..(Total(t) - 1)

\* The distinct strings are those of the chunk.
Distinct(d, t) ==
    /\ AreTexts(d) /\ Rising(d)
    /\ \A k \in 1..Len(t) : \E j \in 1..Len(d) : d[j] = t[k]
    /\ \A j \in 1..Len(d) : \E k \in 1..Len(t) : t[k] = d[j]

LEMMA StatsAre ==
    ASSUME NEW chunk, NEW t, NEW present, Holds(chunk, t, present)
    PROVE  /\ Stats(chunk).tuples = Len(t) /\ Stats(chunk).totalSize = Total(t)
           /\ Distinct(Stats(chunk).distinct, t)
  <1>1. PICK n \in Nat \ {0} : n = Len(t) /\ n = Len(present) /\ DOMAIN present = 1..n
    <2>1. Len(t) \in Nat /\ Len(t) # 0 /\ Len(t) = Len(present) /\ DOMAIN present = 1..Len(present)
      BY PlacesAre DEF Holds
    <2>. QED BY <2>1
  <1>2. AreTexts(t) /\ \A k \in 1..n : t[k] \in Seq(Nat) BY <1>1, PlacesAre DEF Holds
  <1>3. PICK set : set = {i \in DOMAIN chunk.present : chunk.present[i]} OBVIOUS
  <1>4. set \subseteq 1..n /\ \A i \in 1..n : i \in set <=> present[i] BY <1>1, <1>3 DEF Holds
  <1>5. ASSUME NEW i \in 1..n PROVE StringAt(chunk.memory, i - 1) = t[i]
    <2>1. Stored(chunk.memory, t, SlotsSize(Len(t))) BY DEF Holds
    <2>2. SlotsSize(Len(t)) \in Nat BY <1>1, SlotIs DEF SlotsSize
    <2>. QED BY <1>1, <1>2, <2>1, <2>2, StoredRead
  <1>6. PICK nulls : nulls = Len(chunk.present) - Cardinality(set) OBVIOUS
  <1>7. nulls = 0 <=> set = 1..n
    <2>1. IsFiniteSet(1..n) /\ Cardinality(1..n) = n
      <3>1. 1 \in Int /\ n \in Int OBVIOUS
      <3>2. IsFiniteSet(1..n) /\ Cardinality(1..n) = IF 1 > n THEN 0 ELSE n - 1 + 1 BY <3>1, FS_Interval
      <3>. QED BY <3>2
    <2>2. Cardinality(set) \in Nat /\ (Cardinality(set) = n => set = 1..n)
      BY <1>4, <2>1, FS_Subset, FS_CardinalityType
    <2>3. Len(chunk.present) = n BY <1>1 DEF Holds
    <2>. QED BY <1>6, <2>1, <2>2, <2>3
  <1>8. PICK all : all = {StringAt(chunk.memory, i - 1) : i \in set} \cup NullsAsStrings(nulls) OBVIOUS
  <1>9. all = {t[k] : k \in 1..n}
    <2>1. {StringAt(chunk.memory, i - 1) : i \in set} = {t[i] : i \in set} BY <1>4, <1>5
    <2>2. CASE nulls = 0
      <3>1. NullsAsStrings(nulls) = {} /\ set = 1..n BY <1>7, <2>2 DEF NullsAsStrings
      <3>. QED BY <1>8, <2>1, <3>1
    <2>3. CASE nulls # 0
      <3>1. NullsAsStrings(nulls) = {<<>>} BY <2>3 DEF NullsAsStrings
      <3>2. PICK k \in 1..n : k \notin set BY <1>4, <1>7, <2>3
      <3>3. \A i \in 1..n : i \notin set => t[i] = <<>> BY <1>1, <1>4 DEF Holds
      <3>4. t[k] = <<>> BY <3>2, <3>3
      <3>5. ASSUME NEW x \in all PROVE x \in {t[i] : i \in 1..n}
        <4>1. (\E i \in set : x = t[i]) \/ x = <<>> BY <1>8, <2>1, <3>1
        <4>. QED BY <1>4, <3>4, <4>1
      <3>6. ASSUME NEW i \in 1..n PROVE t[i] \in all BY <1>8, <2>1, <3>1, <3>3
      <3>. QED BY <3>5, <3>6
    <2>. QED BY <2>2, <2>3
  <1>10. IsFiniteSet(all) BY <1>1, <1>2, <1>9, TextsFinite, Zenon
  <1>11. all \subseteq Seq(Nat) BY <1>2, <1>9
  <1>12. PICK d : d = Ranked(all, Less) BY Zenon
  <1>13. PICK c : c = Cardinality(all) OBVIOUS
  <1>14. /\ c \in Nat /\ d \in [1..c -> all]
         /\ \A a \in all : \E k \in 1..c : d[k] = a
         /\ \A i \in 1..c, j \in 1..c : i < j => Less(d[i], d[j])
    BY <1>10, <1>11, <1>12, <1>13, RankedTexts, Zenon
  <1>15. d \in [1..c -> Seq(Nat)] BY <1>11, <1>14
  <1>16. AreTexts(d) /\ Len(d) = c /\ DOMAIN d = 1..c BY <1>14, <1>15 DEF AreTexts
  <1>17. Distinct(d, t)
    <2>1. Rising(d) BY <1>14, <1>16, Zenon DEF Rising
    <2>2. ASSUME NEW k \in 1..Len(t) PROVE \E j \in 1..Len(d) : d[j] = t[k] BY <1>1, <1>9, <1>14, <1>16
    <2>3. ASSUME NEW j \in 1..Len(d) PROVE \E k \in 1..Len(t) : t[k] = d[j] BY <1>1, <1>9, <1>14, <1>16
    <2>. QED BY <1>16, <2>1, <2>2, <2>3, Zenon DEF Distinct
  <1>18. PICK s : s = Stats(chunk) OBVIOUS
  <1>19. s.distinct = d /\ s.tuples = Len(chunk.present) /\ s.totalSize = chunk.size
    BY <1>3, <1>6, <1>8, <1>12, <1>18 DEF Stats
  <1>20. chunk.size = Total(t) /\ Len(chunk.present) = Len(t) BY DEF Holds
  <1>. QED BY <1>17, <1>18, <1>19, <1>20

\* What the schemes keep of the strings t.
Names(d, codes, t) ==
    /\ AreTexts(d) /\ codes \in Seq(Nat) /\ Len(codes) = Len(t)
    /\ \A k \in 1..Len(t) : codes[k] \in 0..(Len(d) - 1) /\ d[codes[k] + 1] = t[k]

IsPlain(x, t) ==
    /\ x.scheme = "UNCOMPRESSED" /\ x.totalSize = Total(t)
    /\ Stored(x.memory, t, SlotsSize(Len(t))) /\ \A a \in DOMAIN x.memory : a \in 0..(Total(t) - 1)

IsFsst(x, t) ==
    /\ x.scheme = "FSST" /\ x.totalSize = Total(t) /\ x.text = FlattenSeq(t)
    /\ DOMAIN x.offsets = 1..(Len(t) + 1) /\ Len(x.offsets) = Len(t) + 1
    /\ \A k \in 0..Len(t) : x.offsets[k + 1] = SlotsSize(Len(t)) + TextPlaces(t)[k]

IsFixed(x, t) == x.scheme = "DICTIONARY_8" /\ x.totalSize = Total(t) /\ Names(x.strings, x.codes, t)

IsDict(x, t) ==
    /\ x.scheme = "DICT" /\ x.totalSize = Total(t) /\ Names(x.strings, x.codes, t)
    /\ TextPlaces(x.strings)[Len(x.strings)] <= TextPlaces(t)[Len(t)]
    /\ x.runs \in RunLists /\ \E p : StandFor(x.runs, x.codes, Len(t), p)
    /\ x.byRuns /\ x.codesScheme # "RLE" => RunsMayBeLost(Len(t), Len(x.runs))

IsOne(x, t) == x.scheme = "ONE_VALUE" /\ x.value \in Seq(Nat) /\ \A k \in 1..Len(t) : t[k] = x.value

IsKept(x, t) == IsPlain(x, t) \/ IsFsst(x, t) \/ IsFixed(x, t) \/ IsDict(x, t) \/ IsOne(x, t)

LEMMA NamesAre ==
    ASSUME NEW chunk, NEW t, NEW present, Holds(chunk, t, present), NEW stats,
           stats.tuples = Len(t), Distinct(stats.distinct, t)
    PROVE  Names(stats.distinct, CodesOf(chunk, stats), t)
  <1>1. PICK n \in Nat : n = Len(t) BY PlacesAre DEF Holds
  <1>2. AreTexts(t) BY DEF Holds
  <1>3. PICK d : d = stats.distinct OBVIOUS
  <1>4. AreTexts(d) /\ Rising(d) /\ Len(d) \in Nat BY <1>3, PlacesAre DEF Distinct
  <1>5. ASSUME NEW k \in 1..n PROVE StringAt(chunk.memory, k - 1) = t[k]
    <2>1. Stored(chunk.memory, t, SlotsSize(Len(t))) BY DEF Holds
    <2>2. SlotsSize(Len(t)) \in Nat BY <1>1, SlotIs DEF SlotsSize
    <2>. QED BY <1>1, <1>2, <2>1, <2>2, StoredRead
  <1>6. PICK codes : codes = CodesOf(chunk, stats) OBVIOUS
  <1>7. codes = [k \in 1..n |-> CodeOf(d, StringAt(chunk.memory, k - 1))] BY <1>1, <1>3, <1>6 DEF CodesOf
  <1>8. ASSUME NEW k \in 1..n PROVE codes[k] \in Nat /\ codes[k] \in 0..(Len(d) - 1) /\ d[codes[k] + 1] = t[k]
    <2>1. PICK j \in 1..Len(d) : d[j] = t[k] BY <1>1, <1>3 DEF Distinct
    <2>2. CodeOf(d, d[j]) = j - 1 BY <1>4, CodeIsPlace
    <2>3. codes[k] = j - 1 BY <1>5, <1>7, <2>1, <2>2
    <2>. QED BY <1>4, <2>1, <2>3
  <1>9. DOMAIN codes = 1..n BY <1>7
  <1>10. codes \in [1..n -> Nat] BY <1>7, <1>8, <1>9
  <1>11. codes \in Seq(Nat) /\ Len(codes) = n BY <1>10
  <1>. QED BY <1>1, <1>3, <1>4, <1>6, <1>8, <1>11 DEF Names

LEMMA FsstIs ==
    ASSUME NEW chunk, NEW t, NEW present, Holds(chunk, t, present), NEW stats,
           stats.tuples = Len(t), stats.totalSize = Total(t)
    PROVE  IsFsst(Fsst(chunk, stats), t)
  <1>1. PICK n \in Nat : n = Len(t) BY PlacesAre DEF Holds
  <1>2. AreTexts(t) BY DEF Holds
  <1>3. Stored(chunk.memory, t, SlotsSize(n)) /\ SlotsSize(n) \in Nat BY <1>1, SlotIs DEF Holds, SlotsSize
  <1>4. [k \in 1..n |-> StringAt(chunk.memory, k - 1)] = t
    <2>1. \A k \in 1..n : StringAt(chunk.memory, k - 1) = t[k] BY <1>1, <1>2, <1>3, StoredRead
    <2>2. t = [k \in 1..n |-> t[k]] BY <1>1, <1>2, PlacesAre DEF AreTexts
    <2>. QED BY <2>1, <2>2
  <1>5. ASSUME NEW k \in 0..n PROVE Word(chunk.memory, SlotBytes * k) = SlotsSize(n) + TextPlaces(t)[k]
    <2>1. HasWord(chunk.memory, SlotBytes * k, SlotsSize(n) + TextPlaces(t)[k]) BY <1>1, <1>3 DEF Stored, SlotsUpto
    <2>2. SlotBytes * k \in Int BY SlotIs
    <2>. QED BY <2>1, <2>2, WordRead
  <1>6. PICK x : x = Fsst(chunk, stats) OBVIOUS
  <1>7. PICK o : o = [i \in 1..(n + 1) |-> Word(chunk.memory, SlotBytes * (i - 1))] OBVIOUS
  <1>8. /\ x.scheme = "FSST" /\ x.totalSize = stats.totalSize /\ x.offsets = o
        /\ x.text = FlattenSeq([k \in 1..n |-> StringAt(chunk.memory, k - 1)])
    BY <1>1, <1>6, <1>7 DEF Fsst
  <1>9. ASSUME NEW k \in 0..n PROVE o[k + 1] = SlotsSize(n) + TextPlaces(t)[k]
    <2>1. k + 1 \in 1..(n + 1) /\ (k + 1) - 1 = k OBVIOUS
    <2>. QED BY <1>5, <1>7, <2>1
  <1>10. DOMAIN o = 1..(n + 1) /\ Len(o) = n + 1
    <2>1. n + 1 \in Nat /\ DOMAIN o = 1..(n + 1) BY <1>7
    <2>. QED BY <2>1
  <1>. QED BY <1>1, <1>4, <1>6, <1>8, <1>9, <1>10 DEF IsFsst

LEMMA DictIs ==
    ASSUME NEW chunk, NEW t, NEW present, Holds(chunk, t, present), NEW stats, NEW fsst,
           stats.tuples = Len(t), stats.totalSize = Total(t), Distinct(stats.distinct, t),
           NEW x \in Dictionary(chunk, stats, fsst)
    PROVE  IsDict(x, t)
  <1>2. PICK codes : codes = CodesOf(chunk, stats) OBVIOUS
  <1>3. PICK d : d = stats.distinct OBVIOUS
  <1>4. Names(d, codes, t) BY <1>2, <1>3, NamesAre
  <1>5. /\ x.scheme = "DICT" /\ x.totalSize = stats.totalSize /\ x.strings = d /\ x.codes = codes
        /\ x.runs = Runs(codes) /\ x.byRuns = ByRuns(codes, Runs(codes))
        /\ x.codesScheme \in IF x.byRuns THEN RunSchemes(Len(codes), Len(Runs(codes))) ELSE {"other"}
    BY <1>2, <1>3, Z3 DEF Dictionary
  <1>6. codes \in Seq(Nat) /\ Len(codes) = Len(t) BY <1>4 DEF Names
  <1>7. Runs(codes) \in RunLists /\ \E p : StandFor(Runs(codes), codes, Len(codes), p) BY <1>6, RunsCover
  <1>8. AreTexts(t) /\ AreTexts(d) /\ Rising(d) BY <1>3 DEF Holds, Distinct
  <1>9. ASSUME NEW i \in 1..Len(d), NEW j \in 1..Len(d), d[i] = d[j] PROVE i = j
    <2>1. DOMAIN d = 1..Len(d) /\ d[i] \in Seq(Nat) /\ Len(d) \in Nat BY <1>8, PlacesAre
    <2>2. ~Less(d[i], d[j]) /\ ~Less(d[j], d[i]) BY <1>9, <2>1, LessNotSelf
    <2>3. ~(i < j) /\ ~(j < i) BY <1>8, <2>1, <2>2, Zenon DEF Rising
    <2>. QED BY <2>1, <2>3
  <1>10. \A j \in 1..Len(d) : \E k \in 1..Len(t) : t[k] = d[j] BY <1>3 DEF Distinct
  <1>11. TextPlaces(d)[Len(d)] <= TextPlaces(t)[Len(t)] BY <1>8, <1>9, <1>10, DistinctFits, Zenon
  <1>12. x.byRuns /\ x.codesScheme # "RLE" => RunsMayBeLost(Len(t), Len(x.runs)) BY <1>5, <1>6 DEF RunSchemes
  <1>. QED BY <1>4, <1>5, <1>6, <1>7, <1>11, <1>12 DEF IsDict

LEMMA FixedIs ==
    ASSUME NEW chunk, NEW t, NEW present, Holds(chunk, t, present), NEW stats,
           stats.tuples = Len(t), stats.totalSize = Total(t), Distinct(stats.distinct, t)
    PROVE  IsFixed(FixedDictionary(chunk, stats), t)
  <1>1. Names(stats.distinct, CodesOf(chunk, stats), t) BY NamesAre
  <1>. QED BY <1>1 DEF IsFixed, FixedDictionary

LEMMA OneIs ==
    ASSUME NEW chunk, NEW t, NEW present, Holds(chunk, t, present), NEW stats,
           Distinct(stats.distinct, t), Len(stats.distinct) <= 1
    PROVE  IsOne(OneValue(stats), t)
  <1>1. PICK d : d = stats.distinct OBVIOUS
  <1>2. AreTexts(d) /\ Len(d) \in Nat /\ Len(d) <= 1 /\ Len(t) \in Nat /\ Len(t) # 0
    BY <1>1, PlacesAre DEF Distinct, Holds
  <1>3. \A k \in 1..Len(t) : \E j \in 1..Len(d) : d[j] = t[k] BY <1>1 DEF Distinct
  <1>4. 1 \in 1..Len(t) BY <1>2
  <1>5. 1 \in 1..Len(d) BY <1>2, <1>3, <1>4
  <1>6. d[1] \in Seq(Nat) BY <1>2, <1>5, PlacesAre
  <1>7. \A k \in 1..Len(t) : t[k] = d[1] BY <1>2, <1>3
  <1>. QED BY <1>1, <1>6, <1>7 DEF IsOne, OneValue

\* ONE_VALUE is only chosen for a chunk of one string: not compressing is better otherwise.
LEMMA OneValueChosen ==
    ASSUME NEW stats, "ONE_VALUE" \in Best(stats), Len(stats.distinct) \in Nat
    PROVE  Len(stats.distinct) <= 1
  <1>1. "UNCOMPRESSED" \in StringSchemes BY PoolAssumption
  <1>2. "UNCOMPRESSED" \in Usable(stats) BY <1>1 DEF Usable
  <1>3. AtLeast(Ratio("ONE_VALUE", stats), Ratio("UNCOMPRESSED", stats)) BY <1>2 DEF Best
  <1>4. Ratio("UNCOMPRESSED", stats) = <<1, 1>> BY DEF Ratio
  <1>5. CASE Len(stats.distinct) > 1
    <2>1. Ratio("ONE_VALUE", stats) = <<0, 1>> BY <1>5 DEF Ratio
    <2>2. ~AtLeast(<<0, 1>>, <<1, 1>>) BY DEF AtLeast
    <2>. QED BY <1>3, <1>4, <2>1, <2>2
  <1>. QED BY <1>5

\* Whatever scheme is chosen, it keeps the strings of the chunk.
LEMMA KeptIs ==
    ASSUME NEW chunk, NEW t, NEW present, Holds(chunk, t, present), NEW scheme, NEW cf,
           scheme \in Best(Stats(chunk)) \/ scheme \in {"UNCOMPRESSED", "DICT", "FSST"},
           NEW x \in Compressed(scheme, chunk, Stats(chunk), cf)
    PROVE  IsKept(x, t)
  <1>1. PICK stats : stats = Stats(chunk) OBVIOUS
  <1>2. stats.tuples = Len(t) /\ stats.totalSize = Total(t) /\ Distinct(stats.distinct, t) BY <1>1, StatsAre
  <1>3. scheme \in {"ONE_VALUE", "UNCOMPRESSED", "DICT", "FSST", "DICTIONARY_8"} BY PoolAssumption DEF Best, Usable
  <1>4. CASE scheme = "UNCOMPRESSED"
    <2>1. x = Uncompressed(chunk, stats) BY <1>1, <1>4 DEF Compressed
    <2>2. IsPlain(Uncompressed(chunk, stats), t) BY <1>2 DEF IsPlain, Uncompressed, Holds
    <2>. QED BY <1>1, <2>1, <2>2 DEF IsKept
  <1>5. CASE scheme = "FSST"
    <2>1. x = Fsst(chunk, stats) BY <1>1, <1>5 DEF Compressed
    <2>. QED BY <1>1, <1>2, <2>1, FsstIs DEF IsKept
  <1>6. CASE scheme = "DICT"
    <2>1. x \in Dictionary(chunk, stats, UsesFsst(stats, cf)) BY <1>1, <1>6 DEF Compressed
    <2>. QED BY <1>1, <1>2, <2>1, DictIs DEF IsKept
  <1>7. CASE scheme = "DICTIONARY_8"
    <2>1. x = FixedDictionary(chunk, stats) BY <1>1, <1>7 DEF Compressed
    <2>. QED BY <1>1, <1>2, <2>1, FixedIs DEF IsKept
  <1>8. CASE scheme = "ONE_VALUE"
    <2>1. x = OneValue(stats) BY <1>1, <1>8 DEF Compressed
    <2>2. Len(stats.distinct) \in Nat BY <1>2, PlacesAre DEF Distinct
    <2>3. Len(stats.distinct) <= 1 BY <1>1, <1>8, <2>2, OneValueChosen
    <2>. QED BY <1>1, <1>2, <2>1, <2>3, OneIs DEF IsKept
  <1>. QED BY <1>3, <1>4, <1>5, <1>6, <1>7, <1>8

---------------------------------------------------------------------------
(* What the schemes give back *)

\* A memory lies below a limit.
Within(m, limit) == \A a \in DOMAIN m : a \in Nat /\ a < limit

LEMMA StaysWithin ==
    ASSUME NEW m, NEW n, NEW from \in Nat, NEW to \in Int, NEW limit \in Int,
           Within(m, limit), Grown(m, n, from, to), to <= limit
    PROVE  Within(n, limit)
  BY DEF Within, Grown

LEMMA EmptyWithin ==
    ASSUME NEW limit
    PROVE  Within(<<>>, limit)
  BY DEF Within

LEMMA SlotsAre ==
    ASSUME NEW n \in Nat
    PROVE  /\ SlotsSize(n) \in Nat /\ SlotsSize(n) = SlotBytes * n + SlotBytes /\ SlotBytes * n \in Nat
           /\ SlotBytes * (n + 1) = SlotsSize(n)
           /\ SlotBytes * (n + OffsetBatch) \in Nat /\ SlotBytes * (n + OffsetBatch) <= SlotsSize(n) + SimdExtra
           /\ SlotBytes * (n + 1) \in Nat
  <1>1. PICK sb \in Nat \ {0} : sb = SlotBytes BY SlotIs
  <1>2. PICK ob \in Nat : ob = OffsetBatch BY SlotIs
  <1>3. PICK e \in Nat : e = sb * n
    <2>1. sb * n \in Nat OBVIOUS
    <2>. QED BY <2>1
  <1>4. PICK f \in Nat : f = ob * sb
    <2>1. ob * sb \in Nat OBVIOUS
    <2>. QED BY <2>1
  <1>5. f <= SimdExtra /\ SimdExtra \in Nat BY <1>1, <1>2, <1>4, SimdAssumption
  <1>6. sb * (n + 1) = e + sb BY <1>3, Z3
  <1>7. sb * (n + ob) = e + f BY <1>3, <1>4, Z3
  <1>. QED BY <1>1, <1>2, <1>3, <1>4, <1>5, <1>6, <1>7 DEF SlotsSize

\* Texts stay where they are when something else is written.
LEMMA TextsKept ==
    ASSUME NEW t, AreTexts(t), NEW m, NEW n, NEW from \in Int, NEW to \in Int, NEW start \in Nat,
           NEW k \in 0..Len(t), TextsUpto(m, t, start, k), Beside(m, n, from, to),
           to <= start \/ start + TextPlaces(t)[k] <= from
    PROVE  TextsUpto(n, t, start, k)
  <1>1. Len(t) \in Nat /\ TextPlaces(t) \in [0..Len(t) -> Nat] BY PlacesAre
  <1>2. ASSUME NEW j \in 1..k PROVE HasText(n, start + TextPlaces(t)[j - 1], t[j])
    <2>1. j \in 1..Len(t) /\ j - 1 \in 0..Len(t) /\ k \in j..Len(t) /\ j \in 0..Len(t) BY <1>1
    <2>2. TextPlaces(t)[j] = TextPlaces(t)[j - 1] + Len(t[j]) /\ t[j] \in Seq(Nat) /\ Len(t[j]) \in Nat
      BY <2>1, PlacesAre
    <2>3. PICK a \in Nat, b \in Nat, c \in Nat : a = TextPlaces(t)[j - 1] /\ b = TextPlaces(t)[j] /\ c = TextPlaces(t)[k]
      BY <1>1, <2>1
    <2>4. b <= c BY <2>1, <2>3, PlacesRise
    <2>5. HasText(m, start + a, t[j]) BY <2>3 DEF TextsUpto
    <2>6. start + a + Len(t[j]) <= from \/ to <= start + a
      <3>1. PICK len \in Nat : len = Len(t[j]) BY <2>2
      <3>2. b = a + len BY <2>2, <2>3, <3>1
      <3>3. to <= start \/ start + c <= from BY <2>3
      <3>4. start + a + len <= from \/ to <= start + a BY <2>4, <3>2, <3>3
      <3>. QED BY <3>1, <3>4
    <2>7. start + a \in Int OBVIOUS
    <2>8. HasText(n, start + a, t[j]) BY <2>2, <2>5, <2>6, <2>7, TextKept
    <2>. QED BY <2>3, <2>8
  <1>. QED BY <1>2 DEF TextsUpto

LEMMA SlotsKept ==
    ASSUME NEW t, AreTexts(t), NEW m, NEW n, NEW from \in Int, NEW to \in Int, NEW start \in Nat,
           NEW k \in 0..(Len(t) + 1), SlotsUpto(m, t, start, k), Beside(m, n, from, to),
           SlotBytes * k <= from
    PROVE  SlotsUpto(n, t, start, k)
  <1>0. Len(t) \in Nat /\ SlotBytes \in Nat \ {0} BY PlacesAre, SlotIs
  <1>1. ASSUME NEW j \in 0..(k - 1) PROVE HasWord(n, SlotBytes * j, start + TextPlaces(t)[j])
    <2>1. HasWord(m, SlotBytes * j, start + TextPlaces(t)[j]) BY <1>1 DEF SlotsUpto
    <2>2. PICK d \in Nat : k = j + 1 + d
      <3>1. k - j - 1 \in Nat /\ k = j + 1 + (k - j - 1) BY <1>0
      <3>. QED BY <3>1
    <2>3. SlotBytes * j \in Int /\ SlotBytes * j + SlotBytes <= SlotBytes * k
      <3>1. PICK sb \in Nat \ {0} : sb = SlotBytes BY <1>0
      <3>2. sb * (j + 1 + d) = sb * j + sb + sb * d /\ sb * j \in Nat /\ sb * d \in Nat BY Z3
      <3>. QED BY <2>2, <3>1, <3>2
    <2>4. SlotBytes * k \in Int BY <1>0
    <2>5. SlotBytes * j + SlotBytes <= from BY <1>0, <2>3, <2>4
    <2>. QED BY <2>1, <2>3, <2>5, WordKept
  <1>. QED BY <1>1 DEF SlotsUpto

\* FSST: the offsets in one go, and all strings as one text behind them.
LEMMA FsstRead ==
    ASSUME NEW x, NEW t, AreTexts(t), IsFsst(x, t), NEW m, NEW limit \in Int, Within(m, limit),
           Total(t) + 8 <= limit
    PROVE  /\ SlotsSize(Len(t)) + Len(x.text) = x.totalSize
           /\ Stored(FsstDecompressed(Put(m, 0, Words(x.offsets)), SlotsSize(Len(t)), x.text), t, SlotsSize(Len(t)))
           /\ Within(FsstDecompressed(Put(m, 0, Words(x.offsets)), SlotsSize(Len(t)), x.text), limit)
  <1>1. PICK n \in Nat : n = Len(t) BY PlacesAre
  <1>2. PICK s0 \in Nat : s0 = SlotsSize(n) BY SlotsAre
  <1>3. s0 = SlotBytes * (n + 1) BY <1>2 DEF SlotsSize
  <1>4. PICK one : one = Put(m, 0, Words(x.offsets)) OBVIOUS
  <1>5. PICK two : two = FsstDecompressed(one, s0, x.text) OBVIOUS
  <1>6. x.text \in Seq(Nat) /\ Placed(x.text, t, TextPlaces(t), n) /\ Len(x.text) = TextPlaces(t)[n]
    BY <1>1, FlattenIsPlaced DEF IsFsst
  <1>7. PICK len \in Nat : len = Len(x.text) /\ len = TextPlaces(t)[n] BY <1>6
  <1>8. Total(t) = s0 + len /\ x.totalSize = s0 + len BY <1>1, <1>2, <1>7 DEF Total, IsFsst
  <1>9. /\ \A k \in 0..n : HasWord(one, SlotBytes * k, x.offsets[k + 1])
        /\ Beside(m, one, 0, s0) /\ Grown(m, one, 0, s0)
    <2>1. n + 1 \in Nat /\ DOMAIN x.offsets = 1..(n + 1) /\ Len(x.offsets) = n + 1 /\ 0 \in Int BY <1>1 DEF IsFsst
    <2>2. /\ \A k \in 0..((n + 1) - 1) : HasWord(one, 0 + SlotBytes * k, x.offsets[k + 1])
          /\ Beside(m, one, 0, 0 + SlotBytes * (n + 1)) /\ Grown(m, one, 0, 0 + SlotBytes * (n + 1))
      BY <1>4, <2>1, WordPlaces
    <2>3. \A k \in 0..n : 0 + SlotBytes * k = SlotBytes * k BY SlotIs
    <2>4. (n + 1) - 1 = n /\ 0 + s0 = s0 OBVIOUS
    <2>. QED BY <1>3, <2>2, <2>3, <2>4
  <1>10. SlotsUpto(one, t, s0, n + 1)
    <2>1. \A k \in 0..n : x.offsets[k + 1] = s0 + TextPlaces(t)[k] BY <1>1, <1>2 DEF IsFsst
    <2>2. (n + 1) - 1 = n OBVIOUS
    <2>. QED BY <1>9, <2>1, <2>2 DEF SlotsUpto
  <1>11. HasText(two, s0, x.text) /\ Beside(one, two, s0, s0 + len + FsstOverrun) /\ Grown(one, two, s0, s0 + len + FsstOverrun)
    BY <1>5, <1>6, <1>7, FsstPlaces
  <1>12. SlotsUpto(two, t, s0, n + 1)
    <2>1. n + 1 \in 0..(Len(t) + 1) BY <1>1
    <2>2. s0 + len + FsstOverrun \in Int BY SlotIs
    <2>. QED BY <1>3, <1>10, <1>11, <2>1, <2>2, SlotsKept
  <1>13. TextsUpto(two, t, s0, n) BY <1>1, <1>6, <1>11, TextsOfWhole
  <1>14. Within(two, limit)
    <2>1. s0 <= limit /\ s0 + len + FsstOverrun <= limit /\ s0 + len + FsstOverrun \in Int
      BY <1>8, SlotIs, SizeAssumption
    <2>2. Within(one, limit) BY <1>9, <2>1, StaysWithin
    <2>. QED BY <1>11, <2>1, <2>2, StaysWithin
  <1>. QED BY <1>1, <1>2, <1>4, <1>5, <1>7, <1>8, <1>12, <1>13, <1>14 DEF Stored

\* Views: length and place side by side.
ViewsUpto(m, n, length, place) ==
    \A i \in 1..n : /\ HasWord(m, ViewBytes * (i - 1), length[i])
                    /\ HasWord(m, ViewBytes * (i - 1) + SlotBytes, place[i])

LEMMA ViewIs ==
    ASSUME NEW n \in Nat
    PROVE  /\ ViewBytes \in Nat \ {0} /\ ViewBytes * n = SlotBytes * (2 * n) /\ ViewBytes * n \in Nat
           /\ ViewBytes * n + SlotBytes = SlotBytes * (2 * n + 1) /\ n * ViewBytes = ViewBytes * n
           /\ ViewBytes * (n + 1) = ViewBytes * n + ViewBytes /\ ViewBytes = SlotBytes + SlotBytes
  <1>1. PICK sb \in Nat \ {0} : sb = SlotBytes BY SlotIs
  <1>2. ViewBytes = sb + sb BY <1>1 DEF ViewBytes
  <1>3. (sb + sb) * n = sb * (2 * n) /\ sb * (2 * n) \in Nat /\ sb * (2 * n + 1) = sb * (2 * n) + sb
        /\ n * (sb + sb) = (sb + sb) * n /\ (sb + sb) * (n + 1) = (sb + sb) * n + (sb + sb)
    BY Z3
  <1>. QED BY <1>1, <1>2, <1>3

LEMMA ViewsRise ==
    ASSUME NEW i \in Nat, NEW n \in Nat, i <= n
    PROVE  ViewBytes * i <= ViewBytes * n
  <1>1. PICK vb \in Nat : vb = ViewBytes BY ViewIs
  <1>2. PICK d \in Nat : n = i + d
    <2>1. n - i \in Nat /\ n = i + (n - i) OBVIOUS
    <2>. QED BY <2>1
  <1>3. vb * (i + d) = vb * i + vb * d /\ vb * i \in Nat /\ vb * d \in Nat BY Z3
  <1>. QED BY <1>1, <1>2, <1>3

\* The views of rows stay where they are when something behind them is written.
LEMMA ViewsKept ==
    ASSUME NEW m, NEW k, NEW n \in Nat, NEW length, NEW place, ViewsUpto(m, n, length, place),
           NEW from \in Int, NEW to \in Int, Beside(m, k, from, to), ViewBytes * n <= from
    PROVE  ViewsUpto(k, n, length, place)
  <1>1. ASSUME NEW i \in 1..n
        PROVE  /\ HasWord(k, ViewBytes * (i - 1), length[i])
               /\ HasWord(k, ViewBytes * (i - 1) + SlotBytes, place[i])
    <2>1. i - 1 \in Nat /\ i \in Nat /\ (i - 1) + 1 = i OBVIOUS
    <2>2. ViewBytes * i = ViewBytes * (i - 1) + ViewBytes /\ ViewBytes * (i - 1) \in Nat /\ ViewBytes = SlotBytes + SlotBytes
      BY <2>1, ViewIs
    <2>3. ViewBytes * i <= ViewBytes * n BY ViewsRise
    <2>4. PICK e \in Nat, sb \in Nat, vn \in Nat : e = ViewBytes * (i - 1) /\ sb = SlotBytes /\ vn = ViewBytes * n
      BY <2>2, SlotIs, ViewIs
    <2>5. e + sb + sb <= from BY <2>2, <2>3, <2>4
    <2>6. HasWord(m, e, length[i]) /\ HasWord(m, e + sb, place[i]) BY <2>4 DEF ViewsUpto
    <2>7. HasWord(k, e, length[i])
      <3>1. e + SlotBytes <= from /\ e \in Int BY <2>4, <2>5
      <3>. QED BY <2>6, <3>1, WordKept
    <2>8. HasWord(k, e + sb, place[i])
      <3>1. (e + sb) + SlotBytes <= from /\ e + sb \in Int BY <2>4, <2>5
      <3>. QED BY <2>6, <3>1, WordKept
    <2>. QED BY <2>4, <2>7, <2>8
  <1>. QED BY <1>1 DEF ViewsUpto

LEMMA ViewedIs ==
    ASSUME NEW m, NEW n \in Nat, NEW length, NEW place, ViewsUpto(m, n, length, place),
           NEW i \in 1..n, NEW s \in Seq(Nat), Len(s) = length[i], place[i] \in Nat, HasText(m, place[i], s)
    PROVE  ViewedAt(m, i - 1) = s
  <1>1. i - 1 \in Nat OBVIOUS
  <1>2. HasWord(m, ViewBytes * (i - 1), Len(s)) /\ HasWord(m, ViewBytes * (i - 1) + SlotBytes, place[i])
    BY DEF ViewsUpto
  <1>. QED BY <1>1, <1>2, ViewRead

\* ONE_VALUE: the same view for every row and for some more, and then the string.
ViewsOfOne(n, s) == [i \in 1..(2 * Batches(n, ValueViews)) |-> IF i % 2 = 1 THEN Len(s) ELSE n * ViewBytes]

OneViewWritten(two, m, n, s) == two = Put(Put(m, 0, Words(ViewsOfOne(n, s))), n * ViewBytes, Characters(s))

OneViewFits(n, s, limit) == n * ViewBytes + Len(s) + SimdExtra <= limit

LEMMA OneViewRead ==
    ASSUME NEW s \in Seq(Nat), NEW n \in Nat \ {0},
           NEW m, NEW limit \in Int, Within(m, limit), OneViewFits(n, s, limit),
           NEW two, OneViewWritten(two, m, n, s)
    PROVE  /\ \A i \in 1..n : ViewedAt(two, i - 1) = s
           /\ Within(two, limit)
  <1>20. PICK views : views = ViewsOfOne(n, s) OBVIOUS
  <1>21. views = [i \in 1..(2 * Batches(n, ValueViews)) |->
                    IF i % 2 = 1 THEN Len(s) ELSE n * ViewBytes]
    BY <1>20, Zenon DEF ViewsOfOne
  <1>22. two = Put(Put(m, 0, Words(views)), n * ViewBytes, Characters(s)) BY <1>20, Zenon DEF OneViewWritten
  <1>23. n * ViewBytes + Len(s) + SimdExtra <= limit BY Zenon DEF OneViewFits
  <1>. USE <1>21, <1>22, <1>23
  <1>1. PICK b \in Nat : b = Batches(n, ValueViews) /\ n <= b /\ b <= n + ValueViews - 1
    <2>1. ValueViews \in Nat \ {0} BY SlotIs
    <2>. QED BY <2>1, BatchesCover
  <1>2. PICK len \in Nat : len = Len(s) OBVIOUS
  <1>3. PICK vn \in Nat : vn = n * ViewBytes /\ vn = ViewBytes * n BY ViewIs
  <1>4. PICK one : one = Put(m, 0, Words(views)) OBVIOUS
  <1>5. DOMAIN views = 1..(2 * b) /\ 2 * b \in Nat /\ Len(views) = 2 * b
    <2>1. PICK q \in Nat : q = 2 * b
      <3>1. 2 * b \in Nat OBVIOUS
      <3>. QED BY <3>1
    <2>2. views = [i \in 1..q |-> IF i % 2 = 1 THEN Len(s) ELSE n * ViewBytes] BY <1>1, <2>1
    <2>3. Len(s) \in Nat /\ n * ViewBytes \in Nat BY ViewIs
    <2>4. views \in [1..q -> Nat] BY <2>2, <2>3
    <2>5. DOMAIN views = 1..q /\ Len(views) = q BY <2>4, LengthOf, Zenon
    <2>. QED BY <2>1, <2>5
  <1>6. PICK vb \in Nat : vb = ViewBytes * b /\ vb = SlotBytes * (2 * b) BY <1>1, ViewIs
  <1>7. /\ \A k \in 0..(2 * b - 1) : HasWord(one, 0 + SlotBytes * k, views[k + 1])
        /\ Beside(m, one, 0, 0 + SlotBytes * (2 * b)) /\ Grown(m, one, 0, 0 + SlotBytes * (2 * b))
    <2>1. 0 \in Int OBVIOUS
    <2>. QED BY <1>4, <1>5, <2>1, WordPlaces
  <1>8. \A k \in 0..(2 * b - 1) : HasWord(one, SlotBytes * k, views[k + 1])
    <2>1. \A k \in 0..(2 * b - 1) : 0 + SlotBytes * k = SlotBytes * k BY SlotIs
    <2>. QED BY <1>7, <2>1
  <1>9. Grown(m, one, 0, vb)
    <2>1. 0 + vb = vb OBVIOUS
    <2>. QED BY <1>6, <1>7, <2>1
  <1>10. PICK length : length = [i \in 1..n |-> len] OBVIOUS
  <1>11. PICK place : place = [i \in 1..n |-> vn] OBVIOUS
  <1>12. ViewsUpto(one, n, length, place)
    <2>1. ASSUME NEW i \in 1..n
          PROVE  /\ HasWord(one, ViewBytes * (i - 1), length[i])
                 /\ HasWord(one, ViewBytes * (i - 1) + SlotBytes, place[i])
      <3>1. PICK j \in Nat : j = i - 1 /\ j < b BY <1>1
      <3>2. ViewBytes * j = SlotBytes * (2 * j) /\ ViewBytes * j + SlotBytes = SlotBytes * (2 * j + 1) BY ViewIs
      <3>3. 2 * j \in 0..(2 * b - 1) /\ 2 * j + 1 \in 0..(2 * b - 1) BY <1>1, <3>1
      <3>4. HasWord(one, SlotBytes * (2 * j), views[2 * j + 1]) /\ HasWord(one, SlotBytes * (2 * j + 1), views[(2 * j + 1) + 1])
        BY <1>8, <3>3
      <3>5. views[2 * j + 1] = len
        <4>1. 2 * j + 1 \in 1..(2 * b) /\ (2 * j + 1) % 2 = 1 BY <3>1, <3>3
        <4>. QED BY <1>1, <1>2, <4>1
      <3>6. views[(2 * j + 1) + 1] = vn
        <4>1. (2 * j + 1) + 1 \in 1..(2 * b) /\ ((2 * j + 1) + 1) % 2 # 1 BY <3>1, <3>3
        <4>. QED BY <1>1, <1>3, <4>1
      <3>7. length[i] = len /\ place[i] = vn BY <1>10, <1>11
      <3>. QED BY <3>1, <3>2, <3>4, <3>5, <3>6, <3>7
    <2>. QED BY <2>1 DEF ViewsUpto
  <1>13. HasText(two, vn, s) /\ Beside(one, two, vn, vn + len) /\ Grown(one, two, vn, vn + len)
    BY <1>2, <1>3, <1>4, CharacterPlaces
  <1>14. ViewsUpto(two, n, length, place)
    <2>1. vn + len \in Int /\ ViewBytes * n <= vn /\ n \in Nat /\ vn \in Int BY <1>3
    <2>. QED BY <1>12, <1>13, <2>1, ViewsKept
  <1>15. ASSUME NEW i \in 1..n PROVE ViewedAt(two, i - 1) = s
    <2>1. length[i] = Len(s) /\ place[i] = vn /\ n \in Nat BY <1>2, <1>10, <1>11
    <2>2. HasText(two, place[i], s) /\ place[i] \in Nat /\ Len(s) = length[i] BY <1>13, <2>1, SMTT(60)
    <2>. QED BY <1>14, <2>1, <2>2, ViewedIs
  <1>16. vb <= vn + SimdExtra
    <2>1. PICK e \in Nat : e = ValueViews /\ b <= n + e
      <3>1. ValueViews \in Nat BY SlotIs
      <3>. QED BY <1>1, <3>1
    <2>2. vb <= ViewBytes * (n + e)
      <3>1. n + e \in Nat OBVIOUS
      <3>. QED BY <1>6, <2>1, <3>1, ViewsRise
    <2>3. ViewBytes * (n + e) = vn + e * ViewBytes /\ e * ViewBytes \in Nat
      <3>1. PICK w \in Nat : w = ViewBytes BY ViewIs
      <3>2. w * (n + e) = w * n + e * w /\ e * w \in Nat BY Z3
      <3>. QED BY <1>3, <3>1, <3>2
    <2>4. e * ViewBytes <= SimdExtra BY <2>1, SimdAssumption DEF ViewBytes
    <2>. QED BY <2>2, <2>3, <2>4, SlotIs
  <1>17. Within(two, limit)
    <2>1. vb <= limit /\ vn + len <= limit /\ vn + len \in Int
      <3>1. PICK x \in Nat : x = SimdExtra BY SlotIs
      <3>2. vn + len + x <= limit BY <1>2, <1>3, <3>1
      <3>3. vb <= vn + x BY <1>16, <3>1
      <3>. QED BY <3>2, <3>3
    <2>2. Within(one, limit) BY <1>9, <2>1, StaysWithin
    <2>. QED BY <1>13, <2>1, <2>2, StaysWithin
  <1>. QED BY <1>15, <1>17

\* The offsets of a run.
LEMMA OffsetsOfRun ==
    ASSUME NEW t, AreTexts(t), NEW a \in Nat, NEW n \in Nat, NEW s \in Seq(Nat), SameText(t, a, n, s),
           NEW m, NEW start \in Nat, SlotsUpto(m, t, start, a),
           NEW at, at = start + TextPlaces(t)[a],
           NEW new, new = WriteOffsets(m, SlotBytes * a, at, Len(s), n)
    PROVE  /\ SlotsUpto(new, t, start, a + n) /\ TextPlaces(t)[a + n] = TextPlaces(t)[a] + n * Len(s)
           /\ Beside(m, new, SlotBytes * a, SlotBytes * (a + n + OffsetBatch))
           /\ Grown(m, new, SlotBytes * a, SlotBytes * (a + n + OffsetBatch))
  <1>1. Len(t) \in Nat /\ TextPlaces(t) \in [0..Len(t) -> Nat] /\ a + n <= Len(t) BY PlacesAre DEF SameText
  <1>2. PICK sb \in Nat \ {0} : sb = SlotBytes BY SlotIs
  <1>3. PICK p : p = TextPlaces(t) OBVIOUS
  <1>4. a \in 0..Len(t) /\ p[a] \in Nat /\ at \in Nat
    <2>1. a \in 0..Len(t) BY <1>1
    <2>2. PICK q \in Nat : q = TextPlaces(t)[a] BY <1>1, <2>1
    <2>3. start + q \in Nat OBVIOUS
    <2>. QED BY <1>3, <2>1, <2>2, <2>3
  <1>5. PICK ob \in Nat : ob = OffsetBatch BY SlotIs
  <1>6. Len(s) \in Nat OBVIOUS
  <1>7. PICK sa \in Nat : sa = sb * a
    <2>1. sb * a \in Nat OBVIOUS
    <2>. QED BY <2>1
  <1>8. PICK w \in Nat : w = sb * (n + ob) /\ sa + w = sb * (a + n + ob)
    <2>1. n + ob \in Nat /\ \A x \in Nat : sb * x \in Nat /\ sb * a + sb * x = sb * (a + x) BY Z3
    <2>2. a + (n + ob) = a + n + ob OBVIOUS
    <2>. QED BY <1>7, <2>1, <2>2
  <1>9. /\ \A k \in 0..(n - 1) : HasWord(new, sa + sb * k, at + k * Len(s))
        /\ Beside(m, new, sa, sa + w) /\ Grown(m, new, sa, sa + w)
    <2>1. /\ \A k \in 0..(n - 1) : HasWord(new, sa + SlotBytes * k, at + k * Len(s))
          /\ Beside(m, new, sa, sa + SlotBytes * (n + OffsetBatch))
          /\ Grown(m, new, sa, sa + SlotBytes * (n + OffsetBatch))
      <3>1. sa \in Int /\ new = WriteOffsets(m, sa, at, Len(s), n) BY <1>2, <1>7
      <3>2. LET all == WriteOffsets(m, sa, at, Len(s), n) IN
            /\ \A k \in 0..(n - 1) : HasWord(all, sa + SlotBytes * k, at + k * Len(s))
            /\ Beside(m, all, sa, sa + SlotBytes * (n + OffsetBatch))
            /\ Grown(m, all, sa, sa + SlotBytes * (n + OffsetBatch))
        BY <1>4, <1>6, <3>1, OffsetPlaces, Zenon
      <3>. QED BY <3>1, <3>2, Zenon
    <2>. QED BY <1>2, <1>5, <1>8, <2>1
  <1>10. ASSUME NEW j \in 0..(a + n - 1) PROVE HasWord(new, SlotBytes * j, start + p[j])
    <2>1. CASE j < a
      <3>1. j \in 0..(a - 1) BY <2>1
      <3>2. HasWord(m, SlotBytes * j, start + p[j]) BY <1>3, <3>1 DEF SlotsUpto
      <3>3. PICK d \in Nat : a = j + 1 + d
        <4>1. a - j - 1 \in Nat /\ a = j + 1 + (a - j - 1) BY <2>1
        <4>. QED BY <4>1
      <3>4. sb * j + sb <= sa /\ sb * j \in Int
        <4>1. sb * (j + 1 + d) = sb * j + sb + sb * d /\ sb * j \in Nat /\ sb * d \in Nat BY Z3
        <4>. QED BY <1>7, <3>3, <4>1
      <3>5. sa \in Int /\ sa + w \in Int OBVIOUS
      <3>6. (SlotBytes * j) + SlotBytes <= sa /\ SlotBytes * j \in Int BY <1>2, <3>4
      <3>. QED BY <1>9, <3>2, <3>5, <3>6, WordKept
    <2>2. CASE ~(j < a)
      <3>1. PICK k \in 0..(n - 1) : j = a + k /\ k \in 0..n
        <4>1. j - a \in 0..(n - 1) /\ j = a + (j - a) BY <2>2
        <4>. QED BY <4>1
      <3>2. HasWord(new, sa + sb * k, at + k * Len(s)) BY <1>9
      <3>3. sb * j = sa + sb * k
        <4>1. sb * (a + k) = sb * a + sb * k BY Z3
        <4>. QED BY <1>7, <3>1, <4>1
      <3>4. p[j] = p[a] + k * Len(s) BY <1>3, <3>1, PlacesOfRun
      <3>5. at + k * Len(s) = start + p[j]
        <4>1. PICK e \in Int : e = k * Len(s)
          <5>1. k * Len(s) \in Int BY <1>6
          <5>. QED BY <5>1
        <4>2. PICK pa \in Nat : pa = p[a] BY <1>4
        <4>3. at = start + pa BY <1>3, <4>2
        <4>4. p[j] = pa + e BY <3>4, <4>1, <4>2
        <4>. QED BY <4>1, <4>3, <4>4
      <3>. QED BY <1>2, <3>2, <3>3, <3>5
    <2>. QED BY <2>1, <2>2
  <1>11. TextPlaces(t)[a + n] = TextPlaces(t)[a] + n * Len(s)
    <2>1. n \in 0..n OBVIOUS
    <2>. QED BY <2>1, PlacesOfRun
  <1>12. SlotsUpto(new, t, start, a + n) BY <1>3, <1>10 DEF SlotsUpto
  <1>. QED BY <1>2, <1>5, <1>7, <1>8, <1>9, <1>11, <1>12

\* The strings of a run.
LEMMA TextsOfRun ==
    ASSUME NEW t, AreTexts(t), NEW a \in Nat, NEW n \in Nat, NEW s \in Seq(Nat), SameText(t, a, n, s),
           NEW m, NEW start \in Nat, TextsUpto(m, t, start, a), Copies(m, start + TextPlaces(t)[a], s, n)
    PROVE  TextsUpto(m, t, start, a + n)
  <1>1. Len(t) \in Nat /\ TextPlaces(t) \in [0..Len(t) -> Nat] /\ a + n <= Len(t) BY PlacesAre DEF SameText
  <1>2. ASSUME NEW k \in 1..(a + n) PROVE HasText(m, start + TextPlaces(t)[k - 1], t[k])
    <2>1. CASE k <= a BY <2>1 DEF TextsUpto
    <2>2. CASE ~(k <= a)
      <3>1. PICK j \in 0..(n - 1) : k - 1 = a + j /\ j + 1 \in 1..n /\ k = a + (j + 1) /\ j \in 0..n
        <4>1. k - 1 - a \in 0..(n - 1) /\ k - 1 = a + (k - 1 - a) /\ k = a + ((k - 1 - a) + 1) BY <2>2
        <4>. QED BY <4>1
      <3>2. t[k] = s BY <3>1 DEF SameText
      <3>3. TextPlaces(t)[k - 1] = TextPlaces(t)[a] + j * Len(s) BY <3>1, PlacesOfRun
      <3>4. HasText(m, (start + TextPlaces(t)[a]) + j * Len(s), s) BY DEF Copies
      <3>5. (start + TextPlaces(t)[a]) + j * Len(s) = start + TextPlaces(t)[k - 1]
        <4>1. PICK e \in Nat : e = j * Len(s)
          <5>1. Len(s) \in Nat /\ j * Len(s) \in Nat OBVIOUS
          <5>. QED BY <5>1
        <4>2. PICK q \in Nat : q = TextPlaces(t)[a] BY <1>1
        <4>. QED BY <3>3, <4>1, <4>2
      <3>. QED BY <3>2, <3>4, <3>5
    <2>. QED BY <2>1, <2>2
  <1>. QED BY <1>2 DEF TextsUpto

\* The offsets of the rows that are set, when the string is empty.
SetStep(s, k, set) ==
    [memory |-> Put(s.memory, SlotBytes * (set[k] - 1), Words(<<s.start, s.start + 0>>)),
     start |-> s.start + 0]

FirstSlot == [memory |-> memory, start |-> SlotsSize(tuples)]

InOrder(rows) == Ranked(rows, <)

LEMMA RowsInOrder ==
    ASSUME NEW n \in Nat, NEW rows, rows \subseteq 1..n, NEW set, set = InOrder(rows)
    PROVE  /\ Len(set) \in Nat /\ \A k \in 1..Len(set) : set[k] \in rows /\ set[k] \in 1..n
           /\ \A a \in rows : \E k \in 1..Len(set) : set[k] = a
           /\ \A i \in 1..Len(set), j \in 1..Len(set) : i < j => set[i] < set[j]
  <1>1. IsFiniteSet(rows) /\ rows \subseteq Nat
    <2>1. 1 \in Int /\ n \in Int OBVIOUS
    <2>2. IsFiniteSet(1..n) /\ rows \in SUBSET (1..n) BY <2>1, FS_Interval
    <2>3. IsFiniteSet(rows) BY <2>2, FS_Subset
    <2>. QED BY <2>2, <2>3
  <1>2. /\ Cardinality(rows) \in Nat /\ Ranked(rows, <) \in [1..Cardinality(rows) -> rows]
        /\ \A a \in rows : \E k \in 1..Cardinality(rows) : Ranked(rows, <)[k] = a
        /\ \A i \in 1..Cardinality(rows), j \in 1..Cardinality(rows) : i < j => Ranked(rows, <)[i] < Ranked(rows, <)[j]
    BY <1>1, RankedNumbers, Zenon
  <1>3. /\ Cardinality(rows) \in Nat /\ set \in [1..Cardinality(rows) -> rows]
        /\ \A a \in rows : \E k \in 1..Cardinality(rows) : set[k] = a
        /\ \A i \in 1..Cardinality(rows), j \in 1..Cardinality(rows) : i < j => set[i] < set[j]
    BY <1>2, Zenon DEF InOrder
  <1>4. set \in [1..Cardinality(rows) -> Nat] BY <1>1, <1>3
  <1>5. Len(set) = Cardinality(rows) BY <1>3, <1>4, LengthOf, Zenon
  <1>. QED BY <1>3, <1>5

LEMMA OffsetsOfSetRecursion ==
    ASSUME NEW set, set = InOrder(map.rows), Len(set) \in Nat
    PROVE  \E f : /\ f[0] = FirstSlot /\ \A k \in 1..Len(set) : f[k] = SetStep(f[k - 1], k, set)
                  /\ OffsetsOfSet(0) = f[Len(set)].memory
  <1>1. PICK c \in Nat : c = Len(set) OBVIOUS
  <1>. DEFINE S == {k \in Nat : \E f : f = [j \in 0..k |-> IF j = 0 THEN FirstSlot ELSE SetStep(f[j - 1], j, set)]}
  <1>2. 0 \in S
    <2>1. PICK f : f = [j \in 0..0 |-> FirstSlot] OBVIOUS
    <2>2. f = [j \in 0..0 |-> IF j = 0 THEN FirstSlot ELSE SetStep(f[j - 1], j, set)] BY <2>1
    <2>. QED BY <2>2
  <1>3. ASSUME NEW k \in 0..(c - 1), k \in S PROVE k + 1 \in S
    <2>1. PICK f : f = [j \in 0..k |-> IF j = 0 THEN FirstSlot ELSE SetStep(f[j - 1], j, set)] BY <1>3
    <2>2. PICK g : g = [j \in 0..(k + 1) |-> IF j = k + 1 THEN SetStep(f[k], k + 1, set) ELSE f[j]] OBVIOUS
    <2>3. ASSUME NEW j \in 0..(k + 1) PROVE g[j] = IF j = 0 THEN FirstSlot ELSE SetStep(g[j - 1], j, set)
      <3>1. CASE j = k + 1
        <4>1. j # 0 /\ j - 1 = k /\ k \in 0..(k + 1) /\ k # k + 1 BY <3>1
        <4>2. g[k] = f[k] /\ g[j] = SetStep(f[k], k + 1, set) BY <2>2, <3>1, <4>1
        <4>. QED BY <3>1, <4>1, <4>2
      <3>2. CASE j = 0
        <4>1. j \in 0..k /\ j # k + 1 BY <3>2
        <4>2. g[j] = f[j] /\ f[j] = FirstSlot BY <2>1, <2>2, <3>2, <4>1
        <4>. QED BY <3>2, <4>2
      <3>3. CASE j # 0 /\ j # k + 1
        <4>1. j \in 0..k /\ j - 1 \in 0..k /\ j - 1 \in 0..(k + 1) /\ j - 1 # k + 1 BY <3>3
        <4>2. g[j] = f[j] /\ f[j] = SetStep(f[j - 1], j, set) /\ g[j - 1] = f[j - 1] BY <2>1, <2>2, <3>3, <4>1
        <4>. QED BY <3>3, <4>2
      <3>. QED BY <3>1, <3>2, <3>3
    <2>4. g = [j \in 0..(k + 1) |-> IF j = 0 THEN FirstSlot ELSE SetStep(g[j - 1], j, set)] BY <2>2, <2>3
    <2>5. k + 1 \in Nat OBVIOUS
    <2>. QED BY <2>4, <2>5
  <1>4. c \in S
    <2>1. 0..c \subseteq S
      <3>. HIDE DEF S
      <3>. QED BY <1>2, <1>3, IntervalInduction
    <2>2. c \in 0..c OBVIOUS
    <2>. QED BY <2>1, <2>2
  <1>5. PICK f : f = CHOOSE g : g = [j \in 0..c |-> IF j = 0 THEN FirstSlot ELSE SetStep(g[j - 1], j, set)] OBVIOUS
  <1>6. f = [j \in 0..c |-> IF j = 0 THEN FirstSlot ELSE SetStep(f[j - 1], j, set)] BY <1>4, <1>5, Zenon
  <1>7. f[0] = FirstSlot /\ \A k \in 1..c : f[k] = SetStep(f[k - 1], k, set)
    <2>1. 0 \in 0..c /\ \A k \in 1..c : k \in 0..c /\ k # 0 OBVIOUS
    <2>. QED BY <1>6, <2>1
  <1>8. OffsetsOfSet(0) = f[c].memory BY <1>1, <1>5, Zenon DEF OffsetsOfSet, InOrder, SetStep, FirstSlot
  <1>. QED BY <1>1, <1>7, <1>8, Zenon

\* The same offset twice, in a slot and in the next one.
LEMMA SlotPair ==
    ASSUME NEW m, NEW r \in Nat \ {0}, NEW v, NEW new, new = Put(m, SlotBytes * (r - 1), Words(<<v, v>>))
    PROVE  /\ HasWord(new, SlotBytes * (r - 1), v) /\ HasWord(new, SlotBytes * r, v)
           /\ Grown(m, new, 0, SlotBytes * (r + 1))
           /\ \A x \in 0..(r - 1) : HasWord(m, SlotBytes * x, v) => HasWord(new, SlotBytes * x, v)
  <1>1. PICK sb \in Nat \ {0} : sb = SlotBytes BY SlotIs
  <1>2. PICK e \in Nat : r = e + 1
    <2>1. r - 1 \in Nat /\ r = (r - 1) + 1 OBVIOUS
    <2>. QED BY <2>1
  <1>3. PICK ws : ws = <<v, v>> OBVIOUS
  <1>4. DOMAIN ws = 1..2 /\ Len(ws) = 2 /\ ws[1] = v /\ ws[2] = v /\ 2 \in Nat BY <1>3
  <1>5. PICK se \in Nat : se = sb * e /\ se + sb = sb * r /\ se + 2 * sb = sb * (r + 1)
    <2>1. sb * e \in Nat /\ sb * (e + 1) = sb * e + sb /\ sb * (e + 1 + 1) = sb * e + 2 * sb BY Z3
    <2>. QED BY <1>2, <2>1
  <1>6. new = Put(m, se, Words(ws)) BY <1>1, <1>2, <1>3, <1>5
  <1>7. /\ \A k \in 0..(2 - 1) : HasWord(new, se + sb * k, ws[k + 1])
        /\ Beside(m, new, se, se + sb * 2) /\ Grown(m, new, se, se + sb * 2)
    <2>1. se \in Int OBVIOUS
    <2>2. LET all == Put(m, se, Words(ws)) IN
          /\ \A k \in 0..(2 - 1) : HasWord(all, se + SlotBytes * k, ws[k + 1])
          /\ Beside(m, all, se, se + SlotBytes * 2) /\ Grown(m, all, se, se + SlotBytes * 2)
      BY <1>4, <2>1, WordPlaces, Zenon
    <2>. QED BY <1>1, <1>6, <2>2, Zenon
  <1>8. HasWord(new, se, v) /\ HasWord(new, se + sb, v)
    <2>1. 0 \in 0..(2 - 1) /\ 1 \in 0..(2 - 1) /\ se + sb * 0 = se /\ se + sb * 1 = se + sb OBVIOUS
    <2>2. ws[0 + 1] = v /\ ws[1 + 1] = v BY <1>4
    <2>. QED BY <1>7, <2>1, <2>2
  <1>9. Grown(m, new, 0, se + 2 * sb)
    <2>1. sb * 2 = 2 * sb OBVIOUS
    <2>. QED BY <1>7, <2>1 DEF Grown
  <1>10. ASSUME NEW x \in 0..(r - 1), HasWord(m, SlotBytes * x, v) PROVE HasWord(new, SlotBytes * x, v)
    <2>1. CASE x = e BY <1>1, <1>5, <1>8, <2>1
    <2>2. CASE x # e
      <3>1. PICK d \in Nat : e = x + 1 + d
        <4>1. e - x - 1 \in Nat /\ e = x + 1 + (e - x - 1) BY <1>2, <2>2
        <4>. QED BY <4>1
      <3>2. sb * x + sb <= se /\ sb * x \in Int
        <4>1. sb * (x + 1 + d) = sb * x + sb + sb * d /\ sb * x \in Nat /\ sb * d \in Nat BY Z3
        <4>. QED BY <1>5, <3>1, <4>1
      <3>3. (SlotBytes * x) + SlotBytes <= se /\ SlotBytes * x \in Int /\ se \in Int /\ se + sb * 2 \in Int
        BY <1>1, <3>2
      <3>. QED BY <1>7, <1>10, <3>3, WordKept
    <2>. QED BY <2>1, <2>2
  <1>. QED BY <1>1, <1>2, <1>5, <1>8, <1>9, <1>10

LEMMA OffsetsOfSetRead ==
    ASSUME NEW n \in Nat \ {0}, tuples = n, map.rows \subseteq 1..n, NEW limit \in Int,
           Within(memory, limit), SlotsSize(n) <= limit
    PROVE  /\ \A i \in map.rows : /\ HasWord(OffsetsOfSet(0), SlotBytes * (i - 1), SlotsSize(n))
                                  /\ HasWord(OffsetsOfSet(0), SlotBytes * i, SlotsSize(n))
           /\ Within(OffsetsOfSet(0), limit)
  <1>1. PICK s0 \in Nat : s0 = SlotsSize(n) BY SlotsAre
  <1>2. PICK set : set = InOrder(map.rows) OBVIOUS
  <1>3. /\ Len(set) \in Nat /\ \A k \in 1..Len(set) : set[k] \in 1..n
        /\ \A a \in map.rows : \E k \in 1..Len(set) : set[k] = a
        /\ \A i \in 1..Len(set), j \in 1..Len(set) : i < j => set[i] < set[j]
    BY <1>2, RowsInOrder
  <1>4. PICK c \in Nat : c = Len(set) BY <1>3
  <1>5. PICK f : /\ f[0] = FirstSlot /\ \A k \in 1..c : f[k] = SetStep(f[k - 1], k, set)
                 /\ OffsetsOfSet(0) = f[c].memory
    BY <1>2, <1>4, OffsetsOfSetRecursion
  <1>. DEFINE S == {k \in 0..c : /\ f[k].start = s0 /\ Within(f[k].memory, limit)
                                 /\ \A j \in 1..k : /\ HasWord(f[k].memory, SlotBytes * (set[j] - 1), s0)
                                                    /\ HasWord(f[k].memory, SlotBytes * set[j], s0)}
  <1>6. 0 \in S BY <1>1, <1>5 DEF FirstSlot
  <1>7. ASSUME NEW k \in 0..(c - 1), k \in S PROVE k + 1 \in S
    <2>1. k + 1 \in 1..c /\ (k + 1) - 1 = k OBVIOUS
    <2>2. PICK m : m = f[k].memory OBVIOUS
    <2>3. PICK r \in 1..n : r = set[k + 1] BY <1>3, <1>4, <2>1
    <2>4. PICK new : new = Put(m, SlotBytes * (r - 1), Words(<<s0, s0>>)) OBVIOUS
    <2>5. f[k + 1].memory = new /\ f[k + 1].start = s0
      <3>1. f[k + 1] = SetStep(f[k], k + 1, set) BY <1>5, <2>1
      <3>2. f[k].start = s0 /\ s0 + 0 = s0 BY <1>7
      <3>3. SetStep(f[k], k + 1, set) = [memory |-> new, start |-> s0] BY <2>2, <2>3, <2>4, <3>2 DEF SetStep
      <3>. QED BY <3>1, <3>3
    <2>6. /\ HasWord(new, SlotBytes * (r - 1), s0) /\ HasWord(new, SlotBytes * r, s0)
          /\ Grown(m, new, 0, SlotBytes * (r + 1))
          /\ \A x \in 0..(r - 1) : HasWord(m, SlotBytes * x, s0) => HasWord(new, SlotBytes * x, s0)
      BY <2>3, <2>4, SlotPair
    <2>7. Within(new, limit)
      <3>1. PICK sb \in Nat : sb = SlotBytes BY SlotIs
      <3>2. PICK d \in Nat : n = r + d
        <4>1. n - r \in Nat /\ n = r + (n - r) OBVIOUS
        <4>. QED BY <4>1
      <3>3. sb * (r + 1) <= s0 /\ sb * (r + 1) \in Int
        <4>1. sb * (r + d + 1) = sb * (r + 1) + sb * d /\ sb * (r + 1) \in Nat /\ sb * d \in Nat BY Z3
        <4>2. s0 = sb * (n + 1) BY <1>1, <3>1 DEF SlotsSize
        <4>. QED BY <3>2, <4>1, <4>2
      <3>4. Within(m, limit) /\ 0 \in Nat BY <1>7, <2>2
      <3>5. Grown(m, new, 0, sb * (r + 1)) BY <2>6, <3>1
      <3>6. sb * (r + 1) <= limit BY <1>1, <3>3
      <3>. QED BY <3>3, <3>4, <3>5, <3>6, StaysWithin
    <2>8. ASSUME NEW j \in 1..(k + 1)
          PROVE  HasWord(new, SlotBytes * (set[j] - 1), s0) /\ HasWord(new, SlotBytes * set[j], s0)
      <3>1. CASE j = k + 1 BY <2>3, <2>6, <3>1
      <3>2. CASE j # k + 1
        <4>1. j \in 1..k /\ j \in 1..Len(set) /\ k + 1 \in 1..Len(set) /\ j < k + 1 BY <1>4, <3>2
        <4>2. set[j] \in 1..n /\ set[j] < r BY <1>3, <2>3, <4>1
        <4>3. set[j] - 1 \in 0..(r - 1) /\ set[j] \in 0..(r - 1) BY <4>2
        <4>4. HasWord(m, SlotBytes * (set[j] - 1), s0) /\ HasWord(m, SlotBytes * set[j], s0) BY <1>7, <2>2, <4>1
        <4>. QED BY <2>6, <4>3, <4>4
      <3>. QED BY <3>1, <3>2
    <2>. QED BY <2>1, <2>5, <2>7, <2>8
  <1>8. c \in S
    <2>1. 0..c \subseteq S
      <3>. HIDE DEF S
      <3>. QED BY <1>6, <1>7, IntervalInduction
    <2>2. c \in 0..c OBVIOUS
    <2>. QED BY <2>1, <2>2
  <1>9. Within(f[c].memory, limit) BY <1>8
  <1>10. ASSUME NEW i \in map.rows
         PROVE  HasWord(f[c].memory, SlotBytes * (i - 1), s0) /\ HasWord(f[c].memory, SlotBytes * i, s0)
    <2>1. PICK j \in 1..c : set[j] = i BY <1>3, <1>4
    <2>. QED BY <1>8, <2>1
  <1>. QED BY <1>1, <1>5, <1>9, <1>10

\* Every null ends a batch of the same offsets.
NullStep(s, k, nulls) ==
    [memory |-> WriteOffsets(s.memory, SlotBytes * s.next, s.start, 0, nulls[k] - s.next),
     start |-> s.start + ((nulls[k] - s.next) - 1) * 0, next |-> nulls[k]]

FirstNull == [memory |-> memory, start |-> SlotsSize(tuples), next |-> 0]

LEMMA OffsetsOfNullsRecursion ==
    ASSUME NEW set, set = InOrder(map.rows), Len(set) \in Nat
    PROVE  \E f : /\ f[0] = FirstNull /\ \A k \in 1..Len(set) : f[k] = NullStep(f[k - 1], k, set)
                  /\ OffsetsOfNulls(0) =
                       [memory |-> WriteOffsets(f[Len(set)].memory, SlotBytes * f[Len(set)].next,
                                                f[Len(set)].start, 0, tuples - f[Len(set)].next),
                        end |-> f[Len(set)].start + (tuples - f[Len(set)].next) * 0]
  <1>1. PICK c \in Nat : c = Len(set) OBVIOUS
  <1>. DEFINE S == {k \in Nat : \E f : f = [j \in 0..k |-> IF j = 0 THEN FirstNull ELSE NullStep(f[j - 1], j, set)]}
  <1>2. 0 \in S
    <2>1. PICK f : f = [j \in 0..0 |-> FirstNull] OBVIOUS
    <2>2. f = [j \in 0..0 |-> IF j = 0 THEN FirstNull ELSE NullStep(f[j - 1], j, set)] BY <2>1
    <2>. QED BY <2>2
  <1>3. ASSUME NEW k \in 0..(c - 1), k \in S PROVE k + 1 \in S
    <2>1. PICK f : f = [j \in 0..k |-> IF j = 0 THEN FirstNull ELSE NullStep(f[j - 1], j, set)] BY <1>3
    <2>2. PICK g : g = [j \in 0..(k + 1) |-> IF j = k + 1 THEN NullStep(f[k], k + 1, set) ELSE f[j]] OBVIOUS
    <2>3. ASSUME NEW j \in 0..(k + 1) PROVE g[j] = IF j = 0 THEN FirstNull ELSE NullStep(g[j - 1], j, set)
      <3>1. CASE j = k + 1
        <4>1. j # 0 /\ j - 1 = k /\ k \in 0..(k + 1) /\ k # k + 1 BY <3>1
        <4>2. g[k] = f[k] /\ g[j] = NullStep(f[k], k + 1, set) BY <2>2, <3>1, <4>1
        <4>. QED BY <3>1, <4>1, <4>2
      <3>2. CASE j = 0
        <4>1. j \in 0..k /\ j # k + 1 BY <3>2
        <4>2. g[j] = f[j] /\ f[j] = FirstNull BY <2>1, <2>2, <3>2, <4>1
        <4>. QED BY <3>2, <4>2
      <3>3. CASE j # 0 /\ j # k + 1
        <4>1. j \in 0..k /\ j - 1 \in 0..k /\ j - 1 \in 0..(k + 1) /\ j - 1 # k + 1 BY <3>3
        <4>2. g[j] = f[j] /\ f[j] = NullStep(f[j - 1], j, set) /\ g[j - 1] = f[j - 1] BY <2>1, <2>2, <3>3, <4>1
        <4>. QED BY <3>3, <4>2
      <3>. QED BY <3>1, <3>2, <3>3
    <2>4. g = [j \in 0..(k + 1) |-> IF j = 0 THEN FirstNull ELSE NullStep(g[j - 1], j, set)] BY <2>2, <2>3
    <2>5. k + 1 \in Nat OBVIOUS
    <2>. QED BY <2>4, <2>5
  <1>4. c \in S
    <2>1. 0..c \subseteq S
      <3>. HIDE DEF S
      <3>. QED BY <1>2, <1>3, IntervalInduction
    <2>2. c \in 0..c OBVIOUS
    <2>. QED BY <2>1, <2>2
  <1>5. PICK f : f = CHOOSE g : g = [j \in 0..c |-> IF j = 0 THEN FirstNull ELSE NullStep(g[j - 1], j, set)] OBVIOUS
  <1>6. f = [j \in 0..c |-> IF j = 0 THEN FirstNull ELSE NullStep(f[j - 1], j, set)] BY <1>4, <1>5, Zenon
  <1>7. f[0] = FirstNull /\ \A k \in 1..c : f[k] = NullStep(f[k - 1], k, set)
    <2>1. 0 \in 0..c /\ \A k \in 1..c : k \in 0..c /\ k # 0 OBVIOUS
    <2>. QED BY <1>6, <2>1
  <1>8. OffsetsOfNulls(0) =
          [memory |-> WriteOffsets(f[c].memory, SlotBytes * f[c].next, f[c].start, 0, tuples - f[c].next),
           end |-> f[c].start + (tuples - f[c].next) * 0]
    <2>1. LET g == CHOOSE g : g = [j \in 0..Len(InOrder(map.rows)) |->
                                     IF j = 0 THEN FirstNull ELSE NullStep(g[j - 1], j, InOrder(map.rows))]
              e == Len(InOrder(map.rows))
          IN  OffsetsOfNulls(0) =
                [memory |-> WriteOffsets(g[e].memory, SlotBytes * g[e].next, g[e].start, 0, tuples - g[e].next),
                 end |-> g[e].start + (tuples - g[e].next) * 0]
      BY Zenon DEF OffsetsOfNulls, InOrder, NullStep, FirstNull
    <2>2. f = CHOOSE g : g = [j \in 0..Len(InOrder(map.rows)) |->
                                     IF j = 0 THEN FirstNull ELSE NullStep(g[j - 1], j, InOrder(map.rows))]
      BY <1>1, <1>5, Zenon
    <2>3. c = Len(InOrder(map.rows)) BY <1>1
    <2>. QED BY <2>1, <2>2, <2>3, Zenon
  <1>. QED BY <1>1, <1>7, <1>8, Zenon

LEMMA BatchFits ==
    ASSUME NEW a \in Nat, NEW n \in Nat, a <= n
    PROVE  SlotBytes * (a + OffsetBatch) \in Nat /\ SlotBytes * (a + OffsetBatch) <= SlotsSize(n) + SimdExtra
           /\ SlotBytes * (a + OffsetBatch) + SlotBytes <= SlotsSize(n) + SimdExtra
  <1>1. PICK sb \in Nat \ {0} : sb = SlotBytes BY SlotIs
  <1>2. PICK ob \in Nat : ob = OffsetBatch BY SlotIs
  <1>3. PICK d \in Nat : n = a + d
    <2>1. n - a \in Nat /\ n = a + (n - a) OBVIOUS
    <2>. QED BY <2>1
  <1>4. \A x \in Nat, y \in Nat : sb * (x + y) = sb * x + sb * y /\ sb * x \in Nat BY Z3
  <1>5. PICK e \in Nat, f \in Nat, g \in Nat : e = sb * a /\ f = sb * ob /\ g = sb * d BY <1>4
  <1>6. sb * (a + ob) = e + f /\ sb * (a + d) = e + g BY <1>4, <1>5
  <1>7. SlotsSize(n) = e + g + sb
    <2>1. SlotsSize(n) = sb * ((a + d) + 1) BY <1>1, <1>3 DEF SlotsSize
    <2>2. sb * ((a + d) + 1) = sb * (a + d) + sb BY <1>3, Z3
    <2>. QED BY <1>6, <2>1, <2>2
  <1>8. f <= SimdExtra /\ SimdExtra \in Nat
    <2>1. f = ob * sb BY <1>5
    <2>. QED BY <1>1, <1>2, <2>1, SimdAssumption
  <1>. QED BY <1>1, <1>2, <1>6, <1>7, <1>8

LEMMA EmptyRun ==
    ASSUME NEW t, AllEmpty(t), NEW a \in Nat, NEW n \in Nat, a + n <= Len(t), NEW m, NEW start \in Nat,
           SlotsUpto(m, t, start, a), NEW limit \in Int, Within(m, limit),
           SlotsSize(Len(t)) + SimdExtra <= limit,
           NEW new, new = WriteOffsets(m, SlotBytes * a, start, 0, n)
    PROVE  SlotsUpto(new, t, start, a + n) /\ Within(new, limit)
  <1>1. AreTexts(t) /\ Len(t) \in Nat BY PlacesAre DEF AllEmpty
  <1>2. SameText(t, a, n, <<>>) BY <1>1 DEF SameText, AllEmpty
  <1>3. TextPlaces(t)[a] = 0 BY <1>1, NoPlaces
  <1>4. start = start + TextPlaces(t)[a] /\ <<>> \in Seq(Nat) /\ Len(<<>>) = 0 BY <1>3
  <1>5. PICK s \in Seq(Nat) : s = <<>> /\ Len(s) = 0 BY <1>4
  <1>6. /\ SlotsUpto(new, t, start, a + n)
        /\ Grown(m, new, SlotBytes * a, SlotBytes * (a + n + OffsetBatch))
    <2>1. new = WriteOffsets(m, SlotBytes * a, start, Len(s), n) /\ SameText(t, a, n, s) BY <1>2, <1>5
    <2>2. start = start + TextPlaces(t)[a] BY <1>3
    <2>. QED BY <1>1, <2>1, <2>2, OffsetsOfRun
  <1>7. PICK b \in Nat : b = a + n /\ b <= Len(t)
    <2>1. a + n \in Nat OBVIOUS
    <2>. QED BY <2>1
  <1>8. PICK hi \in Nat : hi = SlotBytes * (b + OffsetBatch) /\ hi <= SlotsSize(Len(t)) + SimdExtra
    BY <1>1, <1>7, BatchFits
  <1>9. hi <= limit
    <2>1. PICK z \in Nat : z = SlotsSize(Len(t)) BY <1>1, SlotsAre
    <2>2. PICK x \in Nat : x = SimdExtra BY SlotIs
    <2>3. hi <= z + x /\ z + x <= limit BY <1>8, <2>1, <2>2
    <2>. QED BY <2>3
  <1>10. PICK lo \in Nat : lo = SlotBytes * a
    <2>1. SlotBytes * a \in Nat BY SlotIs
    <2>. QED BY <2>1
  <1>11. Grown(m, new, lo, hi)
    <2>1. SlotBytes * (a + n + OffsetBatch) = hi BY <1>7, <1>8
    <2>. QED BY <1>6, <1>10, <2>1, Zenon
  <1>12. Within(new, limit) BY <1>9, <1>11, StaysWithin
  <1>. QED BY <1>6, <1>12

LEMMA OffsetsOfNullsRead ==
    ASSUME NEW n \in Nat \ {0}, tuples = n, map.rows \subseteq 1..n, NEW limit \in Int,
           Within(memory, limit), SlotsSize(n) + SimdExtra <= limit, NEW t, AllEmpty(t), Len(t) = n
    PROVE  /\ SlotsUpto(OffsetsOfNulls(0).memory, t, SlotsSize(n), n)
           /\ OffsetsOfNulls(0).end = SlotsSize(n)
           /\ Within(OffsetsOfNulls(0).memory, limit)
  <1>1. PICK s0 \in Nat : s0 = SlotsSize(n) BY SlotsAre
  <1>2. PICK set : set = InOrder(map.rows) OBVIOUS
  <1>3. /\ Len(set) \in Nat /\ \A k \in 1..Len(set) : set[k] \in 1..n
        /\ \A i \in 1..Len(set), j \in 1..Len(set) : i < j => set[i] < set[j]
    BY <1>2, RowsInOrder
  <1>4. PICK c \in Nat : c = Len(set) BY <1>3
  <1>5. PICK f : /\ f[0] = FirstNull /\ \A k \in 1..c : f[k] = NullStep(f[k - 1], k, set)
                 /\ OffsetsOfNulls(0) =
                      [memory |-> WriteOffsets(f[c].memory, SlotBytes * f[c].next, f[c].start, 0, tuples - f[c].next),
                       end |-> f[c].start + (tuples - f[c].next) * 0]
    BY <1>2, <1>4, OffsetsOfNullsRecursion
  <1>. DEFINE S == {k \in 0..c : /\ f[k].start = s0 /\ Within(f[k].memory, limit)
                                 /\ f[k].next \in 0..n /\ (k = 0 => f[k].next = 0)
                                 /\ (k # 0 => f[k].next = set[k])
                                 /\ SlotsUpto(f[k].memory, t, s0, f[k].next)}
  <1>6. 0 \in S
    <2>1. f[0] = [memory |-> memory, start |-> s0, next |-> 0] BY <1>1, <1>5 DEF FirstNull
    <2>2. SlotsUpto(memory, t, s0, 0) BY DEF SlotsUpto
    <2>. QED BY <2>1, <2>2
  <1>7. ASSUME NEW k \in 0..(c - 1), k \in S PROVE k + 1 \in S
    <2>1. k + 1 \in 1..c /\ (k + 1) - 1 = k /\ k + 1 # 0 OBVIOUS
    <2>2. PICK m : m = f[k].memory OBVIOUS
    <2>3. PICK a \in 0..n : a = f[k].next BY <1>7
    <2>4. PICK r \in 1..n : r = set[k + 1] BY <1>3, <1>4, <2>1
    <2>5. a < r
      <3>1. CASE k = 0 BY <1>7, <2>3, <3>1
      <3>2. CASE k # 0
        <4>1. k \in 1..Len(set) /\ k + 1 \in 1..Len(set) /\ k < k + 1 BY <1>4, <3>2
        <4>2. a = set[k] BY <1>7, <2>3, <3>2
        <4>. QED BY <1>3, <2>4, <4>1, <4>2
      <3>. QED BY <3>1, <3>2
    <2>6. PICK q \in Nat : q = r - a /\ a + q = r
      <3>1. r - a \in Nat /\ a + (r - a) = r BY <2>5
      <3>. QED BY <3>1
    <2>7. PICK new : new = WriteOffsets(m, SlotBytes * a, s0, 0, q) OBVIOUS
    <2>8. f[k + 1] = [memory |-> new, start |-> s0, next |-> r]
      <3>1. f[k + 1] = NullStep(f[k], k + 1, set) BY <1>5, <2>1
      <3>2. f[k].start = s0 BY <1>7
      <3>3. s0 + (q - 1) * 0 = s0 OBVIOUS
      <3>4. NullStep(f[k], k + 1, set) = [memory |-> new, start |-> s0 + (q - 1) * 0, next |-> r]
        BY <2>2, <2>3, <2>4, <2>6, <2>7, <3>2 DEF NullStep
      <3>. QED BY <3>1, <3>3, <3>4
    <2>9. SlotsUpto(new, t, s0, r) /\ Within(new, limit)
      <3>1. Within(m, limit) /\ SlotsUpto(m, t, s0, a) BY <1>7, <2>2, <2>3
      <3>2. a \in Nat /\ a + q <= Len(t) /\ SlotsSize(Len(t)) + SimdExtra <= limit BY <2>6
      <3>. QED BY <2>6, <2>7, <3>1, <3>2, EmptyRun
    <2>10. r \in 0..n OBVIOUS
    <2>. QED BY <2>1, <2>4, <2>8, <2>9, <2>10
  <1>8. c \in S
    <2>1. 0..c \subseteq S
      <3>. HIDE DEF S
      <3>. QED BY <1>6, <1>7, IntervalInduction
    <2>2. c \in 0..c OBVIOUS
    <2>. QED BY <2>1, <2>2
  <1>9. PICK a \in 0..n : a = f[c].next BY <1>8
  <1>10. PICK m : m = f[c].memory OBVIOUS
  <1>11. PICK q \in Nat : q = n - a /\ a + q = n
    <2>1. n - a \in Nat /\ a + (n - a) = n OBVIOUS
    <2>. QED BY <2>1
  <1>12. PICK new : new = WriteOffsets(m, SlotBytes * a, s0, 0, q) OBVIOUS
  <1>13. OffsetsOfNulls(0) = [memory |-> new, end |-> s0]
    <2>1. f[c].start = s0 /\ s0 + q * 0 = s0 BY <1>8
    <2>2. OffsetsOfNulls(0) = [memory |-> new, end |-> s0 + q * 0] BY <1>5, <1>9, <1>10, <1>11, <1>12, <2>1
    <2>. QED BY <2>1, <2>2
  <1>14. SlotsUpto(new, t, s0, n) /\ Within(new, limit)
    <2>1. Within(m, limit) /\ SlotsUpto(m, t, s0, a) BY <1>8, <1>9, <1>10
    <2>2. a \in Nat /\ a + q <= Len(t) /\ SlotsSize(Len(t)) + SimdExtra <= limit BY <1>11
    <2>. QED BY <1>11, <1>12, <2>1, <2>2, EmptyRun
  <1>. QED BY <1>1, <1>13, <1>14

\* The offset of one more string.
LEMMA OneSlot ==
    ASSUME NEW t, AreTexts(t), NEW a \in 0..Len(t), NEW m, NEW start \in Nat, SlotsUpto(m, t, start, a),
           NEW v, v = start + TextPlaces(t)[a], NEW new, new = Put(m, SlotBytes * a, Words(<<v>>))
    PROVE  /\ SlotsUpto(new, t, start, a + 1)
           /\ Beside(m, new, SlotBytes * a, SlotBytes * (a + 1))
           /\ Grown(m, new, SlotBytes * a, SlotBytes * (a + 1))
  <1>1. Len(t) \in Nat /\ a \in Nat /\ TextPlaces(t)[a] \in Nat BY PlacesAre
  <1>2. PICK sb \in Nat \ {0} : sb = SlotBytes BY SlotIs
  <1>3. PICK sa \in Nat : sa = sb * a /\ sa + sb = sb * (a + 1)
    <2>1. sb * a \in Nat /\ sb * (a + 1) = sb * a + sb BY <1>1, Z3
    <2>. QED BY <2>1
  <1>4. PICK ws : ws = <<v>> OBVIOUS
  <1>5. DOMAIN ws = 1..1 /\ Len(ws) = 1 /\ ws[1] = v /\ 1 \in Nat BY <1>4
  <1>6. new = Put(m, sa, Words(ws)) BY <1>2, <1>3, <1>4
  <1>7. LET all == Put(m, sa, Words(ws)) IN
        /\ \A k \in 0..(1 - 1) : HasWord(all, sa + SlotBytes * k, ws[k + 1])
        /\ Beside(m, all, sa, sa + SlotBytes * 1) /\ Grown(m, all, sa, sa + SlotBytes * 1)
    <2>1. sa \in Int OBVIOUS
    <2>. QED BY <1>5, <2>1, WordPlaces, Zenon
  <1>8. HasWord(new, sa, v) /\ Beside(m, new, sa, sa + sb) /\ Grown(m, new, sa, sa + sb)
    <2>1. 0 \in 0..(1 - 1) /\ sa + sb * 0 = sa /\ sa + sb * 1 = sa + sb /\ 0 + 1 = 1 OBVIOUS
    <2>. QED BY <1>2, <1>5, <1>6, <1>7, <2>1
  <1>9. SlotsUpto(new, t, start, a)
    <2>1. SlotBytes * a <= sa /\ a \in 0..(Len(t) + 1) /\ sa \in Int /\ sa + sb \in Int BY <1>1, <1>2, <1>3
    <2>. QED BY <1>8, <2>1, SlotsKept
  <1>10. ASSUME NEW j \in 0..((a + 1) - 1) PROVE HasWord(new, SlotBytes * j, start + TextPlaces(t)[j])
    <2>1. CASE j = a BY <1>2, <1>3, <1>8, <2>1
    <2>2. CASE j # a
      <3>1. j \in 0..(a - 1) BY <1>1, <2>2
      <3>. QED BY <1>9, <3>1 DEF SlotsUpto
    <2>. QED BY <2>1, <2>2
  <1>11. SlotsUpto(new, t, start, a + 1) BY <1>10 DEF SlotsUpto
  <1>. QED BY <1>2, <1>3, <1>8, <1>11

OffsetsWritten(new, m, a, start, s, n) == new = WriteOffsets(m, SlotBytes * a, start, Len(s), n)

LEMMA OffsetsOfAll ==
    ASSUME NEW t, AreTexts(t), NEW n \in Nat, NEW s \in Seq(Nat), SameText(t, 0, n, s),
           NEW m, NEW start \in Nat, NEW slots, OffsetsWritten(slots, m, 0, start, s, n)
    PROVE  /\ SlotsUpto(slots, t, start, n) /\ TextPlaces(t)[n] = n * Len(s)
           /\ Grown(m, slots, 0, SlotBytes * (n + OffsetBatch))
  <1>1. PICK zero \in Nat : zero = 0 OBVIOUS
  <1>2. start = start + TextPlaces(t)[zero] BY <1>1, PlacesAre
  <1>3. SlotsUpto(m, t, start, zero) /\ SameText(t, zero, n, s) BY <1>1 DEF SlotsUpto
  <1>4. slots = WriteOffsets(m, SlotBytes * zero, start, Len(s), n) BY <1>1 DEF OffsetsWritten
  <1>5. /\ SlotsUpto(slots, t, start, zero + n) /\ TextPlaces(t)[zero + n] = TextPlaces(t)[zero] + n * Len(s)
        /\ Grown(m, slots, SlotBytes * zero, SlotBytes * (zero + n + OffsetBatch))
    BY <1>2, <1>3, <1>4, OffsetsOfRun
  <1>6. zero + n = n /\ SlotBytes * zero = 0 /\ zero + n + OffsetBatch = n + OffsetBatch /\ TextPlaces(t)[zero] = 0
    BY <1>1, SlotIs, PlacesAre
  <1>7. PICK e \in Int : e = n * Len(s)
    <2>1. n * Len(s) \in Int OBVIOUS
    <2>. QED BY <2>1
  <1>8. TextPlaces(t)[n] = e BY <1>5, <1>6, <1>7
  <1>. QED BY <1>5, <1>6, <1>7, <1>8

\* One value for all rows: their offsets in one go, the copies, and the last offset.
LEMMA AllCopies ==
    ASSUME NEW t, AreTexts(t), NEW n \in Nat, n = Len(t), NEW s \in Seq(Nat), \A k \in 1..n : t[k] = s,
           NEW m, NEW limit \in Int, Within(m, limit), Total(t) + SimdExtra <= limit,
           NEW slots, OffsetsWritten(slots, m, 0, SlotsSize(n), s, n),
           NEW filled, filled = MultiplyString(slots, SlotsSize(n), Characters(s), 0, Len(s), n, 1),
           NEW new, new = Put(filled, SlotBytes * n, Words(<<SlotsSize(n) + n * Len(s)>>))
    PROVE  Stored(new, t, SlotsSize(n)) /\ Within(new, limit) /\ TextPlaces(t)[n] = n * Len(s)
  <1>1. PICK s0 \in Nat : s0 = SlotsSize(n) BY SlotsAre
  <1>2. TextPlaces(t) \in [0..n -> Nat] /\ TextPlaces(t)[0] = 0 BY PlacesAre
  <1>3. SameText(t, 0, n, s) BY DEF SameText
  <1>4. PICK x \in Nat : x = SimdExtra BY SlotIs
  <1>5. PICK zero \in Nat : zero = 0 /\ SlotBytes * zero = 0 /\ SlotBytes * n \in Nat
    <2>1. 0 \in Nat /\ SlotBytes * 0 = 0 /\ SlotBytes * n \in Nat BY SlotIs
    <2>. QED BY <2>1
  <1>6. SlotsUpto(m, t, s0, zero) /\ TextsUpto(m, t, s0, zero) BY <1>5 DEF SlotsUpto, TextsUpto
  <1>7. SlotsUpto(slots, t, s0, n) /\ TextPlaces(t)[n] = n * Len(s) /\ Grown(m, slots, 0, SlotBytes * (n + OffsetBatch))
    <2>1. OffsetsWritten(slots, m, 0, s0, s, n) BY <1>1
    <2>. QED BY <1>3, <2>1, OffsetsOfAll
  <1>8. PICK e \in Nat : e = n * Len(s) /\ TextPlaces(t)[n] = e
    <2>1. TextPlaces(t)[n] \in Nat BY <1>2
    <2>. QED BY <1>7, <2>1
  <1>9. SlotsUpto(slots, t, s0, n) BY <1>7
  <1>10. PICK hi \in Nat : hi = SlotBytes * (n + OffsetBatch) /\ hi <= s0 + x BY <1>1, <1>4, SlotsAre
  <1>11. Within(slots, limit)
    <2>1. Total(t) = s0 + e BY <1>1, <1>8 DEF Total
    <2>2. hi <= limit BY <1>4, <1>10, <2>1
    <2>3. Grown(m, slots, zero, hi) BY <1>5, <1>7, <1>10
    <2>. QED BY <2>2, <2>3, StaysWithin
  <1>12. /\ Copies(filled, s0, s, n) /\ Beside(slots, filled, s0, s0 + e) /\ Grown(slots, filled, s0, s0 + e)
    <2>1. Copies(Characters(s), 0, s, 1) BY OneCopy
    <2>2. 1 \in Nat \ {0} /\ 0 \in Int OBVIOUS
    <2>3. filled = MultiplyString(slots, s0, Characters(s), 0, Len(s), n, 1) BY <1>1
    <2>4. LET all == MultiplyString(slots, s0, Characters(s), 0, Len(s), n, 1) IN
          /\ Copies(all, s0, s, n) /\ Beside(slots, all, s0, s0 + n * Len(s)) /\ Grown(slots, all, s0, s0 + n * Len(s))
      <3>1. s0 \in Int OBVIOUS
      <3>. QED BY <2>1, <2>2, <3>1, CopyPlaces, Zenon
    <2>. QED BY <1>8, <2>3, <2>4, Zenon
  <1>13. s0 = SlotBytes * (n + 1) /\ SlotBytes * n <= s0
    <2>1. s0 = SlotBytes * n + SlotBytes BY <1>1, SlotsAre
    <2>2. PICK sb \in Nat : sb = SlotBytes BY SlotIs
    <2>3. s0 = SlotBytes * (n + 1) BY <1>1 DEF SlotsSize
    <2>. QED BY <1>5, <2>1, <2>2, <2>3
  <1>14. s0 + e \in Int /\ s0 \in Int OBVIOUS
  <1>15. SlotsUpto(filled, t, s0, n)
    <2>1. n \in 0..(Len(t) + 1) OBVIOUS
    <2>. QED BY <1>9, <1>12, <1>13, <1>14, <2>1, SlotsKept
  <1>16. TextsUpto(filled, t, s0, n)
    <2>1. s0 + TextPlaces(t)[zero] = s0 /\ zero + n = n BY <1>2, <1>5
    <2>2. SameText(t, zero, n, s) /\ TextsUpto(filled, t, s0, zero) BY <1>3, <1>5 DEF TextsUpto
    <2>3. Copies(filled, s0 + TextPlaces(t)[zero], s, n) BY <1>12, <2>1
    <2>4. TextsUpto(filled, t, s0, zero + n) BY <2>2, <2>3, TextsOfRun
    <2>. QED BY <2>1, <2>4
  <1>17. /\ SlotsUpto(new, t, s0, n + 1)
         /\ Beside(filled, new, SlotBytes * n, s0) /\ Grown(filled, new, SlotBytes * n, s0)
    <2>1. n \in 0..Len(t) OBVIOUS
    <2>2. PICK v : v = s0 + n * Len(s) OBVIOUS
    <2>3. v = s0 + TextPlaces(t)[n] /\ new = Put(filled, SlotBytes * n, Words(<<v>>)) BY <1>1, <1>8, <2>2
    <2>. QED BY <1>13, <1>15, <2>1, <2>3, OneSlot
  <1>18. TextsUpto(new, t, s0, n)
    <2>1. n \in 0..Len(t) /\ SlotBytes * n \in Int /\ s0 <= s0 BY <1>5
    <2>. QED BY <1>14, <1>16, <1>17, <2>1, TextsKept
  <1>19. Within(new, limit)
    <2>1. Total(t) = s0 + e BY <1>1, <1>8 DEF Total
    <2>2. s0 + e <= limit /\ s0 <= limit BY <1>4, <2>1
    <2>3. Within(filled, limit) BY <1>11, <1>12, <1>14, <2>2, StaysWithin
    <2>. QED BY <1>5, <1>14, <1>17, <2>2, <2>3, StaysWithin
  <1>. QED BY <1>1, <1>8, <1>17, <1>18, <1>19 DEF Stored

LEMMA OneWord ==
    ASSUME NEW m, NEW a \in Nat, NEW v, NEW new, new = Put(m, SlotBytes * a, Words(<<v>>))
    PROVE  /\ HasWord(new, SlotBytes * a, v)
           /\ \A x \in 0..(a - 1) : HasWord(m, SlotBytes * x, v) => HasWord(new, SlotBytes * x, v)
           /\ Grown(m, new, SlotBytes * a, SlotBytes * (a + 1))
  <1>2. PICK sb \in Nat \ {0} : sb = SlotBytes BY SlotIs
  <1>3. PICK sa \in Nat : sa = sb * a /\ sa + sb = sb * (a + 1)
    <2>1. sb * a \in Nat /\ sb * (a + 1) = sb * a + sb BY Z3
    <2>. QED BY <2>1
  <1>4. PICK ws : ws = <<v>> OBVIOUS
  <1>5. DOMAIN ws = 1..1 /\ Len(ws) = 1 /\ ws[1] = v /\ 1 \in Nat BY <1>4
  <1>6. new = Put(m, sa, Words(ws)) BY <1>2, <1>3, <1>4
  <1>7. LET all == Put(m, sa, Words(ws)) IN
        /\ \A k \in 0..(1 - 1) : HasWord(all, sa + SlotBytes * k, ws[k + 1])
        /\ Beside(m, all, sa, sa + SlotBytes * 1) /\ Grown(m, all, sa, sa + SlotBytes * 1)
    <2>1. sa \in Int OBVIOUS
    <2>. QED BY <1>5, <2>1, WordPlaces, Zenon
  <1>8. HasWord(new, sa, v) /\ Beside(m, new, sa, sa + sb) /\ Grown(m, new, sa, sa + sb)
    <2>1. 0 \in 0..(1 - 1) /\ sa + sb * 0 = sa /\ sa + sb * 1 = sa + sb /\ 0 + 1 = 1 OBVIOUS
    <2>. QED BY <1>2, <1>5, <1>6, <1>7, <2>1
  <1>9. ASSUME NEW x \in 0..(a - 1), HasWord(m, SlotBytes * x, v) PROVE HasWord(new, SlotBytes * x, v)
    <2>1. PICK d \in Nat : a = x + 1 + d
      <3>1. a - x - 1 \in Nat /\ a = x + 1 + (a - x - 1) OBVIOUS
      <3>. QED BY <3>1
    <2>2. sb * x + sb <= sa /\ sb * x \in Int
      <3>1. sb * (x + 1 + d) = sb * x + sb + sb * d /\ sb * x \in Nat /\ sb * d \in Nat BY Z3
      <3>. QED BY <1>3, <2>1, <3>1
    <2>3. (SlotBytes * x) + SlotBytes <= sa /\ SlotBytes * x \in Int /\ sa \in Int /\ sa + sb \in Int BY <1>2, <2>2
    <2>. QED BY <1>8, <1>9, <2>3, WordKept
  <1>. QED BY <1>2, <1>3, <1>8, <1>9

LEMMA AllPlaces ==
    ASSUME NEW t, AreTexts(t), NEW n \in Nat, n = Len(t), NEW s \in Seq(Nat), \A k \in 1..n : t[k] = s
    PROVE  TextPlaces(t)[n] = n * Len(s) /\ Total(t) = SlotsSize(n) + n * Len(s) /\ n * Len(s) \in Nat
  <1>1. SameText(t, 0, n, s) BY DEF SameText
  <1>2. PICK slots : slots = WriteOffsets(<<>>, SlotBytes * 0, 0, Len(s), n) OBVIOUS
  <1>3. OffsetsWritten(slots, <<>>, 0, 0, s, n) BY <1>2 DEF OffsetsWritten
  <1>4. TextPlaces(t)[n] = n * Len(s)
    <2>1. 0 \in Nat OBVIOUS
    <2>. QED BY <1>1, <1>3, <2>1, OffsetsOfAll
  <1>5. TextPlaces(t)[n] \in Nat BY PlacesAre
  <1>. QED BY <1>4, <1>5 DEF Total

\* decompress of ONE_VALUE (DecompressOneCopy).
OneCopied ==
    LET length == Len(kept.value)
        start == SlotsSize(tuples)
        slots == CASE map.type = "ALLONES" ->
                        [memory |-> WriteOffsets(memory, 0, start, length, tuples),
                         end |-> start + tuples * length]
                   [] map.type = "REGULAR" -> [memory |-> OffsetsOfSet(length), end |-> start]
                   [] OTHER -> OffsetsOfNulls(length)
        filled == MultiplyString(slots.memory, start, Characters(kept.value), 0, length,
                                 SetRows(map, tuples), 1)
    IN  IF map.type = "ALLZEROS" THEN memory
        ELSE Put(filled, SlotBytes * tuples, Words(<<slots.end>>))

OneOf(n, nm, present, s) == tuples = n /\ nm = Nullmap(present) /\ map = nm /\ kept.value = s

LEMMA OneCopyRead ==
    ASSUME NEW n \in Nat \ {0}, NEW t, AreTexts(t), Len(t) = n,
           NEW present \in Seq(BOOLEAN), Len(present) = n,
           NEW nm, NEW s \in Seq(Nat), OneOf(n, nm, present, s), \A k \in 1..n : t[k] = s,
           \A k \in 1..n : ~present[k] => t[k] = <<>>,
           NEW limit \in Int, Within(memory, limit),
           SlotsSize(n) + SimdExtra + SetRows(nm, n) * Len(s) <= limit
    PROVE  /\ \A i \in 1..n : present[i] => StringAt(OneCopied, i - 1) = t[i]
           /\ Within(OneCopied, limit)
           /\ SetRows(nm, n) * Len(s) = TextPlaces(t)[n]
  <1>0. tuples = n /\ nm = Nullmap(present) /\ map = nm /\ kept.value = s BY Zenon DEF OneOf
  <1>1. /\ nm.type \in {"ALLZEROS", "ALLONES", "REGULAR", "FLIPPED"} /\ nm.rows \subseteq 1..n
        /\ nm.type = "ALLZEROS" => \A i \in 1..n : ~present[i]
        /\ nm.type = "ALLONES" => \A i \in 1..n : present[i]
        /\ nm.type = "REGULAR" => \A i \in 1..n : i \in nm.rows <=> present[i]
        /\ nm.type \in {"REGULAR", "FLIPPED"} => \E i \in 1..n : ~present[i]
    BY <1>0, NullmapIs
  <1>2. PICK s0 \in Nat : s0 = SlotsSize(n) BY SlotsAre
  <1>3. PICK mem : mem = memory OBVIOUS
  <1>4. PICK count \in Nat : count = SetRows(nm, n) /\ ((\A i \in 1..n : present[i]) => count = n) BY <1>0, SetRowsAre
  <1>5. TextPlaces(t)[n] = n * Len(s) /\ Total(t) = s0 + n * Len(s) /\ n * Len(s) \in Nat BY <1>2, AllPlaces
  <1>6. PICK x \in Nat : x = SimdExtra BY SlotIs
  <1>7. PICK value : value = Characters(s) OBVIOUS
  <1>8. CASE nm.type = "ALLONES"
    <2>1. count = n BY <1>1, <1>4, <1>8
    <2>2. PICK slots : slots = WriteOffsets(mem, 0, s0, Len(s), n) OBVIOUS
    <2>3. PICK filled : filled = MultiplyString(slots, s0, value, 0, Len(s), n, 1) OBVIOUS
    <2>4. PICK new : new = Put(filled, SlotBytes * n, Words(<<s0 + n * Len(s)>>)) OBVIOUS
    <2>5. OneCopied = new
      <3>1. PICK end : end = s0 + n * Len(s) OBVIOUS
      <3>2. map.type = "ALLONES" /\ map.type # "ALLZEROS" /\ SetRows(map, tuples) = n BY <1>0, <1>4, <1>8, <2>1
      <3>3. OneCopied = LET both == [memory |-> slots, end |-> end]
                            full == MultiplyString(both.memory, s0, value, 0, Len(s), n, 1)
                        IN  Put(full, SlotBytes * n, Words(<<both.end>>))
        BY <1>0, <1>2, <1>3, <1>7, <2>2, <3>1, <3>2 DEF OneCopied
      <3>. QED BY <2>3, <2>4, <3>1, <3>3
    <2>6. OffsetsWritten(slots, mem, 0, SlotsSize(n), s, n)
      <3>1. SlotBytes * 0 = 0 BY SlotIs
      <3>. QED BY <1>2, <2>2, <3>1 DEF OffsetsWritten
    <2>7. Total(t) + SimdExtra <= limit
      <3>1. PICK e \in Nat : e = n * Len(s) BY <1>5
      <3>2. s0 + x + e <= limit BY <1>2, <1>4, <1>6, <2>1, <3>1
      <3>. QED BY <1>5, <1>6, <3>1, <3>2
    <2>8. Stored(new, t, s0) /\ Within(new, limit)
      <3>1. filled = MultiplyString(slots, SlotsSize(n), Characters(s), 0, Len(s), n, 1) BY <1>2, <1>7, <2>3
      <3>2. new = Put(filled, SlotBytes * n, Words(<<SlotsSize(n) + n * Len(s)>>)) BY <1>2, <2>4
      <3>3. Within(mem, limit) /\ n \in Nat /\ n = Len(t) BY <1>3
      <3>. QED BY <1>2, <2>6, <2>7, <3>1, <3>2, <3>3, AllCopies, SMTT(60)
    <2>9. \A i \in 1..n : StringAt(new, i - 1) = t[i] BY <2>8, StoredRead
    <2>. QED BY <1>4, <1>5, <2>1, <2>5, <2>8, <2>9
  <1>9. ASSUME nm.type \in {"REGULAR", "FLIPPED"}
        PROVE  s = <<>> /\ Len(s) = 0 /\ AllEmpty(t) /\ s0 + x <= limit /\ count * Len(s) = TextPlaces(t)[n]
    <2>1. PICK i \in 1..n : ~present[i] BY <1>1, <1>9
    <2>2. s = <<>> BY <2>1
    <2>3. Len(s) = 0 /\ AllEmpty(t) BY <2>2 DEF AllEmpty
    <2>4. count * Len(s) = 0 /\ TextPlaces(t)[n] = 0 BY <1>5, <2>3
    <2>5. s0 + x + 0 <= limit BY <1>2, <1>4, <1>6, <2>4
    <2>. QED BY <2>2, <2>3, <2>4, <2>5
  <1>10. CASE nm.type = "REGULAR"
    <2>1. s = <<>> /\ Len(s) = 0 /\ s0 + x <= limit /\ count * Len(s) = TextPlaces(t)[n] BY <1>9, <1>10
    <2>2. PICK slots : slots = OffsetsOfSet(0) OBVIOUS
    <2>3. PICK new : new = Put(slots, SlotBytes * n, Words(<<s0>>)) OBVIOUS
    <2>4. OneCopied = new
      <3>1. map.type = "REGULAR" /\ map.type # "ALLONES" /\ map.type # "ALLZEROS" /\ Len(kept.value) = 0
        BY <1>0, <1>10, <2>1
      <3>2. OneCopied = LET both == [memory |-> slots, end |-> s0]
                            full == MultiplyString(both.memory, s0, Characters(kept.value), 0, 0, SetRows(map, tuples), 1)
                        IN  Put(full, SlotBytes * n, Words(<<both.end>>))
        BY <1>0, <1>2, <2>2, <3>1 DEF OneCopied
      <3>3. MultiplyString(slots, s0, Characters(kept.value), 0, 0, SetRows(map, tuples), 1) = slots
        BY DEF MultiplyString
      <3>. QED BY <2>3, <3>2, <3>3
    <2>5. /\ \A i \in nm.rows : HasWord(slots, SlotBytes * (i - 1), s0) /\ HasWord(slots, SlotBytes * i, s0)
          /\ Within(slots, limit)
      <3>1. SlotsSize(n) <= limit /\ map.rows \subseteq 1..n BY <1>0, <1>1, <1>2, <2>1
      <3>. QED BY <1>0, <1>2, <2>2, <3>1, OffsetsOfSetRead
    <2>6. /\ HasWord(new, SlotBytes * n, s0)
          /\ \A k \in 0..(n - 1) : HasWord(slots, SlotBytes * k, s0) => HasWord(new, SlotBytes * k, s0)
          /\ Grown(slots, new, SlotBytes * n, SlotBytes * (n + 1))
      BY <2>3, OneWord
    <2>7. ASSUME NEW i \in 1..n, present[i] PROVE StringAt(new, i - 1) = t[i]
      <3>1. i \in nm.rows BY <1>1, <1>10, <2>7
      <3>2. i - 1 \in 0..(n - 1) /\ i - 1 \in Nat /\ (i - 1) + 1 = i OBVIOUS
      <3>3. HasWord(new, SlotBytes * (i - 1), s0) BY <2>5, <2>6, <3>1, <3>2
      <3>4. HasWord(new, SlotBytes * i, s0)
        <4>1. CASE i = n BY <2>6, <4>1
        <4>2. CASE i # n
          <5>1. i \in 0..(n - 1) BY <4>2
          <5>. QED BY <2>5, <2>6, <3>1, <5>1
        <4>. QED BY <4>1, <4>2
      <3>5. HasText(new, s0, s)
        <4>1. Len(s) = 0 /\ s0 \in Int /\ s \in Seq(Nat) BY <2>1
        <4>. QED BY <4>1, NoText, Zenon
      <3>6. HasWord(new, SlotBytes * ((i - 1) + 1), s0 + Len(s)) BY <2>1, <3>2, <3>4
      <3>7. StringAt(new, i - 1) = s BY <3>2, <3>3, <3>5, <3>6, StringRead
      <3>. QED BY <3>7
    <2>8. Within(new, limit)
      <3>1. SlotBytes * (n + 1) = s0 /\ SlotBytes * n \in Nat BY <1>2, SlotsAre
      <3>2. s0 <= limit /\ s0 \in Int BY <2>1
      <3>3. Grown(slots, new, SlotBytes * n, s0) BY <2>6, <3>1
      <3>. QED BY <2>5, <3>1, <3>2, <3>3, StaysWithin
    <2>. QED BY <1>4, <2>1, <2>4, <2>7, <2>8
  <1>11. CASE nm.type = "FLIPPED"
    <2>1. s = <<>> /\ Len(s) = 0 /\ s0 + x <= limit /\ AllEmpty(t) /\ count * Len(s) = TextPlaces(t)[n] BY <1>9, <1>11
    <2>2. PICK both : both = OffsetsOfNulls(0) OBVIOUS
    <2>3. SlotsUpto(both.memory, t, s0, n) /\ both.end = s0 /\ Within(both.memory, limit)
      <3>1. SlotsSize(n) + SimdExtra <= limit /\ map.rows \subseteq 1..n BY <1>0, <1>1, <1>2, <1>6, <2>1
      <3>. QED BY <1>0, <1>2, <2>1, <2>2, <3>1, OffsetsOfNullsRead
    <2>4. PICK slots : slots = both.memory OBVIOUS
    <2>5. PICK new : new = Put(slots, SlotBytes * n, Words(<<s0>>)) OBVIOUS
    <2>6. OneCopied = new
      <3>1. map.type = "FLIPPED" /\ map.type # "ALLONES" /\ map.type # "ALLZEROS" /\ map.type # "REGULAR" /\ Len(kept.value) = 0
        BY <1>0, <1>11, <2>1
      <3>2. OneCopied = LET full == MultiplyString(both.memory, s0, Characters(kept.value), 0, 0, SetRows(map, tuples), 1)
                        IN  Put(full, SlotBytes * n, Words(<<both.end>>))
        BY <1>0, <1>2, <2>2, <3>1 DEF OneCopied
      <3>3. MultiplyString(slots, s0, Characters(kept.value), 0, 0, SetRows(map, tuples), 1) = slots
        BY DEF MultiplyString
      <3>. QED BY <2>3, <2>4, <2>5, <3>2, <3>3
    <2>7. SlotsUpto(new, t, s0, n + 1) /\ Grown(slots, new, SlotBytes * n, SlotBytes * (n + 1))
      <3>1. s0 = s0 + TextPlaces(t)[n] /\ n \in 0..Len(t) BY <1>5, <2>1
      <3>2. SlotsUpto(slots, t, s0, n) BY <2>3, <2>4
      <3>. QED BY <2>5, <3>1, <3>2, OneSlot
    <2>8. TextsUpto(new, t, s0, n)
      <3>1. ASSUME NEW k \in 1..n PROVE HasText(new, s0 + TextPlaces(t)[k - 1], t[k])
        <4>1. k - 1 \in 0..Len(t) /\ s0 + TextPlaces(t)[k - 1] \in Int
          <5>1. k - 1 \in 0..Len(t) OBVIOUS
          <5>2. PICK e \in Nat : e = TextPlaces(t)[k - 1] BY <5>1, PlacesAre
          <5>. QED BY <5>1, <5>2
        <4>2. t[k] = s OBVIOUS
        <4>. QED BY <2>1, <4>1, <4>2, NoText
      <3>. QED BY <3>1 DEF TextsUpto
    <2>9. \A i \in 1..n : StringAt(new, i - 1) = t[i]
      <3>1. Stored(new, t, s0) BY <2>7, <2>8 DEF Stored
      <3>. QED BY <3>1, StoredRead
    <2>10. Within(new, limit)
      <3>1. SlotBytes * (n + 1) = s0 /\ SlotBytes * n \in Nat BY <1>2, SlotsAre
      <3>2. s0 <= limit /\ s0 \in Int BY <2>1
      <3>3. Grown(slots, new, SlotBytes * n, s0) /\ Within(slots, limit) BY <2>3, <2>4, <2>7, <3>1
      <3>. QED BY <3>1, <3>2, <3>3, StaysWithin
    <2>. QED BY <1>4, <2>1, <2>6, <2>9, <2>10
  <1>12. CASE nm.type = "ALLZEROS"
    <2>1. OneCopied = mem
      <3>1. map.type = "ALLZEROS" BY <1>0, <1>12
      <3>. QED BY <1>3, <3>1 DEF OneCopied
    <2>2. \A i \in 1..n : ~present[i] BY <1>1, <1>12
    <2>3. 1 \in 1..n OBVIOUS
    <2>4. s = <<>> BY <2>2, <2>3
    <2>5. Len(s) = 0 BY <2>4
    <2>6. count * Len(s) = 0 /\ TextPlaces(t)[n] = 0 BY <1>5, <2>5
    <2>. QED BY <1>3, <1>4, <2>1, <2>2, <2>6
  <1>. QED BY <1>1, <1>8, <1>10, <1>11, <1>12

\* One more row: its offset, and its string behind the ones before.
TextWritten(m, at, s, fsst) == IF fsst THEN FsstDecompressed(m, at, s) ELSE PutText(m, at, s)

LEMMA TextWrittenPlaces ==
    ASSUME NEW m, NEW at \in Int, NEW s \in Seq(Nat), NEW fsst
    PROVE  /\ HasText(TextWritten(m, at, s, fsst), at, s)
           /\ Beside(m, TextWritten(m, at, s, fsst), at, at + Len(s) + 8)
           /\ Grown(m, TextWritten(m, at, s, fsst), at, at + Len(s) + 8)
  <1>1. PICK len \in Nat : len = Len(s) OBVIOUS
  <1>2. CASE fsst
    <2>1. TextWritten(m, at, s, fsst) = FsstDecompressed(m, at, s) BY <1>2 DEF TextWritten
    <2>2. PICK o \in Nat : o = FsstOverrun /\ o <= 8 BY SlotIs, SizeAssumption
    <2>3. /\ HasText(FsstDecompressed(m, at, s), at, s)
          /\ Beside(m, FsstDecompressed(m, at, s), at, at + len + o)
          /\ Grown(m, FsstDecompressed(m, at, s), at, at + len + o)
      BY <1>1, <2>2, FsstPlaces
    <2>4. at + len + o \in Int /\ at + len + 8 \in Int /\ at + len + o <= at + len + 8 /\ at <= at BY <2>2
    <2>. QED BY <1>1, <2>1, <2>3, <2>4, Wider
  <1>3. CASE ~fsst
    <2>1. TextWritten(m, at, s, fsst) = Put(m, at, Characters(s)) BY <1>3 DEF TextWritten, PutText
    <2>3. /\ HasText(Put(m, at, Characters(s)), at, s)
          /\ Beside(m, Put(m, at, Characters(s)), at, at + len)
          /\ Grown(m, Put(m, at, Characters(s)), at, at + len)
      BY <1>1, CharacterPlaces
    <2>4. at + len \in Int /\ at + len + 8 \in Int /\ at + len <= at + len + 8 /\ at <= at OBVIOUS
    <2>. QED BY <1>1, <2>1, <2>3, <2>4, Wider
  <1>. QED BY <1>2, <1>3

\* A string behind the ones before.
LEMMA NextText ==
    ASSUME NEW t, AreTexts(t), NEW k \in 0..(Len(t) - 1), NEW start \in Nat, NEW m,
           TextsUpto(m, t, start, k), NEW new, NEW from \in Int, from = start + TextPlaces(t)[k],
           NEW to \in Int, Beside(m, new, from, to), HasText(new, from, t[k + 1])
    PROVE  TextsUpto(new, t, start, k + 1)
  <1>1. Len(t) \in Nat /\ k \in 0..Len(t) /\ k \in Nat BY PlacesAre
  <1>2. TextsUpto(new, t, start, k)
    <2>1. start + TextPlaces(t)[k] <= from OBVIOUS
    <2>. QED BY <1>1, <2>1, TextsKept
  <1>3. ASSUME NEW j \in 1..(k + 1) PROVE HasText(new, start + TextPlaces(t)[j - 1], t[j])
    <2>1. CASE j = k + 1
      <3>1. j - 1 = k BY <1>1, <2>1
      <3>. QED BY <2>1, <3>1
    <2>2. CASE j # k + 1
      <3>1. j \in 1..k BY <1>1, <2>2
      <3>. QED BY <1>2, <3>1 DEF TextsUpto
    <2>. QED BY <2>1, <2>2
  <1>. QED BY <1>3 DEF TextsUpto

RowWritten(m, k, write, s, fsst) == TextWritten(Put(m, SlotBytes * k, Words(<<write>>)), write, s, fsst)

RowsFit(t, start, limit) == SlotsSize(Len(t)) <= start /\ start + TextPlaces(t)[Len(t)] + 8 <= limit

IsPlace(x, t, start, k) == x \in Nat /\ x = start + TextPlaces(t)[k]

RowIs(new, m, t, k, write, fsst) == new = RowWritten(m, k, write, t[k + 1], fsst)

LEMMA NextRow ==
    ASSUME NEW t, AreTexts(t), NEW k \in 0..(Len(t) - 1), NEW start \in Nat, NEW limit \in Int,
           RowsFit(t, start, limit),
           NEW m, SlotsUpto(m, t, start, k), TextsUpto(m, t, start, k), Within(m, limit),
           NEW write \in Nat, IsPlace(write, t, start, k), NEW fsst,
           NEW new, RowIs(new, m, t, k, write, fsst)
    PROVE  /\ SlotsUpto(new, t, start, k + 1) /\ TextsUpto(new, t, start, k + 1) /\ Within(new, limit)
           /\ IsPlace(write + Len(t[k + 1]), t, start, k + 1)
  <1>30. PICK s : s = t[k + 1] OBVIOUS
  <1>31. /\ SlotsSize(Len(t)) <= start /\ start + TextPlaces(t)[Len(t)] + 8 <= limit
         /\ write = start + TextPlaces(t)[k] /\ s = t[k + 1] /\ new = RowWritten(m, k, write, s, fsst)
    BY <1>30, Zenon DEF RowsFit, IsPlace, RowIs
  <1>. USE <1>31
  <1>1. PICK n \in Nat : n = Len(t) /\ k < n /\ k \in 0..Len(t) /\ k + 1 \in 1..n /\ k \in Nat BY PlacesAre
  <1>2. /\ TextPlaces(t)[k] \in Nat /\ TextPlaces(t)[k + 1] = TextPlaces(t)[k] + Len(s) /\ s \in Seq(Nat) /\ Len(s) \in Nat
        /\ TextPlaces(t)[k + 1] \in Nat /\ TextPlaces(t)[n] \in Nat
    <2>1. k + 1 \in 1..Len(t) /\ (k + 1) - 1 = k /\ k + 1 \in 0..Len(t) /\ n \in 0..Len(t) BY <1>1
    <2>. QED BY <1>1, <2>1, PlacesAre
  <1>3. PICK len \in Nat, a \in Nat, b \in Nat, c \in Nat :
            len = Len(s) /\ a = TextPlaces(t)[k] /\ b = TextPlaces(t)[k + 1] /\ c = TextPlaces(t)[n] /\ b = a + len
    BY <1>2
  <1>4. b <= c
    <2>1. k + 1 \in 0..Len(t) /\ n \in (k + 1)..Len(t) BY <1>1
    <2>. QED BY <1>3, <2>1, PlacesRise
  <1>5. write = start + a /\ write \in Nat BY <1>3
  <1>6. PICK lo \in Nat, hi \in Nat : lo = SlotBytes * k /\ hi = SlotBytes * (k + 1) /\ lo <= hi /\ hi <= start
    <2>1. PICK sb \in Nat : sb = SlotBytes BY SlotIs
    <2>2. PICK d \in Nat : n = k + d
      <3>1. n - k \in Nat /\ n = k + (n - k) BY <1>1
      <3>. QED BY <3>1
    <2>3. sb * (k + d + 1) = sb * (k + 1) + sb * d /\ sb * (k + 1) = sb * k + sb /\ sb * k \in Nat /\ sb * d \in Nat
          /\ sb * (k + 1) \in Nat
      BY <1>1, Z3
    <2>4. SlotsSize(Len(t)) = sb * (k + d + 1) BY <1>1, <2>1, <2>2 DEF SlotsSize
    <2>5. PICK y \in Nat, z \in Nat, w \in Nat : y = sb * k /\ z = sb * (k + 1) /\ w = sb * d BY <2>3
    <2>6. y <= z /\ z <= start BY <2>3, <2>4, <2>5
    <2>. QED BY <2>1, <2>5, <2>6
  <1>7. PICK slot : slot = Put(m, SlotBytes * k, Words(<<write>>)) OBVIOUS
  <1>8. SlotsUpto(slot, t, start, k + 1) /\ Beside(m, slot, lo, hi) /\ Grown(m, slot, lo, hi)
    BY <1>1, <1>6, <1>7, OneSlot
  <1>9. TextsUpto(slot, t, start, k)
    <2>1. lo \in Int /\ hi \in Int OBVIOUS
    <2>. QED BY <1>1, <1>6, <1>8, <2>1, TextsKept
  <1>10. new = TextWritten(slot, write, s, fsst) BY <1>7 DEF RowWritten
  <1>11. PICK end \in Nat : end = write + len + 8 BY <1>5
  <1>12. HasText(new, write, s) /\ Beside(slot, new, write, end) /\ Grown(slot, new, write, end)
    <2>1. write + Len(s) + 8 = end /\ write \in Int /\ s \in Seq(Nat) BY <1>2, <1>3, <1>11
    <2>. QED BY <1>10, <2>1, TextWrittenPlaces
  <1>20. hi <= limit /\ end <= limit /\ write + len = start + b
    <2>1. start + c + 8 <= limit BY <1>1, <1>3, Zenon
    <2>2. b = a + len /\ b <= c /\ write = start + a /\ end = write + len + 8 /\ hi <= start
      BY <1>3, <1>4, <1>5, <1>6, <1>11, Zenon
    <2>. QED
      <3>1. start \in Nat /\ a \in Nat /\ b \in Nat /\ c \in Nat /\ len \in Nat /\ write \in Nat
            /\ end \in Nat /\ hi \in Nat /\ limit \in Int
        OBVIOUS
      <3>. QED BY <2>1, <2>2, <3>1, RowSums
  <1>13. SlotsUpto(new, t, start, k + 1)
    <2>1. k + 1 \in 0..(Len(t) + 1) /\ SlotBytes * (k + 1) <= write /\ write \in Int /\ end \in Int
      BY <1>1, <1>5, <1>6
    <2>. QED BY <1>8, <1>12, <2>1, SlotsKept
  <1>14. TextsUpto(new, t, start, k + 1)
    <2>1. write \in Int /\ end \in Int BY <1>5
    <2>. QED BY <1>9, <1>12, <2>1, NextText
  <1>15. Within(new, limit)
    <2>1. hi <= limit /\ end <= limit BY <1>20
    <2>2. Within(slot, limit) BY <1>8, <2>1, StaysWithin
    <2>. QED BY <1>5, <1>12, <2>1, <2>2, StaysWithin
  <1>16. IsPlace(write + Len(t[k + 1]), t, start, k + 1)
    <2>1. write + Len(s) = start + TextPlaces(t)[k + 1] BY <1>3, <1>20, Zenon
    <2>2. write + Len(s) \in Nat
      <3>1. write + len \in Nat BY <1>5
      <3>. QED BY <1>3, <3>1
    <2>. QED BY <1>30, <2>1, <2>2, Zenon DEF IsPlace
  <1>. QED BY <1>13, <1>14, <1>15, <1>16

RowStep(s, k, fsst) ==
    [memory |-> RowWritten(s.memory, k - 1, s.write, StringOf(kept.codes[k]), fsst),
     write |-> s.write + Len(StringOf(kept.codes[k]))]

FirstRow(start) == [memory |-> memory, write |-> start]

RowsFrom(f, c, start, fsst) ==
    /\ f[0] = FirstRow(start) /\ \A k \in 1..c : f[k] = RowStep(f[k - 1], k, fsst)
    /\ RowByRow(start, fsst) = [f[c] EXCEPT !.memory = Put(@, SlotBytes * c, Words(<<f[c].write>>))]

LEMMA RowsRecursion ==
    ASSUME NEW c \in Nat, tuples = c, NEW start, NEW fsst
    PROVE  \E f : RowsFrom(f, c, start, fsst)
  <1>. DEFINE S == {k \in Nat : \E f : f = [j \in 0..k |-> IF j = 0 THEN FirstRow(start) ELSE RowStep(f[j - 1], j, fsst)]}
  <1>2. 0 \in S
    <2>1. PICK f : f = [j \in 0..0 |-> FirstRow(start)] OBVIOUS
    <2>2. f = [j \in 0..0 |-> IF j = 0 THEN FirstRow(start) ELSE RowStep(f[j - 1], j, fsst)] BY <2>1
    <2>. QED BY <2>2
  <1>3. ASSUME NEW k \in 0..(c - 1), k \in S PROVE k + 1 \in S
    <2>1. PICK f : f = [j \in 0..k |-> IF j = 0 THEN FirstRow(start) ELSE RowStep(f[j - 1], j, fsst)] BY <1>3
    <2>2. PICK g : g = [j \in 0..(k + 1) |-> IF j = k + 1 THEN RowStep(f[k], k + 1, fsst) ELSE f[j]] OBVIOUS
    <2>3. ASSUME NEW j \in 0..(k + 1) PROVE g[j] = IF j = 0 THEN FirstRow(start) ELSE RowStep(g[j - 1], j, fsst)
      <3>1. CASE j = k + 1
        <4>1. j # 0 /\ j - 1 = k /\ k \in 0..(k + 1) /\ k # k + 1 BY <3>1
        <4>2. g[k] = f[k] /\ g[j] = RowStep(f[k], k + 1, fsst) BY <2>2, <3>1, <4>1
        <4>. QED BY <3>1, <4>1, <4>2
      <3>2. CASE j = 0
        <4>1. j \in 0..k /\ j # k + 1 BY <3>2
        <4>2. g[j] = f[j] /\ f[j] = FirstRow(start) BY <2>1, <2>2, <3>2, <4>1
        <4>. QED BY <3>2, <4>2
      <3>3. CASE j # 0 /\ j # k + 1
        <4>1. j \in 0..k /\ j - 1 \in 0..k /\ j - 1 \in 0..(k + 1) /\ j - 1 # k + 1 BY <3>3
        <4>2. g[j] = f[j] /\ f[j] = RowStep(f[j - 1], j, fsst) /\ g[j - 1] = f[j - 1] BY <2>1, <2>2, <3>3, <4>1
        <4>. QED BY <3>3, <4>2
      <3>. QED BY <3>1, <3>2, <3>3
    <2>4. g = [j \in 0..(k + 1) |-> IF j = 0 THEN FirstRow(start) ELSE RowStep(g[j - 1], j, fsst)] BY <2>2, <2>3
    <2>5. k + 1 \in Nat OBVIOUS
    <2>. QED BY <2>4, <2>5
  <1>4. c \in S
    <2>1. 0..c \subseteq S
      <3>. HIDE DEF S
      <3>. QED BY <1>2, <1>3, IntervalInduction
    <2>2. c \in 0..c OBVIOUS
    <2>. QED BY <2>1, <2>2
  <1>5. PICK f : f = CHOOSE g : g = [j \in 0..c |-> IF j = 0 THEN FirstRow(start) ELSE RowStep(g[j - 1], j, fsst)]
    OBVIOUS
  <1>6. f = [j \in 0..c |-> IF j = 0 THEN FirstRow(start) ELSE RowStep(f[j - 1], j, fsst)] BY <1>4, <1>5, Zenon
  <1>7. f[0] = FirstRow(start) /\ \A k \in 1..c : f[k] = RowStep(f[k - 1], k, fsst)
    <2>1. 0 \in 0..c /\ \A k \in 1..c : k \in 0..c /\ k # 0 OBVIOUS
    <2>. QED BY <1>6, <2>1
  <1>8. RowByRow(start, fsst) = [f[c] EXCEPT !.memory = Put(@, SlotBytes * c, Words(<<f[c].write>>))]
    <2>1. LET g == CHOOSE g : g = [j \in 0..tuples |->
                                     IF j = 0 THEN FirstRow(start) ELSE RowStep(g[j - 1], j, fsst)]
          IN  RowByRow(start, fsst)
                = [g[tuples] EXCEPT !.memory = Put(@, SlotBytes * tuples, Words(<<g[tuples].write>>))]
      BY Zenon DEF RowByRow, FirstRow, RowStep, RowWritten, TextWritten
    <2>2. f = CHOOSE g : g = [j \in 0..tuples |->
                                IF j = 0 THEN FirstRow(start) ELSE RowStep(g[j - 1], j, fsst)]
      BY <1>5, Zenon
    <2>. QED BY <2>1, <2>2, Zenon
  <1>. QED BY <1>7, <1>8, Zenon DEF RowsFrom

\* What the rows so far have left.
RowsDone(s, t, start, k, limit) ==
    /\ SlotsUpto(s.memory, t, start, k) /\ TextsUpto(s.memory, t, start, k) /\ Within(s.memory, limit)
    /\ s = [memory |-> s.memory, write |-> s.write]
    /\ s.write \in Nat /\ IsPlace(s.write, t, start, k)

LEMMA RowStepDone ==
    ASSUME NEW t, AreTexts(t), NEW k \in 0..(Len(t) - 1), NEW start \in Nat, NEW limit \in Int,
           RowsFit(t, start, limit), Names(strings, kept.codes, t), NEW fsst,
           NEW old, RowsDone(old, t, start, k, limit)
    PROVE  RowsDone(RowStep(old, k + 1, fsst), t, start, k + 1, limit)
  <1>1. Len(t) \in Nat /\ k + 1 \in 1..Len(t) /\ k + 1 \in 0..Len(t) /\ (k + 1) - 1 = k /\ k \in Nat BY PlacesAre
  <1>3. StringOf(kept.codes[k + 1]) = t[k + 1]
    <2>1. kept.codes[k + 1] \in 0..(Len(strings) - 1) /\ strings[kept.codes[k + 1] + 1] = t[k + 1] BY <1>1 DEF Names
    <2>2. Len(strings) \in Nat BY PlacesAre DEF Names
    <2>3. kept.codes[k + 1] < Len(strings) BY <2>1, <2>2
    <2>. QED BY <2>1, <2>3 DEF StringOf
  <1>4. /\ SlotsUpto(old.memory, t, start, k) /\ TextsUpto(old.memory, t, start, k) /\ Within(old.memory, limit)
        /\ old.write \in Nat /\ IsPlace(old.write, t, start, k)
    BY Zenon DEF RowsDone
  <1>5. PICK new : RowIs(new, old.memory, t, k, old.write, fsst) BY DEF RowIs
  <1>6. /\ SlotsUpto(new, t, start, k + 1) /\ TextsUpto(new, t, start, k + 1) /\ Within(new, limit)
        /\ IsPlace(old.write + Len(t[k + 1]), t, start, k + 1)
    BY <1>4, <1>5, NextRow
  <1>7. PICK next : next = old.write + Len(t[k + 1]) OBVIOUS
  <1>8. RowStep(old, k + 1, fsst) = [memory |-> new, write |-> next]
    <2>1. PICK code : code = kept.codes[k + 1] OBVIOUS
    <2>2. StringOf(code) = t[k + 1] BY <1>3, <2>1, Zenon
    <2>3. RowStep(old, k + 1, fsst) =
            [memory |-> RowWritten(old.memory, (k + 1) - 1, old.write, StringOf(code), fsst),
             write |-> old.write + Len(StringOf(code))]
      BY <2>1, Zenon DEF RowStep
    <2>4. RowWritten(old.memory, (k + 1) - 1, old.write, StringOf(code), fsst) = new
      BY <1>1, <1>5, <2>2, Zenon DEF RowIs
    <2>5. old.write + Len(StringOf(code)) = next BY <1>7, <2>2, Zenon
    <2>. QED BY <2>3, <2>4, <2>5, Zenon
  <1>9. PICK done : done = [memory |-> new, write |-> next] OBVIOUS
  <1>10. done.memory = new /\ done.write = next BY <1>9
  <1>11. RowsDone(done, t, start, k + 1, limit) BY <1>6, <1>7, <1>9, <1>10, Zenon DEF RowsDone, IsPlace
  <1>. QED BY <1>8, <1>9, <1>11, Zenon

LEMMA RowByRowRead ==
    ASSUME NEW n \in Nat, tuples = n, NEW t, AreTexts(t), Len(t) = n, Names(strings, kept.codes, t),
           NEW start \in Nat, SlotsSize(n) <= start, NEW fsst,
           NEW limit \in Int, Within(memory, limit), start + TextPlaces(t)[n] + 8 <= limit
    PROVE  /\ Stored(RowByRow(start, fsst).memory, t, start)
           /\ Within(RowByRow(start, fsst).memory, limit)
           /\ RowByRow(start, fsst).write = start + TextPlaces(t)[n]
  <1>20. PICK f : RowsFrom(f, n, start, fsst) BY RowsRecursion
  <1>1. /\ f[0] = FirstRow(start) /\ \A k \in 1..n : f[k] = RowStep(f[k - 1], k, fsst)
        /\ RowByRow(start, fsst) =
              [f[n] EXCEPT !.memory = Put(@, SlotBytes * n, Words(<<f[n].write>>))]
    BY <1>20, Zenon DEF RowsFrom
  <1>2. RowsDone(f[0], t, start, 0, limit)
    <2>1. SlotsUpto(memory, t, start, 0) /\ TextsUpto(memory, t, start, 0) BY DEF SlotsUpto, TextsUpto
    <2>2. IsPlace(start, t, start, 0) BY PlacesAre DEF IsPlace
    <2>3. FirstRow(start).memory = memory /\ FirstRow(start).write = start
          /\ FirstRow(start) = [memory |-> FirstRow(start).memory, write |-> FirstRow(start).write]
      BY DEF FirstRow
    <2>. QED BY <1>1, <2>1, <2>2, <2>3, Zenon DEF RowsDone
  <1>3. \A k \in 0..(n - 1) : RowsDone(f[k], t, start, k, limit) => RowsDone(f[k + 1], t, start, k + 1, limit)
    <2>1. SUFFICES ASSUME NEW k \in 0..(n - 1), RowsDone(f[k], t, start, k, limit)
                   PROVE  RowsDone(f[k + 1], t, start, k + 1, limit)
      OBVIOUS
    <2>2. k + 1 \in 1..n /\ (k + 1) - 1 = k /\ k \in 0..(Len(t) - 1) OBVIOUS
    <2>3. f[k + 1] = RowStep(f[k], k + 1, fsst) BY <1>1, <2>2
    <2>4. PICK old : old = f[k] OBVIOUS
    <2>5. RowsDone(RowStep(old, k + 1, fsst), t, start, k + 1, limit)
      <3>1. RowsDone(old, t, start, k, limit) /\ RowsFit(t, start, limit) BY <2>1, <2>4, Zenon DEF RowsFit
      <3>. QED BY <2>2, <3>1, RowStepDone
    <2>. QED BY <2>3, <2>4, <2>5, Zenon
  <1>4. RowsDone(f[n], t, start, n, limit)
    <2>1. PICK S : S = {k \in 0..n : RowsDone(f[k], t, start, k, limit)} OBVIOUS
    <2>2. 0 \in S BY <1>2, <2>1
    <2>3. \A k \in 0..(n - 1) : k \in S => k + 1 \in S BY <1>3, <2>1
    <2>4. 0..n \subseteq S BY <2>2, <2>3, IntervalInduction
    <2>5. n \in 0..n OBVIOUS
    <2>. QED BY <2>1, <2>4, <2>5, Zenon
  <1>21. PICK m : m = f[n].memory OBVIOUS
  <1>22. f[n].write \in Nat BY <1>4, Zenon DEF RowsDone
  <1>23. PICK write \in Nat : write = f[n].write BY <1>22
  <1>5. m = f[n].memory /\ write = f[n].write BY <1>21, <1>23
  <1>6. /\ SlotsUpto(m, t, start, n) /\ TextsUpto(m, t, start, n) /\ Within(m, limit)
        /\ write = start + TextPlaces(t)[n]
    BY <1>4, <1>5, Zenon DEF RowsDone, IsPlace
  <1>7. PICK new : new = Put(m, SlotBytes * n, Words(<<write>>)) OBVIOUS
  <1>8. RowByRow(start, fsst).memory = new /\ RowByRow(start, fsst).write = write
    <2>1. f[n] = [memory |-> m, write |-> write] BY <1>4, <1>5, Zenon DEF RowsDone
    <2>2. RowByRow(start, fsst) = [f[n] EXCEPT !.memory = new] BY <1>1, <1>5, <1>7, Zenon
    <2>3. [[memory |-> m, write |-> write] EXCEPT !.memory = new].memory = new OBVIOUS
    <2>4. [[memory |-> m, write |-> write] EXCEPT !.memory = new].write = write OBVIOUS
    <2>. QED BY <2>1, <2>2, <2>3, <2>4, Zenon
  <1>9. PICK lo \in Nat, hi \in Nat : lo = SlotBytes * n /\ hi = SlotBytes * (n + 1) /\ hi <= start BY SlotsAre
  <1>10. SlotsUpto(new, t, start, n + 1) /\ Beside(m, new, lo, hi) /\ Grown(m, new, lo, hi)
    <2>1. n \in 0..Len(t) OBVIOUS
    <2>. QED BY <1>6, <1>7, <1>9, <2>1, OneSlot
  <1>11. TextsUpto(new, t, start, n)
    <2>1. lo \in Int /\ hi \in Int /\ n \in 0..Len(t) OBVIOUS
    <2>. QED BY <1>6, <1>9, <1>10, <2>1, TextsKept
  <1>12. Within(new, limit)
    <2>1. hi <= limit
      <3>1. PICK c \in Nat : c = TextPlaces(t)[n] BY PlacesAre
      <3>2. start + c + 8 <= limit BY <3>1, Zenon
      <3>. QED BY <1>9, <3>2
    <2>. QED BY <1>6, <1>10, <2>1, StaysWithin
  <1>. QED BY <1>6, <1>8, <1>10, <1>11, <1>12, Zenon DEF Stored

---------------------------------------------------------------------------
(* Rows by their runs *)

RunStarts(k, t) == CHOOSE p : StandFor(k.runs, k.codes, Len(t), p)

LEMMA RunsAre ==
    ASSUME NEW t, AreTexts(t), NEW k, IsDict(k, t)
    PROVE  /\ Len(k.runs) \in Nat /\ RunStarts(k, t) \in [0..Len(k.runs) -> Nat]
           /\ RunStarts(k, t)[0] = 0 /\ RunStarts(k, t)[Len(k.runs)] = Len(t)
           /\ StandFor(k.runs, k.codes, Len(t), RunStarts(k, t))
  <1>1. \E p : StandFor(k.runs, k.codes, Len(t), p) BY Zenon DEF IsDict
  <1>2. StandFor(k.runs, k.codes, Len(t), RunStarts(k, t)) BY <1>1, Zenon DEF RunStarts
  <1>3. Len(k.runs) \in Nat BY CountsAre DEF IsDict
  <1>. QED BY <1>2, <1>3, Zenon DEF StandFor, RunningSum

\* A run, the rows it stands for and their string.
IsRun(k, t, j, a, n, s) ==
    /\ a \in Nat /\ n \in Nat \ {0} /\ s \in Seq(Nat) /\ a + n <= Len(t)
    /\ RunStarts(k, t)[j - 1] = a /\ RunStarts(k, t)[j] = a + n
    /\ k.runs[j].count = n /\ k.runs[j].code \in 0..(Len(k.strings) - 1)
    /\ k.strings[k.runs[j].code + 1] = s
    /\ SameText(t, a, n, s)

LEMMA RunIs ==
    ASSUME NEW t, AreTexts(t), NEW k, IsDict(k, t), NEW j \in 1..Len(k.runs)
    PROVE  \E a, n, s : IsRun(k, t, j, a, n, s)
  <1>1. PICK p : p = RunStarts(k, t) OBVIOUS
  <1>2. PICK r \in RunLists : r = k.runs BY DEF IsDict
  <1>3. PICK c \in Nat : c = Len(r) BY <1>2, CountsAre
  <1>4. StandFor(r, k.codes, Len(t), p) /\ p \in [0..c -> Nat] /\ p[c] = Len(t) BY <1>1, <1>2, <1>3, RunsAre, Zenon
  <1>5. j \in 1..c /\ j - 1 \in 0..c /\ j \in 0..c /\ c \in 0..c /\ c \in j..c BY <1>2, <1>3
  <1>6. Counts(r) \in [1..c -> Nat] /\ r[j].code \in Nat /\ r[j].count \in Nat \ {0} /\ Counts(r)[j] = r[j].count
    BY <1>3, <1>5, CountsAre
  <1>7. PICK n \in Nat \ {0} : n = r[j].count BY <1>6
  <1>8. PICK code \in Nat : code = r[j].code BY <1>6
  <1>9. PICK a \in Nat : a = p[j - 1] BY <1>4, <1>5
  <1>10. RunningSum(Counts(r), c, p) BY <1>3, <1>4, Zenon DEF StandFor
  <1>11. p[j] = a + n BY <1>5, <1>6, <1>7, <1>9, <1>10 DEF RunningSum
  <1>12. p[j] <= p[c] BY <1>5, <1>6, <1>10, SumRises
  <1>13. a + n <= Len(t) BY <1>4, <1>11, <1>12
  <1>14. \A i \in 1..n : k.codes[a + i] = code
    <2>1. \A i \in 1..(r[j].count) : k.codes[p[j - 1] + i] = r[j].code BY <1>3, <1>4, <1>5, Zenon DEF StandFor
    <2>. QED BY <1>7, <1>8, <1>9, <2>1, Zenon
  <1>15. \A i \in 1..n : a + i \in 1..Len(t) BY <1>13, PlacesAre
  <1>16. \A x \in 1..Len(t) : k.codes[x] \in 0..(Len(k.strings) - 1) /\ k.strings[k.codes[x] + 1] = t[x]
    BY Zenon DEF IsDict, Names
  <1>17. code \in 0..(Len(k.strings) - 1)
    <2>1. 1 \in 1..n OBVIOUS
    <2>. QED BY <1>14, <1>15, <1>16, <2>1, Zenon
  <1>18. PICK s : s = k.strings[code + 1] OBVIOUS
  <1>19. s \in Seq(Nat)
    <2>1. AreTexts(k.strings) BY Zenon DEF IsDict, Names
    <2>2. Len(k.strings) \in Nat BY <2>1, PlacesAre
    <2>3. code + 1 \in 1..Len(k.strings) BY <1>17, <2>2
    <2>. QED BY <1>18, <2>1, <2>3, PlacesAre
  <1>20. \A i \in 1..n : t[a + i] = s BY <1>14, <1>15, <1>16, <1>18, Zenon
  <1>21. SameText(t, a, n, s) BY <1>13, <1>20, Zenon DEF SameText
  <1>22. /\ RunStarts(k, t)[j - 1] = a /\ RunStarts(k, t)[j] = a + n
         /\ k.runs[j].count = n /\ k.runs[j].code = code
    BY <1>1, <1>2, <1>7, <1>8, <1>9, <1>11, Zenon
  <1>23. IsRun(k, t, j, a, n, s)
    <2>1. k.runs[j].code \in 0..(Len(k.strings) - 1) /\ k.strings[k.runs[j].code + 1] = s
      BY <1>17, <1>18, <1>22, Zenon
    <2>2. /\ a \in Nat /\ n \in Nat \ {0} /\ s \in Seq(Nat) /\ a + n <= Len(t) BY <1>13, <1>19
    <2>. QED BY <1>21, <1>22, <2>1, <2>2, Zenon DEF IsRun
  <1>. QED BY <1>23, Zenon

\* Strings are copied behind the slots and the room for offsets stored past the last.
Start0(t) == SlotsSize(Len(t)) + SimdExtra

LEMMA Start0Is ==
    ASSUME NEW t, AreTexts(t)
    PROVE  /\ Start0(t) \in Nat /\ SlotsSize(Len(t)) \in Nat /\ SlotsSize(Len(t)) <= Start0(t)
           /\ \A j \in 0..(Len(t) + 1) : SlotBytes * j \in Nat /\ SlotBytes * j <= SlotsSize(Len(t))
  <1>1. PICK n \in Nat : n = Len(t) BY PlacesAre
  <1>2. PICK sb \in Nat : sb = SlotBytes BY SlotIs
  <1>3. SlotsSize(n) \in Nat /\ SimdExtra \in Nat BY SlotsAre, SlotIs
  <1>4. ASSUME NEW j \in 0..(n + 1) PROVE SlotBytes * j \in Nat /\ SlotBytes * j <= SlotsSize(n)
    <2>1. PICK d \in Nat : d = n + 1 - j OBVIOUS
    <2>2. n + 1 = j + d /\ j \in Nat BY <2>1
    <2>3. sb * (j + d) = sb * j + sb * d /\ sb * j \in Nat /\ sb * d \in Nat BY <2>2, Z3
    <2>4. PICK x \in Nat, y \in Nat : x = sb * j /\ y = sb * d BY <2>3
    <2>5. SlotsSize(n) = sb * (j + d) BY <1>2, <2>2 DEF SlotsSize
    <2>. QED BY <1>2, <2>3, <2>4, <2>5
  <1>5. \A j \in 0..(n + 1) : SlotBytes * j \in Nat /\ SlotBytes * j <= SlotsSize(n) BY <1>4
  <1>. QED BY <1>1, <1>3, <1>5 DEF Start0

\* The offsets of a run stay before the strings.
LEMMA SlotsOfRun ==
    ASSUME NEW t, AreTexts(t), NEW k, NEW j, NEW a, NEW n, NEW s, IsRun(k, t, j, a, n, s),
           NEW m, SlotsUpto(m, t, Start0(t), a),
           NEW at \in Nat, IsPlace(at, t, Start0(t), a),
           NEW new, OffsetsWritten(new, m, a, at, s, n)
    PROVE  /\ SlotsUpto(new, t, Start0(t), a + n)
           /\ Beside(m, new, 0, Start0(t)) /\ Grown(m, new, 0, Start0(t))
  <1>1. a \in Nat /\ n \in Nat /\ s \in Seq(Nat) /\ a + n <= Len(t) /\ SameText(t, a, n, s) BY Zenon DEF IsRun
  <1>2. PICK start \in Nat : start = Start0(t) BY Start0Is
  <1>3. at = start + TextPlaces(t)[a] /\ new = WriteOffsets(m, SlotBytes * a, at, Len(s), n)
    BY <1>2, Zenon DEF IsPlace, OffsetsWritten
  <1>4. /\ SlotsUpto(new, t, start, a + n)
        /\ Beside(m, new, SlotBytes * a, SlotBytes * (a + n + OffsetBatch))
        /\ Grown(m, new, SlotBytes * a, SlotBytes * (a + n + OffsetBatch))
    BY <1>1, <1>2, <1>3, OffsetsOfRun
  <1>5. PICK lo \in Nat, hi \in Nat : lo = SlotBytes * a /\ hi = SlotBytes * (a + n + OffsetBatch) /\ hi <= start
    <2>1. a + n \in Nat /\ Len(t) \in Nat BY <1>1, PlacesAre
    <2>2. SlotBytes * (a + n + OffsetBatch) \in Nat /\ SlotBytes * (a + n + OffsetBatch) <= SlotsSize(Len(t)) + SimdExtra
      BY <1>1, <2>1, BatchFits
    <2>3. SlotBytes * a \in Nat BY <1>1, SlotIs
    <2>. QED BY <1>2, <2>2, <2>3 DEF Start0
  <1>6. Beside(m, new, lo, hi) /\ Grown(m, new, lo, hi) BY <1>4, <1>5, Zenon
  <1>7. Beside(m, new, 0, start) /\ Grown(m, new, 0, start)
    <2>1. lo \in Int /\ hi \in Int /\ 0 \in Int /\ start \in Int /\ 0 <= lo OBVIOUS
    <2>. QED BY <1>5, <1>6, <2>1, Wider
  <1>. QED BY <1>2, <1>4, <1>7, Zenon

LEMMA CopiesKept ==
    ASSUME NEW m, NEW at \in Int, NEW s \in Seq(Nat), NEW n \in Nat, Copies(m, at, s, n),
           NEW new, NEW from \in Int, NEW to \in Int, Beside(m, new, from, to),
           at + n * Len(s) <= from \/ to <= at
    PROVE  Copies(new, at, s, n)
  <1>1. PICK len \in Nat : len = Len(s) OBVIOUS
  <1>2. ASSUME NEW c \in 0..(n - 1) PROVE HasText(new, at + c * len, s)
    <2>1. PICK d \in Nat : n = c + 1 + d /\ c \in Nat
      <3>1. n - c - 1 \in Nat /\ n = c + 1 + (n - c - 1) /\ c \in Nat OBVIOUS
      <3>. QED BY <3>1
    <2>2. (c + 1 + d) * len = c * len + len + d * len /\ c * len \in Nat /\ d * len \in Nat BY <2>1, Z3
    <2>3. PICK x \in Nat, y \in Nat : x = c * len /\ y = d * len BY <2>2
    <2>4. n * len = x + len + y BY <2>1, <2>2, <2>3
    <2>5. at + x + len <= from \/ to <= at + x BY <1>1, <2>4
    <2>6. at + x \in Int OBVIOUS
    <2>7. HasText(m, at + x, s) BY <1>1, <2>3 DEF Copies
    <2>8. PICK z \in Int : z = at + x BY <2>6
    <2>9. z + Len(s) <= from \/ to <= z BY <1>1, <2>5, <2>8
    <2>10. HasText(m, z, s) BY <2>7, <2>8
    <2>11. HasText(new, z, s) BY <2>9, <2>10, TextKept
    <2>. QED BY <2>3, <2>8, <2>11
  <1>. QED BY <1>1, <1>2 DEF Copies

---------------------------------------------------------------------------
(* What is remembered of the strings *)

Found(m, at, n, s, lo, write) ==
    at \in Nat /\ n \in Nat \ {0} /\ lo <= at /\ at + n * Len(s) <= write /\ Copies(m, at, s, n)

CacheHolds(m, ca, d, lo, write) ==
    \A c \in 0..(Len(d) - 1) :
        /\ c \in DOMAIN ca.text
        /\ \/ ca.text[c] = Lost
           \/ /\ Found(m, ca.text[c], ca.runs[c], d[c + 1], lo, write)
              /\ c \in DOMAIN ca.runs /\ c \in DOMAIN ca.length /\ ca.length[c] = Len(d[c + 1])

FourFields(text, runs, length, views) == [text |-> text, runs |-> runs, length |-> length, views |-> views]

IsCache(ca) == ca = FourFields(ca.text, ca.runs, ca.length, ca.views)

WithTextAndRuns(ca, text, runs) == [ca EXCEPT !.text = text, !.runs = runs]

WithLength(ca, length) == [ca EXCEPT !.length = length]

LEMMA FoundKept ==
    ASSUME NEW m, NEW at, NEW n, NEW s \in Seq(Nat), NEW lo \in Int, NEW write \in Int,
           Found(m, at, n, s, lo, write), NEW new, NEW from \in Int, NEW to \in Int, Beside(m, new, from, to),
           to <= lo \/ write <= from, NEW write2 \in Int, write <= write2
    PROVE  Found(new, at, n, s, lo, write2)
  <1>1. at \in Nat /\ n \in Nat \ {0} /\ lo <= at /\ at + n * Len(s) <= write /\ Copies(m, at, s, n)
    BY Zenon DEF Found
  <1>2. PICK x \in Nat : x = n * Len(s) BY <1>1
  <1>3. at + x <= write BY <1>1, <1>2, Zenon
  <1>4. at + x <= from \/ to <= at BY <1>1, <1>3
  <1>5. at + n * Len(s) <= from \/ to <= at BY <1>2, <1>4, Zenon
  <1>6. Copies(new, at, s, n)
    <2>1. at \in Int /\ n \in Nat BY <1>1
    <2>. QED BY <1>1, <1>5, <2>1, CopiesKept
  <1>7. at + x <= write2 BY <1>1, <1>3
  <1>. QED BY <1>1, <1>2, <1>6, <1>7, Zenon DEF Found

LEMMA CacheKept ==
    ASSUME NEW d, AreTexts(d), NEW m, NEW ca, NEW lo \in Int, NEW write \in Int,
           CacheHolds(m, ca, d, lo, write), NEW new, NEW from \in Int, NEW to \in Int, Beside(m, new, from, to),
           to <= lo \/ write <= from, NEW write2 \in Int, write <= write2
    PROVE  CacheHolds(new, ca, d, lo, write2)
  <1>1. SUFFICES ASSUME NEW c \in 0..(Len(d) - 1), ca.text[c] # Lost
                 PROVE  Found(new, ca.text[c], ca.runs[c], d[c + 1], lo, write2)
    BY Zenon DEF CacheHolds
  <1>2. PICK s \in Seq(Nat) : s = d[c + 1]
    <2>1. Len(d) \in Nat BY PlacesAre
    <2>2. c + 1 \in 1..Len(d) BY <2>1
    <2>. QED BY <2>2, PlacesAre
  <1>3. Found(m, ca.text[c], ca.runs[c], s, lo, write) BY <1>1, <1>2, Zenon DEF CacheHolds
  <1>4. Found(new, ca.text[c], ca.runs[c], s, lo, write2) BY <1>3, FoundKept
  <1>. QED BY <1>2, <1>4, Zenon

\* The longest run so far is remembered.
RememberedAt(ca, code, n, at) ==
    IF ca.text[code] = Lost \/ n > ca.runs[code]
    THEN WithTextAndRuns(ca, [ca.text EXCEPT ![code] = at], Over([c \in {code} |-> n], ca.runs))
    ELSE ca

LEMMA OverOne ==
    ASSUME NEW x, NEW v, NEW f
    PROVE  /\ Over([c \in {x} |-> v], f)[x] = v
           /\ \A y \in DOMAIN f : y # x => Over([c \in {x} |-> v], f)[y] = f[y]
           /\ DOMAIN f \subseteq DOMAIN Over([c \in {x} |-> v], f)
  BY DEF Over

HasFields(x, te, ru, le, vi) == x.text = te /\ x.runs = ru /\ x.length = le /\ x.views = vi /\ IsCache(x)

LEMMA FieldsAre ==
    ASSUME NEW te, NEW ru, NEW le, NEW vi
    PROVE  HasFields(FourFields(te, ru, le, vi), te, ru, le, vi)
  <1>1. /\ FourFields(te, ru, le, vi).text = te /\ FourFields(te, ru, le, vi).runs = ru
        /\ FourFields(te, ru, le, vi).length = le /\ FourFields(te, ru, le, vi).views = vi
    BY DEF FourFields
  <1>. QED BY <1>1, Zenon DEF IsCache, HasFields

LEMMA TwoFields ==
    ASSUME NEW te, NEW ru, NEW le, NEW vi, NEW text, NEW runs
    PROVE  WithTextAndRuns(FourFields(te, ru, le, vi), text, runs) = FourFields(text, runs, le, vi)
  <1>1. PICK old : old = [text |-> te, runs |-> ru, length |-> le, views |-> vi] OBVIOUS
  <1>2. PICK new : new = [old EXCEPT !.text = text, !.runs = runs] OBVIOUS
  <1>3. new.text = text /\ new.runs = runs /\ new.length = le /\ new.views = vi BY <1>1, <1>2
  <1>4. new = [text |-> new.text, runs |-> new.runs, length |-> new.length, views |-> new.views] BY <1>1, <1>2
  <1>. QED BY <1>1, <1>2, <1>3, <1>4, Zenon DEF WithTextAndRuns, FourFields

LEMMA LengthField ==
    ASSUME NEW te, NEW ru, NEW le, NEW vi, NEW length
    PROVE  WithLength(FourFields(te, ru, le, vi), length) = FourFields(te, ru, length, vi)
  <1>1. [[text |-> te, runs |-> ru, length |-> le, views |-> vi] EXCEPT !.length = length]
          = [text |-> te, runs |-> ru, length |-> length, views |-> vi]
    OBVIOUS
  <1>. QED BY <1>1, Zenon DEF WithLength, FourFields

KnowsLength(ca, code, d) == code \in DOMAIN ca.length /\ ca.length[code] = Len(d[code + 1])

Remembers(m, new, ca, d, lo, write) ==
    CacheHolds(m, new, d, lo, write) /\ IsCache(new) /\ new.length = ca.length

LEMMA RememberRun ==
    ASSUME NEW d, NEW m, NEW ca, IsCache(ca), NEW lo, NEW write, CacheHolds(m, ca, d, lo, write),
           NEW code \in 0..(Len(d) - 1), KnowsLength(ca, code, d),
           NEW at, NEW n, Found(m, at, n, d[code + 1], lo, write)
    PROVE  Remembers(m, RememberedAt(ca, code, n, at), ca, d, lo, write)
  <1>0. code \in DOMAIN ca.length /\ ca.length[code] = Len(d[code + 1]) BY Zenon DEF KnowsLength
  <1>1. CASE ca.text[code] = Lost \/ n > ca.runs[code]
    <2>1. PICK text : text = [ca.text EXCEPT ![code] = at] OBVIOUS
    <2>2. PICK runs : runs = Over([c \in {code} |-> n], ca.runs) OBVIOUS
    <2>3. PICK new : new = FourFields(text, runs, ca.length, ca.views) OBVIOUS
    <2>4. RememberedAt(ca, code, n, at) = new
      <3>1. RememberedAt(ca, code, n, at) = WithTextAndRuns(ca, text, runs)
        BY <1>1, <2>1, <2>2, Zenon DEF RememberedAt
      <3>4. PICK te : te = ca.text OBVIOUS
      <3>5. PICK ru : ru = ca.runs OBVIOUS
      <3>6. PICK le : le = ca.length OBVIOUS
      <3>7. PICK vi : vi = ca.views OBVIOUS
      <3>2. ca = FourFields(te, ru, le, vi) /\ le = ca.length /\ vi = ca.views
        BY <3>4, <3>5, <3>6, <3>7, Zenon DEF IsCache
      <3>3. WithTextAndRuns(FourFields(te, ru, le, vi), text, runs)
              = FourFields(text, runs, le, vi)
        BY TwoFields
      <3>. QED BY <2>3, <3>1, <3>2, <3>3, Zenon
    <2>5. new.text = text /\ new.runs = runs /\ new.length = ca.length /\ new.views = ca.views
      <3>1. HasFields(new, text, runs, ca.length, ca.views) BY <2>3, FieldsAre
      <3>. QED BY <3>1, Zenon DEF HasFields
    <2>6. IsCache(new) BY <2>3, <2>5, Zenon DEF IsCache
    <2>7. code \in DOMAIN ca.text BY Zenon DEF CacheHolds
    <2>8. DOMAIN text = DOMAIN ca.text /\ text[code] = at /\ \A y \in DOMAIN ca.text : y # code => text[y] = ca.text[y]
      BY <2>1, <2>7, Zenon
    <2>9. /\ runs[code] = n /\ code \in DOMAIN runs
          /\ \A y \in DOMAIN ca.runs : y # code => y \in DOMAIN runs /\ runs[y] = ca.runs[y]
      BY <2>2 DEF Over
    <2>10. ASSUME NEW c \in 0..(Len(d) - 1)
           PROVE  /\ c \in DOMAIN text
                  /\ \/ text[c] = Lost
                     \/ /\ Found(m, text[c], runs[c], d[c + 1], lo, write)
                        /\ c \in DOMAIN runs /\ c \in DOMAIN ca.length /\ ca.length[c] = Len(d[c + 1])
      <3>1. CASE c = code BY <1>0, <2>7, <2>8, <2>9, <3>1, Zenon
      <3>2. CASE c # code
        <4>1. /\ c \in DOMAIN ca.text
              /\ \/ ca.text[c] = Lost
                 \/ /\ Found(m, ca.text[c], ca.runs[c], d[c + 1], lo, write)
                    /\ c \in DOMAIN ca.runs /\ c \in DOMAIN ca.length /\ ca.length[c] = Len(d[c + 1])
          BY Zenon DEF CacheHolds
        <4>2. text[c] = ca.text[c] BY <2>8, <3>2, <4>1, Zenon
        <4>. QED BY <2>8, <2>9, <3>2, <4>1, <4>2, Zenon
      <3>. QED BY <3>1, <3>2, Zenon
    <2>11. CacheHolds(m, new, d, lo, write) BY <2>5, <2>10, Zenon DEF CacheHolds
    <2>. QED BY <2>4, <2>5, <2>6, <2>11, Zenon DEF Remembers
  <1>2. CASE ~(ca.text[code] = Lost \/ n > ca.runs[code]) BY <1>2, Zenon DEF RememberedAt, Remembers
  <1>. QED BY <1>1, <1>2, Zenon

\* A length becomes known.
LengthLearnt(ca, code, len) == WithLength(ca, Over([c \in {code} |-> len], ca.length))

Learns(m, new, ca, d, code, lo, write) ==
    /\ CacheHolds(m, new, d, lo, write) /\ IsCache(new)
    /\ code \in DOMAIN new.length /\ new.length[code] = Len(d[code + 1])
    /\ new.text = ca.text /\ new.runs = ca.runs
    /\ \A n, at : LengthLearnt(RememberedAt(ca, code, n, at), code, Len(d[code + 1]))
                    = RememberedAt(new, code, n, at)

LEMMA LearnLength ==
    ASSUME NEW d, NEW m, NEW ca, IsCache(ca), NEW lo, NEW write, CacheHolds(m, ca, d, lo, write),
           NEW code \in 0..(Len(d) - 1)
    PROVE  Learns(m, LengthLearnt(ca, code, Len(d[code + 1])), ca, d, code, lo, write)
  <1>1. PICK len : len = Len(d[code + 1]) OBVIOUS
  <1>2. PICK length : length = Over([c \in {code} |-> len], ca.length) OBVIOUS
  <1>20. PICK te : te = ca.text OBVIOUS
  <1>21. PICK ru : ru = ca.runs OBVIOUS
  <1>22. PICK le : le = ca.length OBVIOUS
  <1>23. PICK vi : vi = ca.views OBVIOUS
  <1>3. ca = FourFields(te, ru, le, vi) /\ te = ca.text /\ ru = ca.runs /\ le = ca.length /\ vi = ca.views
    BY <1>20, <1>21, <1>22, <1>23, Zenon DEF IsCache
  <1>4. PICK new : new = FourFields(te, ru, length, vi) OBVIOUS
  <1>5. LengthLearnt(ca, code, len) = new
    <2>1. LengthLearnt(ca, code, len) = WithLength(ca, length) BY <1>2, Zenon DEF LengthLearnt
    <2>2. WithLength(FourFields(te, ru, le, vi), length)
            = FourFields(te, ru, length, vi)
      BY LengthField
    <2>. QED BY <1>3, <1>4, <2>1, <2>2, Zenon
  <1>6. new.text = te /\ new.runs = ru /\ new.length = length /\ new.views = vi
    <2>1. HasFields(new, te, ru, length, vi) BY <1>4, FieldsAre
    <2>. QED BY <2>1, Zenon DEF HasFields
  <1>7. IsCache(new) BY <1>4, <1>6, Zenon DEF IsCache
  <1>8. /\ length[code] = len /\ code \in DOMAIN length
        /\ \A y \in DOMAIN le : y # code => y \in DOMAIN length /\ length[y] = le[y]
    <2>1. length = Over([c \in {code} |-> len], le) BY <1>2, <1>3, Zenon
    <2>. QED BY <2>1 DEF Over
  <1>9. ASSUME NEW c \in 0..(Len(d) - 1)
        PROVE  /\ c \in DOMAIN te
               /\ \/ te[c] = Lost
                  \/ /\ Found(m, te[c], ru[c], d[c + 1], lo, write)
                     /\ c \in DOMAIN ru /\ c \in DOMAIN length /\ length[c] = Len(d[c + 1])
    <2>1. /\ c \in DOMAIN te
          /\ \/ te[c] = Lost
             \/ /\ Found(m, te[c], ru[c], d[c + 1], lo, write)
                /\ c \in DOMAIN ru /\ c \in DOMAIN le /\ le[c] = Len(d[c + 1])
      <3>1. /\ c \in DOMAIN ca.text
            /\ \/ ca.text[c] = Lost
               \/ /\ Found(m, ca.text[c], ca.runs[c], d[c + 1], lo, write)
                  /\ c \in DOMAIN ca.runs /\ c \in DOMAIN ca.length /\ ca.length[c] = Len(d[c + 1])
        BY Zenon DEF CacheHolds
      <3>2. ca.text = te /\ ca.runs = ru /\ ca.length = le BY <1>3, Zenon
      <3>. QED BY <3>1, <3>2, Zenon
    <2>2. CASE c = code BY <1>1, <1>8, <2>1, <2>2, Zenon
    <2>3. CASE c # code BY <1>8, <2>1, <2>3, Zenon
    <2>. QED BY <2>2, <2>3, Zenon
  <1>10. CacheHolds(m, new, d, lo, write) BY <1>6, <1>9, Zenon DEF CacheHolds
  <1>11. ASSUME NEW n, NEW at
         PROVE  LengthLearnt(RememberedAt(ca, code, n, at), code, len) = RememberedAt(new, code, n, at)
    <2>1. PICK text : text = [te EXCEPT ![code] = at] OBVIOUS
    <2>2. PICK runs : runs = Over([c \in {code} |-> n], ru) OBVIOUS
    <2>3. CASE te[code] = Lost \/ n > ru[code]
      <3>1. RememberedAt(ca, code, n, at) = WithTextAndRuns(ca, text, runs)
        BY <1>3, <2>1, <2>2, <2>3, Zenon DEF RememberedAt
      <3>2. WithTextAndRuns(FourFields(te, ru, le, vi), text, runs)
              = FourFields(text, runs, le, vi)
        BY TwoFields
      <3>3. RememberedAt(new, code, n, at) = WithTextAndRuns(new, text, runs)
        BY <1>6, <2>1, <2>2, <2>3, Zenon DEF RememberedAt
      <3>4. WithTextAndRuns(FourFields(te, ru, length, vi), text, runs)
              = FourFields(text, runs, length, vi)
        BY TwoFields
      <3>5. PICK mid : mid = FourFields(text, runs, le, vi) OBVIOUS
      <3>6. mid.length = le
        <4>1. HasFields(mid, text, runs, le, vi) BY <3>5, FieldsAre
        <4>. QED BY <4>1, Zenon DEF HasFields
      <3>7. LengthLearnt(mid, code, len) = WithLength(mid, length) BY <1>2, <1>3, <3>6, Zenon DEF LengthLearnt
      <3>8. WithLength(FourFields(text, runs, le, vi), length)
              = FourFields(text, runs, length, vi)
        BY LengthField
      <3>9. RememberedAt(ca, code, n, at) = mid BY <1>3, <3>1, <3>2, <3>5, Zenon
      <3>10. RememberedAt(new, code, n, at) = FourFields(text, runs, length, vi) BY <1>4, <3>3, <3>4, Zenon
      <3>11. LengthLearnt(mid, code, len) = FourFields(text, runs, length, vi) BY <3>5, <3>7, <3>8, Zenon
      <3>. QED BY <3>9, <3>10, <3>11, Zenon
    <2>4. CASE ~(te[code] = Lost \/ n > ru[code])
      <3>1. RememberedAt(ca, code, n, at) = ca BY <1>3, <2>4, Zenon DEF RememberedAt
      <3>2. RememberedAt(new, code, n, at) = new BY <1>6, <2>4, Zenon DEF RememberedAt
      <3>. QED BY <1>5, <3>1, <3>2, Zenon
    <2>. QED BY <2>3, <2>4, Zenon
  <1>12. LET one == LengthLearnt(ca, code, Len(d[code + 1])) IN
         /\ CacheHolds(m, one, d, lo, write) /\ IsCache(one)
         /\ code \in DOMAIN one.length /\ one.length[code] = Len(d[code + 1])
         /\ one.text = ca.text /\ one.runs = ca.runs
         /\ \A n, at : LengthLearnt(RememberedAt(ca, code, n, at), code, Len(d[code + 1]))
                         = RememberedAt(one, code, n, at)
    BY <1>1, <1>3, <1>5, <1>6, <1>7, <1>8, <1>10, <1>11, Zenon
  <1>. QED BY <1>12, Zenon DEF Learns

---------------------------------------------------------------------------
(* The loops over the runs *)

LoopIs(lp) == lp \in [run : Nat, at : Nat, start : Nat, write : Nat]

\* A loop that has moved on by a run.
Moved(next, lp, at, start, write) ==
    /\ LoopIs(next) /\ next.run = lp.run + 1
    /\ next.at = lp.at + at /\ next.start = lp.start + start /\ next.write = lp.write + write

LEMMA MovedInOffsets ==
    ASSUME NEW lp, LoopIs(lp), NEW x \in Nat, NEW y \in Nat
    PROVE  Moved([lp EXCEPT !.run = @ + 1, !.at = @ + x, !.start = @ + y], lp, x, y, 0)
  <1>1. PICK next : next = [lp EXCEPT !.run = @ + 1, !.at = @ + x, !.start = @ + y] OBVIOUS
  <1>2. lp \in [run : Nat, at : Nat, start : Nat, write : Nat] BY DEF LoopIs
  <1>3. PICK a \in Nat, b \in Nat, c \in Nat :
            a = lp.run + 1 /\ b = lp.at + x /\ c = lp.start + y
    BY <1>2
  <1>4. next = [lp EXCEPT !.run = a, !.at = b, !.start = c] BY <1>1, <1>3, Zenon
  <1>5. next.run = a /\ next.at = b /\ next.start = c /\ next.write = lp.write BY <1>2, <1>4
  <1>6. next \in [run : Nat, at : Nat, start : Nat, write : Nat] BY <1>2, <1>4
  <1>7. lp.write + 0 = lp.write BY <1>2
  <1>. QED BY <1>1, <1>3, <1>5, <1>6, <1>7, Zenon DEF Moved, LoopIs

LEMMA MovedInStrings ==
    ASSUME NEW lp, LoopIs(lp), NEW z \in Nat
    PROVE  Moved([lp EXCEPT !.run = @ + 1, !.write = @ + z], lp, 0, 0, z)
  <1>1. PICK next : next = [lp EXCEPT !.run = @ + 1, !.write = @ + z] OBVIOUS
  <1>2. lp \in [run : Nat, at : Nat, start : Nat, write : Nat] BY DEF LoopIs
  <1>3. PICK a \in Nat, b \in Nat :
            a = lp.run + 1 /\ b = lp.write + z
    BY <1>2
  <1>4. next = [lp EXCEPT !.run = a, !.write = b] BY <1>1, <1>3, Zenon
  <1>5. next.run = a /\ next.at = lp.at /\ next.start = lp.start /\ next.write = b BY <1>2, <1>4
  <1>6. next \in [run : Nat, at : Nat, start : Nat, write : Nat] BY <1>2, <1>4
  <1>7. lp.at + 0 = lp.at /\ lp.start + 0 = lp.start BY <1>2
  <1>. QED BY <1>1, <1>3, <1>5, <1>6, <1>7, Zenon DEF Moved, LoopIs

LEMMA MovedInFsst ==
    ASSUME NEW lp, LoopIs(lp), NEW x \in Nat, NEW y \in Nat
    PROVE  Moved([lp EXCEPT !.run = @ + 1, !.at = @ + x, !.start = @ + y, !.write = @ + y], lp, x, y, y)
  <1>1. PICK next : next = [lp EXCEPT !.run = @ + 1, !.at = @ + x, !.start = @ + y, !.write = @ + y] OBVIOUS
  <1>2. lp \in [run : Nat, at : Nat, start : Nat, write : Nat] BY DEF LoopIs
  <1>3. PICK a \in Nat, b \in Nat, c \in Nat, d \in Nat :
            a = lp.run + 1 /\ b = lp.at + x /\ c = lp.start + y /\ d = lp.write + y
    BY <1>2
  <1>4. next = [lp EXCEPT !.run = a, !.at = b, !.start = c, !.write = d] BY <1>1, <1>3, Zenon
  <1>5. next.run = a /\ next.at = b /\ next.start = c /\ next.write = d BY <1>2, <1>4
  <1>6. next \in [run : Nat, at : Nat, start : Nat, write : Nat] BY <1>2, <1>4
  <1>. QED BY <1>1, <1>3, <1>5, <1>6, Zenon DEF Moved, LoopIs

LEMMA MovedInViews ==
    ASSUME NEW lp, LoopIs(lp), NEW x \in Nat
    PROVE  Moved([lp EXCEPT !.run = @ + 1, !.at = @ + x], lp, x, 0, 0)
  <1>1. PICK next : next = [lp EXCEPT !.run = @ + 1, !.at = @ + x] OBVIOUS
  <1>2. lp \in [run : Nat, at : Nat, start : Nat, write : Nat] BY DEF LoopIs
  <1>3. PICK a \in Nat, b \in Nat :
            a = lp.run + 1 /\ b = lp.at + x
    BY <1>2
  <1>4. next = [lp EXCEPT !.run = a, !.at = b] BY <1>1, <1>3, Zenon
  <1>5. next.run = a /\ next.at = b /\ next.start = lp.start /\ next.write = lp.write BY <1>2, <1>4
  <1>6. next \in [run : Nat, at : Nat, start : Nat, write : Nat] BY <1>2, <1>4
  <1>7. lp.start + 0 = lp.start /\ lp.write + 0 = lp.write BY <1>2
  <1>. QED BY <1>1, <1>3, <1>5, <1>6, <1>7, Zenon DEF Moved, LoopIs

\* Where a run starts and ends.
LEMMA RunStartsIn ==
    ASSUME NEW t, AreTexts(t), NEW k, IsDict(k, t), NEW j \in 0..Len(k.runs)
    PROVE  RunStarts(k, t)[j] \in 0..Len(t)
  <1>1. PICK c \in Nat : c = Len(k.runs) BY RunsAre
  <1>2. PICK p : p = RunStarts(k, t) OBVIOUS
  <1>3. p \in [0..c -> Nat] /\ p[0] = 0 /\ p[c] = Len(t) BY <1>1, <1>2, RunsAre, Zenon
  <1>4. CASE j = c BY <1>2, <1>3, <1>4, PlacesAre
  <1>5. CASE j # c
    <2>1. j + 1 \in 1..c /\ (j + 1) - 1 = j BY <1>1, <1>5
    <2>2. PICK a, n, s : IsRun(k, t, j + 1, a, n, s) BY <1>1, <2>1, RunIs
    <2>3. a \in Nat /\ n \in Nat /\ a + n <= Len(t) /\ p[(j + 1) - 1] = a BY <1>2, <2>2, Zenon DEF IsRun
    <2>. QED BY <1>2, <2>1, <2>3, PlacesAre
  <1>. QED BY <1>4, <1>5

LEMMA RunPlaces ==
    ASSUME NEW t, AreTexts(t), NEW k, NEW j, NEW a, NEW n, NEW s, IsRun(k, t, j, a, n, s),
           NEW start \in Nat, NEW at, IsPlace(at, t, start, a)
    PROVE  /\ n * Len(s) \in Nat /\ at \in Nat /\ start <= at
           /\ IsPlace(at + n * Len(s), t, start, a + n)
           /\ at + n * Len(s) <= start + TextPlaces(t)[Len(t)]
  <1>1. a \in Nat /\ n \in Nat /\ s \in Seq(Nat) /\ a + n <= Len(t) /\ SameText(t, a, n, s) BY Zenon DEF IsRun
  <1>2. /\ a + n \in 0..Len(t) /\ a \in 0..Len(t) /\ Len(t) \in (a + n)..Len(t) /\ n \in 0..n /\ Len(t) \in 0..Len(t)
    BY <1>1, PlacesAre
  <1>3. TextPlaces(t)[a + n] = TextPlaces(t)[a] + n * Len(s) BY <1>1, <1>2, PlacesOfRun
  <1>4. TextPlaces(t)[a + n] <= TextPlaces(t)[Len(t)] BY <1>2, PlacesRise
  <1>5. TextPlaces(t)[a] \in Nat /\ TextPlaces(t)[a + n] \in Nat /\ TextPlaces(t)[Len(t)] \in Nat BY <1>2, PlacesAre
  <1>6. Len(s) \in Nat BY <1>1
  <1>7. n * Len(s) \in Nat BY <1>1, <1>6, SMT
  <1>8. PICK p \in Nat, q \in Nat, e \in Nat, x \in Nat :
            p = TextPlaces(t)[a] /\ q = TextPlaces(t)[a + n] /\ e = TextPlaces(t)[Len(t)] /\ x = n * Len(s)
    BY <1>5, <1>7
  <1>9. q = p + x /\ q <= e BY <1>3, <1>4, <1>8, Zenon
  <1>10. at = start + p BY <1>8, Zenon DEF IsPlace
  <1>11. at \in Nat /\ start <= at /\ at + x \in Nat /\ at + x = start + q /\ at + x <= start + e BY <1>9, <1>10
  <1>. QED BY <1>7, <1>8, <1>11, Zenon DEF IsPlace

\* Copies of the string of a run, behind what was written before.
LEMMA CopiesOfRun ==
    ASSUME NEW t, AreTexts(t), NEW k, NEW j, NEW a, NEW n, NEW s, IsRun(k, t, j, a, n, s),
           NEW b \in 0..(Len(t) + 1), NEW m, SlotsUpto(m, t, Start0(t), b), TextsUpto(m, t, Start0(t), a),
           NEW at, IsPlace(at, t, Start0(t), a), NEW new, NEW to \in Int, Beside(m, new, at, to),
           Copies(new, at, s, n)
    PROVE  SlotsUpto(new, t, Start0(t), b) /\ TextsUpto(new, t, Start0(t), a + n)
  <1>1. a \in Nat /\ n \in Nat /\ s \in Seq(Nat) /\ a + n <= Len(t) /\ SameText(t, a, n, s) BY Zenon DEF IsRun
  <1>2. PICK start \in Nat : start = Start0(t) BY Start0Is
  <1>3. a \in 0..Len(t) /\ TextPlaces(t)[a] \in Nat
    <2>1. a \in 0..Len(t) BY <1>1, PlacesAre
    <2>. QED BY <2>1, PlacesAre
  <1>4. at \in Int /\ at = start + TextPlaces(t)[a] /\ start <= at
    <2>1. at = start + TextPlaces(t)[a] /\ at \in Nat BY <1>2, Zenon DEF IsPlace
    <2>2. PICK p \in Nat : p = TextPlaces(t)[a] BY <1>3
    <2>3. at = start + p BY <2>1, <2>2, Zenon
    <2>. QED BY <2>1, <2>3
  <1>5. SlotsUpto(new, t, start, b)
    <2>1. SlotBytes * b \in Nat /\ SlotBytes * b <= SlotsSize(Len(t)) /\ SlotsSize(Len(t)) <= start
          /\ SlotsSize(Len(t)) \in Nat
      BY <1>2, Start0Is
    <2>2. SlotBytes * b <= at BY <1>4, <2>1
    <2>. QED BY <1>2, <1>4, <2>2, SlotsKept
  <1>6. TextsUpto(new, t, start, a)
    <2>1. start + TextPlaces(t)[a] <= at BY <1>4
    <2>. QED BY <1>2, <1>3, <1>4, <2>1, TextsKept
  <1>7. TextsUpto(new, t, start, a + n)
    <2>1. Copies(new, start + TextPlaces(t)[a], s, n) BY <1>4, Zenon
    <2>. QED BY <1>1, <1>6, <2>1, TextsOfRun
  <1>. QED BY <1>2, <1>5, <1>7, Zenon

LengthsKnown(ca, d) ==
    \A c \in 0..(Len(d) - 1) : c \in DOMAIN ca.length /\ ca.length[c] = Len(d[c + 1])

\* There is room for the slots, the strings and what FSST touches behind them.
CopyFits(t, limit) == Start0(t) + TextPlaces(t)[Len(t)] + 8 <= limit

\* The offsets are being written.
OffsetsPhase(m, lp, ca, k, t, limit) ==
    /\ LoopIs(lp) /\ lp.run \in 1..(Len(k.runs) + 1)
    /\ lp.at = RunStarts(k, t)[lp.run - 1]
    /\ IsPlace(lp.start, t, Start0(t), lp.at) /\ lp.write = Start0(t)
    /\ SlotsUpto(m, t, Start0(t), lp.at) /\ Within(m, limit)
    /\ IsCache(ca) /\ LengthsKnown(ca, k.strings) /\ CacheHolds(m, ca, k.strings, Start0(t), Start0(t))

LEMMA NextIn ==
    ASSUME NEW lp, LoopIs(lp), NEW c \in Nat, lp.run \in 1..(c + 1), lp.run <= c,
           NEW next, NEW x, NEW y, NEW z, Moved(next, lp, x, y, z)
    PROVE  lp.run \in 1..c /\ next.run \in 1..(c + 1) /\ next.run - 1 = lp.run /\ LoopIs(next)
  <1>1. next.run = lp.run + 1 /\ LoopIs(next) BY Zenon DEF Moved
  <1>2. PICK r \in Nat : r = lp.run BY DEF LoopIs
  <1>. QED BY <1>1, <1>2

\* WriteRunOffsets for the strings k keeps.
RunOffset(new, next, m, lp, ca, k) ==
    LET count == k.runs[lp.run].count
        length == ca.length[k.runs[lp.run].code]
    IN  /\ new = WriteOffsets(m, SlotBytes * lp.at, lp.start, length, count)
        /\ next = [lp EXCEPT !.run = @ + 1, !.at = @ + count, !.start = @ + count * length]

LEMMA OffsetsNext ==
    ASSUME NEW t, AreTexts(t), NEW k, IsDict(k, t), NEW limit \in Int, CopyFits(t, limit),
           NEW m, NEW lp, NEW ca, OffsetsPhase(m, lp, ca, k, t, limit), lp.run <= Len(k.runs),
           NEW new, NEW next, RunOffset(new, next, m, lp, ca, k)
    PROVE  OffsetsPhase(new, next, ca, k, t, limit)
  <1>0. PICK count, length :
          /\ count = k.runs[lp.run].count /\ length = ca.length[k.runs[lp.run].code]
          /\ new = WriteOffsets(m, SlotBytes * lp.at, lp.start, length, count)
          /\ next = [lp EXCEPT !.run = @ + 1, !.at = @ + count, !.start = @ + count * length]
    BY Zenon DEF RunOffset
  <1>1. PICK c \in Nat : c = Len(k.runs) BY RunsAre
  <1>2. /\ LoopIs(lp) /\ lp.run \in 1..(c + 1) /\ lp.at = RunStarts(k, t)[lp.run - 1]
        /\ IsPlace(lp.start, t, Start0(t), lp.at) /\ lp.write = Start0(t)
        /\ SlotsUpto(m, t, Start0(t), lp.at) /\ Within(m, limit)
        /\ IsCache(ca) /\ LengthsKnown(ca, k.strings) /\ CacheHolds(m, ca, k.strings, Start0(t), Start0(t))
    BY <1>1, Zenon DEF OffsetsPhase
  <1>3. PICK j \in Nat : j = lp.run BY <1>2 DEF LoopIs
  <1>4. j \in 1..Len(k.runs) BY <1>1, <1>2, <1>3
  <1>5. PICK a, n, s : IsRun(k, t, j, a, n, s) BY <1>4, RunIs
  <1>6. lp.at = a /\ count = n /\ length = Len(s)
    <2>1. lp.at = a /\ count = n BY <1>0, <1>2, <1>3, <1>5, Zenon DEF IsRun
    <2>2. k.runs[j].code \in 0..(Len(k.strings) - 1) /\ k.strings[k.runs[j].code + 1] = s BY <1>5, Zenon DEF IsRun
    <2>3. ca.length[k.runs[j].code] = Len(k.strings[k.runs[j].code + 1]) BY <1>2, <2>2, Zenon DEF LengthsKnown
    <2>. QED BY <1>0, <1>3, <2>1, <2>2, <2>3, Zenon
  <1>7. PICK at \in Nat : at = lp.start BY <1>2 DEF LoopIs
  <1>8. OffsetsWritten(new, m, a, at, s, n) BY <1>0, <1>6, <1>7, Zenon DEF OffsetsWritten
  <1>9. IsPlace(at, t, Start0(t), a) /\ SlotsUpto(m, t, Start0(t), a) BY <1>2, <1>6, <1>7, Zenon
  <1>10. SlotsUpto(new, t, Start0(t), a + n) /\ Beside(m, new, 0, Start0(t)) /\ Grown(m, new, 0, Start0(t))
    BY <1>5, <1>8, <1>9, SlotsOfRun
  <1>11. PICK start \in Nat : start = Start0(t) BY Start0Is
  <1>12. n * Len(s) \in Nat /\ IsPlace(at + n * Len(s), t, start, a + n) BY <1>5, <1>9, <1>11, RunPlaces
  <1>13. PICK x \in Nat : x = n * Len(s) BY <1>12
  <1>14. n \in Nat /\ RunStarts(k, t)[j] = a + n BY <1>5 DEF IsRun
  <1>15. Moved(next, lp, n, x, 0)
    <2>1. next = [lp EXCEPT !.run = @ + 1, !.at = @ + n, !.start = @ + x] BY <1>0, <1>6, <1>13, Zenon
    <2>2. LoopIs(lp) /\ n \in Nat /\ x \in Nat BY <1>2, <1>14
    <2>3. Moved([lp EXCEPT !.run = @ + 1, !.at = @ + n, !.start = @ + x], lp, n, x, 0) BY <2>2, MovedInOffsets, Zenon
    <2>. QED BY <2>1, <2>3, Zenon
  <1>16. next.run \in 1..(c + 1) /\ next.run - 1 = j /\ LoopIs(next) BY <1>1, <1>2, <1>3, <1>15, NextIn, Zenon
  <1>17. next.at = a + n /\ next.start = at + x /\ next.write = lp.write
    <2>1. next.at = lp.at + n /\ next.start = lp.start + x /\ next.write = lp.write + 0 BY <1>15, Zenon DEF Moved
    <2>2. lp.write + 0 = lp.write BY <1>2 DEF LoopIs
    <2>. QED BY <1>6, <1>7, <2>1, <2>2, Zenon
  <1>18. CacheHolds(new, ca, k.strings, start, start)
    <2>1. start \in Int /\ 0 \in Int /\ start <= start OBVIOUS
    <2>2. AreTexts(k.strings) BY Zenon DEF IsDict, Names
    <2>3. CacheHolds(m, ca, k.strings, start, start) /\ Beside(m, new, 0, start) BY <1>2, <1>10, <1>11, Zenon
    <2>. QED BY <2>1, <2>2, <2>3, CacheKept
  <1>19. Within(new, limit)
    <2>1. PICK e \in Nat : e = TextPlaces(t)[Len(t)] BY PlacesAre
    <2>2. start + e + 8 <= limit BY <1>11, <2>1, Zenon DEF CopyFits
    <2>3. start <= limit /\ 0 \in Nat /\ start \in Int BY <2>2
    <2>4. Grown(m, new, 0, start) BY <1>10, <1>11, Zenon
    <2>. QED BY <1>2, <2>3, <2>4, StaysWithin
  <1>20. next.at = RunStarts(k, t)[next.run - 1] BY <1>14, <1>16, <1>17, Zenon
  <1>21. IsPlace(next.start, t, Start0(t), next.at) /\ SlotsUpto(new, t, Start0(t), next.at)
    BY <1>10, <1>11, <1>12, <1>13, <1>17, Zenon
  <1>. QED BY <1>1, <1>2, <1>11, <1>16, <1>17, <1>18, <1>19, <1>20, <1>21, Zenon DEF OffsetsPhase

\* The strings are being written.
CopiesPhase(m, lp, ca, k, t, limit) ==
    /\ LoopIs(lp) /\ lp.run \in 1..(Len(k.runs) + 1) /\ lp.at = Len(t)
    /\ IsPlace(lp.write, t, Start0(t), RunStarts(k, t)[lp.run - 1])
    /\ SlotsUpto(m, t, Start0(t), Len(t) + 1) /\ TextsUpto(m, t, Start0(t), RunStarts(k, t)[lp.run - 1])
    /\ Within(m, limit)
    /\ IsCache(ca) /\ LengthsKnown(ca, k.strings) /\ CacheHolds(m, ca, k.strings, Start0(t), lp.write)

LEMMA LoopFrom1 ==
    ASSUME NEW lp, LoopIs(lp)
    PROVE  LET next == [lp EXCEPT !.run = 1] IN
           LoopIs(next) /\ next.run = 1 /\ next.at = lp.at /\ next.start = lp.start /\ next.write = lp.write
  <1>1. PICK next : next = [lp EXCEPT !.run = 1] OBVIOUS
  <1>2. lp \in [run : Nat, at : Nat, start : Nat, write : Nat] BY DEF LoopIs
  <1>3. PICK a \in Nat : a = 1 OBVIOUS
  <1>4. next = [lp EXCEPT !.run = a] BY <1>1, <1>3, Zenon
  <1>5. next.run = a /\ next.at = lp.at /\ next.start = lp.start /\ next.write = lp.write BY <1>2, <1>4
  <1>6. next \in [run : Nat, at : Nat, start : Nat, write : Nat] BY <1>2, <1>4
  <1>. QED BY <1>1, <1>3, <1>5, <1>6, Zenon DEF LoopIs

\* The last slot, when the offsets of all runs are written.
LEMMA LastSlot ==
    ASSUME NEW t, AreTexts(t), NEW limit \in Int, CopyFits(t, limit),
           NEW m, SlotsUpto(m, t, Start0(t), Len(t)), Within(m, limit),
           NEW at, IsPlace(at, t, Start0(t), Len(t)), NEW new, new = Put(m, SlotBytes * Len(t), Words(<<at>>))
    PROVE  /\ SlotsUpto(new, t, Start0(t), Len(t) + 1) /\ Within(new, limit)
           /\ Beside(m, new, 0, Start0(t))
  <1>1. PICK n \in Nat : n = Len(t) BY PlacesAre
  <1>2. PICK start \in Nat : start = Start0(t) BY Start0Is
  <1>3. at = start + TextPlaces(t)[n] /\ SlotsUpto(m, t, start, n) /\ new = Put(m, SlotBytes * n, Words(<<at>>))
    BY <1>1, <1>2, Zenon DEF IsPlace
  <1>4. /\ SlotsUpto(new, t, start, n + 1)
        /\ Beside(m, new, SlotBytes * n, SlotBytes * (n + 1)) /\ Grown(m, new, SlotBytes * n, SlotBytes * (n + 1))
    <2>1. n \in 0..Len(t) BY <1>1
    <2>. QED BY <1>3, <2>1, OneSlot
  <1>5. PICK lo \in Nat, hi \in Nat : lo = SlotBytes * n /\ hi = SlotBytes * (n + 1) /\ hi <= start
    <2>1. n \in 0..(Len(t) + 1) /\ n + 1 \in 0..(Len(t) + 1) BY <1>1
    <2>2. SlotBytes * n \in Nat /\ SlotBytes * (n + 1) \in Nat /\ SlotBytes * (n + 1) <= SlotsSize(Len(t))
          /\ SlotsSize(Len(t)) \in Nat /\ SlotsSize(Len(t)) <= start
      BY <1>2, <2>1, Start0Is
    <2>. QED BY <2>2
  <1>6. Beside(m, new, lo, hi) /\ Grown(m, new, lo, hi) BY <1>4, <1>5, Zenon
  <1>7. Beside(m, new, 0, start) /\ Grown(m, new, 0, start)
    <2>1. lo \in Int /\ hi \in Int /\ 0 \in Int /\ start \in Int /\ 0 <= lo OBVIOUS
    <2>. QED BY <1>5, <1>6, <2>1, Wider
  <1>8. Within(new, limit)
    <2>1. PICK e \in Nat : e = TextPlaces(t)[Len(t)] BY PlacesAre
    <2>2. start + e + 8 <= limit BY <1>2, <2>1, Zenon DEF CopyFits
    <2>3. start <= limit /\ 0 \in Nat /\ start \in Int BY <2>2
    <2>. QED BY <1>7, <2>3, StaysWithin
  <1>. QED BY <1>1, <1>2, <1>4, <1>7, <1>8, Zenon

\* EndRunOffsets.
OffsetsEnded(new, next, m, lp) ==
    new = Put(m, SlotBytes * lp.at, Words(<<lp.start>>)) /\ next = [lp EXCEPT !.run = 1]

LEMMA OffsetsEnd ==
    ASSUME NEW t, AreTexts(t), NEW k, IsDict(k, t), NEW limit \in Int, CopyFits(t, limit),
           NEW m, NEW lp, NEW ca, OffsetsPhase(m, lp, ca, k, t, limit), ~(lp.run <= Len(k.runs)),
           NEW new, NEW next, OffsetsEnded(new, next, m, lp)
    PROVE  CopiesPhase(new, next, ca, k, t, limit)
  <1>0. new = Put(m, SlotBytes * lp.at, Words(<<lp.start>>)) /\ next = [lp EXCEPT !.run = 1] BY Zenon DEF OffsetsEnded
  <1>1. PICK c \in Nat : c = Len(k.runs) BY RunsAre
  <1>2. /\ LoopIs(lp) /\ lp.run \in 1..(c + 1) /\ lp.at = RunStarts(k, t)[lp.run - 1]
        /\ IsPlace(lp.start, t, Start0(t), lp.at) /\ lp.write = Start0(t)
        /\ SlotsUpto(m, t, Start0(t), lp.at) /\ Within(m, limit)
        /\ IsCache(ca) /\ LengthsKnown(ca, k.strings) /\ CacheHolds(m, ca, k.strings, Start0(t), Start0(t))
    BY <1>1, Zenon DEF OffsetsPhase
  <1>3. lp.run - 1 = c BY <1>1, <1>2
  <1>4. lp.at = Len(t)
    <2>1. RunStarts(k, t)[Len(k.runs)] = Len(t) BY RunsAre
    <2>. QED BY <1>1, <1>2, <1>3, <2>1, Zenon
  <1>5. PICK at : at = lp.start OBVIOUS
  <1>6. SlotsUpto(m, t, Start0(t), Len(t)) /\ IsPlace(at, t, Start0(t), Len(t)) /\ Within(m, limit)
        /\ new = Put(m, SlotBytes * Len(t), Words(<<at>>))
    BY <1>0, <1>2, <1>4, <1>5, Zenon
  <1>7. SlotsUpto(new, t, Start0(t), Len(t) + 1) /\ Within(new, limit) /\ Beside(m, new, 0, Start0(t))
    BY <1>6, LastSlot
  <1>8. LoopIs(next) /\ next.run = 1 /\ next.at = lp.at /\ next.start = lp.start /\ next.write = lp.write
    BY <1>0, <1>2, LoopFrom1, Zenon
  <1>9. PICK start \in Nat : start = Start0(t) BY Start0Is
  <1>10. RunStarts(k, t)[next.run - 1] = 0 /\ next.run \in 1..(c + 1)
    <2>1. next.run - 1 = 0 /\ next.run \in 1..(c + 1) BY <1>8
    <2>. QED BY <2>1, RunsAre, Zenon
  <1>11. CacheHolds(new, ca, k.strings, start, start)
    <2>1. start \in Int /\ 0 \in Int /\ start <= start OBVIOUS
    <2>2. AreTexts(k.strings) BY Zenon DEF IsDict, Names
    <2>3. CacheHolds(m, ca, k.strings, start, start) /\ Beside(m, new, 0, start) BY <1>2, <1>7, <1>9, Zenon
    <2>. QED BY <2>1, <2>2, <2>3, CacheKept
  <1>12. IsPlace(start, t, start, 0) BY PlacesAre DEF IsPlace
  <1>13. TextsUpto(new, t, start, 0) BY DEF TextsUpto
  <1>14. IsPlace(next.write, t, Start0(t), RunStarts(k, t)[next.run - 1]) BY <1>2, <1>8, <1>9, <1>10, <1>12, Zenon
  <1>15. TextsUpto(new, t, Start0(t), RunStarts(k, t)[next.run - 1]) BY <1>9, <1>10, <1>13, Zenon
  <1>16. CacheHolds(new, ca, k.strings, Start0(t), next.write) /\ next.at = Len(t)
    BY <1>2, <1>4, <1>8, <1>9, <1>11, Zenon
  <1>. QED BY <1>1, <1>2, <1>7, <1>8, <1>10, <1>14, <1>15, <1>16, Zenon DEF CopiesPhase

\* The copies of a run come from the longest run of its string so far, or from the dictionary.
CopiedFrom(new, target, at, m, ca, code, n) ==
    new = MultiplyString(target, at, m, ca.text[code], ca.length[code], n, ca.runs[code])

IsText(d, code, s) == code \in 0..(Len(d) - 1) /\ s \in Seq(Nat) /\ d[code + 1] = s

LEMMA CopiesWritten ==
    ASSUME NEW d, AreTexts(d), NEW m, NEW target, NEW ca, NEW lo, NEW write, CacheHolds(m, ca, d, lo, write),
           NEW code, NEW s, IsText(d, code, s), ca.text[code] # Lost,
           NEW at \in Int, NEW n \in Nat,
           NEW new, CopiedFrom(new, target, at, m, ca, code, n)
    PROVE  Copies(new, at, s, n) /\ Beside(target, new, at, at + n * Len(s)) /\ Grown(target, new, at, at + n * Len(s))
  <1>0. code \in 0..(Len(d) - 1) /\ s \in Seq(Nat) /\ d[code + 1] = s BY Zenon DEF IsText
  <1>1. Found(m, ca.text[code], ca.runs[code], s, lo, write) /\ ca.length[code] = Len(s) BY <1>0, Zenon DEF CacheHolds
  <1>2. ca.text[code] \in Nat /\ ca.runs[code] \in Nat \ {0} /\ Copies(m, ca.text[code], s, ca.runs[code])
    BY <1>1, Zenon DEF Found
  <1>3. PICK f \in Nat : f = ca.text[code] BY <1>2
  <1>4. PICK known \in Nat \ {0} : known = ca.runs[code] BY <1>2
  <1>5. Copies(m, f, s, known) BY <1>2, <1>3, <1>4, Zenon
  <1>6. LET all == MultiplyString(target, at, m, f, Len(s), n, known) IN
        Copies(all, at, s, n) /\ Beside(target, all, at, at + n * Len(s)) /\ Grown(target, all, at, at + n * Len(s))
    <2>1. f \in Int BY <1>3
    <2>. QED BY <1>0, <1>5, <2>1, CopyPlaces, Zenon
  <1>7. new = MultiplyString(target, at, m, f, Len(s), n, known) BY <1>1, <1>3, <1>4, Zenon DEF CopiedFrom
  <1>. QED BY <1>6, <1>7, Zenon

LEMMA CopiesOfOne ==
    ASSUME NEW target, NEW s \in Seq(Nat), NEW at \in Int, NEW n \in Nat,
           NEW new, new = MultiplyString(target, at, Characters(s), 0, Len(s), n, 1)
    PROVE  Copies(new, at, s, n) /\ Beside(target, new, at, at + n * Len(s)) /\ Grown(target, new, at, at + n * Len(s))
  <1>1. Copies(Characters(s), 0, s, 1) /\ 0 \in Int /\ 1 \in Nat \ {0} BY OneCopy
  <1>2. LET all == MultiplyString(target, at, Characters(s), 0, Len(s), n, 1) IN
        Copies(all, at, s, n) /\ Beside(target, all, at, at + n * Len(s)) /\ Grown(target, all, at, at + n * Len(s))
    BY <1>1, CopyPlaces, Zenon
  <1>. QED BY <1>2, Zenon

\* When the copies of a run are written behind the strings before.
Behind(to, at, n, s) == to = at + n * Len(s)

LEMMA RunIsWritten ==
    ASSUME NEW t, AreTexts(t), NEW k, IsDict(k, t), NEW j, NEW a, NEW n, NEW s, IsRun(k, t, j, a, n, s),
           NEW limit \in Int, CopyFits(t, limit), NEW b \in 0..(Len(t) + 1),
           NEW m, SlotsUpto(m, t, Start0(t), b), TextsUpto(m, t, Start0(t), a), Within(m, limit),
           NEW at \in Nat, IsPlace(at, t, Start0(t), a),
           NEW ca, CacheHolds(m, ca, k.strings, Start0(t), at),
           NEW to \in Nat, Behind(to, at, n, s),
           NEW new, Copies(new, at, s, n), Beside(m, new, at, to), Grown(m, new, at, to)
    PROVE  /\ SlotsUpto(new, t, Start0(t), b) /\ TextsUpto(new, t, Start0(t), a + n) /\ Within(new, limit)
           /\ CacheHolds(new, ca, k.strings, Start0(t), to) /\ Found(new, at, n, s, Start0(t), to)
           /\ IsPlace(to, t, Start0(t), a + n)
  <1>0. to = at + n * Len(s) BY Zenon DEF Behind
  <1>1. PICK start \in Nat : start = Start0(t) BY Start0Is
  <1>2. /\ n * Len(s) \in Nat /\ start <= at /\ IsPlace(at + n * Len(s), t, start, a + n)
        /\ at + n * Len(s) <= start + TextPlaces(t)[Len(t)]
    BY <1>1, RunPlaces
  <1>3. PICK e \in Nat : e = TextPlaces(t)[Len(t)] BY PlacesAre
  <1>4. to <= start + e /\ at <= to
    <2>1. PICK x \in Nat : x = n * Len(s) BY <1>2
    <2>2. to = at + x BY <1>0, <2>1, Zenon
    <2>3. at + x <= start + e BY <1>2, <1>3, <2>1, Zenon
    <2>. QED BY <2>2, <2>3
  <1>5. to <= limit
    <2>1. start + e + 8 <= limit BY <1>1, <1>3, Zenon DEF CopyFits
    <2>. QED BY <1>4, <2>1
  <1>6. SlotsUpto(new, t, Start0(t), b) /\ TextsUpto(new, t, Start0(t), a + n)
    <2>1. to \in Int OBVIOUS
    <2>. QED BY <2>1, CopiesOfRun
  <1>7. Within(new, limit)
    <2>1. to \in Int OBVIOUS
    <2>. QED BY <1>5, <2>1, StaysWithin
  <1>8. CacheHolds(new, ca, k.strings, start, to)
    <2>1. start \in Int /\ at \in Int /\ to \in Int /\ at <= at OBVIOUS
    <2>2. AreTexts(k.strings) BY Zenon DEF IsDict, Names
    <2>3. CacheHolds(m, ca, k.strings, start, at) BY <1>1, Zenon
    <2>. QED BY <1>4, <2>1, <2>2, <2>3, CacheKept
  <1>9. Found(new, at, n, s, start, to)
    <2>1. n \in Nat \ {0} BY DEF IsRun
    <2>2. at + n * Len(s) <= to BY <1>0, <1>4
    <2>. QED BY <1>2, <2>1, <2>2, Zenon DEF Found
  <1>. QED BY <1>0, <1>1, <1>2, <1>6, <1>7, <1>8, <1>9, Zenon

\* WriteRunStrings for the strings k keeps.
RunCopied(new, next, ca2, m, lp, ca, k) ==
    LET code == k.runs[lp.run].code
        count == k.runs[lp.run].count
        length == ca.length[code]
    IN  /\ new = IF ca.text[code] = Lost
                 THEN MultiplyString(m, lp.write, Characters(k.strings[code + 1]), 0, length, count, 1)
                 ELSE MultiplyString(m, lp.write, m, ca.text[code], length, count, ca.runs[code])
        /\ ca2 = RememberedAt(ca, code, count, lp.write)
        /\ next = [lp EXCEPT !.run = @ + 1, !.write = @ + count * length]

LEMMA CopiesNext ==
    ASSUME NEW t, AreTexts(t), NEW k, IsDict(k, t), NEW limit \in Int, CopyFits(t, limit),
           NEW m, NEW lp, NEW ca, CopiesPhase(m, lp, ca, k, t, limit), lp.run <= Len(k.runs),
           NEW new, NEW next, NEW ca2, RunCopied(new, next, ca2, m, lp, ca, k)
    PROVE  CopiesPhase(new, next, ca2, k, t, limit)
  <1>1. PICK c \in Nat : c = Len(k.runs) BY RunsAre
  <1>2. /\ LoopIs(lp) /\ lp.run \in 1..(c + 1) /\ lp.at = Len(t)
        /\ IsPlace(lp.write, t, Start0(t), RunStarts(k, t)[lp.run - 1])
        /\ SlotsUpto(m, t, Start0(t), Len(t) + 1) /\ TextsUpto(m, t, Start0(t), RunStarts(k, t)[lp.run - 1])
        /\ Within(m, limit)
        /\ IsCache(ca) /\ LengthsKnown(ca, k.strings) /\ CacheHolds(m, ca, k.strings, Start0(t), lp.write)
    BY <1>1, Zenon DEF CopiesPhase
  <1>3. PICK j \in Nat : j = lp.run BY <1>2 DEF LoopIs
  <1>4. j \in 1..Len(k.runs) BY <1>1, <1>2, <1>3
  <1>5. PICK a, n, s : IsRun(k, t, j, a, n, s) BY <1>4, RunIs
  <1>30. PICK code : code = k.runs[j].code OBVIOUS
  <1>6. /\ RunStarts(k, t)[j - 1] = a /\ RunStarts(k, t)[j] = a + n /\ k.runs[j].count = n
        /\ code \in 0..(Len(k.strings) - 1) /\ k.strings[code + 1] = s
    BY <1>5, <1>30, Zenon DEF IsRun
  <1>7. KnowsLength(ca, code, k.strings) /\ ca.length[code] = Len(s)
    BY <1>2, <1>6, Zenon DEF LengthsKnown, KnowsLength
  <1>8. PICK at \in Nat : at = lp.write BY <1>2 DEF LoopIs
  <1>31. /\ new = IF ca.text[code] = Lost THEN MultiplyString(m, at, Characters(s), 0, ca.length[code], n, 1)
                   ELSE MultiplyString(m, at, m, ca.text[code], ca.length[code], n, ca.runs[code])
         /\ ca2 = RememberedAt(ca, code, n, at)
         /\ next = [lp EXCEPT !.run = @ + 1, !.write = @ + n * ca.length[code]]
    BY <1>3, <1>6, <1>8, <1>30, Zenon DEF RunCopied
  <1>9. PICK start \in Nat : start = Start0(t) BY Start0Is
  <1>10. /\ IsPlace(at, t, Start0(t), a) /\ TextsUpto(m, t, Start0(t), a)
         /\ CacheHolds(m, ca, k.strings, Start0(t), at)
    BY <1>2, <1>3, <1>6, <1>8, Zenon
  <1>11. n \in Nat /\ s \in Seq(Nat) BY <1>5 DEF IsRun
  <1>12. n * Len(s) \in Nat BY <1>5, <1>9, <1>10, RunPlaces
  <1>13. PICK x \in Nat : x = n * Len(s) BY <1>12
  <1>14. PICK to \in Nat : to = at + x OBVIOUS
  <1>15. Copies(new, at, s, n) /\ Beside(m, new, at, at + n * Len(s)) /\ Grown(m, new, at, at + n * Len(s))
    <2>1. at \in Int OBVIOUS
    <2>2. CASE ca.text[code] = Lost
      <3>1. new = MultiplyString(m, at, Characters(s), 0, Len(s), n, 1) BY <1>7, <1>31, <2>2, Zenon
      <3>. QED BY <1>11, <2>1, <3>1, CopiesOfOne
    <2>3. CASE ca.text[code] # Lost
      <3>1. CopiedFrom(new, m, at, m, ca, code, n) BY <1>31, <2>3, Zenon DEF CopiedFrom
      <3>3. IsText(k.strings, code, s) BY <1>6, <1>11, Zenon DEF IsText
      <3>2. AreTexts(k.strings) BY Zenon DEF IsDict, Names
      <3>. QED BY <1>10, <1>11, <2>1, <2>3, <3>1, <3>2, <3>3, CopiesWritten
    <2>. QED BY <2>2, <2>3
  <1>16. Copies(new, at, s, n) /\ Beside(m, new, at, to) /\ Grown(m, new, at, to) /\ Behind(to, at, n, s)
    BY <1>13, <1>14, <1>15, Zenon DEF Behind
  <1>17. /\ SlotsUpto(new, t, Start0(t), Len(t) + 1) /\ TextsUpto(new, t, Start0(t), a + n) /\ Within(new, limit)
         /\ CacheHolds(new, ca, k.strings, Start0(t), to) /\ Found(new, at, n, s, Start0(t), to)
         /\ IsPlace(to, t, Start0(t), a + n)
    <2>1. Len(t) + 1 \in 0..(Len(t) + 1) BY PlacesAre
    <2>. QED BY <1>2, <1>5, <1>10, <1>16, <2>1, RunIsWritten
  <1>19. CacheHolds(new, ca2, k.strings, Start0(t), to) /\ IsCache(ca2) /\ ca2.length = ca.length
    <2>1. Found(new, at, n, k.strings[code + 1], Start0(t), to) BY <1>6, <1>17, Zenon
    <2>2. code \in 0..(Len(k.strings) - 1) BY <1>6
    <2>3. Remembers(new, RememberedAt(ca, code, n, at), ca, k.strings, Start0(t), to)
      BY <1>2, <1>7, <1>17, <2>1, <2>2, RememberRun
    <2>. QED BY <1>31, <2>3, Zenon DEF Remembers
  <1>20. LengthsKnown(ca2, k.strings) BY <1>2, <1>19, Zenon DEF LengthsKnown
  <1>21. Moved(next, lp, 0, 0, x)
    <2>1. next = [lp EXCEPT !.run = @ + 1, !.write = @ + x] BY <1>7, <1>13, <1>31, Zenon
    <2>2. Moved([lp EXCEPT !.run = @ + 1, !.write = @ + x], lp, 0, 0, x) BY <1>2, MovedInStrings, Zenon
    <2>. QED BY <2>1, <2>2, Zenon
  <1>22. next.run \in 1..(c + 1) /\ next.run - 1 = j /\ LoopIs(next) BY <1>1, <1>2, <1>3, <1>21, NextIn, Zenon
  <1>23. next.at = Len(t) /\ next.write = to
    <2>1. next.at = lp.at + 0 /\ next.write = lp.write + x BY <1>21, Zenon DEF Moved
    <2>2. lp.at + 0 = lp.at BY <1>2 DEF LoopIs
    <2>. QED BY <1>2, <1>8, <1>14, <2>1, <2>2, Zenon
  <1>24. RunStarts(k, t)[next.run - 1] = a + n BY <1>6, <1>22, Zenon
  <1>26. /\ IsPlace(next.write, t, Start0(t), RunStarts(k, t)[next.run - 1])
         /\ TextsUpto(new, t, Start0(t), RunStarts(k, t)[next.run - 1])
         /\ CacheHolds(new, ca2, k.strings, Start0(t), next.write)
    BY <1>17, <1>19, <1>23, <1>24, Zenon
  <1>. QED BY <1>1, <1>17, <1>19, <1>20, <1>22, <1>23, <1>26, Zenon DEF CopiesPhase

LEMMA CopiesEnd ==
    ASSUME NEW t, AreTexts(t), NEW k, IsDict(k, t), NEW limit,
           NEW m, NEW lp, NEW ca, CopiesPhase(m, lp, ca, k, t, limit), ~(lp.run <= Len(k.runs))
    PROVE  Stored(m, t, Start0(t)) /\ Within(m, limit)
  <1>1. PICK c \in Nat : c = Len(k.runs) BY RunsAre
  <1>2. lp.run \in 1..(c + 1) /\ SlotsUpto(m, t, Start0(t), Len(t) + 1)
        /\ TextsUpto(m, t, Start0(t), RunStarts(k, t)[lp.run - 1]) /\ Within(m, limit)
    BY <1>1, Zenon DEF CopiesPhase
  <1>3. lp.run - 1 = c BY <1>1, <1>2
  <1>4. RunStarts(k, t)[Len(k.runs)] = Len(t) BY RunsAre
  <1>. QED BY <1>1, <1>2, <1>3, <1>4, Zenon DEF Stored

\* FSST: strings, offsets and copies are being written, run by run.
FsstPhase(m, lp, ca, k, t, limit) ==
    /\ LoopIs(lp) /\ lp.run \in 1..(Len(k.runs) + 1)
    /\ lp.at = RunStarts(k, t)[lp.run - 1]
    /\ IsPlace(lp.start, t, Start0(t), lp.at) /\ lp.write = lp.start
    /\ SlotsUpto(m, t, Start0(t), lp.at) /\ TextsUpto(m, t, Start0(t), lp.at) /\ Within(m, limit)
    /\ IsCache(ca) /\ CacheHolds(m, ca, k.strings, Start0(t), lp.write)

\* What holds of the strings before a run.
Before(m, ca, d, t, a, at, limit) ==
    /\ SlotsUpto(m, t, Start0(t), a) /\ TextsUpto(m, t, Start0(t), a) /\ Within(m, limit)
    /\ CacheHolds(m, ca, d, Start0(t), at)

\* The string itself is decompressed behind them.
LEMMA BeforeText ==
    ASSUME NEW t, AreTexts(t), NEW a \in 0..Len(t), NEW d, AreTexts(d), NEW limit \in Int,
           NEW m, NEW ca, NEW at \in Nat, IsPlace(at, t, Start0(t), a), Before(m, ca, d, t, a, at, limit),
           NEW one, NEW to \in Nat, Beside(m, one, at, to), Grown(m, one, at, to), to <= limit
    PROVE  Before(one, ca, d, t, a, at, limit)
  <1>1. PICK start \in Nat : start = Start0(t) BY Start0Is
  <1>2. PICK p \in Nat : p = TextPlaces(t)[a] BY PlacesAre
  <1>3. at = start + TextPlaces(t)[a] /\ at = start + p /\ at \in Int /\ to \in Int
    <2>1. at = start + TextPlaces(t)[a] /\ at = start + p BY <1>1, <1>2, Zenon DEF IsPlace
    <2>. QED BY <2>1
  <1>4. start <= at /\ start + TextPlaces(t)[a] <= at BY <1>2, <1>3
  <1>5. /\ SlotsUpto(m, t, start, a) /\ TextsUpto(m, t, start, a) /\ Within(m, limit)
        /\ CacheHolds(m, ca, d, start, at)
    BY <1>1, Zenon DEF Before
  <1>6. SlotsUpto(one, t, start, a)
    <2>1. a \in 0..(Len(t) + 1) /\ SlotBytes * a <= at
      <3>1. a \in 0..(Len(t) + 1) BY PlacesAre
      <3>2. SlotBytes * a \in Nat /\ SlotBytes * a <= SlotsSize(Len(t)) /\ SlotsSize(Len(t)) <= start
            /\ SlotsSize(Len(t)) \in Nat
        BY <1>1, <3>1, Start0Is
      <3>. QED BY <1>4, <3>1, <3>2
    <2>. QED BY <1>5, <2>1, SlotsKept
  <1>7. TextsUpto(one, t, start, a) BY <1>4, <1>5, TextsKept
  <1>8. Within(one, limit) BY <1>5, StaysWithin
  <1>9. CacheHolds(one, ca, d, start, at)
    <2>1. start \in Int /\ at \in Int /\ to \in Int /\ at <= at OBVIOUS
    <2>. QED BY <1>5, <2>1, CacheKept
  <1>. QED BY <1>1, <1>6, <1>7, <1>8, <1>9, Zenon DEF Before

\* The offsets are written before them.
LEMMA BeforeSlots ==
    ASSUME NEW t, AreTexts(t), NEW a \in 0..Len(t), NEW b, NEW d, AreTexts(d), NEW limit \in Int,
           CopyFits(t, limit),
           NEW m, NEW ca, NEW at \in Nat, Before(m, ca, d, t, a, at, limit),
           NEW slots, Beside(m, slots, 0, Start0(t)), Grown(m, slots, 0, Start0(t)), SlotsUpto(slots, t, Start0(t), b)
    PROVE  /\ SlotsUpto(slots, t, Start0(t), b) /\ TextsUpto(slots, t, Start0(t), a) /\ Within(slots, limit)
           /\ CacheHolds(slots, ca, d, Start0(t), at)
  <1>1. PICK start \in Nat : start = Start0(t) BY Start0Is
  <1>2. /\ TextsUpto(m, t, start, a) /\ Within(m, limit) /\ CacheHolds(m, ca, d, start, at)
        /\ Beside(m, slots, 0, start) /\ Grown(m, slots, 0, start)
    BY <1>1, Zenon DEF Before
  <1>3. 0 \in Int /\ 0 \in Nat /\ start \in Int /\ start <= start /\ at \in Int /\ at <= at OBVIOUS
  <1>4. TextsUpto(slots, t, start, a) BY <1>2, <1>3, TextsKept
  <1>5. start <= limit
    <2>1. PICK e \in Nat : e = TextPlaces(t)[Len(t)] BY PlacesAre
    <2>2. start + e + 8 <= limit BY <1>1, <2>1, Zenon DEF CopyFits
    <2>. QED BY <2>2
  <1>6. Within(slots, limit) BY <1>2, <1>3, <1>5, StaysWithin
  <1>7. CacheHolds(slots, ca, d, start, at) BY <1>2, <1>3, CacheKept
  <1>. QED BY <1>1, <1>4, <1>6, <1>7, Zenon

\* The first copy of a string, and the others behind it.
LEMMA CopiesJoin ==
    ASSUME NEW m, NEW at \in Int, NEW s \in Seq(Nat), NEW n \in Nat \ {0}, HasText(m, at, s),
           Copies(m, at + Len(s), s, n - 1)
    PROVE  Copies(m, at, s, n)
  <1>1. PICK len \in Nat : len = Len(s) OBVIOUS
  <1>2. ASSUME NEW c \in 0..(n - 1) PROVE HasText(m, at + c * len, s)
    <2>1. CASE c = 0
      <3>1. at + 0 * len = at OBVIOUS
      <3>. QED BY <2>1, <3>1
    <2>2. CASE c # 0
      <3>1. PICK b \in Nat : c = b + 1
        <4>1. c - 1 \in Nat /\ c = (c - 1) + 1 BY <2>2
        <4>. QED BY <4>1
      <3>2. b \in 0..((n - 1) - 1) BY <3>1
      <3>3. HasText(m, at + Len(s) + b * Len(s), s) BY <3>2 DEF Copies
      <3>4. (b + 1) * len = b * len + len /\ b * len \in Nat BY Z3
      <3>5. PICK x \in Nat : x = b * len BY <3>4
      <3>6. at + len + x = at + (x + len) OBVIOUS
      <3>. QED BY <1>1, <3>1, <3>3, <3>4, <3>5, <3>6
    <2>. QED BY <2>1, <2>2
  <1>. QED BY <1>1, <1>2 DEF Copies

\* A string is decompressed once and copied for the rest of its run.
FirstCopied(new, slots, at, one, s, n) ==
    new = MultiplyString(slots, at + Len(s), one, at, Len(s), n - 1, 1)

LEMMA FirstCopiesWritten ==
    ASSUME NEW s \in Seq(Nat), NEW at \in Nat, NEW n \in Nat \ {0}, NEW one, HasText(one, at, s),
           NEW slots, NEW start \in Nat, start <= at, Beside(one, slots, 0, start),
           NEW new, FirstCopied(new, slots, at, one, s, n)
    PROVE  Copies(new, at, s, n) /\ Beside(slots, new, at, at + n * Len(s)) /\ Grown(slots, new, at, at + n * Len(s))
  <1>1. PICK len \in Nat : len = Len(s) OBVIOUS
  <1>2. PICK dest \in Nat : dest = at + len OBVIOUS
  <1>3. PICK b \in Nat : n = b + 1 /\ b = n - 1 OBVIOUS
  <1>4. (b + 1) * len = b * len + len /\ b * len \in Nat BY Z3
  <1>5. PICK x \in Nat : x = b * len BY <1>4
  <1>6. n * Len(s) = x + len BY <1>1, <1>3, <1>4, <1>5
  <1>7. Copies(one, at, s, 1)
    <2>1. \A c \in 0..(1 - 1) : at + c * Len(s) = at BY <1>1
    <2>. QED BY <2>1 DEF Copies
  <1>8. HasText(slots, at, s)
    <2>1. 0 \in Int /\ start \in Int /\ at \in Int OBVIOUS
    <2>. QED BY <2>1, TextKept
  <1>9. Copies(new, dest, s, b) /\ Beside(slots, new, dest, dest + b * Len(s)) /\ Grown(slots, new, dest, dest + b * Len(s))
    <2>1. dest \in Int /\ at \in Int /\ 1 \in Nat \ {0} OBVIOUS
    <2>2. LET all == MultiplyString(slots, dest, one, at, Len(s), b, 1) IN
          Copies(all, dest, s, b) /\ Beside(slots, all, dest, dest + b * Len(s)) /\ Grown(slots, all, dest, dest + b * Len(s))
      BY <1>7, <2>1, CopyPlaces, Zenon
    <2>3. new = MultiplyString(slots, dest, one, at, Len(s), b, 1) BY <1>1, <1>2, <1>3, Zenon DEF FirstCopied
    <2>. QED BY <2>2, <2>3, Zenon
  <1>10. PICK to \in Nat : to = dest + x OBVIOUS
  <1>11. Beside(slots, new, dest, to) /\ Grown(slots, new, dest, to) BY <1>1, <1>5, <1>9, <1>10, Zenon
  <1>12. HasText(new, at, s)
    <2>1. at \in Int /\ dest \in Int /\ to \in Int /\ at + Len(s) <= dest BY <1>1, <1>2
    <2>. QED BY <1>8, <1>11, <2>1, TextKept
  <1>13. Copies(new, at, s, n)
    <2>1. Copies(new, at + Len(s), s, n - 1) /\ at \in Int BY <1>1, <1>2, <1>3, <1>9
    <2>. QED BY <1>12, <2>1, CopiesJoin
  <1>14. at + n * Len(s) = to /\ at <= dest BY <1>2, <1>6, <1>10
  <1>15. Beside(slots, new, at, to) /\ Grown(slots, new, at, to)
    <2>1. at \in Int /\ dest \in Int /\ to \in Int /\ to <= to OBVIOUS
    <2>. QED BY <1>11, <1>14, <2>1, Wider
  <1>. QED BY <1>13, <1>14, <1>15, Zenon

\* The string of a run is decompressed when it is met for the first time.
OneText(one, m, ca, code, at, s) ==
    one = IF ca.text[code] = Lost THEN FsstDecompressed(m, at, s) ELSE m

CopiesBehind(new, slots, one, m, ca, code, at, s, n) ==
    new = IF ca.text[code] = Lost THEN MultiplyString(slots, at + Len(s), one, at, Len(s), n - 1, 1)
          ELSE MultiplyString(slots, at, m, ca.text[code], ca.length[code], n, ca.runs[code])

LEMMA OneTextWritten ==
    ASSUME NEW t, AreTexts(t), NEW k, IsDict(k, t), NEW j, NEW a, NEW n, NEW s, IsRun(k, t, j, a, n, s),
           NEW limit \in Int, CopyFits(t, limit), NEW m, NEW ca,
           NEW at \in Nat, IsPlace(at, t, Start0(t), a), Before(m, ca, k.strings, t, a, at, limit),
           NEW code, NEW one, OneText(one, m, ca, code, at, s)
    PROVE  /\ Before(one, ca, k.strings, t, a, at, limit)
           /\ ca.text[code] = Lost => HasText(one, at, s)
  <1>1. CASE ca.text[code] # Lost BY <1>1, Zenon DEF OneText
  <1>2. CASE ca.text[code] = Lost
    <2>1. one = FsstDecompressed(m, at, s) BY <1>2, Zenon DEF OneText
    <2>2. a \in Nat /\ n \in Nat \ {0} /\ s \in Seq(Nat) /\ a + n <= Len(t) BY Zenon DEF IsRun
    <2>3. a \in 0..Len(t) BY <2>2, PlacesAre
    <2>4. PICK len \in Nat : len = Len(s) BY <2>2
    <2>5. FsstOverrun \in Nat /\ FsstOverrun <= 8 BY SlotIs, SizeAssumption
    <2>6. PICK to \in Nat : to = at + len + FsstOverrun BY <2>5
    <2>7. HasText(one, at, s) /\ Beside(m, one, at, to) /\ Grown(m, one, at, to)
      <3>1. at \in Int OBVIOUS
      <3>2. LET all == FsstDecompressed(m, at, s) IN
            HasText(all, at, s) /\ Beside(m, all, at, at + Len(s) + FsstOverrun) /\ Grown(m, all, at, at + Len(s) + FsstOverrun)
        BY <2>2, <3>1, FsstPlaces, Zenon
      <3>. QED BY <2>1, <2>4, <2>6, <3>2, Zenon
    <2>8. to <= limit
      <3>1. PICK start \in Nat : start = Start0(t) BY Start0Is
      <3>2. PICK x \in Nat : x = n * Len(s) BY <3>1, RunPlaces
      <3>3. PICK e \in Nat : e = TextPlaces(t)[Len(t)] BY PlacesAre
      <3>4. at + x <= start + e
        <4>1. at + n * Len(s) <= start + TextPlaces(t)[Len(t)] BY <3>1, RunPlaces
        <4>. QED BY <3>2, <3>3, <4>1, Zenon
      <3>5. start + e + 8 <= limit BY <3>1, <3>3, Zenon DEF CopyFits
      <3>6. len <= x
        <4>1. PICK b \in Nat : n = b + 1 BY <2>2
        <4>2. (b + 1) * len = b * len + len /\ b * len \in Nat BY Z3
        <4>. QED BY <2>4, <3>2, <4>1, <4>2
      <3>. QED BY <2>5, <2>6, <3>4, <3>5, <3>6
    <2>9. AreTexts(k.strings) BY Zenon DEF IsDict, Names
    <2>10. Before(one, ca, k.strings, t, a, at, limit) BY <2>3, <2>7, <2>8, <2>9, BeforeText
    <2>. QED BY <2>7, <2>10
  <1>. QED BY <1>1, <1>2

LEMMA RunTexts ==
    ASSUME NEW t, AreTexts(t), NEW k, IsDict(k, t), NEW j, NEW a, NEW n, NEW s, IsRun(k, t, j, a, n, s),
           NEW limit \in Int, CopyFits(t, limit), NEW m, NEW ca,
           NEW at \in Nat, IsPlace(at, t, Start0(t), a), Before(m, ca, k.strings, t, a, at, limit),
           NEW code, IsText(k.strings, code, s), NEW one, OneText(one, m, ca, code, at, s),
           NEW slots, OffsetsWritten(slots, one, a, at, s, n),
           NEW new, CopiesBehind(new, slots, one, m, ca, code, at, s, n)
    PROVE  /\ SlotsUpto(slots, t, Start0(t), a + n) /\ TextsUpto(slots, t, Start0(t), a) /\ Within(slots, limit)
           /\ CacheHolds(slots, ca, k.strings, Start0(t), at)
           /\ Copies(new, at, s, n)
           /\ Beside(slots, new, at, at + n * Len(s)) /\ Grown(slots, new, at, at + n * Len(s))
  <1>1. a \in Nat /\ n \in Nat \ {0} /\ s \in Seq(Nat) /\ a + n <= Len(t) BY Zenon DEF IsRun
  <1>2. a \in 0..Len(t) /\ a + n \in 0..(Len(t) + 1) BY <1>1, PlacesAre
  <1>3. AreTexts(k.strings) BY Zenon DEF IsDict, Names
  <1>4. Before(one, ca, k.strings, t, a, at, limit) /\ (ca.text[code] = Lost => HasText(one, at, s)) BY OneTextWritten
  <1>5. SlotsUpto(one, t, Start0(t), a) BY <1>4, Zenon DEF Before
  <1>6. SlotsUpto(slots, t, Start0(t), a + n) /\ Beside(one, slots, 0, Start0(t)) /\ Grown(one, slots, 0, Start0(t))
    BY <1>5, SlotsOfRun
  <1>7. /\ SlotsUpto(slots, t, Start0(t), a + n) /\ TextsUpto(slots, t, Start0(t), a) /\ Within(slots, limit)
        /\ CacheHolds(slots, ca, k.strings, Start0(t), at)
    BY <1>2, <1>3, <1>4, <1>6, BeforeSlots
  <1>8. CASE ca.text[code] # Lost
    <2>1. CopiedFrom(new, slots, at, m, ca, code, n) BY <1>8, Zenon DEF CopiesBehind, CopiedFrom
    <2>2. CacheHolds(m, ca, k.strings, Start0(t), at) BY Zenon DEF Before
    <2>3. at \in Int /\ n \in Nat BY <1>1
    <2>4. Copies(new, at, s, n) /\ Beside(slots, new, at, at + n * Len(s)) /\ Grown(slots, new, at, at + n * Len(s))
      BY <1>3, <1>8, <2>1, <2>2, <2>3, CopiesWritten
    <2>. QED BY <1>7, <2>4
  <1>9. CASE ca.text[code] = Lost
    <2>1. FirstCopied(new, slots, at, one, s, n) BY <1>9, Zenon DEF CopiesBehind, FirstCopied
    <2>2. PICK start \in Nat : start = Start0(t) BY Start0Is
    <2>3. start <= at /\ Beside(one, slots, 0, start)
      <3>1. start <= at BY <2>2, RunPlaces
      <3>. QED BY <1>6, <2>2, <3>1, Zenon
    <2>4. Copies(new, at, s, n) /\ Beside(slots, new, at, at + n * Len(s)) /\ Grown(slots, new, at, at + n * Len(s))
      BY <1>1, <1>4, <1>9, <2>1, <2>3, FirstCopiesWritten
    <2>. QED BY <1>7, <2>4
  <1>. QED BY <1>8, <1>9

\* WriteFsstRun for the strings k keeps.
FsstRun(new, next, ca2, m, lp, ca, k) ==
    LET code == k.runs[lp.run].code
        count == k.runs[lp.run].count
        first == ca.text[code] = Lost
        length == IF first THEN Len(k.strings[code + 1]) ELSE ca.length[code]
        one == IF first THEN FsstDecompressed(m, lp.write, k.strings[code + 1]) ELSE m
        slots == WriteOffsets(one, SlotBytes * lp.at, lp.start, length, count)
    IN  /\ new = IF first
                 THEN MultiplyString(slots, lp.write + length, one, lp.write, length, count - 1, 1)
                 ELSE MultiplyString(slots, lp.write, m, ca.text[code], ca.length[code], count, ca.runs[code])
        /\ ca2 = LengthLearnt(RememberedAt(ca, code, count, lp.write), code, length)
        /\ next = [lp EXCEPT !.run = @ + 1, !.at = @ + count, !.start = @ + count * length,
                             !.write = @ + count * length]

LEMMA FsstNext ==
    ASSUME NEW t, AreTexts(t), NEW k, IsDict(k, t), NEW limit \in Int, CopyFits(t, limit),
           NEW m, NEW lp, NEW ca, FsstPhase(m, lp, ca, k, t, limit), lp.run <= Len(k.runs),
           NEW new, NEW next, NEW ca2, FsstRun(new, next, ca2, m, lp, ca, k)
    PROVE  FsstPhase(new, next, ca2, k, t, limit)
  <1>1. PICK c \in Nat : c = Len(k.runs) BY RunsAre
  <1>2. /\ LoopIs(lp) /\ lp.run \in 1..(c + 1) /\ lp.at = RunStarts(k, t)[lp.run - 1]
        /\ IsPlace(lp.start, t, Start0(t), lp.at) /\ lp.write = lp.start
        /\ SlotsUpto(m, t, Start0(t), lp.at) /\ TextsUpto(m, t, Start0(t), lp.at) /\ Within(m, limit)
        /\ IsCache(ca) /\ CacheHolds(m, ca, k.strings, Start0(t), lp.write)
    BY <1>1, Zenon DEF FsstPhase
  <1>3. PICK j \in Nat : j = lp.run BY <1>2 DEF LoopIs
  <1>4. j \in 1..Len(k.runs) BY <1>1, <1>2, <1>3
  <1>5. PICK a, n, s : IsRun(k, t, j, a, n, s) BY <1>4, RunIs
  <1>6. PICK code : code = k.runs[j].code OBVIOUS
  <1>7. /\ RunStarts(k, t)[j - 1] = a /\ RunStarts(k, t)[j] = a + n /\ k.runs[j].count = n
        /\ code \in 0..(Len(k.strings) - 1) /\ k.strings[code + 1] = s
    BY <1>5, <1>6, Zenon DEF IsRun
  <1>8. PICK at \in Nat : at = lp.write BY <1>2 DEF LoopIs
  <1>9. lp.at = a /\ lp.start = at BY <1>2, <1>3, <1>7, <1>8, Zenon
  <1>10. /\ IsPlace(at, t, Start0(t), a) /\ Before(m, ca, k.strings, t, a, at, limit)
    BY <1>2, <1>8, <1>9, Zenon DEF Before
  <1>11. n \in Nat \ {0} /\ n \in Nat /\ s \in Seq(Nat) /\ a \in Nat BY <1>5 DEF IsRun
  <1>12. IsText(k.strings, code, s) /\ AreTexts(k.strings) BY <1>7, <1>11, Zenon DEF IsText, IsDict, Names
  <1>13. ca.text[code] # Lost => ca.length[code] = Len(s) BY <1>2, <1>7, Zenon DEF CacheHolds
  <1>14. PICK one : OneText(one, m, ca, code, at, s) BY Zenon DEF OneText
  <1>15. PICK slots : OffsetsWritten(slots, one, a, at, s, n) BY Zenon DEF OffsetsWritten
  <1>16. /\ CopiesBehind(new, slots, one, m, ca, code, at, s, n)
         /\ ca2 = LengthLearnt(RememberedAt(ca, code, n, at), code, Len(s))
         /\ next = [lp EXCEPT !.run = @ + 1, !.at = @ + n, !.start = @ + n * Len(s), !.write = @ + n * Len(s)]
    <2>1. one = IF ca.text[code] = Lost THEN FsstDecompressed(m, at, s) ELSE m BY <1>14, Zenon DEF OneText
    <2>2. slots = WriteOffsets(one, SlotBytes * a, at, Len(s), n) BY <1>15, Zenon DEF OffsetsWritten
    <2>3. CASE ca.text[code] = Lost
      <3>1. /\ one = FsstDecompressed(m, at, s)
            /\ new = MultiplyString(WriteOffsets(FsstDecompressed(m, at, s), SlotBytes * a, at, Len(s), n),
                                    at + Len(s), FsstDecompressed(m, at, s), at, Len(s), n - 1, 1)
            /\ ca2 = LengthLearnt(RememberedAt(ca, code, n, at), code, Len(s))
            /\ next = [lp EXCEPT !.run = @ + 1, !.at = @ + n, !.start = @ + n * Len(s), !.write = @ + n * Len(s)]
        BY <1>3, <1>6, <1>7, <1>8, <1>9, <2>1, <2>3, Zenon DEF FsstRun
      <3>. QED BY <2>2, <2>3, <3>1, Zenon DEF CopiesBehind
    <2>4. CASE ca.text[code] # Lost
      <3>1. /\ one = m
            /\ new = MultiplyString(WriteOffsets(m, SlotBytes * a, at, Len(s), n),
                                    at, m, ca.text[code], ca.length[code], n, ca.runs[code])
            /\ ca2 = LengthLearnt(RememberedAt(ca, code, n, at), code, Len(s))
            /\ next = [lp EXCEPT !.run = @ + 1, !.at = @ + n, !.start = @ + n * Len(s), !.write = @ + n * Len(s)]
        BY <1>3, <1>6, <1>7, <1>8, <1>9, <1>13, <2>1, <2>4, Zenon DEF FsstRun
      <3>. QED BY <2>2, <2>4, <3>1, Zenon DEF CopiesBehind
    <2>. QED BY <2>3, <2>4
  <1>17. PICK start \in Nat : start = Start0(t) BY Start0Is
  <1>18. n * Len(s) \in Nat BY <1>5, <1>10, <1>17, RunPlaces
  <1>19. PICK x \in Nat : x = n * Len(s) BY <1>18
  <1>20. PICK to \in Nat : to = at + x OBVIOUS
  <1>21. /\ SlotsUpto(slots, t, Start0(t), a + n) /\ TextsUpto(slots, t, Start0(t), a) /\ Within(slots, limit)
         /\ CacheHolds(slots, ca, k.strings, Start0(t), at)
         /\ Copies(new, at, s, n)
         /\ Beside(slots, new, at, at + n * Len(s)) /\ Grown(slots, new, at, at + n * Len(s))
    BY <1>5, <1>10, <1>12, <1>14, <1>15, <1>16, RunTexts
  <1>22. Beside(slots, new, at, to) /\ Grown(slots, new, at, to) /\ Behind(to, at, n, s)
    BY <1>19, <1>20, <1>21, Zenon DEF Behind
  <1>23. /\ SlotsUpto(new, t, Start0(t), a + n) /\ TextsUpto(new, t, Start0(t), a + n) /\ Within(new, limit)
         /\ CacheHolds(new, ca, k.strings, Start0(t), to) /\ Found(new, at, n, s, Start0(t), to)
         /\ IsPlace(to, t, Start0(t), a + n)
    <2>1. a + n \in 0..(Len(t) + 1)
      <3>1. a + n <= Len(t) BY <1>5, Zenon DEF IsRun
      <3>. QED BY <1>11, <3>1, PlacesAre
    <2>. QED BY <1>5, <1>10, <1>21, <1>22, <2>1, RunIsWritten
  <1>24. CacheHolds(new, ca2, k.strings, Start0(t), to) /\ IsCache(ca2)
    <2>1. PICK known : known = LengthLearnt(ca, code, Len(s)) OBVIOUS
    <2>2. /\ CacheHolds(new, known, k.strings, Start0(t), to) /\ IsCache(known)
          /\ code \in DOMAIN known.length /\ known.length[code] = Len(k.strings[code + 1])
          /\ LengthLearnt(RememberedAt(ca, code, n, at), code, Len(k.strings[code + 1])) = RememberedAt(known, code, n, at)
      <3>1. IsCache(ca) /\ CacheHolds(new, ca, k.strings, Start0(t), to) /\ code \in 0..(Len(k.strings) - 1)
        BY <1>2, <1>7, <1>23, Zenon
      <3>2. Learns(new, LengthLearnt(ca, code, Len(k.strings[code + 1])), ca, k.strings, code, Start0(t), to)
        BY <3>1, LearnLength
      <3>4. known = LengthLearnt(ca, code, Len(k.strings[code + 1])) BY <1>7, <2>1, Zenon
      <3>. QED BY <3>2, <3>4, Zenon DEF Learns
    <2>3. KnowsLength(known, code, k.strings) BY <2>2, Zenon DEF KnowsLength
    <2>4. Found(new, at, n, k.strings[code + 1], Start0(t), to) BY <1>7, <1>23, Zenon
    <2>5. Remembers(new, RememberedAt(known, code, n, at), known, k.strings, Start0(t), to)
      BY <1>7, <2>2, <2>3, <2>4, RememberRun
    <2>6. ca2 = RememberedAt(known, code, n, at) BY <1>7, <1>16, <2>2, Zenon
    <2>. QED BY <2>5, <2>6, Zenon DEF Remembers
  <1>25. Moved(next, lp, n, x, x)
    <2>1. next = [lp EXCEPT !.run = @ + 1, !.at = @ + n, !.start = @ + x, !.write = @ + x] BY <1>16, <1>19, Zenon
    <2>2. Moved([lp EXCEPT !.run = @ + 1, !.at = @ + n, !.start = @ + x, !.write = @ + x], lp, n, x, x)
      BY <1>2, <1>11, MovedInFsst, Zenon
    <2>. QED BY <2>1, <2>2, Zenon
  <1>26. next.run \in 1..(c + 1) /\ next.run - 1 = j /\ LoopIs(next) BY <1>1, <1>2, <1>3, <1>25, NextIn, Zenon
  <1>27. next.at = a + n /\ next.write = to /\ next.start = to BY <1>8, <1>9, <1>20, <1>25, Zenon DEF Moved
  <1>28. RunStarts(k, t)[next.run - 1] = a + n BY <1>7, <1>26, Zenon
  <1>29. /\ next.at = RunStarts(k, t)[next.run - 1] /\ next.write = next.start
         /\ IsPlace(next.start, t, Start0(t), next.at)
         /\ SlotsUpto(new, t, Start0(t), next.at) /\ TextsUpto(new, t, Start0(t), next.at)
         /\ CacheHolds(new, ca2, k.strings, Start0(t), next.write)
    BY <1>23, <1>24, <1>27, <1>28, Zenon
  <1>. QED BY <1>1, <1>23, <1>24, <1>26, <1>29, Zenon DEF FsstPhase

FsstEnded(new, m, lp) == new = Put(m, SlotBytes * lp.at, Words(<<lp.start>>))

LEMMA FsstEnd ==
    ASSUME NEW t, AreTexts(t), NEW k, IsDict(k, t), NEW limit \in Int, CopyFits(t, limit),
           NEW m, NEW lp, NEW ca, FsstPhase(m, lp, ca, k, t, limit), ~(lp.run <= Len(k.runs)),
           NEW new, FsstEnded(new, m, lp)
    PROVE  Stored(new, t, Start0(t)) /\ Within(new, limit)
  <1>1. PICK c \in Nat : c = Len(k.runs) BY RunsAre
  <1>2. /\ lp.run \in 1..(c + 1) /\ lp.at = RunStarts(k, t)[lp.run - 1]
        /\ IsPlace(lp.start, t, Start0(t), lp.at)
        /\ SlotsUpto(m, t, Start0(t), lp.at) /\ TextsUpto(m, t, Start0(t), lp.at) /\ Within(m, limit)
    BY <1>1, Zenon DEF FsstPhase
  <1>3. lp.run - 1 = c BY <1>1, <1>2
  <1>4. RunStarts(k, t)[Len(k.runs)] = Len(t) BY RunsAre
  <1>5. lp.at = Len(t) BY <1>1, <1>2, <1>3, <1>4, Zenon
  <1>6. PICK at : at = lp.start OBVIOUS
  <1>7. /\ IsPlace(at, t, Start0(t), Len(t)) /\ SlotsUpto(m, t, Start0(t), Len(t)) /\ TextsUpto(m, t, Start0(t), Len(t))
        /\ new = Put(m, SlotBytes * Len(t), Words(<<at>>))
    BY <1>2, <1>5, <1>6, Zenon DEF FsstEnded
  <1>8. SlotsUpto(new, t, Start0(t), Len(t) + 1) /\ Within(new, limit) /\ Beside(m, new, 0, Start0(t))
    BY <1>2, <1>7, LastSlot
  <1>9. TextsUpto(new, t, Start0(t), Len(t))
    <2>1. PICK start \in Nat : start = Start0(t) BY Start0Is
    <2>2. TextsUpto(m, t, start, Len(t)) /\ Beside(m, new, 0, start) BY <1>7, <1>8, <2>1, Zenon
    <2>3. 0 \in Int /\ start \in Int /\ start <= start /\ Len(t) \in 0..Len(t) BY PlacesAre
    <2>4. TextsUpto(new, t, start, Len(t)) BY <2>2, <2>3, TextsKept
    <2>. QED BY <2>1, <2>4, Zenon
  <1>. QED BY <1>8, <1>9, Zenon DEF Stored

\* StartRuns for the strings k keeps.
RunsStarted(lp, ca2, ca, k, start) ==
    /\ lp = [run |-> 1, at |-> 0, start |-> start, write |-> start]
    /\ ca2 = [ca EXCEPT !.text = Over([c \in 0..(Len(k.strings) - 1) |-> Lost], @),
                        !.length = IF k.fsst THEN @
                                   ELSE Over([c \in 0..(Len(k.strings) - 1) |-> Len(k.strings[c + 1])], @)]

WithTextAndLength(ca, text, length) == [ca EXCEPT !.text = text, !.length = length]

LEMMA TextAndLength ==
    ASSUME NEW te, NEW ru, NEW le, NEW vi, NEW text, NEW length
    PROVE  WithTextAndLength(FourFields(te, ru, le, vi), text, length) = FourFields(text, ru, length, vi)
  <1>1. PICK old : old = [text |-> te, runs |-> ru, length |-> le, views |-> vi] OBVIOUS
  <1>2. PICK new : new = [old EXCEPT !.text = text, !.length = length] OBVIOUS
  <1>3. new.text = text /\ new.runs = ru /\ new.length = length /\ new.views = vi BY <1>1, <1>2
  <1>4. new = [text |-> new.text, runs |-> new.runs, length |-> new.length, views |-> new.views] BY <1>1, <1>2
  <1>. QED BY <1>1, <1>2, <1>3, <1>4, Zenon DEF WithTextAndLength, FourFields

LEMMA OverIs ==
    ASSUME NEW new, NEW old
    PROVE  \A x \in DOMAIN new : x \in DOMAIN Over(new, old) /\ Over(new, old)[x] = new[x]
  <1>1. TAKE x \in DOMAIN new
  <1>2. x \in DOMAIN new \cup DOMAIN old OBVIOUS
  <1>. QED BY <1>2, Zenon DEF Over

Starts(ca2, k) ==
    /\ IsCache(ca2)
    /\ \A c \in 0..(Len(k.strings) - 1) : c \in DOMAIN ca2.text /\ ca2.text[c] = Lost
    /\ ~k.fsst => LengthsKnown(ca2, k.strings)

LEMMA CacheStarts ==
    ASSUME NEW k, NEW ca, IsCache(ca), NEW lp, NEW ca2, NEW start, RunsStarted(lp, ca2, ca, k, start)
    PROVE  Starts(ca2, k)
  <1>1. PICK te : te = ca.text OBVIOUS
  <1>2. PICK ru : ru = ca.runs OBVIOUS
  <1>3. PICK le : le = ca.length OBVIOUS
  <1>4. PICK vi : vi = ca.views OBVIOUS
  <1>5. ca = FourFields(te, ru, le, vi) BY <1>1, <1>2, <1>3, <1>4, Zenon DEF IsCache
  <1>6. PICK codes : codes = 0..(Len(k.strings) - 1) OBVIOUS
  <1>7. PICK lost : lost = [c \in codes |-> Lost] OBVIOUS
  <1>8. PICK lens : lens = [c \in codes |-> Len(k.strings[c + 1])] OBVIOUS
  <1>9. PICK text : text = Over(lost, te) OBVIOUS
  <1>10. PICK length : length = IF k.fsst THEN le ELSE Over(lens, le) OBVIOUS
  <1>11. ca2 = WithTextAndLength(ca, text, length)
    <2>1. ca2 = [ca EXCEPT !.text = Over(lost, ca.text),
                           !.length = IF k.fsst THEN ca.length ELSE Over(lens, ca.length)]
      BY <1>6, <1>7, <1>8, Zenon DEF RunsStarted
    <2>. QED BY <1>1, <1>3, <1>9, <1>10, <2>1, Zenon DEF WithTextAndLength
  <1>12. ca2 = FourFields(text, ru, length, vi)
    <2>1. WithTextAndLength(FourFields(te, ru, le, vi), text, length) = FourFields(text, ru, length, vi)
      BY TextAndLength
    <2>. QED BY <1>5, <1>11, <2>1, Zenon
  <1>13. HasFields(ca2, text, ru, length, vi) BY <1>12, FieldsAre
  <1>14. IsCache(ca2) /\ ca2.text = text /\ ca2.length = length BY <1>13, Zenon DEF HasFields
  <1>15. \A c \in codes : c \in DOMAIN text /\ text[c] = Lost
    <2>1. \A c \in DOMAIN lost : c \in DOMAIN text /\ text[c] = lost[c] BY <1>9, OverIs
    <2>2. DOMAIN lost = codes /\ \A c \in codes : lost[c] = Lost BY <1>7
    <2>. QED BY <2>1, <2>2, Zenon
  <1>16. ~k.fsst => \A c \in codes : c \in DOMAIN length /\ length[c] = Len(k.strings[c + 1])
    <2>1. \A c \in DOMAIN lens : c \in DOMAIN Over(lens, le) /\ Over(lens, le)[c] = lens[c] BY OverIs
    <2>2. DOMAIN lens = codes /\ \A c \in codes : lens[c] = Len(k.strings[c + 1]) BY <1>8
    <2>. QED BY <1>10, <2>1, <2>2, Zenon
  <1>17. ~k.fsst => LengthsKnown(ca2, k.strings) BY <1>6, <1>14, <1>16, Zenon DEF LengthsKnown
  <1>. QED BY <1>6, <1>14, <1>15, <1>17, Zenon DEF Starts

\* Nothing is written yet.
LEMMA RunsStart ==
    ASSUME NEW t, AreTexts(t), NEW k, IsDict(k, t), NEW limit,
           NEW m, Within(m, limit), NEW ca, IsCache(ca),
           NEW lp, NEW ca2, RunsStarted(lp, ca2, ca, k, Start0(t))
    PROVE  /\ ~k.fsst => OffsetsPhase(m, lp, ca2, k, t, limit)
           /\ k.fsst => FsstPhase(m, lp, ca2, k, t, limit)
  <1>1. PICK start \in Nat : start = Start0(t) BY Start0Is
  <1>2. lp = [run |-> 1, at |-> 0, start |-> start, write |-> start] BY <1>1, Zenon DEF RunsStarted
  <1>3. LoopIs(lp) /\ lp.run = 1 /\ lp.at = 0 /\ lp.start = start /\ lp.write = start BY <1>2 DEF LoopIs
  <1>4. RunStarts(k, t)[lp.run - 1] = 0 /\ lp.run \in 1..(Len(k.runs) + 1)
    <2>1. Len(k.runs) \in Nat /\ RunStarts(k, t)[0] = 0 BY RunsAre
    <2>. QED BY <1>3, <2>1
  <1>5. Starts(ca2, k) BY CacheStarts
  <1>6. CacheHolds(m, ca2, k.strings, Start0(t), Start0(t)) /\ IsCache(ca2) BY <1>5, Zenon DEF Starts, CacheHolds
  <1>7. TextPlaces(t)[0] = 0 /\ start + 0 = start BY PlacesAre
  <1>8. IsPlace(lp.start, t, Start0(t), lp.at) BY <1>1, <1>3, <1>7, Zenon DEF IsPlace
  <1>9. 0..(0 - 1) = {} /\ 1..0 = {} OBVIOUS
  <1>10. SlotsUpto(m, t, Start0(t), lp.at) /\ TextsUpto(m, t, Start0(t), lp.at)
    BY <1>3, <1>9, Zenon DEF SlotsUpto, TextsUpto
  <1>11. /\ LoopIs(lp) /\ lp.run \in 1..(Len(k.runs) + 1) /\ lp.at = RunStarts(k, t)[lp.run - 1]
         /\ lp.write = Start0(t) /\ lp.write = lp.start
         /\ CacheHolds(m, ca2, k.strings, Start0(t), lp.write)
    BY <1>1, <1>3, <1>4, <1>6, Zenon
  <1>12. ~k.fsst => OffsetsPhase(m, lp, ca2, k, t, limit)
    BY <1>5, <1>6, <1>8, <1>10, <1>11, Zenon DEF Starts, OffsetsPhase
  <1>13. k.fsst => FsstPhase(m, lp, ca2, k, t, limit) BY <1>6, <1>8, <1>10, <1>11, Zenon DEF FsstPhase
  <1>. QED BY <1>12, <1>13

---------------------------------------------------------------------------
(* Views of a dictionary *)

ViewsPut(new, m, a, n, x, y) == new = Put(m, ViewBytes * a, Words(FlattenSeq(PairsOf(n, x, y))))

LEMMA ViewPlaces ==
    ASSUME NEW m, NEW a \in Nat, NEW n \in Nat, NEW x \in [1..n -> Nat], NEW y \in [1..n -> Nat],
           NEW new, ViewsPut(new, m, a, n, x, y)
    PROVE  /\ \A i \in 1..n : /\ HasWord(new, ViewBytes * (a + (i - 1)), x[i])
                              /\ HasWord(new, ViewBytes * (a + (i - 1)) + SlotBytes, y[i])
           /\ Beside(m, new, ViewBytes * a, ViewBytes * (a + n)) /\ Grown(m, new, ViewBytes * a, ViewBytes * (a + n))
  <1>1. PICK flat : flat = FlattenSeq(PairsOf(n, x, y)) OBVIOUS
  <1>2. PICK at \in Nat : at = ViewBytes * a BY ViewIs
  <1>3. new = Put(m, at, Words(flat)) BY <1>1, <1>2, Zenon DEF ViewsPut
  <1>4. PICK nn \in Nat : nn = 2 * n
    <2>1. 2 * n \in Nat OBVIOUS
    <2>. QED BY <2>1
  <1>5. /\ DOMAIN flat = 1..nn /\ Len(flat) = nn
        /\ \A i \in 1..n : flat[2 * (i - 1) + 1] = x[i] /\ flat[2 * (i - 1) + 2] = y[i]
    BY <1>1, <1>4, PairsFlat, Zenon
  <1>6. /\ \A k \in 0..(nn - 1) : HasWord(new, at + SlotBytes * k, flat[k + 1])
        /\ Beside(m, new, at, at + SlotBytes * nn) /\ Grown(m, new, at, at + SlotBytes * nn)
    <2>1. at \in Int OBVIOUS
    <2>2. LET all == Put(m, at, Words(flat)) IN
          /\ \A k \in 0..(nn - 1) : HasWord(all, at + SlotBytes * k, flat[k + 1])
          /\ Beside(m, all, at, at + SlotBytes * nn) /\ Grown(m, all, at, at + SlotBytes * nn)
      BY <1>5, <2>1, WordPlaces, Zenon
    <2>. QED BY <1>3, <2>2, Zenon
  <1>7. \A j \in Nat : ViewBytes * (a + j) = at + SlotBytes * (2 * j)
    <2>1. ASSUME NEW j \in Nat PROVE ViewBytes * (a + j) = at + SlotBytes * (2 * j)
      <3>1. PICK w \in Nat : w = ViewBytes BY ViewIs
      <3>2. w * (a + j) = w * a + w * j BY Z3
      <3>3. ViewBytes * j = SlotBytes * (2 * j) BY ViewIs
      <3>. QED BY <1>2, <3>1, <3>2, <3>3
    <2>. QED BY <2>1
  <1>8. ViewBytes * (a + n) = at + SlotBytes * nn BY <1>4, <1>7
  <1>9. ASSUME NEW i \in 1..n
        PROVE  /\ HasWord(new, ViewBytes * (a + (i - 1)), x[i])
               /\ HasWord(new, ViewBytes * (a + (i - 1)) + SlotBytes, y[i])
    <2>1. PICK j \in Nat : j = i - 1 /\ j < n OBVIOUS
    <2>2. 2 * j \in 0..(nn - 1) /\ 2 * j + 1 \in 0..(nn - 1) /\ (2 * j + 1) + 1 = 2 * j + 2 BY <1>4, <2>1
    <2>3. HasWord(new, at + SlotBytes * (2 * j), flat[2 * j + 1])
          /\ HasWord(new, at + SlotBytes * (2 * j + 1), flat[(2 * j + 1) + 1])
      BY <1>6, <2>2
    <2>4. flat[2 * j + 1] = x[i] /\ flat[2 * j + 2] = y[i] BY <1>5, <2>1, Zenon
    <2>5. ViewBytes * (a + j) = at + SlotBytes * (2 * j) BY <1>7
    <2>6. SlotBytes * (2 * j + 1) = SlotBytes * (2 * j) + SlotBytes /\ SlotBytes * (2 * j) \in Nat /\ SlotBytes \in Nat
      <3>1. PICK w \in Nat : w = SlotBytes BY SlotIs
      <3>2. w * (2 * j + 1) = w * (2 * j) + w /\ w * (2 * j) \in Nat BY Z3
      <3>. QED BY <3>1, <3>2
    <2>7. at + SlotBytes * (2 * j + 1) = ViewBytes * (a + j) + SlotBytes BY <2>5, <2>6
    <2>. QED BY <2>1, <2>2, <2>3, <2>4, <2>5, <2>7, Zenon
  <1>. QED BY <1>2, <1>6, <1>8, <1>9, Zenon

\* More rows have their views.
LEMMA ViewsNext ==
    ASSUME NEW m, NEW a \in Nat, NEW n \in Nat, NEW x \in [1..n -> Nat], NEW y \in [1..n -> Nat],
           NEW new, ViewsPut(new, m, a, n, x, y), NEW c \in 0..n, NEW length, NEW place,
           ViewsUpto(m, a, length, place), \A i \in 1..c : length[a + i] = x[i] /\ place[a + i] = y[i]
    PROVE  ViewsUpto(new, a + c, length, place)
  <1>1. /\ \A i \in 1..n : /\ HasWord(new, ViewBytes * (a + (i - 1)), x[i])
                           /\ HasWord(new, ViewBytes * (a + (i - 1)) + SlotBytes, y[i])
        /\ Beside(m, new, ViewBytes * a, ViewBytes * (a + n))
    BY ViewPlaces
  <1>2. ViewsUpto(new, a, length, place)
    <2>1. ViewBytes * a \in Int /\ ViewBytes * (a + n) \in Int /\ ViewBytes * a <= ViewBytes * a
      <3>1. a + n \in Nat OBVIOUS
      <3>2. ViewBytes * a \in Nat /\ ViewBytes * (a + n) \in Nat BY <3>1, ViewIs
      <3>. QED BY <3>2
    <2>. QED BY <1>1, <2>1, ViewsKept
  <1>3. ASSUME NEW r \in 1..(a + c)
        PROVE  /\ HasWord(new, ViewBytes * (r - 1), length[r])
               /\ HasWord(new, ViewBytes * (r - 1) + SlotBytes, place[r])
    <2>1. CASE r <= a
      <3>1. r \in 1..a BY <2>1
      <3>. QED BY <1>2, <3>1, Zenon DEF ViewsUpto
    <2>2. CASE ~(r <= a)
      <3>1. PICK i \in 1..c : r = a + i /\ r - 1 = a + (i - 1) /\ i \in 1..n
        <4>1. r - a \in 1..c /\ r = a + (r - a) /\ r - 1 = a + ((r - a) - 1) /\ r - a \in 1..n BY <2>2
        <4>. QED BY <4>1
      <3>. QED BY <1>1, <3>1, Zenon
    <2>. QED BY <2>1, <2>2
  <1>. QED BY <1>3, Zenon DEF ViewsUpto

\* The strings of the dictionary lie behind the views.
VStart(t) == (Len(t) + RunViews) * ViewBytes

ViewFits(t, limit) == VStart(t) + TextPlaces(t)[Len(t)] + 8 <= limit

ViewsKnown(ca, d, start) ==
    \A c \in 0..(Len(d) - 1) :
        c \in DOMAIN ca.views /\ ca.views[c] = <<Len(d[c + 1]), start + TextPlaces(d)[c]>>

ViewPlacesOf(k, t) == [i \in 1..Len(t) |-> VStart(t) + TextPlaces(k.strings)[k.codes[i]]]

LEMMA VStartIs ==
    ASSUME NEW t, AreTexts(t)
    PROVE  /\ VStart(t) \in Nat /\ ViewBytes * (Len(t) + RunViews) = VStart(t)
           /\ \A j \in 0..(Len(t) + RunViews) : ViewBytes * j \in Nat /\ ViewBytes * j <= VStart(t)
  <1>1. PICK n \in Nat : n = Len(t) + RunViews BY PlacesAre, SlotIs
  <1>2. ViewBytes * n \in Nat /\ n * ViewBytes = ViewBytes * n BY ViewIs
  <1>3. VStart(t) = n * ViewBytes BY <1>1, Zenon DEF VStart
  <1>4. ASSUME NEW j \in 0..n PROVE ViewBytes * j \in Nat /\ ViewBytes * j <= ViewBytes * n
    <2>1. j \in Nat /\ j <= n OBVIOUS
    <2>. QED BY <2>1, ViewIs, ViewsRise
  <1>. QED BY <1>1, <1>2, <1>3, <1>4

\* The lengths and the places of the views are numbers.
LEMMA ViewPlacesAre ==
    ASSUME NEW t, AreTexts(t), NEW k, IsDict(k, t), NEW i \in 1..Len(t)
    PROVE  /\ k.codes[i] \in 0..(Len(k.strings) - 1) /\ k.strings[k.codes[i] + 1] = t[i]
           /\ Lengths(t)[i] = Len(t[i]) /\ t[i] \in Seq(Nat)
           /\ ViewPlacesOf(k, t)[i] = VStart(t) + TextPlaces(k.strings)[k.codes[i]]
           /\ TextPlaces(k.strings)[k.codes[i]] \in Nat /\ ViewPlacesOf(k, t)[i] \in Nat
  <1>1. AreTexts(k.strings) /\ k.codes[i] \in 0..(Len(k.strings) - 1) /\ k.strings[k.codes[i] + 1] = t[i]
    BY Zenon DEF IsDict, Names
  <1>2. Lengths(t)[i] = Len(t[i]) /\ t[i] \in Seq(Nat) BY PlacesAre DEF Lengths
  <1>3. ViewPlacesOf(k, t)[i] = VStart(t) + TextPlaces(k.strings)[k.codes[i]] BY Zenon DEF ViewPlacesOf
  <1>4. PICK c \in Nat : c = k.codes[i] /\ c \in 0..(Len(k.strings) - 1) BY <1>1
  <1>5. c \in 0..Len(k.strings) BY <1>1, <1>4, PlacesAre
  <1>6. PICK p \in Nat : p = TextPlaces(k.strings)[c] BY <1>1, <1>5, PlacesAre
  <1>7. VStart(t) \in Nat BY VStartIs
  <1>8. VStart(t) + p \in Nat BY <1>7
  <1>. QED BY <1>1, <1>2, <1>3, <1>4, <1>6, <1>8, Zenon

\* All views and all strings of the dictionary: every row reads back.
LEMMA ViewsRead ==
    ASSUME NEW t, AreTexts(t), NEW k, IsDict(k, t), NEW m,
           ViewsUpto(m, Len(t), Lengths(t), ViewPlacesOf(k, t)),
           TextsUpto(m, k.strings, VStart(t), Len(k.strings)), NEW i \in 1..Len(t)
    PROVE  ViewedAt(m, i - 1) = t[i]
  <1>1. PICK d : d = k.strings OBVIOUS
  <1>2. PICK c : c = k.codes[i] OBVIOUS
  <1>3. /\ c \in 0..(Len(d) - 1) /\ d[c + 1] = t[i] /\ Lengths(t)[i] = Len(t[i]) /\ t[i] \in Seq(Nat)
        /\ ViewPlacesOf(k, t)[i] = VStart(t) + TextPlaces(d)[c] /\ ViewPlacesOf(k, t)[i] \in Nat
    <2>1. /\ k.codes[i] \in 0..(Len(k.strings) - 1) /\ k.strings[k.codes[i] + 1] = t[i]
          /\ Lengths(t)[i] = Len(t[i]) /\ t[i] \in Seq(Nat)
          /\ ViewPlacesOf(k, t)[i] = VStart(t) + TextPlaces(k.strings)[k.codes[i]]
          /\ ViewPlacesOf(k, t)[i] \in Nat
      BY ViewPlacesAre
    <2>. QED BY <1>1, <1>2, <2>1, Zenon
  <1>4. PICK j : j = c + 1 OBVIOUS
  <1>5. j \in 1..Len(d) /\ j - 1 = c
    <2>1. AreTexts(d) BY <1>1, Zenon DEF IsDict, Names
    <2>2. c \in 0..(Len(d) - 1) /\ Len(d) \in Nat BY <1>3, <2>1, PlacesAre, Zenon
    <2>. QED BY <1>4, <2>2
  <1>6. HasText(m, VStart(t) + TextPlaces(d)[j - 1], d[j]) BY <1>1, <1>5, Zenon DEF TextsUpto
  <1>7. HasText(m, ViewPlacesOf(k, t)[i], t[i]) BY <1>3, <1>4, <1>5, <1>6, Zenon
  <1>8. Len(t) \in Nat BY PlacesAre
  <1>. QED BY <1>3, <1>7, <1>8, ViewedIs

---------------------------------------------------------------------------

\* CopyDictionary.
DictionaryCopied(m2, m, k, start) == m2 = TextWritten(m, start, FlattenSeq(k.strings), k.fsst)

WithViews(ca, v) == [ca EXCEPT !.views = v]

ViewsLearnt(ca2, ca, d, start) ==
    ca2 = WithViews(ca, Over([c \in 0..(Len(d) - 1) |->
                                <<Len(d[c + 1]), start + SumOf([j \in 1..c |-> Len(d[j])])>>], ca.views))

DictionaryPhase(m, ca, k, t, limit) ==
    /\ TextsUpto(m, k.strings, VStart(t), Len(k.strings)) /\ Within(m, limit)
    /\ IsCache(ca) /\ ViewsKnown(ca, k.strings, VStart(t))

LEMMA ViewsField ==
    ASSUME NEW te, NEW ru, NEW le, NEW vi, NEW v
    PROVE  WithViews(FourFields(te, ru, le, vi), v) = FourFields(te, ru, le, v)
  <1>1. PICK old : old = [text |-> te, runs |-> ru, length |-> le, views |-> vi] OBVIOUS
  <1>2. PICK new : new = [old EXCEPT !.views = v] OBVIOUS
  <1>3. new.text = te /\ new.runs = ru /\ new.length = le /\ new.views = v BY <1>1, <1>2
  <1>4. new = [text |-> new.text, runs |-> new.runs, length |-> new.length, views |-> new.views] BY <1>1, <1>2
  <1>. QED BY <1>1, <1>2, <1>3, <1>4, Zenon DEF WithViews, FourFields

\* The strings before a code.
LEMMA PlaceIsSum ==
    ASSUME NEW d, AreTexts(d), NEW c \in 0..(Len(d) - 1)
    PROVE  SumOf([j \in 1..c |-> Len(d[j])]) = TextPlaces(d)[c]
  <1>1. PICK i : i = c + 1 OBVIOUS
  <1>2. i \in 1..Len(d) /\ i - 1 = c BY <1>1, PlacesAre
  <1>3. FileSlots(d)[i].offset = TextPlaces(d)[i - 1] BY <1>2, FileSlotsAre
  <1>4. FileSlots(d)[i] = [size |-> Len(d[i]), offset |-> SumOf([j \in 1..(i - 1) |-> Len(d[j])])]
    <2>1. i \in DOMAIN d BY <1>2, PlacesAre
    <2>. QED BY <2>1 DEF FileSlots
  <1>. QED BY <1>2, <1>3, <1>4

LEMMA LearnViews ==
    ASSUME NEW d, AreTexts(d), NEW ca, IsCache(ca), NEW start, NEW ca2, ViewsLearnt(ca2, ca, d, start)
    PROVE  IsCache(ca2) /\ ViewsKnown(ca2, d, start)
  <1>1. PICK te : te = ca.text OBVIOUS
  <1>2. PICK ru : ru = ca.runs OBVIOUS
  <1>3. PICK le : le = ca.length OBVIOUS
  <1>4. PICK vi : vi = ca.views OBVIOUS
  <1>5. ca = FourFields(te, ru, le, vi) BY <1>1, <1>2, <1>3, <1>4, Zenon DEF IsCache
  <1>6. PICK mine : mine = [c \in 0..(Len(d) - 1) |->
                              <<Len(d[c + 1]), start + SumOf([j \in 1..c |-> Len(d[j])])>>]
    OBVIOUS
  <1>7. PICK v : v = Over(mine, vi) OBVIOUS
  <1>8. ca2 = WithViews(ca, v) BY <1>4, <1>6, <1>7, Zenon DEF ViewsLearnt
  <1>9. ca2 = FourFields(te, ru, le, v)
    <2>1. WithViews(FourFields(te, ru, le, vi), v) = FourFields(te, ru, le, v) BY ViewsField
    <2>. QED BY <1>5, <1>8, <2>1, Zenon
  <1>10. HasFields(ca2, te, ru, le, v) BY <1>9, FieldsAre
  <1>11. IsCache(ca2) /\ ca2.views = v BY <1>10, Zenon DEF HasFields
  <1>12. ASSUME NEW c \in 0..(Len(d) - 1)
         PROVE  c \in DOMAIN v /\ v[c] = <<Len(d[c + 1]), start + TextPlaces(d)[c]>>
    <2>1. DOMAIN mine = 0..(Len(d) - 1)
          /\ mine[c] = <<Len(d[c + 1]), start + SumOf([j \in 1..c |-> Len(d[j])])>>
      BY <1>6, Zenon
    <2>2. SumOf([j \in 1..c |-> Len(d[j])]) = TextPlaces(d)[c] BY PlaceIsSum
    <2>3. \A x \in DOMAIN mine : x \in DOMAIN Over(mine, vi) /\ Over(mine, vi)[x] = mine[x] BY OverIs
    <2>. QED BY <1>7, <2>1, <2>2, <2>3, Zenon
  <1>. QED BY <1>11, <1>12, Zenon DEF ViewsKnown

LEMMA DictionaryWritten ==
    ASSUME NEW t, AreTexts(t), NEW k, IsDict(k, t), NEW limit \in Int, ViewFits(t, limit),
           NEW m, Within(m, limit), NEW ca, IsCache(ca),
           NEW new, DictionaryCopied(new, m, k, VStart(t)), NEW ca2, ViewsLearnt(ca2, ca, k.strings, VStart(t))
    PROVE  DictionaryPhase(new, ca2, k, t, limit)
  <1>1. PICK d : d = k.strings OBVIOUS
  <1>2. AreTexts(d) /\ TextPlaces(d)[Len(d)] <= TextPlaces(t)[Len(t)] BY <1>1, Zenon DEF IsDict, Names
  <1>3. PICK start \in Nat : start = VStart(t) BY VStartIs
  <1>4. PICK flat : flat = FlattenSeq(d) OBVIOUS
  <1>5. flat \in Seq(Nat) /\ Placed(flat, d, TextPlaces(d), Len(d)) /\ Len(flat) = TextPlaces(d)[Len(d)]
    BY <1>2, <1>4, FlattenIsPlaced, Zenon
  <1>6. PICK len \in Nat : len = Len(flat) BY <1>5
  <1>7. PICK to \in Nat : to = start + len + 8 OBVIOUS
  <1>8. HasText(new, start, flat) /\ Beside(m, new, start, to) /\ Grown(m, new, start, to)
    <2>1. start \in Int OBVIOUS
    <2>2. LET all == TextWritten(m, start, flat, k.fsst) IN
          HasText(all, start, flat) /\ Beside(m, all, start, start + Len(flat) + 8) /\ Grown(m, all, start, start + Len(flat) + 8)
      BY <1>5, <2>1, TextWrittenPlaces, Zenon
    <2>3. new = TextWritten(m, start, flat, k.fsst) BY <1>1, <1>3, <1>4, Zenon DEF DictionaryCopied
    <2>. QED BY <1>6, <1>7, <2>2, <2>3, Zenon
  <1>9. TextsUpto(new, d, start, Len(d))
    <2>1. start \in Int OBVIOUS
    <2>. QED BY <1>2, <1>5, <1>8, <2>1, TextsOfWhole
  <1>10. to <= limit
    <2>1. PICK e \in Nat : e = TextPlaces(t)[Len(t)] BY PlacesAre
    <2>2. start + e + 8 <= limit BY <1>3, <2>1, Zenon DEF ViewFits
    <2>3. len <= e BY <1>2, <1>5, <1>6, <2>1, Zenon
    <2>. QED BY <1>7, <2>2, <2>3
  <1>11. Within(new, limit)
    <2>1. to \in Int /\ start \in Nat OBVIOUS
    <2>. QED BY <1>8, <1>10, <2>1, StaysWithin
  <1>12. IsCache(ca2) /\ ViewsKnown(ca2, k.strings, VStart(t)) BY <1>1, <1>2, LearnViews, Zenon
  <1>. QED BY <1>1, <1>3, <1>9, <1>11, <1>12, Zenon DEF DictionaryPhase

\* Views are being written, run by run.
ViewsPhase(m, lp, ca, k, t, limit) ==
    /\ LoopIs(lp) /\ lp.run \in 1..(Len(k.runs) + 1)
    /\ lp.at = RunStarts(k, t)[lp.run - 1]
    /\ ViewsUpto(m, lp.at, Lengths(t), ViewPlacesOf(k, t))
    /\ DictionaryPhase(m, ca, k, t, limit)

\* WriteRunViews for the strings k keeps.
ViewFor(ca, code) == IF code \in DOMAIN ca.views THEN ca.views[code] ELSE <<Lost, Lost>>

SameViews(n, view) == [i \in 1..n |-> view]

RunViewed(new, next, m, lp, ca, k) ==
    /\ new = Put(m, ViewBytes * lp.at,
                 Words(FlattenSeq(SameViews(Batches(k.runs[lp.run].count, RunViews), ViewFor(ca, k.runs[lp.run].code)))))
    /\ next = [lp EXCEPT !.run = @ + 1, !.at = @ + k.runs[lp.run].count]

\* What is written with the strings in place, and before them, leaves them there.
LEMMA DictionaryStays ==
    ASSUME NEW t, AreTexts(t), NEW k, IsDict(k, t), NEW limit \in Int, ViewFits(t, limit), NEW m, NEW ca,
           DictionaryPhase(m, ca, k, t, limit), NEW a \in Nat, NEW n \in Nat, a + n <= Len(t) + RunViews,
           NEW new, Beside(m, new, ViewBytes * a, ViewBytes * (a + n)), Grown(m, new, ViewBytes * a, ViewBytes * (a + n))
    PROVE  DictionaryPhase(new, ca, k, t, limit)
  <1>1. PICK start \in Nat : start = VStart(t) BY VStartIs
  <1>2. PICK from \in Nat, to \in Nat : from = ViewBytes * a /\ to = ViewBytes * (a + n) /\ to <= start
    <2>1. a \in 0..(Len(t) + RunViews) /\ a + n \in 0..(Len(t) + RunViews) BY PlacesAre, SlotIs
    <2>2. ViewBytes * a \in Nat /\ ViewBytes * (a + n) \in Nat /\ ViewBytes * (a + n) <= VStart(t) BY <2>1, VStartIs
    <2>. QED BY <1>1, <2>2
  <1>3. Beside(m, new, from, to) /\ Grown(m, new, from, to) BY <1>2, Zenon
  <1>4. /\ AreTexts(k.strings) /\ TextsUpto(m, k.strings, start, Len(k.strings)) /\ Within(m, limit)
        /\ IsCache(ca) /\ ViewsKnown(ca, k.strings, VStart(t))
    BY <1>1, Zenon DEF DictionaryPhase, IsDict, Names
  <1>5. TextsUpto(new, k.strings, start, Len(k.strings))
    <2>1. from \in Int /\ to \in Int /\ Len(k.strings) \in 0..Len(k.strings) BY <1>4, PlacesAre
    <2>. QED BY <1>2, <1>3, <1>4, <2>1, TextsKept
  <1>6. start <= limit
    <2>1. PICK e \in Nat : e = TextPlaces(t)[Len(t)] BY PlacesAre
    <2>2. start + e + 8 <= limit BY <1>1, <2>1, Zenon DEF ViewFits
    <2>. QED BY <2>2
  <1>7. Within(new, limit)
    <2>1. to \in Int /\ to <= limit BY <1>2, <1>6
    <2>. QED BY <1>3, <1>4, <2>1, StaysWithin
  <1>. QED BY <1>1, <1>4, <1>5, <1>7, Zenon DEF DictionaryPhase

LEMMA ViewsRunNext ==
    ASSUME NEW t, AreTexts(t), NEW k, IsDict(k, t), NEW limit \in Int, ViewFits(t, limit),
           NEW m, NEW lp, NEW ca, ViewsPhase(m, lp, ca, k, t, limit), lp.run <= Len(k.runs),
           NEW new, NEW next, RunViewed(new, next, m, lp, ca, k)
    PROVE  ViewsPhase(new, next, ca, k, t, limit)
  <1>1. PICK c \in Nat : c = Len(k.runs) BY RunsAre
  <1>2. /\ LoopIs(lp) /\ lp.run \in 1..(c + 1) /\ lp.at = RunStarts(k, t)[lp.run - 1]
        /\ ViewsUpto(m, lp.at, Lengths(t), ViewPlacesOf(k, t))
        /\ DictionaryPhase(m, ca, k, t, limit)
    BY <1>1, Zenon DEF ViewsPhase
  <1>3. PICK j \in Nat : j = lp.run BY <1>2 DEF LoopIs
  <1>4. j \in 1..Len(k.runs) BY <1>1, <1>2, <1>3
  <1>5. PICK a, n, s : IsRun(k, t, j, a, n, s) BY <1>4, RunIs
  <1>6. PICK code : code = k.runs[j].code OBVIOUS
  <1>7. /\ RunStarts(k, t)[j - 1] = a /\ RunStarts(k, t)[j] = a + n /\ k.runs[j].count = n
        /\ code \in 0..(Len(k.strings) - 1) /\ k.strings[code + 1] = s
    BY <1>5, <1>6, Zenon DEF IsRun
  <1>8. lp.at = a BY <1>2, <1>3, <1>7, Zenon
  <1>9. n \in Nat \ {0} /\ n \in Nat /\ s \in Seq(Nat) /\ a \in Nat /\ a + n <= Len(t) BY <1>5 DEF IsRun
  <1>10. AreTexts(k.strings) BY Zenon DEF IsDict, Names
  <1>11. PICK b \in Nat : b = Batches(n, RunViews) /\ n <= b /\ b <= n + RunViews - 1
    <2>1. RunViews \in Nat \ {0} BY SlotIs
    <2>. QED BY <1>9, <2>1, BatchesCover
  <1>12. PICK len \in Nat : len = Len(s) BY <1>9
  <1>13. PICK place \in Nat : place = VStart(t) + TextPlaces(k.strings)[code]
    <2>1. PICK p \in Nat : p = TextPlaces(k.strings)[code]
      <3>1. code \in 0..Len(k.strings) BY <1>7, <1>10, PlacesAre
      <3>. QED BY <1>10, <3>1, PlacesAre
    <2>2. VStart(t) + p \in Nat BY VStartIs
    <2>. QED BY <2>1, <2>2
  <1>14. ViewFor(ca, code) = <<len, place>>
    <2>1. code \in DOMAIN ca.views /\ ca.views[code] = <<Len(k.strings[code + 1]), VStart(t) + TextPlaces(k.strings)[code]>>
      BY <1>2, <1>7, Zenon DEF DictionaryPhase, ViewsKnown
    <2>. QED BY <1>7, <1>12, <1>13, <2>1, Zenon DEF ViewFor
  <1>15. PICK x : x = [i \in 1..b |-> len] OBVIOUS
  <1>16. PICK y : y = [i \in 1..b |-> place] OBVIOUS
  <1>17. x \in [1..b -> Nat] /\ y \in [1..b -> Nat] BY <1>15, <1>16
  <1>18. ViewsPut(new, m, a, b, x, y)
    <2>1. PairsOf(b, x, y) = SameViews(b, <<len, place>>) BY <1>15, <1>16 DEF PairsOf, SameViews
    <2>2. new = Put(m, ViewBytes * a, Words(FlattenSeq(SameViews(b, <<len, place>>))))
      BY <1>3, <1>6, <1>7, <1>8, <1>11, <1>14, Zenon DEF RunViewed
    <2>. QED BY <2>1, <2>2, Zenon DEF ViewsPut
  <1>19. \A i \in 1..n : Lengths(t)[a + i] = x[i] /\ ViewPlacesOf(k, t)[a + i] = y[i]
    <2>1. ASSUME NEW i \in 1..n PROVE Lengths(t)[a + i] = x[i] /\ ViewPlacesOf(k, t)[a + i] = y[i]
      <3>1. PICK r : r = a + i OBVIOUS
      <3>2. r \in 1..Len(t) /\ i \in 1..b BY <1>9, <1>11, <3>1, PlacesAre
      <3>3. t[r] = s BY <1>5, <3>1, Zenon DEF IsRun, SameText
      <3>4. k.codes[r] = code
        <4>1. StandFor(k.runs, k.codes, Len(t), RunStarts(k, t)) BY RunsAre
        <4>2. i \in 1..(k.runs[j].count) BY <1>7, Zenon
        <4>3. k.codes[RunStarts(k, t)[j - 1] + i] = k.runs[j].code BY <1>4, <4>1, <4>2, Zenon DEF StandFor
        <4>. QED BY <1>6, <1>7, <3>1, <4>3, Zenon
      <3>5. Lengths(t)[r] = Len(t[r]) /\ ViewPlacesOf(k, t)[r] = VStart(t) + TextPlaces(k.strings)[k.codes[r]]
        <4>1. Lengths(t)[r] = Len(t[r]) BY <3>2, ViewPlacesAre
        <4>2. ViewPlacesOf(k, t)[r] = VStart(t) + TextPlaces(k.strings)[k.codes[r]] BY <3>2, Zenon DEF ViewPlacesOf
        <4>. QED BY <4>1, <4>2
      <3>6. x[i] = len /\ y[i] = place BY <1>15, <1>16, <3>2, Zenon
      <3>. QED BY <1>12, <1>13, <3>1, <3>3, <3>4, <3>5, <3>6, Zenon
    <2>. QED BY <2>1
  <1>20. ViewsUpto(new, a + n, Lengths(t), ViewPlacesOf(k, t))
    <2>1. n \in 0..b /\ ViewsUpto(m, a, Lengths(t), ViewPlacesOf(k, t))
      <3>1. n \in 0..b BY <1>9, <1>11
      <3>. QED BY <1>2, <1>8, <3>1, Zenon
    <2>. QED BY <1>9, <1>17, <1>18, <1>19, <2>1, ViewsNext
  <1>21. DictionaryPhase(new, ca, k, t, limit)
    <2>1. Beside(m, new, ViewBytes * a, ViewBytes * (a + b)) /\ Grown(m, new, ViewBytes * a, ViewBytes * (a + b))
      BY <1>9, <1>17, <1>18, ViewPlaces
    <2>2. a + b <= Len(t) + RunViews BY <1>9, <1>11, PlacesAre, SlotIs
    <2>. QED BY <1>2, <1>9, <2>1, <2>2, DictionaryStays
  <1>22. Moved(next, lp, n, 0, 0)
    <2>1. next = [lp EXCEPT !.run = @ + 1, !.at = @ + n] BY <1>3, <1>7, Zenon DEF RunViewed
    <2>2. Moved([lp EXCEPT !.run = @ + 1, !.at = @ + n], lp, n, 0, 0) BY <1>2, <1>9, MovedInViews, Zenon
    <2>. QED BY <2>1, <2>2, Zenon
  <1>23. next.run \in 1..(c + 1) /\ next.run - 1 = j /\ LoopIs(next) BY <1>1, <1>2, <1>3, <1>22, NextIn, Zenon
  <1>24. next.at = a + n BY <1>8, <1>22, Zenon DEF Moved
  <1>25. next.at = RunStarts(k, t)[next.run - 1] /\ ViewsUpto(new, next.at, Lengths(t), ViewPlacesOf(k, t))
    BY <1>7, <1>20, <1>23, <1>24, Zenon
  <1>. QED BY <1>1, <1>21, <1>23, <1>25, Zenon DEF ViewsPhase

Viewed(m, t, limit) == (\A i \in 1..Len(t) : ViewedAt(m, i - 1) = t[i]) /\ Within(m, limit)

LEMMA ViewsRunEnd ==
    ASSUME NEW t, AreTexts(t), NEW k, IsDict(k, t), NEW limit \in Int,
           NEW m, NEW lp, NEW ca, ViewsPhase(m, lp, ca, k, t, limit), ~(lp.run <= Len(k.runs))
    PROVE  Viewed(m, t, limit)
  <1>1. PICK c \in Nat : c = Len(k.runs) BY RunsAre
  <1>2. /\ lp.run \in 1..(c + 1) /\ lp.at = RunStarts(k, t)[lp.run - 1]
        /\ ViewsUpto(m, lp.at, Lengths(t), ViewPlacesOf(k, t))
        /\ TextsUpto(m, k.strings, VStart(t), Len(k.strings)) /\ Within(m, limit)
    BY <1>1, Zenon DEF ViewsPhase, DictionaryPhase
  <1>3. lp.run - 1 = c BY <1>1, <1>2
  <1>4. RunStarts(k, t)[Len(k.runs)] = Len(t) BY RunsAre
  <1>5. ViewsUpto(m, Len(t), Lengths(t), ViewPlacesOf(k, t)) BY <1>1, <1>2, <1>3, <1>4, Zenon
  <1>6. \A i \in 1..Len(t) : ViewedAt(m, i - 1) = t[i] BY <1>2, <1>5, ViewsRead
  <1>. QED BY <1>2, <1>6, Zenon DEF Viewed

\* WriteRowViews for the strings k keeps.
RowsViewed(new, m, ca, k, n) == new = Put(m, 0, Words(FlattenSeq([i \in 1..n |-> ViewFor(ca, k.codes[i])])))

LEMMA ViewsOfRows ==
    ASSUME NEW t, AreTexts(t), NEW k, IsDict(k, t), NEW limit \in Int, ViewFits(t, limit),
           NEW m, NEW ca, DictionaryPhase(m, ca, k, t, limit),
           NEW new, RowsViewed(new, m, ca, k, Len(t))
    PROVE  Viewed(new, t, limit)
  <1>1. PICK n \in Nat : n = Len(t) BY PlacesAre
  <1>2. PICK x : x = [i \in 1..n |-> Lengths(t)[i]] OBVIOUS
  <1>3. PICK y : y = [i \in 1..n |-> ViewPlacesOf(k, t)[i]] OBVIOUS
  <1>4. x \in [1..n -> Nat] /\ y \in [1..n -> Nat]
    <2>1. ASSUME NEW i \in 1..n PROVE Lengths(t)[i] \in Nat /\ ViewPlacesOf(k, t)[i] \in Nat
      <3>1. i \in 1..Len(t) BY <1>1
      <3>2. Lengths(t)[i] = Len(t[i]) /\ t[i] \in Seq(Nat) /\ ViewPlacesOf(k, t)[i] \in Nat BY <3>1, ViewPlacesAre
      <3>. QED BY <3>2
    <2>. QED BY <1>2, <1>3, <2>1
  <1>5. \A i \in 1..n : ViewFor(ca, k.codes[i]) = <<x[i], y[i]>>
    <2>1. ASSUME NEW i \in 1..n PROVE ViewFor(ca, k.codes[i]) = <<x[i], y[i]>>
      <3>1. i \in 1..Len(t) BY <1>1
      <3>2. /\ k.codes[i] \in 0..(Len(k.strings) - 1) /\ k.strings[k.codes[i] + 1] = t[i]
            /\ Lengths(t)[i] = Len(t[i])
            /\ ViewPlacesOf(k, t)[i] = VStart(t) + TextPlaces(k.strings)[k.codes[i]]
        <4>1. k.codes[i] \in 0..(Len(k.strings) - 1) /\ k.strings[k.codes[i] + 1] = t[i] /\ Lengths(t)[i] = Len(t[i])
          BY <3>1, ViewPlacesAre
        <4>2. ViewPlacesOf(k, t)[i] = VStart(t) + TextPlaces(k.strings)[k.codes[i]] BY <3>1, Zenon DEF ViewPlacesOf
        <4>. QED BY <4>1, <4>2
      <3>3. PICK code : code = k.codes[i] OBVIOUS
      <3>4. code \in DOMAIN ca.views /\ ca.views[code] = <<Len(k.strings[code + 1]), VStart(t) + TextPlaces(k.strings)[code]>>
        BY <3>2, <3>3, Zenon DEF DictionaryPhase, ViewsKnown
      <3>5. x[i] = Lengths(t)[i] /\ y[i] = ViewPlacesOf(k, t)[i] BY <1>2, <1>3, Zenon
      <3>. QED BY <3>2, <3>3, <3>4, <3>5, Zenon DEF ViewFor
    <2>. QED BY <2>1
  <1>6. ViewsPut(new, m, 0, n, x, y)
    <2>1. PairsOf(n, x, y) = [i \in 1..n |-> ViewFor(ca, k.codes[i])] BY <1>5 DEF PairsOf
    <2>2. ViewBytes * 0 = 0 BY ViewIs
    <2>. QED BY <1>1, <2>1, <2>2, Zenon DEF RowsViewed, ViewsPut
  <1>7. ViewsUpto(new, n, Lengths(t), ViewPlacesOf(k, t))
    <2>1. 0 \in Nat /\ n \in 0..n /\ 0 + n = n OBVIOUS
    <2>2. ViewsUpto(m, 0, Lengths(t), ViewPlacesOf(k, t))
      <3>1. 1..0 = {} OBVIOUS
      <3>. QED BY <3>1, Zenon DEF ViewsUpto
    <2>3. \A i \in 1..n : Lengths(t)[0 + i] = x[i] /\ ViewPlacesOf(k, t)[0 + i] = y[i]
      <3>1. \A i \in 1..n : 0 + i = i OBVIOUS
      <3>. QED BY <1>2, <1>3, <3>1, Zenon
    <2>4. ViewsUpto(new, 0 + n, Lengths(t), ViewPlacesOf(k, t)) BY <1>4, <1>6, <2>1, <2>2, <2>3, ViewsNext
    <2>. QED BY <2>1, <2>4, Zenon
  <1>8. DictionaryPhase(new, ca, k, t, limit)
    <2>1. 0 \in Nat /\ 0 + n <= Len(t) + RunViews BY <1>1, SlotIs
    <2>2. Beside(m, new, ViewBytes * 0, ViewBytes * (0 + n)) /\ Grown(m, new, ViewBytes * 0, ViewBytes * (0 + n))
      BY <1>4, <1>6, <2>1, ViewPlaces
    <2>. QED BY <2>1, <2>2, DictionaryStays
  <1>9. TextsUpto(new, k.strings, VStart(t), Len(k.strings)) /\ Within(new, limit) BY <1>8, Zenon DEF DictionaryPhase
  <1>10. \A i \in 1..Len(t) : ViewedAt(new, i - 1) = t[i]
    <2>1. ViewsUpto(new, Len(t), Lengths(t), ViewPlacesOf(k, t)) BY <1>1, <1>7, Zenon
    <2>. QED BY <1>9, <2>1, ViewsRead
  <1>. QED BY <1>9, <1>10, Zenon DEF Viewed

---------------------------------------------------------------------------
(* A compressed column, and what is decompressed of it *)

\* A column of a block keeps n rows: their values and the bitmap of those that are set.
IsColumn(k, nm, type, t, present, n) ==
    /\ n \in Nat \ {0} /\ present \in Seq(BOOLEAN) /\ Len(present) = n /\ nm = Nullmap(present)
    /\ type \in {"STRING", "INTEGER"} /\ Len(t) = n
    /\ type = "STRING" => AreTexts(t) /\ IsKept(k, t) /\ \A j \in 1..n : ~present[j] => t[j] = <<>>
    /\ type = "INTEGER" => t \in Seq(Int) /\ k.scheme = "numbers" /\ k.memory = Words(t)

\* What the caller allocates (Allocated), and the size of the data (DecompressedDataSize).
Room(wy, k, n, set) ==
    SimdExtra + (IF wy = "view" \/ k.scheme = "numbers"
                 THEN IF k.scheme = "numbers" THEN SlotBytes * n ELSE GetDecompressedSizeNoCopy(k, n, set) + 8
                 ELSE GetDecompressedSize(k, n, set) + 8)

RoomOf(wy, k, nm, n) == Room(wy, k, n, SetRows(nm, n))

\* What is read of a row (ReadAt), and what was kept of it.
RowRead(m, wy, k, i) ==
    IF k.scheme = "numbers" THEN <<Word(m, SlotBytes * (i - 1))>>
    ELSE IF wy = "view" /\ k.scheme \in {"DICT", "ONE_VALUE"} THEN ViewedAt(m, i - 1)
    ELSE StringAt(m, i - 1)

RowKept(k, t, i) == IF k.scheme = "numbers" THEN <<t[i]>> ELSE t[i]

ReadsBack(m, wy, k, t, present) ==
    \A i \in 1..Len(t) : present[i] => RowRead(m, wy, k, i) = RowKept(k, t, i)

LEMMA SetLength ==
    ASSUME NEW n \in Nat \ {0}, NEW t, AreTexts(t), Len(t) = n,
           NEW present \in Seq(BOOLEAN), Len(present) = n, NEW nm, nm = Nullmap(present),
           NEW s \in Seq(Nat), \A k \in 1..n : t[k] = s,
           \A k \in 1..n : ~present[k] => t[k] = <<>>
    PROVE  SetRows(nm, n) * Len(s) = TextPlaces(t)[n]
  <1>1. PICK count \in Nat : count = SetRows(nm, n) /\ ((\A i \in 1..n : present[i]) => count = n) BY SetRowsAre
  <1>2. TextPlaces(t)[n] = n * Len(s) BY AllPlaces
  <1>3. CASE \A i \in 1..n : present[i] BY <1>1, <1>2, <1>3, Zenon
  <1>4. CASE ~(\A i \in 1..n : present[i])
    <2>1. s = <<>> BY <1>4, Zenon
    <2>2. Len(s) = 0 BY <2>1
    <2>. QED BY <1>1, <1>2, <2>2
  <1>. QED BY <1>3, <1>4

\* The schemes are told apart by their names.
LEMMA KeptSchemes ==
    ASSUME NEW k, NEW t, IsKept(k, t)
    PROVE  /\ k.scheme \in {"UNCOMPRESSED", "FSST", "DICTIONARY_8", "DICT", "ONE_VALUE"}
           /\ k.scheme = "UNCOMPRESSED" => IsPlain(k, t)
           /\ k.scheme = "FSST" => IsFsst(k, t)
           /\ k.scheme = "DICTIONARY_8" => IsFixed(k, t)
           /\ k.scheme = "DICT" => IsDict(k, t)
           /\ k.scheme = "ONE_VALUE" => IsOne(k, t)
           /\ k.scheme # "ONE_VALUE" => k.totalSize = Total(t)
  <1>1. CASE IsPlain(k, t) BY <1>1, Zenon DEF IsPlain
  <1>2. CASE IsFsst(k, t) BY <1>2, Zenon DEF IsFsst
  <1>3. CASE IsFixed(k, t) BY <1>3, Zenon DEF IsFixed
  <1>4. CASE IsDict(k, t) BY <1>4, Zenon DEF IsDict
  <1>5. CASE IsOne(k, t) BY <1>5, Zenon DEF IsOne
  <1>. QED BY <1>1, <1>2, <1>3, <1>4, <1>5, Zenon DEF IsKept

\* The room the caller makes for a column of strings.
LEMMA RoomIs ==
    ASSUME NEW k, NEW nm, NEW t, NEW present, NEW n, IsColumn(k, nm, "STRING", t, present, n),
           NEW wy \in {"view", "copy"}, NEW limit, limit = RoomOf(wy, k, nm, n)
    PROVE  /\ limit \in Int
           /\ ~(wy = "view" /\ k.scheme = "DICT") /\ k.scheme # "ONE_VALUE" => limit = SimdExtra + Total(t) + 8
           /\ wy = "copy" /\ k.scheme = "DICT" => CopyFits(t, limit)
           /\ wy = "view" /\ k.scheme = "DICT" => ViewFits(t, limit)
           /\ k.scheme = "ONE_VALUE" =>
                IF wy = "copy" THEN limit = SimdExtra + SlotsSize(n) + SetRows(nm, n) * Len(k.value) + 8
                ELSE limit = SimdExtra + n * ViewBytes + Len(k.value) + 8
           /\ Total(t) \in Nat
  <1>1. /\ n \in Nat \ {0} /\ present \in Seq(BOOLEAN) /\ Len(present) = n /\ nm = Nullmap(present)
        /\ Len(t) = n /\ AreTexts(t) /\ IsKept(k, t)
    BY Zenon DEF IsColumn
  <1>2. PICK x \in Nat : x = SimdExtra BY SlotIs
  <1>3. PICK set \in Nat : set = SetRows(nm, n) BY <1>1, SetRowsAre
  <1>4. limit = Room(wy, k, n, set) BY <1>3, Zenon DEF RoomOf
  <1>5. PICK e \in Nat : e = TextPlaces(t)[n] BY <1>1, PlacesAre
  <1>6. PICK s0 \in Nat : s0 = SlotsSize(n) BY <1>1, SlotsAre
  <1>7. Total(t) = s0 + e /\ s0 + e \in Nat BY <1>1, <1>5, <1>6 DEF Total
  <1>8. k.scheme # "numbers" BY <1>1, KeptSchemes
  <1>9. CASE k.scheme = "ONE_VALUE"
    <2>1. k.value \in Seq(Nat) BY <1>1, <1>9, KeptSchemes DEF IsOne
    <2>2. PICK len \in Nat : len = Len(k.value) BY <2>1
    <2>3. PICK vn \in Nat : vn = n * ViewBytes BY <1>1, ViewIs
    <2>4. set * len \in Nat BY Z3
    <2>5. GetDecompressedSize(k, n, set) = s0 + set * len BY <1>6, <1>9, <2>2 DEF GetDecompressedSize
    <2>6. GetDecompressedSizeNoCopy(k, n, set) = vn + len BY <1>9, <2>2, <2>3 DEF GetDecompressedSizeNoCopy
    <2>7. PICK y \in Nat : y = set * len BY <2>4
    <2>8. wy = "copy" => limit = x + (s0 + y + 8) BY <1>2, <1>4, <1>8, <2>5, <2>7 DEF Room
    <2>9. wy = "view" => limit = x + (vn + len + 8) BY <1>2, <1>4, <1>8, <2>6 DEF Room
    <2>10. limit \in Int /\ (wy = "copy" => limit = x + s0 + y + 8) /\ (wy = "view" => limit = x + vn + len + 8)
      BY <2>8, <2>9
    <2>. QED BY <1>2, <1>3, <1>6, <1>7, <1>9, <2>2, <2>3, <2>7, <2>10
  <1>10. CASE k.scheme = "DICT"
    <2>1. k.totalSize = s0 + e BY <1>1, <1>7, <1>10, KeptSchemes
    <2>2. GetDecompressedSize(k, n, set) = s0 + e BY <1>10, <2>1 DEF GetDecompressedSize
    <2>3. PICK vs \in Nat : vs = VStart(t) BY <1>1, VStartIs
    <2>4. GetDecompressedSizeNoCopy(k, n, set) = e + vs
      <3>1. (n + RunViews) * ViewBytes = vs BY <1>1, <2>3, Zenon DEF VStart
      <3>2. GetDecompressedSizeNoCopy(k, n, set) = (s0 + e) - s0 + vs
        BY <1>6, <1>10, <2>1, <3>1 DEF GetDecompressedSizeNoCopy
      <3>. QED BY <3>2
    <2>5. wy = "copy" => limit = x + (s0 + e + 8) BY <1>2, <1>4, <1>8, <2>2 DEF Room
    <2>6. wy = "view" => limit = x + (e + vs + 8) BY <1>2, <1>4, <1>8, <2>4 DEF Room
    <2>7. wy = "copy" => CopyFits(t, limit)
      <3>1. Start0(t) = s0 + x BY <1>1, <1>2, <1>6, Zenon DEF Start0
      <3>2. wy = "copy" => (s0 + x) + e + 8 <= limit BY <2>5
      <3>. QED BY <1>1, <1>5, <3>1, <3>2, Zenon DEF CopyFits
    <2>8. wy = "view" => ViewFits(t, limit)
      <3>1. wy = "view" => vs + e + 8 <= limit BY <2>6
      <3>. QED BY <1>1, <1>5, <2>3, <3>1, Zenon DEF ViewFits
    <2>9. limit \in Int /\ (wy = "copy" => limit = x + (s0 + e) + 8) BY <2>5, <2>6
    <2>. QED BY <1>2, <1>7, <1>10, <2>7, <2>8, <2>9
  <1>11. CASE k.scheme \in {"UNCOMPRESSED", "FSST", "DICTIONARY_8"}
    <2>1. k.totalSize = s0 + e BY <1>1, <1>7, <1>11, KeptSchemes
    <2>2. GetDecompressedSize(k, n, set) = s0 + e BY <1>11, <2>1 DEF GetDecompressedSize
    <2>3. GetDecompressedSizeNoCopy(k, n, set) = s0 + e BY <1>11, <2>1 DEF GetDecompressedSizeNoCopy
    <2>4. limit = x + (s0 + e + 8) BY <1>2, <1>4, <1>8, <2>2, <2>3 DEF Room
    <2>5. limit \in Int /\ limit = x + (s0 + e) + 8 BY <2>4
    <2>. QED BY <1>2, <1>7, <1>11, <2>5
  <1>. QED BY <1>1, <1>9, <1>10, <1>11, KeptSchemes

\* The steps of a column's decompression.
States == {"decompressing", "offsets", "strings", "fsstruns", "runviews", "rowviews", "read", "threw"}

Runs0(wy, k, way0) == wy = way0 /\ k.scheme = "DICT"

\* The runs of a dictionary were not kept as such.
Missed(k, t) == k.scheme = "DICT" /\ k.byRuns /\ RunsMayBeLost(Len(t), Len(k.runs))

Working(state, wy, m, lp, ca, k, t, present, limit) ==
    /\ IsCache(ca) /\ LoopIs(lp) /\ lp.at \in 0..Len(t) /\ Within(m, limit)
    /\ state = "decompressing" => m = <<>> /\ lp = NoLoop
    /\ state = "offsets" => Runs0(wy, k, "copy") /\ OffsetsPhase(m, lp, ca, k, t, limit)
    /\ state = "strings" => Runs0(wy, k, "copy") /\ CopiesPhase(m, lp, ca, k, t, limit)
    /\ state = "fsstruns" => Runs0(wy, k, "copy") /\ FsstPhase(m, lp, ca, k, t, limit)
    /\ state = "runviews" => Runs0(wy, k, "view") /\ ViewsPhase(m, lp, ca, k, t, limit)
    /\ state = "rowviews" => Runs0(wy, k, "view") /\ DictionaryPhase(m, ca, k, t, limit)
    /\ state = "read" => ReadsBack(m, wy, k, t, present)
    /\ state = "threw" => Missed(k, t)

\* What is stored as slots and strings reads back, and so does what is viewed.
LEMMA StoredReads ==
    ASSUME NEW t, AreTexts(t), NEW m, NEW start \in Nat, Stored(m, t, start),
           NEW wy, NEW k, k.scheme # "numbers", ~(wy = "view" /\ k.scheme \in {"DICT", "ONE_VALUE"}), NEW present
    PROVE  ReadsBack(m, wy, k, t, present)
  <1>1. \A i \in 1..Len(t) : StringAt(m, i - 1) = t[i] BY StoredRead
  <1>. QED BY <1>1, Zenon DEF ReadsBack, RowRead, RowKept

LEMMA ViewedReads ==
    ASSUME NEW t, NEW m, \A i \in 1..Len(t) : ViewedAt(m, i - 1) = t[i],
           NEW k, k.scheme \in {"DICT", "ONE_VALUE"}, NEW present
    PROVE  ReadsBack(m, "view", k, t, present)
  <1>1. k.scheme # "numbers" OBVIOUS
  <1>. QED BY <1>1, Zenon DEF ReadsBack, RowRead, RowKept

LEMMA ReadState ==
    ASSUME NEW ca, IsCache(ca), NEW lp, LoopIs(lp), NEW t, lp.at \in 0..Len(t), NEW m, NEW limit, Within(m, limit),
           NEW wy, NEW k, NEW present, ReadsBack(m, wy, k, t, present)
    PROVE  Working("read", wy, m, lp, ca, k, t, present, limit)
  BY Zenon DEF Working

LEMMA ThrewState ==
    ASSUME NEW ca, IsCache(ca), NEW lp, LoopIs(lp), NEW t, lp.at \in 0..Len(t), NEW m, NEW limit, Within(m, limit),
           NEW wy, NEW k, NEW present, Missed(k, t)
    PROVE  Working("threw", wy, m, lp, ca, k, t, present, limit)
  BY Zenon DEF Working

\* A column is of strings, or it is of numbers.
LEMMA ColumnOf ==
    ASSUME NEW k, NEW nm, NEW type, NEW t, NEW present, NEW n, IsColumn(k, nm, type, t, present, n)
    PROVE  /\ k.scheme # "numbers" => type = "STRING"
           /\ k.scheme = "numbers" => type = "INTEGER"
           /\ n \in Nat \ {0} /\ Len(t) = n
  <1>1. type = "STRING" => k.scheme # "numbers"
    <2>1. type = "STRING" => IsKept(k, t) BY Zenon DEF IsColumn
    <2>. QED BY <2>1, KeptSchemes
  <1>. QED BY <1>1, Zenon DEF IsColumn

\* Numbers are read where they were put.
LEMMA NumbersRead ==
    ASSUME NEW k, NEW nm, NEW t, NEW present, NEW n, IsColumn(k, nm, "INTEGER", t, present, n),
           NEW wy, NEW limit, limit = RoomOf(wy, k, nm, n)
    PROVE  ReadsBack(k.memory, wy, k, t, present) /\ Within(k.memory, limit) /\ limit \in Int
  <1>1. n \in Nat \ {0} /\ Len(t) = n /\ t \in Seq(Int) /\ k.scheme = "numbers" /\ k.memory = Words(t)
    BY Zenon DEF IsColumn
  <1>2. /\ \A j \in 0..(n - 1) : HasWord(k.memory, SlotBytes * j, t[j + 1])
        /\ SlotBytes * n \in Nat /\ DOMAIN k.memory = 0..(SlotBytes * n - 1)
    <2>1. n \in Nat /\ DOMAIN t = 1..n BY <1>1
    <2>2. /\ \A j \in 0..(n - 1) : HasWord(Words(t), SlotBytes * j, t[j + 1])
          /\ SlotBytes * n \in Nat /\ DOMAIN Words(t) = 0..(SlotBytes * n - 1)
      BY <1>1, <2>1, WordsAlone
    <2>. QED BY <1>1, <2>2, Zenon
  <1>3. ASSUME NEW i \in 1..n PROVE Word(k.memory, SlotBytes * (i - 1)) = t[i]
    <2>1. PICK j \in Nat : j = i - 1 /\ j \in 0..(n - 1) /\ j + 1 = i
      <3>1. i - 1 \in Nat /\ i - 1 \in 0..(n - 1) /\ (i - 1) + 1 = i BY <1>1
      <3>. QED BY <3>1
    <2>2. SlotBytes * j \in Int BY SlotIs
    <2>3. HasWord(k.memory, SlotBytes * j, t[i]) BY <1>2, <2>1
    <2>4. Word(k.memory, SlotBytes * j) = t[i] BY <2>2, <2>3, WordRead
    <2>. QED BY <2>1, <2>4
  <1>4. ReadsBack(k.memory, wy, k, t, present) BY <1>1, <1>3, Zenon DEF ReadsBack, RowRead, RowKept
  <1>5. PICK c \in Nat : c = SlotBytes * n BY <1>2
  <1>6. limit = SimdExtra + c BY <1>1, <1>5, Zenon DEF RoomOf, Room
  <1>7. limit \in Int /\ c <= limit BY <1>6, SlotIs
  <1>8. Within(k.memory, limit)
    <2>1. \A a \in 0..(c - 1) : a \in Nat /\ a < limit BY <1>7
    <2>. QED BY <1>2, <1>5, <2>1, Zenon DEF Within
  <1>. QED BY <1>4, <1>7, <1>8

\* Strings that were not compressed.
LEMMA PlainReads ==
    ASSUME NEW k, NEW nm, NEW t, NEW present, NEW n, IsColumn(k, nm, "STRING", t, present, n),
           k.scheme = "UNCOMPRESSED", NEW wy \in {"view", "copy"}, NEW limit, limit = RoomOf(wy, k, nm, n)
    PROVE  ReadsBack(k.memory, wy, k, t, present) /\ Within(k.memory, limit)
  <1>1. AreTexts(t) /\ IsKept(k, t) BY Zenon DEF IsColumn
  <1>2. IsPlain(k, t) BY <1>1, KeptSchemes
  <1>3. Stored(k.memory, t, SlotsSize(Len(t))) /\ \A a \in DOMAIN k.memory : a \in 0..(Total(t) - 1)
    BY <1>2, Zenon DEF IsPlain
  <1>4. PICK s0 \in Nat : s0 = SlotsSize(Len(t)) BY <1>1, PlacesAre, SlotsAre
  <1>5. ReadsBack(k.memory, wy, k, t, present)
    <2>1. Stored(k.memory, t, s0) /\ k.scheme # "numbers" /\ ~(wy = "view" /\ k.scheme \in {"DICT", "ONE_VALUE"})
      BY <1>3, <1>4
    <2>. QED BY <1>1, <2>1, StoredReads
  <1>6. limit \in Int /\ limit = SimdExtra + Total(t) + 8 /\ Total(t) \in Nat BY RoomIs
  <1>7. PICK c \in Nat : c = Total(t) BY <1>6
  <1>8. \A a \in 0..(c - 1) : a \in Nat /\ a < limit BY <1>6, <1>7, SlotIs
  <1>9. Within(k.memory, limit) BY <1>3, <1>7, <1>8, Zenon DEF Within
  <1>. QED BY <1>5, <1>9

\* FSST.
FsstAll(m, k, n) == FsstDecompressed(Put(m, 0, Words(k.offsets)), SlotsSize(n), k.text)

LEMMA FsstReads ==
    ASSUME NEW k, NEW nm, NEW t, NEW present, NEW n, IsColumn(k, nm, "STRING", t, present, n),
           k.scheme = "FSST", NEW wy \in {"view", "copy"}, NEW limit, limit = RoomOf(wy, k, nm, n),
           NEW m, Within(m, limit)
    PROVE  /\ SlotsSize(n) + Len(k.text) = k.totalSize
           /\ ReadsBack(FsstAll(m, k, n), wy, k, t, present) /\ Within(FsstAll(m, k, n), limit)
  <1>1. AreTexts(t) /\ IsKept(k, t) /\ Len(t) = n /\ n \in Nat BY Zenon DEF IsColumn
  <1>2. IsFsst(k, t) BY <1>1, KeptSchemes
  <1>3. PICK s0 \in Nat : s0 = SlotsSize(n) BY <1>1, SlotsAre
  <1>4. limit \in Int /\ Total(t) + 8 <= limit
    <2>1. limit \in Int /\ limit = SimdExtra + Total(t) + 8 /\ Total(t) \in Nat BY RoomIs
    <2>. QED BY <2>1, SlotIs
  <1>5. /\ SlotsSize(Len(t)) + Len(k.text) = k.totalSize
        /\ Stored(FsstDecompressed(Put(m, 0, Words(k.offsets)), SlotsSize(Len(t)), k.text), t, SlotsSize(Len(t)))
        /\ Within(FsstDecompressed(Put(m, 0, Words(k.offsets)), SlotsSize(Len(t)), k.text), limit)
    BY <1>1, <1>2, <1>4, FsstRead, Zenon
  <1>6. PICK new : new = FsstAll(m, k, n) OBVIOUS
  <1>7. Stored(new, t, s0) /\ Within(new, limit) /\ SlotsSize(n) + Len(k.text) = k.totalSize
    BY <1>1, <1>3, <1>5, <1>6, Zenon DEF FsstAll
  <1>8. ReadsBack(new, wy, k, t, present)
    <2>1. k.scheme # "numbers" /\ ~(wy = "view" /\ k.scheme \in {"DICT", "ONE_VALUE"}) OBVIOUS
    <2>. QED BY <1>1, <1>7, <2>1, StoredReads
  <1>. QED BY <1>6, <1>7, <1>8, Zenon

\* ONE_VALUE, viewed.
OneViewed(m, k, nm, n) ==
    IF nm.type = "ALLZEROS" THEN m
    ELSE Put(Put(m, 0, Words(ViewsOfOne(n, k.value))), n * ViewBytes, Characters(k.value))

LEMMA OneViewReads ==
    ASSUME NEW k, NEW nm, NEW t, NEW present, NEW n, IsColumn(k, nm, "STRING", t, present, n),
           k.scheme = "ONE_VALUE", NEW limit, limit = RoomOf("view", k, nm, n),
           NEW m, Within(m, limit)
    PROVE  ReadsBack(OneViewed(m, k, nm, n), "view", k, t, present) /\ Within(OneViewed(m, k, nm, n), limit)
  <1>1. AreTexts(t) /\ IsKept(k, t) /\ Len(t) = n /\ n \in Nat \ {0} /\ n \in Nat /\ present \in Seq(BOOLEAN)
        /\ Len(present) = n /\ nm = Nullmap(present)
    BY DEF IsColumn
  <1>2. k.value \in Seq(Nat) /\ \A j \in 1..n : t[j] = k.value BY <1>1, KeptSchemes DEF IsOne
  <1>3. limit \in Int /\ limit = SimdExtra + n * ViewBytes + Len(k.value) + 8 BY RoomIs
  <1>4. CASE nm.type = "ALLZEROS"
    <2>1. \A i \in 1..n : ~present[i] BY <1>1, <1>4, NullmapIs
    <2>2. OneViewed(m, k, nm, n) = m BY <1>4, Zenon DEF OneViewed
    <2>3. ReadsBack(m, "view", k, t, present) BY <1>1, <2>1, Zenon DEF ReadsBack
    <2>. QED BY <2>2, <2>3, Zenon
  <1>5. CASE nm.type # "ALLZEROS"
    <2>1. PICK s \in Seq(Nat) : s = k.value BY <1>2
    <2>3. PICK two : OneViewWritten(two, m, n, s) BY Zenon DEF OneViewWritten
    <2>4. OneViewFits(n, s, limit)
      <3>1. PICK x \in Nat : x = SimdExtra BY SlotIs
      <3>2. PICK vn \in Nat : vn = n * ViewBytes BY <1>1, ViewIs
      <3>3. PICK len \in Nat : len = Len(s) OBVIOUS
      <3>4. limit = x + vn + len + 8 BY <1>3, <2>1, <3>1, <3>2, <3>3
      <3>5. vn + len + x <= limit BY <3>4
      <3>. QED BY <3>1, <3>2, <3>3, <3>5, Zenon DEF OneViewFits
    <2>5. (\A i \in 1..n : ViewedAt(two, i - 1) = s) /\ Within(two, limit) BY <1>1, <1>3, <2>3, <2>4, OneViewRead
    <2>6. OneViewed(m, k, nm, n) = two BY <1>5, <2>1, <2>3, Zenon DEF OneViewed, OneViewWritten
    <2>7. ReadsBack(two, "view", k, t, present)
      <3>1. \A i \in 1..Len(t) : ViewedAt(two, i - 1) = t[i] BY <1>1, <1>2, <2>1, <2>5, Zenon
      <3>. QED BY <3>1, ViewedReads
    <2>. QED BY <2>5, <2>6, <2>7, Zenon
  <1>. QED BY <1>4, <1>5

\* ONE_VALUE, copied.
LEMMA OneCopyReads ==
    ASSUME NEW t, NEW present, NEW n, tuples = n, IsColumn(kept, map, "STRING", t, present, n),
           kept.scheme = "ONE_VALUE", NEW limit, limit = RoomOf("copy", kept, map, n), Within(memory, limit)
    PROVE  ReadsBack(OneCopied, "copy", kept, t, present) /\ Within(OneCopied, limit)
  <1>1. PICK nm : nm = map OBVIOUS
  <1>2. /\ AreTexts(t) /\ IsKept(kept, t) /\ Len(t) = n /\ n \in Nat \ {0} /\ present \in Seq(BOOLEAN)
        /\ Len(present) = n /\ nm = Nullmap(present) /\ \A j \in 1..n : ~present[j] => t[j] = <<>>
    BY <1>1, Zenon DEF IsColumn
  <1>3. kept.value \in Seq(Nat) /\ \A j \in 1..n : t[j] = kept.value BY <1>2, KeptSchemes, Zenon DEF IsOne
  <1>4. PICK s \in Seq(Nat) : s = kept.value BY <1>3
  <1>5. limit \in Int /\ limit = SimdExtra + SlotsSize(n) + SetRows(nm, n) * Len(s) + 8 BY <1>1, <1>4, RoomIs
  <1>6. SlotsSize(n) + SimdExtra + SetRows(nm, n) * Len(s) <= limit
    <2>1. PICK x \in Nat : x = SimdExtra BY SlotIs
    <2>2. PICK s0 \in Nat : s0 = SlotsSize(n) BY <1>2, SlotsAre
    <2>3. PICK set \in Nat : set = SetRows(nm, n) BY <1>2, SetRowsAre
    <2>4. PICK len \in Nat : len = Len(s) OBVIOUS
    <2>5. set * len \in Nat BY Z3
    <2>6. PICK y \in Nat : y = set * len BY <2>5
    <2>7. limit = x + s0 + y + 8 BY <1>5, <2>1, <2>2, <2>3, <2>4, <2>6
    <2>8. s0 + x + y <= limit BY <2>7
    <2>. QED BY <2>1, <2>2, <2>3, <2>4, <2>6, <2>8
  <1>7. map = nm /\ kept.value = s /\ \A k \in 1..n : t[k] = s BY <1>1, <1>3, <1>4, Zenon
  <1>10. OneOf(n, nm, present, s) BY <1>2, <1>7, Zenon DEF OneOf
  <1>8. /\ \A i \in 1..n : present[i] => StringAt(OneCopied, i - 1) = t[i]
        /\ Within(OneCopied, limit)
    BY <1>2, <1>5, <1>6, <1>7, <1>10, OneCopyRead
  <1>9. ReadsBack(OneCopied, "copy", kept, t, present)
    <2>1. kept.scheme # "numbers" /\ "copy" # "view" OBVIOUS
    <2>. QED BY <1>2, <1>8, <2>1, Zenon DEF ReadsBack, RowRead, RowKept
  <1>. QED BY <1>8, <1>9

\* Row by row: the slots, and the strings behind them.
LEMMA RowsRead ==
    ASSUME NEW t, NEW present, NEW n, tuples = n, IsColumn(kept, map, "STRING", t, present, n),
           Names(strings, kept.codes, t),
           NEW wy, ~(wy = "view" /\ kept.scheme \in {"DICT", "ONE_VALUE"}),
           NEW start \in Nat, SlotsSize(n) <= start, NEW fsst,
           NEW limit \in Int, Within(memory, limit), start + TextPlaces(t)[n] + 8 <= limit
    PROVE  /\ ReadsBack(RowByRow(start, fsst).memory, wy, kept, t, present)
           /\ Within(RowByRow(start, fsst).memory, limit)
           /\ RowByRow(start, fsst).write = start + TextPlaces(t)[n]
  <1>1. AreTexts(t) /\ Len(t) = n /\ n \in Nat /\ IsKept(kept, t) BY DEF IsColumn
  <1>2. PICK end : end = RowByRow(start, fsst) OBVIOUS
  <1>3. Stored(end.memory, t, start) /\ Within(end.memory, limit) /\ end.write = start + TextPlaces(t)[n]
    <2>1. /\ Stored(RowByRow(start, fsst).memory, t, start)
          /\ Within(RowByRow(start, fsst).memory, limit)
          /\ RowByRow(start, fsst).write = start + TextPlaces(t)[n]
      BY <1>1, RowByRowRead
    <2>. QED BY <1>2, <2>1, Zenon
  <1>4. kept.scheme # "numbers" BY <1>1, KeptSchemes
  <1>5. ReadsBack(end.memory, wy, kept, t, present) BY <1>1, <1>3, <1>4, StoredReads
  <1>. QED BY <1>2, <1>3, <1>5, Zenon

LEMMA FixedReads ==
    ASSUME NEW t, NEW present, NEW n, tuples = n, IsColumn(kept, map, "STRING", t, present, n),
           kept.scheme = "DICTIONARY_8", NEW wy \in {"view", "copy"}, NEW limit, limit = RoomOf(wy, kept, map, n),
           Within(memory, limit)
    PROVE  /\ ReadsBack(RowByRow(SlotsSize(tuples), FALSE).memory, wy, kept, t, present)
           /\ Within(RowByRow(SlotsSize(tuples), FALSE).memory, limit)
  <1>1. AreTexts(t) /\ Len(t) = n /\ n \in Nat /\ IsKept(kept, t) BY DEF IsColumn
  <1>2. Names(strings, kept.codes, t) BY <1>1, KeptSchemes, Zenon DEF IsFixed, strings
  <1>3. PICK start \in Nat : start = SlotsSize(n) /\ SlotsSize(n) <= start
    <2>1. PICK s0 \in Nat : s0 = SlotsSize(n) BY <1>1, SlotsAre
    <2>. QED BY <2>1
  <1>4. limit \in Int /\ start + TextPlaces(t)[n] + 8 <= limit
    <2>1. limit \in Int /\ limit = SimdExtra + Total(t) + 8 BY RoomIs
    <2>2. PICK e \in Nat : e = TextPlaces(t)[n] BY <1>1, PlacesAre
    <2>3. Total(t) = start + e BY <1>1, <1>3, <2>2 DEF Total
    <2>. QED BY <2>1, <2>2, <2>3, SlotIs
  <1>5. ~(wy = "view" /\ kept.scheme \in {"DICT", "ONE_VALUE"}) OBVIOUS
  <1>6. /\ ReadsBack(RowByRow(start, FALSE).memory, wy, kept, t, present)
        /\ Within(RowByRow(start, FALSE).memory, limit)
    BY <1>2, <1>3, <1>4, <1>5, RowsRead
  <1>7. start = SlotsSize(tuples) BY <1>3
  <1>. QED BY <1>6, <1>7, Zenon

LEMMA CodesRead ==
    ASSUME NEW t, NEW present, NEW n, tuples = n, IsColumn(kept, map, "STRING", t, present, n),
           kept.scheme = "DICT", NEW limit, limit = RoomOf("copy", kept, map, n), Within(memory, limit), NEW fsst
    PROVE  LET end == RowByRow(SlotsSize(tuples) + SimdExtra, fsst) IN
           /\ ReadsBack(end.memory, "copy", kept, t, present)
           /\ Within(end.memory, limit)
           /\ end.write - SimdExtra = kept.totalSize
  <1>1. AreTexts(t) /\ Len(t) = n /\ n \in Nat /\ IsKept(kept, t) BY DEF IsColumn
  <1>2. Names(strings, kept.codes, t) BY <1>1, KeptSchemes, Zenon DEF IsDict, strings
  <1>3. PICK s0 \in Nat : s0 = SlotsSize(n) BY <1>1, SlotsAre
  <1>4. PICK start \in Nat : start = s0 + SimdExtra /\ SlotsSize(n) <= start
    <2>1. s0 + SimdExtra \in Nat /\ s0 <= s0 + SimdExtra BY SlotIs
    <2>. QED BY <1>3, <2>1
  <1>5. PICK e \in Nat : e = TextPlaces(t)[n] BY <1>1, PlacesAre
  <1>6. limit \in Int /\ start + e + 8 <= limit
    <2>1. limit \in Int /\ CopyFits(t, limit) BY RoomIs
    <2>2. Start0(t) = start BY <1>1, <1>3, <1>4, Zenon DEF Start0
    <2>. QED BY <1>1, <1>5, <2>1, <2>2, Zenon DEF CopyFits
  <1>7. ~("copy" = "view" /\ kept.scheme \in {"DICT", "ONE_VALUE"}) OBVIOUS
  <1>8. PICK end : end = RowByRow(start, fsst) OBVIOUS
  <1>9. /\ ReadsBack(end.memory, "copy", kept, t, present)
        /\ Within(end.memory, limit) /\ end.write = start + e
    <2>1. start + TextPlaces(t)[n] + 8 <= limit /\ limit \in Int BY <1>5, <1>6, Zenon
    <2>2. /\ ReadsBack(RowByRow(start, fsst).memory, "copy", kept, t, present)
          /\ Within(RowByRow(start, fsst).memory, limit)
          /\ RowByRow(start, fsst).write = start + TextPlaces(t)[n]
      <3>1. SlotsSize(n) <= start /\ Within(memory, limit) BY <1>4
      <3>. QED BY <1>2, <1>7, <2>1, <3>1, Zenon, RowsRead
    <2>. QED BY <1>5, <1>8, <2>2, Zenon
  <1>10. end.write - SimdExtra = kept.totalSize
    <2>1. Total(t) = s0 + e BY <1>1, <1>3, <1>5 DEF Total
    <2>2. kept.totalSize = Total(t) BY <1>1, KeptSchemes
    <2>3. (start + e) - SimdExtra = s0 + e BY <1>4, SlotIs
    <2>. QED BY <1>9, <2>1, <2>2, <2>3
  <1>11. end = RowByRow(SlotsSize(tuples) + SimdExtra, fsst) BY <1>3, <1>4, <1>8, Zenon
  <1>. QED BY <1>9, <1>10, <1>11, Zenon

\* The size of the data that is reported is that of the strings.
LEMMA DataIs ==
    ASSUME NEW k, NEW nm, NEW t, NEW present, NEW n, IsColumn(k, nm, "STRING", t, present, n)
    PROVE  GetTotalLength(k, n, SetRows(nm, n)) = TextPlaces(t)[n]
  <1>1. /\ AreTexts(t) /\ IsKept(k, t) /\ Len(t) = n /\ n \in Nat \ {0} /\ present \in Seq(BOOLEAN)
        /\ Len(present) = n /\ nm = Nullmap(present) /\ \A j \in 1..n : ~present[j] => t[j] = <<>>
    BY Zenon DEF IsColumn
  <1>2. CASE k.scheme = "ONE_VALUE"
    <2>1. k.value \in Seq(Nat) /\ \A j \in 1..n : t[j] = k.value BY <1>1, <1>2, KeptSchemes, Zenon DEF IsOne
    <2>2. SetRows(nm, n) * Len(k.value) = TextPlaces(t)[n] BY <1>1, <2>1, SetLength
    <2>. QED BY <1>2, <2>2, Zenon DEF GetTotalLength
  <1>3. CASE k.scheme # "ONE_VALUE"
    <2>1. PICK e \in Nat : e = TextPlaces(t)[n] BY <1>1, PlacesAre
    <2>2. PICK s0 \in Nat : s0 = SlotsSize(n) BY <1>1, SlotsAre
    <2>3. k.totalSize = s0 + e
      <3>1. k.totalSize = Total(t) BY <1>1, <1>3, KeptSchemes
      <3>. QED BY <1>1, <2>1, <2>2, <3>1, Zenon DEF Total
    <2>4. (s0 + e) - s0 = e OBVIOUS
    <2>. QED BY <1>3, <2>1, <2>2, <2>3, <2>4, Zenon DEF GetTotalLength
  <1>. QED BY <1>2, <1>3

---------------------------------------------------------------------------
(* The columns of a table *)

LEMMA KeptFieldsAre ==
    ASSUME NEW tb \in Tables
    PROVE  /\ IsSequence(Fields(tb)) /\ \A i \in 1..Len(Fields(tb)) :
                Fields(tb)[i] \in Nat \ {0} /\ tb.types[Fields(tb)[i]] \in {"STRING", "INTEGER"}
           /\ tb.rows \in Seq(Seq(Cells))
           /\ Len(Fields(tb)) # 0 => \A r \in 1..Len(tb.rows) : Fields(tb)[1] <= Len(tb.rows[r])
  <1>1. /\ tb.types \in Seq({"STRING", "INTEGER", "SKIP"}) /\ tb.rows \in Seq(Seq(Cells))
        /\ Fields(tb) # <<>> => \A i \in DOMAIN tb.rows : Fields(tb)[1] <= Len(tb.rows[i])
    BY TablesAssumption, Zenon
  <1>2. PICK s : s = {i \in DOMAIN tb.types : tb.types[i] # "SKIP"} OBVIOUS
  <1>3. s \subseteq Nat \ {0} /\ s \subseteq Nat /\ \A i \in s : tb.types[i] \in {"STRING", "INTEGER"} BY <1>1, <1>2
  <1>4. IsFiniteSet(s)
    <2>1. s \subseteq 1..Len(tb.types) /\ IsFiniteSet(1..Len(tb.types)) BY <1>1, <1>2, FS_Interval
    <2>. QED BY <2>1, FS_Subset
  <1>5. PICK n \in Nat : Fields(tb) \in [1..n -> s]
    <2>1. Cardinality(s) \in Nat /\ Ranked(s, <) \in [1..Cardinality(s) -> s] BY <1>3, <1>4, RankedNumbers
    <2>2. Fields(tb) = Ranked(s, <) BY <1>2, Zenon DEF Fields
    <2>. QED BY <2>1, <2>2, Zenon
  <1>6. PICK f : f = Fields(tb) OBVIOUS
  <1>7. f \in Seq(s) /\ Len(f) = n /\ f \in [1..n -> s] BY <1>5, <1>6
  <1>8. IsSequence(f) BY <1>7, Zenon DEF IsSequence
  <1>9. \A i \in 1..n : f[i] \in Nat \ {0} /\ tb.types[f[i]] \in {"STRING", "INTEGER"} BY <1>3, <1>7
  <1>10. n # 0 => \A r \in 1..Len(tb.rows) : f[1] <= Len(tb.rows[r]) BY <1>1, <1>6, <1>7
  <1>11. Len(f) = n BY <1>7
  <1>12. \A i \in 1..Len(f) : f[i] \in Nat \ {0} /\ tb.types[f[i]] \in {"STRING", "INTEGER"} BY <1>9, <1>11, Zenon
  <1>13. Len(f) # 0 => \A r \in 1..Len(tb.rows) : f[1] <= Len(tb.rows[r]) BY <1>10, <1>11, Zenon
  <1>14. IsSequence(Fields(tb)) BY <1>6, <1>8, Zenon
  <1>15. \A i \in 1..Len(Fields(tb)) :
           Fields(tb)[i] \in Nat \ {0} /\ tb.types[Fields(tb)[i]] \in {"STRING", "INTEGER"}
    BY <1>6, <1>12, Zenon
  <1>16. Len(Fields(tb)) # 0 => \A r \in 1..Len(tb.rows) : Fields(tb)[1] <= Len(tb.rows[r]) BY <1>6, <1>13, Zenon
  <1>. QED BY <1>1, <1>14, <1>15, <1>16, Zenon

\* A column holds the cells of the rows it is as long as.
IsCellOf(c, tb, f, j) ==
    /\ f <= Len(tb.rows[j]) /\ c.present[j] = IsSet(c.type, tb.rows[j][f])
    /\ c.values[j] = ValueOf(c.type, tb.rows[j][f])

FourParts(type, field, values, present) ==
    [type |-> type, field |-> field, values |-> values, present |-> present]

ValueSet(type) == IF type = "STRING" THEN Seq(Nat) ELSE Int

IsFilled(c, tb, f, r) ==
    /\ c = FourParts(c.type, f, c.values, c.present) /\ c.field = f
    /\ c.type = tb.types[f] /\ c.type \in {"STRING", "INTEGER"}
    /\ c.values \in Seq(ValueSet(c.type)) /\ c.present \in Seq(BOOLEAN)
    /\ Len(c.values) = Len(c.present) /\ Len(c.present) <= r
    /\ Len(c.present) = r => \A j \in 1..r : IsCellOf(c, tb, f, j)

LEMMA FilledStart ==
    ASSUME NEW tb, NEW f, tb.types[f] \in {"STRING", "INTEGER"}, NEW c, c = FourParts(tb.types[f], f, <<>>, <<>>)
    PROVE  IsFilled(c, tb, f, 0) /\ Len(c.present) = 0
  <1>1. c.type = tb.types[f] /\ c.field = f /\ c.values = <<>> /\ c.present = <<>> BY DEF FourParts
  <1>2. <<>> \in Seq(ValueSet(c.type)) /\ <<>> \in Seq(BOOLEAN) /\ Len(<<>>) = 0 /\ 0 <= 0 /\ 1..0 = {} OBVIOUS
  <1>3. \A j \in 1..0 : IsCellOf(c, tb, f, j) BY <1>2
  <1>. QED BY <1>1, <1>2, <1>3, Zenon DEF IsFilled

WithCell(c, cell) ==
    [c EXCEPT !.values = Append(@, ValueOf(c.type, cell)), !.present = Append(@, IsSet(c.type, cell))]

RowAdded(new, c, tb, f, r) ==
    new = IF ~(f <= Len(tb.rows[r + 1])) THEN c ELSE WithCell(c, tb.rows[r + 1][f])

LEMMA FilledNext ==
    ASSUME NEW tb, tb.rows \in Seq(Seq(Cells)), NEW f \in Nat \ {0}, NEW r \in Nat, r < Len(tb.rows),
           NEW c, IsFilled(c, tb, f, r), NEW new, RowAdded(new, c, tb, f, r)
    PROVE  /\ IsFilled(new, tb, f, r + 1)
           /\ f <= Len(tb.rows[r + 1]) => Len(new.present) = Len(c.present) + 1
  <1>1. PICK ty, va, pr : ty = c.type /\ va = c.values /\ pr = c.present OBVIOUS
  <1>2. /\ c = FourParts(ty, f, va, pr) /\ ty = tb.types[f] /\ ty \in {"STRING", "INTEGER"}
        /\ va \in Seq(ValueSet(ty)) /\ pr \in Seq(BOOLEAN) /\ Len(va) = Len(pr) /\ Len(pr) <= r
        /\ c.field = f
    BY <1>1, Zenon DEF IsFilled
  <1>3. Len(pr) = r => \A j \in 1..r : IsCellOf(c, tb, f, j) BY <1>1, Zenon DEF IsFilled
  <1>4. PICK len \in Nat : len = Len(pr) /\ len = Len(va) /\ len <= r BY <1>2
  <1>5. CASE ~(f <= Len(tb.rows[r + 1]))
    <2>1. new = c BY <1>5, Zenon DEF RowAdded
    <2>2. len # r + 1 /\ len <= r + 1 BY <1>4
    <2>3. IsFilled(c, tb, f, r + 1) BY <1>1, <1>2, <1>4, <2>2, Zenon DEF IsFilled
    <2>. QED BY <1>5, <2>1, <2>3, Zenon
  <1>6. CASE f <= Len(tb.rows[r + 1])
    <2>1. PICK cell : cell = tb.rows[r + 1][f] OBVIOUS
    <2>2. cell \in Cells
      <3>1. tb.rows[r + 1] \in Seq(Cells) BY DEF Cells
      <3>. QED BY <1>6, <2>1, <3>1
    <2>3. PICK v : v = ValueOf(ty, cell) OBVIOUS
    <2>4. PICK b : b = IsSet(ty, cell) OBVIOUS
    <2>5. v \in ValueSet(ty)
      <3>1. CASE ty = "STRING" BY <2>2, <2>3, <3>1 DEF ValueSet, ValueOf, Cells
      <3>2. CASE ty # "STRING"
        <4>1. NullCode \in Int /\ cell.number \in Int BY <2>2 DEF NullCode, Cells
        <4>. QED BY <2>3, <3>2, <4>1, Zenon DEF ValueSet, ValueOf
      <3>. QED BY <3>1, <3>2
    <2>6. b \in BOOLEAN BY <2>2, <2>4 DEF IsSet, Cells
    <2>7. PICK va2 : va2 = Append(va, v) OBVIOUS
    <2>8. PICK pr2 : pr2 = Append(pr, b) OBVIOUS
    <2>9. /\ va2 \in Seq(ValueSet(ty)) /\ Len(va2) = len + 1 /\ va2[len + 1] = v
          /\ \A j \in 1..len : va2[j] = va[j]
      <3>1. /\ Append(va, v) \in Seq(ValueSet(ty)) /\ Len(Append(va, v)) = Len(va) + 1
            /\ Append(va, v)[Len(va) + 1] = v
            /\ \A j \in 1..Len(va) : Append(va, v)[j] = va[j]
        BY <1>2, <2>5, AppendProperties
      <3>. QED BY <1>4, <2>7, <3>1, Zenon
    <2>10. /\ pr2 \in Seq(BOOLEAN) /\ Len(pr2) = len + 1 /\ pr2[len + 1] = b
           /\ \A j \in 1..len : pr2[j] = pr[j]
      BY <1>2, <1>4, <2>6, <2>8
    <2>11. new = FourParts(ty, f, va2, pr2)
      <3>1. new = [c EXCEPT !.values = Append(@, v), !.present = Append(@, b)]
        BY <1>1, <1>6, <2>1, <2>3, <2>4, Zenon DEF RowAdded, WithCell
      <3>. QED BY <1>2, <2>7, <2>8, <3>1 DEF FourParts
    <2>12. new.type = ty /\ new.field = f /\ new.values = va2 /\ new.present = pr2 BY <2>11 DEF FourParts
    <2>13. len + 1 = r + 1 => \A j \in 1..(r + 1) : IsCellOf(new, tb, f, j)
      <3>. SUFFICES ASSUME len + 1 = r + 1, NEW j \in 1..(r + 1) PROVE IsCellOf(new, tb, f, j) BY Zenon
      <3>1. len = r BY <1>4
      <3>2. CASE j = r + 1 BY <1>6, <2>1, <2>3, <2>4, <2>9, <2>10, <2>12, <3>1, <3>2, Zenon DEF IsCellOf
      <3>3. CASE j # r + 1
        <4>1. j \in 1..r /\ j \in 1..len BY <3>1, <3>3
        <4>2. IsCellOf(c, tb, f, j) BY <1>3, <1>4, <3>1, <4>1, Zenon
        <4>3. va2[j] = va[j] /\ pr2[j] = pr[j] BY <2>9, <2>10, <4>1, Zenon
        <4>. QED BY <1>1, <2>12, <4>2, <4>3, Zenon DEF IsCellOf
      <3>. QED BY <3>2, <3>3
    <2>14. len + 1 <= r + 1 BY <1>4
    <2>15. IsFilled(new, tb, f, r + 1) BY <1>2, <2>9, <2>10, <2>11, <2>12, <2>13, <2>14, Zenon DEF IsFilled
    <2>. QED BY <1>1, <1>4, <2>10, <2>12, <2>15, Zenon
  <1>. QED BY <1>5, <1>6

---------------------------------------------------------------------------
(* The invariant *)

NoBlock == {"idle", "converting", "relation", "failed"}

Columns(co, tb, r) ==
    /\ IsSequence(co) /\ Len(co) = Len(Fields(tb))
    /\ \A i \in 1..Len(co) : IsFilled(co[i], tb, Fields(tb)[i], r)
    /\ Len(co) # 0 => Len(co[1].present) = r

Full(co, tb, r) == r = Len(tb.rows) /\ \A i \in 1..Len(co) : Len(co[i].present) = r

\* The columns of the table, and the rows of the chunk.
TableIs ==
    /\ pc \in NoBlock \cup {"compressing", "compressed"} \cup States
    /\ row \in Nat /\ row <= Len(table.rows)
    /\ pc = "idle" => columns = <<>> /\ table.rows = <<>>
    /\ pc # "idle" => table \in Tables /\ config \in Configs /\ Columns(columns, table, row)
    /\ pc \notin {"idle", "converting", "failed"} => Full(columns, table, row)

RangeIs ==
    /\ pc \in NoBlock => range = NoRange /\ block = <<>> /\ column = 0 /\ layout = "chunks"
    /\ pc \notin NoBlock =>
          /\ columns # <<>> /\ range.offset \in Nat /\ range.count \in Nat \ {0}
          /\ range.offset + range.count <= row

\* A column of the block keeps its rows of the chunk.
Part(values, rg) == SubSeq(values, rg.offset + 1, rg.offset + rg.count)

Keeps(b, c, rg) == IsColumn(b.kept, b.nullmap, c.type, Part(c.values, rg), Part(c.present, rg), rg.count)

BlockIs ==
    /\ IsSequence(block) /\ Len(block) <= Len(columns)
    /\ \A i \in 1..Len(block) : Keeps(block[i], columns[i], range)
    /\ pc \notin NoBlock \cup {"compressing"} => Len(block) = Len(columns)

\* Every column starts where the one before ends, behind the header, and ends at the size of the datablock.
Lies(bl, header) ==
    \A i \in 1..Len(bl) :
        /\ bl[i].offset \in Nat /\ bl[i].end \in Nat
        /\ header <= bl[i].offset
        /\ i > 1 => bl[i].offset = bl[i - 1].end

LayoutIs ==
    layout = "datablock" =>
        /\ Lies(block, HeaderSize)
        /\ block = <<>> => size = HeaderSize
        /\ block # <<>> => size = block[Len(block)].end /\ HeaderSize <= size
        /\ size \in Nat

\* How far the decompression of a column is.
Decompressing(state, wy, m, lp, ca, b, c, rg) ==
    Working(state, wy, m, lp, ca, b.kept, Part(c.values, rg), Part(c.present, rg),
            RoomOf(wy, b.kept, b.nullmap, rg.count))

ColumnOpen ==
    /\ column \in Nat /\ column <= Len(block)
    /\ pc \in States <=> column # 0
    /\ IsCache(cache)
    /\ column = 0 => memory = <<>> /\ loop = NoLoop
    /\ column # 0 => way \in {"view", "copy"}
                     /\ Decompressing(pc, way, memory, loop, cache, block[column], columns[column], range)

IInv == TableIs /\ RangeIs /\ BlockIs /\ LayoutIs /\ ColumnOpen

\* States are told apart by their names.
LEMMA StateNames ==
    /\ \A s \in NoBlock : s \notin States /\ s \notin {"compressing", "compressed"}
    /\ "compressing" \notin States /\ "compressed" \notin States
  BY DEF NoBlock, States

LEMMA NoCacheIs == IsCache(NoCache) /\ LoopIs(NoLoop)
  BY DEF IsCache, FourFields, NoCache, LoopIs, NoLoop

LEMMA InitInv == Init => IInv
  <1>. SUFFICES ASSUME Init PROVE IInv OBVIOUS
  <1>. USE DEF Init
  <1>1. TableIs
    <2>1. table.rows = <<>> /\ row = 0 /\ Len(<<>>) = 0 BY DEF NoTable
    <2>2. row \in Nat /\ row <= Len(table.rows) BY <2>1
    <2>. QED BY <2>1, <2>2 DEF TableIs, NoBlock
  <1>2. RangeIs BY DEF RangeIs, NoBlock
  <1>3. BlockIs
    <2>1. Len(block) = 0 /\ Len(columns) = 0 /\ IsSequence(block) BY EmptyIs
    <2>. QED BY <2>1 DEF BlockIs, NoBlock
  <1>4. LayoutIs BY DEF LayoutIs
  <1>5. ColumnOpen
    <2>1. Len(block) = 0 BY EmptyIs
    <2>2. "idle" \notin States BY DEF States
    <2>. QED BY <2>1, <2>2, NoCacheIs DEF ColumnOpen
  <1>. QED BY <1>1, <1>2, <1>3, <1>4, <1>5, Zenon DEF IInv

---------------------------------------------------------------------------
(* The steps of the conversion *)

\* With nothing compressed or decompressed the rest is as it was.
LEMMA NothingOpen ==
    ASSUME IInv, pc \in NoBlock, pc' \in NoBlock,
           UNCHANGED <<range, layout, block, size, column, way, memory, loop, cache>>,
           TableIs', Len(block) <= Len(columns')
    PROVE  IInv'
  <1>1. block = <<>> /\ column = 0 /\ layout = "chunks" /\ range = NoRange BY Zenon DEF IInv, RangeIs
  <1>2. RangeIs' BY <1>1 DEF RangeIs
  <1>3. Len(block) = 0 /\ IsSequence(block) BY <1>1, EmptyIs
  <1>4. BlockIs' BY <1>3 DEF BlockIs
  <1>5. LayoutIs' BY <1>1 DEF LayoutIs
  <1>6. ColumnOpen'
    <2>1. IsCache(cache) /\ memory = <<>> /\ loop = NoLoop BY <1>1, Zenon DEF IInv, ColumnOpen
    <2>2. pc' \notin States BY StateNames
    <2>3. IsCache(cache') BY <2>1
    <2>4. column' = 0 /\ 0 <= Len(block') /\ memory' = <<>> /\ loop' = NoLoop BY <1>1, <1>3, <2>1
    <2>. QED BY <2>2, <2>3, <2>4 DEF ColumnOpen
  <1>. QED BY <1>2, <1>4, <1>5, <1>6, Zenon DEF IInv

LEMMA StartConvertStep == IInv /\ StartConvert => IInv'
  <1>. SUFFICES ASSUME IInv, StartConvert PROVE IInv' OBVIOUS
  <1>1. PICK tb \in Tables :
          /\ table' = tb
          /\ columns' = [i \in DOMAIN Fields(tb) |->
                         [type |-> tb.types[Fields(tb)[i]], field |-> Fields(tb)[i],
                          values |-> <<>>, present |-> <<>>]]
    BY DEF StartConvert
  <1>2. /\ pc = "idle" /\ config' \in Configs /\ pc' = "converting" /\ row' = 0
        /\ UNCHANGED <<range, layout, block, size, column, way, memory, loop, cache>>
    BY DEF StartConvert
  <1>3. PICK co : co = columns' OBVIOUS
  <1>4. IsSequence(Fields(tb)) /\ Len(Fields(tb)) \in Nat /\ DOMAIN Fields(tb) = 1..Len(Fields(tb))
    BY KeptFieldsAre, SequenceIs
  <1>5. PICK n \in Nat : n = Len(Fields(tb)) BY <1>4
  <1>6. co = [i \in 1..n |-> FourParts(tb.types[Fields(tb)[i]], Fields(tb)[i], <<>>, <<>>)]
    BY <1>1, <1>3, <1>4, <1>5, Zenon DEF FourParts
  <1>7. IsSequence(co) /\ Len(co) = n BY <1>6, SequenceFrom
  <1>8. ASSUME NEW i \in 1..n PROVE IsFilled(co[i], tb, Fields(tb)[i], 0) /\ Len(co[i].present) = 0
    <2>1. co[i] = FourParts(tb.types[Fields(tb)[i]], Fields(tb)[i], <<>>, <<>>) BY <1>6
    <2>2. tb.types[Fields(tb)[i]] \in {"STRING", "INTEGER"} BY <1>5, KeptFieldsAre
    <2>. QED BY <2>1, <2>2, FilledStart
  <1>9. Columns(co, tb, 0)
    <2>1. Len(co) # 0 => 1 \in 1..n BY <1>7
    <2>. QED BY <1>5, <1>7, <1>8, <2>1, Zenon DEF Columns
  <1>10. TableIs'
    <2>1. Len(tb.rows) \in Nat BY KeptFieldsAre
    <2>2. row' \in Nat /\ row' <= Len(table'.rows) BY <1>1, <1>2, <2>1
    <2>3. Columns(columns', table', row') BY <1>1, <1>2, <1>3, <1>9
    <2>. QED BY <1>1, <1>2, <2>2, <2>3 DEF TableIs, NoBlock
  <1>11. Len(block) <= Len(columns')
    <2>1. block = <<>> BY <1>2 DEF IInv, RangeIs, NoBlock
    <2>. QED BY <1>3, <1>7, <2>1
  <1>12. pc \in NoBlock /\ pc' \in NoBlock BY <1>2 DEF NoBlock
  <1>. QED BY <1>2, <1>10, <1>11, <1>12, NothingOpen

LEMMA ReadDirectoryStep == IInv /\ ReadDirectory => IInv'
  <1>. SUFFICES ASSUME IInv, ReadDirectory PROVE IInv' OBVIOUS
  <1>1. /\ pc = "converting" /\ row = Len(table.rows)
        /\ pc' = IF SameLength THEN "relation" ELSE "failed"
        /\ UNCHANGED <<table, config, row, columns, range, layout, block, size, column, way, memory, loop, cache>>
    BY DEF ReadDirectory
  <1>2. Columns(columns, table, row) /\ table \in Tables /\ config \in Configs
        /\ row \in Nat /\ row <= Len(table.rows)
    BY <1>1 DEF IInv, TableIs
  <1>3. SameLength => Full(columns, table, row)
    <2>. SUFFICES ASSUME SameLength PROVE Full(columns, table, row) OBVIOUS
    <2>1. DOMAIN columns = 1..Len(columns) /\ Len(columns) \in Nat BY <1>2, SequenceIs DEF Columns
    <2>2. ASSUME NEW i \in 1..Len(columns) PROVE Len(columns[i].present) = row
      <3>1. Len(columns) # 0 BY <2>1
      <3>2. Len(columns[1].present) = row BY <1>2, <3>1, Zenon DEF Columns
      <3>3. Len(columns[i].present) = Len(columns[1].present) BY <2>1, Zenon DEF SameLength
      <3>. QED BY <3>2, <3>3
    <2>. QED BY <1>1, <2>2, Zenon DEF Full
  <1>4. Columns(columns', table', row') /\ (SameLength => Full(columns', table', row')) BY <1>1, <1>2, <1>3
  <1>5. TableIs'
    <2>1. pc' \in {"relation", "failed"} /\ (pc' = "relation" => SameLength) BY <1>1
    <2>2. row' \in Nat /\ row' <= Len(table'.rows) /\ table' \in Tables /\ config' \in Configs BY <1>1, <1>2
    <2>. QED BY <1>4, <2>1, <2>2 DEF TableIs, NoBlock
  <1>6. Len(block) <= Len(columns') BY <1>1 DEF IInv, BlockIs
  <1>7. pc \in NoBlock /\ pc' \in NoBlock BY <1>1 DEF NoBlock
  <1>. QED BY <1>1, <1>5, <1>6, <1>7, NothingOpen

LEMMA ConvertRowStep == IInv /\ ConvertRow => IInv'
  <1>. SUFFICES ASSUME IInv, ConvertRow PROVE IInv' OBVIOUS
  <1>1. /\ pc = "converting" /\ row < Len(table.rows)
        /\ UNCHANGED <<table, config, range, layout, block, size, column, way, memory, loop, cache>>
    BY DEF ConvertRow
  <1>2. Columns(columns, table, row) /\ table \in Tables /\ config \in Configs
        /\ row \in Nat /\ row <= Len(table.rows)
    BY <1>1 DEF IInv, TableIs
  <1>3. pc \in NoBlock /\ block = <<>> BY <1>1 DEF IInv, RangeIs, NoBlock
  <1>4. IsSequence(columns) /\ Len(columns) \in Nat /\ DOMAIN columns = 1..Len(columns) /\ Len(block) = 0
    BY <1>2, <1>3, SequenceIs, EmptyIs DEF Columns
  <1>5. CASE pc' = "failed" /\ UNCHANGED <<row, columns>>
    <2>1. Columns(columns', table', row') BY <1>1, <1>2, <1>5
    <2>2. TableIs' BY <1>1, <1>2, <1>5, <2>1 DEF TableIs, NoBlock
    <2>3. pc' \in NoBlock /\ Len(block) <= Len(columns') BY <1>4, <1>5 DEF NoBlock
    <2>. QED BY <1>1, <1>3, <2>2, <2>3, NothingOpen
  <1>6. CASE ~(pc' = "failed" /\ UNCHANGED <<row, columns>>)
    <2>1. PICK n \in Nat : n = Len(columns) BY <1>4
    <2>2. PICK co : co = columns' OBVIOUS
    <2>3. PICK tb \in Tables : tb = table BY <1>2
    <2>4. PICK r \in Nat : r = row /\ r < Len(tb.rows) BY <1>1, <1>2, <2>3
    <2>5. /\ row' = row + 1 /\ pc' = pc
          /\ columns' = [i \in DOMAIN columns |->
                           IF i \notin {k \in DOMAIN columns : columns[k].field <= Len(table.rows[row + 1])} THEN columns[i]
                           ELSE WithCell(columns[i], table.rows[row + 1][columns[i].field])]
      BY <1>6, Zenon DEF ConvertRow, WithCell
    <2>6. /\ co = [i \in 1..n |-> co[i]]
          /\ \A i \in 1..n : co[i] = IF ~(columns[i].field <= Len(tb.rows[r + 1])) THEN columns[i]
                                     ELSE WithCell(columns[i], tb.rows[r + 1][columns[i].field])
      <3>1. DOMAIN columns = 1..n BY <1>4, <2>1
      <3>2. co = [i \in 1..n |-> IF ~(columns[i].field <= Len(tb.rows[r + 1])) THEN columns[i]
                                 ELSE WithCell(columns[i], tb.rows[r + 1][columns[i].field])]
        BY <2>2, <2>3, <2>4, <2>5, <3>1
      <3>. QED BY <3>2, Zenon
    <2>7. IsSequence(co) /\ Len(co) = n BY <2>6, SequenceFrom
    <2>8. ASSUME NEW i \in 1..n
          PROVE  /\ IsFilled(co[i], tb, Fields(tb)[i], r + 1)
                 /\ Fields(tb)[i] <= Len(tb.rows[r + 1]) => Len(co[i].present) = Len(columns[i].present) + 1
      <3>1. IsFilled(columns[i], tb, Fields(tb)[i], r) BY <1>2, <2>1, <2>3, <2>4, Zenon DEF Columns
      <3>2. columns[i].field = Fields(tb)[i] BY <3>1, Zenon DEF IsFilled
      <3>3. RowAdded(co[i], columns[i], tb, Fields(tb)[i], r) BY <2>6, <3>2, Zenon DEF RowAdded
      <3>4. Fields(tb)[i] \in Nat \ {0} /\ tb.rows \in Seq(Seq(Cells))
        <4>1. i \in 1..Len(Fields(tb)) BY <1>2, <2>1, <2>3, Zenon DEF Columns
        <4>. QED BY <4>1, KeptFieldsAre
      <3>5. r < Len(tb.rows) BY <2>4
      <3>6. PICK f \in Nat \ {0} : f = Fields(tb)[i] BY <3>4
      <3>7. PICK c, new : c = columns[i] /\ new = co[i] OBVIOUS
      <3>8. IsFilled(c, tb, f, r) /\ RowAdded(new, c, tb, f, r) BY <3>1, <3>3, <3>6, <3>7, Zenon
      <3>9. /\ IsFilled(new, tb, f, r + 1)
            /\ f <= Len(tb.rows[r + 1]) => Len(new.present) = Len(c.present) + 1
        BY <3>4, <3>5, <3>8, FilledNext
      <3>. QED BY <3>6, <3>7, <3>9, Zenon
    <2>9. Columns(co, tb, r + 1)
      <3>1. Len(co) = Len(Fields(tb)) BY <1>2, <2>1, <2>3, <2>7, Zenon DEF Columns
      <3>2. ASSUME Len(co) # 0 PROVE Len(co[1].present) = r + 1
        <4>1. 1 \in 1..n /\ r + 1 \in 1..Len(tb.rows) BY <2>4, <2>7, <3>2, KeptFieldsAre
        <4>2. Fields(tb)[1] <= Len(tb.rows[r + 1]) BY <3>1, <3>2, <4>1, KeptFieldsAre
        <4>3. Len(columns[1].present) = r BY <1>2, <2>1, <2>3, <2>4, <2>7, <3>2, Zenon DEF Columns
        <4>. QED BY <2>8, <4>1, <4>2, <4>3, Zenon
      <3>. QED BY <2>7, <2>8, <3>1, <3>2, Zenon DEF Columns
    <2>10. TableIs'
      <3>1. row' \in Nat /\ row' <= Len(table'.rows)
        <4>1. Len(tb.rows) \in Nat BY KeptFieldsAre
        <4>2. row' = r + 1 /\ r + 1 <= Len(tb.rows) /\ table' = tb BY <1>1, <2>3, <2>4, <2>5, <4>1
        <4>. QED BY <4>2
      <3>2. Columns(columns', table', row') BY <1>1, <2>2, <2>3, <2>4, <2>5, <2>9
      <3>3. pc' = "converting" /\ table' \in Tables /\ config' \in Configs BY <1>1, <1>2, <2>5
      <3>. QED BY <3>1, <3>2, <3>3 DEF TableIs, NoBlock
    <2>11. pc' \in NoBlock /\ Len(block) <= Len(columns') BY <1>1, <1>4, <2>2, <2>5, <2>7 DEF NoBlock
    <2>. QED BY <1>1, <1>3, <2>10, <2>11, NothingOpen
  <1>. QED BY <1>5, <1>6

---------------------------------------------------------------------------
(* The steps of the compression *)

\* A chunk and its rows.
IsChunk(rg, r) == rg.offset \in Nat /\ rg.count \in Nat \ {0} /\ rg.offset + rg.count <= r

\* The rows of a column of strings, and of one of numbers.
LEMMA PartOfColumn ==
    ASSUME NEW tb \in Tables, NEW f \in Nat \ {0}, NEW r \in Nat, NEW c, IsFilled(c, tb, f, r), Len(c.present) = r,
           NEW rg, IsChunk(rg, r)
    PROVE  /\ c.type \in {"STRING", "INTEGER"}
           /\ Part(c.present, rg) \in Seq(BOOLEAN) /\ Len(Part(c.present, rg)) = rg.count
           /\ Len(Part(c.values, rg)) = rg.count
           /\ \A k \in 1..rg.count :
                /\ Part(c.present, rg)[k] = c.present[rg.offset + k] /\ rg.offset + k \in 1..r
                /\ Part(c.values, rg)[k] = c.values[rg.offset + k]
                /\ IsCellOf(c, tb, f, rg.offset + k)
           /\ c.type = "STRING" => AreTexts(Part(c.values, rg)) /\ AreTexts(c.values) /\ Len(c.values) = r
           /\ c.type = "STRING" => \A k \in 1..rg.count : ~Part(c.present, rg)[k] => Part(c.values, rg)[k] = <<>>
           /\ c.type = "INTEGER" => Part(c.values, rg) \in Seq(Int)
  <1>1. PICK va, pr : va = c.values /\ pr = c.present OBVIOUS
  <1>2. PICK S : S = ValueSet(c.type) OBVIOUS
  <1>3. /\ va \in Seq(S) /\ pr \in Seq(BOOLEAN) /\ Len(va) = r /\ Len(pr) = r
        /\ c.type \in {"STRING", "INTEGER"} /\ \A j \in 1..r : IsCellOf(c, tb, f, j)
    BY <1>1, <1>2, Zenon DEF IsFilled
  <1>4. PICK o \in Nat, n \in Nat \ {0} : o = rg.offset /\ n = rg.count /\ o + n <= r BY DEF IsChunk
  <1>5. PICK p : p = SubSeq(pr, o + 1, o + n) OBVIOUS
  <1>6. PICK t : t = SubSeq(va, o + 1, o + n) OBVIOUS
  <1>7. p \in Seq(BOOLEAN) /\ Len(p) = n /\ \A k \in 1..n : p[k] = pr[o + k] /\ o + k \in 1..r
    <2>1. o + n <= Len(pr) BY <1>3, <1>4
    <2>2. /\ SubSeq(pr, o + 1, o + n) \in Seq(BOOLEAN) /\ Len(SubSeq(pr, o + 1, o + n)) = n
          /\ \A k \in 1..n : SubSeq(pr, o + 1, o + n)[k] = pr[o + k] /\ o + k \in 1..Len(pr)
      BY <1>3, <2>1, PartIs
    <2>. QED BY <1>3, <1>5, <2>2, Zenon
  <1>8. t \in Seq(S) /\ Len(t) = n /\ \A k \in 1..n : t[k] = va[o + k]
    <2>1. o + n <= Len(va) BY <1>3, <1>4
    <2>2. /\ SubSeq(va, o + 1, o + n) \in Seq(S) /\ Len(SubSeq(va, o + 1, o + n)) = n
          /\ \A k \in 1..n : SubSeq(va, o + 1, o + n)[k] = va[o + k] /\ o + k \in 1..Len(va)
      BY <1>3, <2>1, PartIs
    <2>. QED BY <1>3, <1>6, <2>2, Zenon
  <1>9. p = Part(c.present, rg) /\ t = Part(c.values, rg) BY <1>1, <1>4, <1>5, <1>6, Zenon DEF Part
  <1>10. \A k \in 1..n : IsCellOf(c, tb, f, o + k) BY <1>3, <1>7, Zenon
  <1>11. c.type = "STRING" => S = Seq(Nat) BY <1>2 DEF ValueSet
  <1>12. c.type = "INTEGER" => S = Int BY <1>2 DEF ValueSet
  <1>13. ASSUME c.type = "STRING", NEW k \in 1..n, ~p[k] PROVE t[k] = <<>>
    <2>1. IsCellOf(c, tb, f, o + k) /\ o + k \in 1..r BY <1>7, <1>10, Zenon
    <2>2. PICK j \in 1..r : j = o + k BY <2>1
    <2>3. PICK cell : cell = tb.rows[j][f] OBVIOUS
    <2>4. p[k] = IsSet("STRING", cell) /\ t[k] = ValueOf("STRING", cell)
      <3>1. c.present[j] = IsSet(c.type, tb.rows[j][f]) /\ c.values[j] = ValueOf(c.type, tb.rows[j][f])
        BY <2>1, <2>2, Zenon DEF IsCellOf
      <3>2. p[k] = c.present[j] /\ t[k] = c.values[j] BY <1>1, <1>7, <1>8, <2>2, Zenon
      <3>3. c.present[j] = IsSet("STRING", cell) /\ c.values[j] = ValueOf("STRING", cell) BY <1>13, <2>3, <3>1, Zenon
      <3>. QED BY <3>2, <3>3
    <2>5. cell.null BY <1>13, <2>4 DEF IsSet
    <2>. QED BY <2>4, <2>5 DEF ValueOf
  <1>14. c.type = "STRING" => AreTexts(t) /\ AreTexts(va) BY <1>3, <1>8, <1>11, Zenon DEF AreTexts
  <1>15. c.type = "INTEGER" => t \in Seq(Int) BY <1>8, <1>12, Zenon
  <1>. QED BY <1>1, <1>3, <1>4, <1>7, <1>8, <1>9, <1>10, <1>13, <1>14, <1>15, Zenon

\* The chunk of a column of strings holds its rows.
ChunkOf(chunk, v, p, o, n) ==
    chunk.memory = StringChunk(v, o, n).memory /\ chunk.size = StringChunk(v, o, n).size /\ chunk.present = p

LEMMA ChunkHolds ==
    ASSUME NEW v, AreTexts(v), NEW o \in Nat, NEW n \in Nat \ {0}, o + n <= Len(v),
           NEW t, AreTexts(t), Len(t) = n, \A k \in 1..n : t[k] = v[o + k],
           NEW p \in Seq(BOOLEAN), Len(p) = n, \A k \in 1..n : ~p[k] => t[k] = <<>>,
           NEW chunk, ChunkOf(chunk, v, p, o, n)
    PROVE  Holds(chunk, t, p)
  <1>1. /\ Stored(StringChunk(v, o, n).memory, t, SlotsSize(n))
        /\ StringChunk(v, o, n).size = SlotsSize(n) + TextPlaces(t)[n]
        /\ \A a \in DOMAIN StringChunk(v, o, n).memory : a \in 0..(StringChunk(v, o, n).size - 1)
    <2>1. o + n <= Len(v) /\ Len(t) = n /\ \A k \in 1..n : t[k] = v[o + k] OBVIOUS
    <2>2. /\ Stored(StringChunk(v, o, n).memory, t, SlotsSize(n))
          /\ \A a \in DOMAIN StringChunk(v, o, n).memory : a \in 0..(StringChunk(v, o, n).size - 1)
      BY <2>1, ChunkReads, Zenon
    <2>3. StringChunk(v, o, n).size = SlotsSize(n) + TextPlaces(t)[n] BY <2>1, ChunkReads
    <2>. QED BY <2>2, <2>3
  <1>2. chunk.memory = StringChunk(v, o, n).memory /\ chunk.size = StringChunk(v, o, n).size /\ chunk.present = p
    BY Zenon DEF ChunkOf
  <1>3. chunk.size = Total(t) BY <1>1, <1>2, Zenon DEF Total
  <1>4. \A a \in DOMAIN chunk.memory : a \in 0..(Total(t) - 1) BY <1>1, <1>2, <1>3, Zenon
  <1>5. Len(t) # 0 OBVIOUS
  <1>. QED BY <1>1, <1>2, <1>3, <1>4, <1>5, Zenon DEF Holds

\* What KeptOf may return for a column.
MayKeep(k, chunk, c) ==
    IF c.type = "STRING"
    THEN \E scheme : /\ scheme \in Best(Stats(chunk)) \/ scheme \in {"UNCOMPRESSED", "DICT", "FSST"}
                     /\ k \in Compressed(scheme, chunk, Stats(chunk), config)
    ELSE k = [scheme |-> "numbers", memory |-> chunk.memory]

LEMMA MayKeepIs ==
    ASSUME config \in Configs, NEW i, NEW k \in KeptOf(i)
    PROVE  MayKeep(k, InputOf(i), columns[i])
  <1>1. PICK chunk : chunk = InputOf(i) OBVIOUS
  <1>2. config.enforced \in {"none", "UNCOMPRESSED", "DICT", "FSST"} BY ConfigAssumption, Zenon
  <1>3. CASE columns[i].type = "STRING"
    <2>1. k \in UNION {Compressed(scheme, chunk, Stats(chunk), config) : scheme \in ChooseScheme(Stats(chunk))}
      BY <1>1, <1>3, Zenon DEF KeptOf
    <2>2. PICK scheme \in ChooseScheme(Stats(chunk)) : k \in Compressed(scheme, chunk, Stats(chunk), config) BY <2>1
    <2>3. scheme \in Best(Stats(chunk)) \/ scheme \in {"UNCOMPRESSED", "DICT", "FSST"} BY <1>2, <2>2 DEF ChooseScheme
    <2>. QED BY <1>1, <1>3, <2>2, <2>3, Zenon DEF MayKeep
  <1>4. CASE columns[i].type # "STRING"
    <2>1. k \in {[scheme |-> "numbers", memory |-> chunk.memory]} BY <1>1, <1>4, Zenon DEF KeptOf
    <2>2. k = [scheme |-> "numbers", memory |-> chunk.memory] BY <2>1
    <2>. QED BY <1>1, <1>4, <2>2, Zenon DEF MayKeep
  <1>. QED BY <1>3, <1>4

\* What is kept of a column is a column of the block.
LEMMA KeptOfColumn ==
    ASSUME table \in Tables, config \in Configs, row \in Nat, NEW f \in Nat \ {0},
           NEW i, IsFilled(columns[i], table, f, row), Len(columns[i].present) = row, IsChunk(range, row),
           NEW k \in KeptOf(i), NEW b, b.kept = k, b.nullmap = Nullmap(PresentOf(i))
    PROVE  Keeps(b, columns[i], range)
  <1>1. PICK c : c = columns[i] OBVIOUS
  <1>2. PICK o \in Nat, n \in Nat \ {0} : o = range.offset /\ n = range.count /\ o + n <= row BY DEF IsChunk
  <1>3. PICK t, p : t = Part(c.values, range) /\ p = Part(c.present, range) OBVIOUS
  <1>4. /\ c.type \in {"STRING", "INTEGER"} /\ p \in Seq(BOOLEAN) /\ Len(p) = n /\ Len(t) = n
        /\ \A j \in 1..n : t[j] = c.values[o + j]
        /\ c.type = "STRING" => AreTexts(t) /\ AreTexts(c.values) /\ Len(c.values) = row
        /\ c.type = "STRING" => \A j \in 1..n : ~p[j] => t[j] = <<>>
        /\ c.type = "INTEGER" => t \in Seq(Int)
    <2>1. IsFilled(c, table, f, row) /\ Len(c.present) = row BY <1>1, Zenon
    <2>2. /\ c.type \in {"STRING", "INTEGER"}
          /\ Part(c.present, range) \in Seq(BOOLEAN) /\ Len(Part(c.present, range)) = range.count
          /\ Len(Part(c.values, range)) = range.count
          /\ \A j \in 1..range.count : Part(c.values, range)[j] = c.values[range.offset + j]
          /\ c.type = "STRING" => AreTexts(Part(c.values, range)) /\ AreTexts(c.values) /\ Len(c.values) = row
          /\ c.type = "STRING" => \A j \in 1..range.count : ~Part(c.present, range)[j] => Part(c.values, range)[j] = <<>>
          /\ c.type = "INTEGER" => Part(c.values, range) \in Seq(Int)
      BY <2>1, PartOfColumn
    <2>. QED BY <1>2, <1>3, <2>2, Zenon
  <1>5. PICK chunk : chunk = InputOf(i) OBVIOUS
  <1>6. MayKeep(k, chunk, c) BY <1>1, <1>5, MayKeepIs, Zenon
  <1>7. PresentOf(i) = p BY <1>1, <1>3, Zenon DEF PresentOf, Part
  <1>8. ASSUME c.type = "STRING" PROVE IsKept(k, t)
    <2>1. chunk = [memory |-> StringChunk(c.values, o, n).memory, size |-> StringChunk(c.values, o, n).size,
                   present |-> p]
      BY <1>1, <1>2, <1>5, <1>7, <1>8, Zenon DEF InputOf
    <2>2. ChunkOf(chunk, c.values, p, o, n) BY <2>1 DEF ChunkOf
    <2>3. Holds(chunk, t, p)
      <3>1. PICK v : v = c.values OBVIOUS
      <3>2. AreTexts(v) /\ o + n <= Len(v) /\ (\A j \in 1..n : t[j] = v[o + j]) /\ ChunkOf(chunk, v, p, o, n)
        BY <1>2, <1>4, <1>8, <2>2, <3>1
      <3>3. AreTexts(t) /\ \A j \in 1..n : ~p[j] => t[j] = <<>> BY <1>4, <1>8
      <3>. QED BY <1>4, <3>2, <3>3, ChunkHolds
    <2>4. PICK scheme : /\ scheme \in Best(Stats(chunk)) \/ scheme \in {"UNCOMPRESSED", "DICT", "FSST"}
                        /\ k \in Compressed(scheme, chunk, Stats(chunk), config)
      BY <1>6, <1>8, Zenon DEF MayKeep
    <2>. QED BY <2>3, <2>4, KeptIs, Zenon
  <1>9. ASSUME c.type = "INTEGER" PROVE k.scheme = "numbers" /\ k.memory = Words(t)
    <2>1. c.type # "STRING" BY <1>9
    <2>2. chunk = [memory |-> Words(SubSeq(c.values, o + 1, o + n)), size |-> SlotBytes * n, present |-> p]
      BY <1>1, <1>2, <1>5, <1>7, <2>1, Zenon DEF InputOf
    <2>3. t = SubSeq(c.values, o + 1, o + n) BY <1>2, <1>3, Zenon DEF Part
    <2>4. chunk.memory = Words(t) BY <2>2, <2>3
    <2>5. k = [scheme |-> "numbers", memory |-> chunk.memory] BY <1>6, <2>1, Zenon DEF MayKeep
    <2>. QED BY <2>4, <2>5
  <1>10. IsColumn(k, Nullmap(p), c.type, t, p, n) BY <1>4, <1>8, <1>9, Zenon DEF IsColumn
  <1>. QED BY <1>1, <1>2, <1>3, <1>7, <1>10, Zenon DEF Keeps

\* Once the rows are converted the table stays as it is.
LEMMA TableStays ==
    ASSUME IInv, pc \notin {"idle", "converting", "failed"}, UNCHANGED <<table, config, row, columns>>,
           pc' \in {"compressing", "compressed"} \cup States
    PROVE  TableIs'
  <1>1. /\ row \in Nat /\ row <= Len(table.rows) /\ table \in Tables /\ config \in Configs
        /\ Columns(columns, table, row) /\ Full(columns, table, row)
    BY DEF IInv, TableIs
  <1>2. /\ row' \in Nat /\ row' <= Len(table'.rows) /\ table' \in Tables /\ config' \in Configs
        /\ Columns(columns', table', row') /\ Full(columns', table', row')
    BY <1>1
  <1>3. pc' # "idle" BY DEF States
  <1>. QED BY <1>2, <1>3, Zenon DEF TableIs

LEMMA HeaderIs == ASSUME IsSequence(columns) PROVE HeaderSize \in Nat
  <1>1. PICK n \in Nat : n = 1 + Len(columns) BY SequenceIs
  <1>2. PICK x \in Nat : x = MetaSize BY SizeAssumption
  <1>3. x * n \in Nat BY Z3
  <1>. QED BY <1>1, <1>2, <1>3, Zenon DEF HeaderSize

\* The columns of a table that is compressed.
TableFull ==
    /\ table \in Tables /\ config \in Configs /\ row \in Nat /\ IsSequence(columns)
    /\ \A i \in 1..Len(columns) :
         /\ IsFilled(columns[i], table, Fields(table)[i], row) /\ Len(columns[i].present) = row
         /\ Fields(table)[i] \in Nat \ {0}

LEMMA TableFullIs ==
    ASSUME IInv, pc \notin {"idle", "converting", "failed"}
    PROVE  TableFull
  <1>1. Columns(columns, table, row) /\ Full(columns, table, row) /\ table \in Tables
        /\ config \in Configs /\ row \in Nat
    BY DEF IInv, TableIs
  <1>2. Len(columns) = Len(Fields(table)) /\ IsSequence(columns) BY <1>1, Zenon DEF Columns
  <1>3. \A i \in 1..Len(columns) : Fields(table)[i] \in Nat \ {0} BY <1>1, <1>2, KeptFieldsAre
  <1>4. \A i \in 1..Len(columns) : IsFilled(columns[i], table, Fields(table)[i], row) /\ Len(columns[i].present) = row
    BY <1>1, Zenon DEF Columns, Full
  <1>. QED BY <1>1, <1>2, <1>3, <1>4, Zenon DEF TableFull

LEMMA StartCompressStep == IInv /\ StartCompress => IInv'
  <1>. SUFFICES ASSUME IInv, StartCompress PROVE IInv' OBVIOUS
  <1>1. /\ pc \in {"relation", "read"} /\ columns # <<>>
        /\ \E k \in 0..(TupleCount - 1) : k * config.blockSize < TupleCount /\ range' = RangeAt(k * config.blockSize)
        /\ layout' \in {"datablock", "chunks"}
        /\ pc' = "compressing" /\ block' = <<>> /\ size' = HeaderSize
        /\ column' = 0 /\ memory' = <<>> /\ loop' = NoLoop
        /\ UNCHANGED <<table, config, row, columns, way, cache>>
    BY DEF StartCompress
  <1>2. TableFull /\ pc \notin {"idle", "converting", "failed"} BY <1>1, TableFullIs
  <1>3. /\ table \in Tables /\ config \in Configs /\ row \in Nat /\ IsSequence(columns)
        /\ \A i \in 1..Len(columns) : Len(columns[i].present) = row
    BY <1>2, Zenon DEF TableFull
  <1>4. Len(columns) \in Nat /\ Len(columns) # 0 BY <1>1, <1>3, SequenceIs
  <1>5. TupleCount = row
    <2>1. 1 \in 1..Len(columns) BY <1>4
    <2>. QED BY <1>3, <2>1, Zenon DEF TupleCount
  <1>6. TableIs'
    <2>1. pc' \in {"compressing", "compressed"} \cup States BY <1>1
    <2>. QED BY <1>1, <1>2, <2>1, TableStays
  <1>7. IsChunk(range', row)
    <2>1. PICK k \in 0..(row - 1) : k * config.blockSize < row /\ range' = RangeAt(k * config.blockSize)
      BY <1>1, <1>5, Zenon
    <2>2. PICK bs \in Nat \ {0} : bs = config.blockSize BY <1>3, ConfigAssumption
    <2>3. PICK j \in Nat : j = k BY <1>3
    <2>4. j * bs \in Nat BY Z3
    <2>5. PICK o \in Nat : o = j * bs BY <2>4
    <2>6. o < row /\ range' = RangeAt(o) BY <2>1, <2>2, <2>3, <2>5, Zenon
    <2>7. range' = [offset |-> o, count |-> IF o + bs >= row THEN row - o ELSE bs]
      BY <1>5, <2>2, <2>6, Zenon DEF RangeAt
    <2>. QED BY <1>3, <2>6, <2>7 DEF IsChunk
  <1>8. RangeIs'
    <2>1. range'.offset \in Nat /\ range'.count \in Nat \ {0} /\ range'.offset + range'.count <= row'
      BY <1>1, <1>7 DEF IsChunk
    <2>2. pc' \notin NoBlock BY <1>1, StateNames
    <2>3. columns' # <<>> BY <1>1
    <2>. QED BY <2>1, <2>2, <2>3 DEF RangeIs
  <1>9. Len(block') = 0 /\ IsSequence(block') BY <1>1, EmptyIs
  <1>10. BlockIs'
    <2>1. Len(columns') \in Nat BY <1>1, <1>4
    <2>. QED BY <1>1, <1>9, <2>1 DEF BlockIs
  <1>11. LayoutIs'
    <2>1. HeaderSize \in Nat BY <1>3, HeaderIs
    <2>2. Lies(block', HeaderSize') BY <1>9 DEF Lies
    <2>3. HeaderSize' = HeaderSize BY <1>1 DEF HeaderSize
    <2>. QED BY <1>1, <2>1, <2>2, <2>3 DEF LayoutIs
  <1>12. ColumnOpen'
    <2>1. IsCache(cache')
      <3>1. IsCache(cache) /\ cache' = cache BY <1>1 DEF IInv, ColumnOpen
      <3>. QED BY <3>1
    <2>2. pc' \notin States BY <1>1, StateNames
    <2>. QED BY <1>1, <1>9, <2>1, <2>2 DEF ColumnOpen
  <1>. QED BY <1>6, <1>8, <1>10, <1>11, <1>12, Zenon DEF IInv

\* One column more is compressed, behind the others.
LEMMA ColumnCompressed ==
    ASSUME IInv, pc = "compressing", Len(block) < Len(columns),
           UNCHANGED <<pc, table, config, row, columns, range, layout, column, way, memory, loop, cache>>,
           NEW k \in KeptOf(Len(block) + 1), NEW b, b.kept = k, b.nullmap = Nullmap(PresentOf(Len(block) + 1)),
           block' = Append(block, b), LayoutIs'
    PROVE  IInv'
  <1>1. TableFull /\ pc \notin {"idle", "converting", "failed"} BY TableFullIs
  <1>2. /\ table \in Tables /\ config \in Configs /\ row \in Nat /\ IsSequence(columns)
        /\ \A i \in 1..Len(columns) :
             /\ IsFilled(columns[i], table, Fields(table)[i], row) /\ Len(columns[i].present) = row
             /\ Fields(table)[i] \in Nat \ {0}
    BY <1>1, Zenon DEF TableFull
  <1>3. PICK n \in Nat : n = Len(block)
    <2>1. IsSequence(block) BY DEF IInv, BlockIs
    <2>. QED BY <2>1, SequenceIs
  <1>4. PICK bl : bl = block' OBVIOUS
  <1>5. IsSequence(bl) /\ Len(bl) = n + 1 /\ bl[n + 1] = b /\ \A i \in 1..n : bl[i] = block[i]
    <2>1. IsSequence(block) /\ IsMore(bl, block, b) BY <1>4 DEF IInv, BlockIs, IsMore
    <2>. QED BY <1>3, <2>1, OneMore
  <1>6. columns # <<>> /\ IsChunk(range, row) /\ pc \notin NoBlock BY StateNames DEF IInv, RangeIs, IsChunk
  <1>7. n + 1 \in 1..Len(columns) /\ n + 1 <= Len(columns) BY <1>2, <1>3, SequenceIs
  <1>8. Keeps(b, columns[n + 1], range)
    <2>1. PICK i \in 1..Len(columns) : i = n + 1 BY <1>7
    <2>2. IsFilled(columns[i], table, Fields(table)[i], row) /\ Len(columns[i].present) = row
          /\ Fields(table)[i] \in Nat \ {0}
      BY <1>2, Zenon
    <2>3. k \in KeptOf(i) /\ b.nullmap = Nullmap(PresentOf(i)) BY <1>3, <2>1
    <2>4. Keeps(b, columns[i], range) BY <1>2, <1>6, <2>2, <2>3, KeptOfColumn
    <2>. QED BY <2>1, <2>4, Zenon
  <1>9. \A i \in 1..n : Keeps(block[i], columns[i], range) BY <1>3, Zenon DEF IInv, BlockIs
  <1>10. ASSUME NEW i \in 1..Len(bl) PROVE Keeps(bl[i], columns[i], range)
    <2>1. i \in 1..n \/ i = n + 1 BY <1>5
    <2>. QED BY <1>5, <1>8, <1>9, <2>1, Zenon
  <1>11. BlockIs'
    <2>1. \A i \in 1..Len(block') : Keeps(block'[i], columns'[i], range')
      <3>1. columns' = columns /\ range' = range OBVIOUS
      <3>. QED BY <1>4, <1>10, <3>1, Zenon
    <2>2. IsSequence(block') /\ Len(block') <= Len(columns') BY <1>4, <1>5, <1>7
    <2>3. pc' = "compressing" OBVIOUS
    <2>. QED BY <2>1, <2>2, <2>3 DEF BlockIs
  <1>12. TableIs'
    <2>1. pc' \in {"compressing", "compressed"} \cup States OBVIOUS
    <2>. QED BY <1>1, <2>1, TableStays
  <1>13. RangeIs'
    <2>1. range'.offset \in Nat /\ range'.count \in Nat \ {0} /\ range'.offset + range'.count <= row' /\ columns' # <<>>
      BY <1>6 DEF IsChunk
    <2>2. pc' \notin NoBlock BY <1>6
    <2>. QED BY <2>1, <2>2 DEF RangeIs
  <1>14. ColumnOpen'
    <2>1. IsCache(cache) /\ column = 0 /\ memory = <<>> /\ loop = NoLoop /\ pc \notin States
      BY StateNames, Zenon DEF IInv, ColumnOpen
    <2>2. IsCache(cache') BY <2>1
    <2>3. column' = 0 /\ memory' = <<>> /\ loop' = NoLoop /\ pc' \notin States BY <2>1
    <2>4. column' \in Nat /\ column' <= Len(block') BY <1>4, <1>5, <2>3
    <2>. QED BY <2>2, <2>3, <2>4, Zenon DEF ColumnOpen
  <1>. QED BY <1>11, <1>12, <1>13, <1>14, Zenon DEF IInv

\* What a column compressed into the datablock is.
Follows(b, i, after, mapped, k) ==
    b = [type |-> columns[i].type, offset |-> WriteOffset,
         nullmapOffset |-> WriteOffset + AfterSize(i, after),
         end |-> WriteOffset + AfterSize(i, after) + mapped,
         nullmap |-> Nullmap(PresentOf(i)), kept |-> k]

LEMMA CompressColumnStep == IInv /\ CompressColumn => IInv'
  <1>. SUFFICES ASSUME IInv, CompressColumn PROVE IInv' OBVIOUS
  <1>1. /\ pc = "compressing" /\ layout = "datablock" /\ Len(block) < Len(columns)
        /\ UNCHANGED <<pc, table, config, row, columns, range, layout, column, way, memory, loop, cache>>
    BY Zenon DEF CompressColumn
  <1>2. PICK i : i = Len(block) + 1 OBVIOUS
  <1>3. PICK after \in AfterSizes, mapped \in IF Nullmap(PresentOf(i)).rows = {} THEN {0} ELSE MapSizes, k \in KeptOf(i) :
          /\ block' = Append(block, [type |-> columns[i].type, offset |-> WriteOffset,
                                     nullmapOffset |-> WriteOffset + AfterSize(i, after),
                                     end |-> WriteOffset + AfterSize(i, after) + mapped,
                                     nullmap |-> Nullmap(PresentOf(i)), kept |-> k])
          /\ size' = size + AfterSize(i, after) + mapped
    BY <1>2, Zenon DEF CompressColumn
  <1>4. PICK b : Follows(b, i, after, mapped, k) BY Zenon DEF Follows
  <1>5. block' = Append(block, b) BY <1>3, <1>4, Zenon DEF Follows
  <1>6. PICK data \in Nat, mp \in Nat : data = AfterSize(i, after) /\ mp = mapped BY SizeAssumption DEF AfterSize
  <1>7. IsSequence(block) /\ Len(block) \in Nat /\ IsSequence(columns)
    <2>1. IsSequence(block) BY Zenon DEF IInv, BlockIs
    <2>2. IsSequence(columns) BY <1>1, Zenon DEF IInv, TableIs, Columns
    <2>. QED BY <2>1, <2>2, SequenceIs
  <1>8. PICK h \in Nat : h = HeaderSize BY <1>7, HeaderIs
  <1>9. /\ Lies(block, h)
        /\ block = <<>> => size = h
        /\ block # <<>> => size = block[Len(block)].end /\ h <= size
        /\ size \in Nat
    BY <1>1, <1>8, Zenon DEF IInv, LayoutIs
  <1>10. PICK from \in Nat : from = size BY <1>9
  <1>11. WriteOffset = from /\ h <= from
    <2>1. CASE block = <<>>
      <3>1. WriteOffset = HeaderSize BY <2>1, Zenon DEF WriteOffset
      <3>2. size = h BY <1>9, <2>1
      <3>. QED BY <1>8, <1>10, <3>1, <3>2
    <2>2. CASE block # <<>> BY <1>9, <1>10, <2>2, Zenon DEF WriteOffset, Last
    <2>. QED BY <2>1, <2>2
  <1>12. b.offset = from /\ b.end = from + data + mp /\ b.kept = k /\ b.nullmap = Nullmap(PresentOf(i))
    BY <1>4, <1>6, <1>11 DEF Follows
  <1>13. PICK n \in Nat : n = Len(block) BY <1>7
  <1>14. PICK bl : bl = block' OBVIOUS
  <1>15. IsSequence(bl) /\ Len(bl) = n + 1 /\ bl[n + 1] = b /\ \A j \in 1..n : bl[j] = block[j]
    <2>1. IsMore(bl, block, b) BY <1>5, <1>14 DEF IsMore
    <2>. QED BY <1>7, <1>13, <2>1, OneMore
  <1>16. Lies(bl, h)
    <2>. SUFFICES ASSUME NEW j \in 1..Len(bl)
                  PROVE  /\ bl[j].offset \in Nat /\ bl[j].end \in Nat /\ h <= bl[j].offset
                         /\ j > 1 => bl[j].offset = bl[j - 1].end
      BY Zenon DEF Lies
    <2>1. CASE j \in 1..n
      <3>1. /\ block[j].offset \in Nat /\ block[j].end \in Nat /\ h <= block[j].offset
            /\ j > 1 => block[j].offset = block[j - 1].end
        <4>1. Lies(block, h) BY <1>9
        <4>2. j \in 1..Len(block) BY <1>13, <2>1
        <4>. QED BY <4>1, <4>2, Zenon DEF Lies
      <3>2. j > 1 => j - 1 \in 1..n BY <2>1
      <3>. QED BY <1>15, <2>1, <3>1, <3>2, Zenon
    <2>2. CASE j = n + 1
      <3>1. bl[j].offset \in Nat /\ bl[j].end \in Nat /\ h <= bl[j].offset BY <1>11, <1>12, <1>15, <2>2
      <3>2. ASSUME j > 1 PROVE bl[j].offset = bl[j - 1].end
        <4>1. j - 1 = n /\ n \in 1..n BY <2>2, <3>2
        <4>2. block # <<>> BY <1>7, <1>13, <4>1, EmptyIs
        <4>. QED BY <1>9, <1>10, <1>12, <1>13, <1>15, <2>2, <4>1, <4>2, Zenon
      <3>. QED BY <3>1, <3>2
    <2>. QED BY <1>15, <2>1, <2>2
  <1>17. LayoutIs'
    <2>1. HeaderSize' = h
      <3>1. HeaderSize' = HeaderSize BY <1>1 DEF HeaderSize
      <3>. QED BY <1>8, <3>1
    <2>2. size' = from + data + mp BY <1>3, <1>6, <1>10
    <2>3. bl # <<>> BY <1>15, EmptyIs
    <2>4. size' = bl[Len(bl)].end /\ h <= size' /\ size' \in Nat BY <1>11, <1>12, <1>15, <2>2
    <2>. QED BY <1>14, <1>16, <2>1, <2>3, <2>4, Zenon DEF LayoutIs
  <1>18. b.kept = k /\ b.nullmap = Nullmap(PresentOf(Len(block) + 1)) /\ k \in KeptOf(Len(block) + 1) BY <1>2, <1>12
  <1>. QED BY <1>1, <1>5, <1>17, <1>18, ColumnCompressed

LEMMA CompressInputChunkStep == IInv /\ CompressInputChunk => IInv'
  <1>. SUFFICES ASSUME IInv, CompressInputChunk PROVE IInv' OBVIOUS
  <1>1. /\ pc = "compressing" /\ layout = "chunks" /\ Len(block) < Len(columns)
        /\ UNCHANGED <<pc, table, config, row, columns, range, layout, size, column, way, memory, loop, cache>>
    BY Zenon DEF CompressInputChunk
  <1>2. PICK i : i = Len(block) + 1 OBVIOUS
  <1>3. PICK after \in AfterSizes, mapped \in IF Nullmap(PresentOf(i)).rows = {} THEN {0} ELSE MapSizes, k \in KeptOf(i) :
          block' = Append(block, [type |-> columns[i].type, offset |-> MetaSize,
                                  nullmapOffset |-> MetaSize + after,
                                  end |-> MetaSize + after + mapped,
                                  nullmap |-> Nullmap(PresentOf(i)), kept |-> k])
    BY <1>2, Zenon DEF CompressInputChunk
  <1>4. PICK b : b = [type |-> columns[i].type, offset |-> MetaSize,
                      nullmapOffset |-> MetaSize + after,
                      end |-> MetaSize + after + mapped,
                      nullmap |-> Nullmap(PresentOf(i)), kept |-> k]
    OBVIOUS
  <1>5. block' = Append(block, b) BY <1>3, <1>4, Zenon
  <1>6. b.kept = k /\ b.nullmap = Nullmap(PresentOf(i)) BY <1>4
  <1>7. LayoutIs' BY <1>1 DEF LayoutIs
  <1>8. b.kept = k /\ b.nullmap = Nullmap(PresentOf(Len(block) + 1)) /\ k \in KeptOf(Len(block) + 1) BY <1>2, <1>6
  <1>. QED BY <1>1, <1>5, <1>7, <1>8, ColumnCompressed

\* The block stays as it is when it is complete.
LEMMA BlockStays ==
    ASSUME IInv, pc \notin NoBlock, Len(block) = Len(columns),
           UNCHANGED <<table, config, row, columns, range, layout, block, size>>,
           pc' \in {"compressed"} \cup States, ColumnOpen'
    PROVE  IInv'
  <1>1. pc \notin {"idle", "converting", "failed"} BY DEF NoBlock
  <1>2. pc' \in {"compressing", "compressed"} \cup States OBVIOUS
  <1>3. TableIs' BY <1>1, <1>2, TableStays
  <1>4. RangeIs'
    <2>1. columns # <<>> /\ range.offset \in Nat /\ range.count \in Nat \ {0} /\ range.offset + range.count <= row
      BY Zenon DEF IInv, RangeIs
    <2>2. columns' # <<>> /\ range'.offset \in Nat /\ range'.count \in Nat \ {0} /\ range'.offset + range'.count <= row'
      BY <2>1
    <2>3. pc' \notin NoBlock BY StateNames
    <2>. QED BY <2>2, <2>3 DEF RangeIs
  <1>5. BlockIs'
    <2>1. IsSequence(block) /\ \A i \in 1..Len(block) : Keeps(block[i], columns[i], range) BY Zenon DEF IInv, BlockIs
    <2>2. IsSequence(block') /\ \A i \in 1..Len(block') : Keeps(block'[i], columns'[i], range') BY <2>1
    <2>3. Len(block') = Len(columns') /\ Len(block') <= Len(columns')
      <3>1. Len(block) <= Len(columns) BY Zenon DEF IInv, BlockIs
      <3>. QED BY <3>1
    <2>. QED BY <2>2, <2>3, Zenon DEF BlockIs
  <1>6. LayoutIs'
    <2>1. HeaderSize' = HeaderSize BY DEF HeaderSize
    <2>2. layout' = layout /\ block' = block /\ size' = size OBVIOUS
    <2>3. layout = "datablock" =>
            /\ Lies(block, HeaderSize)
            /\ block = <<>> => size = HeaderSize
            /\ block # <<>> => size = block[Len(block)].end /\ HeaderSize <= size
            /\ size \in Nat
      BY Zenon DEF IInv, LayoutIs
    <2>. QED BY <2>1, <2>2, <2>3, Zenon DEF LayoutIs
  <1>. QED BY <1>3, <1>4, <1>5, <1>6, Zenon DEF IInv

LEMMA EndCompressStep == IInv /\ EndCompress => IInv'
  <1>. SUFFICES ASSUME IInv, EndCompress PROVE IInv' OBVIOUS
  <1>1. /\ pc = "compressing" /\ Len(block) = Len(columns) /\ pc' = "compressed"
        /\ UNCHANGED <<table, config, row, columns, range, layout, block, size, column, way, memory, loop, cache>>
    BY DEF EndCompress
  <1>2. ColumnOpen'
    <2>1. IsCache(cache) /\ column = 0 /\ memory = <<>> /\ loop = NoLoop /\ column \in Nat /\ column <= Len(block)
      BY <1>1, StateNames, Zenon DEF IInv, ColumnOpen
    <2>2. IsCache(cache') BY <1>1, <2>1
    <2>3. column' = 0 /\ memory' = <<>> /\ loop' = NoLoop /\ column' \in Nat /\ column' <= Len(block') /\ pc' \notin States
      BY <1>1, <2>1, StateNames
    <2>. QED BY <2>2, <2>3, Zenon DEF ColumnOpen
  <1>3. pc \notin NoBlock /\ pc' \in {"compressed"} \cup States BY <1>1, StateNames
  <1>. QED BY <1>1, <1>2, <1>3, BlockStays

\* With a column open all of them are in the block.
LEMMA BlockWhole ==
    ASSUME IInv, pc \notin NoBlock \cup {"compressing"}
    PROVE  /\ pc \notin NoBlock /\ Len(block) = Len(columns)
           /\ \A i \in 1..Len(block) : Keeps(block[i], columns[i], range)
  BY Zenon DEF IInv, BlockIs

LEMMA EmptyWhole == \A limit \in Int : Within(<<>>, limit)
  BY DEF Within

LEMMA OpenColumnStep == IInv /\ OpenColumn => IInv'
  <1>. SUFFICES ASSUME IInv, OpenColumn PROVE IInv' OBVIOUS
  <1>1. /\ pc \in {"compressed", "read"} /\ column < Len(block) /\ column' = column + 1
        /\ way' \in {"view", "copy"} /\ pc' = "decompressing" /\ memory' = <<>> /\ loop' = NoLoop
        /\ UNCHANGED <<table, config, row, columns, range, layout, block, size, cache>>
    BY DEF OpenColumn
  <1>2. pc \notin NoBlock \cup {"compressing"} BY <1>1 DEF NoBlock
  <1>3. pc \notin NoBlock /\ Len(block) = Len(columns) /\ \A i \in 1..Len(block) : Keeps(block[i], columns[i], range)
    BY <1>2, BlockWhole
  <1>4. PICK j : j = column + 1 OBVIOUS
  <1>5. j \in 1..Len(block) /\ j \in Nat /\ j # 0 /\ j <= Len(block)
    <2>1. column \in Nat /\ Len(block) \in Nat BY SequenceIs DEF IInv, ColumnOpen, BlockIs
    <2>. QED BY <1>1, <1>4, <2>1
  <1>6. PICK b, c, rg : b = block[j] /\ c = columns[j] /\ rg = range OBVIOUS
  <1>7. Keeps(b, c, rg) BY <1>3, <1>5, <1>6, Zenon
  <1>8. PICK t : t = Part(c.values, rg) OBVIOUS
  <1>9. PICK wy : wy = way' OBVIOUS
  <1>10. IsColumn(b.kept, b.nullmap, c.type, t, Part(c.present, rg), rg.count) BY <1>7, <1>8, Zenon DEF Keeps
  <1>11. PICK limit : limit = RoomOf(wy, b.kept, b.nullmap, rg.count) OBVIOUS
  <1>12. limit \in Int
    <2>1. CASE c.type = "STRING"
      <3>1. wy \in {"view", "copy"} /\ IsColumn(b.kept, b.nullmap, "STRING", t, Part(c.present, rg), rg.count)
        BY <1>1, <1>9, <1>10, <2>1
      <3>. QED BY <1>11, <3>1, RoomIs
    <2>2. CASE c.type # "STRING"
      <3>1. c.type = "INTEGER" BY <1>10, <2>2, Zenon DEF IsColumn
      <3>2. IsColumn(b.kept, b.nullmap, "INTEGER", t, Part(c.present, rg), rg.count) BY <1>10, <3>1, Zenon
      <3>. QED BY <1>11, <3>2, NumbersRead
    <2>. QED BY <2>1, <2>2
  <1>13. IsCache(cache) BY Zenon DEF IInv, ColumnOpen
  <1>14. Working("decompressing", wy, <<>>, NoLoop, cache, b.kept, t, Part(c.present, rg), limit)
    <2>1. Len(t) \in Nat BY <1>10, ColumnOf
    <2>2. NoLoop.at \in 0..Len(t) BY <2>1 DEF NoLoop
    <2>3. Within(<<>>, limit) BY <1>12, EmptyWhole
    <2>. QED BY <1>13, <2>2, <2>3, NoCacheIs, Zenon DEF Working
  <1>15. Decompressing("decompressing", wy, <<>>, NoLoop, cache, b, c, rg)
    BY <1>8, <1>11, <1>14, Zenon DEF Decompressing
  <1>16. ColumnOpen'
    <2>1. IsCache(cache') BY <1>1, <1>13
    <2>2. Decompressing(pc', way', memory', loop', cache', block'[column'], columns'[column'], range')
      <3>1. /\ pc' = "decompressing" /\ memory' = <<>> /\ loop' = NoLoop /\ cache' = cache
            /\ block' = block /\ columns' = columns /\ range' = rg /\ column' = j /\ way' = wy
        BY <1>1, <1>4, <1>6, <1>9
      <3>. QED BY <1>6, <1>15, <3>1, Zenon
    <2>3. column' \in Nat /\ column' <= Len(block') /\ column' # 0 BY <1>1, <1>4, <1>5
    <2>4. pc' \in States BY <1>1 DEF States
    <2>. QED BY <1>1, <2>1, <2>2, <2>3, <2>4, Zenon DEF ColumnOpen
  <1>17. pc' \in {"compressed"} \cup States BY <1>1 DEF States
  <1>. QED BY <1>1, <1>3, <1>16, <1>17, BlockStays

---------------------------------------------------------------------------
(* The steps of the decompression *)

\* The column that is open, its rows and the room for them.
Opened(t, p, ty, limit) ==
    /\ t = Part(columns[column].values, range) /\ p = Part(columns[column].present, range)
    /\ ty = columns[column].type /\ limit = RoomOf(way, kept, map, tuples)
    /\ IsColumn(kept, map, ty, t, p, tuples) /\ limit \in Int /\ way \in {"view", "copy"}
    /\ Working(pc, way, memory, loop, cache, kept, t, p, limit)

LEMMA RoomIsNumber ==
    ASSUME NEW k, NEW nm, NEW ty, NEW t, NEW p, NEW n, IsColumn(k, nm, ty, t, p, n), NEW wy \in {"view", "copy"}
    PROVE  RoomOf(wy, k, nm, n) \in Int
  <1>1. PICK limit : limit = RoomOf(wy, k, nm, n) OBVIOUS
  <1>2. CASE ty = "STRING"
    <2>1. IsColumn(k, nm, "STRING", t, p, n) BY <1>2
    <2>2. limit \in Int BY <1>1, <2>1, RoomIs
    <2>. QED BY <1>1, <2>2
  <1>3. CASE ty # "STRING"
    <2>1. ty = "INTEGER" BY <1>3, Zenon DEF IsColumn
    <2>2. IsColumn(k, nm, "INTEGER", t, p, n) BY <2>1
    <2>3. limit \in Int BY <1>1, <2>2, NumbersRead
    <2>. QED BY <1>1, <2>3
  <1>. QED BY <1>2, <1>3

LEMMA OpenIs ==
    ASSUME IInv, pc \in States
    PROVE  /\ \E t, p, ty, limit : Opened(t, p, ty, limit)
           /\ column \in 1..Len(block) /\ pc \notin NoBlock /\ Len(block) = Len(columns)
  <1>1. pc \notin NoBlock \cup {"compressing"} BY StateNames
  <1>2. pc \notin NoBlock /\ Len(block) = Len(columns) /\ \A i \in 1..Len(block) : Keeps(block[i], columns[i], range)
    BY <1>1, BlockWhole
  <1>3. /\ column \in Nat /\ column <= Len(block) /\ column # 0 /\ way \in {"view", "copy"}
        /\ Decompressing(pc, way, memory, loop, cache, block[column], columns[column], range)
    BY Zenon DEF IInv, ColumnOpen
  <1>4. column \in 1..Len(block)
    <2>1. Len(block) \in Nat BY SequenceIs DEF IInv, BlockIs
    <2>. QED BY <1>3, <2>1
  <1>5. Keeps(block[column], columns[column], range) BY <1>2, <1>4
  <1>6. PICK t, p, ty, limit : /\ t = Part(columns[column].values, range) /\ p = Part(columns[column].present, range)
                               /\ ty = columns[column].type /\ limit = RoomOf(way, kept, map, tuples)
    OBVIOUS
  <1>7. IsColumn(kept, map, ty, t, p, tuples) BY <1>5, <1>6, Zenon DEF Keeps, kept, map, tuples
  <1>8. limit \in Int
    <2>1. RoomOf(way, kept, map, tuples) \in Int BY <1>3, <1>7, RoomIsNumber
    <2>. QED BY <1>6, <2>1
  <1>9. Working(pc, way, memory, loop, cache, kept, t, p, limit)
    BY <1>3, <1>6, Zenon DEF Decompressing, kept, map, tuples
  <1>10. Opened(t, p, ty, limit) BY <1>3, <1>6, <1>7, <1>8, <1>9, Zenon DEF Opened
  <1>. QED BY <1>2, <1>4, <1>10

\* A step of the decompression leaves the rest as it is.
Becomes(s, m, lp, ca) == pc' = s /\ memory' = m /\ loop' = lp /\ cache' = ca

LEMMA Goes ==
    ASSUME IInv, pc \in States, Frame, NEW t, NEW p, NEW ty, NEW limit, Opened(t, p, ty, limit),
           NEW s \in States, NEW m, NEW lp, NEW ca, Becomes(s, m, lp, ca),
           Working(s, way, m, lp, ca, kept, t, p, limit)
    PROVE  IInv'
  <1>1. /\ column \in 1..Len(block) /\ pc \notin NoBlock /\ Len(block) = Len(columns) BY OpenIs
  <1>2. UNCHANGED <<table, config, row, columns, range, layout, block, size, column, way>> BY DEF Frame
  <1>3. pc' = s /\ memory' = m /\ loop' = lp /\ cache' = ca BY DEF Becomes
  <1>4. /\ t = Part(columns[column].values, range) /\ p = Part(columns[column].present, range)
        /\ limit = RoomOf(way, kept, map, tuples) /\ way \in {"view", "copy"}
    BY Zenon DEF Opened
  <1>5. Decompressing(s, way, m, lp, ca, block[column], columns[column], range)
    BY <1>4, Zenon DEF Decompressing, kept, map, tuples
  <1>6. ColumnOpen'
    <2>1. Decompressing(pc', way', memory', loop', cache', block'[column'], columns'[column'], range')
      BY <1>2, <1>3, <1>5, Zenon
    <2>2. column' \in Nat /\ column' <= Len(block') /\ column' # 0
      <3>1. column \in Nat /\ column <= Len(block) /\ column # 0 BY <1>1
      <3>. QED BY <1>2, <3>1
    <2>3. IsCache(cache')
      <3>1. IsCache(ca) BY Zenon DEF Working
      <3>. QED BY <1>3, <3>1
    <2>4. pc' \in States /\ way' \in {"view", "copy"} BY <1>2, <1>3, <1>4
    <2>. QED BY <2>1, <2>2, <2>3, <2>4, Zenon DEF ColumnOpen
  <1>7. pc' \in {"compressed"} \cup States BY <1>3
  <1>. QED BY <1>1, <1>2, <1>6, <1>7, BlockStays

\* The last step of a column.
LEMMA IsRead ==
    ASSUME IInv, pc \in States, Frame, NEW t, NEW p, NEW ty, NEW limit, Opened(t, p, ty, limit),
           NEW m, Becomes("read", m, loop, cache), ReadsBack(m, way, kept, t, p), Within(m, limit)
    PROVE  IInv'
  <1>1. Working(pc, way, memory, loop, cache, kept, t, p, limit) BY Zenon DEF Opened
  <1>2. IsCache(cache) /\ LoopIs(loop) /\ loop.at \in 0..Len(t) BY <1>1, Zenon DEF Working
  <1>3. Working("read", way, m, loop, cache, kept, t, p, limit) BY <1>2, ReadState
  <1>4. "read" \in States BY DEF States
  <1>5. PICK lp, ca : lp = loop /\ ca = cache OBVIOUS
  <1>6. Working("read", way, m, lp, ca, kept, t, p, limit) /\ Becomes("read", m, lp, ca) BY <1>3, <1>5, Zenon
  <1>. QED BY <1>4, <1>6, Goes

\* A column whose decompression starts.
LEMMA FreshIs ==
    ASSUME IInv, pc = "decompressing"
    PROVE  /\ pc \in States /\ memory = <<>> /\ loop = NoLoop
           /\ \E t, p, ty, limit : Opened(t, p, ty, limit) /\ Within(memory, limit) /\ IsCache(cache)
  <1>1. pc \in States BY DEF States
  <1>2. PICK t, p, ty, limit : Opened(t, p, ty, limit) BY <1>1, OpenIs
  <1>3. Working(pc, way, memory, loop, cache, kept, t, p, limit) BY <1>2, Zenon DEF Opened
  <1>. QED BY <1>1, <1>2, <1>3, Zenon DEF Working

LEMMA DecompressCopyStep == IInv /\ DecompressCopy => IInv'
  <1>. SUFFICES ASSUME IInv, DecompressCopy PROVE IInv' OBVIOUS
  <1>1. pc = "decompressing" /\ kept.scheme \in {"numbers", "UNCOMPRESSED"} /\ Frame
        /\ memory' = kept.memory /\ pc' = "read" /\ loop' = loop /\ cache' = cache
    BY DEF DecompressCopy
  <1>2. pc \in States BY <1>1, FreshIs
  <1>3. PICK t, p, ty, limit : Opened(t, p, ty, limit) BY <1>2, OpenIs
  <1>4. /\ IsColumn(kept, map, ty, t, p, tuples) /\ way \in {"view", "copy"}
        /\ limit = RoomOf(way, kept, map, tuples)
    BY <1>3, Zenon DEF Opened
  <1>5. ReadsBack(kept.memory, way, kept, t, p) /\ Within(kept.memory, limit)
    <2>1. CASE kept.scheme = "numbers"
      <3>1. IsColumn(kept, map, "INTEGER", t, p, tuples) BY <1>4, <2>1, ColumnOf
      <3>. QED BY <1>4, <3>1, NumbersRead
    <2>2. CASE kept.scheme = "UNCOMPRESSED"
      <3>1. kept.scheme # "numbers" BY <2>2
      <3>2. IsColumn(kept, map, "STRING", t, p, tuples) BY <1>4, <3>1, ColumnOf
      <3>. QED BY <1>4, <2>2, <3>2, PlainReads
    <2>. QED BY <1>1, <2>1, <2>2
  <1>6. PICK m : m = kept.memory OBVIOUS
  <1>7. Becomes("read", m, loop, cache) /\ ReadsBack(m, way, kept, t, p) /\ Within(m, limit)
    BY <1>1, <1>5, <1>6, Zenon DEF Becomes
  <1>. QED BY <1>1, <1>2, <1>3, <1>7, IsRead

\* A column of strings.
LEMMA StringsOpen ==
    ASSUME IInv, pc \in States, kept.scheme # "numbers"
    PROVE  \E t, p, ty, limit :
             /\ Opened(t, p, ty, limit) /\ IsColumn(kept, map, "STRING", t, p, tuples)
             /\ way \in {"view", "copy"} /\ limit = RoomOf(way, kept, map, tuples) /\ limit \in Int
             /\ Within(memory, limit) /\ IsCache(cache) /\ LoopIs(loop) /\ AreTexts(t) /\ IsKept(kept, t)
             /\ Len(t) = tuples /\ tuples \in Nat
  <1>1. PICK t, p, ty, limit : Opened(t, p, ty, limit) BY OpenIs
  <1>2. /\ IsColumn(kept, map, ty, t, p, tuples) /\ way \in {"view", "copy"}
        /\ limit = RoomOf(way, kept, map, tuples) /\ limit \in Int
        /\ Working(pc, way, memory, loop, cache, kept, t, p, limit)
    BY <1>1, Zenon DEF Opened
  <1>3. IsColumn(kept, map, "STRING", t, p, tuples) BY <1>2, ColumnOf
  <1>4. Within(memory, limit) /\ IsCache(cache) /\ LoopIs(loop) BY <1>2, Zenon DEF Working
  <1>5. AreTexts(t) /\ IsKept(kept, t) /\ Len(t) = tuples BY <1>3, Zenon DEF IsColumn
  <1>6. tuples \in Nat BY <1>3 DEF IsColumn
  <1>. QED BY <1>1, <1>2, <1>3, <1>4, <1>5, <1>6

LEMMA DecompressFsstStep == IInv /\ DecompressFsst => IInv'
  <1>. SUFFICES ASSUME IInv, DecompressFsst PROVE IInv' OBVIOUS
  <1>1. /\ pc = "decompressing" /\ kept.scheme = "FSST" /\ Frame /\ loop' = loop /\ cache' = cache
        /\ memory' = FsstAll(memory, kept, tuples)
        /\ pc' = IF SlotsSize(tuples) + Len(kept.text) = kept.totalSize THEN "read" ELSE "died"
    BY Zenon DEF DecompressFsst, FsstAll
  <1>2. pc \in States /\ kept.scheme # "numbers" BY <1>1, FreshIs
  <1>3. PICK t, p, ty, limit :
             /\ Opened(t, p, ty, limit) /\ IsColumn(kept, map, "STRING", t, p, tuples)
             /\ way \in {"view", "copy"} /\ limit = RoomOf(way, kept, map, tuples) /\ Within(memory, limit)
    BY <1>2, StringsOpen
  <1>4. /\ SlotsSize(tuples) + Len(kept.text) = kept.totalSize
        /\ ReadsBack(FsstAll(memory, kept, tuples), way, kept, t, p)
        /\ Within(FsstAll(memory, kept, tuples), limit)
    <2>1. PICK m : m = memory OBVIOUS
    <2>2. PICK nm, n, k : nm = map /\ n = tuples /\ k = kept OBVIOUS
    <2>3. IsColumn(k, nm, "STRING", t, p, n) /\ k.scheme = "FSST" /\ limit = RoomOf(way, k, nm, n) /\ Within(m, limit)
      BY <1>1, <1>3, <2>1, <2>2, Zenon
    <2>4. /\ SlotsSize(n) + Len(k.text) = k.totalSize
          /\ ReadsBack(FsstAll(m, k, n), way, k, t, p) /\ Within(FsstAll(m, k, n), limit)
      BY <1>3, <2>3, FsstReads
    <2>. QED BY <2>1, <2>2, <2>4, Zenon
  <1>5. PICK new : new = FsstAll(memory, kept, tuples) OBVIOUS
  <1>6. Becomes("read", new, loop, cache) /\ ReadsBack(new, way, kept, t, p) /\ Within(new, limit)
    BY <1>1, <1>4, <1>5, Zenon DEF Becomes
  <1>. QED BY <1>1, <1>2, <1>3, <1>6, IsRead

LEMMA DecompressOneViewStep == IInv /\ DecompressOneView => IInv'
  <1>. SUFFICES ASSUME IInv, DecompressOneView PROVE IInv' OBVIOUS
  <1>1. /\ pc = "decompressing" /\ kept.scheme = "ONE_VALUE" /\ way = "view" /\ Frame
        /\ loop' = loop /\ cache' = cache /\ pc' = "read"
    BY DEF DecompressOneView
  <1>2. memory' = OneViewed(memory, kept, map, tuples) BY Zenon DEF DecompressOneView, OneViewed, ViewsOfOne
  <1>3. pc \in States /\ kept.scheme # "numbers" BY <1>1, FreshIs
  <1>4. PICK t, p, ty, limit :
             /\ Opened(t, p, ty, limit) /\ IsColumn(kept, map, "STRING", t, p, tuples)
             /\ way \in {"view", "copy"} /\ limit = RoomOf(way, kept, map, tuples) /\ Within(memory, limit)
    BY <1>3, StringsOpen
  <1>5. ReadsBack(OneViewed(memory, kept, map, tuples), "view", kept, t, p)
        /\ Within(OneViewed(memory, kept, map, tuples), limit)
    <2>1. PICK m, nm, n, k : m = memory /\ nm = map /\ n = tuples /\ k = kept OBVIOUS
    <2>2. IsColumn(k, nm, "STRING", t, p, n) /\ k.scheme = "ONE_VALUE" /\ limit = RoomOf("view", k, nm, n) /\ Within(m, limit)
      BY <1>1, <1>4, <2>1, Zenon
    <2>3. ReadsBack(OneViewed(m, k, nm, n), "view", k, t, p) /\ Within(OneViewed(m, k, nm, n), limit)
      BY <2>2, OneViewReads
    <2>. QED BY <2>1, <2>3, Zenon
  <1>6. PICK new : new = OneViewed(memory, kept, map, tuples) OBVIOUS
  <1>7. Becomes("read", new, loop, cache) /\ ReadsBack(new, way, kept, t, p) /\ Within(new, limit)
    BY <1>1, <1>2, <1>5, <1>6, Zenon DEF Becomes
  <1>. QED BY <1>1, <1>3, <1>4, <1>7, IsRead

LEMMA DecompressOneCopyStep == IInv /\ DecompressOneCopy => IInv'
  <1>. SUFFICES ASSUME IInv, DecompressOneCopy PROVE IInv' OBVIOUS
  <1>1. /\ pc = "decompressing" /\ kept.scheme = "ONE_VALUE" /\ way = "copy" /\ Frame
        /\ loop' = loop /\ cache' = cache /\ pc' = "read"
    BY DEF DecompressOneCopy
  <1>2. memory' = OneCopied BY Zenon DEF DecompressOneCopy, OneCopied
  <1>3. pc \in States /\ kept.scheme # "numbers" BY <1>1, FreshIs
  <1>4. PICK t, p, ty, limit :
             /\ Opened(t, p, ty, limit) /\ IsColumn(kept, map, "STRING", t, p, tuples)
             /\ way \in {"view", "copy"} /\ limit = RoomOf(way, kept, map, tuples) /\ Within(memory, limit)
    BY <1>3, StringsOpen
  <1>5. ReadsBack(OneCopied, "copy", kept, t, p) /\ Within(OneCopied, limit)
    <2>1. PICK n : n = tuples OBVIOUS
    <2>2. tuples = n /\ IsColumn(kept, map, "STRING", t, p, n) /\ limit = RoomOf("copy", kept, map, n)
      BY <1>1, <1>4, <2>1, Zenon
    <2>. QED BY <1>1, <1>4, <2>2, OneCopyReads
  <1>6. PICK new : new = OneCopied OBVIOUS
  <1>7. Becomes("read", new, loop, cache) /\ ReadsBack(new, way, kept, t, p) /\ Within(new, limit)
    BY <1>1, <1>2, <1>5, <1>6, Zenon DEF Becomes
  <1>. QED BY <1>1, <1>3, <1>4, <1>7, IsRead

LEMMA DecompressFixedStep == IInv /\ DecompressFixed => IInv'
  <1>. SUFFICES ASSUME IInv, DecompressFixed PROVE IInv' OBVIOUS
  <1>1. /\ pc = "decompressing" /\ kept.scheme = "DICTIONARY_8" /\ Frame
        /\ loop' = loop /\ cache' = cache /\ pc' = "read" /\ memory' = RowByRow(SlotsSize(tuples), FALSE).memory
    BY DEF DecompressFixed
  <1>3. pc \in States /\ kept.scheme # "numbers" BY <1>1, FreshIs
  <1>4. PICK t, p, ty, limit :
             /\ Opened(t, p, ty, limit) /\ IsColumn(kept, map, "STRING", t, p, tuples)
             /\ way \in {"view", "copy"} /\ limit = RoomOf(way, kept, map, tuples) /\ Within(memory, limit)
    BY <1>3, StringsOpen
  <1>5. PICK new : new = RowByRow(SlotsSize(tuples), FALSE).memory OBVIOUS
  <1>6. ReadsBack(new, way, kept, t, p) /\ Within(new, limit)
    <2>1. PICK n, wy : n = tuples /\ wy = way OBVIOUS
    <2>2. tuples = n /\ IsColumn(kept, map, "STRING", t, p, n) /\ limit = RoomOf(wy, kept, map, n) /\ wy \in {"view", "copy"}
      BY <1>4, <2>1, Zenon
    <2>3. /\ ReadsBack(RowByRow(SlotsSize(tuples), FALSE).memory, wy, kept, t, p)
          /\ Within(RowByRow(SlotsSize(tuples), FALSE).memory, limit)
      BY <1>1, <1>4, <2>2, FixedReads
    <2>. QED BY <1>5, <2>1, <2>3, Zenon
  <1>7. Becomes("read", new, loop, cache) BY <1>1, <1>5, Zenon DEF Becomes
  <1>. QED BY <1>1, <1>3, <1>4, <1>6, <1>7, IsRead

LEMMA DecompressCodesStep == IInv /\ DecompressCodes => IInv'
  <1>. SUFFICES ASSUME IInv, DecompressCodes PROVE IInv' OBVIOUS
  <1>1. /\ pc = "decompressing" /\ kept.scheme = "DICT" /\ ~kept.byRuns /\ way = "copy" /\ Frame
        /\ loop' = loop /\ cache' = cache
    BY DEF DecompressCodes
  <1>2. PICK end : end = RowByRow(SlotsSize(tuples) + SimdExtra, kept.fsst) OBVIOUS
  <1>3. memory' = end.memory /\ pc' = IF end.write - SimdExtra # kept.totalSize THEN "died" ELSE "read"
    BY <1>2, Zenon DEF DecompressCodes
  <1>4. pc \in States /\ kept.scheme # "numbers" BY <1>1, FreshIs
  <1>5. PICK t, p, ty, limit :
             /\ Opened(t, p, ty, limit) /\ IsColumn(kept, map, "STRING", t, p, tuples)
             /\ way \in {"view", "copy"} /\ limit = RoomOf(way, kept, map, tuples) /\ Within(memory, limit)
    BY <1>4, StringsOpen
  <1>6. ReadsBack(end.memory, "copy", kept, t, p) /\ Within(end.memory, limit)
        /\ end.write - SimdExtra = kept.totalSize
    <2>1. PICK n, fs : n = tuples /\ fs = kept.fsst OBVIOUS
    <2>2. tuples = n /\ IsColumn(kept, map, "STRING", t, p, n) /\ limit = RoomOf("copy", kept, map, n)
      BY <1>1, <1>5, <2>1, Zenon
    <2>3. LET all == RowByRow(SlotsSize(tuples) + SimdExtra, fs) IN
          /\ ReadsBack(all.memory, "copy", kept, t, p)
          /\ Within(all.memory, limit)
          /\ all.write - SimdExtra = kept.totalSize
      BY <1>1, <1>5, <2>2, CodesRead
    <2>. QED BY <1>2, <2>1, <2>3, Zenon
  <1>7. PICK new : new = end.memory OBVIOUS
  <1>8. pc' = "read" BY <1>3, <1>6
  <1>9. Becomes("read", new, loop, cache) /\ ReadsBack(new, way, kept, t, p) /\ Within(new, limit)
    BY <1>1, <1>3, <1>6, <1>7, <1>8, Zenon DEF Becomes
  <1>. QED BY <1>1, <1>4, <1>5, <1>9, IsRead

\* A column kept by DICT.
DictOpened(t, p, ty, limit, wy) ==
    /\ Opened(t, p, ty, limit) /\ IsColumn(kept, map, "STRING", t, p, tuples)
    /\ limit \in Int /\ limit = RoomOf(wy, kept, map, tuples)
    /\ Within(memory, limit) /\ IsCache(cache) /\ LoopIs(loop) /\ AreTexts(t) /\ IsDict(kept, t)
    /\ Len(t) = tuples /\ way = wy
    /\ wy = "copy" => CopyFits(t, limit)
    /\ wy = "view" => ViewFits(t, limit)
    /\ Working(pc, wy, memory, loop, cache, kept, t, p, limit)

LEMMA DictOpen ==
    ASSUME IInv, pc \in States, kept.scheme = "DICT", NEW wy \in {"view", "copy"}, way = wy
    PROVE  \E t, p, ty, limit : DictOpened(t, p, ty, limit, wy)
  <1>1. kept.scheme # "numbers" OBVIOUS
  <1>2. PICK t, p, ty, limit :
             /\ Opened(t, p, ty, limit) /\ IsColumn(kept, map, "STRING", t, p, tuples)
             /\ way \in {"view", "copy"} /\ limit = RoomOf(way, kept, map, tuples) /\ limit \in Int
             /\ Within(memory, limit) /\ IsCache(cache) /\ LoopIs(loop) /\ AreTexts(t) /\ IsKept(kept, t)
             /\ Len(t) = tuples /\ tuples \in Nat
    BY <1>1, StringsOpen
  <1>3. IsDict(kept, t) BY <1>2, KeptSchemes
  <1>4. PICK k, nm, n : k = kept /\ nm = map /\ n = tuples OBVIOUS
  <1>5. IsColumn(k, nm, "STRING", t, p, n) /\ k.scheme = "DICT" /\ limit = RoomOf(wy, k, nm, n) BY <1>2, <1>4, Zenon
  <1>6. /\ wy = "copy" => CopyFits(t, limit)
        /\ wy = "view" => ViewFits(t, limit)
    BY <1>5, RoomIs
  <1>7. Working(pc, wy, memory, loop, cache, kept, t, p, limit) BY <1>2, Zenon DEF Opened
  <1>8. limit = RoomOf(wy, kept, map, tuples) BY <1>4, <1>5, Zenon
  <1>9. DictOpened(t, p, ty, limit, wy) BY <1>2, <1>3, <1>6, <1>7, <1>8, Zenon DEF DictOpened
  <1>. QED BY <1>9

LEMMA StartRunsStep == IInv /\ StartRuns => IInv'
  <1>. SUFFICES ASSUME IInv, StartRuns PROVE IInv' OBVIOUS
  <1>1. /\ pc = "decompressing" /\ kept.scheme = "DICT" /\ way = "copy" /\ Frame /\ memory' = memory
        /\ pc' = IF kept.fsst THEN "fsstruns" ELSE "offsets"
    BY DEF StartRuns
  <1>2. pc \in States BY <1>1, FreshIs
  <1>3. PICK t, p, ty, limit : DictOpened(t, p, ty, limit, "copy") BY <1>1, <1>2, DictOpen
  <1>4. /\ Opened(t, p, ty, limit) /\ limit \in Int /\ Within(memory, limit) /\ IsCache(cache) /\ LoopIs(loop)
        /\ AreTexts(t) /\ IsDict(kept, t) /\ Len(t) = tuples
        /\ kept.scheme = "DICT"
    BY <1>1, <1>3, Zenon DEF DictOpened
  <1>5. PICK lp, ca : lp = loop' /\ ca = cache' OBVIOUS
  <1>6. RunsStarted(lp, ca, cache, kept, Start0(t))
    <2>1. /\ loop' = [run |-> 1, at |-> 0, start |-> Start0(t), write |-> Start0(t)]
      BY <1>4, Zenon DEF StartRuns, Gap, Start0
    <2>2. cache' = [cache EXCEPT !.text = Over([c \in 0..(Len(kept.strings) - 1) |-> Lost], @),
                        !.length = IF kept.fsst THEN @
                                   ELSE Over([c \in 0..(Len(kept.strings) - 1) |-> Len(kept.strings[c + 1])], @)]
      BY Zenon DEF StartRuns, Forgotten, Codes, strings
    <2>. QED BY <1>5, <2>1, <2>2, Zenon DEF RunsStarted
  <1>7. PICK m : m = memory OBVIOUS
  <1>8. /\ ~kept.fsst => OffsetsPhase(m, lp, ca, kept, t, limit)
        /\ kept.fsst => FsstPhase(m, lp, ca, kept, t, limit)
    <2>1. Within(m, limit) BY <1>4, <1>7
    <2>. QED BY <1>4, <1>6, <2>1, RunsStart
  <1>9. Runs0(way, kept, "copy") /\ Len(t) \in Nat BY <1>1, <1>4, PlacesAre DEF Runs0
  <1>10. lp.at \in 0..Len(t) BY <1>6, <1>9 DEF RunsStarted
  <1>11. PICK s \in {"fsstruns", "offsets"} : s = pc' BY <1>1
  <1>12. Working(s, way, m, lp, ca, kept, t, p, limit)
    <2>1. CASE kept.fsst
      <3>1. s = "fsstruns" /\ FsstPhase(m, lp, ca, kept, t, limit) BY <1>1, <1>8, <1>11, <2>1
      <3>2. IsCache(ca) /\ LoopIs(lp) /\ Within(m, limit) BY <3>1, Zenon DEF FsstPhase
      <3>. QED BY <1>9, <1>10, <3>1, <3>2, Zenon DEF Working
    <2>2. CASE ~kept.fsst
      <3>1. s = "offsets" /\ OffsetsPhase(m, lp, ca, kept, t, limit) BY <1>1, <1>8, <1>11, <2>2
      <3>2. IsCache(ca) /\ LoopIs(lp) /\ Within(m, limit) BY <3>1, Zenon DEF OffsetsPhase
      <3>. QED BY <1>9, <1>10, <3>1, <3>2, Zenon DEF Working
    <2>. QED BY <2>1, <2>2
  <1>13. Becomes(s, m, lp, ca) /\ s \in States BY <1>1, <1>5, <1>7, <1>11 DEF Becomes, States
  <1>. QED BY <1>1, <1>2, <1>4, <1>12, <1>13, Goes

\* A dictionary that was to be kept by runs, and was not.
LEMMA MissedIs ==
    ASSUME NEW t, NEW k, IsDict(k, t), k.byRuns, k.codesScheme # "RLE"
    PROVE  Missed(k, t)
  BY DEF Missed, IsDict

LEMMA MissRunsStep == IInv /\ MissRuns => IInv'
  <1>. SUFFICES ASSUME IInv, MissRuns PROVE IInv' OBVIOUS
  <1>1. /\ pc = "decompressing" /\ kept.scheme = "DICT" /\ kept.byRuns /\ way = "copy" /\ kept.codesScheme # "RLE"
        /\ Becomes("threw", memory, loop, cache) /\ Frame
    BY DEF MissRuns, CodesAreRuns, Becomes
  <1>2. pc \in States /\ "threw" \in States BY <1>1 DEF States
  <1>3. PICK t, p, ty, limit : DictOpened(t, p, ty, limit, "copy") BY <1>1, <1>2, DictOpen
  <1>4. /\ Opened(t, p, ty, limit) /\ IsDict(kept, t)
        /\ Working(pc, "copy", memory, loop, cache, kept, t, p, limit)
    BY <1>3, Zenon DEF DictOpened
  <1>5. Within(memory, limit) /\ IsCache(cache) /\ LoopIs(loop) /\ loop.at \in 0..Len(t) BY <1>4, Zenon DEF Working
  <1>6. Missed(kept, t) BY <1>1, <1>4, MissedIs
  <1>7. Working("threw", way, memory, loop, cache, kept, t, p, limit) BY <1>5, <1>6, ThrewState
  <1>. QED BY <1>1, <1>2, <1>4, <1>7, Goes

\* A column kept by DICT whose runs are decompressed.
LEMMA RunsOpen ==
    ASSUME IInv, pc \in {"offsets", "strings", "fsstruns"}
    PROVE  /\ pc \in States
           /\ \E t, p, ty, limit :
                /\ DictOpened(t, p, ty, limit, "copy") /\ Opened(t, p, ty, limit) /\ limit \in Int
                /\ AreTexts(t) /\ IsDict(kept, t) /\ CopyFits(t, limit) /\ Runs0(way, kept, "copy")
                /\ pc = "offsets" => OffsetsPhase(memory, loop, cache, kept, t, limit)
                /\ pc = "strings" => CopiesPhase(memory, loop, cache, kept, t, limit)
                /\ pc = "fsstruns" => FsstPhase(memory, loop, cache, kept, t, limit)
  <1>1. pc \in States BY DEF States
  <1>2. PICK t0, p0, ty0, limit0 : Opened(t0, p0, ty0, limit0) BY <1>1, OpenIs
  <1>3. Working(pc, way, memory, loop, cache, kept, t0, p0, limit0) BY <1>2, Zenon DEF Opened
  <1>4. Runs0(way, kept, "copy") BY <1>3 DEF Working
  <1>5. way = "copy" /\ kept.scheme = "DICT" /\ "copy" \in {"view", "copy"} BY <1>4 DEF Runs0
  <1>6. PICK t, p, ty, limit : DictOpened(t, p, ty, limit, "copy") BY <1>1, <1>5, DictOpen
  <1>7. /\ Opened(t, p, ty, limit) /\ limit \in Int
        /\ AreTexts(t) /\ IsDict(kept, t) /\ CopyFits(t, limit)
        /\ Working(pc, "copy", memory, loop, cache, kept, t, p, limit)
    BY <1>6, Zenon DEF DictOpened
  <1>8. /\ pc = "offsets" => OffsetsPhase(memory, loop, cache, kept, t, limit)
        /\ pc = "strings" => CopiesPhase(memory, loop, cache, kept, t, limit)
        /\ pc = "fsstruns" => FsstPhase(memory, loop, cache, kept, t, limit)
    BY <1>7, Zenon DEF Working
  <1>. QED BY <1>1, <1>4, <1>6, <1>7, <1>8

\* Runs that go on.
LEMMA OffsetsGoOn ==
    ASSUME NEW t, AreTexts(t), NEW k, IsDict(k, t), NEW m, NEW lp, NEW ca, NEW limit,
           OffsetsPhase(m, lp, ca, k, t, limit), NEW wy, Runs0(wy, k, "copy"), NEW p
    PROVE  Working("offsets", wy, m, lp, ca, k, t, p, limit)
  <1>1. IsCache(ca) /\ LoopIs(lp) /\ Within(m, limit) /\ lp.at = RunStarts(k, t)[lp.run - 1] /\ lp.run \in 1..(Len(k.runs) + 1)
    BY Zenon DEF OffsetsPhase
  <1>2. lp.run - 1 \in 0..Len(k.runs) BY <1>1, RunsAre
  <1>3. lp.at \in 0..Len(t) BY <1>1, <1>2, RunStartsIn
  <1>. QED BY <1>1, <1>3, Zenon DEF Working

LEMMA CopiesGoOn ==
    ASSUME NEW t, AreTexts(t), NEW k, NEW m, NEW lp, NEW ca, NEW limit,
           CopiesPhase(m, lp, ca, k, t, limit), NEW wy, Runs0(wy, k, "copy"), NEW p
    PROVE  Working("strings", wy, m, lp, ca, k, t, p, limit)
  <1>1. IsCache(ca) /\ LoopIs(lp) /\ Within(m, limit) /\ lp.at = Len(t) BY Zenon DEF CopiesPhase
  <1>3. lp.at \in 0..Len(t) BY <1>1, PlacesAre
  <1>. QED BY <1>1, <1>3, Zenon DEF Working

LEMMA FsstGoesOn ==
    ASSUME NEW t, AreTexts(t), NEW k, IsDict(k, t), NEW m, NEW lp, NEW ca, NEW limit,
           FsstPhase(m, lp, ca, k, t, limit), NEW wy, Runs0(wy, k, "copy"), NEW p
    PROVE  Working("fsstruns", wy, m, lp, ca, k, t, p, limit)
  <1>1. IsCache(ca) /\ LoopIs(lp) /\ Within(m, limit) /\ lp.at = RunStarts(k, t)[lp.run - 1] /\ lp.run \in 1..(Len(k.runs) + 1)
    BY Zenon DEF FsstPhase
  <1>2. lp.run - 1 \in 0..Len(k.runs) BY <1>1, RunsAre
  <1>3. lp.at \in 0..Len(t) BY <1>1, <1>2, RunStartsIn
  <1>. QED BY <1>1, <1>3, Zenon DEF Working

LEMMA WriteRunOffsetsStep == IInv /\ WriteRunOffsets => IInv'
  <1>. SUFFICES ASSUME IInv, WriteRunOffsets PROVE IInv' OBVIOUS
  <1>1. pc = "offsets" /\ MoreRuns /\ pc' = pc /\ cache' = cache /\ Frame BY DEF WriteRunOffsets
  <1>2. PICK m, lp, ca : m = memory' /\ lp = loop' /\ ca = cache' OBVIOUS
  <1>3. pc \in {"offsets", "strings", "fsstruns"} BY <1>1
  <1>4. PICK t, p, ty, limit :
          /\ Opened(t, p, ty, limit) /\ limit \in Int
          /\ AreTexts(t) /\ IsDict(kept, t) /\ CopyFits(t, limit) /\ Runs0(way, kept, "copy")
          /\ OffsetsPhase(memory, loop, cache, kept, t, limit)
    BY <1>1, <1>3, RunsOpen
  <1>5. RunOffset(m, lp, memory, loop, cache, kept) BY <1>2, Zenon DEF WriteRunOffsets, RunOffset, Run
  <1>6. loop.run <= Len(kept.runs) BY <1>1 DEF MoreRuns
  <1>7. PICK m0, lp0, ca0, k : m0 = memory /\ lp0 = loop /\ ca0 = cache /\ k = kept OBVIOUS
  <1>8. /\ IsDict(k, t) /\ OffsetsPhase(m0, lp0, ca0, k, t, limit) /\ RunOffset(m, lp, m0, lp0, ca0, k)
        /\ lp0.run <= Len(k.runs)
    BY <1>4, <1>5, <1>6, <1>7, Zenon
  <1>9. OffsetsPhase(m, lp, ca0, k, t, limit) BY <1>4, <1>8, OffsetsNext
  <1>10. OffsetsPhase(m, lp, ca, kept, t, limit) BY <1>1, <1>2, <1>7, <1>9, Zenon
  <1>11. Working("offsets", way, m, lp, ca, kept, t, p, limit) BY <1>4, <1>10, OffsetsGoOn
  <1>12. Becomes("offsets", m, lp, ca) /\ "offsets" \in States /\ pc \in States BY <1>1, <1>2 DEF Becomes, States
  <1>. QED BY <1>1, <1>4, <1>11, <1>12, Goes

LEMMA EndRunOffsetsStep == IInv /\ EndRunOffsets => IInv'
  <1>. SUFFICES ASSUME IInv, EndRunOffsets PROVE IInv' OBVIOUS
  <1>1. pc = "offsets" /\ ~MoreRuns /\ pc' = "strings" /\ cache' = cache /\ Frame BY DEF EndRunOffsets
  <1>2. PICK m, lp, ca : m = memory' /\ lp = loop' /\ ca = cache' OBVIOUS
  <1>3. pc \in {"offsets", "strings", "fsstruns"} BY <1>1
  <1>4. PICK t, p, ty, limit :
          /\ Opened(t, p, ty, limit) /\ limit \in Int
          /\ AreTexts(t) /\ IsDict(kept, t) /\ CopyFits(t, limit) /\ Runs0(way, kept, "copy")
          /\ OffsetsPhase(memory, loop, cache, kept, t, limit)
    BY <1>1, <1>3, RunsOpen
  <1>5. OffsetsEnded(m, lp, memory, loop) BY <1>2, Zenon DEF EndRunOffsets, OffsetsEnded
  <1>6. ~(loop.run <= Len(kept.runs)) BY <1>1 DEF MoreRuns
  <1>7. PICK m0, lp0, ca0, k : m0 = memory /\ lp0 = loop /\ ca0 = cache /\ k = kept OBVIOUS
  <1>8. /\ IsDict(k, t) /\ OffsetsPhase(m0, lp0, ca0, k, t, limit) /\ OffsetsEnded(m, lp, m0, lp0)
        /\ ~(lp0.run <= Len(k.runs))
    BY <1>4, <1>5, <1>6, <1>7, Zenon
  <1>9. CopiesPhase(m, lp, ca0, k, t, limit) BY <1>4, <1>8, OffsetsEnd
  <1>10. CopiesPhase(m, lp, ca, kept, t, limit) BY <1>1, <1>2, <1>7, <1>9, Zenon
  <1>11. Working("strings", way, m, lp, ca, kept, t, p, limit) BY <1>4, <1>10, CopiesGoOn
  <1>12. Becomes("strings", m, lp, ca) /\ "strings" \in States /\ pc \in States BY <1>1, <1>2 DEF Becomes, States
  <1>. QED BY <1>1, <1>4, <1>11, <1>12, Goes

LEMMA WriteRunStringsStep == IInv /\ WriteRunStrings => IInv'
  <1>. SUFFICES ASSUME IInv, WriteRunStrings PROVE IInv' OBVIOUS
  <1>1. pc = "strings" /\ MoreRuns /\ pc' = pc /\ Frame BY DEF WriteRunStrings
  <1>2. PICK m, lp, ca : m = memory' /\ lp = loop' /\ ca = cache' OBVIOUS
  <1>3. pc \in {"offsets", "strings", "fsstruns"} BY <1>1
  <1>4. PICK t, p, ty, limit :
          /\ Opened(t, p, ty, limit) /\ limit \in Int
          /\ AreTexts(t) /\ IsDict(kept, t) /\ CopyFits(t, limit) /\ Runs0(way, kept, "copy")
          /\ CopiesPhase(memory, loop, cache, kept, t, limit)
    BY <1>1, <1>3, RunsOpen
  <1>5. RunCopied(m, lp, ca, memory, loop, cache, kept)
    <2>1. ca = RememberedAt(cache, kept.runs[loop.run].code, kept.runs[loop.run].count, loop.write)
      BY <1>2, Zenon DEF WriteRunStrings, Remembered, RememberedAt, WithTextAndRuns, Run
    <2>. QED BY <1>2, <2>1, Zenon DEF WriteRunStrings, RunCopied, Run, Copied, strings
  <1>6. loop.run <= Len(kept.runs) BY <1>1 DEF MoreRuns
  <1>7. PICK m0, lp0, ca0, k : m0 = memory /\ lp0 = loop /\ ca0 = cache /\ k = kept OBVIOUS
  <1>8. /\ IsDict(k, t) /\ CopiesPhase(m0, lp0, ca0, k, t, limit) /\ RunCopied(m, lp, ca, m0, lp0, ca0, k)
        /\ lp0.run <= Len(k.runs)
    BY <1>4, <1>5, <1>6, <1>7, Zenon
  <1>9. CopiesPhase(m, lp, ca, k, t, limit) BY <1>4, <1>8, CopiesNext
  <1>10. CopiesPhase(m, lp, ca, kept, t, limit) BY <1>7, <1>9, Zenon
  <1>11. Working("strings", way, m, lp, ca, kept, t, p, limit) BY <1>4, <1>10, CopiesGoOn
  <1>12. Becomes("strings", m, lp, ca) /\ "strings" \in States /\ pc \in States BY <1>1, <1>2 DEF Becomes, States
  <1>. QED BY <1>1, <1>4, <1>11, <1>12, Goes

LEMMA WriteFsstRunStep == IInv /\ WriteFsstRun => IInv'
  <1>. SUFFICES ASSUME IInv, WriteFsstRun PROVE IInv' OBVIOUS
  <1>1. pc = "fsstruns" /\ MoreRuns /\ pc' = pc /\ Frame BY DEF WriteFsstRun
  <1>2. PICK m, lp, ca : m = memory' /\ lp = loop' /\ ca = cache' OBVIOUS
  <1>3. pc \in {"offsets", "strings", "fsstruns"} BY <1>1
  <1>4. PICK t, p, ty, limit :
          /\ Opened(t, p, ty, limit) /\ limit \in Int
          /\ AreTexts(t) /\ IsDict(kept, t) /\ CopyFits(t, limit) /\ Runs0(way, kept, "copy")
          /\ FsstPhase(memory, loop, cache, kept, t, limit)
    BY <1>1, <1>3, RunsOpen
  <1>5. FsstRun(m, lp, ca, memory, loop, cache, kept)
    <2>1. Remembered(kept.runs[loop.run].code, kept.runs[loop.run].count)
            = RememberedAt(cache, kept.runs[loop.run].code, kept.runs[loop.run].count, loop.write)
      BY Zenon DEF Remembered, RememberedAt, WithTextAndRuns
    <2>. QED BY <1>2, <2>1, Zenon DEF WriteFsstRun, FsstRun, Run, Copied, strings, LengthLearnt, WithLength
  <1>6. loop.run <= Len(kept.runs) BY <1>1 DEF MoreRuns
  <1>7. PICK m0, lp0, ca0, k : m0 = memory /\ lp0 = loop /\ ca0 = cache /\ k = kept OBVIOUS
  <1>8. /\ IsDict(k, t) /\ FsstPhase(m0, lp0, ca0, k, t, limit) /\ FsstRun(m, lp, ca, m0, lp0, ca0, k)
        /\ lp0.run <= Len(k.runs)
    BY <1>4, <1>5, <1>6, <1>7, Zenon
  <1>9. FsstPhase(m, lp, ca, k, t, limit) BY <1>4, <1>8, FsstNext
  <1>10. FsstPhase(m, lp, ca, kept, t, limit) BY <1>7, <1>9, Zenon
  <1>11. Working("fsstruns", way, m, lp, ca, kept, t, p, limit) BY <1>4, <1>10, FsstGoesOn
  <1>12. Becomes("fsstruns", m, lp, ca) /\ "fsstruns" \in States /\ pc \in States BY <1>1, <1>2 DEF Becomes, States
  <1>. QED BY <1>1, <1>4, <1>11, <1>12, Goes

LEMMA EndRunsStep == IInv /\ EndRuns => IInv'
  <1>. SUFFICES ASSUME IInv, EndRuns PROVE IInv' OBVIOUS
  <1>1. /\ pc \in {"strings", "fsstruns"} /\ ~MoreRuns /\ pc' = "read" /\ loop' = loop /\ cache' = cache /\ Frame
        /\ memory' = IF pc = "fsstruns" THEN Put(memory, SlotBytes * loop.at, Words(<<loop.start>>)) ELSE memory
    BY DEF EndRuns
  <1>2. PICK m : m = memory' OBVIOUS
  <1>3. pc \in {"offsets", "strings", "fsstruns"} BY <1>1
  <1>4. PICK t, p, ty, limit :
          /\ Opened(t, p, ty, limit) /\ limit \in Int
          /\ AreTexts(t) /\ IsDict(kept, t) /\ CopyFits(t, limit) /\ Runs0(way, kept, "copy")
          /\ pc = "strings" => CopiesPhase(memory, loop, cache, kept, t, limit)
          /\ pc = "fsstruns" => FsstPhase(memory, loop, cache, kept, t, limit)
    BY <1>3, RunsOpen
  <1>6. ~(loop.run <= Len(kept.runs)) BY <1>1 DEF MoreRuns
  <1>7. PICK m0, lp0, ca0, k : m0 = memory /\ lp0 = loop /\ ca0 = cache /\ k = kept OBVIOUS
  <1>8. Stored(m, t, Start0(t)) /\ Within(m, limit)
    <2>1. CASE pc = "strings"
      <3>1. pc # "fsstruns" BY <2>1
      <3>2. m = m0 BY <1>1, <1>2, <1>7, <3>1
      <3>3. IsDict(k, t) /\ CopiesPhase(m0, lp0, ca0, k, t, limit) /\ ~(lp0.run <= Len(k.runs))
        BY <1>4, <1>6, <1>7, <2>1, Zenon
      <3>4. Stored(m0, t, Start0(t)) /\ Within(m0, limit) BY <1>4, <3>3, CopiesEnd
      <3>. QED BY <3>2, <3>4, Zenon
    <2>2. CASE pc = "fsstruns"
      <3>1. FsstEnded(m, m0, lp0) BY <1>1, <1>2, <1>7, <2>2, Zenon DEF FsstEnded
      <3>3. IsDict(k, t) /\ FsstPhase(m0, lp0, ca0, k, t, limit) /\ ~(lp0.run <= Len(k.runs))
        BY <1>4, <1>6, <1>7, <2>2, Zenon
      <3>. QED BY <1>4, <3>1, <3>3, FsstEnd
    <2>. QED BY <1>1, <2>1, <2>2
  <1>9. ReadsBack(m, way, kept, t, p)
    <2>1. kept.scheme # "numbers" /\ ~(way = "view" /\ kept.scheme \in {"DICT", "ONE_VALUE"}) BY <1>4 DEF Runs0
    <2>2. Start0(t) \in Nat BY <1>4, Start0Is
    <2>. QED BY <1>4, <1>8, <2>1, <2>2, StoredReads
  <1>10. Becomes("read", m, loop, cache) /\ pc \in States BY <1>1, <1>2 DEF Becomes, States
  <1>. QED BY <1>1, <1>4, <1>8, <1>9, <1>10, IsRead

\* Views that are being written, and those that follow.
LEMMA ViewsGoOn ==
    ASSUME NEW t, AreTexts(t), NEW k, IsDict(k, t), NEW m, NEW lp, NEW ca, NEW limit,
           ViewsPhase(m, lp, ca, k, t, limit), NEW wy, Runs0(wy, k, "view"), NEW p
    PROVE  Working("runviews", wy, m, lp, ca, k, t, p, limit)
  <1>1. IsCache(ca) /\ LoopIs(lp) /\ Within(m, limit) /\ lp.at = RunStarts(k, t)[lp.run - 1] /\ lp.run \in 1..(Len(k.runs) + 1)
    BY Zenon DEF ViewsPhase, DictionaryPhase
  <1>2. lp.run - 1 \in 0..Len(k.runs) BY <1>1, RunsAre
  <1>3. lp.at \in 0..Len(t) BY <1>1, <1>2, RunStartsIn
  <1>. QED BY <1>1, <1>3, Zenon DEF Working

LEMMA RowViewsGoOn ==
    ASSUME NEW t, NEW k, NEW m, NEW lp, LoopIs(lp), lp.at \in 0..Len(t), NEW ca, NEW limit,
           DictionaryPhase(m, ca, k, t, limit), NEW wy, Runs0(wy, k, "view"), NEW p
    PROVE  Working("rowviews", wy, m, lp, ca, k, t, p, limit)
  <1>1. IsCache(ca) /\ Within(m, limit) BY Zenon DEF DictionaryPhase
  <1>. QED BY <1>1, Zenon DEF Working

\* Before the first run no view is written.
LEMMA ViewsStart ==
    ASSUME NEW t, AreTexts(t), NEW k, IsDict(k, t), NEW m, NEW lp, lp = NoLoop, NEW ca, NEW limit,
           DictionaryPhase(m, ca, k, t, limit)
    PROVE  ViewsPhase(m, lp, ca, k, t, limit)
  <1>1. lp.run = 1 /\ lp.at = 0 /\ LoopIs(lp) BY NoCacheIs DEF NoLoop
  <1>2. Len(k.runs) \in Nat /\ RunStarts(k, t)[0] = 0 BY RunsAre
  <1>3. lp.run \in 1..(Len(k.runs) + 1) /\ lp.at = RunStarts(k, t)[lp.run - 1]
    <2>1. lp.run - 1 = 0 /\ 1 \in 1..(Len(k.runs) + 1) BY <1>1, <1>2
    <2>. QED BY <1>1, <1>2, <2>1, Zenon
  <1>4. ViewsUpto(m, lp.at, Lengths(t), ViewPlacesOf(k, t))
    <2>1. \A i \in 1..0 : FALSE OBVIOUS
    <2>2. lp.at = 0 BY <1>1
    <2>. QED BY <2>1, <2>2, Zenon DEF ViewsUpto
  <1>. QED BY <1>1, <1>3, <1>4, Zenon DEF ViewsPhase

LEMMA StringsStartIs ==
    ASSUME NEW t, Len(t) = tuples
    PROVE  StringsStart = VStart(t)
  BY Zenon DEF StringsStart, VStart

LEMMA CopyDictionaryStep == IInv /\ CopyDictionary => IInv'
  <1>. SUFFICES ASSUME IInv, CopyDictionary PROVE IInv' OBVIOUS
  <1>1. /\ pc = "decompressing" /\ kept.scheme = "DICT" /\ way = "view" /\ Frame /\ loop' = loop
        /\ pc' = IF ~kept.byRuns THEN "rowviews" ELSE IF kept.codesScheme = "RLE" THEN "runviews" ELSE "threw"
    BY DEF CopyDictionary, CodesAreRuns
  <1>2. pc \in States /\ loop = NoLoop BY <1>1, FreshIs
  <1>3. PICK t, p, ty, limit : DictOpened(t, p, ty, limit, "view") BY <1>1, <1>2, DictOpen
  <1>4. /\ Opened(t, p, ty, limit) /\ limit \in Int /\ Within(memory, limit) /\ IsCache(cache) /\ LoopIs(loop)
        /\ AreTexts(t) /\ IsDict(kept, t) /\ Len(t) = tuples /\ ViewFits(t, limit)
    BY <1>1, <1>3, Zenon DEF DictOpened
  <1>5. PICK m, ca : m = memory' /\ ca = cache' OBVIOUS
  <1>6. StringsStart = VStart(t) BY <1>4, StringsStartIs
  <1>7. DictionaryCopied(m, memory, kept, VStart(t))
    <2>1. m = IF kept.fsst THEN FsstDecompressed(memory, StringsStart, FlattenSeq(strings))
              ELSE Put(memory, StringsStart, Characters(FlattenSeq(strings)))
      BY <1>5, Zenon DEF CopyDictionary
    <2>. QED BY <1>6, <2>1, Zenon DEF DictionaryCopied, TextWritten, PutText, strings
  <1>8. ViewsLearnt(ca, cache, kept.strings, VStart(t))
    <2>1. ca = [cache EXCEPT !.views = Over([c \in 0..(Len(kept.strings) - 1) |->
                     <<Len(kept.strings[c + 1]), StringsStart + SumOf([j \in 1..c |-> Len(kept.strings[j])])>>], cache.views)]
      BY <1>5, Zenon DEF CopyDictionary, Codes, strings
    <2>. QED BY <1>6, <2>1, Zenon DEF ViewsLearnt, WithViews
  <1>9. PICK m0, ca0, k : m0 = memory /\ ca0 = cache /\ k = kept OBVIOUS
  <1>10. /\ IsDict(k, t) /\ Within(m0, limit) /\ IsCache(ca0)
         /\ DictionaryCopied(m, m0, k, VStart(t)) /\ ViewsLearnt(ca, ca0, k.strings, VStart(t))
    BY <1>4, <1>7, <1>8, <1>9, Zenon
  <1>11. DictionaryPhase(m, ca, k, t, limit) BY <1>4, <1>10, DictionaryWritten
  <1>12. Runs0(way, k, "view") BY <1>1, <1>9 DEF Runs0
  <1>13. PICK lp : lp = loop OBVIOUS
  <1>14. PICK s \in {"runviews", "rowviews", "threw"} : s = pc' BY <1>1
  <1>15. Working(s, way, m, lp, ca, k, t, p, limit)
    <2>1. CASE s = "runviews"
      <3>1. ViewsPhase(m, lp, ca, k, t, limit) BY <1>2, <1>4, <1>10, <1>11, <1>13, ViewsStart
      <3>2. Working("runviews", way, m, lp, ca, k, t, p, limit) BY <1>4, <1>10, <1>12, <3>1, ViewsGoOn
      <3>. QED BY <2>1, <3>2, Zenon
    <2>3. LoopIs(lp) /\ lp.at \in 0..Len(t)
      <3>1. lp.at = 0 BY <1>2, <1>13 DEF NoLoop
      <3>2. Len(t) \in Nat BY <1>4, PlacesAre
      <3>. QED BY <1>2, <1>13, <3>1, <3>2, NoCacheIs
    <2>2. CASE s = "rowviews"
      <3>2. Working("rowviews", way, m, lp, ca, k, t, p, limit) BY <1>11, <1>12, <2>3, RowViewsGoOn
      <3>. QED BY <2>2, <3>2, Zenon
    <2>4. CASE s = "threw"
      <3>1. k.byRuns /\ k.codesScheme # "RLE" BY <1>1, <1>9, <1>14, <2>4
      <3>2. Within(m, limit) /\ IsCache(ca) BY <1>11, Zenon DEF DictionaryPhase
      <3>3. Missed(k, t) BY <1>10, <3>1, MissedIs
      <3>4. Working("threw", way, m, lp, ca, k, t, p, limit) BY <2>3, <3>2, <3>3, ThrewState
      <3>. QED BY <2>4, <3>4, Zenon
    <2>. QED BY <1>14, <2>1, <2>2, <2>4
  <1>16. Working(s, way, m, lp, ca, kept, t, p, limit) BY <1>9, <1>15, Zenon
  <1>17. Becomes(s, m, lp, ca) /\ s \in States BY <1>1, <1>5, <1>13, <1>14 DEF Becomes, States
  <1>. QED BY <1>1, <1>2, <1>4, <1>16, <1>17, Goes

\* A column kept by DICT whose views are being written.
LEMMA ViewsOpen ==
    ASSUME IInv, pc \in {"runviews", "rowviews"}
    PROVE  /\ pc \in States
           /\ \E t, p, ty, limit :
                /\ Opened(t, p, ty, limit) /\ limit \in Int /\ Len(t) = tuples
                /\ AreTexts(t) /\ IsDict(kept, t) /\ ViewFits(t, limit) /\ Runs0(way, kept, "view")
                /\ pc = "runviews" => ViewsPhase(memory, loop, cache, kept, t, limit)
                /\ pc = "rowviews" => DictionaryPhase(memory, cache, kept, t, limit)
  <1>1. pc \in States BY DEF States
  <1>2. PICK t0, p0, ty0, limit0 : Opened(t0, p0, ty0, limit0) BY <1>1, OpenIs
  <1>3. Working(pc, way, memory, loop, cache, kept, t0, p0, limit0) BY <1>2, Zenon DEF Opened
  <1>4. Runs0(way, kept, "view") BY <1>3 DEF Working
  <1>5. way = "view" /\ kept.scheme = "DICT" /\ "view" \in {"view", "copy"} BY <1>4 DEF Runs0
  <1>6. PICK t, p, ty, limit : DictOpened(t, p, ty, limit, "view") BY <1>1, <1>5, DictOpen
  <1>7. /\ Opened(t, p, ty, limit) /\ limit \in Int /\ Len(t) = tuples
        /\ AreTexts(t) /\ IsDict(kept, t) /\ ViewFits(t, limit)
        /\ Working(pc, "view", memory, loop, cache, kept, t, p, limit)
    BY <1>6, Zenon DEF DictOpened
  <1>8. /\ pc = "runviews" => ViewsPhase(memory, loop, cache, kept, t, limit)
        /\ pc = "rowviews" => DictionaryPhase(memory, cache, kept, t, limit)
    BY <1>7, Zenon DEF Working
  <1>. QED BY <1>1, <1>4, <1>7, <1>8

LEMMA WriteRunViewsStep == IInv /\ WriteRunViews => IInv'
  <1>. SUFFICES ASSUME IInv, WriteRunViews PROVE IInv' OBVIOUS
  <1>1. pc = "runviews" /\ MoreRuns /\ pc' = pc /\ cache' = cache /\ Frame BY DEF WriteRunViews
  <1>2. PICK m, lp, ca : m = memory' /\ lp = loop' /\ ca = cache' OBVIOUS
  <1>3. pc \in {"runviews", "rowviews"} BY <1>1
  <1>4. PICK t, p, ty, limit :
          /\ Opened(t, p, ty, limit) /\ limit \in Int
          /\ AreTexts(t) /\ IsDict(kept, t) /\ ViewFits(t, limit) /\ Runs0(way, kept, "view")
          /\ ViewsPhase(memory, loop, cache, kept, t, limit)
    BY <1>1, <1>3, ViewsOpen
  <1>5. RunViewed(m, lp, memory, loop, cache, kept)
    BY <1>2, Zenon DEF WriteRunViews, RunViewed, Run, ViewOf, ViewFor, SameViews
  <1>6. loop.run <= Len(kept.runs) BY <1>1 DEF MoreRuns
  <1>7. PICK m0, lp0, ca0, k : m0 = memory /\ lp0 = loop /\ ca0 = cache /\ k = kept OBVIOUS
  <1>8. /\ IsDict(k, t) /\ ViewsPhase(m0, lp0, ca0, k, t, limit) /\ RunViewed(m, lp, m0, lp0, ca0, k)
        /\ lp0.run <= Len(k.runs)
    BY <1>4, <1>5, <1>6, <1>7, Zenon
  <1>9. ViewsPhase(m, lp, ca0, k, t, limit) BY <1>4, <1>8, ViewsRunNext
  <1>10. ViewsPhase(m, lp, ca, kept, t, limit) BY <1>1, <1>2, <1>7, <1>9, Zenon
  <1>11. Working("runviews", way, m, lp, ca, kept, t, p, limit) BY <1>4, <1>10, ViewsGoOn
  <1>12. Becomes("runviews", m, lp, ca) /\ "runviews" \in States /\ pc \in States BY <1>1, <1>2 DEF Becomes, States
  <1>. QED BY <1>1, <1>4, <1>11, <1>12, Goes

LEMMA EndRunViewsStep == IInv /\ EndRunViews => IInv'
  <1>. SUFFICES ASSUME IInv, EndRunViews PROVE IInv' OBVIOUS
  <1>1. pc = "runviews" /\ ~MoreRuns /\ pc' = "read" /\ memory' = memory /\ loop' = loop /\ cache' = cache /\ Frame
    BY DEF EndRunViews
  <1>3. pc \in {"runviews", "rowviews"} BY <1>1
  <1>4. PICK t, p, ty, limit :
          /\ Opened(t, p, ty, limit) /\ limit \in Int
          /\ AreTexts(t) /\ IsDict(kept, t) /\ Runs0(way, kept, "view")
          /\ ViewsPhase(memory, loop, cache, kept, t, limit)
    BY <1>1, <1>3, ViewsOpen
  <1>6. ~(loop.run <= Len(kept.runs)) BY <1>1 DEF MoreRuns
  <1>7. PICK m0, lp0, ca0, k : m0 = memory /\ lp0 = loop /\ ca0 = cache /\ k = kept OBVIOUS
  <1>8. /\ IsDict(k, t) /\ ViewsPhase(m0, lp0, ca0, k, t, limit)
        /\ ~(lp0.run <= Len(k.runs))
    BY <1>4, <1>6, <1>7, Zenon
  <1>9. Viewed(m0, t, limit) BY <1>4, <1>8, ViewsRunEnd
  <1>10. Viewed(memory, t, limit) BY <1>7, <1>9, Zenon
  <1>11. ReadsBack(memory, way, kept, t, p) /\ Within(memory, limit)
    <2>1. way = "view" /\ kept.scheme \in {"DICT", "ONE_VALUE"} BY <1>4 DEF Runs0
    <2>2. (\A i \in 1..Len(t) : ViewedAt(memory, i - 1) = t[i]) /\ Within(memory, limit) BY <1>10 DEF Viewed
    <2>3. ReadsBack(memory, "view", kept, t, p) BY <2>1, <2>2, ViewedReads
    <2>. QED BY <2>1, <2>2, <2>3, Zenon
  <1>12. Becomes("read", memory, loop, cache) /\ pc \in States BY <1>1 DEF Becomes, States
  <1>. QED BY <1>1, <1>4, <1>11, <1>12, IsRead

LEMMA WriteRowViewsStep == IInv /\ WriteRowViews => IInv'
  <1>. SUFFICES ASSUME IInv, WriteRowViews PROVE IInv' OBVIOUS
  <1>1. pc = "rowviews" /\ pc' = "read" /\ loop' = loop /\ cache' = cache /\ Frame BY DEF WriteRowViews
  <1>2. PICK m : m = memory' OBVIOUS
  <1>3. pc \in {"runviews", "rowviews"} BY <1>1
  <1>4. PICK t, p, ty, limit :
          /\ Opened(t, p, ty, limit) /\ limit \in Int /\ Len(t) = tuples
          /\ AreTexts(t) /\ IsDict(kept, t) /\ ViewFits(t, limit) /\ Runs0(way, kept, "view")
          /\ DictionaryPhase(memory, cache, kept, t, limit)
    BY <1>1, <1>3, ViewsOpen
  <1>5. RowsViewed(m, memory, cache, kept, Len(t)) BY <1>2, <1>4, Zenon DEF WriteRowViews, RowsViewed, ViewOf, ViewFor
  <1>7. PICK m0, ca0, k : m0 = memory /\ ca0 = cache /\ k = kept OBVIOUS
  <1>8. IsDict(k, t) /\ DictionaryPhase(m0, ca0, k, t, limit) /\ RowsViewed(m, m0, ca0, k, Len(t))
    BY <1>4, <1>5, <1>7, Zenon
  <1>9. Viewed(m, t, limit) BY <1>4, <1>8, ViewsOfRows
  <1>11. ReadsBack(m, way, kept, t, p) /\ Within(m, limit)
    <2>1. way = "view" /\ kept.scheme \in {"DICT", "ONE_VALUE"} BY <1>4 DEF Runs0
    <2>2. (\A i \in 1..Len(t) : ViewedAt(m, i - 1) = t[i]) /\ Within(m, limit) BY <1>9 DEF Viewed
    <2>3. ReadsBack(m, "view", kept, t, p) BY <2>1, <2>2, ViewedReads
    <2>. QED BY <2>1, <2>2, <2>3, Zenon
  <1>12. Becomes("read", m, loop, cache) /\ pc \in States BY <1>1, <1>2 DEF Becomes, States
  <1>. QED BY <1>1, <1>4, <1>11, <1>12, IsRead

---------------------------------------------------------------------------
(* The invariant holds *)

LEMMA StutterStep == IInv /\ UNCHANGED vars => IInv'
  <1>. SUFFICES ASSUME IInv, UNCHANGED vars PROVE IInv' OBVIOUS
  <1>1. /\ pc' = pc /\ table' = table /\ config' = config /\ row' = row /\ columns' = columns /\ range' = range
        /\ layout' = layout /\ block' = block /\ size' = size /\ column' = column /\ way' = way
        /\ memory' = memory /\ loop' = loop /\ cache' = cache
    BY DEF vars
  <1>2. TableIs' /\ RangeIs' /\ LayoutIs'
    <2>1. TableIs /\ RangeIs /\ LayoutIs BY Zenon DEF IInv
    <2>2. TableIs' BY <1>1, <2>1 DEF TableIs
    <2>3. RangeIs' BY <1>1, <2>1 DEF RangeIs
    <2>4. LayoutIs' BY <1>1, <2>1 DEF LayoutIs, HeaderSize
    <2>. QED BY <2>2, <2>3, <2>4
  <1>3. BlockIs'
    <2>1. BlockIs BY Zenon DEF IInv
    <2>. QED BY <1>1, <2>1 DEF BlockIs
  <1>4. ColumnOpen'
    <2>1. ColumnOpen BY Zenon DEF IInv
    <2>. QED BY <1>1, <2>1 DEF ColumnOpen
  <1>. QED BY <1>2, <1>3, <1>4, Zenon DEF IInv

LEMMA StepInv == IInv /\ [Next]_vars => IInv'
  <1>. SUFFICES ASSUME IInv, [Next]_vars PROVE IInv' OBVIOUS
  <1>1. CASE UNCHANGED vars BY <1>1, StutterStep
  <1>2. CASE StartConvert \/ ConvertRow \/ ReadDirectory BY <1>2, StartConvertStep, ConvertRowStep, ReadDirectoryStep
  <1>3. CASE StartCompress \/ CompressColumn \/ CompressInputChunk \/ EndCompress
    BY <1>3, StartCompressStep, CompressColumnStep, CompressInputChunkStep, EndCompressStep
  <1>4. CASE OpenColumn \/ DecompressCopy \/ DecompressFsst \/ DecompressOneView \/ DecompressOneCopy
    BY <1>4, OpenColumnStep, DecompressCopyStep, DecompressFsstStep, DecompressOneViewStep, DecompressOneCopyStep
  <1>5. CASE DecompressFixed \/ DecompressCodes \/ StartRuns \/ MissRuns \/ WriteRunOffsets \/ EndRunOffsets \/ WriteRunStrings
    BY <1>5, DecompressFixedStep, DecompressCodesStep, StartRunsStep, MissRunsStep, WriteRunOffsetsStep,
       EndRunOffsetsStep, WriteRunStringsStep
  <1>6. CASE WriteFsstRun \/ EndRuns \/ CopyDictionary \/ WriteRunViews \/ WriteRowViews \/ EndRunViews
    BY <1>6, WriteFsstRunStep, EndRunsStep, CopyDictionaryStep, WriteRunViewsStep, WriteRowViewsStep, EndRunViewsStep
  <1>. QED BY <1>1, <1>2, <1>3, <1>4, <1>5, <1>6, Zenon DEF Next

\* Every reachable state satisfies the invariant: what the columns hold of the table, what each
\* compressed column keeps, how the datablock is laid out, and how far a decompression is.
THEOREM Invariance == Spec => []IInv
  BY InitInv, StepInv, PTL DEF Spec

---------------------------------------------------------------------------
(* What follows from it *)

LEMMA TypesAreRight == IInv => TypeOK
  <1>. SUFFICES ASSUME IInv PROVE TypeOK OBVIOUS
  <1>1. pc \in {"idle", "converting", "relation", "failed", "compressing", "compressed",
               "decompressing", "offsets", "strings", "fsstruns", "runviews", "rowviews", "read", "threw"}
    BY DEF IInv, TableIs, NoBlock, States
  <1>2. row \in 0..Len(table.rows)
    <2>1. Len(table.rows) \in Nat
      <3>1. CASE pc = "idle" BY <3>1 DEF IInv, TableIs
      <3>2. CASE pc # "idle"
        <4>1. table \in Tables BY <3>2 DEF IInv, TableIs
        <4>2. table.rows \in Seq(Seq(Cells)) BY <4>1, KeptFieldsAre
        <4>. QED BY <4>2
      <3>. QED BY <3>1, <3>2
    <2>2. row \in Nat /\ row <= Len(table.rows) BY DEF IInv, TableIs
    <2>. QED BY <2>1, <2>2
  <1>3. Len(block) \in Nat /\ Len(block) <= Len(columns) BY SequenceIs DEF IInv, BlockIs
  <1>4. column \in Nat /\ column <= Len(block) BY Zenon DEF IInv, ColumnOpen
  <1>5. LoopIs(loop) /\ loop.at \in 0..tuples /\ \A a \in DOMAIN memory : a \in Nat
    <2>1. CASE column = 0
      <3>1. memory = <<>> /\ loop = NoLoop BY <2>1, Zenon DEF IInv, ColumnOpen
      <3>2. tuples \in Nat
        <4>1. range.count \in Nat BY DEF IInv, RangeIs, NoRange
        <4>. QED BY <4>1 DEF tuples
      <3>3. loop.at = 0 /\ LoopIs(loop) /\ 0 \in 0..tuples BY <3>1, <3>2, NoCacheIs DEF NoLoop
      <3>. QED BY <3>1, <3>3
    <2>2. CASE column # 0
      <3>1. pc \in States BY <2>2, Zenon DEF IInv, ColumnOpen
      <3>2. PICK t, p, ty, limit : Opened(t, p, ty, limit) BY <3>1, OpenIs
      <3>3. IsColumn(kept, map, ty, t, p, tuples) /\ Working(pc, way, memory, loop, cache, kept, t, p, limit)
        BY <3>2, Zenon DEF Opened
      <3>4. LoopIs(loop) /\ loop.at \in 0..Len(t) /\ Within(memory, limit) BY <3>3, Zenon DEF Working
      <3>5. Len(t) = tuples BY <3>3, ColumnOf
      <3>. QED BY <3>4, <3>5 DEF Within
    <2>. QED BY <2>1, <2>2
  <1>6. loop.run \in Nat /\ loop.start \in Nat /\ loop.write \in Nat BY <1>5 DEF LoopIs
  <1>7. column \in 0..Len(block) BY <1>3, <1>4
  <1>. QED BY <1>1, <1>2, <1>3, <1>5, <1>6, <1>7, Zenon DEF TypeOK

\* Every variable keeps its type, and no assertion of a decompression fails: "died" is never
\* reached, whatever was compressed by whichever scheme.
THEOREM TypeCorrect == Spec => []TypeOK
  BY Invariance, TypesAreRight, PTL

LEMMA ColumnsAreTiled == IInv => ColumnsTile
  <1>. SUFFICES ASSUME IInv, layout = "datablock", pc = "compressed", NEW i \in DOMAIN block
                PROVE  /\ GetCompressedColumn(i).at >= HeaderSize
                       /\ GetCompressedColumn(i).at + GetCompressedColumn(i).size = block[i].end
    BY Zenon DEF ColumnsTile
  <1>1. IsSequence(block) /\ Len(block) = Len(columns) /\ Len(block) \in Nat /\ DOMAIN block = 1..Len(block)
    <2>1. pc \notin NoBlock \cup {"compressing"} BY DEF NoBlock
    <2>. QED BY <2>1, SequenceIs DEF IInv, BlockIs
  <1>2. Lies(block, HeaderSize) /\ (block # <<>> => size = block[Len(block)].end) /\ size \in Nat
    BY Zenon DEF IInv, LayoutIs
  <1>3. i \in 1..Len(block) BY <1>1
  <1>4. block[i].offset \in Nat /\ block[i].end \in Nat /\ HeaderSize <= block[i].offset BY <1>2, <1>3 DEF Lies
  <1>5. (IF i = Len(columns) THEN size ELSE block[i + 1].offset) = block[i].end
    <2>1. CASE i = Len(columns)
      <3>1. block # <<>> BY <1>1, <1>3, SequenceIs
      <3>. QED BY <1>1, <1>2, <2>1, <3>1
    <2>2. CASE i # Len(columns)
      <3>1. i + 1 \in 1..Len(block) /\ i + 1 > 1 /\ (i + 1) - 1 = i BY <1>1, <1>3, <2>2
      <3>2. block[i + 1].offset = block[(i + 1) - 1].end BY <1>2, <3>1 DEF Lies
      <3>. QED BY <2>2, <3>1, <3>2
    <2>. QED BY <2>1, <2>2
  <1>6. HeaderSize \in Nat BY <1>1, HeaderIs DEF IInv, TableIs, RangeIs, NoBlock, Columns
  <1>7. PICK a \in Nat, b \in Nat, h \in Nat : a = block[i].offset /\ b = block[i].end /\ h = HeaderSize /\ h <= a
    BY <1>4, <1>6
  <1>8. GetCompressedColumn(i).at = a /\ GetCompressedColumn(i).size = b - a
    <2>1. GetCompressedColumn(i) = [at |-> a, size |-> b - a] BY <1>5, <1>7, Zenon DEF GetCompressedColumn
    <2>. QED BY <2>1
  <1>9. a >= h /\ a + (b - a) = b BY <1>7
  <1>. QED BY <1>7, <1>8, <1>9, Zenon

\* The columns of a datablock lie side by side up to the size its header gives, for any number
\* of columns and any sizes of the data and the bitmaps.
THEOREM ColumnsAlwaysTile == Spec => []ColumnsTile
  BY Invariance, ColumnsAreTiled, PTL

\* The rows of the column that is open, as the table has them.
RowsOf(t, p, f) ==
    /\ tuples \in Nat \ {0} /\ Len(t) = tuples /\ Len(p) = tuples /\ p \in Seq(BOOLEAN)
    /\ p = PresentOf(column) /\ columns[column].field = f
    /\ \A i \in 1..tuples :
         /\ t[i] = columns[column].values[range.offset + i]
         /\ p[i] = columns[column].present[range.offset + i]
         /\ IsCellOf(columns[column], table, f, range.offset + i)

LEMMA OpenRows ==
    ASSUME IInv, pc \in States, NEW t, NEW p, NEW ty, NEW limit, Opened(t, p, ty, limit)
    PROVE  \E f : RowsOf(t, p, f)
  <1>1. column \in 1..Len(block) /\ pc \notin NoBlock /\ Len(block) = Len(columns) BY OpenIs
  <1>2. pc \notin {"idle", "converting", "failed"} BY <1>1 DEF NoBlock
  <1>3. TableFull BY <1>2, TableFullIs
  <1>4. PICK f \in Nat \ {0} : f = Fields(table)[column] BY <1>1, <1>3, Zenon DEF TableFull
  <1>5. /\ table \in Tables /\ row \in Nat
        /\ IsFilled(columns[column], table, f, row) /\ Len(columns[column].present) = row
    BY <1>1, <1>3, <1>4, Zenon DEF TableFull
  <1>6. IsChunk(range, row) BY <1>1 DEF IInv, RangeIs, IsChunk
  <1>7. PICK tb, r, c, rg : tb = table /\ r = row /\ c = columns[column] /\ rg = range OBVIOUS
  <1>8. tb \in Tables /\ r \in Nat /\ IsFilled(c, tb, f, r) /\ Len(c.present) = r /\ IsChunk(rg, r)
    BY <1>5, <1>6, <1>7, Zenon
  <1>9. /\ Part(c.present, rg) \in Seq(BOOLEAN) /\ Len(Part(c.present, rg)) = rg.count
        /\ Len(Part(c.values, rg)) = rg.count
        /\ \A k \in 1..rg.count :
             /\ Part(c.present, rg)[k] = c.present[rg.offset + k]
             /\ Part(c.values, rg)[k] = c.values[rg.offset + k]
             /\ IsCellOf(c, tb, f, rg.offset + k)
    BY <1>8, PartOfColumn
  <1>10. t = Part(c.values, rg) /\ p = Part(c.present, rg) BY <1>7, Zenon DEF Opened
  <1>11. tuples = rg.count /\ rg.count \in Nat \ {0} BY <1>7, <1>8, Zenon DEF tuples, IsChunk
  <1>12. p = PresentOf(column) BY <1>7, <1>10, Zenon DEF PresentOf, Part
  <1>13. columns[column].field = f BY <1>5, Zenon DEF IsFilled
  <1>14. RowsOf(t, p, f) BY <1>7, <1>9, <1>10, <1>11, <1>12, <1>13, Zenon DEF RowsOf
  <1>. QED BY <1>14

LEMMA SizesAreRight == IInv => SizesRight
  <1>. SUFFICES ASSUME IInv, column > 0
                PROVE  /\ \A a \in DOMAIN memory : a < Allocated
                       /\ kept.scheme # "DICTIONARY_8" => DecompressedDataSize = DataSize
    BY DEF SizesRight
  <1>1. pc \in States
    <2>1. column # 0 BY DEF IInv, ColumnOpen
    <2>. QED BY <2>1, Zenon DEF IInv, ColumnOpen
  <1>2. PICK t, p, ty, limit : Opened(t, p, ty, limit) BY <1>1, OpenIs
  <1>3. /\ IsColumn(kept, map, ty, t, p, tuples) /\ limit = RoomOf(way, kept, map, tuples)
        /\ Working(pc, way, memory, loop, cache, kept, t, p, limit)
    BY <1>2, Zenon DEF Opened
  <1>4. Allocated = limit BY <1>3, Zenon DEF Allocated, DecompressedSize, RoomOf, Room
  <1>5. \A a \in DOMAIN memory : a < Allocated
    <2>1. Within(memory, limit) BY <1>3, Zenon DEF Working
    <2>. QED BY <1>4, <2>1 DEF Within
  <1>6. DecompressedDataSize = DataSize
    <2>1. CASE kept.scheme = "numbers" BY <2>1, Zenon DEF DecompressedDataSize, DataSize, tuples
    <2>2. CASE kept.scheme # "numbers"
      <3>1. ty = "STRING" BY <1>3, <2>2, ColumnOf
      <3>2. PICK k, nm, n : k = kept /\ nm = map /\ n = tuples OBVIOUS
      <3>3. IsColumn(k, nm, "STRING", t, p, n) BY <1>3, <3>1, <3>2, Zenon
      <3>4. GetTotalLength(k, n, SetRows(nm, n)) = TextPlaces(t)[n] BY <3>3, DataIs
      <3>5. DecompressedDataSize = TextPlaces(t)[n] BY <2>2, <3>2, <3>4, Zenon DEF DecompressedDataSize
      <3>6. AreTexts(t) /\ Len(t) = n BY <3>3, Zenon DEF IsColumn
      <3>7. PICK f : RowsOf(t, p, f) BY <1>1, <1>2, OpenRows
      <3>8. Lengths(t) = [i \in 1..tuples |-> Len(columns[column].values[range.offset + i])]
        BY <3>2, <3>6, <3>7, Zenon DEF Lengths, RowsOf
      <3>9. n \in Nat /\ RunningSum(Lengths(t), n, TextPlaces(t)) /\ Lengths(t) \in [1..n -> Nat]
        <4>1. Len(t) \in Nat /\ RunningSum(Lengths(t), Len(t), TextPlaces(t)) /\ \A k0 \in 1..Len(t) : Len(t[k0]) \in Nat
          BY <3>6, PlacesAre
        <4>. QED BY <3>6, <4>1, Zenon DEF Lengths
      <3>10. SumOf(Lengths(t)) = TextPlaces(t)[n] BY <3>9, SumIs
      <3>11. DataSize = SumOf(Lengths(t)) BY <2>2, <3>8, Zenon DEF DataSize
      <3>. QED BY <3>5, <3>10, <3>11
    <2>. QED BY <2>1, <2>2
  <1>. QED BY <1>5, <1>6

\* No scheme ever writes outside of what the caller allocates for it, and the size of the data
\* that is reported is that of the values, for every table and every size of slots and batches.
THEOREM SizesAlwaysRight == Spec => []SizesRight
  BY Invariance, SizesAreRight, PTL

\* What was compressed is found in the chunk it was compressed from.
ChunkIs(i, t) ==
    \A j \in 1..tuples : InputAt(InputOf(i), j) = RowKept(kept, t, j)

RowsTaken(t, v, o, n) ==
    /\ AreTexts(t) /\ n \in Nat \ {0} /\ Len(t) = n /\ AreTexts(v) /\ o \in Nat /\ o + n <= Len(v)
    /\ \A k \in 1..n : t[k] = v[o + k]

LEMMA InputIs ==
    ASSUME NEW t, NEW n, NEW v, NEW o, RowsTaken(t, v, o, n)
    PROVE  \A j \in 1..n : StringAt(StringChunk(v, o, n).memory, j - 1) = t[j]
  <1>9. /\ AreTexts(t) /\ n \in Nat \ {0} /\ Len(t) = n /\ AreTexts(v) /\ o \in Nat /\ o + n <= Len(v)
        /\ \A k \in 1..n : t[k] = v[o + k]
    BY DEF RowsTaken
  <1>1. SlotsSize(n) \in Nat BY <1>9, SlotsAre
  <1>0. Stored(StringChunk(v, o, n).memory, t, SlotsSize(n)) BY <1>9, ChunkReads
  <1>2. PICK m : m = StringChunk(v, o, n).memory OBVIOUS
  <1>5. PICK start \in Nat : start = SlotsSize(n) BY <1>1
  <1>3. Stored(m, t, start) BY <1>0, <1>2, <1>5, Zenon
  <1>4. \A j \in 1..Len(t) : StringAt(m, j - 1) = t[j] BY <1>3, <1>9, StoredRead
  <1>. QED BY <1>2, <1>4, <1>9

LEMMA NumbersAt ==
    ASSUME NEW n \in Nat, NEW t \in Seq(Int), Len(t) = n
    PROVE  \A j \in 1..n : Word(Words(t), SlotBytes * (j - 1)) = t[j]
  <1>1. DOMAIN t = 1..n OBVIOUS
  <1>2. \A k \in 0..(n - 1) : HasWord(Words(t), SlotBytes * k, t[k + 1]) BY <1>1, WordsAlone
  <1>. SUFFICES ASSUME NEW j \in 1..n PROVE Word(Words(t), SlotBytes * (j - 1)) = t[j] OBVIOUS
  <1>3. j - 1 \in 0..(n - 1) /\ (j - 1) + 1 = j OBVIOUS
  <1>4. HasWord(Words(t), SlotBytes * (j - 1), t[j]) BY <1>2, <1>3
  <1>5. PICK at \in Int : at = SlotBytes * (j - 1)
    <2>1. SlotBytes \in Nat BY SlotIs
    <2>2. \A a \in Nat, b \in Nat : a * b \in Int BY Z3
    <2>3. j - 1 \in Nat BY <1>3
    <2>. QED BY <2>1, <2>2, <2>3
  <1>6. HasWord(Words(t), at, t[j]) BY <1>4, <1>5, Zenon
  <1>7. Word(Words(t), at) = t[j] BY <1>6, WordRead
  <1>. QED BY <1>5, <1>7, Zenon

\* The chunk of the column that is open gives its rows.
LEMMA ChunkGives ==
    ASSUME IInv, pc \in States, NEW t, NEW p, NEW ty, NEW limit, Opened(t, p, ty, limit)
    PROVE  ChunkIs(column, t) /\ InputOf(column).present = PresentOf(column)
  <1>1. column \in 1..Len(block) /\ pc \notin NoBlock /\ Len(block) = Len(columns) BY OpenIs
  <1>2. pc \notin {"idle", "converting", "failed"} BY <1>1 DEF NoBlock
  <1>3. TableFull BY <1>2, TableFullIs
  <1>4. PICK f \in Nat \ {0} : f = Fields(table)[column] BY <1>1, <1>3, Zenon DEF TableFull
  <1>5. /\ table \in Tables /\ row \in Nat
        /\ IsFilled(columns[column], table, f, row) /\ Len(columns[column].present) = row
    BY <1>1, <1>3, <1>4, Zenon DEF TableFull
  <1>6. IsChunk(range, row) BY <1>1 DEF IInv, RangeIs, IsChunk
  <1>7. PICK tb, r, c, rg : tb = table /\ r = row /\ c = columns[column] /\ rg = range OBVIOUS
  <1>8. tb \in Tables /\ r \in Nat /\ IsFilled(c, tb, f, r) /\ Len(c.present) = r /\ IsChunk(rg, r)
    BY <1>5, <1>6, <1>7, Zenon
  <1>9. PICK o \in Nat, n \in Nat \ {0} : o = rg.offset /\ n = rg.count /\ o + n <= r BY <1>8 DEF IsChunk
  <1>10. /\ t = Part(c.values, rg) /\ p = Part(c.present, rg) /\ ty = c.type
         /\ IsColumn(kept, map, ty, t, p, tuples)
    BY <1>7, Zenon DEF Opened
  <1>11. tuples = n BY <1>7, <1>9, Zenon DEF tuples
  <1>12. InputOf(column).present = PresentOf(column)
    <2>1. CASE c.type = "STRING"
      <3>1. PICK x : x = StringChunk(columns[column].values, range.offset, range.count) OBVIOUS
      <3>2. InputOf(column) = [memory |-> x.memory, size |-> x.size, present |-> PresentOf(column)]
        BY <1>7, <2>1, <3>1, Zenon DEF InputOf
      <3>3. PICK x1, x2, x3 : x1 = x.memory /\ x2 = x.size /\ x3 = PresentOf(column) OBVIOUS
      <3>4. InputOf(column) = [memory |-> x1, size |-> x2, present |-> x3] BY <3>2, <3>3, Zenon
      <3>5. InputOf(column).present = x3 BY <3>4
      <3>. QED BY <3>3, <3>5
    <2>2. CASE c.type # "STRING"
      <3>2. InputOf(column) = [memory |-> Words(SubSeq(columns[column].values, range.offset + 1, range.offset + range.count)),
                               size |-> SlotBytes * range.count, present |-> PresentOf(column)]
        BY <1>7, <2>2, Zenon DEF InputOf
      <3>3. PICK x1, x2, x3 : /\ x1 = Words(SubSeq(columns[column].values, range.offset + 1, range.offset + range.count))
                              /\ x2 = SlotBytes * range.count /\ x3 = PresentOf(column)
        OBVIOUS
      <3>4. InputOf(column) = [memory |-> x1, size |-> x2, present |-> x3] BY <3>2, <3>3, Zenon
      <3>5. InputOf(column).present = x3 BY <3>4
      <3>. QED BY <3>3, <3>5
    <2>. QED BY <2>1, <2>2
  <1>13. c.type \in {"STRING", "INTEGER"} /\ Len(t) = n BY <1>10, <1>11, Zenon DEF IsColumn
  <1>14. CASE c.type = "STRING"
    <2>1. /\ AreTexts(t) /\ AreTexts(c.values) /\ Len(c.values) = r
          /\ \A k \in 1..rg.count : Part(c.values, rg)[k] = c.values[rg.offset + k]
      BY <1>8, <1>10, <1>14, PartOfColumn
    <2>2. o + n <= Len(c.values) /\ \A k \in 1..n : t[k] = c.values[o + k] BY <1>9, <1>10, <2>1
    <2>3. PICK v : v = c.values OBVIOUS
    <2>4. AreTexts(v) /\ o + n <= Len(v) /\ \A k \in 1..n : t[k] = v[o + k] BY <2>1, <2>2, <2>3, Zenon
    <2>5. \A j \in 1..n : StringAt(StringChunk(v, o, n).memory, j - 1) = t[j]
      <3>1. RowsTaken(t, v, o, n) BY <1>13, <2>1, <2>4, Zenon DEF RowsTaken
      <3>. QED BY <3>1, InputIs
    <2>6. InputOf(column).memory = StringChunk(v, o, n).memory
      <3>1. PICK x : x = StringChunk(v, o, n) OBVIOUS
      <3>2. InputOf(column) = [memory |-> x.memory, size |-> x.size, present |-> PresentOf(column)]
        BY <1>7, <1>9, <1>14, <2>3, <3>1, Zenon DEF InputOf
      <3>3. PICK x1, x2, x3 : x1 = x.memory /\ x2 = x.size /\ x3 = PresentOf(column) OBVIOUS
      <3>4. InputOf(column) = [memory |-> x1, size |-> x2, present |-> x3] BY <3>2, <3>3, Zenon
      <3>5. InputOf(column).memory = x1 BY <3>4
      <3>. QED BY <3>1, <3>3, <3>5
    <2>7. kept.scheme # "numbers"
      <3>1. IsKept(kept, t) BY <1>10, <1>14, Zenon DEF IsColumn
      <3>. QED BY <3>1, KeptSchemes
    <2>8. \A j \in 1..n : InputAt(InputOf(column), j) = t[j] BY <1>7, <1>14, <2>5, <2>6, Zenon DEF InputAt
    <2>9. ChunkIs(column, t) BY <1>11, <2>7, <2>8, Zenon DEF ChunkIs, RowKept
    <2>. QED BY <1>12, <2>9
  <1>15. CASE c.type = "INTEGER"
    <2>1. t \in Seq(Int) /\ kept.scheme = "numbers" BY <1>10, <1>15, Zenon DEF IsColumn
    <2>2. \A j \in 1..n : Word(Words(t), SlotBytes * (j - 1)) = t[j] BY <1>13, <2>1, NumbersAt
    <2>3. c.type # "STRING" BY <1>15
    <2>6. InputOf(column).memory = Words(t)
      <3>2. InputOf(column) = [memory |-> Words(SubSeq(columns[column].values, range.offset + 1, range.offset + range.count)),
                               size |-> SlotBytes * range.count, present |-> PresentOf(column)]
        BY <1>7, <2>3, Zenon DEF InputOf
      <3>3. PICK x1, x2, x3 : /\ x1 = Words(SubSeq(columns[column].values, range.offset + 1, range.offset + range.count))
                              /\ x2 = SlotBytes * range.count /\ x3 = PresentOf(column)
        OBVIOUS
      <3>4. InputOf(column) = [memory |-> x1, size |-> x2, present |-> x3] BY <3>2, <3>3, Zenon
      <3>5. InputOf(column).memory = x1 BY <3>4
      <3>6. x1 = Words(t) BY <1>7, <1>10, <3>3, Zenon DEF Part
      <3>. QED BY <3>5, <3>6
    <2>8. \A j \in 1..n : InputAt(InputOf(column), j) = <<t[j]>> BY <1>7, <2>2, <2>3, <2>6, Zenon DEF InputAt
    <2>9. ChunkIs(column, t) BY <1>11, <2>1, <2>8, Zenon DEF ChunkIs, RowKept
    <2>. QED BY <1>12, <2>9
  <1>. QED BY <1>13, <1>14, <1>15

\* What TableReadBack says of a row.
RowReads(i) ==
    LET cells == table.rows[range.offset + i]
        type == columns[column].type
        cell == cells[columns[column].field]
    IN  /\ columns[column].field <= Len(cells)
        /\ WriteBITMAP(map, tuples)[i] = IsSet(type, cell)
        /\ IsSet(type, cell) => ReadAt(i) = IF type = "STRING" THEN cell.text ELSE <<cell.number>>

LEMMA OnlyRunsMissed ==
    ASSUME IInv, pc = "threw"
    PROVE  kept.scheme = "DICT" /\ kept.byRuns /\ RunsMayBeLost(tuples, Len(kept.runs))
  <1>1. pc \in States BY DEF States
  <1>2. PICK t, p, ty, limit : Opened(t, p, ty, limit) BY <1>1, OpenIs
  <1>3. IsColumn(kept, map, ty, t, p, tuples) /\ Working(pc, way, memory, loop, cache, kept, t, p, limit)
    BY <1>2, Zenon DEF Opened
  <1>4. Missed(kept, t) BY <1>3, Zenon DEF Working
  <1>5. Len(t) = tuples BY <1>3, ColumnOf
  <1>. QED BY <1>4, <1>5, Zenon DEF Missed

LEMMA ReadsTheTable == IInv => TableReadBack
  <1>. SUFFICES ASSUME IInv, pc = "read"
                PROVE  CompareContents(InputOf(column)) /\ \A i \in 1..tuples : RowReads(i)
    BY OnlyRunsMissed, Zenon DEF TableReadBack, RowReads
  <1>1. pc \in States BY DEF States
  <1>2. PICK t, p, ty, limit : Opened(t, p, ty, limit) BY <1>1, OpenIs
  <1>3. /\ IsColumn(kept, map, ty, t, p, tuples) /\ ty = columns[column].type
        /\ Working(pc, way, memory, loop, cache, kept, t, p, limit)
    BY <1>2, Zenon DEF Opened
  <1>4. PICK f : RowsOf(t, p, f) BY <1>1, <1>2, OpenRows
  <1>5. ChunkIs(column, t) /\ InputOf(column).present = PresentOf(column) BY <1>1, <1>2, ChunkGives
  <1>6. /\ tuples \in Nat \ {0} /\ Len(t) = tuples /\ Len(p) = tuples /\ p \in Seq(BOOLEAN)
        /\ p = PresentOf(column) /\ columns[column].field = f
    BY <1>4, Zenon DEF RowsOf
  <1>7. ReadsBack(memory, way, kept, t, p) BY <1>3, Zenon DEF Working
  <1>8. ASSUME NEW i \in 1..tuples PROVE WriteBITMAP(map, tuples)[i] = p[i]
    <2>1. PICK nm, n : nm = map /\ n = tuples OBVIOUS
    <2>2. nm = Nullmap(p) BY <1>3, <2>1, Zenon DEF IsColumn
    <2>3. \A j \in 1..Len(p) : WriteBITMAP(nm, Len(p))[j] = p[j] BY <1>6, <2>2, BitmapReadBack
    <2>. QED BY <1>6, <2>1, <2>3, Zenon
  <1>9. ASSUME NEW i \in 1..tuples, p[i] PROVE ReadAt(i) = RowKept(kept, t, i)
    <2>1. RowRead(memory, way, kept, i) = RowKept(kept, t, i) BY <1>6, <1>7, <1>9, Zenon DEF ReadsBack
    <2>. QED BY <2>1, Zenon DEF ReadAt, RowRead
  <1>10. CompareContents(InputOf(column))
    <2>1. PICK chunk : chunk = InputOf(column) OBVIOUS
    <2>2. chunk.present = p BY <1>5, <1>6, <2>1
    <2>3. \A i \in 1..tuples : InputAt(chunk, i) = RowKept(kept, t, i) BY <1>5, <2>1, Zenon DEF ChunkIs
    <2>4. CompareContents(chunk) BY <1>6, <1>8, <1>9, <2>2, <2>3, Zenon DEF CompareContents
    <2>. QED BY <2>1, <2>4
  <1>11. ASSUME NEW i \in 1..tuples PROVE RowReads(i)
    <2>1. PICK j, c : j = range.offset + i /\ c = columns[column] OBVIOUS
    <2>2. IsCellOf(c, table, f, j) /\ t[i] = c.values[j] /\ p[i] = c.present[j] BY <1>4, <2>1, Zenon DEF RowsOf
    <2>3. PICK cells, cell : cells = table.rows[j] /\ cell = cells[f] OBVIOUS
    <2>4. f <= Len(cells) /\ c.present[j] = IsSet(c.type, cell) /\ c.values[j] = ValueOf(c.type, cell)
      BY <2>2, <2>3, Zenon DEF IsCellOf
    <2>5. WriteBITMAP(map, tuples)[i] = IsSet(c.type, cell) BY <1>8, <2>2, <2>4, Zenon
    <2>6. ASSUME IsSet(c.type, cell)
          PROVE  ReadAt(i) = IF c.type = "STRING" THEN cell.text ELSE <<cell.number>>
      <3>1. p[i] BY <2>2, <2>4, <2>6, Zenon
      <3>2. ReadAt(i) = RowKept(kept, t, i) BY <1>9, <3>1
      <3>3. t[i] = ValueOf(c.type, cell) BY <2>2, <2>4
      <3>4. CASE c.type = "STRING"
        <4>1. kept.scheme # "numbers"
          <5>1. IsKept(kept, t) BY <1>3, <2>1, <3>4, Zenon DEF IsColumn
          <5>. QED BY <5>1, KeptSchemes
        <4>2. ValueOf(c.type, cell) = cell.text BY <2>6, <3>4, Zenon DEF ValueOf, IsSet
        <4>. QED BY <3>2, <3>3, <3>4, <4>1, <4>2, Zenon DEF RowKept
      <3>5. CASE c.type # "STRING"
        <4>1. kept.scheme = "numbers" BY <1>3, <2>1, <3>5, ColumnOf
        <4>2. ValueOf(c.type, cell) = cell.number BY <2>6, <3>5, Zenon DEF ValueOf
        <4>. QED BY <3>2, <3>3, <3>5, <4>1, <4>2, Zenon DEF RowKept
      <3>. QED BY <3>4, <3>5
    <2>. QED BY <1>6, <2>1, <2>3, <2>4, <2>5, <2>6, Zenon DEF RowReads
  <1>. QED BY <1>10, <1>11, Zenon

\* What is read of any row of any chunk is what the CSV file says, for every table, every choice
\* of schemes, both ways to decompress and whatever earlier columns left in the caches; and what
\* throws is only a dictionary whose runs the integer picker may have stored otherwise.
THEOREM TableReadsBack == Spec => []TableReadBack
  BY Invariance, ReadsTheTable, PTL
===============================================================================
