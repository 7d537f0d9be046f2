-------------------------- MODULE ColumnFilesProofs --------------------------
(***************************************************************************)
(* The column files of every table, every threshold and every number of    *)
(* columns: the invariants of ColumnFiles, proved from one inductive       *)
(* invariant, and that the directory implements the streams.               *)
(***************************************************************************)
EXTENDS ColumnFiles, InductionFacts

---------------------------------------------------------------------------
(* Part files *)

ChunkType == [table : Nat, column : Columns, range : [offset : Int, count : Int], size : Nat \ {0}]
ChunkSeqs == Seq(ChunkType) \ {<<>>}
Files == {PartFile(s) : s \in ChunkSeqs}

LEMMA AlignByFacts ==
    ASSUME NEW n \in Nat
    PROVE  AlignBy(n, 16) \in Nat /\ AlignBy(n, 16) >= n /\ AlignBy(n, 16) % 16 = 0
  BY DEF AlignBy

LEMMA SizesOf ==
    ASSUME NEW s \in ChunkSeqs
    PROVE  /\ s \in Seq(ChunkType) /\ Len(s) \in Nat \ {0}
           /\ \A i \in 1..Len(s) : s[i] \in ChunkType /\ s[i].size \in Nat \ {0}
  <1>1. s \in Seq(ChunkType) /\ Len(s) \in Nat \ {0}
    BY EmptySeq DEF ChunkSeqs
  <1>2. \A i \in 1..Len(s) : s[i] \in ChunkType
    BY <1>1
  <1>3. \A x \in ChunkType : x.size \in Nat \ {0}
    BY DEF ChunkType
  <1>. QED
    BY <1>1, <1>2, <1>3

LEMMA OffsetsFacts ==
    ASSUME NEW s \in ChunkSeqs, NEW n \in Nat \ {0}, n = Len(s)
    PROVE  /\ OffsetsOf(s) \in [1..n -> Nat]
           /\ OffsetsOf(s)[1] = AlignBy(Header(n), 16)
           /\ \A i \in 2..n : OffsetsOf(s)[i] = AlignBy(OffsetsOf(s)[i - 1] + s[i - 1].size, 16)
  <1>1. \A i \in 1..n : s[i].size \in Nat \ {0}
    BY SizesOf
  <1>2. AlignBy(Header(n), 16) \in Nat
    <2>1. Header(n) \in Nat
      BY DEF Header
    <2>. QED
      BY <2>1, AlignByFacts
  <1>3. PICK step : step = [p \in (2..n) \X Nat |-> AlignBy(p[2] + s[p[1] - 1].size, 16)]
    OBVIOUS
  <1>4. step \in [(2..n) \X Nat -> Nat]
    <2>1. ASSUME NEW p \in (2..n) \X Nat
          PROVE  AlignBy(p[2] + s[p[1] - 1].size, 16) \in Nat
      <3>1. p[2] \in Nat /\ p[1] - 1 \in 1..n
        OBVIOUS
      <3>2. p[2] + s[p[1] - 1].size \in Nat
        BY <1>1, <3>1
      <3>. QED
        BY <3>2, AlignByFacts
    <2>. QED
      BY <1>3, <2>1
  <1>5. PICK g \in [1..n -> Nat] : FromOne(g, n, AlignBy(Header(n), 16), step)
    BY <1>2, <1>4, RecursionFromOne, Zenon
  <1>6. ASSUME NEW i \in 2..n
        PROVE  g[i] = AlignBy(g[i - 1] + s[i - 1].size, 16)
    <2>1. i - 1 \in 1..n
      OBVIOUS
    <2>2. g[i - 1] \in Nat
      BY <2>1
    <2>3. g[i] = step[<<i, g[i - 1]>>]
      BY <1>5, Zenon DEF FromOne
    <2>4. step[<<i, g[i - 1]>>] = AlignBy(g[i - 1] + s[i - 1].size, 16)
      BY <1>3, <2>2
    <2>. QED
      BY <2>3, <2>4
  <1>7. g = [i \in 1..n |-> IF i = 1 THEN AlignBy(Header(n), 16)
                            ELSE AlignBy(g[i - 1] + s[i - 1].size, 16)]
    <2>1. PICK h : h = [i \in 1..n |-> IF i = 1 THEN AlignBy(Header(n), 16)
                                       ELSE AlignBy(g[i - 1] + s[i - 1].size, 16)]
      OBVIOUS
    <2>2. ASSUME NEW i \in 1..n
          PROVE  g[i] = h[i]
      <3>1. CASE i = 1
        <4>1. h[i] = AlignBy(Header(n), 16)
          BY <2>1, <3>1
        <4>. QED
          BY <1>5, <3>1, <4>1, Zenon DEF FromOne
      <3>2. CASE i # 1
        <4>1. i \in 2..n
          BY <3>2
        <4>. QED
          BY <1>6, <2>1, <3>2, <4>1
      <3>. QED
        BY <3>1, <3>2
    <2>. QED
      BY <2>1, <2>2
  <1>. DEFINE f == CHOOSE h : h = [i \in 1..Len(s) |->
                                      IF i = 1 THEN AlignBy(Header(Len(s)), 16)
                                      ELSE AlignBy(h[i - 1] + s[i - 1].size, 16)]
  <1>8. f = [i \in 1..n |-> IF i = 1 THEN AlignBy(Header(n), 16)
                            ELSE AlignBy(f[i - 1] + s[i - 1].size, 16)]
    BY <1>7, Zenon
  <1>9. OffsetsOf(s) = [i \in 1..n |-> f[i]]
    <2>1. OffsetsOf(s) = [i \in 1..Len(s) |-> f[i]]
      BY DEF OffsetsOf
    <2>. QED
      BY <2>1, Zenon
  <1>. HIDE DEF f
  <1>10. f[1] = AlignBy(Header(n), 16)
    <2>1. 1 \in 1..n
      OBVIOUS
    <2>. QED
      BY <1>8, <2>1
  <1>11. \A i \in 2..n : f[i] = AlignBy(f[i - 1] + s[i - 1].size, 16)
    <2>1. \A i \in 2..n : i \in 1..n /\ i # 1
      OBVIOUS
    <2>. QED
      BY <1>8, <2>1
  <1>12. \A i \in 1..n : f[i] \in Nat
    <2>1. ASSUME NEW i \in 2..n, f[i - 1] \in Nat
          PROVE  f[i] \in Nat
      <3>1. i - 1 \in 1..n
        OBVIOUS
      <3>2. f[i - 1] + s[i - 1].size \in Nat
        BY <1>1, <2>1, <3>1
      <3>. QED
        BY <1>11, <3>2, AlignByFacts
    <2>2. f[1] \in Nat
      BY <1>2, <1>10
    <2>. QED
      BY <2>1, <2>2, FromOneType
  <1>13. OffsetsOf(s) \in [1..n -> Nat] /\ \A i \in 1..n : OffsetsOf(s)[i] = f[i]
    BY <1>9, <1>12
  <1>14. \A i \in 2..n : i \in 1..n /\ i - 1 \in 1..n /\ 1 \in 1..n
    OBVIOUS
  <1>15. \A i \in 2..n : OffsetsOf(s)[i] = AlignBy(OffsetsOf(s)[i - 1] + s[i - 1].size, 16)
    BY <1>11, <1>13, <1>14
  <1>16. OffsetsOf(s)[1] = AlignBy(Header(n), 16)
    BY <1>10, <1>13
  <1>. QED
    BY <1>13, <1>15, <1>16

\* A chunk is written where its offset says.
Places(s) ==
    CHOOSE place : place = [i \in 1..Len(s) |->
        Diffs(s)[i] + (IF i = 1 THEN Header(Len(s)) ELSE place[i - 1] + s[i - 1].size)]

LEMMA PlacesAreOffsets ==
    ASSUME NEW s \in ChunkSeqs, NEW n \in Nat \ {0}, n = Len(s)
    PROVE  \A i \in 1..n : Places(s)[i] = OffsetsOf(s)[i]
  <1>. DEFINE O == OffsetsOf(s)
  <1>1. /\ O \in [1..n -> Nat] /\ O[1] = AlignBy(Header(n), 16)
        /\ \A i \in 1..n : s[i].size \in Nat \ {0}
        /\ Header(n) \in Nat
    <2>1. O \in [1..n -> Nat] /\ O[1] = AlignBy(Header(n), 16)
      BY OffsetsFacts
    <2>2. \A i \in 1..n : s[i].size \in Nat \ {0}
      BY SizesOf
    <2>3. Header(n) \in Nat
      BY DEF Header
    <2>. HIDE DEF O
    <2>. QED
      BY <2>1, <2>2, <2>3
  <1>2. \A i \in 1..n : Diffs(s)[i] = O[i] - (IF i = 1 THEN Header(n) ELSE O[i - 1] + s[i - 1].size)
    BY DEF Diffs
  <1>. HIDE DEF O
  <1>3. O = [i \in 1..n |-> Diffs(s)[i] + (IF i = 1 THEN Header(n) ELSE O[i - 1] + s[i - 1].size)]
    <2>1. PICK h : h = [i \in 1..n |->
                          Diffs(s)[i] + (IF i = 1 THEN Header(n) ELSE O[i - 1] + s[i - 1].size)]
      OBVIOUS
    <2>2. ASSUME NEW i \in 1..n
          PROVE  O[i] = h[i]
      <3>1. CASE i = 1
        <4>1. Diffs(s)[i] = O[i] - Header(n) /\ h[i] = Diffs(s)[i] + Header(n)
          BY <1>2, <2>1, <3>1
        <4>. QED
          BY <1>1, <4>1
      <3>2. CASE i # 1
        <4>1. i - 1 \in 1..n
          BY <3>2
        <4>2. PICK d \in Nat : d = O[i - 1] + s[i - 1].size
          BY <1>1, <4>1
        <4>3. Diffs(s)[i] = O[i] - d /\ h[i] = Diffs(s)[i] + d
          BY <1>2, <2>1, <3>2, <4>2
        <4>. QED
          BY <1>1, <4>3
      <3>. QED
        BY <3>1, <3>2
    <2>. QED
      BY <1>1, <2>1, <2>2
  <1>4. Places(s) = [i \in 1..n |->
                       Diffs(s)[i] + (IF i = 1 THEN Header(n) ELSE Places(s)[i - 1] + s[i - 1].size)]
    BY <1>3, Zenon DEF Places
  <1>. DEFINE S == {i \in 0..n : i > 0 => Places(s)[i] = O[i]}
  <1>5. 0 \in S
    OBVIOUS
  <1>6. ASSUME NEW i \in 0..(n - 1), i \in S
        PROVE  i + 1 \in S
    <2>1. i + 1 \in 1..n /\ (i + 1) - 1 = i /\ i + 1 \in 0..n
      OBVIOUS
    <2>2. CASE i = 0
      <3>1. Places(s)[i + 1] = Diffs(s)[i + 1] + Header(n)
        BY <1>4, <2>1, <2>2
      <3>2. Diffs(s)[i + 1] = O[i + 1] - Header(n)
        BY <1>2, <2>1, <2>2
      <3>3. Places(s)[i + 1] = O[i + 1]
        BY <1>1, <2>1, <3>1, <3>2
      <3>. QED
        BY <2>1, <3>3
    <2>3. CASE i # 0
      <3>1. Places(s)[i] = O[i] /\ i \in 1..n
        BY <1>6, <2>3
      <3>2. PICK d \in Nat : d = O[i] + s[i].size
        BY <1>1, <3>1
      <3>3. Places(s)[i + 1] = Diffs(s)[i + 1] + d
        BY <1>4, <2>1, <2>3, <3>1, <3>2
      <3>4. Diffs(s)[i + 1] = O[i + 1] - d
        BY <1>2, <2>1, <2>3, <3>2
      <3>5. Places(s)[i + 1] = O[i + 1]
        BY <1>1, <2>1, <3>3, <3>4
      <3>. QED
        BY <2>1, <3>5
    <2>. QED
      BY <2>2, <2>3
  <1>7. 0..n \subseteq S
    <2>. HIDE DEF S
    <2>. QED
      BY <1>5, <1>6, IntervalInduction
  <1>8. \A i \in 1..n : Places(s)[i] = O[i]
    BY <1>7
  <1>. QED
    BY <1>8 DEF O

\* Offsets grow, so no two chunks are in one place.
LEMMA OffsetsGrow ==
    ASSUME NEW s \in ChunkSeqs, NEW n \in Nat \ {0}, n = Len(s)
    PROVE  \A i, j \in 1..n : i < j => OffsetsOf(s)[i] < OffsetsOf(s)[j]
  <1>. DEFINE O == OffsetsOf(s)
              S == {j \in 0..n : \A i \in 1..n : i < j => O[i] < O[j]}
  <1>1. O \in [1..n -> Nat] /\ \A i \in 1..n : s[i].size \in Nat \ {0}
    BY OffsetsFacts, SizesOf
  <1>2. ASSUME NEW i \in 2..n
        PROVE  O[i - 1] < O[i]
    <2>. HIDE DEF O, S
    <2>1. i \in 1..n /\ i - 1 \in 1..n
      OBVIOUS
    <2>5. PICK d \in Nat \ {0} : d = s[i - 1].size
      BY <1>1, <2>1
    <2>2. PICK k \in Nat : k = O[i - 1] + s[i - 1].size /\ k > O[i - 1]
      BY <1>1, <2>1, <2>5, SMTT(30)
    <2>3. O[i] = AlignBy(k, 16)
      BY <2>2, OffsetsFacts DEF O
    <2>4. AlignBy(k, 16) \in Nat /\ AlignBy(k, 16) >= k
      BY AlignByFacts
    <2>. QED
      BY <1>1, <2>1, <2>2, <2>3, <2>4
  <1>. HIDE DEF O
  <1>3. 0 \in S
    OBVIOUS
  <1>4. ASSUME NEW j \in 0..(n - 1), j \in S
        PROVE  j + 1 \in S
    <2>1. j + 1 \in 0..n /\ j + 1 \in 1..n /\ (j + 1) - 1 = j
      OBVIOUS
    <2>2. ASSUME NEW i \in 1..n, i < j + 1
          PROVE  O[i] < O[j + 1]
      <3>1. j \in 1..n /\ j + 1 \in 2..n /\ i <= j
        BY <2>2
      <3>2. O[j] < O[j + 1]
        BY <1>2, <2>1, <3>1
      <3>3. CASE i = j
        BY <3>2, <3>3
      <3>4. CASE i # j
        <4>1. O[i] < O[j]
          BY <1>4, <3>1, <3>4
        <4>. QED
          BY <1>1, <2>1, <3>1, <3>2, <4>1, SMTT(30)
      <3>. QED
        BY <3>3, <3>4
    <2>. QED
      BY <2>1, <2>2
  <1>5. 0..n \subseteq S
    <2>. HIDE DEF S
    <2>. QED
      BY <1>3, <1>4, IntervalInduction
  <1>6. \A i, j \in 1..n : i < j => O[i] < O[j]
    BY <1>5
  <1>. QED
    BY <1>6 DEF O

\* A part file is read back as the chunks that went in.
LEMMA PartFileReads ==
    ASSUME NEW s \in ChunkSeqs, NEW file, file = PartFile(s)
    PROVE  /\ file.num_chunks = Len(s)
           /\ \A i \in 1..Len(s) : HasChunk(file, i) /\ ChunkOf(file, i) = s[i]
           /\ DOMAIN file.offsets = 1..Len(s)
           /\ \A i \in 1..Len(s) : file.offsets[i] > 0 /\ file.offsets[i] % 16 = 0
  <1>1. PICK n \in Nat \ {0} : n = Len(s)
    BY SizesOf
  <1>2. PICK O \in [1..n -> Nat] : O = OffsetsOf(s)
    BY <1>1, OffsetsFacts
  <1>3. /\ file.num_chunks = n /\ file.offsets = O
        /\ file.bytes = {[at |-> Places(s)[i], chunk |-> s[i]] : i \in 1..n}
    BY <1>1, <1>2 DEF PartFile, Places
  <1>4. file.bytes = {[at |-> O[i], chunk |-> s[i]] : i \in 1..n}
    BY <1>1, <1>2, <1>3, PlacesAreOffsets
  <1>5. \A i, j \in 1..n : i < j => O[i] < O[j]
    BY <1>1, <1>2, OffsetsGrow
  <1>6. \A i, j \in 1..n : O[i] = O[j] => i = j
    BY <1>5
  <1>7. ASSUME NEW i \in 1..n
        PROVE  HasChunk(file, i) /\ ChunkOf(file, i) = s[i]
    <2>1. PICK b : b = [at |-> O[i], chunk |-> s[i]]
      OBVIOUS
    <2>2. b \in file.bytes /\ b.at = O[i] /\ b.chunk = s[i]
      BY <1>4, <2>1
    <2>3. \A c \in file.bytes : c.at = O[i] => c = b
      BY <1>4, <1>6, <2>1
    <2>4. (CHOOSE c \in file.bytes : c.at = O[i]) = b
      BY <2>2, <2>3
    <2>. QED
      BY <1>3, <2>2, <2>4 DEF HasChunk, ChunkOf
  <1>8. ASSUME NEW i \in 1..n
        PROVE  O[i] > 0 /\ O[i] % 16 = 0
    <2>1. PICK k \in Nat \ {0} : O[i] = AlignBy(k, 16)
      <3>1. CASE i = 1
        <4>1. Header(n) \in Nat \ {0}
          BY DEF Header
        <4>. QED
          BY <1>1, <1>2, <3>1, <4>1, OffsetsFacts
      <3>2. CASE i # 1
        <4>1. i \in 2..n /\ i - 1 \in 1..n
          BY <3>2
        <4>5. PICK d \in Nat \ {0} : d = s[i - 1].size
          BY <1>1, <4>1, SizesOf
        <4>2. O[i - 1] + s[i - 1].size \in Nat \ {0}
          BY <4>1, <4>5
        <4>3. O[i] = AlignBy(O[i - 1] + s[i - 1].size, 16)
          BY <1>1, <1>2, <4>1, OffsetsFacts
        <4>. QED
          BY <4>2, <4>3
      <3>. QED
        BY <3>1, <3>2
    <2>2. AlignBy(k, 16) \in Nat /\ AlignBy(k, 16) >= k /\ AlignBy(k, 16) % 16 = 0
      BY AlignByFacts
    <2>. QED
      BY <2>1, <2>2
  <1>. QED
    BY <1>1, <1>3, <1>7, <1>8

\* What is used of part files from here on.
LEMMA FileFacts ==
    ASSUME NEW file \in Files
    PROVE  /\ file.num_chunks \in Nat \ {0}
           /\ \A i \in 1..file.num_chunks : HasChunk(file, i) /\ ChunkOf(file, i) \in ChunkType
           /\ \A i : HasChunk(file, i) => i \in 1..file.num_chunks
           /\ DOMAIN file.offsets = 1..file.num_chunks
           /\ \A i \in 1..file.num_chunks : file.offsets[i] > 0 /\ file.offsets[i] % 16 = 0
  <1>1. PICK s \in ChunkSeqs : file = PartFile(s)
    BY DEF Files
  <1>2. Len(s) \in Nat \ {0} /\ \A i \in 1..Len(s) : s[i] \in ChunkType
    BY SizesOf
  <1>3. /\ file.num_chunks = Len(s)
        /\ \A i \in 1..Len(s) : HasChunk(file, i) /\ ChunkOf(file, i) = s[i]
        /\ DOMAIN file.offsets = 1..Len(s)
        /\ \A i \in 1..Len(s) : file.offsets[i] > 0 /\ file.offsets[i] % 16 = 0
    BY <1>1, PartFileReads
  <1>4. \A i : HasChunk(file, i) => i \in 1..file.num_chunks
    BY DEF HasChunk
  <1>. QED
    BY <1>2, <1>3, <1>4

LEMMA PartFileVerified ==
    ASSUME NEW s \in ChunkSeqs
    PROVE  PartFile(s) \in Files /\ Verified(PartFile(s), s) /\ ChunksIn(PartFile(s)) = s
  <1>1. PICK file : file = PartFile(s)
    OBVIOUS
  <1>2. file.num_chunks = Len(s) /\ \A i \in 1..Len(s) : HasChunk(file, i) /\ ChunkOf(file, i) = s[i]
    BY <1>1, PartFileReads
  <1>3. Verified(file, s)
    BY <1>2, SizesOf DEF Verified
  <1>4. ChunksIn(file) = s
    <2>1. s \in Seq(ChunkType)
      BY SizesOf
    <2>2. s = [i \in 1..Len(s) |-> s[i]]
      BY <2>1
    <2>3. ChunksIn(file) = [i \in 1..Len(s) |-> ChunkOf(file, i)]
      BY <1>2 DEF ChunksIn
    <2>. QED
      BY <1>2, <2>2, <2>3
  <1>. QED
    BY <1>1, <1>3, <1>4 DEF Files

---------------------------------------------------------------------------
(* Readers *)

SlotRec == [file : Files, bitmaps : Seq(Nat)]
ReaderRec == [slots : Seq(SlotRec), part : Nat, chunk : Nat, got : Seq(ChunkType), bitmaps : Nat]

\* The part is one there is, or the first of none; a chunk in hand is of that part.
Standing(r) ==
    /\ r.part <= Len(r.slots)
    /\ \A s \in 1..Len(r.slots) : Len(r.slots[s].bitmaps) = r.slots[s].file.num_chunks
    /\ Len(r.got) <= 1
    /\ r.got # <<>> => r.part + 1 <= Len(r.slots) /\ r.chunk \in 1..r.slots[r.part + 1].file.num_chunks

\* No two bitmaps are the same one, later ones are numbered higher, and the readers of
\* the parts still to come have none: one of them is going to be copied.
Owned(r) ==
    /\ \A s \in 1..Len(r.slots) : \A i \in 1..Len(r.slots[s].bitmaps) :
          /\ r.slots[s].bitmaps[i] <= r.bitmaps
          /\ s > r.part + 1 => r.slots[s].bitmaps[i] = 0
    /\ \A s, t \in 1..Len(r.slots) :
        \A i \in 1..Len(r.slots[s].bitmaps), j \in 1..Len(r.slots[t].bitmaps) :
           (r.slots[s].bitmaps[i] # 0 /\ r.slots[s].bitmaps[i] = r.slots[t].bitmaps[j])
             => s = t /\ i = j

LEMMA OwnedAsBefore ==
    ASSUME NEW r, NEW q, q.slots = r.slots, q.part = r.part, q.bitmaps = r.bitmaps, Owned(r)
    PROVE  Owned(q)
  BY DEF Owned

LEMMA SlotFacts ==
    ASSUME NEW r \in ReaderRec
    PROVE  /\ r.slots \in Seq(SlotRec) /\ r.part \in Nat /\ r.chunk \in Nat
           /\ r.got \in Seq(ChunkType) /\ r.bitmaps \in Nat /\ Len(r.slots) \in Nat
           /\ \A s \in 1..Len(r.slots) :
                 /\ r.slots[s] \in SlotRec /\ r.slots[s].file \in Files
                 /\ r.slots[s].bitmaps \in Seq(Nat) /\ Len(r.slots[s].bitmaps) \in Nat
                 /\ r.slots[s].file.num_chunks \in Nat \ {0}
                 /\ \A i \in 1..Len(r.slots[s].bitmaps) : r.slots[s].bitmaps[i] \in Nat
  <1>1. /\ r.slots \in Seq(SlotRec) /\ r.part \in Nat /\ r.chunk \in Nat
        /\ r.got \in Seq(ChunkType) /\ r.bitmaps \in Nat
    BY DEF ReaderRec
  <1>2. \A s \in 1..Len(r.slots) : r.slots[s] \in SlotRec
    BY <1>1
  <1>3. \A x \in SlotRec : x.file \in Files /\ x.bitmaps \in Seq(Nat)
    BY DEF SlotRec
  <1>4. \A b \in Seq(Nat) : Len(b) \in Nat /\ \A i \in 1..Len(b) : b[i] \in Nat
    OBVIOUS
  <1>5. \A f \in Files : f.num_chunks \in Nat \ {0}
    BY FileFacts
  <1>. QED
    BY <1>1, <1>2, <1>3, <1>4, <1>5

LEMMA AdvancedFacts ==
    ASSUME NEW r \in ReaderRec, NEW n, n = Len(r.slots), r.part + 2 <= n, NEW q, q = Advanced(r)
    PROVE  /\ q \in ReaderRec /\ q.part = r.part + 1 /\ q.chunk = 0 /\ q.got = r.got
           /\ q.bitmaps = r.bitmaps /\ Len(q.slots) = n
           /\ \A s \in 1..n :
                 q.slots[s] = IF s = r.part + 1 THEN r.slots[r.part + 2] ELSE r.slots[s]
  <1>1. r.part \in Nat /\ n \in Nat /\ r.slots \in Seq(SlotRec)
    BY SlotFacts
  <1>2. r.part + 1 \in 1..n /\ r.part + 2 \in 1..n
    BY <1>1
  <1>3. PICK slots : slots = [r.slots EXCEPT ![r.part + 1] = r.slots[r.part + 2]]
    OBVIOUS
  <1>4. /\ slots \in Seq(SlotRec) /\ Len(slots) = n
        /\ \A s \in 1..n : slots[s] = IF s = r.part + 1 THEN r.slots[r.part + 2] ELSE r.slots[s]
    <2>1. r.slots[r.part + 2] \in SlotRec
      BY <1>1, <1>2
    <2>. QED
      BY <1>1, <1>2, <1>3, <2>1
  <1>5. q = [r EXCEPT !.slots = slots, !.part = @ + 1, !.chunk = 0]
    BY <1>3 DEF Advanced
  <1>6. /\ q \in ReaderRec /\ q.slots = slots /\ q.part = r.part + 1 /\ q.chunk = 0
        /\ q.got = r.got /\ q.bitmaps = r.bitmaps
    <2>1. PICK k \in Nat : k = r.part + 1
      BY <1>1
    <2>2. q = [r EXCEPT !.slots = slots, !.part = k, !.chunk = 0]
      BY <1>5, <2>1
    <2>3. 0 \in Nat
      OBVIOUS
    <2>4. q \in ReaderRec /\ q.slots = slots /\ q.part = k /\ q.chunk = 0
            /\ q.got = r.got /\ q.bitmaps = r.bitmaps
      BY <1>4, <2>2, <2>3 DEF ReaderRec
    <2>. QED
      BY <2>1, <2>4
  <1>. QED
    BY <1>4, <1>6

LEMMA BitmapFacts ==
    ASSUME NEW r \in ReaderRec, NEW n, n = Len(r.slots), NEW slot \in 1..n,
           NEW i \in 1..Len(r.slots[slot].bitmaps), NEW q, q = WithBitmap(r, slot, i)
    PROVE  /\ q \in ReaderRec /\ q.part = r.part /\ q.chunk = r.chunk /\ q.got = r.got
           /\ Len(q.slots) = n
           /\ \A s \in 1..n : /\ q.slots[s].file = r.slots[s].file
                              /\ Len(q.slots[s].bitmaps) = Len(r.slots[s].bitmaps)
           /\ \/ q = r
              \/ /\ q.bitmaps = r.bitmaps + 1
                 /\ \A s \in 1..n : \A j \in 1..Len(r.slots[s].bitmaps) :
                       q.slots[s].bitmaps[j] = IF s = slot /\ j = i THEN r.bitmaps + 1
                                               ELSE r.slots[s].bitmaps[j]
  <1>1. CASE r.slots[slot].bitmaps[i] # 0
    <2>1. q = r
      BY <1>1 DEF WithBitmap
    <2>. QED
      BY <2>1
  <1>2. CASE ~(r.slots[slot].bitmaps[i] # 0)
    <2>1. /\ r.slots \in Seq(SlotRec) /\ r.slots[slot] \in SlotRec
          /\ r.slots[slot].bitmaps \in Seq(Nat) /\ r.bitmaps \in Nat
      BY SlotFacts
    <2>2. PICK b : b = [r.slots[slot].bitmaps EXCEPT ![i] = r.bitmaps + 1]
      OBVIOUS
    <2>3. PICK x : x = [r.slots[slot] EXCEPT !.bitmaps = b]
      OBVIOUS
    <2>4. PICK slots : slots = [r.slots EXCEPT ![slot] = x]
      OBVIOUS
    <2>5. q = [r EXCEPT !.slots = slots, !.bitmaps = @ + 1]
      BY <1>2, <2>2, <2>3, <2>4 DEF WithBitmap
    <2>6. /\ b \in Seq(Nat) /\ Len(b) = Len(r.slots[slot].bitmaps)
          /\ \A j \in 1..Len(b) : b[j] = IF j = i THEN r.bitmaps + 1 ELSE r.slots[slot].bitmaps[j]
      BY <2>1, <2>2, SMTT(30)
    <2>7. x \in SlotRec /\ x.file = r.slots[slot].file /\ x.bitmaps = b
      BY <2>1, <2>3, <2>6 DEF SlotRec
    <2>8. /\ slots \in Seq(SlotRec) /\ Len(slots) = n
          /\ \A s \in 1..n : slots[s] = IF s = slot THEN x ELSE r.slots[s]
      BY <2>1, <2>4, <2>7
    <2>9. /\ q \in ReaderRec /\ q.slots = slots /\ q.part = r.part /\ q.chunk = r.chunk
          /\ q.got = r.got /\ q.bitmaps = r.bitmaps + 1
      <3>1. r.bitmaps + 1 \in Nat
        BY <2>1
      <3>. QED
        BY <2>5, <2>8, <3>1 DEF ReaderRec
    <2>10. \A s \in 1..n : /\ q.slots[s].file = r.slots[s].file
                           /\ Len(q.slots[s].bitmaps) = Len(r.slots[s].bitmaps)
      BY <2>6, <2>7, <2>8, <2>9
    <2>11. \A s \in 1..n : \A j \in 1..Len(r.slots[s].bitmaps) :
              q.slots[s].bitmaps[j] = IF s = slot /\ j = i THEN r.bitmaps + 1
                                      ELSE r.slots[s].bitmaps[j]
      <3>1. TAKE s \in 1..n
      <3>2. CASE s = slot
        BY <2>6, <2>7, <2>8, <2>9, <3>2
      <3>3. CASE s # slot
        BY <2>8, <2>9, <3>3
      <3>. QED
        BY <3>2, <3>3
    <2>. QED
      BY <2>8, <2>9, <2>10, <2>11
  <1>. QED
    BY <1>1, <1>2

SameFiles(r, q) ==
    /\ q \in ReaderRec /\ q.part = r.part /\ q.chunk = r.chunk /\ q.got = r.got
    /\ Len(q.slots) = Len(r.slots) /\ \A s \in 1..Len(r.slots) : q.slots[s].file = r.slots[s].file

LEMMA BitmapLeavesFiles ==
    ASSUME NEW r \in ReaderRec, NEW slot \in 1..Len(r.slots),
           NEW i \in 1..Len(r.slots[slot].bitmaps)
    PROVE  SameFiles(r, WithBitmap(r, slot, i))
  BY BitmapFacts DEF SameFiles

\* The reader that is copied has no bitmap yet, so its copy shares none with it.
LEMMA AdvancedKeeps ==
    ASSUME NEW r \in ReaderRec, r.part + 2 <= Len(r.slots), Standing(r), Owned(r), r.got = <<>>
    PROVE  Standing(Advanced(r)) /\ Owned(Advanced(r))
  <1>1. PICK n \in Nat : n = Len(r.slots)
    BY SlotFacts
  <1>2. PICK q : q = Advanced(r)
    OBVIOUS
  <1>3. PICK m \in Nat : m = r.part
    BY SlotFacts
  <1>4. /\ q \in ReaderRec /\ q.part = m + 1 /\ q.chunk = 0 /\ q.got = <<>>
        /\ q.bitmaps = r.bitmaps /\ Len(q.slots) = n
        /\ \A s \in 1..n : q.slots[s] = IF s = m + 1 THEN r.slots[m + 2] ELSE r.slots[s]
    BY <1>1, <1>2, <1>3, AdvancedFacts
  <1>5. m + 1 \in 1..n /\ m + 2 \in 1..n /\ r.bitmaps \in Nat
    BY <1>1, <1>3, SlotFacts
  <1>6. /\ q.slots[m + 1] = r.slots[m + 2]
        /\ \A s \in 1..n : s # m + 1 => q.slots[s] = r.slots[s]
    BY <1>4, <1>5
  <1>7. \A s \in 1..n : Len(q.slots[s].bitmaps) = q.slots[s].file.num_chunks
    <2>1. \A s \in 1..n : Len(r.slots[s].bitmaps) = r.slots[s].file.num_chunks
      BY <1>1 DEF Standing
    <2>. QED
      BY <1>5, <1>6, <2>1
  <1>8. Standing(q)
    BY <1>4, <1>5, <1>7, EmptySeq DEF Standing
  <1>9. \A i \in 1..Len(q.slots[m + 1].bitmaps) : q.slots[m + 1].bitmaps[i] = 0
    <2>1. m + 2 > r.part + 1
      BY <1>3
    <2>. QED
      BY <1>1, <1>5, <1>6, <2>1 DEF Owned
  <1>10. ASSUME NEW s \in 1..n, NEW i \in 1..Len(q.slots[s].bitmaps)
         PROVE  q.slots[s].bitmaps[i] <= r.bitmaps /\ (s > m + 2 => q.slots[s].bitmaps[i] = 0)
    <2>1. CASE s = m + 1
      BY <1>5, <1>9, <2>1
    <2>2. CASE s # m + 1
      <3>1. q.slots[s] = r.slots[s]
        BY <1>6, <2>2
      <3>2. s > m + 2 => s > r.part + 1
        BY <1>3
      <3>. QED
        BY <1>1, <3>1, <3>2 DEF Owned
    <2>. QED
      BY <2>1, <2>2
  <1>11. ASSUME NEW s \in 1..n, NEW t \in 1..n,
                NEW i \in 1..Len(q.slots[s].bitmaps), NEW j \in 1..Len(q.slots[t].bitmaps),
                q.slots[s].bitmaps[i] # 0, q.slots[s].bitmaps[i] = q.slots[t].bitmaps[j]
         PROVE  s = t /\ i = j
    <2>1. s # m + 1 /\ t # m + 1
      BY <1>9, <1>11
    <2>2. q.slots[s] = r.slots[s] /\ q.slots[t] = r.slots[t]
      BY <1>6, <2>1
    <2>. QED
      BY <1>1, <1>11, <2>2 DEF Owned
  <1>12. Owned(q)
    <2>1. q.part + 1 = m + 2
      BY <1>3, <1>4
    <2>. QED
      BY <1>4, <1>10, <1>11, <2>1 DEF Owned
  <1>. QED
    BY <1>2, <1>8, <1>12

\* A new bitmap has a number of its own, and the reader it goes to is one already in use.
LEMMA BitmapKeeps ==
    ASSUME NEW r \in ReaderRec, NEW slot \in 1..Len(r.slots), slot <= r.part + 1,
           NEW i \in 1..Len(r.slots[slot].bitmaps), Standing(r), Owned(r)
    PROVE  Standing(WithBitmap(r, slot, i)) /\ Owned(WithBitmap(r, slot, i))
  <1>1. PICK n \in Nat : n = Len(r.slots)
    BY SlotFacts
  <1>2. PICK q : q = WithBitmap(r, slot, i)
    OBVIOUS
  <1>3. /\ q \in ReaderRec /\ q.part = r.part /\ q.chunk = r.chunk /\ q.got = r.got
        /\ Len(q.slots) = n
        /\ \A s \in 1..n : /\ q.slots[s].file = r.slots[s].file
                           /\ Len(q.slots[s].bitmaps) = Len(r.slots[s].bitmaps)
        /\ \/ q = r
           \/ /\ q.bitmaps = r.bitmaps + 1
              /\ \A s \in 1..n : \A j \in 1..Len(r.slots[s].bitmaps) :
                    q.slots[s].bitmaps[j] = IF s = slot /\ j = i THEN r.bitmaps + 1
                                            ELSE r.slots[s].bitmaps[j]
    BY <1>1, <1>2, BitmapFacts, SMTT(30)
  <1>4. Standing(q)
    <2>1. r.got # <<>> => r.part + 1 \in 1..n
      BY <1>1, SlotFacts DEF Standing
    <2>. QED
      BY <1>1, <1>3, <2>1 DEF Standing
  <1>5. CASE q = r
    BY <1>2, <1>4, <1>5
  <1>6. CASE /\ q.bitmaps = r.bitmaps + 1
             /\ \A s \in 1..n : \A j \in 1..Len(r.slots[s].bitmaps) :
                   q.slots[s].bitmaps[j] = IF s = slot /\ j = i THEN r.bitmaps + 1
                                           ELSE r.slots[s].bitmaps[j]
    <2>1. PICK b \in Nat : b = r.bitmaps
      BY SlotFacts
    <2>2. PICK m \in Nat : m = r.part
      BY SlotFacts
    <2>3. ASSUME NEW s \in 1..n, NEW j \in 1..Len(q.slots[s].bitmaps)
          PROVE  /\ r.slots[s].bitmaps[j] \in Nat /\ r.slots[s].bitmaps[j] <= b
                 /\ s > m + 1 => r.slots[s].bitmaps[j] = 0
                 /\ j \in 1..Len(r.slots[s].bitmaps)
      <3>1. j \in 1..Len(r.slots[s].bitmaps)
        BY <1>3
      <3>. QED
        BY <1>1, <2>1, <2>2, <3>1, SlotFacts DEF Owned
    <2>4. ASSUME NEW s \in 1..n, NEW j \in 1..Len(q.slots[s].bitmaps)
          PROVE  /\ s = slot /\ j = i => q.slots[s].bitmaps[j] = b + 1
                 /\ ~(s = slot /\ j = i) => q.slots[s].bitmaps[j] = r.slots[s].bitmaps[j]
      BY <1>6, <2>1, <2>3
    <2>5. slot <= m + 1
      BY <2>2
    <2>6. ASSUME NEW s \in 1..n, NEW j \in 1..Len(q.slots[s].bitmaps)
          PROVE  q.slots[s].bitmaps[j] <= b + 1 /\ (s > m + 1 => q.slots[s].bitmaps[j] = 0)
      <3>1. CASE s = slot /\ j = i
        <4>1. ~(s > m + 1)
          BY <1>1, <2>5, <3>1
        <4>2. q.slots[s].bitmaps[j] = b + 1
          BY <2>4, <3>1, Zenon
        <4>. QED
          BY <4>1, <4>2
      <3>2. CASE ~(s = slot /\ j = i)
        <4>1. q.slots[s].bitmaps[j] = r.slots[s].bitmaps[j]
          BY <2>4, <3>2, Zenon
        <4>2. PICK x \in Nat : x = r.slots[s].bitmaps[j] /\ x <= b /\ (s > m + 1 => x = 0)
          BY <2>3, Zenon
        <4>3. x <= b + 1
          BY <4>2
        <4>. QED
          BY <4>1, <4>2, <4>3, Zenon
      <3>. QED
        BY <3>1, <3>2
    <2>7. ASSUME NEW s \in 1..n, NEW t \in 1..n,
                 NEW j \in 1..Len(q.slots[s].bitmaps), NEW k \in 1..Len(q.slots[t].bitmaps),
                 q.slots[s].bitmaps[j] # 0, q.slots[s].bitmaps[j] = q.slots[t].bitmaps[k]
          PROVE  s = t /\ j = k
      <3>1. PICK x \in Nat : x = r.slots[s].bitmaps[j] /\ x <= b
        <4>1. r.slots[s].bitmaps[j] \in Nat /\ r.slots[s].bitmaps[j] <= b
          BY <2>3, Zenon
        <4>. QED
          BY <4>1, Zenon
      <3>2. PICK y \in Nat : y = r.slots[t].bitmaps[k] /\ y <= b
        <4>1. r.slots[t].bitmaps[k] \in Nat /\ r.slots[t].bitmaps[k] <= b
          BY <2>3, Zenon
        <4>. QED
          BY <4>1, Zenon
      <3>3. x # b + 1 /\ y # b + 1
        <4>1. \A z \in Nat : z <= b => z # b + 1
          OBVIOUS
        <4>. QED
          BY <3>1, <3>2, <4>1, Zenon
      <3>4. /\ s = slot /\ j = i => q.slots[s].bitmaps[j] = b + 1
            /\ ~(s = slot /\ j = i) => q.slots[s].bitmaps[j] = x
        BY <2>4, <3>1, Zenon
      <3>5. /\ t = slot /\ k = i => q.slots[t].bitmaps[k] = b + 1
            /\ ~(t = slot /\ k = i) => q.slots[t].bitmaps[k] = y
        BY <2>4, <3>2, Zenon
      <3>6. CASE s = slot /\ j = i
        <4>1. q.slots[t].bitmaps[k] = b + 1
          BY <2>7, <3>4, <3>6, Zenon
        <4>2. t = slot /\ k = i
          BY <3>5, <3>3, <4>1, Zenon
        <4>. QED
          BY <3>6, <4>2, Zenon
      <3>7. CASE ~(s = slot /\ j = i)
        <4>1. q.slots[s].bitmaps[j] = x
          BY <3>4, <3>7, Zenon
        <4>2. ~(t = slot /\ k = i)
          BY <2>7, <3>5, <3>3, <4>1, Zenon
        <4>3. q.slots[t].bitmaps[k] = y
          BY <3>5, <4>2, Zenon
        <4>4. r.slots[s].bitmaps[j] # 0 /\ r.slots[s].bitmaps[j] = r.slots[t].bitmaps[k]
          BY <2>7, <3>1, <3>2, <4>1, <4>3, Zenon
        <4>5. /\ s \in 1..Len(r.slots) /\ t \in 1..Len(r.slots)
              /\ j \in 1..Len(r.slots[s].bitmaps) /\ k \in 1..Len(r.slots[t].bitmaps)
          BY <1>1, <2>3
        <4>6. \A a \in 1..Len(r.slots[s].bitmaps), c \in 1..Len(r.slots[t].bitmaps) :
                 (r.slots[s].bitmaps[a] # 0 /\ r.slots[s].bitmaps[a] = r.slots[t].bitmaps[c])
                   => s = t /\ a = c
          BY <4>5, Zenon DEF Owned
        <4>. QED
          BY <4>4, <4>5, <4>6, Zenon
      <3>. QED
        BY <3>6, <3>7
    <2>8. Owned(q)
      <3>1. q.bitmaps = b + 1 /\ q.part = m
        BY <1>3, <1>6, <2>1, <2>2
      <3>. QED
        BY <1>3, <2>6, <2>7, <3>1, SMTT(30) DEF Owned
    <2>. QED
      BY <1>2, <1>4, <2>8
  <1>. QED
    BY <1>3, <1>5, <1>6
\* What a column's task does to the readers, and what the output of its chunk does.
Readable(r) ==
    InRange(r) /\ HasChunk(Positioned(r).slots[r.part + 1].file, Positioned(r).chunk + 1)
Read(r) ==
    [WithBitmap(Positioned(r), r.part + 1, Positioned(r).chunk + 1) EXCEPT
        !.got = <<ChunkOf(Positioned(r).slots[r.part + 1].file, Positioned(r).chunk + 1)>>,
        !.chunk = @ + 1]
Shown(r) == [WithBitmap(r, r.part + 1, r.chunk) EXCEPT !.got = <<>>]

\* Where the readers stand before a read.  The reader read through is the one of the part
\* the counters name, or its copy.
LEMMA PositionedStep ==
    ASSUME NEW r \in ReaderRec, NEW n \in Nat, n = Len(r.slots), NEW m \in Nat, m = r.part,
           Standing(r), Owned(r), r.got = <<>>, InRange(r),
           NEW q, q = Positioned(r)
    PROVE  /\ q \in ReaderRec /\ Len(q.slots) = n /\ q.part \in Nat /\ q.chunk \in Nat
           /\ Standing(q) /\ Owned(q) /\ q.got = <<>>
           /\ q.part + 1 \in 1..n /\ m + 1 \in 1..n /\ m + 1 <= q.part + 1
           /\ q.slots[m + 1].file = q.slots[q.part + 1].file
           /\ \A s \in (q.part + 1)..n : q.slots[s].file = r.slots[s].file
           /\ ~MustAdvance(r) => q.part = m /\ q.chunk = r.chunk
           /\ MustAdvance(r) => q.part = m + 1 /\ q.chunk = 0 /\ m + 2 <= n
  <1>1. m + 1 <= n /\ (MustAdvance(r) => m + 2 <= n)
    BY DEF InRange
  <1>2. CASE MustAdvance(r)
    <2>1. q = Advanced(r)
      BY <1>2 DEF Positioned
    <2>2. m + 2 <= n /\ r.part + 2 <= n /\ r.part + 2 <= Len(r.slots)
      BY <1>1, <1>2
    <2>3. /\ q \in ReaderRec /\ q.part = m + 1 /\ q.chunk = 0 /\ q.got = <<>> /\ Len(q.slots) = n
          /\ \A s \in 1..n : q.slots[s] = IF s = m + 1 THEN r.slots[m + 2] ELSE r.slots[s]
      BY <2>1, <2>2, AdvancedFacts
    <2>4. Standing(q) /\ Owned(q)
      BY <2>1, <2>2, AdvancedKeeps
    <2>5. /\ m + 1 \in 1..n /\ m + 2 \in 1..n /\ m + 2 # m + 1
          /\ q.part + 1 = m + 2 /\ m + 1 <= m + 2 /\ m + 1 \in Nat
      BY <2>2, <2>3
    <2>6. q.slots[m + 1] = r.slots[m + 2] /\ q.slots[m + 2] = r.slots[m + 2]
      BY <2>3, <2>5
    <2>7. \A s \in (m + 2)..n : q.slots[s] = r.slots[s]
      BY <2>3, <2>5
    <2>. QED
      BY <1>2, <2>2, <2>3, <2>4, <2>5, <2>6, <2>7, SMTT(30)
  <1>3. CASE ~MustAdvance(r)
    <2>1. q = r
      BY <1>3 DEF Positioned
    <2>2. m + 1 \in 1..n
      BY <1>1
    <2>. QED
      BY <1>3, <2>1, <2>2, SlotFacts
  <1>. QED
    BY <1>2, <1>3

PositionedFrom(r, q) ==
    /\ q \in ReaderRec /\ Len(q.slots) = Len(r.slots) /\ q.part \in Nat /\ q.chunk \in Nat
    /\ Standing(q) /\ Owned(q) /\ q.got = <<>>
    /\ q.part + 1 \in 1..Len(r.slots) /\ r.part + 1 \in 1..Len(r.slots) /\ r.part + 1 <= q.part + 1
    /\ q.slots[r.part + 1].file = q.slots[q.part + 1].file
    /\ \A s \in (q.part + 1)..Len(r.slots) : q.slots[s].file = r.slots[s].file
    /\ ~MustAdvance(r) => q.part = r.part /\ q.chunk = r.chunk
    /\ MustAdvance(r) => q.part = r.part + 1 /\ q.chunk = 0 /\ r.part + 2 <= Len(r.slots)

LEMMA PositionedFacts ==
    ASSUME NEW r \in ReaderRec, Standing(r), Owned(r), r.got = <<>>, InRange(r)
    PROVE  PositionedFrom(r, Positioned(r))
  <1>1. r.part \in Nat /\ Len(r.slots) \in Nat
    BY SlotFacts
  <1>. QED
    BY <1>1, PositionedStep DEF PositionedFrom

LEMMA ReadFacts ==
    ASSUME NEW r \in ReaderRec, NEW n \in Nat, n = Len(r.slots), NEW m \in Nat, m = r.part,
           Standing(r), Owned(r), r.got = <<>>, Readable(r),
           NEW u, u = Read(r)
    PROVE  /\ u \in ReaderRec /\ Standing(u) /\ Owned(u)
           /\ Len(u.slots) = n /\ u.part + 1 \in 1..n /\ Len(u.got) = 1
           /\ \A s \in (u.part + 1)..n : u.slots[s].file = r.slots[s].file
           /\ u.got[1] = ChunkOf(u.slots[u.part + 1].file, u.chunk)
           /\ ~MustAdvance(r) => u.part = m /\ u.chunk = r.chunk + 1
           /\ MustAdvance(r) => u.part = m + 1 /\ u.chunk = 1 /\ m + 2 <= n
  <1>1. PICK q : q = Positioned(r)
    OBVIOUS
  <1>2. InRange(r) /\ HasChunk(q.slots[m + 1].file, q.chunk + 1)
    BY <1>1 DEF Readable
  <1>3. /\ q \in ReaderRec /\ Len(q.slots) = n /\ q.part \in Nat /\ q.chunk \in Nat
        /\ Standing(q) /\ Owned(q) /\ q.got = <<>>
        /\ q.part + 1 \in 1..n /\ m + 1 \in 1..n /\ m + 1 <= q.part + 1
        /\ q.slots[m + 1].file = q.slots[q.part + 1].file
        /\ \A s \in (q.part + 1)..n : q.slots[s].file = r.slots[s].file
        /\ ~MustAdvance(r) => q.part = m /\ q.chunk = r.chunk
        /\ MustAdvance(r) => q.part = m + 1 /\ q.chunk = 0 /\ m + 2 <= n
    <2>1. PositionedFrom(r, q)
      BY <1>1, <1>2, PositionedFacts, Zenon
    <2>. QED
      BY <2>1 DEF PositionedFrom
  <1>4. PICK k \in Nat : k = q.chunk + 1
    BY <1>3
  <1>5. PICK file : file = q.slots[m + 1].file
    OBVIOUS
  <1>6. /\ file \in Files /\ k \in 1..file.num_chunks /\ ChunkOf(file, k) \in ChunkType
        /\ Len(q.slots[m + 1].bitmaps) = file.num_chunks
    <2>1. file \in Files
      BY <1>3, <1>5, SlotFacts
    <2>2. k \in 1..file.num_chunks /\ ChunkOf(file, k) \in ChunkType
      BY <1>2, <1>4, <1>5, <2>1, FileFacts
    <2>3. Len(q.slots[m + 1].bitmaps) = file.num_chunks
      BY <1>3, <1>5 DEF Standing
    <2>. QED
      BY <2>1, <2>2, <2>3
  <1>7. PICK w : w = WithBitmap(q, m + 1, k)
    OBVIOUS
  <1>8. /\ n = Len(q.slots) /\ m + 1 \in 1..Len(q.slots) /\ k \in 1..Len(q.slots[m + 1].bitmaps)
        /\ m + 1 <= q.part + 1
    BY <1>3, <1>6
  <1>9. /\ w \in ReaderRec /\ w.part = q.part /\ w.chunk = q.chunk /\ w.got = q.got
        /\ Len(w.slots) = n /\ \A s \in 1..n : w.slots[s].file = q.slots[s].file
    <2>1. SameFiles(q, w)
      BY <1>3, <1>7, <1>8, BitmapLeavesFiles, Zenon
    <2>. QED
      BY <1>3, <2>1 DEF SameFiles
  <1>10. Standing(w) /\ Owned(w)
    BY <1>3, <1>7, <1>8, BitmapKeeps
  <1>11. PICK g : g = <<ChunkOf(file, k)>>
    OBVIOUS
  <1>12. g \in Seq(ChunkType) /\ Len(g) = 1 /\ g[1] = ChunkOf(file, k) /\ g # <<>>
    BY <1>6, <1>11
  <1>13. u = [w EXCEPT !.got = g, !.chunk = k]
    <2>1. u = [w EXCEPT !.got = g, !.chunk = @ + 1]
      BY <1>1, <1>4, <1>5, <1>7, <1>11 DEF Read
    <2>. QED
      BY <1>4, <1>9, <2>1 DEF ReaderRec
  <1>14. /\ u \in ReaderRec /\ u.slots = w.slots /\ u.part = w.part /\ u.chunk = k
         /\ u.got = g /\ u.bitmaps = w.bitmaps
    BY <1>9, <1>12, <1>13 DEF ReaderRec
  <1>15. u.part = q.part /\ Len(u.slots) = n /\ u.part + 1 \in 1..n
    BY <1>3, <1>9, <1>14
  <1>16. u.slots[u.part + 1].file = file
    BY <1>3, <1>5, <1>9, <1>14, <1>15
  <1>17. Standing(u)
    <2>1. \A s \in 1..Len(u.slots) : Len(u.slots[s].bitmaps) = u.slots[s].file.num_chunks
      BY <1>10, <1>14 DEF Standing
    <2>2. u.part <= Len(u.slots) /\ u.part + 1 <= Len(u.slots)
      BY <1>3, <1>15
    <2>3. u.chunk \in 1..u.slots[u.part + 1].file.num_chunks
      BY <1>6, <1>14, <1>16
    <2>4. Len(u.got) <= 1
      <3>1. Len(g) <= 1
        BY <1>12
      <3>. QED
        BY <1>14, <3>1
    <2>. QED
      BY <2>1, <2>2, <2>3, <2>4, Zenon DEF Standing
  <1>18. Owned(u)
    BY <1>10, <1>14, OwnedAsBefore
  <1>19. \A s \in (u.part + 1)..n : u.slots[s].file = r.slots[s].file
    <2>1. \A s \in (q.part + 1)..n : s \in 1..n
      BY <1>3
    <2>. QED
      BY <1>3, <1>9, <1>14, <1>15, <2>1
  <1>20. u.got[1] = ChunkOf(u.slots[u.part + 1].file, u.chunk)
    BY <1>12, <1>14, <1>16
  <1>21. ~MustAdvance(r) => u.part = m /\ u.chunk = r.chunk + 1
    BY <1>3, <1>4, <1>14, <1>15
  <1>22. MustAdvance(r) => u.part = m + 1 /\ u.chunk = 1 /\ m + 2 <= n
    BY <1>3, <1>4, <1>14, <1>15
  <1>. QED
    BY <1>12, <1>14, <1>15, <1>17, <1>18, <1>19, <1>20, <1>21, <1>22

LEMMA ShownFacts ==
    ASSUME NEW r \in ReaderRec, NEW n \in Nat, n = Len(r.slots), NEW m \in Nat, m = r.part,
           Standing(r), Owned(r), r.got # <<>>, NEW u, u = Shown(r)
    PROVE  /\ u \in ReaderRec /\ Standing(u) /\ Owned(u)
           /\ Len(u.slots) = n /\ u.part = m /\ u.chunk = r.chunk /\ u.got = <<>>
           /\ \A s \in 1..n : u.slots[s].file = r.slots[s].file
  <1>1. /\ m + 1 \in 1..n /\ m + 1 <= r.part + 1
        /\ r.chunk \in 1..Len(r.slots[m + 1].bitmaps)
    <2>1. m + 1 <= n /\ r.chunk \in 1..r.slots[m + 1].file.num_chunks
      BY DEF Standing
    <2>2. m + 1 \in 1..n
      BY <2>1
    <2>3. Len(r.slots[m + 1].bitmaps) = r.slots[m + 1].file.num_chunks
      BY <2>2 DEF Standing
    <2>. QED
      BY <2>1, <2>2, <2>3
  <1>2. PICK w : w = WithBitmap(r, m + 1, r.chunk)
    OBVIOUS
  <1>3. /\ w \in ReaderRec /\ w.part = r.part /\ w.chunk = r.chunk /\ w.got = r.got
        /\ Len(w.slots) = n /\ \A s \in 1..n : w.slots[s].file = r.slots[s].file
    <2>1. SameFiles(r, w)
      <3>1. m + 1 \in 1..Len(r.slots)
        BY <1>1
      <3>. QED
        BY <1>1, <1>2, <3>1, BitmapLeavesFiles, Zenon
    <2>. QED
      BY <2>1 DEF SameFiles
  <1>4. Standing(w) /\ Owned(w)
    BY <1>1, <1>2, BitmapKeeps
  <1>5. u = [w EXCEPT !.got = <<>>]
    BY <1>2 DEF Shown
  <1>6. /\ u \in ReaderRec /\ u.slots = w.slots /\ u.part = w.part /\ u.chunk = w.chunk
        /\ u.got = <<>> /\ u.bitmaps = w.bitmaps
    <2>1. <<>> \in Seq(ChunkType)
      OBVIOUS
    <2>. QED
      BY <1>3, <1>5, <2>1 DEF ReaderRec
  <1>7. Standing(u)
    BY <1>4, <1>6, EmptySeq DEF Standing
  <1>8. Owned(u)
    BY <1>4, <1>6 DEF Owned
  <1>. QED
    BY <1>3, <1>6, <1>7, <1>8
\* The same, as relations between the readers before and after.
HasRead(r, u) ==
    /\ u \in ReaderRec /\ Standing(u) /\ Owned(u)
    /\ Len(u.slots) = Len(r.slots) /\ u.part + 1 \in 1..Len(r.slots) /\ Len(u.got) = 1
    /\ \A s \in (u.part + 1)..Len(r.slots) : u.slots[s].file = r.slots[s].file
    /\ u.got[1] = ChunkOf(u.slots[u.part + 1].file, u.chunk)
    /\ ~MustAdvance(r) => u.part = r.part /\ u.chunk = r.chunk + 1
    /\ MustAdvance(r) => u.part = r.part + 1 /\ u.chunk = 1 /\ r.part + 2 <= Len(r.slots)

HasShown(r, u) ==
    /\ u \in ReaderRec /\ Standing(u) /\ Owned(u)
    /\ Len(u.slots) = Len(r.slots) /\ u.part = r.part /\ u.chunk = r.chunk /\ u.got = <<>>
    /\ \A s \in 1..Len(r.slots) : u.slots[s].file = r.slots[s].file

LEMMA Reads ==
    ASSUME NEW r \in ReaderRec, Standing(r), Owned(r), r.got = <<>>, Readable(r)
    PROVE  HasRead(r, Read(r))
  <1>1. r.part \in Nat /\ Len(r.slots) \in Nat
    BY SlotFacts
  <1>. QED
    BY <1>1, ReadFacts DEF HasRead

LEMMA Shows ==
    ASSUME NEW r \in ReaderRec, Standing(r), Owned(r), r.got # <<>>
    PROVE  HasShown(r, Shown(r))
  <1>1. r.part \in Nat /\ Len(r.slots) \in Nat
    BY SlotFacts
  <1>. QED
    BY <1>1, ShownFacts DEF HasShown

---------------------------------------------------------------------------
(* The chunks of a column *)

LoopType ==
    {l \in [next : Nat \ {0}, part : [total_size : Nat, chunks : Seq(ChunkType)],
            num_parts : Nat, done : BOOLEAN] :
        l.part.total_size <= Threshold /\ (l.part.chunks = <<>> => l.part.total_size = 0)}

\* A directory of a column that has the parts its loop has written.
IsDir(dir) == DOMAIN dir \subseteq Nat /\ \A p \in DOMAIN dir : dir[p] \in Files
HasParts(dir, n) == IsDir(dir) /\ 0..(n - 1) \subseteq DOMAIN dir

\* The chunks of the parts in the order of their numbers, then those being collected.
PartsOf(dir, n) == [p \in 1..n |-> ChunksIn(dir[p - 1])]
ChunksOf(loop, dir) == FlattenSeq(PartsOf(dir, loop.num_parts)) \o loop.part.chunks

\* How many chunks are in the parts before each part.
StartsOf(dir, n, b) ==
    /\ b \in [0..n -> Nat] /\ b[0] = 0
    /\ \A p \in 0..(n - 1) : b[p + 1] = b[p] + dir[p].num_chunks

LEMMA PartsType ==
    ASSUME NEW n \in Nat, NEW dir, HasParts(dir, n)
    PROVE  /\ PartsOf(dir, n) \in Seq(Seq(ChunkType)) /\ Len(PartsOf(dir, n)) = n
           /\ \A p \in 0..(n - 1) : /\ dir[p] \in Files /\ dir[p].num_chunks \in Nat \ {0}
                                    /\ PartsOf(dir, n)[p + 1] = ChunksIn(dir[p])
                                    /\ Len(PartsOf(dir, n)[p + 1]) = dir[p].num_chunks
  <1>1. \A p \in 0..(n - 1) : dir[p] \in Files
    BY DEF HasParts, IsDir
  <1>2. \A f \in Files : ChunksIn(f) \in Seq(ChunkType) /\ Len(ChunksIn(f)) = f.num_chunks
    <2>1. TAKE f \in Files
    <2>2. PICK k \in Nat \ {0} : k = f.num_chunks
      BY FileFacts
    <2>3. \A i \in 1..k : ChunkOf(f, i) \in ChunkType
      BY <2>2, FileFacts
    <2>. QED
      BY <2>2, <2>3 DEF ChunksIn
  <1>3. \A p \in 1..n : p - 1 \in 0..(n - 1)
    OBVIOUS
  <1>4. PICK seqs : seqs = PartsOf(dir, n)
    OBVIOUS
  <1>5. seqs = [p \in 1..n |-> ChunksIn(dir[p - 1])]
    BY <1>4 DEF PartsOf
  <1>6. \A p \in 1..n : ChunksIn(dir[p - 1]) \in Seq(ChunkType)
    BY <1>1, <1>2, <1>3
  <1>7. seqs \in Seq(Seq(ChunkType)) /\ Len(seqs) = n
    BY <1>5, <1>6
  <1>8. ASSUME NEW p \in 0..(n - 1)
        PROVE  seqs[p + 1] = ChunksIn(dir[p])
    <2>1. p + 1 \in 1..n /\ (p + 1) - 1 = p
      OBVIOUS
    <2>. QED
      BY <1>5, <2>1
  <1>9. \A p \in 0..(n - 1) : dir[p].num_chunks \in Nat \ {0}
    BY <1>1, FileFacts
  <1>. QED
    BY <1>1, <1>2, <1>4, <1>7, <1>8, <1>9

LEMMA StartsExist ==
    ASSUME NEW n \in Nat, NEW dir, HasParts(dir, n)
    PROVE  \E b : StartsOf(dir, n, b)
  <1>1. PICK v : v = [p \in 1..n |-> dir[p - 1].num_chunks]
    OBVIOUS
  <1>2. v \in [1..n -> Nat]
    <2>1. \A p \in 1..n : p - 1 \in 0..(n - 1)
      OBVIOUS
    <2>2. \A p \in 1..n : dir[p - 1].num_chunks \in Nat
      BY <2>1, PartsType
    <2>. QED
      BY <1>1, <2>2
  <1>3. PICK b : RunningSum(v, n, b)
    BY <1>2, RunningSumExists
  <1>4. ASSUME NEW p \in 0..(n - 1)
        PROVE  b[p + 1] = b[p] + dir[p].num_chunks
    <2>1. p + 1 \in 1..n /\ (p + 1) - 1 = p
      OBVIOUS
    <2>2. v[p + 1] = dir[p].num_chunks
      BY <1>1, <2>1
    <2>. QED
      BY <1>3, <2>1, <2>2 DEF RunningSum
  <1>. QED
    BY <1>3, <1>4 DEF RunningSum, StartsOf

\* The chunks of a column lie where their parts start.
LEMMA ChunksPlaced ==
    ASSUME NEW n \in Nat, NEW dir, HasParts(dir, n), NEW b, StartsOf(dir, n, b)
    PROVE  /\ FlattenSeq(PartsOf(dir, n)) \in Seq(ChunkType)
           /\ Len(FlattenSeq(PartsOf(dir, n))) = b[n]
           /\ \A p \in 0..(n - 1) : \A i \in 1..dir[p].num_chunks :
                 /\ b[p] + i \in 1..b[n]
                 /\ FlattenSeq(PartsOf(dir, n))[b[p] + i] = ChunkOf(dir[p], i)
  <1>1. PICK seqs : seqs = PartsOf(dir, n)
    OBVIOUS
  <1>2. /\ seqs \in Seq(Seq(ChunkType)) /\ Len(seqs) = n
        /\ \A p \in 0..(n - 1) : /\ dir[p].num_chunks \in Nat
                                 /\ seqs[p + 1] = ChunksIn(dir[p])
                                 /\ Len(seqs[p + 1]) = dir[p].num_chunks
    BY <1>1, PartsType
  <1>3. ASSUME NEW p \in 1..n
        PROVE  b[p] = b[p - 1] + Len(seqs[p])
    <2>1. p - 1 \in 0..(n - 1) /\ (p - 1) + 1 = p
      OBVIOUS
    <2>. QED
      BY <1>2, <2>1 DEF StartsOf
  <1>4. b \in [0..n -> Nat] /\ b[0] = 0
    BY DEF StartsOf
  <1>5. FlattenSeq(seqs) \in Seq(ChunkType) /\ Placed(FlattenSeq(seqs), seqs, b, n)
    BY <1>2, <1>3, <1>4, FlattenPlaces
  <1>6. ASSUME NEW p \in 0..(n - 1), NEW i \in 1..dir[p].num_chunks
        PROVE  /\ b[p] + i \in 1..b[n]
               /\ FlattenSeq(seqs)[b[p] + i] = ChunkOf(dir[p], i)
    <2>1. p + 1 \in 1..n /\ (p + 1) - 1 = p /\ i \in 1..Len(seqs[p + 1])
      BY <1>2
    <2>2. b[p] + i \in 1..b[n] /\ FlattenSeq(seqs)[b[p] + i] = seqs[p + 1][i]
      BY <1>5, <2>1 DEF Placed
    <2>3. ChunksIn(dir[p])[i] = ChunkOf(dir[p], i)
      BY DEF ChunksIn
    <2>. QED
      BY <1>2, <2>2, <2>3
  <1>. QED
    BY <1>1, <1>5, <1>6 DEF Placed
LEMMA LoopFacts ==
    ASSUME NEW loop \in LoopType
    PROVE  /\ loop.next \in Nat \ {0} /\ loop.num_parts \in Nat /\ loop.done \in BOOLEAN
           /\ loop.part.total_size \in 0..Threshold /\ loop.part.chunks \in Seq(ChunkType)
           /\ loop.part.chunks = <<>> => loop.part.total_size = 0
  <1>1. Threshold \in Nat
    BY ConfigAssumption
  <1>2. PICK t \in Nat : t = loop.part.total_size /\ t <= Threshold
    BY DEF LoopType
  <1>3. loop.part.total_size \in 0..Threshold
    BY <1>1, <1>2
  <1>. QED
    BY <1>3 DEF LoopType

LEMMA ChunksType ==
    ASSUME NEW loop \in LoopType, NEW dir, HasParts(dir, loop.num_parts)
    PROVE  /\ FlattenSeq(PartsOf(dir, loop.num_parts)) \in Seq(ChunkType)
           /\ ChunksOf(loop, dir) \in Seq(ChunkType)
           /\ Len(ChunksOf(loop, dir)) =
                Len(FlattenSeq(PartsOf(dir, loop.num_parts))) + Len(loop.part.chunks)
  <1>1. loop.num_parts \in Nat /\ loop.part.chunks \in Seq(ChunkType)
    BY LoopFacts
  <1>2. PICK g : g = FlattenSeq(PartsOf(dir, loop.num_parts))
    OBVIOUS
  <1>3. g \in Seq(ChunkType)
    <2>1. PICK b : StartsOf(dir, loop.num_parts, b)
      BY <1>1, StartsExist
    <2>. QED
      BY <1>1, <1>2, <2>1, ChunksPlaced
  <1>4. ChunksOf(loop, dir) = g \o loop.part.chunks
    BY <1>2 DEF ChunksOf
  <1>. QED
    BY <1>1, <1>2, <1>3, <1>4, ConcatProperties

\* Adding a chunk to the part being collected adds it to the chunks of the column.
LEMMA ChunkAdded ==
    ASSUME NEW loop \in LoopType, NEW dir, HasParts(dir, loop.num_parts), NEW x \in ChunkType,
           NEW l, l.num_parts = loop.num_parts, l.part.chunks = Append(loop.part.chunks, x)
    PROVE  ChunksOf(l, dir) = Append(ChunksOf(loop, dir), x)
  <1>1. PICK g : g = FlattenSeq(PartsOf(dir, loop.num_parts))
    OBVIOUS
  <1>2. g \in Seq(ChunkType) /\ loop.part.chunks \in Seq(ChunkType)
    <2>1. FlattenSeq(PartsOf(dir, loop.num_parts)) \in Seq(ChunkType)
      BY ChunksType, Zenon
    <2>. QED
      BY <1>1, <2>1, LoopFacts
  <1>3. g \o Append(loop.part.chunks, x) = Append(g \o loop.part.chunks, x)
    <2>1. PICK s \in Seq(ChunkType) : s = loop.part.chunks
      BY <1>2
    <2>2. g \o s \in Seq(ChunkType) /\ <<x>> \in Seq(ChunkType)
      BY <1>2, ConcatProperties
    <2>3. Append(s, x) = s \o <<x>> /\ Append(g \o s, x) = (g \o s) \o <<x>>
      BY <2>2, AppendIsConcat
    <2>4. (g \o s) \o <<x>> = g \o (s \o <<x>>)
      BY <1>2, <2>2, ConcatAssociative
    <2>. QED
      BY <2>1, <2>3, <2>4
  <1>. QED
    BY <1>1, <1>3 DEF ChunksOf

\* Writing the part that is being collected leaves the chunks of the column as they are.
WithPart(dir, n, s) == [p \in DOMAIN dir \cup {n} |-> IF p = n THEN PartFile(s) ELSE dir[p]]

LEMMA PartWritten ==
    ASSUME NEW loop \in LoopType, NEW n \in Nat, n = loop.num_parts, NEW dir, HasParts(dir, n),
           loop.part.chunks # <<>>,
           NEW d, d = WithPart(dir, n, loop.part.chunks)
    PROVE  /\ HasParts(d, n + 1)
           /\ FlattenSeq(PartsOf(d, n + 1)) = ChunksOf(loop, dir)
  <1>1. PICK s \in ChunkSeqs : s = loop.part.chunks
    BY LoopFacts DEF ChunkSeqs
  <1>2. PICK file \in Files : file = PartFile(s) /\ ChunksIn(file) = s
    BY PartFileVerified
  <1>3. d = [p \in DOMAIN dir \cup {n} |-> IF p = n THEN file ELSE dir[p]]
    BY <1>1, <1>2 DEF WithPart
  <1>4. IsDir(d)
    BY <1>3 DEF IsDir, HasParts
  <1>5. HasParts(d, n + 1)
    <2>1. \A p \in 0..((n + 1) - 1) : p = n \/ p \in 0..(n - 1)
      OBVIOUS
    <2>2. 0..((n + 1) - 1) \subseteq DOMAIN d
      BY <1>3, <2>1 DEF HasParts
    <2>. QED
      BY <1>4, <2>2 DEF HasParts
  <1>6. \A p \in 0..(n - 1) : d[p] = dir[p]
    <2>1. \A p \in 0..(n - 1) : p \in DOMAIN dir /\ p # n
      BY DEF HasParts
    <2>. QED
      BY <1>3, <2>1
  <1>7. d[n] = file
    BY <1>3
  <1>8. PICK seqs : seqs = PartsOf(dir, n)
    OBVIOUS
  <1>9. seqs \in Seq(Seq(ChunkType)) /\ Len(seqs) = n
    BY <1>8, PartsType
  <1>10. PICK more : more = PartsOf(d, n + 1)
    OBVIOUS
  <1>11. more \in Seq(Seq(ChunkType)) /\ Len(more) = n + 1
    <2>1. n + 1 \in Nat
      OBVIOUS
    <2>. QED
      BY <1>5, <1>10, <2>1, PartsType
  <1>12. s \in Seq(ChunkType)
    BY SizesOf
  <1>13. more = Append(seqs, s)
    <2>1. /\ Append(seqs, s) \in Seq(Seq(ChunkType)) /\ Len(Append(seqs, s)) = n + 1
          /\ Append(seqs, s)[n + 1] = s
          /\ \A p \in 1..n : Append(seqs, s)[p] = seqs[p]
      BY <1>9, <1>12, AppendProperties
    <2>2. \A p \in 1..(n + 1) : more[p] = ChunksIn(d[p - 1])
      BY <1>10 DEF PartsOf
    <2>3. \A p \in 1..n : seqs[p] = ChunksIn(dir[p - 1])
      BY <1>8 DEF PartsOf
    <2>4. more[n + 1] = s
      <3>1. n + 1 \in 1..(n + 1) /\ (n + 1) - 1 = n
        OBVIOUS
      <3>2. more[n + 1] = ChunksIn(d[n])
        BY <2>2, <3>1
      <3>. QED
        BY <1>2, <1>7, <3>2
    <2>5. ASSUME NEW p \in 1..n
          PROVE  more[p] = seqs[p]
      <3>1. p \in 1..(n + 1) /\ p - 1 \in 0..(n - 1)
        OBVIOUS
      <3>2. d[p - 1] = dir[p - 1]
        BY <1>6, <3>1
      <3>. QED
        BY <2>2, <2>3, <3>1, <3>2
    <2>6. \A p \in 1..(n + 1) : p = n + 1 \/ p \in 1..n
      OBVIOUS
    <2>7. \A p \in 1..(n + 1) : more[p] = Append(seqs, s)[p]
      BY <2>1, <2>4, <2>5, <2>6
    <2>8. PICK z \in Seq(Seq(ChunkType)) : z = Append(seqs, s)
      BY <2>1
    <2>9. Len(z) = Len(more) /\ \A p \in 1..Len(more) : more[p] = z[p]
      BY <1>11, <2>1, <2>7, <2>8
    <2>10. more = z
      BY <1>11, <2>9, SeqEqual, Zenon
    <2>. QED
      BY <2>8, <2>10
  <1>14. FlattenSeq(more) = FlattenSeq(seqs) \o s
    BY <1>9, <1>12, <1>13, FlattenAppend
  <1>. QED
    BY <1>1, <1>5, <1>8, <1>10, <1>14 DEF ChunksOf

\* The chunks of a loop that has no part in the making are those of the parts.
LEMMA ChunksOfParts ==
    ASSUME NEW loop \in LoopType, NEW dir, HasParts(dir, loop.num_parts), NEW l,
           l.num_parts = loop.num_parts, l.part.chunks = <<>>
    PROVE  ChunksOf(l, dir) = FlattenSeq(PartsOf(dir, loop.num_parts))
  <1>1. FlattenSeq(PartsOf(dir, loop.num_parts)) \in Seq(ChunkType)
    BY ChunksType
  <1>. QED
    BY <1>1, ConcatEmptySeq DEF ChunksOf
---------------------------------------------------------------------------
(* Reading a column *)

\* The counters of a reader whose column has had k chunks written out: the readers from
\* the current part on are those of the parts, and chunk k is the one they name.
ReadsAt(r, dir, n, k) ==
    /\ Len(r.slots) = n /\ r.part + 1 <= n
    /\ \A s \in (r.part + 1)..n : r.slots[s].file = dir[s - 1]
    /\ r.chunk <= dir[r.part].num_chunks
    /\ \E b : StartsOf(dir, n, b) /\ b[r.part] + r.chunk = k + Len(r.got)
    /\ r.got # <<>> => r.got[1] = ChunkOf(dir[r.part], r.chunk)

LEMMA CurrentPart ==
    ASSUME NEW r \in ReaderRec, NEW n \in Nat, NEW dir, HasParts(dir, n), NEW k,
           ReadsAt(r, dir, n, k), NEW m \in Nat, m = r.part
    PROVE  /\ m \in 0..(n - 1) /\ m + 1 \in 1..n /\ n = Len(r.slots)
           /\ dir[m] \in Files /\ dir[m].num_chunks \in Nat \ {0}
           /\ r.slots[m + 1].file = dir[m]
           /\ r.chunk \in Nat /\ r.chunk <= dir[m].num_chunks
           /\ MustAdvance(r) <=> r.chunk = dir[m].num_chunks
  <1>1. m \in 0..(n - 1) /\ m + 1 \in 1..n /\ m + 1 \in (m + 1)..n /\ (m + 1) - 1 = m
    BY DEF ReadsAt
  <1>2. dir[m] \in Files /\ dir[m].num_chunks \in Nat \ {0}
    BY <1>1, PartsType
  <1>3. r.slots[m + 1].file = dir[m]
    BY <1>1 DEF ReadsAt
  <1>4. r.chunk \in Nat /\ r.chunk <= dir[m].num_chunks /\ n = Len(r.slots)
    BY SlotFacts DEF ReadsAt
  <1>5. MustAdvance(r) <=> r.chunk = dir[m].num_chunks
    BY <1>2, <1>3, <1>4 DEF MustAdvance
  <1>. QED
    BY <1>1, <1>2, <1>3, <1>4, <1>5

\* While chunks are left there is one to read, and it is the next of the column.
LEMMA ReadOn ==
    ASSUME NEW r \in ReaderRec, Standing(r), Owned(r), r.got = <<>>,
           NEW n \in Nat, NEW dir, HasParts(dir, n), NEW k \in Nat, ReadsAt(r, dir, n, k),
           NEW g, g = FlattenSeq(PartsOf(dir, n)), k < Len(g)
    PROVE  /\ Readable(r) /\ ReadsAt(Read(r), dir, n, k)
           /\ Len(Read(r).got) = 1 /\ Read(r).got[1] = g[k + 1]
  <1>1. PICK b : StartsOf(dir, n, b) /\ b[r.part] + r.chunk = k + Len(r.got)
    BY DEF ReadsAt
  <1>2. PICK m \in Nat : m = r.part
    BY SlotFacts
  <1>3. /\ m \in 0..(n - 1) /\ m + 1 \in 1..n /\ n = Len(r.slots)
        /\ dir[m] \in Files /\ dir[m].num_chunks \in Nat \ {0}
        /\ r.slots[m + 1].file = dir[m]
        /\ r.chunk \in Nat /\ r.chunk <= dir[m].num_chunks
        /\ MustAdvance(r) <=> r.chunk = dir[m].num_chunks
    BY <1>2, CurrentPart
  <1>4. /\ b \in [0..n -> Nat] /\ b[0] = 0
        /\ \A p \in 0..(n - 1) : b[p + 1] = b[p] + dir[p].num_chunks
    BY <1>1 DEF StartsOf
  <1>5. b[m] + r.chunk = k
    <2>1. Len(r.got) = 0
      BY EmptySeq
    <2>. QED
      BY <1>1, <1>2, <2>1
  <1>6. /\ g \in Seq(ChunkType) /\ Len(g) = b[n]
        /\ \A p \in 0..(n - 1) : \A i \in 1..dir[p].num_chunks : g[b[p] + i] = ChunkOf(dir[p], i)
    BY <1>1, ChunksPlaced
  <1>7. MustAdvance(r) => m + 2 <= n /\ b[m + 1] = k
    <2>. SUFFICES ASSUME MustAdvance(r)
                  PROVE  m + 2 <= n /\ b[m + 1] = k
      OBVIOUS
    <2>1. b[m + 1] = k
      BY <1>3, <1>4, <1>5
    <2>2. m + 1 # n
      BY <1>6, <2>1
    <2>. QED
      BY <1>3, <2>1, <2>2
  <1>8. InRange(r)
    BY <1>2, <1>3, <1>7 DEF InRange
  <1>9. PICK q : q = Positioned(r) /\ PositionedFrom(r, q)
    BY <1>8, PositionedFacts
  <1>10. Readable(r)
    <2>1. PICK e \in Nat : e = q.part /\ e + 1 \in 1..n
      BY <1>3, <1>9 DEF PositionedFrom
    <2>2. PICK file : file = q.slots[m + 1].file /\ file = r.slots[e + 1].file
      BY <1>2, <1>3, <1>9, <2>1, SMTT(30) DEF PositionedFrom
    <2>3. file \in Files /\ file.num_chunks \in Nat \ {0}
      BY <1>3, <2>1, <2>2, SlotFacts
    <2>4. q.chunk + 1 \in 1..file.num_chunks
      <3>1. CASE MustAdvance(r)
        <4>1. q.chunk + 1 = 1
          BY <1>9, <3>1 DEF PositionedFrom
        <4>. QED
          BY <2>3, <4>1
      <3>2. CASE ~MustAdvance(r)
        <4>1. e = m /\ q.chunk = r.chunk
          BY <1>2, <1>9, <2>1, <3>2 DEF PositionedFrom
        <4>2. file = dir[m]
          BY <1>3, <2>2, <4>1
        <4>. QED
          BY <1>3, <3>2, <4>1, <4>2
      <3>. QED
        BY <3>1, <3>2
    <2>5. HasChunk(file, q.chunk + 1)
      BY <2>3, <2>4, FileFacts
    <2>. QED
      BY <1>2, <1>8, <1>9, <2>2, <2>5 DEF Readable
  <1>11. PICK u : u = Read(r)
    OBVIOUS
  <1>12. HasRead(r, u)
    BY <1>10, <1>11, Reads
  <1>13. PICK e \in Nat : e = u.part /\ e + 1 \in 1..n /\ m <= e
    <2>1. u.part \in Nat /\ u.part + 1 \in 1..n
      BY <1>3, <1>12, SlotFacts DEF HasRead
    <2>2. m <= u.part
      <3>1. u.part = m \/ u.part = m + 1
        BY <1>2, <1>12 DEF HasRead
      <3>. QED
        BY <3>1
    <2>. QED
      BY <2>1, <2>2
  <1>14. Len(u.slots) = n /\ \A s \in (e + 1)..n : u.slots[s].file = dir[s - 1]
    <2>1. \A s \in (e + 1)..n : u.slots[s].file = r.slots[s].file
      BY <1>3, <1>12, <1>13, Zenon DEF HasRead
    <2>2. \A s \in (e + 1)..n : r.slots[s].file = dir[s - 1]
      <3>1. \A s \in (e + 1)..n : s \in (r.part + 1)..n
        BY <1>2, <1>13
      <3>. QED
        BY <3>1 DEF ReadsAt
    <2>. QED
      BY <1>3, <1>12, <2>1, <2>2 DEF HasRead
  <1>15. u.slots[e + 1].file = dir[e]
    <2>1. e + 1 \in (e + 1)..n /\ (e + 1) - 1 = e
      BY <1>13
    <2>. QED
      BY <1>14, <2>1
  <1>16. Len(u.got) = 1 /\ u.got # <<>> /\ u.got[1] = ChunkOf(dir[e], u.chunk)
    <2>1. Len(u.got) = 1 /\ u.got[1] = ChunkOf(dir[e], u.chunk)
      BY <1>12, <1>13, <1>15 DEF HasRead
    <2>. QED
      BY <2>1, EmptySeq
  <1>17. u.chunk \in 1..dir[e].num_chunks
    <2>1. Standing(u)
      BY <1>12 DEF HasRead
    <2>2. u.chunk \in 1..u.slots[u.part + 1].file.num_chunks
      BY <1>16, <2>1 DEF Standing
    <2>. QED
      BY <1>13, <1>15, <2>2
  <1>18. b[e] + u.chunk = k + 1
    <2>1. CASE MustAdvance(r)
      <3>1. e = m + 1 /\ u.chunk = 1
        BY <1>2, <1>12, <1>13, <2>1 DEF HasRead
      <3>. QED
        BY <1>7, <2>1, <3>1
    <2>2. CASE ~MustAdvance(r)
      <3>1. e = m /\ u.chunk = r.chunk + 1
        BY <1>2, <1>12, <1>13, <2>2 DEF HasRead
      <3>2. PICK y \in Nat : y = r.chunk
        BY <1>3
      <3>3. PICK x \in Nat : x = b[m]
        <4>1. m \in 0..n
          BY <1>3
        <4>. QED
          BY <1>4, <4>1
      <3>4. x + y = k /\ b[e] + u.chunk = x + (y + 1)
        BY <1>5, <3>1, <3>2, <3>3
      <3>. QED
        BY <3>4
    <2>. QED
      BY <2>1, <2>2
  <1>19. ReadsAt(u, dir, n, k)
    <2>1. b[u.part] + u.chunk = k + Len(u.got)
      BY <1>13, <1>16, <1>18
    <2>2. u.chunk <= dir[u.part].num_chunks
      <3>1. e \in 0..(n - 1)
        BY <1>13
      <3>2. dir[e].num_chunks \in Nat
        BY <3>1, PartsType
      <3>. QED
        BY <1>13, <1>17, <3>2
    <2>3. u.part + 1 <= n
      BY <1>13
    <2>4. u.got[1] = ChunkOf(dir[u.part], u.chunk)
      BY <1>13, <1>16
    <2>5. \A s \in (u.part + 1)..n : u.slots[s].file = dir[s - 1]
      BY <1>13, <1>14
    <2>. QED
      BY <1>1, <1>14, <2>1, <2>2, <2>3, <2>4, <2>5 DEF ReadsAt
  <1>20. u.got[1] = g[k + 1]
    <2>1. e \in 0..(n - 1)
      BY <1>13
    <2>2. g[b[e] + u.chunk] = ChunkOf(dir[e], u.chunk)
      BY <1>6, <1>17, <2>1
    <2>. QED
      BY <1>16, <1>18, <2>2
  <1>. QED
    BY <1>10, <1>11, <1>16, <1>19, <1>20
\* Once a chunk has been read it can be written out, with the null map of the same chunk.
LEMMA ShowOn ==
    ASSUME NEW r \in ReaderRec, Standing(r), Owned(r), r.got # <<>>,
           NEW n \in Nat, NEW dir, HasParts(dir, n), NEW k \in Nat, ReadsAt(r, dir, n, k),
           NEW g, g = FlattenSeq(PartsOf(dir, n))
    PROVE  /\ ReadsAt(Shown(r), dir, n, k + 1)
           /\ k + 1 <= Len(g) /\ r.got[1] = g[k + 1] /\ NullmapOf(r) = r.got[1]
  <1>1. PICK b : StartsOf(dir, n, b) /\ b[r.part] + r.chunk = k + Len(r.got)
    BY DEF ReadsAt
  <1>2. PICK m \in Nat : m = r.part
    BY SlotFacts
  <1>3. /\ m \in 0..(n - 1) /\ m + 1 \in 1..n /\ n = Len(r.slots)
        /\ r.slots[m + 1].file = dir[m]
        /\ r.chunk \in Nat
    BY <1>2, CurrentPart
  <1>4. Len(r.got) = 1
    <2>1. Len(r.got) \in Nat \ {0}
      <3>1. r.got \in Seq(ChunkType)
        BY SlotFacts
      <3>. QED
        BY <3>1, EmptySeq
    <2>2. Len(r.got) <= 1
      BY Zenon DEF Standing
    <2>3. \A z \in Nat \ {0} : z <= 1 => z = 1
      OBVIOUS
    <2>. QED
      BY <2>1, <2>2, <2>3, Zenon
  <1>5. r.chunk \in 1..dir[m].num_chunks
    BY <1>2, <1>3 DEF Standing
  <1>6. b[m] + r.chunk = k + 1
    BY <1>1, <1>2, <1>4
  <1>7. /\ g \in Seq(ChunkType) /\ Len(g) = b[n]
        /\ \A i \in 1..dir[m].num_chunks : b[m] + i \in 1..b[n] /\ g[b[m] + i] = ChunkOf(dir[m], i)
    BY <1>1, <1>3, ChunksPlaced
  <1>8. k + 1 \in 1..b[n] /\ g[k + 1] = ChunkOf(dir[m], r.chunk)
    BY <1>5, <1>6, <1>7
  <1>9. r.got[1] = ChunkOf(dir[m], r.chunk)
    BY <1>2 DEF ReadsAt
  <1>10. NullmapOf(r) = ChunkOf(dir[m], r.chunk)
    BY <1>2, <1>3 DEF NullmapOf
  <1>11. PICK u : u = Shown(r)
    OBVIOUS
  <1>12. HasShown(r, u)
    BY <1>11, Shows
  <1>13. ReadsAt(u, dir, n, k + 1)
    <2>1. /\ u.part = m /\ u.chunk = r.chunk /\ u.got = <<>> /\ Len(u.slots) = n
          /\ \A s \in 1..n : u.slots[s].file = r.slots[s].file
      BY <1>2, <1>3, <1>12 DEF HasShown
    <2>2. \A s \in (m + 1)..n : u.slots[s].file = dir[s - 1]
      <3>1. \A s \in (m + 1)..n : r.slots[s].file = dir[s - 1]
        BY <1>2 DEF ReadsAt
      <3>2. \A s \in (m + 1)..n : s \in 1..n
        OBVIOUS
      <3>. QED
        BY <2>1, <3>1, <3>2
    <2>3. u.chunk <= dir[m].num_chunks
      BY <1>2, <2>1 DEF ReadsAt
    <2>4. b[m] + u.chunk = (k + 1) + Len(u.got)
      <3>1. Len(u.got) = 0
        BY <2>1, EmptySeq
      <3>. QED
        BY <1>6, <2>1, <3>1
    <2>. QED
      BY <1>1, <1>3, <2>1, <2>2, <2>3, <2>4 DEF ReadsAt
  <1>. QED
    BY <1>7, <1>8, <1>9, <1>10, <1>11, <1>13

\* The readers of a column, fresh from its parts.
LoadedReader(dir, n) == [NoReader EXCEPT !.slots = [p \in 1..n |-> NewReader(dir[p - 1])]]

LEMMA Loaded ==
    ASSUME NEW n \in Nat, NEW dir, HasParts(dir, n), NEW r, r = LoadedReader(dir, n)
    PROVE  /\ r \in ReaderRec /\ Standing(r) /\ Owned(r) /\ r.got = <<>>
           /\ n > 0 => ReadsAt(r, dir, n, 0)
  <1>1. PICK slots : slots = [p \in 1..n |-> NewReader(dir[p - 1])]
    OBVIOUS
  <1>2. r = [slots |-> slots, part |-> 0, chunk |-> 0, got |-> <<>>, bitmaps |-> 0]
    BY <1>1 DEF LoadedReader, NoReader
  <1>3. \A f \in Files : /\ NewReader(f) \in SlotRec /\ NewReader(f).file = f
                         /\ Len(NewReader(f).bitmaps) = f.num_chunks
                         /\ \A i \in 1..f.num_chunks : NewReader(f).bitmaps[i] = 0
    <2>1. TAKE f \in Files
    <2>2. PICK k \in Nat \ {0} : k = f.num_chunks
      BY FileFacts
    <2>3. PICK z : z = [i \in 1..k |-> 0]
      OBVIOUS
    <2>4. z \in Seq(Nat) /\ Len(z) = k /\ \A i \in 1..k : z[i] = 0
      BY <2>3
    <2>5. NewReader(f) = [file |-> f, bitmaps |-> z]
      BY <2>2, <2>3 DEF NewReader
    <2>. QED
      BY <2>2, <2>4, <2>5 DEF SlotRec
  <1>4. ASSUME NEW p \in 1..n
        PROVE  dir[p - 1] \in Files /\ slots[p] = NewReader(dir[p - 1])
    <2>1. p - 1 \in 0..(n - 1)
      OBVIOUS
    <2>. QED
      BY <1>1, <2>1, PartsType
  <1>5. slots \in Seq(SlotRec) /\ Len(slots) = n
    BY <1>1, <1>3, <1>4
  <1>6. /\ r \in ReaderRec /\ r.slots = slots /\ r.part = 0 /\ r.chunk = 0 /\ r.got = <<>>
        /\ r.bitmaps = 0
    <2>1. <<>> \in Seq(ChunkType) /\ 0 \in Nat
      OBVIOUS
    <2>. QED
      BY <1>2, <1>5, <2>1 DEF ReaderRec
  <1>7. \A p \in 1..n : /\ Len(slots[p].bitmaps) = slots[p].file.num_chunks
                        /\ slots[p].file = dir[p - 1]
                        /\ \A i \in 1..Len(slots[p].bitmaps) : slots[p].bitmaps[i] = 0
    BY <1>3, <1>4
  <1>8. Standing(r)
    BY <1>5, <1>6, <1>7, EmptySeq DEF Standing
  <1>9. Owned(r)
    BY <1>5, <1>6, <1>7 DEF Owned
  <1>10. ASSUME n > 0
         PROVE  ReadsAt(r, dir, n, 0)
    <2>1. PICK b : StartsOf(dir, n, b)
      BY StartsExist
    <2>2. b[0] = 0
      BY <2>1 DEF StartsOf
    <2>3. 0 \in 0..(n - 1) /\ 0 + 1 <= n
      BY <1>10
    <2>4. 0 <= dir[0].num_chunks
      BY <2>3, PartsType
    <2>5. b[0] + 0 = 0 + Len(r.got)
      BY <1>6, <2>2, EmptySeq
    <2>6. \A s \in (0 + 1)..n : r.slots[s].file = dir[s - 1]
      BY <1>6, <1>7
    <2>. QED
      BY <1>5, <1>6, <2>1, <2>3, <2>4, <2>5, <2>6 DEF ReadsAt
  <1>. QED
    BY <1>6, <1>8, <1>9, <1>10

---------------------------------------------------------------------------
(* Ranges *)

Ranges == [offset : Int, count : Int]
CurrentTuples == Tuples[table]
CurrentRanges == NumRanges(Tuples[table])

LEMMA RangeFacts ==
    ASSUME NEW t \in Nat \ {0}
    PROVE  /\ NumRanges(t) \in Nat \ {0}
           /\ \A i \in Nat : RangeAt(t, i) \in Ranges
  <1>1. PICK B \in Nat \ {0} : B = BlockSize
    BY ConfigAssumption
  <1>2. PICK a \in Nat : a = t + B - 1 /\ a >= B
    OBVIOUS
  <1>3. a \div B \in Nat \ {0}
    <2>1. PICK q \in Int : q = a \div B
      OBVIOUS
    <2>2. a < (q + 1) * B
      BY <2>1
    <2>3. ~(q <= 0)
      <3>1. CASE q <= 0
        <4>1. (q + 1) * B <= B
          BY <3>1
        <4>. QED
          BY <1>2, <2>2, <4>1
      <3>. QED
        BY <3>1
    <2>. QED
      BY <2>1, <2>3
  <1>4. NumRanges(t) \in Nat \ {0}
    <2>1. MaxChunkCount \in Nat \ {0}
      BY ConfigAssumption
    <2>2. NumRanges(t) = Least(a \div B, MaxChunkCount)
      BY <1>1, <1>2 DEF NumRanges
    <2>. QED
      BY <1>3, <2>1, <2>2 DEF Least
  <1>5. ASSUME NEW i \in Nat
        PROVE  RangeAt(t, i) \in Ranges
    <2>1. PICK o \in Int : o = (i - 1) * B
      OBVIOUS
    <2>2. RangeAt(t, i) = [offset |-> o, count |-> IF o + B >= t THEN t - o ELSE B]
      BY <1>1, <2>1 DEF RangeAt
    <2>3. (IF o + B >= t THEN t - o ELSE B) \in Int
      OBVIOUS
    <2>. QED
      BY <2>2, <2>3 DEF Ranges
  <1>. QED
    BY <1>4, <1>5

---------------------------------------------------------------------------
(* The inductive invariant *)

RowType == [rows : Int, cells : [Columns -> ChunkType], nulls : [Columns -> ChunkType]]
MetaType == [num_chunks : Nat, num_parts : [Columns -> Nat]]

Types ==
    /\ phase \in {"idle", "writing", "reading"}
    /\ table \in 0..Len(Tuples) /\ reads \in 0..MaxReads
    /\ aborted \in BOOLEAN /\ undefined \in BOOLEAN
    /\ selection.columns \subseteq Columns
    /\ writer \in [Columns -> LoopType]
    /\ DOMAIN files = Columns
    /\ \A c \in Columns : HasParts(files[c], writer[c].num_parts)
    /\ metadata = NoFile \/ metadata \in MetaType
    /\ reader \in [Columns -> ReaderRec]
    /\ \A c \in Columns : Standing(reader[c]) /\ Owned(reader[c])
    /\ csv \in Seq(RowType)

Phases ==
    /\ phase # "idle" => table > 0
    /\ metadata # NoFile => table > 0
    /\ phase = "writing" => csv = <<>> /\ ~undefined /\ ~aborted
    /\ phase = "reading" => metadata # NoFile

\* A loop stops after the last chunk, and has no chunks left when it is done.
Loops ==
    table > 0 =>
        \A c \in Columns :
            /\ writer[c].next <= CurrentRanges + 1
            /\ writer[c].done => writer[c].next = CurrentRanges + 1 /\ writer[c].part.chunks = <<>>

\* Of a table that is converted as a whole, the chunks before the next are there, in order.
IsChunk(x, c, k) == x.table = table /\ x.column = c /\ x.range = RangeAt(Tuples[table], k)
Column(c) == ChunksOf(writer[c], files[c])
Written ==
    Intact => \A c \in Columns : /\ Len(Column(c)) = writer[c].next - 1
                                 /\ \A k \in 1..Len(Column(c)) : IsChunk(Column(c)[k], c, k)

\* After the conversion all of them are there, and the metadata tells how many parts.
Sealed ==
    (Intact /\ phase # "writing" /\ table > 0) =>
        /\ metadata = [num_chunks |-> CurrentRanges, num_parts |-> NumPartsOf]
        /\ \A c \in Columns : writer[c].done

Reading ==
    (Intact /\ phase = "reading") =>
        \A c \in Columns : ReadsAt(reader[c], files[c], writer[c].num_parts, Len(csv))

Rows ==
    Intact =>
        /\ ~undefined
        /\ csv # <<>> => Len(csv) <= metadata.num_chunks
        /\ \A k \in 1..Len(csv) :
              /\ csv[k].rows = RangeAt(Tuples[table], k).count
              /\ \A c \in Columns : csv[k].cells[c] = Column(c)[k] /\ csv[k].nulls[c] = csv[k].cells[c]

IInv == Types /\ Phases /\ Loops /\ Written /\ Sealed /\ Reading /\ Rows

---------------------------------------------------------------------------

LEMMA ColumnFacts ==
    ASSUME Types, NEW c \in Columns
    PROVE  /\ writer[c] \in LoopType /\ HasParts(files[c], writer[c].num_parts)
           /\ reader[c] \in ReaderRec /\ Standing(reader[c]) /\ Owned(reader[c])
           /\ Column(c) \in Seq(ChunkType)
  <1>1. /\ writer[c] \in LoopType /\ HasParts(files[c], writer[c].num_parts)
        /\ reader[c] \in ReaderRec /\ Standing(reader[c]) /\ Owned(reader[c])
    BY DEF Types
  <1>2. Column(c) \in Seq(ChunkType)
    BY <1>1, ChunksType DEF Column
  <1>. QED
    BY <1>1, <1>2

LEMMA TuplesFacts ==
    ASSUME NEW t \in 0..Len(Tuples), t > 0
    PROVE  Tuples[t] \in Nat \ {0} /\ NumRanges(Tuples[t]) \in Nat \ {0}
  <1>1. t \in 1..Len(Tuples) /\ Tuples \in Seq(Nat \ {0})
    BY ConfigAssumption
  <1>2. Tuples[t] \in Nat \ {0}
    BY <1>1
  <1>. QED
    BY <1>2, RangeFacts

LEMMA TableFacts ==
    ASSUME Types, table > 0
    PROVE  CurrentTuples \in Nat \ {0} /\ CurrentRanges \in Nat \ {0} /\ table \in Nat \ {0}
  <1>1. table \in 0..Len(Tuples)
    BY DEF Types
  <1>2. table \in Nat \ {0}
    BY <1>1, ConfigAssumption
  <1>. QED
    BY <1>1, <1>2, TuplesFacts DEF CurrentTuples, CurrentRanges

LEMMA OneColumn == 1 \in Columns
  BY ConfigAssumption DEF Columns

\* A loop and a directory from which no part has been written yet.
LEMMA FreshFacts ==
    ASSUME NEW dir, IsDir(dir)
    PROVE  /\ FreshLoop \in LoopType /\ HasParts(dir, 0) /\ FreshLoop.num_parts = 0
           /\ FreshLoop.next = 1 /\ FreshLoop.done = FALSE /\ FreshLoop.part.chunks = <<>>
           /\ ChunksOf(FreshLoop, dir) = <<>>
  <1>1. PICK p : p = [total_size |-> 0, chunks |-> <<>>]
    OBVIOUS
  <1>2. FreshLoop = [next |-> 1, part |-> p, num_parts |-> 0, done |-> FALSE]
    BY <1>1 DEF FreshLoop, EmptyPart
  <1>3. /\ FreshLoop.num_parts = 0 /\ FreshLoop.next = 1 /\ FreshLoop.done = FALSE
        /\ FreshLoop.part = p /\ p.chunks = <<>> /\ p.total_size = 0
    BY <1>1, <1>2
  <1>4. p \in [total_size : Nat, chunks : Seq(ChunkType)] /\ 0 <= Threshold
    <2>1. <<>> \in Seq(ChunkType) /\ 0 \in Nat
      OBVIOUS
    <2>2. 0 <= Threshold
      BY ConfigAssumption
    <2>. QED
      BY <1>1, <2>1, <2>2
  <1>5. FreshLoop \in [next : Nat \ {0}, part : [total_size : Nat, chunks : Seq(ChunkType)],
                       num_parts : Nat, done : BOOLEAN]
    BY <1>2, <1>4
  <1>6. FreshLoop \in LoopType
    BY <1>3, <1>4, <1>5 DEF LoopType
  <1>7. HasParts(dir, 0)
    BY DEF HasParts
  <1>8. PICK b : StartsOf(dir, 0, b)
    BY <1>7, StartsExist
  <1>9. FlattenSeq(PartsOf(dir, 0)) \in Seq(ChunkType) /\ Len(FlattenSeq(PartsOf(dir, 0))) = 0
    <2>1. b[0] = 0
      BY <1>8 DEF StartsOf
    <2>2. 0 \in Nat
      OBVIOUS
    <2>. QED
      BY <1>7, <1>8, <2>1, <2>2, ChunksPlaced, Zenon
  <1>10. FlattenSeq(PartsOf(dir, 0)) = <<>>
    <2>1. \A g \in Seq(ChunkType) : Len(g) = 0 => g = <<>>
      OBVIOUS
    <2>. QED
      BY <1>9, <2>1, Zenon
  <1>11. ChunksOf(FreshLoop, dir) = <<>>
    BY <1>3, <1>10 DEF ChunksOf
  <1>. QED
    BY <1>3, <1>6, <1>7, <1>11

THEOREM InitInv == Init => IInv
  <1>. SUFFICES ASSUME Init PROVE IInv
    OBVIOUS
  <1>1. /\ phase = "idle" /\ table = 0 /\ selection.columns = Columns
        /\ aborted = FALSE /\ undefined = FALSE /\ reads = 0
        /\ metadata = NoFile /\ csv = <<>>
    BY DEF Init
  <1>2. \A c \in Columns : writer[c] = FreshLoop /\ files[c] = <<>> /\ reader[c] = NoReader
    BY DEF Init
  <1>3. IsDir(<<>>)
    BY DEF IsDir
  <1>4. NoReader \in ReaderRec /\ Standing(NoReader) /\ Owned(NoReader)
    <2>1. PICK n : n = [slots |-> <<>>, part |-> 0, chunk |-> 0, got |-> <<>>, bitmaps |-> 0]
      OBVIOUS
    <2>2. <<>> \in Seq(SlotRec) /\ <<>> \in Seq(ChunkType) /\ 0 \in Nat
      OBVIOUS
    <2>3. n \in ReaderRec /\ n.slots = <<>> /\ n.part = 0 /\ n.got = <<>>
      BY <2>1, <2>2 DEF ReaderRec
    <2>4. Len(n.slots) = 0 /\ Len(n.got) = 0
      BY <2>3, EmptySeq
    <2>5. Standing(n) /\ Owned(n)
      BY <2>3, <2>4 DEF Standing, Owned
    <2>. QED
      BY <2>1, <2>3, <2>5 DEF NoReader
  <1>5. writer \in [Columns -> LoopType] /\ reader \in [Columns -> ReaderRec] /\ DOMAIN files = Columns
    <2>1. FreshLoop \in LoopType
      BY <1>3, FreshFacts
    <2>. QED
      BY <1>4, <2>1 DEF Init
  <1>6. Types
    <2>1. 0 \in 0..Len(Tuples) /\ 0 \in 0..MaxReads
      BY ConfigAssumption
    <2>2. \A c \in Columns : HasParts(files[c], writer[c].num_parts)
      BY <1>2, <1>3, FreshFacts
    <2>3. csv \in Seq(RowType)
      BY <1>1
    <2>. QED
      BY <1>1, <1>2, <1>4, <1>5, <2>1, <2>2, <2>3 DEF Types
  <1>7. Written
    <2>1. \A c \in Columns : Column(c) = <<>> /\ writer[c].next = 1
      BY <1>2, <1>3, FreshFacts DEF Column
    <2>2. \A c \in Columns : Len(Column(c)) = 0
      BY <2>1, EmptySeq
    <2>. QED
      BY <2>1, <2>2 DEF Written
  <1>8. Rows
    <2>1. Len(csv) = 0
      BY <1>1, EmptySeq
    <2>. QED
      BY <1>1, <2>1 DEF Rows
  <1>9. Phases /\ Loops /\ Sealed /\ Reading
    BY <1>1 DEF Phases, Loops, Sealed, Reading
  <1>. QED
    BY <1>6, <1>7, <1>8, <1>9 DEF IInv
---------------------------------------------------------------------------
(* Converting *)

LEMMA StartConversionStep ==
    ASSUME IInv, StartConversion
    PROVE  IInv'
  <1>1. /\ phase' = "writing" /\ table \in Nat /\ table' = table + 1 /\ table < Len(Tuples)
        /\ aborted' = FALSE /\ selection' \in Selections /\ csv' = <<>> /\ undefined' = FALSE
        /\ files' = files /\ metadata' = metadata /\ reader' = reader /\ reads' = reads
    BY DEF StartConversion, IInv, Types
  <1>2. writer' = [c \in Columns |-> FreshLoop]
    BY DEF StartConversion
  <1>3. /\ DOMAIN files = Columns /\ \A c \in Columns : IsDir(files[c])
        /\ reads \in 0..MaxReads /\ (metadata = NoFile \/ metadata \in MetaType)
        /\ reader \in [Columns -> ReaderRec]
        /\ \A c \in Columns : Standing(reader[c]) /\ Owned(reader[c])
    BY DEF IInv, Types, HasParts
  <1>4. \A c \in Columns : writer'[c] = FreshLoop /\ files'[c] = files[c] /\ reader'[c] = reader[c]
    BY <1>1, <1>2
  <1>5. FreshLoop \in LoopType /\ FreshLoop.next = 1 /\ FreshLoop.done = FALSE /\ FreshLoop.num_parts = 0
    <2>1. PICK c : c \in Columns
      BY OneColumn
    <2>. QED
      BY <1>3, <2>1, FreshFacts
  <1>6. \A c \in Columns : HasParts(files[c], FreshLoop.num_parts) /\ ChunksOf(FreshLoop, files[c]) = <<>>
    BY <1>3, <1>5, FreshFacts
  <1>7. Types'
    <2>1. table' \in 0..Len(Tuples) /\ Len(Tuples) \in Nat
      BY <1>1, ConfigAssumption
    <2>2. selection'.columns \subseteq Columns
      BY <1>1, ConfigAssumption
    <2>3. writer' \in [Columns -> LoopType]
      BY <1>2, <1>5
    <2>4. \A c \in Columns : HasParts(files'[c], writer'[c].num_parts)
      BY <1>4, <1>6
    <2>5. csv' \in Seq(RowType)
      BY <1>1
    <2>6. \A c \in Columns : Standing(reader'[c]) /\ Owned(reader'[c])
      BY <1>3, <1>4
    <2>. QED
      BY <1>1, <1>3, <2>1, <2>2, <2>3, <2>4, <2>5, <2>6 DEF Types
  <1>8. table' > 0
    BY <1>1
  <1>9. Loops'
    <2>1. NumRanges(Tuples[table']) \in Nat \ {0}
      <3>1. table' \in 0..Len(Tuples)
        BY <1>7 DEF Types
      <3>. QED
        BY <1>8, <3>1, TuplesFacts
    <2>2. 1 <= NumRanges(Tuples[table']) + 1
      BY <2>1
    <2>. QED
      BY <1>4, <1>5, <2>2 DEF Loops, CurrentRanges
  <1>10. Written'
    <2>1. \A c \in Columns : Column(c)' = <<>> /\ writer'[c].next = 1
      BY <1>4, <1>5, <1>6 DEF Column
    <2>2. \A c \in Columns : Len(Column(c)') = 0
      BY <2>1, EmptySeq
    <2>. QED
      BY <2>1, <2>2 DEF Written
  <1>11. Rows'
    <2>1. Len(csv') = 0
      BY <1>1, EmptySeq
    <2>. QED
      BY <1>1, <2>1 DEF Rows
  <1>12. Phases' /\ Sealed' /\ Reading'
    BY <1>1, <1>8 DEF Phases, Sealed, Reading
  <1>. QED
    BY <1>7, <1>9, <1>10, <1>11, <1>12 DEF IInv

\* What a step of a column's loop does: the program ends, or the loop goes on with the
\* chunks there were, or with one more.
Aborts ==
    phase' = "idle" /\ aborted' = TRUE /\ writer' = writer /\ files' = files

GoesOn(c, l, d) ==
    /\ l \in LoopType /\ HasParts(d, l.num_parts)
    /\ l.next <= CurrentRanges + 1
    /\ l.done => l.next = CurrentRanges + 1 /\ l.part.chunks = <<>>
    /\ \/ /\ ChunksOf(l, d) = Column(c)
          /\ l.next = writer[c].next \/ (selection.chunk # None /\ l.next = writer[c].next + 1)
       \/ \E x \in ChunkType : /\ IsChunk(x, c, writer[c].next)
                               /\ ChunksOf(l, d) = Append(Column(c), x)
                               /\ l.next = writer[c].next + 1

Proceeds(c) ==
    /\ phase' = phase /\ aborted' = aborted
    /\ DOMAIN files' = Columns /\ \A e \in Columns \ {c} : files'[e] = files[e]
    /\ writer' = [writer EXCEPT ![c] = writer'[c]]
    /\ GoesOn(c, writer'[c], files'[c])

\* A part that is written is read back as it was, so that verify_or_die passes.
LEMMA WritePartStep ==
    ASSUME Types, NEW c \in Columns, NEW l \in LoopType, NEW n \in Nat, n = writer[c].num_parts,
           writer[c].part.chunks # <<>>, l.num_parts = n + 1, WritePart(c, l)
    PROVE  /\ phase' = phase /\ aborted' = aborted
           /\ writer' = [writer EXCEPT ![c] = l]
           /\ DOMAIN files' = Columns /\ \A e \in Columns \ {c} : files'[e] = files[e]
           /\ HasParts(files'[c], l.num_parts)
           /\ FlattenSeq(PartsOf(files'[c], l.num_parts)) = Column(c)
  <1>1. PICK s \in ChunkSeqs : s = writer[c].part.chunks
    BY ColumnFacts, LoopFacts DEF ChunkSeqs
  <1>2. Verified(PartFile(s), s)
    BY PartFileVerified
  <1>3. /\ phase' = phase /\ aborted' = aborted
        /\ writer' = [writer EXCEPT ![c] = l]
    BY <1>1, <1>2 DEF WritePart
  <1>4. files' = [files EXCEPT ![c] = WithPart(files[c], n, s)]
    BY <1>1 DEF WritePart, WithPart
  <1>5. DOMAIN files = Columns
    BY DEF Types
  <1>6. /\ DOMAIN files' = Columns /\ \A e \in Columns \ {c} : files'[e] = files[e]
        /\ files'[c] = WithPart(files[c], n, s)
    BY <1>4, <1>5
  <1>7. /\ HasParts(WithPart(files[c], n, s), n + 1)
        /\ FlattenSeq(PartsOf(WithPart(files[c], n, s), n + 1)) = ChunksOf(writer[c], files[c])
    <2>1. PICK loop \in LoopType : loop = writer[c]
      BY ColumnFacts
    <2>2. PICK dir : dir = files[c]
      OBVIOUS
    <2>3. HasParts(dir, n) /\ n = loop.num_parts /\ loop.part.chunks # <<>> /\ s = loop.part.chunks
      BY <1>1, <2>1, <2>2, ColumnFacts
    <2>4. PICK d : d = WithPart(dir, n, loop.part.chunks)
      OBVIOUS
    <2>5. HasParts(d, n + 1) /\ FlattenSeq(PartsOf(d, n + 1)) = ChunksOf(loop, dir)
      BY <2>3, <2>4, PartWritten
    <2>. QED
      BY <2>1, <2>2, <2>3, <2>4, <2>5
  <1>. QED
    BY <1>3, <1>6, <1>7 DEF Column
LEMMA LoopMember ==
    ASSUME NEW next \in Nat \ {0}, NEW total \in Nat, total <= Threshold,
           NEW chunks \in Seq(ChunkType), chunks = <<>> => total = 0,
           NEW n \in Nat, NEW done \in BOOLEAN,
           NEW l, l = [next |-> next, part |-> [total_size |-> total, chunks |-> chunks],
                       num_parts |-> n, done |-> done]
    PROVE  l \in LoopType
  <1>1. PICK p : p = [total_size |-> total, chunks |-> chunks]
    OBVIOUS
  <1>2. p \in [total_size : Nat, chunks : Seq(ChunkType)] /\ p.total_size = total /\ p.chunks = chunks
    BY <1>1
  <1>3. l = [next |-> next, part |-> p, num_parts |-> n, done |-> done]
    BY <1>1
  <1>4. l.part = p /\ l \in [next : Nat \ {0}, part : [total_size : Nat, chunks : Seq(ChunkType)],
                             num_parts : Nat, done : BOOLEAN]
    BY <1>2, <1>3
  <1>. QED
    BY <1>2, <1>4 DEF LoopType

LEMMA LoopShape ==
    ASSUME NEW loop \in LoopType
    PROVE  /\ loop = [next |-> loop.next, part |-> loop.part, num_parts |-> loop.num_parts,
                      done |-> loop.done]
           /\ loop.part = [total_size |-> loop.part.total_size, chunks |-> loop.part.chunks]
  <1>1. PICK P : P = [total_size : Nat, chunks : Seq(ChunkType)]
    OBVIOUS
  <1>2. loop \in [next : Nat \ {0}, part : P, num_parts : Nat, done : BOOLEAN]
    BY <1>1 DEF LoopType
  <1>3. loop = [next |-> loop.next, part |-> loop.part, num_parts |-> loop.num_parts,
                done |-> loop.done]
    BY <1>2
  <1>4. loop.part \in [total_size : Nat, chunks : Seq(ChunkType)]
    BY <1>1, <1>2
  <1>5. loop.part = [total_size |-> loop.part.total_size, chunks |-> loop.part.chunks]
    BY <1>4
  <1>. QED
    BY <1>3, <1>5

LEMMA WithNext ==
    ASSUME NEW loop \in LoopType, NEW k
    PROVE  [loop EXCEPT !.next = k] =
              [next |-> k, part |-> loop.part, num_parts |-> loop.num_parts, done |-> loop.done]
  <1>1. loop = [next |-> loop.next, part |-> loop.part, num_parts |-> loop.num_parts,
                done |-> loop.done]
    BY LoopShape
  <1>. QED
    BY <1>1

LEMMA WithDone ==
    ASSUME NEW loop \in LoopType, NEW k
    PROVE  [loop EXCEPT !.done = k] =
              [next |-> loop.next, part |-> loop.part, num_parts |-> loop.num_parts, done |-> k]
  <1>1. loop = [next |-> loop.next, part |-> loop.part, num_parts |-> loop.num_parts,
                done |-> loop.done]
    BY LoopShape
  <1>. QED
    BY <1>1

LEMMA WithPartAndNext ==
    ASSUME NEW loop \in LoopType, NEW k, NEW p
    PROVE  [loop EXCEPT !.part = p, !.next = k] =
              [next |-> k, part |-> p, num_parts |-> loop.num_parts, done |-> loop.done]
  <1>1. loop = [next |-> loop.next, part |-> loop.part, num_parts |-> loop.num_parts,
                done |-> loop.done]
    BY LoopShape
  <1>2. PICK m : m = [loop EXCEPT !.part = p]
    OBVIOUS
  <1>3. m = [next |-> loop.next, part |-> p, num_parts |-> loop.num_parts, done |-> loop.done]
    BY <1>1, <1>2
  <1>4. [m EXCEPT !.next = k] = [next |-> k, part |-> p, num_parts |-> loop.num_parts, done |-> loop.done]
    BY <1>3
  <1>5. [loop EXCEPT !.part = p, !.next = k] = [m EXCEPT !.next = k]
    BY <1>2
  <1>. QED
    BY <1>1, <1>4, <1>5

LEMMA WithNewPart ==
    ASSUME NEW loop \in LoopType, NEW k, NEW p, NEW n
    PROVE  [loop EXCEPT !.part = p, !.next = k, !.num_parts = n] =
              [next |-> k, part |-> p, num_parts |-> n, done |-> loop.done]
  <1>1. PICK m : m = [loop EXCEPT !.part = p, !.next = k]
    OBVIOUS
  <1>2. m = [next |-> k, part |-> p, num_parts |-> loop.num_parts, done |-> loop.done]
    BY <1>1, WithPartAndNext
  <1>3. [m EXCEPT !.num_parts = n] = [next |-> k, part |-> p, num_parts |-> n, done |-> loop.done]
    BY <1>2
  <1>4. [loop EXCEPT !.part = p, !.next = k, !.num_parts = n] = [m EXCEPT !.num_parts = n]
    BY <1>1
  <1>. QED
    BY <1>3, <1>4

LEMMA WithLastPart ==
    ASSUME NEW loop \in LoopType, NEW k, NEW p, NEW n
    PROVE  [loop EXCEPT !.part = p, !.num_parts = n, !.done = k] =
              [next |-> loop.next, part |-> p, num_parts |-> n, done |-> k]
  <1>1. loop = [next |-> loop.next, part |-> loop.part, num_parts |-> loop.num_parts,
                done |-> loop.done]
    BY LoopShape
  <1>2. PICK m : m = [loop EXCEPT !.part = p]
    OBVIOUS
  <1>3. m = [next |-> loop.next, part |-> p, num_parts |-> loop.num_parts, done |-> loop.done]
    BY <1>1, <1>2
  <1>4. PICK o : o = [m EXCEPT !.num_parts = n]
    OBVIOUS
  <1>5. o = [next |-> loop.next, part |-> p, num_parts |-> n, done |-> loop.done]
    BY <1>3, <1>4
  <1>6. [o EXCEPT !.done = k] = [next |-> loop.next, part |-> p, num_parts |-> n, done |-> k]
    BY <1>5
  <1>7. [loop EXCEPT !.part = p, !.num_parts = n, !.done = k] = [o EXCEPT !.done = k]
    BY <1>2, <1>4
  <1>. QED
    BY <1>1, <1>6, <1>7

\* A chunk of the current range.
LEMMA ChunkFacts ==
    ASSUME Types, table > 0, NEW c \in Columns, NEW k \in Nat, NEW size \in ChunkSizes,
           NEW x, x = Chunk(table, c, k, size)
    PROVE  x \in ChunkType /\ IsChunk(x, c, k) /\ x.size = size /\ size \in Nat \ {0}
  <1>1. size \in Nat \ {0} /\ table \in Nat
    BY ConfigAssumption, TableFacts
  <1>2. PICK rg \in Ranges : rg = RangeAt(Tuples[table], k)
    <2>1. RangeAt(CurrentTuples, k) \in Ranges
      BY TableFacts, RangeFacts
    <2>. QED
      BY <2>1 DEF CurrentTuples
  <1>3. x = [table |-> table, column |-> c, range |-> rg, size |-> size]
    BY <1>2 DEF Chunk
  <1>. QED
    BY <1>1, <1>2, <1>3 DEF ChunkType, Ranges, IsChunk

LEMMA SkipChunkStep ==
    ASSUME IInv, phase = "writing", NEW c \in Columns, ~writer[c].done, SkipChunk(c)
    PROVE  Proceeds(c)
  <1>1. PICK loop \in LoopType : loop = writer[c]
    BY ColumnFacts DEF IInv
  <1>2. /\ loop.next \in Nat \ {0} /\ loop.num_parts \in Nat /\ loop.done = FALSE
        /\ loop.part.total_size \in Nat /\ loop.part.total_size <= Threshold
        /\ loop.part.chunks \in Seq(ChunkType)
        /\ loop.part.chunks = <<>> => loop.part.total_size = 0
    <2>1. loop.part.total_size \in Nat /\ loop.part.total_size <= Threshold
      BY LoopFacts, ConfigAssumption
    <2>. QED
      BY <1>1, <2>1, LoopFacts
  <1>3. /\ loop.next <= CurrentRanges /\ selection.chunk # None
        /\ writer' = [writer EXCEPT ![c].next = @ + 1]
        /\ phase' = phase /\ aborted' = aborted /\ files' = files
    BY <1>1 DEF SkipChunk, CurrentRanges
  <1>4. PICK k \in Nat \ {0} : k = loop.next + 1
    BY <1>2
  <1>5. PICK l : l = [loop EXCEPT !.next = k]
    OBVIOUS
  <1>6. writer' = [writer EXCEPT ![c] = l]
    BY <1>1, <1>3, <1>4, <1>5
  <1>7. l = [next |-> k, part |-> [total_size |-> loop.part.total_size, chunks |-> loop.part.chunks],
             num_parts |-> loop.num_parts, done |-> FALSE]
    <2>1. l = [next |-> k, part |-> loop.part, num_parts |-> loop.num_parts, done |-> loop.done]
      BY <1>5, WithNext, Zenon
    <2>2. loop.part = [total_size |-> loop.part.total_size, chunks |-> loop.part.chunks]
      BY LoopShape, Zenon
    <2>. QED
      BY <1>2, <2>1, <2>2, Zenon
  <1>8. l \in LoopType
    BY <1>2, <1>7, LoopMember
  <1>9. /\ l.next = k /\ l.num_parts = loop.num_parts /\ l.part.chunks = loop.part.chunks
        /\ l.done = FALSE
    BY <1>7
  <1>10. writer \in [Columns -> LoopType] /\ DOMAIN files = Columns
    BY DEF IInv, Types
  <1>11. writer'[c] = l /\ files'[c] = files[c]
    BY <1>3, <1>6, <1>10
  <1>12. HasParts(files[c], l.num_parts)
    BY <1>1, <1>9, ColumnFacts DEF IInv
  <1>13. ChunksOf(l, files[c]) = Column(c)
    BY <1>1, <1>9 DEF ChunksOf, Column
  <1>14. l.next <= CurrentRanges + 1 /\ l.next = writer[c].next + 1
    <2>1. CurrentRanges \in Nat
      BY TableFacts DEF IInv, Phases
    <2>. QED
      BY <1>1, <1>2, <1>3, <1>4, <1>9, <2>1
  <1>15. GoesOn(c, l, files[c])
    BY <1>3, <1>8, <1>9, <1>12, <1>13, <1>14 DEF GoesOn
  <1>. QED
    BY <1>3, <1>6, <1>10, <1>11, <1>15 DEF Proceeds

LEMMA ConvertChunkStep ==
    ASSUME IInv, phase = "writing", NEW c \in Columns, ~writer[c].done, ConvertChunk(c)
    PROVE  Aborts \/ Proceeds(c)
  <1>1. PICK loop \in LoopType : loop = writer[c]
    BY ColumnFacts DEF IInv
  <1>2. /\ loop.next \in Nat \ {0} /\ loop.num_parts \in Nat /\ loop.done = FALSE
        /\ loop.part.total_size \in Nat /\ loop.part.total_size <= Threshold
        /\ loop.part.chunks \in Seq(ChunkType)
        /\ loop.part.chunks = <<>> => loop.part.total_size = 0
    <2>1. loop.part.total_size \in Nat /\ loop.part.total_size <= Threshold
      BY LoopFacts, ConfigAssumption
    <2>. QED
      BY <1>1, <2>1, LoopFacts
  <1>3. writer \in [Columns -> LoopType] /\ DOMAIN files = Columns
    BY DEF IInv, Types
  <1>4. PICK k \in Nat \ {0} : k = loop.next + 1
    BY <1>2
  <1>5. loop.next <= CurrentRanges /\ k <= CurrentRanges + 1 /\ k = writer[c].next + 1
    <2>1. CurrentRanges \in Nat
      BY TableFacts DEF IInv, Phases
    <2>2. loop.next <= CurrentRanges
      BY <1>1 DEF ConvertChunk, CurrentRanges
    <2>. QED
      BY <1>1, <1>2, <1>4, <2>1, <2>2
  <1>6. PICK size \in ChunkSizes :
           \/ /\ size > Threshold
              /\ phase' = "idle" /\ aborted' = TRUE
              /\ UNCHANGED <<writer, files>>
           \/ /\ size <= Threshold /\ CanAdd(loop.part, size)
              /\ writer' = [writer EXCEPT
                              ![c].part = AddCompressedChunk(@, Chunk(table, c, loop.next, size)),
                              ![c].next = @ + 1]
              /\ UNCHANGED <<phase, aborted, files>>
           \/ /\ size <= Threshold /\ ~CanAdd(loop.part, size)
              /\ WritePart(c, [loop EXCEPT
                                 !.part = AddCompressedChunk(EmptyPart, Chunk(table, c, loop.next, size)),
                                 !.next = @ + 1, !.num_parts = @ + 1])
    BY <1>1 DEF ConvertChunk
  <1>7. PICK x : x = Chunk(table, c, loop.next, size)
    OBVIOUS
  <1>8. x \in ChunkType /\ IsChunk(x, c, loop.next) /\ x.size = size /\ size \in Nat \ {0}
    <2>1. Types /\ table > 0 /\ loop.next \in Nat
      BY <1>2 DEF IInv, Phases
    <2>. QED
      BY <1>7, <2>1, ChunkFacts
  <1>9. CASE size > Threshold
    BY <1>6, <1>8, <1>9, ConfigAssumption DEF Aborts
  <1>10. CASE /\ size <= Threshold /\ CanAdd(loop.part, size)
              /\ writer' = [writer EXCEPT ![c].part = AddCompressedChunk(@, x), ![c].next = @ + 1]
              /\ UNCHANGED <<phase, aborted, files>>
    <2>1. PICK t \in Nat : t = loop.part.total_size + size /\ t <= Threshold
      BY <1>2, <1>8, <1>10 DEF CanAdd
    <2>2. PICK s \in Seq(ChunkType) : s = Append(loop.part.chunks, x) /\ s # <<>>
      BY <1>2, <1>8, AppendProperties, ZenonT(30)
    <2>3. PICK l : l = [next |-> k, part |-> [total_size |-> t, chunks |-> s],
                        num_parts |-> loop.num_parts, done |-> FALSE]
      OBVIOUS
    <2>4. writer' = [writer EXCEPT ![c] = l]
      <3>1. AddCompressedChunk(loop.part, x) = [total_size |-> t, chunks |-> s]
        BY <1>8, <2>1, <2>2 DEF AddCompressedChunk
      <3>2. writer' = [writer EXCEPT ![c] = [loop EXCEPT !.part = [total_size |-> t, chunks |-> s],
                                                         !.next = k]]
        BY <1>1, <1>3, <1>4, <1>10, <3>1
      <3>3. [loop EXCEPT !.part = [total_size |-> t, chunks |-> s], !.next = k] = l
        <4>1. PICK p : p = [total_size |-> t, chunks |-> s]
          OBVIOUS
        <4>2. [loop EXCEPT !.part = p, !.next = k] =
                [next |-> k, part |-> p, num_parts |-> loop.num_parts, done |-> loop.done]
          BY WithPartAndNext
        <4>. QED
          BY <1>2, <2>3, <4>1, <4>2
      <3>. QED
        BY <3>2, <3>3
    <2>5. l \in LoopType
      BY <1>2, <2>1, <2>2, <2>3, LoopMember
    <2>6. l.next = k /\ l.num_parts = loop.num_parts /\ l.part.chunks = s /\ l.done = FALSE
      BY <2>3
    <2>7. writer'[c] = l /\ files' = files
      BY <1>3, <1>10, <2>4
    <2>8. HasParts(files[c], loop.num_parts)
      BY <1>1, ColumnFacts DEF IInv
    <2>9. ChunksOf(l, files[c]) = Append(ChunksOf(loop, files[c]), x)
      BY <1>8, <2>2, <2>6, <2>8, ChunkAdded
    <2>10. GoesOn(c, l, files[c])
      BY <1>1, <1>5, <1>8, <2>5, <2>6, <2>8, <2>9 DEF GoesOn, Column
    <2>. QED
      BY <1>3, <1>10, <2>4, <2>7, <2>10 DEF Proceeds
  <1>11. CASE /\ size <= Threshold /\ ~CanAdd(loop.part, size)
              /\ WritePart(c, [loop EXCEPT !.part = AddCompressedChunk(EmptyPart, x),
                                           !.next = @ + 1, !.num_parts = @ + 1])
    <2>1. loop.part.chunks # <<>>
      <3>1. ~(loop.part.total_size + size <= Threshold)
        BY <1>11 DEF CanAdd
      <3>2. loop.part.total_size # 0
        BY <1>8, <1>11, <3>1
      <3>. QED
        BY <1>2, <3>2
    <2>2. PICK n \in Nat : n = loop.num_parts
      BY <1>2
    <2>3. PICK s \in Seq(ChunkType) : s = <<x>> /\ s # <<>> /\ Append(<<>>, x) = s
      <3>1. <<x>> \in Seq(ChunkType) /\ <<x>> # <<>>
        BY <1>8
      <3>2. Append(<<>>, x) = <<x>>
        OBVIOUS
      <3>. QED
        BY <3>1, <3>2, Zenon
    <2>4. PICK l : l = [next |-> k, part |-> [total_size |-> size, chunks |-> s],
                        num_parts |-> n + 1, done |-> FALSE]
      OBVIOUS
    <2>5. WritePart(c, l)
      <3>1. AddCompressedChunk(EmptyPart, x) = [total_size |-> size, chunks |-> s]
        BY <1>8, <2>3 DEF AddCompressedChunk, EmptyPart
      <3>2. [loop EXCEPT !.part = AddCompressedChunk(EmptyPart, x), !.next = @ + 1, !.num_parts = @ + 1]
              = [loop EXCEPT !.part = [total_size |-> size, chunks |-> s], !.next = k,
                             !.num_parts = n + 1]
        BY <1>2, <1>4, <2>2, <3>1
      <3>3. [loop EXCEPT !.part = [total_size |-> size, chunks |-> s], !.next = k,
                         !.num_parts = n + 1] = l
        <4>1. PICK p : p = [total_size |-> size, chunks |-> s]
          OBVIOUS
        <4>2. [loop EXCEPT !.part = p, !.next = k, !.num_parts = n + 1] =
                [next |-> k, part |-> p, num_parts |-> n + 1, done |-> loop.done]
          BY WithNewPart
        <4>. QED
          BY <1>2, <2>4, <4>1, <4>2
      <3>. QED
        BY <1>11, <3>2, <3>3, Zenon
    <2>6. n + 1 \in Nat /\ size \in Nat /\ size <= Threshold
      BY <1>8, <1>11
    <2>7. l \in LoopType
      BY <2>3, <2>4, <2>6, LoopMember
    <2>8. l.next = k /\ l.num_parts = n + 1 /\ l.part.chunks = s /\ l.done = FALSE
      BY <2>4
    <2>9. /\ phase' = phase /\ aborted' = aborted
          /\ writer' = [writer EXCEPT ![c] = l]
          /\ DOMAIN files' = Columns /\ \A e \in Columns \ {c} : files'[e] = files[e]
          /\ HasParts(files'[c], l.num_parts)
          /\ FlattenSeq(PartsOf(files'[c], l.num_parts)) = Column(c)
      <3>1. Types
        BY DEF IInv
      <3>. QED
        BY <1>1, <2>1, <2>2, <2>5, <2>7, <2>8, <3>1, WritePartStep
    <2>10. ChunksOf(l, files'[c]) = Append(Column(c), x)
      <3>1. ChunksOf(l, files'[c]) = Column(c) \o <<x>>
        BY <2>3, <2>8, <2>9 DEF ChunksOf
      <3>2. Column(c) \in Seq(ChunkType)
        BY ColumnFacts DEF IInv
      <3>. QED
        BY <1>8, <3>1, <3>2, AppendIsConcat
    <2>11. GoesOn(c, l, files'[c])
      BY <1>1, <1>5, <1>8, <2>7, <2>8, <2>9, <2>10 DEF GoesOn
    <2>12. writer'[c] = l
      BY <1>3, <2>9
    <2>. QED
      BY <2>9, <2>11, <2>12 DEF Proceeds
  <1>. QED
    BY <1>6, <1>7, <1>9, <1>10, <1>11
LEMMA FinishColumnStep ==
    ASSUME IInv, phase = "writing", NEW c \in Columns, ~writer[c].done, FinishColumn(c)
    PROVE  Proceeds(c)
  <1>1. PICK loop \in LoopType : loop = writer[c]
    BY ColumnFacts DEF IInv
  <1>2. /\ loop.next \in Nat \ {0} /\ loop.num_parts \in Nat
        /\ loop.part.total_size \in Nat /\ loop.part.total_size <= Threshold
        /\ loop.part.chunks \in Seq(ChunkType)
        /\ loop.part.chunks = <<>> => loop.part.total_size = 0
    <2>1. loop.part.total_size \in Nat /\ loop.part.total_size <= Threshold
      BY LoopFacts, ConfigAssumption
    <2>. QED
      BY <1>1, <2>1, LoopFacts
  <1>3. writer \in [Columns -> LoopType] /\ DOMAIN files = Columns /\ table > 0
    BY DEF IInv, Types, Phases
  <1>4. loop.next = CurrentRanges + 1
    <2>1. CurrentRanges \in Nat
      BY <1>3, TableFacts DEF IInv
    <2>2. loop.next > CurrentRanges
      BY <1>1 DEF FinishColumn, CurrentRanges
    <2>3. loop.next <= CurrentRanges + 1
      BY <1>1, <1>3 DEF IInv, Loops
    <2>. QED
      BY <1>2, <2>1, <2>2, <2>3
  <1>5. HasParts(files[c], loop.num_parts)
    BY <1>1, ColumnFacts DEF IInv
  <1>6. CASE loop.part.chunks = <<>>
    <2>1. writer' = [writer EXCEPT ![c].done = TRUE] /\ UNCHANGED <<phase, aborted, files>>
      BY <1>1, <1>6 DEF FinishColumn
    <2>2. PICK l : l = [loop EXCEPT !.done = TRUE]
      OBVIOUS
    <2>3. writer' = [writer EXCEPT ![c] = l] /\ writer'[c] = l
      BY <1>1, <1>3, <2>1, <2>2
    <2>4. l = [next |-> loop.next, part |-> loop.part, num_parts |-> loop.num_parts, done |-> TRUE]
      BY <2>2, WithDone
    <2>5. loop.part = [total_size |-> loop.part.total_size, chunks |-> loop.part.chunks]
      BY LoopShape, Zenon
    <2>6. l \in LoopType
      <3>1. l = [next |-> loop.next,
                 part |-> [total_size |-> loop.part.total_size, chunks |-> loop.part.chunks],
                 num_parts |-> loop.num_parts, done |-> TRUE]
        BY <2>4, <2>5, Zenon
      <3>. QED
        BY <1>2, <3>1, LoopMember
    <2>7. l.next = loop.next /\ l.num_parts = loop.num_parts /\ l.part.chunks = loop.part.chunks
      BY <2>4
    <2>8. ChunksOf(l, files[c]) = Column(c)
      BY <1>1, <2>7 DEF ChunksOf, Column
    <2>9. l.next <= CurrentRanges + 1
      BY <1>2, <1>4, <2>7
    <2>10. GoesOn(c, l, files[c])
      BY <1>1, <1>4, <1>5, <1>6, <2>6, <2>7, <2>8, <2>9 DEF GoesOn
    <2>. QED
      BY <1>3, <2>1, <2>3, <2>10 DEF Proceeds
  <1>7. CASE loop.part.chunks # <<>>
    <2>1. WritePart(c, [loop EXCEPT !.part = EmptyPart, !.num_parts = @ + 1, !.done = TRUE])
      BY <1>1, <1>7 DEF FinishColumn
    <2>2. PICK n \in Nat : n = loop.num_parts
      BY <1>2
    <2>3. PICK l : l = [next |-> loop.next, part |-> [total_size |-> 0, chunks |-> <<>>],
                        num_parts |-> n + 1, done |-> TRUE]
      OBVIOUS
    <2>4. WritePart(c, l)
      <3>1. PICK p : p = [total_size |-> 0, chunks |-> <<>>]
        OBVIOUS
      <3>2. EmptyPart = p
        BY <3>1 DEF EmptyPart
      <3>3. [loop EXCEPT !.part = p, !.num_parts = n + 1, !.done = TRUE] =
              [next |-> loop.next, part |-> p, num_parts |-> n + 1, done |-> TRUE]
        BY WithLastPart
      <3>4. [loop EXCEPT !.part = p, !.num_parts = n + 1, !.done = TRUE] = l
        BY <2>3, <3>1, <3>3
      <3>5. [loop EXCEPT !.part = EmptyPart, !.num_parts = @ + 1, !.done = TRUE] =
              [loop EXCEPT !.part = p, !.num_parts = n + 1, !.done = TRUE]
        BY <2>2, <3>2
      <3>. QED
        BY <2>1, <3>4, <3>5, Zenon
    <2>5. n + 1 \in Nat /\ 0 \in Nat /\ 0 <= Threshold /\ <<>> \in Seq(ChunkType)
      BY ConfigAssumption
    <2>6. l \in LoopType
      BY <1>2, <2>3, <2>5, LoopMember
    <2>7. l.next = loop.next /\ l.num_parts = n + 1 /\ l.part.chunks = <<>> /\ l.done = TRUE
      BY <2>3
    <2>8. /\ phase' = phase /\ aborted' = aborted
          /\ writer' = [writer EXCEPT ![c] = l]
          /\ DOMAIN files' = Columns /\ \A e \in Columns \ {c} : files'[e] = files[e]
          /\ HasParts(files'[c], l.num_parts)
          /\ FlattenSeq(PartsOf(files'[c], l.num_parts)) = Column(c)
      <3>1. Types
        BY DEF IInv
      <3>. QED
        BY <1>1, <1>7, <2>2, <2>4, <2>6, <2>7, <3>1, WritePartStep
    <2>9. ChunksOf(l, files'[c]) = Column(c)
      BY <2>6, <2>7, <2>8, ChunksOfParts
    <2>10. l.next <= CurrentRanges + 1
      BY <1>2, <1>4, <2>7
    <2>11. GoesOn(c, l, files'[c])
      BY <1>1, <1>4, <2>6, <2>7, <2>8, <2>9, <2>10 DEF GoesOn
    <2>12. writer'[c] = l
      BY <1>3, <2>8
    <2>. QED
      BY <2>8, <2>11, <2>12 DEF Proceeds
  <1>. QED
    BY <1>6, <1>7

LEMMA ConvertStep ==
    ASSUME IInv, NEW c \in Columns, Convert(c)
    PROVE  /\ phase = "writing" /\ c \in selection.columns
           /\ UNCHANGED <<table, selection, metadata, reader, csv, reads, undefined>>
           /\ Aborts \/ Proceeds(c)
  <1>1. /\ phase = "writing" /\ c \in selection.columns /\ ~writer[c].done
        /\ UNCHANGED <<table, selection, metadata, reader, csv, reads, undefined>>
    BY DEF Convert, ConvertedColumns
  <1>2. SkipChunk(c) \/ ConvertChunk(c) \/ FinishColumn(c)
    BY DEF Convert
  <1>. QED
    BY <1>1, <1>2, SkipChunkStep, ConvertChunkStep, FinishColumnStep

LEMMA ConvertKeeps ==
    ASSUME IInv, NEW c \in Columns, Convert(c)
    PROVE  IInv'
  <1>1. /\ phase = "writing" /\ c \in selection.columns
        /\ UNCHANGED <<table, selection, metadata, reader, csv, reads, undefined>>
        /\ Aborts \/ Proceeds(c)
    BY ConvertStep
  <1>2. CASE Aborts
    <2>1. phase' = "idle" /\ aborted' = TRUE /\ writer' = writer /\ files' = files
      BY <1>2 DEF Aborts
    <2>2. Types'
      BY <1>1, <2>1 DEF IInv, Types
    <2>3. Phases' /\ Loops'
      BY <1>1, <2>1 DEF IInv, Phases, Loops, CurrentRanges
    <2>4. ~Intact'
      BY <2>1 DEF Intact
    <2>. QED
      BY <2>2, <2>3, <2>4 DEF IInv, Written, Sealed, Reading, Rows
  <1>3. CASE Proceeds(c)
    <2>1. /\ phase' = phase /\ aborted' = aborted
          /\ DOMAIN files' = Columns /\ \A e \in Columns \ {c} : files'[e] = files[e]
          /\ writer' = [writer EXCEPT ![c] = writer'[c]]
          /\ GoesOn(c, writer'[c], files'[c])
      BY <1>3 DEF Proceeds
    <2>2. PICK l, d : l = writer'[c] /\ d = files'[c]
      OBVIOUS
    <2>3. /\ l \in LoopType /\ HasParts(d, l.num_parts)
          /\ l.next <= CurrentRanges + 1
          /\ l.done => l.next = CurrentRanges + 1 /\ l.part.chunks = <<>>
      BY <2>1, <2>2 DEF GoesOn
    <2>4. writer \in [Columns -> LoopType]
      BY DEF IInv, Types
    <2>5. writer' \in [Columns -> LoopType] /\ \A e \in Columns \ {c} : writer'[e] = writer[e]
      BY <2>1, <2>2, <2>3, <2>4
    <2>6. Types'
      <3>1. \A e \in Columns : HasParts(files'[e], writer'[e].num_parts)
        <4>1. \A e \in Columns \ {c} : HasParts(files[e], writer[e].num_parts)
          BY DEF IInv, Types
        <4>. QED
          BY <2>1, <2>2, <2>3, <2>5, <4>1
      <3>. QED
        BY <1>1, <2>1, <2>5, <3>1 DEF IInv, Types
    <2>7. Phases'
      BY <1>1, <2>1 DEF IInv, Phases
    <2>8. table' = table /\ table > 0 /\ CurrentRanges' = CurrentRanges
      BY <1>1 DEF IInv, Phases, CurrentRanges
    <2>9. Loops'
      <3>1. \A e \in Columns \ {c} :
               /\ writer[e].next <= CurrentRanges + 1
               /\ writer[e].done => writer[e].next = CurrentRanges + 1 /\ writer[e].part.chunks = <<>>
        BY <2>8 DEF IInv, Loops
      <3>. QED
        BY <2>2, <2>3, <2>5, <2>8, <3>1 DEF Loops
    <2>10. Written'
      <3>. SUFFICES ASSUME Intact', NEW e \in Columns
                    PROVE  /\ Len(Column(e)') = writer'[e].next - 1
                           /\ \A k \in 1..Len(Column(e)') : IsChunk(Column(e)[k], e, k)'
        BY DEF Written
      <3>1. Intact /\ selection.chunk = None
        BY <1>1, <2>1 DEF Intact, Full
      <3>2. \A f \in Columns : /\ Len(Column(f)) = writer[f].next - 1
                               /\ \A k \in 1..Len(Column(f)) : IsChunk(Column(f)[k], f, k)
        BY <3>1 DEF IInv, Written
      <3>3. \A x, f, k : IsChunk(x, f, k)' = IsChunk(x, f, k)
        BY <1>1 DEF IsChunk
      <3>4. CASE e # c
        <4>1. Column(e)' = Column(e) /\ writer'[e] = writer[e]
          BY <2>1, <2>5, <3>4 DEF Column
        <4>. QED
          BY <1>1, <3>2, <4>1 DEF IsChunk
      <3>5. CASE e = c
        <4>1. Column(c)' = ChunksOf(l, d)
          BY <2>2 DEF Column
        <4>2. PICK k \in Nat \ {0} : k = writer[c].next
          BY ColumnFacts, LoopFacts DEF IInv
        <4>3. Column(c) \in Seq(ChunkType) /\ Len(Column(c)) = k - 1
          BY <3>2, <4>2, ColumnFacts DEF IInv
        <4>4. CASE ChunksOf(l, d) = Column(c) /\ l.next = k
          BY <1>1, <2>2, <3>2, <3>5, <4>1, <4>2, <4>4 DEF IsChunk
        <4>5. CASE \E x \in ChunkType : /\ IsChunk(x, c, k)
                                        /\ ChunksOf(l, d) = Append(Column(c), x)
                                        /\ l.next = k + 1
          <5>1. PICK x \in ChunkType : /\ IsChunk(x, c, k)
                                       /\ ChunksOf(l, d) = Append(Column(c), x)
                                       /\ l.next = k + 1
            BY <4>5
          <5>2. PICK s : s = Append(Column(c), x)
            OBVIOUS
          <5>3. /\ Len(s) = k /\ s[k] = x
                /\ \A i \in 1..(k - 1) : s[i] = Column(c)[i]
            <6>1. (k - 1) + 1 = k
              OBVIOUS
            <6>. QED
              BY <4>3, <5>2, <6>1, AppendProperties
          <5>4. ASSUME NEW i \in 1..k
                PROVE  IsChunk(s[i], c, i)
            <6>1. CASE i = k
              BY <5>1, <5>3, <6>1
            <6>2. CASE i # k
              <7>1. i \in 1..(k - 1)
                BY <6>2
              <7>. QED
                BY <3>2, <4>3, <5>3, <7>1
            <6>. QED
              BY <6>1, <6>2
          <5>5. Len(Column(c)') = writer'[c].next - 1
            BY <2>2, <4>1, <5>1, <5>2, <5>3
          <5>6. \A i \in 1..Len(Column(c)') : IsChunk(Column(c)'[i], c, i)
            BY <4>1, <5>1, <5>2, <5>3, <5>4
          <5>. QED
            BY <1>1, <3>5, <5>5, <5>6 DEF IsChunk
        <4>. QED
          BY <2>1, <2>2, <3>1, <4>2, <4>4, <4>5 DEF GoesOn
      <3>. QED
        BY <3>4, <3>5
    <2>11. Rows'
      <3>1. csv' = <<>> /\ ~undefined' /\ Len(csv') = 0
        BY <1>1, EmptySeq DEF IInv, Phases
      <3>. QED
        BY <3>1 DEF Rows
    <2>12. Sealed' /\ Reading'
      BY <1>1, <2>1 DEF Sealed, Reading
    <2>. QED
      BY <2>6, <2>7, <2>9, <2>10, <2>11, <2>12 DEF IInv
  <1>. QED
    BY <1>1, <1>2, <1>3
LEMMA WriteMetadataStep ==
    ASSUME IInv, WriteMetadata
    PROVE  IInv'
  <1>1. /\ phase = "writing" /\ ConvertedColumns = {}
        /\ metadata' = [num_chunks |-> CurrentRanges, num_parts |-> NumPartsOf]
        /\ phase' = "idle"
        /\ UNCHANGED <<table, selection, aborted, writer, files, reader, csv, reads, undefined>>
    BY DEF WriteMetadata, CurrentRanges
  <1>2. table > 0 /\ CurrentRanges \in Nat /\ csv = <<>> /\ ~undefined
    BY <1>1, TableFacts DEF IInv, Phases
  <1>3. NumPartsOf \in [Columns -> Nat] /\ NumPartsOf' = NumPartsOf
    <2>1. \A c \in Columns : writer[c].num_parts \in Nat
      BY ColumnFacts, LoopFacts DEF IInv
    <2>. QED
      BY <1>1, <2>1 DEF NumPartsOf
  <1>4. Types'
    <2>1. metadata' \in MetaType
      BY <1>1, <1>2, <1>3 DEF MetaType
    <2>. QED
      BY <1>1, <2>1 DEF IInv, Types
  <1>5. Phases' /\ Loops'
    BY <1>1, <1>2 DEF IInv, Phases, Loops, CurrentRanges
  <1>6. Intact' = Intact
    BY <1>1 DEF Intact
  <1>7. Written'
    BY <1>1, <1>6 DEF IInv, Written, Column, IsChunk
  <1>8. Sealed'
    <2>1. Intact => \A c \in Columns : writer[c].done
      BY <1>1 DEF Intact, Full, ConvertedColumns
    <2>2. CurrentRanges' = CurrentRanges
      BY <1>1 DEF CurrentRanges
    <2>. QED
      BY <1>1, <1>3, <1>6, <2>1, <2>2 DEF Sealed
  <1>9. Reading'
    BY <1>1 DEF Reading
  <1>10. Rows'
    <2>1. Len(csv') = 0 /\ csv' = <<>>
      BY <1>1, <1>2, EmptySeq
    <2>. QED
      BY <1>1, <1>2, <2>1 DEF Rows
  <1>. QED
    BY <1>4, <1>5, <1>7, <1>8, <1>9, <1>10 DEF IInv

---------------------------------------------------------------------------
(* Reading *)

\* What a reader of a whole table finds.
LEMMA SealedFacts ==
    ASSUME IInv, Intact, phase # "writing", table > 0, NEW c \in Columns
    PROVE  /\ metadata.num_chunks = CurrentRanges
           /\ metadata.num_parts[c] = writer[c].num_parts
           /\ FlattenSeq(PartsOf(files[c], writer[c].num_parts)) = Column(c)
           /\ Len(Column(c)) = CurrentRanges
           /\ \A k \in 1..CurrentRanges : IsChunk(Column(c)[k], c, k)
           /\ writer[c].num_parts > 0
  <1>1. metadata = [num_chunks |-> CurrentRanges, num_parts |-> NumPartsOf] /\ writer[c].done
    BY DEF IInv, Sealed
  <1>2. metadata.num_chunks = CurrentRanges /\ metadata.num_parts[c] = writer[c].num_parts
    BY <1>1 DEF NumPartsOf
  <1>3. writer[c].next = CurrentRanges + 1 /\ writer[c].part.chunks = <<>>
    BY <1>1 DEF IInv, Loops
  <1>4. CurrentRanges \in Nat \ {0}
    BY TableFacts DEF IInv
  <1>5. /\ Len(Column(c)) = writer[c].next - 1
        /\ \A k \in 1..Len(Column(c)) : IsChunk(Column(c)[k], c, k)
    BY DEF IInv, Written
  <1>6. Len(Column(c)) = CurrentRanges
    BY <1>3, <1>4, <1>5
  <1>7. FlattenSeq(PartsOf(files[c], writer[c].num_parts)) = Column(c)
    BY <1>3, ColumnFacts, ChunksOfParts DEF IInv, Column
  <1>8. writer[c].num_parts > 0
    <2>1. PICK n \in Nat : n = writer[c].num_parts
      BY ColumnFacts, LoopFacts DEF IInv
    <2>2. PICK b : StartsOf(files[c], n, b)
      BY <2>1, ColumnFacts, StartsExist DEF IInv
    <2>3. Len(FlattenSeq(PartsOf(files[c], n))) = b[n] /\ b[0] = 0
      <3>1. HasParts(files[c], n)
        BY <2>1, ColumnFacts DEF IInv
      <3>2. Len(FlattenSeq(PartsOf(files[c], n))) = b[n]
        BY <2>2, <3>1, ChunksPlaced, Zenon
      <3>3. b[0] = 0
        BY <2>2 DEF StartsOf
      <3>. QED
        BY <3>2, <3>3
    <2>4. n # 0
      BY <1>4, <1>6, <1>7, <2>1, <2>3
    <2>. QED
      BY <2>1, <2>4
  <1>. QED
    BY <1>2, <1>4, <1>5, <1>6, <1>7, <1>8

LEMMA StartReadingStep ==
    ASSUME IInv, StartReading
    PROVE  IInv'
  <1>1. /\ phase = "idle" /\ metadata # NoFile /\ reads < MaxReads /\ reads' = reads + 1
        /\ \A c \in Columns : 0..(metadata.num_parts[c] - 1) \subseteq DOMAIN files[c]
        /\ phase' = "reading" /\ csv' = <<>> /\ undefined' = FALSE
        /\ UNCHANGED <<table, selection, aborted, writer, files, metadata>>
    BY DEF StartReading
  <1>2. reader' = [c \in Columns |-> LoadedReader(files[c], metadata.num_parts[c])]
    BY DEF StartReading, LoadedReader
  <1>3. metadata \in MetaType /\ table > 0
    BY <1>1 DEF IInv, Types, Phases
  <1>4. ASSUME NEW c \in Columns
        PROVE  /\ reader'[c] = LoadedReader(files[c], metadata.num_parts[c])
               /\ metadata.num_parts[c] \in Nat
               /\ HasParts(files[c], metadata.num_parts[c])
    <2>1. metadata.num_parts \in [Columns -> Nat]
      BY <1>3 DEF MetaType
    <2>2. IsDir(files[c])
      BY ColumnFacts DEF IInv, HasParts
    <2>. QED
      BY <1>1, <1>2, <2>1, <2>2 DEF HasParts
  <1>5. ASSUME NEW c \in Columns
        PROVE  /\ reader'[c] \in ReaderRec /\ Standing(reader'[c]) /\ Owned(reader'[c])
               /\ metadata.num_parts[c] > 0 =>
                    ReadsAt(reader'[c], files[c], metadata.num_parts[c], 0)
    BY <1>4, Loaded
  <1>6. reader' \in [Columns -> ReaderRec]
    BY <1>2, <1>4, <1>5
  <1>7. Len(csv') = 0 /\ csv' \in Seq(RowType)
    BY <1>1, EmptySeq
  <1>8. Types'
    <2>1. reads' \in 0..MaxReads
      BY <1>1, ConfigAssumption DEF IInv, Types
    <2>. QED
      BY <1>1, <1>5, <1>6, <1>7, <2>1 DEF IInv, Types
  <1>9. Phases' /\ Loops'
    BY <1>1, <1>3 DEF IInv, Phases, Loops, CurrentRanges
  <1>10. Intact' = Intact
    BY <1>1 DEF Intact
  <1>11. Written'
    BY <1>1, <1>10 DEF IInv, Written, Column, IsChunk
  <1>12. Sealed'
    BY <1>1, <1>10 DEF IInv, Sealed, CurrentRanges, NumPartsOf
  <1>13. Reading'
    <2>. SUFFICES ASSUME Intact, NEW c \in Columns
                  PROVE  ReadsAt(reader'[c], files[c], writer[c].num_parts, 0)
      BY <1>1, <1>7, <1>10 DEF Reading
    <2>1. metadata.num_parts[c] = writer[c].num_parts /\ writer[c].num_parts > 0
      BY <1>1, <1>3, SealedFacts
    <2>. QED
      BY <1>5, <2>1
  <1>14. Rows'
    BY <1>1, <1>7 DEF Rows
  <1>. QED
    BY <1>8, <1>9, <1>11, <1>12, <1>13, <1>14 DEF IInv

\* What a column's task does.
LEMMA ReadChunkEffect ==
    ASSUME IInv, NEW c \in Columns, ReadChunk(c)
    PROVE  /\ phase = "reading" /\ Len(csv) < metadata.num_chunks /\ reader[c].got = <<>>
           /\ UNCHANGED <<table, selection, aborted, writer, files, metadata, csv, reads>>
           /\ IF Readable(reader[c])
              THEN /\ reader' = [reader EXCEPT ![c] = Read(reader[c])]
                   /\ phase' = phase /\ undefined' = undefined
              ELSE phase' = "idle" /\ undefined' = TRUE /\ reader' = reader
  BY DEF ReadChunk, Readable, Read

\* A reader of a whole table never fails.
LEMMA ReadChunkIntact ==
    ASSUME IInv, NEW c \in Columns, ReadChunk(c), Intact
    PROVE  /\ Readable(reader[c])
           /\ ReadsAt(Read(reader[c]), files[c], writer[c].num_parts, Len(csv))
           /\ Len(Read(reader[c]).got) = 1
           /\ Len(csv) < Len(Column(c)) /\ Read(reader[c]).got[1] = Column(c)[Len(csv) + 1]
  <1>1. phase = "reading" /\ Len(csv) < metadata.num_chunks /\ reader[c].got = <<>>
    BY ReadChunkEffect
  <1>2. table > 0
    BY <1>1 DEF IInv, Phases
  <1>3. PICK g : g = FlattenSeq(PartsOf(files[c], writer[c].num_parts))
    OBVIOUS
  <1>4. g = Column(c) /\ Len(g) = metadata.num_chunks
    BY <1>1, <1>2, <1>3, SealedFacts
  <1>5. PICK r \in ReaderRec : r = reader[c] /\ Standing(r) /\ Owned(r) /\ r.got = <<>>
    BY <1>1, ColumnFacts DEF IInv
  <1>6. PICK n, dir : n \in Nat /\ n = writer[c].num_parts /\ dir = files[c] /\ HasParts(dir, n)
    BY ColumnFacts, LoopFacts DEF IInv
  <1>7. PICK k \in Nat : k = Len(csv) /\ k < Len(g)
    BY <1>1, <1>4 DEF IInv, Types
  <1>8. ReadsAt(r, dir, n, k)
    BY <1>1, <1>5, <1>6, <1>7 DEF IInv, Reading
  <1>9. /\ Readable(r) /\ ReadsAt(Read(r), dir, n, k)
        /\ Len(Read(r).got) = 1 /\ Read(r).got[1] = g[k + 1]
    BY <1>3, <1>5, <1>6, <1>7, <1>8, ReadOn
  <1>. QED
    BY <1>4, <1>5, <1>6, <1>7, <1>9

LEMMA ReadChunkStep ==
    ASSUME IInv, NEW c \in Columns, ReadChunk(c)
    PROVE  IInv'
  <1>1. /\ phase = "reading" /\ Len(csv) < metadata.num_chunks /\ reader[c].got = <<>>
        /\ UNCHANGED <<table, selection, aborted, writer, files, metadata, csv, reads>>
    BY ReadChunkEffect
  <1>2. /\ Readable(reader[c]) => /\ reader' = [reader EXCEPT ![c] = Read(reader[c])]
                                  /\ phase' = phase /\ undefined' = undefined
        /\ ~Readable(reader[c]) => phase' = "idle" /\ undefined' = TRUE /\ reader' = reader
    BY ReadChunkEffect
  <1>3. Intact' = Intact /\ CurrentRanges' = CurrentRanges /\ NumPartsOf' = NumPartsOf
    BY <1>1 DEF Intact, CurrentRanges, NumPartsOf
  <1>4. Written' /\ Loops'
    BY <1>1, <1>3 DEF IInv, Written, Loops, Column, IsChunk
  <1>5. table > 0 /\ reader \in [Columns -> ReaderRec]
    BY <1>1 DEF IInv, Phases, Types
  <1>6. CASE Readable(reader[c])
    <2>1. HasRead(reader[c], Read(reader[c]))
      BY <1>1, <1>6, ColumnFacts, Reads DEF IInv
    <2>2. Read(reader[c]) \in ReaderRec /\ Standing(Read(reader[c])) /\ Owned(Read(reader[c]))
      BY <2>1 DEF HasRead
    <2>3. /\ reader' \in [Columns -> ReaderRec] /\ reader'[c] = Read(reader[c])
          /\ \A d \in Columns \ {c} : reader'[d] = reader[d]
      BY <1>2, <1>5, <1>6, <2>2
    <2>4. \A d \in Columns : Standing(reader'[d]) /\ Owned(reader'[d])
      <3>1. \A d \in Columns : Standing(reader[d]) /\ Owned(reader[d])
        BY DEF IInv, Types
      <3>. QED
        BY <2>2, <2>3, <3>1
    <2>5. Types'
      BY <1>1, <1>2, <1>6, <2>3, <2>4 DEF IInv, Types
    <2>6. Phases'
      BY <1>1, <1>2, <1>6 DEF IInv, Phases
    <2>7. Sealed'
      BY <1>1, <1>2, <1>3, <1>6 DEF IInv, Sealed
    <2>8. Reading'
      <3>. SUFFICES ASSUME Intact, NEW d \in Columns
                    PROVE  ReadsAt(reader'[d], files[d], writer[d].num_parts, Len(csv))
        BY <1>1, <1>3 DEF Reading
      <3>1. CASE d = c
        BY <2>3, <3>1, ReadChunkIntact
      <3>2. CASE d # c
        BY <1>1, <2>3, <3>2 DEF IInv, Reading
      <3>. QED
        BY <3>1, <3>2
    <2>9. Rows'
      BY <1>1, <1>2, <1>3, <1>6 DEF IInv, Rows, Column
    <2>. QED
      BY <1>4, <2>5, <2>6, <2>7, <2>8, <2>9 DEF IInv
  <1>7. CASE ~Readable(reader[c])
    <2>1. ~Intact
      BY <1>7, ReadChunkIntact
    <2>2. phase' = "idle" /\ undefined' = TRUE /\ reader' = reader
      BY <1>2, <1>7
    <2>3. Types'
      BY <1>1, <2>2 DEF IInv, Types
    <2>4. Phases'
      BY <1>1, <1>5, <2>2 DEF Phases
    <2>. QED
      BY <1>3, <1>4, <2>1, <2>3, <2>4 DEF IInv, Sealed, Reading, Rows
  <1>. QED
    BY <1>6, <1>7
\* What the readers hand out for the next row.
RowOut == [rows  |-> reader[1].got[1].range.count,
           cells |-> [c \in Columns |-> reader[c].got[1]],
           nulls |-> [c \in Columns |-> NullmapOf(reader[c])]]

LEMMA OutputChunkEffect ==
    ASSUME OutputChunk
    PROVE  /\ phase = "reading" /\ \A c \in Columns : reader[c].got # <<>>
           /\ csv' = Append(csv, RowOut)
           /\ reader' = [c \in Columns |-> Shown(reader[c])]
           /\ UNCHANGED <<phase, table, selection, aborted, writer, files, metadata, reads, undefined>>
  BY DEF OutputChunk, RowOut, Shown

LEMMA RowOutType ==
    ASSUME IInv, \A c \in Columns : reader[c].got # <<>>
    PROVE  RowOut \in RowType
  <1>1. ASSUME NEW c \in Columns
        PROVE  reader[c].got[1] \in ChunkType /\ NullmapOf(reader[c]) \in ChunkType
    <2>1. PICK r \in ReaderRec : r = reader[c] /\ Standing(r) /\ r.got # <<>>
      BY <1>1, ColumnFacts DEF IInv
    <2>2. r.part \in Nat /\ Len(r.slots) \in Nat /\ r.got \in Seq(ChunkType)
      BY SlotFacts
    <2>3. r.got[1] \in ChunkType
      BY <2>1, <2>2
    <2>4. r.part + 1 \in 1..Len(r.slots) /\ r.chunk \in 1..r.slots[r.part + 1].file.num_chunks
      BY <2>1, <2>2 DEF Standing
    <2>5. r.slots[r.part + 1].file \in Files
      BY <2>4, SlotFacts
    <2>6. NullmapOf(r) \in ChunkType
      BY <2>4, <2>5, FileFacts DEF NullmapOf
    <2>. QED
      BY <2>1, <2>3, <2>6
  <1>2. \A x \in ChunkType : x.range.count \in Int
    BY DEF ChunkType
  <1>3. reader[1].got[1].range.count \in Int
    BY <1>1, <1>2, OneColumn
  <1>. QED
    BY <1>1, <1>3 DEF RowOut, RowType

\* The next row of a whole table.
LEMMA OutputChunkIntact ==
    ASSUME IInv, OutputChunk, Intact, NEW k \in Nat, k = Len(csv), NEW c \in Columns
    PROVE  /\ ReadsAt(Shown(reader[c]), files[c], writer[c].num_parts, k + 1)
           /\ k + 1 <= metadata.num_chunks /\ metadata.num_chunks = CurrentRanges
           /\ reader[c].got[1] = Column(c)[k + 1] /\ NullmapOf(reader[c]) = reader[c].got[1]
           /\ IsChunk(Column(c)[k + 1], c, k + 1)
  <1>1. phase = "reading" /\ reader[c].got # <<>>
    BY OutputChunkEffect
  <1>2. table > 0
    BY <1>1 DEF IInv, Phases
  <1>3. PICK g : g = FlattenSeq(PartsOf(files[c], writer[c].num_parts))
    OBVIOUS
  <1>4. /\ g = Column(c) /\ Len(g) = CurrentRanges /\ metadata.num_chunks = CurrentRanges
        /\ \A i \in 1..CurrentRanges : IsChunk(Column(c)[i], c, i)
    BY <1>1, <1>2, <1>3, SealedFacts
  <1>5. PICK r \in ReaderRec : r = reader[c] /\ Standing(r) /\ Owned(r) /\ r.got # <<>>
    BY <1>1, ColumnFacts DEF IInv
  <1>6. PICK n, dir : n \in Nat /\ n = writer[c].num_parts /\ dir = files[c] /\ HasParts(dir, n)
    BY ColumnFacts, LoopFacts DEF IInv
  <1>7. ReadsAt(r, dir, n, k)
    BY <1>1, <1>5, <1>6 DEF IInv, Reading
  <1>8. /\ ReadsAt(Shown(r), dir, n, k + 1)
        /\ k + 1 <= Len(g) /\ r.got[1] = g[k + 1] /\ NullmapOf(r) = r.got[1]
    BY <1>3, <1>5, <1>6, <1>7, ShowOn
  <1>9. IsChunk(Column(c)[k + 1], c, k + 1)
    <2>1. CurrentRanges \in Nat
      BY <1>2, TableFacts DEF IInv
    <2>2. k + 1 \in 1..CurrentRanges
      BY <1>4, <1>8, <2>1
    <2>. QED
      BY <1>4, <2>2
  <1>. QED
    BY <1>4, <1>5, <1>6, <1>8, <1>9

LEMMA OutputChunkStep ==
    ASSUME IInv, OutputChunk
    PROVE  IInv'
  <1>1. /\ phase = "reading" /\ \A c \in Columns : reader[c].got # <<>>
        /\ UNCHANGED <<phase, table, selection, aborted, writer, files, metadata, reads, undefined>>
    BY OutputChunkEffect
  <1>2. PICK row \in RowType : row = RowOut /\ csv' = Append(csv, row)
    BY <1>1, OutputChunkEffect, RowOutType
  <1>3. PICK k \in Nat : k = Len(csv)
    BY DEF IInv, Types
  <1>4. csv \in Seq(RowType)
    BY DEF IInv, Types
  <1>5. /\ csv' \in Seq(RowType) /\ Len(csv') = k + 1 /\ csv'[k + 1] = row
        /\ \A i \in 1..k : csv'[i] = csv[i]
    BY <1>2, <1>3, <1>4, AppendProperties
  <1>6. ASSUME NEW c \in Columns
        PROVE  Shown(reader[c]) \in ReaderRec /\ Standing(Shown(reader[c])) /\ Owned(Shown(reader[c]))
    <2>1. HasShown(reader[c], Shown(reader[c]))
      BY <1>1, ColumnFacts, Shows DEF IInv
    <2>. QED
      BY <2>1 DEF HasShown
  <1>7. /\ reader' \in [Columns -> ReaderRec]
        /\ \A c \in Columns : reader'[c] = Shown(reader[c])
    BY <1>6, OutputChunkEffect
  <1>8. Types'
    <2>1. \A c \in Columns : Standing(reader'[c]) /\ Owned(reader'[c])
      BY <1>6, <1>7
    <2>. QED
      BY <1>1, <1>5, <1>7, <2>1 DEF IInv, Types
  <1>9. Phases' /\ Loops'
    BY <1>1 DEF IInv, Phases, Loops, CurrentRanges
  <1>10. Intact' = Intact /\ CurrentRanges' = CurrentRanges /\ NumPartsOf' = NumPartsOf
    BY <1>1 DEF Intact, CurrentRanges, NumPartsOf
  <1>11. Written'
    BY <1>1, <1>10 DEF IInv, Written, Column, IsChunk
  <1>12. Sealed'
    BY <1>1, <1>10 DEF IInv, Sealed
  <1>13. Reading'
    <2>. SUFFICES ASSUME Intact, NEW c \in Columns
                  PROVE  ReadsAt(reader'[c], files[c], writer[c].num_parts, k + 1)
      BY <1>1, <1>5, <1>10 DEF Reading
    <2>1. ReadsAt(Shown(reader[c]), files[c], writer[c].num_parts, k + 1)
      BY <1>3, OutputChunkIntact
    <2>. QED
      BY <1>7, <2>1
  <1>14. Rows'
    <2>. SUFFICES ASSUME Intact
                  PROVE  /\ ~undefined
                         /\ Len(csv') <= metadata.num_chunks
                         /\ \A i \in 1..Len(csv') :
                              /\ csv'[i].rows = RangeAt(Tuples[table], i).count
                              /\ \A c \in Columns : /\ csv'[i].cells[c] = Column(c)[i]
                                                    /\ csv'[i].nulls[c] = csv'[i].cells[c]
      BY <1>1, <1>10 DEF Rows, Column
    <2>1. ~undefined
      BY DEF IInv, Rows
    <2>2. Len(csv') <= metadata.num_chunks
      BY <1>3, <1>5, OneColumn, OutputChunkIntact
    <2>3. ASSUME NEW i \in 1..k
          PROVE  /\ csv'[i].rows = RangeAt(Tuples[table], i).count
                 /\ \A c \in Columns : /\ csv'[i].cells[c] = Column(c)[i]
                                       /\ csv'[i].nulls[c] = csv'[i].cells[c]
      BY <1>3, <1>5 DEF IInv, Rows
    <2>4. \A c \in Columns : row.cells[c] = Column(c)[k + 1] /\ row.nulls[c] = row.cells[c]
      <3>1. \A c \in Columns : /\ row.cells[c] = reader[c].got[1]
                               /\ row.nulls[c] = NullmapOf(reader[c])
        BY <1>2 DEF RowOut
      <3>2. \A c \in Columns : /\ reader[c].got[1] = Column(c)[k + 1]
                               /\ NullmapOf(reader[c]) = reader[c].got[1]
        BY <1>3, OutputChunkIntact
      <3>. QED
        BY <3>1, <3>2
    <2>5. row.rows = RangeAt(Tuples[table], k + 1).count
      <3>1. row.rows = reader[1].got[1].range.count
        BY <1>2 DEF RowOut
      <3>2. /\ reader[1].got[1] = Column(1)[k + 1]
            /\ IsChunk(Column(1)[k + 1], 1, k + 1)
        BY <1>3, OneColumn, OutputChunkIntact
      <3>. QED
        BY <3>1, <3>2 DEF IsChunk
    <2>6. \A i \in 1..(k + 1) : i \in 1..k \/ i = k + 1
      OBVIOUS
    <2>. QED
      BY <1>5, <2>1, <2>2, <2>3, <2>4, <2>5, <2>6
  <1>. QED
    BY <1>8, <1>9, <1>11, <1>12, <1>13, <1>14 DEF IInv

LEMMA EndReadingStep ==
    ASSUME IInv, EndReading
    PROVE  IInv'
  <1>1. /\ phase = "reading" /\ phase' = "idle"
        /\ UNCHANGED <<table, selection, aborted, writer, files, metadata, reader, csv, reads, undefined>>
    BY DEF EndReading
  <1>2. Types'
    BY <1>1 DEF IInv, Types
  <1>3. Phases' /\ Loops'
    BY <1>1 DEF IInv, Phases, Loops, CurrentRanges
  <1>4. Intact' = Intact
    BY <1>1 DEF Intact
  <1>5. Written'
    BY <1>1, <1>4 DEF IInv, Written, Column, IsChunk
  <1>6. Sealed'
    BY <1>1, <1>4 DEF IInv, Sealed, CurrentRanges, NumPartsOf
  <1>7. Reading'
    BY <1>1 DEF Reading
  <1>8. Rows'
    BY <1>1, <1>4 DEF IInv, Rows, Column
  <1>. QED
    BY <1>2, <1>3, <1>5, <1>6, <1>7, <1>8 DEF IInv

LEMMA StutterStep ==
    ASSUME IInv, UNCHANGED vars
    PROVE  IInv'
  <1>1. UNCHANGED <<phase, table, selection, aborted, writer, files, metadata, reader, csv, reads, undefined>>
    BY DEF vars
  <1>2. Intact' = Intact
    BY <1>1 DEF Intact
  <1>3. Types' /\ Phases' /\ Loops'
    BY <1>1 DEF IInv, Types, Phases, Loops, CurrentRanges
  <1>4. Written' /\ Sealed' /\ Reading' /\ Rows'
    BY <1>1, <1>2 DEF IInv, Written, Sealed, Reading, Rows, Column, IsChunk, CurrentRanges, NumPartsOf
  <1>. QED
    BY <1>3, <1>4 DEF IInv

\* Every step of every program keeps the invariant.
THEOREM StepInv == IInv /\ [Next]_vars => IInv'
  <1>. SUFFICES ASSUME IInv, [Next]_vars PROVE IInv'
    OBVIOUS
  <1>1. CASE StartConversion
    BY <1>1, StartConversionStep
  <1>2. CASE WriteMetadata
    BY <1>2, WriteMetadataStep
  <1>3. CASE StartReading
    BY <1>3, StartReadingStep
  <1>4. CASE OutputChunk
    BY <1>4, OutputChunkStep
  <1>5. CASE EndReading
    BY <1>5, EndReadingStep
  <1>6. ASSUME NEW c \in Columns, Convert(c) PROVE IInv'
    BY <1>6, ConvertKeeps
  <1>7. ASSUME NEW c \in Columns, ReadChunk(c) PROVE IInv'
    BY <1>7, ReadChunkStep
  <1>8. CASE UNCHANGED vars
    BY <1>8, StutterStep
  <1>. QED
    BY <1>1, <1>2, <1>3, <1>4, <1>5, <1>6, <1>7, <1>8 DEF Next

\* The invariant holds in every state, for every table, threshold and number of columns.
THEOREM Invariant == Spec => []IInv
  BY InitInv, StepInv, PTL DEF Spec
---------------------------------------------------------------------------
(* The properties *)

\* Every variable has its type and part files are aligned, whatever is converted.
THEOREM TypeCorrect == Spec => []TypeOK
  <1>1. IInv => TypeOK
    <2>. SUFFICES ASSUME IInv PROVE TypeOK
      OBVIOUS
    <2>1. ASSUME NEW c \in Columns
          PROVE  /\ writer[c].part.total_size \in 0..Threshold
                 /\ writer[c].num_parts \in Nat /\ writer[c].next \in Nat
      BY ColumnFacts, LoopFacts DEF IInv
    <2>2. ASSUME NEW c \in Columns
          PROVE  reader[c].part \in 0..Len(reader[c].slots) /\ reader[c].chunk \in Nat
      <3>1. PICK r \in ReaderRec : r = reader[c] /\ Standing(r)
        BY ColumnFacts DEF IInv
      <3>2. r.part \in Nat /\ r.chunk \in Nat /\ Len(r.slots) \in Nat
        BY SlotFacts
      <3>3. r.part <= Len(r.slots)
        BY <3>1 DEF Standing
      <3>. QED
        BY <3>1, <3>2, <3>3
    <2>3. ASSUME NEW c \in Columns, NEW p \in DOMAIN files[c]
          PROVE  /\ DOMAIN files[c][p].offsets = 1..files[c][p].num_chunks
                 /\ \A i \in DOMAIN files[c][p].offsets :
                       files[c][p].offsets[i] > 0 /\ files[c][p].offsets[i] % 16 = 0
      <3>1. files[c][p] \in Files
        BY ColumnFacts DEF IInv, HasParts, IsDir
      <3>. QED
        BY <3>1, FileFacts
    <2>. QED
      BY <2>1, <2>2, <2>3 DEF TypeOK, IInv, Types
  <1>. QED
    BY <1>1, Invariant, PTL

\* No two readers of a column hold the same bitmap, so that deleting the readers deletes
\* every bitmap once: only a reader that has none yet is ever copied.
THEOREM BitmapsOwned == Spec => []BitmapsOwnedOnce
  <1>1. IInv => BitmapsOwnedOnce
    <2>. SUFFICES ASSUME IInv, NEW c \in Columns,
                         NEW s \in 1..Len(reader[c].slots), NEW t \in 1..Len(reader[c].slots),
                         NEW i \in DOMAIN reader[c].slots[s].bitmaps,
                         NEW j \in DOMAIN reader[c].slots[t].bitmaps,
                         reader[c].slots[s].bitmaps[i] # 0,
                         reader[c].slots[s].bitmaps[i] = reader[c].slots[t].bitmaps[j]
                  PROVE  s = t /\ i = j
      BY DEF BitmapsOwnedOnce
    <2>1. PICK r \in ReaderRec : r = reader[c] /\ Owned(r)
      BY ColumnFacts DEF IInv
    <2>2. r.slots[s].bitmaps \in Seq(Nat) /\ r.slots[t].bitmaps \in Seq(Nat)
      BY <2>1, SlotFacts
    <2>3. i \in 1..Len(r.slots[s].bitmaps) /\ j \in 1..Len(r.slots[t].bitmaps)
      BY <2>1, <2>2, LenProperties
    <2>4. \A a \in 1..Len(r.slots[s].bitmaps), b \in 1..Len(r.slots[t].bitmaps) :
             (r.slots[s].bitmaps[a] # 0 /\ r.slots[s].bitmaps[a] = r.slots[t].bitmaps[b])
               => s = t /\ a = b
      BY <2>1, Zenon DEF Owned
    <2>. QED
      BY <2>1, <2>3, <2>4, Zenon
  <1>. QED
    BY <1>1, Invariant, PTL

\* btrtocsv of a directory whose last conversion was of everything and ended never reads
\* past its parts, chunks or bitmaps.
THEOREM ReadsDefined == Spec => []NeverUndefined
  <1>1. IInv => NeverUndefined
    BY DEF IInv, Rows, NeverUndefined
  <1>. QED
    BY <1>1, Invariant, PTL

\* The ranges of a table cover it from its first tuple on, each but the last full.
LEMMA RangesCover ==
    ASSUME NEW t \in Nat \ {0}, NEW n, n = NumRanges(t), NEW B \in Nat \ {0}, B = BlockSize
    PROVE  /\ n \in Nat \ {0}
           /\ \A i \in 0..(n - 1) : i * B < t
           /\ n < MaxChunkCount => n * B >= t
  <1>1. n \in Nat \ {0}
    BY RangeFacts
  <1>2. PICK q \in Int : q = (t + B - 1) \div B
    OBVIOUS
  <1>3. q * B <= t + B - 1 /\ t + B - 1 < (q + 1) * B
    BY <1>2
  <1>4. n <= q /\ (n < MaxChunkCount => n = q)
    <2>1. n = Least(q, MaxChunkCount) /\ MaxChunkCount \in Nat
      BY <1>2, ConfigAssumption DEF NumRanges
    <2>. QED
      BY <2>1 DEF Least
  <1>5. ASSUME NEW i \in 0..(n - 1)
        PROVE  i * B < t
    <2>1. PICK d \in Nat : d = (q - 1) - i
      BY <1>1, <1>4
    <2>2. (q - 1) * B = i * B + d * B /\ d * B >= 0
      BY <2>1
    <2>3. (q - 1) * B = q * B - B
      OBVIOUS
    <2>. QED
      BY <1>3, <2>2, <2>3
  <1>6. q * B >= t
    <2>1. (q + 1) * B = q * B + B
      OBVIOUS
    <2>. QED
      BY <1>3, <2>1
  <1>. QED
    BY <1>1, <1>4, <1>5, <1>6

LEMMA CountsAddUp ==
    ASSUME NEW t \in Nat \ {0}, NEW n \in Nat \ {0}, n = NumRanges(t), n < MaxChunkCount,
           NEW w \in [1..n -> Nat], \A i \in 1..n : w[i] = RangeAt(t, i).count,
           NEW total, RunningSum(w, n, total)
    PROVE  total[n] = t
  <1>1. PICK B \in Nat \ {0} : B = BlockSize
    BY ConfigAssumption
  <1>2. (\A i \in 0..(n - 1) : i * B < t) /\ n * B >= t
    BY <1>1, RangesCover
  <1>. DEFINE S == {i \in 0..n : (i * B < t => total[i] = i * B) /\ (i * B >= t => total[i] = t)}
  <1>3. total \in [0..n -> Nat] /\ total[0] = 0 /\ \A i \in 1..n : total[i] = total[i - 1] + w[i]
    BY DEF RunningSum
  <1>4. 0 \in S
    BY <1>3
  <1>5. ASSUME NEW i \in 0..(n - 1), i \in S
        PROVE  i + 1 \in S
    <2>1. i + 1 \in 1..n /\ (i + 1) - 1 = i /\ i + 1 \in 0..n /\ i * B < t
      BY <1>2
    <2>2. PICK x \in Nat : x = i * B /\ x < t
      BY <1>2
    <2>3. total[i] = x
      BY <1>5, <2>1, <2>2
    <2>4. total[i + 1] = x + w[i + 1]
      BY <1>3, <2>1, <2>3
    <2>5. w[i + 1] = IF x + B >= t THEN t - x ELSE B
      BY <1>1, <2>1, <2>2 DEF RangeAt
    <2>6. (i + 1) * B = x + B
      BY <2>2
    <2>7. CASE x + B >= t
      BY <2>1, <2>2, <2>4, <2>5, <2>6, <2>7
    <2>8. CASE ~(x + B >= t)
      BY <2>1, <2>2, <2>4, <2>5, <2>6, <2>8
    <2>. QED
      BY <2>7, <2>8
  <1>6. 0..n \subseteq S
    <2>. HIDE DEF S
    <2>. QED
      BY <1>4, <1>5, IntervalInduction
  <1>. QED
    BY <1>2, <1>6

\* The fold over the rows is their sum in order.
SumOfRows(s) == FoldSeq(LAMBDA x, m : x.rows + m, 0, s)
LEMMA FoldOfRows ==
    ASSUME NEW n \in Nat, NEW s \in Seq(RowType), Len(s) = n,
           NEW w \in [1..n -> Nat], \A i \in 1..n : w[i] = s[i].rows,
           NEW total, RunningSum(w, n, total)
    PROVE  SumOfRows(s) = total[n]
  <1>1. PICK sum : sum = [z \in SUBSET (1..n) |->
                             IF z = {} THEN 0
                             ELSE w[CHOOSE x \in z : TRUE] + sum[z \ {CHOOSE x \in z : TRUE}]]
    BY FoldExists, Zenon
  <1>2. \A z \in SUBSET (1..n) : z # {} => w[CHOOSE x \in z : TRUE] = s[CHOOSE x \in z : TRUE].rows
    <2>1. \A z \in SUBSET (1..n) : z # {} => (CHOOSE x \in z : TRUE) \in z
      OBVIOUS
    <2>. QED
      BY <2>1
  <1>3. sum = [z \in SUBSET (1..n) |->
                  IF z = {} THEN 0
                  ELSE s[CHOOSE x \in z : TRUE].rows + sum[z \ {CHOOSE x \in z : TRUE}]]
    <2>1. PICK h : h = [z \in SUBSET (1..n) |->
                  IF z = {} THEN 0
                  ELSE s[CHOOSE x \in z : TRUE].rows + sum[z \ {CHOOSE x \in z : TRUE}]]
      OBVIOUS
    <2>2. ASSUME NEW z \in SUBSET (1..n)
          PROVE  sum[z] = h[z]
      <3>1. CASE z = {}
        <4>1. sum[z] = 0 /\ h[z] = 0
          BY <1>1, <2>1, <3>1, Zenon
        <4>. QED
          BY <4>1
      <3>2. CASE z # {}
        <4>1. w[CHOOSE x \in z : TRUE] = s[CHOOSE x \in z : TRUE].rows
          BY <1>2, <3>2, Zenon
        <4>2. sum[z] = w[CHOOSE x \in z : TRUE] + sum[z \ {CHOOSE x \in z : TRUE}]
          BY <1>1, <3>2, Zenon
        <4>3. h[z] = s[CHOOSE x \in z : TRUE].rows + sum[z \ {CHOOSE x \in z : TRUE}]
          BY <2>1, <3>2, Zenon
        <4>. QED
          BY <4>1, <4>2, <4>3, Zenon
      <3>. QED
        BY <3>1, <3>2
    <2>3. sum = h
      BY <1>1, <2>1, <2>2, Zenon
    <2>. QED
      BY <2>1, <2>3, Zenon
  <1>4. DOMAIN s = 1..n
    BY LenProperties
  <1>. DEFINE Fold(iter) == iter = [z \in SUBSET DOMAIN s |->
                  IF z = {} THEN 0
                  ELSE s[CHOOSE x \in z : TRUE].rows + iter[z \ {CHOOSE x \in z : TRUE}]]
              f == CHOOSE iter : Fold(iter)
  <1>5. SumOfRows(s) = f[DOMAIN s]
    BY DEF SumOfRows, FoldSeq, FoldFunction, FoldFunctionOnSet, MapThenFoldSet
  <1>6. Fold(f)
    <2>1. Fold(sum)
      BY <1>3, <1>4, Zenon
    <2>. HIDE DEF Fold
    <2>. QED
      BY <2>1, Zenon
  <1>. HIDE DEF f
  <1>7. SumsTo(w, n, f)
    <2>1. ASSUME NEW z \in SUBSET (1..n)
          PROVE  f[z] = IF z = {} THEN 0
                        ELSE w[CHOOSE x \in z : TRUE] + f[z \ {CHOOSE x \in z : TRUE}]
      <3>1. f[z] = IF z = {} THEN 0
                   ELSE s[CHOOSE x \in z : TRUE].rows + f[z \ {CHOOSE x \in z : TRUE}]
        <4>1. z \in SUBSET DOMAIN s
          BY <1>4, Zenon
        <4>. QED
          BY <1>6, <4>1, Zenon
      <3>2. CASE z = {}
        BY <3>1, <3>2, Zenon
      <3>3. CASE z # {}
        <4>1. w[CHOOSE x \in z : TRUE] = s[CHOOSE x \in z : TRUE].rows
          BY <1>2, <3>3, Zenon
        <4>2. f[z] = s[CHOOSE x \in z : TRUE].rows + f[z \ {CHOOSE x \in z : TRUE}]
          BY <3>1, <3>3, Zenon
        <4>. QED
          BY <3>3, <4>1, <4>2, Zenon
      <3>. QED
        BY <3>2, <3>3
    <2>. QED
      BY <2>1, Zenon DEF SumsTo
  <1>8. f[1..n] = total[n]
    BY <1>7, FoldIsSum
  <1>. QED
    BY <1>4, <1>5, <1>8, Zenon
LEMMA RangeCount ==
    ASSUME NEW t \in Nat \ {0}, NEW n, n = NumRanges(t), NEW i \in 1..n
    PROVE  RangeAt(t, i).count \in Nat \ {0}
  <1>1. PICK B \in Nat \ {0} : B = BlockSize
    BY ConfigAssumption
  <1>2. n \in Nat \ {0} /\ i - 1 \in 0..(n - 1)
    BY <1>1, RangesCover
  <1>3. PICK o \in Nat : o = (i - 1) * B
    BY <1>2
  <1>4. o < t
    BY <1>1, <1>2, <1>3, RangesCover
  <1>5. RangeAt(t, i).count = IF o + B >= t THEN t - o ELSE B
    BY <1>1, <1>3 DEF RangeAt
  <1>. QED
    BY <1>4, <1>5
\* What stands behind the rows of a whole table: its columns, written to the end.
LEMMA CsvFacts ==
    ASSUME IInv, Intact, csv # <<>>
    PROVE  /\ phase # "writing" /\ table > 0
           /\ CurrentRanges \in Nat \ {0} /\ metadata.num_chunks = CurrentRanges
           /\ Len(csv) \in Nat \ {0} /\ Len(csv) <= CurrentRanges
           /\ \A c \in Columns : /\ Len(Column(c)) = CurrentRanges
                                 /\ \A k \in 1..Len(csv) : IsChunk(Column(c)[k], c, k)
  <1>1. csv \in Seq(RowType) /\ (metadata = NoFile \/ metadata \in MetaType)
    BY DEF IInv, Types
  <1>2. Len(csv) \in Nat \ {0}
    BY <1>1, EmptySeq
  <1>3. Len(csv) <= metadata.num_chunks
    BY DEF IInv, Rows
  <1>4. metadata # NoFile
    <2>1. metadata = NoFile => metadata.num_chunks = -1
      BY DEF NoFile, None
    <2>. QED
      BY <1>2, <1>3, <2>1
  <1>5. phase # "writing" /\ table > 0
    BY <1>4 DEF IInv, Phases
  <1>6. CurrentRanges \in Nat \ {0}
    BY <1>5, TableFacts DEF IInv
  <1>7. /\ metadata.num_chunks = CurrentRanges
        /\ \A c \in Columns : /\ Len(Column(c)) = CurrentRanges
                              /\ \A k \in 1..CurrentRanges : IsChunk(Column(c)[k], c, k)
    BY <1>5, OneColumn, SealedFacts
  <1>8. \A k \in 1..Len(csv) : k \in 1..CurrentRanges
    BY <1>2, <1>3, <1>6, <1>7
  <1>. QED
    BY <1>2, <1>3, <1>5, <1>6, <1>7, <1>8

\* The rows written are those of the table converted last, in order, each cell from its
\* own column and range with its own null map, and together as many as the table has,
\* whatever the sizes of the chunks and wherever the parts end.
THEOREM Csv == Spec => []CsvIsTable
  <1>1. IInv => CsvIsTable
    <2>. SUFFICES ASSUME IInv, Intact
                  PROVE  /\ \A k \in 1..Len(csv), c \in Columns :
                              /\ csv[k].cells[c].table = table /\ csv[k].cells[c].column = c
                              /\ csv[k].cells[c].range = RangeAt(Tuples[table], k)
                              /\ csv[k].nulls[c] = csv[k].cells[c]
                              /\ csv[k].rows = csv[k].cells[c].range.count
                         /\ (csv # <<>> /\ Len(csv) = metadata.num_chunks /\ Len(csv) < MaxChunkCount) =>
                              FoldSeq(LAMBDA x, n : x.rows + n, 0, csv) = Tuples[table]
      BY DEF CsvIsTable
    <2>1. csv \in Seq(RowType) /\ \A k \in 1..Len(csv) :
             /\ csv[k].rows = RangeAt(Tuples[table], k).count
             /\ \A c \in Columns : csv[k].cells[c] = Column(c)[k] /\ csv[k].nulls[c] = csv[k].cells[c]
      BY DEF IInv, Types, Rows
    <2>2. ASSUME NEW k \in 1..Len(csv), NEW c \in Columns
          PROVE  /\ csv[k].cells[c].table = table /\ csv[k].cells[c].column = c
                 /\ csv[k].cells[c].range = RangeAt(Tuples[table], k)
                 /\ csv[k].nulls[c] = csv[k].cells[c]
                 /\ csv[k].rows = csv[k].cells[c].range.count
      <3>1. csv # <<>>
        BY <2>1, EmptySeq
      <3>2. IsChunk(Column(c)[k], c, k)
        BY <3>1, CsvFacts
      <3>. QED
        BY <2>1, <3>2 DEF IsChunk
    <2>3. ASSUME csv # <<>>, Len(csv) = metadata.num_chunks, Len(csv) < MaxChunkCount
          PROVE  FoldSeq(LAMBDA x, n : x.rows + n, 0, csv) = Tuples[table]
      <3>1. PICK n \in Nat \ {0} : n = Len(csv) /\ n = CurrentRanges
        BY <2>3, CsvFacts
      <3>2. PICK t \in Nat \ {0} : t = Tuples[table] /\ n = NumRanges(t)
        BY <2>3, <3>1, CsvFacts, TableFacts DEF IInv, CurrentTuples, CurrentRanges
      <3>3. \A i \in 1..n : RangeAt(t, i).count \in Nat
        BY <3>2, RangeCount
      <3>4. PICK w \in [1..n -> Nat] :
               \A i \in 1..n : w[i] = csv[i].rows /\ w[i] = RangeAt(t, i).count
        <4>1. PICK w : w = [i \in 1..n |-> RangeAt(t, i).count]
          OBVIOUS
        <4>2. w \in [1..n -> Nat] /\ \A i \in 1..n : w[i] = RangeAt(t, i).count
          BY <3>3, <4>1
        <4>3. \A i \in 1..n : csv[i].rows = RangeAt(t, i).count
          BY <2>1, <3>1, <3>2
        <4>. QED
          BY <4>2, <4>3, Zenon
      <3>5. PICK total : RunningSum(w, n, total)
        BY <3>4, RunningSumExists
      <3>6. total[n] = t
        BY <2>3, <3>1, <3>2, <3>4, <3>5, CountsAddUp
      <3>7. PICK s \in Seq(RowType) : s = csv
        BY <2>1
      <3>8. SumOfRows(s) = total[n]
        <4>1. n \in Nat /\ Len(s) = n /\ \A i \in 1..n : w[i] = s[i].rows
          BY <3>1, <3>4, <3>7
        <4>. QED
          BY <3>5, <4>1, FoldOfRows, ZenonT(30)
      <3>9. SumOfRows(csv) = Tuples[table]
        BY <3>2, <3>6, <3>7, <3>8
      <3>. QED
        BY <3>9 DEF SumOfRows
    <2>. QED
      BY <2>2, <2>3
  <1>. QED
    BY <1>1, Invariant, PTL
---------------------------------------------------------------------------
(* The directory implements the streams *)

\* What the variables of ColumnStream stand for.
Streams == [c \in Columns |-> Column(c)]
Ended == phase # "writing" /\ table > 0
RowsOf(rows, c) == [k \in 1..Len(rows) |-> rows[k].cells[c]]
Got(c) == IF phase = "reading" THEN reader[c].got ELSE <<>>
Takes == [c \in Columns |-> RowsOf(csv, c) \o Got(c)]
Empties == [c \in Columns |-> <<>>]

\* A step of ColumnStream in these words.
Restarts == Streams' = Empties /\ ~Ended' /\ Takes' = Empties
Adds(c) == /\ ~Ended /\ Ended' = Ended /\ Takes' = Takes
           /\ Len(Streams'[c]) = Len(Streams[c]) + 1
           /\ Streams' = [Streams EXCEPT ![c] = Append(@, Streams'[c][Len(Streams[c]) + 1])]
Seals == /\ ~Ended /\ Ended' /\ Streams' = Streams /\ Takes' = Takes
         /\ \A c, d \in Columns : Len(Streams[c]) = Len(Streams[d])
TakesNext(c) == /\ Ended /\ Ended' = Ended /\ Streams' = Streams
                /\ Len(Takes[c]) < Len(Streams[c])
                /\ \A d \in Columns : Len(Takes[c]) <= Len(Takes[d])
                /\ Takes' = [Takes EXCEPT ![c] = Append(@, Streams[c][Len(@) + 1])]
Rewinds == Ended /\ Ended' = Ended /\ Streams' = Streams /\ Takes' = Empties
Stays == Streams' = Streams /\ Ended' = Ended /\ Takes' = Takes /\ Intact' = Intact

LEMMA StreamExpression ==
    Streams = [c \in Columns |->
                 FlattenSeq([p \in 1..writer[c].num_parts |-> ChunksIn(files[c][p - 1])])
                   \o writer[c].part.chunks]
  BY DEF Streams, Column, ChunksOf, PartsOf

LEMMA StreamStep ==
    ASSUME \/ ~Intact'
           \/ Restarts /\ Intact'
           \/ Intact /\ Intact' /\ ((\E c \in Columns : Adds(c) \/ TakesNext(c)) \/ Seals \/ Rewinds)
           \/ Stays
    PROVE  [Stream!Next]_(Stream!vars)
  <1>. USE DEF Streams, Ended, Takes, Empties, RowsOf, Got, Column, ChunksOf, PartsOf
  <1>1. CASE ~Intact'
    BY <1>1 DEF Stream!Next
  <1>2. CASE Restarts /\ Intact'
    BY <1>2 DEF Restarts, Stream!Next, Stream!Restart, Stream!Nothing
  <1>3. ASSUME Intact, Intact', NEW c \in Columns, Adds(c)
        PROVE  Stream!Next
    <2>1. Stream!Add(c)
      BY <1>3 DEF Adds, Stream!Add
    <2>. QED
      BY <1>3, <2>1 DEF Stream!Next
  <1>4. ASSUME Intact, Intact', NEW c \in Columns, TakesNext(c)
        PROVE  Stream!Next
    <2>1. Stream!Take(c)
      BY <1>4 DEF TakesNext, Stream!Take
    <2>. QED
      BY <1>4, <2>1 DEF Stream!Next
  <1>5. CASE Intact /\ Intact' /\ Seals
    <2>1. Stream!Seal
      BY <1>5 DEF Seals, Stream!Seal
    <2>. QED
      BY <1>5, <2>1 DEF Stream!Next
  <1>6. CASE Intact /\ Intact' /\ Rewinds
    <2>1. Stream!Rewind
      BY <1>6 DEF Rewinds, Stream!Rewind, Stream!Nothing
    <2>. QED
      BY <1>6, <2>1 DEF Stream!Next
  <1>7. CASE Stays
    BY <1>7 DEF Stays, Stream!vars
  <1>. QED
    BY <1>1, <1>2, <1>3, <1>4, <1>5, <1>6, <1>7
LEMMA RowsOfFacts ==
    ASSUME NEW rows \in Seq(RowType), NEW c \in Columns
    PROVE  /\ RowsOf(rows, c) \in Seq(ChunkType) /\ Len(RowsOf(rows, c)) = Len(rows)
           /\ \A k \in 1..Len(rows) : RowsOf(rows, c)[k] = rows[k].cells[c]
  <1>1. PICK n \in Nat : n = Len(rows)
    OBVIOUS
  <1>2. \A k \in 1..n : rows[k].cells[c] \in ChunkType
    <2>1. \A k \in 1..n : rows[k] \in RowType
      BY <1>1
    <2>2. \A row \in RowType : row.cells[c] \in ChunkType
      BY DEF RowType
    <2>. QED
      BY <2>1, <2>2
  <1>3. PICK s : s = [k \in 1..n |-> rows[k].cells[c]]
    OBVIOUS
  <1>4. s \in Seq(ChunkType) /\ Len(s) = n /\ \A k \in 1..n : s[k] = rows[k].cells[c]
    BY <1>2, <1>3
  <1>. QED
    BY <1>1, <1>3, <1>4 DEF RowsOf

LEMMA RowsOfNothing ==
    ASSUME NEW c
    PROVE  RowsOf(<<>>, c) \o <<>> = <<>>
  <1>1. RowsOf(<<>>, c) = <<>>
    BY EmptySeq DEF RowsOf
  <1>2. <<>> \o <<>> = <<>>
    BY ConcatEmptySeq, EmptySeq
  <1>. QED
    BY <1>1, <1>2

LEMMA InitMaps ==
    ASSUME Init
    PROVE  Stream!Init
  <1>1. /\ phase = "idle" /\ table = 0 /\ selection = [columns |-> Columns, chunk |-> None]
        /\ aborted = FALSE /\ csv = <<>>
    BY DEF Init
  <1>2. \A c \in Columns : writer[c] = FreshLoop /\ files[c] = <<>>
    BY DEF Init
  <1>3. IsDir(<<>>)
    BY DEF IsDir
  <1>4. \A c \in Columns : Column(c) = <<>>
    BY <1>2, <1>3, FreshFacts DEF Column
  <1>5. Streams = Empties
    BY <1>4 DEF Streams, Empties
  <1>6. Takes = Empties
    <2>1. \A c \in Columns : Got(c) = <<>> /\ RowsOf(csv, c) = RowsOf(<<>>, c)
      BY <1>1 DEF Got
    <2>. QED
      BY <2>1, RowsOfNothing DEF Takes, Empties
  <1>7. ~Ended /\ Intact
    BY <1>1 DEF Ended, Intact, Full
  <1>. QED
    BY <1>5, <1>6, <1>7 DEF Stream!Init, Stream!Nothing, Streams, Ended, Takes, Empties, RowsOf, Got,
                            Column, ChunksOf, PartsOf

LEMMA StartConversionMaps ==
    ASSUME IInv, StartConversion
    PROVE  Restarts
  <1>1. phase' = "writing" /\ csv' = <<>> /\ files' = files
    BY DEF StartConversion
  <1>2. \A c \in Columns : writer'[c] = FreshLoop
    BY DEF StartConversion
  <1>3. \A c \in Columns : IsDir(files[c])
    BY DEF IInv, Types, HasParts
  <1>4. \A c \in Columns : Column(c)' = <<>>
    BY <1>1, <1>2, <1>3, FreshFacts DEF Column
  <1>5. Streams' = Empties
    BY <1>4 DEF Streams, Empties
  <1>6. Takes' = Empties
    <2>1. \A c \in Columns : Got(c)' = <<>> /\ RowsOf(csv', c) = RowsOf(<<>>, c)
      BY <1>1 DEF Got
    <2>. QED
      BY <1>1, <2>1, RowsOfNothing DEF Takes, Empties
  <1>. QED
    BY <1>1, <1>5, <1>6 DEF Restarts, Ended

LEMMA ConvertMaps ==
    ASSUME IInv, NEW c \in Columns, Convert(c)
    PROVE  ~Intact' \/ (Intact /\ Intact' /\ (Adds(c) \/ Stays))
  <1>1. /\ phase = "writing"
        /\ UNCHANGED <<table, selection, metadata, reader, csv, reads, undefined>>
        /\ Aborts \/ Proceeds(c)
    BY ConvertStep
  <1>2. CASE Aborts
    BY <1>2 DEF Aborts, Intact
  <1>3. CASE Proceeds(c)
    <2>1. /\ phase' = phase /\ aborted' = aborted
          /\ \A e \in Columns \ {c} : files'[e] = files[e]
          /\ writer' = [writer EXCEPT ![c] = writer'[c]]
          /\ GoesOn(c, writer'[c], files'[c])
      BY <1>3 DEF Proceeds
    <2>2. Intact' = Intact
      BY <1>1, <2>1 DEF Intact
    <2>3. ~Ended /\ Ended' = Ended
      BY <1>1, <2>1 DEF Ended
    <2>4. Takes' = Takes
      BY <1>1, <2>1 DEF Takes, Got, RowsOf
    <2>5. \A e \in Columns \ {c} : writer'[e] = writer[e]
      BY <2>1 DEF IInv, Types
    <2>6. \A e \in Columns \ {c} : Column(e)' = Column(e)
      BY <2>1, <2>5 DEF Column
    <2>7. ChunksOf(writer'[c], files'[c]) = Column(c)'
      BY DEF Column
    <2>8. CASE Column(c)' = Column(c)
      <3>1. Streams' = Streams
        BY <2>6, <2>8 DEF Streams
      <3>. QED
        BY <2>2, <2>3, <2>4, <3>1 DEF Stays
    <2>9. CASE \E x \in ChunkType : Column(c)' = Append(Column(c), x)
      <3>1. PICK x \in ChunkType : Column(c)' = Append(Column(c), x)
        BY <2>9
      <3>2. PICK s \in Seq(ChunkType) : s = Column(c)
        BY ColumnFacts DEF IInv
      <3>3. PICK k \in Nat : k = Len(s)
        OBVIOUS
      <3>4. Len(Append(s, x)) = k + 1 /\ Append(s, x)[k + 1] = x
        BY <3>3, AppendProperties
      <3>5. Streams[c] = s /\ Streams'[c] = Append(s, x)
        BY <3>1, <3>2 DEF Streams
      <3>6. Streams' = [Streams EXCEPT ![c] = Append(s, x)]
        BY <2>6, <3>5 DEF Streams
      <3>7. Adds(c)
        <4>1. Len(Streams'[c]) = Len(Streams[c]) + 1 /\ Streams'[c][Len(Streams[c]) + 1] = x
          BY <3>3, <3>4, <3>5
        <4>2. Streams' = [Streams EXCEPT ![c] = Append(@, Streams'[c][Len(Streams[c]) + 1])]
          BY <3>5, <3>6, <4>1
        <4>. QED
          BY <2>3, <2>4, <4>1, <4>2 DEF Adds
      <3>. QED
        BY <2>2, <3>7
    <2>. QED
      BY <2>1, <2>7, <2>8, <2>9 DEF GoesOn
  <1>. QED
    BY <1>1, <1>2, <1>3
LEMMA WriteMetadataMaps ==
    ASSUME IInv, WriteMetadata
    PROVE  ~Intact' \/ (Intact /\ Intact' /\ Seals)
  <1>1. /\ phase = "writing" /\ phase' = "idle" /\ ConvertedColumns = {} /\ table > 0
        /\ UNCHANGED <<table, selection, aborted, writer, files, reader, csv>>
    BY DEF WriteMetadata, IInv, Phases
  <1>2. Intact' = Intact
    BY <1>1 DEF Intact
  <1>3. ASSUME Intact
        PROVE  Seals
    <2>1. ~Ended /\ Ended'
      BY <1>1 DEF Ended
    <2>2. Streams' = Streams /\ Takes' = Takes
      BY <1>1 DEF Streams, Column, Takes, RowsOf, Got
    <2>3. ASSUME NEW c \in Columns
          PROVE  Len(Streams[c]) = CurrentRanges
      <3>1. writer[c].done
        BY <1>1, <1>3 DEF Intact, Full, ConvertedColumns
      <3>2. writer[c].next = CurrentRanges + 1
        BY <1>1, <3>1 DEF IInv, Loops
      <3>3. Len(Column(c)) = writer[c].next - 1
        BY <1>3 DEF IInv, Written
      <3>4. CurrentRanges \in Nat
        BY <1>1, TableFacts DEF IInv
      <3>. QED
        BY <3>2, <3>3, <3>4 DEF Streams
    <2>. QED
      BY <2>1, <2>2, <2>3 DEF Seals
  <1>. QED
    BY <1>2, <1>3

LEMMA StartReadingMaps ==
    ASSUME IInv, StartReading
    PROVE  Rewinds /\ Intact' = Intact
  <1>1. /\ phase = "idle" /\ phase' = "reading" /\ metadata # NoFile /\ csv' = <<>>
        /\ UNCHANGED <<table, selection, aborted, writer, files>>
    BY DEF StartReading
  <1>2. \A c \in Columns : reader'[c] = LoadedReader(files[c], metadata.num_parts[c])
    BY DEF StartReading, LoadedReader
  <1>3. table > 0
    BY <1>1 DEF IInv, Phases
  <1>4. Ended /\ Ended' /\ Intact' = Intact /\ Streams' = Streams
    BY <1>1, <1>3 DEF Ended, Intact, Streams, Column
  <1>5. Takes' = Empties
    <2>1. \A c \in Columns : Got(c)' = <<>>
      BY <1>1, <1>2 DEF Got, LoadedReader, NoReader
    <2>2. \A c \in Columns : RowsOf(csv', c) = RowsOf(<<>>, c)
      BY <1>1
    <2>. QED
      BY <2>1, <2>2, RowsOfNothing DEF Takes, Empties
  <1>. QED
    BY <1>4, <1>5 DEF Rewinds

LEMMA ReadChunkMaps ==
    ASSUME IInv, NEW c \in Columns, ReadChunk(c)
    PROVE  ~Intact' \/ (Intact /\ Intact' /\ TakesNext(c))
  <1>1. /\ phase = "reading" /\ reader[c].got = <<>>
        /\ UNCHANGED <<table, selection, aborted, writer, files, metadata, csv, reads>>
        /\ Readable(reader[c]) => reader' = [reader EXCEPT ![c] = Read(reader[c])] /\ phase' = phase
    BY ReadChunkEffect
  <1>2. Intact' = Intact
    BY <1>1 DEF Intact
  <1>3. ASSUME Intact
        PROVE  TakesNext(c)
    <2>1. /\ Readable(reader[c]) /\ Len(Read(reader[c]).got) = 1
          /\ Len(csv) < Len(Column(c)) /\ Read(reader[c]).got[1] = Column(c)[Len(csv) + 1]
      BY <1>3, ReadChunkIntact
    <2>2. /\ phase' = phase /\ reader \in [Columns -> ReaderRec]
          /\ reader' = [reader EXCEPT ![c] = Read(reader[c])]
          /\ csv \in Seq(RowType) /\ table > 0
      BY <1>1, <2>1 DEF IInv, Types, Phases
    <2>3. PICK x \in ChunkType : Read(reader[c]).got = <<x>> /\ x = Column(c)[Len(csv) + 1]
      <3>1. HasRead(reader[c], Read(reader[c]))
        BY <1>1, <2>1, ColumnFacts, Reads DEF IInv
      <3>2. Read(reader[c]).got \in Seq(ChunkType)
        BY <3>1 DEF HasRead, ReaderRec
      <3>3. PICK g \in Seq(ChunkType) : g = Read(reader[c]).got /\ Len(g) = 1
        BY <2>1, <3>2
      <3>4. g = <<g[1]>> /\ g[1] \in ChunkType
        BY <3>3
      <3>. QED
        BY <2>1, <3>3, <3>4
    <2>4. Ended /\ Ended' /\ Streams' = Streams
      BY <1>1, <2>2 DEF Ended, Streams, Column
    <2>5. PICK s \in Seq(ChunkType) : s = RowsOf(csv, c) /\ Len(s) = Len(csv)
      BY <2>2, RowsOfFacts
    <2>6. Takes[c] = s
      BY <1>1, <2>5, ConcatEmptySeq DEF Takes, Got
    <2>7. Takes'[c] = Append(s, x)
      <3>1. RowsOf(csv, c)' = s
        BY <1>1, <2>5 DEF RowsOf
      <3>2. Got(c)' = <<x>>
        BY <1>1, <2>2, <2>3 DEF Got
      <3>3. Takes'[c] = s \o <<x>>
        BY <3>1, <3>2 DEF Takes
      <3>. QED
        BY <3>3, AppendIsConcat
    <2>8. \A d \in Columns \ {c} : Takes'[d] = Takes[d]
      BY <1>1, <2>2 DEF Takes, Got, RowsOf
    <2>9. ASSUME NEW d \in Columns
          PROVE  Len(Takes[c]) <= Len(Takes[d])
      <3>1. PICK t \in Seq(ChunkType) : t = RowsOf(csv, d) /\ Len(t) = Len(csv)
        BY <2>2, RowsOfFacts
      <3>2. PICK u \in Seq(ChunkType) : u = reader[d].got
        BY ColumnFacts, SlotFacts DEF IInv
      <3>3. Takes[d] = t \o u
        BY <1>1, <3>1, <3>2 DEF Takes, Got
      <3>4. Len(t \o u) = Len(t) + Len(u) /\ Len(u) \in Nat
        BY ConcatProperties
      <3>. QED
        BY <2>2, <2>5, <2>6, <3>1, <3>3, <3>4
    <2>10. Takes' = [Takes EXCEPT ![c] = Append(@, Streams[c][Len(@) + 1])]
      <3>1. Streams[c][Len(s) + 1] = x
        BY <2>3, <2>5 DEF Streams
      <3>2. Takes' = [Takes EXCEPT ![c] = Append(s, x)]
        BY <2>7, <2>8 DEF Takes
      <3>. QED
        BY <2>6, <3>1, <3>2
    <2>11. Len(Takes[c]) < Len(Streams[c])
      BY <2>1, <2>5, <2>6 DEF Streams
    <2>. QED
      BY <2>4, <2>9, <2>10, <2>11 DEF TakesNext
  <1>. QED
    BY <1>2, <1>3
LEMMA OutputChunkMaps ==
    ASSUME IInv, OutputChunk
    PROVE  Stays
  <1>1. /\ phase = "reading" /\ \A c \in Columns : reader[c].got # <<>>
        /\ UNCHANGED <<phase, table, selection, aborted, writer, files, metadata, reads, undefined>>
        /\ csv' = Append(csv, RowOut)
        /\ reader' = [c \in Columns |-> Shown(reader[c])]
    BY OutputChunkEffect
  <1>2. Streams' = Streams /\ Ended' = Ended /\ Intact' = Intact
    BY <1>1 DEF Streams, Column, Ended, Intact
  <1>3. csv \in Seq(RowType) /\ RowOut \in RowType
    BY <1>1, RowOutType DEF IInv, Types
  <1>4. ASSUME NEW c \in Columns
        PROVE  RowsOf(csv', c) \o Got(c)' = RowsOf(csv, c) \o Got(c)
    <2>1. PICK g \in Seq(ChunkType) : g = reader[c].got /\ Len(g) = 1
      <3>1. reader[c].got \in Seq(ChunkType) /\ Len(reader[c].got) <= 1
        BY ColumnFacts, SlotFacts DEF IInv, Standing
      <3>2. PICK g \in Seq(ChunkType) : g = reader[c].got
        BY <3>1
      <3>3. Len(g) <= 1 /\ g # <<>>
        BY <1>1, <3>1, <3>2
      <3>4. Len(g) = 1
        BY <3>3, EmptySeq
      <3>. QED
        BY <3>2, <3>4
    <2>2. PICK x \in ChunkType : x = g[1] /\ g = <<x>>
      BY <2>1
    <2>3. PICK s \in Seq(ChunkType) :
             /\ s = RowsOf(csv, c) /\ Len(s) = Len(csv)
             /\ \A k \in 1..Len(csv) : s[k] = csv[k].cells[c]
      BY <1>3, RowsOfFacts
    <2>4. PICK n \in Nat : n = Len(csv)
      BY <1>3
    <2>5. PICK rows \in Seq(RowType) :
             /\ rows = csv' /\ Len(rows) = n + 1 /\ rows[n + 1] = RowOut
             /\ \A k \in 1..n : rows[k] = csv[k]
      <3>1. PICK old \in Seq(RowType), row \in RowType : old = csv /\ row = RowOut
        BY <1>3
      <3>2. /\ Append(old, row) \in Seq(RowType) /\ Len(Append(old, row)) = n + 1
            /\ Append(old, row)[n + 1] = row /\ \A k \in 1..n : Append(old, row)[k] = old[k]
        BY <2>4, <3>1, AppendProperties
      <3>. QED
        BY <1>1, <3>1, <3>2, Zenon
    <2>6. PICK t \in Seq(ChunkType) :
             /\ t = RowsOf(rows, c) /\ Len(t) = n + 1
             /\ \A k \in 1..(n + 1) : t[k] = rows[k].cells[c]
      BY <2>5, RowsOfFacts
    <2>7. RowOut.cells[c] = x
      BY <2>1, <2>2 DEF RowOut
    <2>8. /\ Append(s, x) \in Seq(ChunkType) /\ Len(Append(s, x)) = n + 1
          /\ Append(s, x)[n + 1] = x /\ \A k \in 1..n : Append(s, x)[k] = s[k]
      BY <2>3, <2>4, AppendProperties
    <2>9. ASSUME NEW k \in 1..(n + 1)
          PROVE  t[k] = Append(s, x)[k]
      <3>1. CASE k = n + 1
        BY <2>5, <2>6, <2>7, <2>8, <3>1
      <3>2. CASE k # n + 1
        <4>1. k \in 1..n
          BY <3>2
        <4>. QED
          BY <2>3, <2>4, <2>5, <2>6, <2>8, <4>1
      <3>. QED
        BY <3>1, <3>2
    <2>10. t = Append(s, x)
      BY <2>6, <2>8, <2>9, SeqEqual
    <2>11. Got(c) = g /\ Got(c)' = <<>>
      <3>1. HasShown(reader[c], Shown(reader[c]))
        BY <1>1, ColumnFacts, Shows DEF IInv
      <3>2. Shown(reader[c]).got = <<>>
        BY <3>1 DEF HasShown
      <3>. QED
        BY <1>1, <2>1, <3>2 DEF Got
    <2>12. Append(s, x) = s \o g /\ t \o <<>> = t
      BY <2>2, AppendIsConcat, ConcatEmptySeq
    <2>. QED
      BY <2>3, <2>5, <2>6, <2>10, <2>11, <2>12
  <1>5. Takes' = Takes
    <2>1. Takes' = [c \in Columns |-> RowsOf(csv', c) \o Got(c)']
      BY DEF Takes, RowsOf
    <2>. QED
      BY <1>4, <2>1 DEF Takes
  <1>. QED
    BY <1>2, <1>5 DEF Stays

LEMMA EndReadingMaps ==
    ASSUME EndReading
    PROVE  Stays
  <1>1. /\ phase = "reading" /\ phase' = "idle" /\ \A c \in Columns : reader[c].got = <<>>
        /\ UNCHANGED <<table, selection, aborted, writer, files, csv>>
    BY DEF EndReading
  <1>2. Streams' = Streams /\ Ended' = Ended /\ Intact' = Intact
    BY <1>1 DEF Streams, Column, Ended, Intact
  <1>3. \A c \in Columns : Got(c) = <<>> /\ Got(c)' = <<>>
    BY <1>1 DEF Got
  <1>4. Takes' = Takes
    BY <1>1, <1>3 DEF Takes, RowsOf
  <1>. QED
    BY <1>2, <1>4 DEF Stays

LEMMA StutterMaps ==
    ASSUME UNCHANGED vars
    PROVE  Stays
  BY DEF vars, Stays, Streams, Column, Ended, Intact, Takes, RowsOf, Got

\* The directory of part files and the programs that write and read it are a stream of
\* chunks per column: chunks are added at the end while a table is converted, nothing
\* changes after that, and what is read is the next chunk of the stream, all columns in
\* step, whatever the sizes of chunks and parts and whatever was in the directory before.
THEOREM Refines == Spec => ImplementsStreams
  <1>1. Init => Stream!Init
    BY InitMaps
  <1>2. IInv /\ [Next]_vars => [Stream!Next]_(Stream!vars)
    <2>. SUFFICES ASSUME IInv, [Next]_vars PROVE [Stream!Next]_(Stream!vars)
      OBVIOUS
    <2>1. CASE StartConversion
      BY <2>1, StartConversionMaps, StreamStep
    <2>2. CASE WriteMetadata
      BY <2>2, WriteMetadataMaps, StreamStep
    <2>3. CASE StartReading
      BY <2>3, StartReadingMaps, StreamStep
    <2>4. CASE OutputChunk
      BY <2>4, OutputChunkMaps, StreamStep
    <2>5. CASE EndReading
      BY <2>5, EndReadingMaps, StreamStep
    <2>6. ASSUME NEW c \in Columns, Convert(c) PROVE [Stream!Next]_(Stream!vars)
      BY <2>6, ConvertMaps, StreamStep
    <2>7. ASSUME NEW c \in Columns, ReadChunk(c) PROVE [Stream!Next]_(Stream!vars)
      BY <2>7, ReadChunkMaps, StreamStep
    <2>8. CASE UNCHANGED vars
      BY <2>8, StutterMaps, StreamStep
    <2>. QED
      BY <2>1, <2>2, <2>3, <2>4, <2>5, <2>6, <2>7, <2>8 DEF Next
  <1>. QED
    BY <1>1, <1>2, Invariant, PTL DEF Spec, ImplementsStreams, Stream!Spec
=============================================================================
