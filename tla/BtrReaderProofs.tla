--------------------------- MODULE BtrReaderProofs ---------------------------
(***************************************************************************)
(* Proofs about BtrReader, for every number of chunks, rows and objects    *)
(* and all null maps.                                                      *)
(***************************************************************************)
EXTENDS BtrReader, FiniteSetTheorems, TLAPS

---------------------------------------------------------------------------
(* The inductive invariant *)

Wrappers == DOMAIN wrapper
Bitsets == DOMAIN bitset
WrapperType == [chunk : Chunks, bitset : Bitsets \cup {Null}, initialized : BOOLEAN,
                cardinality : 0..Cardinality(Rows)]
Mixed(c) == stored[c].type \notin Uniform

\* Objects are numbered without gaps, so that Fresh is a number nobody has.
HeapOK ==
    /\ Cardinality(Objects) \in Nat /\ Objects = 1..Cardinality(Objects)
    /\ Wrappers \cup Bitsets = Objects /\ Wrappers \cap Bitsets = {}
    /\ deleted \in [Objects -> Nat]
    /\ wrapper \in [Wrappers -> WrapperType]
    /\ bitset \in [Bitsets -> SUBSET Rows]

StoredOK == \A c \in Chunks : stored[c] \in {Compressed(ones) : ones \in Nullmaps}

\* The reader: a cached wrapper is about its chunk, belongs to nobody else and has the
\* bitset of the chunk, which no other chunk and no other wrapper has.
ReaderOK ==
    /\ wrappers \in [Chunks -> Wrappers \cup {Null}]
    /\ bitsets \in [Chunks -> Bitsets \cup {Null}]
    /\ \A c \in Chunks : wrappers[c] # Null =>
         /\ Live(wrappers[c]) /\ wrappers[c] \notin owned
         /\ wrapper[wrappers[c]].chunk = c /\ wrapper[wrappers[c]].bitset = bitsets[c]
    /\ \A c \in Chunks : bitsets[c] # Null =>
         /\ Live(bitsets[c])
         /\ \A d \in Chunks : bitsets[d] = bitsets[c] => d = c
         /\ \A w \in Wrappers : Live(w) /\ wrapper[w].bitset = bitsets[c] => w = wrappers[c]

\* A live wrapper has somebody who will delete it and a live bitset of its own, at once
\* unless its null map is uniform.
WrappersOK ==
    \A w \in Wrappers : Live(w) =>
        /\ w \in owned \/ wrappers[wrapper[w].chunk] = w
        /\ Mixed(wrapper[w].chunk) => wrapper[w].bitset # Null
        /\ wrapper[w].bitset # Null => Live(wrapper[w].bitset)
        /\ \A v \in Wrappers :
             Live(v) /\ wrapper[v].bitset # Null /\ wrapper[v].bitset = wrapper[w].bitset => v = w

CallersOK ==
    /\ owned \subseteq Wrappers /\ \A w \in owned : Live(w)
    /\ lent \subseteq Wrappers /\ \A w \in lent : wrappers[wrapper[w].chunk] = w

BitsetsOK ==
    \A b \in Bitsets : Live(b) =>
        \/ \E c \in Chunks : bitsets[c] = b
        \/ \E w \in owned : wrapper[w].bitset = b

\* What a live wrapper says of its null map.
ContentsOK ==
    \A w \in Wrappers : Live(w) =>
        /\ wrapper[w].cardinality = Cardinality(stored[wrapper[w].chunk].ones)
        /\ wrapper[w].initialized =>
             /\ wrapper[w].bitset # Null
             /\ bitset[wrapper[w].bitset] = stored[wrapper[w].chunk].ones

OpenOK == open \in BOOLEAN

IInv ==
    /\ HeapOK /\ StoredOK /\ ReaderOK /\ WrappersOK /\ CallersOK /\ BitsetsOK
    /\ ContentsOK /\ FreedOnce /\ OpenOK

---------------------------------------------------------------------------
(* The compressed null map *)

LEMMA TypeOfRight ==
    ASSUME NEW ones \in SUBSET Rows
    PROVE  /\ IsFiniteSet(ones) /\ Cardinality(ones) \in Nat /\ Cardinality(Rows) \in Nat
           /\ Cardinality(ones) <= Cardinality(Rows)
           /\ TypeOf(ones) \in {"ALLZEROS", "ALLONES", "REGULAR", "FLIPPED"}
           /\ TypeOf(ones) = "ALLZEROS" => ones = {}
           /\ TypeOf(ones) = "ALLONES" => ones = Rows
  <1>1. IsFiniteSet(Rows) /\ Cardinality(Rows) \in Nat
    BY BoundsAssumption, FS_CardinalityType
  <1>2. /\ IsFiniteSet(ones) /\ Cardinality(ones) <= Cardinality(Rows)
        /\ Cardinality(ones) = Cardinality(Rows) => ones = Rows
    BY <1>1, FS_Subset
  <1>3. Cardinality(ones) \in Nat /\ (Cardinality(ones) = 0 => ones = {})
    BY <1>2, FS_CardinalityType, FS_EmptySet
  <1>4. PICK n \in Nat : n = Cardinality(ones)
    BY <1>3
  <1>5. PICK m \in Nat : m = Cardinality(Rows)
    BY <1>1
  <1>6. CASE n = 0
    BY <1>1, <1>2, <1>3, <1>4, <1>6 DEF TypeOf
  <1>7. CASE n # 0 /\ n = m
    BY <1>1, <1>2, <1>3, <1>4, <1>5, <1>7 DEF TypeOf
  <1>8. CASE n # 0 /\ n # m
    BY <1>1, <1>2, <1>3, <1>4, <1>5, <1>8 DEF TypeOf
  <1>. QED
    BY <1>6, <1>7, <1>8

\* A wrapper reports and expands what compress was given, whatever the bitset held.
LEMMA CompressedRight ==
    ASSUME NEW ones \in SUBSET Rows, NEW s, s = Compressed(ones), NEW before
    PROVE  /\ s.ones = ones
           /\ CardinalityOf(s) = Cardinality(ones)
           /\ Cardinality(ones) \in 0..Cardinality(Rows)
           /\ Filled(s, before) = ones
  <1>1. s.ones = ones /\ s.type = TypeOf(ones)
    BY DEF Compressed
  <1>2. CASE TypeOf(ones) \in Uniform
    BY <1>1, <1>2, TypeOfRight, FS_EmptySet DEF Uniform, CardinalityOf, Filled
  <1>3. CASE TypeOf(ones) = "REGULAR"
    BY <1>1, <1>3, TypeOfRight DEF Compressed, CardinalityOf, Filled
  <1>4. CASE TypeOf(ones) = "FLIPPED"
    <2>1. s.roaring = Rows \ ones
      BY <1>4 DEF Compressed
    <2>2. Rows \cap ones = ones /\ Rows \ (Rows \ ones) = ones
      OBVIOUS
    <2>3. Cardinality(Rows \ ones) = Cardinality(Rows) - Cardinality(ones)
      BY <2>2, BoundsAssumption, FS_Difference
    <2>. QED
      BY <1>1, <1>4, <2>1, <2>2, <2>3, TypeOfRight DEF CardinalityOf, Filled
  <1>. QED
    BY <1>1, <1>2, <1>3, <1>4, TypeOfRight DEF Uniform

LEMMA StoredRight ==
    ASSUME StoredOK, NEW c \in Chunks, NEW before
    PROVE  /\ stored[c].ones \in SUBSET Rows
           /\ CardinalityOf(stored[c]) = Cardinality(stored[c].ones)
           /\ Cardinality(stored[c].ones) \in 0..Cardinality(Rows)
           /\ Filled(stored[c], before) = stored[c].ones
  <1>1. PICK ones \in Nullmaps : stored[c] = Compressed(ones)
    BY DEF StoredOK
  <1>2. ones \in SUBSET Rows
    BY BoundsAssumption
  <1>. QED
    BY <1>1, <1>2, CompressedRight

---------------------------------------------------------------------------
(* Steps *)

LEMMA InitInv == Init => IInv
  <1>. SUFFICES ASSUME Init PROVE IInv
    OBVIOUS
  <1>1. Objects = {} /\ Wrappers = {} /\ Bitsets = {}
    BY DEF Init, Objects, Wrappers, Bitsets
  <1>2. HeapOK
    <2>1. Cardinality(Objects) = 0 /\ Objects = 1..0
      BY <1>1, FS_EmptySet
    <2>. QED
      BY <1>1, <2>1 DEF HeapOK, Init, Objects, Wrappers, Bitsets
  <1>3. StoredOK
    BY DEF Init, StoredOK
  <1>4. ReaderOK /\ WrappersOK /\ CallersOK /\ BitsetsOK /\ ContentsOK
    BY <1>1 DEF Init, ReaderOK, WrappersOK, CallersOK, BitsetsOK, ContentsOK
  <1>5. FreedOnce /\ OpenOK
    BY <1>1 DEF Init, FreedOnce, OpenOK
  <1>. QED
    BY <1>2, <1>3, <1>4, <1>5 DEF IInv

\* A bitmap for a chunk that has none: a new wrapper on the bitset of the chunk.
LEMMA MakeBitmapInv ==
    ASSUME IInv, NEW c \in Chunks, ~Cached(c), MakeBitmap(c),
           UNCHANGED <<stored, owned, open>>, lent' \in {lent, lent \cup {wrappers'[c]}}
    PROVE  IInv'
  <1>1. /\ HeapOK /\ StoredOK /\ ReaderOK /\ WrappersOK /\ CallersOK /\ BitsetsOK
        /\ ContentsOK /\ FreedOnce /\ OpenOK
    BY DEF IInv
  <1>2. PICK N \in Nat : N = Cardinality(Objects) /\ Objects = 1..N
    BY <1>1 DEF HeapOK
  <1>3. PICK b : b = WithBitset(c)[c]
    OBVIOUS
  <1>4. PICK w : w = Fresh(IF NeedsBitset(c) THEN 2 ELSE 1)
    OBVIOUS
  <1>5. /\ w \in Nat /\ w # Null /\ w \notin Objects
        /\ NeedsBitset(c) => Fresh(1) \in Nat /\ Fresh(1) \notin Objects /\ Fresh(1) # w
                             /\ Fresh(1) # Null
        /\ Objects \cup {w} \cup (IF NeedsBitset(c) THEN {Fresh(1)} ELSE {}) = 1..w
    <2>1. Fresh(1) = N + 1 /\ Fresh(2) = N + 2
      BY <1>2 DEF Fresh
    <2>2. CASE NeedsBitset(c)
      <3>1. w = N + 2
        BY <1>4, <2>1, <2>2
      <3>2. (1..N) \cup {N + 2} \cup {N + 1} = 1..(N + 2)
        OBVIOUS
      <3>3. Objects \cup {w} \cup (IF NeedsBitset(c) THEN {Fresh(1)} ELSE {}) = 1..w
        BY <1>2, <2>1, <2>2, <3>1, <3>2, Zenon
      <3>4. N + 2 \in Nat /\ N + 2 # 0 /\ N + 2 \notin 1..N
        OBVIOUS
      <3>5. N + 1 \in Nat /\ N + 1 # 0 /\ N + 1 \notin 1..N /\ N + 1 # N + 2
        OBVIOUS
      <3>. QED
        BY <1>2, <2>1, <2>2, <3>1, <3>3, <3>4, <3>5, Zenon DEF Null
    <2>3. CASE ~NeedsBitset(c)
      <3>1. w = N + 1
        BY <1>4, <2>1, <2>3
      <3>2. (1..N) \cup {N + 1} \cup {} = 1..(N + 1)
        OBVIOUS
      <3>3. Objects \cup {w} \cup (IF NeedsBitset(c) THEN {Fresh(1)} ELSE {}) = 1..w
        BY <1>2, <2>3, <3>1, <3>2, Zenon
      <3>4. N + 1 \in Nat /\ N + 1 # 0 /\ N + 1 \notin 1..N
        OBVIOUS
      <3>. QED
        BY <1>2, <2>3, <3>1, <3>3, <3>4, Zenon DEF Null
    <2>. QED
      BY <2>2, <2>3
  <1>6. /\ wrappers' = [wrappers EXCEPT ![c] = w]
        /\ deleted' = [o \in 1..w |-> IF o \in Objects THEN deleted[o] ELSE 0]
        /\ bitset' = [o \in Bitsets \cup (IF NeedsBitset(c) THEN {Fresh(1)} ELSE {}) |->
                        IF o \in Bitsets THEN bitset[o] ELSE {}]
        /\ wrapper' = [o \in Wrappers \cup {w} |-> IF o \in Wrappers THEN wrapper[o]
                                                   ELSE NewWrapper(c, b)]
    <2>1. CASE NeedsBitset(c)
      BY <1>3, <1>4, <2>1 DEF MakeBitmap, Wrappers, Bitsets
    <2>2. CASE ~NeedsBitset(c)
      BY <1>3, <1>4, <2>2 DEF MakeBitmap, Wrappers, Bitsets
    <2>. QED
      BY <2>1, <2>2
  <1>7. bitsets' = WithBitset(c)
    BY DEF MakeBitmap
  <1>8. wrappers[c] = Null /\ Wrappers \subseteq Objects /\ Bitsets \subseteq Objects
    BY <1>1 DEF Cached, HeapOK
  \* The objects, old and new.
  <1>9. /\ Wrappers' = Wrappers \cup {w} /\ wrapper'[w] = NewWrapper(c, b)
        /\ \A v \in Wrappers : wrapper'[v] = wrapper[v]
    BY <1>5, <1>6, <1>8 DEF Wrappers
  <1>10. /\ Bitsets' = Bitsets \cup ({b} \ {Null}) /\ \A x \in Bitsets : bitset'[x] = bitset[x]
         /\ \A x \in Bitsets' \ Bitsets : bitset'[x] = {}
         /\ bitsets'[c] = b /\ \A d \in Chunks : d # c => bitsets'[d] = bitsets[d]
         /\ b \in {bitsets[c], Fresh(1)} /\ (b # bitsets[c] => bitsets[c] = Null /\ b \notin Objects)
         /\ Mixed(c) => b # Null
         /\ bitsets' \in [Chunks -> Bitsets' \cup {Null}]
         /\ b # w /\ Objects' = 1..w /\ Objects' = Objects \cup {w} \cup ({b} \ {Null})
    <2>1. Objects' = 1..w
      BY <1>6 DEF Objects
    <2>2. CASE NeedsBitset(c)
      <3>1. bitsets' = [bitsets EXCEPT ![c] = Fresh(1)] /\ b = Fresh(1) /\ bitsets[c] = Null
        BY <1>1, <1>3, <1>7, <2>2 DEF WithBitset, NeedsBitset, ReaderOK
      <3>2. Bitsets' = Bitsets \cup {b} /\ bitset' = [o \in Bitsets \cup {b} |->
                        IF o \in Bitsets THEN bitset[o] ELSE {}]
        BY <1>6, <2>2, <3>1 DEF Bitsets
      <3>3. b # Null /\ b \notin Objects /\ b # w
        BY <1>5, <2>2, <3>1
      <3>4. /\ bitsets' \in [Chunks -> Bitsets' \cup {Null}]
            /\ bitsets'[c] = b /\ \A d \in Chunks : d # c => bitsets'[d] = bitsets[d]
        BY <1>1, <3>1, <3>2 DEF ReaderOK
      <3>. QED
        BY <1>5, <1>8, <2>1, <2>2, <3>1, <3>2, <3>3, <3>4
    <2>3. CASE ~NeedsBitset(c)
      <3>1. bitsets' = bitsets /\ b = bitsets[c] /\ (Mixed(c) => b # Null)
        BY <1>3, <1>7, <2>3 DEF WithBitset, NeedsBitset, Mixed
      <3>2. Bitsets' = Bitsets /\ \A x \in Bitsets : bitset'[x] = bitset[x]
        BY <1>6, <2>3 DEF Bitsets
      <3>3. b \in Bitsets \cup {Null}
        BY <1>1, <3>1 DEF ReaderOK
      <3>. QED
        BY <1>1, <1>5, <1>8, <2>1, <2>3, <3>1, <3>2, <3>3 DEF ReaderOK
    <2>. QED
      BY <2>2, <2>3
  <1>11. /\ deleted' \in [Objects' -> Nat]
         /\ \A o \in Objects : deleted'[o] = deleted[o]
         /\ \A o \in Objects' \ Objects : deleted'[o] = 0
    BY <1>1, <1>6, <1>10 DEF HeapOK
  <1>12. /\ \A o \in Objects : Live(o)' <=> Live(o)
         /\ Live(w)' /\ (b # Null => Live(b)')
    BY <1>1, <1>5, <1>8, <1>10, <1>11 DEF Live, ReaderOK
  <1>13. /\ \A v \in Wrappers : Live(v) /\ wrapper[v].bitset = b => b = Null
         /\ \A d \in Chunks : d # c /\ bitsets[d] = b => b = Null
         /\ \A x \in owned : wrapper[x].bitset = b => b = Null
    <2>1. \A v \in Wrappers : wrapper[v].bitset \in Bitsets \cup {Null}
      BY <1>1 DEF HeapOK, WrapperType
    <2>2. \A d \in Chunks : bitsets[d] \in Bitsets \cup {Null}
      BY <1>1 DEF ReaderOK
    <2>3. CASE b = bitsets[c] /\ b # Null
      BY <1>1, <1>5, <1>8, <2>3 DEF ReaderOK, CallersOK, HeapOK, Null
    <2>4. CASE b # bitsets[c]
      BY <1>1, <1>8, <1>10, <2>1, <2>2, <2>4 DEF CallersOK
    <2>. QED
      BY <2>3, <2>4
  <1>14. /\ wrapper'[w].chunk = c /\ wrapper'[w].bitset = b /\ ~wrapper'[w].initialized
         /\ wrapper'[w].cardinality = CardinalityOf(stored[c])
    BY <1>9 DEF NewWrapper
  <1>15. HeapOK'
    <2>1. Cardinality(Objects') = w
      BY <1>5, <1>10, FS_Interval
    <2>2. NewWrapper(c, b) \in WrapperType'
      <3>1. CardinalityOf(stored[c]) \in 0..Cardinality(Rows)
        BY <1>1, StoredRight
      <3>. QED
        BY <1>10, <3>1 DEF NewWrapper, WrapperType
    <2>3. wrapper' \in [Wrappers' -> WrapperType']
      <3>1. \A v \in Wrappers : wrapper[v] \in WrapperType'
        BY <1>1, <1>10 DEF HeapOK, WrapperType
      <3>. QED
        BY <1>6, <1>9, <2>2, <3>1
    <2>4. bitset' \in [Bitsets' -> SUBSET Rows]
      <3>1. \A x \in Bitsets' : bitset'[x] \in SUBSET Rows
        BY <1>1, <1>10 DEF HeapOK
      <3>2. bitset' = [x \in Bitsets' |-> bitset'[x]]
        BY <1>6 DEF Bitsets
      <3>. QED
        BY <3>1, <3>2
    <2>5. Wrappers' \cup Bitsets' = Objects' /\ Wrappers' \cap Bitsets' = {}
      <3>1. b # Null /\ b \notin Bitsets => b \notin Objects
        BY <1>1, <1>10 DEF ReaderOK
      <3>. QED
        BY <1>1, <1>5, <1>8, <1>9, <1>10, <3>1 DEF HeapOK
    <2>. QED
      BY <1>5, <1>10, <1>11, <2>1, <2>3, <2>4, <2>5 DEF HeapOK
  <1>16. StoredOK' /\ OpenOK'
    BY <1>1 DEF StoredOK, OpenOK
  <1>17. wrappers' \in [Chunks -> Wrappers' \cup {Null}]
         /\ wrappers'[c] = w /\ \A d \in Chunks : d # c => wrappers'[d] = wrappers[d]
    BY <1>1, <1>6, <1>9 DEF ReaderOK
  <1>18. w \notin owned /\ w \notin Wrappers
    BY <1>1, <1>5, <1>8 DEF CallersOK
  <1>19. \A d \in Chunks : wrappers[d] # w
    BY <1>1, <1>5, <1>18 DEF ReaderOK
  <1>20. ReaderOK'
    <2>1. ASSUME NEW d \in Chunks, wrappers'[d] # Null
          PROVE  /\ deleted'[wrappers'[d]] = 0 /\ wrappers'[d] \notin owned'
                 /\ wrapper'[wrappers'[d]].chunk = d /\ wrapper'[wrappers'[d]].bitset = bitsets'[d]
      <3>1. CASE d = c
        BY <1>10, <1>12, <1>14, <1>17, <1>18, <3>1 DEF Live
      <3>2. CASE d # c
        <4>1. wrappers'[d] = wrappers[d] /\ wrappers[d] \in Wrappers /\ bitsets'[d] = bitsets[d]
          BY <1>1, <1>10, <1>17, <2>1, <3>2 DEF ReaderOK
        <4>. QED
          BY <1>1, <1>8, <1>9, <1>11, <2>1, <4>1 DEF ReaderOK, Live
      <3>. QED
        BY <3>1, <3>2
    <2>2. ASSUME NEW d \in Chunks, bitsets'[d] # Null
          PROVE  /\ deleted'[bitsets'[d]] = 0
                 /\ \A e \in Chunks : bitsets'[e] = bitsets'[d] => e = d
                 /\ \A v \in Wrappers' : Live(v)' /\ wrapper'[v].bitset = bitsets'[d]
                      => v = wrappers'[d]
      <3>1. CASE d = c
        <4>1. \A e \in Chunks : bitsets'[e] = bitsets'[d] => e = d
          BY <1>10, <1>13, <2>2, <3>1
        <4>2. \A v \in Wrappers' : Live(v)' /\ wrapper'[v].bitset = bitsets'[d] => v = wrappers'[d]
          BY <1>8, <1>9, <1>10, <1>12, <1>13, <1>17, <2>2, <3>1
        <4>. QED
          BY <1>10, <1>12, <2>2, <3>1, <4>1, <4>2 DEF Live
      <3>2. CASE d # c
        <4>1. bitsets'[d] = bitsets[d] /\ bitsets[d] \in Bitsets /\ wrappers'[d] = wrappers[d]
          BY <1>1, <1>10, <1>17, <2>2, <3>2 DEF ReaderOK
        <4>2. deleted'[bitsets'[d]] = 0
          BY <1>1, <1>8, <1>11, <2>2, <4>1 DEF ReaderOK, Live
        <4>3. \A e \in Chunks : bitsets'[e] = bitsets'[d] => e = d
          BY <1>1, <1>10, <1>13, <2>2, <3>2, <4>1 DEF ReaderOK
        <4>4. bitsets[d] # b
          BY <1>13, <2>2, <3>2, <4>1
        <4>5. \A v \in Wrappers : Live(v) /\ wrapper[v].bitset = bitsets[d] => v = wrappers[d]
          BY <1>1, <2>2, <4>1 DEF ReaderOK
        <4>. QED
          BY <1>8, <1>9, <1>12, <1>14, <4>1, <4>2, <4>3, <4>4, <4>5
      <3>. QED
        BY <3>1, <3>2
    <2>. QED
      BY <1>10, <1>17, <2>1, <2>2 DEF ReaderOK, Live
  <1>21. WrappersOK'
    <2>. SUFFICES ASSUME NEW v \in Wrappers', Live(v)'
                  PROVE  /\ v \in owned' \/ wrappers'[wrapper'[v].chunk] = v
                         /\ Mixed(wrapper'[v].chunk) => wrapper'[v].bitset # Null
                         /\ wrapper'[v].bitset # Null => deleted'[wrapper'[v].bitset] = 0
                         /\ \A x \in Wrappers' :
                              Live(x)' /\ wrapper'[x].bitset # Null
                                /\ wrapper'[x].bitset = wrapper'[v].bitset => x = v
      BY DEF WrappersOK, Live, Mixed
    <2>1. CASE v = w
      BY <1>8, <1>9, <1>10, <1>12, <1>13, <1>14, <1>17, <2>1 DEF Live
    <2>2. CASE v # w
      <3>1. v \in Wrappers /\ Live(v) /\ wrapper'[v] = wrapper[v]
        BY <1>8, <1>9, <1>12, <2>2
      <3>2. v \in owned \/ wrappers'[wrapper[v].chunk] = v
        BY <1>1, <1>8, <1>17, <3>1 DEF WrappersOK, HeapOK, WrapperType, Null
      <3>3. wrapper[v].bitset \in Bitsets \cup {Null}
        BY <1>1, <3>1 DEF HeapOK, WrapperType
      <3>4. wrapper[v].bitset # Null => wrapper[v].bitset # b /\ deleted'[wrapper[v].bitset] = 0
        BY <1>1, <1>8, <1>11, <1>13, <3>1, <3>3 DEF WrappersOK, Live
      <3>. QED
        BY <1>1, <1>8, <1>9, <1>12, <1>14, <3>1, <3>2, <3>4 DEF WrappersOK
    <2>. QED
      BY <2>1, <2>2
  <1>22. CallersOK'
    <2>1. \A v \in lent : wrapper[v].chunk \in Chunks /\ wrapper[v].chunk # c
      BY <1>1, <1>8, <1>5 DEF CallersOK, HeapOK, WrapperType, Null
    <2>. QED
      BY <1>1, <1>8, <1>9, <1>12, <1>14, <1>17, <2>1 DEF CallersOK
  <1>23. BitsetsOK'
    <2>. SUFFICES ASSUME NEW x \in Bitsets', Live(x)'
                  PROVE  \/ \E d \in Chunks : bitsets'[d] = x
                         \/ \E v \in owned' : wrapper'[v].bitset = x
      BY DEF BitsetsOK
    <2>1. CASE x = b
      BY <1>10, <2>1
    <2>2. CASE x # b
      <3>1. x \in Bitsets /\ Live(x)
        BY <1>8, <1>10, <1>12, <2>2
      <3>2. CASE \E d \in Chunks : bitsets[d] = x
        <4>1. x # Null
          BY <1>1, <1>2, <3>1 DEF HeapOK, Null
        <4>. QED
          BY <1>10, <2>2, <3>2, <4>1
      <3>3. CASE \E v \in owned : wrapper[v].bitset = x
        BY <1>1, <1>9, <3>3 DEF CallersOK
      <3>. QED
        BY <1>1, <3>1, <3>2, <3>3 DEF BitsetsOK
    <2>. QED
      BY <2>1, <2>2
  <1>24. ContentsOK'
    <2>1. wrapper'[w].cardinality = Cardinality(stored[wrapper'[w].chunk].ones)
      BY <1>1, <1>14, StoredRight
    <2>2. \A v \in Wrappers : wrapper[v].bitset # Null =>
            bitset'[wrapper[v].bitset] = bitset[wrapper[v].bitset]
      BY <1>1, <1>10 DEF HeapOK, WrapperType
    <2>. QED
      BY <1>1, <1>8, <1>9, <1>12, <1>14, <2>1, <2>2 DEF ContentsOK
  <1>25. FreedOnce'
    BY <1>1, <1>11 DEF FreedOnce
  <1>. QED
    BY <1>15, <1>16, <1>20, <1>21, <1>22, <1>23, <1>24, <1>25 DEF IInv

\* The bits go into the bitset of the wrapper, which no other live wrapper has.
LEMMA ExpandInv ==
    ASSUME IInv, NEW w \in Wrappers, Live(w), Mixed(wrapper[w].chunk), Expand(w),
           UNCHANGED <<stored, wrappers, bitsets, lent, owned, open>>
    PROVE  IInv'
  <1>1. /\ HeapOK /\ StoredOK /\ ReaderOK /\ WrappersOK /\ CallersOK /\ BitsetsOK
        /\ ContentsOK /\ FreedOnce /\ OpenOK
    BY DEF IInv
  <1>2. PICK b : b = wrapper[w].bitset
    OBVIOUS
  <1>3. b \in Bitsets /\ b \in Objects /\ b # Null /\ wrapper[w] \in WrapperType
    BY <1>1, <1>2 DEF HeapOK, WrapperType, WrappersOK
  <1>4. /\ wrapper' = [wrapper EXCEPT ![w].bitset = b, ![w].initialized = TRUE]
        /\ bitset' = [o \in Bitsets |->
                        IF o = b THEN Filled(stored[wrapper[w].chunk], bitset[b]) ELSE bitset[o]]
        /\ deleted' = [o \in Objects |-> deleted[o]]
    <2>1. Bitsets \cup {b} = Bitsets /\ Objects \cup {b} = Objects
      BY <1>3
    <2>. QED
      BY <1>2, <1>3, <2>1 DEF Expand, Bitsets
  <1>5. deleted' = deleted
    BY <1>1, <1>4 DEF HeapOK
  <1>6. Filled(stored[wrapper[w].chunk], bitset[b]) = stored[wrapper[w].chunk].ones
        /\ stored[wrapper[w].chunk].ones \in SUBSET Rows
    BY <1>1, <1>3, StoredRight DEF WrapperType
  <1>7. /\ Bitsets' = Bitsets /\ bitset' \in [Bitsets -> SUBSET Rows]
        /\ bitset'[b] = stored[wrapper[w].chunk].ones
        /\ \A o \in Bitsets : o # b => bitset'[o] = bitset[o]
    BY <1>1, <1>3, <1>4, <1>6 DEF Bitsets, HeapOK
  <1>8. /\ Wrappers' = Wrappers /\ wrapper' \in [Wrappers -> WrapperType]
        /\ \A v \in Wrappers : wrapper'[v].chunk = wrapper[v].chunk
                              /\ wrapper'[v].bitset = wrapper[v].bitset
                              /\ wrapper'[v].cardinality = wrapper[v].cardinality
        /\ \A v \in Wrappers : v # w => wrapper'[v] = wrapper[v]
    <2>. DEFINE x == [wrapper[w] EXCEPT !.bitset = b, !.initialized = TRUE]
    <2>1. /\ x \in WrapperType /\ x.chunk = wrapper[w].chunk /\ x.bitset = wrapper[w].bitset
          /\ x.cardinality = wrapper[w].cardinality
      BY <1>2, <1>3 DEF WrapperType
    <2>2. wrapper' = [v \in Wrappers |-> IF v = w THEN x ELSE wrapper[v]]
      BY <1>1, <1>4 DEF HeapOK, Wrappers
    <2>. HIDE DEF x
    <2>. QED
      BY <1>1, <2>1, <2>2 DEF HeapOK, Wrappers
  <1>9. Objects' = Objects /\ WrapperType' = WrapperType /\ UNCHANGED <<stored, wrappers, bitsets,
          lent, owned, open>>
    BY <1>5, <1>7 DEF Objects, WrapperType
  <1>10. HeapOK'
    BY <1>1, <1>5, <1>7, <1>8, <1>9 DEF HeapOK
  <1>11. StoredOK' /\ OpenOK' /\ FreedOnce'
    BY <1>1, <1>5, <1>9 DEF StoredOK, OpenOK, FreedOnce
  <1>12. ReaderOK'
    BY <1>1, <1>5, <1>7, <1>8, <1>9 DEF ReaderOK, Live
  <1>13. WrappersOK'
    BY <1>1, <1>5, <1>8, <1>9 DEF WrappersOK, Live, Mixed
  <1>14. CallersOK' /\ BitsetsOK'
    BY <1>1, <1>5, <1>7, <1>8, <1>9 DEF CallersOK, BitsetsOK, Live
  <1>15. ContentsOK'
    <2>. SUFFICES ASSUME NEW v \in Wrappers, Live(v)
                  PROVE  /\ wrapper'[v].cardinality = Cardinality(stored[wrapper[v].chunk].ones)
                         /\ wrapper'[v].initialized =>
                              /\ wrapper[v].bitset # Null
                              /\ bitset'[wrapper[v].bitset] = stored[wrapper[v].chunk].ones
      BY <1>5, <1>8, <1>9 DEF ContentsOK, Live
    <2>1. wrapper'[v].cardinality = Cardinality(stored[wrapper[v].chunk].ones)
      BY <1>1, <1>8 DEF ContentsOK
    <2>2. CASE v = w
      BY <1>2, <1>3, <1>7, <2>1, <2>2
    <2>3. CASE v # w
      <3>1. wrapper[v].bitset # Null => wrapper[v].bitset # b /\ wrapper[v].bitset \in Bitsets
        BY <1>1, <1>2, <1>3, <2>3 DEF WrappersOK, HeapOK, WrapperType
      <3>. QED
        BY <1>1, <1>7, <1>8, <2>1, <2>3, <3>1 DEF ContentsOK
    <2>. QED
      BY <2>2, <2>3
  <1>. QED
    BY <1>10, <1>11, <1>12, <1>13, <1>14, <1>15 DEF IInv

\* Deleting live objects: they were never deleted before.
LEMMA DeletingRight ==
    ASSUME HeapOK, FreedOnce, NEW S, S \subseteq Objects, \A o \in S : Live(o), Deleting(S)
    PROVE  /\ Objects' = Objects /\ deleted' \in [Objects -> Nat] /\ FreedOnce'
           /\ \A o \in Objects : deleted'[o] = 0 <=> deleted[o] = 0 /\ o \notin S
  <1>1. /\ deleted \in [Objects -> Nat]
        /\ deleted' = [o \in Objects |-> IF o \in S THEN deleted[o] + 1 ELSE deleted[o]]
    BY DEF HeapOK, Deleting
  <1>2. Objects' = Objects
    BY <1>1 DEF Objects
  <1>. QED
    BY <1>1, <1>2 DEF FreedOnce, Live

\* The wrapper is deleted, its bitset stays with the reader.
LEMMA ReleaseBitmapInv ==
    ASSUME IInv, NEW c \in Chunks, ReleaseBitmap(c)
    PROVE  IInv'
  <1>1. /\ HeapOK /\ StoredOK /\ ReaderOK /\ WrappersOK /\ CallersOK /\ BitsetsOK
        /\ ContentsOK /\ FreedOnce /\ OpenOK
    BY DEF IInv
  <1>2. PICK w : w = wrappers[c]
    OBVIOUS
  <1>3. /\ w \in Wrappers /\ w \in Objects /\ w # Null /\ Live(w) /\ w \notin owned
        /\ wrapper[w].chunk = c /\ wrapper[w].bitset = bitsets[c] /\ wrapper[w] \in WrapperType
    BY <1>1, <1>2 DEF ReleaseBitmap, Cached, ReaderOK, HeapOK
  <1>4. /\ wrapper' = [wrapper EXCEPT ![w].bitset = Null, ![w].initialized = FALSE]
        /\ Deleting({w}) /\ wrappers' = [wrappers EXCEPT ![c] = Null] /\ lent' = lent \ {w}
        /\ UNCHANGED <<stored, bitsets, bitset, owned, open>>
    BY <1>2 DEF ReleaseBitmap, ReleasedObjects
  <1>5. /\ Objects' = Objects /\ deleted' \in [Objects -> Nat] /\ FreedOnce'
        /\ \A o \in Objects : deleted'[o] = 0 <=> deleted[o] = 0 /\ o # w
    BY <1>1, <1>3, <1>4, DeletingRight
  <1>6. /\ Wrappers' = Wrappers /\ wrapper' \in [Wrappers -> WrapperType]
        /\ \A v \in Wrappers : v # w => wrapper'[v] = wrapper[v]
    <2>. DEFINE x == [wrapper[w] EXCEPT !.bitset = Null, !.initialized = FALSE]
    <2>1. x \in WrapperType
      BY <1>3 DEF WrapperType
    <2>2. wrapper' = [v \in Wrappers |-> IF v = w THEN x ELSE wrapper[v]]
      BY <1>1, <1>4 DEF HeapOK, Wrappers
    <2>. HIDE DEF x
    <2>. QED
      BY <1>1, <2>1, <2>2 DEF HeapOK, Wrappers
  <1>7. Bitsets' = Bitsets /\ WrapperType' = WrapperType
    BY <1>4 DEF Bitsets, WrapperType
  <1>8. /\ wrappers' \in [Chunks -> Wrappers \cup {Null}] /\ wrappers'[c] = Null
        /\ \A d \in Chunks : d # c => wrappers'[d] = wrappers[d] /\ wrappers[d] # w
    <2>1. \A d \in Chunks : wrappers[d] = w => d = c
      BY <1>1, <1>3 DEF ReaderOK
    <2>. QED
      BY <1>1, <1>4, <2>1 DEF ReaderOK
  <1>9. Wrappers \subseteq Objects /\ Bitsets \subseteq Objects /\ w \notin Bitsets
    BY <1>1, <1>3 DEF HeapOK
  <1>10. HeapOK'
    BY <1>1, <1>4, <1>5, <1>6, <1>7 DEF HeapOK
  <1>11. StoredOK' /\ OpenOK'
    BY <1>1, <1>4 DEF StoredOK, OpenOK
  <1>12. ReaderOK'
    <2>1. ASSUME NEW d \in Chunks, wrappers'[d] # Null
          PROVE  /\ deleted'[wrappers'[d]] = 0 /\ wrappers'[d] \notin owned'
                 /\ wrapper'[wrappers'[d]].chunk = d /\ wrapper'[wrappers'[d]].bitset = bitsets'[d]
      <3>1. d # c /\ wrappers'[d] = wrappers[d] /\ wrappers[d] # w /\ wrappers[d] \in Wrappers
        BY <1>1, <1>8, <2>1 DEF ReaderOK
      <3>. QED
        BY <1>1, <1>4, <1>5, <1>6, <1>9, <2>1, <3>1 DEF ReaderOK, Live
    <2>2. ASSUME NEW d \in Chunks, bitsets'[d] # Null
          PROVE  /\ deleted'[bitsets'[d]] = 0
                 /\ \A e \in Chunks : bitsets'[e] = bitsets'[d] => e = d
                 /\ \A v \in Wrappers' : Live(v)' /\ wrapper'[v].bitset = bitsets'[d]
                      => v = wrappers'[d]
      <3>1. bitsets' = bitsets /\ bitsets[d] \in Bitsets
        BY <1>1, <1>4, <2>2 DEF ReaderOK
      <3>2. deleted'[bitsets[d]] = 0 /\ \A e \in Chunks : bitsets[e] = bitsets[d] => e = d
        BY <1>1, <1>5, <1>9, <2>2, <3>1 DEF ReaderOK, Live
      <3>3. ASSUME NEW v \in Wrappers, deleted'[v] = 0, wrapper'[v].bitset = bitsets[d]
            PROVE  v = wrappers'[d]
        <4>1. v # w /\ Live(v) /\ wrapper'[v] = wrapper[v]
          BY <1>3, <1>5, <1>6, <1>9, <3>3 DEF Live
        <4>2. v = wrappers[d]
          BY <1>1, <2>2, <3>1, <3>3, <4>1 DEF ReaderOK
        <4>. QED
          BY <1>2, <1>8, <4>1, <4>2
      <3>. QED
        BY <1>6, <3>1, <3>2, <3>3 DEF Live
    <2>. QED
      BY <1>1, <1>4, <1>6, <1>7, <1>8, <2>1, <2>2 DEF ReaderOK, Live
  <1>13. \A v \in Wrappers : deleted'[v] = 0 => v # w /\ Live(v) /\ wrapper'[v] = wrapper[v]
    BY <1>5, <1>6, <1>9 DEF Live
  <1>14. WrappersOK'
    <2>. SUFFICES ASSUME NEW v \in Wrappers, deleted'[v] = 0
                  PROVE  /\ v \in owned \/ wrappers'[wrapper'[v].chunk] = v
                         /\ Mixed(wrapper'[v].chunk) => wrapper'[v].bitset # Null
                         /\ wrapper'[v].bitset # Null => deleted'[wrapper'[v].bitset] = 0
                         /\ \A x \in Wrappers :
                              deleted'[x] = 0 /\ wrapper'[x].bitset # Null
                                /\ wrapper'[x].bitset = wrapper'[v].bitset => x = v
      BY <1>4, <1>6 DEF WrappersOK, Live, Mixed
    <2>1. v # w /\ Live(v) /\ wrapper'[v] = wrapper[v] /\ wrapper[v] \in WrapperType
      BY <1>1, <1>13 DEF HeapOK
    <2>2. v \in owned \/ wrappers'[wrapper[v].chunk] = v
      BY <1>1, <1>2, <1>8, <2>1 DEF WrappersOK, WrapperType
    <2>3. wrapper[v].bitset # Null => deleted'[wrapper[v].bitset] = 0
      BY <1>1, <1>5, <1>9, <2>1 DEF WrappersOK, Live, WrapperType
    <2>. QED
      BY <1>1, <1>13, <2>1, <2>2, <2>3 DEF WrappersOK
  <1>15. CallersOK'
    <2>1. \A v \in owned : deleted'[v] = 0
      BY <1>1, <1>3, <1>5, <1>9 DEF CallersOK, Live
    <2>2. \A v \in lent' : wrapper'[v] = wrapper[v] /\ wrappers'[wrapper[v].chunk] = v
      <3>1. \A v \in lent : wrapper[v].chunk \in Chunks /\ wrappers[wrapper[v].chunk] = v
        BY <1>1 DEF CallersOK, HeapOK, WrapperType
      <3>. QED
        BY <1>1, <1>2, <1>4, <1>6, <1>8, <3>1 DEF CallersOK
    <2>. QED
      BY <1>1, <1>4, <1>6, <2>1, <2>2 DEF CallersOK, Live
  <1>16. BitsetsOK'
    <2>. SUFFICES ASSUME NEW b \in Bitsets, deleted'[b] = 0
                  PROVE  \/ \E d \in Chunks : bitsets[d] = b
                         \/ \E v \in owned : wrapper'[v].bitset = b
      BY <1>4, <1>7 DEF BitsetsOK, Live
    <2>1. Live(b)
      BY <1>5, <1>9 DEF Live
    <2>2. \A v \in owned : wrapper'[v] = wrapper[v]
      BY <1>1, <1>3, <1>6 DEF CallersOK
    <2>. QED
      BY <1>1, <2>1, <2>2 DEF BitsetsOK
  <1>17. ContentsOK'
    BY <1>1, <1>4, <1>6, <1>13 DEF ContentsOK, Live
  <1>. QED
    BY <1>5, <1>10, <1>11, <1>12, <1>14, <1>15, <1>16, <1>17 DEF IInv

\* Wrapper and bitset go to the caller, or there is neither.
LEMMA ReleaseBitmapOwnershipInv ==
    ASSUME IInv, NEW c \in Chunks, ReleaseBitmapOwnership(c)
    PROVE  IInv'
  <1>1. /\ HeapOK /\ StoredOK /\ ReaderOK /\ WrappersOK /\ CallersOK /\ BitsetsOK
        /\ ContentsOK /\ FreedOnce /\ OpenOK
    BY DEF IInv
  <1>2. PICK w : w = wrappers[c]
    OBVIOUS
  <1>3. /\ owned' = owned \cup ({w} \ {Null}) /\ lent' = lent \ {w}
        /\ wrappers' = [wrappers EXCEPT ![c] = Null] /\ bitsets' = [bitsets EXCEPT ![c] = Null]
        /\ UNCHANGED <<stored, wrapper, bitset, deleted, open>>
        /\ w = Null => bitsets[c] = Null
    BY <1>2 DEF ReleaseBitmapOwnership, LeftBitset, Cached
  <1>4. w # Null => /\ w \in Wrappers /\ Live(w) /\ wrapper[w].chunk = c
                    /\ wrapper[w].bitset = bitsets[c]
    BY <1>1, <1>2 DEF ReaderOK
  <1>5. /\ Wrappers' = Wrappers /\ Bitsets' = Bitsets /\ Objects' = Objects
        /\ WrapperType' = WrapperType /\ Null \notin Objects
    BY <1>1, <1>3 DEF Wrappers, Bitsets, Objects, WrapperType, HeapOK, Null
  <1>6. HeapOK' /\ StoredOK' /\ ContentsOK' /\ FreedOnce' /\ OpenOK'
    BY <1>1, <1>3, <1>5 DEF HeapOK, StoredOK, ContentsOK, FreedOnce, OpenOK, Live
  <1>7. /\ wrappers' \in [Chunks -> Wrappers \cup {Null}] /\ wrappers'[c] = Null
        /\ bitsets' \in [Chunks -> Bitsets \cup {Null}] /\ bitsets'[c] = Null
        /\ \A d \in Chunks : d # c => wrappers'[d] = wrappers[d] /\ bitsets'[d] = bitsets[d]
    BY <1>1, <1>3 DEF ReaderOK
  <1>8. \A d \in Chunks : d # c /\ wrappers[d] # Null => wrappers[d] # w
    BY <1>1, <1>4 DEF ReaderOK
  <1>9. ReaderOK'
    <2>1. ASSUME NEW d \in Chunks, wrappers'[d] # Null
          PROVE  /\ deleted[wrappers'[d]] = 0 /\ wrappers'[d] \notin owned'
                 /\ wrapper[wrappers'[d]].chunk = d /\ wrapper[wrappers'[d]].bitset = bitsets'[d]
      BY <1>1, <1>3, <1>7, <1>8, <2>1 DEF ReaderOK, Live
    <2>2. ASSUME NEW d \in Chunks, bitsets'[d] # Null
          PROVE  /\ deleted[bitsets'[d]] = 0
                 /\ \A e \in Chunks : bitsets'[e] = bitsets'[d] => e = d
                 /\ \A v \in Wrappers : Live(v) /\ wrapper[v].bitset = bitsets'[d]
                      => v = wrappers'[d]
      BY <1>1, <1>7, <2>2 DEF ReaderOK, Live
    <2>. QED
      BY <1>3, <1>5, <1>7, <2>1, <2>2 DEF ReaderOK, Live
  <1>10. WrappersOK'
    <2>1. ASSUME NEW v \in Wrappers, Live(v)
          PROVE  v \in owned' \/ wrappers'[wrapper[v].chunk] = v
      <3>1. v # Null /\ wrapper[v].chunk \in Chunks
        BY <1>1, <1>5 DEF HeapOK, WrapperType
      <3>. QED
        BY <1>1, <1>2, <1>3, <1>7, <2>1, <3>1 DEF WrappersOK
    <2>. QED
      BY <1>1, <1>3, <1>5, <2>1 DEF WrappersOK, Live, Mixed
  <1>11. CallersOK'
    <2>1. \A v \in lent' : wrappers'[wrapper[v].chunk] = v
      <3>1. \A v \in lent : wrapper[v].chunk \in Chunks /\ wrappers[wrapper[v].chunk] = v
        BY <1>1 DEF CallersOK, HeapOK, WrapperType
      <3>. QED
        BY <1>2, <1>3, <1>7, <3>1
    <2>. QED
      BY <1>1, <1>3, <1>4, <1>5, <2>1 DEF CallersOK, Live
  <1>12. BitsetsOK'
    <2>. SUFFICES ASSUME NEW b \in Bitsets, Live(b)
                  PROVE  \/ \E d \in Chunks : bitsets'[d] = b
                         \/ \E v \in owned' : wrapper[v].bitset = b
      BY <1>3, <1>5 DEF BitsetsOK, Live
    <2>1. b # Null
      BY <1>1, <1>5 DEF HeapOK
    <2>2. CASE bitsets[c] = b
      BY <1>3, <1>4, <2>1, <2>2
    <2>3. CASE \E d \in Chunks : d # c /\ bitsets[d] = b
      BY <1>7, <2>3
    <2>4. CASE \E v \in owned : wrapper[v].bitset = b
      BY <1>3, <2>4
    <2>. QED
      BY <1>1, <2>2, <2>3, <2>4 DEF BitsetsOK
  <1>. QED
    BY <1>6, <1>9, <1>10, <1>11, <1>12 DEF IInv

\* A caller deletes a wrapper that is its own, and with it a bitset nobody else has.
LEMMA DeleteOwnedInv ==
    ASSUME IInv, NEW w \in owned, DeleteOwned(w)
    PROVE  IInv'
  <1>1. /\ HeapOK /\ StoredOK /\ ReaderOK /\ WrappersOK /\ CallersOK /\ BitsetsOK
        /\ ContentsOK /\ FreedOnce /\ OpenOK
    BY DEF IInv
  <1>2. PICK S : S = WithContents(w)
    OBVIOUS
  <1>3. /\ Deleting(S) /\ owned' = owned \ {w}
        /\ UNCHANGED <<stored, wrappers, bitsets, wrapper, bitset, lent, open>>
    BY <1>2 DEF DeleteOwned
  <1>4. /\ Wrappers \subseteq Objects /\ Bitsets \subseteq Objects /\ Null \notin Objects
        /\ \A o \in Wrappers : o \notin Bitsets
        /\ w \in Wrappers /\ Live(w)
        /\ \A v \in Wrappers : wrapper[v].bitset \in Bitsets \cup {Null}
    BY <1>1 DEF HeapOK, CallersOK, WrapperType, Null
  <1>5. \A o : o \in S <=> o = w \/ (o = wrapper[w].bitset /\ o # Null)
    BY <1>2, <1>4 DEF WithContents
  <1>6. S \subseteq Objects /\ \A o \in S : Live(o)
    BY <1>1, <1>4, <1>5 DEF WrappersOK
  <1>7. /\ Objects' = Objects /\ deleted' \in [Objects -> Nat] /\ FreedOnce'
        /\ \A o \in Objects : deleted'[o] = 0 <=> deleted[o] = 0 /\ o \notin S
    BY <1>1, <1>3, <1>6, DeletingRight
  <1>8. /\ Wrappers' = Wrappers /\ Bitsets' = Bitsets /\ WrapperType' = WrapperType
    BY <1>3 DEF Wrappers, Bitsets, WrapperType
  <1>9. HeapOK'
    BY <1>1, <1>3, <1>7, <1>8 DEF HeapOK
  <1>10. StoredOK' /\ OpenOK'
    BY <1>1, <1>3 DEF StoredOK, OpenOK
  \* Who else has pointers still has live objects.
  <1>11. /\ \A v \in Wrappers : deleted'[v] = 0 <=> Live(v) /\ v # w
         /\ \A b \in Bitsets : deleted'[b] = 0 <=> Live(b) /\ b # wrapper[w].bitset
    BY <1>4, <1>5, <1>7 DEF Live
  <1>12. ReaderOK'
    <2>1. \A d \in Chunks : wrappers[d] # Null => deleted'[wrappers[d]] = 0
      BY <1>1, <1>11 DEF ReaderOK
    <2>2. \A d \in Chunks : bitsets[d] # Null => deleted'[bitsets[d]] = 0
      BY <1>1, <1>4, <1>11 DEF ReaderOK
    <2>3. \A v \in Wrappers : deleted'[v] = 0 => Live(v)
      BY <1>11
    <2>. QED
      BY <1>1, <1>3, <1>8, <2>1, <2>2, <2>3 DEF ReaderOK, Live
  <1>13. WrappersOK'
    <2>1. ASSUME NEW v \in Wrappers, deleted'[v] = 0, wrapper[v].bitset # Null
          PROVE  deleted'[wrapper[v].bitset] = 0
      BY <1>1, <1>4, <1>11, <2>1 DEF WrappersOK
    <2>2. \A v \in Wrappers : deleted'[v] = 0 => Live(v) /\ v # w
      BY <1>11
    <2>. QED
      BY <1>1, <1>3, <1>8, <2>1, <2>2 DEF WrappersOK, Live, Mixed
  <1>14. CallersOK'
    BY <1>1, <1>3, <1>8, <1>11 DEF CallersOK, Live
  <1>15. BitsetsOK'
    <2>. SUFFICES ASSUME NEW b \in Bitsets, deleted'[b] = 0
                  PROVE  \/ \E d \in Chunks : bitsets[d] = b
                         \/ \E v \in owned' : wrapper[v].bitset = b
      BY <1>3, <1>8 DEF BitsetsOK, Live
    <2>. QED
      BY <1>1, <1>3, <1>11 DEF BitsetsOK
  <1>16. ContentsOK'
    BY <1>1, <1>3, <1>8, <1>11 DEF ContentsOK, Live
  <1>. QED
    BY <1>7, <1>9, <1>10, <1>12, <1>13, <1>14, <1>15, <1>16 DEF IInv

\* The destructor deletes what the reader has, and that is nobody else's.
LEMMA DestroyInv ==
    ASSUME IInv, Destroy
    PROVE  IInv'
  <1>1. /\ HeapOK /\ StoredOK /\ ReaderOK /\ WrappersOK /\ CallersOK /\ BitsetsOK
        /\ ContentsOK /\ FreedOnce /\ OpenOK
    BY DEF IInv
  <1>2. PICK S : S = UNION {Destroyed(c) : c \in Chunks}
    OBVIOUS
  <1>3. /\ Deleting(S) /\ lent' = {} /\ wrappers' = [c \in Chunks |-> Null]
        /\ bitsets' = [c \in Chunks |-> Null] /\ open' = FALSE
        /\ UNCHANGED <<stored, wrapper, bitset, owned>>
    BY <1>2 DEF Destroy
  <1>4. /\ Wrappers \subseteq Objects /\ Bitsets \subseteq Objects /\ Null \notin Objects
        /\ \A o \in Wrappers : o \notin Bitsets
        /\ \A v \in Wrappers : wrapper[v].bitset \in Bitsets \cup {Null}
    BY <1>1 DEF HeapOK, WrapperType, Null
  <1>5. \A o : o \in S <=> o # Null /\ \E c \in Chunks : o = wrappers[c] \/ o = bitsets[c]
    <2>1. \A c \in Chunks : Cached(c) => wrapper[wrappers[c]].bitset = bitsets[c]
      BY <1>1 DEF ReaderOK, Cached
    <2>2. \A c \in Chunks : Destroyed(c) = {wrappers[c], bitsets[c]} \ {Null}
      BY <2>1 DEF Destroyed, WithContents, Cached
    <2>. QED
      BY <1>2, <2>2
  <1>6. S \subseteq Objects /\ \A o \in S : Live(o)
    BY <1>1, <1>4, <1>5 DEF ReaderOK
  <1>7. /\ Objects' = Objects /\ deleted' \in [Objects -> Nat] /\ FreedOnce'
        /\ \A o \in Objects : deleted'[o] = 0 <=> deleted[o] = 0 /\ o \notin S
    BY <1>1, <1>3, <1>6, DeletingRight
  <1>8. /\ Wrappers' = Wrappers /\ Bitsets' = Bitsets /\ WrapperType' = WrapperType
    BY <1>3 DEF Wrappers, Bitsets, WrapperType
  <1>9. HeapOK'
    BY <1>1, <1>3, <1>7, <1>8 DEF HeapOK
  <1>10. StoredOK' /\ OpenOK'
    <2>1. open' \in BOOLEAN
      BY <1>3, Zenon
    <2>. QED
      BY <1>1, <1>3, <2>1 DEF StoredOK, OpenOK
  <1>11. \A v \in Wrappers : deleted'[v] = 0 => Live(v) /\ v \in owned
    <2>1. ASSUME NEW v \in Wrappers, deleted'[v] = 0
          PROVE  Live(v) /\ v \in owned
      <3>1. Live(v) /\ v \notin S /\ v # Null /\ wrapper[v].chunk \in Chunks
        BY <1>1, <1>4, <1>7, <2>1 DEF Live, HeapOK, WrapperType
      <3>. QED
        BY <1>1, <1>5, <3>1 DEF WrappersOK
    <2>. QED
      BY <2>1
  <1>12. ASSUME NEW v \in owned
         PROVE  /\ deleted'[v] = 0
                /\ wrapper[v].bitset # Null => deleted'[wrapper[v].bitset] = 0
    <2>1. v \in Wrappers /\ Live(v)
      BY <1>1 DEF CallersOK
    <2>2. \A c \in Chunks : wrappers[c] # v
      BY <1>1, <1>4, <2>1 DEF ReaderOK
    <2>3. v \notin S
      BY <1>1, <1>4, <1>5, <2>1, <2>2 DEF ReaderOK
    <2>4. \A c \in Chunks : bitsets[c] # Null => bitsets[c] # wrapper[v].bitset
      BY <1>1, <2>1, <2>2 DEF ReaderOK
    <2>5. wrapper[v].bitset # Null =>
            wrapper[v].bitset \in Bitsets /\ Live(wrapper[v].bitset) /\ wrapper[v].bitset \notin S
      BY <1>1, <1>4, <1>5, <2>1, <2>4 DEF WrappersOK, ReaderOK
    <2>. QED
      BY <1>4, <1>7, <2>1, <2>3, <2>5 DEF Live
  <1>13. ReaderOK'
    BY <1>3 DEF ReaderOK
  <1>14. WrappersOK'
    BY <1>1, <1>3, <1>8, <1>11, <1>12 DEF WrappersOK, Live, Mixed
  <1>15. CallersOK'
    BY <1>1, <1>3, <1>8, <1>12 DEF CallersOK, Live
  <1>16. BitsetsOK'
    <2>. SUFFICES ASSUME NEW b \in Bitsets, deleted'[b] = 0
                  PROVE  \E v \in owned : wrapper[v].bitset = b
      BY <1>3, <1>8 DEF BitsetsOK, Live
    <2>1. Live(b) /\ b \notin S /\ b # Null
      BY <1>4, <1>7 DEF Live
    <2>. QED
      BY <1>1, <1>5, <2>1 DEF BitsetsOK
  <1>17. ContentsOK'
    BY <1>1, <1>3, <1>8, <1>11 DEF ContentsOK, Live
  <1>. QED
    BY <1>7, <1>9, <1>10, <1>13, <1>14, <1>15, <1>16, <1>17 DEF IInv

---------------------------------------------------------------------------
(* The invariant, and what follows from it *)

LEMMA StepInv == IInv /\ [Next]_vars => IInv'
  <1>. SUFFICES ASSUME IInv, [Next]_vars PROVE IInv'
    OBVIOUS
  <1>1. /\ HeapOK /\ ReaderOK /\ WrappersOK /\ CallersOK
    BY DEF IInv
  <1>2. ASSUME NEW c \in Chunks, Touch(c) PROVE IInv'
    BY <1>2, MakeBitmapInv DEF Touch
  <1>3. ASSUME NEW c \in Chunks, GetBitmap(c) PROVE IInv'
    <2>1. CASE Cached(c)
      <3>1. wrappers[c] \in Wrappers /\ wrapper[wrappers[c]].chunk = c
        BY <1>1, <2>1 DEF ReaderOK, Cached
      <3>2. /\ lent' = lent \cup {wrappers[c]}
            /\ UNCHANGED <<stored, wrappers, bitsets, wrapper, bitset, deleted, owned, open>>
        BY <1>3, <2>1 DEF GetBitmap
      <3>3. CallersOK'
        BY <1>1, <3>1, <3>2 DEF CallersOK, Wrappers, Live
      <3>4. /\ HeapOK' /\ StoredOK' /\ ReaderOK' /\ WrappersOK' /\ BitsetsOK' /\ ContentsOK'
            /\ FreedOnce' /\ OpenOK'
        BY <3>2 DEF IInv, HeapOK, StoredOK, ReaderOK, WrappersOK, BitsetsOK, ContentsOK, FreedOnce,
                    OpenOK, Wrappers, Bitsets, Objects, Live, Mixed, WrapperType
      <3>. QED
        BY <3>3, <3>4 DEF IInv
    <2>2. CASE ~Cached(c)
      BY <1>3, <2>2, MakeBitmapInv DEF GetBitmap
    <2>. QED
      BY <2>1, <2>2
  <1>4. ASSUME NEW c \in Chunks, ReadNulls(c) PROVE IInv'
    <2>1. wrappers[c] \in Wrappers /\ Live(wrappers[c]) /\ wrapper[wrappers[c]].chunk = c
      BY <1>1, <1>4 DEF ReadNulls, ReaderOK, Cached
    <2>. QED
      BY <1>4, <2>1, ExpandInv DEF ReadNulls, Mixed
  <1>5. ASSUME NEW c \in Chunks, ReleaseBitmap(c) \/ ReleaseBitmapOwnership(c) PROVE IInv'
    BY <1>5, ReleaseBitmapInv, ReleaseBitmapOwnershipInv
  <1>6. ASSUME NEW w \in lent \cup owned, TestRow(w) PROVE IInv'
    <2>1. w \in Wrappers /\ Live(w)
      BY <1>1 DEF CallersOK, ReaderOK, HeapOK, WrapperType, Null
    <2>. QED
      BY <1>6, <2>1, ExpandInv DEF TestRow, Mixed
  <1>7. ASSUME NEW w \in owned, DeleteOwned(w) PROVE IInv'
    BY <1>7, DeleteOwnedInv
  <1>8. CASE UNCHANGED vars
    BY <1>8 DEF vars, IInv, HeapOK, StoredOK, ReaderOK, WrappersOK, CallersOK, BitsetsOK, ContentsOK,
                FreedOnce, OpenOK, Wrappers, Bitsets, Objects, Live, Mixed, WrapperType
  <1>. QED
    BY <1>2, <1>3, <1>4, <1>5, <1>6, <1>7, <1>8, DestroyInv DEF Next

\* Every reachable state of a reader satisfies the invariant: heap, reader and callers
\* agree on who has which wrapper and which bitset.
THEOREM Invariance == Spec => []IInv
  <1>. QED
    BY InitInv, StepInv, PTL DEF Spec

\* Every variable of the reader keeps its type.
THEOREM TypeCorrect == Spec => []TypeOK
  <1>1. IInv => TypeOK
    BY DEF IInv, HeapOK, StoredOK, ReaderOK, CallersOK, OpenOK, TypeOK, Wrappers, Bitsets, WrapperType
  <1>. QED
    BY <1>1, Invariance, PTL

\* Whoever reads a null map, through a bitset that served another wrapper before or not,
\* reads the one compress was given (BitmapWrapper::get_bitset).
THEOREM NullmapsAreRight == Spec => []NullmapRight
  <1>1. IInv => NullmapRight
    BY DEF IInv, ContentsOK, NullmapRight, LiveWrappers, Wrappers
  <1>. QED
    BY <1>1, Invariance, PTL

\* No wrapper and no bitset is deleted twice, by the reader, its wrappers and the callers
\* together, in any order of calls.
THEOREM ObjectsAreFreedOnce == Spec => []FreedOnce
  <1>1. IInv => FreedOnce
    BY DEF IInv
  <1>. QED
    BY <1>1, Invariance, PTL

\* No pointer of the reader, of a wrapper or of a caller that may still be followed leads
\* to a deleted object, and no two wrappers share a bitset.
THEOREM NothingDangles == Spec => []NoDangling
  <1>1. ASSUME IInv PROVE NoDangling
    <2>1. HeapOK /\ ReaderOK /\ WrappersOK /\ CallersOK
      BY <1>1 DEF IInv
    <2>2. \A o \in Slots(wrappers) \cup Slots(bitsets) \cup owned : Live(o)
      BY <2>1 DEF Slots, ReaderOK, CallersOK
    <2>3. \A w \in lent : Live(w)
      BY <2>1 DEF CallersOK, ReaderOK, HeapOK, WrapperType, Null
    <2>4. /\ \A w \in LiveWrappers : wrapper[w].bitset # Null => Live(wrapper[w].bitset)
          /\ \A v, w \in LiveWrappers :
               v # w /\ wrapper[v].bitset # Null => wrapper[v].bitset # wrapper[w].bitset
      BY <2>1 DEF LiveWrappers, WrappersOK, Wrappers
    <2>5. \A c \in Chunks : Cached(c) /\ bitsets[c] # Null => wrapper[wrappers[c]].bitset = bitsets[c]
      BY <2>1 DEF Cached, ReaderOK
    <2>. QED
      BY <2>2, <2>3, <2>4, <2>5 DEF NoDangling
  <1>. QED
    BY <1>1, Invariance, PTL

\* Every object not deleted yet is known to somebody who deletes it in the end: nothing is
\* lost when a wrapper gives up its bitset or the reader gives up both.
THEOREM EverythingIsHeld == Spec => []NothingLeaks
  <1>1. ASSUME IInv PROVE NothingLeaks
    <2>. DEFINE holders == Slots(wrappers) \cup owned
    <2>. SUFFICES ASSUME NEW o \in Objects, Live(o)
                  PROVE  o \in holders \cup Slots(bitsets) \cup {wrapper[w].bitset : w \in holders}
      BY DEF NothingLeaks
    <2>1. HeapOK /\ WrappersOK /\ BitsetsOK
      BY <1>1 DEF IInv
    <2>2. o # Null /\ o \in Wrappers \cup Bitsets
      BY <2>1 DEF HeapOK, Null
    <2>3. CASE o \in Wrappers
      <3>1. wrapper[o].chunk \in Chunks
        BY <2>1, <2>3 DEF HeapOK, WrapperType
      <3>2. o \in owned \/ o \in Slots(wrappers)
        BY <2>1, <2>2, <2>3, <3>1 DEF WrappersOK, Slots
      <3>. QED
        BY <3>2
    <2>4. CASE o \in Bitsets
      <3>1. CASE \E c \in Chunks : bitsets[c] = o
        BY <2>2, <3>1 DEF Slots
      <3>2. CASE \E w \in owned : wrapper[w].bitset = o
        BY <3>2
      <3>. QED
        BY <2>1, <2>4, <3>1, <3>2 DEF BitsetsOK
    <2>. QED
      BY <2>2, <2>3, <2>4
  <1>. QED
    BY <1>1, Invariance, PTL
=============================================================================
