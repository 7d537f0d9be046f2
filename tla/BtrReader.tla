------------------------------ MODULE BtrReader ------------------------------
(***************************************************************************)
(* Who owns the null maps of a column part that is being read.             *)
(*                                                                         *)
(* A BtrReader keeps, per chunk, a BitmapWrapper and, apart from it, the   *)
(* bitset the wrapper expands the compressed null map into.  The wrapper's *)
(* destructor deletes the bitset; releaseBitmap takes the bitset away from *)
(* the wrapper first, to use it again; releaseBitmapOwnership gives both   *)
(* away; the reader's destructor must delete exactly the rest.             *)
(*                                                                         *)
(* Objects are numbers, never used twice, and a deleted object stays       *)
(* known, so that a second delete or a pointer to it can be seen.          *)
(***************************************************************************)
EXTENDS Integers, FiniteSets

CONSTANTS
    Chunks,          \* the chunks of the part
    Rows,            \* the rows of a chunk
    Nullmaps,        \* bound: sets of non-null rows a chunk may have
    MaxObjects       \* bound: wrappers and bitsets ever allocated

ASSUME BoundsAssumption ==
    /\ IsFiniteSet(Rows) /\ Rows # {}
    /\ Nullmaps \subseteq SUBSET Rows
    /\ MaxObjects \in Nat

VARIABLES
    stored,     \* [Chunks -> the null map as compressed, and the rows it is about]
    wrappers,   \* m_bitmap_wrappers: [Chunks -> object or Null]
    bitsets,    \* m_bitsets: [Chunks -> object or Null]
    wrapper,    \* the wrapper objects ever allocated: [object -> its fields]
    bitset,     \* the bitset objects ever allocated: [object -> the bits set]
    deleted,    \* [object -> how often it was deleted]
    lent,       \* wrappers a caller got from getBitmap and may still use
    owned,      \* wrappers a caller got from releaseBitmapOwnership
    open        \* the reader is not destroyed yet

vars == <<stored, wrappers, bitsets, wrapper, bitset, deleted, lent, owned, open>>

Null == 0
Objects == DOMAIN deleted
Live(o) == deleted[o] = 0

\* The new object that comes k-th in an action.
Fresh(k) == Cardinality(Objects) + k

Uniform == {"ALLONES", "ALLZEROS"}

---------------------------------------------------------------------------
(* The compressed null map *)

\* RoaringBitmap::compress keeps the rarer of ones and zeros, or just the type.
TypeOf(ones) ==
    LET n == Cardinality(ones) IN
    CASE n = 0                                -> "ALLZEROS"
      [] n = Cardinality(Rows)                -> "ALLONES"
      [] n \in 1..(Cardinality(Rows) \div 2 - 1) -> "REGULAR"
      [] OTHER                                -> "FLIPPED"

Compressed_NeverFlipped(ones) ==
    [ones |-> ones, type |-> TypeOf(ones),
     roaring |-> IF TypeOf(ones) \in Uniform THEN {} ELSE ones]
Compressed(ones) ==
    [ones |-> ones, type |-> TypeOf(ones),
     roaring |-> CASE TypeOf(ones) = "REGULAR" -> ones
                   [] TypeOf(ones) = "FLIPPED" -> Rows \ ones
                   [] OTHER                    -> {}]

\* BitmapWrapper: the cardinality it reports for a stored map.
CardinalityOf_Swapped(s) ==
    CASE s.type = "ALLONES"  -> Cardinality(Rows)
      [] s.type = "ALLZEROS" -> 0
      [] s.type = "REGULAR"  -> Cardinality(s.roaring)
      [] s.type = "FLIPPED"  -> Cardinality(s.roaring) - Cardinality(Rows)
CardinalityOf(s) ==
    CASE s.type = "ALLONES"  -> Cardinality(Rows)
      [] s.type = "ALLZEROS" -> 0
      [] s.type = "REGULAR"  -> Cardinality(s.roaring)
      [] s.type = "FLIPPED"  -> Cardinality(Rows) - Cardinality(s.roaring)

\* BitmapWrapper::get_bitset: what a bitset holds once it is filled.  It is set
\* or reset as a whole first: an earlier wrapper may have left bits in it.
Filled_NoReset(s, before) ==
    CASE s.type = "ALLONES"  -> Rows
      [] s.type = "ALLZEROS" -> {}
      [] s.type = "REGULAR"  -> before \cup s.roaring
      [] s.type = "FLIPPED"  -> before \ s.roaring
Filled(s, before) ==
    CASE s.type = "ALLONES"  -> Rows
      [] s.type = "ALLZEROS" -> {}
      [] s.type = "REGULAR"  -> s.roaring
      [] s.type = "FLIPPED"  -> Rows \ s.roaring

---------------------------------------------------------------------------
(* BtrReader::getBitmap and BitmapWrapper::get_bitset *)

Room(k) == Cardinality(Objects) + k <= MaxObjects

\* Whether getBitmap allocates a bitset for the chunk before the wrapper.
NeedsBitset(c) == bitsets[c] = Null /\ stored[c].type \notin Uniform

\* The reader's slots and the heap, with one more bitset and one more wrapper.
WithBitset(c) ==
    IF NeedsBitset(c) THEN [bitsets EXCEPT ![c] = Fresh(1)] ELSE bitsets

NewWrapper(c, b) ==
    [chunk |-> c, bitset |-> b, initialized |-> FALSE, cardinality |-> CardinalityOf(stored[c])]

\* One new object per allocation: the bitset if needed, then the wrapper.
MakeBitmap(c) ==
    LET n == IF NeedsBitset(c) THEN 2 ELSE 1
        b == WithBitset(c)[c] IN
    /\ Room(n)
    /\ bitsets' = WithBitset(c)
    /\ wrappers' = [wrappers EXCEPT ![c] = Fresh(n)]
    /\ deleted' = [o \in 1..Fresh(n) |-> IF o \in Objects THEN deleted[o] ELSE 0]
    /\ bitset' = [o \in DOMAIN bitset \cup (IF n = 2 THEN {Fresh(1)} ELSE {}) |->
                    IF o \in DOMAIN bitset THEN bitset[o] ELSE {}]
    /\ wrapper' = [o \in DOMAIN wrapper \cup {Fresh(n)} |->
                     IF o \in DOMAIN wrapper THEN wrapper[o] ELSE NewWrapper(c, b)]

Cached(c) == wrappers[c] # Null

\* readColumn, gatherColumn and the size functions ask for the bitmap of each
\* chunk they touch and keep it cached; the caller sees no pointer.
Touch(c) ==
    /\ open
    /\ ~Cached(c)
    /\ MakeBitmap(c)
    /\ UNCHANGED <<stored, lent, owned, open>>

\* getBitmap hands the cached wrapper, or a new one, to the caller.
GetBitmap(c) ==
    /\ open
    /\ \/ /\ Cached(c)
          /\ wrappers[c] \notin lent
          /\ lent' = lent \cup {wrappers[c]}
          /\ UNCHANGED <<wrappers, bitsets, wrapper, bitset, deleted>>
       \/ /\ ~Cached(c)
          /\ MakeBitmap(c)
          /\ lent' = lent \cup {wrappers'[c]}
    /\ UNCHANGED <<stored, owned, open>>

\* The bitset of wrapper w, allocated by the wrapper itself if it has none.
Expand(w) ==
    LET s == stored[wrapper[w].chunk]
        b == IF wrapper[w].bitset = Null THEN Fresh(1) ELSE wrapper[w].bitset
        before == IF b \in DOMAIN bitset THEN bitset[b] ELSE {} IN
    /\ ~wrapper[w].initialized
    /\ b = wrapper[w].bitset \/ Room(1)
    /\ wrapper' = [wrapper EXCEPT ![w].bitset = b, ![w].initialized = TRUE]
    /\ bitset' = [o \in DOMAIN bitset \cup {b} |->
                    IF o = b THEN Filled(s, before) ELSE bitset[o]]
    /\ deleted' = [o \in Objects \cup {b} |-> IF o \in Objects THEN deleted[o] ELSE 0]

\* A scheme that decodes around the nulls (TRUNCATION) tests the rows of a
\* bitmap that is neither all ones nor all zeros.
ReadNulls(c) ==
    /\ open
    /\ Cached(c)
    /\ stored[c].type \notin Uniform
    /\ Expand(wrappers[c])
    /\ UNCHANGED <<stored, wrappers, bitsets, lent, owned, open>>

\* A caller tests rows through a pointer it still may use.  No program of the repository
\* tests those of a uniform bitmap.
TestRow(w) ==
    /\ stored[wrapper[w].chunk].type \notin Uniform
    /\ Expand(w)
    /\ UNCHANGED <<stored, wrappers, bitsets, lent, owned, open>>

---------------------------------------------------------------------------
(* Releasing *)

Deleting(objects) ==
    deleted' = [o \in Objects |-> IF o \in objects THEN deleted[o] + 1 ELSE deleted[o]]

\* delete of a wrapper runs its destructor; delete of a null pointer is nothing.
WithContents(w) == {w, wrapper[w].bitset} \ {Null}

\* What releaseBitmap deletes: the wrapper, whose bitset was taken away first.
ReleasedObjects_WithBitset(w) == WithContents(w)
ReleasedObjects(w) == {w}

ReleaseBitmap(c) ==
    /\ open
    /\ Cached(c)
    /\ wrapper' = [wrapper EXCEPT ![wrappers[c]].bitset = Null,
                                  ![wrappers[c]].initialized = FALSE]
    /\ Deleting(ReleasedObjects(wrappers[c]))
    /\ wrappers' = [wrappers EXCEPT ![c] = Null]
    /\ lent' = lent \ {wrappers[c]}
    /\ UNCHANGED <<stored, bitsets, bitset, owned, open>>

\* What is left in m_bitsets when the ownership has been given away.
LeftBitset_Kept(c) == bitsets[c]
LeftBitset(c) == Null

\* Nor does any ask for the ownership of a bitmap it has released.
ReleaseBitmapOwnership(c) ==
    /\ open
    /\ Cached(c) \/ bitsets[c] = Null
    /\ owned' = owned \cup ({wrappers[c]} \ {Null})
    /\ lent' = lent \ {wrappers[c]}
    /\ wrappers' = [wrappers EXCEPT ![c] = Null]
    /\ bitsets' = [bitsets EXCEPT ![c] = LeftBitset(c)]
    /\ UNCHANGED <<stored, wrapper, bitset, deleted, open>>

DeleteOwned(w) ==
    /\ Deleting(WithContents(w))
    /\ owned' = owned \ {w}
    /\ UNCHANGED <<stored, wrappers, bitsets, wrapper, bitset, lent, open>>

\* What ~BtrReader deletes for a chunk.
Destroyed_OnlyWrappers(c) == IF Cached(c) THEN WithContents(wrappers[c]) ELSE {}
Destroyed(c) == IF Cached(c) THEN WithContents(wrappers[c]) ELSE {bitsets[c]} \ {Null}

Destroy ==
    /\ open
    /\ Deleting(UNION {Destroyed(c) : c \in Chunks})
    /\ open' = FALSE
    /\ lent' = {}
    /\ wrappers' = [c \in Chunks |-> Null]
    /\ bitsets' = [c \in Chunks |-> Null]
    /\ UNCHANGED <<stored, wrapper, bitset, owned>>

---------------------------------------------------------------------------
Init ==
    /\ \E ones \in [Chunks -> Nullmaps] : stored = [c \in Chunks |-> Compressed(ones[c])]
    /\ wrappers = [c \in Chunks |-> Null]
    /\ bitsets = [c \in Chunks |-> Null]
    /\ wrapper = <<>>
    /\ bitset = <<>>
    /\ deleted = <<>>
    /\ lent = {}
    /\ owned = {}
    /\ open = TRUE

Next ==
    \/ \E c \in Chunks : \/ Touch(c) \/ GetBitmap(c) \/ ReadNulls(c)
                         \/ ReleaseBitmap(c) \/ ReleaseBitmapOwnership(c)
    \/ \E w \in lent \cup owned : TestRow(w)
    \/ \E w \in owned : DeleteOwned(w)
    \/ Destroy

Spec == Init /\ [][Next]_vars

---------------------------------------------------------------------------
(* Properties *)

Slots(f) == {f[c] : c \in Chunks} \ {Null}
LiveWrappers == {w \in DOMAIN wrapper : Live(w)}

TypeOK ==
    /\ \A c \in Chunks : stored[c] \in {Compressed(ones) : ones \in Nullmaps}
    /\ DOMAIN wrapper \cap DOMAIN bitset = {}
    /\ DOMAIN wrapper \cup DOMAIN bitset = Objects
    /\ deleted \in [Objects -> Nat]
    /\ wrappers \in [Chunks -> DOMAIN wrapper \cup {Null}]
    /\ bitsets \in [Chunks -> DOMAIN bitset \cup {Null}]
    /\ \A w \in DOMAIN wrapper :
         /\ wrapper[w].chunk \in Chunks
         /\ wrapper[w].bitset \in DOMAIN bitset \cup {Null}
         /\ wrapper[w].initialized \in BOOLEAN
         /\ wrapper[w].cardinality \in 0..Cardinality(Rows)
    /\ \A b \in DOMAIN bitset : bitset[b] \subseteq Rows
    /\ lent \cup owned \subseteq DOMAIN wrapper
    /\ open \in BOOLEAN

\* Who can read a null map reads the one of its chunk: an expanded bitmap holds
\* the rows compress was given, and its cardinality is theirs, also when the
\* bitset has served an earlier wrapper (BitmapWrapper::get_bitset).
NullmapRight ==
    \A w \in LiveWrappers :
        LET s == stored[wrapper[w].chunk] IN
        /\ wrapper[w].cardinality = Cardinality(s.ones)
        /\ wrapper[w].initialized => bitset[wrapper[w].bitset] = s.ones

\* No object is deleted twice: wrapper and reader both know the bitset
\* (~BitmapWrapper, ~BtrReader, releaseBitmap, releaseBitmapOwnership).
FreedOnce == \A o \in Objects : deleted[o] <= 1

\* Every pointer somebody may follow leads to a live object, no two wrappers
\* share a bitset, and a cached wrapper and the reader mean the same bitset
\* unless the wrapper made its own (getBitmap, releaseBitmap, ~BtrReader).
NoDangling ==
    /\ \A o \in Slots(wrappers) \cup Slots(bitsets) \cup lent \cup owned : Live(o)
    /\ \A w \in LiveWrappers : wrapper[w].bitset # Null => Live(wrapper[w].bitset)
    /\ \A v, w \in LiveWrappers :
         v # w /\ wrapper[v].bitset # Null => wrapper[v].bitset # wrapper[w].bitset
    /\ \A c \in Chunks : Cached(c) /\ bitsets[c] # Null => wrapper[wrappers[c]].bitset = bitsets[c]

\* Every live object will still be deleted by someone: the reader holds it, or
\* the caller who took its ownership (the comment in ~BtrReader).
NothingLeaks ==
    LET holders == Slots(wrappers) \cup owned IN
    \A o \in Objects : Live(o) =>
        o \in holders \cup Slots(bitsets) \cup {wrapper[w].bitset : w \in holders}
=============================================================================
