----------------------------- MODULE StringCodecs -----------------------------
(***************************************************************************)
(* The string schemes as functions: what they keep of a column, and the    *)
(* bytes they write when they give it back.                                *)
(*                                                                         *)
(* Memory is a function from addresses to cells.  A character takes one    *)
(* cell, a slot (a 32-bit offset) takes SlotBytes of them and reads as     *)
(* Lost unless all are still its own; this is what makes a store that      *)
(* reaches over its end visible.  Strings are sequences of characters,     *)
(* positions count from 0.                                                 *)
(***************************************************************************)
EXTENDS Integers, SequencesExt

CONSTANTS
    SlotBytes,       \* sizeof(StringArrayViewer::Slot)
    OffsetBatch,     \* offsets writeOffsetsU32 stores at once
    RunViews,        \* views the run loop of decompressNoCopy stores at once
    ValueViews,      \* views ONE_VALUE stores at once
    SimdExtra,       \* SIMD_EXTRA_BYTES
    FsstOverrun,     \* cells fsst_decompress may touch behind its output
    DictHeader,      \* sizeof(DynamicDictionaryStructure) + FSST_MAXHEADER
    DictFsstSize,    \* cfg.strings.dict_fsst_input_size_threshold
    FsstThreshold,   \* SchemeConfig::FSST_THRESHOLD
    CodeLimit,       \* numeric_limits<u8>::max(), of DICTIONARY_8
    RleHeader,       \* sizeof(RLEStructure)
    CodesDepth,      \* cfg.strings.fsst_codes_max_cascade_depth
    CodesTryAll,     \* whether cfg.scheme_selection is TRY_ALL
    StringSchemes    \* the schemes of the pool

\* The static assertion of decompressNoCopy, and the room Utils.hpp asks for.
ASSUME SimdAssumption ==
    /\ {SlotBytes, OffsetBatch, RunViews, ValueViews} \subseteq Nat \ {0}
    /\ SimdExtra \in Nat /\ FsstOverrun \in Nat
    /\ SimdExtra >= ValueViews * (2 * SlotBytes)
    /\ SimdExtra >= OffsetBatch * SlotBytes
ASSUME CodesAssumption == {RleHeader, CodesDepth} \subseteq Nat /\ CodesTryAll \in BOOLEAN
ASSUME PoolAssumption ==
    /\ {"ONE_VALUE", "UNCOMPRESSED"} \subseteq StringSchemes
    /\ StringSchemes \subseteq {"ONE_VALUE", "UNCOMPRESSED", "DICT", "FSST", "DICTIONARY_8"}

ViewBytes == 2 * SlotBytes
Lost == -1
Junk == <<Lost, 0>>
SumOf(s) == FoldSeq(LAMBDA x, n : x + n, 0, s)

\* A function over another one, and the members of a set in their order: the k-th has
\* k - 1 of them before it.
Over(new, old) ==
    [x \in DOMAIN new \cup DOMAIN old |-> IF x \in DOMAIN new THEN new[x] ELSE old[x]]
Ranked(set, op(_, _)) ==
    [k \in 1..Cardinality(set) |-> CHOOSE s \in set : Cardinality({t \in set : op(t, s)}) = k - 1]

---------------------------------------------------------------------------
(* Memory *)

Put(memory, at, cells) == Over([a \in {at + i : i \in DOMAIN cells} |-> cells[a - at]], memory)
Characters(s) == [i \in 0..(Len(s) - 1) |-> <<s[i + 1], 0>>]
Words(s) == [i \in 0..(SlotBytes * Len(s) - 1) |-> <<s[(i \div SlotBytes) + 1], i % SlotBytes>>]
Cell(memory, at) == IF at \in DOMAIN memory THEN memory[at] ELSE Junk

Word(memory, at) ==
    IF \A k \in 0..(SlotBytes - 1) : Cell(memory, at + k) = <<Cell(memory, at)[1], k>>
    THEN Cell(memory, at)[1] ELSE Lost
Text(memory, at, length) == [k \in 1..length |-> Cell(memory, at + k - 1)[1]]

\* StringArrayViewer: a string ends where the next one starts.
StringAt(memory, i) ==
    LET from == Word(memory, SlotBytes * i)
        to == Word(memory, SlotBytes * (i + 1))
    IN  IF Lost \in {from, to} \/ to < from THEN <<Lost>> ELSE Text(memory, from, to - from)
\* StringPointerArrayViewer: length and offset side by side.
ViewedAt(memory, i) ==
    LET length == Word(memory, ViewBytes * i)
        from == Word(memory, ViewBytes * i + SlotBytes)
    IN  IF Lost \in {length, from} THEN <<Lost>> ELSE Text(memory, from, length)

---------------------------------------------------------------------------
(* Statistics and the choice of a scheme *)

Less(s, t) ==
    \/ IsStrictPrefix(s, t)
    \/ \E i \in DOMAIN s \cap DOMAIN t : s[i] < t[i] /\ \A j \in 1..(i - 1) : s[j] = t[j]

\* A null counts as the empty string.
NullsAsStrings(nulls) == IF nulls = 0 THEN {} ELSE {<<>>}
Stats(chunk) ==
    LET set == {i \in DOMAIN chunk.present : chunk.present[i]}
        nulls == Len(chunk.present) - Cardinality(set)
        distinct == {StringAt(chunk.memory, i - 1) : i \in set} \cup NullsAsStrings(nulls)
    IN  [tuples |-> Len(chunk.present), nulls |-> nulls, totalSize |-> chunk.size,
         distinct |-> Ranked(distinct, Less),
         totalLength |-> MapThenSumSet(LAMBDA i : Len(StringAt(chunk.memory, i - 1)), set),
         uniqueLength |-> MapThenSumSet(Len, distinct)]

\* Rows the pool's FSST leaves to DICT: less than half of them distinct.
FewDistinct(stats) == Len(stats.distinct) < (stats.tuples - stats.nulls) \div 2
Usable(stats) ==
    {scheme \in StringSchemes :
        /\ scheme = "DICT" /\ "FSST" \in StringSchemes => FewDistinct(stats)
        /\ scheme = "FSST" => ~FewDistinct(stats) /\ stats.totalLength > FsstThreshold}

BitsOf(n) == CHOOSE b \in 1..(n + 1) : 2^(b - 1) <= n /\ n < 2^b
DictSize(stats) ==
    DictHeader + (stats.tuples * BitsOf(Len(stats.distinct))) \div 8
    + SlotBytes * (1 + Len(stats.distinct))
    + IF stats.uniqueLength >= DictFsstSize THEN stats.uniqueLength \div 2 ELSE stats.uniqueLength
\* expectedCompressionRatio, as a pair
Ratio(scheme, stats) ==
    CASE scheme = "ONE_VALUE" -> IF Len(stats.distinct) <= 1 THEN <<stats.tuples, 1>> ELSE <<0, 1>>
      [] scheme = "DICT" -> <<stats.totalSize, DictSize(stats)>>
      [] scheme = "DICTIONARY_8" ->
           IF Len(stats.distinct) > CodeLimit THEN <<0, 1>>
           ELSE <<stats.totalSize, stats.tuples + SlotBytes * (1 + Len(stats.distinct))
                                   + ViewBytes + stats.uniqueLength>>
      [] OTHER -> <<1, 1>>
AtLeast(p, q) == p[1] * q[2] >= q[1] * p[2]
\* Among equals the order of the pool decides, and that is a hash map's.
Best(stats) ==
    {scheme \in Usable(stats) :
        \A other \in Usable(stats) : AtLeast(Ratio(scheme, stats), Ratio(other, stats))}

---------------------------------------------------------------------------
(* compress *)

\* lower_bound in the sorted distinct strings
CodeOf(distinct, s) == Cardinality({i \in DOMAIN distinct : Less(distinct[i], s)})
Extended(runs, c) ==
    IF runs # <<>> /\ Last(runs).code = c THEN [runs EXCEPT ![Len(runs)].count = @ + 1]
    ELSE Append(runs, [code |-> c, count |-> 1])
Runs(codes) ==
    LET runs[k \in 0..Len(codes)] == IF k = 0 THEN <<>> ELSE Extended(runs[k - 1], codes[k])
    IN  runs[Len(codes)]

\* RLE is forced on the codes when their runs are longer than three on average.
ByRuns(codes, runs) == Len(codes) > 3 * Len(runs)
\* What it takes is its header and two streams of `runs` integers, the second counted twice;
\* a stream is never larger than raw nor smaller than a word.  The codes end up as something
\* else at the bottom of the cascade, when all schemes are tried, or when RLE is larger than
\* the codes are raw.
RunsMayBeKept(rows) == CodesDepth > 0 /\ RleHeader + 3 * SlotBytes <= SlotBytes * rows
RunsMayBeLost(rows, runs) ==
    CodesDepth = 0 \/ CodesTryAll \/ RleHeader + 3 * (SlotBytes * runs) > SlotBytes * rows
RunSchemes(rows, runs) ==
    {scheme \in {"RLE", "other"} : /\ scheme = "RLE" => RunsMayBeKept(rows)
                                  /\ scheme = "other" => RunsMayBeLost(rows, runs)}
CodesOf(chunk, stats) ==
    [i \in 1..stats.tuples |-> CodeOf(stats.distinct, StringAt(chunk.memory, i - 1))]
Dictionary(chunk, stats, fsst) ==
    LET codes == CodesOf(chunk, stats)
        runs == Runs(codes)
        byRuns == ByRuns(codes, runs)
        codesSchemes == IF byRuns THEN RunSchemes(Len(codes), Len(runs)) ELSE {"other"}
    IN  {[scheme |-> "DICT", totalSize |-> stats.totalSize, strings |-> stats.distinct,
          codes |-> codes, runs |-> runs, byRuns |-> byRuns, codesScheme |-> s,
          fsst |-> fsst] : s \in codesSchemes}
FixedDictionary(chunk, stats) ==
    [scheme |-> "DICTIONARY_8", totalSize |-> stats.totalSize, strings |-> stats.distinct,
     codes |-> CodesOf(chunk, stats)]

\* The slots are compressed as integers, all strings as one text.
Fsst(chunk, stats) ==
    [scheme |-> "FSST", totalSize |-> stats.totalSize,
     offsets |-> [i \in 1..(stats.tuples + 1) |-> Word(chunk.memory, SlotBytes * (i - 1))],
     text |-> FlattenSeq([i \in 1..stats.tuples |-> StringAt(chunk.memory, i - 1)])]
Uncompressed(chunk, stats) ==
    [scheme |-> "UNCOMPRESSED", totalSize |-> stats.totalSize, memory |-> chunk.memory]
OneValue(stats) == [scheme |-> "ONE_VALUE", value |-> stats.distinct[1]]

\* use_fsst of DICT: the two switches of the configuration and the size threshold
UsesFsst(stats, config) ==
    config.forceFsst \/ (config.allowFsst /\ stats.uniqueLength >= DictFsstSize)

\* All that a scheme may make of the chunk.
Compressed(scheme, chunk, stats, config) ==
    CASE scheme = "ONE_VALUE"    -> {OneValue(stats)}
      [] scheme = "UNCOMPRESSED" -> {Uncompressed(chunk, stats)}
      [] scheme = "FSST"         -> {Fsst(chunk, stats)}
      [] scheme = "DICTIONARY_8" -> {FixedDictionary(chunk, stats)}
      [] scheme = "DICT"         -> Dictionary(chunk, stats, UsesFsst(stats, config))

---------------------------------------------------------------------------
(* The helpers of decompression *)

Batches(n, batch) == batch * ((n + batch - 1) \div batch)

\* At least n offsets; never less than one batch.
WriteOffsets(memory, at, start, length, n) ==
    LET count == IF n <= OffsetBatch THEN OffsetBatch ELSE Batches(n, OffsetBatch)
    IN  Put(memory, at, Words([k \in 1..count |-> start + (k - 1) * length]))

\* n strings, the first of them from `source`, which holds sourceCount; the copy doubles.
MultiplyString(memory, dest, source, at, length, n, sourceCount) ==
    LET known == IF n < sourceCount THEN n ELSE sourceCount
    IN  IF n = 0 \/ length = 0 THEN memory
        ELSE Put(memory, dest,
                 [j \in 0..(n * length - 1) |->
                    Cell(source, at + ((j \div length) % known) * length + (j % length))])

\* Some of the cells behind the output are written, too.
FsstDecompressed(memory, at, s) ==
    Put(memory, at, [i \in 0..(Len(s) + FsstOverrun - 1) |-> IF i < Len(s) THEN <<s[i + 1], 0>> ELSE Junk])

---------------------------------------------------------------------------
(* Sizes *)

SlotsSize(tuples) == SlotBytes * (tuples + 1)

GetDecompressedSize(kept, tuples, set) ==
    IF kept.scheme = "ONE_VALUE" THEN SlotsSize(tuples) + set * Len(kept.value) ELSE kept.totalSize
GetDecompressedSizeNoCopy(kept, tuples, set) ==
    CASE kept.scheme = "ONE_VALUE" -> tuples * ViewBytes + Len(kept.value)
      [] kept.scheme = "DICT" -> kept.totalSize - SlotsSize(tuples) + (tuples + RunViews) * ViewBytes
      [] OTHER -> kept.totalSize
GetTotalLength(kept, tuples, set) ==
    IF kept.scheme = "ONE_VALUE" THEN set * Len(kept.value) ELSE kept.totalSize - SlotsSize(tuples)
=============================================================================
