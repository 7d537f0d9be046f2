# A TLA+ model of BtrBlocks

BtrBlocks compresses the columns of a relation chunk by chunk. Every chunk gets
a *scheme*; a scheme that leaves streams of numbers behind (the values and
counts of an RLE, the codes of a dictionary) gives them back to the scheme
picker, so that a chunk is stored as a *cascade* of schemes. Around that, tools
convert CSV files into directories of column files and back, and download and
decompress them from S3. This directory models the parts whose correctness does
not follow from reading one function.

All paths below are relative to the repository (`src/btrblocks/...`,
`src/tools/...`); a file named without a directory is named in full in
`PROJECT.json`.

## 1. Inventory

| Part | State it keeps | Operations | Talks to | Modelled by |
|---|---|---|---|---|
| Scheme picker, `compression/SchemePicker.hpp` | none of its own; reads the next three | `compress`, `chooseScheme`, the logging re-estimate | every scheme, by call and by recursion | `SchemePicker` |
| Thread cache, `cache/ThreadCache.hpp` | thread-local `compression_level`, `estimation_level` | raised and lowered by the picker, `expectedCompressionRatio`, `NestedCompressionScope` | picker, SUB_INT_SPLIT, FSST | `SchemePicker` |
| Estimation, `scheme/CompressionScheme*.cpp` | none | `expectedCompressionRatio`: compress a sample | the scheme's own `compress` | `SchemePicker` (ratios as classes) |
| Configuration and pool, `btrblocks.hpp`, `scheme/SchemeConfig.hpp`, `scheme/SchemePool.cpp` | process-wide: enabled schemes, one-shot `override_scheme`, forced sub-schemes, depths | set by the user, the override reset by the picker | picker, every scheme | `SchemePicker` |
| SUB_INT_SPLIT encoder, `scheme/integer/subintsplit/SubIntSplitCore.hpp` | thread-local section buffer per width, `lastPlanReport` | `encode`, raw fallback, `decode`, `gather` | picker (one call per section), planner | `SchemePicker` (nesting), `SplitEncoder` (bytes), `NumberColumns` (values) |
| SUB_INT_SPLIT planner, `subintsplit/{Sampler,Metrics,CostModels,Selector,Plan}` | a thread-local sample, scored ranges | sampling, scoring, dynamic program, forced boundaries | encoder | `SplitPlanner` |
| Number schemes, `scheme/templated`, `scheme/integer`, `scheme/integer64`, `scheme/double` | scratch per cascade level | `compress`, `decompress`, `gather` | picker, each other | `NumberCodecs`, `NumberColumns`; `BitPacking` for the bytes of FBP and PBP |
| String schemes, `scheme/string`, `templated/VarDictionary.hpp` | thread-local caches of decompressed strings and views | `compress`, `decompress`, `decompressNoCopy`, the sizes | picker (code streams) | `StringCodecs`, `Datablocks`; `SchemePicker` for the control |
| Datablock, `compression/Datablock.cpp` | none | `compress`, `decompress`, `compress(InputChunk)`, `writeMetadata` | pickers, schemes | `Datablocks`, `ColumnFiles` (metadata) |
| Column reader, `compression/BtrReader.cpp`, `extern/RoaringBitmap.cpp` | per chunk a null-map wrapper and its bitset | `readColumn`, `gatherColumn`, `getBitmap`, `releaseBitmap`, `releaseBitmapOwnership`, destructor, sizes | schemes | `BtrReader` (null maps), `NumberColumns` (values), `Datablocks` (sizes) |
| Column parts and metadata, `storage/Chunk.cpp` | chunks of the open part | `canAdd`, `addCompressedChunk`, `writeToDisk` | Datablock, tools | `ColumnFiles` |
| Relation, `storage/Relation.cpp`, `btrfiles/Relation.cpp` | columns | `getRanges`, `getChunk`, `getInputChunk`, `fixTupleCount` | Datablock | `ColumnFiles` (ranges), `Datablocks` (copies) |
| Column storage, `storage/{MMapVector,StringArrayViewer,StringPointerArrayViewer}.hpp` | slots and bytes | subscripts | everything | `StringCodecs`, `Datablocks` |
| Statistics, `stats/` | distinct values, counts, extremes | generated per chunk, `samples` | schemes | where schemes decide by them |
| CSV conversion, `btrfiles/Parser.cpp` | column files being written | `convertCSV`, `readDirectory` | Relation | `Datablocks` |
| `csvtobtr`, `btrtocsv`, `tools/conversion` | counters per column, readers per part | the conversion and reading loops | all of the above | `ColumnFiles` |
| S3 download, `tools/conversion/{s3-management.hpp,decompression-speed-s3.cpp}` | buffers, queue, map from streams to buffers, counters | request, stream factory, callback, decompressor node, wait | the S3 client, TBB | `S3Fetch` |
| Measurement programs, benchmarks, playground | input and output | | | not modelled |

### What is hard here

* **A recursion held together by hand-maintained counters.** The picker decides
  by `compression_level` whether it is nested and by `estimation_level` whether
  it is only estimating; both are thread-local, raised and lowered by hand in
  three places, over a recursion with early exits.
* **Estimates re-enter everything.** To choose a scheme the picker runs
  candidates on samples, through the same code, buffers and reports as the real
  compression, before and, for the log, after it.
* **A one-shot override in a recursion.** Who takes it first?
* **Two owners of one bitset** in the reader, with release, reuse, transfer and a
  destructor.
* **Null rows in cascades.** Schemes treat null rows differently (counted into
  the surrounding run, left unwritten, unbiased, dropped from the exceptions);
  in a cascade these treatments meet.
* **Random access** goes through the cascade by positions that every level
  translates.
* **A dynamic program with side conditions** (least and greatest width, number of
  sections, penalty) whose result is trusted to tile the bits.
* **Sizes that lead to addresses.** A section starts where the size claimed by
  the one before says; FBP and PBP pad by the address.
* **Stores past the end.** String offsets and views are written four or eight at a
  time, over what follows, and copied from where a thread-local cache says.
* **A directory that is not empty.** Converting a table does not remove the parts
  of an earlier one; a conversion may die in the middle; the reader trusts the
  metadata.
* **Threads.** Compression shares only the configuration. The S3 tool is different:
  main, the client's threads and the node's tasks share a pool of buffers, find
  each other's buffers by the address of a stream, and wait for one another.

## 2. Modules

    SchemePicker  <- SchemePickerProofs
    SplitPlanner + BitPacking <- SplitEncoder <- SplitEncoderProofs
                                                   (how columns are split, how sections lie)
    NumberCodecs <- NumberColumns <- NumberColumnsProofs
                                                   (cascades of number schemes)
    StringCodecs <- Datablocks <- DatablocksProofs (tables with strings)
    BtrReader <- BtrReaderProofs                   (null maps of a reader)
    ColumnStream <= ColumnFiles                    (implemented by)
    ColumnFiles <- ColumnFilesProofs
    S3Fetch <- S3FetchProofs
    InductionFacts <- SplitEncoderProofs, NumberColumnsProofs, DatablocksProofs,
                      ColumnFilesProofs, S3FetchProofs

`A <- B`: B EXTENDS A. `MCx` gives the constants of `x` their values for TLC.
Names with an underscore (`Advanced_SamePart`) are wrong versions of the
definition before the underscore; nothing in the specifications uses them. They
record which mistakes in the code the properties can tell.

### `SchemePicker`
One compressing thread, with an explicit call stack. A *compress* frame is an
activation of `CSchemePicker::compress` (with `chooseScheme`), a *scheme* frame
one of the `compress` of a composite scheme. One action per step between two
calls: entering by each of the branches of `compress` (`EnterOneValue`,
`EnterUncompressed`, `EnterForced`, `EnterOverridden`, `EnterChoose`,
`EnterTryAll`), the candidate loop (`SkipCandidate`, `RateCandidate`,
`SampleCandidate`, `PickCandidate`), the same for `TRY_ALL`, running the scheme
(`EncodeLeaf`, `EncodeComposite`, `CompressSubStream`, `ReturnScheme`,
`ReturnRaw`), the fallback and log (`KeepEstimate`, `LogRatio`,
`LogRatioBySample`), and leaving. The caller may set overrides between columns,
compress columns, and call SUB_INT_SPLIT's `encode` directly, as its tests do.

*Abstractions.* A stream is `empty`, `constant`, `varied` or, for a sub-stream,
`any`. A ratio is a class: it pays, loses or is zero; the sizes a scheme returns
are whether they exceed the raw size. `BP` stands for all integer schemes
without sub-streams. `scratch`, `report`, `lastEncode` keep who wrote a buffer,
not its values. The order of a pool is the iteration order of an
`unordered_map`, which the standard leaves open. Exceptions are not modelled here;
`PickSucceeds` shows the throwing branches of the picker are not reached.
`PoolAssumption` requires BP and RLE among the integer schemes, because DICT and
string DICT force them, while `SchemePool` insists only on ONE_VALUE and
UNCOMPRESSED. The counts of an RLE are forced by a setting of their own for
integers and for doubles (`ForceCounts`, `ForceDoubleCounts`), and left to the
picker for bigints.

### `SplitPlanner`, `BitPacking`, `SplitEncoder`
`SplitPlanner` follows a column through `sampleIntoU64` (blocks of rows, null
rows dropped, the buffer of the caller used again), the scoring of every bit
range by the cost models (metrics computed on the sample, one range at a time by
`BitRangeExtractor`), the dynamic program of `Selector.cpp`, its fallback, and
forced boundaries (`parseSplitBoundaries`, `validate`). Costs are multiplied by
the sample size, so that the scale to the whole column and the penalty stay
integers. `BitPacking` has what FBP and PBP write and where: the words of whole
blocks with their headers, the VariableByte tail, the padding that depends on
the address of the output, and the size claimed. `SplitEncoder` composes both:
sections are packed one behind the other, each at the offset the sizes so far
lead to; a byte written by a later section over an earlier one garbles it.

### `NumberCodecs`, `NumberColumns`
`NumberCodecs` has, as functions on sequences, what each number scheme does to
values: runs, dictionaries, exceptions, biases, truncation, deltas, bit
sections, decimals with their blocks and patches, and the way back.
`NumberColumns` builds every cascade of them (`Encodings` is the *set* of what
the picker might produce, whatever its estimates say), decodes (`Decode`) and
answers positions (`Gather`), and wraps the three in a column part that is
written chunk by chunk and read by `readColumn` and `gatherColumn`. The calls that
schemes make of each other are recursive functions of the depth of the cascade:
`Encoded[d]` is what may lie in the bytes of a stream with `d` levels of sub-streams
(`Formats`, one record per scheme), `Encodings[d]` maps a stream (`Streams`: values,
nulls, the scheme its parent forces) to its encodings, `Decode[d]` and `Gather[d]` map
an encoded stream and a request or lookup to the answer; each is given the function of
the depth below for its sub-streams.

Integers have `NarrowBits` bits and wrap; bigints twice as many. Doubles are
integers in units of a power of ten; `NegZero` is -0.0, equal to 0 in
comparisons, and below every integer of a column, so that it stands for no other
value. NaN is left out: statistics put values in a `std::map`, whose order
NaN breaks. What a scheme leaves unwritten, and what `dest` held before, is any
member of `Leftovers`. Forced sub-schemes are obeyed, as under
`SchemeSelection::SAMPLE`; `TRY_ALL`, which ignores them, is covered for the
control by `SchemePicker` only. `value - min` of two's-complement extremes is
taken to wrap, as it does in the build.

### `StringCodecs`, `Datablocks`
Memory is a function from addresses to cells, so that a store which reaches
over its end destroys what is there. `StringCodecs` has the chunk layout (slots,
then bytes), the vector stores (`WriteOffsets`, `MultiplyString`), what each
string scheme keeps, and the sizes each reports. `Datablocks` is a CSV file on
its way: `ConvertRow` (nulls, short rows, cells that are no numbers),
`ReadDirectory`, the copy of a range into a chunk with its bias, compression
into the older datablock (all columns in one buffer) or into a chunk per column,
and decompression, run by run where the code works run by run, to slots or to
views, column after column over the same thread-local caches.

A dictionary notes that its codes lie in runs (`byRuns`) when RLE is forced on them,
and decompression goes by that note. Which scheme the integer picker stores them in
is another field, `codesScheme`: they are stored otherwise at the bottom of the
cascade, under `TRY_ALL`, or when RLE is larger than the codes are raw
(`RunsMayBeLost`). How large RLE gets depends on the schemes of its two streams, so
where the bounds on its size leave it open, either may happen (`RunSchemes`). Casting
codes that are not RLE to RLE throws `std::bad_cast`, which nobody catches: `MissRuns`
for slots, the end of `CopyDictionary` for views, and `pc = "threw"` after both.

The model is of the SIMD build (`SimdAssumption`: `SIMD_EXTRA_BYTES` covers a
batch of offsets and a batch of views). FSST is external: what is used is that
strings come back, and that `fsst_decompress` may touch a few bytes behind its
output. The slack of 4096 bytes that `getDecompressedSize` adds is taken as 0,
so that it hides nothing.

### `BtrReader`
Null maps in one reader: what `RoaringBitmap::compress` stores, wrappers and
bitsets as numbered objects with a count of deletions, the two arrays of the
reader, and the pointers lent or given to callers. `readColumn` shows up as
`Touch` (it makes the wrapper) and `ReadNulls` (a scheme that looks at null rows
expands it).

### `ColumnStream`, `ColumnFiles`
`ColumnStream` is what a directory promises: a column is a sequence of chunks,
extended at its end while the table is converted, and read from the front, all
columns in step, once the conversion has ended. `ColumnFiles` is `csvtobtr`
(ranges, `--column`, `--typefilter`, `--chunk`, the part that fills up, offsets
computed ahead and chunks placed by relative seeks, verification of each part
against what went in, metadata last) and `btrtocsv` (all parts loaded, a chunk
counter per column that starts over at the end of a part while the next reader
is assigned over the old one). The directory outlives both: it is converted into
again, by conversions that may be partial or end in an exception, and read
again.

*Refinement.* `Stream` in `ColumnFiles` maps the parts in the order of their
numbers, and then the part being collected, to the stream of a column;
the rows of the CSV, and for some columns one chunk more, to what the reader has
taken; and a conversion of all columns and chunks that has not been aborted to
the case in which anything is promised. The run `ColumnFiles` checks
`ImplementsStreams == Stream!Spec`.

### `S3Fetch`
`decompression-speed-s3`: main requests every part and waits; the client asks
the stream factory for a stream over a free buffer, fills it and calls back; the
callback finds the buffer by the address of the stream and hands it to the
flow-graph node; a task decompresses it, renews the streambuf, gives the buffer
back, notifies, and counts; the last one wakes main. A critical section is one
action, everything between two of them another. `notify_one` wakes one sleeper
or, if there is none, nobody. A new stream may get the address of a deleted one.
`occupied_map` is a `tbb::concurrent_unordered_map`, whose single operations are
atomic. A failed request throws on a thread of the client and ends the process
(`RequestFails`). The fetching of the metadata, one request after the other
before all this, and the printed rates are left out.

## 3. Runs

| Run | Question | Bounds |
|---|---|---|
| `SchemePicker_columns` | Do levels, buffers, report and scheme codes survive every path of an integer, double or string column, picked, forced, overridden or encoded directly, does no nested stream outgrow its input, and does every call end? | 3 types, depth 3 (2 for string codes), 2 sections, forced code and count schemes, overrides FSST and PSEUDODECIMAL |
| `SchemePicker_tryall` | `TRY_ALL` on bigints over 32-bit streams with overrides lying around: does a trial always win? | 5 + 6 schemes, depth 3, overrides RLE and FOR |
| `SplitEncoder` | Is the plan the cheapest of all, does it tile the bits, and is every section found again? | 4-bit values, up to 5 rows, 6 settings, 9 texts of forced boundaries, 3 addresses |
| `NumberColumns` | Does every two-level cascade round-trip and find each row, also in any order across chunks? | 3-bit integers and 6-bit bigints at both ends of their range, doubles of every kind, 5 null maps, parts of 3 rows in up to 3 chunks, as many positions as chunks |
| `Datablocks` | Is what is read what the CSV file says, and is nothing written outside of what is allocated? | 12 tables of up to 13 rows, chunks of 4, 5 and 13 rows, every string scheme enforced or chosen |
| `BtrReader_own_use` | Is each wrapper and bitset deleted once and every null map right? | 2 chunks of 4 rows, 4 null maps, 5 objects |
| `ColumnFiles` | Is the directory a stream of chunks per column, whatever was in it before? | 2 columns, tables of 4 chunks and of 1, 3 sizes, full, one-column and one-chunk conversions, 2 reads |
| `S3Fetch` | Does every part arrive once and the program end? | 3 requests of 2 columns, 2 buffers, 2 tasks at once, 2 addresses |
| `SchemePicker_split_override` | *violated*: sections are never split, under an override | bigints over 32-bit sections, override SUB_INT_SPLIT |
| `Datablocks_lost_runs` | *violated*: every chunk that was compressed is decompressed | as `Datablocks` |
| `SchemePicker_rle_values` | *violated*: `rle_force_values_scheme` is obeyed | |
| `ColumnFiles_part_size` | *violated*: a part is at most as large as the threshold | |

**Why the bounds are enough.**

* *Picker.* Depth 3 lets a composite sit in a composite in a column, the least at
  which a scheme's own sub-stream chooses by an estimate that itself cascades;
  deeper frames repeat the same pairs of neighbours, and the proofs below cover
  every depth for the properties that depend on it. Two sections suffice to
  interrupt a split between sections.
* *Planner and encoder.* Four bits have eight tilings, ten ranges, and every way
  for a least width, a greatest width, a number of sections and a penalty to
  exclude some of them; the six settings choose each. Five rows over blocks of two
  give two whole blocks and a tail; the addresses give every kind of padding.
* *Number columns.* A chunk of three rows has a row before, inside and after a
  null row, a complete block of two decimals and an incomplete one; two sections
  give one at the bottom and one with the sign bit at the top. Two levels make
  every scheme be the parent of every other; level 0 stores uncompressed. Parts
  of three rows hold chunks of one and two, read by as many positions as chunks.
* *Datablocks.* Rows are more than a batch of offsets (4) and of views (2, 4) and
  no multiple of either; runs are shorter, longer and of equal length; the
  dictionary is below and above the size at which FSST is used; a table with four
  columns reads them through the same caches. The header of RLE is to a slot as
  `sizeof(RLEStructure)` is to an integer (10 to 4). Thirteen rows of up to three runs
  keep them, and so do seven rows of one; eight rows in two runs keep or lose them as
  the streams of RLE turn out (34 bytes of 32 when both are raw); five equal rows lose
  them (22 bytes at least, of 20).
* *Reader.* An object is made by one wrapper and reused by the next: five objects
  give each chunk a full cycle, or one chunk two.
* *Files.* Parts of one and two chunks, a last chunk that is short, and a second
  table that leaves parts of the first behind. `ChunkSizes` has one size of which
  two fit in a part, one that fits alone and one that fits in none.
* *S3.* One more request than buffers makes the client sleep; a third request
  reuses a buffer and an address while the stream before it is still to be
  deleted; two tasks at once finish in either order.

**Fairness.** `SchemePicker_columns` checks `ColumnsFinish` under `WF_vars(Step)`: a
call of the library is sequential code that waits for no lock and no other thread,
so a started step is followed by the next. The caller (`Call`) need not call.
`S3Fetch` checks `Terminates` under weak fairness of main, of starting a queued
message, of each request's part of the client and of each task: these are threads
that run when they can, and the client answers each request in the end, with
success or not. Nothing is assumed about which sleeper `notify_one` wakes, and
nothing about failures: `Terminates` says that main finishes or a failed request
has ended the process.

**Deadlock** is checked except where the system really stops: `BtrReader` ends when
the reader and all bitmaps given away are deleted; `Datablocks` ends when a
conversion fails (`stoi` throws, `fixTupleCount` does not find equal lengths) and when
a decompression throws;
`ColumnFiles` ends after the last table and the last read, or when a file the
metadata names is missing.

## 4. What the properties say

`SchemePicker`: `LevelsBalanced` (counters as on entry, both 0 between columns),
`CascadeDecreases` (the `u8` never wraps), `SectionsNeverSplit` and
`SectionScratchIntact` (no `encode` inside an `encode`; the shared buffer holds
the section being compressed), `ReportIsLastEncode` (the plan report is that of
the last real encode, whatever was estimated around it), `HotPathNeverGrows` (a
stream compressed for real is never larger than raw), `CodeNamesBytes` (the
stored scheme code is that of the scheme that wrote the bytes, fallbacks
included), `PickSucceeds`, `ColumnsFinish`.

`SplitEncoder`: `SampleSound` (the sample is made of rows of this column, each at
most once and in order, within the budget, never none of them; a null row only when
all rows looked at are null; whatever the buffer held before),
`PlanTiles` (planned, forced or fallen back to, the sections cover every bit
once), `PlanIsCheapest` (no allowed tiling, found by trying all of them, costs
less), `SectionsReadBack`.

`NumberColumns`: `RoundTrip` (rows that are not null come back, up to the
equality of `Chunk::operator==`), `GatherAgrees` (random access answers the rows
of the column, in the order asked), `SignOfZeroKept` (PSEUDODECIMAL's special
case for -0.0 works through any cascade of its patches).

`Datablocks`: `TableReadBack` (each row is read as the CSV file has it, through
every scheme and both ways to decompress; the only column that is not read is a
dictionary whose runs may have been lost, and it throws before any row is), `SizesRight` (no store outside of what
the caller allocates by the sizes the schemes report; the reported size of the
data is that of the values), `ColumnsTile` (the columns of a datablock lie side by
side although offsets count a bias nobody writes).

`BtrReader`: `NullmapRight`, `FreedOnce`, `NoDangling`, `NothingLeaks`.

`ColumnFiles`: `NeverUndefined` (btrtocsv indexes no reader, chunk or bitmap that
does not exist), `CsvIsTable` (the rows are those of the table converted last,
each cell and its null map from its own column and range), `BitmapsOwnedOnce` (the
readers overwritten at the end of a part share no bitmap with those that replace
them), `ImplementsStreams`.

`S3Fetch`: `BufferHasOneUser` (a buffer is in the queue, or with one request, or
with one task, never lost and never shared), `EachPartOnce`,
`StreambufOutlivesStream` (the client may delete a stream long after its buffer
went on, also after all buffers were freed: what it points to is still there),
`Terminates`.

### Disagreements found

* An override of SUB_INT_SPLIT makes a section be split itself, which
  `SubIntSplitCore.hpp:65` excludes (`SchemePicker_split_override`): the picker obeys
  the override before it asks for the estimate that would decline. The section is an
  INTEGER one of a BIGINT encode, and each width has a buffer of its own, so nothing
  being read is overwritten. More generally the one-shot override is taken
  by whichever stream of the type reaches the switch first, which may be a
  sub-stream of another column or of an estimate.
* A string dictionary whose codes run longer than three on average records so before
  the codes are compressed. When the picker stores them in another scheme than the RLE
  asked for, which the default settings allow when RLE is the larger one, `decompress`
  and `decompressNoCopy` throw `std::bad_cast` (`DynamicDictionary.cpp:242`, `:487`);
  the tests expect each chunk they compress to come back (`TestHelper.cpp:25`,
  `Datablocks_lost_runs`).
* `rle_force_values_scheme` (`SchemeConfig.hpp:21`) is never read
  (`SchemePicker_rle_values`).
* `canAdd` counts the chunks of a part but not its header, offsets and padding, so
  a part it accepts can be larger than the threshold, of which `Chunk.cpp:235`
  says that reading "may break" (`ColumnFiles_part_size`).

Seen while modelling, with no text of the repository against them:

* Testing a row of an all-ones or all-zeros bitmap makes a bitset that
  `releaseBitmapOwnership` does not hand over; the guards of `TestRow` and
  `ReleaseBitmapOwnership` in `BtrReader` are those of the callers that exist.
* Outside PSEUDODECIMAL, doubles are compared with `==`, so RLE, DICT, FREQUENCY
  and ONE_VALUE may turn -0.0 into 0. `RoundTrip` is stated up to that.
* The fallback of the planner may have more sections than the greatest number and
  narrower ones than the least width; forced boundaries of another width either
  fail `validate` or leave the top bits out of the check.
* A part of ONE_VALUE's `decompress` leaves the last offset at the start of the
  strings (the code says "TODO this actually looks wrong"); no row reads it there.
* `DICTIONARY_8` for strings has no `getTotalLength` (it throws "not
  implemented"), so `SizesRight` leaves it out.
* A CSV row longer than the schema reads past the columns; such rows are not among
  the tables (`TablesAssumption`). Short rows are caught by `fixTupleCount`, except a row that ends
  before the first column that is kept: it adds to no column and disappears
  (`TablesAssumption` leaves these out too). `stoi` accepts trailing characters,
  which the model counts as a readable cell.
* `btrmeta --chunk` counts chunks on from column to column
  (`btrmeta.cpp:54`); `csvtobtr` stops silently after 9999 chunks
  (`MaxChunkCount`).

## 5. Proofs

TLC checks the instances of section 3; TLAPS proves the following for every value
of the constants that the named assumptions admit.

| Theorem | Module | Says |
|---|---|---|
| `TypeCorrect`, `LevelsAreBalanced`, `CascadeIsBounded` | `SchemePickerProofs` | `[]TypeOK`, `[]LevelsBalanced`, `[]CascadeDecreases` |
| `SectionsAreNeverSplit`, `ScratchIsIntact`, `ReportIsOfLastEncode` | `SchemePickerProofs` | `[]SectionsNeverSplit`, `[]SectionScratchIntact`, `[]ReportIsLastEncode` under `NoForcedSplit` |
| `CodesNameBytes`, `HotPathFits`, `PickAlwaysSucceeds` | `SchemePickerProofs` | `[]CodeNamesBytes`, `[]HotPathNeverGrows`, `[]PickSucceeds` |
| `SamplesAreSound`, `PlansTile`, `PlansAreCheapest` | `SplitEncoderProofs` | `[]SampleSound`, `[]PlanTiles`, `[]PlanIsCheapest` |
| `EncoderTypes`, `ReadsBack` | `SplitEncoderProofs` | `[]TypeOK`, `[]SectionsReadBack` |
| `PackedReadBack`, `PackedGatherRead`, `SectionsApart`, `SectionsJoin` | `SplitEncoderProofs` | the codec is its own inverse, whole and row by row; sections do not overlap; the sections of a value add up to it |
| `TypesKept`, `ChunksReadBack`, `RowsGathered`, `SignsReadBack` | `NumberColumnsProofs` | `[]TypeOK`, `[]RoundTrip`, `[]GatherAgrees`, `[]SignOfZeroKept` |
| `TypeCorrect`, `ColumnsAlwaysTile`, `SizesAlwaysRight`, `TableReadsBack` | `DatablocksProofs` | `[]TypeOK`, `[]ColumnsTile`, `[]SizesRight`, `[]TableReadBack` |
| `KeptIs`, `ChunkReads`, `StoredRead`, `RunsCover` | `DatablocksProofs` | every string scheme keeps the strings of its chunk; a chunk copied out of a column holds its rows; what lies where it should is read; runs cover the codes |
| `TypeCorrect`, `BitmapsOwned`, `ReadsDefined`, `Csv` | `ColumnFilesProofs` | `[]TypeOK`, `[]BitmapsOwnedOnce`, `[]NeverUndefined`, `[]CsvIsTable` |
| `Refines` | `ColumnFilesProofs` | `ImplementsStreams`: the part files implement `ColumnStream` |
| `TypeCorrect`, `BuffersHaveOneUser`, `StreambufsOutliveStreams` | `S3FetchProofs` | `[]TypeOK`, `[]BufferHasOneUser`, `[]StreambufOutlivesStream` |
| `RequestsDecompressedOnce`, `PartsDecompressedOnce` | `S3FetchProofs` | each request is decompressed at most once, and exactly once when main has left its wait; the same counted part by part, `[]EachPartOnce` |
| `TypeCorrect`, `NullmapsAreRight`, `ObjectsAreFreedOnce`, `NothingDangles`, `EverythingIsHeld` | `BtrReaderProofs` | `[]TypeOK`, `[]NullmapRight`, `[]FreedOnce`, `[]NoDangling`, `[]NothingLeaks` |

### Induction
The induction theorems of the library take a predicate as a parameter, which the
provers at hand cannot instantiate. `InductionFacts` goes around that: a *set* of
numbers can be instantiated. That every nonempty set of numbers has a least member
follows from the library's theorem that `<` on the naturals is well founded, and
from it `SetInduction` and `IntervalInduction` for a set that contains 0 and with
each number the next. From these come the recursion lemmas (there is a function
with a first value and a step), sums (`FoldIsSum`: a fold that takes the members
of a set in an arbitrary order comes to the sum in order; by induction over the
size of the set), concatenation (`FlattenPlaces`: where each element of each
sequence ends up), division, and powers of two. Powers are not in the provers'
arithmetic at all; `PowerNext` derives `2^(n+1) = 2 * 2^n` from a library theorem
that counts the subsets of a finite set. This is how recursive *functions* of the
models (offsets of parts, requests, samples, the table of the dynamic program,
cascades) are reasoned about. RECURSIVE *operators* stay out of reach, so no
model has one.

### The picker
Assumptions: `PoolAssumption` and `ConfigAssumption`. None of the properties is
inductive: that popping a frame restores the levels depends on what the frame
below was entered with. The invariant is `IInv == TypeOK /\ StackOK /\
LevelsBalanced`. `StackOK` says of each frame that its fields fit its program
counter (`FrameOK`), of each two neighbours that the callee was entered with the
levels the caller's pending call implies and with a smaller cascading level
(`LinkOK`), and of the outermost that it started from 0 (`BottomOK`). It is a
predicate on sequences, so pushing, popping, replacing the top, and popping with
replacement are four lemmas, and each action is one of the four.

The second half of the module adds what compression leaves behind. `ResultFrame` is a
predicate on single frames that is inductive alone, whoever forces which scheme:
once the loop of candidates is past `UNCOMPRESSED` a candidate that pays is known
(so the picker cannot end without a scheme), the code is the scheme while it
encodes and the scheme that wrote the bytes afterwards, and a result on the hot
path fits once the fallback was considered.

The other three theorems have the assumption `NoForcedSplit` (neither configuration
nor override names SUB_INT_SPLIT; the run `SchemePicker_split_override` shows they
fail without it). A picker chooses SUB_INT_SPLIT only at compression level
1; inside an `encode` the level is at least 2, because `encode` opens a scope of its
own; hence at most one `encode` is on the stack and nobody else refills its buffer.
`SInv == SplitOK /\ ScratchOK /\ NothingForced` is inductive relative to `IInv`.
The report needs `ReportOK` on top: while a real `encode` runs, the report is the
one it has opened, with as many sections as it has done; otherwise it is the last
one. Estimates run in between and after it, but with a positive estimation level,
under which `encode` leaves the report alone.

### The planner
Assumptions: `PlannerAssumption`, the types of the constants; any width of a value,
any headers and limits of the cost models, any column and any settings, negative
ones included. The invariant is `IInv == Called /\ Sampled /\ Extracted /\ Scored /\
ForcedTiles /\ PlanTiles /\ PlanIsCheapest /\ PlanReady`:

* `Sampled`: the sample is one `SampleSound` describes. `SampledSound` proves it of
  `sampleIntoU64`: the rows looked at rise, in blocks too, because the stride is at
  least the length of a block whenever there is more than one; dropping null rows
  and stopping at the target keeps that; and the rows drawn when all are null are
  the ones of the uniform stride.
* `Extracted`: the range at hand holds, for each sample, the bits `start..end` of its
  value, `(v \div 2^l) % 2^(r-l+1)`. Extending by a bit adds `bit * 2^(r-l)`
  (`FieldExtends`), which is how the code computes it incrementally.
* `Scored`: the scores are those of the ranges passed, in the order of the grid, and of
  allowed widths only; when the last row of the grid is reached, `AllScored` concludes
  that all of them are there. `ScoreIsOne` shows that each is one record with a natural
  number as cost, whatever the metrics.
* `ForcedTiles`: boundaries that the parser accepted tile the value.
* `PlanReady`: from the end of the planning to the end of the encoding the plan is there
  and tiles; this is what the encoder starts from.

`PlanIsCheapest` is then a fact about the functions of the planner (`SolvedPlan`).
`CheapestIsTable` shows by induction over the number of sections that each cell of
the table holds at most one record, which extends a cell of the row before by a range
of the grid and is as cheap as every such extension. `Reached`: no way through the
bits costs less than the cell it ends in. `TracedIs`: going back from the last cell
gives a way that costs what the cell says. `PathCostIs` and `TilingIsPath` connect
ways with the tilings and the cost `PlanIsCheapest` speaks of, which adds up the
scores of independently extracted ranges.

### The bytes of a column
The second half of `SplitEncoderProofs` goes on from the plan. Assumptions: `PackingAssumption` (any size of
a mini block and any number of them in a block) and `EncoderAssumption` (any addresses,
any of the schemes of sections, any size of a value). `EInv == IInv /\ Encoding /\
Answered`: the sections written are those of the first segments of the plan, each
holds the fields of the values its segment cuts out, in the form its scheme
writes them, and starts where the ones before have ended by their own account
(`Encoding`); what was read last is of the column (`Answered`, which has
`SectionsReadBack` in it). `SectionsReadBack` alone is not inductive: it says nothing
until something is read.

* *The codec.* A value below `2^w` needs at most `w` bits (`NeededBits`), so `BitsNeeded`
  names a width. `PackedLayout` says at which word each block, each mini block and
  the tail begin, from the sum of the widths before (`PieceIs`, `PackedBlockWords`);
  `HeaderPlaces` that skipping by the headers comes to the same places, by induction over
  the blocks. `MiniRead` and `BlockRead` unpack one block, `PackedReadBack` puts the
  blocks and the tail together, and `PackedGatherRead` is the way of `FBP::gather`.
  A mini block of width 0 has no word and reads as zeros, which is what it held.
* *The places.* A section claims at least the bytes it writes, whatever the padding at its
  address (`BytesWithin`), so sections placed by the sizes claimed lie apart
  (`SectionsPlaced`, `LaterStarts`, `SectionsApart`). The slack PBP adds is needed here: its
  16 bytes of alignment may all be used.
* *The values.* `LowerBits`: a value is its lower bits and the rest above. By induction over
  the segments of a tiling the fields add up to the value (`SectionsJoin`). A constant
  section, stored as one word, reads as that word everywhere (`ConstantValues`).
* *The steps.* Giving up an encoding that has become too large empties the output and the
  column stays at hand; `OneMoreSection` adds a section; `DecodeStep` and `GatherStep` read.

### The fetch
Assumption: `ConfigAssumption` (among others that there is a buffer). The
invariant `IInv` has eight parts:

* `BuffersOK` says what `BufferHasOneUser` says without counting: no two places
  have one buffer, no buffer has none. The steps pass a buffer on from
  queue to request, request to task, task to queue.
* `AddressesOK` is why the callback finds the right buffer although addresses are
  used again: no two streams that exist have one address, and the map leads each
  of them to its buffer. An entry of a deleted stream may be wrong.
* `ContentOK` follows the bytes: a request that has called back was decompressed, or
  its bytes are in the buffer of a task that has yet to read them; no two such
  tasks hold the bytes of one request. That a download touches none of them is
  `BuffersOK`.
* `StreambufsOK` follows the generations: a stream has the current streambuf of its
  buffer until the task of its request has replaced it.
* `CountsOK` links the cardinalities: there are as many tasks as requests that have
  called back, and `remaining` is the number of requests less the tasks that have
  counted. Hence, when it is 0, all requests have called back and all tasks have
  counted, which `MainOK` carries through the end of the program.
* `RequestsOK` and `TypeOK` are about single requests and variables.

That the number of parts is a natural number, and which request stands for which part,
are facts about recursive sums, proved by `IntervalInduction`: the requests of a
repetition are numbered column by column, so each request is one part of one selected
column, and `RequestsOfPart` counts those of a part. With it `EachPartOnce` follows
from `RequestsDecompressedOnce`.

A task that runs has not counted, so `remaining` is positive while it subtracts,
and main cannot have left its wait. Steps that neither take nor give a buffer share
the lemmas `SamePlacesInv` and `Quiet`.

### The reader
Assumption: `BoundsAssumption` (finitely many rows, null maps are sets of rows); the
number of chunks and objects is free. All five invariants of the run are proved. Their
conjunction is not inductive: that the destructor deletes a bitset once depends on
who else may have it. `IInv` says it from each side. `ReaderOK`: a cached wrapper is
live, is about its chunk, belongs to no caller and has the bitset the reader has for
the chunk, and no other live wrapper and no other chunk has that bitset. `WrappersOK`:
each live wrapper has an owner and, unless its null map is uniform, a bitset of its
own. `CallersOK`: what a caller owns is live, what is lent to it is cached.
`BitsetsOK`: each live bitset is that of a chunk or of an owned wrapper. `HeapOK`:
objects are numbered without gaps, so that a new one is new. `ContentsOK` is
`NullmapRight` and that an expanded wrapper has a bitset. The lemma `CompressedRight`
shows that type, cardinality and expansion fit together for any set of rows.
Here one sees what the guards of `TestRow` and `ReleaseBitmapOwnership` are for: a
wrapper that makes a bitset of its own for a uniform null map would break `ReaderOK`.

### The numbers
Assumptions: `WidthAssumption` (any widths of values and codes, any `BlockSize`,
`MaxExponent` and number of sections, as long as an exponent code fits an INTEGER and
-0.0 is told from other numbers), `PoolAssumption` (BP is enabled if DICT is, which
forces it) and `InputsAssumption` (a chunk has rows, as many as an INTEGER counts). The
cascade depth, the inputs, the pool and what is left in memory are arbitrary. The
invariant is `IInv == PartOK /\ TypeOK /\ RoundTrip /\ GatherAgrees /\ SignOfZeroKept`;
all there is to know of a state is in `PartOK`: each chunk of the part is an encoding
that its reader reads back (`Written`). The answers follow from it.

* *The functions.* A recursive function is what its definition says only if there is
  such a function. `EncodedIs`, `EncodingsIs`, `DecodeIs` and `GatherIs` show that there
  is one, by `IntervalInduction` over the depth and the recursion lemmas.
* *Kept.* `ReadsAs`, `PicksAs`: the values agree with the stream in the rows that are not
  null: exactly for integers, up to `Same` for doubles, and exactly for doubles of which
  none is +0 (`Exact`). The patches of PSEUDODECIMAL are such doubles, since +0 fits and
  -0.0 does not; hence the sign of zero is kept through their cascades. A stream is `Kept` at a depth if
  each of its encodings reads and picks as the stream. `KeptBy` says so of what one scheme
  makes of it, given that every stream is kept at the depth below, and has one lemma per
  scheme. `GoodIs` and `AllAreKept` are the induction over the depth; the streams a scheme
  hands down must be streams again (`IsStream`): a forced scheme fits the type, a constant
  section is constant, and an empty stream is never at the top.
* *Order.* `Ranked` is a list of the members of a set (`RankedRows`, `RankedKeys`): rows in
  order, the rank of a row its place in the list (`RowsAre`), keys without two that
  compare equal (-0.0 and 0), the code of a value the place of its key.
* *Runs.* `HeadsAre` follows the heads of runs over rows that are null. The runs repeated
  give the stream (`Repeated`), and the binary search ends at the run of the row: `Between`
  is the invariant of its loop, and `hi - lo` shrinks with every round, so that as many
  rounds as there are runs are enough (`RunOfIs`).
* *Bits.* A value is the sum of the sections of an `Adjacent` plan, each moved to its place
  and taken modulo its width, and so is the value put together of the INTEGERs that the
  sections are stored as (`JoinedIs`), negative or not.
* *Decimals.* The mantissa and the exponent of a value that fits give the value back; the
  rows patched are those with the exception code, and in an unrolled block there is none, so
  the numbers and the patches are found by the number of patches before the row.
* *The part.* The starts of chunks are running sums (`Bounds`); a position is in the chunk
  that `ChunkOf` says, each slot of an answer belongs to one chunk, and `Scattered` puts the
  answer of the chunk there, wherever the position was asked.

### The strings
Assumptions: `TablesAssumption` (any tables of string, integer and skipped columns),
`ConfigAssumption` (any block size; an enforced scheme is one that can keep any column),
`SizeAssumption` (any header sizes and sizes of compressed data; `fsst_decompress` touches
no more cells behind a string than the 8 the sizes add), `SimdAssumption` (any slots and
batches; `SIMD_EXTRA_BYTES` covers a batch of offsets and one of views) and
`PoolAssumption`, `CodesAssumption` (any header of RLE, cascade depth of codes and scheme
selection). All four properties of the passing run are proved.

None of them is inductive. `TableReadBack` speaks of the end of the decompression of one
column, `SizesRight` of the memory in between, and what is in that memory was put
there by loops of batches that store more than they mean to, over strings copied from
where a cache of the thread says an earlier run has left them. The invariant is `IInv ==
TableIs /\ RangeIs /\ BlockIs /\ LayoutIs /\ ColumnOpen`:

* `TableIs`: the columns hold the cells of the rows converted, each column those of
  its field. A short row leaves the columns unequal; `Full` says they are equal once
  `readDirectory` has not failed. `RangeIs`: the range lies within them.
* `BlockIs`: a compressed column keeps its part of the range (`IsColumn`), whichever
  scheme was chosen. `IsKept` is one predicate per scheme of what that means.
* `LayoutIs`: every column of a datablock starts where the one before ends. The bias that
  `compress` counts into offsets but nobody writes cancels out here.
* `ColumnOpen`: `Working` has one predicate per program counter of the decompression.
  `Missed` is that of `"threw"`: the runs of this dictionary may have been lost. It comes
  from `IsDict`, by which codes that are not RLE although RLE was forced are codes
  for which `RunsMayBeLost` holds, so the proof also says when nothing is thrown.

*The lemmas* are the first part of `DatablocksProofs`.

* *Memory.* `HasWord` and `HasText` say what lies at an address. A store leaves memory
  `Beside` an interval as it was, and is `Grown` by no address outside of it. Every store of
  the code is put in this form, the surplus of its batch included (`OffsetPlaces`,
  `CharacterPlaces`, `WordPlaces`).
* *Places.* `TextPlaces(t)` is the running sum of the lengths of the strings `t`. `Stored(m, t,
  start)`: the slots have the sums and the bytes lie at them; `StoredRead`: then every
  string is read back. `SlotsUpto` and `TextsUpto` are the same for the first rows, which
  is what a loop in progress has reached; its surplus lies above all of them.
* *Codes.* The dictionary of a chunk is ranked by a total order on strings and each code
  finds its string; a run list covers the codes (`RunsCover`), so that the loops over runs
  visit each row once.
* *The loops.* `OffsetsPhase`, `CopiesPhase`, `FsstPhase`, `DictionaryPhase` and `ViewsPhase`
  are the invariants of the loops over the runs of DICT. Each says how many rows are done and
  what of them lies in memory; `CopiesPhase` and `FsstPhase` also that the cache holds: a
  code it knows has a text in memory with so many copies of its string, below everything
  still to be written (`Found`, `CacheHolds`). That is what the clearing of the cache at
  the start of a column is for; a cache left by another column would name places that
  hold other strings.
* *Room.* The strings, the slots and the surplus fit what the sizes promise, scheme by
  scheme (`RoomIs`), so that `Within(memory, limit)` holds throughout. The
  `SIMD_EXTRA_BYTES` between slots and strings are what the last batch of offsets spills
  into (`Gap`).

Then there is one lemma per action (`WriteRunStringsStep`, `CopyDictionaryStep`, ...),
which mostly says which of these lemmas applies, and `TableReadsBack` composes the two ways: a
row of a column is a row of the table (`OpenRows`), and a row read is a row of the
column (`IsRead`).

### The column files
Assumption: `ConfigAssumption`, the types of the constants: any tables, block size,
threshold, number of columns, chunk sizes and selections of columns and chunks. The
invariant is `IInv == Types /\ Phases /\ Loops /\ Written /\ Sealed /\ Reading /\
Rows`. `Types` includes that the parts a loop has counted are in the directory and
each is the file `writeToDisk` makes of some chunks; files of earlier conversions may
lie behind them. `Loops` has how far each column is; `Written`, that what is in its
parts and its buffer are the chunks of the table so far, in order; `Sealed`, that the
metadata written at the end tells how many parts there are. These speak of tables
converted as a whole (`Intact`); an aborted or partial conversion promises nothing, as
in the code. `Reading` places the reader: which part it has read, how many chunks of it
it has taken, and that these are the first `Len(csv)` chunks of the column, or one more
for the columns already stepped; `Rows`, that the rows written so far are those of the
table. `Standing` and `Owned` in `Types` say which bitmaps a reader has; that no two
readers have the same one (`BitmapsOwnedOnce`) follows from each bitmap being made by
the reader of its column.

The lemmas below are about a part file (`PartFileVerified`: read back by its offsets it
gives the chunks that went in, each at a multiple of 16) and about concatenations of
parts (`FlattenPlaces`). `Refines` maps the parts and the part being collected to
the stream of the column, and the cells written and the reader's chunk to what was
taken. Each action is one of the steps of `ColumnStream`, or a stutter: a
chunk that fills a part moves chunks from buffer to file and adds none to the stream
but itself, and a reader that opens the next part takes the next chunk of the stream.

### Only model-checked
Liveness, out of the prover's reach: `ColumnsFinish`, `Terminates`. Every invariant
passing runs check is proved, and so is the refinement; three of the picker's under
`NoForcedSplit`.

## 6. Not modelled, and why

* Exceptions thrown inside a compression (the one a decompression throws is modelled,
  in `Datablocks`). Only SUB_INT_SPLIT restores its level in a
  destructor; an exception of FSST between its `++` and `--` leaves the level of the
  thread raised. Nothing in the library catches one and goes on.
* Two compressing threads. They share only the configuration, where the override is
  tested, read and reset in three steps.
* The compile-time variants `SAMPLING_TEST_MODE` and `BTR_ENABLE_FOR_SCHEME`, and a
  build without SIMD.
* Which rows the statistics sample, and the ratios that come of it: a ratio may have
  any class in `SchemePicker`, and any scheme may be picked in `NumberColumns`.
* The inside of FastPFor, FSST and Roaring, which are other projects, and the SIMD
  kernels beyond what they store where.
* `MaxExponent` and `EXP_FBP`, which are registered in no pool; the random split
  strategy, a baseline for measurements; `DICT::decompress` and
  `OneValue::decompress` in their older forms, which nobody calls.
* The text of CSV and YAML files, memory mapping, and the checks of magic bytes in
  the tools.
* Measurement programs, benchmarks and the playground: they print times and sizes.

## 7. Plan

In this order:

1. Two threads on the shared configuration.
2. `SchemePicker` with exceptions, to state what a level left raised does to the
   next column.
