------------------------------ MODULE Datablocks ------------------------------
(***************************************************************************)
(* A table on its way from CSV to a datablock and back: convertCSV fills   *)
(* the columns row by row, readDirectory makes a relation of them, a range *)
(* of its rows is copied into a chunk and compressed column by column,     *)
(* behind one another (the datablock of a chunk) or each on its own (the   *)
(* column chunks of csvtobtr), and decompressed column by column by one    *)
(* thread, whose caches outlive the column.  Number columns are kept as    *)
(* they are: their schemes are NumberColumns.                              *)
(***************************************************************************)
EXTENDS StringCodecs

CONSTANTS
    Tables,        \* the CSV files: [types, rows], a cell is [null, text, number, valid]
    Configs,       \* settings: [blockSize, enforced, forceFsst, allowFsst]
    MetaSize,      \* sizeof(DatablockMeta), and sizeof(ColumnMeta) for each column
    BiasSize,      \* sizeof(ColumnMeta::bias), added to what integers take
    AfterSizes,    \* bound: bytes a compressed column may take
    MapSizes       \* bound: bytes a compressed bitmap may take

\* The columns of a table that are kept.
Fields(t) == Ranked({i \in DOMAIN t.types : t.types[i] # "SKIP"}, <)

Cells == [null : BOOLEAN, text : Seq(Nat), number : Int, valid : BOOLEAN]
\* A row longer than the schema indexes behind the columns; one that ends before the first
\* column that is kept would be dropped in silence.
ASSUME TablesAssumption ==
    \A t \in Tables :
        /\ t.types \in Seq({"STRING", "INTEGER", "SKIP"}) /\ t.rows \in Seq(Seq(Cells))
        /\ \A i \in DOMAIN t.rows : Len(t.rows[i]) <= Len(t.types)
        /\ Fields(t) # <<>> => \A i \in DOMAIN t.rows : Fields(t)[1] <= Len(t.rows[i])
\* An enforced scheme is one that can keep any column.
ASSUME ConfigAssumption ==
    \A c \in Configs : /\ c.blockSize \in Nat \ {0}
                       /\ c.enforced \in {"none", "UNCOMPRESSED", "DICT", "FSST"}
\* What fsst_decompress touches behind a string is within the eight bytes added to the sizes.
ASSUME SizeAssumption ==
    /\ MetaSize \in Nat /\ BiasSize \in Nat /\ AfterSizes \subseteq Nat /\ MapSizes \subseteq Nat
    /\ FsstOverrun <= 8

VARIABLES
    pc,
    table, config,
    row,           \* rows converted
    columns,       \* per column that is not skipped: [type, field, values, present]
    range,         \* the rows of the chunk: [offset, count]
    layout,        \* "datablock" or "chunks"
    block,         \* compressed columns: [type, offset, nullmapOffset, end, nullmap, kept]
    size,          \* db_meta->size
    column,        \* the column being decompressed
    way,           \* "view" (decompressNoCopy) or "copy" (decompress)
    memory,        \* what is decompressed to
    loop,          \* where the loops are: [run, at, start, write]
    cache          \* thread_local: per code [text, runs, length] and the views

vars == <<pc, table, config, row, columns, range, layout, block, size, column, way,
          memory, loop, cache>>

NoTable == [types |-> <<>>, rows |-> <<>>]
NoConfig == [blockSize |-> 1, enforced |-> "none", forceFsst |-> FALSE, allowFsst |-> FALSE]
NoRange == [offset |-> 0, count |-> 0]
NoLoop == [run |-> 1, at |-> 0, start |-> 0, write |-> 0]
NoCache == [text |-> <<>>, runs |-> <<>>, length |-> <<>>, views |-> <<>>]

---------------------------------------------------------------------------
(* convertCSV and the relation *)

StartConvert ==
    /\ pc = "idle"
    /\ \E t \in Tables :
         /\ table' = t
         /\ columns' = [i \in DOMAIN Fields(t) |->
                         [type |-> t.types[Fields(t)[i]], field |-> Fields(t)[i],
                          values |-> <<>>, present |-> <<>>]]
    /\ config' \in Configs
    /\ pc' = "converting" /\ row' = 0
    /\ UNCHANGED <<range, layout, block, size, column, way, memory, loop, cache>>

NullCode == 0
IsSet(type, cell) == IF type = "STRING" THEN ~cell.null ELSE ~cell.null /\ cell.text # <<>>
ValueOf(type, cell) ==
    IF type = "STRING" THEN (IF cell.null THEN <<>> ELSE cell.text)
    ELSE (IF IsSet(type, cell) THEN cell.number ELSE NullCode)
\* A cell stoi cannot read ends the program.
Unreadable(type, cell) == type = "INTEGER" /\ IsSet(type, cell) /\ ~cell.valid

\* A short row leaves the columns behind its end as they are.
ConvertRow ==
    /\ pc = "converting" /\ row < Len(table.rows)
    /\ LET cells == table.rows[row + 1]
           reached == {i \in DOMAIN columns : columns[i].field <= Len(cells)}
       IN  IF \E i \in reached : Unreadable(columns[i].type, cells[columns[i].field])
           THEN pc' = "failed" /\ UNCHANGED <<row, columns>>
           ELSE /\ row' = row + 1
                /\ columns' = [i \in DOMAIN columns |->
                     IF i \notin reached THEN columns[i]
                     ELSE LET cell == cells[columns[i].field] IN
                          [columns[i] EXCEPT !.values = Append(@, ValueOf(columns[i].type, cell)),
                                             !.present = Append(@, IsSet(columns[i].type, cell))]]
                /\ UNCHANGED pc
    /\ UNCHANGED <<table, config, range, layout, block, size, column, way, memory, loop, cache>>

\* fixTupleCount: all bitmaps are as long as the first.
SameLength == \A i \in DOMAIN columns : Len(columns[i].present) = Len(columns[1].present)
ReadDirectory ==
    /\ pc = "converting" /\ row = Len(table.rows)
    /\ pc' = IF SameLength THEN "relation" ELSE "failed"
    /\ UNCHANGED <<table, config, row, columns, range, layout, block, size, column, way,
                   memory, loop, cache>>

TupleCount == Len(columns[1].present)
RangeAt(offset) ==
    [offset |-> offset, count |-> IF offset + config.blockSize >= TupleCount
                                  THEN TupleCount - offset ELSE config.blockSize]

\* The strings of a column file, and the slots before them.
FileText(values) == FlattenSeq(values)
FileSlots(values) ==
    [i \in DOMAIN values |-> [size |-> Len(values[i]),
                              offset |-> SumOf([j \in 1..(i - 1) |-> Len(values[j])])]]

\* Offsets of a chunk count from its own first slot.
Bias_Absolute(slots, offset, slotsSize) == -slotsSize
Bias(slots, offset, slotsSize) == slots[offset + 1].offset - slotsSize
StringsSize_WithoutLast(first, last) == last.offset - first.offset
StringsSize(first, last) == (last.offset - first.offset) + last.size
StringChunk(values, offset, count) ==
    LET slots == FileSlots(values)
        slotsSize == SlotsSize(count)
        stringsSize == StringsSize(slots[offset + 1], slots[offset + count])
        bias == Bias(slots, offset, slotsSize)
        offsets == [i \in 1..count |-> slots[offset + i].offset - bias]
        text == SubSeq(FileText(values), slots[offset + 1].offset + 1,
                       slots[offset + 1].offset + stringsSize)
    IN  [memory |-> Put(Words(Append(offsets, slotsSize + stringsSize)), slotsSize, Characters(text)),
         size |-> slotsSize + stringsSize]

\* getChunk and getInputChunk copy the same.
PresentOf(i) == SubSeq(columns[i].present, range.offset + 1, range.offset + range.count)
InputOf(i) ==
    LET strings == StringChunk(columns[i].values, range.offset, range.count) IN
    IF columns[i].type = "STRING"
    THEN [memory |-> strings.memory, size |-> strings.size, present |-> PresentOf(i)]
    ELSE [memory |-> Words(SubSeq(columns[i].values, range.offset + 1, range.offset + range.count)),
          size |-> SlotBytes * range.count, present |-> PresentOf(i)]

---------------------------------------------------------------------------
(* compress *)

\* RoaringBitmap::compress: the type, and the rows the bitmap names.
Nullmap(present) ==
    LET ones == {i \in DOMAIN present : present[i]} IN
    IF ones = {} THEN [type |-> "ALLZEROS", rows |-> {}]
    ELSE IF ones = DOMAIN present THEN [type |-> "ALLONES", rows |-> {}]
    ELSE IF Cardinality(ones) < Len(present) \div 2 THEN [type |-> "REGULAR", rows |-> ones]
    ELSE [type |-> "FLIPPED", rows |-> DOMAIN present \ ones]
WriteBITMAP(map, count) ==
    CASE map.type = "ALLONES" -> [i \in 1..count |-> TRUE]
      [] map.type = "ALLZEROS" -> [i \in 1..count |-> FALSE]
      [] map.type = "REGULAR" -> [i \in 1..count |-> i \in map.rows]
      [] OTHER -> [i \in 1..count |-> i \notin map.rows]
SetRows(map, count) == Cardinality({i \in 1..count : WriteBITMAP(map, count)[i]})

\* An enforced scheme is used whatever the statistics say.
ChooseScheme(stats) == IF config.enforced = "none" THEN Best(stats) ELSE {config.enforced}

KeptOf(i) ==
    LET chunk == InputOf(i)
        stats == Stats(chunk)
    IN  IF columns[i].type = "STRING"
        THEN UNION {Compressed(scheme, chunk, stats, config) : scheme \in ChooseScheme(stats)}
        ELSE {[scheme |-> "numbers", memory |-> chunk.memory]}

HeaderSize == MetaSize * (1 + Len(columns))

StartCompress ==
    /\ pc \in {"relation", "read"} /\ column = Len(block) /\ columns # <<>>
    /\ \E k \in 0..(TupleCount - 1) : k * config.blockSize < TupleCount /\ range' = RangeAt(k * config.blockSize)
    /\ layout' \in {"datablock", "chunks"}
    /\ pc' = "compressing" /\ block' = <<>> /\ size' = HeaderSize
    /\ column' = 0 /\ memory' = <<>> /\ loop' = NoLoop
    /\ UNCHANGED <<table, config, row, columns, way, cache>>

\* Integers leave room for the bias they no longer have.
AfterSize(i, after) == IF columns[i].type = "INTEGER" THEN after + BiasSize ELSE after
WriteOffset_AfterData == IF block = <<>> THEN HeaderSize ELSE Last(block).nullmapOffset
WriteOffset == IF block = <<>> THEN HeaderSize ELSE Last(block).end

CompressColumn ==
    /\ pc = "compressing" /\ layout = "datablock" /\ Len(block) < Len(columns)
    /\ LET i == Len(block) + 1
           map == Nullmap(PresentOf(i))
       IN  \E after \in AfterSizes, mapped \in IF map.rows = {} THEN {0} ELSE MapSizes, kept \in KeptOf(i) :
             LET data == AfterSize(i, after) IN
             /\ block' = Append(block, [type |-> columns[i].type, offset |-> WriteOffset,
                                        nullmapOffset |-> WriteOffset + data,
                                        end |-> WriteOffset + data + mapped,
                                        nullmap |-> map, kept |-> kept])
             /\ size' = size + data + mapped
    /\ UNCHANGED <<pc, table, config, row, columns, range, layout, column, way, memory, loop, cache>>

\* Every column in a buffer of its own.
CompressInputChunk ==
    /\ pc = "compressing" /\ layout = "chunks" /\ Len(block) < Len(columns)
    /\ LET i == Len(block) + 1
           map == Nullmap(PresentOf(i))
       IN  \E after \in AfterSizes, mapped \in IF map.rows = {} THEN {0} ELSE MapSizes, kept \in KeptOf(i) :
             block' = Append(block, [type |-> columns[i].type, offset |-> MetaSize,
                                     nullmapOffset |-> MetaSize + after,
                                     end |-> MetaSize + after + mapped,
                                     nullmap |-> map, kept |-> kept])
    /\ UNCHANGED <<pc, table, config, row, columns, range, layout, size, column, way, memory, loop, cache>>

EndCompress ==
    /\ pc = "compressing" /\ Len(block) = Len(columns)
    /\ pc' = "compressed"
    /\ UNCHANGED <<table, config, row, columns, range, layout, block, size, column, way,
                   memory, loop, cache>>

---------------------------------------------------------------------------
(* decompress: one column after the other, in one thread *)

kept == block[column].kept
map == block[column].nullmap
tuples == range.count
strings == kept.strings
Frame == UNCHANGED <<table, config, row, columns, range, layout, block, size, column, way>>

OpenColumn ==
    /\ pc \in {"compressed", "read"} /\ column < Len(block)
    /\ column' = column + 1
    /\ way' \in {"view", "copy"}
    /\ pc' = "decompressing" /\ memory' = <<>> /\ loop' = NoLoop
    /\ UNCHANGED <<table, config, row, columns, range, layout, block, size, cache>>

\* Numbers, and strings that were not compressed.
DecompressCopy ==
    /\ pc = "decompressing" /\ kept.scheme \in {"numbers", "UNCOMPRESSED"}
    /\ memory' = kept.memory /\ pc' = "read"
    /\ Frame /\ UNCHANGED <<loop, cache>>

\* The offsets straight into the slots, the strings in one go behind them.
DecompressFsst ==
    /\ pc = "decompressing" /\ kept.scheme = "FSST"
    /\ memory' = FsstDecompressed(Put(memory, 0, Words(kept.offsets)), SlotsSize(tuples), kept.text)
    /\ pc' = IF SlotsSize(tuples) + Len(kept.text) = kept.totalSize THEN "read" ELSE "died"
    /\ Frame /\ UNCHANGED <<loop, cache>>

\* All views at once, more than there are rows; the string comes after them.
DecompressOneView ==
    /\ pc = "decompressing" /\ kept.scheme = "ONE_VALUE" /\ way = "view"
    /\ LET views == [i \in 1..(2 * Batches(tuples, ValueViews)) |->
                       IF i % 2 = 1 THEN Len(kept.value) ELSE tuples * ViewBytes]
       IN  memory' = IF map.type = "ALLZEROS" THEN memory
                     ELSE Put(Put(memory, 0, Words(views)), tuples * ViewBytes, Characters(kept.value))
    /\ pc' = "read"
    /\ Frame /\ UNCHANGED <<loop, cache>>

\* The bitmap decides which offsets are written; the last one is written for all of them.
OffsetsOfSet(length) ==
    LET set == Ranked(map.rows, <)
        after[k \in 0..Len(set)] ==
          IF k = 0 THEN [memory |-> memory, start |-> SlotsSize(tuples)]
          ELSE LET s == after[k - 1] IN
               [memory |-> Put(s.memory, SlotBytes * (set[k] - 1), Words(<<s.start, s.start + length>>)),
                start |-> s.start + length]
    IN  after[Len(set)].memory
OffsetsOfNulls(length) ==
    LET nulls == Ranked(map.rows, <)
        after[k \in 0..Len(nulls)] ==
          IF k = 0 THEN [memory |-> memory, start |-> SlotsSize(tuples), next |-> 0]
          ELSE LET s == after[k - 1]
                   n == nulls[k] - s.next
               IN  [memory |-> WriteOffsets(s.memory, SlotBytes * s.next, s.start, length, n),
                    start |-> s.start + (n - 1) * length, next |-> nulls[k]]
        end == after[Len(nulls)]
        left == tuples - end.next
    IN  [memory |-> WriteOffsets(end.memory, SlotBytes * end.next, end.start, length, left),
         end |-> end.start + left * length]
DecompressOneCopy ==
    /\ pc = "decompressing" /\ kept.scheme = "ONE_VALUE" /\ way = "copy"
    /\ LET length == Len(kept.value)
           start == SlotsSize(tuples)
           slots == CASE map.type = "ALLONES" ->
                           [memory |-> WriteOffsets(memory, 0, start, length, tuples),
                            end |-> start + tuples * length]
                      [] map.type = "REGULAR" -> [memory |-> OffsetsOfSet(length), end |-> start]
                      [] OTHER -> OffsetsOfNulls(length)
           filled == MultiplyString(slots.memory, start, Characters(kept.value), 0, length,
                                    SetRows(map, tuples), 1)
       IN  memory' = IF map.type = "ALLZEROS" THEN memory
                     ELSE Put(filled, SlotBytes * tuples, Words(<<slots.end>>))
    /\ pc' = "read"
    /\ Frame /\ UNCHANGED <<loop, cache>>

StringOf(code) == IF code < Len(strings) THEN strings[code + 1] ELSE <<Lost>>

\* Row by row: the slot, and its string behind the last one.
PutText(target, at, text) == Put(target, at, Characters(text))
RowByRow(start, fsst) ==
    LET after[k \in 0..tuples] ==
          IF k = 0 THEN [memory |-> memory, write |-> start]
          ELSE LET s == after[k - 1]
                   text == StringOf(kept.codes[k])
                   slot == Put(s.memory, SlotBytes * (k - 1), Words(<<s.write>>))
               IN  [memory |-> IF fsst THEN FsstDecompressed(slot, s.write, text)
                               ELSE PutText(slot, s.write, text),
                    write |-> s.write + Len(text)]
        end == after[tuples]
    IN  [end EXCEPT !.memory = Put(@, SlotBytes * tuples, Words(<<end.write>>))]

DecompressFixed ==
    /\ pc = "decompressing" /\ kept.scheme = "DICTIONARY_8"
    /\ memory' = RowByRow(SlotsSize(tuples), FALSE).memory
    /\ pc' = "read"
    /\ Frame /\ UNCHANGED <<loop, cache>>

\* DICT leaves room for offsets stored past the last.
DecompressCodes ==
    /\ pc = "decompressing" /\ kept.scheme = "DICT" /\ ~kept.byRuns /\ way = "copy"
    /\ LET start == SlotsSize(tuples) + SimdExtra
           end == RowByRow(start, kept.fsst)
       IN  /\ memory' = end.memory
           /\ pc' = IF end.write - SimdExtra # kept.totalSize THEN "died" ELSE "read"
    /\ Frame /\ UNCHANGED <<loop, cache>>

\* By runs: what an earlier column left in the cache of strings is forgotten.
Codes == 0..(Len(strings) - 1)
Forgotten_Kept(old) == Over(old, [c \in Codes |-> Lost])
Forgotten(old) == Over([c \in Codes |-> Lost], old)
Gap_None == 0
Gap == SimdExtra
CodesAreRuns == kept.codesScheme = "RLE"
StartRuns ==
    /\ pc = "decompressing" /\ kept.scheme = "DICT" /\ kept.byRuns /\ way = "copy" /\ CodesAreRuns
    /\ loop' = LET start == SlotsSize(tuples) + Gap
               IN  [run |-> 1, at |-> 0, start |-> start, write |-> start]
    /\ cache' = [cache EXCEPT !.text = Forgotten(@),
                              !.length = IF kept.fsst THEN @
                                         ELSE Over([c \in Codes |-> Len(strings[c + 1])], @)]
    /\ pc' = IF kept.fsst THEN "fsstruns" ELSE "offsets"
    /\ UNCHANGED memory /\ Frame
\* dynamic_cast<integers::RLE&>: std::bad_cast, which nobody catches.
MissRuns ==
    /\ pc = "decompressing" /\ kept.scheme = "DICT" /\ kept.byRuns /\ way = "copy" /\ ~CodesAreRuns
    /\ pc' = "threw"
    /\ UNCHANGED <<memory, loop, cache>> /\ Frame

Run == kept.runs[loop.run]
MoreRuns == loop.run <= Len(kept.runs)

\* Offsets stored past a run are overwritten by the next; so all of them before the strings.
WriteRunOffsets ==
    /\ pc = "offsets" /\ MoreRuns
    /\ memory' = WriteOffsets(memory, SlotBytes * loop.at, loop.start, cache.length[Run.code], Run.count)
    /\ loop' = [loop EXCEPT !.run = @ + 1, !.at = @ + Run.count,
                            !.start = @ + Run.count * cache.length[Run.code]]
    /\ UNCHANGED <<pc, cache>> /\ Frame
EndRunOffsets ==
    /\ pc = "offsets" /\ ~MoreRuns
    /\ memory' = Put(memory, SlotBytes * loop.at, Words(<<loop.start>>))
    /\ pc' = "strings" /\ loop' = [loop EXCEPT !.run = 1]
    /\ UNCHANGED cache /\ Frame

\* The longest run of a string so far is where its copies come from.
Remembered(code, n) ==
    IF cache.text[code] = Lost \/ n > cache.runs[code]
    THEN [cache EXCEPT !.text = [@ EXCEPT ![code] = loop.write], !.runs = Over([c \in {code} |-> n], @)]
    ELSE cache
Copied(target, at, code, n) ==
    MultiplyString(target, at, memory, cache.text[code], cache.length[code], n, cache.runs[code])
WriteRunStrings ==
    /\ pc = "strings" /\ MoreRuns
    /\ memory' = IF cache.text[Run.code] = Lost
                 THEN MultiplyString(memory, loop.write, Characters(strings[Run.code + 1]), 0,
                                     cache.length[Run.code], Run.count, 1)
                 ELSE Copied(memory, loop.write, Run.code, Run.count)
    /\ cache' = Remembered(Run.code, Run.count)
    /\ loop' = [loop EXCEPT !.run = @ + 1, !.write = @ + Run.count * cache.length[Run.code]]
    /\ UNCHANGED pc /\ Frame

\* FSST knows a length only once the string is decompressed: string, offsets, copies.
WriteFsstRun ==
    /\ pc = "fsstruns" /\ MoreRuns
    /\ LET first == cache.text[Run.code] = Lost
           length == IF first THEN Len(strings[Run.code + 1]) ELSE cache.length[Run.code]
           one == IF first THEN FsstDecompressed(memory, loop.write, strings[Run.code + 1]) ELSE memory
           slots == WriteOffsets(one, SlotBytes * loop.at, loop.start, length, Run.count)
       IN  /\ memory' = IF first
                        THEN MultiplyString(slots, loop.write + length, one, loop.write, length,
                                            Run.count - 1, 1)
                        ELSE Copied(slots, loop.write, Run.code, Run.count)
           /\ cache' = [Remembered(Run.code, Run.count) EXCEPT !.length = Over([c \in {Run.code} |-> length], @)]
           /\ loop' = [loop EXCEPT !.run = @ + 1, !.at = @ + Run.count,
                                   !.start = @ + Run.count * length,
                                   !.write = @ + Run.count * length]
    /\ UNCHANGED pc /\ Frame
EndRuns ==
    /\ pc \in {"strings", "fsstruns"} /\ ~MoreRuns
    /\ memory' = IF pc = "fsstruns" THEN Put(memory, SlotBytes * loop.at, Words(<<loop.start>>))
                 ELSE memory
    /\ pc' = "read"
    /\ UNCHANGED <<loop, cache>> /\ Frame

\* decompressNoCopy: every string of the dictionary once, behind the views; then the same cast.
StringsStart == (tuples + RunViews) * ViewBytes
CopyDictionary ==
    /\ pc = "decompressing" /\ kept.scheme = "DICT" /\ way = "view"
    /\ LET text == FlattenSeq(strings) IN
       memory' = IF kept.fsst THEN FsstDecompressed(memory, StringsStart, text)
                 ELSE Put(memory, StringsStart, Characters(text))
    /\ cache' = [cache EXCEPT !.views =
                   Over([c \in Codes |-> <<Len(strings[c + 1]),
                                           StringsStart + SumOf([j \in 1..c |-> Len(strings[j])])>>], @)]
    /\ pc' = IF ~kept.byRuns THEN "rowviews" ELSE IF CodesAreRuns THEN "runviews" ELSE "threw"
    /\ UNCHANGED loop /\ Frame

ViewOf(code) == IF code \in DOMAIN cache.views THEN cache.views[code] ELSE <<Lost, Lost>>
WriteRunViews ==
    /\ pc = "runviews" /\ MoreRuns
    /\ memory' = Put(memory, ViewBytes * loop.at,
                     Words(FlattenSeq([i \in 1..Batches(Run.count, RunViews) |-> ViewOf(Run.code)])))
    /\ loop' = [loop EXCEPT !.run = @ + 1, !.at = @ + Run.count]
    /\ UNCHANGED <<pc, cache>> /\ Frame
WriteRowViews ==
    /\ pc = "rowviews"
    /\ memory' = Put(memory, 0, Words(FlattenSeq([i \in 1..tuples |-> ViewOf(kept.codes[i])])))
    /\ pc' = "read"
    /\ UNCHANGED <<loop, cache>> /\ Frame
EndRunViews ==
    /\ pc = "runviews" /\ ~MoreRuns
    /\ pc' = "read"
    /\ UNCHANGED <<memory, loop, cache>> /\ Frame

---------------------------------------------------------------------------
Init ==
    /\ pc = "idle" /\ table = NoTable /\ config = NoConfig /\ row = 0 /\ columns = <<>>
    /\ range = NoRange /\ layout = "chunks" /\ block = <<>> /\ size = 0 /\ column = 0
    /\ way = "view" /\ memory = <<>> /\ loop = NoLoop /\ cache = NoCache

Next ==
    \/ StartConvert \/ ConvertRow \/ ReadDirectory
    \/ StartCompress \/ CompressColumn \/ CompressInputChunk \/ EndCompress
    \/ OpenColumn \/ DecompressCopy \/ DecompressFsst \/ DecompressOneView \/ DecompressOneCopy
    \/ DecompressFixed \/ DecompressCodes \/ StartRuns \/ MissRuns
    \/ WriteRunOffsets \/ EndRunOffsets \/ WriteRunStrings
    \/ WriteFsstRun \/ EndRuns \/ CopyDictionary \/ WriteRunViews \/ WriteRowViews \/ EndRunViews

Spec == Init /\ [][Next]_vars

---------------------------------------------------------------------------
(* Properties *)

\* Every variable has its type, and no assertion of the decompression fails.
TypeOK ==
    /\ pc \in {"idle", "converting", "relation", "failed", "compressing", "compressed",
               "decompressing", "offsets", "strings", "fsstruns", "runviews", "rowviews", "read", "threw"}
    /\ row \in 0..Len(table.rows)
    /\ Len(block) <= Len(columns) /\ column \in 0..Len(block)
    /\ loop.run \in Nat /\ loop.at \in 0..tuples /\ loop.start \in Nat /\ loop.write \in Nat
    /\ \A a \in DOMAIN memory : a \in Nat

\* The string, or the number, a reader gets for a row of the chunk.
ReadAt(i) ==
    IF kept.scheme = "numbers" THEN <<Word(memory, SlotBytes * (i - 1))>>
    ELSE IF way = "view" /\ kept.scheme \in {"DICT", "ONE_VALUE"} THEN ViewedAt(memory, i - 1)
    ELSE StringAt(memory, i - 1)

\* InputChunk::compareContents: the bitmaps, and the values where they are set.
InputAt(chunk, i) == IF columns[column].type = "STRING" THEN StringAt(chunk.memory, i - 1)
                     ELSE <<Word(chunk.memory, SlotBytes * (i - 1))>>
CompareContents(chunk) ==
    /\ Len(chunk.present) = tuples
    /\ \A i \in 1..tuples : chunk.present[i] = WriteBITMAP(map, tuples)[i]
    /\ \A i \in 1..tuples : chunk.present[i] => ReadAt(i) = InputAt(chunk, i)

\* What a reader gets for a row is what the CSV file says: a null where it has one and its
\* text elsewhere, whichever scheme, whichever way to decompress, whatever the columns
\* before left in the caches.  A conversion that could not keep the rows of its columns
\* together (Parser.cpp) has failed before.  Only one column is not read: a dictionary whose
\* runs the integer picker did not keep (DynamicDictionary.cpp).
TableReadBack ==
    /\ pc = "read" =>
         /\ CompareContents(InputOf(column))
         /\ \A i \in 1..tuples :
              LET cells == table.rows[range.offset + i]
                  type == columns[column].type
                  cell == cells[columns[column].field]
              IN  /\ columns[column].field <= Len(cells)
                  /\ WriteBITMAP(map, tuples)[i] = IsSet(type, cell)
                  /\ IsSet(type, cell) =>
                       ReadAt(i) = IF type = "STRING" THEN cell.text ELSE <<cell.number>>
    /\ pc = "threw" =>
         kept.scheme = "DICT" /\ kept.byRuns /\ RunsMayBeLost(tuples, Len(kept.runs))

\* Every chunk that was compressed is decompressed: the tests compress a chunk and compare
\* what decompress returns (TestHelper.cpp), so it has to return.
EveryChunkDecompresses == pc # "threw"

\* What BtrReader reports of a chunk; DICTIONARY_8 has no getTotalLength.
DecompressedSize ==
    IF kept.scheme = "numbers" THEN SlotBytes * tuples
    ELSE GetDecompressedSizeNoCopy(kept, tuples, SetRows(map, tuples)) + 8
DecompressedDataSize ==
    IF kept.scheme = "numbers" THEN SlotBytes * tuples
    ELSE GetTotalLength(kept, tuples, SetRows(map, tuples))

\* What the caller allocates, and the bytes of the values the CSV file has.
Allocated ==
    SimdExtra + IF way = "view" \/ kept.scheme = "numbers" THEN DecompressedSize
                ELSE GetDecompressedSize(kept, tuples, SetRows(map, tuples)) + 8
DataSize ==
    IF kept.scheme = "numbers" THEN SlotBytes * range.count
    ELSE SumOf([i \in 1..tuples |-> Len(columns[column].values[range.offset + i])])

\* Nothing is written outside of what the caller allocates, and the size the reader reports
\* for the data of a chunk is that of the values the CSV file has
\* (getDecompressedSize, getDecompressedSizeNoCopy and getTotalLength of every scheme).
SizesRight ==
    column > 0 =>
        /\ \A a \in DOMAIN memory : a < Allocated
        /\ kept.scheme # "DICTIONARY_8" => DecompressedDataSize = DataSize

GetCompressedColumn(i) ==
    [at |-> block[i].offset,
     size |-> (IF i = Len(columns) THEN size ELSE block[i + 1].offset) - block[i].offset]

\* The columns of a datablock lie side by side, each with the data, its bitmap behind it and
\* the next column after that, up to the size the header gives (getCompressedColumn).
ColumnsTile ==
    (layout = "datablock" /\ pc = "compressed") =>
        \A i \in DOMAIN block :
            /\ GetCompressedColumn(i).at >= HeaderSize
            /\ GetCompressedColumn(i).at + GetCompressedColumn(i).size = block[i].end
=============================================================================
