----------------------------- MODULE ColumnFiles -----------------------------
(***************************************************************************)
(* A table on its way through a directory: csvtobtr cuts it into ranges,   *)
(* compresses them column by column, collects the chunks of a column in    *)
(* parts and writes the parts and, last, the metadata; btrtocsv loads the  *)
(* parts the metadata names and walks them chunk by chunk.                 *)
(*                                                                         *)
(* A chunk is its place in its table and the size it is compressed to.     *)
(* The columns of both programs run in parallel; what one column does for  *)
(* one chunk touches nothing of another column and is one action.  The     *)
(* directory outlives the programs: it is converted into again and read    *)
(* again, also after a conversion that an exception has ended.             *)
(***************************************************************************)
EXTENDS Integers, Sequences, SequencesExt, FiniteSets

CONSTANTS
    NumColumns,      \* the columns of every table
    Tuples,          \* bound: the tables to convert, as their numbers of tuples
    BlockSize,       \* block_size
    MaxChunkCount,   \* the limit csvtobtr gives to getRanges
    Threshold,       \* chunk_part_size_threshold
    ChunkSizes,      \* bound: what a chunk may be compressed to
    Selections,      \* bound: the flags csvtobtr may be called with
    MaxReads         \* bound: runs of btrtocsv

None == -1
Columns == 1..NumColumns

\* --column and --typefilter leave some columns, --chunk all chunks or one.
ASSUME ConfigAssumption ==
    /\ NumColumns \in Nat \ {0} /\ BlockSize \in Nat \ {0} /\ MaxChunkCount \in Nat \ {0}
    /\ Threshold \in Nat /\ MaxReads \in Nat
    /\ Tuples \in Seq(Nat \ {0})
    /\ ChunkSizes \subseteq Nat \ {0}
    /\ \A s \in Selections : s.columns \subseteq Columns /\ s.chunk \in Nat \cup {None}

VARIABLES
    phase,        \* "idle", "writing", or "reading": the program that is running
    table,        \* the conversion that wrote last, 0 before the first
    selection,    \* its flags
    aborted,      \* it was ended by an exception
    writer,       \* [Columns -> the loop of csvtobtr over the chunks of the column]
    files,        \* [Columns -> the part files in the directory, by number from 0]
    metadata,     \* the metadata file, or NoFile
    reader,       \* [Columns -> the readers of btrtocsv, its counters and the chunk read]
    csv,          \* the rows written by btrtocsv: the chunks side by side
    reads,        \* runs of btrtocsv so far
    undefined     \* btrtocsv indexed a reader, chunk or bitmap that does not exist

vars == <<phase, table, selection, aborted, writer, files, metadata, reader, csv, reads, undefined>>

NoFile == [num_chunks |-> None]

---------------------------------------------------------------------------
(* Relation::getRanges, SplitStrategy::SEQUENTIAL *)

Least(a, b) == IF a <= b THEN a ELSE b
NumRanges(tuples) == Least((tuples + BlockSize - 1) \div BlockSize, MaxChunkCount)
RangeAt(tuples, i) ==
    LET offset == (i - 1) * BlockSize
    IN  [offset |-> offset,
         count |-> IF offset + BlockSize >= tuples THEN tuples - offset ELSE BlockSize]

Chunk(t, c, i, size) == [table |-> t, column |-> c, range |-> RangeAt(Tuples[t], i), size |-> size]

---------------------------------------------------------------------------
(* ColumnPart *)

AlignBy(n, a) == ((n + a - 1) \div a) * a

SumOfSizes(chunks) == FoldSeq(LAMBDA x, y : x.size + y, 0, chunks)

EmptyPart == [total_size |-> 0, chunks |-> <<>>]

CanAdd_PartOnly(part, size) == part.total_size <= Threshold
CanAdd(part, size) == part.total_size + size <= Threshold

AddCompressedChunk(part, chunk) ==
    [total_size |-> part.total_size + chunk.size, chunks |-> Append(part.chunks, chunk)]

\* The part file: the number of chunks and an offset of 4 bytes each, then the chunks
\* at the next multiple of 16.  The offsets are computed ahead; the place a chunk is
\* written to follows from seeking forward over the padding before it.
Header(n) == 4 + 4 * n
OffsetsOf(chunks) ==
    LET offset[i \in 1..Len(chunks)] ==
            IF i = 1 THEN AlignBy(Header(Len(chunks)), 16)
                     ELSE AlignBy(offset[i - 1] + chunks[i - 1].size, 16)
    IN  [i \in 1..Len(chunks) |-> offset[i]]
Diffs(chunks) ==
    [i \in 1..Len(chunks) |->
        OffsetsOf(chunks)[i] - (IF i = 1 THEN Header(Len(chunks))
                                ELSE OffsetsOf(chunks)[i - 1] + chunks[i - 1].size)]
PartFile(chunks) ==
    LET diffs == Diffs(chunks)
        place[i \in 1..Len(chunks)] ==
            diffs[i] + (IF i = 1 THEN Header(Len(chunks)) ELSE place[i - 1] + chunks[i - 1].size)
    IN  [num_chunks |-> Len(chunks), offsets |-> OffsetsOf(chunks),
         bytes |-> {[at |-> place[i], chunk |-> chunks[i]] : i \in 1..Len(chunks)}]

\* BtrReader::getChunkMetadata: the chunk that lies where the i-th offset points to.
HasChunk(file, i) == i \in 1..file.num_chunks /\ \E b \in file.bytes : b.at = file.offsets[i]
ChunkOf(file, i) == (CHOOSE b \in file.bytes : b.at = file.offsets[i]).chunk

FileSize(file) == LET last == CHOOSE b \in file.bytes : \A o \in file.bytes : o.at <= b.at
                  IN  last.at + last.chunk.size

---------------------------------------------------------------------------
(* csvtobtr *)

Full(s) == s.columns = Columns /\ s.chunk = None

FreshLoop == [next |-> 1, part |-> EmptyPart, num_parts |-> 0, done |-> FALSE]
NoReader == [slots |-> <<>>, part |-> 0, chunk |-> 0, got |-> <<>>, bitmaps |-> 0]

StartConversion ==
    /\ phase = "idle" /\ table < Len(Tuples)
    /\ phase' = "writing" /\ table' = table + 1 /\ aborted' = FALSE
    /\ selection' \in Selections
    /\ writer' = [c \in Columns |-> FreshLoop]
    /\ csv' = <<>> /\ undefined' = FALSE
    /\ UNCHANGED <<files, metadata, reader, reads>>

\* verify_or_die reads the part back and compares it with the chunks that went in.
Verified(file, chunks) ==
    \A i \in 1..file.num_chunks :
        i <= Len(chunks) /\ HasChunk(file, i) /\ ChunkOf(file, i) = chunks[i]

\* The part as a file with the next number, checked, or the end of the program.
WritePart(c, loop) ==
    LET file == PartFile(writer[c].part.chunks) IN
    /\ files' = [files EXCEPT ![c] = [p \in DOMAIN @ \cup {writer[c].num_parts} |->
                                         IF p = writer[c].num_parts THEN file ELSE @[p]]]
    /\ IF Verified(file, writer[c].part.chunks)
       THEN /\ writer' = [writer EXCEPT ![c] = loop]
            /\ UNCHANGED <<phase, aborted>>
       ELSE /\ phase' = "idle" /\ aborted' = TRUE
            /\ UNCHANGED writer

ConvertedColumns == {c \in selection.columns : ~writer[c].done}

SkipChunk(c) ==
    /\ writer[c].next <= NumRanges(Tuples[table])
    /\ selection.chunk \notin {None, writer[c].next - 1}
    /\ writer' = [writer EXCEPT ![c].next = @ + 1]
    /\ UNCHANGED <<phase, aborted, files>>

\* The loop body: compress, write the part if the chunk does not fit in it, add.
\* canAdd throws for a chunk that fits in no part.
ConvertChunk(c) ==
    LET loop == writer[c] IN
    /\ loop.next <= NumRanges(Tuples[table])
    /\ selection.chunk \in {None, loop.next - 1}
    /\ \E size \in ChunkSizes :
        LET chunk == Chunk(table, c, loop.next, size) IN
        \/ /\ size > Threshold
           /\ phase' = "idle" /\ aborted' = TRUE
           /\ UNCHANGED <<writer, files>>
        \/ /\ size <= Threshold /\ CanAdd(loop.part, size)
           /\ writer' = [writer EXCEPT ![c].part = AddCompressedChunk(@, chunk), ![c].next = @ + 1]
           /\ UNCHANGED <<phase, aborted, files>>
        \/ /\ size <= Threshold /\ ~CanAdd(loop.part, size)
           /\ WritePart(c, [loop EXCEPT !.part = AddCompressedChunk(EmptyPart, chunk),
                                        !.next = @ + 1, !.num_parts = @ + 1])

\* After the loop: the last part.
FinishColumn(c) ==
    LET loop == writer[c] IN
    /\ loop.next > NumRanges(Tuples[table])
    /\ IF loop.part.chunks = <<>>
       THEN /\ writer' = [writer EXCEPT ![c].done = TRUE]
            /\ UNCHANGED <<phase, aborted, files>>
       ELSE WritePart(c, [loop EXCEPT !.part = EmptyPart, !.num_parts = @ + 1, !.done = TRUE])

Convert(c) ==
    /\ phase = "writing" /\ c \in ConvertedColumns
    /\ SkipChunk(c) \/ ConvertChunk(c) \/ FinishColumn(c)
    /\ UNCHANGED <<table, selection, metadata, reader, csv, reads, undefined>>

\* Datablock::writeMetadata, after all columns.
NumPartsOf == [c \in Columns |-> writer[c].num_parts]
WriteMetadata ==
    /\ phase = "writing" /\ ConvertedColumns = {}
    /\ metadata' = [num_chunks |-> NumRanges(Tuples[table]), num_parts |-> NumPartsOf]
    /\ phase' = "idle"
    /\ UNCHANGED <<table, selection, aborted, writer, files, reader, csv, reads, undefined>>

---------------------------------------------------------------------------
(* btrtocsv *)

NewReader(file) == [file |-> file, bitmaps |-> [i \in 1..file.num_chunks |-> 0]]

\* Every part the metadata names is loaded; a file that is missing ends the program.
StartReading ==
    /\ phase = "idle" /\ metadata # NoFile /\ reads < MaxReads
    /\ reads' = reads + 1
    /\ \A c \in Columns : 0..(metadata.num_parts[c] - 1) \subseteq DOMAIN files[c]
    /\ phase' = "reading"
    /\ reader' = [c \in Columns |->
          [NoReader EXCEPT !.slots =
              [p \in 1..metadata.num_parts[c] |-> NewReader(files[c][p - 1])]]]
    /\ csv' = <<>> /\ undefined' = FALSE
    /\ UNCHANGED <<table, selection, aborted, writer, files, metadata>>

\* BtrReader::getBitmap through one of the readers of a column: the wrapper is kept
\* in that reader; wrappers are told apart by the order in which they are made.
WithBitmap(r, slot, i) ==
    IF r.slots[slot].bitmaps[i] # 0 THEN r
    ELSE [r EXCEPT !.slots[slot].bitmaps[i] = r.bitmaps + 1, !.bitmaps = @ + 1]

\* At the end of a part the next reader is assigned to the reference that still names
\* the old one: the old one becomes a copy, and it is the copy that is read from.
MustAdvance_Late(r) == r.chunk > r.slots[r.part + 1].file.num_chunks
MustAdvance(r) == r.chunk >= r.slots[r.part + 1].file.num_chunks
Advanced_SamePart(r) ==
    [r EXCEPT !.slots[r.part + 1] = r.slots[r.part + 2], !.chunk = 0]
Advanced_WrongWay(r) ==
    [r EXCEPT !.slots[r.part + 2] = r.slots[r.part + 1], !.part = @ + 1, !.chunk = 0]
Advanced(r) ==
    [r EXCEPT !.slots[r.part + 1] = r.slots[r.part + 2], !.part = @ + 1, !.chunk = 0]

\* What the task of a column does for one chunk: through which reader it reads, and how
\* it leaves the counters.
InRange(r) == r.part + 1 <= Len(r.slots)
                /\ (MustAdvance(r) => r.part + 2 <= Len(r.slots))
Positioned(r) == IF MustAdvance(r) THEN Advanced(r) ELSE r

ReadChunk(c) ==
    LET r == reader[c]
        q == Positioned(r)
        through == r.part + 1
        readable == InRange(r) /\ HasChunk(q.slots[through].file, q.chunk + 1) IN
    /\ phase = "reading" /\ Len(csv) < metadata.num_chunks /\ r.got = <<>>
    /\ IF readable
       THEN /\ reader' = [reader EXCEPT ![c] =
                 [WithBitmap(q, through, q.chunk + 1) EXCEPT
                     !.got = <<ChunkOf(q.slots[through].file, q.chunk + 1)>>, !.chunk = @ + 1]]
            /\ UNCHANGED <<phase, undefined>>
       ELSE /\ phase' = "idle" /\ undefined' = TRUE
            /\ UNCHANGED reader
    /\ UNCHANGED <<table, selection, aborted, writer, files, metadata, csv, reads>>

\* outputChunk: values from the chunks just read, null maps from the readers the
\* counters name, and the number of rows from the first column.
NullmapOf(r) == ChunkOf(r.slots[r.part + 1].file, r.chunk)
OutputChunk ==
    /\ phase = "reading" /\ \A c \in Columns : reader[c].got # <<>>
    /\ csv' = Append(csv, [rows  |-> reader[1].got[1].range.count,
                           cells |-> [c \in Columns |-> reader[c].got[1]],
                           nulls |-> [c \in Columns |-> NullmapOf(reader[c])]])
    /\ reader' = [c \in Columns |->
                     [WithBitmap(reader[c], reader[c].part + 1, reader[c].chunk) EXCEPT !.got = <<>>]]
    /\ UNCHANGED <<phase, table, selection, aborted, writer, files, metadata, reads, undefined>>

EndReading ==
    /\ phase = "reading" /\ Len(csv) = metadata.num_chunks
    /\ \A c \in Columns : reader[c].got = <<>>
    /\ phase' = "idle"
    /\ UNCHANGED <<table, selection, aborted, writer, files, metadata, reader, csv, reads, undefined>>

---------------------------------------------------------------------------

Init ==
    /\ phase = "idle" /\ table = 0 /\ selection = [columns |-> Columns, chunk |-> None]
    /\ aborted = FALSE
    /\ writer = [c \in Columns |-> FreshLoop]
    /\ files = [c \in Columns |-> <<>>] /\ metadata = NoFile
    /\ reader = [c \in Columns |-> NoReader]
    /\ csv = <<>> /\ reads = 0 /\ undefined = FALSE

Next ==
    \/ StartConversion \/ WriteMetadata \/ StartReading \/ OutputChunk \/ EndReading
    \/ \E c \in Columns : Convert(c) \/ ReadChunk(c)

Spec == Init /\ [][Next]_vars

---------------------------------------------------------------------------
(* Properties *)

\* The directory holds a whole table: its last conversion was of everything and ended.
Intact == ~aborted /\ Full(selection)

\* Every variable has its type, and the offsets of a part are aligned.
TypeOK ==
    /\ phase \in {"idle", "writing", "reading"}
    /\ table \in 0..Len(Tuples) /\ reads \in 0..MaxReads
    /\ aborted \in BOOLEAN /\ undefined \in BOOLEAN
    /\ \A c \in Columns :
         /\ writer[c].part.total_size \in 0..Threshold
         /\ writer[c].num_parts \in Nat /\ writer[c].next \in Nat
         /\ reader[c].part \in 0..Len(reader[c].slots) /\ reader[c].chunk \in Nat
         /\ \A p \in DOMAIN files[c] :
              /\ DOMAIN files[c][p].offsets = 1..files[c][p].num_chunks
              /\ \A i \in DOMAIN files[c][p].offsets :
                    files[c][p].offsets[i] > 0 /\ files[c][p].offsets[i] % 16 = 0

\* btrtocsv of an intact directory never reads past its parts, chunks or bitmaps,
\* also when an earlier conversion left more parts than this one wrote.
NeverUndefined == Intact => ~undefined

\* The rows written are those of the table converted last, in order and complete: each
\* cell from its own column and range, its null map from the same chunk, and as many
\* rows as every column has there, wherever parts end.
CsvIsTable ==
    Intact =>
    /\ \A k \in 1..Len(csv), c \in Columns :
         /\ csv[k].cells[c].table = table /\ csv[k].cells[c].column = c
         /\ csv[k].cells[c].range = RangeAt(Tuples[table], k)
         /\ csv[k].nulls[c] = csv[k].cells[c]
         /\ csv[k].rows = csv[k].cells[c].range.count
    /\ (csv # <<>> /\ Len(csv) = metadata.num_chunks /\ Len(csv) < MaxChunkCount) =>
         FoldSeq(LAMBDA x, n : x.rows + n, 0, csv) = Tuples[table]

\* The readers of a column are deleted together at the end: no two of them, the
\* overwritten ones included, hold the same bitmap.
BitmapsOwnedOnce ==
    \A c \in Columns : \A s, t \in 1..Len(reader[c].slots) :
        \A i \in DOMAIN reader[c].slots[s].bitmaps, j \in DOMAIN reader[c].slots[t].bitmaps :
            (reader[c].slots[s].bitmaps[i] # 0
               /\ reader[c].slots[s].bitmaps[i] = reader[c].slots[t].bitmaps[j]) => s = t /\ i = j

\* Chunk.cpp:235 says of a chunk alone what the reader of a part relies on: an object
\* is never larger than the threshold.
PartsFit == \A c \in Columns : \A p \in DOMAIN files[c] : FileSize(files[c][p]) <= Threshold

\* The directory as a stream per column.  The parts of a column in the order of their
\* numbers, then the part being collected, are its chunks; what the reader has taken is
\* what it has written, and for some columns one chunk more.
ChunksIn(file) == [i \in 1..file.num_chunks |-> ChunkOf(file, i)]
Stream == INSTANCE ColumnStream WITH
    stream   <- [c \in Columns |->
                   FlattenSeq([p \in 1..writer[c].num_parts |-> ChunksIn(files[c][p - 1])])
                     \o writer[c].part.chunks],
    sealed   <- phase # "writing" /\ table > 0,
    taken    <- [c \in Columns |->
                   [k \in 1..Len(csv) |-> csv[k].cells[c]] \o
                     (IF phase = "reading" THEN reader[c].got ELSE <<>>)],
    promised <- Intact

\* The directory implements the streams.
ImplementsStreams == Stream!Spec
=============================================================================
