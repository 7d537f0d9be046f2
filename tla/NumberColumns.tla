---------------------------- MODULE NumberColumns ----------------------------
(***************************************************************************)
(* A part of a number column: its chunks are compressed by cascades of the *)
(* schemes of NumberCodecs, read back chunk by chunk (BtrReader::readColumn)*)
(* and by row position across chunks (BtrReader::gatherColumn).            *)
(***************************************************************************)
EXTENDS NumberCodecs

CONSTANTS
    Inputs,       \* bound: the chunks to write, [type, src, nulls]
    Pool,         \* the enabled schemes beside ONE_VALUE and UNCOMPRESSED
    CascadeDepth, \* max_cascade_depth
    Leftovers,    \* bound: what unwritten memory may hold
    MaxRows       \* bound: rows in the part

ASSUME PoolAssumption ==
    /\ CascadeDepth \in Nat /\ MaxRows \in Nat /\ Leftovers \subseteq Int
    /\ "DICT" \in Pool => "BP" \in Pool
\* A chunk has rows, and their number fits an INTEGER.
ASSUME InputsAssumption ==
    \A c \in Inputs :
        /\ c = [type |-> c.type, src |-> c.src, nulls |-> c.nulls]
        /\ c.type \in Types /\ c.src \in Seq(NumbersOf(c.type)) /\ c.nulls \subseteq DOMAIN c.src
        /\ Len(c.src) \in 1..(2^(NarrowBits - 1) - 1)

VARIABLES
    part,    \* the chunks written: [type, src, nulls, encoded]
    answer   \* what the reader returned last, or NoAnswer

vars == <<part, answer>>

NoAnswer == [kind |-> "none"]

---------------------------------------------------------------------------
(* What is laid out in the bytes of an encoded stream *)

Schemes == {"UNCOMPRESSED", "RAW", "BP", "DOUBLE_BP", "PFOR_DELTA", "ONE_VALUE", "DICTIONARY_8",
            "TRUNCATION_8", "RLE", "DICT", "FREQUENCY", "FOR", "BP64", "SUB_INT_SPLIT",
            "PSEUDODECIMAL"}

\* What each scheme writes over the sub-streams there may be.
Formats(subs) ==
    [scheme : {"UNCOMPRESSED", "RAW", "BP", "DOUBLE_BP", "PFOR_DELTA"}, values : Seq(Int)]
    \cup [scheme : {"ONE_VALUE"}, value : Int]
    \cup [scheme : {"DICTIONARY_8"}, dict : Seq(Int), bytes : Seq(Nat)]
    \cup [scheme : {"TRUNCATION_8"}, base : Int, bytes : Seq(Nat)]
    \cup [scheme : {"RLE"}, runs : Nat, values : subs, counts : subs]
    \cup [scheme : {"DICT"}, dict : Seq(Int), codes : subs]
    \cup [scheme : {"FREQUENCY"}, top : Int, rows : SUBSET Nat, exceptions : subs]
    \cup [scheme : {"FOR"}, bias : Int, biased : subs]
    \cup [scheme : {"BP64", "SUB_INT_SPLIT"}, sections : Seq([first : Nat, last : Nat]), parts : Seq(subs)]
    \cup [scheme : {"PSEUDODECIMAL"}, blocks : SUBSET Nat, count : Nat,
          numbers : subs, exponents : subs, patches : subs]

\* The encoded streams with at most d levels of sub-streams.
Encoded[d \in Nat] == Formats(IF d = 0 THEN {} ELSE Encoded[d - 1])

---------------------------------------------------------------------------
(* Compression *)

\* A stream to compress: the scheme its parent forces, and what unwritten memory holds.
Streams == [type : Types, src : Seq(Int), nulls : SUBSET Nat, force : Schemes \cup {AutoScheme}, junk : Int]
Stream(type, src, nulls, force, junk) ==
    [type |-> type, src |-> src, nulls |-> nulls, force |-> force, junk |-> junk]

SchemesOf(type) ==
    {"RLE", "DICT", "FREQUENCY", "DICTIONARY_8"} \cup
    CASE type = "INTEGER" -> {"BP", "PFOR_DELTA", "FOR", "TRUNCATION_8", "SUB_INT_SPLIT"}
      [] type = "BIGINT"  -> {"FOR", "BP64", "TRUNCATION_8", "SUB_INT_SPLIT"}
      [] type = "DOUBLE"  -> {"PSEUDODECIMAL", "DOUBLE_BP"}

\* The schemes whose expected ratio is not zero for a stream at a level.  PFOR_DELTA is
\* for sorted streams; an override gives it to any.
Usable(level, s) ==
    {c \in SchemesOf(s.type) \cap Pool :
        /\ c = "DICT" => level > 1
        /\ c = "SUB_INT_SPLIT" => level = CascadeDepth /\ level > 1
        /\ c = "DICTIONARY_8" => Cardinality(Keys(s.src)) <= 2^CodeBits
        /\ c = "TRUNCATION_8" => FitsCode(s.src)
        /\ c = "PSEUDODECIMAL" => ~TooManyPatches(s.src)}

Plain(scheme, values) == [scheme |-> scheme, values |-> values]
OneValue(src) == [scheme |-> "ONE_VALUE", value |-> Dictionary(src)[1]]
FixedDictionary(src) ==
    [scheme |-> "DICTIONARY_8", dict |-> Dictionary(src), bytes |-> CodesOf(src)]
Truncation(s) ==
    [scheme |-> "TRUNCATION_8", base |-> Least(s.src), bytes |-> Truncated(s.src, s.nulls, s.junk)]

\* The encodings of a stream by each composite scheme: one for every way to encode its
\* sub-streams, which are in subs.
RleEncodings(subs, s) ==
    LET runs == Runs(s.src, s.nulls) IN
    {[scheme |-> "RLE", runs |-> Len(runs.values), values |-> v, counts |-> c] :
       v \in subs[Stream(s.type, runs.values, {}, AutoScheme, s.junk)],
       c \in subs[Stream("INTEGER", runs.counts, {}, AutoScheme, s.junk)]}

DictEncodings(subs, s) ==
    {[scheme |-> "DICT", dict |-> Dictionary(s.src), codes |-> c] :
       c \in subs[Stream("INTEGER", CodesOf(s.src), {}, "BP", s.junk)]}

FrequencyEncodings(subs, s) ==
    LET rows == Exceptions(s.src, s.nulls) IN
    {[scheme |-> "FREQUENCY", top |-> TopValue(s.src, s.nulls), rows |-> rows, exceptions |-> e] :
       e \in subs[Stream(s.type, Selected(s.src, rows), {}, AutoScheme, s.junk)]}

ForEncodings(subs, s) ==
    {[scheme |-> "FOR", bias |-> Least(s.src), biased |-> b] :
       b \in subs[Stream(s.type, Biased(s.src, s.nulls, Bits(s.type)), s.nulls, AutoScheme, s.junk)]}

Bp64Encodings(subs, s) ==
    LET half(k) == subs[Stream("INTEGER", Section(s.src, Halves[k], Bits("BIGINT")), s.nulls, AutoScheme, s.junk)] IN
    {[scheme |-> "BP64", sections |-> Halves, parts |-> <<low, high>>] :
       low \in half(1), high \in half(2)}

\* What a constant section is forced to; the picker skips ONE_VALUE when nested.
SectionScheme(values) == IF Cardinality(Keys(values)) = 1 THEN "ONE_VALUE" ELSE AutoScheme

\* The ways to encode every section of a plan.
PartsOf(subs, s, plan) ==
    LET of == [k \in DOMAIN plan |->
                 LET values == Section(s.src, plan[k], Bits(s.type)) IN
                 subs[Stream("INTEGER", values, {}, SectionScheme(values), s.junk)]] IN
    {f \in [DOMAIN plan -> UNION {of[k] : k \in DOMAIN plan}] : \A k \in DOMAIN plan : f[k] \in of[k]}
SplitEncodings(subs, s) ==
    {Plain("RAW", s.src)} \cup
    UNION {{[scheme |-> "SUB_INT_SPLIT", sections |-> plan, parts |-> p] : p \in PartsOf(subs, s, plan)} :
             plan \in Plans(Bits(s.type))}

DecimalEncodings(subs, s) ==
    LET d == Decimals(s.src) IN
    {[scheme |-> "PSEUDODECIMAL", blocks |-> d.blocks, count |-> Len(d.numbers),
      numbers |-> m, exponents |-> e, patches |-> p] :
       m \in subs[Stream("INTEGER", d.numbers, {}, AutoScheme, s.junk)],
       e \in subs[Stream("INTEGER", d.exponents, {}, AutoScheme, s.junk)],
       p \in subs[Stream("DOUBLE", d.patches, {}, AutoScheme, s.junk)]}

EncodingsBy(scheme, subs, s) ==
    CASE scheme = "ONE_VALUE"           -> {OneValue(s.src)}
      [] scheme \in {"BP", "DOUBLE_BP"} -> {Plain(scheme, s.src)}
      [] scheme = "PFOR_DELTA"          -> {Plain(scheme, Deltas(s.src))}
      [] scheme = "DICTIONARY_8"        -> {FixedDictionary(s.src)}
      [] scheme = "TRUNCATION_8"        -> {Truncation(s)}
      [] scheme = "RLE"                 -> RleEncodings(subs, s)
      [] scheme = "DICT"                -> DictEncodings(subs, s)
      [] scheme = "FREQUENCY"           -> FrequencyEncodings(subs, s)
      [] scheme = "FOR"                 -> ForEncodings(subs, s)
      [] scheme = "BP64"                -> Bp64Encodings(subs, s)
      [] scheme = "SUB_INT_SPLIT"       -> SplitEncodings(subs, s)
      [] scheme = "PSEUDODECIMAL"       -> DecimalEncodings(subs, s)

\* CSchemePicker::compress at a level: constant columns, exhausted cascades, and else any
\* usable scheme, or UNCOMPRESSED because it is chosen or fallen back to.
EncodingsAt(level, subs, s) ==
    IF level = CascadeDepth /\ (s.nulls = RowsOf(s.src) \/ Cardinality(Keys(s.src)) = 1)
    THEN {OneValue(s.src)}
    ELSE {Plain("UNCOMPRESSED", s.src)} \cup
         IF level = 0 \/ s.src = <<>> THEN {}
         ELSE UNION {EncodingsBy(c, subs, s) :
                       c \in IF s.force = AutoScheme THEN Usable(level, s) ELSE {s.force}}

Encodings[level \in Nat] ==
    [s \in Streams |-> EncodingsAt(level, IF level = 0 THEN <<>> ELSE Encodings[level - 1], s)]

---------------------------------------------------------------------------
(* Decompression: subs decompresses the sub-streams of e, junk is what dest held before *)

Requests == [type : Types, nulls : SUBSET Nat, count : Nat, junk : Int]
Request(type, nulls, count, junk) == [type |-> type, nulls |-> nulls, count |-> count, junk |-> junk]

RunValues(subs, e, r) == subs[e.values][Request(r.type, {}, e.runs, r.junk)]
RunCounts(subs, e, r) == subs[e.counts][Request("INTEGER", {}, e.runs, r.junk)]
Repeated(values, counts) ==
    FlattenSeq([r \in DOMAIN values |-> [i \in 1..counts[r] |-> values[r]]])

DictDecode(subs, e, r) ==
    LET codes == subs[e.codes][Request("INTEGER", {}, r.count, r.junk)] IN
    [i \in 1..r.count |-> e.dict[codes[i] + 1]]

FrequencyDecode(subs, e, r) ==
    LET exceptions == subs[e.exceptions][Request(r.type, {}, Cardinality(e.rows), r.junk)] IN
    [i \in 1..r.count |-> IF i \in e.rows THEN exceptions[RankOf(e.rows, i)] ELSE e.top]

\* Decompression and random access of FOR: a stream of null rows is left as it is.
AllNull(r) == r.count > 0 /\ r.nulls = 1..r.count
Unbiased(values, e, r) ==
    IF AllNull(r) THEN values
    ELSE [i \in DOMAIN values |-> Signed(values[i] + e.bias, Bits(r.type))]

\* The sections are decoded with the nulls BP64 was given; SUB_INT_SPLIT passes none.
NullsOfSections(e, r) == IF e.scheme = "BP64" THEN r.nulls ELSE {}
SectionsDecode(subs, e, r) ==
    Joined([k \in DOMAIN e.parts |->
              subs[e.parts[k]][Request("INTEGER", NullsOfSections(e, r), r.count, r.junk)]],
           e.sections, r.count, Bits(r.type))

\* Null rows are left as they are in memory.
TruncationDecode(e, r) ==
    [i \in 1..r.count |-> IF i \in r.nulls THEN r.junk ELSE e.base + e.bytes[i]]

DecimalDecode(subs, e, r) ==
    Restored([blocks |-> e.blocks,
              numbers |-> subs[e.numbers][Request("INTEGER", {}, e.count, r.junk)],
              exponents |-> subs[e.exponents][Request("INTEGER", {}, r.count, r.junk)],
              patches |-> subs[e.patches][Request("DOUBLE", {}, r.count - e.count, r.junk)]], r.count)

DecodedBy(subs, e, r) ==
    CASE e.scheme \in {"UNCOMPRESSED", "BP", "DOUBLE_BP", "RAW"} -> e.values
      [] e.scheme = "PFOR_DELTA"    -> Undeltas(e.values)
      [] e.scheme = "ONE_VALUE"     -> [i \in 1..r.count |-> e.value]
      [] e.scheme = "DICTIONARY_8"  -> [i \in 1..r.count |-> e.dict[e.bytes[i] + 1]]
      [] e.scheme = "TRUNCATION_8"  -> TruncationDecode(e, r)
      [] e.scheme = "RLE"           -> Repeated(RunValues(subs, e, r), RunCounts(subs, e, r))
      [] e.scheme = "DICT"          -> DictDecode(subs, e, r)
      [] e.scheme = "FREQUENCY"     -> FrequencyDecode(subs, e, r)
      [] e.scheme = "FOR"           -> Unbiased(subs[e.biased][r], e, r)
      [] e.scheme \in {"BP64", "SUB_INT_SPLIT"} -> SectionsDecode(subs, e, r)
      [] e.scheme = "PSEUDODECIMAL" -> DecimalDecode(subs, e, r)

Decode[d \in Nat] ==
    [e \in Encoded[d] |-> [r \in Requests |-> DecodedBy(IF d = 0 THEN <<>> ELSE Decode[d - 1], e, r)]]

---------------------------------------------------------------------------
(* Random access: positions count from 0 *)

Lookups == [type : Types, nulls : SUBSET Nat, count : Nat, junk : Int, positions : Seq(Nat)]
Lookup(type, nulls, count, junk, positions) ==
    [type |-> type, nulls |-> nulls, count |-> count, junk |-> junk, positions |-> positions]
RequestOf(q) == Request(q.type, q.nulls, q.count, q.junk)

At(values, positions) == [k \in DOMAIN positions |-> values[positions[k] + 1]]

\* The binary search of RLE::gather for the run of a row, counted from 0: after as many
\* rounds as there are runs, lo and hi have met.
GoesOn_OffByOne(end, row) == end < row
GoesOn(end, row) == end <= row
RunOf(ends, row) ==
    LET Round[k \in 0..Len(ends)] ==
          IF k = 0 THEN [lo |-> 0, hi |-> Len(ends)]
          ELSE LET lo == Round[k - 1].lo
                   hi == Round[k - 1].hi
                   mid == lo + (hi - lo) \div 2
               IN  IF lo >= hi THEN [lo |-> lo, hi |-> hi]
                   ELSE IF GoesOn(ends[mid + 1], row) THEN [lo |-> mid + 1, hi |-> hi]
                   ELSE [lo |-> lo, hi |-> mid]
    IN  Round[Len(ends)].lo

PrefixSums(counts) ==
    LET sum[k \in 0..Len(counts)] == IF k = 0 THEN 0 ELSE sum[k - 1] + counts[k]
    IN [k \in DOMAIN counts |-> sum[k]]

RleGather(decoders, subs, e, q) ==
    LET ends == PrefixSums(RunCounts(decoders, e, q)) IN
    subs[e.values][Lookup(q.type, {}, e.runs, q.junk,
                          [k \in DOMAIN q.positions |-> RunOf(ends, q.positions[k])])]

DictGather(subs, e, q) ==
    LET codes == subs[e.codes][Lookup("INTEGER", {}, q.count, q.junk, q.positions)] IN
    [k \in DOMAIN q.positions |-> e.dict[codes[k] + 1]]

\* The exceptions among the positions are looked up together by their rank.
FrequencyGather(subs, e, q) ==
    LET excepted == {k \in DOMAIN q.positions : q.positions[k] + 1 \in e.rows}
        slots == Ranked(excepted, <)
        ranks == [j \in DOMAIN slots |-> RankOf(e.rows, q.positions[slots[j]] + 1) - 1]
        resolved == subs[e.exceptions][Lookup(q.type, {}, Cardinality(e.rows), q.junk, ranks)] IN
    [k \in DOMAIN q.positions |-> IF k \in excepted THEN resolved[RankOf(excepted, k)] ELSE e.top]

SectionsGather(subs, e, q) ==
    Joined([k \in DOMAIN e.parts |->
              subs[e.parts[k]][Lookup("INTEGER", NullsOfSections(e, q), q.count, q.junk, q.positions)]],
           e.sections, Len(q.positions), Bits(q.type))

\* Schemes without a gather of their own decode the stream and pick; TRUNCATION reads
\* null rows as well.
GatheredBy(d, subs, e, q) ==
    CASE e.scheme = "RLE"           -> RleGather(Decode[d - 1], subs, e, q)
      [] e.scheme = "DICT"          -> DictGather(subs, e, q)
      [] e.scheme = "FREQUENCY"     -> FrequencyGather(subs, e, q)
      [] e.scheme = "FOR"           -> Unbiased(subs[e.biased][q], e, q)
      [] e.scheme = "DICTIONARY_8"  -> [k \in DOMAIN q.positions |-> e.dict[e.bytes[q.positions[k] + 1] + 1]]
      [] e.scheme = "TRUNCATION_8"  -> [k \in DOMAIN q.positions |-> e.base + e.bytes[q.positions[k] + 1]]
      [] e.scheme \in {"BP64", "SUB_INT_SPLIT"} -> SectionsGather(subs, e, q)
      [] OTHER -> At(Decode[d][e][RequestOf(q)], q.positions)

Gather[d \in Nat] ==
    [e \in Encoded[d] |-> [q \in Lookups |-> GatheredBy(d, IF d = 0 THEN <<>> ELSE Gather[d - 1], e, q)]]

---------------------------------------------------------------------------
(* The part and its reader *)

RowsIn(k) == Len(part[k].src)
ChunkStart(k) == MapThenSumSet(RowsIn, 1..(k - 1))
Total == ChunkStart(Len(part) + 1)

\* std::upper_bound over the chunk starts: the last chunk that starts at or
\* before the position.
ChunkOf(position) == Max({k \in DOMAIN part : ChunkStart(k) <= position})

\* The slots of the answer that a chunk fills, in order.
SlotsOf(k, positions) ==
    Ranked({i \in DOMAIN positions : ChunkOf(positions[i]) = k}, <)

\* Back to where the positions were asked.
Scattered_InChunkOrder(answers, slots, n) == FlattenSeq(answers)
Scattered(answers, slots, n) ==
    [i \in 1..n |->
        LET k == CHOOSE c \in DOMAIN slots : \E j \in DOMAIN slots[c] : slots[c][j] = i
            j == CHOOSE m \in DOMAIN slots[k] : slots[k][m] = i
        IN  answers[k][j]]

\* gatherColumn: the positions of a chunk are answered together.
GatherResult(positions, junk) ==
    LET slots == [k \in DOMAIN part |-> SlotsOf(k, positions)]
        locals(k) == [j \in DOMAIN slots[k] |-> positions[slots[k][j]] - ChunkStart(k)]
        answered(k) == IF slots[k] = <<>> THEN <<>>
                       ELSE Gather[CascadeDepth][part[k].encoded]
                                  [Lookup(part[k].type, part[k].nulls, RowsIn(k), junk, locals(k))]
    IN Scattered([k \in DOMAIN part |-> answered(k)], slots, Len(positions))

\* All chunks of a part belong to one column.
WriteChunk ==
    \E c \in Inputs, junk \in Leftovers :
        /\ Total + Len(c.src) <= MaxRows
        /\ part # <<>> => part[1].type = c.type
        /\ \E e \in Encodings[CascadeDepth][Stream(c.type, c.src, c.nulls, AutoScheme, junk)] :
             part' = Append(part, [type |-> c.type, src |-> c.src, nulls |-> c.nulls, encoded |-> e])
        /\ answer' = NoAnswer

ReadColumn ==
    \E k \in DOMAIN part, junk \in Leftovers :
        /\ answer' = [kind |-> "read", chunk |-> k,
                      values |-> Decode[CascadeDepth][part[k].encoded]
                                       [Request(part[k].type, part[k].nulls, RowsIn(k), junk)]]
        /\ UNCHANGED part

\* DOUBLE columns have no random access.  Bound: as many positions as chunks.
GatherColumn ==
    \E n \in 1..Len(part), junk \in Leftovers :
        /\ part # <<>>
        /\ part[1].type # "DOUBLE"
        /\ \E positions \in [1..n -> 0..(Total - 1)] :
             answer' = [kind |-> "gather", positions |-> positions,
                        values |-> GatherResult(positions, junk)]
        /\ UNCHANGED part

Init == part = <<>> /\ answer = NoAnswer

Next == WriteChunk \/ ReadColumn \/ GatherColumn

Spec == Init /\ [][Next]_vars

---------------------------------------------------------------------------
(* Properties *)

TypeOK ==
    /\ Total <= MaxRows
    /\ \A k \in DOMAIN part : [type |-> part[k].type, src |-> part[k].src, nulls |-> part[k].nulls] \in Inputs
    /\ answer.kind = "read" => Len(answer.values) = RowsIn(answer.chunk)
    /\ answer.kind = "gather" => Len(answer.values) = Len(answer.positions)

\* Chunk equality: a chunk read back has the written values in the rows that
\* are not null, whatever cascade it went through, whatever its null rows held
\* and whatever was left in memory (readColumn, Chunk::operator==).
RoundTrip ==
    answer.kind = "read" =>
        \A i \in 1..RowsIn(answer.chunk) :
            i \notin part[answer.chunk].nulls => Same(answer.values[i], part[answer.chunk].src[i])

\* Random access answers the position-th row of the column, in the order asked,
\* positions repeated or not, across chunk borders (gatherColumn, every gather).
GatherAgrees ==
    answer.kind = "gather" =>
        LET column == FlattenSeq([k \in DOMAIN part |-> part[k].src])
            present == FlattenSeq([k \in DOMAIN part |->
                         [i \in DOMAIN part[k].src |-> i \notin part[k].nulls]]) IN
        \A i \in DOMAIN answer.positions :
            LET row == answer.positions[i] + 1 IN present[row] => answer.values[i] = column[row]

\* PSEUDODECIMAL hands -0.0 down as a patch, and no cascade of the patches
\* turns it into 0 (Decimal::compress, the special case for -0.0).
SignOfZeroKept ==
    /\ answer.kind = "read"
    /\ part[answer.chunk].encoded.scheme = "PSEUDODECIMAL"
    => answer.values = part[answer.chunk].src
=============================================================================
