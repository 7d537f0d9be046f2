------------------------------ MODULE BitPacking ------------------------------
(***************************************************************************)
(* FBP (the scheme BP) and PBP (PFOR): what they write into the output, at *)
(* which address, and how a row is found in it.  The codec below them is   *)
(* external: FastBinaryPacking<32> packs whole blocks, each with a header  *)
(* word of the widths of its mini blocks, and VariableByte the remainder.  *)
(* A word is a record of what it is a part of.                             *)
(***************************************************************************)
EXTENDS Integers, FiniteSetsExt, SequencesExt

CONSTANTS
    MiniSize,        \* values of a mini block: 32, one bit of each makes a word
    MinisPerBlock    \* mini blocks of a block: 4, one byte of the header word each

ASSUME PackingAssumption == MiniSize \in Nat \ {0} /\ MinisPerBlock \in Nat \ {0}

BlockSize == MiniSize * MinisPerBlock
BitsNeeded(v) == CHOOSE w \in 0..v : v < 2^w /\ \A u \in 0..(w - 1) : 2^u <= v
WidthOfAll(values) == Max({0} \cup {BitsNeeded(values[i]) : i \in DOMAIN values})

\* The part-th of the pieces of a size.
Piece(values, size, part) == SubSeq(values, (part - 1) * size + 1, part * size)

---------------------------------------------------------------------------
(* encodeArray *)

Minis(block) == [m \in 1..MinisPerBlock |-> Piece(block, MiniSize, m)]
PackedBlock(block) ==
    LET minis == Minis(block)
        width(m) == WidthOfAll(minis[m])
    IN  <<[kind |-> "header", widths |-> [m \in 1..MinisPerBlock |-> width(m)]]>> \o
        FlattenSeq([m \in 1..MinisPerBlock |->
                      [w \in 1..width(m) |-> [kind |-> "mini", values |-> minis[m], word |-> w]]])

\* One byte for seven bits, at least one byte for a value.
TailWords(tail) ==
    LET bytes == FoldSeq(LAMBDA v, n : Max({1, (BitsNeeded(v) + 6) \div 7}) + n, 0, tail)
    IN  [w \in 1..((bytes + 3) \div 4) |-> [kind |-> "tail", values |-> tail, word |-> w]]

Packed(values) ==
    LET blocks == Len(values) \div BlockSize
    IN  <<[kind |-> "length", count |-> blocks * BlockSize]>> \o
        FlattenSeq([b \in 1..blocks |-> PackedBlock(Piece(values, BlockSize, b))]) \o
        TailWords(SubSeq(values, blocks * BlockSize + 1, Len(values)))

---------------------------------------------------------------------------
(* LemiereImpl: decompressBlock, blockPackedCount and decodeArray *)

Garbled == -1
Unpacked(words, at, width) ==
    [i \in 1..MiniSize |->
        IF width = 0 THEN 0
        ELSE IF words[at].kind = "mini" /\ words[at].word = 1 THEN words[at].values[i]
        ELSE Garbled]

WordsOf_NoHeader(header) == FoldSeq(+, 0, header.widths)
WordsOf(header) == 1 + FoldSeq(+, 0, header.widths)

\* Skip the blocks before it by their headers, then unpack its mini blocks.
HeaderAt(words, block) ==
    LET at[b \in 0..block] ==
          IF b = 0 THEN 2
          ELSE IF words[at[b - 1]].kind = "header" THEN at[b - 1] + WordsOf(words[at[b - 1]])
          ELSE at[b - 1]
    IN  at[block]
DecompressBlock(words, block) ==
    LET header == HeaderAt(words, block)
        widths == IF words[header].kind = "header" THEN words[header].widths
                  ELSE [m \in 1..MinisPerBlock |-> 0]
        start[m \in 1..MinisPerBlock] == IF m = 1 THEN header + 1 ELSE start[m - 1] + widths[m - 1]
    IN  FlattenSeq([m \in 1..MinisPerBlock |-> Unpacked(words, start[m], widths[m])])

BlockPackedCount(words) == words[1].count

\* The words after the last block.
TailOf(words) ==
    LET at == HeaderAt(words, BlockPackedCount(words) \div BlockSize)
    IN  IF at > Len(words) THEN <<>> ELSE words[at].values

Decompressed(words) ==
    FlattenSeq([b \in 1..(BlockPackedCount(words) \div BlockSize) |-> DecompressBlock(words, b - 1)])
      \o TailOf(words)

\* FBP::gather: rows of the tail by decompressing everything, the others block by block.
PackedGather(words, positions) ==
    [k \in DOMAIN positions |->
        IF positions[k] >= BlockPackedCount(words) THEN Decompressed(words)[positions[k] + 1]
        ELSE DecompressBlock(words, positions[k] \div BlockSize)[(positions[k] % BlockSize) + 1]]

---------------------------------------------------------------------------
(* XPBPStructure: the count in 4 bytes, the padding in one, then the data after the *)
(* padding; its size is rounded up to 8                                            *)

DataOffset == 5
StructureSize == 8
Alignment(scheme) == IF scheme = "PFOR" THEN 16 ELSE 4
Padding(scheme, address) ==
    LET a == Alignment(scheme) IN (a - ((address + DataOffset) % a)) % a

\* The bytes written by a stream that starts at an address, and how many it claims.
PackedBytes(scheme, address, words) ==
    LET data == address + DataOffset + Padding(scheme, address)
    IN  address..(address + DataOffset - 1) \cup data..(data + 4 * Len(words) - 1)
PackedSize_NoSlack(scheme, words) == StructureSize + 4 * Len(words)
PackedSize(scheme, words) ==
    StructureSize + 4 * Len(words) + (IF scheme = "PFOR" THEN 16 ELSE 0)
=============================================================================
