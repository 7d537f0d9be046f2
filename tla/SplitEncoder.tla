----------------------------- MODULE SplitEncoder -----------------------------
(***************************************************************************)
(* SUB_INT_SPLIT from the plan to the bytes and back: the sections of a    *)
(* column are packed one behind the other into the output, each at the     *)
(* address the sizes returned by the ones before lead to, and read back    *)
(* whole or row by row.  The planner is SplitPlanner; which scheme packs a *)
(* section is the picker's choice.                                         *)
(***************************************************************************)
EXTENDS SplitPlanner, BitPacking

CONSTANTS
    Schemes,      \* the schemes a section may get beside ONE_VALUE
    ValueBytes,   \* sizeof(UT)
    Addresses,    \* bound: where the payload may start
    MaxPositions  \* bound: rows asked for at once

ASSUME EncoderAssumption ==
    /\ Schemes \subseteq {"UNCOMPRESSED", "BP", "PFOR"} /\ ValueBytes \in Nat
    /\ Addresses \subseteq Nat /\ MaxPositions \in Nat

VARIABLES
    base,         \* the address of the payload
    packed,       \* the sections written so far: [from, to, scheme, offset, used, data]
    answer        \* what was read last: [rows, values], or NoRows

vars == <<pc, column, config, forced, samples, range, scores, plan, base, packed, answer>>

NoRows == [rows |-> <<>>, values |-> <<>>]
Rows == Len(column.values)
RawSize == Rows * ValueBytes
Written == FoldSeq(LAMBDA s, n : s.used + n, 0, packed)

---------------------------------------------------------------------------
(* encode *)

SectionValues(segment) ==
    [i \in 1..Rows |-> (column.values[i] \div 2^segment.from) % 2^(segment.to - segment.from + 1)]
IsConstant(values) == Cardinality(Range(values)) = 1

\* ONE_VALUE is forced for a constant section and not considered for any other.
PackedBy(scheme, values) ==
    CASE scheme = "ONE_VALUE"    -> [used |-> 4, data |-> <<values[1]>>]
      [] scheme = "UNCOMPRESSED" -> [used |-> 4 * Len(values), data |-> values]
      [] OTHER -> [used |-> PackedSize(scheme, Packed(values)), data |-> Packed(values)]

\* A stream without tuples is raw without a plan.
EncodeNothing ==
    /\ pc = "idle"
    /\ pc' = "raw" /\ column' = NoColumn
    /\ base' \in Addresses
    /\ UNCHANGED <<config, forced, samples, range, scores, plan, packed, answer>>

StartEncode ==
    /\ pc = "planned" /\ Rows > 0
    /\ pc' = "encoding"
    /\ base' \in Addresses
    /\ UNCHANGED <<column, config, forced, samples, range, scores, plan, packed, answer>>

\* The encoding is given up as soon as it is larger than the values.
TooLarge_Before(used) == Written > RawSize
TooLarge(used) == Written + used > RawSize
EncodeSection ==
    /\ pc = "encoding" /\ Len(packed) < Len(plan.segments)
    /\ LET segment == plan.segments[Len(packed) + 1]
           values == SectionValues(segment)
       IN  \E scheme \in IF IsConstant(values) THEN {"ONE_VALUE"} ELSE Schemes :
             LET by == PackedBy(scheme, values) IN
             IF TooLarge(by.used)
             THEN pc' = "raw" /\ packed' = <<>>
             ELSE /\ packed' = Append(packed, [from |-> segment.from, to |-> segment.to,
                                               scheme |-> scheme, offset |-> Written,
                                               used |-> by.used, data |-> by.data])
                  /\ UNCHANGED pc
    /\ UNCHANGED <<column, config, forced, samples, range, scores, plan, base, answer>>

EndEncode ==
    /\ pc = "encoding" /\ Len(packed) = Len(plan.segments)
    /\ pc' = "encoded"
    /\ UNCHANGED <<column, config, forced, samples, range, scores, plan, base, packed, answer>>

---------------------------------------------------------------------------
(* decode and gather *)

\* The bytes a section has written, and whether they are still what it wrote.
BytesOf(s) ==
    LET start == base + s.offset IN
    IF s.scheme \in {"ONE_VALUE", "UNCOMPRESSED"} THEN start..(start + 4 * Len(s.data) - 1)
    ELSE PackedBytes(s.scheme, start, s.data)
Intact(k) == \A j \in (k + 1)..Len(packed) : BytesOf(packed[k]) \cap BytesOf(packed[j]) = {}

\* Only BP finds rows without decompressing everything.
SectionAt(k, positions) ==
    LET s == packed[k]
        from == CASE s.scheme = "ONE_VALUE" -> [i \in DOMAIN positions |-> s.data[1]]
                  [] s.scheme = "UNCOMPRESSED" -> [i \in DOMAIN positions |-> s.data[positions[i] + 1]]
                  [] s.scheme = "BP" -> PackedGather(s.data, positions)
                  [] OTHER -> [i \in DOMAIN positions |-> Decompressed(s.data)[positions[i] + 1]]
    IN  IF Intact(k) THEN from ELSE [i \in DOMAIN positions |-> Garbled]
SectionAll(k) ==
    LET s == packed[k]
        all == CASE s.scheme = "ONE_VALUE" -> [i \in 1..Rows |-> s.data[1]]
                 [] s.scheme = "UNCOMPRESSED" -> s.data
                 [] OTHER -> Decompressed(s.data)
    IN  IF Intact(k) THEN all ELSE [i \in 1..Rows |-> Garbled]

\* The sections masked, shifted and joined.
JoinedAt(section, i) ==
    FoldSeq(LAMBDA k, v : (section[k][i] % 2^(packed[k].to - packed[k].from + 1)) * 2^packed[k].from + v,
            0, [k \in DOMAIN packed |-> k])

Decode ==
    /\ pc \in {"encoded", "raw"} /\ answer = NoRows
    /\ LET section == [k \in DOMAIN packed |-> SectionAll(k)]
       IN  answer' = [rows |-> [i \in 1..Rows |-> i - 1],
                      values |-> IF pc = "raw" THEN column.values
                                 ELSE [i \in 1..Rows |-> JoinedAt(section, i)]]
    /\ UNCHANGED <<pc, column, config, forced, samples, range, scores, plan, base, packed>>

Gather ==
    /\ pc \in {"encoded", "raw"} /\ answer = NoRows /\ Rows > 0
    /\ \E n \in 1..MaxPositions : \E positions \in [1..n -> 0..(Rows - 1)] :
         LET section == [k \in DOMAIN packed |-> SectionAt(k, positions)]
         IN  answer' = [rows |-> positions,
                        values |-> [i \in 1..n |-> IF pc = "raw" THEN column.values[positions[i] + 1]
                                                   ELSE JoinedAt(section, i)]]
    /\ UNCHANGED <<pc, column, config, forced, samples, range, scores, plan, base, packed>>

\* The output is given up; what stays is the thread's sample and the forced boundaries,
\* which end with their scope.
Done ==
    /\ pc \in {"planned", "encoded", "raw"}
    /\ pc' = "idle"
    /\ column' = NoColumn /\ config' = NoConfig /\ forced' \in {forced, <<>>}
    /\ range' = NoRange /\ scores' = {} /\ plan' = NoPlan
    /\ base' = 0 /\ packed' = <<>> /\ answer' = NoRows
    /\ UNCHANGED samples

Init == PlanInit /\ base = 0 /\ packed = <<>> /\ answer = NoRows

Next ==
    \/ PlanNext /\ UNCHANGED <<base, packed, answer>>
    \/ EncodeNothing \/ StartEncode \/ EncodeSection \/ EndEncode
    \/ Decode \/ Gather \/ Done

Spec == Init /\ [][Next]_vars

---------------------------------------------------------------------------
(* Properties *)

\* Every variable has its type.
TypeOK ==
    /\ pc \in {"idle", "sampling", "scoring", "solving", "planned", "encoding", "encoded", "raw"}
    /\ column \in Inputs \cup {NoColumn} /\ config \in Configs \cup {NoConfig}
    /\ \A i \in DOMAIN samples : samples[i] \in Nat
    /\ Len(packed) <= Len(plan.segments)
    /\ Written \in 0..RawSize
    /\ Len(answer.values) = Len(answer.rows)

\* What is read is what was written, read whole or row by row, whatever the plan, the
\* schemes of the sections and the address of the output: no section is written over
\* the end of the one before it (SubIntSplitCore, FBP and PBP).
SectionsReadBack ==
    \A i \in DOMAIN answer.rows : answer.values[i] = column.values[answer.rows[i] + 1]
=============================================================================
