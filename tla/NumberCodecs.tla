---------------------------- MODULE NumberCodecs ----------------------------
(***************************************************************************)
(* What the number schemes write for a stream of values, what they read    *)
(* back from it, and what their random access returns.                     *)
(*                                                                         *)
(* A stream is a sequence of numbers; nulls is the set of its null rows,   *)
(* {} when the scheme is given no null map.  The bytes of an encoded       *)
(* stream are a record of what the scheme lays out in them, with the       *)
(* encoded sub-streams inside.  Which scheme a stream gets is the picker's *)
(* choice (module SchemePicker): here every usable one is possible, so     *)
(* Encodings is a set.                                                     *)
(*                                                                         *)
(* An INTEGER has NarrowBits bits, a BIGINT twice as many; both are signed *)
(* and wrap.  A DOUBLE is its value in units of 10^-MaxExponent, or        *)
(* NegZero, which compares equal to 0 and stands for no other number.      *)
(***************************************************************************)
EXTENDS Integers, Sequences, FiniteSets, SequencesExt

CONSTANTS
    NarrowBits,     \* the width of an INTEGER
    CodeBits,       \* the width of the codes of DICTIONARY_* and TRUNCATION_*
    BlockSize,      \* rows in a block of PSEUDODECIMAL
    MaxExponent,    \* the largest exponent PSEUDODECIMAL tries
    MaxSections,    \* the most sections SUB_INT_SPLIT plans
    NegZero         \* -0.0

ASSUME WidthAssumption ==
    /\ NarrowBits \in Nat \ {0} /\ CodeBits \in 1..NarrowBits
    /\ BlockSize \in Nat \ {0} /\ MaxExponent \in Nat /\ MaxSections \in Nat \ {0}
    /\ MaxExponent + 1 < 2^(NarrowBits - 1)    \* an exponent code fits an INTEGER
    /\ NegZero \in Int /\ NegZero < -(2^(2 * NarrowBits - 1))

NULL_CODE == 0
AutoScheme == "auto"

\* What comparisons see of a number.
Value(v) == IF v = NegZero THEN 0 ELSE v
Less(a, b) == Value(a) < Value(b)
Same(a, b) == Value(a) = Value(b)

Bits(type) == IF type = "BIGINT" THEN 2 * NarrowBits ELSE NarrowBits
Unsigned(v, bits) == v % 2^bits
Signed(v, bits) == IF Unsigned(v, bits) < 2^(bits - 1)
                   THEN Unsigned(v, bits) ELSE Unsigned(v, bits) - 2^bits

Types == {"INTEGER", "BIGINT", "DOUBLE"}
NumbersOf(type) == IF type = "DOUBLE" THEN Int ELSE (-(2^(Bits(type) - 1)))..(2^(Bits(type) - 1) - 1)

RowsOf(src) == DOMAIN src

\* The members of a set in their order: the k-th has k - 1 of them before it.
Ranked(set, before(_, _)) ==
    [k \in 1..Cardinality(set) |-> CHOOSE v \in set : Cardinality({w \in set : before(w, v)}) = k - 1]

---------------------------------------------------------------------------
(* Statistics, null rows included *)

\* std::map keeps the first of equal keys.
Keys(src) == {src[i] : i \in {j \in RowsOf(src) : \A k \in 1..(j - 1) : ~Same(src[k], src[j])}}
Dictionary(src) == Ranked(Keys(src), Less)
Occurrences(src, v) == Cardinality({i \in RowsOf(src) : Same(src[i], v)})
Least(src) == CHOOSE v \in ToSet(src) : \A w \in ToSet(src) : v <= w
Greatest(src) == CHOOSE v \in ToSet(src) : \A w \in ToSet(src) : w <= v
MostlyNull(src, nulls) == Cardinality(nulls) * 100 >= 90 * Len(src)

\* std::lower_bound in the dictionary, counted from 0.
CodeOf(dict, v) == Cardinality({k \in DOMAIN dict : Less(dict[k], v)})
CodesOf(src) == [i \in RowsOf(src) |-> CodeOf(Dictionary(src), src[i])]

---------------------------------------------------------------------------
(* Runs: a null row never ends one *)

EndsRun_FromRowBefore(src, nulls, i, head) == ~Same(src[i], src[i - 1]) /\ i \notin nulls
EndsRun(src, nulls, i, head) == ~Same(src[i], src[head]) /\ i \notin nulls

RunHeads(src, nulls) ==
    LET head[i \in RowsOf(src)] ==
          IF i = 1 THEN 1
          ELSE IF EndsRun(src, nulls, i, head[i - 1]) THEN i ELSE head[i - 1]
    IN head

\* The rows of the run that starts at a head, null rows included.
RunLength_NotReset(head, first) == Cardinality({i \in DOMAIN head : head[i] <= first})
RunLength(head, first) == Cardinality({i \in DOMAIN head : head[i] = first})

Runs(src, nulls) ==
    LET head == RunHeads(src, nulls)
        heads == Ranked({head[i] : i \in RowsOf(src)}, <) IN
    [values |-> [r \in DOMAIN heads |-> src[heads[r]]],
     counts |-> [r \in DOMAIN heads |-> RunLength(head, heads[r])]]

---------------------------------------------------------------------------
(* FREQUENCY: one value and the exceptions to it *)

TopValue(src, nulls) ==
    LET dict == Dictionary(src)
        most == CHOOSE k \in DOMAIN dict : \A m \in DOMAIN dict :
                  /\ Occurrences(src, dict[m]) <= Occurrences(src, dict[k])
                  /\ m < k => Occurrences(src, dict[m]) < Occurrences(src, dict[k])
    IN IF MostlyNull(src, nulls) THEN NULL_CODE ELSE dict[most]

Exceptions(src, nulls) == {i \in RowsOf(src) \ nulls : ~Same(src[i], TopValue(src, nulls))}

Selected(src, rows) ==
    LET sorted == Ranked(rows, <) IN [k \in DOMAIN sorted |-> src[sorted[k]]]

\* Roaring::rank counts the members up to and including the row.
RankOf(rows, i) == Cardinality({j \in rows : j <= i})

---------------------------------------------------------------------------
(* FOR and TRUNCATION: the distance to the least value *)

\* FOR leaves null rows unbiased.
Biased(src, nulls, bits) ==
    [i \in RowsOf(src) |-> IF i \in nulls THEN src[i] ELSE Signed(src[i] - Least(src), bits)]

FitsCode(src) == Greatest(src) - Least(src) < 2^CodeBits

\* TRUNCATION does not write the codes of null rows: junk is left there.
Truncated(src, nulls, junk) ==
    [i \in RowsOf(src) |-> IF i \in nulls THEN Unsigned(junk, CodeBits)
                           ELSE Unsigned(src[i] - Least(src), CodeBits)]

\* PFOR_DELTA: the distance to the row before.
Deltas(src) ==
    [i \in RowsOf(src) |-> IF i = 1 THEN src[1] ELSE Signed(src[i] - src[i - 1], NarrowBits)]
Undeltas(deltas) ==
    LET sum[i \in DOMAIN deltas] ==
          IF i = 1 THEN deltas[1] ELSE Signed(sum[i - 1] + deltas[i], NarrowBits)
    IN [i \in DOMAIN deltas |-> sum[i]]

---------------------------------------------------------------------------
(* Bit sections: BP64 has two fixed ones, SUB_INT_SPLIT plans them *)

\* Bits first..last of every value, as an INTEGER.
Section(src, s, bits) ==
    [i \in RowsOf(src) |->
        Signed((Unsigned(src[i], bits) \div 2^s.first) % 2^(s.last - s.first + 1), NarrowBits)]

\* Several sections put together again.  Each is masked: an INTEGER with its
\* top bit set is negative.
Joined_Unmasked(parts, sections, n, bits) ==
    [i \in 1..n |->
        Signed(MapThenSumSet(LAMBDA k : parts[k][i] * 2^sections[k].first, DOMAIN sections), bits)]
Joined(parts, sections, n, bits) ==
    LET width(k) == sections[k].last - sections[k].first + 1
        bitsOf(k, i) == Unsigned(parts[k][i], width(k)) * 2^sections[k].first IN
    [i \in 1..n |-> Signed(MapThenSumSet(LAMBDA k : bitsOf(k, i), DOMAIN sections), bits)]

Halves == <<[first |-> 0, last |-> NarrowBits - 1],
            [first |-> NarrowBits, last |-> 2 * NarrowBits - 1]>>

\* The plans: adjacent sections no wider than an INTEGER.  The selector stays
\* one bit below that when FOR or TRUNCATION is enabled, forced boundaries do not.
Plans(bits) ==
    LET cuts == {c \in SUBSET (1..(bits - 1)) : Cardinality(c) < MaxSections}
        plan(c) == LET b == Ranked(c \cup {0, bits}, <) IN
                   [k \in 1..(Len(b) - 1) |-> [first |-> b[k], last |-> b[k + 1] - 1]]
    IN {p \in {plan(c) : c \in cuts} :
          \A k \in DOMAIN p : p[k].last - p[k].first < NarrowBits}

---------------------------------------------------------------------------
(* PSEUDODECIMAL: mantissa and exponent, or a patch *)

ExceptionCode == MaxExponent + 1
DigitBits == NarrowBits - 1

PowerOfTen[e \in 0..MaxExponent] == IF e = 0 THEN 1 ELSE 10 * PowerOfTen[e - 1]

Scaled(v, e) == v \div PowerOfTen[MaxExponent - e]
Fits(v, e) == /\ v % PowerOfTen[MaxExponent - e] = 0
              /\ Scaled(v, e) \in 0..(2^DigitBits - 1)
Exponent_SignOfZeroLost(v) ==
    LET es == {e \in 0..MaxExponent : Fits(Value(v), e)} IN
    IF es = {} THEN ExceptionCode ELSE Min(es)
Exponent(v) ==
    LET es == {e \in 0..MaxExponent : Fits(v, e)} IN
    IF v = NegZero \/ es = {} THEN ExceptionCode ELSE Min(es)

Block(i) == (i - 1) \div BlockSize
Decimals(src) ==
    LET exponents == [i \in RowsOf(src) |-> Exponent(src[i])]
        patched == {i \in RowsOf(src) : exponents[i] = ExceptionCode} IN
    [exponents |-> exponents,
     numbers |-> [k \in 1..(Len(src) - Cardinality(patched)) |->
                    LET i == Ranked(RowsOf(src) \ patched, <)[k] IN Scaled(src[i], exponents[i])],
     patches |-> Selected(src, patched),
     blocks |-> {Block(i) : i \in patched}]

\* A stream with too many patches is given up; the size compress then returns
\* makes the caller fall back to UNCOMPRESSED.
TooManyPatches(src) == Len(Decimals(src).patches) > Len(src) \div 2

\* Rows of blocks without an exception are converted without a look at the
\* code; the others, and the incomplete last block, row by row.
Unrolled(d, n, i) == Block(i) \notin d.blocks /\ (Block(i) + 1) * BlockSize <= n
Converted(number, exponent) == number * PowerOfTen[MaxExponent - exponent]
Restored(d, n) ==
    LET patched == {i \in 1..n : ~Unrolled(d, n, i) /\ d.exponents[i] = ExceptionCode} IN
    [i \in 1..n |-> IF i \in patched THEN d.patches[RankOf(patched, i)]
                    ELSE Converted(d.numbers[i - RankOf(patched, i)], d.exponents[i])]
=============================================================================
