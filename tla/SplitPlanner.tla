----------------------------- MODULE SplitPlanner -----------------------------
(***************************************************************************)
(* How SUB_INT_SPLIT divides a column into bit ranges: a sample of the     *)
(* rows is drawn, every range of bits is scored on it by the cost models,  *)
(* and a dynamic program over the bit positions picks the tiling.          *)
(*                                                                         *)
(* Costs are exact: a cost is kept multiplied by the size of the sample,   *)
(* so the scale to the whole column and the split penalty are integers.    *)
(* The widths, headers and limits of the code are constants here, so that  *)
(* with a handful of rows of a few bits every model wins somewhere.        *)
(***************************************************************************)
EXTENDS Integers, FiniteSetsExt, SequencesExt

CONSTANTS
    ValueBits,     \* totalBits: 32 or 64
    StorageBits,   \* kSectionStorageBits
    Headers,       \* kHeaderBits of the models, a record
    PositionBits,  \* what FREQUENCY is charged for the position of an exception
    RunBits,       \* what RLE is charged for the length of a run
    DirectBits,    \* kDirectCountBits
    UniqueCap,     \* kUniqueCountCap
    Configs,       \* bound: selector and sampler settings and the models used
    Inputs,        \* bound: columns, [values, present]
    Texts          \* bound: forced boundaries as they may be written down

ASSUME PlannerAssumption ==
    /\ ValueBits \in Nat \ {0} /\ StorageBits \in Nat /\ UniqueCap \in Nat
    /\ \A model \in {"BP", "FREQUENCY", "DICT", "RLE"} : Headers[model] \in Nat
    /\ PositionBits \in Nat /\ RunBits \in Nat /\ DirectBits \in Nat
    /\ \A c \in Configs :
          /\ c.maxSamples \in Nat /\ c.blockSize \in Nat
          /\ c.minSectionBits \in Int /\ c.maxSectionBits \in Int /\ c.maxSections \in Int
          /\ c.splitPenalty \in Int
    /\ \A input \in Inputs :
          /\ input.values \in Seq(0..(2^ValueBits - 1))
          /\ input.present \in [DOMAIN input.values -> BOOLEAN]
    /\ \A text \in Texts : text \in Seq([from : Int, to : Int, readable : BOOLEAN])

VARIABLES
    pc,        \* "idle", "sampling", "scoring", "solving" or "planned"
    column,    \* the values to split and which rows are not null
    config,    \* the settings of this call
    forced,    \* forcedSplitBoundaries: a plan, or <<>>
    samples,   \* the rows sampled, from 0, in the order drawn
    range,     \* BitRangeExtractor: its bits and, for each sample, the value of them
    scores,    \* the ranges scored so far: [from, to, cost, scheme]
    plan       \* SplitPlan: its segments, its cost, and whether it is the fallback

plannerVars == <<pc, column, config, forced, samples, range, scores, plan>>

Bits == 0..(ValueBits - 1)
NoRange == [start |-> 0, end |-> -1, values |-> <<>>]
NoColumn == [values |-> <<>>, present |-> <<>>]
NoConfig == [models |-> {}]
NoPlan == [segments |-> <<>>, cost |-> 0, fallback |-> FALSE]
AtLeast(a, b) == IF a >= b THEN a ELSE b
AtMost(a, b) == IF a <= b THEN a ELSE b

---------------------------------------------------------------------------
(* sampleIntoU64 *)

Target(n) == AtMost(IF config.maxSamples > 0 THEN config.maxSamples ELSE n, n)

\* The rows looked at: blocks of rows at equal distances, or single ones.
EveryNth(n, stride) == [k \in 1..((n + stride - 1) \div stride) |-> (k - 1) * stride]
Uniform(n) == EveryNth(n, AtLeast(1, n \div Target(n)))
BlockEnd(start, n) == AtMost(start + config.blockSize, n)
Blocks(n) ==
    LET blocks == AtLeast(1, Target(n) \div config.blockSize)
        stride == AtLeast(1, n \div blocks)
        rows(b) == LET start == (b - 1) * stride IN
                   [k \in 1..(BlockEnd(start, n) - start) |-> start + k - 1]
    IN  FlattenSeq([b \in 1..blocks |-> rows(b)])

LookedAt(n) == IF config.blockSize > 0 THEN Blocks(n) ELSE Uniform(n)
IsPresent(row) == column.present[row + 1]

\* The first rows that are not null, until the target is reached.
Appended(rows, n) ==
    LET out[k \in 0..Len(rows)] ==
          IF k = 0 THEN <<>>
          ELSE IF Len(out[k - 1]) < Target(n) /\ IsPresent(rows[k]) THEN Append(out[k - 1], rows[k])
          ELSE out[k - 1]
    IN  out[Len(rows)]

SampledRows ==
    LET n == Len(column.values)
        present == Appended(LookedAt(n), n)
    IN  IF n = 0 THEN <<>>
        ELSE IF present # <<>> THEN present
        ELSE SubSeq(Uniform(n), 1, AtMost(Len(Uniform(n)), Target(n)))

---------------------------------------------------------------------------
(* MetricCollector::compute, over the values of one range *)

RunCount(values) == 1 + Cardinality({i \in 2..Len(values) : values[i] # values[i - 1]})
Count(values, v) == Cardinality({i \in DOMAIN values : values[i] = v})

\* Narrow ranges are counted in an array; for wide ones the hash map stops at the value
\* that exceeds the cap.
Capped(values, width) == width > DirectBits /\ Cardinality(Range(values)) > UniqueCap
Counted(values, width) ==
    IF Capped(values, width)
    THEN SubSeq(values, 1,
                Min({i \in DOMAIN values : Cardinality(Range(SubSeq(values, 1, i))) > UniqueCap}))
    ELSE values

Metrics(values, width) ==
    LET counted == Counted(values, width)
    IN  [span     |-> Max(Range(values)) - Min(Range(values)),
         runs     |-> RunCount(values),
         unique   |-> Cardinality(Range(counted)),
         dominant |-> Max({Count(counted, v) : v \in Range(counted)}),
         capped   |-> Capped(values, width)]

---------------------------------------------------------------------------
(* Cost models *)

BitWidthOf(v) == Min({w \in 0..ValueBits : v < 2^w})

Models == <<"UNCOMPRESSED", "BP", "ONE_VALUE", "FREQUENCY", "DICT", "RLE">>

Applies(model, m) ==
    CASE model = "ONE_VALUE" -> m.span = 0
      [] model \in {"FREQUENCY", "DICT"} -> ~m.capped
      [] OTHER -> TRUE

CostBits(model, m, n, width) ==
    LET packed == AtMost(width, BitWidthOf(m.span))
        code == IF m.unique <= 1 THEN 1 ELSE BitWidthOf(m.unique - 1)
    IN  CASE model = "UNCOMPRESSED" -> n * StorageBits
          [] model = "BP"        -> Headers.BP + packed * n
          [] model = "ONE_VALUE" -> StorageBits
          [] model = "FREQUENCY" -> Headers.FREQUENCY + (PositionBits + packed) * (n - m.dominant)
          [] model = "DICT"      -> Headers.DICT + m.unique * StorageBits + code * n
          [] model = "RLE"       -> Headers.RLE + m.runs * (packed + RunBits)

\* bestCostBits: the first model with the least cost; no model, no score.
ScoreOf(values, l, r) ==
    LET m == Metrics(values, r - l + 1)
        usable == {k \in DOMAIN Models : Models[k] \in config.models /\ Applies(Models[k], m)}
        cost(k) == CostBits(Models[k], m, Len(values), r - l + 1)
        best == Min({k \in usable : \A j \in usable : cost(k) <= cost(j)})
    IN  IF usable = {} THEN {}
        ELSE {[from |-> l, to |-> r, cost |-> cost(best) * Len(column.values), scheme |-> Models[best]]}

---------------------------------------------------------------------------
(* selectSplits *)

MaxWidth == AtLeast(1, AtMost(config.maxSectionBits, ValueBits))
MinWidth == AtLeast(1, AtMost(config.minSectionBits, MaxWidth))
MaxSections == AtLeast(1, config.maxSections)

\* The value in sections of the greatest width, the last one shorter.
Fallback ==
    [segments |-> [k \in 1..((ValueBits + MaxWidth - 1) \div MaxWidth) |->
                     [from |-> (k - 1) * MaxWidth, to |-> AtMost(k * MaxWidth, ValueBits) - 1,
                      scheme |-> "UNCOMPRESSED"]],
     cost |-> 0, fallback |-> TRUE]

Bit(v, b) == (v \div 2^b) % 2
ValueOf(row) == column.values[row + 1]

\* BitRangeExtractor::reset and extend.
ResetTo(l) == [start |-> l, end |-> l, values |-> [i \in DOMAIN samples |-> Bit(ValueOf(samples[i]), l)]]
ExtendedTo(e, r) ==
    [e EXCEPT !.end = AtLeast(@, r),
              !.values = [i \in DOMAIN @ |->
                 @[i] + SumSet({Bit(ValueOf(samples[i]), b) * 2^(b - e.start) : b \in (e.end + 1)..r})]]

Penalty_EverySection(k) == config.splitPenalty * Len(samples)
Penalty(k) == IF k = 1 THEN 0 ELSE config.splitPenalty * Len(samples)
ScoredAs(l, r) == {s \in scores : s.from = l /\ s.to = r}

TheOne(set) == CHOOSE x \in set : TRUE

\* The dynamic program: the first i bits are covered by k sections, the last of them from
\* a cut on and the others as cheaply as possible; of equal costs the first cut counts.
Covers(fewer, i, k) ==
    UNION {{[cost |-> TheOne(fewer[j]).cost + last.cost + Penalty(k), cut |-> j] :
               last \in ScoredAs(j, i - 1)} :
              j \in {cut \in AtLeast(0, i - MaxWidth)..(i - MinWidth) : fewer[cut] # {}}}
FirstCheapest(covers) ==
    {c \in covers : \A d \in covers : c.cost < d.cost \/ (c.cost = d.cost /\ c.cut <= d.cut)}
NoBits == [cost |-> 0, cut |-> -1]
Cheapest ==
    LET cover[k \in 0..MaxSections] ==
          [i \in 0..ValueBits |->
             IF k = 0 THEN (IF i = 0 THEN {NoBits} ELSE {})
             ELSE FirstCheapest(Covers(cover[k - 1], i, k))]
    IN  cover

\* Back from the last bit, section by section.
Traced(cheapest, sections) ==
    LET end[k \in 1..sections] ==
          IF k = sections THEN ValueBits ELSE TheOne(cheapest[k + 1][end[k + 1]]).cut
        from(k) == TheOne(cheapest[k][end[k]]).cut
    IN  [k \in 1..sections |->
           [from |-> from(k), to |-> end[k] - 1,
            scheme |-> TheOne(ScoredAs(from(k), end[k] - 1)).scheme]]

Solved ==
    LET cheapest == Cheapest
        found == {k \in 1..MaxSections : cheapest[k][ValueBits] # {}}
        cost(k) == TheOne(cheapest[k][ValueBits]).cost
        best == Min({k \in found : \A j \in found : cost(k) <= cost(j)})
    IN  IF found = {} THEN Fallback
        ELSE [segments |-> Traced(cheapest, best), cost |-> cost(best), fallback |-> FALSE]

---------------------------------------------------------------------------
(* parseSplitBoundaries: a text is a sequence of ranges, any of which may be unreadable *)

Accepts_AnyEnd(text) ==
    /\ text # <<>>
    /\ \A k \in DOMAIN text :
         /\ text[k].readable
         /\ text[k].from = (IF k = 1 THEN 0 ELSE text[k - 1].to + 1)
         /\ text[k].to \in text[k].from..(ValueBits - 1)
Accepts(text) ==
    /\ text # <<>>
    /\ \A k \in DOMAIN text :
         /\ text[k].readable
         /\ text[k].from = (IF k = 1 THEN 0 ELSE text[k - 1].to + 1)
         /\ text[k].to \in text[k].from..(ValueBits - 1)
    /\ text[Len(text)].to = ValueBits - 1

\* EnforceSplitBoundaries, with what the parser returned; nothing is forced by <<>>.
EnforceBoundaries ==
    /\ pc = "idle"
    /\ \E text \in Texts :
         forced' = IF Accepts(text)
                   THEN [k \in DOMAIN text |->
                           [from |-> text[k].from, to |-> text[k].to, scheme |-> "UNCOMPRESSED"]]
                   ELSE <<>>
    /\ UNCHANGED <<pc, column, config, samples, range, scores, plan>>

---------------------------------------------------------------------------
(* planSplit, step by step *)

\* Forced boundaries bypass the planner.
StartPlan ==
    /\ pc = "idle"
    /\ column' \in Inputs /\ config' \in Configs
    /\ IF forced # <<>>
       THEN /\ plan' = [NoPlan EXCEPT !.segments = forced]
            /\ pc' = "planned"
       ELSE /\ plan' = NoPlan
            /\ pc' = "sampling"
    /\ range' = NoRange /\ scores' = {}
    /\ UNCHANGED <<forced, samples>>

Drawn_NotCleared == samples \o SampledRows
Drawn == SampledRows
Sample ==
    /\ pc = "sampling"
    /\ samples' = Drawn
    /\ IF samples' = <<>>
       THEN pc' = "planned" /\ plan' = Fallback
       ELSE pc' = "scoring" /\ UNCHANGED plan
    /\ UNCHANGED <<column, config, forced, range, scores>>

\* One range of the grid: the next one to the right, or the first of the next row.
RowEnds == range.end >= AtMost(ValueBits - 1, range.start + MaxWidth - 1)
ScoreRange ==
    /\ pc = "scoring"
    /\ range' = IF range = NoRange THEN ResetTo(0)
                ELSE IF RowEnds THEN ResetTo(range.start + 1)
                ELSE ExtendedTo(range, range.end + 1)
    /\ scores' = scores \cup (IF range'.end - range'.start + 1 < MinWidth THEN {}
                              ELSE ScoreOf(range'.values, range'.start, range'.end))
    /\ pc' = IF range'.start = ValueBits - 1 THEN "solving" ELSE "scoring"
    /\ UNCHANGED <<column, config, forced, samples, plan>>

Solve ==
    /\ pc = "solving"
    /\ plan' = Solved
    /\ pc' = "planned"
    /\ UNCHANGED <<column, config, forced, samples, range, scores>>

PlanInit ==
    /\ pc = "idle" /\ column = NoColumn /\ config = NoConfig
    /\ forced = <<>> /\ samples = <<>> /\ range = NoRange /\ scores = {} /\ plan = NoPlan

PlanNext == EnforceBoundaries \/ StartPlan \/ Sample \/ ScoreRange \/ Solve

---------------------------------------------------------------------------
(* Properties *)

\* The sample is of rows of this column, each at most once and in order, within the
\* budget, never empty for a column with rows, and takes a null row only when every
\* row it would look at is null (sampleIntoU64).
SampleSound ==
    pc \in {"scoring", "solving"} =>
    /\ samples # <<>> /\ Len(samples) <= Target(Len(column.values))
    /\ \A i \in DOMAIN samples :
         /\ samples[i] \in 0..(Len(column.values) - 1)
         /\ i > 1 => samples[i - 1] < samples[i]
    /\ (\E i \in DOMAIN samples : ~IsPresent(samples[i])) =>
         \A i \in DOMAIN LookedAt(Len(column.values)) : ~IsPresent(LookedAt(Len(column.values))[i])

Tiles(segments) ==
    /\ segments # <<>>
    /\ \A k \in DOMAIN segments :
         /\ segments[k].from <= segments[k].to
         /\ segments[k].from = (IF k = 1 THEN 0 ELSE segments[k - 1].to + 1)
    /\ segments[Len(segments)].to = ValueBits - 1
WidthOf(s) == s.to - s.from + 1

\* Every plan, planned, forced or fallen back to, covers each bit exactly once; one
\* the planner made keeps the widths, the fallback the greatest one, and one that is
\* not the fallback the number of sections.
PlanTiles ==
    pc = "planned" =>
    /\ Tiles(plan.segments)
    /\ forced = <<>> => \A k \in DOMAIN plan.segments : WidthOf(plan.segments[k]) <= MaxWidth
    /\ (forced = <<>> /\ ~plan.fallback) =>
         /\ Len(plan.segments) <= MaxSections
         /\ \A k \in DOMAIN plan.segments : WidthOf(plan.segments[k]) >= MinWidth

\* Every way to cut the value that the settings allow, and what it costs when each range
\* is extracted from the samples on its own.
Field(v, l, r) == (v \div 2^l) % 2^(r - l + 1)
RangeScore(l, r) == ScoreOf([i \in DOMAIN samples |-> Field(ValueOf(samples[i]), l, r)], l, r)
Tilings ==
    {t \in UNION {[0..n -> 0..ValueBits] : n \in 1..AtMost(MaxSections, ValueBits)} :
       LET n == Cardinality(DOMAIN t) - 1 IN
       /\ t[0] = 0 /\ t[n] = ValueBits
       /\ \A k \in 1..n : /\ t[k] - t[k - 1] \in MinWidth..MaxWidth
                         /\ RangeScore(t[k - 1], t[k] - 1) # {}}
TilingCost(t) ==
    LET n == Cardinality(DOMAIN t) - 1 IN
    MapThenSumSet(LAMBDA k : TheOne(RangeScore(t[k - 1], t[k] - 1)).cost, 1..n)
      + config.splitPenalty * Len(samples) * (n - 1)

\* The plan is as cheap as the best of all tilings the settings allow, its segments
\* cost what it says, and it is the fallback only when there is none (selectSplits).
PlanIsCheapest ==
    (pc = "planned" /\ forced = <<>> /\ samples # <<>>) =>
        IF plan.fallback THEN Tilings = {}
        ELSE /\ \A t \in Tilings : plan.cost <= TilingCost(t)
             /\ plan.cost = TilingCost([k \in 0..Len(plan.segments) |->
                                          IF k = 0 THEN 0 ELSE plan.segments[k].to + 1])
=============================================================================
