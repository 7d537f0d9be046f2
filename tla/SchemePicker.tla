---------------------------- MODULE SchemePicker ----------------------------
(***************************************************************************)
(* The recursive scheme picker of one compressing thread.                  *)
(*                                                                         *)
(* CSchemePicker::compress chooses a scheme for a stream and runs it; a    *)
(* composite scheme (RLE, FREQUENCY, SUB_INT_SPLIT, ...) hands its own     *)
(* sub-streams back to the picker with one cascade level less, and         *)
(* choosing a scheme may itself run the candidates on a sample.  The       *)
(* recursion is kept together by two thread-local counters that every call *)
(* raises and lowers by hand, by a process-wide one-shot override per      *)
(* column type, and by thread-local buffers shared by all the activations. *)
(*                                                                         *)
(* The call stack is explicit: a "compress" frame is an activation of      *)
(* CSchemePicker::compress, a "scheme" frame an activation of the          *)
(* compress() of a composite scheme.  A scheme without sub-streams runs in *)
(* one step and has no frame.  Values are abstracted away: what is left of *)
(* a stream is whether it is empty, constant or varied, and of a result    *)
(* whether it fits in the raw size.                                        *)
(***************************************************************************)
EXTENDS Integers, Sequences

CONSTANTS
    Pool,            \* [Types -> Seq(scheme)]: the enabled schemes, in map order
    MaxCascade,      \* max_cascade_depth, the same for every type
    FsstCascade,     \* SchemeConfig strings.fsst_codes_max_cascade_depth
    MaxSections,     \* bound: most sections the planner may return
    Selection,       \* scheme_selection: "SAMPLE" or "TRY_ALL"
    ForceValues,     \* SchemeConfig integers.rle_force_values_scheme
    ForceCounts,     \* SchemeConfig integers.rle_force_counts_scheme
    ForceDoubleCounts,  \* SchemeConfig doubles.rle_force_counts_scheme
    ForceCodes,      \* SchemeConfig strings.fsst_force_codes_scheme
    Columns,         \* bound: types of the columns the caller compresses
    DirectEncodes,   \* bound: types whose SUB_INT_SPLIT is called directly
    Overridable      \* bound: <<type, scheme>> pairs the caller may force

NumberTypes == {"INTEGER", "BIGINT", "DOUBLE"}
Types       == NumberTypes \cup {"STRING"}

AutoScheme == "AUTO"
None == "NONE"

\* The scheme codes of each type.  BP stands for every integer scheme without
\* sub-streams (PFOR, the fixed dictionaries, TRUNCATION): only bytes differ.
IntegerSchemes == {"UNCOMPRESSED", "ONE_VALUE", "DICT", "RLE", "BP", "FREQUENCY", "FOR",
                   "SUB_INT_SPLIT"}
DoubleSchemes  == {"UNCOMPRESSED", "ONE_VALUE", "DICT", "RLE", "FREQUENCY", "PSEUDODECIMAL"}
StringSchemes  == {"UNCOMPRESSED", "ONE_VALUE", "DICT", "FSST"}
Schemes        == IntegerSchemes \cup DoubleSchemes \cup StringSchemes

\* What is known of a stream: "varied" has several distinct values, "any" is
\* a nested stream of which nothing is known.
Shapes  == {"empty", "constant", "varied", "any"}

Enabled(t) == {Pool[t][i] : i \in 1..Len(Pool[t])}

(***************************************************************************)
(* SchemesCollection refuses a pool without UNCOMPRESSED or ONE_VALUE.     *)
(* DICT forces BP for its codes and string DICT may force RLE: without     *)
(* them in the integer pool the picker dereferences a null scheme.         *)
(***************************************************************************)
ASSUME PoolAssumption ==
    /\ Pool \in [Types -> Seq(Schemes)]
    /\ Enabled("INTEGER") \cup Enabled("BIGINT") \subseteq IntegerSchemes
    /\ Enabled("DOUBLE") \subseteq DoubleSchemes
    /\ Enabled("STRING") \subseteq StringSchemes
    /\ \A t \in Types : {"UNCOMPRESSED", "ONE_VALUE"} \subseteq Enabled(t)
    /\ {"BP", "RLE"} \subseteq Enabled("INTEGER")

ASSUME ConfigAssumption ==
    /\ MaxCascade \in 1..255
    /\ FsstCascade \in 0..255
    /\ MaxSections \in Nat \ {0}
    /\ Selection \in {"SAMPLE", "TRY_ALL"}
    /\ ForceValues \in Enabled("INTEGER") \cup {AutoScheme}
    /\ ForceCounts \in Enabled("INTEGER") \cup {AutoScheme}
    /\ ForceDoubleCounts \in Enabled("INTEGER") \cup {AutoScheme}
    /\ ForceCodes \in Enabled("INTEGER") \cup {AutoScheme}
    /\ Columns \subseteq Types
    /\ DirectEncodes \subseteq {"INTEGER", "BIGINT"}
    /\ Overridable \subseteq {p \in Types \X Schemes : p[2] \in Enabled(p[1])}

VARIABLES
    stack,               \* the activations, outermost first
    compression_level,   \* ThreadCache: depth of nested picker calls
    estimation_level,    \* ThreadCache: depth of nested estimations
    override_scheme,     \* BtrBlocksConfig: [Types -> scheme or AutoScheme]
    scratch,             \* SubIntSplitCore<UT>::sectionScratch: whose section it holds
    report,              \* lastPlanReport()
    lastEncode           \* history: what the last real encode did

vars == <<stack, compression_level, estimation_level, override_scheme, scratch,
          report, lastEncode>>

levels  == <<compression_level, estimation_level>>
buffers == <<scratch, report, lastEncode>>

---------------------------------------------------------------------------
(* Frames *)

(***************************************************************************)
(* A compress frame walks "enter", then "choose" (the candidate loop) or   *)
(* "try" and "trial" (the same under TRY_ALL), then "encode", "encoded",   *)
(* possibly "reestimate", and "leave".  In it, `scheme` is                 *)
(* preferred_scheme, `code` the scheme_code handed back, `idx` the next    *)
(* candidate and `best` the class of max_compression_ratio.  A scheme      *)
(* frame stays at "streams" and holds the sub-streams it has still `todo`  *)
(* and the number `done`.  History fields: cl and el are the levels the    *)
(* activation was entered with, `how` is where preferred_scheme came from, *)
(* `bytes` the scheme whose output is in dest.                             *)
(***************************************************************************)
Stream  == [type : NumberTypes, force : Schemes \cup {AutoScheme}, mayBeEmpty : BOOLEAN]
Streams == Seq(Stream)

Fns == {"compress", "scheme"}
Pcs == {"enter", "choose", "try", "trial", "encode", "encoded", "reestimate", "leave",
        "streams"}
Hows       == {"none", "force", "override", "rule", "pick"}
ForceScheme      == Schemes \cup {AutoScheme}
SomeScheme == Schemes \cup {None}
U8         == 0..255
Ratio      == 0..2
Index      == Nat \ {0}

Frame == [fn : Fns, pc : Pcs, type : Types, scheme : SomeScheme, acl : U8, shape : Shapes,
          force : ForceScheme, idx : Index, best : Ratio, how : Hows, code : SomeScheme,
          bytes : SomeScheme, fits : BOOLEAN, estimating : BOOLEAN, todo : Streams,
          done : Nat, cl : Nat, el : Nat]

PlanReport == [width : Types \cup {None}, sections : Nat, valid : BOOLEAN]
NoReport   == [width |-> None, sections |-> 0, valid |-> FALSE]

Depth == Len(stack)
Top   == stack[Depth]
Running(fn, pc) == stack # <<>> /\ Top.fn = fn /\ Top.pc = pc

SetTop(f) == [stack EXCEPT ![Depth] = f]
Popped    == SubSeq(stack, 1, Depth - 1)

\* SIS encode() opens a NestedCompressionScope, the string path of Datablock
\* raises the level around the scheme it chose; other schemes do neither.
ScopeLevels_NoScope(t, s) == IF t = "STRING" THEN 1 ELSE 0
ScopeLevels(t, s) == IF s = "SUB_INT_SPLIT" \/ t = "STRING" THEN 1 ELSE 0

\* expectedCompressionRatio raises the estimation level around its compress().
EstimateLevels(estimating) == IF estimating THEN 1 ELSE 0

CompressFrame(t, acl, force, shape) ==
    [fn |-> "compress", pc |-> "enter", type |-> t, scheme |-> None, acl |-> acl,
     shape |-> shape, force |-> force, idx |-> 1, best |-> 0, how |-> "none",
     code |-> None, bytes |-> None, fits |-> TRUE, estimating |-> FALSE,
     todo |-> <<>>, done |-> 0,
     cl |-> compression_level + 1, el |-> estimation_level]

SchemeFrame(t, s, acl, shape, plan, estimating) ==
    [fn |-> "scheme", pc |-> "streams", type |-> t, scheme |-> s, acl |-> acl,
     shape |-> shape, force |-> AutoScheme, idx |-> 1, best |-> 0, how |-> "none",
     code |-> None, bytes |-> None, fits |-> TRUE, estimating |-> estimating,
     todo |-> plan, done |-> 0,
     cl |-> compression_level + ScopeLevels(t, s),
     el |-> estimation_level + EstimateLevels(estimating)]

---------------------------------------------------------------------------
(* Schemes *)

SubStream(t, force)   == [type |-> t, force |-> force, mayBeEmpty |-> FALSE]
MaybeEmpty(t)         == [type |-> t, force |-> AutoScheme, mayBeEmpty |-> TRUE]

\* RLE::compress and double RLE pass the force flags of their type, RLE64 only
\* the defaults; compressColumn uses force_counts and never force_values.
RleValues(t) == SubStream(t, AutoScheme)
RleCounts(t) == SubStream("INTEGER", CASE t = "INTEGER" -> ForceCounts
                                       [] t = "DOUBLE"  -> ForceDoubleCounts
                                       [] OTHER         -> AutoScheme)

Sections == UNION {[1..n -> {SubStream("INTEGER", AutoScheme), SubStream("INTEGER", "ONE_VALUE")}]
                    : n \in 1..MaxSections}

(***************************************************************************)
(* The sub-streams a scheme may hand to the picker, in order.              *)
(***************************************************************************)
RlePlans(t)       == {<<RleValues(t), RleCounts(t)>>}
DictPlans         == {<<SubStream("INTEGER", "BP")>>}
FrequencyPlans(t) == {<<MaybeEmpty(t)>>}
ForPlans(t)       == {<<SubStream(t, AutoScheme)>>}
Bp64Plans         == {<<SubStream("INTEGER", AutoScheme), SubStream("INTEGER", AutoScheme)>>}

\* Decimal gives up first when over half of the values are exceptions.
DecimalPlans(t)   == {<<>>, <<SubStream("INTEGER", AutoScheme), SubStream("INTEGER", AutoScheme),
                              MaybeEmpty(t)>>}

\* Constant sections are forced to ONE_VALUE, the others left to the picker.
SplitPlans        == Sections

FsstPlans         == {<<SubStream("INTEGER", ForceCodes)>>}

\* String DICT writes lengths only with FSST, and forces RLE on long runs.
StringDictPlans   == LET codes == {SubStream("INTEGER", ForceCodes), SubStream("INTEGER", "RLE")} IN
                     {<<c>> : c \in codes}
                       \cup {<<SubStream("INTEGER", AutoScheme), c>> : c \in codes}

Plans(t, s) ==
    CASE s = "RLE"                  -> RlePlans(t)
      [] s = "DICT" /\ t # "STRING" -> DictPlans
      [] s = "FREQUENCY"            -> FrequencyPlans(t)
      [] s = "FOR"                  -> ForPlans(t)
      [] s = "BP" /\ t = "BIGINT"   -> Bp64Plans
      [] s = "PSEUDODECIMAL"        -> DecimalPlans(t)
      [] s = "SUB_INT_SPLIT"        -> SplitPlans
      [] s = "FSST"                 -> FsstPlans
      [] s = "DICT" /\ t = "STRING" -> StringDictPlans
      [] OTHER                      -> {}

Composite(t, s) == Plans(t, s) # {}

\* Schemes whose expectedCompressionRatio compresses a sample with sub-streams.
Sampled(t, s) == Composite(t, s) /\ s \notin {"DICT", "FOR", "FSST"}

\* SubIntSplit(64)::expectedCompressionRatio declines when it sees itself nested.
SplitDeclines_OnlyCascade(f) == f.acl < 2
SplitDeclines(f) == compression_level > 1 \/ f.acl < 2

\* Classes of a compression ratio: 0, between 0 and 1, and at least 1.
Declined == 0
Loses    == 1
Pays     == 2

OneValueRatios(f)  == IF f.shape = "varied" THEN {Declined} ELSE {Declined, Pays}
UncompressedRatios == {Pays}
ForRatios          == {Declined}
DictRatios(f)      == IF f.acl <= 1 THEN {Declined} ELSE {Loses, Pays}
RleRatios          == {Declined}      \* average runs below the threshold
FrequencyRatios    == {Declined}      \* too many distinct values
SplitRatios(f)     == IF SplitDeclines(f) THEN {Declined} ELSE {}
LeafRatios         == {Declined, Loses, Pays}   \* a sample, but no sub-stream

\* The ratios expectedCompressionRatio may return without a sub-stream.
Ratios(f, s) ==
    CASE s = "UNCOMPRESSED"   -> UncompressedRatios
      [] s = "ONE_VALUE"      -> OneValueRatios(f)
      [] s = "FOR"            -> ForRatios
      [] s = "DICT"           -> DictRatios(f)
      [] s = "RLE"            -> RleRatios
      [] s = "FREQUENCY"      -> FrequencyRatios
      [] s = "SUB_INT_SPLIT"  -> SplitRatios(f)
      [] s \in {"BP", "PSEUDODECIMAL"} /\ Composite(f.type, s) -> {}
      [] OTHER                -> LeafRatios

\* The same with a compress() of the sample: declined only by SUB_INT_SPLIT.
MaySample(f, s) == Sampled(f.type, s) /\ ~(s = "SUB_INT_SPLIT" /\ SplitDeclines(f))

\* Whether the output of a scheme without sub-streams may fit the raw size.
LeafFits(f, s) ==
    CASE s = "UNCOMPRESSED" -> {TRUE}
      [] s = "ONE_VALUE"    -> {f.shape # "empty"}
      [] OTHER              -> BOOLEAN

---------------------------------------------------------------------------
(* The caller *)

Idle == stack = <<>>

\* EnforceScheme, its end, or an assignment to the configuration.
SetOverride ==
    /\ Idle
    /\ \E p \in Overridable : \E s \in {p[2], AutoScheme} :
          override_scheme' = [override_scheme EXCEPT ![p[1]] = s]
    /\ UNCHANGED <<stack, levels, buffers>>

\* Datablock::compress hands an integer, bigint or double column to its picker.
CompressColumn ==
    /\ Idle
    /\ \E t \in Columns \cap NumberTypes, shape \in Shapes \ {"any"} :
          stack' = <<CompressFrame(t, MaxCascade, AutoScheme, shape)>>
    /\ compression_level' = compression_level + 1
    /\ UNCHANGED <<estimation_level, override_scheme, buffers>>

\* Datablock::compress on a string column: chooseScheme takes the override or
\* compares closed formulas, then the scheme runs one compression level up.
ChosenStrings ==
    IF override_scheme["STRING"] = AutoScheme THEN Enabled("STRING")
                                              ELSE {override_scheme["STRING"]}

CompressStringColumn ==
    /\ Idle
    /\ "STRING" \in Columns
    /\ \E s \in ChosenStrings : \E plan \in Plans("STRING", s) :
          stack' = <<SchemeFrame("STRING", s, MaxCascade, "varied", plan, FALSE)>>
    /\ override_scheme' = [override_scheme EXCEPT !["STRING"] = AutoScheme]
    /\ compression_level' = compression_level + ScopeLevels("STRING", None)
    /\ UNCHANGED <<estimation_level, buffers>>

\* Opening of SubIntSplitCore::encode: only a real compression is recorded.
Records_Always(el) == TRUE
Records(el) == el = 0

OpenReport(t, el) ==
    report' = IF Records(el) THEN [NoReport EXCEPT !.width = t] ELSE report

\* A scheme's compress() called without the picker, as the tests and the
\* benchmark driver do.
DirectEncode ==
    /\ Idle
    /\ \E t \in DirectEncodes : \E plan \in Plans(t, "SUB_INT_SPLIT") :
          /\ stack' = <<SchemeFrame(t, "SUB_INT_SPLIT", MaxCascade, "varied", plan, FALSE)>>
          /\ compression_level' = compression_level + ScopeLevels(t, "SUB_INT_SPLIT")
          /\ OpenReport(t, estimation_level)
    /\ UNCHANGED <<estimation_level, override_scheme, scratch, lastEncode>>

\* encode() with no tuples returns before it plans or nests anything.
DirectEncodeEmpty ==
    /\ Idle
    /\ \E t \in DirectEncodes :
          /\ report' = [width |-> t, sections |-> 0, valid |-> TRUE]
          /\ lastEncode' = report'
    /\ UNCHANGED <<stack, levels, override_scheme, scratch>>

---------------------------------------------------------------------------
(* CSchemePicker::compress: which way *)

\* The top-level special case: a column of one value, or of nulls only.
AtTopLevel == estimation_level = 0 /\ compression_level = 1
OneValueApplies(f)  == AtTopLevel /\ f.shape # "varied"
OneValueCertain(f)  == AtTopLevel /\ f.shape \in {"empty", "constant"}

NoCascadeLeft_OnlyEmpty(f) == f.shape = "empty"
NoCascadeLeft(f) == f.acl = 0 \/ f.shape = "empty"

\* preferred_scheme and scheme_code are set; its compress() comes next.
Chosen(f, s, how) == [f EXCEPT !.pc = "encode", !.scheme = s, !.code = s, !.how = how,
                               !.idx = 1, !.best = 0]

EnterOneValue ==
    /\ Running("compress", "enter")
    /\ OneValueApplies(Top)
    /\ stack' = SetTop(Chosen(Top, "ONE_VALUE", "rule"))
    /\ UNCHANGED <<levels, override_scheme, buffers>>

EnterUncompressed ==
    /\ Running("compress", "enter")
    /\ ~OneValueCertain(Top)
    /\ NoCascadeLeft(Top)
    /\ stack' = SetTop(Chosen(Top, "UNCOMPRESSED", "rule"))
    /\ UNCHANGED <<levels, override_scheme, buffers>>

\* What is left is the switch on scheme_selection.
Selects(selection) ==
    /\ Running("compress", "enter")
    /\ ~OneValueCertain(Top)
    /\ ~NoCascadeLeft(Top)
    /\ Selection = selection

EnterForced ==
    /\ Selects("SAMPLE")
    /\ Top.force # AutoScheme
    /\ stack' = SetTop(Chosen(Top, Top.force, "force"))
    /\ UNCHANGED <<levels, override_scheme, buffers>>

\* The override is used once, by whichever stream of the type asks first.
EnterOverridden ==
    /\ Selects("SAMPLE")
    /\ Top.force = AutoScheme
    /\ override_scheme[Top.type] # AutoScheme
    /\ stack' = SetTop(Chosen(Top, override_scheme[Top.type], "override"))
    /\ override_scheme' = [override_scheme EXCEPT ![Top.type] = AutoScheme]
    /\ UNCHANGED <<levels, buffers>>

EnterChoose ==
    /\ Selects("SAMPLE")
    /\ Top.force = AutoScheme
    /\ override_scheme[Top.type] = AutoScheme
    /\ stack' = SetTop([Top EXCEPT !.pc = "choose"])
    /\ UNCHANGED <<levels, override_scheme, buffers>>

\* TRY_ALL looks at neither the forced scheme nor the override.
EnterTryAll ==
    /\ Selects("TRY_ALL")
    /\ stack' = SetTop([Top EXCEPT !.pc = "try"])
    /\ UNCHANGED <<levels, override_scheme, buffers>>

---------------------------------------------------------------------------
(* Running a composite scheme, for its result or for an estimate *)

\* The top frame, already updated to f, calls compress() of scheme s.
CallScheme(f, s, estimating) ==
    \E plan \in Plans(f.type, s) :
       LET callee == SchemeFrame(f.type, s, f.acl, f.shape, plan, estimating) IN
       /\ stack' = Append(SetTop(f), callee)
       /\ compression_level' = compression_level + ScopeLevels(f.type, s)
       /\ estimation_level' = estimation_level + EstimateLevels(estimating)
       /\ IF s = "SUB_INT_SPLIT" THEN OpenReport(f.type, callee.el)
                                 ELSE UNCHANGED report
       /\ UNCHANGED <<override_scheme, scratch, lastEncode>>

---------------------------------------------------------------------------
(* chooseScheme *)

Candidate == Pool[Top.type][Top.idx]
Looping(pc) == Running("compress", pc) /\ Top.idx <= Len(Pool[Top.type])
Looped(pc)  == Running("compress", pc) /\ Top.idx > Len(Pool[Top.type])

Advance_Stuck(f) == f
Advance(f) == [f EXCEPT !.idx = @ + 1]

\* ONE_VALUE is left to the top-level special case.
Nested == estimation_level # 0 \/ compression_level > 1
Skips_Uncompressed(s) == s \in {"ONE_VALUE", "UNCOMPRESSED"} /\ Nested
Skips(s) == s = "ONE_VALUE" /\ Nested

\* Whether a ratio of class r may, or may not, exceed the best one so far.
\* UNCOMPRESSED is exactly 1 and cannot beat a scheme that pays.
Improves(f, s, r)  == r > f.best \/ (r = f.best /\ r # Declined /\ s # "UNCOMPRESSED")
MayStay(f, r)      == r <= f.best

Consider(f, s, r) ==
    (IF Improves(f, s, r) THEN {[Advance(f) EXCEPT !.scheme = s, !.best = r]} ELSE {})
      \cup (IF MayStay(f, r) THEN {Advance(f)} ELSE {})

SkipCandidate ==
    /\ Looping("choose")
    /\ \/ Skips(Candidate)
       \/ Candidate = "PSEUDODECIMAL"              \* isUsable
    /\ stack' = SetTop(Advance(Top))
    /\ UNCHANGED <<levels, override_scheme, buffers>>

RateCandidate ==
    /\ Looping("choose")
    /\ ~Skips(Candidate)
    /\ \E r \in Ratios(Top, Candidate) : \E f \in Consider(Top, Candidate, r) :
          stack' = SetTop(f)
    /\ UNCHANGED <<levels, override_scheme, buffers>>

SampleCandidate ==
    /\ Looping("choose")
    /\ MaySample(Top, Candidate)
    /\ CallScheme(Top, Candidate, TRUE)

\* UNCOMPRESSED keeps the best ratio from falling below 1, which would throw.
PickCandidate ==
    /\ Looped("choose")
    /\ Top.best = Pays
    /\ stack' = SetTop(Chosen(Top, Top.scheme, "pick"))
    /\ UNCHANGED <<levels, override_scheme, buffers>>

---------------------------------------------------------------------------
(* SchemeSelection::TRY_ALL *)

RateTrial ==
    /\ Looping("try")
    /\ \E r \in Ratios(Top, Candidate) :
          stack' = SetTop(IF r = Declined THEN Advance(Top) ELSE [Top EXCEPT !.pc = "trial"])
    /\ UNCHANGED <<levels, override_scheme, buffers>>

SampleTrial ==
    /\ Looping("try")
    /\ MaySample(Top, Candidate)
    /\ CallScheme(Top, Candidate, TRUE)

\* least_after_size starts at the largest u32, so the first trial is kept.
AfterTrial_LeastIsZero(f, s) == {[Advance(f) EXCEPT !.pc = "try"]}
AfterTrial(f, s) ==
    LET back == [Advance(f) EXCEPT !.pc = "try"] IN
    {[back EXCEPT !.scheme = s]} \cup (IF f.scheme # None THEN {back} ELSE {})

TrialOfLeaf ==
    /\ Running("compress", "trial")
    /\ ~Composite(Top.type, Candidate)
    /\ \E f \in AfterTrial(Top, Candidate) : stack' = SetTop(f)
    /\ UNCHANGED <<levels, override_scheme, buffers>>

TrialOfComposite ==
    /\ Running("compress", "trial")
    /\ Composite(Top.type, Candidate)
    /\ CallScheme(Top, Candidate, FALSE)

PickTrial ==
    /\ Looped("try")
    /\ Top.scheme # None
    /\ stack' = SetTop(Chosen(Top, Top.scheme, "pick"))
    /\ UNCHANGED <<levels, override_scheme, buffers>>

---------------------------------------------------------------------------
(* CSchemePicker::compress: the result *)

Encoded(f, s, fits) == [f EXCEPT !.pc = "encoded", !.bytes = s, !.fits = fits]

EncodeLeaf ==
    /\ Running("compress", "encode")
    /\ ~Composite(Top.type, Top.scheme)
    /\ \E fits \in LeafFits(Top, Top.scheme) :
          stack' = SetTop(Encoded(Top, Top.scheme, fits))
    /\ UNCHANGED <<levels, override_scheme, buffers>>

EncodeComposite ==
    /\ Running("compress", "encode")
    /\ Composite(Top.type, Top.scheme)
    /\ CallScheme(Top, Top.scheme, FALSE)

OnHotPath == estimation_level = 0

\* On the hot path a result larger than the raw values is replaced by them.
FallsBack_OnlyOutermost(f) == OnHotPath /\ compression_level = 1 /\ ~f.fits
FallsBack(f) == OnHotPath /\ ~f.fits

Uncompressed_KeepsCode(f) == [f EXCEPT !.scheme = "UNCOMPRESSED", !.bytes = "UNCOMPRESSED",
                                       !.fits = TRUE]
Uncompressed(f) == [f EXCEPT !.scheme = "UNCOMPRESSED", !.code = "UNCOMPRESSED",
                             !.bytes = "UNCOMPRESSED", !.fits = TRUE]

Settled(f) == IF FallsBack(f) THEN Uncompressed(f) ELSE f

\* Off the hot path the result is handed back as it is.
KeepEstimate ==
    /\ Running("compress", "encoded")
    /\ ~OnHotPath
    /\ stack' = SetTop([Top EXCEPT !.pc = "leave"])
    /\ UNCHANGED <<levels, override_scheme, buffers>>

\* On it the ratio is estimated once more for the log, without sub-streams ...
LogRatio ==
    /\ Running("compress", "encoded")
    /\ OnHotPath
    /\ Ratios(Settled(Top), Settled(Top).scheme) # {}
    /\ stack' = SetTop([Settled(Top) EXCEPT !.pc = "leave"])
    /\ UNCHANGED <<levels, override_scheme, buffers>>

\* ... or by compressing a sample: the whole recursion runs again.
LogRatioBySample ==
    /\ Running("compress", "encoded")
    /\ OnHotPath
    /\ MaySample(Settled(Top), Settled(Top).scheme)
    /\ CallScheme([Settled(Top) EXCEPT !.pc = "reestimate"], Settled(Top).scheme, TRUE)

\* The caller of the activation that ends: the frame below the top.
Caller == stack[Depth - 1]

RecordSection(f) ==
    report' = IF f.scheme = "SUB_INT_SPLIT" /\ Records(f.el)
              THEN [report EXCEPT !.sections = @ + 1] ELSE report

LeaveColumn ==
    /\ Running("compress", "leave")
    /\ Depth = 1
    /\ stack' = <<>>
    /\ compression_level' = compression_level - 1
    /\ UNCHANGED <<estimation_level, override_scheme, buffers>>

\* A scheme with its next sub-stream written.
Written(f) == [f EXCEPT !.done = @ + 1, !.todo = Tail(@)]

LeaveStream ==
    /\ Running("compress", "leave")
    /\ Depth > 1
    /\ stack' = [Popped EXCEPT ![Depth - 1] = Written(Caller)]
    /\ compression_level' = compression_level - 1
    /\ RecordSection(Caller)
    /\ UNCHANGED <<estimation_level, override_scheme, scratch, lastEncode>>

---------------------------------------------------------------------------
(* compress() of a composite scheme *)

\* u8 arithmetic: allowed_cascading_level - 1, or the level FSST configures.
ChildLevel_Same(f) == f.acl
ChildLevel(f) == IF f.type = "STRING" THEN FsstCascade ELSE (f.acl - 1) % 256

\* A section is extracted into the scratch buffer of its width and compressed
\* from there: while its picker runs, the buffer belongs to this activation.
FillScratch(f) ==
    scratch' = IF f.scheme = "SUB_INT_SPLIT" THEN [scratch EXCEPT ![f.type] = Depth]
                                             ELSE scratch

CompressSubStream ==
    /\ Running("scheme", "streams")
    /\ Top.todo # <<>>
    /\ LET stream == Head(Top.todo) IN
       \E shape \in IF stream.mayBeEmpty THEN {"empty", "any"} ELSE {"any"} :
          stack' = Append(stack, CompressFrame(stream.type, ChildLevel(Top), stream.force, shape))
    /\ FillScratch(Top)
    /\ compression_level' = compression_level + 1
    /\ UNCHANGED <<estimation_level, override_scheme, report, lastEncode>>

\* The frame that called the ending scheme f, with its answer.
Answered(caller, f, fits) ==
    CASE caller.pc = "choose"     -> Consider(caller, f.scheme, IF fits THEN Pays ELSE Loses)
      [] caller.pc = "try"        -> {[caller EXCEPT !.pc = "trial"]}
      [] caller.pc = "trial"      -> AfterTrial(caller, f.scheme)
      [] caller.pc = "encode"     -> {Encoded(caller, f.scheme, fits)}
      [] caller.pc = "reestimate" -> {[caller EXCEPT !.pc = "leave"]}

\* encode() closes the report it opened.
CloseReport(f, sections) ==
    report' = IF f.scheme = "SUB_INT_SPLIT" /\ Records(f.el)
              THEN [report EXCEPT !.valid = TRUE,
                                  !.sections = IF sections = 0 THEN 0 ELSE @]
              ELSE report

\* History: what an encode() that was not part of an estimate has written.
NoteEncode(f, sections) ==
    lastEncode' = IF f.scheme = "SUB_INT_SPLIT" /\ f.el = 0
                  THEN [width |-> f.type, sections |-> sections, valid |-> TRUE]
                  ELSE lastEncode

\* The scope is closed by its destructor, on every way out of encode().
LeavesScope_NotWhenRaw(f, sections) == IF sections = 0 THEN 0 ELSE ScopeLevels(f.type, f.scheme)
LeavesScope_Twice(f, sections) == 2 * ScopeLevels(f.type, f.scheme)
LeavesScope(f, sections) == ScopeLevels(f.type, f.scheme)

\* expectedCompressionRatio lowers the level after compress(), whatever it was.
EndsEstimate_NotWhenGivenUp(f) == IF f.done = 0 THEN 0 ELSE EstimateLevels(f.estimating)
EndsEstimate(f) == EstimateLevels(f.estimating)

ReturnFrom(f, sections, fits) ==
    /\ IF Depth = 1 THEN stack' = <<>>
                    ELSE \E g \in Answered(Caller, f, fits) :
                            stack' = [Popped EXCEPT ![Depth - 1] = g]
    /\ compression_level' = compression_level - LeavesScope(f, sections)
    /\ estimation_level' = estimation_level - EndsEstimate(f)
    /\ CloseReport(f, sections)
    /\ NoteEncode(f, sections)
    /\ UNCHANGED <<override_scheme, scratch>>

\* All sub-streams are written.  A Decimal that gave up reports a size over raw.
ReturnScheme ==
    /\ Running("scheme", "streams")
    /\ Top.todo = <<>>
    /\ \E fits \in IF Top.done = 0 THEN {FALSE} ELSE BOOLEAN :
          ReturnFrom(Top, Top.done, fits)

\* The sections so far are larger than the input: encode() stores it raw,
\* behind a header, and gives up the rest of the plan.
ReturnRaw ==
    /\ Running("scheme", "streams")
    /\ Top.scheme = "SUB_INT_SPLIT"
    /\ Top.done > 0
    /\ ReturnFrom(Top, 0, FALSE)

---------------------------------------------------------------------------
Init ==
    /\ stack = <<>>
    /\ compression_level = 0
    /\ estimation_level = 0
    /\ override_scheme = [t \in Types |-> AutoScheme]
    /\ scratch = [t \in {"INTEGER", "BIGINT"} |-> 0]
    /\ report = NoReport
    /\ lastEncode = NoReport

Call == SetOverride \/ CompressColumn \/ CompressStringColumn \/ DirectEncode \/ DirectEncodeEmpty

Step ==
    \/ EnterOneValue \/ EnterUncompressed \/ EnterForced \/ EnterOverridden
    \/ EnterChoose \/ EnterTryAll
    \/ SkipCandidate \/ RateCandidate \/ SampleCandidate \/ PickCandidate
    \/ RateTrial \/ SampleTrial \/ TrialOfLeaf \/ TrialOfComposite \/ PickTrial
    \/ EncodeLeaf \/ EncodeComposite
    \/ KeepEstimate \/ LogRatio \/ LogRatioBySample \/ LeaveColumn \/ LeaveStream
    \/ CompressSubStream \/ ReturnScheme \/ ReturnRaw

Next == Call \/ Step

Spec == Init /\ [][Next]_vars

\* A call runs to its end: nothing in it waits for another thread.
FairSpec == Spec /\ WF_vars(Step)

---------------------------------------------------------------------------
(* Properties *)

\* What may be forced: nothing, or an enabled scheme of the type.
Overrides ==
    {o \in [Types -> ForceScheme] : \A t \in Types : o[t] \in Enabled(t) \cup {AutoScheme}}

\* The variables have the types declared above.
TypeOK ==
    /\ stack \in Seq(Frame)
    /\ compression_level \in Nat
    /\ estimation_level \in Nat
    /\ override_scheme \in Overrides
    /\ scratch \in [{"INTEGER", "BIGINT"} -> Nat]
    /\ report \in PlanReport
    /\ lastEncode \in PlanReport

\* The hand-written ++ and -- of the two thread-local levels pair up along
\* every path: whichever activation is running sees the levels it was entered
\* with, and between two columns both are 0 again.  Every decision that asks
\* "am I nested?" or "is this an estimate?" rests on it.
LevelsBalanced ==
    levels = IF Idle THEN <<0, 0>> ELSE <<Top.cl, Top.el>>

\* btrblocks.hpp: max_cascade_depth is the "maximum recursive compression
\* calls".  Every nested picker call has strictly less than all those it is
\* nested in, so the u8 never wraps and the recursion is that deep at most.
CascadeDecreases ==
    \A i, j \in 1..Depth :
       (i < j /\ stack[i].fn = "compress" /\ stack[j].fn = "compress")
          => stack[j].acl < stack[i].acl

Splitting(i) == stack[i].fn = "scheme" /\ stack[i].scheme = "SUB_INT_SPLIT"

\* SubIntSplitCore.hpp: "Sections must never themselves be compressed with
\* SubIntSplit", neither for a result nor in an estimate, however encode() was
\* entered: while one encode() runs no other one is entered above it.
SectionsNeverSplit ==
    \A i, j \in 1..Depth : Splitting(i) /\ Splitting(j) => i = j

\* While the picker compresses a section in place from the shared scratch
\* buffer, the buffer still holds that section and not one of another encode().
SectionScratchIntact ==
    \A i \in 1..Depth : Splitting(i) /\ i < Depth => scratch[stack[i].type] = i

\* lastPlanReport() is the "most recent encode on this thread": unless a
\* real encode is running, the report tells what the last one did, and the
\* estimates run before and after it left it alone.
ReportIsLastEncode ==
    (\A i \in 1..Depth : Splitting(i) => stack[i].el > 0)
       => report = lastEncode

\* A stream compressed for real is never stored larger than its raw values.
HotPathNeverGrows ==
    \A i \in 1..Depth :
       stack[i].fn = "compress" /\ stack[i].pc \in {"reestimate", "leave"} /\ stack[i].el = 0
          => stack[i].fits

\* The scheme code a stream is stored under is that of the scheme which wrote
\* its bytes, whichever way it was chosen and after a fallback too.
CodeNamesBytes ==
    \A i \in 1..Depth :
       stack[i].fn = "compress" /\ stack[i].pc \in {"reestimate", "leave"}
          => stack[i].code = stack[i].bytes

\* "compression ratio lower than 1" and the null preferred_scheme are never
\* met: whatever the order and the depth, the candidate loop finds a scheme.
PickSucceeds ==
    /\ Looped("choose") => Top.best = Pays
    /\ Looped("try") => Top.scheme # None

\* SchemeConfig.hpp: "in integer RLE, override the scheme used for values with
\* this scheme instead of using the scheme picking algorithm".
RleValuesForced ==
    \A i \in 2..Depth :
       (/\ stack[i].fn = "compress"
        /\ stack[i - 1].scheme = "RLE" /\ stack[i - 1].type = "INTEGER" /\ stack[i - 1].done = 0)
          => stack[i].force = ForceValues

\* Compressing a column terminates: no estimate of an estimate runs forever.
ColumnsFinish == ~Idle ~> Idle
=============================================================================
