-------------------------- MODULE SchemePickerProofs --------------------------
(***************************************************************************)
(* Proofs about SchemePicker, for every pool, cascade depth and number of  *)
(* sections.                                                               *)
(*                                                                         *)
(* The inductive invariant says what the call stack looks like: FrameOK of *)
(* every activation, LinkOK of every two neighbours, BottomOK of the       *)
(* outermost one.  It is a predicate on sequences of frames, so that the   *)
(* four ways a step changes the stack (push, pop, replace the top, pop and *)
(* replace) are four lemmas, used by all the actions.                      *)
(*                                                                         *)
(* Second part: SUB_INT_SPLIT is never entered inside itself, and the      *)
(* scratch buffer a section is compressed from is left alone meanwhile,    *)
(* as long as nobody forces the scheme (NoForcedSplit).  Only a picker at  *)
(* compression level 1 may choose SUB_INT_SPLIT, since its estimate        *)
(* declines at any other; a picker call inside encode() is at level 2 or   *)
(* more, thanks to the scope encode() opens.                               *)
(*                                                                         *)
(* Third part: a scheme is always found, the code of a stream names the    *)
(* scheme that wrote its bytes, a stream compressed for real never grows,  *)
(* and the plan report tells of the last encode().  The first three rest   *)
(* on ResultFrame, a predicate on one activation: what is decided of the   *)
(* stream at each point of the walk from "enter" to "leave".  The last one *)
(* rests on the single real encode() that may be running                   *)
(* (SectionsNeverSplit), which the report describes so far.                *)
(***************************************************************************)
EXTENDS SchemePicker, SequenceTheorems, TLAPS

---------------------------------------------------------------------------
(* Sequences as stacks *)

LEMMA ReplaceLast ==
    ASSUME NEW S, NEW s \in Seq(S), s # <<>>, NEW e \in S
    PROVE  LET t == [s EXCEPT ![Len(s)] = e] IN
           /\ t \in Seq(S)
           /\ Len(t) = Len(s)
           /\ t # <<>>
           /\ t[Len(t)] = e
           /\ \A i \in 1..(Len(s) - 1) : t[i] = s[i]
    OBVIOUS

LEMMA PushLast ==
    ASSUME NEW S, NEW s \in Seq(S), NEW e \in S
    PROVE  LET t == Append(s, e) IN
           /\ t \in Seq(S)
           /\ Len(t) = Len(s) + 1
           /\ t # <<>>
           /\ t[Len(t)] = e
           /\ \A i \in 1..Len(s) : t[i] = s[i]
    OBVIOUS

LEMMA PopLast ==
    ASSUME NEW S, NEW s \in Seq(S), s # <<>>
    PROVE  LET t == SubSeq(s, 1, Len(s) - 1) IN
           /\ t \in Seq(S)
           /\ Len(t) = Len(s) - 1
           /\ (t = <<>>) <=> (Len(s) = 1)
           /\ \A i \in 1..(Len(s) - 1) : t[i] = s[i]
  <1>. DEFINE n == Len(s) - 1
              t == SubSeq(s, 1, n)
  <1>1. Len(s) \in Nat \ {0} /\ n \in Nat
    BY EmptySeq
  <1>2. \A i \in 1..n : s[i] \in S
    BY <1>1, ElementOfSeq
  <1>3. /\ t \in Seq(S)
        /\ Len(t) = IF 1 <= n THEN n - 1 + 1 ELSE 0
        /\ \A i \in 1..(n - 1 + 1) : t[i] = s[1 + i - 1]
    <2>. HIDE DEF n
    <2>. QED
      BY <1>1, <1>2, SubSeqProperties
  <1>4. Len(t) = n /\ \A i \in 1..n : t[i] = s[i]
    <2>1. n \in Nat
      BY <1>1
    <2>. HIDE DEF n, t
    <2>. QED
      BY <2>1, <1>3
  <1>5. (t = <<>>) <=> (n = 0)
    <2>. HIDE DEF t
    <2>. QED
      BY <1>1, <1>3, <1>4, EmptySeq
  <1>. QED
    BY <1>1, <1>3, <1>4, <1>5

---------------------------------------------------------------------------
(* The inductive invariant *)

Candidates == {"choose", "try", "trial"}
Running2   == {"encode", "reestimate"}

\* How far an activation raised the compression level.
Raise(f) == IF f.fn = "compress" THEN 1 ELSE ScopeLevels(f.type, f.scheme)

\* An activation on its own.  With no cascade level left a picker has chosen a
\* scheme without sub-streams, so a composite scheme has a level to pass on.
FrameOK(f) ==
    /\ f.fn = "compress" =>
          /\ f.pc # "streams" /\ f.type # "STRING" /\ f.estimating = FALSE
          /\ f.acl = 0 => /\ f.pc \notin Candidates
                          /\ f.scheme \in {None, "UNCOMPRESSED", "ONE_VALUE"}
          /\ f.pc = "trial" => f.idx <= Len(Pool[f.type])
    /\ f.fn = "scheme" =>
          /\ f.pc = "streams" /\ f.scheme # None
          /\ f.type # "STRING" => f.acl >= 1

\* An activation f and the activation g it called.
LinkOK(f, g) ==
    /\ g.cl = f.cl + Raise(g)
    /\ g.el = f.el + EstimateLevels(g.estimating)
    /\ g.fn = "compress" =>
          /\ f.fn = "scheme" /\ f.todo # <<>>
          /\ f.type # "STRING" => g.acl < f.acl
    /\ g.fn = "scheme" =>
          /\ f.fn = "compress" /\ f.pc \in Candidates \cup Running2
          /\ g.type = f.type /\ g.acl = f.acl
          /\ f.pc \in Candidates => /\ f.idx <= Len(Pool[f.type])
                                    /\ g.scheme = Pool[f.type][f.idx]
          /\ f.pc \in Running2 => g.scheme = f.scheme

\* The activation the caller started.
BottomOK(f) == f.cl = Raise(f) /\ f.el = EstimateLevels(f.estimating)

CascadeOK(s) ==
    \A i, j \in 1..Len(s) :
       (i < j /\ s[i].fn = "compress" /\ s[j].fn = "compress") => s[j].acl < s[i].acl

StackOK(s) ==
    /\ s \in Seq(Frame)
    /\ \A i \in 1..Len(s) : FrameOK(s[i])
    /\ \A i \in 1..(Len(s) - 1) : LinkOK(s[i], s[i + 1])
    /\ s # <<>> => BottomOK(s[1])
    /\ CascadeOK(s)

LevelsOf(s) == IF s = <<>> THEN <<0, 0>> ELSE <<s[Len(s)].cl, s[Len(s)].el>>

IInv == TypeOK /\ StackOK(stack) /\ LevelsBalanced

---------------------------------------------------------------------------
(* Frames *)

\* What a step that only replaces the running activation leaves alone in it.
Keeps(f, e) ==
    /\ e \in Frame
    /\ e.fn = f.fn /\ e.type = f.type /\ e.acl = f.acl
    /\ e.cl = f.cl /\ e.el = f.el /\ e.estimating = f.estimating

LEMMA SchemeNames ==
    /\ {"UNCOMPRESSED", "ONE_VALUE", "DICT", "RLE", "BP", "FREQUENCY", "FOR",
        "SUB_INT_SPLIT", "PSEUDODECIMAL", "FSST"} \subseteq Schemes
    /\ None \notin Schemes
    /\ AutoScheme \notin Schemes
    BY DEF Schemes, IntegerSchemes, DoubleSchemes, StringSchemes, None, AutoScheme

LEMMA TypeNames ==
    /\ Types = {"INTEGER", "BIGINT", "DOUBLE", "STRING"}
    /\ NumberTypes = {"INTEGER", "BIGINT", "DOUBLE"}
    BY DEF Types, NumberTypes

LEMMA FieldNames ==
    /\ {"choose", "try", "trial", "encode", "encoded", "reestimate", "leave", "enter",
        "streams"} = Pcs
    /\ {"none", "force", "override", "rule", "pick"} = Hows
    /\ {"compress", "scheme"} = Fns
    /\ Schemes \subseteq SomeScheme /\ None \in SomeScheme
    /\ Schemes \subseteq ForceScheme /\ AutoScheme \in ForceScheme
    /\ {0, 1, 2} = Ratio
    /\ 1 \in Index /\ \A n \in Index : n + 1 \in Index
    BY DEF Pcs, Hows, Fns, SomeScheme, ForceScheme, Ratio, Index

LEMMA ChosenTyped ==
    ASSUME NEW f \in Frame, NEW s \in SomeScheme, NEW how \in Hows
    PROVE  LET e == Chosen(f, s, how) IN
           Keeps(f, e) /\ e.pc = "encode" /\ e.scheme = s
    BY FieldNames DEF Chosen, Keeps, Frame

LEMMA PcTyped ==
    ASSUME NEW f \in Frame, NEW pc \in Pcs
    PROVE  LET e == [f EXCEPT !.pc = pc] IN
           Keeps(f, e) /\ e.pc = pc /\ e.scheme = f.scheme /\ e.idx = f.idx
    BY DEF Keeps, Frame

LEMMA AdvanceTyped ==
    ASSUME NEW f \in Frame
    PROVE  LET e == Advance(f) IN
           Keeps(f, e) /\ e.pc = f.pc /\ e.scheme = f.scheme
    BY FieldNames DEF Advance, Keeps, Frame

LEMMA ConsiderTyped ==
    ASSUME NEW f \in Frame, NEW s \in Schemes, NEW r \in Ratio,
           NEW e \in Consider(f, s, r)
    PROVE  Keeps(f, e) /\ e.pc = f.pc /\ e.scheme \in {s, f.scheme}
  <1>1. CASE e = Advance(f)
    BY <1>1, AdvanceTyped
  <1>2. CASE e = [Advance(f) EXCEPT !.scheme = s, !.best = r]
    <2>1. ASSUME NEW a \in Frame
          PROVE  LET b == [a EXCEPT !.scheme = s, !.best = r] IN
                 Keeps(a, b) /\ b.pc = a.pc /\ b.scheme = s
      BY FieldNames DEF Keeps, Frame
    <2>2. Advance(f) \in Frame
      BY AdvanceTyped DEF Keeps
    <2>. QED
      BY <1>2, <2>1, <2>2, AdvanceTyped DEF Keeps
  <1>. QED
    BY <1>1, <1>2 DEF Consider

LEMMA AfterTrialTyped ==
    ASSUME NEW f \in Frame, NEW s \in Schemes, NEW e \in AfterTrial(f, s)
    PROVE  Keeps(f, e) /\ e.pc = "try" /\ e.scheme \in {s, f.scheme}
  <1>. DEFINE back == [Advance(f) EXCEPT !.pc = "try"]
  <1>1. Keeps(f, back) /\ back.pc = "try" /\ back.scheme = f.scheme
    BY AdvanceTyped, PcTyped, FieldNames DEF Keeps
  <1>2. LET b == [back EXCEPT !.scheme = s] IN
        Keeps(back, b) /\ b.pc = back.pc /\ b.scheme = s
    <2>. HIDE DEF back
    <2>. QED
      BY <1>1, FieldNames DEF Keeps, Frame
  <1>. QED
    BY <1>1, <1>2 DEF AfterTrial, Keeps

LEMMA EncodedTyped ==
    ASSUME NEW f \in Frame, NEW s \in SomeScheme, NEW fits \in BOOLEAN
    PROVE  LET e == Encoded(f, s, fits) IN
           Keeps(f, e) /\ e.pc = "encoded" /\ e.scheme = f.scheme
    BY FieldNames DEF Encoded, Keeps, Frame

LEMMA SettledTyped ==
    ASSUME NEW f \in Frame
    PROVE  LET e == Settled(f) IN
           Keeps(f, e) /\ e.pc = f.pc /\ e.scheme \in {"UNCOMPRESSED", f.scheme}
  <1>1. LET e == Uncompressed(f) IN
        Keeps(f, e) /\ e.pc = f.pc /\ e.scheme = "UNCOMPRESSED"
    BY FieldNames, SchemeNames DEF Uncompressed, Keeps, Frame
  <1>2. Keeps(f, f)
    BY DEF Keeps
  <1>. QED
    BY <1>1, <1>2 DEF Settled

LEMMA CompressFrameTyped ==
    ASSUME NEW t \in NumberTypes, NEW acl \in U8, NEW force \in ForceScheme,
           NEW shape \in Shapes, compression_level \in Nat, estimation_level \in Nat
    PROVE  LET e == CompressFrame(t, acl, force, shape) IN
           /\ e \in Frame /\ FrameOK(e)
           /\ e.fn = "compress" /\ e.acl = acl /\ e.estimating = FALSE
           /\ e.cl = compression_level + 1 /\ e.el = estimation_level
  <1>. DEFINE e == CompressFrame(t, acl, force, shape)
  <1>1. <<>> \in Streams
    BY DEF Streams
  <1>2. t \in Types /\ t # "STRING"
    BY TypeNames
  <1>3. e \in Frame
    BY <1>1, <1>2, FieldNames DEF CompressFrame, Frame
  <1>4. /\ e.fn = "compress" /\ e.acl = acl /\ e.estimating = FALSE /\ e.type = t
        /\ e.cl = compression_level + 1 /\ e.el = estimation_level
        /\ e.pc = "enter" /\ e.scheme = None
    BY DEF CompressFrame
  <1>5. FrameOK(e)
    <2>. HIDE DEF e
    <2>. QED
      BY <1>2, <1>4 DEF FrameOK, Candidates
  <1>. QED
    BY <1>3, <1>4, <1>5

LEMMA SchemeFrameTyped ==
    ASSUME NEW t \in Types, NEW s \in Schemes, NEW acl \in U8, NEW shape \in Shapes,
           NEW plan \in Streams, NEW estimating \in BOOLEAN,
           compression_level \in Nat, estimation_level \in Nat, t # "STRING" => acl >= 1
    PROVE  LET e == SchemeFrame(t, s, acl, shape, plan, estimating) IN
           /\ e \in Frame /\ FrameOK(e)
           /\ e.fn = "scheme" /\ e.type = t /\ e.scheme = s /\ e.acl = acl
           /\ e.estimating = estimating
           /\ e.cl = compression_level + ScopeLevels(t, s)
           /\ e.el = estimation_level + EstimateLevels(estimating)
  <1>. DEFINE e == SchemeFrame(t, s, acl, shape, plan, estimating)
  <1>1. ScopeLevels(t, s) \in Nat /\ EstimateLevels(estimating) \in Nat
    BY DEF ScopeLevels, EstimateLevels
  <1>2. e \in Frame
    <2>1. compression_level + ScopeLevels(t, s) \in Nat
      BY <1>1
    <2>2. estimation_level + EstimateLevels(estimating) \in Nat
      BY <1>1
    <2>. QED
      BY <2>1, <2>2, FieldNames DEF SchemeFrame, Frame
  <1>3. /\ e.fn = "scheme" /\ e.type = t /\ e.scheme = s /\ e.acl = acl /\ e.pc = "streams"
        /\ e.estimating = estimating
        /\ e.cl = compression_level + ScopeLevels(t, s)
        /\ e.el = estimation_level + EstimateLevels(estimating)
    BY DEF SchemeFrame
  <1>4. FrameOK(e)
    <2>. HIDE DEF e
    <2>. QED
      BY <1>3, SchemeNames DEF FrameOK
  <1>. QED
    BY <1>2, <1>3, <1>4

---------------------------------------------------------------------------
(* Plans *)

LEMMA StreamTyped ==
    ASSUME NEW t \in NumberTypes, NEW force \in ForceScheme
    PROVE  SubStream(t, force) \in Stream /\ MaybeEmpty(t) \in Stream
    BY DEF SubStream, MaybeEmpty, Stream, ForceScheme

LEMMA ShortPlans ==
    ASSUME NEW a \in Stream, NEW b \in Stream, NEW c \in Stream
    PROVE  <<>> \in Streams /\ <<a>> \in Streams /\ <<a, b>> \in Streams
             /\ <<a, b, c>> \in Streams
    BY DEF Streams

LEMMA SectionsAreStreams == Sections \subseteq Streams
  <1>. DEFINE two == {SubStream("INTEGER", AutoScheme), SubStream("INTEGER", "ONE_VALUE")}
  <1>1. two \subseteq Stream
    BY StreamTyped, TypeNames, FieldNames, SchemeNames
  <1>2. ASSUME NEW n \in 1..MaxSections, NEW plan \in [1..n -> two]
        PROVE  plan \in Streams
    <2>1. plan \in [1..n -> Stream]
      <3>. HIDE DEF two
      <3>. QED
        BY <1>1, <1>2
    <2>2. n \in Nat
      BY <1>2, ConfigAssumption
    <2>. QED
      BY <2>1, <2>2 DEF Streams
  <1>. QED
    BY <1>2 DEF Sections

LEMMA CodesTyped == SubStream("INTEGER", ForceCodes) \in Stream
  <1>1. ForceCodes \in ForceScheme
    BY ConfigAssumption, PoolAssumption DEF ForceScheme, Schemes
  <1>. QED
    BY <1>1, StreamTyped, TypeNames

LEMMA NumberPlans ==
    ASSUME NEW t \in NumberTypes, NEW s, NEW plan \in Plans(t, s)
    PROVE  plan \in Streams /\ s \in Schemes
  <1>. DEFINE a == SubStream("INTEGER", AutoScheme)
  <1>1. a \in Stream /\ SubStream("INTEGER", "BP") \in Stream
    BY StreamTyped, TypeNames, FieldNames, SchemeNames
  <1>13. SubStream("INTEGER", ForceCodes) \in Stream
    BY CodesTyped
  <1>2. MaybeEmpty(t) \in Stream /\ SubStream(t, AutoScheme) \in Stream
    BY StreamTyped, FieldNames
  <1>3. RleValues(t) \in Stream /\ RleCounts(t) \in Stream
    <2>1. ForceCounts \in ForceScheme /\ ForceDoubleCounts \in ForceScheme /\ AutoScheme \in ForceScheme
      BY ConfigAssumption, PoolAssumption DEF ForceScheme, Schemes
    <2>. QED
      BY <2>1, <1>2, StreamTyped, TypeNames, FieldNames DEF RleValues, RleCounts
  <1>4. t # "STRING"
    BY TypeNames
  <1>5. CASE s = "RLE"
    BY <1>3, <1>4, <1>5, ShortPlans, SchemeNames DEF Plans, RlePlans
  <1>6. CASE s = "DICT"
    BY <1>1, <1>4, <1>6, ShortPlans, SchemeNames DEF Plans, DictPlans
  <1>7. CASE s = "FREQUENCY"
    BY <1>2, <1>7, ShortPlans, SchemeNames DEF Plans, FrequencyPlans
  <1>8. CASE s = "FOR"
    BY <1>2, <1>8, ShortPlans, SchemeNames DEF Plans, ForPlans
  <1>9. CASE s = "BP"
    BY <1>1, <1>9, ShortPlans, SchemeNames DEF Plans, Bp64Plans
  <1>10. CASE s = "PSEUDODECIMAL"
    BY <1>1, <1>2, <1>10, ShortPlans, SchemeNames DEF Plans, DecimalPlans
  <1>11. CASE s = "SUB_INT_SPLIT"
    BY <1>11, SectionsAreStreams, SchemeNames DEF Plans, SplitPlans
  <1>12. CASE s = "FSST"
    BY <1>12, <1>13, ShortPlans, SchemeNames DEF Plans, FsstPlans
  <1>. QED
    BY <1>4, <1>5, <1>6, <1>7, <1>8, <1>9, <1>10, <1>11, <1>12 DEF Plans

LEMMA StringPlans ==
    ASSUME NEW s \in StringSchemes, NEW plan \in Plans("STRING", s)
    PROVE  plan \in Streams /\ s \in Schemes
  <1>1. /\ SubStream("INTEGER", AutoScheme) \in Stream
        /\ SubStream("INTEGER", "RLE") \in Stream
        /\ SubStream("INTEGER", ForceCodes) \in Stream
    BY StreamTyped, TypeNames, FieldNames, SchemeNames, CodesTyped
  <1>2. CASE s = "FSST"
    BY <1>1, <1>2, ShortPlans, SchemeNames DEF Plans, FsstPlans
  <1>3. CASE s = "DICT"
    BY <1>1, <1>3, ShortPlans, SchemeNames DEF Plans, StringDictPlans
  <1>4. CASE s \in {"UNCOMPRESSED", "ONE_VALUE"}
    BY <1>4 DEF Plans
  <1>. QED
    BY <1>2, <1>3, <1>4 DEF StringSchemes

LEMMA NoSubStreams ==
    ASSUME NEW t, NEW s \in {None, "UNCOMPRESSED", "ONE_VALUE"}
    PROVE  Plans(t, s) = {}
    BY DEF Plans, None

---------------------------------------------------------------------------
(* Pools *)

LEMMA CandidateTyped ==
    ASSUME NEW t \in Types, NEW i \in Index, i <= Len(Pool[t])
    PROVE  Pool[t][i] \in Schemes
  <1>1. Pool[t] \in Seq(Schemes)
    BY PoolAssumption
  <1>. QED
    BY <1>1 DEF Index

---------------------------------------------------------------------------
(* What the ways of changing the stack preserve *)

LEMMA FrameNumbers ==
    ASSUME NEW f \in Frame
    PROVE  f.acl \in Nat /\ f.cl \in Nat /\ f.el \in Nat /\ f.done \in Nat /\ f.idx \in Index
    BY DEF Frame, U8

LEMMA CascadeUnder ==
    ASSUME NEW s, StackOK(s), s # <<>>,
           NEW e \in Frame, e.fn = "compress", LinkOK(s[Len(s)], e)
    PROVE  \A i \in 1..Len(s) : s[i].fn = "compress" => e.acl < s[i].acl
  <1>. DEFINE n == Len(s)
  <1>1. n \in Nat \ {0} /\ \A i \in 1..n : s[i] \in Frame
    BY EmptySeq DEF StackOK
  <1>2. s[n].fn = "scheme" /\ s[n].type # "STRING" => e.acl < s[n].acl
    BY DEF LinkOK
  <1>3. s[n].fn = "scheme"
    BY DEF LinkOK
  <1>4. CASE n = 1
    BY <1>3, <1>4
  <1>5. CASE n > 1
    <2>1. n - 1 \in 1..n /\ LinkOK(s[n - 1], s[n]) /\ FrameOK(s[n - 1])
      <3>1. n - 1 \in 1..(Len(s) - 1) /\ (n - 1) + 1 = n
        BY <1>1, <1>5
      <3>. QED
        BY <3>1, <1>1 DEF StackOK
    <2>2. /\ s[n - 1].fn = "compress" /\ s[n].type # "STRING"
          /\ s[n - 1].acl = s[n].acl
      BY <1>3, <2>1 DEF LinkOK, FrameOK
    <2>3. e.acl < s[n - 1].acl
      BY <1>2, <1>3, <2>2
    <2>4. ASSUME NEW i \in 1..n, s[i].fn = "compress", i # n - 1
          PROVE  e.acl < s[i].acl
      <3>1. i < n - 1
        BY <1>1, <1>3, <2>4
      <3>2. s[n - 1].acl < s[i].acl
        BY <1>1, <2>1, <2>2, <2>4, <3>1 DEF StackOK, CascadeOK
      <3>3. e.acl \in Int /\ s[i].acl \in Int /\ s[n - 1].acl \in Int
        <4>. HIDE DEF n
        <4>1. s[i] \in Frame /\ s[n - 1] \in Frame
          BY <1>1, <2>1, <2>4
        <4>2. e.acl \in Int
          BY FrameNumbers
        <4>3. s[i].acl \in Int
          BY <4>1, FrameNumbers
        <4>4. s[n - 1].acl \in Int
          BY <4>1, FrameNumbers
        <4>. QED
          BY <4>2, <4>3, <4>4
      <3>. HIDE DEF n
      <3>. QED
        BY <2>3, <3>2, <3>3
    <2>. QED
      BY <2>3, <2>4
  <1>6. n = 1 \/ n > 1
    BY <1>1
  <1>. QED
    BY <1>4, <1>5, <1>6

LEMMA PushedOK ==
    ASSUME NEW s, StackOK(s), NEW e \in Frame, FrameOK(e),
           s = <<>> => BottomOK(e), s # <<>> => LinkOK(s[Len(s)], e)
    PROVE  StackOK(Append(s, e)) /\ LevelsOf(Append(s, e)) = <<e.cl, e.el>>
  <1>. DEFINE n == Len(s)
              t == Append(s, e)
  <1>1. s \in Seq(Frame) /\ n \in Nat
    BY DEF StackOK
  <1>2. /\ t \in Seq(Frame) /\ Len(t) = n + 1 /\ t # <<>> /\ t[n + 1] = e
        /\ \A i \in 1..n : t[i] = s[i]
    BY <1>1, PushLast
  <1>3. s # <<>> <=> n > 0
    BY <1>1, EmptySeq
  <1>. HIDE DEF t
  <1>4. \A i \in 1..Len(t) : FrameOK(t[i])
    BY <1>1, <1>2 DEF StackOK
  <1>5. ASSUME NEW i \in 1..(Len(t) - 1)
        PROVE  LinkOK(t[i], t[i + 1])
    <2>1. CASE i = n
      BY <1>1, <1>2, <1>3, <2>1
    <2>2. CASE i # n
      <3>1. i \in 1..(n - 1) /\ i \in 1..n /\ i + 1 \in 1..n
        BY <1>1, <1>2, <2>2
      <3>. QED
        BY <1>2, <3>1 DEF StackOK
    <2>. QED
      BY <2>1, <2>2
  <1>6. BottomOK(t[1])
    BY <1>1, <1>2, <1>3 DEF StackOK
  <1>7. CascadeOK(t)
    <2>1. ASSUME NEW i \in 1..(n + 1), NEW j \in 1..(n + 1), i < j,
                 t[i].fn = "compress", t[j].fn = "compress"
          PROVE  t[j].acl < t[i].acl
      <3>1. CASE j = n + 1
        <4>1. s # <<>> /\ i \in 1..n /\ t[j] = e /\ t[i] = s[i]
          BY <1>1, <1>2, <1>3, <2>1, <3>1
        <4>. QED
          BY <2>1, <4>1, CascadeUnder
      <3>2. CASE j # n + 1
        <4>1. i \in 1..n /\ j \in 1..n /\ t[j] = s[j] /\ t[i] = s[i]
          BY <1>1, <1>2, <2>1, <3>2
        <4>. QED
          BY <2>1, <4>1 DEF StackOK, CascadeOK
      <3>. QED
        BY <3>1, <3>2
    <2>. QED
      BY <2>1, <1>2 DEF CascadeOK
  <1>8. LevelsOf(t) = <<e.cl, e.el>>
    BY <1>2 DEF LevelsOf
  <1>9. StackOK(t)
    BY <1>2, <1>4, <1>5, <1>6, <1>7 DEF StackOK
  <1>. QED
    BY <1>8, <1>9 DEF t

LEMMA ReplacedOK ==
    ASSUME NEW s, StackOK(s), s # <<>>, NEW e, Keeps(s[Len(s)], e), FrameOK(e),
           e.fn = "compress" \/ e.scheme = s[Len(s)].scheme
    PROVE  LET t == [s EXCEPT ![Len(s)] = e] IN
           StackOK(t) /\ LevelsOf(t) = LevelsOf(s) /\ t # <<>> /\ Len(t) = Len(s) /\ t[Len(t)] = e
  <1>. DEFINE n == Len(s)
              t == [s EXCEPT ![Len(s)] = e]
  <1>1. s \in Seq(Frame) /\ n \in Nat \ {0} /\ e \in Frame
    BY EmptySeq DEF StackOK, Keeps
  <1>2. /\ t \in Seq(Frame) /\ Len(t) = n /\ t # <<>> /\ t[n] = e
        /\ \A i \in 1..(n - 1) : t[i] = s[i]
    BY <1>1, ReplaceLast
  <1>. HIDE DEF t
  <1>3. \A i \in 1..Len(t) : FrameOK(t[i])
    BY <1>1, <1>2 DEF StackOK
  <1>4. Raise(e) = Raise(s[n])
    BY DEF Raise, Keeps
  <1>5. ASSUME NEW i \in 1..(Len(t) - 1)
        PROVE  LinkOK(t[i], t[i + 1])
    <2>1. i \in 1..(n - 1) /\ t[i] = s[i] /\ LinkOK(s[i], s[i + 1])
      BY <1>2 DEF StackOK
    <2>2. CASE i = n - 1
      <3>1. t[i + 1] = e /\ s[i + 1] = s[n]
        BY <1>1, <1>2, <2>2
      <3>. QED
        BY <1>4, <2>1, <3>1 DEF LinkOK, Keeps
    <2>3. CASE i # n - 1
      BY <1>1, <1>2, <2>1, <2>3
    <2>. QED
      BY <2>2, <2>3
  <1>6. BottomOK(t[1])
    <2>1. BottomOK(s[1])
      BY DEF StackOK
    <2>2. CASE n = 1
      BY <1>2, <1>4, <2>1, <2>2 DEF BottomOK, Keeps
    <2>3. CASE n > 1
      BY <1>1, <1>2, <2>1, <2>3
    <2>4. n = 1 \/ n > 1
      <3>1. n \in Nat \ {0}
        BY <1>1
      <3>. HIDE DEF n
      <3>. QED
        BY <3>1
    <2>. QED
      BY <2>2, <2>3, <2>4
  <1>7. \A i \in 1..n : t[i].fn = s[i].fn /\ t[i].acl = s[i].acl
    <2>1. \A i \in 1..n : i = n \/ i \in 1..(n - 1)
      BY <1>1
    <2>. QED
      BY <1>2, <2>1 DEF Keeps
  <1>8. CascadeOK(t)
    BY <1>2, <1>7 DEF CascadeOK, StackOK
  <1>9. LevelsOf(t) = LevelsOf(s)
    BY <1>2 DEF LevelsOf, Keeps
  <1>10. StackOK(t)
    BY <1>2, <1>3, <1>5, <1>6, <1>8 DEF StackOK
  <1>. QED
    BY <1>2, <1>9, <1>10 DEF t

LEMMA PoppedOK ==
    ASSUME NEW s, StackOK(s), s # <<>>
    PROVE  LET t == SubSeq(s, 1, Len(s) - 1)
               f == s[Len(s)] IN
           /\ StackOK(t) /\ Len(t) = Len(s) - 1 /\ (t = <<>> <=> Len(s) = 1)
           /\ Len(s) > 1 => t[Len(t)] = s[Len(s) - 1] /\ LinkOK(s[Len(s) - 1], f)
           /\ LevelsOf(t) = <<f.cl - Raise(f), f.el - EstimateLevels(f.estimating)>>
  <1>. DEFINE n == Len(s)
              t == SubSeq(s, 1, Len(s) - 1)
              f == s[Len(s)]
  <1>1. s \in Seq(Frame) /\ n \in Nat \ {0} /\ f \in Frame
    BY EmptySeq DEF StackOK
  <1>2. /\ t \in Seq(Frame) /\ Len(t) = n - 1 /\ (t = <<>> <=> n = 1)
        /\ \A i \in 1..(n - 1) : t[i] = s[i]
    BY <1>1, PopLast
  <1>. HIDE DEF t
  <1>3. \A i \in 1..Len(t) : FrameOK(t[i])
    BY <1>1, <1>2 DEF StackOK
  <1>4. ASSUME NEW i \in 1..(Len(t) - 1)
        PROVE  LinkOK(t[i], t[i + 1])
    <2>1. i \in 1..(n - 1) /\ i + 1 \in 1..(n - 1)
      BY <1>1, <1>2
    <2>. QED
      BY <1>2, <2>1 DEF StackOK
  <1>5. t # <<>> => BottomOK(t[1])
    <2>1. t # <<>> => 1 \in 1..(n - 1)
      BY <1>1, <1>2
    <2>. QED
      BY <1>2, <2>1 DEF StackOK
  <1>6. CascadeOK(t)
    BY <1>1, <1>2 DEF CascadeOK, StackOK
  <1>7. n > 1 => t[Len(t)] = s[n - 1] /\ LinkOK(s[n - 1], f)
    <2>1. n > 1 => n - 1 \in 1..(n - 1) /\ (n - 1) + 1 = n
      BY <1>1
    <2>. QED
      BY <1>2, <2>1 DEF StackOK
  <1>8. LevelsOf(t) = <<f.cl - Raise(f), f.el - EstimateLevels(f.estimating)>>
    <2>1. Raise(f) \in Int /\ EstimateLevels(f.estimating) \in Int
      BY DEF Raise, EstimateLevels, ScopeLevels
    <2>2. CASE n = 1
      <3>1. BottomOK(f)
        BY <2>2 DEF StackOK
      <3>. QED
        BY <1>2, <2>1, <2>2, <3>1 DEF BottomOK, LevelsOf
    <2>3. CASE n > 1
      <3>1. s[n - 1] \in Frame
        BY <1>1, <2>3
      <3>2. s[n - 1].cl \in Int /\ s[n - 1].el \in Int
        BY <3>1 DEF Frame
      <3>. QED
        BY <1>2, <1>7, <2>1, <2>3, <3>2 DEF LinkOK, LevelsOf
    <2>4. n = 1 \/ n > 1
      <3>1. n \in Nat \ {0}
        BY <1>1
      <3>. HIDE DEF n
      <3>. QED
        BY <3>1
    <2>. QED
      BY <2>2, <2>3, <2>4
  <1>9. StackOK(t)
    BY <1>2, <1>3, <1>4, <1>5, <1>6 DEF StackOK
  <1>. QED
    BY <1>2, <1>7, <1>8, <1>9 DEF t

---------------------------------------------------------------------------
(* Steps that only replace the running activation *)

LEMMA TopFacts ==
    ASSUME IInv, stack # <<>>
    PROVE  /\ Depth \in Nat \ {0} /\ Top \in Frame /\ FrameOK(Top)
           /\ compression_level = Top.cl /\ estimation_level = Top.el
           /\ Top.type \in Types /\ Top.scheme \in SomeScheme /\ Top.acl \in U8
           /\ Top.idx \in Index /\ Top.shape \in Shapes
  <1>1. stack \in Seq(Frame) /\ Depth \in Nat \ {0}
    BY EmptySeq DEF IInv, StackOK, Depth
  <1>2. Top \in Frame /\ FrameOK(Top)
    BY <1>1 DEF IInv, StackOK, Depth, Top
  <1>3. compression_level = Top.cl /\ estimation_level = Top.el
    BY DEF IInv, LevelsBalanced, Idle, levels
  <1>4. \A f \in Frame : /\ f.type \in Types /\ f.scheme \in SomeScheme /\ f.acl \in U8
                         /\ f.idx \in Index /\ f.shape \in Shapes
    BY DEF Frame
  <1>. QED
    BY <1>1, <1>2, <1>3, <1>4

ReplacesTop ==
    /\ \E e : Keeps(Top, e) /\ FrameOK(e) /\ stack' = SetTop(e)
    /\ override_scheme' \in Overrides
    /\ UNCHANGED <<levels, buffers>>

LEMMA KeepsCompress ==
    ASSUME NEW f, NEW e, Keeps(f, e), FrameOK(f), f.fn = "compress",
           e.pc \in {"choose", "try", "encode", "encoded", "reestimate", "leave"},
           e.pc \in Candidates => f.acl # 0,
           f.acl = 0 => e.scheme \in {None, "UNCOMPRESSED", "ONE_VALUE"}
    PROVE  FrameOK(e)
    BY DEF Keeps, FrameOK, Candidates

LEMMA OverrideTyped ==
    ASSUME IInv
    PROVE  override_scheme \in Overrides /\ override_scheme \in [Types -> ForceScheme]
    BY DEF IInv, TypeOK, Overrides

\* An assignment to the override of one type.
LEMMA OverrideSet ==
    ASSUME NEW o \in Overrides, NEW t \in Types, NEW s \in Enabled(t) \cup {AutoScheme}
    PROVE  [o EXCEPT ![t] = s] \in Overrides
  <1>1. o \in [Types -> ForceScheme] /\ \A u \in Types : o[u] \in Enabled(u) \cup {AutoScheme}
    BY DEF Overrides
  <1>2. s \in ForceScheme
    <2>1. Enabled(t) \subseteq Schemes
      BY PoolAssumption, TypeNames DEF Schemes
    <2>. QED
      BY <2>1 DEF ForceScheme
  <1>. DEFINE e == [o EXCEPT ![t] = s]
  <1>3. e \in [Types -> ForceScheme]
    BY <1>1, <1>2
  <1>4. \A u \in Types : e[u] \in Enabled(u) \cup {AutoScheme}
    BY <1>1
  <1>. QED
    BY <1>3, <1>4 DEF Overrides

LEMMA ChosenOK ==
    ASSUME NEW f \in Frame, FrameOK(f), f.fn = "compress",
           NEW s \in SomeScheme, NEW how \in Hows,
           f.acl = 0 => s \in {None, "UNCOMPRESSED", "ONE_VALUE"}
    PROVE  Keeps(f, Chosen(f, s, how)) /\ FrameOK(Chosen(f, s, how))
  <1>. DEFINE e == Chosen(f, s, how)
  <1>1. Keeps(f, e) /\ e.pc = "encode" /\ e.scheme = s
    BY ChosenTyped
  <1>2. FrameOK(e)
    <2>. HIDE DEF e
    <2>. QED
      BY <1>1, KeepsCompress DEF Candidates
  <1>. QED
    BY <1>1, <1>2

LEMMA LoopOK ==
    ASSUME NEW f \in Frame, FrameOK(f), f.fn = "compress", f.acl # 0, NEW pc \in {"choose", "try"}
    PROVE  Keeps(f, [f EXCEPT !.pc = pc]) /\ FrameOK([f EXCEPT !.pc = pc])
  <1>. DEFINE e == [f EXCEPT !.pc = pc]
  <1>1. Keeps(f, e) /\ e.pc = pc
    BY PcTyped, FieldNames
  <1>2. FrameOK(e)
    <2>. HIDE DEF e
    <2>. QED
      BY <1>1, KeepsCompress
  <1>. QED
    BY <1>1, <1>2

LEMMA EnterStep ==
    ASSUME IInv,
           EnterOneValue \/ EnterUncompressed \/ EnterForced \/ EnterOverridden
             \/ EnterChoose \/ EnterTryAll
    PROVE  ReplacesTop /\ stack # <<>> /\ Top.fn = "compress"
  <1>1. stack # <<>> /\ Top.fn = "compress"
    BY DEF EnterOneValue, EnterUncompressed, EnterForced, EnterOverridden, EnterChoose,
           EnterTryAll, Selects, Running
  <1>2. Top \in Frame /\ FrameOK(Top) /\ Top.type \in Types
    BY <1>1, TopFacts
  <1>3. override_scheme \in Overrides /\ override_scheme \in [Types -> ForceScheme]
    BY OverrideTyped
  <1>4. Top.force \in ForceScheme /\ override_scheme[Top.type] \in ForceScheme
    BY <1>2, <1>3 DEF Frame
  <1>5. \A s \in ForceScheme : s # AutoScheme => s \in SomeScheme
    BY DEF ForceScheme, SomeScheme
  <1>6. CASE EnterOneValue
    <2>1. LET e == Chosen(Top, "ONE_VALUE", "rule") IN Keeps(Top, e) /\ FrameOK(e)
      BY <1>1, <1>2, ChosenOK, FieldNames, SchemeNames
    <2>. QED
      BY <1>1, <1>3, <1>6, <2>1 DEF EnterOneValue, ReplacesTop
  <1>7. CASE EnterUncompressed
    <2>1. LET e == Chosen(Top, "UNCOMPRESSED", "rule") IN Keeps(Top, e) /\ FrameOK(e)
      BY <1>1, <1>2, ChosenOK, FieldNames, SchemeNames
    <2>. QED
      BY <1>1, <1>3, <1>7, <2>1 DEF EnterUncompressed, ReplacesTop
  <1>8. CASE EnterForced
    <2>1. Top.acl # 0 /\ Top.force \in SomeScheme
      BY <1>4, <1>5, <1>8 DEF EnterForced, Selects, NoCascadeLeft
    <2>2. LET e == Chosen(Top, Top.force, "force") IN Keeps(Top, e) /\ FrameOK(e)
      BY <1>1, <1>2, <2>1, ChosenOK, FieldNames
    <2>. QED
      BY <1>1, <1>3, <1>8, <2>2 DEF EnterForced, ReplacesTop
  <1>9. CASE EnterOverridden
    <2>1. Top.acl # 0 /\ override_scheme[Top.type] \in SomeScheme
      BY <1>4, <1>5, <1>9 DEF EnterOverridden, Selects, NoCascadeLeft
    <2>2. LET e == Chosen(Top, override_scheme[Top.type], "override") IN
          Keeps(Top, e) /\ FrameOK(e)
      BY <1>1, <1>2, <2>1, ChosenOK, FieldNames
    <2>3. override_scheme' \in Overrides
      BY <1>2, <1>3, <1>9, OverrideSet DEF EnterOverridden
    <2>. QED
      BY <1>1, <1>9, <2>2, <2>3 DEF EnterOverridden, ReplacesTop
  <1>10. CASE EnterChoose
    <2>1. LET e == [Top EXCEPT !.pc = "choose"] IN Keeps(Top, e) /\ FrameOK(e)
      BY <1>1, <1>2, <1>10, LoopOK DEF EnterChoose, Selects, NoCascadeLeft
    <2>. QED
      BY <1>1, <1>3, <1>10, <2>1 DEF EnterChoose, ReplacesTop
  <1>11. CASE EnterTryAll
    <2>1. LET e == [Top EXCEPT !.pc = "try"] IN Keeps(Top, e) /\ FrameOK(e)
      BY <1>1, <1>2, <1>11, LoopOK DEF EnterTryAll, Selects, NoCascadeLeft
    <2>. QED
      BY <1>1, <1>3, <1>11, <2>1 DEF EnterTryAll, ReplacesTop
  <1>. QED
    BY <1>1, <1>6, <1>7, <1>8, <1>9, <1>10, <1>11

LEMMA RatiosTyped ==
    ASSUME NEW f, NEW s, NEW r \in Ratios(f, s)
    PROVE  r \in Ratio
  <1>1. {Declined, Loses, Pays} = Ratio
    BY FieldNames DEF Declined, Loses, Pays
  <1>. QED
    BY <1>1 DEF Ratios, UncompressedRatios, OneValueRatios, ForRatios, DictRatios, RleRatios,
                FrequencyRatios, SplitRatios, LeafRatios

LEMMA ConsiderOK ==
    ASSUME NEW f \in Frame, FrameOK(f), f.fn = "compress", f.pc = "choose",
           NEW s \in Schemes, NEW r \in Ratio, NEW e \in Consider(f, s, r)
    PROVE  Keeps(f, e) /\ FrameOK(e)
  <1>1. Keeps(f, e) /\ e.pc = "choose"
    BY ConsiderTyped
  <1>2. f.acl # 0
    BY DEF FrameOK, Candidates
  <1>. QED
    BY <1>1, <1>2, KeepsCompress

LEMMA AdvanceOK ==
    ASSUME NEW f \in Frame, FrameOK(f), f.fn = "compress", f.pc \in {"choose", "try"}
    PROVE  Keeps(f, Advance(f)) /\ FrameOK(Advance(f))
  <1>. DEFINE e == Advance(f)
  <1>1. Keeps(f, e) /\ e.pc = f.pc
    BY AdvanceTyped
  <1>2. f.acl # 0
    BY DEF FrameOK, Candidates
  <1>3. FrameOK(e)
    <2>. HIDE DEF e
    <2>. QED
      BY <1>1, <1>2, KeepsCompress
  <1>. QED
    BY <1>1, <1>3

LEMMA AfterTrialOK ==
    ASSUME NEW f \in Frame, FrameOK(f), f.fn = "compress", f.pc = "trial",
           NEW s \in Schemes, NEW e \in AfterTrial(f, s)
    PROVE  Keeps(f, e) /\ FrameOK(e)
  <1>1. Keeps(f, e) /\ e.pc = "try"
    BY AfterTrialTyped
  <1>2. f.acl # 0
    BY DEF FrameOK, Candidates
  <1>. QED
    BY <1>1, <1>2, KeepsCompress

\* A candidate that passed its estimate is tried next.
LEMMA ToTrialOK ==
    ASSUME NEW f \in Frame, FrameOK(f), f.fn = "compress", f.pc = "try",
           f.idx <= Len(Pool[f.type])
    PROVE  Keeps(f, [f EXCEPT !.pc = "trial"]) /\ FrameOK([f EXCEPT !.pc = "trial"])
  <1>. DEFINE e == [f EXCEPT !.pc = "trial"]
  <1>1. Keeps(f, e) /\ e.pc = "trial" /\ e.idx = f.idx /\ f.acl # 0
    BY PcTyped, FieldNames DEF FrameOK, Candidates
  <1>2. FrameOK(e)
    <2>. HIDE DEF e
    <2>. QED
      BY <1>1 DEF Keeps, FrameOK
  <1>. QED
    BY <1>1, <1>2

LEMMA EncodedOK ==
    ASSUME NEW f \in Frame, FrameOK(f), f.fn = "compress",
           NEW s \in SomeScheme, NEW fits \in BOOLEAN
    PROVE  Keeps(f, Encoded(f, s, fits)) /\ FrameOK(Encoded(f, s, fits))
  <1>. DEFINE e == Encoded(f, s, fits)
  <1>1. Keeps(f, e) /\ e.pc = "encoded" /\ e.scheme = f.scheme
    BY EncodedTyped
  <1>2. FrameOK(e)
    <2>. HIDE DEF e
    <2>. QED
      BY <1>1, KeepsCompress DEF Candidates, FrameOK
  <1>. QED
    BY <1>1, <1>2

LEMMA SettledOK ==
    ASSUME NEW f \in Frame, FrameOK(f), f.fn = "compress", NEW pc \in {"reestimate", "leave"}
    PROVE  LET e == [Settled(f) EXCEPT !.pc = pc] IN
           Keeps(f, e) /\ FrameOK(e) /\ e.scheme = Settled(f).scheme /\ e.pc = pc
  <1>. DEFINE g == Settled(f)
              e == [g EXCEPT !.pc = pc]
  <1>1. Keeps(f, g) /\ g.scheme \in {"UNCOMPRESSED", f.scheme}
    BY SettledTyped
  <1>2. Keeps(f, e) /\ e.scheme = g.scheme /\ e.pc = pc
    <2>. HIDE DEF g
    <2>1. g \in Frame
      BY <1>1 DEF Keeps
    <2>2. Keeps(g, e) /\ e.pc = pc /\ e.scheme = g.scheme
      BY <2>1, PcTyped, FieldNames
    <2>. QED
      BY <1>1, <2>2 DEF Keeps
  <1>3. FrameOK(e)
    <2>. HIDE DEF e, g
    <2>. QED
      BY <1>1, <1>2, KeepsCompress, ZenonT(30) DEF Candidates, FrameOK
  <1>. QED
    BY <1>2, <1>3

LEMMA PickStep ==
    ASSUME IInv,
           SkipCandidate \/ RateCandidate \/ PickCandidate
             \/ RateTrial \/ TrialOfLeaf \/ PickTrial
    PROVE  ReplacesTop /\ stack # <<>> /\ Top.fn = "compress"
  <1>1. stack # <<>> /\ Top.fn = "compress"
    BY DEF SkipCandidate, RateCandidate, PickCandidate, RateTrial, TrialOfLeaf, PickTrial,
           Looping, Looped, Running
  <1>2. /\ Top \in Frame /\ FrameOK(Top) /\ Top.type \in Types /\ Top.idx \in Index
        /\ Top.scheme \in SomeScheme
    BY <1>1, TopFacts
  <1>3. override_scheme \in Overrides /\ override_scheme \in [Types -> ForceScheme]
    BY OverrideTyped
  <1>4. CASE SkipCandidate
    <2>1. Top.pc = "choose"
      BY <1>4 DEF SkipCandidate, Looping, Running
    <2>2. Keeps(Top, Advance(Top)) /\ FrameOK(Advance(Top))
      BY <1>1, <1>2, <2>1, AdvanceOK
    <2>. QED
      BY <1>1, <1>3, <1>4, <2>2 DEF SkipCandidate, ReplacesTop
  <1>5. CASE RateCandidate
    <2>1. Top.pc = "choose" /\ Candidate \in Schemes
      BY <1>2, <1>5, CandidateTyped DEF RateCandidate, Looping, Running, Candidate
    <2>2. PICK r \in Ratios(Top, Candidate) :
             \E f \in Consider(Top, Candidate, r) : stack' = SetTop(f)
      BY <1>5 DEF RateCandidate
    <2>3. PICK f \in Consider(Top, Candidate, r) : stack' = SetTop(f)
      BY <2>2
    <2>4. Keeps(Top, f) /\ FrameOK(f)
      BY <1>1, <1>2, <2>1, <2>2, <2>3, RatiosTyped, ConsiderOK
    <2>. QED
      BY <1>1, <1>3, <1>5, <2>3, <2>4 DEF RateCandidate, ReplacesTop
  <1>6. CASE PickCandidate
    <2>1. Top.pc = "choose"
      BY <1>6 DEF PickCandidate, Looped, Running
    <2>2. Top.acl # 0
      BY <1>1, <1>2, <2>1 DEF FrameOK, Candidates
    <2>3. LET e == Chosen(Top, Top.scheme, "pick") IN Keeps(Top, e) /\ FrameOK(e)
      BY <1>1, <1>2, <2>2, ChosenOK, FieldNames
    <2>. QED
      BY <1>1, <1>3, <1>6, <2>3 DEF PickCandidate, ReplacesTop
  <1>7. CASE RateTrial
    <2>1. Top.pc = "try" /\ Top.idx <= Len(Pool[Top.type])
      BY <1>7 DEF RateTrial, Looping, Running
    <2>2. Keeps(Top, Advance(Top)) /\ FrameOK(Advance(Top))
      BY <1>1, <1>2, <2>1, AdvanceOK
    <2>3. LET e == [Top EXCEPT !.pc = "trial"] IN Keeps(Top, e) /\ FrameOK(e)
      BY <1>1, <1>2, <2>1, ToTrialOK
    <2>. QED
      BY <1>1, <1>3, <1>7, <2>2, <2>3 DEF RateTrial, ReplacesTop
  <1>8. CASE TrialOfLeaf
    <2>1. Top.pc = "trial"
      BY <1>8 DEF TrialOfLeaf, Running
    <2>2. Candidate \in Schemes
      BY <1>1, <1>2, <2>1, CandidateTyped DEF FrameOK, Candidate
    <2>3. PICK f \in AfterTrial(Top, Candidate) : stack' = SetTop(f)
      BY <1>8 DEF TrialOfLeaf
    <2>4. Keeps(Top, f) /\ FrameOK(f)
      BY <1>1, <1>2, <2>1, <2>2, <2>3, AfterTrialOK
    <2>. QED
      BY <1>1, <1>3, <1>8, <2>3, <2>4 DEF TrialOfLeaf, ReplacesTop
  <1>9. CASE PickTrial
    <2>1. Top.pc = "try"
      BY <1>9 DEF PickTrial, Looped, Running
    <2>2. Top.acl # 0
      BY <1>1, <1>2, <2>1 DEF FrameOK, Candidates
    <2>3. LET e == Chosen(Top, Top.scheme, "pick") IN Keeps(Top, e) /\ FrameOK(e)
      BY <1>1, <1>2, <2>2, ChosenOK, FieldNames
    <2>. QED
      BY <1>1, <1>3, <1>9, <2>3 DEF PickTrial, ReplacesTop
  <1>. QED
    BY <1>1, <1>4, <1>5, <1>6, <1>7, <1>8, <1>9

LEMMA ResultStep ==
    ASSUME IInv, EncodeLeaf \/ KeepEstimate \/ LogRatio
    PROVE  ReplacesTop /\ stack # <<>> /\ Top.fn = "compress"
  <1>1. stack # <<>> /\ Top.fn = "compress"
    BY DEF EncodeLeaf, KeepEstimate, LogRatio, Running
  <1>2. Top \in Frame /\ FrameOK(Top) /\ Top.scheme \in SomeScheme
    BY <1>1, TopFacts
  <1>3. override_scheme \in Overrides /\ override_scheme \in [Types -> ForceScheme]
    BY OverrideTyped
  <1>4. CASE EncodeLeaf
    <2>1. PICK fits \in LeafFits(Top, Top.scheme) :
             stack' = SetTop(Encoded(Top, Top.scheme, fits))
      BY <1>4 DEF EncodeLeaf
    <2>2. fits \in BOOLEAN
      BY <2>1 DEF LeafFits
    <2>3. LET e == Encoded(Top, Top.scheme, fits) IN Keeps(Top, e) /\ FrameOK(e)
      BY <1>1, <1>2, <2>2, EncodedOK
    <2>. QED
      BY <1>1, <1>3, <1>4, <2>1, <2>3 DEF EncodeLeaf, ReplacesTop
  <1>5. CASE KeepEstimate
    <2>. DEFINE e == [Top EXCEPT !.pc = "leave"]
    <2>1. Keeps(Top, e) /\ e.pc = "leave" /\ e.scheme = Top.scheme
      BY <1>2, PcTyped, FieldNames
    <2>2. FrameOK(e)
      <3>. HIDE DEF e
      <3>. QED
        BY <1>1, <1>2, <2>1, KeepsCompress DEF Candidates, FrameOK
    <2>. QED
      BY <1>1, <1>3, <1>5, <2>1, <2>2 DEF KeepEstimate, ReplacesTop
  <1>6. CASE LogRatio
    <2>1. LET e == [Settled(Top) EXCEPT !.pc = "leave"] IN Keeps(Top, e) /\ FrameOK(e)
      BY <1>1, <1>2, SettledOK
    <2>. QED
      BY <1>1, <1>3, <1>6, <2>1 DEF LogRatio, ReplacesTop
  <1>. QED
    BY <1>1, <1>4, <1>5, <1>6

---------------------------------------------------------------------------
(* The invariant in two parts: the stack with the levels, and the rest *)

Balanced == StackOK(stack) /\ levels = LevelsOf(stack)

DataOK ==
    /\ override_scheme \in Overrides
    /\ scratch \in [{"INTEGER", "BIGINT"} -> Nat]
    /\ report \in PlanReport
    /\ lastEncode \in PlanReport

LEMMA InvParts ==
    ASSUME IInv
    PROVE  Balanced /\ DataOK
    BY DEF IInv, TypeOK, Balanced, DataOK, LevelsBalanced, LevelsOf, Idle, Top, Depth, ForceScheme

LEMMA LevelsTyped ==
    ASSUME NEW s, StackOK(s), NEW c, NEW e, <<c, e>> = LevelsOf(s)
    PROVE  c \in Nat /\ e \in Nat
  <1>1. CASE s = <<>>
    BY <1>1 DEF LevelsOf
  <1>2. CASE s # <<>>
    <2>1. s[Len(s)] \in Frame
      BY <1>2, EmptySeq DEF StackOK
    <2>2. s[Len(s)].cl \in Nat /\ s[Len(s)].el \in Nat
      BY <2>1, FrameNumbers
    <2>. QED
      BY <1>2, <2>2 DEF LevelsOf
  <1>. QED
    BY <1>1, <1>2

LEMMA PartsGiveInv ==
    ASSUME Balanced', DataOK'
    PROVE  IInv'
  <1>1. compression_level' \in Nat /\ estimation_level' \in Nat
    BY LevelsTyped DEF Balanced, levels
  <1>2. StackOK(stack)' /\ TypeOK'
    BY <1>1 DEF Balanced, DataOK, TypeOK, StackOK, ForceScheme
  <1>3. LevelsBalanced'
    BY DEF Balanced, LevelsBalanced, LevelsOf, Idle, Top, Depth, levels
  <1>. QED
    BY <1>2, <1>3 DEF IInv

LEMMA ReplacesTopPreserves ==
    ASSUME IInv, stack # <<>>, Top.fn = "compress", ReplacesTop
    PROVE  IInv'
  <1>1. PICK e : Keeps(Top, e) /\ FrameOK(e) /\ stack' = SetTop(e)
    BY DEF ReplacesTop
  <1>2. StackOK(stack') /\ LevelsOf(stack') = LevelsOf(stack)
    BY <1>1, InvParts, ReplacedOK DEF Balanced, SetTop, Top, Depth, Keeps
  <1>3. UNCHANGED <<levels, buffers>> /\ override_scheme' \in Overrides
    BY DEF ReplacesTop
  <1>4. Balanced'
    BY <1>2, <1>3, InvParts DEF Balanced
  <1>5. DataOK'
    BY <1>3, InvParts DEF DataOK, buffers
  <1>. QED
    BY <1>4, <1>5, PartsGiveInv

---------------------------------------------------------------------------
(* Steps of the caller *)

LEMMA FirstFrame ==
    ASSUME NEW e \in Frame, FrameOK(e), BottomOK(e)
    PROVE  StackOK(<<e>>) /\ LevelsOf(<<e>>) = <<e.cl, e.el>>
    BY DEF StackOK, LevelsOf, CascadeOK

LEMMA ReportsTyped ==
    ASSUME NEW t \in Types, NEW r \in PlanReport, NEW n \in Nat, NEW b \in BOOLEAN
    PROVE  /\ [NoReport EXCEPT !.width = t] \in PlanReport
           /\ [width |-> t, sections |-> n, valid |-> b] \in PlanReport
           /\ [r EXCEPT !.sections = @ + 1] \in PlanReport
           /\ [r EXCEPT !.valid = TRUE, !.sections = 0] \in PlanReport
           /\ [r EXCEPT !.valid = TRUE, !.sections = @] \in PlanReport
  <1>1. [NoReport EXCEPT !.width = t] \in PlanReport
    BY DEF NoReport, PlanReport
  <1>2. [width |-> t, sections |-> n, valid |-> b] \in PlanReport
    BY DEF PlanReport
  <1>3. [r EXCEPT !.sections = @ + 1] \in PlanReport
    BY DEF PlanReport
  <1>4. [r EXCEPT !.valid = TRUE, !.sections = 0] \in PlanReport
    BY DEF PlanReport
  <1>5. [r EXCEPT !.valid = TRUE, !.sections = @] \in PlanReport
    BY DEF PlanReport
  <1>. QED
    BY <1>1, <1>2, <1>3, <1>4, <1>5

LEMMA FirstCompress ==
    ASSUME NEW t \in NumberTypes, NEW shape \in Shapes,
           compression_level = 0, estimation_level = 0
    PROVE  LET e == CompressFrame(t, MaxCascade, AutoScheme, shape) IN
           StackOK(<<e>>) /\ LevelsOf(<<e>>) = <<1, 0>>
  <1>. DEFINE e == CompressFrame(t, MaxCascade, AutoScheme, shape)
  <1>1. MaxCascade \in U8 /\ AutoScheme \in ForceScheme
    BY ConfigAssumption, FieldNames DEF U8
  <1>2. compression_level \in Nat /\ estimation_level \in Nat
    OBVIOUS
  <1>3. /\ e \in Frame /\ FrameOK(e) /\ e.fn = "compress" /\ e.estimating = FALSE
        /\ e.cl = compression_level + 1 /\ e.el = estimation_level
    BY <1>1, <1>2, CompressFrameTyped, ZenonT(30)
  <1>. HIDE DEF e
  <1>4. e.cl = 1 /\ e.el = 0
    BY <1>3
  <1>5. BottomOK(e)
    BY <1>3, <1>4 DEF BottomOK, Raise, EstimateLevels
  <1>. QED
    BY <1>3, <1>4, <1>5, FirstFrame DEF e

LEMMA FirstScheme ==
    ASSUME NEW t \in Types, NEW s \in Schemes, NEW plan \in Streams,
           ScopeLevels(t, s) = 1, compression_level = 0, estimation_level = 0
    PROVE  LET e == SchemeFrame(t, s, MaxCascade, "varied", plan, FALSE) IN
           StackOK(<<e>>) /\ LevelsOf(<<e>>) = <<1, 0>>
  <1>. DEFINE e == SchemeFrame(t, s, MaxCascade, "varied", plan, FALSE)
  <1>1. MaxCascade \in U8 /\ MaxCascade >= 1 /\ "varied" \in Shapes /\ FALSE \in BOOLEAN
    BY ConfigAssumption DEF U8, Shapes
  <1>2. compression_level \in Nat /\ estimation_level \in Nat
    OBVIOUS
  <1>3. /\ e \in Frame /\ FrameOK(e) /\ e.fn = "scheme" /\ e.estimating = FALSE
        /\ e.type = t /\ e.scheme = s
        /\ e.cl = compression_level + ScopeLevels(t, s)
        /\ e.el = estimation_level + EstimateLevels(FALSE)
    <2>1. e \in Frame /\ FrameOK(e)
      BY <1>1, <1>2, SchemeFrameTyped
    <2>. QED
      BY <2>1 DEF SchemeFrame
  <1>. HIDE DEF e
  <1>4. e.cl = 1 /\ e.el = 0
    BY <1>3 DEF EstimateLevels
  <1>5. BottomOK(e)
    BY <1>3, <1>4 DEF BottomOK, Raise, EstimateLevels
  <1>. QED
    BY <1>3, <1>4, <1>5, FirstFrame DEF e

LEMMA ChosenStringsTyped ==
    ASSUME IInv
    PROVE  ChosenStrings \subseteq StringSchemes
  <1>1. override_scheme["STRING"] \in Enabled("STRING") \cup {AutoScheme}
    BY OverrideTyped, TypeNames DEF Overrides
  <1>2. Enabled("STRING") \subseteq StringSchemes
    BY PoolAssumption
  <1>. QED
    BY <1>1, <1>2 DEF ChosenStrings

LEMMA CallStep ==
    ASSUME IInv, Call
    PROVE  IInv'
  <1>1. stack = <<>> /\ compression_level = 0 /\ estimation_level = 0
    BY DEF Call, SetOverride, CompressColumn, CompressStringColumn, DirectEncode,
           DirectEncodeEmpty, Idle, IInv, LevelsBalanced, levels
  <1>3. CASE SetOverride
    <2>1. PICK p \in Overridable : \E s \in {p[2], AutoScheme} :
             override_scheme' = [override_scheme EXCEPT ![p[1]] = s]
      BY <1>3 DEF SetOverride
    <2>2. PICK s \in {p[2], AutoScheme} : override_scheme' = [override_scheme EXCEPT ![p[1]] = s]
      BY <2>1
    <2>5. p[1] \in Types /\ s \in Enabled(p[1]) \cup {AutoScheme}
      BY <2>2, ConfigAssumption
    <2>6. override_scheme' \in Overrides
      BY <2>2, <2>5, OverrideTyped, OverrideSet
    <2>3. DataOK'
      BY <1>3, <2>6, InvParts DEF SetOverride, DataOK, buffers
    <2>4. Balanced'
      BY <1>3, InvParts DEF SetOverride, Balanced
    <2>. QED
      BY <2>3, <2>4, PartsGiveInv
  <1>4. CASE CompressColumn
    <2>1. PICK t \in Columns \cap NumberTypes, shape \in Shapes \ {"any"} :
             stack' = <<CompressFrame(t, MaxCascade, AutoScheme, shape)>>
      BY <1>4 DEF CompressColumn
    <2>2. StackOK(stack') /\ LevelsOf(stack') = <<1, 0>>
      BY <1>1, <2>1, FirstCompress
    <2>3. levels' = <<1, 0>>
      BY <1>1, <1>4 DEF CompressColumn, levels
    <2>4. Balanced'
      BY <2>2, <2>3 DEF Balanced
    <2>5. DataOK'
      BY <1>4, InvParts DEF CompressColumn, DataOK, buffers
    <2>. QED
      BY <2>4, <2>5, PartsGiveInv
  <1>5. CASE CompressStringColumn
    <2>1. PICK s \in ChosenStrings : \E plan \in Plans("STRING", s) :
             stack' = <<SchemeFrame("STRING", s, MaxCascade, "varied", plan, FALSE)>>
      BY <1>5 DEF CompressStringColumn
    <2>9. s \in StringSchemes
      BY ChosenStringsTyped
    <2>2. PICK plan \in Plans("STRING", s) :
             stack' = <<SchemeFrame("STRING", s, MaxCascade, "varied", plan, FALSE)>>
      BY <2>1
    <2>3. s \in Schemes /\ plan \in Streams
      BY <2>2, <2>9, StringPlans
    <2>4. "STRING" \in Types /\ ScopeLevels("STRING", s) = 1
      BY TypeNames DEF ScopeLevels
    <2>5. StackOK(stack') /\ LevelsOf(stack') = <<1, 0>>
      BY <1>1, <2>2, <2>3, <2>4, FirstScheme
    <2>6. levels' = <<1, 0>>
      BY <1>1, <1>5 DEF CompressStringColumn, levels, ScopeLevels
    <2>7. Balanced'
      BY <2>5, <2>6 DEF Balanced
    <2>8. DataOK'
      <3>1. override_scheme' \in Overrides
        BY <1>5, <2>4, OverrideTyped, OverrideSet DEF CompressStringColumn
      <3>. QED
        BY <1>5, <3>1, InvParts DEF CompressStringColumn, DataOK, buffers
    <2>. QED
      BY <2>7, <2>8, PartsGiveInv
  <1>6. CASE DirectEncode
    <2>1. PICK t \in DirectEncodes :
             \E plan \in Plans(t, "SUB_INT_SPLIT") :
                /\ stack' = <<SchemeFrame(t, "SUB_INT_SPLIT", MaxCascade, "varied", plan, FALSE)>>
                /\ compression_level' = compression_level + ScopeLevels(t, "SUB_INT_SPLIT")
                /\ OpenReport(t, estimation_level)
      BY <1>6 DEF DirectEncode
    <2>2. PICK plan \in Plans(t, "SUB_INT_SPLIT") :
             stack' = <<SchemeFrame(t, "SUB_INT_SPLIT", MaxCascade, "varied", plan, FALSE)>>
      BY <2>1
    <2>3. t \in NumberTypes /\ t \in Types
      BY <2>1, ConfigAssumption, TypeNames
    <2>4. plan \in Streams /\ "SUB_INT_SPLIT" \in Schemes
      BY <2>2, <2>3, NumberPlans
    <2>5. ScopeLevels(t, "SUB_INT_SPLIT") = 1
      BY DEF ScopeLevels
    <2>6. StackOK(stack') /\ LevelsOf(stack') = <<1, 0>>
      BY <1>1, <2>2, <2>3, <2>4, <2>5, FirstScheme
    <2>7. levels' = <<1, 0>>
      BY <1>1, <1>6, <2>1, <2>5 DEF DirectEncode, levels
    <2>8. Balanced'
      BY <2>6, <2>7 DEF Balanced
    <2>9. DataOK'
      BY <1>6, <2>1, <2>3, ReportsTyped, InvParts DEF DirectEncode, OpenReport, DataOK
    <2>. QED
      BY <2>8, <2>9, PartsGiveInv
  <1>7. CASE DirectEncodeEmpty
    <2>1. DataOK'
      <3>1. PICK t \in DirectEncodes :
               /\ report' = [width |-> t, sections |-> 0, valid |-> TRUE]
               /\ lastEncode' = report'
        BY <1>7 DEF DirectEncodeEmpty
      <3>2. t \in Types
        BY ConfigAssumption, TypeNames
      <3>3. report' \in PlanReport
        BY <3>1, <3>2 DEF PlanReport
      <3>. QED
        BY <1>7, <3>1, <3>3, InvParts DEF DirectEncodeEmpty, DataOK
    <2>2. Balanced'
      BY <1>7, InvParts DEF DirectEncodeEmpty, Balanced
    <2>. QED
      BY <2>1, <2>2, PartsGiveInv
  <1>. QED
    BY <1>3, <1>4, <1>5, <1>6, <1>7 DEF Call

---------------------------------------------------------------------------
(* Steps that call a composite scheme *)

\* The activation a picker calls: a composite scheme with a level to pass on.
LEMMA CalleeTyped ==
    ASSUME IInv, stack # <<>>, Top.fn = "compress",
           NEW f, Keeps(Top, f), FrameOK(f), f.pc \in Candidates \cup Running2,
           NEW s, NEW estimating \in BOOLEAN,
           f.pc \in Candidates => f.idx <= Len(Pool[f.type]) /\ s = Pool[f.type][f.idx],
           f.pc \in Running2 => s = f.scheme,
           NEW plan \in Plans(f.type, s)
    PROVE  /\ SchemeFrame(f.type, s, f.acl, f.shape, plan, estimating) \in Frame
           /\ FrameOK(SchemeFrame(f.type, s, f.acl, f.shape, plan, estimating))
  <1>1. Top \in Frame
    BY TopFacts
  <1>2. f \in Frame /\ f.fn = "compress"
    BY <1>1 DEF Keeps
  <1>3. f.type \in NumberTypes /\ f.type \in Types /\ f.acl \in U8 /\ f.shape \in Shapes
    <2>1. f.type \in Types /\ f.type # "STRING" /\ f.acl \in U8 /\ f.shape \in Shapes
      BY <1>2 DEF Frame, FrameOK
    <2>. QED
      BY <2>1 DEF Types
  <1>5. plan \in Streams /\ s \in Schemes
    BY <1>3, NumberPlans
  <1>6. f.acl >= 1
    <2>1. s \notin {None, "UNCOMPRESSED", "ONE_VALUE"}
      BY NoSubStreams
    <2>2. f.pc \in Candidates => f.acl # 0
      BY <1>2 DEF FrameOK
    <2>3. f.acl = 0 => f.scheme # s
      BY <1>2, <2>1 DEF FrameOK
    <2>4. f.acl # 0
      BY <2>2, <2>3
    <2>5. f.acl \in Nat
      BY <1>2, FrameNumbers
    <2>. QED
      BY <2>4, <2>5
  <1>7. compression_level \in Nat /\ estimation_level \in Nat
    BY DEF IInv, TypeOK
  <1>. QED
    BY <1>3, <1>5, <1>6, <1>7, SchemeFrameTyped

LEMMA CallPreserves ==
    ASSUME IInv, stack # <<>>, Top.fn = "compress",
           NEW f, Keeps(Top, f), FrameOK(f), f.pc \in Candidates \cup Running2,
           NEW s, NEW estimating \in BOOLEAN,
           f.pc \in Candidates => f.idx <= Len(Pool[f.type]) /\ s = Pool[f.type][f.idx],
           f.pc \in Running2 => s = f.scheme,
           CallScheme(f, s, estimating)
    PROVE  IInv'
  <1>1. /\ Depth \in Nat \ {0} /\ Top \in Frame
        /\ compression_level = Top.cl /\ estimation_level = Top.el
    BY TopFacts
  <1>2. f \in Frame /\ f.fn = "compress" /\ f.cl = compression_level /\ f.el = estimation_level
    BY <1>1 DEF Keeps
  <1>3. f.type \in NumberTypes /\ f.type \in Types /\ f.acl \in U8 /\ f.shape \in Shapes
    <2>1. f.type \in Types /\ f.type # "STRING" /\ f.acl \in U8 /\ f.shape \in Shapes
      BY <1>2 DEF Frame, FrameOK
    <2>. QED
      BY <2>1 DEF Types
  <1>. DEFINE callee(plan) == SchemeFrame(f.type, s, f.acl, f.shape, plan, estimating)
  <1>4. PICK plan \in Plans(f.type, s) :
           /\ stack' = Append(SetTop(f), callee(plan))
           /\ compression_level' = compression_level + ScopeLevels(f.type, s)
           /\ estimation_level' = estimation_level + EstimateLevels(estimating)
           /\ IF s = "SUB_INT_SPLIT" THEN OpenReport(f.type, callee(plan).el)
                                     ELSE UNCHANGED report
           /\ UNCHANGED <<override_scheme, scratch, lastEncode>>
    BY DEF CallScheme
  <1>. DEFINE g == callee(plan)
  <1>8. g \in Frame /\ FrameOK(g)
    BY <1>4, CalleeTyped
  <1>9. /\ g.fn = "scheme" /\ g.type = f.type /\ g.scheme = s /\ g.acl = f.acl
        /\ g.estimating = estimating
        /\ g.cl = compression_level + ScopeLevels(f.type, s)
        /\ g.el = estimation_level + EstimateLevels(estimating)
    BY DEF SchemeFrame
  <1>10. stack' = Append(SetTop(f), g)
    BY <1>4
  <1>11. DataOK'
    BY <1>3, <1>4, InvParts, ReportsTyped DEF DataOK, OpenReport
  <1>. HIDE DEF g
  <1>12. LinkOK(f, g)
    BY <1>2, <1>9 DEF LinkOK, Raise
  <1>. DEFINE t == SetTop(f)
  <1>13. StackOK(t) /\ t # <<>> /\ t[Len(t)] = f
    BY <1>2, InvParts, ReplacedOK DEF Balanced, SetTop, Top, Depth
  <1>14. StackOK(stack') /\ LevelsOf(stack') = <<g.cl, g.el>>
    <2>. HIDE DEF t
    <2>1. StackOK(Append(t, g)) /\ LevelsOf(Append(t, g)) = <<g.cl, g.el>>
      BY <1>8, <1>12, <1>13, PushedOK
    <2>. QED
      BY <1>10, <2>1 DEF t
  <1>15. levels' = <<g.cl, g.el>>
    BY <1>4, <1>9 DEF levels
  <1>16. Balanced'
    BY <1>14, <1>15 DEF Balanced
  <1>. QED
    BY <1>11, <1>16, PartsGiveInv

LEMMA CallsPreserve ==
    ASSUME IInv,
           SampleCandidate \/ SampleTrial \/ TrialOfComposite \/ EncodeComposite
             \/ LogRatioBySample
    PROVE  IInv'
  <1>1. stack # <<>> /\ Top.fn = "compress"
    BY DEF SampleCandidate, SampleTrial, TrialOfComposite, EncodeComposite, LogRatioBySample,
           Looping, Running
  <1>2. Top \in Frame /\ FrameOK(Top) /\ Keeps(Top, Top)
    BY <1>1, TopFacts DEF Keeps
  <1>3. TRUE \in BOOLEAN /\ FALSE \in BOOLEAN
    OBVIOUS
  <1>4. CASE SampleCandidate
    <2>1. Top.pc = "choose" /\ Top.idx <= Len(Pool[Top.type]) /\ CallScheme(Top, Candidate, TRUE)
      BY <1>4 DEF SampleCandidate, Looping, Running
    <2>. QED
      BY <1>1, <1>2, <1>3, <2>1, CallPreserves DEF Candidate, Candidates, Running2
  <1>5. CASE SampleTrial
    <2>1. Top.pc = "try" /\ Top.idx <= Len(Pool[Top.type]) /\ CallScheme(Top, Candidate, TRUE)
      BY <1>5 DEF SampleTrial, Looping, Running
    <2>. QED
      BY <1>1, <1>2, <1>3, <2>1, CallPreserves DEF Candidate, Candidates, Running2
  <1>6. CASE TrialOfComposite
    <2>1. Top.pc = "trial" /\ CallScheme(Top, Candidate, FALSE)
      BY <1>6 DEF TrialOfComposite, Running
    <2>2. Top.idx <= Len(Pool[Top.type])
      BY <1>1, <1>2, <2>1 DEF FrameOK
    <2>. QED
      BY <1>1, <1>2, <1>3, <2>1, <2>2, CallPreserves DEF Candidate, Candidates, Running2
  <1>7. CASE EncodeComposite
    <2>1. Top.pc = "encode" /\ CallScheme(Top, Top.scheme, FALSE)
      BY <1>7 DEF EncodeComposite, Running
    <2>. QED
      BY <1>1, <1>2, <1>3, <2>1, CallPreserves DEF Candidates, Running2
  <1>8. CASE LogRatioBySample
    <2>. DEFINE f == [Settled(Top) EXCEPT !.pc = "reestimate"]
    <2>1. CallScheme(f, Settled(Top).scheme, TRUE)
      BY <1>8 DEF LogRatioBySample
    <2>2. Keeps(Top, f) /\ FrameOK(f) /\ f.scheme = Settled(Top).scheme /\ f.pc = "reestimate"
      BY <1>1, <1>2, SettledOK
    <2>. HIDE DEF f
    <2>. QED
      BY <1>1, <1>2, <1>3, <2>1, <2>2, CallPreserves DEF Candidates, Running2
  <1>. QED
    BY <1>4, <1>5, <1>6, <1>7, <1>8

---------------------------------------------------------------------------
(* Steps that compress a sub-stream *)

LEMMA ChildLevelTyped ==
    ASSUME NEW f \in Frame
    PROVE  /\ ChildLevel(f) \in U8
           /\ f.type # "STRING" /\ f.acl >= 1 => ChildLevel(f) < f.acl
  <1>1. FsstCascade \in U8
    BY ConfigAssumption DEF U8
  <1>2. f.acl \in 0..255
    BY DEF Frame, U8
  <1>3. \A n \in 0..255 : (n - 1) % 256 \in 0..255 /\ (n >= 1 => (n - 1) % 256 < n)
    OBVIOUS
  <1>. QED
    BY <1>1, <1>2, <1>3 DEF ChildLevel, U8

\* The picker call on the next sub-stream.
LEMMA SubStreamTyped ==
    ASSUME IInv, stack # <<>>, Top.fn = "scheme", Top.todo # <<>>, NEW shape \in Shapes
    PROVE  LET stream == Head(Top.todo)
               g == CompressFrame(stream.type, ChildLevel(Top), stream.force, shape) IN
           g \in Frame /\ FrameOK(g)
  <1>1. Top \in Frame
    BY TopFacts
  <1>. DEFINE stream == Head(Top.todo)
  <1>2. stream \in Stream
    <2>1. Top.todo \in Seq(Stream)
      BY <1>1 DEF Frame, Streams
    <2>. QED
      BY <2>1
  <1>3. stream.type \in NumberTypes /\ stream.force \in ForceScheme
    BY <1>2 DEF Stream, ForceScheme
  <1>4. compression_level \in Nat /\ estimation_level \in Nat
    BY DEF IInv, TypeOK
  <1>5. ChildLevel(Top) \in U8
    BY <1>1, ChildLevelTyped
  <1>. HIDE DEF stream
  <1>6. LET g == CompressFrame(stream.type, ChildLevel(Top), stream.force, shape) IN
        g \in Frame /\ FrameOK(g)
    BY <1>3, <1>4, <1>5, CompressFrameTyped
  <1>. QED
    BY <1>6 DEF stream

LEMMA SubStreamStep ==
    ASSUME IInv, CompressSubStream
    PROVE  IInv'
  <1>1. stack # <<>> /\ Top.fn = "scheme" /\ Top.todo # <<>>
    BY DEF CompressSubStream, Running
  <1>2. /\ Depth \in Nat \ {0} /\ Top \in Frame /\ FrameOK(Top)
        /\ compression_level = Top.cl /\ estimation_level = Top.el
    BY <1>1, TopFacts
  <1>. DEFINE stream == Head(Top.todo)
  <1>4. PICK shape \in Shapes :
           stack' = Append(stack, CompressFrame(stream.type, ChildLevel(Top), stream.force, shape))
    BY DEF CompressSubStream, Shapes
  <1>. DEFINE g == CompressFrame(stream.type, ChildLevel(Top), stream.force, shape)
  <1>5. compression_level \in Nat /\ estimation_level \in Nat
    BY DEF IInv, TypeOK
  <1>6. ChildLevel(Top) \in U8 /\ (Top.type # "STRING" => ChildLevel(Top) < Top.acl)
    BY <1>1, <1>2, ChildLevelTyped DEF FrameOK
  <1>7. g \in Frame /\ FrameOK(g)
    BY <1>1, SubStreamTyped
  <1>8. /\ g.fn = "compress" /\ g.acl = ChildLevel(Top) /\ g.estimating = FALSE
        /\ g.cl = compression_level + 1 /\ g.el = estimation_level
    BY DEF CompressFrame
  <1>9. stack' = Append(stack, g)
    BY <1>4
  <1>. HIDE DEF g
  <1>10. LinkOK(Top, g)
    <2>1. g.el = Top.el + EstimateLevels(g.estimating)
      BY <1>2, <1>5, <1>8 DEF EstimateLevels
    <2>. QED
      BY <1>1, <1>2, <1>6, <1>8, <2>1 DEF LinkOK, Raise
  <1>11. StackOK(stack') /\ LevelsOf(stack') = <<g.cl, g.el>>
    BY <1>1, <1>7, <1>9, <1>10, InvParts, PushedOK DEF Balanced, Top, Depth
  <1>12. levels' = <<g.cl, g.el>>
    BY <1>8 DEF CompressSubStream, levels
  <1>13. Balanced'
    BY <1>11, <1>12 DEF Balanced
  <1>14. DataOK'
    <2>1. scratch' \in [{"INTEGER", "BIGINT"} -> Nat]
      BY <1>2, InvParts DEF CompressSubStream, FillScratch, DataOK
    <2>. QED
      BY <2>1, InvParts DEF CompressSubStream, DataOK
  <1>. QED
    BY <1>13, <1>14, PartsGiveInv

---------------------------------------------------------------------------
(* Steps that end an activation *)

LEMMA PopReplace ==
    ASSUME NEW s, StackOK(s), s # <<>>, Len(s) > 1,
           NEW g, Keeps(s[Len(s) - 1], g), FrameOK(g),
           g.fn = "compress" \/ g.scheme = s[Len(s) - 1].scheme
    PROVE  LET t == [SubSeq(s, 1, Len(s) - 1) EXCEPT ![Len(s) - 1] = g]
               f == s[Len(s)] IN
           StackOK(t) /\ LevelsOf(t) = <<f.cl - Raise(f), f.el - EstimateLevels(f.estimating)>>
  <1>. DEFINE u == SubSeq(s, 1, Len(s) - 1)
              f == s[Len(s)]
  <1>1. /\ StackOK(u) /\ Len(u) = Len(s) - 1 /\ u # <<>> /\ u[Len(u)] = s[Len(s) - 1]
        /\ LevelsOf(u) = <<f.cl - Raise(f), f.el - EstimateLevels(f.estimating)>>
    BY PoppedOK
  <1>. HIDE DEF u
  <1>. DEFINE t == [u EXCEPT ![Len(u)] = g]
  <1>2. StackOK(t) /\ LevelsOf(t) = LevelsOf(u)
    BY <1>1, ReplacedOK
  <1>. QED
    BY <1>1, <1>2 DEF u

LEMMA PopLevels ==
    ASSUME NEW s, StackOK(s), s # <<>>, Len(s) = 1
    PROVE  LET f == s[Len(s)] IN
           /\ StackOK(<<>>)
           /\ LevelsOf(<<>>) = <<f.cl - Raise(f), f.el - EstimateLevels(f.estimating)>>
    BY PoppedOK

LEMMA CallerFacts ==
    ASSUME IInv, stack # <<>>, Depth # 1
    PROVE  /\ Depth > 1 /\ Caller \in Frame /\ FrameOK(Caller) /\ LinkOK(Caller, Top)
           /\ Caller = stack[Depth - 1]
  <1>1. Depth \in Nat \ {0} /\ StackOK(stack)
    BY TopFacts DEF IInv
  <1>2. Depth - 1 \in 1..Depth /\ Depth - 1 \in 1..(Depth - 1) /\ (Depth - 1) + 1 = Depth
    BY <1>1
  <1>. QED
    BY <1>1, <1>2 DEF StackOK, Depth, Top, Caller

LEMMA LeaveStep ==
    ASSUME IInv, LeaveColumn \/ LeaveStream
    PROVE  IInv'
  <1>1. stack # <<>> /\ Top.fn = "compress"
    BY DEF LeaveColumn, LeaveStream, Running
  <1>2. /\ Top \in Frame /\ FrameOK(Top) /\ Depth \in Nat \ {0} /\ Depth = Len(stack)
        /\ compression_level = Top.cl /\ estimation_level = Top.el /\ Top = stack[Len(stack)]
    BY <1>1, TopFacts DEF Depth, Top
  <1>3. Raise(Top) = 1 /\ EstimateLevels(Top.estimating) = 0
    BY <1>1, <1>2 DEF Raise, EstimateLevels, FrameOK
  <1>4. estimation_level - 0 = estimation_level
    BY DEF IInv, TypeOK
  <1>5. CASE LeaveColumn
    <2>1. stack' = <<>> /\ levels' = <<compression_level - 1, estimation_level>> /\ Depth = 1
      BY <1>5 DEF LeaveColumn, levels
    <2>2. StackOK(stack') /\ LevelsOf(stack') = levels'
      BY <1>1, <1>2, <1>3, <1>4, <2>1, PopLevels DEF IInv
    <2>3. DataOK'
      BY <1>5, InvParts DEF LeaveColumn, DataOK, buffers
    <2>. QED
      BY <2>2, <2>3, PartsGiveInv DEF Balanced
  <1>6. CASE LeaveStream
    <2>1. /\ stack' = [Popped EXCEPT ![Depth - 1] = Written(Caller)]
          /\ levels' = <<compression_level - 1, estimation_level>> /\ Depth > 1
      BY <1>6 DEF LeaveStream, levels
    <2>2. Caller \in Frame /\ FrameOK(Caller) /\ LinkOK(Caller, Top) /\ Caller = stack[Depth - 1]
      BY <1>1, <2>1, CallerFacts
    <2>. DEFINE g == Written(Caller)
    <2>3. Caller.todo # <<>> /\ Caller.fn = "scheme"
      BY <1>1, <2>2 DEF LinkOK
    <2>4. Keeps(Caller, g) /\ g.scheme = Caller.scheme /\ g.pc = Caller.pc
      <3>1. \A q \in Streams : q # <<>> => Tail(q) \in Streams
        BY DEF Streams
      <3>2. Caller.done + 1 \in Nat /\ Tail(Caller.todo) \in Streams
        BY <2>2, <2>3, <3>1 DEF Frame
      <3>. QED
        BY <2>2, <3>2 DEF Written, Keeps, Frame
    <2>5. FrameOK(g)
      <3>. HIDE DEF g
      <3>. QED
        BY <2>2, <2>3, <2>4 DEF FrameOK, Keeps
    <2>6. StackOK(stack') /\ LevelsOf(stack') = levels'
      <3>. HIDE DEF g
      <3>1. /\ StackOK([SubSeq(stack, 1, Len(stack) - 1) EXCEPT ![Len(stack) - 1] = g])
            /\ LevelsOf([SubSeq(stack, 1, Len(stack) - 1) EXCEPT ![Len(stack) - 1] = g])
                  = <<Top.cl - Raise(Top), Top.el - EstimateLevels(Top.estimating)>>
        BY <1>1, <1>2, <2>1, <2>2, <2>4, <2>5, PopReplace DEF IInv
      <3>. QED
        BY <1>2, <1>3, <1>4, <2>1, <3>1 DEF Popped, g
    <2>7. DataOK'
      BY <1>6, InvParts, ReportsTyped, TypeNames DEF LeaveStream, RecordSection, DataOK
    <2>. QED
      BY <2>6, <2>7, PartsGiveInv DEF Balanced
  <1>. QED
    BY <1>5, <1>6

LEMMA AnsweredOK ==
    ASSUME NEW c \in Frame, FrameOK(c), NEW f \in Frame, FrameOK(f), f.fn = "scheme",
           LinkOK(c, f), NEW fits \in BOOLEAN, NEW g \in Answered(c, f, fits)
    PROVE  Keeps(c, g) /\ FrameOK(g) /\ g.fn = "compress"
  <1>1. c.fn = "compress" /\ c.pc \in Candidates \cup Running2
    BY DEF LinkOK
  <1>2. f.scheme \in Schemes /\ f.scheme \in SomeScheme
    BY DEF Frame, FrameOK, SomeScheme
  <1>3. CASE c.pc = "choose"
    <2>1. (IF fits THEN Pays ELSE Loses) \in Ratio
      BY DEF Pays, Loses, Ratio
    <2>2. g \in Consider(c, f.scheme, IF fits THEN Pays ELSE Loses)
      BY <1>3 DEF Answered
    <2>. QED
      BY <1>1, <1>2, <1>3, <2>1, <2>2, ConsiderOK DEF Keeps
  <1>4. CASE c.pc = "try"
    <2>1. g = [c EXCEPT !.pc = "trial"] /\ c.idx <= Len(Pool[c.type])
      BY <1>4 DEF Answered, LinkOK, Candidates
    <2>. QED
      BY <1>1, <1>4, <2>1, ToTrialOK DEF Keeps
  <1>5. CASE c.pc = "trial"
    <2>1. g \in AfterTrial(c, f.scheme)
      BY <1>5 DEF Answered
    <2>. QED
      BY <1>1, <1>2, <1>5, <2>1, AfterTrialOK DEF Keeps
  <1>6. CASE c.pc = "encode"
    <2>1. g = Encoded(c, f.scheme, fits)
      BY <1>6 DEF Answered
    <2>. QED
      BY <1>1, <1>2, <2>1, EncodedOK DEF Keeps
  <1>7. CASE c.pc = "reestimate"
    <2>1. g = [c EXCEPT !.pc = "leave"]
      BY <1>7 DEF Answered
    <2>2. Keeps(c, g) /\ g.pc = "leave" /\ g.scheme = c.scheme
      BY <2>1, PcTyped, FieldNames
    <2>. QED
      BY <1>1, <2>2, KeepsCompress DEF Candidates, FrameOK, Keeps
  <1>. QED
    BY <1>1, <1>3, <1>4, <1>5, <1>6, <1>7 DEF Candidates, Running2

LEMMA ReturnPreserves ==
    ASSUME IInv, stack # <<>>, Top.fn = "scheme", NEW sections \in Nat, NEW fits \in BOOLEAN,
           ReturnFrom(Top, sections, fits)
    PROVE  IInv'
  <1>1. /\ Top \in Frame /\ FrameOK(Top) /\ Depth \in Nat \ {0} /\ Depth = Len(stack)
        /\ compression_level = Top.cl /\ estimation_level = Top.el /\ Top = stack[Len(stack)]
        /\ Top.type \in Types
    BY TopFacts DEF Depth, Top
  <1>2. levels' = <<Top.cl - Raise(Top), Top.el - EstimateLevels(Top.estimating)>>
    BY <1>1 DEF ReturnFrom, LeavesScope, EndsEstimate, Raise, levels
  <1>3. StackOK(stack') /\ LevelsOf(stack') = levels'
    <2>1. CASE Depth = 1
      <3>1. stack' = <<>>
        BY <2>1 DEF ReturnFrom
      <3>. QED
        BY <1>1, <1>2, <2>1, <3>1, PopLevels DEF IInv
    <2>2. CASE Depth # 1
      <3>1. PICK g \in Answered(Caller, Top, fits) : stack' = [Popped EXCEPT ![Depth - 1] = g]
        BY <2>2 DEF ReturnFrom
      <3>2. /\ Depth > 1 /\ Caller \in Frame /\ FrameOK(Caller) /\ LinkOK(Caller, Top)
            /\ Caller = stack[Depth - 1]
        BY <2>2, CallerFacts
      <3>3. Keeps(Caller, g) /\ FrameOK(g) /\ g.fn = "compress"
        BY <1>1, <3>1, <3>2, AnsweredOK
      <3>4. /\ StackOK([SubSeq(stack, 1, Len(stack) - 1) EXCEPT ![Len(stack) - 1] = g])
            /\ LevelsOf([SubSeq(stack, 1, Len(stack) - 1) EXCEPT ![Len(stack) - 1] = g])
                  = <<Top.cl - Raise(Top), Top.el - EstimateLevels(Top.estimating)>>
        BY <1>1, <3>2, <3>3, PopReplace DEF IInv
      <3>. QED
        BY <1>1, <1>2, <3>1, <3>4 DEF Popped
    <2>. QED
      BY <2>1, <2>2
  <1>4. DataOK'
    <2>1. report' \in PlanReport
      <3>1. CASE sections = 0
        BY <3>1, InvParts, ReportsTyped, TypeNames DEF ReturnFrom, CloseReport, DataOK
      <3>2. CASE sections # 0
        BY <3>2, InvParts, ReportsTyped, TypeNames DEF ReturnFrom, CloseReport, DataOK
      <3>. QED
        BY <3>1, <3>2
    <2>2. lastEncode' \in PlanReport
      BY <1>1, InvParts, ReportsTyped DEF ReturnFrom, NoteEncode, DataOK
    <2>. QED
      BY <2>1, <2>2, InvParts DEF ReturnFrom, DataOK
  <1>. QED
    BY <1>3, <1>4, PartsGiveInv DEF Balanced

LEMMA ReturnStep ==
    ASSUME IInv, ReturnScheme \/ ReturnRaw
    PROVE  IInv'
  <1>1. stack # <<>> /\ Top.fn = "scheme"
    BY DEF ReturnScheme, ReturnRaw, Running
  <1>2. Top.done \in Nat
    BY <1>1, TopFacts, FrameNumbers
  <1>3. CASE ReturnScheme
    <2>1. PICK fits \in BOOLEAN : ReturnFrom(Top, Top.done, fits)
      BY <1>3 DEF ReturnScheme
    <2>. QED
      BY <1>1, <1>2, <2>1, ReturnPreserves
  <1>4. CASE ReturnRaw
    <2>1. ReturnFrom(Top, 0, FALSE)
      BY <1>4 DEF ReturnRaw
    <2>. QED
      BY <1>1, <2>1, ReturnPreserves
  <1>. QED
    BY <1>3, <1>4

---------------------------------------------------------------------------
(* The theorems *)

LEMMA InitInv ==
    ASSUME Init
    PROVE  IInv
  <1>1. StackOK(<<>>)
    BY EmptySeq DEF StackOK, CascadeOK
  <1>2. NoReport \in PlanReport
    BY DEF NoReport, PlanReport
  <1>3. override_scheme \in Overrides
    <2>1. AutoScheme \in ForceScheme
      BY FieldNames
    <2>. QED
      BY <2>1 DEF Init, Overrides
  <1>. QED
    BY <1>1, <1>2, <1>3, EmptySeq DEF Init, IInv, TypeOK, LevelsBalanced, Idle, levels

LEMMA StepInv ==
    ASSUME IInv, [Next]_vars
    PROVE  IInv'
  <1>1. CASE Call
    BY <1>1, CallStep
  <1>2. CASE Step
    <2>1. CASE \/ EnterOneValue \/ EnterUncompressed \/ EnterForced \/ EnterOverridden
               \/ EnterChoose \/ EnterTryAll
      BY <2>1, EnterStep, ReplacesTopPreserves
    <2>2. CASE \/ SkipCandidate \/ RateCandidate \/ PickCandidate
               \/ RateTrial \/ TrialOfLeaf \/ PickTrial
      BY <2>2, PickStep, ReplacesTopPreserves
    <2>3. CASE EncodeLeaf \/ KeepEstimate \/ LogRatio
      BY <2>3, ResultStep, ReplacesTopPreserves
    <2>4. CASE \/ SampleCandidate \/ SampleTrial \/ TrialOfComposite \/ EncodeComposite
               \/ LogRatioBySample
      BY <2>4, CallsPreserve
    <2>5. CASE LeaveColumn \/ LeaveStream
      BY <2>5, LeaveStep
    <2>6. CASE CompressSubStream
      BY <2>6, SubStreamStep
    <2>7. CASE ReturnScheme \/ ReturnRaw
      BY <2>7, ReturnStep
    <2>. QED
      BY <1>2, <2>1, <2>2, <2>3, <2>4, <2>5, <2>6, <2>7 DEF Step
  <1>3. CASE UNCHANGED vars
    <2>1. Balanced'
      BY <1>3, InvParts DEF vars, levels, Balanced
    <2>2. DataOK'
      BY <1>3, InvParts DEF vars, buffers, DataOK
    <2>. QED
      BY <2>1, <2>2, PartsGiveInv
  <1>. QED
    BY <1>1, <1>2, <1>3 DEF Next

THEOREM Invariance == Spec => []IInv
  <1>. QED
    BY InitInv, StepInv, PTL DEF Spec

\* The variables keep their types, whatever the pool and the configuration.
THEOREM TypeCorrect == Spec => []TypeOK
  <1>1. IInv => TypeOK
    BY DEF IInv
  <1>. QED
    BY <1>1, Invariance, PTL

\* The two thread-local levels, raised and lowered by hand on every path of
\* the picker and of the schemes, are those of the running activation, and 0
\* between two columns.
THEOREM LevelsAreBalanced == Spec => []LevelsBalanced
  <1>1. IInv => LevelsBalanced
    BY DEF IInv
  <1>. QED
    BY <1>1, Invariance, PTL

\* Nested picker calls have ever fewer cascade levels left: the recursion is
\* bounded by max_cascade_depth, and allowed_cascading_level never wraps.
THEOREM CascadeIsBounded == Spec => []CascadeDecreases
  <1>1. IInv => CascadeDecreases
    BY DEF IInv, StackOK, CascadeOK, CascadeDecreases, Depth
  <1>. QED
    BY <1>1, Invariance, PTL

---------------------------------------------------------------------------
(* SUB_INT_SPLIT and the scratch buffer *)

SIS == "SUB_INT_SPLIT"

\* Neither SchemeConfig nor the override names SUB_INT_SPLIT.
NoForcedSplit ==
    /\ ForceCounts # SIS /\ ForceDoubleCounts # SIS /\ ForceCodes # SIS
    /\ \A p \in Overridable : p[2] # SIS

---------------------------------------------------------------------------
(* The invariant *)

MaySplit(f, s) == s = SIS => f.cl = 1 /\ f.type \in {"INTEGER", "BIGINT"}

SplitFrame(f) ==
    /\ f.cl >= 1
    /\ f.fn = "compress" =>
          /\ f.force # SIS
          /\ MaySplit(f, f.scheme)
          /\ f.pc = "trial" => MaySplit(f, Pool[f.type][f.idx])
    /\ f.fn = "scheme" =>
          /\ f.scheme = SIS => f.type \in {"INTEGER", "BIGINT"}
          /\ \A k \in 1..Len(f.todo) : f.todo[k].force # SIS

SplitLink(f, g) == g.fn = "scheme" => MaySplit(f, g.scheme)

SplitOK(s) ==
    /\ \A i \in 1..Len(s) : SplitFrame(s[i])
    /\ \A i \in 1..(Len(s) - 1) : SplitLink(s[i], s[i + 1])

ScratchOK(s, held) ==
    \A i \in 1..(Len(s) - 1) : s[i].fn = "scheme" /\ s[i].scheme = SIS => held[s[i].type] = i

NothingForced == \A t \in Types : override_scheme[t] # SIS

SInv == SplitOK(stack) /\ ScratchOK(stack, scratch) /\ NothingForced

---------------------------------------------------------------------------
(* What the ways of changing the stack preserve *)

LEMMA PushSplit ==
    ASSUME NEW s \in Seq(Frame), SplitOK(s), NEW e \in Frame, SplitFrame(e),
           s # <<>> => SplitLink(s[Len(s)], e)
    PROVE  SplitOK(Append(s, e))
  <1>. DEFINE n == Len(s)
              t == Append(s, e)
  <1>1. /\ n \in Nat /\ Len(t) = n + 1 /\ t[n + 1] = e
        /\ \A i \in 1..n : t[i] = s[i]
    BY PushLast
  <1>2. n > 0 => s # <<>>
    BY EmptySeq
  <1>. HIDE DEF t
  <1>3. \A i \in 1..Len(t) : SplitFrame(t[i])
    BY <1>1 DEF SplitOK
  <1>4. ASSUME NEW i \in 1..(Len(t) - 1)
        PROVE  SplitLink(t[i], t[i + 1])
    <2>1. CASE i = n
      BY <1>1, <1>2, <2>1
    <2>2. CASE i # n
      <3>1. i \in 1..(n - 1) /\ i \in 1..n /\ i + 1 \in 1..n
        BY <1>1, <2>2
      <3>. QED
        BY <1>1, <3>1 DEF SplitOK
    <2>. QED
      BY <2>1, <2>2
  <1>5. SplitOK(t)
    BY <1>3, <1>4 DEF SplitOK
  <1>. QED
    BY <1>5 DEF t

LEMMA ReplaceSplit ==
    ASSUME NEW s \in Seq(Frame), SplitOK(s), s # <<>>, NEW e \in Frame, SplitFrame(e),
           e.fn = s[Len(s)].fn, e.fn = "scheme" => e.scheme = s[Len(s)].scheme
    PROVE  SplitOK([s EXCEPT ![Len(s)] = e])
  <1>. DEFINE n == Len(s)
              t == [s EXCEPT ![Len(s)] = e]
  <1>1. /\ n \in Nat \ {0} /\ Len(t) = n /\ t[n] = e
        /\ \A i \in 1..(n - 1) : t[i] = s[i]
    BY ReplaceLast, EmptySeq
  <1>. HIDE DEF t
  <1>2. \A i \in 1..Len(t) : SplitFrame(t[i])
    BY <1>1 DEF SplitOK
  <1>3. ASSUME NEW i \in 1..(Len(t) - 1)
        PROVE  SplitLink(t[i], t[i + 1])
    <2>1. i \in 1..(n - 1) /\ t[i] = s[i] /\ SplitLink(s[i], s[i + 1])
      BY <1>1 DEF SplitOK
    <2>2. CASE i = n - 1
      <3>1. t[i + 1] = e /\ s[i + 1] = s[n]
        BY <1>1, <2>2
      <3>. QED
        BY <2>1, <3>1 DEF SplitLink
    <2>3. CASE i # n - 1
      BY <1>1, <2>1, <2>3
    <2>. QED
      BY <2>2, <2>3
  <1>4. SplitOK(t)
    BY <1>2, <1>3 DEF SplitOK
  <1>. QED
    BY <1>4 DEF t

LEMMA PopSplit ==
    ASSUME NEW s \in Seq(Frame), SplitOK(s), s # <<>>
    PROVE  SplitOK(SubSeq(s, 1, Len(s) - 1))
  <1>. DEFINE n == Len(s)
              t == SubSeq(s, 1, Len(s) - 1)
  <1>1. /\ n \in Nat \ {0} /\ Len(t) = n - 1
        /\ \A i \in 1..(n - 1) : t[i] = s[i]
    BY PopLast, EmptySeq
  <1>. HIDE DEF t
  <1>2. \A i \in 1..Len(t) : SplitFrame(t[i])
    BY <1>1 DEF SplitOK
  <1>3. ASSUME NEW i \in 1..(Len(t) - 1)
        PROVE  SplitLink(t[i], t[i + 1])
    <2>1. i \in 1..(n - 1) /\ i + 1 \in 1..(n - 1)
      BY <1>1
    <2>. QED
      BY <1>1, <2>1 DEF SplitOK
  <1>4. SplitOK(t)
    BY <1>2, <1>3 DEF SplitOK
  <1>. QED
    BY <1>4 DEF t

\* A buffer is held from below the top only: replacing or popping the top, or
\* pushing on a picker, changes nothing.
LEMMA ScratchSame ==
    ASSUME NEW s, NEW t, NEW held, ScratchOK(s, held), Len(s) \in Nat, Len(t) \in Nat,
           Len(t) <= Len(s), \A i \in 1..(Len(t) - 1) : t[i] = s[i]
    PROVE  ScratchOK(t, held)
    BY DEF ScratchOK

LEMMA ScratchPush ==
    ASSUME NEW s \in Seq(Frame), NEW e \in Frame, NEW held, ScratchOK(s, held),
           s # <<>> => s[Len(s)].fn = "compress"
    PROVE  ScratchOK(Append(s, e), held)
  <1>. DEFINE n == Len(s)
              t == Append(s, e)
  <1>1. /\ n \in Nat /\ Len(t) = n + 1 /\ \A i \in 1..n : t[i] = s[i]
    BY PushLast
  <1>2. n > 0 => s # <<>>
    BY EmptySeq
  <1>. HIDE DEF t
  <1>3. ScratchOK(t, held)
    <2>1. ASSUME NEW i \in 1..n, t[i].fn = "scheme", t[i].scheme = "SUB_INT_SPLIT"
          PROVE  held[t[i].type] = i
      <3>1. i # n
        BY <1>1, <1>2, <2>1
      <3>2. i \in 1..(n - 1)
        BY <1>1, <3>1
      <3>. QED
        BY <1>1, <2>1, <3>2 DEF ScratchOK, SIS
    <2>. QED
      BY <1>1, <2>1 DEF ScratchOK, SIS
  <1>. QED
    BY <1>3 DEF t

---------------------------------------------------------------------------
(* Plans and candidates *)

LEMMA PlansNeverForceSplit ==
    ASSUME NoForcedSplit, NEW t, NEW s, NEW plan \in Plans(t, s), NEW k \in 1..Len(plan)
    PROVE  plan[k].force # SIS
  <1>1. /\ AutoScheme # SIS
        /\ \A u : /\ SubStream(u, AutoScheme).force # SIS /\ SubStream(u, "BP").force # SIS
                  /\ SubStream(u, "RLE").force # SIS /\ SubStream(u, "ONE_VALUE").force # SIS
                  /\ MaybeEmpty(u).force # SIS
                  /\ RleValues(u).force # SIS /\ RleCounts(u).force # SIS
                  /\ SubStream(u, ForceCodes).force # SIS
    BY DEF AutoScheme, SIS, SubStream, MaybeEmpty, RleValues, RleCounts, NoForcedSplit
  <1>2. CASE s = "SUB_INT_SPLIT"
    <2>. DEFINE two == {SubStream("INTEGER", AutoScheme), SubStream("INTEGER", "ONE_VALUE")}
    <2>1. plan \in Sections
      BY <1>2 DEF Plans, SplitPlans
    <2>2. PICK n \in 1..MaxSections : plan \in [1..n -> two]
      BY <2>1 DEF Sections
    <2>3. n \in Nat
      BY <2>2, ConfigAssumption
    <2>4. plan[k] \in two
      <3>. HIDE DEF two
      <3>. QED
        BY <2>2, <2>3
    <2>. QED
      BY <1>1, <2>4
  <1>3. CASE s # "SUB_INT_SPLIT"
    BY <1>1, <1>3 DEF Plans, RlePlans, DictPlans, FrequencyPlans, ForPlans, Bp64Plans,
                      DecimalPlans, FsstPlans, StringDictPlans
  <1>. QED
    BY <1>2, <1>3

LEMMA CandidateOfType ==
    ASSUME NEW t \in Types, NEW i \in Index, i <= Len(Pool[t]), Pool[t][i] = SIS
    PROVE  t \in {"INTEGER", "BIGINT"}
  <1>1. Pool[t] \in Seq(Schemes) /\ i \in 1..Len(Pool[t])
    BY PoolAssumption DEF Index
  <1>2. SIS \in Enabled(t)
    BY <1>1 DEF Enabled
  <1>3. SIS \notin DoubleSchemes /\ SIS \notin StringSchemes
    BY DEF SIS, DoubleSchemes, StringSchemes
  <1>. QED
    BY <1>2, <1>3, PoolAssumption, TypeNames

---------------------------------------------------------------------------
(* Activations that a step replaces *)

LEMMA KeepsSplit ==
    ASSUME NEW f, SplitFrame(f), f.fn = "compress", NEW e, Keeps(f, e), e.force = f.force,
           MaySplit(f, e.scheme), e.pc # "trial"
    PROVE  SplitFrame(e)
    BY DEF SplitFrame, Keeps, MaySplit

LEMMA ForceKept ==
    ASSUME NEW f \in Frame
    PROVE  /\ \A s, how : Chosen(f, s, how).force = f.force
           /\ \A pc : [f EXCEPT !.pc = pc].force = f.force
           /\ Advance(f).force = f.force
           /\ \A s, fits : Encoded(f, s, fits).force = f.force
           /\ Settled(f).force = f.force
           /\ \A pc : [Settled(f) EXCEPT !.pc = pc].force = f.force
  <1>1. \A s, how : Chosen(f, s, how).force = f.force
    BY DEF Chosen, Frame
  <1>2. \A g \in Frame : \A pc : [g EXCEPT !.pc = pc].force = g.force
    BY DEF Frame
  <1>3. Advance(f).force = f.force
    BY DEF Advance, Frame
  <1>4. \A s, fits : Encoded(f, s, fits).force = f.force
    BY DEF Encoded, Frame
  <1>5. Settled(f).force = f.force
    <2>1. Uncompressed(f).force = f.force
      BY DEF Uncompressed, Frame
    <2>. QED
      BY <2>1 DEF Settled
  <1>6. Settled(f) \in Frame
    BY SettledTyped DEF Keeps
  <1>. QED
    BY <1>1, <1>2, <1>3, <1>4, <1>5, <1>6

LEMMA LoopForceKept ==
    ASSUME NEW f \in Frame, NEW s, NEW r
    PROVE  /\ \A e \in Consider(f, s, r) : e.force = f.force
           /\ \A e \in AfterTrial(f, s) : e.force = f.force
  <1>. DEFINE a == Advance(f)
              back == [a EXCEPT !.pc = "try"]
  <1>1. a \in Frame /\ a.force = f.force
    BY AdvanceTyped, ForceKept DEF Keeps
  <1>2. [a EXCEPT !.scheme = s, !.best = r].force = f.force
    <2>. HIDE DEF a
    <2>. QED
      BY <1>1 DEF Frame
  <1>3. back \in Frame /\ back.force = f.force
    <2>. HIDE DEF a
    <2>. QED
      BY <1>1, PcTyped, ForceKept, FieldNames DEF Keeps
  <1>4. [back EXCEPT !.scheme = s].force = f.force
    <2>. HIDE DEF back
    <2>. QED
      BY <1>3 DEF Frame
  <1>5. \A e \in Consider(f, s, r) : e.force = f.force
    BY <1>1, <1>2 DEF Consider
  <1>6. \A e \in AfterTrial(f, s) : e.force = f.force
    BY <1>3, <1>4 DEF AfterTrial
  <1>. QED
    BY <1>5, <1>6

LEMMA TopSplit ==
    ASSUME IInv, SInv, stack # <<>>
    PROVE  /\ SplitFrame(Top) /\ Top \in Frame /\ FrameOK(Top)
           /\ compression_level = Top.cl /\ Top.cl \in Nat /\ Top.cl >= 1
           /\ Top.type \in Types /\ Top.idx \in Index
  <1>1. /\ Depth \in Nat \ {0} /\ Top \in Frame /\ FrameOK(Top)
        /\ compression_level = Top.cl /\ Top.type \in Types /\ Top.idx \in Index
    BY TopFacts
  <1>2. SplitFrame(Top)
    BY <1>1 DEF SInv, SplitOK, Top, Depth
  <1>3. Top.cl \in Nat
    BY <1>1, FrameNumbers
  <1>. QED
    BY <1>1, <1>2, <1>3 DEF SplitFrame

\* Where SUB_INT_SPLIT does not decline, it may be run.
LEMMA NotDeclinedMaySplit ==
    ASSUME IInv, SInv, stack # <<>>, Top.idx <= Len(Pool[Top.type]),
           Candidate = SIS => ~SplitDeclines(Top)
    PROVE  MaySplit(Top, Candidate)
  <1>1. ASSUME Candidate = SIS
        PROVE  Top.cl = 1
    BY <1>1, TopSplit DEF SplitDeclines
  <1>2. ASSUME Candidate = SIS
        PROVE  Top.type \in {"INTEGER", "BIGINT"}
    BY <1>2, TopSplit, CandidateOfType DEF Candidate
  <1>. QED
    BY <1>1, <1>2 DEF MaySplit

\* A declined candidate is passed over.
LEMMA DeclinedRatio ==
    ASSUME NEW f, NEW r \in Ratios(f, SIS)
    PROVE  r = Declined /\ SplitDeclines(f)
    BY DEF Ratios, SplitRatios, SIS

---------------------------------------------------------------------------
(* Steps that only replace the running activation *)

ReplacesSplit ==
    /\ stack # <<>> /\ Top.fn = "compress"
    /\ \E e : Keeps(Top, e) /\ SplitFrame(e) /\ stack' = SetTop(e)
    /\ NothingForced'
    /\ UNCHANGED scratch

LEMMA ReplacedSInv ==
    ASSUME IInv, SInv, NEW e, stack # <<>>, Top.fn = "compress", Keeps(Top, e), SplitFrame(e)
    PROVE  LET t == SetTop(e) IN
           SplitOK(t) /\ ScratchOK(t, scratch) /\ t # <<>> /\ t[Len(t)] = e
             /\ t \in Seq(Frame)
  <1>. DEFINE t == SetTop(e)
  <1>1. stack \in Seq(Frame) /\ e \in Frame /\ Top = stack[Len(stack)] /\ e.fn = "compress"
    BY DEF IInv, StackOK, Keeps, Top, Depth
  <1>2. /\ t \in Seq(Frame) /\ Len(t) = Len(stack) /\ t # <<>> /\ t[Len(t)] = e
        /\ \A i \in 1..(Len(stack) - 1) : t[i] = stack[i]
    BY <1>1, ReplaceLast DEF SetTop, Depth
  <1>3. SplitOK(t)
    BY <1>1, ReplaceSplit DEF SInv, SetTop, Depth
  <1>4. ScratchOK(t, scratch)
    <2>. HIDE DEF t
    <2>1. Len(stack) \in Nat /\ Len(t) \in Nat
      BY <1>1, <1>2
    <2>. QED
      BY <1>2, <2>1, ScratchSame DEF SInv
  <1>. QED
    BY <1>2, <1>3, <1>4

LEMMA ReplacesSplitPreserves ==
    ASSUME IInv, SInv, ReplacesSplit
    PROVE  SInv'
  <1>1. PICK e : Keeps(Top, e) /\ SplitFrame(e) /\ stack' = SetTop(e)
    BY DEF ReplacesSplit
  <1>2. SplitOK(stack') /\ ScratchOK(stack', scratch)
    BY <1>1, ReplacedSInv DEF ReplacesSplit
  <1>. QED
    BY <1>2 DEF ReplacesSplit, SInv, SplitOK, ScratchOK

LEMMA EnterSplit ==
    ASSUME IInv, SInv,
           EnterOneValue \/ EnterUncompressed \/ EnterForced \/ EnterOverridden
             \/ EnterChoose \/ EnterTryAll
    PROVE  ReplacesSplit
  <1>1. stack # <<>> /\ Top.fn = "compress"
    BY DEF EnterOneValue, EnterUncompressed, EnterForced, EnterOverridden, EnterChoose,
           EnterTryAll, Selects, Running
  <1>2. Top \in Frame /\ FrameOK(Top) /\ SplitFrame(Top) /\ Top.type \in Types
    BY <1>1, TopSplit
  <1>3. NothingForced
    BY DEF SInv
  <1>4. ASSUME NEW s \in SomeScheme, NEW how \in Hows, s # SIS
        PROVE  LET e == Chosen(Top, s, how) IN Keeps(Top, e) /\ SplitFrame(e)
    <2>. DEFINE e == Chosen(Top, s, how)
    <2>1. Keeps(Top, e) /\ e.pc = "encode" /\ e.scheme = s /\ e.force = Top.force
      BY <1>2, ChosenTyped, ForceKept
    <2>2. SplitFrame(e)
      <3>. HIDE DEF e
      <3>. QED
        BY <1>1, <1>2, <1>4, <2>1, KeepsSplit DEF MaySplit
    <2>. QED
      BY <2>1, <2>2
  <1>5. ASSUME NEW pc \in {"choose", "try"}
        PROVE  LET e == [Top EXCEPT !.pc = pc] IN Keeps(Top, e) /\ SplitFrame(e)
    <2>. DEFINE e == [Top EXCEPT !.pc = pc]
    <2>1. Keeps(Top, e) /\ e.pc = pc /\ e.scheme = Top.scheme /\ e.force = Top.force
      BY <1>2, PcTyped, ForceKept, FieldNames
    <2>2. SplitFrame(e)
      <3>. HIDE DEF e
      <3>1. MaySplit(Top, e.scheme)
        BY <1>1, <1>2, <2>1 DEF SplitFrame
      <3>. QED
        BY <1>1, <1>2, <2>1, <3>1, KeepsSplit
    <2>. QED
      BY <2>1, <2>2
  <1>6. \A s \in ForceScheme : s # AutoScheme => s \in SomeScheme
    BY DEF ForceScheme, SomeScheme
  <1>7. CASE EnterOneValue
    <2>1. "ONE_VALUE" \in SomeScheme /\ "ONE_VALUE" # SIS /\ "rule" \in Hows
      BY SchemeNames, FieldNames DEF SIS
    <2>. QED
      BY <1>1, <1>3, <1>4, <1>7, <2>1 DEF EnterOneValue, ReplacesSplit, NothingForced, buffers
  <1>8. CASE EnterUncompressed
    <2>1. "UNCOMPRESSED" \in SomeScheme /\ "UNCOMPRESSED" # SIS /\ "rule" \in Hows
      BY SchemeNames, FieldNames DEF SIS
    <2>. QED
      BY <1>1, <1>3, <1>4, <1>8, <2>1 DEF EnterUncompressed, ReplacesSplit, NothingForced, buffers
  <1>9. CASE EnterForced
    <2>1. Top.force \in SomeScheme /\ Top.force # SIS /\ "force" \in Hows
      <3>1. Top.force \in ForceScheme
        BY <1>2 DEF Frame
      <3>. QED
        BY <1>1, <1>2, <1>6, <1>9, <3>1, FieldNames DEF EnterForced, SplitFrame
    <2>. QED
      BY <1>1, <1>3, <1>4, <1>9, <2>1 DEF EnterForced, ReplacesSplit, NothingForced, buffers
  <1>10. CASE EnterOverridden
    <2>. DEFINE s == override_scheme[Top.type]
    <2>1. s \in SomeScheme /\ s # SIS /\ "override" \in Hows
      <3>1. s \in ForceScheme
        BY <1>2, OverrideTyped
      <3>. QED
        BY <1>2, <1>3, <1>6, <1>10, <3>1, FieldNames DEF EnterOverridden, NothingForced
    <2>2. NothingForced'
      <3>1. override_scheme' = [override_scheme EXCEPT ![Top.type] = AutoScheme]
        BY <1>10 DEF EnterOverridden
      <3>2. AutoScheme # SIS
        BY DEF AutoScheme, SIS
      <3>. QED
        BY <1>2, <1>3, <3>1, <3>2, OverrideTyped DEF NothingForced
    <2>. QED
      BY <1>1, <1>4, <1>10, <2>1, <2>2 DEF EnterOverridden, ReplacesSplit, buffers
  <1>11. CASE EnterChoose
    BY <1>1, <1>3, <1>5, <1>11 DEF EnterChoose, ReplacesSplit, NothingForced, buffers
  <1>12. CASE EnterTryAll
    BY <1>1, <1>3, <1>5, <1>12 DEF EnterTryAll, ReplacesSplit, NothingForced, buffers
  <1>. QED
    BY <1>7, <1>8, <1>9, <1>10, <1>11, <1>12

\* A rated candidate becomes the preferred scheme only if it may be run here.
LEMMA RatedSplit ==
    ASSUME IInv, SInv, stack # <<>>, Top.fn = "compress", Top.pc = "choose",
           Top.idx <= Len(Pool[Top.type]),
           NEW r \in Ratios(Top, Candidate), NEW e \in Consider(Top, Candidate, r)
    PROVE  Keeps(Top, e) /\ SplitFrame(e)
  <1>1. Top \in Frame /\ SplitFrame(Top) /\ Candidate \in Schemes /\ r \in Ratio
    BY TopSplit, CandidateTyped, RatiosTyped DEF Candidate
  <1>2. Keeps(Top, e) /\ e.pc = "choose" /\ e.scheme \in {Candidate, Top.scheme}
          /\ e.force = Top.force
    BY <1>1, ConsiderTyped, LoopForceKept
  <1>3. MaySplit(Top, e.scheme)
    <2>1. CASE Candidate = SIS
      <3>1. r = Declined
        BY <2>1, DeclinedRatio
      <3>2. Top.best \in Ratio
        BY <1>1 DEF Frame
      <3>3. ~Improves(Top, Candidate, r)
        BY <3>1, <3>2 DEF Improves, Declined, Ratio
      <3>4. e = Advance(Top)
        BY <3>3 DEF Consider
      <3>5. e.scheme = Top.scheme
        BY <1>1, <3>4, AdvanceTyped
      <3>. QED
        BY <1>1, <3>5 DEF SplitFrame
    <2>2. CASE Candidate # SIS
      BY <1>1, <1>2, <2>2 DEF SplitFrame, MaySplit
    <2>. QED
      BY <2>1, <2>2
  <1>. QED
    BY <1>1, <1>2, <1>3, KeepsSplit

\* The same under TRY_ALL, where a candidate is run if its ratio is above 0.
LEMMA TrialSplit ==
    ASSUME IInv, SInv, stack # <<>>, Top.fn = "compress", Top.pc = "try",
           Top.idx <= Len(Pool[Top.type]), NEW r \in Ratios(Top, Candidate), r # Declined
    PROVE  LET e == [Top EXCEPT !.pc = "trial"] IN Keeps(Top, e) /\ SplitFrame(e)
  <1>. DEFINE e == [Top EXCEPT !.pc = "trial"]
  <1>1. Top \in Frame /\ SplitFrame(Top)
    BY TopSplit
  <1>2. Keeps(Top, e) /\ e.idx = Top.idx /\ e.scheme = Top.scheme /\ e.force = Top.force
    BY <1>1, PcTyped, ForceKept, FieldNames
  <1>3. Candidate # SIS
    BY DeclinedRatio
  <1>. HIDE DEF e
  <1>4. Pool[e.type][e.idx] # SIS
    BY <1>2, <1>3 DEF Keeps, Candidate
  <1>5. SplitFrame(e)
    BY <1>1, <1>2, <1>4 DEF SplitFrame, MaySplit, Keeps
  <1>. QED
    BY <1>2, <1>5 DEF e

LEMMA PickSplit ==
    ASSUME IInv, SInv,
           SkipCandidate \/ RateCandidate \/ PickCandidate
             \/ RateTrial \/ TrialOfLeaf \/ PickTrial
    PROVE  ReplacesSplit
  <1>1. stack # <<>> /\ Top.fn = "compress"
    BY DEF SkipCandidate, RateCandidate, PickCandidate, RateTrial, TrialOfLeaf, PickTrial,
           Looping, Looped, Running
  <1>2. /\ Top \in Frame /\ FrameOK(Top) /\ SplitFrame(Top) /\ Top.type \in Types
        /\ Top.idx \in Index /\ Top.scheme \in SomeScheme /\ MaySplit(Top, Top.scheme)
    BY <1>1, TopSplit, TopFacts DEF SplitFrame
  <1>3. NothingForced
    BY DEF SInv
  <1>4. Top.pc \in {"choose", "try"} =>
           LET e == Advance(Top) IN Keeps(Top, e) /\ SplitFrame(e)
    <2>. DEFINE e == Advance(Top)
    <2>1. Keeps(Top, e) /\ e.pc = Top.pc /\ e.scheme = Top.scheme /\ e.force = Top.force
      BY <1>2, AdvanceTyped, ForceKept
    <2>. HIDE DEF e
    <2>2. Top.pc \in {"choose", "try"} => SplitFrame(e)
      BY <1>1, <1>2, <2>1, KeepsSplit
    <2>. QED
      BY <2>1, <2>2 DEF e
  <1>5. LET e == Chosen(Top, Top.scheme, "pick") IN Keeps(Top, e) /\ SplitFrame(e)
    <2>. DEFINE e == Chosen(Top, Top.scheme, "pick")
    <2>1. Keeps(Top, e) /\ e.pc = "encode" /\ e.scheme = Top.scheme /\ e.force = Top.force
      BY <1>2, ChosenTyped, ForceKept, FieldNames
    <2>. HIDE DEF e
    <2>2. SplitFrame(e)
      BY <1>1, <1>2, <2>1, KeepsSplit
    <2>. QED
      BY <2>1, <2>2 DEF e
  <1>6. CASE SkipCandidate
    BY <1>1, <1>3, <1>4, <1>6
       DEF SkipCandidate, Looping, Running, ReplacesSplit, NothingForced, buffers
  <1>7. CASE RateCandidate
    <2>1. Top.pc = "choose" /\ Top.idx <= Len(Pool[Top.type])
      BY <1>7 DEF RateCandidate, Looping, Running
    <2>2. PICK r \in Ratios(Top, Candidate) :
             \E f \in Consider(Top, Candidate, r) : stack' = SetTop(f)
      BY <1>7 DEF RateCandidate
    <2>3. PICK f \in Consider(Top, Candidate, r) : stack' = SetTop(f)
      BY <2>2
    <2>4. Keeps(Top, f) /\ SplitFrame(f)
      BY <1>1, <2>1, <2>2, <2>3, RatedSplit
    <2>. QED
      BY <1>1, <1>3, <1>7, <2>3, <2>4 DEF RateCandidate, ReplacesSplit, NothingForced, buffers
  <1>8. CASE PickCandidate
    BY <1>1, <1>3, <1>5, <1>8 DEF PickCandidate, ReplacesSplit, NothingForced, buffers
  <1>9. CASE RateTrial
    <2>1. Top.pc = "try" /\ Top.idx <= Len(Pool[Top.type])
      BY <1>9 DEF RateTrial, Looping, Running
    <2>2. PICK r \in Ratios(Top, Candidate) :
             stack' = SetTop(IF r = Declined THEN Advance(Top) ELSE [Top EXCEPT !.pc = "trial"])
      BY <1>9 DEF RateTrial
    <2>3. CASE r = Declined
      BY <1>1, <1>3, <1>4, <1>9, <2>1, <2>2, <2>3
         DEF RateTrial, ReplacesSplit, NothingForced, buffers
    <2>4. CASE r # Declined
      <3>1. LET e == [Top EXCEPT !.pc = "trial"] IN Keeps(Top, e) /\ SplitFrame(e)
        BY <1>1, <2>1, <2>2, <2>4, TrialSplit
      <3>. QED
        BY <1>1, <1>3, <1>9, <2>2, <2>4, <3>1
           DEF RateTrial, ReplacesSplit, NothingForced, buffers
    <2>. QED
      BY <2>3, <2>4
  <1>10. CASE TrialOfLeaf
    <2>1. Top.pc = "trial"
      BY <1>10 DEF TrialOfLeaf, Running
    <2>2. Candidate \in Schemes /\ MaySplit(Top, Candidate)
      BY <1>1, <1>2, <2>1, CandidateTyped DEF FrameOK, SplitFrame, Candidate
    <2>3. PICK f \in AfterTrial(Top, Candidate) : stack' = SetTop(f)
      BY <1>10 DEF TrialOfLeaf
    <2>4. Keeps(Top, f) /\ f.pc = "try" /\ f.scheme \in {Candidate, Top.scheme}
            /\ f.force = Top.force
      BY <1>2, <2>2, <2>3, AfterTrialTyped, LoopForceKept
    <2>5. SplitFrame(f)
      BY <1>1, <1>2, <2>2, <2>4, KeepsSplit
    <2>. QED
      BY <1>1, <1>3, <1>10, <2>3, <2>4, <2>5 DEF TrialOfLeaf, ReplacesSplit, NothingForced, buffers
  <1>11. CASE PickTrial
    BY <1>1, <1>3, <1>5, <1>11 DEF PickTrial, ReplacesSplit, NothingForced, buffers
  <1>. QED
    BY <1>6, <1>7, <1>8, <1>9, <1>10, <1>11

LEMMA SettledSplit ==
    ASSUME NEW f \in Frame, FrameOK(f), SplitFrame(f), f.fn = "compress",
           NEW pc \in {"reestimate", "leave"}
    PROVE  LET e == [Settled(f) EXCEPT !.pc = pc] IN Keeps(f, e) /\ SplitFrame(e)
  <1>. DEFINE e == [Settled(f) EXCEPT !.pc = pc]
  <1>1. Keeps(f, e) /\ e.scheme = Settled(f).scheme /\ e.pc = pc
    BY SettledOK
  <1>2. e.force = f.force
    BY ForceKept
  <1>3. Settled(f).scheme \in {"UNCOMPRESSED", f.scheme}
    BY SettledTyped
  <1>. HIDE DEF e
  <1>4. MaySplit(f, e.scheme)
    BY <1>1, <1>3 DEF SplitFrame, MaySplit, SIS
  <1>5. SplitFrame(e)
    BY <1>1, <1>2, <1>4, KeepsSplit
  <1>. QED
    BY <1>1, <1>5 DEF e

LEMMA ResultSplit ==
    ASSUME IInv, SInv, EncodeLeaf \/ KeepEstimate \/ LogRatio
    PROVE  ReplacesSplit
  <1>1. stack # <<>> /\ Top.fn = "compress"
    BY DEF EncodeLeaf, KeepEstimate, LogRatio, Running
  <1>2. /\ Top \in Frame /\ FrameOK(Top) /\ SplitFrame(Top) /\ Top.scheme \in SomeScheme
        /\ MaySplit(Top, Top.scheme)
    BY <1>1, TopSplit, TopFacts DEF SplitFrame
  <1>3. NothingForced
    BY DEF SInv
  <1>4. CASE EncodeLeaf
    <2>1. PICK fits \in LeafFits(Top, Top.scheme) :
             stack' = SetTop(Encoded(Top, Top.scheme, fits))
      BY <1>4 DEF EncodeLeaf
    <2>2. fits \in BOOLEAN
      BY <2>1 DEF LeafFits
    <2>. DEFINE e == Encoded(Top, Top.scheme, fits)
    <2>3. Keeps(Top, e) /\ e.pc = "encoded" /\ e.scheme = Top.scheme /\ e.force = Top.force
      BY <1>2, <2>2, EncodedTyped, ForceKept
    <2>4. SplitFrame(e)
      <3>. HIDE DEF e
      <3>. QED
        BY <1>1, <1>2, <2>3, KeepsSplit
    <2>. QED
      BY <1>1, <1>3, <1>4, <2>1, <2>3, <2>4 DEF EncodeLeaf, ReplacesSplit, NothingForced, buffers
  <1>5. CASE KeepEstimate
    <2>. DEFINE e == [Top EXCEPT !.pc = "leave"]
    <2>1. Keeps(Top, e) /\ e.pc = "leave" /\ e.scheme = Top.scheme /\ e.force = Top.force
      BY <1>2, PcTyped, ForceKept, FieldNames
    <2>2. SplitFrame(e)
      <3>. HIDE DEF e
      <3>. QED
        BY <1>1, <1>2, <2>1, KeepsSplit
    <2>. QED
      BY <1>1, <1>3, <1>5, <2>1, <2>2 DEF KeepEstimate, ReplacesSplit, NothingForced, buffers
  <1>6. CASE LogRatio
    <2>1. LET e == [Settled(Top) EXCEPT !.pc = "leave"] IN Keeps(Top, e) /\ SplitFrame(e)
      BY <1>1, <1>2, SettledSplit
    <2>. QED
      BY <1>1, <1>3, <1>6, <2>1 DEF LogRatio, ReplacesSplit, NothingForced, buffers
  <1>. QED
    BY <1>4, <1>5, <1>6

---------------------------------------------------------------------------
(* Steps that call a composite scheme *)

LEMMA CallSplit ==
    ASSUME NoForcedSplit, IInv, SInv, stack # <<>>, Top.fn = "compress",
           NEW f, Keeps(Top, f), FrameOK(f), SplitFrame(f), f.pc \in Candidates \cup Running2,
           NEW s, NEW estimating \in BOOLEAN,
           f.pc \in Candidates => f.idx <= Len(Pool[f.type]) /\ s = Pool[f.type][f.idx],
           f.pc \in Running2 => s = f.scheme,
           MaySplit(f, s), CallScheme(f, s, estimating)
    PROVE  SInv'
  <1>1. compression_level = Top.cl /\ Top.cl \in Nat /\ Top.cl >= 1
    BY TopSplit
  <1>. DEFINE callee(plan) == SchemeFrame(f.type, s, f.acl, f.shape, plan, estimating)
  <1>2. PICK plan \in Plans(f.type, s) :
           /\ stack' = Append(SetTop(f), callee(plan))
           /\ UNCHANGED <<override_scheme, scratch, lastEncode>>
    BY DEF CallScheme
  <1>. DEFINE g == callee(plan)
              t == SetTop(f)
  <1>3. g \in Frame
    BY <1>2, CalleeTyped
  <1>4. /\ g.fn = "scheme" /\ g.type = f.type /\ g.scheme = s /\ g.todo = plan
        /\ g.cl = compression_level + ScopeLevels(f.type, s)
    BY DEF SchemeFrame
  <1>5. \A k \in 1..Len(plan) : plan[k].force # SIS
    BY <1>2, PlansNeverForceSplit
  <1>6. ScopeLevels(f.type, s) \in Nat
    BY DEF ScopeLevels
  <1>7. stack' = Append(t, g)
    BY <1>2
  <1>. HIDE DEF g
  <1>8. SplitFrame(g)
    <2>1. g.cl >= 1
      BY <1>1, <1>4, <1>6
    <2>2. g.scheme = SIS => g.type \in {"INTEGER", "BIGINT"}
      BY <1>4 DEF MaySplit
    <2>. QED
      BY <1>4, <1>5, <2>1, <2>2 DEF SplitFrame
  <1>9. SplitOK(t) /\ ScratchOK(t, scratch) /\ t # <<>> /\ t[Len(t)] = f /\ t \in Seq(Frame)
    BY ReplacedSInv
  <1>10. f.fn = "compress"
    BY DEF Keeps
  <1>11. SplitLink(f, g)
    BY <1>4 DEF SplitLink
  <1>. HIDE DEF t
  <1>12. SplitOK(stack') /\ ScratchOK(stack', scratch)
    BY <1>3, <1>7, <1>8, <1>9, <1>10, <1>11, PushSplit, ScratchPush
  <1>. QED
    BY <1>2, <1>12 DEF SInv, NothingForced, SplitOK, ScratchOK

LEMMA CallsSplit ==
    ASSUME NoForcedSplit, IInv, SInv,
           SampleCandidate \/ SampleTrial \/ TrialOfComposite \/ EncodeComposite
             \/ LogRatioBySample
    PROVE  SInv'
  <1>1. stack # <<>> /\ Top.fn = "compress"
    BY DEF SampleCandidate, SampleTrial, TrialOfComposite, EncodeComposite, LogRatioBySample,
           Looping, Running
  <1>2. Top \in Frame /\ FrameOK(Top) /\ SplitFrame(Top) /\ Keeps(Top, Top)
    BY <1>1, TopSplit DEF Keeps
  <1>3. TRUE \in BOOLEAN /\ FALSE \in BOOLEAN
    OBVIOUS
  <1>4. CASE SampleCandidate
    <2>1. Top.pc = "choose" /\ Top.idx <= Len(Pool[Top.type]) /\ CallScheme(Top, Candidate, TRUE)
          /\ MaySample(Top, Candidate)
      BY <1>4 DEF SampleCandidate, Looping, Running
    <2>2. MaySplit(Top, Candidate)
      BY <1>1, <2>1, NotDeclinedMaySplit DEF MaySample, SIS
    <2>. QED
      BY <1>1, <1>2, <1>3, <2>1, <2>2, CallSplit DEF Candidate, Candidates, Running2
  <1>5. CASE SampleTrial
    <2>1. Top.pc = "try" /\ Top.idx <= Len(Pool[Top.type]) /\ CallScheme(Top, Candidate, TRUE)
          /\ MaySample(Top, Candidate)
      BY <1>5 DEF SampleTrial, Looping, Running
    <2>2. MaySplit(Top, Candidate)
      BY <1>1, <2>1, NotDeclinedMaySplit DEF MaySample, SIS
    <2>. QED
      BY <1>1, <1>2, <1>3, <2>1, <2>2, CallSplit DEF Candidate, Candidates, Running2
  <1>6. CASE TrialOfComposite
    <2>1. Top.pc = "trial" /\ CallScheme(Top, Candidate, FALSE)
      BY <1>6 DEF TrialOfComposite, Running
    <2>2. Top.idx <= Len(Pool[Top.type]) /\ MaySplit(Top, Candidate)
      BY <1>1, <1>2, <2>1 DEF FrameOK, SplitFrame, Candidate
    <2>. QED
      BY <1>1, <1>2, <1>3, <2>1, <2>2, CallSplit DEF Candidate, Candidates, Running2
  <1>7. CASE EncodeComposite
    <2>1. Top.pc = "encode" /\ CallScheme(Top, Top.scheme, FALSE) /\ MaySplit(Top, Top.scheme)
      BY <1>1, <1>2, <1>7 DEF EncodeComposite, Running, SplitFrame
    <2>. QED
      BY <1>1, <1>2, <1>3, <2>1, CallSplit DEF Candidates, Running2
  <1>8. CASE LogRatioBySample
    <2>. DEFINE f == [Settled(Top) EXCEPT !.pc = "reestimate"]
    <2>1. CallScheme(f, Settled(Top).scheme, TRUE)
      BY <1>8 DEF LogRatioBySample
    <2>2. Keeps(Top, f) /\ FrameOK(f) /\ f.scheme = Settled(Top).scheme /\ f.pc = "reestimate"
      BY <1>1, <1>2, SettledOK
    <2>3. SplitFrame(f)
      BY <1>1, <1>2, SettledSplit
    <2>. HIDE DEF f
    <2>4. MaySplit(f, Settled(Top).scheme)
      BY <1>1, <2>2, <2>3 DEF SplitFrame, Keeps
    <2>. QED
      BY <1>1, <1>2, <1>3, <2>1, <2>2, <2>3, <2>4, CallSplit DEF Candidates, Running2
  <1>. QED
    BY <1>4, <1>5, <1>6, <1>7, <1>8

---------------------------------------------------------------------------
(* What the invariant means for encode() *)

\* Below an encode() there is a picker at level 1 and nothing else.
LEMMA OneEncode ==
    ASSUME IInv, SInv
    PROVE  SectionsNeverSplit
  <1>1. Depth \in Nat /\ stack \in Seq(Frame) /\ Depth = Len(stack)
    BY DEF IInv, StackOK, Depth
  <1>2. ASSUME NEW j \in 1..Depth, Splitting(j)
        PROVE  j <= 2
    <2>1. SUFFICES ASSUME j > 2 PROVE FALSE
      BY <1>1
    <2>2. j - 1 \in 1..(Depth - 1) /\ j - 2 \in 1..(Depth - 1) /\ (j - 1) + 1 = j
            /\ (j - 2) + 1 = j - 1 /\ j - 1 \in 1..Depth /\ j - 2 \in 1..Depth
      BY <1>1, <2>1
    <2>3. LinkOK(stack[j - 2], stack[j - 1]) /\ LinkOK(stack[j - 1], stack[j])
      BY <1>1, <2>2 DEF IInv, StackOK
    <2>4. SplitLink(stack[j - 1], stack[j]) /\ SplitFrame(stack[j - 2])
      BY <1>1, <2>2 DEF SInv, SplitOK
    <2>5. stack[j - 1].fn = "compress" /\ stack[j - 1].cl = 1
      BY <1>2, <2>3, <2>4 DEF Splitting, LinkOK, SplitLink, MaySplit, SIS
    <2>6. stack[j - 2] \in Frame
      BY <1>1, <2>2
    <2>7. stack[j - 2].cl \in Nat
      BY <2>6, FrameNumbers
    <2>. QED
      BY <2>3, <2>4, <2>5, <2>7 DEF LinkOK, Raise, SplitFrame
  <1>3. ASSUME NEW i \in 1..Depth, NEW j \in 1..Depth, i < j, Splitting(i), Splitting(j)
        PROVE  FALSE
    <2>1. j = 2 /\ i = 1
      BY <1>1, <1>2, <1>3
    <2>2. 1 \in 1..(Depth - 1)
      BY <1>1, <2>1
    <2>3. LinkOK(stack[1], stack[1 + 1])
      BY <1>1, <2>2 DEF IInv, StackOK
    <2>. QED
      BY <1>3, <2>1, <2>3 DEF Splitting, LinkOK
  <1>. QED
    BY <1>1, <1>3 DEF SectionsNeverSplit

LEMMA BuffersIntact ==
    ASSUME IInv, SInv
    PROVE  SectionScratchIntact
  <1>1. Depth \in Nat /\ Depth = Len(stack)
    BY DEF IInv, StackOK, Depth
  <1>. QED
    BY <1>1 DEF SInv, ScratchOK, SectionScratchIntact, Splitting, SIS

---------------------------------------------------------------------------
(* Steps that compress a sub-stream *)

LEMMA SubStreamSplit ==
    ASSUME IInv, SInv, CompressSubStream
    PROVE  SInv'
  <1>1. stack # <<>> /\ Top.fn = "scheme" /\ Top.todo # <<>>
    BY DEF CompressSubStream, Running
  <1>2. /\ Depth \in Nat \ {0} /\ Depth = Len(stack) /\ Top = stack[Depth]
        /\ stack \in Seq(Frame)
    BY <1>1, TopFacts DEF Depth, Top, IInv, StackOK
  <1>3. /\ Top \in Frame /\ SplitFrame(Top)
        /\ compression_level = Top.cl /\ Top.cl \in Nat /\ Top.cl >= 1
    BY <1>1, TopSplit
  <1>4. PICK shape \in Shapes :
           stack' = Append(stack, CompressFrame(Head(Top.todo).type, ChildLevel(Top),
                                                Head(Top.todo).force, shape))
    BY DEF CompressSubStream, Shapes
  <1>. DEFINE g == CompressFrame(Head(Top.todo).type, ChildLevel(Top), Head(Top.todo).force, shape)
  <1>5. g \in Frame
    BY <1>1, <1>4, SubStreamTyped
  <1>6. /\ g.fn = "compress" /\ g.pc = "enter" /\ g.scheme = None
        /\ g.force = Head(Top.todo).force /\ g.cl = compression_level + 1
    BY DEF CompressFrame
  <1>7. Head(Top.todo).force # SIS
    <2>1. Top.todo \in Seq(Stream)
      BY <1>3 DEF Frame, Streams
    <2>2. 1 \in 1..Len(Top.todo) /\ Head(Top.todo) = Top.todo[1]
      BY <1>1, <2>1
    <2>. QED
      BY <1>1, <1>3, <2>2 DEF SplitFrame
  <1>8. stack' = Append(stack, g)
    BY <1>4
  <1>. HIDE DEF g
  <1>9. SplitFrame(g)
    <2>1. g.cl >= 1
      BY <1>3, <1>6
    <2>. QED
      BY <1>6, <1>7, <2>1 DEF SplitFrame, MaySplit, None, SIS
  <1>10. SplitLink(Top, g)
    BY <1>6 DEF SplitLink
  <1>11. SplitOK(stack')
    BY <1>1, <1>2, <1>5, <1>8, <1>9, <1>10, PushSplit DEF SInv
  <1>12. ScratchOK(stack', scratch')
    <2>1. /\ Len(stack') = Depth + 1 /\ \A i \in 1..Depth : stack'[i] = stack[i]
      BY <1>2, <1>5, <1>8, PushLast
    <2>2. scratch' = IF Top.scheme = SIS THEN [scratch EXCEPT ![Top.type] = Depth] ELSE scratch
      BY DEF CompressSubStream, FillScratch, SIS
    <2>3. ASSUME NEW i \in 1..Depth, stack[i].fn = "scheme", stack[i].scheme = SIS
          PROVE  scratch'[stack[i].type] = i
      <3>1. CASE i = Depth
        <4>1. Top.scheme = SIS /\ Top.type \in {"INTEGER", "BIGINT"}
          BY <1>1, <1>2, <1>3, <2>3, <3>1 DEF SplitFrame
        <4>. QED
          BY <1>2, <2>2, <3>1, <4>1, InvParts DEF DataOK
      <3>2. CASE i # Depth
        <4>1. i \in 1..(Depth - 1)
          BY <1>2, <3>2
        <4>2. Top.scheme # SIS
          <5>1. Depth \in 1..Depth
            BY <1>2
          <5>. QED
            BY <1>1, <1>2, <2>3, <3>2, <5>1, OneEncode DEF SectionsNeverSplit, Splitting, SIS
        <4>3. scratch[stack[i].type] = i
          BY <1>2, <2>3, <4>1 DEF SInv, ScratchOK, SIS
        <4>. QED
          BY <2>2, <4>2, <4>3
      <3>. QED
        BY <3>1, <3>2
    <2>. QED
      BY <1>2, <2>1, <2>3 DEF ScratchOK, SIS
  <1>13. NothingForced'
    BY DEF CompressSubStream, SInv, NothingForced
  <1>. QED
    BY <1>11, <1>12, <1>13 DEF SInv, SplitOK, ScratchOK

---------------------------------------------------------------------------
(* Steps that end an activation *)

LEMMA EmptySplit == \A held : SplitOK(<<>>) /\ ScratchOK(<<>>, held)
    BY EmptySeq DEF SplitOK, ScratchOK

LEMMA PopReplaceSplit ==
    ASSUME IInv, SInv, Depth > 1, NEW g \in Frame, SplitFrame(g), g.fn = Caller.fn,
           g.fn = "scheme" => g.scheme = Caller.scheme
    PROVE  LET t == [Popped EXCEPT ![Depth - 1] = g] IN
           SplitOK(t) /\ ScratchOK(t, scratch)
  <1>. DEFINE u == SubSeq(stack, 1, Len(stack) - 1)
              n == Len(stack)
  <1>1. stack \in Seq(Frame) /\ Depth = n /\ n \in Nat /\ n > 1 /\ stack # <<>>
    BY EmptySeq DEF IInv, StackOK, Depth
  <1>2. u \in Seq(Frame) /\ Len(u) = n - 1 /\ u # <<>> /\ \A i \in 1..(n - 1) : u[i] = stack[i]
    <2>1. /\ u \in Seq(Frame) /\ Len(u) = Len(stack) - 1 /\ (u = <<>> <=> Len(stack) = 1)
          /\ \A i \in 1..(Len(stack) - 1) : u[i] = stack[i]
      BY <1>1, PopLast
    <2>. HIDE DEF u
    <2>. QED
      BY <1>1, <2>1
  <1>3. SplitOK(u)
    BY <1>1, PopSplit DEF SInv
  <1>. HIDE DEF u, n
  <1>4. u[Len(u)] = Caller
    BY <1>1, <1>2 DEF Caller
  <1>. DEFINE t == [u EXCEPT ![Len(u)] = g]
  <1>5. SplitOK(t)
    BY <1>2, <1>3, <1>4, ReplaceSplit
  <1>6. t \in Seq(Frame) /\ Len(t) = Len(u) /\ \A i \in 1..(Len(u) - 1) : t[i] = u[i]
    BY <1>2, ReplaceLast
  <1>. HIDE DEF t
  <1>7. Len(t) = n - 1 /\ \A i \in 1..(n - 2) : t[i] = stack[i]
    BY <1>1, <1>2, <1>6
  <1>8. ScratchOK(t, scratch)
    <2>1. Len(stack) = n /\ Len(t) - 1 = n - 2 /\ Len(t) <= Len(stack) /\ Len(t) \in Nat
      BY <1>1, <1>7 DEF n
    <2>. QED
      BY <1>1, <1>7, <2>1, ScratchSame DEF SInv
  <1>9. t = [Popped EXCEPT ![Depth - 1] = g]
    BY <1>1, <1>2 DEF t, u, n, Popped, Depth
  <1>. QED
    BY <1>5, <1>8, <1>9

LEMMA LeaveSplit ==
    ASSUME IInv, SInv, LeaveColumn \/ LeaveStream
    PROVE  SInv'
  <1>1. stack # <<>> /\ Top.fn = "compress"
    BY DEF LeaveColumn, LeaveStream, Running
  <1>2. CASE LeaveColumn
    BY <1>2, EmptySplit DEF LeaveColumn, SInv, NothingForced, buffers, SplitOK, ScratchOK
  <1>3. CASE LeaveStream
    <2>1. stack' = [Popped EXCEPT ![Depth - 1] = Written(Caller)] /\ Depth > 1
      BY <1>3 DEF LeaveStream
    <2>2. Caller \in Frame /\ LinkOK(Caller, Top) /\ Caller = stack[Depth - 1]
      BY <1>1, <2>1, CallerFacts
    <2>3. SplitFrame(Caller)
      <3>1. Depth \in Nat /\ Depth - 1 \in 1..Len(stack)
        BY <1>1, <2>1, TopFacts DEF Depth
      <3>. QED
        BY <2>2, <3>1 DEF SInv, SplitOK
    <2>. DEFINE g == Written(Caller)
    <2>4. Caller.fn = "scheme" /\ Caller.todo # <<>> /\ Caller.todo \in Seq(Stream)
      BY <1>1, <2>2 DEF LinkOK, Frame, Streams
    <2>5. /\ g \in Frame /\ g.fn = "scheme" /\ g.scheme = Caller.scheme /\ g.type = Caller.type
          /\ g.cl = Caller.cl /\ g.todo = Tail(Caller.todo)
      <3>1. Tail(Caller.todo) \in Streams
        BY <2>4 DEF Streams
      <3>2. Caller.done + 1 \in Nat
        BY <2>2, FrameNumbers
      <3>. QED
        BY <2>2, <2>4, <3>1, <3>2 DEF Written, Frame
    <2>. HIDE DEF g
    <2>6. \A k \in 1..Len(g.todo) : g.todo[k].force # SIS
      <3>1. /\ Len(g.todo) = Len(Caller.todo) - 1 /\ Len(Caller.todo) \in Nat
            /\ \A k \in 1..Len(g.todo) : g.todo[k] = Caller.todo[k + 1]
        BY <2>4, <2>5
      <3>. QED
        BY <2>3, <2>4, <3>1 DEF SplitFrame
    <2>7. SplitFrame(g)
      BY <2>3, <2>4, <2>5, <2>6 DEF SplitFrame
    <2>8. SplitOK(stack') /\ ScratchOK(stack', scratch)
      BY <2>1, <2>4, <2>5, <2>7, PopReplaceSplit DEF g
    <2>. QED
      BY <1>3, <2>8 DEF LeaveStream, SInv, NothingForced, SplitOK, ScratchOK
  <1>. QED
    BY <1>2, <1>3

LEMMA AnsweredSplit ==
    ASSUME NEW c \in Frame, FrameOK(c), SplitFrame(c), NEW f \in Frame, FrameOK(f),
           f.fn = "scheme", LinkOK(c, f), SplitLink(c, f),
           NEW fits \in BOOLEAN, NEW g \in Answered(c, f, fits)
    PROVE  SplitFrame(g)
  <1>1. c.fn = "compress" /\ c.pc \in Candidates \cup Running2
    BY DEF LinkOK
  <1>2. f.scheme \in Schemes /\ f.scheme \in SomeScheme
    BY DEF Frame, FrameOK, SomeScheme
  <1>3. MaySplit(c, f.scheme) /\ MaySplit(c, c.scheme)
    BY <1>1 DEF SplitLink, SplitFrame
  <1>4. Keeps(c, g)
    BY AnsweredOK
  <1>5. CASE c.pc = "choose"
    <2>1. g \in Consider(c, f.scheme, IF fits THEN Pays ELSE Loses)
      BY <1>5 DEF Answered
    <2>2. (IF fits THEN Pays ELSE Loses) \in Ratio
      BY DEF Pays, Loses, Ratio
    <2>3. g.pc = "choose" /\ g.scheme \in {f.scheme, c.scheme} /\ g.force = c.force
      BY <1>2, <1>5, <2>1, <2>2, ConsiderTyped, LoopForceKept
    <2>. QED
      BY <1>1, <1>3, <1>4, <2>3, KeepsSplit
  <1>6. CASE c.pc = "try"
    <2>1. g = [c EXCEPT !.pc = "trial"] /\ f.scheme = Pool[c.type][c.idx]
      BY <1>6 DEF Answered, LinkOK, Candidates
    <2>2. g.idx = c.idx /\ g.scheme = c.scheme /\ g.force = c.force
      BY <2>1, PcTyped, ForceKept, FieldNames
    <2>3. MaySplit(c, Pool[c.type][c.idx])
      BY <1>3, <2>1
    <2>. QED
      BY <1>1, <1>3, <1>4, <2>2, <2>3 DEF SplitFrame, MaySplit, Keeps
  <1>7. CASE c.pc = "trial"
    <2>1. g \in AfterTrial(c, f.scheme)
      BY <1>7 DEF Answered
    <2>2. g.pc = "try" /\ g.scheme \in {f.scheme, c.scheme} /\ g.force = c.force
      BY <1>2, <2>1, AfterTrialTyped, LoopForceKept
    <2>. QED
      BY <1>1, <1>3, <1>4, <2>2, KeepsSplit
  <1>8. CASE c.pc = "encode"
    <2>1. g = Encoded(c, f.scheme, fits)
      BY <1>8 DEF Answered
    <2>2. g.pc = "encoded" /\ g.scheme = c.scheme /\ g.force = c.force
      BY <1>2, <2>1, EncodedTyped, ForceKept
    <2>. QED
      BY <1>1, <1>3, <1>4, <2>2, KeepsSplit
  <1>9. CASE c.pc = "reestimate"
    <2>1. g = [c EXCEPT !.pc = "leave"]
      BY <1>9 DEF Answered
    <2>2. g.pc = "leave" /\ g.scheme = c.scheme /\ g.force = c.force
      BY <2>1, PcTyped, ForceKept, FieldNames
    <2>. QED
      BY <1>1, <1>3, <1>4, <2>2, KeepsSplit
  <1>. QED
    BY <1>1, <1>5, <1>6, <1>7, <1>8, <1>9 DEF Candidates, Running2

LEMMA ReturnSplit ==
    ASSUME IInv, SInv, ReturnScheme \/ ReturnRaw
    PROVE  SInv'
  <1>1. stack # <<>> /\ Top.fn = "scheme"
    BY DEF ReturnScheme, ReturnRaw, Running
  <1>2. PICK sections \in Nat : \E fits \in BOOLEAN : ReturnFrom(Top, sections, fits)
    <2>1. Top.done \in Nat
      BY <1>1, TopFacts, FrameNumbers
    <2>. QED
      BY <2>1 DEF ReturnScheme, ReturnRaw
  <1>2a. PICK fits \in BOOLEAN : ReturnFrom(Top, sections, fits)
    BY <1>2
  <1>3. Top \in Frame /\ FrameOK(Top) /\ Depth \in Nat \ {0}
    BY <1>1, TopFacts
  <1>4. SplitOK(stack') /\ ScratchOK(stack', scratch)
    <2>1. CASE Depth = 1
      BY <1>2a, <2>1, EmptySplit DEF ReturnFrom
    <2>2. CASE Depth # 1
      <3>1. PICK g \in Answered(Caller, Top, fits) : stack' = [Popped EXCEPT ![Depth - 1] = g]
        BY <1>2a, <2>2 DEF ReturnFrom
      <3>2. /\ Depth > 1 /\ Caller \in Frame /\ FrameOK(Caller) /\ LinkOK(Caller, Top)
            /\ Caller = stack[Depth - 1]
        BY <1>1, <2>2, CallerFacts
      <3>3. SplitFrame(Caller) /\ SplitLink(Caller, Top)
        <4>1. /\ Depth = Len(stack) /\ Depth - 1 \in 1..(Len(stack) - 1)
              /\ Depth - 1 \in 1..Len(stack) /\ (Depth - 1) + 1 = Depth
          BY <1>3, <3>2 DEF Depth
        <4>. QED
          BY <3>2, <4>1 DEF SInv, SplitOK, Top
      <3>4. Keeps(Caller, g) /\ g.fn = "compress"
        BY <1>1, <1>3, <3>1, <3>2, AnsweredOK
      <3>5. SplitFrame(g)
        BY <1>1, <1>3, <3>1, <3>2, <3>3, AnsweredSplit
      <3>. QED
        BY <3>1, <3>2, <3>4, <3>5, PopReplaceSplit DEF Keeps
    <2>. QED
      BY <2>1, <2>2
  <1>. QED
    BY <1>2a, <1>4 DEF ReturnFrom, SInv, NothingForced, SplitOK, ScratchOK

---------------------------------------------------------------------------
(* Steps of the caller *)

LEMMA FirstSplit ==
    ASSUME NEW e, SplitFrame(e)
    PROVE  \A held : SplitOK(<<e>>) /\ ScratchOK(<<e>>, held)
    BY DEF SplitOK, ScratchOK

LEMMA CallerSplit ==
    ASSUME NoForcedSplit, IInv, SInv, Call
    PROVE  SInv'
  <1>1. compression_level = 0
    BY DEF Call, SetOverride, CompressColumn, CompressStringColumn, DirectEncode,
           DirectEncodeEmpty, Idle, IInv, LevelsBalanced, levels
  <1>2. ASSUME NEW s, NEW t \in Types, ScopeLevels(t, s) = 1, NEW plan \in Plans(t, s),
               s = SIS => t \in {"INTEGER", "BIGINT"}
        PROVE  SplitFrame(SchemeFrame(t, s, MaxCascade, "varied", plan, FALSE))
    <2>. DEFINE e == SchemeFrame(t, s, MaxCascade, "varied", plan, FALSE)
    <2>1. /\ e.fn = "scheme" /\ e.type = t /\ e.scheme = s /\ e.todo = plan
          /\ e.cl = compression_level + ScopeLevels(t, s)
      BY DEF SchemeFrame
    <2>2. \A k \in 1..Len(plan) : plan[k].force # SIS
      BY PlansNeverForceSplit
    <2>. HIDE DEF e
    <2>3. e.cl >= 1
      BY <1>1, <1>2, <2>1
    <2>4. SplitFrame(e)
      BY <1>2, <2>1, <2>2, <2>3 DEF SplitFrame
    <2>. QED
      BY <2>4 DEF e
  <1>3. NothingForced
    BY DEF SInv
  <1>4. CASE SetOverride
    <2>1. PICK p \in Overridable : \E s \in {p[2], AutoScheme} :
             override_scheme' = [override_scheme EXCEPT ![p[1]] = s]
      BY <1>4 DEF SetOverride
    <2>3. AutoScheme # SIS /\ p[2] # SIS
      BY DEF NoForcedSplit, AutoScheme, SIS
    <2>2. NothingForced'
      BY <1>3, <2>1, <2>3, OverrideTyped DEF NothingForced
    <2>. QED
      BY <1>4, <2>2 DEF SetOverride, SInv, buffers, SplitOK, ScratchOK
  <1>5. CASE CompressColumn
    <2>1. PICK t \in Columns \cap NumberTypes, shape \in Shapes \ {"any"} :
             stack' = <<CompressFrame(t, MaxCascade, AutoScheme, shape)>>
      BY <1>5 DEF CompressColumn
    <2>. DEFINE e == CompressFrame(t, MaxCascade, AutoScheme, shape)
    <2>2. /\ e.fn = "compress" /\ e.pc = "enter" /\ e.scheme = None /\ e.force = AutoScheme
          /\ e.cl = compression_level + 1
      BY DEF CompressFrame
    <2>. HIDE DEF e
    <2>3. SplitFrame(e)
      BY <1>1, <2>2 DEF SplitFrame, MaySplit, None, AutoScheme, SIS
    <2>. QED
      BY <1>5, <2>1, <2>3, FirstSplit
         DEF CompressColumn, SInv, NothingForced, buffers, SplitOK, ScratchOK, e
  <1>6. CASE CompressStringColumn
    <2>1. PICK s \in ChosenStrings : \E plan \in Plans("STRING", s) :
             stack' = <<SchemeFrame("STRING", s, MaxCascade, "varied", plan, FALSE)>>
      BY <1>6 DEF CompressStringColumn
    <2>2. PICK plan \in Plans("STRING", s) :
             stack' = <<SchemeFrame("STRING", s, MaxCascade, "varied", plan, FALSE)>>
      BY <2>1
    <2>3. s # SIS /\ "STRING" \in Types /\ ScopeLevels("STRING", s) = 1
      BY <2>1, ChosenStringsTyped, TypeNames DEF StringSchemes, SIS, ScopeLevels
    <2>4. SplitFrame(SchemeFrame("STRING", s, MaxCascade, "varied", plan, FALSE))
      BY <1>2, <2>3
    <2>5. SplitOK(stack') /\ ScratchOK(stack', scratch)
      BY <2>2, <2>4, FirstSplit
    <2>6. NothingForced'
      <3>1. AutoScheme # SIS
        BY DEF AutoScheme, SIS
      <3>. QED
        BY <1>3, <1>6, <3>1, OverrideTyped DEF CompressStringColumn, NothingForced
    <2>7. scratch' = scratch
      BY <1>6 DEF CompressStringColumn, buffers
    <2>. QED
      BY <2>5, <2>6, <2>7 DEF SInv, SplitOK, ScratchOK
  <1>7. CASE DirectEncode
    <2>1. PICK t \in DirectEncodes : \E plan \in Plans(t, SIS) :
             stack' = <<SchemeFrame(t, SIS, MaxCascade, "varied", plan, FALSE)>>
      BY <1>7 DEF DirectEncode, SIS
    <2>2. PICK plan \in Plans(t, SIS) :
             stack' = <<SchemeFrame(t, SIS, MaxCascade, "varied", plan, FALSE)>>
      BY <2>1
    <2>3. t \in {"INTEGER", "BIGINT"} /\ t \in Types /\ ScopeLevels(t, SIS) = 1
      BY ConfigAssumption, TypeNames DEF ScopeLevels, SIS
    <2>4. SplitFrame(SchemeFrame(t, SIS, MaxCascade, "varied", plan, FALSE))
      BY <1>2, <2>3
    <2>5. SplitOK(stack') /\ ScratchOK(stack', scratch)
      BY <2>2, <2>4, FirstSplit
    <2>. QED
      BY <1>7, <2>5
         DEF DirectEncode, SInv, NothingForced, SplitOK, ScratchOK
  <1>8. CASE DirectEncodeEmpty
    BY <1>8 DEF DirectEncodeEmpty, SInv, NothingForced, SplitOK, ScratchOK
  <1>. QED
    BY <1>4, <1>5, <1>6, <1>7, <1>8 DEF Call

---------------------------------------------------------------------------
(* The theorems *)

LEMMA InitSplit ==
    ASSUME Init
    PROVE  SInv
  <1>1. NothingForced
    BY DEF Init, NothingForced, AutoScheme, SIS
  <1>. QED
    BY <1>1, EmptySplit DEF Init, SInv

LEMMA StepSplit ==
    ASSUME NoForcedSplit, IInv, SInv, [Next]_vars
    PROVE  SInv'
  <1>1. CASE Call
    BY <1>1, CallerSplit
  <1>2. CASE Step
    <2>1. CASE \/ EnterOneValue \/ EnterUncompressed \/ EnterForced \/ EnterOverridden
               \/ EnterChoose \/ EnterTryAll
      BY <2>1, EnterSplit, ReplacesSplitPreserves
    <2>2. CASE \/ SkipCandidate \/ RateCandidate \/ PickCandidate
               \/ RateTrial \/ TrialOfLeaf \/ PickTrial
      BY <2>2, PickSplit, ReplacesSplitPreserves
    <2>3. CASE EncodeLeaf \/ KeepEstimate \/ LogRatio
      BY <2>3, ResultSplit, ReplacesSplitPreserves
    <2>4. CASE \/ SampleCandidate \/ SampleTrial \/ TrialOfComposite \/ EncodeComposite
               \/ LogRatioBySample
      BY <2>4, CallsSplit
    <2>5. CASE LeaveColumn \/ LeaveStream
      BY <2>5, LeaveSplit
    <2>6. CASE CompressSubStream
      BY <2>6, SubStreamSplit
    <2>7. CASE ReturnScheme \/ ReturnRaw
      BY <2>7, ReturnSplit
    <2>. QED
      BY <1>2, <2>1, <2>2, <2>3, <2>4, <2>5, <2>6, <2>7 DEF Step
  <1>3. CASE UNCHANGED vars
    BY <1>3 DEF vars, buffers, SInv, NothingForced, SplitOK, ScratchOK
  <1>. QED
    BY <1>1, <1>2, <1>3 DEF Next

\* SplitOK and ScratchOK hold in every state unless SUB_INT_SPLIT is forced.
THEOREM SplitInvariance == NoForcedSplit /\ Spec => [](IInv /\ SInv)
  <1>1. NoForcedSplit /\ Init => IInv /\ SInv
    BY InitInv, InitSplit
  <1>2. NoForcedSplit /\ (IInv /\ SInv) /\ [Next]_vars => (IInv /\ SInv)'
    BY StepInv, StepSplit
  <1>3. NoForcedSplit => []NoForcedSplit
    <2>1. NoForcedSplit => NoForcedSplit'
      BY DEF NoForcedSplit
    <2>. QED
      BY <2>1, PTL
  <1>. QED
    BY <1>1, <1>2, <1>3, PTL DEF Spec

\* "Sections must never themselves be compressed with SubIntSplit": no encode()
\* is entered while another runs, for any pool, depth and number of sections,
\* as long as neither an override nor the configuration forces the scheme.
THEOREM SectionsAreNeverSplit == NoForcedSplit /\ Spec => []SectionsNeverSplit
  <1>. QED
    BY SplitInvariance, OneEncode, PTL

\* Under the same condition no other encode() writes into the shared scratch
\* buffer from which the picker is compressing a section.
THEOREM ScratchIsIntact == NoForcedSplit /\ Spec => []SectionScratchIntact
  <1>. QED
    BY SplitInvariance, BuffersIntact, PTL

---------------------------------------------------------------------------
(* The invariant of one activation *)

\* The candidate loop has passed UNCOMPRESSED.
PassedUncompressed(f) ==
    \E j \in 1..Len(Pool[f.type]) : j < f.idx /\ Pool[f.type][j] = "UNCOMPRESSED"

\* UNCOMPRESSED always pays, so the loop has a scheme from then on; the code
\* is set with the scheme, and the bytes are written by the scheme it names.
ResultFrame(f) ==
    /\ f.fn = "compress" =>
          /\ f.pc = "enter" => f.idx = 1
          /\ f.pc = "choose" /\ PassedUncompressed(f) => f.best = Pays
          /\ f.pc \in {"try", "trial"} /\ PassedUncompressed(f) => f.scheme # None
          /\ f.pc = "encode" => f.code = f.scheme
          /\ f.pc \in {"encoded", "reestimate", "leave"} => f.code = f.bytes
          /\ f.pc \in {"reestimate", "leave"} /\ f.el = 0 => f.fits
    /\ f.fn = "scheme" => f.scheme # "UNCOMPRESSED"

ResultsOK(s) == \A i \in 1..Len(s) : ResultFrame(s[i])

RInv == ResultsOK(stack)

---------------------------------------------------------------------------
(* What the ways of changing the stack preserve *)

LEMMA PushResult ==
    ASSUME NEW s \in Seq(Frame), ResultsOK(s), NEW e \in Frame, ResultFrame(e)
    PROVE  ResultsOK(Append(s, e))
  <1>. DEFINE n == Len(s)
              t == Append(s, e)
  <1>1. n \in Nat /\ Len(t) = n + 1 /\ t[n + 1] = e /\ \A i \in 1..n : t[i] = s[i]
    BY PushLast
  <1>. HIDE DEF t
  <1>2. ResultsOK(t)
    BY <1>1 DEF ResultsOK
  <1>. QED
    BY <1>2 DEF t

LEMMA ReplaceResult ==
    ASSUME NEW s \in Seq(Frame), ResultsOK(s), s # <<>>, NEW e \in Frame, ResultFrame(e)
    PROVE  ResultsOK([s EXCEPT ![Len(s)] = e])
  <1>. DEFINE n == Len(s)
              t == [s EXCEPT ![Len(s)] = e]
  <1>1. n \in Nat \ {0} /\ Len(t) = n /\ t[n] = e /\ \A i \in 1..(n - 1) : t[i] = s[i]
    BY ReplaceLast, EmptySeq
  <1>. HIDE DEF t
  <1>2. ResultsOK(t)
    BY <1>1 DEF ResultsOK
  <1>. QED
    BY <1>2 DEF t

LEMMA PopResult ==
    ASSUME NEW s \in Seq(Frame), ResultsOK(s), s # <<>>
    PROVE  ResultsOK(SubSeq(s, 1, Len(s) - 1))
  <1>. DEFINE n == Len(s)
              t == SubSeq(s, 1, Len(s) - 1)
  <1>1. n \in Nat \ {0} /\ Len(t) = n - 1 /\ \A i \in 1..(n - 1) : t[i] = s[i]
    BY PopLast, EmptySeq
  <1>. HIDE DEF t
  <1>2. ResultsOK(t)
    BY <1>1 DEF ResultsOK
  <1>. QED
    BY <1>2 DEF t

\* The activation that ends is popped and its caller updated.
LEMMA PopReplaceResult ==
    ASSUME IInv, RInv, Depth > 1, NEW g \in Frame, ResultFrame(g)
    PROVE  ResultsOK([Popped EXCEPT ![Depth - 1] = g])
  <1>. DEFINE u == SubSeq(stack, 1, Len(stack) - 1)
              n == Len(stack)
  <1>1. stack \in Seq(Frame) /\ Depth = n /\ n \in Nat /\ n > 1 /\ stack # <<>>
    BY EmptySeq DEF IInv, StackOK, Depth
  <1>2. u \in Seq(Frame) /\ Len(u) = n - 1 /\ u # <<>>
    <2>1. u \in Seq(Frame) /\ Len(u) = Len(stack) - 1 /\ (u = <<>> <=> Len(stack) = 1)
      BY <1>1, PopLast
    <2>. HIDE DEF u
    <2>. QED
      BY <1>1, <2>1
  <1>3. ResultsOK(u)
    BY <1>1, PopResult DEF RInv
  <1>. HIDE DEF u, n
  <1>4. ResultsOK([u EXCEPT ![Len(u)] = g])
    BY <1>2, <1>3, ReplaceResult
  <1>. QED
    BY <1>1, <1>2, <1>4 DEF u, n, Popped, Depth

LEMMA TopResult ==
    ASSUME IInv, RInv, stack # <<>>
    PROVE  ResultFrame(Top)
  <1>1. Depth \in Nat \ {0}
    BY TopFacts
  <1>. QED
    BY <1>1 DEF RInv, ResultsOK, Top, Depth

---------------------------------------------------------------------------
(* Activations that a step replaces *)

\* The fields that matter here, of each way to update an activation.
LEMMA ChosenFields ==
    ASSUME NEW f \in Frame, NEW s \in SomeScheme, NEW how \in Hows
    PROVE  LET e == Chosen(f, s, how) IN e.pc = "encode" /\ e.code = s /\ e.scheme = s
    BY DEF Chosen, Frame

LEMMA PcFields ==
    ASSUME NEW f \in Frame, NEW pc
    PROVE  LET e == [f EXCEPT !.pc = pc] IN
           /\ e.pc = pc /\ e.idx = f.idx /\ e.best = f.best /\ e.scheme = f.scheme
           /\ e.code = f.code /\ e.bytes = f.bytes /\ e.fits = f.fits /\ e.el = f.el
           /\ e.type = f.type /\ e.fn = f.fn
    BY DEF Frame

LEMMA AdvanceFields ==
    ASSUME NEW f \in Frame
    PROVE  LET e == Advance(f) IN
           /\ e.pc = f.pc /\ e.idx = f.idx + 1 /\ e.best = f.best /\ e.scheme = f.scheme
           /\ e.type = f.type /\ e.fn = f.fn
    BY DEF Advance, Frame

LEMMA ConsiderFields ==
    ASSUME NEW f \in Frame, NEW s \in Schemes, NEW r \in Ratio, NEW e \in Consider(f, s, r)
    PROVE  /\ e.pc = f.pc /\ e.idx = f.idx + 1 /\ e.type = f.type /\ e.fn = f.fn
           /\ \/ Improves(f, s, r) /\ e.best = r
              \/ MayStay(f, r) /\ e.best = f.best
  <1>. DEFINE a == Advance(f)
  <1>1. a \in Frame /\ a.pc = f.pc /\ a.idx = f.idx + 1 /\ a.best = f.best
          /\ a.type = f.type /\ a.fn = f.fn
    BY AdvanceFields, AdvanceTyped DEF Keeps
  <1>2. LET b == [a EXCEPT !.scheme = s, !.best = r] IN
        b.pc = a.pc /\ b.idx = a.idx /\ b.best = r /\ b.type = a.type /\ b.fn = a.fn
    <2>. HIDE DEF a
    <2>. QED
      BY <1>1 DEF Frame
  <1>3. CASE e = a /\ MayStay(f, r)
    BY <1>1, <1>3
  <1>4. CASE e = [a EXCEPT !.scheme = s, !.best = r] /\ Improves(f, s, r)
    BY <1>1, <1>2, <1>4
  <1>. QED
    BY <1>3, <1>4 DEF Consider

LEMMA AfterTrialFields ==
    ASSUME NEW f \in Frame, NEW s \in Schemes, NEW e \in AfterTrial(f, s)
    PROVE  e.pc = "try" /\ e.scheme # None
  <1>1. e.pc = "try" /\ e.scheme \in {s, f.scheme}
    BY AfterTrialTyped
  <1>. DEFINE back == [Advance(f) EXCEPT !.pc = "try"]
  <1>2. back \in Frame /\ back.scheme = f.scheme
    BY AdvanceTyped, PcTyped, FieldNames DEF Keeps
  <1>3. [back EXCEPT !.scheme = s].scheme = s
    <2>. HIDE DEF back
    <2>. QED
      BY <1>2 DEF Frame
  <1>4. s # None
    BY SchemeNames
  <1>. QED
    BY <1>1, <1>2, <1>3, <1>4 DEF AfterTrial

LEMMA EncodedFields ==
    ASSUME NEW f \in Frame, NEW s, NEW fits
    PROVE  LET e == Encoded(f, s, fits) IN e.pc = "encoded" /\ e.bytes = s /\ e.code = f.code
    BY DEF Encoded, Frame

LEMMA SettledFields ==
    ASSUME NEW f \in Frame, f.code = f.bytes
    PROVE  LET e == Settled(f) IN e.code = e.bytes /\ (OnHotPath => e.fits) /\ e.el = f.el
  <1>1. LET e == Uncompressed(f) IN e.code = e.bytes /\ e.fits /\ e.el = f.el
    BY DEF Uncompressed, Frame
  <1>2. f.fits \in BOOLEAN
    BY DEF Frame
  <1>. QED
    BY <1>1, <1>2 DEF Settled, FallsBack
---------------------------------------------------------------------------
(* The candidate loop *)

LEMMA PassesOne ==
    ASSUME NEW f \in Frame, NEW e, e.type = f.type, e.idx = f.idx + 1, PassedUncompressed(e)
    PROVE  \/ PassedUncompressed(f)
           \/ f.idx <= Len(Pool[f.type]) /\ Pool[f.type][f.idx] = "UNCOMPRESSED"
  <1>1. PICK j \in 1..Len(Pool[f.type]) : j < f.idx + 1 /\ Pool[f.type][j] = "UNCOMPRESSED"
    BY DEF PassedUncompressed
  <1>2. f.idx \in Nat /\ j \in Nat /\ j <= Len(Pool[f.type])
    BY <1>1, FrameNumbers DEF Index
  <1>3. CASE j = f.idx
    BY <1>1, <1>2, <1>3
  <1>4. CASE j # f.idx
    <2>1. j < f.idx
      BY <1>1, <1>2, <1>4
    <2>. QED
      BY <1>1, <2>1 DEF PassedUncompressed
  <1>. QED
    BY <1>3, <1>4

LEMMA ChooseOn ==
    ASSUME NEW f \in Frame, ResultFrame(f), f.fn = "compress", f.pc = "choose",
           NEW e, e.fn = "compress", e.pc = "choose", e.type = f.type, e.idx = f.idx + 1,
           f.best = Pays => e.best = Pays,
           Pool[f.type][f.idx] = "UNCOMPRESSED" => e.best = Pays
    PROVE  ResultFrame(e)
  <1>1. PassedUncompressed(e) => e.best = Pays
    BY PassesOne DEF ResultFrame
  <1>. QED
    BY <1>1 DEF ResultFrame

LEMMA TryOn ==
    ASSUME NEW f \in Frame, ResultFrame(f), f.fn = "compress", f.pc = "try",
           Pool[f.type][f.idx] # "UNCOMPRESSED"
    PROVE  ResultFrame(Advance(f))
  <1>. DEFINE e == Advance(f)
  <1>1. /\ e.fn = "compress" /\ e.pc = "try" /\ e.type = f.type /\ e.idx = f.idx + 1
        /\ e.scheme = f.scheme
    BY AdvanceFields
  <1>. HIDE DEF e
  <1>2. PassedUncompressed(e) => e.scheme # None
    BY <1>1, PassesOne DEF ResultFrame
  <1>3. ResultFrame(e)
    BY <1>1, <1>2 DEF ResultFrame
  <1>. QED
    BY <1>3 DEF e

\* The first candidate that is tried is kept, whatever its size.
LEMMA Tried ==
    ASSUME NEW e, e.fn = "compress", e.pc = "try", e.scheme # None
    PROVE  ResultFrame(e)
    BY DEF ResultFrame

LEMMA ConsiderResult ==
    ASSUME NEW f \in Frame, ResultFrame(f), f.fn = "compress", f.pc = "choose",
           NEW s \in Schemes, NEW r \in Ratio, NEW e \in Consider(f, s, r),
           Pool[f.type][f.idx] = "UNCOMPRESSED" => r = Pays
    PROVE  ResultFrame(e)
  <1>1. /\ e.pc = "choose" /\ e.idx = f.idx + 1 /\ e.type = f.type /\ e.fn = "compress"
        /\ \/ Improves(f, s, r) /\ e.best = r
           \/ MayStay(f, r) /\ e.best = f.best
    BY ConsiderFields
  <1>2. f.best \in 0..2 /\ r \in 0..2
    BY DEF Frame, Ratio
  <1>3. f.best = Pays => e.best = Pays
    BY <1>1, <1>2 DEF Improves, MayStay, Pays
  <1>4. r = Pays => e.best = Pays
    BY <1>1, <1>2 DEF Improves, MayStay, Pays
  <1>. QED
    BY <1>1, <1>3, <1>4, ChooseOn

\* A composite scheme is not UNCOMPRESSED.
LEMMA CompositeNames ==
    ASSUME NEW t, NEW s, NEW plan \in Plans(t, s)
    PROVE  s # "UNCOMPRESSED"
  <1>1. Plans(t, "UNCOMPRESSED") = {}
    BY NoSubStreams
  <1>. QED
    BY <1>1

---------------------------------------------------------------------------
(* Steps that only replace the running activation *)

ReplacesResult ==
    /\ stack # <<>>
    /\ \E e \in Frame : ResultFrame(e) /\ stack' = SetTop(e)

LEMMA ReplacesResultPreserves ==
    ASSUME IInv, RInv, ReplacesResult
    PROVE  RInv'
  <1>1. PICK e \in Frame : ResultFrame(e) /\ stack' = SetTop(e)
    BY DEF ReplacesResult
  <1>2. stack \in Seq(Frame)
    BY DEF IInv, StackOK
  <1>3. ResultsOK(stack')
    BY <1>1, <1>2, ReplaceResult DEF RInv, ReplacesResult, SetTop, Depth
  <1>. QED
    BY <1>3 DEF RInv, ResultsOK

LEMMA EnterResult ==
    ASSUME IInv, RInv,
           EnterOneValue \/ EnterUncompressed \/ EnterForced \/ EnterOverridden
             \/ EnterChoose \/ EnterTryAll
    PROVE  ReplacesResult
  <1>1. stack # <<>> /\ Top.fn = "compress" /\ Top.pc = "enter"
    BY DEF EnterOneValue, EnterUncompressed, EnterForced, EnterOverridden, EnterChoose,
           EnterTryAll, Selects, Running
  <1>2. Top \in Frame /\ ResultFrame(Top) /\ Top.type \in Types
    BY <1>1, TopFacts, TopResult
  <1>3. Top.force \in ForceScheme /\ override_scheme[Top.type] \in ForceScheme
    BY <1>2, OverrideTyped DEF Frame
  <1>4. \A s \in ForceScheme : s # AutoScheme => s \in SomeScheme
    BY DEF ForceScheme, SomeScheme
  <1>5. ASSUME NEW s \in SomeScheme, NEW how \in Hows
        PROVE  Chosen(Top, s, how) \in Frame /\ ResultFrame(Chosen(Top, s, how))
    <2>. DEFINE e == Chosen(Top, s, how)
    <2>1. e \in Frame /\ e.fn = "compress"
      BY <1>1, <1>2, ChosenTyped DEF Keeps
    <2>2. e.pc = "encode" /\ e.code = e.scheme
      BY <1>2, ChosenFields
    <2>. HIDE DEF e
    <2>3. ResultFrame(e)
      BY <2>1, <2>2 DEF ResultFrame
    <2>. QED
      BY <2>1, <2>3 DEF e
  <1>6. ASSUME NEW pc \in {"choose", "try"}
        PROVE  [Top EXCEPT !.pc = pc] \in Frame /\ ResultFrame([Top EXCEPT !.pc = pc])
    <2>. DEFINE e == [Top EXCEPT !.pc = pc]
    <2>0. Top.idx = 1
      BY <1>1, <1>2 DEF ResultFrame
    <2>1. e \in Frame /\ e.fn = "compress" /\ e.pc = pc /\ e.idx = 1
      BY <1>1, <1>2, <2>0, PcTyped, FieldNames, SMTT(30) DEF Keeps
    <2>. HIDE DEF e
    <2>2. ~PassedUncompressed(e)
      BY <2>1 DEF PassedUncompressed
    <2>3. ResultFrame(e)
      BY <2>1, <2>2 DEF ResultFrame
    <2>. QED
      BY <2>1, <2>3 DEF e
  <1>7. CASE EnterOneValue
    <2>1. "ONE_VALUE" \in SomeScheme /\ "rule" \in Hows
      BY SchemeNames, FieldNames
    <2>. QED
      BY <1>1, <1>5, <1>7, <2>1 DEF EnterOneValue, ReplacesResult
  <1>8. CASE EnterUncompressed
    <2>1. "UNCOMPRESSED" \in SomeScheme /\ "rule" \in Hows
      BY SchemeNames, FieldNames
    <2>. QED
      BY <1>1, <1>5, <1>8, <2>1 DEF EnterUncompressed, ReplacesResult
  <1>9. CASE EnterForced
    <2>1. Top.force \in SomeScheme /\ "force" \in Hows
      BY <1>3, <1>4, <1>9, FieldNames DEF EnterForced
    <2>. QED
      BY <1>1, <1>5, <1>9, <2>1 DEF EnterForced, ReplacesResult
  <1>10. CASE EnterOverridden
    <2>1. override_scheme[Top.type] \in SomeScheme /\ "override" \in Hows
      BY <1>3, <1>4, <1>10, FieldNames DEF EnterOverridden
    <2>. QED
      BY <1>1, <1>5, <1>10, <2>1 DEF EnterOverridden, ReplacesResult
  <1>11. CASE EnterChoose
    BY <1>1, <1>6, <1>11 DEF EnterChoose, ReplacesResult
  <1>12. CASE EnterTryAll
    BY <1>1, <1>6, <1>12 DEF EnterTryAll, ReplacesResult
  <1>. QED
    BY <1>7, <1>8, <1>9, <1>10, <1>11, <1>12
LEMMA PickResult ==
    ASSUME IInv, RInv,
           SkipCandidate \/ RateCandidate \/ PickCandidate
             \/ RateTrial \/ TrialOfLeaf \/ PickTrial
    PROVE  ReplacesResult
  <1>1. stack # <<>> /\ Top.fn = "compress"
    BY DEF SkipCandidate, RateCandidate, PickCandidate, RateTrial, TrialOfLeaf, PickTrial,
           Looping, Looped, Running
  <1>2. /\ Top \in Frame /\ FrameOK(Top) /\ ResultFrame(Top) /\ Top.type \in Types
        /\ Top.idx \in Index /\ Top.scheme \in SomeScheme
    BY <1>1, TopFacts, TopResult
  <1>3. LET e == Chosen(Top, Top.scheme, "pick") IN e \in Frame /\ ResultFrame(e)
    <2>. DEFINE e == Chosen(Top, Top.scheme, "pick")
    <2>1. e \in Frame /\ e.fn = "compress" /\ e.pc = "encode" /\ e.code = e.scheme
      BY <1>1, <1>2, ChosenTyped, ChosenFields, FieldNames DEF Keeps
    <2>. HIDE DEF e
    <2>2. ResultFrame(e)
      BY <2>1 DEF ResultFrame
    <2>. QED
      BY <2>1, <2>2 DEF e
  <1>4. CASE SkipCandidate
    <2>1. /\ Top.pc = "choose" /\ stack' = SetTop(Advance(Top))
          /\ Pool[Top.type][Top.idx] \in {"ONE_VALUE", "PSEUDODECIMAL"}
      BY <1>4 DEF SkipCandidate, Looping, Running, Skips, Candidate
    <2>. DEFINE e == Advance(Top)
    <2>2. /\ e \in Frame /\ e.fn = "compress" /\ e.pc = "choose" /\ e.type = Top.type
          /\ e.idx = Top.idx + 1 /\ e.best = Top.best
      BY <1>1, <1>2, <2>1, AdvanceFields, AdvanceTyped DEF Keeps
    <2>. HIDE DEF e
    <2>3. ResultFrame(e)
      BY <1>1, <1>2, <2>1, <2>2, ChooseOn
    <2>. QED
      BY <1>1, <2>1, <2>2, <2>3 DEF ReplacesResult, e
  <1>5. CASE RateCandidate
    <2>1. Top.pc = "choose" /\ Candidate \in Schemes
      BY <1>2, <1>5, CandidateTyped DEF RateCandidate, Looping, Running, Candidate
    <2>2. PICK r \in Ratios(Top, Candidate) :
             \E f \in Consider(Top, Candidate, r) : stack' = SetTop(f)
      BY <1>5 DEF RateCandidate
    <2>3. PICK f \in Consider(Top, Candidate, r) : stack' = SetTop(f)
      BY <2>2
    <2>4. r \in Ratio /\ (Candidate = "UNCOMPRESSED" => r = Pays)
      BY <2>2, RatiosTyped DEF Ratios, UncompressedRatios
    <2>5. f \in Frame
      BY <1>2, <2>1, <2>3, <2>4, ConsiderTyped DEF Keeps
    <2>6. ResultFrame(f)
      BY <1>1, <1>2, <2>1, <2>3, <2>4, ConsiderResult DEF Candidate
    <2>. QED
      BY <1>1, <2>3, <2>5, <2>6 DEF ReplacesResult
  <1>6. CASE PickCandidate
    BY <1>1, <1>3, <1>6 DEF PickCandidate, ReplacesResult
  <1>7. CASE RateTrial
    <2>1. Top.pc = "try"
      BY <1>7 DEF RateTrial, Looping, Running
    <2>2. PICK r \in Ratios(Top, Candidate) :
             stack' = SetTop(IF r = Declined THEN Advance(Top) ELSE [Top EXCEPT !.pc = "trial"])
      BY <1>7 DEF RateTrial
    <2>3. CASE r = Declined
      <3>1. Candidate # "UNCOMPRESSED"
        BY <2>2, <2>3 DEF Ratios, UncompressedRatios, Pays, Declined
      <3>2. ResultFrame(Advance(Top)) /\ Advance(Top) \in Frame
        BY <1>1, <1>2, <2>1, <3>1, TryOn, AdvanceTyped DEF Candidate, Keeps
      <3>. QED
        BY <1>1, <2>2, <2>3, <3>2 DEF ReplacesResult
    <2>4. CASE r # Declined
      <3>. DEFINE e == [Top EXCEPT !.pc = "trial"]
      <3>1. /\ e \in Frame /\ e.fn = "compress" /\ e.pc = "trial" /\ e.idx = Top.idx
            /\ e.type = Top.type /\ e.scheme = Top.scheme
        BY <1>1, <1>2, PcTyped, FieldNames DEF Keeps
      <3>. HIDE DEF e
      <3>2. PassedUncompressed(e) => e.scheme # None
        BY <1>1, <1>2, <2>1, <3>1 DEF ResultFrame, PassedUncompressed
      <3>3. ResultFrame(e)
        BY <3>1, <3>2 DEF ResultFrame
      <3>4. stack' = SetTop(e)
        BY <2>2, <2>4 DEF e
      <3>. QED
        BY <1>1, <3>1, <3>3, <3>4 DEF ReplacesResult
    <2>. QED
      BY <2>3, <2>4
  <1>8. CASE TrialOfLeaf
    <2>1. Top.pc = "trial"
      BY <1>8 DEF TrialOfLeaf, Running
    <2>2. Candidate \in Schemes
      BY <1>1, <1>2, <2>1, CandidateTyped DEF FrameOK, Candidate
    <2>3. PICK f \in AfterTrial(Top, Candidate) : stack' = SetTop(f)
      BY <1>8 DEF TrialOfLeaf
    <2>4. f \in Frame /\ f.fn = "compress" /\ f.pc = "try" /\ f.scheme # None
      BY <1>1, <1>2, <2>2, <2>3, AfterTrialTyped, AfterTrialFields DEF Keeps
    <2>. QED
      BY <1>1, <2>3, <2>4, Tried DEF ReplacesResult
  <1>9. CASE PickTrial
    BY <1>1, <1>3, <1>9 DEF PickTrial, ReplacesResult
  <1>. QED
    BY <1>4, <1>5, <1>6, <1>7, <1>8, <1>9

\* A result that is settled fits if it is one of the hot path.
LEMMA SettledResult ==
    ASSUME IInv, RInv, stack # <<>>, Top.fn = "compress", Top.pc = "encoded",
           OnHotPath, NEW pc \in {"reestimate", "leave"}
    PROVE  LET e == [Settled(Top) EXCEPT !.pc = pc] IN
           e \in Frame /\ ResultFrame(e) /\ e.scheme = Settled(Top).scheme /\ e.type = Top.type
  <1>. DEFINE g == Settled(Top)
              e == [g EXCEPT !.pc = pc]
  <1>1. Top \in Frame /\ ResultFrame(Top) /\ FrameOK(Top) /\ Top.code = Top.bytes
    BY TopFacts, TopResult DEF ResultFrame
  <1>2. g \in Frame /\ g.fn = "compress" /\ g.type = Top.type
    BY <1>1, SettledTyped DEF Keeps
  <1>3. g.code = g.bytes /\ g.fits
    BY <1>1, SettledFields
  <1>. HIDE DEF g
  <1>4. /\ e.fn = "compress" /\ e.pc = pc /\ e.code = e.bytes /\ e.fits /\ e.scheme = g.scheme
        /\ e.type = g.type
    BY <1>2, <1>3, PcFields
  <1>5. e \in Frame
    BY <1>2, PcTyped, FieldNames DEF Keeps
  <1>. HIDE DEF e
  <1>6. ResultFrame(e)
    BY <1>4 DEF ResultFrame
  <1>. QED
    BY <1>2, <1>4, <1>5, <1>6 DEF e, g

LEMMA EncodedResult ==
    ASSUME NEW f \in Frame, f.fn = "compress", f.pc = "encode", ResultFrame(f),
           NEW fits \in BOOLEAN
    PROVE  LET e == Encoded(f, f.scheme, fits) IN e \in Frame /\ ResultFrame(e)
  <1>. DEFINE e == Encoded(f, f.scheme, fits)
  <1>1. f.scheme \in SomeScheme /\ f.code = f.scheme
    BY DEF Frame, ResultFrame
  <1>2. e \in Frame /\ e.fn = "compress" /\ e.pc = "encoded" /\ e.code = e.bytes
    BY <1>1, EncodedTyped, EncodedFields DEF Keeps
  <1>. HIDE DEF e
  <1>3. ResultFrame(e)
    BY <1>2 DEF ResultFrame
  <1>. QED
    BY <1>2, <1>3 DEF e

LEMMA ResultResult ==
    ASSUME IInv, RInv, EncodeLeaf \/ KeepEstimate \/ LogRatio
    PROVE  ReplacesResult
  <1>1. stack # <<>> /\ Top.fn = "compress"
    BY DEF EncodeLeaf, KeepEstimate, LogRatio, Running
  <1>2. Top \in Frame /\ ResultFrame(Top) /\ estimation_level = Top.el
    BY <1>1, TopFacts, TopResult
  <1>3. CASE EncodeLeaf
    <2>1. PICK fits \in LeafFits(Top, Top.scheme) :
             stack' = SetTop(Encoded(Top, Top.scheme, fits))
      BY <1>3 DEF EncodeLeaf
    <2>2. fits \in BOOLEAN /\ Top.pc = "encode"
      BY <1>3, <2>1 DEF LeafFits, EncodeLeaf, Running
    <2>. QED
      BY <1>1, <1>2, <2>1, <2>2, EncodedResult DEF ReplacesResult
  <1>4. CASE KeepEstimate
    <2>1. Top.pc = "encoded" /\ Top.el # 0 /\ stack' = SetTop([Top EXCEPT !.pc = "leave"])
      BY <1>2, <1>4 DEF KeepEstimate, Running, OnHotPath
    <2>. DEFINE e == [Top EXCEPT !.pc = "leave"]
    <2>2. e.pc = "leave" /\ e.code = Top.code /\ e.bytes = Top.bytes /\ e.el = Top.el
            /\ e.fn = Top.fn
      BY <1>2, PcFields
    <2>3. e \in Frame
      BY <1>2, PcTyped, FieldNames DEF Keeps
    <2>. HIDE DEF e
    <2>4. ResultFrame(e)
      BY <1>1, <1>2, <2>1, <2>2 DEF ResultFrame
    <2>. QED
      BY <1>1, <2>1, <2>3, <2>4 DEF ReplacesResult, e
  <1>5. CASE LogRatio
    <2>1. Top.pc = "encoded" /\ OnHotPath /\ stack' = SetTop([Settled(Top) EXCEPT !.pc = "leave"])
      BY <1>5 DEF LogRatio, Running
    <2>2. LET e == [Settled(Top) EXCEPT !.pc = "leave"] IN e \in Frame /\ ResultFrame(e)
      BY <1>1, <2>1, SettledResult
    <2>. QED
      BY <1>1, <2>1, <2>2 DEF ReplacesResult
  <1>. QED
    BY <1>3, <1>4, <1>5
---------------------------------------------------------------------------
(* Steps that call a composite scheme *)

LEMMA CallResult ==
    ASSUME IInv, RInv, stack # <<>>, Top.fn = "compress",
           NEW f, Keeps(Top, f), FrameOK(f), f.pc \in Candidates \cup Running2,
           NEW s, NEW estimating \in BOOLEAN,
           f.pc \in Candidates => f.idx <= Len(Pool[f.type]) /\ s = Pool[f.type][f.idx],
           f.pc \in Running2 => s = f.scheme,
           ResultFrame(f), CallScheme(f, s, estimating)
    PROVE  RInv'
  <1>. DEFINE callee(plan) == SchemeFrame(f.type, s, f.acl, f.shape, plan, estimating)
  <1>1. PICK plan \in Plans(f.type, s) : stack' = Append(SetTop(f), callee(plan))
    BY DEF CallScheme
  <1>. DEFINE g == callee(plan)
              t == SetTop(f)
  <1>2. g \in Frame
    BY <1>1, CalleeTyped
  <1>3. g.fn = "scheme" /\ g.scheme = s
    BY DEF SchemeFrame
  <1>4. s # "UNCOMPRESSED"
    BY <1>1, CompositeNames
  <1>5. stack' = Append(t, g)
    BY <1>1
  <1>. HIDE DEF g
  <1>6. ResultFrame(g)
    BY <1>3, <1>4 DEF ResultFrame
  <1>7. stack \in Seq(Frame) /\ f \in Frame
    BY DEF IInv, StackOK, Keeps
  <1>8. t \in Seq(Frame)
    BY <1>7, ReplaceLast DEF SetTop, Depth
  <1>9. ResultsOK(t)
    BY <1>7, ReplaceResult DEF RInv, SetTop, Depth
  <1>. HIDE DEF t
  <1>10. ResultsOK(stack')
    BY <1>2, <1>5, <1>6, <1>8, <1>9, PushResult
  <1>. QED
    BY <1>10 DEF RInv, ResultsOK

LEMMA CallsResult ==
    ASSUME IInv, RInv,
           SampleCandidate \/ SampleTrial \/ TrialOfComposite \/ EncodeComposite
             \/ LogRatioBySample
    PROVE  RInv'
  <1>1. stack # <<>> /\ Top.fn = "compress"
    BY DEF SampleCandidate, SampleTrial, TrialOfComposite, EncodeComposite, LogRatioBySample,
           Looping, Running
  <1>2. Top \in Frame /\ FrameOK(Top) /\ ResultFrame(Top) /\ Keeps(Top, Top)
    BY <1>1, TopFacts, TopResult DEF Keeps
  <1>3. TRUE \in BOOLEAN /\ FALSE \in BOOLEAN
    OBVIOUS
  <1>4. CASE SampleCandidate
    <2>1. Top.pc = "choose" /\ Top.idx <= Len(Pool[Top.type]) /\ CallScheme(Top, Candidate, TRUE)
      BY <1>4 DEF SampleCandidate, Looping, Running
    <2>. QED
      BY <1>1, <1>2, <1>3, <2>1, CallResult DEF Candidate, Candidates, Running2
  <1>5. CASE SampleTrial
    <2>1. Top.pc = "try" /\ Top.idx <= Len(Pool[Top.type]) /\ CallScheme(Top, Candidate, TRUE)
      BY <1>5 DEF SampleTrial, Looping, Running
    <2>. QED
      BY <1>1, <1>2, <1>3, <2>1, CallResult DEF Candidate, Candidates, Running2
  <1>6. CASE TrialOfComposite
    <2>1. Top.pc = "trial" /\ CallScheme(Top, Candidate, FALSE)
      BY <1>6 DEF TrialOfComposite, Running
    <2>2. Top.idx <= Len(Pool[Top.type])
      BY <1>1, <1>2, <2>1 DEF FrameOK
    <2>. QED
      BY <1>1, <1>2, <1>3, <2>1, <2>2, CallResult DEF Candidate, Candidates, Running2
  <1>7. CASE EncodeComposite
    <2>1. Top.pc = "encode" /\ CallScheme(Top, Top.scheme, FALSE)
      BY <1>7 DEF EncodeComposite, Running
    <2>. QED
      BY <1>1, <1>2, <1>3, <2>1, CallResult DEF Candidates, Running2
  <1>8. CASE LogRatioBySample
    <2>. DEFINE f == [Settled(Top) EXCEPT !.pc = "reestimate"]
    <2>1. CallScheme(f, Settled(Top).scheme, TRUE) /\ OnHotPath /\ Top.pc = "encoded"
      BY <1>8 DEF LogRatioBySample, Running
    <2>2. Keeps(Top, f) /\ FrameOK(f) /\ f.scheme = Settled(Top).scheme /\ f.pc = "reestimate"
      BY <1>1, <1>2, SettledOK
    <2>3. ResultFrame(f)
      BY <1>1, <2>1, SettledResult
    <2>. HIDE DEF f
    <2>. QED
      BY <1>1, <1>2, <1>3, <2>1, <2>2, <2>3, CallResult DEF Candidates, Running2
  <1>. QED
    BY <1>4, <1>5, <1>6, <1>7, <1>8

---------------------------------------------------------------------------
(* Steps that compress a sub-stream, or end an activation *)

LEMMA NewResult ==
    ASSUME NEW t, NEW acl, NEW force, NEW shape
    PROVE  ResultFrame(CompressFrame(t, acl, force, shape))
  <1>. DEFINE e == CompressFrame(t, acl, force, shape)
  <1>1. e.fn = "compress" /\ e.pc = "enter" /\ e.idx = 1
    BY DEF CompressFrame
  <1>. HIDE DEF e
  <1>2. ResultFrame(e)
    BY <1>1 DEF ResultFrame
  <1>. QED
    BY <1>2 DEF e

LEMMA SubStreamResult ==
    ASSUME IInv, RInv, CompressSubStream
    PROVE  RInv'
  <1>1. stack # <<>> /\ Top.fn = "scheme" /\ Top.todo # <<>> /\ stack \in Seq(Frame)
    BY DEF CompressSubStream, Running, IInv, StackOK
  <1>2. PICK shape \in Shapes :
           stack' = Append(stack, CompressFrame(Head(Top.todo).type, ChildLevel(Top),
                                                Head(Top.todo).force, shape))
    BY DEF CompressSubStream, Shapes
  <1>. DEFINE g == CompressFrame(Head(Top.todo).type, ChildLevel(Top), Head(Top.todo).force, shape)
  <1>3. g \in Frame /\ ResultFrame(g) /\ stack' = Append(stack, g)
    BY <1>1, <1>2, SubStreamTyped, NewResult
  <1>. HIDE DEF g
  <1>4. ResultsOK(stack')
    BY <1>1, <1>3, PushResult DEF RInv
  <1>. QED
    BY <1>4 DEF RInv, ResultsOK

LEMMA EmptyResult == ResultsOK(<<>>)
    BY EmptySeq DEF ResultsOK

LEMMA WrittenFields ==
    ASSUME NEW f \in Frame, f.todo # <<>>
    PROVE  LET g == Written(f) IN
           /\ g \in Frame /\ g.fn = f.fn /\ g.scheme = f.scheme /\ g.type = f.type
           /\ g.el = f.el /\ g.done = f.done + 1
  <1>1. \A q \in Streams : q # <<>> => Tail(q) \in Streams
    BY DEF Streams
  <1>2. f.done + 1 \in Nat /\ Tail(f.todo) \in Streams
    BY <1>1 DEF Frame
  <1>. QED
    BY <1>2 DEF Written, Frame

LEMMA LeaveResult ==
    ASSUME IInv, RInv, LeaveColumn \/ LeaveStream
    PROVE  RInv'
  <1>1. stack # <<>> /\ Top.fn = "compress"
    BY DEF LeaveColumn, LeaveStream, Running
  <1>2. CASE LeaveColumn
    BY <1>2, EmptyResult DEF LeaveColumn, RInv, ResultsOK
  <1>3. CASE LeaveStream
    <2>1. stack' = [Popped EXCEPT ![Depth - 1] = Written(Caller)] /\ Depth > 1
      BY <1>3 DEF LeaveStream
    <2>0. Depth \in Nat /\ Depth # 1
      <3>1. Depth \in Nat \ {0}
        BY <1>1, TopFacts
      <3>. QED
        BY <2>1, <3>1
    <2>1a. Caller \in Frame /\ LinkOK(Caller, Top) /\ Caller = stack[Depth - 1]
      BY <1>1, <2>0, CallerFacts
    <2>1b. Depth - 1 \in 1..Len(stack)
      BY <2>0, <2>1 DEF Depth
    <2>2. Caller.fn = "scheme" /\ Caller.todo # <<>>
      BY <1>1, <2>1a DEF LinkOK
    <2>. DEFINE g == Written(Caller)
    <2>3. g \in Frame /\ g.fn = "scheme" /\ g.scheme = Caller.scheme
      BY <2>1a, <2>2, WrittenFields
    <2>. HIDE DEF g
    <2>4. ResultFrame(g)
      BY <2>1a, <2>1b, <2>2, <2>3 DEF RInv, ResultsOK, ResultFrame
    <2>5. ResultsOK(stack')
      BY <2>1, <2>3, <2>4, PopReplaceResult DEF g
    <2>. QED
      BY <2>5 DEF RInv, ResultsOK
  <1>. QED
    BY <1>2, <1>3

LEMMA AnsweredResult ==
    ASSUME NEW c \in Frame, FrameOK(c), ResultFrame(c), NEW f \in Frame, FrameOK(f),
           ResultFrame(f), f.fn = "scheme", LinkOK(c, f),
           NEW fits \in BOOLEAN, NEW g \in Answered(c, f, fits)
    PROVE  ResultFrame(g)
  <1>1. c.fn = "compress" /\ c.pc \in Candidates \cup Running2
    BY DEF LinkOK
  <1>2. f.scheme \in Schemes /\ f.scheme # "UNCOMPRESSED"
    BY DEF Frame, FrameOK, SomeScheme, ResultFrame
  <1>3. Keeps(c, g)
    BY AnsweredOK
  <1>4. CASE c.pc = "choose"
    <2>1. g \in Consider(c, f.scheme, IF fits THEN Pays ELSE Loses)
      BY <1>4 DEF Answered
    <2>2. (IF fits THEN Pays ELSE Loses) \in Ratio
      BY DEF Pays, Loses, Ratio
    <2>3. f.scheme = Pool[c.type][c.idx]
      BY <1>4 DEF LinkOK, Candidates
    <2>. QED
      BY <1>1, <1>2, <1>4, <2>1, <2>2, <2>3, ConsiderResult
  <1>5. CASE c.pc = "try"
    <2>. DEFINE e == [c EXCEPT !.pc = "trial"]
    <2>1. g = e
      BY <1>5 DEF Answered
    <2>2. e.fn = "compress" /\ e.pc = "trial" /\ e.idx = c.idx /\ e.type = c.type
            /\ e.scheme = c.scheme
      BY <1>1, PcFields
    <2>. HIDE DEF e
    <2>3. PassedUncompressed(e) => e.scheme # None
      BY <1>1, <1>5, <2>2 DEF ResultFrame, PassedUncompressed
    <2>4. ResultFrame(e)
      BY <2>2, <2>3 DEF ResultFrame
    <2>. QED
      BY <2>1, <2>4
  <1>6. CASE c.pc = "trial"
    <2>1. g \in AfterTrial(c, f.scheme)
      BY <1>6 DEF Answered
    <2>2. g.pc = "try" /\ g.scheme # None /\ g.fn = "compress"
      BY <1>1, <1>2, <1>3, <2>1, AfterTrialFields DEF Keeps
    <2>. QED
      BY <2>2, Tried
  <1>7. CASE c.pc = "encode"
    <2>1. g = Encoded(c, f.scheme, fits) /\ f.scheme = c.scheme
      BY <1>7 DEF Answered, LinkOK, Running2
    <2>. QED
      BY <1>1, <1>7, <2>1, EncodedResult
  <1>8. CASE c.pc = "reestimate"
    <2>. DEFINE e == [c EXCEPT !.pc = "leave"]
    <2>1. g = e
      BY <1>8 DEF Answered
    <2>2. /\ e.fn = "compress" /\ e.pc = "leave" /\ e.code = c.code /\ e.bytes = c.bytes
          /\ e.fits = c.fits /\ e.el = c.el
      BY <1>1, PcFields
    <2>. HIDE DEF e
    <2>3. ResultFrame(e)
      BY <1>1, <1>8, <2>2 DEF ResultFrame
    <2>. QED
      BY <2>1, <2>3
  <1>. QED
    BY <1>1, <1>4, <1>5, <1>6, <1>7, <1>8 DEF Candidates, Running2

LEMMA ReturnResult ==
    ASSUME IInv, RInv, ReturnScheme \/ ReturnRaw
    PROVE  RInv'
  <1>1. stack # <<>> /\ Top.fn = "scheme"
    BY DEF ReturnScheme, ReturnRaw, Running
  <1>2. PICK sections : \E fits \in BOOLEAN : ReturnFrom(Top, sections, fits)
    BY DEF ReturnScheme, ReturnRaw
  <1>3. PICK fits \in BOOLEAN : ReturnFrom(Top, sections, fits)
    BY <1>2
  <1>4. Top \in Frame /\ FrameOK(Top) /\ ResultFrame(Top) /\ Depth \in Nat \ {0}
    BY <1>1, TopFacts, TopResult
  <1>5. ResultsOK(stack')
    <2>1. CASE Depth = 1
      BY <1>3, <2>1, EmptyResult DEF ReturnFrom
    <2>2. CASE Depth # 1
      <3>1. PICK g \in Answered(Caller, Top, fits) : stack' = [Popped EXCEPT ![Depth - 1] = g]
        BY <1>3, <2>2 DEF ReturnFrom
      <3>2. /\ Depth > 1 /\ Caller \in Frame /\ FrameOK(Caller) /\ LinkOK(Caller, Top)
            /\ Caller = stack[Depth - 1]
        BY <1>1, <2>2, CallerFacts
      <3>3. ResultFrame(Caller)
        <4>1. Depth - 1 \in 1..Len(stack)
          BY <1>4, <3>2 DEF Depth
        <4>. QED
          BY <3>2, <4>1 DEF RInv, ResultsOK
      <3>4. g \in Frame
        BY <1>1, <1>4, <3>1, <3>2, AnsweredOK DEF Keeps
      <3>5. ResultFrame(g)
        BY <1>1, <1>4, <3>1, <3>2, <3>3, AnsweredResult
      <3>. QED
        BY <3>1, <3>2, <3>4, <3>5, PopReplaceResult
    <2>. QED
      BY <2>1, <2>2
  <1>. QED
    BY <1>5 DEF RInv, ResultsOK
---------------------------------------------------------------------------
(* Steps of the caller *)

LEMMA FirstResult ==
    ASSUME NEW e, ResultFrame(e)
    PROVE  ResultsOK(<<e>>)
    BY DEF ResultsOK

LEMMA CallerResult ==
    ASSUME RInv, Call
    PROVE  RInv'
  <1>1. ASSUME NEW t, NEW s, NEW plan \in Plans(t, s)
        PROVE  ResultFrame(SchemeFrame(t, s, MaxCascade, "varied", plan, FALSE))
    <2>. DEFINE e == SchemeFrame(t, s, MaxCascade, "varied", plan, FALSE)
    <2>1. e.fn = "scheme" /\ e.scheme = s
      BY DEF SchemeFrame
    <2>2. s # "UNCOMPRESSED"
      BY CompositeNames
    <2>. HIDE DEF e
    <2>3. ResultFrame(e)
      BY <2>1, <2>2 DEF ResultFrame
    <2>. QED
      BY <2>3 DEF e
  <1>2. CASE UNCHANGED stack
    BY <1>2 DEF RInv, ResultsOK
  <1>3. CASE CompressColumn
    <2>1. ResultsOK(stack')
      BY <1>3, NewResult, FirstResult DEF CompressColumn
    <2>. QED
      BY <2>1 DEF RInv, ResultsOK
  <1>4. CASE CompressStringColumn
    <2>1. PICK s : \E plan \in Plans("STRING", s) :
             stack' = <<SchemeFrame("STRING", s, MaxCascade, "varied", plan, FALSE)>>
      BY <1>4 DEF CompressStringColumn
    <2>2. ResultsOK(stack')
      BY <1>1, <2>1, FirstResult
    <2>. QED
      BY <2>2 DEF RInv, ResultsOK
  <1>5. CASE DirectEncode
    <2>1. PICK t : \E plan \in Plans(t, "SUB_INT_SPLIT") :
             stack' = <<SchemeFrame(t, "SUB_INT_SPLIT", MaxCascade, "varied", plan, FALSE)>>
      BY <1>5 DEF DirectEncode
    <2>2. ResultsOK(stack')
      BY <1>1, <2>1, FirstResult
    <2>. QED
      BY <2>2 DEF RInv, ResultsOK
  <1>. QED
    BY <1>2, <1>3, <1>4, <1>5 DEF Call, SetOverride, DirectEncodeEmpty

LEMMA StepResult ==
    ASSUME IInv, RInv, [Next]_vars
    PROVE  RInv'
  <1>1. CASE Call
    BY <1>1, CallerResult
  <1>2. CASE Step
    <2>1. CASE \/ EnterOneValue \/ EnterUncompressed \/ EnterForced \/ EnterOverridden
               \/ EnterChoose \/ EnterTryAll
      BY <2>1, EnterResult, ReplacesResultPreserves
    <2>2. CASE \/ SkipCandidate \/ RateCandidate \/ PickCandidate
               \/ RateTrial \/ TrialOfLeaf \/ PickTrial
      BY <2>2, PickResult, ReplacesResultPreserves
    <2>3. CASE EncodeLeaf \/ KeepEstimate \/ LogRatio
      BY <2>3, ResultResult, ReplacesResultPreserves
    <2>4. CASE \/ SampleCandidate \/ SampleTrial \/ TrialOfComposite \/ EncodeComposite
               \/ LogRatioBySample
      BY <2>4, CallsResult
    <2>5. CASE LeaveColumn \/ LeaveStream
      BY <2>5, LeaveResult
    <2>6. CASE CompressSubStream
      BY <2>6, SubStreamResult
    <2>7. CASE ReturnScheme \/ ReturnRaw
      BY <2>7, ReturnResult
    <2>. QED
      BY <1>2, <2>1, <2>2, <2>3, <2>4, <2>5, <2>6, <2>7 DEF Step
  <1>3. CASE UNCHANGED vars
    BY <1>3 DEF vars, RInv, ResultsOK
  <1>. QED
    BY <1>1, <1>2, <1>3 DEF Next

\* ResultFrame holds of every activation, whoever forces which scheme.
THEOREM ResultInvariance == Spec => []RInv
  <1>1. Init => RInv
    BY EmptyResult DEF Init, RInv
  <1>2. IInv /\ RInv /\ [Next]_vars => RInv'
    BY StepResult
  <1>. QED
    BY <1>1, <1>2, Invariance, PTL DEF Spec

\* A stream is stored under the code of the scheme that wrote its bytes,
\* whether it was forced, overridden, picked or replaced by the raw values.
THEOREM CodesNameBytes == Spec => []CodeNamesBytes
  <1>1. IInv /\ RInv => CodeNamesBytes
    BY DEF RInv, ResultsOK, ResultFrame, CodeNamesBytes, Depth
  <1>. QED
    BY <1>1, Invariance, ResultInvariance, PTL

\* Whatever is compressed for real, at whatever depth, is stored in no more
\* bytes than its raw values: only estimates hand larger results back.
THEOREM HotPathFits == Spec => []HotPathNeverGrows
  <1>1. RInv => HotPathNeverGrows
    BY DEF RInv, ResultsOK, ResultFrame, HotPathNeverGrows, Depth
  <1>. QED
    BY <1>1, ResultInvariance, PTL

\* A loop over the whole pool has passed UNCOMPRESSED.
LEMMA LoopedPassed ==
    ASSUME IInv, stack # <<>>, Top.idx > Len(Pool[Top.type])
    PROVE  PassedUncompressed(Top)
  <1>1. Top.type \in Types /\ Top.idx \in Nat
    BY TopFacts DEF Index
  <1>2. "UNCOMPRESSED" \in Enabled(Top.type)
    BY <1>1, PoolAssumption
  <1>3. PICK j \in 1..Len(Pool[Top.type]) : Pool[Top.type][j] = "UNCOMPRESSED"
    BY <1>2 DEF Enabled
  <1>4. Len(Pool[Top.type]) \in Nat
    BY <1>1, PoolAssumption
  <1>5. j < Top.idx
    BY <1>1, <1>3, <1>4
  <1>. QED
    BY <1>3, <1>5 DEF PassedUncompressed

\* The candidate loop always finds a scheme: the exception for a ratio below 1
\* and the null preferred_scheme are out of reach, for every pool (which holds
\* UNCOMPRESSED), order of the pool and depth.
THEOREM PickAlwaysSucceeds == Spec => []PickSucceeds
  <1>1. IInv /\ RInv => PickSucceeds
    <2>1. ASSUME IInv, RInv, Looped("choose")
          PROVE  Top.best = Pays
      <3>1. stack # <<>> /\ Top.fn = "compress" /\ Top.pc = "choose"
              /\ Top.idx > Len(Pool[Top.type])
        BY <2>1 DEF Looped, Running
      <3>. QED
        BY <2>1, <3>1, LoopedPassed, TopResult DEF ResultFrame
    <2>2. ASSUME IInv, RInv, Looped("try")
          PROVE  Top.scheme # None
      <3>1. stack # <<>> /\ Top.fn = "compress" /\ Top.pc = "try"
              /\ Top.idx > Len(Pool[Top.type])
        BY <2>2 DEF Looped, Running
      <3>. QED
        BY <2>2, <3>1, LoopedPassed, TopResult DEF ResultFrame
    <2>. QED
      BY <2>1, <2>2 DEF PickSucceeds
  <1>. QED
    BY <1>1, Invariance, ResultInvariance, PTL
---------------------------------------------------------------------------
(* The report of the last encode() *)

\* An encode() that is no part of an estimate, and its report so far.
Recording(f) == f.fn = "scheme" /\ f.scheme = SIS /\ f.el = 0
Opened(f)    == [width |-> f.type, sections |-> f.done, valid |-> FALSE]

ReportOK(s, r, last) ==
    /\ \A i \in 1..Len(s) : Recording(s[i]) => r = Opened(s[i])
    /\ (\A i \in 1..Len(s) : ~Recording(s[i])) => r = last

PInv == ReportOK(stack, report, lastEncode)

OneRecording(s) == \A i, j \in 1..Len(s) : Recording(s[i]) /\ Recording(s[j]) => i = j

\* A step that leaves the encode() in progress, if any, as it is.
LEMMA ReportKept ==
    ASSUME NEW s, NEW t, NEW r, NEW last, ReportOK(s, r, last),
           \A i \in 1..Len(t) : Recording(t[i]) =>
              i \in 1..Len(s) /\ Recording(s[i]) /\ Opened(t[i]) = Opened(s[i]),
           \A i \in 1..Len(s) : Recording(s[i]) => i \in 1..Len(t) /\ Recording(t[i])
    PROVE  ReportOK(t, r, last)
    BY DEF ReportOK

LEMMA CompressRecordsNothing ==
    ASSUME NEW f, f.fn = "compress"
    PROVE  ~Recording(f)
    BY DEF Recording

\* A picker activation is replaced by another, or pushed, or popped.
LEMMA ReplaceReport ==
    ASSUME NEW s \in Seq(Frame), s # <<>>, NEW e \in Frame, NEW r, NEW last,
           ReportOK(s, r, last), ~Recording(s[Len(s)]), ~Recording(e)
    PROVE  ReportOK([s EXCEPT ![Len(s)] = e], r, last)
  <1>. DEFINE n == Len(s)
              t == [s EXCEPT ![Len(s)] = e]
  <1>1. n \in Nat \ {0} /\ Len(t) = n /\ t[n] = e /\ \A i \in 1..(n - 1) : t[i] = s[i]
    BY ReplaceLast, EmptySeq
  <1>. HIDE DEF t
  <1>2. \A i \in 1..n : i = n \/ i \in 1..(n - 1)
    BY <1>1
  <1>3. ReportOK(t, r, last)
    BY <1>1, <1>2, ReportKept
  <1>. QED
    BY <1>3 DEF t

LEMMA PushReport ==
    ASSUME NEW s \in Seq(Frame), NEW e \in Frame, NEW r, NEW last,
           ReportOK(s, r, last), ~Recording(e)
    PROVE  ReportOK(Append(s, e), r, last)
  <1>. DEFINE n == Len(s)
              t == Append(s, e)
  <1>1. n \in Nat /\ Len(t) = n + 1 /\ t[n + 1] = e /\ \A i \in 1..n : t[i] = s[i]
    BY PushLast
  <1>. HIDE DEF t
  <1>2. \A i \in 1..(n + 1) : i = n + 1 \/ i \in 1..n
    BY <1>1
  <1>3. \A i \in 1..n : i \in 1..(n + 1)
    BY <1>1
  <1>4. ReportOK(t, r, last)
    BY <1>1, <1>2, <1>3, ReportKept
  <1>. QED
    BY <1>4 DEF t

\* The stack after an activation has ended and its caller was updated to g.
LEMMA PopReplaceAt ==
    ASSUME IInv, Depth > 1, NEW g \in Frame
    PROVE  LET t == [Popped EXCEPT ![Depth - 1] = g] IN
           /\ Depth \in Nat /\ Len(t) = Depth - 1 /\ t[Depth - 1] = g
           /\ \A i \in 1..(Depth - 2) : t[i] = stack[i]
  <1>. DEFINE u == SubSeq(stack, 1, Len(stack) - 1)
              n == Len(stack)
  <1>1. stack \in Seq(Frame) /\ Depth = n /\ n \in Nat /\ n > 1 /\ stack # <<>>
    BY EmptySeq DEF IInv, StackOK, Depth
  <1>2. u \in Seq(Frame) /\ Len(u) = n - 1 /\ u # <<>> /\ \A i \in 1..(n - 1) : u[i] = stack[i]
    <2>1. /\ u \in Seq(Frame) /\ Len(u) = Len(stack) - 1 /\ (u = <<>> <=> Len(stack) = 1)
          /\ \A i \in 1..(Len(stack) - 1) : u[i] = stack[i]
      BY <1>1, PopLast
    <2>. HIDE DEF u
    <2>. QED
      BY <1>1, <2>1
  <1>. HIDE DEF u, n
  <1>. DEFINE t == [u EXCEPT ![Len(u)] = g]
  <1>3. Len(t) = Len(u) /\ t[Len(u)] = g /\ \A i \in 1..(Len(u) - 1) : t[i] = u[i]
    BY <1>2, ReplaceLast
  <1>4. t = [Popped EXCEPT ![Depth - 1] = g]
    BY <1>1, <1>2 DEF u, n, Popped, Depth
  <1>. HIDE DEF t
  <1>5. Len(t) = n - 1 /\ t[n - 1] = g /\ \A i \in 1..(n - 2) : t[i] = stack[i]
    BY <1>1, <1>2, <1>3
  <1>. QED
    BY <1>1, <1>4, <1>5

\* The same, when neither the ended activation nor its caller is recorded.
LEMMA PopReplaceReport ==
    ASSUME IInv, Depth > 1, NEW g \in Frame, NEW r, NEW last, ReportOK(stack, r, last),
           ~Recording(Top), ~Recording(Caller), ~Recording(g)
    PROVE  ReportOK([Popped EXCEPT ![Depth - 1] = g], r, last)
  <1>. DEFINE t == [Popped EXCEPT ![Depth - 1] = g]
  <1>1. /\ Depth \in Nat /\ Len(t) = Depth - 1 /\ t[Depth - 1] = g
        /\ \A i \in 1..(Depth - 2) : t[i] = stack[i]
    BY PopReplaceAt
  <1>. HIDE DEF t
  <1>2. /\ \A i \in 1..(Depth - 1) : i = Depth - 1 \/ i \in 1..(Depth - 2)
        /\ \A i \in 1..Depth : i = Depth \/ i = Depth - 1 \/ i \in 1..(Depth - 2)
        /\ \A i \in 1..(Depth - 2) : i \in 1..(Depth - 1) /\ i \in 1..Depth
    BY <1>1
  <1>3. Len(stack) = Depth /\ Top = stack[Depth] /\ Caller = stack[Depth - 1]
    BY DEF Depth, Top, Caller
  <1>4. \A i \in 1..Len(t) : Recording(t[i]) =>
           i \in 1..Len(stack) /\ Recording(stack[i]) /\ Opened(t[i]) = Opened(stack[i])
    BY <1>1, <1>2, <1>3
  <1>5. \A i \in 1..Len(stack) : Recording(stack[i]) => i \in 1..Len(t) /\ Recording(t[i])
    BY <1>1, <1>2, <1>3
  <1>6. ReportOK(t, r, last)
    BY <1>4, <1>5, ReportKept
  <1>. QED
    BY <1>6 DEF t
---------------------------------------------------------------------------
(* Steps and the report *)

LEMMA ReplacesTopReport ==
    ASSUME IInv, PInv, stack # <<>>, Top.fn = "compress", ReplacesTop
    PROVE  PInv'
  <1>1. PICK e : Keeps(Top, e) /\ stack' = SetTop(e)
    BY DEF ReplacesTop
  <1>2. e \in Frame /\ ~Recording(Top) /\ ~Recording(e)
    BY <1>1, CompressRecordsNothing DEF Keeps
  <1>3. stack \in Seq(Frame)
    BY DEF IInv, StackOK
  <1>4. ReportOK(stack', report, lastEncode)
    BY <1>1, <1>2, <1>3, ReplaceReport DEF PInv, SetTop, Top, Depth
  <1>5. report' = report /\ lastEncode' = lastEncode
    BY DEF ReplacesTop, buffers
  <1>. QED
    BY <1>4, <1>5 DEF PInv, ReportOK

\* Entering an encode() opens the report, unless it is part of an estimate.
LEMMA CallReport ==
    ASSUME IInv, PInv, OneRecording(stack'), stack # <<>>, Top.fn = "compress",
           NEW f, Keeps(Top, f), FrameOK(f), f.pc \in Candidates \cup Running2,
           NEW s, NEW estimating \in BOOLEAN,
           f.pc \in Candidates => f.idx <= Len(Pool[f.type]) /\ s = Pool[f.type][f.idx],
           f.pc \in Running2 => s = f.scheme,
           CallScheme(f, s, estimating)
    PROVE  PInv'
  <1>. DEFINE callee(plan) == SchemeFrame(f.type, s, f.acl, f.shape, plan, estimating)
  <1>1. PICK plan \in Plans(f.type, s) :
           /\ stack' = Append(SetTop(f), callee(plan))
           /\ IF s = "SUB_INT_SPLIT" THEN OpenReport(f.type, callee(plan).el)
                                     ELSE UNCHANGED report
           /\ UNCHANGED <<override_scheme, scratch, lastEncode>>
    BY DEF CallScheme
  <1>. DEFINE g == callee(plan)
              t == SetTop(f)
  <1>2. g \in Frame
    BY <1>1, CalleeTyped
  <1>3. g.fn = "scheme" /\ g.scheme = s /\ g.type = f.type /\ g.done = 0
    BY DEF SchemeFrame
  <1>4. stack' = Append(t, g) /\ lastEncode' = lastEncode
    BY <1>1
  <1>5. IF s = "SUB_INT_SPLIT" THEN OpenReport(f.type, g.el) ELSE UNCHANGED report
    BY <1>1
  <1>. HIDE DEF g
  <1>6. stack \in Seq(Frame) /\ f \in Frame /\ ~Recording(Top) /\ ~Recording(f)
    BY CompressRecordsNothing DEF IInv, StackOK, Keeps
  <1>7. t \in Seq(Frame)
    BY <1>6, ReplaceLast DEF SetTop, Depth
  <1>8. ReportOK(t, report, lastEncode)
    BY <1>6, ReplaceReport DEF PInv, SetTop, Top, Depth
  <1>. HIDE DEF t
  <1>9. CASE Recording(g)
    <2>1. report' = Opened(g)
      BY <1>3, <1>5, <1>9 DEF OpenReport, Records, NoReport, Recording, Opened, SIS
    <2>2. Len(stack') \in Nat /\ Len(stack') \in 1..Len(stack') /\ stack'[Len(stack')] = g
      BY <1>2, <1>4, <1>7, PushLast
    <2>3. \A i \in 1..Len(stack') : Recording(stack'[i]) => i = Len(stack')
      BY <1>9, <2>2 DEF OneRecording
    <2>. QED
      BY <1>9, <2>1, <2>2, <2>3 DEF PInv, ReportOK
  <1>10. CASE ~Recording(g)
    <2>1. report' = report
      BY <1>3, <1>5, <1>10 DEF OpenReport, Records, Recording, SIS
    <2>2. ReportOK(stack', report, lastEncode)
      BY <1>2, <1>4, <1>7, <1>8, <1>10, PushReport
    <2>. QED
      BY <1>4, <2>1, <2>2 DEF PInv, ReportOK
  <1>. QED
    BY <1>9, <1>10

LEMMA CallsReport ==
    ASSUME IInv, PInv, OneRecording(stack'),
           SampleCandidate \/ SampleTrial \/ TrialOfComposite \/ EncodeComposite
             \/ LogRatioBySample
    PROVE  PInv'
  <1>1. stack # <<>> /\ Top.fn = "compress"
    BY DEF SampleCandidate, SampleTrial, TrialOfComposite, EncodeComposite, LogRatioBySample,
           Looping, Running
  <1>2. Top \in Frame /\ FrameOK(Top) /\ Keeps(Top, Top)
    BY <1>1, TopFacts DEF Keeps
  <1>3. TRUE \in BOOLEAN /\ FALSE \in BOOLEAN
    OBVIOUS
  <1>4. CASE SampleCandidate
    <2>1. Top.pc = "choose" /\ Top.idx <= Len(Pool[Top.type]) /\ CallScheme(Top, Candidate, TRUE)
      BY <1>4 DEF SampleCandidate, Looping, Running
    <2>. QED
      BY <1>1, <1>2, <1>3, <2>1, CallReport DEF Candidate, Candidates, Running2
  <1>5. CASE SampleTrial
    <2>1. Top.pc = "try" /\ Top.idx <= Len(Pool[Top.type]) /\ CallScheme(Top, Candidate, TRUE)
      BY <1>5 DEF SampleTrial, Looping, Running
    <2>. QED
      BY <1>1, <1>2, <1>3, <2>1, CallReport DEF Candidate, Candidates, Running2
  <1>6. CASE TrialOfComposite
    <2>1. Top.pc = "trial" /\ CallScheme(Top, Candidate, FALSE)
      BY <1>6 DEF TrialOfComposite, Running
    <2>2. Top.idx <= Len(Pool[Top.type])
      BY <1>1, <1>2, <2>1 DEF FrameOK
    <2>. QED
      BY <1>1, <1>2, <1>3, <2>1, <2>2, CallReport DEF Candidate, Candidates, Running2
  <1>7. CASE EncodeComposite
    <2>1. Top.pc = "encode" /\ CallScheme(Top, Top.scheme, FALSE)
      BY <1>7 DEF EncodeComposite, Running
    <2>. QED
      BY <1>1, <1>2, <1>3, <2>1, CallReport DEF Candidates, Running2
  <1>8. CASE LogRatioBySample
    <2>. DEFINE f == [Settled(Top) EXCEPT !.pc = "reestimate"]
    <2>1. CallScheme(f, Settled(Top).scheme, TRUE)
      BY <1>8 DEF LogRatioBySample
    <2>2. Keeps(Top, f) /\ FrameOK(f) /\ f.scheme = Settled(Top).scheme /\ f.pc = "reestimate"
      BY <1>1, <1>2, SettledOK
    <2>. HIDE DEF f
    <2>. QED
      BY <1>1, <1>2, <1>3, <2>1, <2>2, CallReport DEF Candidates, Running2
  <1>. QED
    BY <1>4, <1>5, <1>6, <1>7, <1>8

LEMMA SubStreamReport ==
    ASSUME IInv, PInv, CompressSubStream
    PROVE  PInv'
  <1>1. stack # <<>> /\ Top.fn = "scheme" /\ Top.todo # <<>> /\ stack \in Seq(Frame)
    BY DEF CompressSubStream, Running, IInv, StackOK
  <1>2. PICK shape \in Shapes :
           stack' = Append(stack, CompressFrame(Head(Top.todo).type, ChildLevel(Top),
                                                Head(Top.todo).force, shape))
    BY DEF CompressSubStream, Shapes
  <1>. DEFINE g == CompressFrame(Head(Top.todo).type, ChildLevel(Top), Head(Top.todo).force, shape)
  <1>3. g \in Frame /\ stack' = Append(stack, g)
    BY <1>1, <1>2, SubStreamTyped
  <1>4. g.fn = "compress"
    BY DEF CompressFrame
  <1>. HIDE DEF g
  <1>5. ReportOK(stack', report, lastEncode)
    BY <1>1, <1>3, <1>4, PushReport, CompressRecordsNothing DEF PInv
  <1>6. report' = report /\ lastEncode' = lastEncode
    BY DEF CompressSubStream
  <1>. QED
    BY <1>5, <1>6 DEF PInv, ReportOK

LEMMA NothingRecorded ==
    ASSUME NEW r
    PROVE  ReportOK(<<>>, r, r)
    BY EmptySeq DEF ReportOK

\* A section was written: counted in the report of the encode() it belongs to.
LEMMA LeaveReport ==
    ASSUME IInv, PInv, OneRecording(stack), LeaveColumn \/ LeaveStream
    PROVE  PInv'
  <1>1. stack # <<>> /\ Top.fn = "compress" /\ ~Recording(Top)
    BY CompressRecordsNothing DEF LeaveColumn, LeaveStream, Running
  <1>2. Depth \in Nat \ {0} /\ Depth = Len(stack) /\ Top = stack[Depth]
    BY <1>1, TopFacts DEF Depth, Top
  <1>3. CASE LeaveColumn
    <2>1. Depth = 1 /\ stack' = <<>> /\ report' = report /\ lastEncode' = lastEncode
      BY <1>3 DEF LeaveColumn, buffers
    <2>2. \A i \in 1..Len(stack) : ~Recording(stack[i])
      BY <1>1, <1>2, <2>1
    <2>3. report = lastEncode
      BY <2>2 DEF PInv, ReportOK
    <2>. QED
      BY <2>1, <2>3, NothingRecorded DEF PInv
  <1>4. CASE LeaveStream
    <2>1. /\ stack' = [Popped EXCEPT ![Depth - 1] = Written(Caller)] /\ Depth > 1
          /\ RecordSection(Caller) /\ lastEncode' = lastEncode
      BY <1>4 DEF LeaveStream
    <2>2. Depth # 1
      BY <1>2, <2>1
    <2>3. Caller \in Frame /\ LinkOK(Caller, Top) /\ Caller = stack[Depth - 1]
      BY <1>1, <2>2, CallerFacts
    <2>4. Caller.fn = "scheme" /\ Caller.todo # <<>>
      BY <1>1, <2>3 DEF LinkOK
    <2>. DEFINE g == Written(Caller)
    <2>5. /\ g \in Frame /\ g.fn = "scheme" /\ g.scheme = Caller.scheme /\ g.type = Caller.type
          /\ g.el = Caller.el /\ g.done = Caller.done + 1
      BY <2>3, <2>4, WrittenFields
    <2>6. stack' = [Popped EXCEPT ![Depth - 1] = g]
      BY <2>1
    <2>. HIDE DEF g
    <2>7. CASE Recording(Caller)
      <3>1. Depth - 1 \in 1..Len(stack)
        BY <1>2, <2>1
      <3>2. report = Opened(Caller)
        BY <2>3, <2>7, <3>1 DEF PInv, ReportOK
      <3>3. report' = [report EXCEPT !.sections = @ + 1]
        BY <2>1, <2>7 DEF RecordSection, Records, Recording, SIS
      <3>4. report' = Opened(g)
        BY <2>5, <3>2, <3>3 DEF Opened
      <3>5. /\ Len(stack') = Depth - 1 /\ stack'[Depth - 1] = g
            /\ \A i \in 1..(Depth - 2) : stack'[i] = stack[i]
        BY <2>1, <2>5, <2>6, PopReplaceAt
      <3>6. \A i \in 1..(Depth - 2) : ~Recording(stack[i])
        <4>1. \A i \in 1..(Depth - 2) : i \in 1..Len(stack) /\ i # Depth - 1
          BY <1>2, <2>1
        <4>. QED
          BY <2>3, <2>7, <3>1, <4>1 DEF OneRecording
      <3>7. \A i \in 1..(Depth - 1) : i = Depth - 1 \/ i \in 1..(Depth - 2)
        BY <1>2
      <3>8. \A i \in 1..Len(stack') : Recording(stack'[i]) => report' = Opened(stack'[i])
        BY <3>4, <3>5, <3>6, <3>7
      <3>9. Depth - 1 \in 1..Len(stack') /\ Recording(stack'[Depth - 1])
        BY <1>2, <2>1, <2>5, <2>7, <3>5 DEF Recording
      <3>. QED
        BY <3>8, <3>9 DEF PInv, ReportOK
    <2>8. CASE ~Recording(Caller)
      <3>1. report' = report
        BY <2>1, <2>4, <2>8 DEF RecordSection, Records, Recording, SIS
      <3>2. ~Recording(g)
        BY <2>4, <2>5, <2>8 DEF Recording
      <3>2a. ReportOK(stack, report, lastEncode)
        BY DEF PInv
      <3>2b. ReportOK([Popped EXCEPT ![Depth - 1] = g], report, lastEncode)
        BY <1>1, <2>1, <2>5, <2>8, <3>2, <3>2a, PopReplaceReport
      <3>3. ReportOK(stack', report, lastEncode)
        BY <2>6, <3>2b
      <3>. QED
        BY <2>1, <3>1, <3>3 DEF PInv, ReportOK
    <2>. QED
      BY <2>7, <2>8
  <1>. QED
    BY <1>3, <1>4

\* The report as encode() closes it.
Closed(r, k) == [r EXCEPT !.valid = TRUE, !.sections = IF k = 0 THEN 0 ELSE @]

LEMMA ClosedReport ==
    ASSUME NEW w, NEW n, NEW k \in {0, n}, NEW r,
           r = [width |-> w, sections |-> n, valid |-> FALSE]
    PROVE  Closed(r, k) = [width |-> w, sections |-> k, valid |-> TRUE]
  <1>1. PICK x : x = IF k = 0 THEN 0 ELSE r.sections
    OBVIOUS
  <1>2. x = k
    BY <1>1
  <1>3. PICK yes, no : yes = TRUE /\ no = FALSE
    OBVIOUS
  <1>4. PICK q : q = [r EXCEPT !.valid = yes]
    OBVIOUS
  <1>5. r = [width |-> w, sections |-> n, valid |-> no]
    BY <1>3
  <1>6. q = [width |-> w, sections |-> n, valid |-> yes]
    BY <1>4, <1>5
  <1>7. [q EXCEPT !.sections = k] = [width |-> w, sections |-> k, valid |-> yes]
    BY <1>6
  <1>8. [r EXCEPT !.valid = yes, !.sections = k] = [q EXCEPT !.sections = k]
    BY <1>4
  <1>9. [r EXCEPT !.valid = TRUE, !.sections = IF k = 0 THEN 0 ELSE @]
           = [r EXCEPT !.valid = TRUE, !.sections = k]
    BY <1>1, <1>2
  <1>10. [r EXCEPT !.valid = TRUE, !.sections = k] = [width |-> w, sections |-> k, valid |-> TRUE]
    BY <1>3, <1>7, <1>8
  <1>. QED
    BY <1>9, <1>10 DEF Closed

\* encode() returns: the report is closed and says what was written.
LEMMA ReturnFromReport ==
    ASSUME IInv, PInv, OneRecording(stack), stack # <<>>, Top.fn = "scheme",
           NEW sections \in {0, Top.done}, NEW fits \in BOOLEAN, ReturnFrom(Top, sections, fits)
    PROVE  PInv'
  <1>1. Top \in Frame /\ FrameOK(Top) /\ Depth \in Nat \ {0}
    BY TopFacts
  <1>2. Depth = Len(stack) /\ Top = stack[Depth]
    BY DEF Depth, Top
  <1>3. CASE Recording(Top)
    <2>1. Depth \in 1..Len(stack)
      BY <1>1, <1>2
    <2>2. report = Opened(Top)
      BY <1>2, <1>3, <2>1 DEF PInv, ReportOK
    <2>3. report' = Closed(report, sections)
      BY <1>3 DEF ReturnFrom, CloseReport, Records, Recording, SIS, Closed
    <2>4. lastEncode' = [width |-> Top.type, sections |-> sections, valid |-> TRUE]
      BY <1>3 DEF ReturnFrom, NoteEncode, Recording, SIS
    <2>5. report' = lastEncode'
      <3>1. report = [width |-> Top.type, sections |-> Top.done, valid |-> FALSE]
        BY <2>2 DEF Opened
      <3>2. Closed(report, sections) = [width |-> Top.type, sections |-> sections, valid |-> TRUE]
        BY <3>1, ClosedReport, ZenonT(30)
      <3>. QED
        BY <2>3, <2>4, <3>2
    <2>6. CASE Depth = 1
      <3>1. stack' = <<>>
        BY <2>6 DEF ReturnFrom
      <3>. QED
        BY <2>5, <3>1, NothingRecorded DEF PInv
    <2>7. CASE Depth # 1
      <3>1. PICK g \in Answered(Caller, Top, fits) : stack' = [Popped EXCEPT ![Depth - 1] = g]
        BY <2>7 DEF ReturnFrom
      <3>2. Depth > 1 /\ Caller \in Frame /\ FrameOK(Caller) /\ LinkOK(Caller, Top)
        BY <2>7, CallerFacts
      <3>3. g \in Frame /\ ~Recording(g)
        BY <1>1, <3>1, <3>2, AnsweredOK, CompressRecordsNothing DEF Keeps
      <3>4. /\ Len(stack') = Depth - 1 /\ stack'[Depth - 1] = g
            /\ \A i \in 1..(Depth - 2) : stack'[i] = stack[i]
        BY <3>1, <3>2, <3>3, PopReplaceAt
      <3>5. \A i \in 1..(Depth - 2) : ~Recording(stack[i])
        <4>1. \A i \in 1..(Depth - 2) : i \in 1..Len(stack) /\ i # Depth
          BY <1>1, <1>2
        <4>. QED
          BY <1>2, <1>3, <2>1, <4>1 DEF OneRecording
      <3>6. \A i \in 1..(Depth - 1) : i = Depth - 1 \/ i \in 1..(Depth - 2)
        BY <1>1
      <3>7. \A i \in 1..Len(stack') : ~Recording(stack'[i])
        BY <3>3, <3>4, <3>5, <3>6
      <3>. QED
        BY <2>5, <3>7 DEF PInv, ReportOK
    <2>. QED
      BY <2>6, <2>7
  <1>4. CASE ~Recording(Top)
    <2>1. report' = report /\ lastEncode' = lastEncode
      BY <1>4 DEF ReturnFrom, CloseReport, NoteEncode, Records, Recording, SIS
    <2>2. CASE Depth = 1
      <3>1. stack' = <<>>
        BY <2>2 DEF ReturnFrom
      <3>2. \A i \in 1..Len(stack) : ~Recording(stack[i])
        BY <1>2, <1>4, <2>2
      <3>3. report = lastEncode
        BY <3>2 DEF PInv, ReportOK
      <3>. QED
        BY <2>1, <3>1, <3>3, NothingRecorded DEF PInv
    <2>3. CASE Depth # 1
      <3>1. PICK g \in Answered(Caller, Top, fits) : stack' = [Popped EXCEPT ![Depth - 1] = g]
        BY <2>3 DEF ReturnFrom
      <3>2. Depth > 1 /\ Caller \in Frame /\ FrameOK(Caller) /\ LinkOK(Caller, Top)
        BY <2>3, CallerFacts
      <3>3. g \in Frame /\ ~Recording(g)
        BY <1>1, <3>1, <3>2, AnsweredOK, CompressRecordsNothing DEF Keeps
      <3>4. ~Recording(Caller)
        BY <3>2, CompressRecordsNothing DEF LinkOK
      <3>5. ReportOK(stack', report, lastEncode)
        BY <1>4, <3>1, <3>2, <3>3, <3>4, PopReplaceReport DEF PInv
      <3>. QED
        BY <2>1, <3>5 DEF PInv, ReportOK
    <2>. QED
      BY <2>2, <2>3
  <1>. QED
    BY <1>3, <1>4

LEMMA ReturnReport ==
    ASSUME IInv, PInv, OneRecording(stack), ReturnScheme \/ ReturnRaw
    PROVE  PInv'
  <1>1. stack # <<>> /\ Top.fn = "scheme"
    BY DEF ReturnScheme, ReturnRaw, Running
  <1>2. PICK sections \in {0, Top.done} : \E fits \in BOOLEAN : ReturnFrom(Top, sections, fits)
    BY DEF ReturnScheme, ReturnRaw
  <1>. QED
    BY <1>1, <1>2, ReturnFromReport
LEMMA CallerReport ==
    ASSUME IInv, PInv, Call
    PROVE  PInv'
  <1>1. stack = <<>> /\ estimation_level = 0
    BY DEF Call, SetOverride, CompressColumn, CompressStringColumn, DirectEncode,
           DirectEncodeEmpty, Idle, IInv, LevelsBalanced, levels
  <1>2. report = lastEncode
    BY <1>1, EmptySeq DEF PInv, ReportOK
  <1>3. ASSUME NEW e, ~Recording(e), stack' = <<e>>, report' = report, lastEncode' = lastEncode
        PROVE  PInv'
    BY <1>2, <1>3 DEF PInv, ReportOK
  <1>4. CASE SetOverride
    BY <1>4 DEF SetOverride, PInv, ReportOK, buffers
  <1>5. CASE CompressColumn
    <2>1. PICK t, shape : stack' = <<CompressFrame(t, MaxCascade, AutoScheme, shape)>>
      BY <1>5 DEF CompressColumn
    <2>. DEFINE e == CompressFrame(t, MaxCascade, AutoScheme, shape)
    <2>2. ~Recording(e)
      BY CompressRecordsNothing DEF CompressFrame
    <2>3. report' = report /\ lastEncode' = lastEncode
      BY <1>5 DEF CompressColumn, buffers
    <2>. QED
      BY <1>3, <2>1, <2>2, <2>3
  <1>6. CASE CompressStringColumn
    <2>1. PICK s \in ChosenStrings : \E plan \in Plans("STRING", s) :
             stack' = <<SchemeFrame("STRING", s, MaxCascade, "varied", plan, FALSE)>>
      BY <1>6 DEF CompressStringColumn
    <2>2. PICK plan : stack' = <<SchemeFrame("STRING", s, MaxCascade, "varied", plan, FALSE)>>
      BY <2>1
    <2>. DEFINE e == SchemeFrame("STRING", s, MaxCascade, "varied", plan, FALSE)
    <2>3. s # SIS
      BY ChosenStringsTyped DEF StringSchemes, SIS
    <2>4. e.scheme = s
      BY DEF SchemeFrame
    <2>5. ~Recording(e)
      BY <2>3, <2>4 DEF Recording
    <2>6. report' = report /\ lastEncode' = lastEncode
      BY <1>6 DEF CompressStringColumn, buffers
    <2>. QED
      BY <1>3, <2>2, <2>5, <2>6
  <1>7. CASE DirectEncode
    <2>1. PICK t \in DirectEncodes : \E plan \in Plans(t, "SUB_INT_SPLIT") :
             /\ stack' = <<SchemeFrame(t, "SUB_INT_SPLIT", MaxCascade, "varied", plan, FALSE)>>
             /\ OpenReport(t, estimation_level)
      BY <1>7 DEF DirectEncode
    <2>2. PICK plan : /\ stack' = <<SchemeFrame(t, "SUB_INT_SPLIT", MaxCascade, "varied", plan, FALSE)>>
                      /\ OpenReport(t, estimation_level)
      BY <2>1
    <2>. DEFINE e == SchemeFrame(t, "SUB_INT_SPLIT", MaxCascade, "varied", plan, FALSE)
    <2>3. e.fn = "scheme" /\ e.scheme = SIS /\ e.type = t /\ e.done = 0
            /\ e.el = estimation_level + EstimateLevels(FALSE)
      BY DEF SchemeFrame, SIS
    <2>4. stack' = <<e>>
      BY <2>2
    <2>. HIDE DEF e
    <2>5. e.el = 0
      BY <1>1, <2>3 DEF EstimateLevels
    <2>6. Recording(e)
      BY <2>3, <2>5 DEF Recording
    <2>7. report' = Opened(e)
      BY <1>1, <2>2, <2>3 DEF OpenReport, Records, NoReport, Opened
    <2>. QED
      BY <2>4, <2>6, <2>7 DEF PInv, ReportOK
  <1>8. CASE DirectEncodeEmpty
    <2>1. stack' = <<>> /\ report' = lastEncode'
      BY <1>1, <1>8 DEF DirectEncodeEmpty
    <2>. QED
      BY <2>1, NothingRecorded DEF PInv
  <1>. QED
    BY <1>4, <1>5, <1>6, <1>7, <1>8 DEF Call

LEMMA OneIsRecorded ==
    ASSUME SectionsNeverSplit
    PROVE  OneRecording(stack)
    BY DEF SectionsNeverSplit, Splitting, OneRecording, Recording, SIS, Depth

LEMMA StepReport ==
    ASSUME IInv, PInv, OneRecording(stack), OneRecording(stack'), [Next]_vars
    PROVE  PInv'
  <1>1. CASE Call
    BY <1>1, CallerReport
  <1>2. CASE Step
    <2>1. CASE \/ EnterOneValue \/ EnterUncompressed \/ EnterForced \/ EnterOverridden
               \/ EnterChoose \/ EnterTryAll
      BY <2>1, EnterStep, ReplacesTopReport
    <2>2. CASE \/ SkipCandidate \/ RateCandidate \/ PickCandidate
               \/ RateTrial \/ TrialOfLeaf \/ PickTrial
      BY <2>2, PickStep, ReplacesTopReport
    <2>3. CASE EncodeLeaf \/ KeepEstimate \/ LogRatio
      BY <2>3, ResultStep, ReplacesTopReport
    <2>4. CASE \/ SampleCandidate \/ SampleTrial \/ TrialOfComposite \/ EncodeComposite
               \/ LogRatioBySample
      BY <2>4, CallsReport
    <2>5. CASE LeaveColumn \/ LeaveStream
      BY <2>5, LeaveReport
    <2>6. CASE CompressSubStream
      BY <2>6, SubStreamReport
    <2>7. CASE ReturnScheme \/ ReturnRaw
      BY <2>7, ReturnReport
    <2>. QED
      BY <1>2, <2>1, <2>2, <2>3, <2>4, <2>5, <2>6, <2>7 DEF Step
  <1>3. CASE UNCHANGED vars
    BY <1>3 DEF vars, buffers, PInv, ReportOK
  <1>. QED
    BY <1>1, <1>2, <1>3 DEF Next

\* Unless a real encode() is running, lastPlanReport() tells of the last one,
\* with its width and number of sections: no estimate, nested or not, and no
\* re-estimate for the log has written over it.  As long as SUB_INT_SPLIT is
\* not forced: an encode() inside another one would count into its report.
THEOREM ReportIsOfLastEncode == NoForcedSplit /\ Spec => []ReportIsLastEncode
  <1>1. Init => PInv
    BY NothingRecorded DEF Init, PInv
  <1>2. IInv /\ PInv /\ SectionsNeverSplit /\ SectionsNeverSplit' /\ [Next]_vars => PInv'
    <2>1. SectionsNeverSplit' => OneRecording(stack')
      BY DEF SectionsNeverSplit, Splitting, OneRecording, Recording, SIS, Depth
    <2>. QED
      BY <2>1, OneIsRecorded, StepReport
  <1>3. NoForcedSplit /\ Spec => []PInv
    BY <1>1, <1>2, Invariance, SectionsAreNeverSplit, PTL DEF Spec
  <1>4. IInv /\ PInv => ReportIsLastEncode
    <2>1. SUFFICES ASSUME IInv, PInv, \A i \in 1..Depth : Splitting(i) => stack[i].el > 0
                   PROVE  report = lastEncode
      BY DEF ReportIsLastEncode
    <2>2. \A i \in 1..Len(stack) : ~Recording(stack[i])
      BY <2>1 DEF Recording, Splitting, SIS, Depth
    <2>. QED
      BY <2>1, <2>2 DEF PInv, ReportOK
  <1>. QED
    BY <1>3, <1>4, Invariance, PTL
===============================================================================
