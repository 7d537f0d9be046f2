---------------------------- MODULE MCSplitEncoder ----------------------------
(* Columns of up to five rows of four bits: constant, sorted and mixed, with *)
(* and without nulls; blocks of two values, in two mini blocks.              *)
EXTENDS SplitEncoder

Columns ==
    {[values |-> <<>>, present |-> <<>>],
     [values |-> <<5, 5, 5>>, present |-> <<TRUE, TRUE, TRUE>>],
     [values |-> <<0, 12, 15, 3, 8>>, present |-> <<TRUE, TRUE, TRUE, TRUE, TRUE>>],
     [values |-> <<1, 1, 2, 2, 3>>, present |-> <<FALSE, TRUE, TRUE, FALSE, TRUE>>],
     [values |-> <<8, 9, 10, 11, 8>>, present |-> <<TRUE, FALSE, FALSE, TRUE, FALSE>>],
     [values |-> <<4, 12, 4, 12>>, present |-> <<FALSE, FALSE, FALSE, TRUE>>],
     [values |-> <<7, 7, 7, 6>>, present |-> <<FALSE, FALSE, FALSE, FALSE>>],
     [values |-> <<14, 6>>, present |-> <<TRUE, TRUE>>]}

AllModels == {"UNCOMPRESSED", "BP", "ONE_VALUE", "FREQUENCY", "DICT", "RLE"}
Setting(rows, block, min, max, sections, penalty, models) ==
    [maxSamples |-> rows, blockSize |-> block, minSectionBits |-> min, maxSectionBits |-> max,
     maxSections |-> sections, splitPenalty |-> penalty, models |-> models]
Settings ==
    {Setting(4, 2, 1, 4, 3, 1, AllModels), Setting(0, 0, 1, 4, 4, 0, AllModels),
     Setting(3, 2, 2, 3, 2, 2, AllModels), Setting(2, 0, 1, 2, 1, 1, AllModels),
     Setting(5, 1, 1, 3, 2, 1, {"ONE_VALUE"}), Setting(4, 4, 1, 4, 4, 1, {"BP", "RLE"})}

HeaderBits == [BP |-> 3, FREQUENCY |-> 2, DICT |-> 4, RLE |-> 4]

Part(from, to) == [from |-> from, to |-> to, readable |-> TRUE]
Unreadable == [from |-> 0, to |-> 3, readable |-> FALSE]
ForcedTexts ==
    {<<Part(0, 1), Part(2, 3)>>, <<Part(0, 0), Part(1, 3)>>, <<Part(0, 3)>>, <<>>, <<Unreadable>>,
     <<Part(0, 2)>>, <<Part(0, 0), Part(2, 3)>>, <<Part(0, 4)>>, <<Part(0, 2), Part(1, 3)>>}
=============================================================================
