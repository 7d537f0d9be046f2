SPECIFICATION Spec
CONSTANTS
    NarrowBits = 3
    CodeBits = 1
    BlockSize = 2
    MaxExponent = 1
    MaxSections = 2
    NegZero <- MinusZero
    Inputs <- Chunks
    Pool = {"RLE", "DICT", "FREQUENCY", "DICTIONARY_8", "BP", "PFOR_DELTA", "FOR", "TRUNCATION_8", "SUB_INT_SPLIT", "BP64", "PSEUDODECIMAL", "DOUBLE_BP"}
    CascadeDepth = 2
    Leftovers = {1}
    MaxRows = 3
INVARIANTS TypeOK RoundTrip GatherAgrees SignOfZeroKept
