SPECIFICATION Spec
CONSTANTS
    NumColumns = 2
    Tuples <- Tables
    BlockSize = 2
    MaxChunkCount = 9
    Threshold = 40
    ChunkSizes = {20, 33, 41}
    Selections <- Flags
    MaxReads = 2
INVARIANT PartsFit
CHECK_DEADLOCK FALSE
