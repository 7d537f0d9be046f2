SPECIFICATION FairSpec
CONSTANTS
    NumParts <- Parts
    Columns <- Selected
    Reps = 1
    NumBuffers = 2
    NodeLimit = 2
    Addresses = {1, 2}
INVARIANTS TypeOK BufferHasOneUser EachPartOnce StreambufOutlivesStream
PROPERTIES Terminates
