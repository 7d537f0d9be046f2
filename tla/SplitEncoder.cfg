SPECIFICATION Spec
CONSTANTS
    ValueBits = 4
    StorageBits = 8
    Headers <- HeaderBits
    PositionBits = 2
    RunBits = 1
    DirectBits = 2
    UniqueCap = 2
    Configs <- Settings
    Inputs <- Columns
    Texts <- ForcedTexts
    MiniSize = 1
    MinisPerBlock = 2
    Schemes = {"BP", "PFOR", "UNCOMPRESSED"}
    ValueBytes = 20
    Addresses = {0, 3, 8}
    MaxPositions = 2
INVARIANTS TypeOK SampleSound PlanTiles PlanIsCheapest SectionsReadBack
