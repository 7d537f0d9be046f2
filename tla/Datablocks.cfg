SPECIFICATION Spec
CHECK_DEADLOCK FALSE
CONSTANTS
    SlotBytes = 2
    OffsetBatch = 4
    RunViews = 2
    ValueViews = 4
    SimdExtra = 16
    FsstOverrun = 3
    DictHeader = 1
    DictFsstSize = 5
    FsstThreshold = 6
    CodeLimit = 2
    RleHeader = 5
    CodesDepth = 2
    CodesTryAll = FALSE
    StringSchemes = {"ONE_VALUE", "UNCOMPRESSED", "DICT", "FSST", "DICTIONARY_8"}
    Tables <- CsvTables
    Configs <- StringConfigs
    MetaSize = 2
    BiasSize = 1
    AfterSizes = {1, 3}
    MapSizes = {1, 2}
INVARIANTS TypeOK TableReadBack SizesRight ColumnsTile
