\* see README.md, "Runs"
CONSTANTS
    Pool <- ColumnPool
    MaxCascade = 3
    FsstCascade = 2
    MaxSections = 2
    Selection = "SAMPLE"
    ForceValues = "AUTO"
    ForceCounts = "BP"
    ForceDoubleCounts = "RLE"
    ForceCodes = "DICT"
    Columns = {"INTEGER", "DOUBLE", "STRING"}
    DirectEncodes = {"INTEGER"}
    Overridable <- StringOverride
SPECIFICATION FairSpec
INVARIANTS
    TypeOK
    LevelsBalanced
    CascadeDecreases
    SectionsNeverSplit
    SectionScratchIntact
    ReportIsLastEncode
    HotPathNeverGrows
    CodeNamesBytes
    PickSucceeds
PROPERTIES
    ColumnsFinish
