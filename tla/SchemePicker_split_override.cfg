\* see README.md, "Runs"
CONSTANTS
    Pool <- WidePool
    MaxCascade = 3
    FsstCascade = 1
    MaxSections = 2
    Selection = "SAMPLE"
    ForceValues = "AUTO"
    ForceCounts = "BP"
    ForceDoubleCounts = "AUTO"
    ForceCodes = "AUTO"
    Columns = {"BIGINT"}
    DirectEncodes = {}
    Overridable <- SplitOverride
SPECIFICATION Spec
INVARIANTS
    SectionsNeverSplit
