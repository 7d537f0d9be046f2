\* see README.md, "Runs"
CONSTANTS
    Pool <- SplitPool
    MaxCascade = 3
    FsstCascade = 1
    MaxSections = 2
    Selection = "SAMPLE"
    ForceValues = "BP"
    ForceCounts = "BP"
    ForceDoubleCounts = "AUTO"
    ForceCodes = "AUTO"
    Columns = {"INTEGER"}
    DirectEncodes = {}
    Overridable <- NoOverride
SPECIFICATION Spec
INVARIANTS
    RleValuesForced
