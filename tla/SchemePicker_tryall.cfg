\* see README.md, "Runs"
CONSTANTS
    Pool <- WidePool
    MaxCascade = 3
    FsstCascade = 1
    MaxSections = 2
    Selection = "TRY_ALL"
    ForceValues = "AUTO"
    ForceCounts = "BP"
    ForceDoubleCounts = "AUTO"
    ForceCodes = "AUTO"
    Columns = {"BIGINT"}
    DirectEncodes = {"BIGINT"}
    Overridable <- RleOverride
SPECIFICATION Spec
INVARIANTS
    PickSucceeds
