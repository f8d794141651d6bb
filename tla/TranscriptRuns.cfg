SPECIFICATION Spec
CONSTANTS
    CallIds = {x, y}
    x = x
    y = y
    KeepTail = 2
    MaxRuns = 3
    MaxHalts = 2
    MaxLog = 5
INVARIANTS
    RequestsWellPaired
    SavedAnswered
    ObjectiveKept
    ApprovedOnce
PROPERTIES
    FoldingKeepsPairs
CHECK_DEADLOCK FALSE
