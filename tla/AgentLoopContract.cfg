SPECIFICATION Spec
CONSTANTS
    None = None
    MaxTurns = 2
    MaxRuns = 3
    FixCap = 2
    ErrorCap = 3
    StuckThreshold = 3
    Budget = 2
    WarnAt = 0
    Tools = {"edit", "change", "verify", "done", "other"}
    Labels = {l1}
    Sigs = {s1}
    Verdicts <- AllVerdicts
    Errors <- AllErrors
    TurnCosts = {1}
    GateCosts = {0}
    AutoVerify = TRUE
    AutoFix = TRUE
    GoalGate = TRUE
    AutoGrade = TRUE
    MayCancel = TRUE
    HooksMayFail = TRUE
    DeleteMayFail = FALSE
    Compaction = FALSE
    InitialMarkers = {"none"}
PROPERTIES
    ImplementsRunContract
