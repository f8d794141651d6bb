SPECIFICATION Spec
CONSTANTS
    None = None
    MaxTurns = 5
    MaxRuns = 1
    FixCap = 2
    ErrorCap = 3
    StuckThreshold = 2
    Budget = 3
    WarnAt = 2
    Tools = {"edit", "done", "other"}
    Labels = {l1}
    Sigs = {s1, s2}
    Verdicts <- AllVerdicts
    Errors <- AllErrors
    TurnCosts = {0, 1}
    GateCosts = {1}
    AutoVerify = FALSE
    AutoFix = FALSE
    GoalGate = TRUE
    AutoGrade = TRUE
    MayCancel = TRUE
    HooksMayFail = TRUE
    DeleteMayFail = FALSE
    Compaction = FALSE
    InitialMarkers = {"none"}
INVARIANTS
    RepetitionBreakers
    CancelStops
    BudgetHolds
