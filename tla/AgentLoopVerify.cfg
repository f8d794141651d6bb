SPECIFICATION Spec
CONSTANTS
    None = None
    MaxTurns = 5
    MaxRuns = 1
    FixCap = 2
    ErrorCap = 3
    StuckThreshold = 3
    Budget = 0
    WarnAt = 0
    Tools = {"edit", "change", "verify", "done", "other"}
    Labels = {l1}
    Sigs = {s1, s2}
    Verdicts <- AllVerdicts
    Errors = {}
    TurnCosts = {0}
    GateCosts = {0}
    AutoVerify = TRUE
    AutoFix = TRUE
    GoalGate = FALSE
    AutoGrade = FALSE
    MayCancel = FALSE
    HooksMayFail = FALSE
    DeleteMayFail = FALSE
    Compaction = TRUE
    InitialMarkers = {"none", "passed"}
INVARIANTS
    TypeOK
    DoneNeverBlind
    FailedFlushBlocksDone
    VerifyBreakers
