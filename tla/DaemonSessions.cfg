SPECIFICATION Spec
CONSTANTS
    Ids = {a, b}
    NoId = NoId
    Calls = {x}
    NoCall = NoCall
    MaxRuns = 3
    Impatient = FALSE
    Pruned = {"Idle", "Done", "Failed"}
INVARIANTS
    RunsTracked
    WaitingIsIdle
    NeverAskedTwice
    QuestionAnswerable
    StoresAgree
PROPERTIES
    EofEnds
