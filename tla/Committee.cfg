SPECIFICATION Spec
CONSTANTS
    MaxTurns = 4
    MaxPasses = 2
    Budget = 3
    TurnCosts = {0, 1}
    Diffs = {d1, d2}
    d1 = d1
    d2 = d2
    CanAsk = TRUE
    None = None
INVARIANTS
    RequestLimits
    BlockHolds
    CancelStops
PROPERTIES
    ImplementsRunContract
