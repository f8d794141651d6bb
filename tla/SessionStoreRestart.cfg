SPECIFICATION Spec
CONSTANTS
    Spawned = {a}
    a = a
    Main = main
    None = None
    Processes = {"terminal"}
    MaxRounds = 3
    MaxTasks = 2
INVARIANTS
    GoneIsNoticed
    ClosedStaysClosed

    
    
CHECK_DEADLOCK FALSE
