SPECIFICATION Spec
CONSTANTS
    MaxSessions = 2
    MaxTasks = 2
    MaxPrompts = 2
    Keys = {"submit", "interrupt", "approve", "answer", "new", "switch", "close", "resume", "clear"}
    Patient = TRUE
INVARIANTS
    BusyMeansWorking
    
    PanelsBelong
    
PROPERTIES
    QueueDrains
