SPECIFICATION Spec
CONSTANTS
    Spawned = {a}
    a = a
    Main = main
    None = None
    Processes = {"terminal", "daemon"}
    MaxRounds = 2
    MaxTasks = 1
PROPERTIES
    LiveTreeStays
CHECK_DEADLOCK FALSE
