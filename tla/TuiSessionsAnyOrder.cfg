SPECIFICATION Spec
CONSTANTS
    MaxSessions = 3
    MaxTasks = 1
    MaxPrompts = 1
    Keys = {"submit", "interrupt", "approve", "deny", "answer", "pick", "cycle", "new", "spawn", "switch", "close", "resume", "clear", "import"}
    Patient = FALSE
INVARIANTS
    DirectoryConsistent
