SPECIFICATION Spec
CONSTANTS
    Chats = {c1, c2}
    NoChat = NoChat
    MaxRuns = 2
    MaxQueued = 1
    MaxUnread = 2
INVARIANTS
    
    OneDaemon
    HandedOnce
    CallsPending
