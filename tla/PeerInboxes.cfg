SPECIFICATION Spec
CONSTANTS
    Sessions = {s1, s2, s3}
    NoSession = NoSession
    MaxHandles = 3
    MaxRuns = 2
    MaxMessages = 2
SYMMETRY Alike
INVARIANTS
    DeliveredOnce
    InOrder
    KinOnly
CHECK_DEADLOCK FALSE
