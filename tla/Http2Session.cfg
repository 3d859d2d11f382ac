CONSTANTS
    Requests = {r1, r2, r3}
    MaxSessions = 3
    Holders = 2
SPECIFICATION Spec
INVARIANTS
    TypeOK
    CallbacksAreOwed
    OneSession
PROPERTIES
    WaitersSettle
    CleanSettles
CHECK_DEADLOCK FALSE
