SPECIFICATION Spec
CONSTANTS
    Domains = {"a", "*"}
    Wildcard = "*"
    Workers = {w1, w2}
    AdminKinds = {"virtualHost"}
    MaxStores = 3
    MaxPending = 2
    MaxFailures = 1
    Unreadable = {2}
    Unwritable = {}
INVARIANT TypeOK
INVARIANT WorkersAgree
INVARIANT WorkersFollowRepository
INVARIANT DurableWhenIdle
PROPERTY WorkersSettle
CHECK_DEADLOCK FALSE
