CONSTANTS
    Domains = {w, d}
    Wildcard = w
    AdminKinds = {"virtualHost", "apiGateway"}
    MaxStores = 5
    MaxPending = 2
    MaxFailures = 1
    Unreadable = {2}
    Unwritable = {3}
SPECIFICATION Spec
INVARIANTS
    TypeOK
    TableFollowsRepository
PROPERTIES
    RestartKeepsTable
CHECK_DEADLOCK FALSE
