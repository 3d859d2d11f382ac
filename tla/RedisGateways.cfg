CONSTANTS
    Domains = {w, d}
    Wildcard = w
    AdminKinds = {"virtualHost", "apiGateway"}
    Unreadable = {8}
    Unwritable = {9}
    MaxRequests = 3
    MaxBreaks = 1
SPECIFICATION Spec
INVARIANTS
    TypeOK
    TableFollowsRedis
CHECK_DEADLOCK FALSE
