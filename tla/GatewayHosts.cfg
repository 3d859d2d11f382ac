CONSTANTS
    w1 = w1
    w2 = w2
    w3 = w3
    n1 = n1
    n2 = n2
    Names = {n1, n2}
    Wild = {w1, w2, w3}
    MatchesName <- AllMatches
    Saved <- PlainDomains
    MaxChanges = 4
SPECIFICATION HostsSpec
INVARIANTS
    HostsTypeOK
PROPERTIES
    KeepsTable
CHECK_DEADLOCK FALSE
