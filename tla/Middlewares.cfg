CONSTANTS
    Requests = {r1, r2}
    NoRequest = none
    GlobalLists <- MCGlobalLists
    OwnLists <- MCOwnLists
    Clients <- MCClients
    MaxUpdates = 1
    MaxLength = 3
SPECIFICATION Spec
INVARIANTS
    TypeOK
    HooksInTurn
    InterceptedNeverForwarded
    EncodedAsAnnounced
CHECK_DEADLOCK FALSE
