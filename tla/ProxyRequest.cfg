SPECIFICATION Spec
CONSTANT Confs <- AllConfs
INVARIANT TypeOK
INVARIANT StatMatchesReply
INVARIANT FailureIsFinal
PROPERTY KeepsPromise
PROPERTY BoundedRequestsAnswered
PROPERTY UpstreamReleased
CHECK_DEADLOCK FALSE
