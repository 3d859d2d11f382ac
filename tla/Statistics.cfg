CONSTANTS
    Backends = {"memory", "redis"}
    Processes = {p1, p2}
    Statuses = {200, 503}
    Timings = {1, 2, 6}
    MaxServed = 3
SPECIFICATION Spec
INVARIANTS
    TypeOK
    CountsAddUp
    LatencyWithinTimings
    LastRequestOfProcess
    LatencyDrifts
CHECK_DEADLOCK FALSE
