SPECIFICATION Spec
CONSTANT MaxUpstreams = 4
INVARIANT TypeOK
INVARIANT TurnsInOrder
PROPERTY FindsAvailableHost
PROPERTY NoOvertaking
