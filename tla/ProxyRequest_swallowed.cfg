SPECIFICATION Spec
CONSTANT Confs <- Swallowed
PROPERTY EveryRequestAnswered
CHECK_DEADLOCK FALSE
