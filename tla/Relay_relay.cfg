SPECIFICATION Spec
CONSTANTS
    Callers = {task, client}
    Task = task
    Values = {v1, v2}
    MaxPending = 1
    MaxQueue = 3
    MaxPolls = 2
INVARIANT StatusStillTrue
PROPERTIES
    RelaysCalls
    EveryWaitEnds
CHECK_DEADLOCK FALSE
