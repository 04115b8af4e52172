SPECIFICATION FairSpec
CONSTANTS
    Devices = {d1, d2}
    Capacity = 2
    SuspendMayFail = TRUE
    DelayExpires = FALSE
    MaxSuspends = 1
    MaxStandbys = 2
    MaxCalls = 1
INVARIANTS TypeOK StandbyMeansSuspending
PROPERTIES NoEcho SleepComes FlagClears
