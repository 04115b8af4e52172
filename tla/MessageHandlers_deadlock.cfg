SPECIFICATION FairSpec
CONSTANTS
    Clients = {c1, c2}
    Opcodes = {o1, o2}
    StaticHandlers = {}
    Tasks = {t1, t2}
    NoTask = NoTask
    NoClient = NoClient
    Faults = {"subscribe"}
    LeavesEarly = FALSE
PROPERTIES CallsReturn
CHECK_DEADLOCK FALSE
