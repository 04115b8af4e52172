SPECIFICATION FairSpec
CONSTANTS
    Clients = {c1, c2}
    Opcodes = {o1, o2}
    StaticHandlers = {o2}
    Tasks = {t1, t2, t3}
    NoTask = NoTask
    NoClient = NoClient
    Faults = {"proxy", "emit"}
    LeavesEarly = FALSE
INVARIANTS HandlerWatched GoneIsNoticed NothingUnannounced
PROPERTIES OnlyOwnersLose CallsReturn CleanedUp
