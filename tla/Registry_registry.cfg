SPECIFICATION Spec
CONSTANTS
    Paths = {p1}
    MaxOpens = 2
    MaxReloads = 2
    MaxPlugs = 2
    Backlog = 1
INVARIANTS
    NoCircularWait
    NoReloadLost
    OneServer
    PublishedIsOwned
CHECK_DEADLOCK FALSE
