SPECIFICATION Spec
CONSTANTS
    PhysAddrs = {p1, p2}
    NoPhys = NoPhys
    LogAddrs = {l1}
    NoLog = NoLog
    CapPhysAddr = FALSE
    CapLogAddrs = TRUE
    Faults = {}
    LOG_ADDR_RETRIES = 2
    WAKE_TRIES = 2
    MaxHotplugs = 2
    MaxMessages = 1
SYMMETRY Symmetry
INVARIANTS NoStrandedCallback
