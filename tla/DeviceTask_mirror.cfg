SPECIFICATION FairSpec
CONSTANTS
    PhysAddrs = {p1}
    NoPhys = NoPhys
    LogAddrs = {l1, l2}
    NoLog = NoLog
    CapPhysAddr = TRUE
    CapLogAddrs = TRUE
    Faults = {"rx", "read", "emit", "configure"}
    LOG_ADDR_RETRIES = 2
    WAKE_TRIES = 2
    MaxHotplugs = 2
    MaxMessages = 1
INVARIANTS TypeOK RetryBound CacheFresh TxAddrFresh RetriesContinue
PROPERTIES Settles EndsWhenGone
