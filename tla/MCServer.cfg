SPECIFICATION FairSpec
CONSTANTS
    Transports = {t1, t2, t3, t4}
    Enabled = {t1, t2, t4}
    Supported = {t1, t2, t3}
    NATSTransports = {t1}
    t1 = t1
    t2 = t2
    t3 = t3
    t4 = t4
INVARIANTS ReadyMeansConnected LiveUntouched StoreClosedLast CleanExit
PROPERTY ShutdownCompletes
