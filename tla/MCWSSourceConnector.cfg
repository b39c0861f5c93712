SPECIFICATION WSSpec
CONSTANTS
    Initial = 1
    Factor = 2
    Cap = 4
    Jitter = 50
    MaxRestarts = 0
    AbsorbsCancel = TRUE
    HasTables = TRUE
    MaxBuffer = 3
INVARIANT OneSocket
PROPERTIES WSImplementsBase NothingReadAfterStop ClosedSocketIsNoticed
