SPECIFICATION LoopSpec
CONSTANTS
    Initial = 10
    Factor = 2
    Cap = 600
    Jitter = 50
    MaxRestarts = 2
    AbsorbsCancel = TRUE
INVARIANTS StopReleases NoTwoDisconnects LeaksOnlyWhenStopping UpMeansServing
PROPERTIES NoConnectAfterStop DelayFallsOnSuccess KeepsContract StopEnds Recovers
