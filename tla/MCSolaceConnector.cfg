SPECIFICATION SolaceSpec
CONSTANTS
    Initial = 1
    Factor = 2
    Cap = 4
    Jitter = 50
    MaxRestarts = 0
    AbsorbsCancel = FALSE
INVARIANTS StopClosesService
PROPERTIES SolaceImplementsBase NewServiceAfterOld
