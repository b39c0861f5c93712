SPECIFICATION WakeSpec
CONSTANTS
    Initial = 1
    Factor = 2
    Cap = 1
    Jitter = 50
    MaxRestarts = 0
    AbsorbsCancel = TRUE
    CoreTables = {c1}
    JetStreamTables = {j1}
    c1 = c1
    j1 = j1
INVARIANTS OldClientsGone StaleUpIsNoticed CoreTablesFed
PROPERTIES NATSKeepsContract BrokenSessionEnds
