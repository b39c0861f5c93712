SPECIFICATION AdminSpec
CONSTANTS
    Transports = {p, q}
    Tables = {a, b}
    Requests = {r1, r2}
    None = None
    MaxFaults = 1
    p = p
    q = q
    a = a
    b = b
    r1 = r1
    r2 = r2
SYMMETRY Symmetry
PROPERTIES ReferencesBreakByRace EditsMakeNoCopies OnlyRenamesLose OrphansAreNew
