SPECIFICATION Spec
CONSTANTS
    Sessions = {s1, s2}
    Tables = {t1}
    Polls = {p1, p2}
    Buckets = 2
    MaxDispatched = 2
    None = None
    Unreachable = Unreachable
    ProxyError = ProxyError
    s1 = s1
    s2 = s2
    t1 = t1
    p1 = p1
    p2 = p2
INVARIANTS SnapshotIsJSON
