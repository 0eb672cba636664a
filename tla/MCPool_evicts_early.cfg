CONSTANTS
    k1 = k1
    k2 = k2
    u1 = u1
    u2 = u2
    u3 = u3
    Keys = {k1, k2}
    Callers = {u1, u2, u3}
    KeyOf <- SharedKeyOf
    Conns = {c1, c2, c3}
    HealthyKeys = {k1}
    NoConn = NoConn
    NoCaller = NoCaller
    MaxPoolSize = 2
    IdleEvictThreshold = 2
    MaxGets = 2
SPECIFICATION Spec
PROPERTY EvictsOnlyWhenFull
CHECK_DEADLOCK FALSE
