SPECIFICATION Spec
CONSTANTS
    t1 = t1
    t2 = t2
    t3 = t3
    t4 = t4
    r1 = r1
    r2 = r2
    Tokens = {t1, t2, t3}
    Requests = {r1}
    Lifetime = 1
    Retention = 1
    PurgeBatch = 2
    MaxTime = 3
    NoToken = NoToken
    Nobody = Nobody
SYMMETRY TokenSymmetry
INVARIANT
    NoSessionLeft
PROPERTIES
    RevocationComplete
    PurgeKeepsRecent
