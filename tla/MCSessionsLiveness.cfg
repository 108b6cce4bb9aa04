SPECIFICATION FairSpec
CONSTANTS
    t1 = t1
    t2 = t2
    t3 = t3
    t4 = t4
    r1 = r1
    r2 = r2
    Tokens = {t1, t2}
    Requests = {r1, r2}
    Lifetime = 1
    Retention = 0
    PurgeBatch = 1
    MaxTime = 1
    NoToken = NoToken
    Nobody = Nobody
PROPERTY
    RequestsReturn
