SPECIFICATION BothSpec
SYMMETRY Symmetry
CONSTANTS
    u1 = u1
    t1 = t1
    t2 = t2
    p1 = p1
    p2 = p2
    Users = {u1}
    Tokens = {t1, t2}
    Procs = {p1, p2}
    Ttl = 2
    Lifetime = 2
    MaxSize = 1
    Changes = 2
    Ids = {1, 2}
    People = {"ana", "ben"}
    Services = {"bot"}
    MaxLimit = 2
    Batches <- SomeBatches
    NoUser = NoUser
    NoToken = NoToken
INVARIANT
    OutlivedTokenDetected
