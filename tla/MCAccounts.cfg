SPECIFICATION Spec
SYMMETRY Symmetry
CONSTANTS
    u1 = u1  u2 = u2  t1 = t1  t2 = t2  p1 = p1  p2 = p2
    Users = {u1, u2}
    Tokens = {t1, t2}
    Procs = {p1, p2}
    NoUser = NoUser
    NoToken = NoToken
    Nobody = Nobody
    Arrivals = 4
INVARIANTS
    TokenConsumedOnce
    ReissueInvalidates
    
    AdminGrantJustified
    
    ErasureComplete
CHECK_DEADLOCK FALSE
