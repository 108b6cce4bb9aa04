SPECIFICATION FairSpec
CONSTANTS
    r1 = r1
    r2 = r2
    Requests <- MCRequests
    Offered <- MCOffered
INVARIANTS
    
    CleanExit
    
    NoFalseReady
PROPERTIES
    DisposedLast
    NothingHangs
