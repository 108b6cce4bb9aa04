SPECIFICATION AllSpec
CONSTANTS
    c1 = c1
    c2 = c2
    o1 = o1
    o2 = o2
    Owners = {o1, o2}
    FileKeys <- SomeFiles
    ExportIds <- SomeExports
    Jobs = {j1, j2}
    Hands = {h1, h2}
    MaxTries = 2
    MaxFaults = 1
    RowIds = {1, 2, 3}
    RowOwners = {"ana", "ben"}
    MaxInstant = 1
    PageSizes = {1, 2}
    Calls = {c1, c2}
    Routes = {"login"}
    Addresses = {"near", "far"}
    Emails = {"ana"}
    Window = 2
    MaxPerAddress = 1
    MaxPerAccount = 1
    MaxKeys = 2
    Skew <- SomeSkew
    MaxSkew = 1
    MaxClock = 3
    MaxCalls = 3
    Deployments <- SomeDeployments
SYMMETRY Symmetry
INVARIANTS
    StorageConsistent
    
    WalkFaithful
    
    PolicyHeaders
    RequestTraced
    CookieFromTrusted
CHECK_DEADLOCK FALSE
