\* Two handlers at once, three sessions, one client application, failing reads.
CONSTANTS
    s1 = s1
    s2 = s2
    s3 = s3
    s4 = s4
    r1 = r1
    r2 = r2
    r3 = r3
    phone = phone
    phoneRoaming = phoneRoaming
    laptop = laptop
    None = None
    SessionIds = {s1, s2, s3}
    Users = {u1}
    Clients = {app}
    SignInClients = {app}
    Origins = {phone}
    Addr <- MCAddr
    Device <- MCDevice
    Reqs = {r1, r2}
    Ttls = {1}
    MaxLifetime = 1
    Grace = 1
    StrictBinding = FALSE
    ReadErrors = TRUE
    MaxTime = 1
SYMMETRY Symmetry
SPECIFICATION Spec
CHECK_DEADLOCK FALSE
INVARIANTS
    OneLiveSessionPerFamily
    RotationChain
    OnlySpentTokensCondemn
PROPERTIES
    ImplementsFamilies
