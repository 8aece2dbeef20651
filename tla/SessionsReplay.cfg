CONSTANTS
    s1 = s1
    s2 = s2
    s3 = s3
    s4 = s4
    r1 = r1
    r2 = r2
    r3 = r3
    phone = phone
    phoneRoaming = phoneRoaming
    laptop = laptop
    None = None
    SessionIds = {s1, s2, s3}
    Users = {u1}
    Clients = {}
    SignInClients = {None}
    Origins = {phone, laptop}
    Addr <- MCAddr
    Device <- MCDevice
    Reqs = {r1, r2}
    Ttls = {2}
    MaxLifetime = 3
    Grace = 0
    StrictBinding = FALSE
    ReadErrors = FALSE
    MaxTime = 1
SYMMETRY Symmetry
SPECIFICATION Spec
CHECK_DEADLOCK FALSE
INVARIANTS
    CompromisedFamilyIsDead
