\* Three devices, one of them the phone on another network, sessions bound to their address.
CONSTANTS
    s1 = s1
    s2 = s2
    s3 = s3
    s4 = s4
    r1 = r1
    r2 = r2
    r3 = r3
    phone = phone
    phoneRoaming = phoneRoaming
    laptop = laptop
    None = None
    SessionIds = {s1, s2}
    Users = {u1}
    Clients = {}
    SignInClients = {None}
    Origins = {phone, phoneRoaming, laptop}
    Addr <- MCAddr
    Device <- MCDevice
    Reqs = {r1, r2}
    Ttls = {1}
    MaxLifetime = 1
    Grace = 0
    StrictBinding = TRUE
    ReadErrors = FALSE
    MaxTime = 1
SYMMETRY Symmetry
SPECIFICATION Spec
CHECK_DEADLOCK FALSE
INVARIANTS
    RetriesAreForgiven
