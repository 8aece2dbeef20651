\* One code of a client that allows one session, two handlers, pools of two and three connections.
CONSTANTS
    c1 = c1
    c2 = c2
    s1 = s1
    s2 = s2
    s3 = s3
    r1 = r1
    r2 = r2
    r3 = r3
    app = app
    None = None
    Codes = {c1}
    Clients = {app}
    ClientOf <- MCClientOf
    SessionIds = {s1, s2}
    Reqs = {r1, r2}
    Limit = 1
    Pools = {2, 3}

SPECIFICATION FairSpec
CHECK_DEADLOCK FALSE
INVARIANTS
    OneDeliveryPerCode
    
    SessionLimitHeld
PROPERTIES
    RequestsFinish
