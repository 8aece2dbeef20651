\* A client told to wait comes back when it was told to.
SPECIFICATION Spec
CONSTANTS
    Parts = {"rate"}
    Reqs = {r1, r2}
    MaxRequests = 5
    None = None
    \* Enrolment
    MaxEnrolment = 3
    UserSessions = {s1}
    Credentials = {c1, c2}
    MAX_PASSKEYS = 2
    MAX_SETUP_FAILURES = 1
    \* AccessItems
    Passkeys = {k1}
    MaxCount = 2
    MAX_FAILURES_BY_IP = 1
    MaxExternal = 4
    Browsers = {b1, b2}
    Users = {u1, u2}
    Subjects = {x1}
    MAX_ACTIVE = 1
    \* RegisteredClients
    MaxClients = 4
    ClientIds = {a1}
    MAX_CLIENT_AUTH_FAILURES = 1
    \* Reauth
    OwnSessions = {o1, o2}
    MaxReauth = 4
    StolenSession = thief
    LOCKOUT_THRESHOLD = 2
    CEILING_FACTOR = 3
    FAIL_TTL = 2
    MaxTicks = 4
    \* RateLimit
    Window = 4
    Second = 1
    RequestsPerMinute = 3
    AuthRequestsPerMinute = 2
    Addresses <- MCAddresses
    FailOpen = FALSE
    AllowWithoutIp = TRUE
    MaxNow = 13
    \* AuditLog
    Nobody = Nobody
    People = {p1}
    Instances = {i1, i2}
    Retentions = {0, 1}
    FLOOR_MONTHS = 2
    LOOKAHEAD_MONTHS = 1
    ADDRESS_AGE = 0
    UNVERIFIED_AGE = 0
    SWEEP_BATCH = 1
    MAX_BATCHES = 2
    PageLimits = {0, 1}
    MAX_LIMIT = 2
    MaxEntries = 3
    MaxMonth = 3
    MaxUpkeep = 2
    MaxReading = 2
    MaxIdle = 1
CHECK_DEADLOCK FALSE
INVARIANT WaitingFindsASlot
