\* Every revocation, one session, Redis failing, checks faster than the cache lifetime.
CONSTANTS
    c1 = c1
    c2 = c2
    h1 = h1
    h2 = h2
    None = None
    Sessions = {s1}
    FirstParty = {s1}
    Checks = {c1, c2}
    Handlers = {h1}
    Kinds = {"logout", "single", "listed", "returning", "rotate"}
    CacheTtl = 2
    TokenTtl = 5
    SessionTtl = 3
    MaxCheck = 1
    RedisFails = TRUE
    MaxTime = 5
SYMMETRY Symmetry
SPECIFICATION Spec
CHECK_DEADLOCK FALSE
INVARIANTS
    BoundedStaleness
    RevocationIsSeen
