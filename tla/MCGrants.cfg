SPECIFICATION Spec
CONSTANTS
    Users = {u1, u2}
    Clients = {c1}
    Scopes = {s1}
    Flows = {f1, f2, f3}
    Earlier = {f3}
    UserCodes = {k1}
    Ids = {i1}
    Reqs = {r1, r2}
    MAX_UNKNOWN_CODES = 1
    MaxRequests = 4
    MaxTokens = 2
    None = None
SYMMETRY Symmetry
CHECK_DEADLOCK FALSE
INVARIANTS
    SessionIsWhatWasApproved
    DecisionIsFinal
    RevocationEndsTheGrant
