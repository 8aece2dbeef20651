SPECIFICATION Spec
CONSTANTS
    None = None
    Users = {u1, u2}
    Owner = u1
    Addresses = {a1, a2}
    Home = a1
    Passwords = {p1, p2}
    Sessions = {s1}
    Flows = {f1, f2}
    Reqs = {r1, r2}
    Operations = {"register", "resend", "verify", "forgot", "reset", "password", "erase", "start", "current", "submit", "confirm"}
    MaxLinks = 3
    MaxRequests = 5
    NoTx = NoTx
    Members = {m1, m2}
    Roles = {admin, member, staff}
    AdminRole = admin
    DefaultRole = member
    Permissions = {"roles:manage", "users:manage"}
    Factors = {"method", "passkey"}
    Txs = {t1, t2}
    MaxTxs = 3
SYMMETRY Symmetry
CHECK_DEADLOCK FALSE
INVARIANTS
    AccountIsItsOwners
    AnAdministratorRemains
    AdministratorsHaveASecondFactor
    

    
