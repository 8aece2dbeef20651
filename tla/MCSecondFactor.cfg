SPECIFICATION SecondFactorSpec
CONSTANTS
    None = None
    Guess = Guess
    Reqs = {r1, r2}
    Operations = {"login", "link", "totp", "email", "recovery", "resend", "reset"}
    Challenges = {c1, c2}
    Methods = {"totp", "email", None}
    TotpCodes = {t1}
    RecoveryCodes = {k1}
    Links = {l1, l2}
    MaxOpen = 1
    MaxFailures = 1
    AccountLimit = 2
    MaxCodes = 2
    MaxResets = 1
    MaxRequests = 4
    MaxAborts = 1
SYMMETRY Symmetry
INVARIANTS
    OneSignInPerProof
PROPERTIES
    ResendKeepsTheCode
CHECK_DEADLOCK FALSE
