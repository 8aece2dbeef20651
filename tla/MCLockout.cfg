SPECIFICATION LockoutSpec
CONSTANTS
    NoKey = NoKey
    Logins = {q1, q2}
    Identifiers = {email}
    Threshold = 2
    Limit = 2
    MaxAttempts = 4
    MaxChanges = 1
    MaxPauses = 1
SYMMETRY Symmetry
INVARIANTS
    
    PasswordIsLastChosen
CHECK_DEADLOCK FALSE
