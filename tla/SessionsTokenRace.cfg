SPECIFICATION Spec
CONSTANTS
    User = {alice}
    Proc = {p1, p2}
    None = None
    MaxPerUser = 1
    MaxSession = 3
    MaxEra = 1
INVARIANTS
    TokenIsSingleUse
CHECK_DEADLOCK FALSE
