SPECIFICATION Spec
SYMMETRY Symmetry
CONSTANTS
    User = {alice}
    Proc = {p1, p2}
    None = None
    MaxPerUser = 1
    MaxSession = 4
    MaxEra = 1
INVARIANTS
    TypeOK
    RotatedIsRevoked
    LiveOfDeletedIsLate
    PurgedHasNoSession
PROPERTIES
    SignInEnforcesCap
CHECK_DEADLOCK FALSE
