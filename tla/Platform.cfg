SPECIFICATION PlatformSpec
CONSTANTS
    Call = {c1, c2, c3}
    None = None
    Threshold = 3
    OpenMs = 2
    Asset = {a1, a2}
    Label = {thumb}
    Confirmer = {u1}
    Sweeper = {w1}
    Member = {a, b, c, d}
    MaxCents = 3
    Expense = {e1, e2}
    Writer = {x1}
    Reader = {y1, y2}
    Sub = {s1}
    Handler = {h1, h2}
    MaxEvents = 2
    Message = {m1, m2}
    Subscriber = {l1, l2}
    LocalAttempts = 2
    Attempt = {t1, t2}
    MaxFailedAttempts = 5
    MaxLost = 1
    Requester = {r1, r2}
    Consumer = {o1, o2}
    MaxCodes = 3
    RateLimitMax = 1
    MaxAttempts = 1
    MaxUnregistered = 1
    Instance = {n1, n2}
    RingCall = {g1, g2}
    Key = {k1, k2}
    Bootstrap = Bootstrap
    User = {alice}
    Client = {p1}
    MaxPerUser = 2
    MaxSession = 4
    MaxEra = 1
INVARIANTS
    PlatformTypeOK
    ClosedMeansHealthy
    ReadyHasBytes
    PlanSettles
    PlanIsShort
    RoleFollowsStripe
    GuessesAreBounded
    CodesAreBounded
    TokenIsSingleUse
PROPERTIES
    TripNeedsStreak
    ImplementsIdeal
    Recovers
    BalancesHeal
    LocalImplementsPort
    SpreadKeysStay
    CapAfterSignIn
CHECK_DEADLOCK FALSE
