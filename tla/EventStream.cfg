SPECIFICATION FairSpec
CONSTANTS
    Consumer = {c1, c2}
    Attempts = 2
    ReadCount = 2
    MaxEvent = 3
    MaxFaults = 1
    MaxStops = 1
INVARIANTS
    TypeOK
    SettledIsAnswered
    OneHolder
    AttemptsAreBounded
    NothingStranded
    OnceWithoutFaults
PROPERTIES
    ImplementsPort
    SettlesWithoutFaults
CHECK_DEADLOCK FALSE
