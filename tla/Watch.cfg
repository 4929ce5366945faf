SPECIFICATION FairSpec
CONSTANTS
    Instance = {i1, i2}
    Starter = {s1}
    MaxWatch = 1
    MaxLevel = 2
    MaxSlip = 1
INVARIANTS
    TypeOK
    OneCyclePerWatch
    BookOncePerRun
    ClosedRunIsDone
PROPERTIES
    NoRepeatedProposal
    EndedTripIsLeftAlone
    RunIsClosed
CHECK_DEADLOCK FALSE
