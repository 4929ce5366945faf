SPECIFICATION FairSpec
CONSTANTS
    Consumer = {c1, c2}
    Attempts = 2
    ReadCount = 2
    MaxEvent = 2
    MaxFaults = 1
    MaxStops = 0
PROPERTIES
    AtLeastOnce
CHECK_DEADLOCK FALSE
