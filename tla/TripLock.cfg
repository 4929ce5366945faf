SPECIFICATION Spec
CONSTANTS
    Proc = {p1}
    NoDate = NoDate
    MaxDate = 2
    MaxTripDays = 2
    MaxVersion = 2
    MaxShift = 1
PROPERTIES
    LocksOnlyDrafts
CHECK_DEADLOCK FALSE
