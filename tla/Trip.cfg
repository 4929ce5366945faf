SPECIFICATION Spec
CONSTANTS
    Proc = {p1, p2}
    NoDate = NoDate
    MaxDate = 2
    MaxTripDays = 2
    MaxVersion = 3
    MaxShift = 1
SYMMETRY Symmetry
INVARIANTS
    TypeOK
    VersionsAreUnique
    ItineraryMatchesWindow
    DeletedHasNoDays
CHECK_DEADLOCK FALSE
