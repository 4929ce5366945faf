SPECIFICATION Spec
CONSTANTS
    Instance = {i1}
    Starter = {s1, s2}
    MaxWatch = 2
    MaxLevel = 1
    MaxSlip = 0
SYMMETRY Symmetry
INVARIANT AtMostOneActiveWatch
CHECK_DEADLOCK FALSE
