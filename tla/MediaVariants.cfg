SPECIFICATION MediaSpec
CONSTANTS
    Asset = {a1}
    Label = {thumb}
    Confirmer = {c1}
    Sweeper = {s1}
INVARIANTS
    VariantsExist
CHECK_DEADLOCK FALSE
