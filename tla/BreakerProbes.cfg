SPECIFICATION Spec
CONSTANTS
    Call = {c1, c2}
    None = None
    Threshold = 2
    OpenMs = 2
INVARIANTS
    OneProbe
