CONSTANTS
    Co = {c1, c2}
    Inst = {i1, i2}
    None = None
    Patient = FALSE
    HasWidget = FALSE
    Faults = {}
SPECIFICATION Spec
INVARIANT
    CredsClearedOnStop
