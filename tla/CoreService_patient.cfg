CONSTANTS
    Co = {c1, c2}
    Inst = {i1, i2}
    None = None
    Patient = TRUE
    HasWidget = TRUE
    Faults = {"reboot"}
SPECIFICATION Spec
SYMMETRY Symmetry
INVARIANTS
    ConnectedCoherent
    StoppedClean
    NoClosedFdInUse
    WidgetTruthful
