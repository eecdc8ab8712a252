CONSTANTS
    Co = {c1}
    Inst = {i1, i2}
    None = None
    Patient = FALSE
    HasWidget = FALSE
    Faults = {"kill", "reboot", "stopLoop"}
SPECIFICATION Spec
INVARIANTS
    NoStuckConnecting
PROPERTIES
    ConnectingSettles
    NoLateConnect
    AutoStartWanted
