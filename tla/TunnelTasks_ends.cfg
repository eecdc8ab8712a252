CONSTANTS
    Session = {s1}
    MaxSessionCount = 2
    Faults = {}
SPECIFICATION Spec
PROPERTIES
    ImplementsRunPhase
