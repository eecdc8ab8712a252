CONSTANTS
    Session = {s1, s2}
    MaxSessionCount = 2
    Faults = {"alloc", "tun"}
SPECIFICATION Spec
SYMMETRY Symmetry
INVARIANTS
    ListMatchesTasks
    WakesLiveTasks
    TimerAttentive
    PromptStop
CHECK_DEADLOCK FALSE
