CONSTANTS
    Caller = {t1, t2, t3}
    NoCaller = NoCaller
    Faults = {"config", "logger", "system", "tun", "event", "task"}
SPECIFICATION Spec
INVARIANTS
    TypeOK
    StoppedIsClean
    RunningIsStoppable
PROPERTIES
    StopReturns
