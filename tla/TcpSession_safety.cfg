\* Every fault, one kind besides timeouts in each behaviour.  The ring holds
\* three bytes, so that it runs over its end, is full, and is emptied in the
\* middle.
CONSTANTS
    MaxSize = 3
    Down = 4
    Up = 2
    Wnd = 2
    SockBuf = 1
    Faults = {"timeout", "terminate", "reset", "socket", "mem"}
    MaxFaults = 1
SPECIFICATION Spec
INVARIANTS
    LentIntact
    StreamIntact
    GracefulEnd
PROPERTIES
    Relays
    Ends
