\* A pool of one admits two datagrams, and the third is dropped; a batch of
\* two finds room for one.
CONSTANTS
    PoolSize = 1
    Num = 2
    SockBuf = 1
    Up = 3
    Down = 2
    Faults = {"socket", "tun", "mem", "terminate"}
SPECIFICATION Spec
INVARIANTS
    InOrder
    Attentive
    InStep
PROPERTIES
    HangUpEnds
