---------------------------- MODULE XrayManager ----------------------------
(***************************************************************************)
(* core/XrayManager.kt, the process-wide object that owns the xray core.   *)
(* The core itself (libv2ray) is external: a controller's loop starts or   *)
(* fails, and stops or throws.  The object has no lock, so start() is three *)
(* steps that other threads may interleave with.  stop() is one step: that *)
(* a second stop, or a store, falls between its stopLoop and its clearing  *)
(* of the field is not looked at (it takes a stop during a start, where no *)
(* property speaks of the engine).                                         *)
(***************************************************************************)
EXTENDS Sessions

VARIABLES
    coreController,  \* the controller that stop() can reach, or None
    running,         \* the controllers whose loop runs
    config           \* credentials of c's SOCKS inbound, None = no auth

engineVars == <<coreController, running, config>>

EngineTypeOK ==
    /\ coreController \in CoRef
    /\ running \in SUBSET Co
    /\ config \in [Co -> CoRef]

EngineInit ==
    /\ coreController = None
    /\ running = {}
    /\ config = [c \in Co |-> None]

\* stop(): stop the stored controller's loop and forget the controller.
EngineStopOk ==
    /\ running' = running \ {coreController}
    /\ coreController' = None
    /\ config' = [c \in Co |-> IF c = coreController THEN None ELSE config[c]]

\* stop() when stopLoop throws: the exception is logged, the controller kept.
EngineStopThrows ==
    /\ coreController \in running
    /\ UNCHANGED engineVars

EngineStop(mayThrow) == EngineStopOk \/ (mayThrow /\ EngineStopThrows)

\* start(): the new controller's loop comes up.
EngineLoop(c) ==
    /\ running' = running \cup {c}
    /\ UNCHANGED <<coreController, config>>

\* start() returns false: the controller and its configuration are dropped.
EngineForget(c) ==
    /\ config' = [config EXCEPT ![c] = None]
    /\ UNCHANGED <<coreController, running>>

\* Mutant: start() forgets to store the controller.
EngineStoreDropped(c) == UNCHANGED engineVars

\* start(): the running controller is stored where stop() finds it.
EngineStore(c) ==
    /\ coreController' = c
    /\ UNCHANGED <<running, config>>

\* The SOCKS inbound ConfigBuilder.build puts in c's configuration.
EngineConfigure(c, credentials) ==
    /\ config' = [config EXCEPT ![c] = credentials]
    /\ UNCHANGED <<coreController, running>>
=============================================================================
