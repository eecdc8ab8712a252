-------------------------- MODULE Tun2SocksManager --------------------------
(***************************************************************************)
(* core/Tun2SocksManager.kt, the process-wide object that owns the native  *)
(* tun2socks thread.  The thread is seen here as what it uses: the tun     *)
(* descriptor and the SOCKS credentials it was started with.  How the      *)
(* thread itself starts and stops is the subject of module NativeTunnel.   *)
(***************************************************************************)
EXTENDS Sessions

VARIABLES
    nativeLoaded,  \* the library could be loaded when the object was created
    started,       \* the Kotlin flag
    tunnelFd,      \* tun descriptor of the native thread, None = no thread
    tunnelAuth     \* credentials in the thread's configuration

tunnelVars == <<nativeLoaded, started, tunnelFd, tunnelAuth>>

TunnelTypeOK ==
    /\ nativeLoaded \in BOOLEAN
    /\ started \in BOOLEAN
    /\ tunnelFd \in CoRef
    /\ tunnelAuth \in CoRef

TunnelInit ==
    /\ nativeLoaded \in BOOLEAN
    /\ started = FALSE
    /\ tunnelFd = None
    /\ tunnelAuth = None

\* start() up to the native call: write the yml file and create the thread,
\* unless one is already there (native_start_service tests is_working too).
TunnelSpawn(fd, credentials) ==
    /\ ~started
    /\ IF tunnelFd = None
       THEN tunnelFd' = fd /\ tunnelAuth' = credentials
       ELSE UNCHANGED <<tunnelFd, tunnelAuth>>
    /\ UNCHANGED <<nativeLoaded, started>>

\* start() when pthread_create fails: nothing is reported to Kotlin.
TunnelSpawnFails ==
    /\ ~started
    /\ UNCHANGED tunnelVars

\* start() when the flag is set: "tun2socks already running".
TunnelAlreadyRunning ==
    /\ started
    /\ UNCHANGED tunnelVars

\* start() after the native call returned.
TunnelMarkStarted ==
    /\ started' = TRUE
    /\ UNCHANGED <<nativeLoaded, tunnelFd, tunnelAuth>>

\* stop(): the native call stops the thread and joins it.
TunnelStopThread ==
    /\ tunnelFd' = None
    /\ tunnelAuth' = None
    /\ UNCHANGED <<nativeLoaded, started>>

\* stop() after the native call returned.
TunnelMarkStopped ==
    /\ started' = FALSE
    /\ UNCHANGED <<nativeLoaded, tunnelFd, tunnelAuth>>
=============================================================================
