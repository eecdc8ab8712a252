---------------------------- MODULE NativeTunnel ----------------------------
(***************************************************************************)
(* The life of the tun2socks worker: src/hev-jni.c, src/hev-main.c and the *)
(* init, fini, run and stop functions of src/hev-socks5-tunnel.c.          *)
(*                                                                         *)
(* Threads of the app call native_start_service and native_stop_service    *)
(* under one mutex.  A start creates the worker and returns at once, so a  *)
(* stop may meet the worker anywhere in its initialisation; all it can see *)
(* of it is event_fds[1].  The worker's part between hev_socks5_tunnel_run *)
(* and its return is one phase here: TunnelTasks looks inside.             *)
(***************************************************************************)
EXTENDS Naturals

CONSTANTS
    Caller,          \* threads of the app
    NoCaller,        \* the owner of a free mutex
    Faults           \* the stages of the initialisation that may fail

Stage == {"config", "logger", "system", "tun", "event", "task"}

ASSUME CallerAssumption == NoCaller \notin Caller
ASSUME FaultAssumption == Faults \subseteq Stage

VARIABLES
    mutex,           \* hev-jni.c: who holds it
    is_working,      \* hev-jni.c: a worker was created and not joined
    cpc,             \* where each caller is in native_stop_service
    wpc,             \* where the worker is
    event_fds,       \* the socket pair is open
    requests,        \* the stop requests that wait in the socket pair
    tasks,           \* the worker's tasks that exist
    gateway,         \* the pointers tcp and udp: null, live or dangling
    removedTwice     \* ghost: gateway_fini was given dangling pointers

callerVars == <<mutex, is_working, cpc>>
workerVars == <<wpc, event_fds, requests, tasks, gateway, removedTwice>>
vars == <<mutex, is_working, cpc, wpc, event_fds, requests, tasks, gateway,
          removedTwice>>

CallerPc == {"idle", "poll", "write", "join"}

WorkerPc == Stage \cup {"none", "lwip", "gateway", "io", "timer", "dns",
                        "run", "running", "fini", "exited"}

TaskName == {"event", "io", "timer"}

TypeOK ==
    /\ mutex \in Caller \cup {NoCaller}
    /\ is_working \in BOOLEAN
    /\ cpc \in [Caller -> CallerPc]
    /\ wpc \in WorkerPc
    /\ event_fds \in BOOLEAN
    /\ requests \in 0 .. 1
    /\ tasks \in SUBSET TaskName
    /\ gateway \in {"null", "live", "dangling"}
    /\ removedTwice \in BOOLEAN

Init ==
    /\ mutex = NoCaller
    /\ is_working = FALSE
    /\ cpc = [c \in Caller |-> "idle"]
    /\ wpc = "none"
    /\ event_fds = FALSE
    /\ requests = 0
    /\ tasks = {}
    /\ gateway = "null"
    /\ removedTwice = FALSE
-----------------------------------------------------------------------------
(***************************************************************************)
(* The callers.                                                            *)
(***************************************************************************)

\* native_start_service: create the worker, unless there is one.
StartService(c) ==
    /\ mutex = NoCaller
    /\ cpc[c] = "idle"
    /\ ~is_working
    /\ is_working' = TRUE
    /\ wpc' = "config"
    /\ UNCHANGED <<mutex, cpc, event_fds, requests, tasks, gateway,
                   removedTwice>>

\* native_stop_service with a worker: take the mutex and go on to stop it.
StopService(c) ==
    /\ mutex = NoCaller
    /\ cpc[c] = "idle"
    /\ is_working
    /\ mutex' = c
    /\ cpc' = [cpc EXCEPT ![c] = "poll"]
    /\ UNCHANGED <<is_working, workerVars>>

\* hev_socks5_tunnel_stop: event_fds[1] is not there yet, sleep 100 ms.
PollAgain(c) ==
    /\ cpc[c] = "poll"
    /\ ~event_fds
    /\ UNCHANGED vars

\* hev_socks5_tunnel_stop: event_fds[1] was read.
PollFd(c) ==
    /\ cpc[c] = "poll"
    /\ event_fds
    /\ cpc' = [cpc EXCEPT ![c] = "write"]
    /\ UNCHANGED <<mutex, is_working, workerVars>>

\* Mutant: the request is written only to a worker that already runs.
WriteIfRunning(c) ==
    /\ cpc[c] = "write"
    /\ requests' = IF wpc = "running" THEN requests + 1 ELSE requests
    /\ cpc' = [cpc EXCEPT ![c] = "join"]
    /\ UNCHANGED <<mutex, is_working, wpc, event_fds, tasks, gateway,
                   removedTwice>>

\* Mutant: the request is written again although it was written.
WriteTwice(c) ==
    /\ cpc[c] = "write"
    /\ requests' = IF event_fds THEN requests + 2 ELSE requests
    /\ cpc' = [cpc EXCEPT ![c] = "join"]
    /\ UNCHANGED <<mutex, is_working, wpc, event_fds, tasks, gateway,
                   removedTwice>>

\* hev_socks5_tunnel_stop: write the request.  A release build defines
\* NDEBUG, so that a write to a closed descriptor goes unnoticed.
WriteEvent(c) ==
    /\ cpc[c] = "write"
    /\ requests' = IF event_fds THEN requests + 1 ELSE requests
    /\ cpc' = [cpc EXCEPT ![c] = "join"]
    /\ UNCHANGED <<mutex, is_working, wpc, event_fds, tasks, gateway,
                   removedTwice>>

\* native_stop_service: pthread_join returned, is_working = 0, unlock.
JoinWorker(c) ==
    /\ cpc[c] = "join"
    /\ wpc = "exited"
    /\ wpc' = "none"
    /\ is_working' = FALSE
    /\ mutex' = NoCaller
    /\ cpc' = [cpc EXCEPT ![c] = "idle"]
    /\ UNCHANGED <<event_fds, requests, tasks, gateway, removedTwice>>
-----------------------------------------------------------------------------
(***************************************************************************)
(* The worker.                                                             *)
(***************************************************************************)

Goes(from, to) == wpc = from /\ wpc' = to

\* hev_socks5_tunnel_main_from_file, and main_inner up to lwip_init: a stage
\* that succeeds leaves nothing a caller can see.
Prepare ==
    /\ \/ Goes("config", "logger")
       \/ Goes("logger", "system")
       \/ Goes("system", "lwip")
       \/ Goes("lwip", "tun")
    /\ UNCHANGED <<callerVars, event_fds, requests, tasks, gateway,
                   removedTwice>>

\* The same stages when they fail: the thread returns -1 to -4.
PrepareFails ==
    /\ wpc \in {"config", "logger", "system"} \cap Faults
    /\ wpc' = "exited"
    /\ UNCHANGED <<callerVars, event_fds, requests, tasks, gateway,
                   removedTwice>>

\* tunnel_init with the descriptor from VpnService: make it non-blocking.
TunnelInit ==
    /\ Goes("tun", "gateway")
    /\ UNCHANGED <<callerVars, event_fds, requests, tasks, gateway,
                   removedTwice>>

\* gateway_init: the netif and its two listening pcbs.
GatewayInit ==
    /\ Goes("gateway", "event")
    /\ gateway' = "live"
    /\ UNCHANGED <<callerVars, event_fds, requests, tasks, removedTwice>>

\* event_task_init: from here on a stop can be requested.
EventTaskInit ==
    /\ Goes("event", "io")
    /\ event_fds' = TRUE
    /\ tasks' = tasks \cup {"event"}
    /\ UNCHANGED <<callerVars, requests, gateway, removedTwice>>

\* Mutant: the results of hev_task_new are not looked at.
LwipTaskUnchecked ==
    /\ \/ Goes("io", "timer") /\ tasks' \in {tasks, tasks \cup {"io"}}
       \/ Goes("timer", "dns") /\ tasks' \in {tasks, tasks \cup {"timer"}}
    /\ UNCHANGED <<callerVars, event_fds, requests, gateway, removedTwice>>

\* lwip_io_task_init, lwip_timer_task_init.
LwipTaskInit ==
    /\ \/ Goes("io", "timer") /\ tasks' = tasks \cup {"io"}
       \/ Goes("timer", "dns") /\ tasks' = tasks \cup {"timer"}
    /\ UNCHANGED <<callerVars, event_fds, requests, gateway, removedTwice>>

\* mapped_dns_init, and the rest of hev_socks5_tunnel_init.
MappedDnsInit ==
    /\ Goes("dns", "run")
    /\ UNCHANGED <<callerVars, event_fds, requests, tasks, gateway,
                   removedTwice>>

\* hev_socks5_tunnel_init, label exit: a stage failed, clean up.  socketpair
\* may have succeeded before event_task_init fails.
InitFails ==
    /\ \/ wpc = "tun" /\ "tun" \in Faults /\ UNCHANGED event_fds
       \/ wpc = "event" /\ "event" \in Faults /\ event_fds' \in BOOLEAN
       \/ wpc \in {"io", "timer", "dns"} /\ "task" \in Faults
          /\ UNCHANGED event_fds
    /\ wpc' = "fini"
    /\ UNCHANGED <<callerVars, requests, tasks, gateway, removedTwice>>

\* hev_socks5_tunnel_run: run = 1, the scheduler starts.
Run ==
    /\ Goes("run", "running")
    /\ UNCHANGED <<callerVars, event_fds, requests, tasks, gateway,
                   removedTwice>>

\* The event task reads the request, all tasks end, the scheduler returns.
RunReturns ==
    /\ Goes("running", "fini")
    /\ requests > 0
    /\ requests' = 0
    /\ UNCHANGED <<callerVars, event_fds, tasks, gateway, removedTwice>>

\* Mutant: the socket pair is left open.
KeepEventFds == UNCHANGED <<event_fds, requests>>

\* event_task_fini: close the socket pair and what it holds.
CloseEventFds == event_fds' = FALSE /\ requests' = 0

\* gateway_fini: the pcbs are freed, the pointers stay.
GatewayFini ==
    /\ gateway' = IF gateway = "null" THEN "null" ELSE "dangling"
    /\ removedTwice' = (removedTwice \/ gateway = "dangling")

\* hev_socks5_tunnel_fini, and the rest of main_inner: the thread returns.
Fini ==
    /\ Goes("fini", "exited")
    /\ tasks' = {}
    /\ CloseEventFds
    /\ GatewayFini
    /\ UNCHANGED callerVars

Worker ==
    \/ Prepare \/ PrepareFails
    \/ TunnelInit \/ GatewayInit \/ EventTaskInit \/ LwipTaskInit
    \/ MappedDnsInit \/ InitFails
    \/ Run \/ RunReturns \/ Fini

Stopping(c) == PollFd(c) \/ WriteEvent(c) \/ JoinWorker(c)

Next ==
    \/ \E c \in Caller :
          \/ StartService(c) \/ StopService(c) \/ PollAgain(c) \/ Stopping(c)
    \/ Worker

(***************************************************************************)
(* The operating system schedules every thread; a caller need not call.    *)
(***************************************************************************)
Spec ==
    /\ Init /\ [][Next]_vars
    /\ WF_vars(Worker)
    /\ \A c \in Caller : WF_vars(Stopping(c))
-----------------------------------------------------------------------------
\* When no call is in progress and no worker is counted, nothing of a worker
\* is left: no thread, no socket pair, no request for a worker to come, no
\* task.  It is what lets the next native_start_service begin from scratch.
StoppedIsClean ==
    (mutex = NoCaller /\ ~is_working) =>
        /\ wpc = "none"
        /\ ~event_fds /\ requests = 0
        /\ tasks = {}

\* hev_socks5_tunnel_stop writes its request to a descriptor that is open,
\* as its assertion says: the worker has not closed it since it was read.
WriteReachesWorker ==
    \A c \in Caller : cpc[c] = "write" => event_fds

\* While the scheduler runs it has its three tasks, and the stop that will
\* end it has a place to write to, whenever it comes.
RunningIsStoppable ==
    wpc \in {"run", "running"} => event_fds /\ tasks = TaskName

\* gateway_fini removes the pcbs gateway_init created, once.
GatewayRemovedOnce == ~removedTwice

\* A stop of a worker returns, however early in the worker's life it comes:
\* the request is neither missed nor lost, and the worker can be joined.  The
\* one exception is a worker that ended before it had an event socket.
StopReturns ==
    \A c \in Caller :
        cpc[c] = "poll" ~>
            \/ cpc[c] = "idle"
            \/ cpc[c] = "poll" /\ wpc = "exited" /\ ~event_fds
=============================================================================
