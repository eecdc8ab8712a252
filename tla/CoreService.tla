---------------------------- MODULE CoreService ----------------------------
(***************************************************************************)
(* core/CoreService.kt: the VPN service, with the two objects it drives    *)
(* (XrayManager, Tun2SocksManager) and the senders of its intents.         *)
(*                                                                         *)
(* Two kinds of threads run this code.  The Android main thread handles    *)
(* start and stop intents, revocation and destruction one at a time; its   *)
(* stopConnection() is split where a coroutine may run in between.  Every  *)
(* start intent launches a coroutine on Dispatchers.IO; its steps are the  *)
(* stretches of code between two points another thread can observe.        *)
(* Fields of the companion object are shared by all instances of the       *)
(* service; tunInterface and the coroutine job belong to one instance.     *)
(***************************************************************************)
EXTENDS XrayManager, Tun2SocksManager

CONSTANTS
    Patient,         \* nobody starts, stops or revokes the VPN while a start or
                     \* a stop is in progress: an assumption about users and the
                     \* system, which nothing in the code enforces
    HasWidget,       \* a widget is on the home screen
    Faults           \* of "kill" (of the process), "reboot" (of the device)
                     \* and "stopLoop" (xray's stopLoop throws)

ASSUME ClientAssumption ==
    /\ {Patient, HasWidget} \subseteq BOOLEAN
    /\ Faults \subseteq {"kill", "reboot", "stopLoop"}

VARIABLES
    vpnState,        \* CoreService.vpnState
    activeName,      \* activeProfileName is set
    creds,           \* socksUser, socksPass: named by who generated them
    timed,           \* connectionStartTime is set
    tunInterface,    \* the field, per service instance
    openTuns,        \* tun descriptors that are open
    netCallback,     \* instances whose network callback is registered
    autoStart,       \* the preference "auto_start"
    wanted,          \* ghost: the user's last completed request was a start
    widget,          \* what the home-screen widget shows: connected or not
    widgetDirty,     \* a widget update broadcast is on its way
    pc,              \* where each start coroutine is
    inst,            \* the instance each coroutine belongs to
    late,            \* ghost: coroutines that were Committed when onDestroy
                     \* cancelled them
    cur,             \* the live service instance, None if there is none
    stopping,        \* stopSelf() was called, onDestroy is to come
    sticky,          \* the system will restart the service if the process dies
    wake,            \* what the system delivers to a new process
    mainPc,          \* where the main thread is in stopConnection()
    mainWhy          \* which handler called stopConnection()

uiVars == <<vpnState, activeName, timed>>
tunVars == <<tunInterface, openTuns, netCallback>>
prefVars == <<autoStart, wanted>>
widgetVars == <<widget, widgetDirty>>
coVars == <<pc, inst, late>>
lifeVars == <<cur, stopping, sticky, wake>>
mainVars == <<mainPc, mainWhy>>

\* What most steps of a coroutine, or of the main thread, leave alone.
coFrame == <<prefVars, widgetVars, lifeVars, mainVars>>
mainFrame == <<prefVars, widgetVars, coVars, lifeVars>>

vars == <<engineVars, tunnelVars, uiVars, creds, tunVars, prefVars,
          widgetVars, coVars, lifeVars, mainVars>>

VpnState == {"DISCONNECTED", "CONNECTING", "CONNECTED", "ERROR"}

CoPc == {"idle", "select", "establish", "generate", "build", "stopOld",
         "loop", "store", "spawn", "mark", "connect", "persist"}

MainPc == {"idle", "stopThread", "markStopped", "stopEngine", "closeTun",
           "announce", "finish"}

\* Past getSelectedRule(), the last point where a coroutine notices that its job
\* was cancelled.
Committed == {"stopOld", "loop", "store", "spawn", "mark", "connect", "persist"}

TypeOK ==
    /\ EngineTypeOK
    /\ TunnelTypeOK
    /\ vpnState \in VpnState
    /\ creds \in CoRef
    /\ tunInterface \in [Inst -> CoRef]
    /\ openTuns \in SUBSET Co
    /\ netCallback \in SUBSET Inst
    /\ pc \in [Co -> CoPc]
    /\ inst \in [Co -> Inst \cup {None}] /\ late \in SUBSET Co
    /\ cur \in Inst \cup {None}
    /\ activeName \in BOOLEAN /\ timed \in BOOLEAN
    /\ autoStart \in BOOLEAN /\ wanted \in BOOLEAN
    /\ widget \in BOOLEAN /\ widgetDirty \in BOOLEAN
    /\ stopping \in BOOLEAN /\ sticky \in BOOLEAN
    /\ wake \in {"none", "sticky", "boot"}
    /\ mainPc \in MainPc
    /\ mainWhy \in {"stop", "destroy"}
-----------------------------------------------------------------------------
Init ==
    /\ EngineInit
    /\ TunnelInit
    /\ vpnState = "DISCONNECTED" /\ activeName = FALSE /\ timed = FALSE
    /\ creds = None
    /\ tunInterface = [i \in Inst |-> None]
    /\ openTuns = {} /\ netCallback = {}
    /\ autoStart = FALSE /\ wanted = FALSE
    /\ widget = FALSE /\ widgetDirty = FALSE
    /\ pc = [c \in Co |-> "idle"] /\ inst = [c \in Co |-> None]
    /\ late = {}
    /\ cur = None /\ stopping = FALSE /\ sticky = FALSE /\ wake = "none"
    /\ mainPc = "idle" /\ mainWhy = "stop"

InFlight(c) == pc[c] # "idle"

\* The coroutine's job was cancelled: its instance has been destroyed.
Cancelled(c) == inst[c] # cur

Quiet == (\A c \in Co : ~InFlight(c)) /\ ~stopping /\ wake # "boot"

\* Nothing is in progress, and nothing is on its way.
Settled == Quiet /\ mainPc = "idle" /\ wake = "none"

isActive == vpnState = "CONNECTED"

\* A name no open descriptor, controller or credential bears any more.
Fresh(c) ==
    /\ ~InFlight(c)
    /\ c \notin openTuns \cup running
    /\ c \notin {coreController, creds, tunnelFd, tunnelAuth}
    /\ \A d \in Co : (InFlight(d) \/ d \in running) => config[d] # c
    /\ \A i \in Inst : tunInterface[i] # c

\* The instance an intent is delivered to: the live one, or a new one.
Receives(i) ==
    IF cur # None
    THEN i = cur
    ELSE /\ i \notin netCallback
         /\ \A c \in Co : InFlight(c) => inst[c] # i

\* onCreate of a new instance; a live one keeps its field.
Created(i) ==
    tunInterface' = IF cur = i THEN tunInterface
                    ELSE [tunInterface EXCEPT ![i] = None]
-----------------------------------------------------------------------------
(***************************************************************************)
(* The main thread: intents, revocation, destruction, stopConnection().    *)
(***************************************************************************)

ReportConnecting == vpnState' = "CONNECTING"

\* onStartCommand with ACTION_START or a null intent: startConnection().
StartConnection(i, c) ==
    /\ mainPc = "idle"
    /\ Receives(i)
    /\ Fresh(c)
    /\ Created(i)
    /\ cur' = i
    /\ sticky' = TRUE
    /\ ReportConnecting
    /\ pc' = [pc EXCEPT ![c] = "select"]
    /\ inst' = [inst EXCEPT ![c] = i]
    /\ UNCHANGED <<engineVars, tunnelVars, activeName, timed, creds, openTuns,
                   netCallback, autoStart, widgetVars, late, stopping, mainVars>>

\* A user interface, the widget or a worker starts the VPN.
StartCommand(i, c) ==
    /\ Patient => Quiet /\ ~isActive
    /\ StartConnection(i, c)
    /\ wanted' = TRUE
    /\ wake' = IF wake = "sticky" THEN "none" ELSE wake

\* The system restarts a START_STICKY service with a null intent.
StickyRestart(i, c) ==
    /\ wake = "sticky"
    /\ StartConnection(i, c)
    /\ wake' = "none"
    /\ UNCHANGED wanted

\* BootReceiver.onReceive: start only if auto_start is set and a profile is
\* selected.
BootStart(i, c) ==
    /\ wake = "boot"
    /\ autoStart
    /\ StartConnection(i, c)
    /\ wake' = "none"
    /\ UNCHANGED wanted

BootSkip ==
    /\ wake = "boot"
    /\ wake' = "none"
    /\ UNCHANGED <<engineVars, tunnelVars, uiVars, creds, tunVars, prefVars,
                   widgetVars, coVars, cur, stopping, sticky, mainVars>>

\* onStartCommand with ACTION_STOP; a dead service is created to be stopped.
StopCommand(i) ==
    /\ mainPc = "idle"
    /\ Patient => Quiet
    /\ Receives(i)
    /\ Created(i)
    /\ cur' = i
    /\ wake' = IF wake = "sticky" THEN "none" ELSE wake
    /\ sticky' = (sticky \/ wake = "sticky")
    /\ mainPc' = "stopThread"
    /\ mainWhy' = "stop"
    /\ UNCHANGED <<engineVars, tunnelVars, uiVars, creds, openTuns,
                   netCallback, prefVars, widgetVars, coVars, stopping>>

\* onRevoke: the user gave the VPN to another app.
Revoke ==
    /\ mainPc = "idle"
    /\ Patient => Quiet
    /\ cur # None
    /\ mainPc' = "stopThread"
    /\ mainWhy' = "stop"
    /\ UNCHANGED <<engineVars, tunnelVars, uiVars, creds, tunVars, mainFrame>>

\* onDestroy, after stopSelf().
Destroy ==
    /\ mainPc = "idle"
    /\ stopping
    /\ mainPc' = "stopThread"
    /\ mainWhy' = "destroy"
    /\ UNCHANGED <<engineVars, tunnelVars, uiVars, creds, tunVars, mainFrame>>

MainStep(from, to) == mainPc = from /\ mainPc' = to /\ UNCHANGED mainWhy

\* Mutant: nobody tells the widget.
UpdateAllDropped == UNCHANGED widgetDirty

\* VpnWidgetProvider.updateAll: broadcast an update if there is a widget.
UpdateAll == widgetDirty' = (widgetDirty \/ HasWidget)

\* Mutant: stopConnection() without Tun2SocksManager.stop().
StopThreadDropped ==
    /\ netCallback' = netCallback \ {cur}
    /\ MainStep("stopThread", "stopEngine")
    /\ UNCHANGED <<tunnelVars, engineVars, uiVars, creds, tunInterface,
                   openTuns, mainFrame>>

\* stopConnection(): the network callback goes, then Tun2SocksManager.stop().
StopThread ==
    /\ netCallback' = netCallback \ {cur}
    /\ \/ started /\ MainStep("stopThread", "markStopped") /\ TunnelStopThread
       \/ /\ ~started
          /\ MainStep("stopThread", "stopEngine")
          /\ UNCHANGED tunnelVars
    /\ UNCHANGED <<engineVars, uiVars, creds, tunInterface, openTuns,
                   mainFrame>>

MarkStopped ==
    /\ MainStep("markStopped", "stopEngine")
    /\ TunnelMarkStopped
    /\ UNCHANGED <<engineVars, uiVars, creds, tunVars, mainFrame>>

StopEngine ==
    /\ MainStep("stopEngine", "closeTun")
    /\ EngineStop("stopLoop" \in Faults)
    /\ UNCHANGED <<tunnelVars, uiVars, creds, tunVars, mainFrame>>

\* Mutant: the credentials outlive the connection.
CloseTunKeepCreds ==
    /\ MainStep("closeTun", "announce")
    /\ openTuns' = openTuns \ {tunInterface[cur]}
    /\ tunInterface' = [tunInterface EXCEPT ![cur] = None]
    /\ activeName' = FALSE
    /\ timed' = FALSE
    /\ UNCHANGED <<engineVars, tunnelVars, vpnState, creds, netCallback,
                   mainFrame>>

\* Close the instance's descriptor and clear the companion's fields.
CloseTun ==
    /\ MainStep("closeTun", "announce")
    /\ openTuns' = openTuns \ {tunInterface[cur]}
    /\ tunInterface' = [tunInterface EXCEPT ![cur] = None]
    /\ activeName' = FALSE
    /\ timed' = FALSE
    /\ creds' = None
    /\ UNCHANGED <<engineVars, tunnelVars, vpnState, netCallback, mainFrame>>

\* Mutant: the preference survives a stop.
KeepAutoStart == UNCHANGED autoStart

ForgetAutoStart == autoStart' = FALSE

\* stopConnection() reports.
Announce ==
    /\ MainStep("announce", "finish")
    /\ vpnState' = "DISCONNECTED"
    /\ UpdateAll
    /\ UNCHANGED <<engineVars, tunnelVars, activeName, timed, creds, tunVars,
                   prefVars, widget, coVars, lifeVars>>

\* The preference; then the caller's stopSelf(), or the cancellation of the job
\* of an instance that is destroyed.
Finish ==
    /\ mainPc = "finish"
    /\ mainPc' = "idle"
    /\ mainWhy' = "stop"
    /\ ForgetAutoStart
    /\ sticky' = FALSE
    /\ \/ /\ mainWhy = "stop"
          /\ wanted' = FALSE
          /\ stopping' = TRUE
          /\ UNCHANGED <<cur, late>>
       \/ /\ mainWhy = "destroy"
          /\ cur' = None
          /\ stopping' = FALSE
          /\ late' = late \cup {c \in Co : inst[c] = cur /\ pc[c] \in Committed}
          /\ UNCHANGED wanted
    /\ UNCHANGED <<engineVars, tunnelVars, uiVars, creds, tunVars, widgetVars,
                   pc, inst, wake>>
-----------------------------------------------------------------------------
(***************************************************************************)
(* The start coroutine.                                                    *)
(***************************************************************************)
CoStep(c, from, to) ==
    /\ pc[c] = from
    /\ pc' = [pc EXCEPT ![c] = to]
    /\ inst' = IF to = "idle" THEN [inst EXCEPT ![c] = None] ELSE inst
    /\ late' = IF to = "idle" THEN late \ {c} ELSE late

\* stopSelf() reaches the coroutine's own instance, if it still lives.
StopSelf(c) ==
    /\ stopping' = (stopping \/ inst[c] = cur)
    /\ UNCHANGED <<cur, sticky, wake>>

\* Mutant: a failed start returns without a word.
ErrorUnreported == UNCHANGED vpnState

ReportError == vpnState' = "ERROR"

\* The catch block and the early returns: the state becomes ERROR and the
\* service stops; name, tun and credentials stay as they are.
Fail(c, from) ==
    /\ CoStep(c, from, "idle")
    /\ ReportError
    /\ StopSelf(c)
    /\ UNCHANGED <<engineVars, tunnelVars, activeName, timed, creds, tunVars,
                   prefVars, widgetVars, mainVars>>

\* The coroutine was cancelled before it was dispatched: its body never runs.
NeverRuns(c) ==
    /\ Cancelled(c)
    /\ CoStep(c, "select", "idle")
    /\ UNCHANGED <<engineVars, tunnelVars, uiVars, creds, tunVars, coFrame>>

\* getSelectedProfile() returns a profile; it throws if the job is cancelled.
SelectProfile(c) ==
    /\ ~Cancelled(c)
    /\ CoStep(c, "select", "establish")
    /\ activeName' = TRUE
    /\ UNCHANGED <<engineVars, tunnelVars, vpnState, timed, creds, tunVars,
                   coFrame>>

\* setupTunInterface() succeeds; the network callback is (re)registered.
Establish(c) ==
    /\ CoStep(c, "establish", "generate")
    /\ openTuns' = openTuns \cup {c}
    /\ tunInterface' = [tunInterface EXCEPT ![inst[c]] = c]
    /\ netCallback' = netCallback \cup {inst[c]}
    /\ UNCHANGED <<engineVars, tunnelVars, uiVars, creds, coFrame>>

GenerateSocksCreds(c) ==
    /\ CoStep(c, "generate", "build")
    /\ creds' = c
    /\ UNCHANGED <<engineVars, tunnelVars, uiVars, tunVars, coFrame>>

\* Mutant: the job of a destroyed service is not cancelled.
BuildConfigAnyway(c) ==
    /\ c \in openTuns
    /\ CoStep(c, "build", "stopOld")
    /\ EngineConfigure(c, creds)
    /\ UNCHANGED <<tunnelVars, uiVars, creds, tunVars, coFrame>>

\* getSelectedRule() returns, the configuration takes the companion's
\* credentials, and tun.fd is read (it throws if the tun was closed).
BuildConfig(c) ==
    /\ ~Cancelled(c)
    /\ c \in openTuns
    /\ CoStep(c, "build", "stopOld")
    /\ EngineConfigure(c, creds)
    /\ UNCHANGED <<tunnelVars, uiVars, creds, tunVars, coFrame>>

\* XrayManager.start begins with stop().
StopOld(c) ==
    /\ CoStep(c, "stopOld", "loop")
    /\ EngineStop("stopLoop" \in Faults)
    /\ UNCHANGED <<tunnelVars, uiVars, creds, tunVars, coFrame>>

StartLoop(c) ==
    /\ CoStep(c, "loop", "store")
    /\ EngineLoop(c)
    /\ UNCHANGED <<tunnelVars, uiVars, creds, tunVars, coFrame>>

\* engine.start returned false: the instance's tun is closed.
EngineFailed(c) ==
    /\ CoStep(c, "loop", "idle")
    /\ EngineForget(c)
    /\ openTuns' = openTuns \ {tunInterface[inst[c]]}
    /\ tunInterface' = [tunInterface EXCEPT ![inst[c]] = None]
    /\ activeName' = FALSE
    /\ ReportError
    /\ UpdateAll
    /\ StopSelf(c)
    /\ UNCHANGED <<tunnelVars, timed, creds, netCallback, prefVars, widget,
                   mainVars>>

StoreController(c) ==
    /\ CoStep(c, "store", IF nativeLoaded THEN "spawn" ELSE "connect")
    /\ EngineStore(c)
    /\ UNCHANGED <<tunnelVars, uiVars, creds, tunVars, coFrame>>

\* Tun2SocksManager.start with tunFd and the companion's credentials.
SpawnTunnel(c) ==
    /\ \/ CoStep(c, "spawn", "mark") /\ TunnelSpawn(c, creds)
       \/ CoStep(c, "spawn", "mark") /\ TunnelSpawnFails
       \/ CoStep(c, "spawn", "connect") /\ TunnelAlreadyRunning
    /\ UNCHANGED <<engineVars, uiVars, creds, tunVars, coFrame>>

\* Tun2SocksManager.start cannot write tun2socks.yml: the exception reaches
\* the catch block of startConnection with the engine already running.
TunnelConfigFails(c) ==
    /\ ~started
    /\ Fail(c, "spawn")

MarkStarted(c) ==
    /\ CoStep(c, "mark", "connect")
    /\ TunnelMarkStarted
    /\ UNCHANGED <<engineVars, uiVars, creds, tunVars, coFrame>>

\* Mutant: success is not announced.
ConnectUnreported(c) ==
    /\ CoStep(c, "connect", "persist")
    /\ timed' = TRUE
    /\ UNCHANGED <<engineVars, tunnelVars, activeName, vpnState, creds,
                   tunVars, coFrame>>

Connect(c) ==
    /\ CoStep(c, "connect", "persist")
    /\ vpnState' = "CONNECTED"
    /\ timed' = TRUE
    /\ UNCHANGED <<engineVars, tunnelVars, activeName, creds, tunVars,
                   coFrame>>

\* VpnWidgetProvider.updateAll, then auto_start = true.
Persist(c) ==
    /\ CoStep(c, "persist", "idle")
    /\ UpdateAll
    /\ autoStart' = TRUE
    /\ UNCHANGED <<engineVars, tunnelVars, uiVars, creds, tunVars, wanted,
                   widget, lifeVars, mainVars>>
-----------------------------------------------------------------------------
(***************************************************************************)
(* The widget and the system.                                              *)
(***************************************************************************)

\* VpnWidgetProvider.onUpdate runs on the main thread.
UpdateWidget ==
    /\ widgetDirty
    /\ mainPc = "idle"
    /\ widget' = isActive
    /\ widgetDirty' = FALSE
    /\ UNCHANGED <<engineVars, tunnelVars, uiVars, creds, tunVars, prefVars,
                   coVars, lifeVars, mainVars>>

\* The process dies: preferences and the launcher's widget survive.
ProcessDeath ==
    /\ coreController' = None /\ running' = {}
    /\ config' = [c \in Co |-> None]
    /\ started' = FALSE /\ tunnelFd' = None /\ tunnelAuth' = None
    /\ vpnState' = "DISCONNECTED" /\ activeName' = FALSE /\ timed' = FALSE
    /\ creds' = None
    /\ tunInterface' = [i \in Inst |-> None]
    /\ openTuns' = {} /\ netCallback' = {}
    /\ pc' = [c \in Co |-> "idle"] /\ inst' = [c \in Co |-> None]
    /\ late' = {}
    /\ cur' = None /\ stopping' = FALSE /\ sticky' = FALSE
    /\ mainPc' = "idle" /\ mainWhy' = "stop"
    /\ UNCHANGED <<nativeLoaded, prefVars, widget>>

\* The system kills the process, and restarts a service that asked for it.
Crash ==
    /\ "kill" \in Faults
    /\ ProcessDeath
    /\ wake' = IF wake = "none" /\ sticky /\ ~stopping THEN "sticky" ELSE wake
    /\ UNCHANGED widgetDirty

\* The device restarts; the system asks every widget to update itself.
Reboot ==
    /\ "reboot" \in Faults
    /\ ProcessDeath
    /\ wake' = "boot"
    /\ UpdateAll
-----------------------------------------------------------------------------
CoNext(c) ==
    \/ \E from \in {"select", "establish", "build"} : Fail(c, from)
    \/ NeverRuns(c)
    \/ SelectProfile(c)
    \/ Establish(c)
    \/ GenerateSocksCreds(c)
    \/ BuildConfig(c)
    \/ StopOld(c)
    \/ StartLoop(c)
    \/ EngineFailed(c)
    \/ StoreController(c)
    \/ SpawnTunnel(c)
    \/ TunnelConfigFails(c)
    \/ MarkStarted(c)
    \/ Connect(c)
    \/ Persist(c)

Stopping ==
    \/ StopThread \/ MarkStopped \/ StopEngine \/ CloseTun \/ Announce
    \/ Finish

Next ==
    \/ \E i \in Inst, c \in Co :
          StartCommand(i, c) \/ StickyRestart(i, c) \/ BootStart(i, c)
    \/ \E i \in Inst : StopCommand(i)
    \/ BootSkip
    \/ Revoke
    \/ Destroy
    \/ Stopping
    \/ \E c \in Co : CoNext(c)
    \/ UpdateWidget
    \/ Crash
    \/ Reboot

\* Threads run: the dispatcher resumes every coroutine, the main looper handles
\* what was posted, the system delivers the restart it owes.  No client is
\* obliged to send anything, and nothing has to crash.
Fairness ==
    /\ \A c \in Co : WF_vars(CoNext(c))
    /\ WF_vars(Stopping)
    /\ WF_vars(Destroy)
    /\ WF_vars(UpdateWidget)
    /\ WF_vars(BootSkip \/ \E i \in Inst, c \in Co :
                  BootStart(i, c) \/ StickyRestart(i, c))

Spec == Init /\ [][Next]_vars /\ Fairness
-----------------------------------------------------------------------------
(***************************************************************************)
(* Properties.                                                             *)
(***************************************************************************)

\* Whoever sends what and when, the state CONNECTING is never left behind: a
\* start coroutine of the live instance has yet to report how it ended, so
\* neither an early return, nor an exception, nor a cancellation in
\* startConnection can strand the state the user interface shows.
NoStuckConnecting ==
    vpnState = "CONNECTING" =>
        \E c \in Co : pc[c] \notin {"idle", "persist"} /\ ~Cancelled(c)

\* Every CONNECTING is answered (startConnection's state changes, with the
\* dispatcher and the main looper fair).
ConnectingSettles == vpnState = "CONNECTING" ~> vpnState # "CONNECTING"

\* Once nothing is in progress and no widget broadcast is pending, the widget
\* shows what isActive says: every way out of CONNECTED ends in a call of
\* VpnWidgetProvider.updateAll, or in the update the system asks for after a
\* reboot.  (A process that is killed says nothing to its widget.)
WidgetTruthful == Settled /\ ~widgetDirty => widget = isActive

\* When a connection is up and nothing is in progress, the parts agree: one
\* xray loop, reachable by stop(), with the credentials of this connection;
\* one tun, held by the live instance; and a tun2socks thread, if it could be
\* created, on that tun with those credentials.
ConnectedCoherent ==
    Settled /\ isActive =>
        /\ cur # None
        /\ openTuns = {tunInterface[cur]}
        /\ netCallback = {cur}
        /\ running = {coreController}
        /\ config[coreController] = creds
        /\ creds = coreController
        /\ creds = tunInterface[cur]
        /\ tunnelFd # None =>
              started /\ tunnelFd = tunInterface[cur] /\ tunnelAuth = creds
        /\ activeName /\ timed

\* When nothing is in progress and the VPN is not up, stopConnection() and the
\* failure paths together have released everything a start acquires.
StoppedClean ==
    Settled /\ ~isActive =>
        /\ cur = None
        /\ openTuns = {} /\ netCallback = {}
        /\ running = {} /\ coreController = None
        /\ tunnelFd = None /\ ~started
        /\ creds = None
        /\ ~activeName /\ ~timed

\* Nobody reads a closed tun descriptor: stopConnection() stops the tun2socks
\* thread (or xray, if it reads the tun itself) before it closes the tun, and
\* no thread is started on a tun that a failure path has closed.
NoClosedFdInUse ==
    /\ tunnelFd # None => tunnelFd \in openTuns
    /\ ~nativeLoaded => running \subseteq openTuns

\* A stop has overtaken coroutine c: its service is between stopConnection() and
\* the onDestroy that stopSelf() brings, or that onDestroy came too late for the
\* cancellation to reach the coroutine.
Overtaken(c) ==
    c \in late \/ (inst[c] = cur /\ (stopping \/ mainPc = "finish"))

\* Whoever sends what and when, a VPN that is down comes up without a new start
\* only through a coroutine that a stop has overtaken, and once that stop has
\* destroyed the service only through one that was past its last suspension
\* point by then: no other late step of startConnection turns DISCONNECTED into
\* CONNECTED.
NoLateConnect ==
    [][vpnState = "DISCONNECTED" /\ vpnState' = "CONNECTED" =>
          \E c \in Co : pc[c] = "connect" /\ pc'[c] = "persist" /\ Overtaken(c)]_vars

\* auto_start survives the process, and the boot receiver obeys it.  That it is
\* set although the user's last request was a stop comes about only through
\* such a coroutine, which sets it in startConnection after stopConnection has
\* cleared it; neither a restart by the system nor a boot, a failed start or a
\* crash brings it about.
AutoStartWanted ==
    [][autoStart' /\ ~wanted' /\ ~(autoStart /\ ~wanted) =>
          \E c \in Co : pc[c] = "persist" /\ pc'[c] = "idle" /\ Overtaken(c)]_vars

\* The comment on socksUser says the credentials are "cleared on stop": once a
\* stop has completed and until the next start, there are none.
CredsClearedOnStop == ~wanted /\ mainPc = "idle" => creds = None
=============================================================================
