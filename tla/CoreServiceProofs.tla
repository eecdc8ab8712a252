------------------------- MODULE CoreServiceProofs -------------------------
(***************************************************************************)
(* Proofs about CoreService for any number of coroutines and instances:    *)
(* first what holds whatever the clients send and whatever fails, then     *)
(* what holds when nobody interferes with a start or a stop in progress.   *)
(***************************************************************************)
EXTENDS CoreService, TLAPS

\* A coroutine that runs belongs to an instance; the main thread is inside
\* stopConnection(), or owes an onDestroy, only for a live instance.  Nobody but
\* the main thread reports CONNECTING.
Anchored ==
    /\ \A c \in Co : pc[c] # "idle" => inst[c] \in Inst
    /\ mainPc # "idle" => cur \in Inst
    /\ stopping => cur \in Inst
    /\ mainPc = "finish" => vpnState # "CONNECTING"

IInv == TypeOK /\ Anchored /\ NoStuckConnecting

USE NoneAssumption, ClientAssumption
-----------------------------------------------------------------------------
\* The engine's operators keep the types of its variables.
LEMMA EngineType ==
    ASSUME EngineTypeOK, NEW c \in Co, NEW a \in CoRef, NEW b \in BOOLEAN,
           \/ EngineStop(b) \/ EngineLoop(c) \/ EngineForget(c)
           \/ EngineStore(c) \/ EngineConfigure(c, a)
    PROVE  EngineTypeOK'
  BY DEF EngineTypeOK, CoRef, engineVars, EngineStop, EngineStopOk,
         EngineStopThrows, EngineLoop, EngineForget, EngineStore,
         EngineConfigure

\* So do the operators of the tun2socks manager.
LEMMA TunnelType ==
    ASSUME TunnelTypeOK, NEW c \in Co, NEW a \in CoRef,
           \/ TunnelSpawn(c, a) \/ TunnelSpawnFails \/ TunnelAlreadyRunning
           \/ TunnelMarkStarted \/ TunnelStopThread \/ TunnelMarkStopped
    PROVE  TunnelTypeOK'
  BY DEF TunnelTypeOK, CoRef, tunnelVars, TunnelSpawn, TunnelSpawnFails,
         TunnelAlreadyRunning, TunnelMarkStarted, TunnelStopThread,
         TunnelMarkStopped

LEMMA InitInv == Init => IInv
  BY DEF Init, IInv, TypeOK, EngineInit, EngineTypeOK, TunnelInit,
         TunnelTypeOK, CoRef, VpnState, CoPc, MainPc, Anchored,
         NoStuckConnecting
-----------------------------------------------------------------------------
\* A start intent, whoever sent it.
LEMMA StartInv ==
    ASSUME IInv, NEW i \in Inst, NEW c \in Co, StartConnection(i, c),
           wanted' \in BOOLEAN, wake' \in {"none", "sticky", "boot"}
    PROVE  IInv'
<1>1. TypeOK'
  BY DEF IInv, TypeOK, StartConnection, Created, EngineTypeOK, TunnelTypeOK,
         engineVars, tunnelVars, widgetVars, mainVars, CoRef, VpnState, CoPc,
         ReportConnecting
<1>2. Anchored'
  BY DEF IInv, TypeOK, Anchored, StartConnection, mainVars
<1>3. NoStuckConnecting'
  BY DEF IInv, TypeOK, StartConnection, NoStuckConnecting, Cancelled, CoPc
<1>4. QED
  BY <1>1, <1>2, <1>3 DEF IInv

LEMMA IntentInv ==
    ASSUME IInv,
           \/ \E i \in Inst, c \in Co :
                 StartCommand(i, c) \/ StickyRestart(i, c) \/ BootStart(i, c)
           \/ \E i \in Inst : StopCommand(i)
           \/ BootSkip
           \/ Revoke
           \/ Destroy
    PROVE  IInv'
<1>1. ASSUME NEW i \in Inst, NEW c \in Co,
             StartCommand(i, c) \/ StickyRestart(i, c) \/ BootStart(i, c)
      PROVE  IInv'
  <2>1. wanted' \in BOOLEAN /\ wake' \in {"none", "sticky", "boot"}
    BY <1>1 DEF IInv, TypeOK, StartCommand, StickyRestart, BootStart
  <2>2. StartConnection(i, c)
    BY <1>1 DEF StartCommand, StickyRestart, BootStart
  <2>3. QED
    BY <2>1, <2>2, StartInv
<1>2. ASSUME NEW i \in Inst, StopCommand(i)
      PROVE  IInv'
  <2>1. TypeOK'
    BY <1>2 DEF IInv, TypeOK, StopCommand, Created, EngineTypeOK,
                TunnelTypeOK, engineVars, tunnelVars, uiVars, prefVars,
                widgetVars, coVars, CoRef, MainPc
  <2>2. Anchored'
    BY <1>2 DEF IInv, TypeOK, Anchored, StopCommand, coVars, uiVars
  <2>3. NoStuckConnecting'
    BY <1>2 DEF IInv, TypeOK, Anchored, NoStuckConnecting, Cancelled,
                StopCommand, Receives, uiVars, coVars, CoPc
  <2>4. QED
    BY <2>1, <2>2, <2>3 DEF IInv
<1>3. ASSUME BootSkip \/ Revoke \/ Destroy
      PROVE  IInv'
  <2>1. TypeOK'
    BY <1>3 DEF IInv, TypeOK, BootSkip, Revoke, Destroy, EngineTypeOK,
                TunnelTypeOK, engineVars, tunnelVars, uiVars, tunVars,
                prefVars, widgetVars, coVars, lifeVars, mainVars, mainFrame,
                MainPc
  <2>2. Anchored'
    BY <1>3 DEF IInv, TypeOK, Anchored, BootSkip, Revoke, Destroy, coVars, uiVars,
                lifeVars, mainVars, mainFrame
  <2>3. NoStuckConnecting'
    BY <1>3 DEF IInv, NoStuckConnecting, Cancelled, BootSkip, Revoke,
                Destroy, uiVars, coVars, lifeVars, mainFrame
  <2>4. QED
    BY <2>1, <2>2, <2>3 DEF IInv
<1>4. QED
  BY <1>1, <1>2, <1>3
-----------------------------------------------------------------------------
LEMMA StoppingInv == ASSUME IInv, Stopping PROVE IInv'
<1>1. CASE StopThread
  <2>1. TunnelTypeOK'
    BY <1>1, TunnelType DEF IInv, TypeOK, TunnelTypeOK, StopThread,
       TunnelStopThread, tunnelVars, CoRef
  <2>2. TypeOK'
    BY <1>1, <2>1 DEF IInv, TypeOK, StopThread, MainStep, MainPc,
       EngineTypeOK, engineVars, uiVars, mainFrame, prefVars, widgetVars,
       coVars, lifeVars
  <2>3. Anchored' /\ NoStuckConnecting'
    BY <1>1 DEF IInv, TypeOK, Anchored, NoStuckConnecting, Cancelled,
       StopThread, MainStep, uiVars, mainFrame, coVars, lifeVars
  <2>4. QED
    BY <2>2, <2>3 DEF IInv
<1>2. CASE MarkStopped
  <2>1. TunnelTypeOK'
    BY <1>2 DEF IInv, TypeOK, MarkStopped, TunnelMarkStopped, TunnelTypeOK
  <2>2. TypeOK'
    BY <1>2, <2>1 DEF IInv, TypeOK, MarkStopped, MainStep, MainPc,
       EngineTypeOK, engineVars, uiVars, tunVars, mainFrame, prefVars,
       widgetVars, coVars, lifeVars
  <2>3. Anchored' /\ NoStuckConnecting'
    BY <1>2 DEF IInv, TypeOK, Anchored, NoStuckConnecting, Cancelled,
       MarkStopped, MainStep, uiVars, mainFrame, coVars, lifeVars
  <2>4. QED
    BY <2>2, <2>3 DEF IInv
<1>3. CASE StopEngine
  <2>1. EngineTypeOK'
    BY <1>3 DEF IInv, TypeOK, StopEngine, EngineStop, EngineStopOk,
       EngineStopThrows, EngineTypeOK, engineVars, CoRef
  <2>2. TypeOK'
    BY <1>3, <2>1 DEF IInv, TypeOK, StopEngine, MainStep, MainPc,
       TunnelTypeOK, tunnelVars, uiVars, tunVars, mainFrame, prefVars,
       widgetVars, coVars, lifeVars
  <2>3. Anchored' /\ NoStuckConnecting'
    BY <1>3 DEF IInv, TypeOK, Anchored, NoStuckConnecting, Cancelled,
       StopEngine, MainStep, uiVars, mainFrame, coVars, lifeVars
  <2>4. QED
    BY <2>2, <2>3 DEF IInv
<1>4. CASE CloseTun
  <2>1. EngineTypeOK' /\ TunnelTypeOK'
    BY <1>4 DEF IInv, TypeOK, CloseTun, TunnelTypeOK, EngineTypeOK,
       engineVars, tunnelVars
  <2>2. /\ creds' \in CoRef
        /\ tunInterface' \in [Inst -> CoRef]
        /\ openTuns' \in SUBSET Co
    BY <1>4 DEF IInv, TypeOK, CloseTun, CoRef
  <2>3. TypeOK'
    BY <1>4, <2>1, <2>2 DEF IInv, TypeOK, CloseTun, MainStep, MainPc,
       mainFrame, prefVars, widgetVars, coVars, lifeVars
  <2>4. Anchored' /\ NoStuckConnecting'
    BY <1>4 DEF IInv, TypeOK, Anchored, NoStuckConnecting, Cancelled,
       CloseTun, MainStep, mainFrame, coVars, lifeVars
  <2>5. QED
    BY <2>3, <2>4 DEF IInv
<1>5. CASE Announce
  <2>1. EngineTypeOK' /\ TunnelTypeOK'
    BY <1>5 DEF IInv, TypeOK, Announce, TunnelTypeOK, EngineTypeOK,
       engineVars, tunnelVars
  <2>2. widgetDirty' \in BOOLEAN
    BY <1>5 DEF IInv, TypeOK, Announce, UpdateAll
  <2>3. TypeOK'
    BY <1>5, <2>1, <2>2 DEF IInv, TypeOK, Announce, MainStep, MainPc,
       VpnState, tunVars, prefVars, coVars, lifeVars
  <2>4. Anchored' /\ NoStuckConnecting'
    BY <1>5 DEF IInv, TypeOK, Anchored, NoStuckConnecting, Announce, MainStep,
       coVars, lifeVars
  <2>5. QED
    BY <2>3, <2>4 DEF IInv
<1>6. CASE Finish
  <2>1. EngineTypeOK' /\ TunnelTypeOK'
    BY <1>6 DEF IInv, TypeOK, Finish, TunnelTypeOK, EngineTypeOK,
       engineVars, tunnelVars
  <2>2. /\ stopping' \in BOOLEAN
        /\ wanted' \in BOOLEAN
        /\ cur' \in Inst \cup {None}
        /\ late' \in SUBSET Co
    BY <1>6 DEF IInv, TypeOK, Finish
  <2>3. TypeOK'
    BY <1>6, <2>1, <2>2 DEF IInv, TypeOK, Finish, ForgetAutoStart, MainPc,
       uiVars, tunVars, widgetVars
  <2>4. Anchored' /\ NoStuckConnecting'
    BY <1>6 DEF IInv, TypeOK, Anchored, NoStuckConnecting, Finish, uiVars
  <2>5. QED
    BY <2>3, <2>4 DEF IInv
<1>7. QED
  BY <1>1, <1>2, <1>3, <1>4, <1>5, <1>6 DEF Stopping
-----------------------------------------------------------------------------
(***************************************************************************)
(* A coroutine's step that neither ends it nor touches the state keeps     *)
(* Anchored and NoStuckConnecting; one that reports a result does so too.  *)
(***************************************************************************)
LEMMA CoProgress ==
    ASSUME IInv, NEW c \in Co, NEW from \in CoPc, NEW to \in CoPc,
           from # "idle", to \notin {"idle", "persist"}, CoStep(c, from, to),
           UNCHANGED <<vpnState, lifeVars, mainVars>>
    PROVE  Anchored' /\ NoStuckConnecting'
<1>1. /\ pc' = [pc EXCEPT ![c] = to]
      /\ inst' = inst
      /\ pc[c] = from
  BY DEF CoStep
<1>2. Anchored'
  BY <1>1 DEF IInv, TypeOK, Anchored, lifeVars, mainVars
<1>3. ASSUME NEW d \in Co, pc[d] \notin {"idle", "persist"}, ~Cancelled(d)
      PROVE  pc'[d] \notin {"idle", "persist"} /\ ~Cancelled(d)'
  BY <1>1, <1>3 DEF IInv, TypeOK, Cancelled, lifeVars
<1>4. NoStuckConnecting'
  BY <1>3 DEF IInv, NoStuckConnecting
<1>5. QED
  BY <1>2, <1>4

LEMMA CoReport ==
    ASSUME IInv, NEW c \in Co, NEW from \in CoPc, NEW to \in CoPc,
           from # "idle", CoStep(c, from, to), vpnState' # "CONNECTING",
           cur' = cur, stopping' => stopping \/ inst[c] = cur,
           UNCHANGED mainVars
    PROVE  Anchored' /\ NoStuckConnecting'
<1>1. NoStuckConnecting'
  BY DEF NoStuckConnecting
<1>2. \A d \in Co : pc'[d] # "idle" => inst'[d] \in Inst
  BY DEF IInv, TypeOK, Anchored, CoStep
<1>3. inst[c] \in Inst
  BY DEF IInv, Anchored, CoStep
<1>4. stopping' => cur' \in Inst
  BY <1>3 DEF IInv, Anchored
<1>5. mainPc' # "idle" => cur' \in Inst
  BY DEF IInv, Anchored, mainVars
<1>6. QED
  BY <1>1, <1>2, <1>4, <1>5 DEF Anchored

\* The types of what belongs to the coroutines.
CoTyped ==
    /\ pc \in [Co -> CoPc] /\ inst \in [Co -> Inst \cup {None}]
    /\ late \in SUBSET Co

\* What a coroutine's step does to pc and inst has the right type.
LEMMA CoStepType ==
    ASSUME TypeOK, NEW c \in Co, NEW from, NEW to \in CoPc, CoStep(c, from, to)
    PROVE  CoTyped'
  BY DEF TypeOK, CoStep, CoTyped

LEMMA FailInv ==
    ASSUME IInv, NEW c \in Co,
           NEW from \in {"select", "establish", "build", "spawn"}, Fail(c, from)
    PROVE  IInv'
<1>1. CoTyped'
  BY CoStepType DEF IInv, Fail, CoPc
<1>2. EngineTypeOK' /\ TunnelTypeOK'
  BY DEF IInv, TypeOK, Fail, EngineTypeOK, TunnelTypeOK, engineVars,
         tunnelVars
<1>3. stopping' \in BOOLEAN
  BY DEF IInv, TypeOK, Fail, StopSelf
<1>4. TypeOK'
  BY <1>1, <1>2, <1>3 DEF IInv, TypeOK, CoTyped, Fail, ReportError, StopSelf, VpnState,
     tunVars, prefVars, widgetVars, mainVars
<1>5. Anchored' /\ NoStuckConnecting'
  BY CoReport DEF Fail, ReportError, StopSelf, CoPc
<1>6. QED
  BY <1>4, <1>5 DEF IInv

LEMMA NeverRunsInv == ASSUME IInv, NEW c \in Co, NeverRuns(c) PROVE IInv'
<1>1. CoTyped'
  BY CoStepType DEF IInv, NeverRuns, CoPc
<1>2. EngineTypeOK' /\ TunnelTypeOK'
  BY DEF IInv, TypeOK, NeverRuns, EngineTypeOK, TunnelTypeOK, engineVars,
         tunnelVars
<1>3. TypeOK'
  BY <1>1, <1>2 DEF IInv, TypeOK, CoTyped, NeverRuns, uiVars, tunVars, coFrame,
     prefVars, widgetVars, lifeVars, mainVars
<1>4. Anchored'
  BY DEF IInv, TypeOK, Anchored, NeverRuns, CoStep, coFrame, lifeVars, mainVars,
         uiVars
<1>5. ASSUME NEW d \in Co, pc[d] \notin {"idle", "persist"}, ~Cancelled(d)
      PROVE  pc'[d] \notin {"idle", "persist"} /\ ~Cancelled(d)'
  BY <1>5 DEF IInv, TypeOK, Cancelled, NeverRuns, CoStep, coFrame, lifeVars
<1>6. NoStuckConnecting'
  BY <1>5 DEF IInv, NoStuckConnecting, NeverRuns, uiVars
<1>7. QED
  BY <1>3, <1>4, <1>6 DEF IInv

LEMMA BeforeEngineInv ==
    ASSUME IInv, NEW c \in Co,
           \/ SelectProfile(c) \/ Establish(c) \/ GenerateSocksCreds(c)
    PROVE  IInv'
<1>1. PICK from \in CoPc, to \in CoPc :
         /\ from # "idle" /\ to \notin {"idle", "persist"}
         /\ CoStep(c, from, to)
  BY DEF SelectProfile, Establish, GenerateSocksCreds, CoPc
<1>2. UNCHANGED <<vpnState, lifeVars, mainVars>>
  BY DEF SelectProfile, Establish, GenerateSocksCreds, coFrame, uiVars
<1>3. Anchored' /\ NoStuckConnecting'
  BY <1>1, <1>2, CoProgress
<1>4. CoTyped'
  BY <1>1, CoStepType DEF IInv
<1>5. EngineTypeOK' /\ TunnelTypeOK'
  BY DEF IInv, TypeOK, SelectProfile, Establish, GenerateSocksCreds,
         EngineTypeOK, TunnelTypeOK, engineVars, tunnelVars
<1>6. inst[c] \in Inst
  BY <1>1 DEF IInv, Anchored, CoStep
<1>7. /\ tunInterface' \in [Inst -> CoRef]
      /\ openTuns' \in SUBSET Co
      /\ netCallback' \in SUBSET Inst
      /\ creds' \in CoRef
  BY <1>6 DEF IInv, TypeOK, SelectProfile, Establish, GenerateSocksCreds,
              tunVars, CoRef
<1>8. /\ UNCHANGED <<vpnState, timed, coFrame>>
      /\ activeName' \in BOOLEAN
  BY DEF IInv, TypeOK, SelectProfile, Establish, GenerateSocksCreds, uiVars
<1>9. TypeOK'
  BY <1>4, <1>5, <1>7, <1>8 DEF IInv, TypeOK, CoTyped, coFrame, prefVars, widgetVars,
     lifeVars, mainVars
<1>10. QED
  BY <1>3, <1>9 DEF IInv

LEMMA EngineStepInv ==
    ASSUME IInv, NEW c \in Co,
           \/ BuildConfig(c) \/ StopOld(c) \/ StartLoop(c)
           \/ StoreController(c) \/ SpawnTunnel(c) \/ MarkStarted(c)
    PROVE  IInv'
<1>1. PICK from \in CoPc, to \in CoPc :
         /\ from # "idle" /\ to \notin {"idle", "persist"}
         /\ CoStep(c, from, to)
  <2>1. CASE StoreController(c)
    BY <2>1 DEF StoreController, CoPc
  <2>2. CASE SpawnTunnel(c)
    BY <2>2 DEF SpawnTunnel, CoPc
  <2>3. CASE BuildConfig(c) \/ StopOld(c) \/ StartLoop(c) \/ MarkStarted(c)
    BY <2>3 DEF BuildConfig, StopOld, StartLoop, MarkStarted, CoPc
  <2>4. QED
    BY <2>1, <2>2, <2>3
<1>2. UNCHANGED <<vpnState, lifeVars, mainVars>>
  BY DEF BuildConfig, StopOld, StartLoop, StoreController, SpawnTunnel,
         MarkStarted, coFrame, uiVars
<1>3. Anchored' /\ NoStuckConnecting'
  BY <1>1, <1>2, CoProgress
<1>4. CoTyped'
  BY <1>1, CoStepType DEF IInv
<1>5. EngineTypeOK'
  <2>1. creds \in CoRef /\ EngineTypeOK
    BY DEF IInv, TypeOK
  <2>2. CASE BuildConfig(c) \/ StopOld(c) \/ StartLoop(c) \/ StoreController(c)
    <3>1. \/ EngineConfigure(c, creds) \/ EngineStop("stopLoop" \in Faults)
          \/ EngineLoop(c) \/ EngineStore(c)
      BY <2>2 DEF BuildConfig, StopOld, StartLoop, StoreController
    <3>2. ("stopLoop" \in Faults) \in BOOLEAN
      OBVIOUS
    <3>3. QED
      BY <2>1, <3>1, <3>2, EngineType
  <2>3. CASE SpawnTunnel(c) \/ MarkStarted(c)
    BY <2>1, <2>3 DEF SpawnTunnel, MarkStarted, EngineTypeOK, engineVars
  <2>4. QED
    BY <2>2, <2>3
<1>6. TunnelTypeOK'
  <2>1. creds \in CoRef /\ TunnelTypeOK
    BY DEF IInv, TypeOK
  <2>2. CASE SpawnTunnel(c) \/ MarkStarted(c)
    <3>1. \/ TunnelSpawn(c, creds) \/ TunnelSpawnFails
          \/ TunnelAlreadyRunning \/ TunnelMarkStarted
      BY <2>2 DEF SpawnTunnel, MarkStarted
    <3>2. QED
      BY <2>1, <3>1, TunnelType
  <2>3. CASE BuildConfig(c) \/ StopOld(c) \/ StartLoop(c) \/ StoreController(c)
    BY <2>1, <2>3 DEF BuildConfig, StopOld, StartLoop, StoreController,
       TunnelTypeOK, tunnelVars
  <2>4. QED
    BY <2>2, <2>3
<1>7. TypeOK'
  BY <1>4, <1>5, <1>6 DEF IInv, TypeOK, CoTyped, BuildConfig, StopOld, StartLoop,
     StoreController, SpawnTunnel, MarkStarted, uiVars, tunVars, coFrame,
     prefVars, widgetVars, lifeVars, mainVars
<1>8. QED
  BY <1>3, <1>7 DEF IInv

LEMMA EngineFailedInv == ASSUME IInv, NEW c \in Co, EngineFailed(c) PROVE IInv'
<1>1. CoTyped'
  BY CoStepType DEF IInv, EngineFailed, CoPc
<1>2. EngineTypeOK' /\ TunnelTypeOK'
  BY DEF IInv, TypeOK, EngineFailed, EngineForget, EngineTypeOK, TunnelTypeOK,
         tunnelVars, CoRef
<1>3. inst[c] \in Inst
  BY DEF IInv, Anchored, EngineFailed, CoStep
<1>4. stopping' \in BOOLEAN /\ widgetDirty' \in BOOLEAN
  BY DEF IInv, TypeOK, EngineFailed, StopSelf, UpdateAll
<1>5. tunInterface' \in [Inst -> CoRef] /\ openTuns' \in SUBSET Co
  BY <1>3 DEF IInv, TypeOK, EngineFailed, CoRef
<1>6. TypeOK'
  BY <1>1, <1>2, <1>4, <1>5 DEF IInv, TypeOK, CoTyped, EngineFailed, ReportError,
     StopSelf, VpnState, prefVars, mainVars
<1>7. Anchored' /\ NoStuckConnecting'
  BY CoReport DEF EngineFailed, ReportError, StopSelf, CoPc
<1>8. QED
  BY <1>6, <1>7 DEF IInv

LEMMA ConnectInv == ASSUME IInv, NEW c \in Co, Connect(c) PROVE IInv'
<1>1. CoTyped'
  BY CoStepType DEF IInv, Connect, CoPc
<1>2. EngineTypeOK' /\ TunnelTypeOK'
  BY DEF IInv, TypeOK, Connect, EngineTypeOK, TunnelTypeOK, engineVars,
         tunnelVars
<1>3. TypeOK'
  BY <1>1, <1>2 DEF IInv, TypeOK, CoTyped, Connect, VpnState, tunVars, coFrame,
     prefVars, widgetVars, lifeVars, mainVars
<1>4. Anchored' /\ NoStuckConnecting'
  BY CoReport DEF Connect, CoPc, coFrame, lifeVars
<1>5. QED
  BY <1>3, <1>4 DEF IInv

\* The last step ends a coroutine that has already reported.
LEMMA PersistInv == ASSUME IInv, NEW c \in Co, Persist(c) PROVE IInv'
<1>1. CoTyped'
  BY CoStepType DEF IInv, Persist, CoPc
<1>2. EngineTypeOK' /\ TunnelTypeOK'
  BY DEF IInv, TypeOK, Persist, EngineTypeOK, TunnelTypeOK, engineVars,
         tunnelVars
<1>3. widgetDirty' \in BOOLEAN
  BY DEF IInv, TypeOK, Persist, UpdateAll
<1>4. TypeOK'
  BY <1>1, <1>2, <1>3 DEF IInv, TypeOK, CoTyped, Persist, uiVars, tunVars, lifeVars,
     mainVars
<1>5. Anchored'
  BY DEF IInv, TypeOK, Anchored, Persist, CoStep, lifeVars, mainVars, uiVars
<1>6. ASSUME NEW d \in Co, pc[d] \notin {"idle", "persist"}, ~Cancelled(d)
      PROVE  pc'[d] \notin {"idle", "persist"} /\ ~Cancelled(d)'
  BY <1>6 DEF IInv, TypeOK, Cancelled, Persist, CoStep, lifeVars
<1>7. NoStuckConnecting'
  BY <1>6 DEF IInv, NoStuckConnecting, Persist, uiVars
<1>8. QED
  BY <1>4, <1>5, <1>7 DEF IInv
-----------------------------------------------------------------------------
LEMMA SystemInv == ASSUME IInv, UpdateWidget \/ Crash \/ Reboot PROVE IInv'
<1>1. CASE UpdateWidget
  <2>1. EngineTypeOK' /\ TunnelTypeOK'
    BY <1>1 DEF IInv, TypeOK, UpdateWidget, EngineTypeOK, TunnelTypeOK,
       engineVars, tunnelVars
  <2>2. widget' \in BOOLEAN
    BY <1>1 DEF UpdateWidget, isActive
  <2>3. TypeOK'
    BY <1>1, <2>1, <2>2 DEF IInv, TypeOK, UpdateWidget, uiVars, tunVars,
       prefVars, coVars, lifeVars, mainVars
  <2>4. Anchored' /\ NoStuckConnecting'
    BY <1>1 DEF IInv, Anchored, NoStuckConnecting, Cancelled, UpdateWidget,
       uiVars, coVars, lifeVars, mainVars
  <2>5. QED
    BY <2>3, <2>4 DEF IInv
<1>2. CASE Crash \/ Reboot
  <2>1. ProcessDeath
    BY <1>2 DEF Crash, Reboot
  <2>2. EngineTypeOK' /\ TunnelTypeOK'
    BY <2>1 DEF IInv, TypeOK, ProcessDeath, EngineTypeOK, TunnelTypeOK, CoRef
  <2>3. wake' \in {"none", "sticky", "boot"} /\ widgetDirty' \in BOOLEAN
    BY <1>2 DEF IInv, TypeOK, Crash, Reboot, UpdateAll
  <2>4. TypeOK'
    BY <2>1, <2>2, <2>3 DEF IInv, TypeOK, ProcessDeath, VpnState, CoPc,
       MainPc, CoRef, prefVars
  <2>5. Anchored' /\ NoStuckConnecting'
    BY <2>1 DEF ProcessDeath, Anchored, NoStuckConnecting
  <2>6. QED
    BY <2>4, <2>5 DEF IInv
<1>3. QED
  BY <1>1, <1>2

LEMMA NextInv == IInv /\ [Next]_vars => IInv'
<1> SUFFICES ASSUME IInv, [Next]_vars PROVE IInv'
  OBVIOUS
<1>1. CASE \E c \in Co : CoNext(c)
  <2>1. PICK c \in Co : CoNext(c)
    BY <1>1
  <2>2. QED
    BY <2>1, FailInv, NeverRunsInv, BeforeEngineInv, EngineStepInv,
       EngineFailedInv, ConnectInv, PersistInv DEF CoNext, TunnelConfigFails
<1>2. CASE UNCHANGED vars
  <2>1. TypeOK'
    BY <1>2 DEF IInv, TypeOK, EngineTypeOK, TunnelTypeOK, vars, engineVars,
       tunnelVars, uiVars, tunVars, prefVars, widgetVars, coVars, lifeVars,
       mainVars
  <2>2. Anchored' /\ NoStuckConnecting'
    BY <1>2 DEF IInv, Anchored, NoStuckConnecting, Cancelled, vars, uiVars,
       coVars, lifeVars, mainVars
  <2>3. QED
    BY <2>1, <2>2 DEF IInv
<1>3. QED
  BY <1>1, <1>2, IntentInv, StoppingInv, SystemInv DEF Next

\* Every variable of the service keeps its type (all of CoreService.kt).
THEOREM TypeCorrect == Spec => []TypeOK
<1>1. IInv => TypeOK
  BY DEF IInv
<1>2. QED
  BY <1>1, InitInv, NextInv, PTL DEF Spec

\* CONNECTING is never left behind by startConnection, stopConnection,
\* onDestroy or the system, for any number of overlapping starts and stops.
THEOREM NeverStuckConnecting == Spec => []NoStuckConnecting
<1>1. IInv => NoStuckConnecting
  BY DEF IInv
<1>2. QED
  BY <1>1, InitInv, NextInv, PTL DEF Spec
-----------------------------------------------------------------------------
(***************************************************************************)
(* Stops that overtake a start, for any clients and any faults.            *)
(***************************************************************************)

\* A coroutine past its last suspension point belongs to the live instance, or
\* was past it when its instance was destroyed.
Reached ==
    \A c \in Co : pc[c] \in Committed => inst[c] = cur \/ c \in late

\* A coroutine of the live instance that finds the state DISCONNECTED was
\* overtaken by a stop.
Downed ==
    \A c \in Co : InFlight(c) /\ inst[c] = cur /\ vpnState = "DISCONNECTED" =>
        stopping \/ mainPc = "finish"

\* There is a reason for a start that is under way and that no stop has
\* overtaken, and for the one the system owes: the user wants it, or auto_start
\* did not say otherwise.
Reason ==
    /\ sticky \/ wake = "sticky" => wanted \/ autoStart
    /\ wake = "sticky" => cur = None
    /\ \A c \in Co : InFlight(c) /\ inst[c] = cur /\ ~stopping => wanted \/ autoStart

LInv == Reached /\ Downed /\ Reason

LEMMA LateInit == Init => LInv
  BY DEF Init, LInv, Reached, Downed, Reason, InFlight, Committed

\* A start adds a coroutine to an instance that no coroutine of a former one can
\* be taken for.
LEMMA LateStart ==
    ASSUME IInv, LInv, NEW i \in Inst, NEW c \in Co,
           StartCommand(i, c) \/ StickyRestart(i, c) \/ BootStart(i, c)
    PROVE  LInv'
<1>1. /\ mainPc = "idle" /\ Receives(i) /\ pc[c] = "idle" /\ cur' = i /\ sticky'
      /\ vpnState' = "CONNECTING"
      /\ pc' = [pc EXCEPT ![c] = "select"] /\ inst' = [inst EXCEPT ![c] = i]
      /\ UNCHANGED <<late, autoStart, stopping>>
  BY DEF StartCommand, StickyRestart, BootStart, StartConnection, Fresh, InFlight,
     ReportConnecting
<1>2. (wanted' \/ autoStart') /\ wake' # "sticky"
  BY <1>1 DEF StartCommand, StickyRestart, BootStart, IInv, TypeOK, LInv, Reason
<1>3. \A d \in Co : d # c => pc'[d] = pc[d] /\ inst'[d] = inst[d]
  BY <1>1 DEF IInv, TypeOK
<1>4. pc'[c] = "select" /\ inst'[c] = i
  BY <1>1 DEF IInv, TypeOK
<1>5. \A d \in Co : d # c /\ pc[d] # "idle" /\ inst[d] = cur => inst[d] = i
  BY <1>1 DEF Receives, InFlight, IInv, Anchored
<1>6. Reached'
  BY <1>1, <1>3, <1>4, <1>5 DEF LInv, Reached, Committed
<1>7. Downed' /\ Reason'
  BY <1>1, <1>2 DEF Downed, Reason
<1> QED BY <1>6, <1>7 DEF LInv

\* A stop that begins changes nothing yet, but may create an instance for it.
LEMMA LateBegin ==
    ASSUME IInv, LInv,
           (\E i \in Inst : StopCommand(i)) \/ BootSkip \/ Revoke \/ Destroy
    PROVE  LInv'
<1>1. CASE BootSkip \/ Revoke \/ Destroy
  <2>1. UNCHANGED <<vpnState, autoStart, wanted, pc, inst, late, cur, stopping, sticky>>
    BY <1>1 DEF BootSkip, Revoke, Destroy, uiVars, prefVars, coVars, lifeVars, mainFrame
  <2>2. /\ wake' = "sticky" => wake = "sticky"
        /\ mainPc = "finish" => mainPc' = "finish"
    BY <1>1 DEF BootSkip, Revoke, Destroy, mainFrame, lifeVars, mainVars
  <2> QED BY <2>1, <2>2 DEF LInv, Reached, Downed, Reason, InFlight
<1>2. ASSUME NEW i \in Inst, StopCommand(i) PROVE LInv'
  <2>1. /\ UNCHANGED <<vpnState, autoStart, wanted, pc, inst, late, stopping>>
        /\ mainPc = "idle" /\ Receives(i) /\ cur' = i
        /\ sticky' = (sticky \/ wake = "sticky") /\ wake' # "sticky"
    BY <1>2 DEF StopCommand, uiVars, prefVars, coVars, IInv, TypeOK
  <2>2. \A d \in Co : pc[d] # "idle" => (inst[d] = cur <=> inst[d] = i)
    BY <2>1 DEF Receives, InFlight, IInv, Anchored
  <2>3. Reached'
    BY <2>1, <2>2 DEF LInv, Reached, Committed
  <2>4. Downed' /\ Reason'
    BY <2>1, <2>2 DEF LInv, Downed, Reason, InFlight
  <2> QED BY <2>3, <2>4 DEF LInv
<1> QED BY <1>1, <1>2

\* stopConnection() marks every coroutine in flight as overtaken: by stopSelf(),
\* or for good by the cancellation.
LEMMA LateStop == ASSUME IInv, LInv, Stopping PROVE LInv'
<1>1. CASE StopThread \/ MarkStopped \/ StopEngine \/ CloseTun
  <2>1. /\ UNCHANGED <<vpnState, autoStart, wanted, pc, inst, late, cur, stopping, sticky,
                       wake>>
        /\ mainPc # "finish"
    BY <1>1 DEF StopThread, MarkStopped, StopEngine, CloseTun, MainStep, uiVars, mainFrame,
       prefVars, coVars, lifeVars
  <2> QED BY <2>1 DEF LInv, Reached, Downed, Reason, InFlight
<1>2. CASE Announce
  <2>1. /\ UNCHANGED <<autoStart, wanted, pc, inst, late, cur, stopping, sticky, wake>>
        /\ mainPc' = "finish"
    BY <1>2 DEF Announce, MainStep, prefVars, coVars, lifeVars
  <2> QED BY <2>1 DEF LInv, Reached, Downed, Reason, InFlight
<1>3. CASE Finish
  <2>1. /\ cur \in Inst /\ wake # "sticky" /\ wake' = wake /\ ~sticky'
        /\ pc' = pc /\ inst' = inst
    BY <1>3 DEF Finish, IInv, Anchored, LInv, Reason
  <2>2. CASE mainWhy = "stop"
    BY <1>3, <2>1, <2>2 DEF Finish, LInv, Reached, Downed, Reason
  <2>3. CASE mainWhy = "destroy"
    <3>1. /\ cur' = None
          /\ late' = late \cup {c \in Co : inst[c] = cur /\ pc[c] \in Committed}
      BY <1>3, <2>3 DEF Finish
    <3>2. \A c \in Co : InFlight(c) => inst'[c] # cur'
      BY <2>1, <3>1 DEF IInv, Anchored, InFlight
    <3>3. Reached'
      BY <2>1, <3>1 DEF LInv, Reached
    <3>4. Downed' /\ Reason'
      BY <2>1, <3>1, <3>2 DEF Downed, Reason, InFlight
    <3> QED BY <3>3, <3>4 DEF LInv
  <2> QED BY <2>2, <2>3 DEF IInv, TypeOK
<1> QED BY <1>1, <1>2, <1>3 DEF Stopping

\* A coroutine's step: only BuildConfig passes the last suspension point, and it
\* needs a job that is not cancelled.
LEMMA LateStep ==
    ASSUME IInv, LInv, NEW c \in Co, CoNext(c)
    PROVE  LInv'
<1>1. PICK from \in CoPc, to \in CoPc :
         /\ CoStep(c, from, to) /\ from # "idle"
         /\ to \in Committed => from \in Committed \/ inst[c] = cur
  <2>1. CASE BuildConfig(c)
    BY <2>1 DEF BuildConfig, Cancelled, CoPc
  <2>2. CASE \/ StopOld(c) \/ StartLoop(c) \/ StoreController(c) \/ MarkStarted(c)
             \/ Connect(c) \/ SpawnTunnel(c)
    <3>1. CASE StoreController(c)
      BY <3>1 DEF StoreController, Committed, CoPc
    <3>2. CASE SpawnTunnel(c)
      BY <3>2 DEF SpawnTunnel, Committed, CoPc
    <3>3. CASE StopOld(c) \/ StartLoop(c) \/ MarkStarted(c) \/ Connect(c)
      BY <3>3 DEF StopOld, StartLoop, MarkStarted, Connect, Committed, CoPc
    <3> QED BY <2>2, <3>1, <3>2, <3>3
  <2>3. CASE \/ NeverRuns(c) \/ SelectProfile(c) \/ Establish(c)
             \/ GenerateSocksCreds(c) \/ EngineFailed(c) \/ Persist(c)
    BY <2>3 DEF NeverRuns, SelectProfile, Establish, GenerateSocksCreds, EngineFailed,
       Persist, Committed, CoPc
  <2>4. CASE \E from \in {"select", "establish", "build", "spawn"} : Fail(c, from)
    BY <2>4 DEF Fail, Committed, CoPc
  <2> QED BY <2>1, <2>2, <2>3, <2>4 DEF CoNext, TunnelConfigFails
<1>2. /\ pc[c] = from /\ pc'[c] = to
      /\ \A d \in Co : d # c => pc'[d] = pc[d] /\ inst'[d] = inst[d]
      /\ \A d \in Co : d # c => (d \in late' <=> d \in late)
      /\ to # "idle" => inst' = inst /\ late' = late
  BY <1>1 DEF CoStep, IInv, TypeOK
<1>3. /\ UNCHANGED <<wanted, mainPc, cur, sticky, wake>>
      /\ stopping => stopping'
      /\ autoStart => autoStart'
  <2>1. UNCHANGED <<mainPc, cur, sticky, wake>>
    BY DEF CoNext, Fail, StopSelf, NeverRuns, SelectProfile, Establish, GenerateSocksCreds,
       BuildConfig, StopOld, StartLoop, EngineFailed, StoreController, SpawnTunnel,
       TunnelConfigFails, MarkStarted, Connect, Persist, coFrame, prefVars, lifeVars,
       mainVars
  <2>2. wanted' = wanted
    BY DEF CoNext, Fail, StopSelf, NeverRuns, SelectProfile, Establish, GenerateSocksCreds,
       BuildConfig, StopOld, StartLoop, EngineFailed, StoreController, SpawnTunnel,
       TunnelConfigFails, MarkStarted, Connect, Persist, coFrame, prefVars, lifeVars,
       mainVars
  <2>3. stopping' = stopping \/ stopping' = (stopping \/ inst[c] = cur)
    BY DEF CoNext, Fail, StopSelf, NeverRuns, SelectProfile, Establish, GenerateSocksCreds,
       BuildConfig, StopOld, StartLoop, EngineFailed, StoreController, SpawnTunnel,
       TunnelConfigFails, MarkStarted, Connect, Persist, coFrame, prefVars, lifeVars,
       mainVars
  <2>4. autoStart' = autoStart \/ autoStart' = TRUE
    BY DEF CoNext, Fail, StopSelf, NeverRuns, SelectProfile, Establish, GenerateSocksCreds,
       BuildConfig, StopOld, StartLoop, EngineFailed, StoreController, SpawnTunnel,
       TunnelConfigFails, MarkStarted, Connect, Persist, coFrame, prefVars, lifeVars,
       mainVars
  <2>5. stopping => stopping'
    <3>1. CASE stopping' = stopping
      BY <3>1
    <3>2. CASE stopping' = (stopping \/ inst[c] = cur)
      BY <3>2
    <3> QED BY <2>3, <3>1, <3>2
  <2>6. autoStart => autoStart'
    <3>1. CASE autoStart' = autoStart
      BY <3>1
    <3>2. CASE autoStart' = TRUE
      BY <3>2
    <3> QED BY <2>4, <3>1, <3>2
  <2> QED BY <2>1, <2>2, <2>5, <2>6
<1>4. vpnState' = "DISCONNECTED" => vpnState = "DISCONNECTED"
  BY DEF CoNext, Fail, ReportError, NeverRuns, SelectProfile, Establish, GenerateSocksCreds,
     BuildConfig, StopOld, StartLoop, EngineFailed, StoreController, SpawnTunnel,
     TunnelConfigFails, MarkStarted, Connect, Persist, uiVars
<1>5. \A d \in Co : pc'[d] # "idle" => pc[d] # "idle" /\ inst'[d] = inst[d]
  BY <1>1, <1>2
<1>6. Reached'
  <2> SUFFICES ASSUME NEW d \in Co, pc'[d] \in Committed
               PROVE  inst'[d] = cur \/ d \in late'
    BY <1>3 DEF Reached
  <2>1. CASE d = c
    BY <1>1, <1>2, <2>1 DEF LInv, Reached, Committed
  <2>2. CASE d # c
    BY <1>2, <2>2 DEF LInv, Reached
  <2> QED BY <2>1, <2>2
<1>7. Downed' /\ Reason'
  BY <1>3, <1>4, <1>5 DEF LInv, Downed, Reason, InFlight
<1> QED BY <1>6, <1>7 DEF LInv

\* A process that dies takes its coroutines with it.
LEMMA LateSystem == ASSUME IInv, LInv, UpdateWidget \/ Crash \/ Reboot PROVE LInv'
<1>1. CASE UpdateWidget
  BY <1>1 DEF UpdateWidget, uiVars, prefVars, coVars, lifeVars, mainVars, LInv, Reached,
     Downed, Reason, InFlight
<1>2. CASE Crash \/ Reboot
  <2>1. /\ \A c \in Co : pc'[c] = "idle"
        /\ UNCHANGED <<autoStart, wanted>> /\ ~sticky' /\ cur' = None
        /\ wake' = "sticky" => wake = "sticky" \/ sticky
    BY <1>2 DEF Crash, Reboot, ProcessDeath, prefVars
  <2> QED BY <2>1 DEF LInv, Reached, Downed, Reason, InFlight, Committed
<1> QED BY <1>1, <1>2

LEMMA LateNext == ASSUME IInv, LInv, [Next]_vars PROVE LInv'
<1>1. CASE UNCHANGED vars
  BY <1>1 DEF vars, uiVars, prefVars, coVars, lifeVars, mainVars, LInv, Reached, Downed,
     Reason, InFlight
<1> QED BY <1>1, LateStart, LateBegin, LateStop, LateStep, LateSystem DEF Next

LEMMA LateHolds == Spec => [](IInv /\ LInv)
<1>1. Init => IInv /\ LInv
  BY InitInv, LateInit
<1>2. (IInv /\ LInv) /\ [Next]_vars => (IInv /\ LInv)'
  BY NextInv, LateNext
<1> QED BY <1>1, <1>2, PTL DEF Spec

\* Whatever clients and the system do, and whatever fails: startConnection turns
\* DISCONNECTED into CONNECTED only in a coroutine that a stop has overtaken,
\* and after onDestroy only in one that was then past its last suspension point.
THEOREM ConnectsOnlyWhenAsked == Spec => NoLateConnect
<1>1. ASSUME IInv, LInv, [Next]_vars, vpnState = "DISCONNECTED", vpnState' = "CONNECTED"
      PROVE  \E c \in Co : pc[c] = "connect" /\ pc'[c] = "persist" /\ Overtaken(c)
  <2>1. PICK c \in Co : Connect(c)
    BY <1>1 DEF Next, vars, uiVars, StartCommand, StickyRestart, BootStart, StartConnection,
       ReportConnecting, StopCommand, BootSkip, Revoke, Destroy, Stopping, StopThread,
       MarkStopped, StopEngine, CloseTun, Announce, Finish, CoNext, Fail, ReportError,
       NeverRuns, SelectProfile, Establish, GenerateSocksCreds, BuildConfig, StopOld,
       StartLoop, EngineFailed, StoreController, SpawnTunnel, TunnelConfigFails,
       MarkStarted, Persist, UpdateWidget, Crash, Reboot, ProcessDeath
  <2>2. pc[c] = "connect" /\ pc'[c] = "persist"
    BY <1>1, <2>1 DEF Connect, CoStep, IInv, TypeOK
  <2>3. Overtaken(c)
    BY <1>1, <2>2 DEF LInv, Reached, Downed, Committed, InFlight, Overtaken
  <2> QED BY <2>2, <2>3
<1>2. IInv /\ LInv /\ [Next]_vars =>
         [vpnState = "DISCONNECTED" /\ vpnState' = "CONNECTED" =>
             \E c \in Co : pc[c] = "connect" /\ pc'[c] = "persist" /\ Overtaken(c)]_vars
  BY <1>1
<1> QED BY <1>2, LateHolds, PTL DEF Spec, NoLateConnect

\* Only such a coroutine, in its last step, leaves auto_start set against the
\* user's last request: stopConnection clears it with the request, and a start
\* by BootReceiver or by the system has a reason of its own.
THEOREM AutoStartIsWanted == Spec => AutoStartWanted
<1>1. ASSUME IInv, LInv, [Next]_vars, autoStart', ~wanted', ~(autoStart /\ ~wanted)
      PROVE  \E c \in Co : pc[c] = "persist" /\ pc'[c] = "idle" /\ Overtaken(c)
  <2>1. PICK c \in Co : Persist(c)
    <3>1. ~Finish
      BY <1>1 DEF Finish, ForgetAutoStart
    <3>2. ~\E i \in Inst, c \in Co : StartCommand(i, c)
      BY <1>1 DEF StartCommand
    <3>3. ASSUME autoStart' = autoStart, wanted' = wanted PROVE FALSE
      <4>1. autoStart
        BY <1>1, <3>3
      <4>2. ~wanted
        BY <1>1, <3>3
      <4> QED BY <1>1, <4>1, <4>2
    <3> QED BY <1>1, <3>1, <3>2, <3>3 DEF Next, vars, prefVars, StickyRestart, BootStart,
          StartConnection, StopCommand, BootSkip, Revoke, Destroy, Stopping, StopThread,
          MarkStopped, StopEngine, CloseTun, Announce, mainFrame, coFrame, CoNext, Fail,
          NeverRuns, SelectProfile, Establish, GenerateSocksCreds, BuildConfig, StopOld,
          StartLoop, EngineFailed, StoreController, SpawnTunnel, TunnelConfigFails,
          MarkStarted, Connect, UpdateWidget, Crash, Reboot, ProcessDeath
  <2>2. pc[c] = "persist" /\ pc'[c] = "idle" /\ wanted' = wanted
    BY <1>1, <2>1 DEF Persist, CoStep, IInv, TypeOK
  <2>3. ~wanted /\ ~autoStart
    BY <1>1, <2>2
  <2>4. Overtaken(c)
    BY <1>1, <2>2, <2>3 DEF LInv, Reached, Reason, Committed, InFlight, Overtaken
  <2> QED BY <2>2, <2>4
<1>2. IInv /\ LInv /\ [Next]_vars =>
         [autoStart' /\ ~wanted' /\ ~(autoStart /\ ~wanted) =>
             \E c \in Co : pc[c] = "persist" /\ pc'[c] = "idle" /\ Overtaken(c)]_vars
  BY <1>1
<1> QED BY <1>2, LateHolds, PTL DEF Spec, AutoStartWanted

-----------------------------------------------------------------------------
(***************************************************************************)
(* Clients that wait (Patient), and a stopLoop that does not throw.  Then  *)
(* only one thing happens at a time, and every resource is accounted for.  *)
(***************************************************************************)

\* Nothing that a start acquires is there.
Bare ==
    /\ openTuns = {} /\ netCallback = {} /\ \A i \in Inst : tunInterface[i] = None
    /\ running = {} /\ coreController = None
    /\ tunnelFd = None /\ ~started
    /\ creds = None /\ ~activeName /\ ~timed

Idle == \A c \in Co : ~InFlight(c)

\* A coroutine in flight is the only one and belongs to the live instance; no
\* handler runs meanwhile.  Without an instance there is nothing; an instance
\* at rest is connected, or about to be destroyed.
OneAtATime ==
    /\ \A c \in Co : InFlight(c) =>
          /\ inst[c] = cur /\ cur # None /\ mainPc = "idle" /\ ~stopping /\ wake = "none"
          /\ \A d \in Co : InFlight(d) => d = c
    /\ cur = None => Bare /\ vpnState = "DISCONNECTED" /\ mainPc = "idle" /\ ~stopping
    /\ wake # "none" => cur = None
    /\ Idle /\ ~stopping /\ mainPc = "idle" /\ cur # None => isActive
    /\ stopping /\ mainPc = "idle" => ~isActive

\* What a start coroutine holds, depending on how far it is.
HasThread == {"mark", "connect", "persist"}
HasController == {"spawn", "mark", "connect", "persist"}
HasLoop == {"store", "spawn", "mark", "connect", "persist"}
HasConfig == {"stopOld", "loop", "store", "spawn", "mark", "connect", "persist"}
HasCreds == {"build", "stopOld", "loop", "store", "spawn", "mark", "connect", "persist"}
HasTun == {"generate", "build", "stopOld", "loop", "store", "spawn", "mark", "connect",
           "persist"}

Acquired(c) ==
    /\ vpnState = (IF pc[c] = "persist" THEN "CONNECTED" ELSE "CONNECTING")
    /\ activeName <=> pc[c] # "select"
    /\ timed <=> pc[c] = "persist"
    /\ openTuns = (IF pc[c] \in HasTun THEN {c} ELSE {})
    /\ tunInterface[cur] = (IF pc[c] \in HasTun THEN c ELSE None)
    /\ netCallback = (IF pc[c] \in HasTun THEN {cur} ELSE {})
    /\ creds = (IF pc[c] \in HasCreds THEN c ELSE None)
    /\ pc[c] \in HasConfig => config[c] = c
    /\ running = (IF pc[c] \in HasLoop THEN {c} ELSE {})
    /\ coreController = (IF pc[c] \in HasController THEN c ELSE None)
    /\ tunnelFd # None => tunnelFd = c /\ tunnelAuth = c /\ pc[c] \in HasThread
    /\ tunnelFd # None => started \/ pc[c] = "mark"
    /\ started => pc[c] \in {"connect", "persist"}

Flight == \A c \in Co : InFlight(c) => Acquired(c)

\* No tun, loop or thread is without the field that leads to it.
Accounted ==
    /\ \A i \in Inst : i # cur => tunInterface[i] = None
    /\ \A t \in Co : t \in openTuns <=> \E i \in Inst : tunInterface[i] = t
    /\ netCallback \subseteq {cur}
    /\ tunnelFd # None => tunnelFd \in openTuns
    /\ running \subseteq openTuns
    /\ Idle => /\ running = {coreController} \ {None}
               /\ tunnelFd # None => started

\* What stopConnection() has released so far.
Released ==
    /\ mainPc \in {"markStopped", "stopEngine", "closeTun", "announce", "finish"} =>
          tunnelFd = None /\ netCallback = {}
    /\ mainPc \in {"stopEngine", "closeTun", "announce", "finish"} => ~started
    /\ mainPc \in {"closeTun", "announce", "finish"} =>
          running = {} /\ coreController = None
    /\ mainPc \in {"announce", "finish"} => Bare
    /\ mainPc = "finish" => vpnState = "DISCONNECTED"

\* The inductive invariant for patient clients, together with IInv.
PInv ==
    OneAtATime /\ Flight /\ Accounted /\ Released /\ ConnectedCoherent

\* A step of a coroutine that stays in flight.
LEMMA StayInFlight ==
    ASSUME IInv, PInv, NEW c \in Co, NEW from, NEW to \in CoPc, from # "idle", to # "idle",
           CoStep(c, from, to), UNCHANGED <<prefVars, lifeVars, mainVars>>,
           Acquired(c)', \A i \in Inst : i # cur => tunInterface'[i] = tunInterface[i]
    PROVE  PInv'
<1>1. /\ pc[c] = from /\ pc \in [Co -> CoPc] /\ pc' = [pc EXCEPT ![c] = to] /\ inst' = inst
      /\ cur \in Inst /\ InFlight(c)
  BY DEF CoStep, IInv, TypeOK, Anchored, PInv, OneAtATime, InFlight
<1>2. /\ inst[c] = cur /\ cur # None /\ mainPc = "idle" /\ ~stopping /\ wake = "none"
      /\ \A d \in Co : InFlight(d) => d = c
  BY <1>1 DEF PInv, OneAtATime
<1>3. UNCHANGED <<cur, mainPc, stopping, wake, sticky, autoStart, wanted>>
  BY DEF prefVars, lifeVars, mainVars
<1>4. InFlight(c)' /\ \A d \in Co : InFlight(d)' => d = c
  BY <1>1, <1>2 DEF InFlight
<1>5. OneAtATime'
  BY <1>1, <1>2, <1>3, <1>4 DEF OneAtATime, Idle, InFlight
<1>6. Flight'
  BY <1>4 DEF Flight
<1>7. Accounted'
  <2>1. \A i \in Inst : i # cur => tunInterface'[i] = None
    BY DEF PInv, Accounted
  <2>2. /\ openTuns' = (IF pc'[c] \in HasTun THEN {c} ELSE {})
        /\ tunInterface'[cur] = (IF pc'[c] \in HasTun THEN c ELSE None)
        /\ netCallback' = (IF pc'[c] \in HasTun THEN {cur} ELSE {})
        /\ running' = (IF pc'[c] \in HasLoop THEN {c} ELSE {})
        /\ tunnelFd' # None => tunnelFd' = c /\ pc'[c] \in HasThread
    BY <1>3 DEF Acquired
  <2>3. HasLoop \subseteq HasTun /\ HasThread \subseteq HasTun
    BY DEF HasLoop, HasTun, HasThread
  <2>4. \A t \in Co : t \in openTuns' <=> \E i \in Inst : tunInterface'[i] = t
    BY <1>1, <2>1, <2>2
  <2> QED BY <1>3, <1>4, <2>1, <2>2, <2>3, <2>4 DEF Accounted, Idle
<1>8. Released'
  BY <1>2, <1>3 DEF Released
<1>9. ConnectedCoherent'
  BY <1>4 DEF ConnectedCoherent, Settled, Quiet, InFlight
<1> QED BY <1>5, <1>6, <1>7, <1>8, <1>9 DEF PInv

\* What a coroutine knows when it takes a step.
LEMMA InFlightNow ==
    ASSUME IInv, PInv, NEW c \in Co, InFlight(c)
    PROVE  /\ Acquired(c) /\ inst[c] = cur /\ cur \in Inst /\ mainPc = "idle" /\ ~stopping
           /\ wake = "none" /\ \A d \in Co : d # c => pc[d] = "idle"
           /\ pc \in [Co -> CoPc] /\ tunInterface \in [Inst -> CoRef]
BY DEF PInv, OneAtATime, Flight, IInv, TypeOK, InFlight

LEMMA CoSteps ==
    ASSUME IInv, PInv, "stopLoop" \notin Faults, NEW c \in Co,
           \/ SelectProfile(c) \/ Establish(c) \/ GenerateSocksCreds(c) \/ BuildConfig(c)
           \/ StopOld(c) \/ StartLoop(c) \/ StoreController(c) \/ SpawnTunnel(c)
           \/ MarkStarted(c) \/ Connect(c)
    PROVE  PInv'
<1> USE DEF coFrame, HasThread, HasController, HasLoop, HasConfig, HasCreds, HasTun, CoPc,
            uiVars, tunVars, engineVars, tunnelVars
<1>1. pc \in [Co -> CoPc]
  BY DEF IInv, TypeOK
<1>2. InFlight(c)
  BY DEF SelectProfile, Establish, GenerateSocksCreds, BuildConfig, StopOld, StartLoop,
     StoreController, SpawnTunnel, MarkStarted, Connect, CoStep, InFlight
<1>3. /\ Acquired(c) /\ inst[c] = cur /\ cur \in Inst
      /\ tunInterface \in [Inst -> CoRef]
  BY <1>2, InFlightNow
<1>4. UNCHANGED <<prefVars, lifeVars, mainVars>> /\ cur' = cur
  BY DEF SelectProfile, Establish, GenerateSocksCreds, BuildConfig, StopOld, StartLoop,
     StoreController, SpawnTunnel, MarkStarted, Connect, lifeVars
<1>5. \A i \in Inst : i # cur => tunInterface'[i] = tunInterface[i]
  BY <1>3 DEF SelectProfile, Establish, GenerateSocksCreds, BuildConfig, StopOld, StartLoop,
     StoreController, SpawnTunnel, MarkStarted, Connect
<1>6. CASE SelectProfile(c)
  <2>1. CoStep(c, "select", "establish") /\ pc[c] = "select" /\ pc'[c] = "establish"
    BY <1>1, <1>6 DEF SelectProfile, CoStep
  <2>2. Acquired(c)'
    BY <1>3, <1>4, <1>6, <2>1 DEF SelectProfile, Acquired
  <2> QED BY <1>4, <1>5, <2>1, <2>2, StayInFlight
<1>7. CASE Establish(c)
  <2>1. CoStep(c, "establish", "generate") /\ pc[c] = "establish" /\ pc'[c] = "generate"
    BY <1>1, <1>7 DEF Establish, CoStep
  <2>2. Acquired(c)'
    BY <1>3, <1>4, <1>7, <2>1 DEF Establish, Acquired
  <2> QED BY <1>4, <1>5, <2>1, <2>2, StayInFlight
<1>8. CASE GenerateSocksCreds(c)
  <2>1. CoStep(c, "generate", "build") /\ pc[c] = "generate" /\ pc'[c] = "build"
    BY <1>1, <1>8 DEF GenerateSocksCreds, CoStep
  <2>2. Acquired(c)'
    BY <1>3, <1>4, <1>8, <2>1 DEF GenerateSocksCreds, Acquired
  <2> QED BY <1>4, <1>5, <2>1, <2>2, StayInFlight
<1>9. CASE BuildConfig(c)
  <2>1. CoStep(c, "build", "stopOld") /\ pc[c] = "build" /\ pc'[c] = "stopOld"
    BY <1>1, <1>9 DEF BuildConfig, CoStep
  <2>2. config'[c] = c
    BY <1>3, <1>9, <2>1 DEF BuildConfig, EngineConfigure, Acquired, IInv, TypeOK, EngineTypeOK
  <2>3. Acquired(c)'
    BY <1>3, <1>4, <1>9, <2>1, <2>2 DEF BuildConfig, EngineConfigure, Acquired
  <2> QED BY <1>4, <1>5, <2>1, <2>3, StayInFlight
<1>10. CASE StopOld(c)
  <2>1. CoStep(c, "stopOld", "loop") /\ pc[c] = "stopOld" /\ pc'[c] = "loop"
    BY <1>1, <1>10 DEF StopOld, CoStep
  <2>2. coreController = None /\ running = {} /\ config[c] = c
    BY <1>3, <2>1 DEF Acquired
  <2>3. coreController' = None /\ running' = {} /\ config'[c] = c
    BY <1>10, <2>2 DEF StopOld, EngineStop, EngineStopOk
  <2>4. Acquired(c)'
    BY <1>3, <1>4, <1>10, <2>1, <2>3 DEF StopOld, Acquired
  <2> QED BY <1>4, <1>5, <2>1, <2>4, StayInFlight
<1>11. CASE StartLoop(c)
  <2>1. CoStep(c, "loop", "store") /\ pc[c] = "loop" /\ pc'[c] = "store"
    BY <1>1, <1>11 DEF StartLoop, CoStep
  <2>2. Acquired(c)'
    BY <1>3, <1>4, <1>11, <2>1 DEF StartLoop, EngineLoop, Acquired
  <2> QED BY <1>4, <1>5, <2>1, <2>2, StayInFlight
<1>12. CASE StoreController(c)
  <2>1. PICK to \in {"spawn", "connect"} : CoStep(c, "store", to)
    BY <1>12 DEF StoreController
  <2>2. pc[c] = "store" /\ pc'[c] = to
    BY <1>1, <2>1 DEF CoStep
  <2>3. Acquired(c)'
    BY <1>3, <1>4, <1>12, <2>2 DEF StoreController, EngineStore, Acquired
  <2> QED BY <1>4, <1>5, <2>1, <2>3, StayInFlight
<1>13. CASE SpawnTunnel(c)
  <2>1. pc[c] = "spawn"
    BY <1>13 DEF SpawnTunnel, CoStep
  <2>2. tunnelFd = None /\ ~started /\ creds = c
    BY <1>3, <2>1 DEF Acquired
  <2>3. /\ CoStep(c, "spawn", "mark") /\ pc'[c] = "mark" /\ started' = started
        /\ (tunnelFd' = c /\ tunnelAuth' = c) \/ tunnelFd' = None
    BY <1>1, <1>13, <2>2 DEF SpawnTunnel, CoStep, TunnelSpawn, TunnelSpawnFails,
       TunnelAlreadyRunning
  <2>4. Acquired(c)'
    BY <1>3, <1>4, <1>13, <2>1, <2>2, <2>3 DEF SpawnTunnel, Acquired
  <2> QED BY <1>4, <1>5, <2>3, <2>4, StayInFlight
<1>14. CASE MarkStarted(c)
  <2>1. CoStep(c, "mark", "connect") /\ pc[c] = "mark" /\ pc'[c] = "connect"
    BY <1>1, <1>14 DEF MarkStarted, CoStep
  <2>2. Acquired(c)'
    BY <1>3, <1>4, <1>14, <2>1 DEF MarkStarted, TunnelMarkStarted, Acquired
  <2> QED BY <1>4, <1>5, <2>1, <2>2, StayInFlight
<1>15. CASE Connect(c)
  <2>1. CoStep(c, "connect", "persist") /\ pc[c] = "connect" /\ pc'[c] = "persist"
    BY <1>1, <1>15 DEF Connect, CoStep
  <2>2. Acquired(c)'
    BY <1>3, <1>4, <1>15, <2>1 DEF Connect, Acquired
  <2> QED BY <1>4, <1>5, <2>1, <2>2, StayInFlight
<1> QED BY <1>6, <1>7, <1>8, <1>9, <1>10, <1>11, <1>12, <1>13, <1>14, <1>15

\* A coroutine that fails leaves the rest to onDestroy.
LEMMA FailKept ==
    ASSUME IInv, PInv, NEW c \in Co,
           NEW from \in {"select", "establish", "build", "spawn"}, Fail(c, from)
    PROVE  PInv'
<1>1. pc[c] = from /\ InFlight(c) /\ pc' = [pc EXCEPT ![c] = "idle"]
  BY DEF Fail, CoStep, InFlight
<1>2. /\ Acquired(c) /\ inst[c] = cur /\ cur \in Inst /\ mainPc = "idle" /\ ~stopping
      /\ wake = "none" /\ \A d \in Co : d # c => pc[d] = "idle"
      /\ pc \in [Co -> CoPc]
  BY <1>1, InFlightNow
<1>3. /\ vpnState' = "ERROR" /\ stopping'
      /\ UNCHANGED <<engineVars, tunnelVars, creds, tunVars, prefVars, mainVars, cur, sticky,
                     wake>>
  BY <1>2 DEF Fail, ReportError, StopSelf
<1>4. Idle'
  BY <1>1, <1>2 DEF Idle, InFlight
<1>5. OneAtATime'
  BY <1>2, <1>3, <1>4 DEF OneAtATime, Idle, isActive, mainVars
<1>6. Accounted'
  <2>1. running = {coreController} \ {None} /\ tunnelFd = None
    BY <1>1, <1>2 DEF Acquired, HasLoop, HasController, HasThread
  <2> QED BY <1>3, <2>1 DEF PInv, Accounted, engineVars, tunnelVars, tunVars
<1>7. Released' /\ Flight' /\ ConnectedCoherent'
  BY <1>2, <1>3, <1>4 DEF PInv, Released, Flight, ConnectedCoherent, Idle, isActive,
     mainVars, prefVars
<1> QED BY <1>5, <1>6, <1>7 DEF PInv

LEMMA EngineFailedKept ==
    ASSUME IInv, PInv, NEW c \in Co, EngineFailed(c) PROVE PInv'
<1>1. pc[c] = "loop" /\ InFlight(c) /\ pc' = [pc EXCEPT ![c] = "idle"]
  BY DEF EngineFailed, CoStep, InFlight
<1>2. /\ Acquired(c) /\ inst[c] = cur /\ cur \in Inst /\ mainPc = "idle" /\ ~stopping
      /\ wake = "none" /\ \A d \in Co : d # c => pc[d] = "idle"
      /\ pc \in [Co -> CoPc] /\ tunInterface \in [Inst -> CoRef]
  BY <1>1, InFlightNow
<1>3. /\ vpnState' = "ERROR" /\ stopping'
      /\ UNCHANGED <<coreController, running, tunnelVars, netCallback, prefVars, mainVars, cur,
                     sticky, wake>>
  BY <1>2 DEF EngineFailed, EngineForget, ReportError, StopSelf
<1>4. Idle'
  BY <1>1, <1>2 DEF Idle, InFlight
<1>5. OneAtATime'
  BY <1>2, <1>3, <1>4 DEF OneAtATime, Idle, isActive, mainVars
<1>6. Accounted'
  <2>1. running = {} /\ coreController = None /\ tunnelFd = None /\ openTuns = {c}
        /\ tunInterface[cur] = c
    BY <1>1, <1>2 DEF Acquired, HasLoop, HasController, HasThread, HasTun
  <2>2. openTuns' = {} /\ \A i \in Inst : tunInterface'[i] = None
    BY <1>2, <2>1 DEF EngineFailed, PInv, Accounted
  <2> QED BY <1>3, <2>1, <2>2 DEF PInv, Accounted, tunnelVars
<1>7. Released' /\ Flight' /\ ConnectedCoherent'
  BY <1>2, <1>3, <1>4 DEF PInv, Released, Flight, ConnectedCoherent, Idle, isActive,
     mainVars, prefVars
<1> QED BY <1>5, <1>6, <1>7 DEF PInv

\* The end of a successful start: the connection is up and coherent.
LEMMA PersistKept ==
    ASSUME IInv, PInv, NEW c \in Co, Persist(c) PROVE PInv'
<1>1. pc[c] = "persist" /\ InFlight(c) /\ pc' = [pc EXCEPT ![c] = "idle"]
  BY DEF Persist, CoStep, InFlight
<1>2. /\ Acquired(c) /\ inst[c] = cur /\ cur \in Inst /\ mainPc = "idle" /\ ~stopping
      /\ wake = "none" /\ \A d \in Co : d # c => pc[d] = "idle"
      /\ pc \in [Co -> CoPc]
  BY <1>1, InFlightNow
<1>3. UNCHANGED <<engineVars, tunnelVars, uiVars, creds, tunVars, wanted, lifeVars, mainVars>>
  BY DEF Persist
<1>4. Idle'
  BY <1>1, <1>2 DEF Idle, InFlight
<1>5. /\ vpnState = "CONNECTED" /\ activeName /\ timed /\ openTuns = {c}
      /\ tunInterface[cur] = c /\ netCallback = {cur} /\ creds = c /\ config[c] = c
      /\ running = {c} /\ coreController = c
      /\ tunnelFd # None => tunnelFd = c /\ tunnelAuth = c /\ started
  BY <1>1, <1>2 DEF Acquired, HasThread, HasController, HasLoop, HasConfig, HasCreds, HasTun
<1>6. OneAtATime'
  BY <1>2, <1>3, <1>4, <1>5 DEF OneAtATime, Idle, isActive, mainVars, lifeVars, uiVars
<1>7. Accounted'
  BY <1>3, <1>5 DEF PInv, Accounted, engineVars, tunnelVars, tunVars, lifeVars
<1>8. ConnectedCoherent'
  BY <1>2, <1>3, <1>5 DEF ConnectedCoherent, engineVars, tunnelVars, tunVars, lifeVars, uiVars
<1>9. Released' /\ Flight'
  BY <1>2, <1>3, <1>4 DEF PInv, Released, Flight, Idle, mainVars, lifeVars
<1> QED BY <1>6, <1>7, <1>8, <1>9 DEF PInv

\* A patient client's start, or the system's, finds nothing there.
LEMMA StartKept ==
    ASSUME IInv, PInv, Patient, NEW i \in Inst, NEW c \in Co,
           StartCommand(i, c) \/ StickyRestart(i, c) \/ BootStart(i, c)
    PROVE  PInv'
<1>1. StartConnection(i, c)
  BY DEF StartCommand, StickyRestart, BootStart
<1>2. cur = None
  <2>1. CASE StartCommand(i, c)
    BY <2>1 DEF StartCommand, StartConnection, Quiet, PInv, OneAtATime, Idle
  <2>2. CASE StickyRestart(i, c) \/ BootStart(i, c)
    BY <2>2 DEF StickyRestart, BootStart, PInv, OneAtATime
  <2> QED BY <2>1, <2>2
<1>3. Bare /\ vpnState = "DISCONNECTED" /\ mainPc = "idle" /\ ~stopping
  BY <1>2 DEF PInv, OneAtATime
<1>4. \A d \in Co : pc[d] = "idle"
  BY <1>2 DEF PInv, OneAtATime, InFlight
<1>5. wake' = "none"
  BY <1>2 DEF StartCommand, StickyRestart, BootStart, PInv, Quiet, IInv, TypeOK
<1>6. /\ cur' = i /\ vpnState' = "CONNECTING" /\ inst'[c] = i
      /\ pc'[c] = "select" /\ \A d \in Co : d # c => pc'[d] = "idle"
      /\ \A j \in Inst : tunInterface'[j] = None
      /\ UNCHANGED <<engineVars, tunnelVars, activeName, timed, creds, openTuns, netCallback,
                     autoStart, stopping, mainVars>>
  BY <1>1, <1>2, <1>3, <1>4 DEF StartConnection, Created, ReportConnecting, Bare, IInv, TypeOK
<1>7. InFlight(c)' /\ \A d \in Co : InFlight(d)' => d = c
  BY <1>6 DEF InFlight
<1>8. OneAtATime'
  BY <1>3, <1>5, <1>6, <1>7 DEF OneAtATime, Idle, mainVars
<1>9. Acquired(c)'
  BY <1>3, <1>6 DEF Acquired, Bare, HasThread, HasController, HasLoop, HasConfig, HasCreds,
     HasTun, engineVars, tunnelVars
<1>10. Accounted'
  BY <1>3, <1>6, <1>7 DEF Accounted, Bare, Idle, engineVars, tunnelVars
<1>11. Released' /\ Flight' /\ ConnectedCoherent'
  BY <1>3, <1>5, <1>6, <1>7, <1>9 DEF Released, Flight, ConnectedCoherent, isActive,
     mainVars
<1> QED BY <1>8, <1>10, <1>11 DEF PInv

\* stopConnection() begins, for an intent, a revocation or onDestroy.
LEMMA BeginStopKept ==
    ASSUME IInv, PInv, Patient, (\E i \in Inst : StopCommand(i)) \/ Revoke \/ Destroy
    PROVE  PInv'
<1>1. /\ mainPc = "idle" /\ mainPc' = "stopThread" /\ cur' \in Inst
      /\ UNCHANGED <<engineVars, tunnelVars, uiVars, creds, openTuns, netCallback, prefVars,
                     coVars, stopping>>
  BY DEF StopCommand, Revoke, Destroy, tunVars, mainFrame, lifeVars, IInv, TypeOK, Anchored
<1>2. Idle /\ cur' # None /\ wake' = "none"
  <2>1. CASE \E i \in Inst : StopCommand(i)
    BY <1>1, <2>1 DEF StopCommand, Quiet, Idle, IInv, TypeOK
  <2>2. CASE Revoke \/ Destroy
    BY <1>1, <2>2 DEF Revoke, Destroy, Quiet, Idle, PInv, OneAtATime, mainFrame, lifeVars,
       IInv, TypeOK
  <2> QED BY <2>1, <2>2
<1>3. Idle'
  BY <1>1, <1>2 DEF Idle, InFlight, coVars
<1>4. (\A i \in Inst : tunInterface'[i] = tunInterface[i]) /\ (cur # None => cur' = cur)
  <2>1. CASE \E i \in Inst : StopCommand(i)
    <3>1. PICK i \in Inst : StopCommand(i)
      BY <2>1
    <3>2. CASE cur = None
      BY <3>1, <3>2 DEF StopCommand, Created, PInv, OneAtATime, Bare, IInv, TypeOK
    <3>3. CASE cur # None
      BY <3>1, <3>3 DEF StopCommand, Created, Receives
    <3> QED BY <3>2, <3>3
  <2>2. CASE Revoke \/ Destroy
    BY <2>2 DEF Revoke, Destroy, tunVars, mainFrame, lifeVars
  <2> QED BY <2>1, <2>2
<1>5. OneAtATime'
  BY <1>1, <1>2, <1>3 DEF OneAtATime, Idle
<1>6. Accounted'
  <2>1. /\ \A i \in Inst : i # cur' => tunInterface'[i] = None
        /\ netCallback' \subseteq {cur'}
    <3>1. CASE cur = None
      BY <1>1, <1>4, <3>1 DEF PInv, OneAtATime, Bare
    <3>2. CASE cur # None
      BY <1>1, <1>4, <3>2 DEF PInv, Accounted
    <3> QED BY <3>1, <3>2
  <2> QED BY <1>1, <1>2, <1>4, <2>1 DEF PInv, Accounted, engineVars, tunnelVars
<1>7. Released' /\ Flight' /\ ConnectedCoherent'
  BY <1>1, <1>3 DEF Released, Flight, ConnectedCoherent, Settled, Idle
<1> QED BY <1>5, <1>6, <1>7 DEF PInv

\* Each step of stopConnection() releases its part.
LEMMA StopKept ==
    ASSUME IInv, PInv, "stopLoop" \notin Faults, Stopping
    PROVE  PInv'
<1>1. mainPc # "idle" /\ cur \in Inst
  BY DEF Stopping, StopThread, MarkStopped, StopEngine, CloseTun, Announce, Finish, MainStep, IInv,
     Anchored
<1>2. Idle /\ cur # None /\ wake = "none"
  BY <1>1 DEF PInv, OneAtATime, Idle
<1>3. Idle' /\ wake' = "none"
  BY <1>2 DEF Stopping, StopThread, MarkStopped, StopEngine, CloseTun, Announce, Finish, Idle,
     InFlight, mainFrame, coVars, lifeVars
<1>4. Flight'
  BY <1>3 DEF Flight, Idle
<1>5. CASE StopThread \/ MarkStopped \/ StopEngine \/ CloseTun
  <2>1. mainPc' # "idle" /\ UNCHANGED <<prefVars, lifeVars>>
    BY <1>5 DEF StopThread, MarkStopped, StopEngine, CloseTun, MainStep, mainFrame
  <2>2. OneAtATime' /\ ConnectedCoherent'
    BY <1>1, <1>2, <1>3, <2>1 DEF PInv, OneAtATime, ConnectedCoherent, Settled, Idle,
       prefVars, lifeVars
  <2>3. CASE StopThread
    <3>1. /\ UNCHANGED <<engineVars, tunInterface, openTuns, cur>>
          /\ netCallback' = {} /\ tunnelFd' = None
          /\ mainPc' \in {"markStopped", "stopEngine"} /\ (mainPc' = "stopEngine" => ~started')
      BY <1>2, <2>3 DEF StopThread, MainStep, TunnelStopThread, PInv, Accounted, mainFrame,
         lifeVars, tunnelVars
    <3> QED BY <1>2, <1>4, <2>2, <3>1 DEF PInv, Accounted, Released, engineVars
  <2>4. CASE MarkStopped
    <3>1. /\ UNCHANGED <<engineVars, tunVars, tunnelFd, cur>> /\ ~started'
          /\ mainPc = "markStopped" /\ mainPc' = "stopEngine"
      BY <2>4 DEF MarkStopped, MainStep, TunnelMarkStopped, mainFrame, lifeVars
    <3> QED BY <1>2, <1>4, <2>2, <3>1 DEF PInv, Accounted, Released, engineVars, tunVars
  <2>5. CASE StopEngine
    <3>1. /\ UNCHANGED <<tunnelVars, tunVars, cur>>
          /\ coreController' = None /\ running' = {}
          /\ mainPc = "stopEngine" /\ mainPc' = "closeTun"
      BY <1>2, <2>5 DEF StopEngine, MainStep, EngineStop, EngineStopOk, PInv, Accounted,
         mainFrame, lifeVars
    <3> QED BY <1>2, <1>4, <2>2, <3>1 DEF PInv, Accounted, Released, tunnelVars, tunVars
  <2>6. CASE CloseTun
    <3>1. /\ UNCHANGED <<engineVars, tunnelVars, netCallback, cur>>
          /\ openTuns' = openTuns \ {tunInterface[cur]}
          /\ tunInterface' = [tunInterface EXCEPT ![cur] = None]
          /\ ~activeName' /\ ~timed' /\ creds' = None
          /\ mainPc = "closeTun" /\ mainPc' = "announce"
      BY <2>6 DEF CloseTun, MainStep, mainFrame, lifeVars
    <3>2. \A i \in Inst : tunInterface'[i] = None
      BY <1>1, <3>1 DEF PInv, Accounted, IInv, TypeOK
    <3>3. openTuns' = {}
      BY <1>1, <3>1 DEF PInv, Accounted, IInv, TypeOK
    <3>4. Bare'
      BY <3>1, <3>2, <3>3 DEF Bare, PInv, Released, engineVars, tunnelVars
    <3>5. Released'
      BY <3>1, <3>4 DEF Released, Bare
    <3>6. Accounted'
      BY <3>1, <3>2, <3>3, <3>4 DEF Accounted, Bare, CoRef
    <3> QED BY <1>4, <2>2, <3>5, <3>6 DEF PInv
  <2> QED BY <1>5, <2>3, <2>4, <2>5, <2>6
<1>6. CASE Announce
  <2>1. /\ mainPc = "announce" /\ mainPc' = "finish" /\ vpnState' = "DISCONNECTED"
        /\ UNCHANGED <<engineVars, tunnelVars, activeName, timed, creds, tunVars, lifeVars>>
    BY <1>6 DEF Announce, MainStep
  <2>2. Bare /\ Bare'
    BY <2>1 DEF PInv, Released, Bare, engineVars, tunnelVars, tunVars
  <2>3. OneAtATime'
    BY <1>2, <1>3, <2>1, <2>2 DEF OneAtATime, Idle, lifeVars
  <2>4. Accounted'
    BY <2>2 DEF Accounted, Bare
  <2>5. Released' /\ ConnectedCoherent'
    BY <2>1, <2>2 DEF Released, Bare, ConnectedCoherent, isActive
  <2> QED BY <1>4, <2>3, <2>4, <2>5 DEF PInv
<1>7. CASE Finish
  <2>1. /\ mainPc = "finish" /\ mainPc' = "idle" /\ vpnState' = vpnState
        /\ UNCHANGED <<engineVars, tunnelVars, activeName, timed, creds, tunVars>>
        /\ (cur' = cur /\ stopping') \/ (cur' = None /\ ~stopping')
    BY <1>7 DEF Finish, uiVars
  <2>2. Bare /\ Bare' /\ vpnState' = "DISCONNECTED"
    BY <2>1 DEF PInv, Released, Bare, engineVars, tunnelVars, tunVars
  <2>3. OneAtATime'
    BY <1>2, <1>3, <2>1, <2>2 DEF OneAtATime, Idle, isActive
  <2>4. Accounted'
    BY <2>2 DEF Accounted, Bare
  <2>5. Released' /\ ConnectedCoherent'
    BY <2>1, <2>2 DEF Released, ConnectedCoherent, isActive
  <2> QED BY <1>4, <2>3, <2>4, <2>5 DEF PInv
<1> QED BY <1>5, <1>6, <1>7 DEF Stopping

LEMMA SystemKept ==
    ASSUME IInv, PInv, BootSkip \/ UpdateWidget \/ Crash \/ Reboot PROVE PInv'
<1>1. CASE UpdateWidget
  BY <1>1 DEF UpdateWidget, PInv, OneAtATime, Flight, Acquired, Accounted, Released,
     ConnectedCoherent, Bare, Idle, InFlight, Settled, Quiet, isActive, engineVars, tunnelVars,
     uiVars, tunVars, prefVars, coVars, lifeVars, mainVars
<1>2. CASE BootSkip
  <2>1. cur = None /\ Idle
    BY <1>2 DEF BootSkip, PInv, OneAtATime, Idle
  <2> QED BY <1>2, <2>1 DEF BootSkip, PInv, OneAtATime, Flight, Acquired, Accounted, Released,
        ConnectedCoherent, Bare, Idle, InFlight, isActive, engineVars, tunnelVars,
        uiVars, tunVars, prefVars, coVars, mainVars
<1>3. CASE Crash \/ Reboot
  <2>1. /\ ProcessDeath /\ UNCHANGED prefVars
        /\ wake' = "sticky" => wake = "sticky" \/ sticky
    BY <1>3 DEF Crash, Reboot, ProcessDeath
  <2>2. /\ Bare' /\ Idle' /\ cur' = None /\ vpnState' = "DISCONNECTED" /\ mainPc' = "idle"
        /\ ~stopping' /\ ~sticky'
    BY <2>1 DEF ProcessDeath, Bare, Idle, InFlight
  <2>3. OneAtATime' /\ Flight' /\ Released' /\ ConnectedCoherent'
    BY <2>2 DEF OneAtATime, Flight, Released, ConnectedCoherent, Idle, isActive
  <2>4. Accounted'
    BY <2>2 DEF Accounted, Bare
  <2> QED BY <2>3, <2>4 DEF PInv
<1> QED BY <1>1, <1>2, <1>3

LEMMA PatientInit == Init => PInv
BY DEF Init, EngineInit, TunnelInit, PInv, OneAtATime, Flight, Accounted, Released,
   ConnectedCoherent, Bare, Idle, InFlight, isActive

LEMMA PatientNext ==
    ASSUME IInv, PInv, Patient, "stopLoop" \notin Faults, [Next]_vars PROVE PInv'
<1>1. CASE \E c \in Co : CoNext(c)
  <2>1. PICK c \in Co : CoNext(c)
    BY <1>1
  <2>2. ~NeverRuns(c)
    BY DEF NeverRuns, CoStep, Cancelled, InFlight, PInv, OneAtATime
  <2>3. CASE \E from \in {"select", "establish", "build", "spawn"} : Fail(c, from)
    BY <2>3, FailKept
  <2>4. CASE EngineFailed(c) \/ Persist(c)
    BY <2>4, EngineFailedKept, PersistKept
  <2>5. CASE \/ SelectProfile(c) \/ Establish(c) \/ GenerateSocksCreds(c) \/ BuildConfig(c)
             \/ StopOld(c) \/ StartLoop(c) \/ StoreController(c) \/ SpawnTunnel(c)
             \/ MarkStarted(c) \/ Connect(c)
    BY <2>5, CoSteps
  <2> QED BY <2>1, <2>2, <2>3, <2>4, <2>5 DEF CoNext, TunnelConfigFails
<1>2. CASE UNCHANGED vars
  BY <1>2 DEF vars, PInv, OneAtATime, Flight, Acquired, Accounted, Released,
     ConnectedCoherent, Bare, Idle, InFlight, Settled, Quiet, isActive, engineVars, tunnelVars,
     uiVars, tunVars, prefVars, coVars, lifeVars, mainVars
<1> QED BY <1>1, <1>2, StartKept, BeginStopKept, StopKept, SystemKept DEF Next

\* The inductive invariant of a service whose clients wait.
LEMMA PatientHolds ==
    ASSUME Patient, "stopLoop" \notin Faults PROVE Spec => [](IInv /\ PInv)
<1>1. Init => IInv /\ PInv
  BY InitInv, PatientInit
<1>2. (IInv /\ PInv) /\ [Next]_vars => (IInv /\ PInv)'
  BY NextInv, PatientNext
<1> QED BY <1>1, <1>2, PTL DEF Spec

\* A connection that is up is coherent: startConnection has left one tun, one
\* loop, one pair of credentials and at most one thread, all of them its own.
THEOREM UpIsCoherent ==
    ASSUME Patient, "stopLoop" \notin Faults PROVE Spec => []ConnectedCoherent
<1>1. PInv => ConnectedCoherent
  BY DEF PInv
<1> QED BY <1>1, PatientHolds, PTL

\* Whatever way a start or a connection ends (stopConnection, a failure in
\* startConnection, a crash), all that was acquired is released.
THEOREM DownIsClean ==
    ASSUME Patient, "stopLoop" \notin Faults PROVE Spec => []StoppedClean
<1>1. PInv => StoppedClean
  BY DEF PInv, OneAtATime, StoppedClean, Settled, Quiet, Idle, Bare
<1> QED BY <1>1, PatientHolds, PTL

\* stopConnection and startConnection never close a tun somebody reads.
THEOREM NoReaderOfClosedTun ==
    ASSUME Patient, "stopLoop" \notin Faults PROVE Spec => []NoClosedFdInUse
<1>1. PInv => NoClosedFdInUse
  BY DEF PInv, Accounted, NoClosedFdInUse
<1> QED BY <1>1, PatientHolds, PTL

-----------------------------------------------------------------------------
\* The widget shows the state, or is about to.
Shown == widgetDirty \/ widget = isActive \/ \E c \in Co : pc[c] = "persist"

LEMMA ShownNext ==
    ASSUME IInv, PInv, Shown, Patient, HasWidget, "kill" \notin Faults, [Next]_vars
    PROVE  Shown'
<1>1. CASE widgetDirty'
  BY <1>1 DEF Shown
<1>2. CASE UpdateWidget
  BY <1>2 DEF UpdateWidget, Shown, isActive, uiVars
<1>3. CASE Announce \/ Reboot \/ \E c \in Co : EngineFailed(c) \/ Persist(c)
  BY <1>3 DEF Announce, Reboot, EngineFailed, Persist, UpdateAll, Shown
<1>4. ASSUME NEW c \in Co, Connect(c) PROVE Shown'
  BY <1>4 DEF Connect, CoStep, Shown, IInv, TypeOK
<1>5. ASSUME UNCHANGED widgetVars, isActive' = isActive,
             \A c \in Co : pc[c] = "persist" => pc'[c] = "persist"
      PROVE  Shown'
  BY <1>5 DEF Shown, widgetVars
<1>6. ASSUME NEW i \in Inst, NEW c \in Co,
             StartCommand(i, c) \/ StickyRestart(i, c) \/ BootStart(i, c)
      PROVE  Shown'
  <2>1. /\ StartConnection(i, c)
        /\ cur = None
    BY <1>6 DEF StartCommand, StickyRestart, BootStart, StartConnection, Quiet, PInv,
       OneAtATime, Idle
  <2>2. ~isActive /\ ~isActive' /\ UNCHANGED widgetVars /\ ~(pc[c] = "persist")
    BY <2>1 DEF StartConnection, PInv, OneAtATime, isActive, ReportConnecting, InFlight
  <2>3. isActive' = isActive
    BY <2>2 DEF isActive
  <2>4. \A d \in Co : pc[d] = "persist" => pc'[d] = "persist"
    BY <2>1, <2>2 DEF StartConnection, IInv, TypeOK
  <2> QED BY <1>5, <2>2, <2>3, <2>4
<1>7. ASSUME NEW c \in Co, NEW from \in {"select", "establish", "build", "spawn"},
             Fail(c, from)
      PROVE  Shown'
  <2>1. InFlight(c) /\ pc[c] = from /\ pc' = [pc EXCEPT ![c] = "idle"]
    BY <1>7 DEF Fail, CoStep, InFlight
  <2>2. ~isActive /\ ~isActive' /\ UNCHANGED widgetVars
    BY <1>7, <2>1, InFlightNow DEF Fail, ReportError, isActive, Acquired
  <2>3. isActive' = isActive
    BY <2>2 DEF isActive
  <2>4. \A d \in Co : pc[d] = "persist" => pc'[d] = "persist"
    BY <2>1 DEF IInv, TypeOK
  <2> QED BY <1>5, <2>2, <2>3, <2>4
<1>8. CASE \/ \E i \in Inst : StopCommand(i)
           \/ BootSkip \/ Revoke \/ Destroy \/ StopThread \/ MarkStopped \/ StopEngine
           \/ CloseTun \/ Finish \/ UNCHANGED vars
  BY <1>5, <1>8 DEF StopCommand, BootSkip, Revoke, Destroy, StopThread, MarkStopped,
     StopEngine, CloseTun, Finish, vars, uiVars, coVars, mainFrame, isActive
<1>9. ASSUME NEW c \in Co,
             \/ NeverRuns(c) \/ SelectProfile(c) \/ Establish(c) \/ GenerateSocksCreds(c)
             \/ BuildConfig(c) \/ StopOld(c) \/ StartLoop(c) \/ StoreController(c)
             \/ SpawnTunnel(c) \/ MarkStarted(c)
      PROVE  Shown'
  <2>1. PICK from, to : CoStep(c, from, to) /\ from # "persist"
    BY <1>9 DEF NeverRuns, SelectProfile, Establish, GenerateSocksCreds, BuildConfig, StopOld,
       StartLoop, StoreController, SpawnTunnel, MarkStarted
  <2>2. UNCHANGED <<widgetVars, vpnState>>
    BY <1>9 DEF NeverRuns, SelectProfile, Establish, GenerateSocksCreds, BuildConfig, StopOld,
       StartLoop, StoreController, SpawnTunnel, MarkStarted, uiVars, coFrame
  <2> QED BY <1>5, <2>1, <2>2 DEF CoStep, isActive, IInv, TypeOK
<1> QED BY <1>2, <1>3, <1>4, <1>6, <1>7, <1>8, <1>9 DEF Next, Stopping, CoNext,
           TunnelConfigFails, Crash

\* VpnWidgetProvider: once no broadcast is pending, the widget shows isActive.
THEOREM WidgetIsTruthful ==
    ASSUME Patient, HasWidget, "stopLoop" \notin Faults, "kill" \notin Faults
    PROVE  Spec => []WidgetTruthful
<1>1. Init => Shown
  BY DEF Init, Shown, isActive
<1>2. (IInv /\ PInv) /\ Shown /\ [Next]_vars => Shown'
  BY ShownNext
<1>3. Shown => WidgetTruthful
  BY DEF Shown, WidgetTruthful, Settled, Quiet, InFlight
<1> QED BY <1>1, <1>2, <1>3, PatientHolds, PTL DEF Spec
=============================================================================
