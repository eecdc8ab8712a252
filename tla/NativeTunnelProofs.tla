-------------------------- MODULE NativeTunnelProofs --------------------------
(***************************************************************************)
(* The safety of the worker's life, for any number of callers and any set  *)
(* of failing stages, and the two results that need fewer of them.  After  *)
(* it the mapped DNS, for every set of names and every size of the table.  *)
(***************************************************************************)
EXTENDS NativeTunnel, MappedDns, FiniteSetTheorems, SequenceTheorems, TLAPS

\* A caller inside native_stop_service owns the mutex, and there is a worker.
OneStopper ==
    \A c \in Caller : cpc[c] # "idle" => mutex = c /\ is_working

\* What exists of the worker at each place of its program.
WorkerShape ==
    /\ wpc \in {"none", "exited"} \cup Stage \cup {"lwip", "gateway"} =>
           ~event_fds /\ tasks = {}
    /\ wpc = "io" => tasks = {"event"}
    /\ wpc = "timer" => tasks = {"event", "io"}
    /\ wpc \in {"dns", "run", "running"} => tasks = TaskName
    /\ wpc \in {"io", "timer", "dns", "run", "running"} => event_fds

\* A request is only where it can be read.  With a single stopper there is
\* one at most, so that a stop that has not written has the socket to itself.
RequestShape ==
    /\ requests > 0 => event_fds
    /\ \A c \in Caller : cpc[c] \in {"poll", "write"} => requests = 0
    /\ mutex = NoCaller => requests = 0

\* The flag of hev-jni.c says whether there is a thread to join.
Counted == is_working <=> wpc # "none"

IInv == TypeOK /\ OneStopper /\ Counted /\ WorkerShape /\ RequestShape

\* The first state satisfies the invariant.
LEMMA InitIInv == Init => IInv
<1> SUFFICES ASSUME Init PROVE IInv
  OBVIOUS
<1>1. TypeOK
  <2>1. {is_working, event_fds, removedTwice} \subseteq BOOLEAN
    BY DEF Init
  <2>2. cpc \in [Caller -> CallerPc] /\ wpc \in WorkerPc /\ requests \in 0 .. 1
    BY DEF Init, CallerPc, WorkerPc
  <2>3. QED
    BY <2>1, <2>2 DEF Init, TypeOK
<1>2. OneStopper
  BY DEF Init, OneStopper
<1>3. Counted /\ WorkerShape
  BY DEF Init, Counted, WorkerShape
<1>4. RequestShape
  BY DEF Init, RequestShape
<1>5. QED
  BY <1>1, <1>2, <1>3, <1>4 DEF IInv

\* A call of the app preserves the invariant.
LEMMA CallerIInv ==
    ASSUME IInv, NEW c \in Caller,
           StartService(c) \/ StopService(c) \/ PollAgain(c) \/ Stopping(c)
    PROVE  IInv'
<1>1. CASE StartService(c)
  BY <1>1, CallerAssumption DEF StartService, IInv, TypeOK, OneStopper,
     Counted, WorkerShape, RequestShape, CallerPc, WorkerPc, Stage
<1>2. CASE StopService(c)
  BY <1>2, CallerAssumption DEF StopService, workerVars, IInv, TypeOK,
     OneStopper, Counted, WorkerShape, RequestShape, CallerPc
<1>3. CASE PollAgain(c)
  BY <1>3 DEF PollAgain, vars, IInv, TypeOK, OneStopper, Counted, WorkerShape,
     RequestShape
<1>4. CASE PollFd(c)
  BY <1>4 DEF PollFd, workerVars, IInv, TypeOK, OneStopper, Counted,
     WorkerShape, RequestShape, CallerPc
<1>5. CASE WriteEvent(c)
  BY <1>5, CallerAssumption DEF WriteEvent, IInv, TypeOK, OneStopper,
     Counted, WorkerShape, RequestShape, CallerPc
<1>6. CASE JoinWorker(c)
  <2>1. TypeOK'
    BY <1>6 DEF JoinWorker, IInv, TypeOK, CallerPc, WorkerPc
  <2>2. OneStopper'
    BY <1>6, CallerAssumption DEF JoinWorker, IInv, TypeOK, OneStopper
  <2>3. Counted' /\ WorkerShape' /\ RequestShape'
    BY <1>6, CallerAssumption DEF JoinWorker, IInv, TypeOK, OneStopper,
       Counted, WorkerShape, RequestShape
  <2>4. QED
    BY <2>1, <2>2, <2>3 DEF IInv
<1>7. QED
  BY <1>1, <1>2, <1>3, <1>4, <1>5, <1>6 DEF Stopping

\* A step of the worker preserves the invariant.
LEMMA WorkerIInv == IInv /\ Worker => IInv'
<1> SUFFICES ASSUME IInv, Worker PROVE IInv'
  OBVIOUS
<1>1. UNCHANGED callerVars /\ is_working /\ wpc # "none" /\ wpc' # "none"
  BY DEF Worker, Prepare, PrepareFails, TunnelInit, GatewayInit,
     EventTaskInit, LwipTaskInit, MappedDnsInit, InitFails, Run, RunReturns,
     Fini, Goes, IInv, Counted, Stage
<1>2. OneStopper' /\ Counted'
  BY <1>1 DEF callerVars, IInv, OneStopper, Counted
<1>3. TypeOK'
  <2> USE <1>1 DEF Goes, callerVars, IInv, TypeOK, WorkerPc, Stage, TaskName
  <2>1. CASE Prepare \/ PrepareFails \/ TunnelInit
    BY <2>1 DEF Prepare, PrepareFails, TunnelInit
  <2>2. CASE GatewayInit \/ MappedDnsInit \/ Run
    BY <2>2 DEF GatewayInit, MappedDnsInit, Run
  <2>3. CASE EventTaskInit \/ LwipTaskInit
    BY <2>3 DEF EventTaskInit, LwipTaskInit
  <2>4. CASE InitFails
    BY <2>4 DEF InitFails
  <2>5. CASE RunReturns
    BY <2>5 DEF RunReturns
  <2>6. CASE Fini
    <3>1. {event_fds', removedTwice'} \subseteq BOOLEAN
      BY <2>6 DEF Fini, CloseEventFds, GatewayFini
    <3>2. gateway' \in {"null", "live", "dangling"}
      BY <2>6 DEF Fini, GatewayFini
    <3>3. wpc' = "exited" /\ tasks' = {} /\ requests' = 0
      BY <2>6 DEF Fini, CloseEventFds
    <3>4. QED
      BY <2>6, <3>1, <3>2, <3>3 DEF Fini
  <2>7. QED
    BY <2>1, <2>2, <2>3, <2>4, <2>5, <2>6 DEF Worker
<1>4. WorkerShape'
  <2> USE <1>1 DEF Goes, callerVars, IInv, TypeOK, WorkerShape, Stage, TaskName
  <2>1. CASE Prepare \/ PrepareFails \/ TunnelInit
    <3>1. wpc \in Stage \cup {"lwip"} /\ UNCHANGED <<event_fds, tasks>>
      BY <2>1 DEF Prepare, PrepareFails, TunnelInit
    <3>2. wpc' \in {"logger", "system", "lwip", "tun", "gateway", "exited"}
      BY <2>1 DEF Prepare, PrepareFails, TunnelInit
    <3>3. QED
      BY <3>1, <3>2
  <2>2. CASE GatewayInit
    BY <2>2 DEF GatewayInit
  <2>3. CASE MappedDnsInit \/ Run
    <3>1. event_fds' /\ tasks' = TaskName /\ wpc' \in {"run", "running"}
      BY <2>3 DEF MappedDnsInit, Run
    <3>2. QED
      BY <3>1
  <2>4. CASE EventTaskInit \/ LwipTaskInit
    BY <2>4 DEF EventTaskInit, LwipTaskInit
  <2>5. CASE InitFails
    BY <2>5 DEF InitFails
  <2>6. CASE RunReturns
    BY <2>6 DEF RunReturns
  <2>7. CASE Fini
    BY <2>7 DEF Fini, CloseEventFds, GatewayFini
  <2>8. QED
    BY <2>1, <2>2, <2>3, <2>4, <2>5, <2>6, <2>7 DEF Worker
<1>5. RequestShape'
  BY <1>1 DEF Worker, Prepare, PrepareFails, TunnelInit, GatewayInit,
     EventTaskInit, LwipTaskInit, MappedDnsInit, InitFails, Run, RunReturns,
     Fini, Goes, CloseEventFds, callerVars, IInv, TypeOK, WorkerShape,
     RequestShape, Stage
<1>6. QED
  BY <1>2, <1>3, <1>4, <1>5 DEF IInv

\* The invariant holds in every reachable state.
LEMMA InvariantHolds == Spec => []IInv
<1>1. ASSUME IInv, [Next]_vars PROVE IInv'
  <2>1. CASE Next
    BY <1>1, <2>1, CallerIInv, WorkerIInv DEF Next
  <2>2. CASE UNCHANGED vars
    BY <1>1, <2>2 DEF vars, IInv, TypeOK, OneStopper, Counted, WorkerShape,
       RequestShape
  <2>3. QED
    BY <1>1, <2>1, <2>2
<1>2. QED
  BY InitIInv, <1>1, PTL DEF Spec

\* The variables of hev-jni.c and hev-socks5-tunnel.c keep their types: in
\* particular no more than one request is ever in the socket pair.
THEOREM TypeCorrect == Spec => []TypeOK
<1>1. IInv => TypeOK
  BY DEF IInv
<1>2. QED
  BY <1>1, InvariantHolds, PTL

\* After native_stop_service nothing of the worker is left, whichever stage
\* of hev_socks5_tunnel_init failed.
THEOREM CleanWhenStopped == Spec => []StoppedIsClean
<1>1. IInv => StoppedIsClean
  BY DEF IInv, TypeOK, Counted, WorkerShape, RequestShape, StoppedIsClean
<1>2. QED
  BY <1>1, InvariantHolds, PTL

\* A worker that enters hev_task_system_run has all its tasks and can be
\* asked to stop.
THEOREM AlwaysStoppable == Spec => []RunningIsStoppable
<1>1. IInv => RunningIsStoppable
  BY DEF IInv, WorkerShape, RunningIsStoppable
<1>2. QED
  BY <1>1, InvariantHolds, PTL
-----------------------------------------------------------------------------
\* When nothing fails after the socket pair is there, the worker closes it
\* only after a stop has written to it and gone on to join.
OpenUntilAsked ==
    /\ requests > 0 => \E c \in Caller : cpc[c] = "join"
    /\ wpc = "fini" /\ event_fds => \E c \in Caller : cpc[c] = "join"
    /\ \A c \in Caller : cpc[c] = "write" => event_fds

\* The calls of the app preserve it: a caller leaves "join" only when the
\* worker has exited and its socket pair is gone.
LEMMA CallerOpen ==
    ASSUME IInv, OpenUntilAsked, NEW c \in Caller,
           StartService(c) \/ StopService(c) \/ PollAgain(c) \/ Stopping(c)
    PROVE  OpenUntilAsked'
<1> USE DEF IInv, TypeOK, OpenUntilAsked
<1>1. CASE StartService(c)
  BY <1>1 DEF StartService
<1>2. CASE StopService(c)
  BY <1>2 DEF StopService, workerVars
<1>3. CASE PollAgain(c)
  BY <1>3 DEF PollAgain, vars
<1>4. CASE PollFd(c)
  BY <1>4 DEF PollFd, workerVars
<1>5. CASE WriteEvent(c)
  BY <1>5 DEF WriteEvent
<1>6. CASE JoinWorker(c)
  BY <1>6 DEF JoinWorker, WorkerShape, RequestShape
<1>7. QED
  BY <1>1, <1>2, <1>3, <1>4, <1>5, <1>6 DEF Stopping

\* So does the worker: of the stages that lead to hev_socks5_tunnel_fini,
\* the one that may fail has no socket pair yet.
LEMMA WorkerOpen ==
    ASSUME IInv, OpenUntilAsked, Worker, Faults \cap {"event", "task"} = {}
    PROVE  OpenUntilAsked'
<1> USE DEF IInv, TypeOK, OpenUntilAsked, Goes, callerVars
<1>1. CASE Prepare \/ PrepareFails \/ TunnelInit \/ GatewayInit
  BY <1>1 DEF Prepare, PrepareFails, TunnelInit, GatewayInit
<1>2. CASE EventTaskInit \/ LwipTaskInit \/ MappedDnsInit \/ Run
  BY <1>2 DEF EventTaskInit, LwipTaskInit, MappedDnsInit, Run
<1>3. CASE InitFails
  BY <1>3 DEF InitFails, WorkerShape, Stage
<1>4. CASE RunReturns
  BY <1>4 DEF RunReturns
<1>5. CASE Fini
  BY <1>5 DEF Fini, CloseEventFds, OneStopper, Counted, WorkerShape
<1>6. QED
  BY <1>1, <1>2, <1>3, <1>4, <1>5 DEF Worker

\* The assertion of hev_socks5_tunnel_stop holds if event_task_init and the
\* stages after it succeed; the earlier ones may fail.
THEOREM AssertionHolds ==
    ASSUME Faults \cap {"event", "task"} = {}
    PROVE  Spec => []WriteReachesWorker
<1>1. Init => OpenUntilAsked
  BY DEF Init, OpenUntilAsked
<1>2. ASSUME IInv, OpenUntilAsked, [Next]_vars PROVE OpenUntilAsked'
  <2>1. CASE Next
    BY <1>2, <2>1, CallerOpen, WorkerOpen DEF Next
  <2>2. CASE UNCHANGED vars
    BY <1>2, <2>2 DEF vars, OpenUntilAsked
  <2>3. QED
    BY <1>2, <2>1, <2>2
<1>3. OpenUntilAsked => WriteReachesWorker
  BY DEF OpenUntilAsked, WriteReachesWorker
<1>4. QED
  BY <1>1, <1>2, <1>3, InvariantHolds, PTL DEF Spec
-----------------------------------------------------------------------------
\* If the descriptor is good, every session that comes to its end has a
\* gateway of its own.
GatewayShape ==
    /\ wpc \in {"event", "io", "timer", "dns", "run", "running", "fini"} =>
           gateway = "live"
    /\ ~removedTwice

\* gateway_fini is never given the pointers of an earlier session, unless
\* tunnel_init fails, which is before gateway_init.
THEOREM GatewayOnce ==
    ASSUME "tun" \notin Faults
    PROVE  Spec => []GatewayRemovedOnce
<1>1. Init => GatewayShape
  BY DEF Init, GatewayShape
<1>2. ASSUME GatewayShape, [Next]_vars PROVE GatewayShape'
  <2> USE <1>2 DEF GatewayShape
  <2>1. ASSUME NEW c \in Caller,
               StartService(c) \/ StopService(c) \/ PollAgain(c) \/ Stopping(c)
        PROVE  GatewayShape'
    BY <2>1 DEF StartService, StopService, PollAgain, Stopping, PollFd,
       WriteEvent, JoinWorker, workerVars, vars
  <2>2. CASE Worker /\ ~Fini
    BY <2>2 DEF Worker, Prepare, PrepareFails, TunnelInit, GatewayInit,
       EventTaskInit, LwipTaskInit, MappedDnsInit, InitFails, Run,
       RunReturns, Goes
  <2>3. CASE Fini
    BY <2>3 DEF Fini, Goes, GatewayFini
  <2>4. CASE UNCHANGED vars
    BY <2>4 DEF vars
  <2>5. QED
    BY <2>1, <2>2, <2>3, <2>4 DEF Next
<1>3. GatewayShape => GatewayRemovedOnce
  BY DEF GatewayShape, GatewayRemovedOnce
<1>4. QED
  BY <1>1, <1>2, <1>3, PTL DEF Spec
-----------------------------------------------------------------------------
(* The mapped DNS of the worker: for every size of the table its three       *)
(* structures agree, and the node that makes room is the least recently used. *)

\* What the ghosts say of the list: the names used since one that is in the
\* table are those behind it; one that is not has been outlived by Max others.
Recent ==
    /\ given \in [Name -> Index \cup {None}] /\ since \in [Name -> SUBSET Name]
    /\ \A n \in Name : IsFiniteSet(since[n])
    /\ \A n \in tree : given[n] = idx[n]
    /\ \A k \in 1..use : since[list[k]] = {list[j] : j \in (k + 1)..use}
    /\ \A n \in Name \ tree : given[n] # None => Cardinality(since[n]) >= Max

-----------------------------------------------------------------------------
\* The table is consistent after each of the three things that can happen to
\* a name: hev_mapped_dns_find with and without a node, and with none free.
LEMMA TouchConsistent ==
    ASSUME Consistent, NEW n \in tree, Touch(n) PROVE Consistent'
<1>1. PICK k \in 1..use : list[k] = n /\ list' = ToTail(list, k)
  BY DEF Touch, Consistent
<1>2. /\ use \in Nat /\ list \in [1..use -> tree] /\ Len(list) = use
      /\ tree' = tree /\ records' = records /\ idx' = idx /\ use' = use
  BY SizeAssumption DEF Touch, Consistent
<1>3. list' = [i \in 1..use |-> IF i < k THEN list[i]
                                ELSE IF i < use THEN list[i + 1] ELSE list[k]]
  BY <1>1, <1>2 DEF ToTail
<1>4. list' \in [1..use -> tree] /\ Len(list') = use
  BY <1>2, <1>3
<1>5. \A i, j \in 1..use : list'[i] = list'[j] => i = j
  BY <1>2, <1>3 DEF Consistent
<1>6. ASSUME NEW m \in tree PROVE \E j \in 1..use : list'[j] = m
  <2>1. PICK j \in 1..use : list[j] = m
    BY DEF Consistent
  <2>2. CASE j < k
    BY <1>2, <1>3, <2>1, <2>2
  <2>3. CASE j = k
    BY <1>2, <1>3, <2>1, <2>3
  <2>4. CASE j > k
    <3>1. j - 1 \in 1..use /\ ~(j - 1 < k) /\ j - 1 < use /\ (j - 1) + 1 = j
      BY <1>2, <2>4
    <3>2. list'[j - 1] = m
      BY <1>3, <2>1, <3>1
    <3> QED BY <3>1, <3>2
  <2> QED BY <1>2, <2>2, <2>3, <2>4
<1> QED BY <1>2, <1>4, <1>5, <1>6 DEF Consistent

LEMMA GrowConsistent ==
    ASSUME Consistent, NEW n \in Name \ tree, Grow(n) PROVE Consistent'
<1>1. /\ use \in Nat /\ use < Max /\ use' = use + 1 /\ Max \in Nat
      /\ list \in [1..use -> tree] /\ list \in Seq(tree) /\ Len(list) = use
      /\ tree' = tree \cup {n} /\ list' = Append(list, n)
      /\ records' = [records EXCEPT ![use] = n]
      /\ idx' = [idx EXCEPT ![n] = use] /\ use \in Index
  BY SizeAssumption DEF Grow, Store, Consistent, Index
<1>2. list' \in [1..use' -> tree'] /\ Len(list') = use'
  <2>1. list \in Seq(tree') /\ n \in tree'
    BY <1>1
  <2>2. list' \in Seq(tree') /\ Len(list') = use'
    BY <1>1, <2>1
  <2> QED BY <2>2, LenProperties
<1>3. (\A i \in 1..use : list'[i] = list[i]) /\ list'[use'] = n
  BY <1>1
<1>4. \A i, j \in 1..use' : list'[i] = list'[j] => i = j
  <2>1. \A i \in 1..use : list[i] # n
    BY <1>1
  <2> QED BY <1>1, <1>3, <2>1 DEF Consistent
<1>5. \A m \in tree' : \E k \in 1..use' : list'[k] = m
  <2>1. 1..use \subseteq 1..use' /\ use' \in 1..use'
    BY <1>1
  <2>2. \A m \in tree : \E k \in 1..use : list'[k] = m
    BY <1>3 DEF Consistent
  <2> QED BY <1>1, <1>3, <2>1, <2>2
<1>6. \A m \in tree : m # n /\ idx[m] # use
  BY <1>1 DEF Consistent
<1>7. \A m \in tree' : idx'[m] < use' /\ records'[idx'[m]] = m
  BY <1>1, <1>6 DEF Consistent, Index
<1>8. \A i \in Index : IF i < use' THEN records'[i] \in tree' /\ idx'[records'[i]] = i
                                   ELSE records'[i] = None
  <2>1. ASSUME NEW i \in Index, i # use
        PROVE  IF i < use' THEN records'[i] \in tree' /\ idx'[records'[i]] = i
                           ELSE records'[i] = None
    BY <1>1, <2>1 DEF Consistent, Index
  <2> QED BY <1>1, <2>1 DEF Consistent, Index
<1>9. tree' \subseteq Name /\ idx' \in [Name -> Index] /\ use' \in 0..Max
      /\ records' \in [Index -> Name \cup {None}]
  BY <1>1 DEF Consistent, Index
<1> QED BY <1>2, <1>4, <1>5, <1>7, <1>8, <1>9 DEF Consistent, Index

LEMMA EvictConsistent ==
    ASSUME Consistent, NEW n \in Name \ tree, Evict(n) PROVE Consistent'
<1> DEFINE h == list[1]
<1>1. /\ use = Max /\ use' = use /\ use \in Nat /\ use > 0
      /\ list \in [1..use -> tree] /\ list \in Seq(tree) /\ Len(list) = use
      /\ Head(list) = h /\ h \in tree /\ h \in Name /\ n # h
      /\ tree' = (tree \cup {n}) \ {h} /\ list' = Append(Tail(list), n)
      /\ records' = [records EXCEPT ![idx[h]] = n]
      /\ idx' = [idx EXCEPT ![n] = idx[h]] /\ idx[h] \in Index
      /\ records[idx[h]] = h /\ idx[h] < use
  BY SizeAssumption DEF Evict, Store, Consistent, Index
<1>2. Len(list') = use /\ list'[use] = n
      /\ \A i \in 1..(use - 1) : list'[i] = list[i + 1]
  BY <1>1
<1>3. \A i \in 1..(use - 1) : list'[i] \in tree /\ list'[i] # h /\ list'[i] # n
  BY <1>1, <1>2 DEF Consistent
<1>4. list' \in [1..use -> tree']
  <2>1. list' \in Seq(tree \cup {n})
    BY <1>1
  <2>2. list' \in [1..use -> tree \cup {n}]
    BY <1>2, <2>1, LenProperties
  <2>3. \A i \in 1..use : list'[i] \in tree'
    BY <1>1, <1>2, <1>3
  <2> QED BY <2>2, <2>3
<1>5. \A i, j \in 1..use : list'[i] = list'[j] => i = j
  <2>1. \A i, j \in 1..(use - 1) : list'[i] = list'[j] => i = j
    BY <1>1, <1>2 DEF Consistent
  <2> QED BY <1>1, <1>2, <1>3, <2>1
<1>6. ASSUME NEW m \in tree' PROVE \E k \in 1..use : list'[k] = m
  <2>1. CASE m = n
    BY <1>1, <1>2, <2>1
  <2>2. CASE m # n
    <3>1. PICK k \in 1..use : list[k] = m
      BY <1>1, <2>2 DEF Consistent
    <3>2. k # 1 /\ k - 1 \in 1..(use - 1) /\ (k - 1) + 1 = k
      BY <1>1, <2>2, <3>1
    <3>3. list'[k - 1] = m
      BY <1>2, <3>1, <3>2
    <3> QED BY <1>1, <3>2, <3>3
  <2> QED BY <2>1, <2>2
<1> HIDE DEF h
<1>7. ASSUME NEW m \in tree' PROVE idx'[m] < use /\ records'[idx'[m]] = m
  <2>1. CASE m = n
    BY <1>1, <2>1 DEF Consistent
  <2>2. CASE m # n
    <3>1. m \in tree /\ m # h /\ idx'[m] = idx[m] /\ idx[m] \in Index
      BY <1>1, <2>2 DEF Consistent
    <3>2. idx[m] < use /\ records[idx[m]] = m
      BY <3>1 DEF Consistent
    <3>3. idx[m] # idx[h]
      BY <1>1, <3>1, <3>2
    <3> QED BY <1>1, <3>1, <3>2, <3>3 DEF Consistent
  <2> QED BY <2>1, <2>2
<1>8. ASSUME NEW i \in Index PROVE records'[i] \in tree' /\ idx'[records'[i]] = i
  <2>1. i < use /\ records[i] \in tree /\ idx[records[i]] = i
    BY <1>1, SizeAssumption DEF Consistent, Index
  <2>2. CASE i = idx[h]
    BY <1>1, <2>2 DEF Consistent
  <2>3. CASE i # idx[h]
    BY <1>1, <2>1, <2>3 DEF Consistent
  <2> QED BY <2>2, <2>3
<1>9. tree' \subseteq Name /\ idx' \in [Name -> Index] /\ use' \in 0..Max
      /\ records' \in [Index -> Name \cup {None}]
  BY <1>1 DEF Consistent
<1>10. \A i \in Index : i < use'
  BY <1>1, SizeAssumption DEF Index
<1> QED
  BY <1>1, <1>2, <1>4, <1>5, <1>6, <1>7, <1>8, <1>9, <1>10 DEF Consistent

\* Neither handler finds fault with the table (hev_mapped_dns_handler and
\* hev_mapped_dns_lookup, for any number and order of calls).
LEMMA FindConsistent ==
    ASSUME Consistent, NEW n \in Name, Find(n) PROVE Consistent'
BY TouchConsistent, GrowConsistent, EvictConsistent DEF Find

LEMMA LookupKnown ==
    ASSUME Consistent, NEW i \in 0..Hosts, Lookup(i)
    PROVE  records[i] \in tree /\ Touch(records[i])
<1>1. i \in Index /\ records[i] # None
  BY SizeAssumption DEF Lookup, Index
<1>2. i < use
  BY <1>1 DEF Consistent
<1> QED BY <1>1, <1>2 DEF Consistent, Lookup

LEMMA NextConsistent ==
    ASSUME Consistent, [DnsNext]_dnsVars PROVE Consistent'
<1>1. CASE UNCHANGED table
  BY <1>1 DEF Consistent, table
<1>2. CASE Question
  BY <1>2, FindConsistent DEF Question
<1>3. CASE \E i \in 0..Hosts : Lookup(i)
  BY <1>3, LookupKnown, TouchConsistent
<1> QED
  BY <1>1, <1>2, <1>3 DEF DnsNext, Handle, Unanswered, Drop, Reply, dnsVars, table

\* For any size of the table, tree, list and records agree at all times.
THEOREM TableConsistent == DnsSpec => []Consistent
<1>1. DnsInit => Consistent
  <2> SUFFICES ASSUME DnsInit PROVE Consistent
    OBVIOUS
  <2>1. Len(list) = 0 /\ list \in [1..0 -> tree]
    BY DEF DnsInit
  <2>2. idx \in [Name -> Index] /\ use \in 0..Max
    BY SizeAssumption DEF DnsInit, Index
  <2>3. \A i \in Index : ~(i < use)
    BY DEF DnsInit, Index
  <2> QED BY <2>1, <2>2, <2>3 DEF DnsInit, Consistent
<1>2. Consistent /\ [DnsNext]_dnsVars => Consistent'
  BY NextConsistent
<1> QED BY <1>1, <1>2, PTL DEF DnsSpec

-----------------------------------------------------------------------------
\* The names used since one in the table are as many as the places behind it.
LEMMA SuffixSize ==
    ASSUME Consistent, Recent, NEW k \in 1..use
    PROVE  IsFiniteSet(since[list[k]]) /\ Cardinality(since[list[k]]) = use - k
<1> DEFINE P == (k + 1)..use
           T == {list[j] : j \in P}
           f == [j \in P |-> list[j]]
<1>0. use \in Nat /\ list \in [1..use -> tree]
      /\ \A i, j \in 1..use : list[i] = list[j] => i = j
  BY SizeAssumption DEF Consistent
<1>1. f \in Surjection(P, T) /\ f \in Injection(P, T)
  <2>1. f \in [P -> T] /\ P \subseteq 1..use
    BY <1>0
  <2>2. \A t \in T : \E j \in P : f[j] = t
    OBVIOUS
  <2>3. \A i, j \in P : f[i] = f[j] => i = j
    BY <1>0, <2>1
  <2> HIDE DEF P, T, f
  <2> QED BY <2>1, <2>2, <2>3 DEF Surjection, Injection, IsInjective
<1>2. IsFiniteSet(P) /\ Cardinality(P) = use - k
  <2>1. k + 1 \in Int /\ use \in Int /\ (k + 1 > use => use - k = 0)
    BY <1>0
  <2>2. /\ IsFiniteSet((k + 1)..use)
        /\ Cardinality((k + 1)..use) = IF k + 1 > use THEN 0 ELSE use - (k + 1) + 1
    BY <2>1, FS_Interval
  <2> QED BY <2>1, <2>2
<1>4. since[list[k]] = T
  BY DEF Recent
<1> HIDE DEF P, T, f
<1>3. IsFiniteSet(T) /\ Cardinality(T) = Cardinality(P)
  BY <1>1, <1>2, FS_Surjection
<1> QED BY <1>2, <1>3, <1>4

\* A name used is put at the end of the list, those behind its old place move
\* up by one: the names used since one in the table are those behind it again.
LEMMA OrderKept ==
    ASSUME Consistent, Recent, NEW n \in Name, NEW k \in 1..use', use' \in Nat,
           use' = use \/ (use' = use + 1 /\ k = use'),
           (n \notin tree /\ (k = 1 \/ k = use + 1)) \/ (k \in 1..use /\ list[k] = n),
           list' = [i \in 1..use' |-> IF i < k THEN list[i]
                                      ELSE IF i < use' THEN list[i + 1] ELSE n],
           Used(n)
    PROVE  \A j \in 1..use' : since'[list'[j]] = {list'[i] : i \in (j + 1)..use'}
<1> SUFFICES ASSUME NEW j \in 1..use'
             PROVE  since'[list'[j]] = {list'[i] : i \in (j + 1)..use'}
  OBVIOUS
<1>1. use \in Nat /\ list \in [1..use -> tree] /\ tree \subseteq Name
      /\ since \in [Name -> SUBSET Name]
  BY SizeAssumption DEF Consistent, Recent
<1>0. /\ \A i \in 1..use' : i < k => list'[i] = list[i]
      /\ \A i \in 1..use' : ~(i < k) /\ i < use' => list'[i] = list[i + 1]
      /\ use' \in 1..use' /\ list'[use'] = n
  <2>1. use' \in 1..use' /\ ~(use' < k) /\ ~(use' < use')
    OBVIOUS
  <2>2. list'[use'] = n
    BY <2>1
  <2> QED BY <2>1, <2>2
<1>2. CASE j = use'
  <2>0. \A i : i \notin (j + 1)..use'
    BY <1>2
  <2>1. {list'[i] : i \in (j + 1)..use'} = {}
    BY <2>0, Zenon
  <2>2. since'[n] = {}
    BY <1>1 DEF Used
  <2> QED BY <1>0, <1>2, <2>1, <2>2
<1>3. CASE j < use'
  <2> DEFINE W == {list'[i] : i \in (j + 1)..use'}
  <2>0. PICK o : o = IF j < k THEN j ELSE j + 1
    OBVIOUS
  <2> DEFINE L == {list[i] : i \in (o + 1)..use}
  <2>1. o \in 1..use /\ list'[j] = list[o] /\ o # k
    BY <1>0, <1>1, <1>3, <2>0
  <2>2. list[o] # n /\ list[o] \in Name
    BY <1>1, <2>1 DEF Consistent
  <2>3. since'[list[o]] = since[list[o]] \cup {n}
    BY <2>2 DEF Used
  <2>4. since[list[o]] = L
    BY <2>1 DEF Recent
  <2>5. ASSUME NEW i \in (j + 1)..use' PROVE list'[i] \in L \cup {n}
    <3>1. CASE i < k
      <4>1. i \in 1..use' /\ i \in (o + 1)..use
        BY <1>1, <2>0, <2>1, <3>1
      <4> QED BY <1>0, <3>1, <4>1
    <3>2. CASE ~(i < k) /\ i < use'
      <4>1. i \in 1..use' /\ i + 1 \in (o + 1)..use
        BY <1>1, <2>0, <2>1, <3>2
      <4> QED BY <1>0, <3>2, <4>1
    <3>3. CASE i = use'
      BY <1>0, <3>3
    <3>4. i < k \/ (~(i < k) /\ i < use') \/ i = use'
      OBVIOUS
    <3> QED BY <3>1, <3>2, <3>3, <3>4
  <2>6. n \in W
    <3>1. use' \in (j + 1)..use'
      BY <1>3
    <3> QED BY <1>0, <3>1
  <2>7. ASSUME NEW m \in (o + 1)..use PROVE list[m] \in W
    <3>1. CASE m < k
      <4>1. m \in 1..use' /\ m \in (j + 1)..use'
        BY <1>1, <2>0, <2>1, <3>1
      <4> QED BY <1>0, <3>1, <4>1
    <3>2. CASE m > k
      <4>1. m - 1 \in 1..use' /\ ~(m - 1 < k) /\ m - 1 < use' /\ (m - 1) + 1 = m
            /\ m - 1 \in (j + 1)..use'
        BY <1>1, <2>0, <2>1, <3>2
      <4>2. list'[m - 1] = list[m]
        BY <1>0, <4>1
      <4> QED BY <4>1, <4>2
    <3>3. CASE m = k
      <4>1. list[m] = n
        BY <1>1, <2>0, <2>1, <3>3
      <4> QED BY <2>6, <4>1
    <3>4. m < k \/ m > k \/ m = k
      BY <1>1, <2>1
    <3> QED BY <3>1, <3>2, <3>3, <3>4
  <2>8. W = L \cup {n}
    BY <2>5, <2>6, <2>7
  <2> QED BY <2>1, <2>3, <2>4, <2>8
<1>4. j = use' \/ j < use'
  OBVIOUS
<1> QED BY <1>2, <1>3, <1>4

\* The ghosts of the names that stay out of it, and the types.
LEMMA GhostsKept ==
    ASSUME Recent, NEW n \in Name, Used(n)
    PROVE  /\ since' \in [Name -> SUBSET Name]
           /\ \A m \in Name : IsFiniteSet(since'[m])
           /\ \A m \in Name \ {n} : Cardinality(since[m]) >= Max
                                        => Cardinality(since'[m]) >= Max
<1>1. since \in [Name -> SUBSET Name] /\ \A m \in Name : IsFiniteSet(since[m])
  BY DEF Recent
<1>2. since' \in [Name -> SUBSET Name]
  BY <1>1 DEF Used
<1>3. since'[n] = {} /\ IsFiniteSet({})
  BY FS_EmptySet DEF Used
<1>4. ASSUME NEW m \in Name, m # n
      PROVE  /\ IsFiniteSet(since'[m])
             /\ Cardinality(since[m]) >= Max => Cardinality(since'[m]) >= Max
  <2>1. since'[m] = since[m] \cup {n} /\ IsFiniteSet(since[m])
    BY <1>1, <1>4 DEF Used
  <2>2. IsFiniteSet(since[m] \cup {n})
        /\ Cardinality(since[m] \cup {n})
             = (IF n \in since[m] THEN Cardinality(since[m]) ELSE Cardinality(since[m]) + 1)
    BY <2>1, FS_AddElement
  <2>3. Cardinality(since[m]) \in Nat
    BY <2>1, FS_CardinalityType
  <2> QED BY <2>1, <2>2, <2>3, SizeAssumption
<1> QED BY <1>2, <1>3, <1>4

LEMMA TouchRecent ==
    ASSUME Consistent, Recent, NEW n \in tree, Touch(n), UNCHANGED given
    PROVE  Recent'
<1>1. PICK k \in 1..use : list[k] = n /\ list' = ToTail(list, k)
  BY DEF Touch, Consistent
<1>2. use' = use /\ tree' = tree /\ idx' = idx /\ use \in Nat /\ n \in Name /\ Used(n)
      /\ given' = given
  BY SizeAssumption DEF Touch, Consistent
<1>3. list' = [i \in 1..use' |-> IF i < k THEN list[i]
                                 ELSE IF i < use' THEN list[i + 1] ELSE n]
  BY <1>1, <1>2 DEF ToTail, Consistent
<1>4. \A j \in 1..use' : since'[list'[j]] = {list'[i] : i \in (j + 1)..use'}
  <2>1. k \in 1..use' /\ use' \in Nat
    BY <1>2
  <2> QED BY <1>1, <1>2, <1>3, <2>1, OrderKept
<1>5. \A m \in Name \ tree : given[m] # None => Cardinality(since'[m]) >= Max
  BY <1>2, GhostsKept DEF Recent
<1> QED BY <1>2, <1>4, <1>5, GhostsKept DEF Recent

LEMMA GrowRecent ==
    ASSUME Consistent, Recent, NEW n \in Name \ tree, Grow(n),
           given' = [given EXCEPT ![n] = idx'[n]]
    PROVE  Recent'
<1>1. use' = use + 1 /\ tree' = tree \cup {n} /\ use \in Nat /\ use \in Index
      /\ Used(n) /\ list' = Append(list, n) /\ Len(list) = use
      /\ list \in [1..use -> tree] /\ list \in Seq(tree)
      /\ idx' = [idx EXCEPT ![n] = use] /\ idx \in [Name -> Index]
      /\ tree \subseteq Name
  BY SizeAssumption DEF Grow, Store, Consistent, Index
<1>6. given \in [Name -> Index \cup {None}] /\ \A m \in tree : given[m] = idx[m]
  BY DEF Recent
<1>2. list' = [i \in 1..use' |-> IF i < use' THEN list[i]
                                 ELSE IF i < use' THEN list[i + 1] ELSE n]
  <2>1. list' \in Seq(tree \cup {n}) /\ Len(list') = use'
    BY <1>1
  <2>2. \A i \in 1..use' : list'[i] = IF i < use' THEN list[i] ELSE n
    BY <1>1
  <2>3. list' = [i \in 1..use' |-> list'[i]]
    BY <2>1, LenProperties
  <2> QED BY <2>2, <2>3
<1>3. \A j \in 1..use' : since'[list'[j]] = {list'[i] : i \in (j + 1)..use'}
  <2>1. use' \in 1..use' /\ use' \in Nat
    BY <1>1
  <2> QED BY <1>1, <1>2, <2>1, OrderKept
<1>4. given' \in [Name -> Index \cup {None}] /\ \A m \in tree' : given'[m] = idx'[m]
  BY <1>1, <1>6
<1>5. \A m \in Name \ tree' : given'[m] # None => Cardinality(since'[m]) >= Max
  BY <1>1, GhostsKept DEF Recent
<1> QED BY <1>1, <1>3, <1>4, <1>5, GhostsKept DEF Recent

LEMMA EvictRecent ==
    ASSUME Consistent, Recent, NEW n \in Name \ tree, Evict(n),
           given' = [given EXCEPT ![n] = idx'[n]]
    PROVE  Recent'
<1> DEFINE h == list[1]
<1>1. use' = use /\ use = Max /\ use \in Nat /\ 1 \in 1..use
      /\ Used(n) /\ list' = Append(Tail(list), n) /\ Len(list) = use
      /\ list \in [1..use -> tree] /\ list \in Seq(tree) /\ Head(list) = h
      /\ tree' = (tree \cup {n}) \ {h} /\ h \in tree
      /\ idx' = [idx EXCEPT ![n] = idx[h]] /\ idx \in [Name -> Index]
      /\ tree \subseteq Name
  BY SizeAssumption DEF Evict, Store, Consistent, Index
<1>7. given \in [Name -> Index \cup {None}] /\ \A m \in tree : given[m] = idx[m]
  BY DEF Recent
<1>2. list' = [i \in 1..use' |-> IF i < 1 THEN list[i]
                                 ELSE IF i < use' THEN list[i + 1] ELSE n]
  <2>1. list' \in Seq(tree \cup {n}) /\ Len(list') = use'
    BY <1>1
  <2>2. \A i \in 1..use' : list'[i] = IF i < use' THEN list[i + 1] ELSE n
    BY <1>1
  <2>3. list' = [i \in 1..use' |-> list'[i]]
    BY <2>1, LenProperties
  <2>4. \A i \in 1..use' : ~(i < 1)
    OBVIOUS
  <2> QED BY <2>2, <2>3, <2>4
<1>3. \A j \in 1..use' : since'[list'[j]] = {list'[i] : i \in (j + 1)..use'}
  BY <1>1, <1>2, OrderKept
<1>4. Cardinality(since'[h]) = Max
  <2>1. since[h] = {list[j] : j \in (1 + 1)..use}
    BY <1>1 DEF Recent
  <2>2. IsFiniteSet(since[h]) /\ Cardinality(since[h]) = use - 1
    BY <1>1, SuffixSize
  <2>3. n \notin since[h]
    BY <1>1, <2>1
  <2>4. since'[h] = since[h] \cup {n}
    BY <1>1 DEF Used
  <2>5. Cardinality(since[h] \cup {n}) = Cardinality(since[h]) + 1
    BY <2>2, <2>3, FS_AddElement
  <2> QED BY <1>1, <2>2, <2>4, <2>5
<1> HIDE DEF h
<1>5. given' \in [Name -> Index \cup {None}] /\ \A m \in tree' : given'[m] = idx'[m]
  BY <1>1, <1>7
<1>6. ASSUME NEW m \in Name \ tree', given'[m] # None PROVE Cardinality(since'[m]) >= Max
  <2>1. CASE m = h
    BY <1>4, <2>1, SizeAssumption
  <2>2. CASE m # h
    BY <1>1, <1>6, <2>2, GhostsKept DEF Recent
  <2> QED BY <2>1, <2>2
<1> QED BY <1>1, <1>3, <1>5, <1>6, GhostsKept DEF Recent

LEMMA NextRecent ==
    ASSUME Consistent, Recent, [DnsNext]_dnsVars PROVE Recent'
<1>1. CASE UNCHANGED <<table, given, since>>
  BY <1>1 DEF Recent, table
<1>2. ASSUME NEW n \in Name, Find(n) PROVE Recent'
  <2>1. CASE n \in tree
    <3>1. Touch(n) /\ given' = [given EXCEPT ![n] = idx'[n]] /\ idx' = idx
      BY <1>2, <2>1 DEF Find, Touch
    <3>2. given' = given
      BY <2>1, <3>1 DEF Recent
    <3> QED BY <2>1, <3>1, <3>2, TouchRecent
  <2>2. CASE n \notin tree
    BY <1>2, <2>2, GrowRecent, EvictRecent DEF Find
  <2> QED BY <2>1, <2>2
<1>3. CASE Question
  BY <1>2, <1>3 DEF Question
<1>4. CASE \E i \in 0..Hosts : Lookup(i)
  BY <1>4, LookupKnown, TouchRecent DEF Lookup
<1> QED
  BY <1>1, <1>3, <1>4 DEF DnsNext, Handle, Unanswered, Drop, Reply, dnsVars, table

\* What the invariant says in terms of addresses.
LEMMA RecentUsed == ASSUME Consistent, Recent PROVE LeastRecentlyUsed
<1> SUFFICES ASSUME NEW n \in Name, given[n] # None
             PROVE  records[given[n]] = n <=> Cardinality(since[n]) < Max
  BY DEF LeastRecentlyUsed
<1>1. CASE n \in tree
  <2>1. PICK k \in 1..use : list[k] = n
    BY <1>1 DEF Consistent
  <2>2. use \in Nat /\ use <= Max /\ Max \in Nat
    BY SizeAssumption DEF Consistent
  <2>3. Cardinality(since[n]) = use - k
    BY <2>1, SuffixSize
  <2>5. Cardinality(since[n]) < Max
    BY <2>2, <2>3
  <2>6. records[given[n]] = n
    BY <1>1 DEF Consistent, Recent
  <2> QED BY <2>5, <2>6
<1>2. CASE n \notin tree
  <2>1. Cardinality(since[n]) >= Max /\ Cardinality(since[n]) \in Nat /\ Max \in Nat
    BY <1>2, SizeAssumption, FS_CardinalityType DEF Recent
  <2>2. given[n] \in Index
    BY DEF Recent
  <2>3. records[given[n]] \in tree \/ records[given[n]] = None
    BY <2>2 DEF Consistent
  <2>4. n # None
    BY MarksAssumption
  <2> QED BY <1>2, <2>1, <2>3, <2>4
<1> QED BY <1>1, <1>2

\* For any size of the table and any sequence of questions and sessions: an
\* address leads to the name it was given for until Max other names have been
\* used, and not any longer.
THEOREM ReplacesLeastRecent == DnsSpec => []LeastRecentlyUsed
<1>1. DnsInit => Recent
  BY FS_EmptySet DEF DnsInit, Recent
<1>2. Consistent /\ Recent /\ [DnsNext]_dnsVars => Recent'
  BY NextRecent
<1>3. Consistent /\ Recent => LeastRecentlyUsed
  BY RecentUsed
<1> QED BY <1>1, <1>2, <1>3, TableConsistent, PTL DEF DnsSpec
=============================================================================
