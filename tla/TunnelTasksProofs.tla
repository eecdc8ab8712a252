-------------------------- MODULE TunnelTasksProofs --------------------------
(***************************************************************************)
(* The tasks of the worker, for any number of sessions, any limit on it,   *)
(* with and without faults: the list of sessions agrees with the tasks,    *)
(* nobody wakes a task that is gone, the TCP timers run while they are     *)
(* needed, and a stop is prompt and final.                                 *)
(***************************************************************************)
EXTENDS TunnelTasks, SequenceTheorems, TLAPS

\* A session's object lives exactly as long as its task, its pcb not longer.
Lifetimes ==
    \A s \in Session :
        /\ spc[s] = "none" <=> state[s] = "stopped"
        /\ pcb[s] => spc[s] # "none"

\* The three tasks of the worker live while run is set, the event task until
\* the others are gone; the thread is the io task's only while run is set.
Workers ==
    /\ run <=> epc = "read"
    /\ run \/ request
    /\ cpu => run /\ state["io"] = "running"
    /\ run => \A t \in {"event", "io", "timer"} : state[t] # "stopped"
    /\ state["event"] = "stopped" =>
          state["io"] = "stopped" /\ state["timer"] = "stopped"

\* A session that was copying when the stop came is about to end.
Told ==
    \A s \in copying :
        /\ ~run
        /\ \/ state[s] = "stopped"
           \/ /\ state[s] = "running"
              /\ spc[s] \in {"splice", "drain"} /\ timeout[s] = "zero"

IInv ==
    TypeOK /\ ListAgrees /\ Lifetimes /\ Workers /\ Told /\ TimerAttentive

-----------------------------------------------------------------------------
(***************************************************************************)
(* The list.                                                               *)
(***************************************************************************)

\* seq lists the sessions T, each once.
Lists(seq, T) ==
    seq \in Seq(Session) /\ IsInjective(seq) /\ Range(seq) = T

\* hev_list_del takes exactly the session out.
LEMMA WithoutLists ==
    ASSUME NEW seq, NEW T, Lists(seq, T), NEW s \in T
    PROVE  Lists(Without(seq, s), T \ {s}) /\ Len(Without(seq, s)) = Len(seq) - 1
<1> DEFINE n == Len(seq)
           w == Without(seq, s)
<1>1. /\ seq \in Seq(Session) /\ n \in Nat /\ seq \in [1..n -> Session]
      /\ \A i, j \in 1..n : seq[i] = seq[j] => i = j
      /\ T = {seq[i] : i \in 1..n} /\ T \subseteq Session
  BY LenProperties DEF Lists, IsInjective, Range
<1>2. PICK k \in 1..n : seq[k] = s
  BY <1>1
<1>3. w = RemoveAt(seq, k)
  <2> DEFINE I == {i \in 1..n : seq[i] = s}
  <2>1. I = {k}
    BY <1>1, <1>2
  <2>2. Min(I) = k
    BY <2>1 DEF Min
  <2> QED BY <1>2, <2>1, <2>2 DEF Without, RemoveFirst, SelectInSeq
<1>4. w \in Seq(Session) /\ Len(w) = n - 1
      /\ \A i \in 1..(n - 1) : w[i] = seq[IF i < k THEN i ELSE i + 1]
  <2> DEFINE a == SubSeq(seq, 1, k - 1)
             b == SubSeq(seq, k + 1, n)
  <2>1. a \in Seq(Session) /\ Len(a) = k - 1 /\ \A i \in 1..(k - 1) : a[i] = seq[i]
    BY <1>1, SubSeqProperties
  <2>2. b \in Seq(Session) /\ Len(b) = n - k /\ \A i \in 1..(n - k) : b[i] = seq[k + i]
    BY <1>1, SubSeqProperties
  <2>3. w = a \o b
    BY <1>3 DEF RemoveAt
  <2> HIDE DEF a, b, w, n
  <2>4. /\ a \o b \in Seq(Session) /\ Len(a \o b) = Len(a) + Len(b)
        /\ \A i \in 1..(Len(a) + Len(b)) :
              (a \o b)[i] = IF i <= Len(a) THEN a[i] ELSE b[i - Len(a)]
    BY <2>1, <2>2, ConcatProperties
  <2>5. Len(w) = n - 1
    BY <1>1, <2>1, <2>2, <2>3, <2>4
  <2>6. ASSUME NEW i \in 1..(n - 1) PROVE w[i] = seq[IF i < k THEN i ELSE i + 1]
    <3>1. i \in 1..(Len(a) + Len(b))
      BY <1>1, <2>1, <2>2
    <3>2. CASE i < k
      BY <1>1, <2>1, <2>3, <2>4, <3>1, <3>2
    <3>3. CASE ~(i < k)
      <4>1. w[i] = b[i - (k - 1)] /\ i - (k - 1) \in 1..(n - k)
            /\ k + (i - (k - 1)) = i + 1
        BY <1>1, <2>1, <2>3, <2>4, <3>1, <3>3
      <4> QED BY <2>2, <3>3, <4>1
    <3> QED BY <3>2, <3>3
  <2> QED BY <2>3, <2>4, <2>5, <2>6
<1> HIDE DEF w, n
<1>5. \A i \in 1..(n - 1) : (IF i < k THEN i ELSE i + 1) \in (1..n) \ {k}
  BY <1>1
<1>6. w \in [1..(n - 1) -> Session] /\ DOMAIN w = 1..(n - 1)
  BY <1>4, LenProperties
<1>7. IsInjective(w)
  BY <1>1, <1>4, <1>5, <1>6 DEF IsInjective
<1>8. Range(w) = T \ {s}
  <2>1. ASSUME NEW x \in Range(w) PROVE x \in T \ {s}
    <3>1. PICK i \in 1..(n - 1) : x = w[i]
      BY <1>6 DEF Range
    <3> QED BY <1>1, <1>2, <1>4, <1>5, <3>1
  <2>2. ASSUME NEW x \in T \ {s} PROVE x \in Range(w)
    <3>1. PICK j \in 1..n : x = seq[j]
      BY <1>1
    <3>2. j # k
      BY <1>2, <3>1
    <3>3. CASE j < k
      <4>1. j \in 1..(n - 1) /\ w[j] = x
        BY <1>1, <1>4, <3>1, <3>3
      <4> QED BY <1>6, <4>1 DEF Range
    <3>4. CASE j > k
      <4>1. j - 1 \in 1..(n - 1) /\ ~(j - 1 < k) /\ (j - 1) + 1 = j
        BY <1>1, <3>4
      <4>2. w[j - 1] = x
        BY <1>4, <3>1, <4>1
      <4> QED BY <1>6, <4>1, <4>2 DEF Range
    <3> QED BY <1>1, <3>2, <3>3, <3>4
  <2> QED BY <2>1, <2>2
<1> QED BY <1>4, <1>7, <1>8 DEF Lists, w, n

\* hev_list_add_tail of a session that is not in the list.
LEMMA AppendLists ==
    ASSUME NEW seq, NEW T, Lists(seq, T), NEW s \in Session \ T
    PROVE  /\ Lists(Append(seq, s), T \cup {s})
           /\ Len(Append(seq, s)) = Len(seq) + 1
<1> DEFINE n == Len(seq)
           a == Append(seq, s)
<1>1. /\ seq \in Seq(Session) /\ n \in Nat /\ DOMAIN seq = 1..n
      /\ \A i, j \in 1..n : seq[i] = seq[j] => i = j
      /\ T = {seq[i] : i \in 1..n}
  BY LenProperties DEF Lists, IsInjective, Range
<1>2. a \in Seq(Session) /\ Len(a) = n + 1 /\ a[n + 1] = s
      /\ \A i \in 1..n : a[i] = seq[i]
  BY <1>1, AppendProperties
<1>3. DOMAIN a = 1..(n + 1)
  BY <1>2, LenProperties
<1> HIDE DEF a, n
<1>4. IsInjective(a)
  <2>1. \A i \in 1..n : a[i] # s
    BY <1>1, <1>2
  <2> QED BY <1>1, <1>2, <1>3, <2>1 DEF IsInjective
<1>5. Range(a) = T \cup {s}
  <2>1. Range(a) = {a[i] : i \in 1..(n + 1)}
    BY <1>3 DEF Range
  <2>2. 1..(n + 1) = 1..n \cup {n + 1}
    BY <1>1
  <2> QED BY <1>1, <1>2, <2>1, <2>2
<1> QED BY <1>2, <1>4, <1>5 DEF Lists, a, n

\* hev_socks5_tunnel_update_session moves a session, and no more.
LEMMA UpdateLists ==
    ASSUME NEW T, Lists(session_set, T), NEW s \in T
    PROVE  /\ Lists(UpdateSession(s), T)
           /\ Len(UpdateSession(s)) = Len(session_set)
<1>1. Lists(Without(session_set, s), T \ {s})
      /\ Len(Without(session_set, s)) = Len(session_set) - 1
  BY WithoutLists
<1>2. s \in Session /\ Len(session_set) \in Nat
  BY LenProperties DEF Lists, Range
<1>3. s \in Session \ (T \ {s})
  BY <1>2
<1>4. Lists(Append(Without(session_set, s), s), (T \ {s}) \cup {s})
      /\ Len(Append(Without(session_set, s), s)) = Len(session_set) - 1 + 1
  BY <1>1, <1>3, AppendLists
<1>5. (T \ {s}) \cup {s} = T
  OBVIOUS
<1>6. CASE MaxSessionCount = 0
  BY <1>6 DEF UpdateSession
<1>7. CASE MaxSessionCount # 0
  <2>1. UpdateSession(s) = Append(Without(session_set, s), s)
    BY <1>7 DEF UpdateSession
  <2>2. Len(session_set) - 1 + 1 = Len(session_set)
    BY <1>2
  <2> QED BY <1>4, <1>5, <2>1, <2>2
<1> QED BY <1>6, <1>7


-----------------------------------------------------------------------------
(***************************************************************************)
(* The inductive invariant.                                                *)
(***************************************************************************)
Live == {s \in Session : state[s] # "stopped"}

TaskState == {"stopped", "running", "waiting"}

\* What hev_task_wakeup may do to the tasks.
LEMMA WakeupStates ==
    ASSUME state \in [Task -> TaskState], NEW T, Wakeup(T)
    PROVE  /\ state' \in [Task -> TaskState]
           /\ \A t \in Task : state'[t] = "stopped" <=> state[t] = "stopped"
           /\ \A t \in Task : state[t] = "running" => state'[t] = "running"
           /\ \A t \in Task : state'[t] = "waiting" => state[t] = "waiting" /\ t \notin T
BY DEF Wakeup, Woken, TaskState

\* What a yield of task t may do to the tasks.
LEMMA YieldStates ==
    ASSUME state \in [Task -> TaskState], NEW t \in Task, NEW q \in TaskState,
           NEW T, YieldTo(t, q, T)
    PROVE  /\ state' \in [Task -> TaskState] /\ state'[t] = q
           /\ \A u \in Task \ {t} : state'[u] = "stopped" <=> state[u] = "stopped"
           /\ \A u \in Task \ {t} : state[u] = "running" => state'[u] = "running"
           /\ \A u \in Task \ {t} :
                 state'[u] = "waiting" => state[u] = "waiting" /\ u \notin T
BY DEF YieldTo, Woken, TaskState

\* The parts of the invariant that are about the list.
LEMMA ListKept ==
    ASSUME Lists(session_set', Live'), session_count' = Len(session_set')
    PROVE  ListAgrees' /\ session_set' \in Seq(Session) /\ session_count' \in Nat
<1>1. session_set' \in Seq(Session)
  BY DEF Lists
<1> QED BY <1>1, LenProperties DEF Lists, ListAgrees, Live

LEMMA InitInv == Init => IInv
<1> SUFFICES ASSUME Init PROVE IInv
  OBVIOUS
<1>1. TypeOK
  <2>1. session_set \in Seq(Session) /\ session_count \in Nat
    BY DEF Init
  <2>2. state \in [Task -> {"stopped", "running", "waiting"}]
    BY DEF Init
  <2> QED BY <2>1, <2>2 DEF Init, TypeOK
<1>2. ListAgrees
  BY DEF Init, ListAgrees, IsInjective, Range, Task
<1>3. Lifetimes /\ Told /\ TimerAttentive
  BY DEF Init, Lifetimes, Told, TimerAttentive, Task
<1>4. Workers
  BY SessionAssumption DEF Init, Workers, Task
<1> QED BY <1>1, <1>2, <1>3, <1>4 DEF IInv

LEMMA ListHere ==
    ASSUME TypeOK, ListAgrees
    PROVE  Lists(session_set, Live) /\ session_count = Len(session_set)
BY DEF TypeOK, ListAgrees, Lists, Live

\* A step that touches neither the sessions nor, but for yields and wakeups of
\* the worker's own tasks, the scheduler, keeps what is said of sessions.
LEMMA SessionsUntouched ==
    ASSUME IInv, UNCHANGED <<sessionVars, copying>>, state' \in [Task -> TaskState],
           \A s \in Session : state'[s] = "stopped" <=> state[s] = "stopped",
           \A s \in Session : state[s] = "running" => state'[s] = "running",
           ~run => ~run'
    PROVE  /\ ListAgrees' /\ Lifetimes' /\ Told'
           /\ session_set' \in Seq(Session) /\ session_count' \in Nat
<1>1. Lists(session_set, Live) /\ session_count = Len(session_set)
  BY ListHere DEF IInv
<1>2. Live' = Live
  BY DEF Live
<1>3. ListAgrees' /\ session_set' \in Seq(Session) /\ session_count' \in Nat
  <2>1. Lists(session_set', Live') /\ session_count' = Len(session_set')
    BY <1>1, <1>2 DEF sessionVars
  <2> QED BY <2>1, ListKept
<1>4. Lifetimes'
  BY DEF IInv, Lifetimes, sessionVars
<1>5. Told'
  BY DEF IInv, TypeOK, Told, sessionVars
<1> QED BY <1>3, <1>4, <1>5

\* Steps that move no task.
LEMMA QuietStep ==
    ASSUME IInv,
           RequestStop \/ TunBreaks \/ IoResume \/ IoSpin \/ Returned \/ UNCHANGED vars
    PROVE  IInv'
<1>1. UNCHANGED <<sessionVars, copying, state, run, aborted, parked, epc, mutex>>
  BY DEF RequestStop, TunBreaks, IoResume, IoSpin, Returned, vars, taskVars
<1>2. state' \in [Task -> TaskState] /\ state' = state
  BY <1>1 DEF IInv, TypeOK, TaskState
<1>3. /\ ListAgrees' /\ Lifetimes' /\ Told'
      /\ session_set' \in Seq(Session) /\ session_count' \in Nat
  BY <1>1, <1>2, SessionsUntouched
<1>4. Workers'
  BY <1>1 DEF IInv, TypeOK, Workers, RequestStop, TunBreaks, IoResume, IoSpin,
              Returned, vars, taskVars, Scheduled
<1>5. TypeOK'
  <2>1. request' \in BOOLEAN /\ tunBad' \in BOOLEAN /\ cpu' \in BOOLEAN
    BY DEF IInv, TypeOK, RequestStop, TunBreaks, IoResume, IoSpin, Returned, vars,
           taskVars
  <2> QED BY <1>1, <1>3, <2>1 DEF IInv, TypeOK, sessionVars
<1>6. TimerAttentive'
  BY <1>1 DEF IInv, TimerAttentive, sessionVars
<1> QED BY <1>3, <1>4, <1>5, <1>6 DEF IInv

\* The reactor, a timer or a packet wakes a task.
LEMMA WakingStep ==
    ASSUME IInv,
           \/ EventReadable \/ IoReadable \/ TimerExpires
           \/ \E s \in Session : SessionReadable(s) \/ Receive(s)
    PROVE  IInv'
<1>1. PICK T \in SUBSET Task : Wakeup(T) /\ UNCHANGED <<taskVars, sessionVars>>
  BY DEF EventReadable, IoReadable, TimerExpires, SessionReadable, Receive, Task
<1>2. state \in [Task -> TaskState]
  BY DEF IInv, TypeOK, TaskState
<1>3. /\ state' \in [Task -> TaskState]
      /\ \A t \in Task : state'[t] = "stopped" <=> state[t] = "stopped"
      /\ \A t \in Task : state[t] = "running" => state'[t] = "running"
      /\ \A t \in Task : state'[t] = "waiting" => state[t] = "waiting" /\ t \notin T
  BY <1>1, <1>2, WakeupStates
<1>4. Session \subseteq Task /\ {"event", "io", "timer"} \subseteq Task
  BY DEF Task
<1>5. /\ ListAgrees' /\ Lifetimes' /\ Told'
      /\ session_set' \in Seq(Session) /\ session_count' \in Nat
  BY <1>1, <1>3, <1>4, SessionsUntouched DEF taskVars
<1>6. Workers'
  BY <1>1, <1>3, <1>4 DEF IInv, TypeOK, Workers, taskVars
<1>7. TypeOK'
  <2>1. aborted' \in BOOLEAN
    BY <1>1 DEF Wakeup
  <2> QED BY <1>1, <1>3, <1>5, <2>1 DEF IInv, TypeOK, taskVars, sessionVars, TaskState
<1>8. TimerAttentive'
  BY <1>1, <1>3, <1>4 DEF IInv, TimerAttentive, taskVars, sessionVars
<1> QED BY <1>5, <1>6, <1>7, <1>8 DEF IInv

\* A task of the worker yields or ends, and leaves the sessions alone.
LEMMA WorkerStep ==
    ASSUME IInv,
           EventWait \/ EventJoin \/ IoEnd \/ IoIdle \/ AcceptFails \/ TimerEnd
    PROVE  IInv'
<1>1. PICK t \in {"event", "io", "timer"}, q \in TaskState, T \in SUBSET Task :
         YieldTo(t, q, T) /\ UNCHANGED <<run, request, epc, parked, copying, sessionVars>>
  BY DEF EventWait, EventJoin, IoEnd, IoIdle, AcceptFails, TimerEnd, Joiner, Task,
         TaskState, taskVars
<1>2. state \in [Task -> TaskState] /\ t \in Task
  BY DEF IInv, TypeOK, TaskState, Task
<1>3. /\ state' \in [Task -> TaskState] /\ state'[t] = q
      /\ \A u \in Task \ {t} : state'[u] = "stopped" <=> state[u] = "stopped"
      /\ \A u \in Task \ {t} : state[u] = "running" => state'[u] = "running"
      /\ \A u \in Task \ {t} :
            state'[u] = "waiting" => state[u] = "waiting" /\ u \notin T
  BY <1>1, <1>2, YieldStates
<1>4. Session \subseteq Task \ {t} /\ {"event", "io", "timer"} \subseteq Task
  BY SessionAssumption DEF Task
<1>5. /\ ListAgrees' /\ Lifetimes' /\ Told'
      /\ session_set' \in Seq(Session) /\ session_count' \in Nat
  BY <1>1, <1>3, <1>4, SessionsUntouched
<1>6. TypeOK'
  <2>1. aborted' \in BOOLEAN
    BY <1>1 DEF YieldTo
  <2>2. cpu' \in BOOLEAN /\ mutex' \in BOOLEAN /\ tunBad' \in BOOLEAN
    BY DEF IInv, TypeOK, EventWait, EventJoin, IoEnd, IoIdle, AcceptFails, TimerEnd,
           taskVars
  <2> QED BY <1>1, <1>3, <1>5, <2>1, <2>2 DEF IInv, TypeOK, sessionVars, TaskState
<1>7. Workers' /\ TimerAttentive'
  <2> USE DEF IInv, TypeOK, Workers, TimerAttentive, Task, YieldTo, Woken, taskVars,
              sessionVars
  <2>1. CASE EventWait
    BY <2>1 DEF EventWait, Scheduled
  <2>2. CASE EventJoin
    BY <2>2 DEF EventJoin, Scheduled
  <2>3. CASE IoEnd
    BY <2>3 DEF IoEnd, Scheduled, Joiner
  <2>4. CASE IoIdle
    BY <2>4 DEF IoIdle
  <2>5. CASE AcceptFails
    BY <2>5 DEF AcceptFails
  <2>6. CASE TimerEnd
    BY <2>6 DEF TimerEnd, Scheduled, Joiner
  <2> QED BY <2>1, <2>2, <2>3, <2>4, <2>5, <2>6
<1> QED BY <1>5, <1>6, <1>7 DEF IInv

\* event_task_entry reads the request: every session is told.
LEMMA StopStep == ASSUME IInv, EventStop PROVE IInv'
<1> DEFINE T == Range(session_set) \cup {"io"}
<1>1. YieldTo("event", "waiting", T) /\ UNCHANGED <<session_set, session_count, spc, pcb>>
      /\ run' = FALSE /\ epc' = "join" /\ request /\ request' = request /\ ~cpu
      /\ cpu' = cpu /\ parked' = parked
  BY DEF EventStop, Scheduled
<1>2. state \in [Task -> TaskState] /\ "event" \in Task /\ "waiting" \in TaskState
  BY DEF IInv, TypeOK, TaskState, Task
<1>3. /\ state' \in [Task -> TaskState] /\ state'["event"] = "waiting"
      /\ \A u \in Task \ {"event"} : state'[u] = "stopped" <=> state[u] = "stopped"
      /\ \A u \in Task \ {"event"} : state[u] = "running" => state'[u] = "running"
      /\ \A u \in Task \ {"event"} :
            state'[u] = "waiting" => state[u] = "waiting" /\ u \notin T
  <2> HIDE DEF T
  <2> QED BY <1>1, <1>2, YieldStates
<1>4. Session \subseteq Task \ {"event"} /\ {"event", "io", "timer"} \subseteq Task
  BY SessionAssumption DEF Task
<1>5. ListAgrees' /\ session_set' \in Seq(Session) /\ session_count' \in Nat
  <2>1. Lists(session_set, Live) /\ session_count = Len(session_set)
    BY ListHere DEF IInv
  <2>2. Live' = Live
    BY <1>3, <1>4 DEF Live
  <2>3. Lists(session_set', Live') /\ session_count' = Len(session_set')
    BY <1>1, <2>1, <2>2
  <2> QED BY <2>3, ListKept
<1>6. Lifetimes'
  BY <1>1, <1>3, <1>4 DEF IInv, Lifetimes
<1>7. Workers' /\ TimerAttentive'
  BY <1>1, <1>3 DEF Workers, TimerAttentive
<1>8. timeout' = [s \in Session |-> IF s \in Live THEN "zero" ELSE timeout[s]]
      /\ copying' = {s \in Session : spc[s] \in {"splice", "drain"}}
      /\ Range(session_set) = Live
  BY DEF EventStop, TerminateAll, IInv, ListAgrees, Live
<1>9. Told'
  <2> SUFFICES ASSUME NEW s \in copying'
               PROVE  /\ ~run' /\ state'[s] = "running"
                      /\ spc'[s] \in {"splice", "drain"} /\ timeout'[s] = "zero"
    BY DEF Told
  <2>1. s \in Session /\ spc[s] \in {"splice", "drain"}
    BY <1>8
  <2>2. state[s] # "stopped" /\ s \in Live
    BY <2>1 DEF IInv, Lifetimes, Live
  <2>3. state'[s] \in TaskState /\ s \in Task \ {"event"} /\ s \in T
    BY <1>3, <1>4, <1>8, <2>1, <2>2
  <2>4. state'[s] = "running"
    BY <1>3, <2>2, <2>3 DEF TaskState
  <2> QED BY <1>1, <1>8, <2>1, <2>2, <2>4
<1>10. TypeOK'
  <2>1. aborted' \in BOOLEAN
    BY <1>1 DEF YieldTo
  <2>2. timeout' \in [Session -> {"unset", "set", "zero"}] /\ copying' \in SUBSET Session
    BY <1>8 DEF IInv, TypeOK
  <2> QED BY <1>3, <1>5, <2>1, <2>2 DEF IInv, TypeOK, TaskState, EventStop
<1> QED BY <1>5, <1>6, <1>7, <1>9, <1>10 DEF IInv

\* A packet opens a session, and may make the oldest one end.
LEMMA AcceptStep ==
    ASSUME IInv, NEW s \in Session, NEW k \in {"tcp", "udp"}, Accept(s, k)
    PROVE  IInv'
<1>1. PICK E : /\ YieldTo(s, "running", E \cup {"timer"})
               /\ timeout' = [u \in Session |-> IF u \in E THEN "zero"
                                 ELSE IF u = s THEN "unset" ELSE timeout[u]]
  BY DEF Accept, WakeForNew
<1>2. /\ cpu /\ spc[s] = "none" /\ session_set' = Append(session_set, s)
      /\ session_count' = session_count + 1
      /\ spc' = [spc EXCEPT ![s] = "new"] /\ kind' = [kind EXCEPT ![s] = k]
      /\ pcb' = [pcb EXCEPT ![s] = TRUE] /\ UNCHANGED taskVars
  BY DEF Accept
<1>3. state \in [Task -> TaskState] /\ s \in Task /\ "running" \in TaskState
      /\ state[s] = "stopped" /\ run
  BY <1>2 DEF IInv, TypeOK, TaskState, Task, Lifetimes, Workers
<1>4. /\ state' \in [Task -> TaskState] /\ state'[s] = "running"
      /\ \A u \in Task \ {s} : state'[u] = "stopped" <=> state[u] = "stopped"
      /\ \A u \in Task \ {s} : state[u] = "running" => state'[u] = "running"
      /\ \A u \in Task \ {s} :
            state'[u] = "waiting" => state[u] = "waiting" /\ u \notin E \cup {"timer"}
  BY <1>1, <1>3, YieldStates
<1>5. {"event", "io", "timer"} \subseteq Task \ {s} /\ Session \subseteq Task
  BY SessionAssumption DEF Task
<1>6. ListAgrees' /\ session_set' \in Seq(Session) /\ session_count' \in Nat
  <2>1. Lists(session_set, Live) /\ session_count = Len(session_set)
    BY ListHere DEF IInv
  <2>2. Live' = Live \cup {s} /\ s \in Session \ Live
    BY <1>3, <1>4, <1>5 DEF Live
  <2>3. Lists(Append(session_set, s), Live \cup {s})
        /\ Len(Append(session_set, s)) = Len(session_set) + 1
    BY <2>1, <2>2, AppendLists
  <2>4. Lists(session_set', Live') /\ session_count' = Len(session_set')
    BY <1>2, <2>1, <2>2, <2>3
  <2> QED BY <2>4, ListKept
<1>7. Lifetimes'
  BY <1>2, <1>4, <1>5 DEF IInv, TypeOK, Lifetimes
<1>8. Workers' /\ TimerAttentive' /\ Told'
  BY <1>2, <1>3, <1>4, <1>5 DEF IInv, Workers, TimerAttentive, Told, taskVars
<1>9. TypeOK'
  <2>1. aborted' \in BOOLEAN
    BY <1>1 DEF YieldTo
  <2>2. timeout' \in [Session -> {"unset", "set", "zero"}]
    BY <1>1 DEF IInv, TypeOK
  <2> QED BY <1>2, <1>4, <1>6, <2>1, <2>2 DEF IInv, TypeOK, TaskState, taskVars
<1> QED BY <1>6, <1>7, <1>8, <1>9 DEF IInv

\* A round of the timer task, and the reset of a session by a packet.
LEMMA TickStep ==
    ASSUME IInv, TimerTick \/ \E s \in Session : IoReset(s)
    PROVE  IInv'
<1>1. /\ UNCHANGED <<run, request, epc, cpu, mutex, tunBad, copying, session_set,
                     session_count, spc, kind>>
      /\ run /\ pcb' \in [Session -> BOOLEAN]
      /\ timeout' \in [Session -> {"unset", "set", "zero"}]
      /\ \A s \in Session : pcb'[s] => pcb[s]
  <2>1. CASE TimerTick
    BY <2>1 DEF IInv, TypeOK, TimerTick, Reset, sessionVars
  <2>2. ASSUME NEW s \in Session, IoReset(s)
        PROVE  /\ UNCHANGED <<run, request, epc, cpu, mutex, tunBad, copying, session_set,
                     session_count, spc, kind>>
               /\ run /\ pcb' \in [Session -> BOOLEAN]
               /\ timeout' \in [Session -> {"unset", "set", "zero"}]
               /\ \A u \in Session : pcb'[u] => pcb[u]
    BY <2>2 DEF IInv, TypeOK, IoReset, Reset, Workers, taskVars
  <2> QED BY <2>1, <2>2
<1>2. state \in [Task -> TaskState] /\ "waiting" \in TaskState
  BY DEF IInv, TypeOK, TaskState
<1>3. {"event", "io", "timer"} \subseteq Task /\ Session \subseteq Task \ {"timer"}
  BY SessionAssumption DEF Task
<1>4. /\ state' \in [Task -> TaskState]
      /\ \A u \in Task \ {"timer"} : state'[u] = "stopped" <=> state[u] = "stopped"
      /\ \A u \in Task \ {"timer"} : state[u] = "running" => state'[u] = "running"
      /\ state'["timer"] = "stopped" => state["timer"] = "stopped"
      /\ parked' \in BOOLEAN /\ aborted' \in BOOLEAN
      /\ parked' /\ state'["timer"] = "waiting" => session_set = <<>>
  <2>1. CASE TimerTick
    <3>1. PICK T : YieldTo("timer", "waiting", T)
      BY <2>1 DEF TimerTick
    <3>2. parked' = (session_set = <<>>) /\ aborted' \in BOOLEAN
      BY <2>1, <3>1 DEF TimerTick, YieldTo
    <3>3. /\ state' \in [Task -> TaskState] /\ state'["timer"] = "waiting"
          /\ \A u \in Task \ {"timer"} : state'[u] = "stopped" <=> state[u] = "stopped"
          /\ \A u \in Task \ {"timer"} : state[u] = "running" => state'[u] = "running"
      BY <1>2, <1>3, <3>1, YieldStates
    <3> QED BY <3>2, <3>3
  <2>2. ASSUME NEW s \in Session, IoReset(s)
        PROVE  /\ state' \in [Task -> TaskState]
               /\ \A u \in Task : state'[u] = "stopped" <=> state[u] = "stopped"
               /\ \A u \in Task : state[u] = "running" => state'[u] = "running"
               /\ parked' \in BOOLEAN /\ aborted' \in BOOLEAN
               /\ parked' /\ state'["timer"] = "waiting" => session_set = <<>>
    <3>1. Wakeup({s}) /\ parked' = parked
      BY <2>2 DEF IoReset, taskVars
    <3>2. /\ state' \in [Task -> TaskState]
          /\ \A t \in Task : state'[t] = "stopped" <=> state[t] = "stopped"
          /\ \A t \in Task : state[t] = "running" => state'[t] = "running"
          /\ \A t \in Task : state'[t] = "waiting" => state[t] = "waiting" /\ t \notin {s}
      BY <1>2, <3>1, WakeupStates
    <3>3. aborted' \in BOOLEAN
      BY <3>1 DEF Wakeup
    <3> QED BY <1>1, <1>3, <3>1, <3>2, <3>3 DEF IInv, TypeOK, TimerAttentive
  <2> QED BY <1>3, <2>1, <2>2
<1>5. ListAgrees' /\ session_set' \in Seq(Session) /\ session_count' \in Nat
  <2>1. Lists(session_set, Live) /\ session_count = Len(session_set)
    BY ListHere DEF IInv
  <2>2. Live' = Live
    BY <1>3, <1>4 DEF Live
  <2>3. Lists(session_set', Live') /\ session_count' = Len(session_set')
    BY <1>1, <2>1, <2>2
  <2> QED BY <2>3, ListKept
<1>6. Lifetimes' /\ Told'
  BY <1>1, <1>3, <1>4 DEF IInv, Lifetimes, Told
<1>7. Workers' /\ TimerAttentive'
  BY <1>1, <1>3, <1>4 DEF IInv, Workers, TimerAttentive
<1>8. TypeOK'
  BY <1>1, <1>4, <1>5 DEF IInv, TypeOK, TaskState
<1> QED BY <1>5, <1>6, <1>7, <1>8 DEF IInv

\* The task of session s yields.  One that was told to end does not sleep.
LEMMA SessionGoesOn ==
    ASSUME IInv, NEW s \in Session, state[s] # "stopped",
           NEW q \in {"running", "waiting"}, YieldTo(s, q, {}),
           NEW at \in {"new", "connect", "handshake", "splice", "drain"},
           NEW to \in {"unset", "set", "zero"},
           spc' = [spc EXCEPT ![s] = at], timeout' = [timeout EXCEPT ![s] = to],
           session_set' = session_set \/ session_set' = UpdateSession(s),
           UNCHANGED <<session_count, kind, pcb, taskVars>>,
           s \in copying => q = "running" /\ at \in {"splice", "drain"} /\ to = "zero"
    PROVE  IInv'
<1>1. state \in [Task -> TaskState] /\ s \in Task /\ q \in TaskState /\ s \in Live
  BY DEF IInv, TypeOK, TaskState, Task, Live
<1>2. state' = [state EXCEPT ![s] = q] /\ aborted' = aborted
  BY <1>1 DEF YieldTo, Woken, IInv, TypeOK
<1>3. {"event", "io", "timer"} \subseteq Task \ {s} /\ Session \subseteq Task
  BY SessionAssumption DEF Task
<1>4. ListAgrees' /\ session_set' \in Seq(Session) /\ session_count' \in Nat
  <2>1. Lists(session_set, Live) /\ session_count = Len(session_set)
    BY ListHere DEF IInv
  <2>2. Live' = Live
    BY <1>1, <1>2, <1>3 DEF Live
  <2>3. Lists(UpdateSession(s), Live) /\ Len(UpdateSession(s)) = Len(session_set)
    BY <1>1, <2>1, UpdateLists
  <2>4. CASE session_set' = session_set
    <3>1. Lists(session_set', Live') /\ session_count' = Len(session_set')
      BY <2>1, <2>2, <2>4
    <3> QED BY <3>1, ListKept
  <2>5. CASE session_set' = UpdateSession(s)
    <3>1. Lists(session_set', Live') /\ session_count' = Len(session_set')
      BY <2>1, <2>2, <2>3, <2>5
    <3> QED BY <3>1, ListKept
  <2> QED BY <2>4, <2>5
<1>5. Lifetimes' /\ Workers' /\ Told'
  BY <1>1, <1>2, <1>3 DEF IInv, TypeOK, Lifetimes, Workers, Told, taskVars
<1>6. TimerAttentive'
  <2>1. session_set # <<>>
    BY <1>1 DEF IInv, ListAgrees, Range, Live
  <2> QED BY <1>1, <1>2, <1>3, <2>1 DEF IInv, TimerAttentive, taskVars
<1>7. TypeOK'
  BY <1>1, <1>2, <1>4 DEF IInv, TypeOK, TaskState, taskVars
<1> QED BY <1>4, <1>5, <1>6, <1>7 DEF IInv

\* The task of session s ends.
LEMMA SessionEnds ==
    ASSUME IInv, NEW s \in Session, state[s] # "stopped", SessionEnd(s),
           UNCHANGED taskVars
    PROVE  IInv'
<1>1. state \in [Task -> TaskState] /\ s \in Task /\ s \in Live
  BY DEF IInv, TypeOK, TaskState, Task, Live
<1>2. state' = [state EXCEPT ![s] = "stopped"] /\ aborted' = aborted
  BY <1>1 DEF SessionEnd, YieldTo, Woken, IInv, TypeOK
<1>3. {"event", "io", "timer"} \subseteq Task \ {s} /\ Session \subseteq Task
  BY SessionAssumption DEF Task
<1>4. ListAgrees' /\ session_set' \in Seq(Session) /\ session_count' \in Nat
  <2>1. Lists(session_set, Live) /\ session_count = Len(session_set)
    BY ListHere DEF IInv
  <2>2. Live' = Live \ {s}
    BY <1>1, <1>2, <1>3 DEF Live
  <2>3. Lists(Without(session_set, s), Live \ {s})
        /\ Len(Without(session_set, s)) = Len(session_set) - 1
    BY <1>1, <2>1, WithoutLists
  <2>4. Lists(session_set', Live') /\ session_count' = Len(session_set')
    BY <2>1, <2>2, <2>3 DEF SessionEnd, DeleteSession
  <2> QED BY <2>4, ListKept
<1>5. Lifetimes' /\ Workers' /\ Told'
  BY <1>1, <1>2, <1>3 DEF IInv, TypeOK, Lifetimes, Workers, Told, taskVars, SessionEnd
<1>6. TimerAttentive'
  <2>1. session_set # <<>>
    BY <1>1 DEF IInv, ListAgrees, Range, Live
  <2> QED BY <1>1, <1>2, <1>3, <2>1 DEF IInv, TimerAttentive, taskVars
<1>7. TypeOK'
  BY <1>1, <1>2, <1>4 DEF IInv, TypeOK, TaskState, taskVars, SessionEnd
<1> QED BY <1>4, <1>5, <1>6, <1>7 DEF IInv

\* Each of the session's steps is one of the two.
LEMMA SessionStep ==
    ASSUME IInv, NEW s \in Session, SessionTask(s) \/ Splice(s) \/ TimesOut(s)
    PROVE  IInv'
<1>1. state[s] # "stopped" /\ UNCHANGED taskVars
  BY DEF SessionTask, Connect, Handshake, SpliceIdle, Drain, Splice, TimesOut, Scheduled
<1>2. ASSUME SessionEnd(s) PROVE IInv'
  BY <1>1, <1>2, SessionEnds
<1>3. spc[s] # "none" /\ timeout[s] \in {"unset", "set", "zero"}
      /\ (s \in copying => spc[s] \in {"splice", "drain"} /\ timeout[s] = "zero"
                           /\ state[s] = "running")
  BY <1>1 DEF IInv, TypeOK, Lifetimes, Told
<1>4. ASSUME NEW at \in {"connect", "handshake", "splice", "drain"},
             NEW to \in {"set", timeout[s]}, WaitIo(s, at, to),
             session_set' = session_set \/ session_set' = UpdateSession(s),
             s \in copying => to = timeout[s]
      PROVE  IInv'
  <2>1. s \notin copying
    BY <1>3, <1>4 DEF WaitIo
  <2>2. YieldTo(s, "waiting", {}) /\ spc' = [spc EXCEPT ![s] = at]
        /\ timeout' = [timeout EXCEPT ![s] = to] /\ UNCHANGED <<session_count, kind, pcb>>
    BY <1>4 DEF WaitIo
  <2>3. to \in {"unset", "set", "zero"}
    BY <1>3, <1>4
  <2> QED BY <1>1, <1>4, <2>1, <2>2, <2>3, SessionGoesOn
<1>5. ASSUME NEW to \in {"set", timeout[s]}, SpliceProgress(s, to),
             session_set' = session_set \/ session_set' = UpdateSession(s),
             s \in copying => to = timeout[s]
      PROVE  IInv'
  <2>1. YieldTo(s, "running", {}) /\ spc' = [spc EXCEPT ![s] = "splice"]
        /\ timeout' = [timeout EXCEPT ![s] = to] /\ UNCHANGED <<session_count, kind, pcb>>
    BY <1>5 DEF SpliceProgress
  <2>2. to \in {"unset", "set", "zero"} /\ (s \in copying => to = "zero")
    BY <1>3, <1>5
  <2> QED BY <1>1, <1>5, <2>1, <2>2, SessionGoesOn
<1>6. CASE Connect(s)
  <2>1. s \notin copying
    BY <1>3, <1>6 DEF Connect
  <2> QED BY <1>2, <1>4, <1>6, <2>1 DEF Connect
<1>7. CASE Handshake(s)
  <2>1. s \notin copying
    BY <1>3, <1>7 DEF Handshake
  <2> QED BY <1>2, <1>4, <1>5, <1>7, <2>1 DEF Handshake
<1>8. ASSUME SpliceLeave(s) PROVE IInv'
  BY <1>2, <1>4, <1>8 DEF SpliceLeave
<1>9. CASE SpliceIdle(s)
  BY <1>4, <1>8, <1>9 DEF SpliceIdle
<1>10. CASE Drain(s)
  BY <1>2, <1>4, <1>10 DEF Drain
<1>11. CASE Splice(s)
  BY <1>5, <1>11 DEF Splice
<1>12. CASE TimesOut(s)
  BY <1>2, <1>8, <1>12 DEF TimesOut
<1> QED BY <1>6, <1>7, <1>9, <1>10, <1>11, <1>12 DEF SessionTask

LEMMA NextInv == IInv /\ [Next]_vars => IInv'
<1> SUFFICES ASSUME IInv, [Next]_vars PROVE IInv'
  OBVIOUS
<1>1. ASSUME NEW s \in Session,
             \/ \E k \in {"tcp", "udp"} : Accept(s, k)
             \/ Receive(s) \/ IoReset(s)
             \/ SessionTask(s) \/ Splice(s) \/ TimesOut(s) \/ SessionReadable(s)
      PROVE  IInv'
  BY <1>1, AcceptStep, WakingStep, TickStep, SessionStep
<1>2. CASE EventReadable \/ IoReadable \/ TimerExpires
  BY <1>2, WakingStep
<1>3. CASE UNCHANGED vars
  BY <1>3, QuietStep
<1> QED
  BY <1>1, <1>2, <1>3, QuietStep, WorkerStep, StopStep, TickStep
  DEF Next, EventTask, IoTask, TimerTask

\* The inductive invariant holds at every yield of every task.
THEOREM InvHolds == Spec => []IInv
BY InitInv, NextInv, PTL DEF Spec

\* The list that hev_socks5_tunnel_insert_session, update_session and
\* delete_session keep agrees with the tasks at every yield, whatever the
\* number of sessions and the limit on it, until a failed hev_task_new locks
\* the worker up.
THEOREM SessionListSound == Spec => []ListMatchesTasks
<1>1. IInv => ListMatchesTasks
  BY DEF IInv, ListMatchesTasks
<1> QED BY <1>1, InvHolds, PTL

\* The TCP timers are never asleep while a session needs them
\* (lwip_timer_task_entry and the wakeups of the two accept handlers).
THEOREM TimersRun == Spec => []TimerAttentive
<1>1. IInv => TimerAttentive
  BY DEF IInv
<1> QED BY <1>1, InvHolds, PTL

\* A session that copies data when the stop comes never sleeps again
\* (event_task_entry, hev_socks5_session_terminate, the task_io_yielder),
\* unless a failed hev_task_new has locked the worker up.
THEOREM StopIsPrompt == Spec => []PromptStop
<1>1. IInv => PromptStop
  BY DEF IInv, Told, PromptStop
<1> QED BY <1>1, InvHolds, PTL

-----------------------------------------------------------------------------
(***************************************************************************)
(* Wakeups.  With a limit of one session the statement would be false: the *)
(* first session is then the oldest one as well, and is terminated before  *)
(* hev_task_run has been called for its task.                              *)
(***************************************************************************)

\* The session that has to go is one with a task.
LEMMA EvictedIsLive ==
    ASSUME IInv, MaxSessionCount # 1, NEW s \in Session, spc[s] = "none",
           session_set' = Append(session_set, s), session_count' = session_count + 1,
           MaxSessionCount # 0, session_count' >= MaxSessionCount
    PROVE  Head(session_set') \in Live
<1>1. session_set \in Seq(Session) /\ session_count = Len(session_set)
      /\ Range(session_set) = Live
  BY DEF IInv, TypeOK, ListAgrees, Live
<1>2. Len(session_set) > 0
  BY <1>1, SessionAssumption
<1>3. Head(session_set') = session_set[1] /\ 1 \in 1..Len(session_set)
  BY <1>1, <1>2
<1> QED BY <1>1, <1>3, LenProperties DEF Range

LEMMA NextWakesLive ==
    ASSUME MaxSessionCount # 1, IInv, WakesLiveTasks, [Next]_vars
    PROVE  WakesLiveTasks'
<1> USE DEF WakesLiveTasks
<1>1. Range(session_set) = Live /\ \A s \in Live : state[s] # "stopped"
  BY DEF IInv, ListAgrees, Live
<1>2. ASSUME NEW s \in Session, pcb[s] PROVE state[s] # "stopped"
  BY <1>2 DEF IInv, Lifetimes
<1>3. ASSUME NEW s \in Session, NEW k \in {"tcp", "udp"}, Accept(s, k)
      PROVE  ~aborted'
  <2>1. state["timer"] # "stopped"
    BY <1>3 DEF Accept, IInv, Workers
  <2>2. ASSUME MaxSessionCount # 0, session_count' >= MaxSessionCount
        PROVE  state[Head(session_set')] # "stopped"
    BY <1>1, <1>3, <2>2, EvictedIsLive DEF Accept
  <2> QED BY <1>3, <2>1, <2>2 DEF Accept, YieldTo, WakeForNew
<1>4. ASSUME NEW s \in Session, Receive(s) \/ IoReset(s) PROVE ~aborted'
  BY <1>2, <1>4 DEF Receive, IoReset, Reset, Wakeup
<1>5. ASSUME NEW s \in Session, SessionReadable(s) PROVE ~aborted'
  BY <1>5 DEF SessionReadable, Wakeup
<1>6. ASSUME NEW s \in Session, SessionTask(s) \/ Splice(s) \/ TimesOut(s)
      PROVE ~aborted'
  BY <1>6 DEF SessionTask, Connect, Handshake, Splice, SpliceIdle, Drain, TimesOut,
              SpliceLeave, SpliceProgress, WaitIo, SessionEnd, YieldTo
<1>7. CASE EventReadable \/ IoReadable \/ TimerExpires
  BY <1>7 DEF EventReadable, IoReadable, TimerExpires, Wakeup
<1>8. CASE EventStop
  BY <1>1, <1>8 DEF EventStop, YieldTo, IInv, Workers
<1>9. CASE EventWait \/ EventJoin \/ IoIdle \/ AcceptFails
  BY <1>9 DEF EventWait, EventJoin, IoIdle, AcceptFails, YieldTo
<1>10. CASE IoEnd \/ TimerEnd
  BY <1>10 DEF IoEnd, TimerEnd, Scheduled, Joiner, YieldTo, IInv, Workers
<1>11. CASE TimerTick
  BY <1>2, <1>11 DEF TimerTick, Reset, YieldTo
<1>12. CASE RequestStop \/ TunBreaks \/ IoResume \/ IoSpin \/ Returned \/ UNCHANGED vars
  BY <1>12 DEF RequestStop, TunBreaks, IoResume, IoSpin, Returned, vars
<1> QED
  BY <1>3, <1>4, <1>5, <1>6, <1>7, <1>8, <1>9, <1>10, <1>11, <1>12
  DEF Next, EventTask, IoTask, TimerTask

\* hev_task_wakeup never meets a task that is not in the scheduler and so
\* never aborts the process, for any limit but one.
THEOREM WakesOnlyLive ==
    ASSUME MaxSessionCount # 1 PROVE Spec => []WakesLiveTasks
<1>1. Init => WakesLiveTasks
  BY DEF Init, WakesLiveTasks
<1>2. IInv /\ WakesLiveTasks /\ [Next]_vars => WakesLiveTasks'
  BY NextWakesLive
<1> QED BY <1>1, <1>2, InvHolds, PTL DEF Spec

-----------------------------------------------------------------------------
(***************************************************************************)
(* The safety part of ImplementsRunPhase: hev_task_system_run returns only *)
(* after a request, and once.                                              *)
(***************************************************************************)
LEMMA EndedMeansAsked == ASSUME IInv, Ended PROVE request
BY DEF IInv, Ended, Workers, Task

\* Nothing starts again.
LEMMA EndIsFinal ==
    ASSUME IInv, Ended, [Next]_vars PROVE Ended' /\ request' = request
<1>1. request /\ \A t \in Task : state[t] = "stopped"
  BY EndedMeansAsked DEF Ended
<1>2. ~cpu
  BY <1>1 DEF IInv, Workers, Task
<1>3. UNCHANGED <<state, request>>
  BY <1>1, <1>2 DEF Next, RequestStop, EventReadable, EventTask, EventWait, EventStop,
     EventJoin, IoReadable, IoTask, IoResume, IoEnd, IoIdle, IoSpin, TunBreaks, TimerTask,
     TimerTick, TimerEnd, TimerExpires, AcceptFails, Accept, Receive, IoReset, SessionTask,
     Connect, Handshake, SpliceIdle, Drain, Splice, TimesOut, SessionReadable, Returned,
     Scheduled, Task, vars, taskVars
<1> QED BY <1>1, <1>3 DEF Ended

\* A request is a step of its own, and is not taken back.
LEMMA RequestStays ==
    ASSUME [Next]_vars
    PROVE  request' = request \/ (request' = TRUE /\ state' = state)
BY DEF Next, RequestStop, EventReadable, EventTask, EventWait, EventStop,
     EventJoin, IoReadable, IoTask, IoResume, IoEnd, IoIdle, IoSpin, TunBreaks, TimerTask,
     TimerTick, TimerEnd, TimerExpires, AcceptFails, Accept, Receive, IoReset, SessionTask,
     Connect, Handshake, SpliceIdle, Drain, Splice, TimesOut, SessionReadable, Returned,
     vars, taskVars

LEMMA PhaseStep ==
    ASSUME IInv, IInv', [Next]_vars PROVE [Phase!Next]_<<request, Ended>>
<1>1. CASE Ended
  <2>1. Ended' /\ request' = request
    BY <1>1, EndIsFinal
  <2>2. Ended' = Ended
    BY <1>1, <2>1 DEF Ended
  <2> QED BY <2>1, <2>2
<1>2. CASE ~Ended /\ ~Ended'
  <2>1. Ended' = Ended
    BY <1>2 DEF Ended
  <2> QED BY <2>1, RequestStays DEF Phase!Next, Phase!Ask
<1>3. CASE ~Ended /\ Ended'
  <2>1. request' = request
    BY <1>3, RequestStays DEF Ended
  <2>2. request'
    BY <1>3 DEF IInv, Ended, Workers, Task
  <2>3. Ended' = TRUE
    BY <1>3 DEF Ended
  <2> QED BY <2>1, <2>2, <2>3 DEF Phase!Next, Phase!End
<1> QED BY <1>1, <1>2, <1>3

\* The worker's tasks implement RunPhase, but for its fairness: the scheduler
\* returns (all tasks have ended) only after hev_socks5_tunnel_stop has been
\* called, and no task starts again.
THEOREM TasksImplementRunPhase ==
    Spec => Phase!Init /\ [][Phase!Next]_<<request, Ended>>
<1>1. Init => Phase!Init
  <2> SUFFICES ASSUME Init PROVE request \in BOOLEAN /\ Ended = FALSE
    BY DEF Phase!Init
  <2>1. state["io"] = "running" /\ "io" \in Task
    BY SessionAssumption DEF Init, Task
  <2> QED BY <2>1 DEF Init, Ended
<1>2. IInv /\ IInv' /\ [Next]_vars => [Phase!Next]_<<request, Ended>>
  BY PhaseStep
<1> QED BY <1>1, <1>2, InvHolds, PTL DEF Spec
=============================================================================
