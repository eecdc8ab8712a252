----------------------------- MODULE TunnelTasks -----------------------------
(***************************************************************************)
(* The worker between hev_socks5_tunnel_run and its return: the event, the *)
(* io and the timer task of src/hev-socks5-tunnel.c, and one task for each *)
(* session of src/hev-socks5-session*.c.                                   *)
(*                                                                         *)
(* The tasks share one thread and give it up only where they yield, so an  *)
(* action is what a task does from one yield to the next.  The io task is  *)
(* the exception: it handles packet after packet without yielding, and is  *)
(* split at the packets; nobody else runs while it has the processor.      *)
(***************************************************************************)
EXTENDS Naturals, Sequences, SequencesExt

CONSTANTS
    Session,         \* session objects
    MaxSessionCount, \* misc.max-session-count, 0 = unlimited
    Faults           \* of "alloc" (hev_task_new) and "tun" (its descriptor)

ASSUME SessionAssumption ==
    /\ MaxSessionCount \in Nat
    /\ Faults \subseteq {"alloc", "tun"}
    /\ Session \cap {"event", "io", "timer"} = {}

VARIABLES
    run,             \* the flag all tasks look at
    request,         \* a stop request waits in the event socket
    state,           \* of each task, as the scheduler keeps it
    epc,             \* where the event task is
    parked,          \* the timer task waits without a timeout
    cpu,             \* the io task is handling packets
    mutex,           \* the lwIP mutex is held for good: who needs it waits
    tunBad,          \* reading the tun descriptor fails
    session_set,     \* the list of sessions, least recently active first
    session_count,   \* their number, as the code counts
    spc,             \* where each session's task is
    kind,            \* tcp or udp
    pcb,             \* the session's lwIP pcb is alive
    timeout,         \* of each session: unset (-1), set, or zero
    aborted,         \* hev_task_wakeup was given a task that does not run
    copying          \* ghost: the sessions that copied data when told to stop

taskVars == <<run, copying, request, epc, parked, cpu, mutex, tunBad>>
sessionVars == <<session_set, session_count, spc, kind, pcb, timeout>>
vars == <<taskVars, sessionVars, state, aborted>>

Task == {"event", "io", "timer"} \cup Session

TypeOK ==
    /\ run \in BOOLEAN /\ request \in BOOLEAN
    /\ state \in [Task -> {"stopped", "running", "waiting"}]
    /\ epc \in {"read", "join"}
    /\ parked \in BOOLEAN /\ cpu \in BOOLEAN
    /\ mutex \in BOOLEAN /\ tunBad \in BOOLEAN
    /\ session_set \in Seq(Session)
    /\ session_count \in Nat
    /\ spc \in [Session -> {"none", "new", "connect", "handshake", "splice",
                            "drain"}]
    /\ kind \in [Session -> {"tcp", "udp"}]
    /\ pcb \in [Session -> BOOLEAN]
    /\ timeout \in [Session -> {"unset", "set", "zero"}]
    /\ aborted \in BOOLEAN
    /\ copying \in SUBSET Session

Init ==
    /\ run = TRUE
    /\ request \in BOOLEAN
    /\ state = [t \in Task |-> IF t \in Session THEN "stopped" ELSE "running"]
    /\ epc = "read"
    /\ parked = FALSE /\ cpu = FALSE /\ mutex = FALSE /\ tunBad = FALSE
    /\ session_set = <<>> /\ session_count = 0
    /\ spc = [s \in Session |-> "none"]
    /\ kind = [s \in Session |-> "tcp"]
    /\ pcb = [s \in Session |-> FALSE]
    /\ timeout = [s \in Session |-> "unset"]
    /\ aborted = FALSE
    /\ copying = {}

\* The scheduler can pick task t: it is ready, and the thread is free.
Scheduled(t) == state[t] = "running" /\ ~cpu

\* hev_task_wakeup of the tasks T, as seen by task t.
Woken(T, t) == IF t \in T /\ state[t] = "waiting" THEN "running" ELSE state[t]

Wakeup(T) ==
    /\ state' = [t \in Task |-> Woken(T, t)]
    /\ aborted' = (aborted \/ \E t \in T : state[t] = "stopped")

\* Task t yields in state q, or ends, after having woken the tasks T.
YieldTo(t, q, T) ==
    /\ state' = [u \in Task |-> IF u = t THEN q ELSE Woken(T, u)]
    /\ aborted' = (aborted \/ \E u \in T : state[u] = "stopped")
-----------------------------------------------------------------------------
(***************************************************************************)
(* The event task.                                                         *)
(***************************************************************************)

\* hev_socks5_tunnel_stop, from another thread.
RequestStop ==
    /\ ~request
    /\ request' = TRUE
    /\ UNCHANGED <<run, copying, epc, parked, cpu, mutex, tunBad, sessionVars,
                   state, aborted>>

\* The reactor finds the event socket readable.
EventReadable ==
    /\ epc = "read"
    /\ request
    /\ state["event"] = "waiting"
    /\ ~cpu
    /\ Wakeup({"event"})
    /\ UNCHANGED <<taskVars, sessionVars>>

\* event_task_entry: there is nothing to read yet.
EventWait ==
    /\ Scheduled("event")
    /\ epc = "read"
    /\ ~request
    /\ YieldTo("event", "waiting", {})
    /\ UNCHANGED <<taskVars, sessionVars>>

\* Mutant: the sessions are not told.
TerminateNone == UNCHANGED timeout

\* hev_socks5_session_terminate of every session in the list.
TerminateAll ==
    timeout' = [s \in Session |->
                   IF s \in Range(session_set) THEN "zero" ELSE timeout[s]]

\* event_task_entry: the request is read; run = 0, terminate the sessions,
\* and the first round of hev_task_join on the io task.
EventStop ==
    /\ Scheduled("event")
    /\ epc = "read"
    /\ request
    /\ run' = FALSE
    /\ epc' = "join"
    /\ TerminateAll
    /\ copying' = {s \in Session : spc[s] \in {"splice", "drain"}}
    /\ YieldTo("event", "waiting", Range(session_set) \cup {"io"})
    /\ UNCHANGED <<request, parked, cpu, mutex, tunBad, session_set,
                   session_count, spc, kind, pcb>>

\* Mutant: the timer task is not joined.
EventJoinIoOnly ==
    /\ Scheduled("event")
    /\ epc = "join"
    /\ \/ state["io"] # "stopped" /\ YieldTo("event", "waiting", {"io"})
       \/ state["io"] = "stopped" /\ YieldTo("event", "stopped", {})
    /\ UNCHANGED <<taskVars, sessionVars>>

\* event_task_entry: hev_task_join of the io task, then of the timer task.
EventJoin ==
    /\ Scheduled("event")
    /\ epc = "join"
    /\ \/ state["io"] # "stopped" /\ YieldTo("event", "waiting", {"io"})
       \/ /\ state["io"] = "stopped" /\ state["timer"] # "stopped"
          /\ YieldTo("event", "waiting", {"timer"})
       \/ /\ state["io"] = "stopped" /\ state["timer"] = "stopped"
          /\ YieldTo("event", "stopped", {})
    /\ UNCHANGED <<taskVars, sessionVars>>

\* A task's joiner: the event task wakes once the task it joins has ended.
Joiner(t) ==
    IF epc = "join" /\ (t = "io" \/ state["io"] = "stopped")
    THEN {"event"} ELSE {}
-----------------------------------------------------------------------------
(***************************************************************************)
(* The io task.                                                            *)
(***************************************************************************)

\* The reactor finds the tun descriptor readable, or broken.
IoReadable ==
    /\ state["io"] = "waiting"
    /\ ~cpu /\ ~mutex
    /\ Wakeup({"io"})
    /\ UNCHANGED <<taskVars, sessionVars>>

\* lwip_io_task_entry goes on: it owns the thread until it yields.
IoResume ==
    /\ Scheduled("io")
    /\ ~mutex
    /\ run
    /\ cpu' = TRUE
    /\ UNCHANGED <<run, copying, request, epc, parked, mutex, tunBad,
                   sessionVars, state, aborted>>

\* lwip_io_task_entry: run is 0, the task ends.
IoEnd ==
    /\ Scheduled("io")
    /\ ~mutex
    /\ ~run
    /\ YieldTo("io", "stopped", Joiner("io"))
    /\ UNCHANGED <<taskVars, sessionVars>>

\* hev_tunnel_read: no packet is left, yield.
IoIdle ==
    /\ cpu
    /\ ~tunBad
    /\ cpu' = FALSE
    /\ YieldTo("io", "waiting", {})
    /\ UNCHANGED <<run, copying, request, epc, parked, mutex, tunBad,
                   sessionVars>>

\* hev_tunnel_read: any other error returns NULL, and the loop goes on
\* without a yield.
IoSpin ==
    /\ cpu
    /\ tunBad
    /\ UNCHANGED vars

\* The descriptor goes bad (its device was taken down, or it was closed).
TunBreaks ==
    /\ "tun" \in Faults
    /\ ~tunBad
    /\ tunBad' = TRUE
    /\ UNCHANGED <<run, copying, request, epc, parked, cpu, mutex,
                   sessionVars, state, aborted>>

\* Mutant: the timer task is not woken for a new session.
WakeForSession(evicted) == evicted

\* Whom tcp_accept_handler and udp_recv_handler wake: the session that has
\* to go, and the timer task.
WakeForNew(evicted) == evicted \cup {"timer"}

\* tcp_accept_handler and udp_recv_handler: a packet opens a session.
\* hev_socks5_tunnel_insert_session comes before hev_task_run.
Accept(s, k) ==
    /\ cpu /\ ~tunBad
    /\ spc[s] = "none"
    /\ session_set' = Append(session_set, s)
    /\ session_count' = session_count + 1
    /\ LET full == MaxSessionCount # 0 /\ session_count' >= MaxSessionCount
           evicted == IF full THEN {Head(session_set')} ELSE {}
       IN  /\ timeout' = [u \in Session |->
                             IF u \in evicted THEN "zero"
                             ELSE IF u = s THEN "unset" ELSE timeout[u]]
           /\ YieldTo(s, "running", WakeForNew(evicted))
    /\ spc' = [spc EXCEPT ![s] = "new"]
    /\ kind' = [kind EXCEPT ![s] = k]
    /\ pcb' = [pcb EXCEPT ![s] = TRUE]
    /\ UNCHANGED taskVars

\* The same when hev_task_new fails: the destructor of the session locks the
\* mutex that the io task holds while it is in netif.input, and waits for
\* itself.  The other tasks still run up to their own hev_task_mutex_lock and
\* wait there (a session that ends, after its delete_session).  These last
\* steps are not followed: where the mutex is held for good, ListMatchesTasks
\* and PromptStop claim nothing.
AcceptFails ==
    /\ "alloc" \in Faults
    /\ cpu /\ ~tunBad
    /\ mutex' = TRUE
    /\ cpu' = FALSE
    /\ YieldTo("io", "waiting", {})
    /\ UNCHANGED <<run, copying, request, epc, parked, tunBad, sessionVars>>

\* tcp_recv_handler, tcp_sent_handler, udp_recv_handler of a session.
Receive(s) ==
    /\ cpu /\ ~tunBad
    /\ pcb[s]
    /\ Wakeup({s})
    /\ UNCHANGED <<taskVars, sessionVars>>

\* tcp_err_handler, or udp_recv_handler without a packet: the pcb of a tcp
\* session is gone, and the session is to end.
Reset(s) ==
    /\ pcb[s]
    /\ pcb' = [pcb EXCEPT ![s] = (kind[s] = "udp")]
    /\ timeout' = [timeout EXCEPT ![s] = "zero"]
    /\ UNCHANGED <<session_set, session_count, spc, kind>>

IoReset(s) ==
    /\ cpu /\ ~tunBad
    /\ Reset(s)
    /\ Wakeup({s})
    /\ UNCHANGED taskVars
-----------------------------------------------------------------------------
(***************************************************************************)
(* The timer task.                                                         *)
(***************************************************************************)

\* lwip_timer_task_entry: tcp_tmr may give up on a connection; then sleep,
\* or wait to be woken if there is no session.
TimerTick ==
    /\ Scheduled("timer")
    /\ ~mutex
    /\ run
    /\ \/ /\ UNCHANGED sessionVars
          /\ YieldTo("timer", "waiting", {})
       \/ \E s \in Session :
             /\ kind[s] = "tcp"
             /\ Reset(s)
             /\ YieldTo("timer", "waiting", {s})
    /\ parked' = (session_set = <<>>)
    /\ UNCHANGED <<run, copying, request, epc, cpu, mutex, tunBad>>

\* The sleep of TCP_TMR_INTERVAL is over.
TimerExpires ==
    /\ state["timer"] = "waiting"
    /\ ~parked /\ ~cpu
    /\ Wakeup({"timer"})
    /\ UNCHANGED <<taskVars, sessionVars>>

\* lwip_timer_task_entry: run is 0, the task ends.
TimerEnd ==
    /\ Scheduled("timer")
    /\ ~mutex
    /\ ~run
    /\ YieldTo("timer", "stopped", Joiner("timer"))
    /\ UNCHANGED <<taskVars, sessionVars>>
-----------------------------------------------------------------------------
(***************************************************************************)
(* The session tasks.                                                      *)
(***************************************************************************)

\* hev_list_del of the session's node.
Without(seq, s) == RemoveFirst(seq, s)

\* Mutant: the list is left alone, only the count goes down.
DeleteCountOnly(s) ==
    /\ UNCHANGED session_set
    /\ session_count' = session_count - 1

\* hev_socks5_tunnel_delete_session.
DeleteSession(s) ==
    /\ session_set' = Without(session_set, s)
    /\ session_count' = session_count - 1

\* Mutant: the destructor leaves the session's handlers with the pcb.
SessionEndKeepsPcb(s) ==
    /\ DeleteSession(s)
    /\ spc' = [spc EXCEPT ![s] = "none"]
    /\ timeout' = [timeout EXCEPT ![s] = "unset"]
    /\ kind' = [kind EXCEPT ![s] = "tcp"]
    /\ YieldTo(s, "stopped", {})
    /\ UNCHANGED pcb

\* hev_socks5_session_task_entry after the run: the session and its task end,
\* and its fields go back to what an object that does not exist has here.
SessionEnd(s) ==
    /\ DeleteSession(s)
    /\ spc' = [spc EXCEPT ![s] = "none"]
    /\ pcb' = [pcb EXCEPT ![s] = FALSE]
    /\ timeout' = [timeout EXCEPT ![s] = "unset"]
    /\ kind' = [kind EXCEPT ![s] = "tcp"]
    /\ YieldTo(s, "stopped", {})

\* hev_socks5_task_io_yielder with HEV_TASK_WAITIO: a timeout of zero ends
\* the session, any other starts a sleep.
WaitIo(s, at, to) ==
    /\ to # "zero"
    /\ spc' = [spc EXCEPT ![s] = at]
    /\ timeout' = [timeout EXCEPT ![s] = to]
    /\ YieldTo(s, "waiting", {})
    /\ UNCHANGED <<session_count, kind, pcb>>

\* hev_socks5_tunnel_update_session, after a yield in a splice loop.
UpdateSession(s) ==
    IF MaxSessionCount = 0 THEN session_set
    ELSE Append(Without(session_set, s), s)

\* hev_socks5_client_connect sets the timeout; hev_socks5_client_handshake
\* sets it again, whatever happened to it in between.
Connect(s) ==
    /\ Scheduled(s) /\ ~mutex
    /\ spc[s] \in {"new", "connect"}
    /\ LET to == IF spc[s] = "new" THEN "set" ELSE timeout[s]
       IN  \/ WaitIo(s, "connect", to) /\ UNCHANGED session_set
           \/ to = "zero" /\ SessionEnd(s)
           \/ WaitIo(s, "handshake", "set") /\ UNCHANGED session_set
           \/ SessionEnd(s)
    /\ UNCHANGED taskVars

\* One iteration of a splice loop that ends with HEV_TASK_YIELD.
SpliceProgress(s, to) ==
    /\ spc' = [spc EXCEPT ![s] = "splice"]
    /\ timeout' = [timeout EXCEPT ![s] = to]
    /\ YieldTo(s, "running", {})
    /\ UNCHANGED <<session_count, kind, pcb>>

\* The end of a splice: a tcp session waits for what is not acknowledged.
SpliceLeave(s) ==
    \/ SessionEnd(s)
    \/ /\ kind[s] = "tcp" /\ pcb[s]
       /\ WaitIo(s, "drain", timeout[s])
       /\ session_set' = UpdateSession(s)

\* hev_socks5_client_handshake goes on, fails, or succeeds; a udp session
\* then gets its own timeout, and the first round of the splice follows.
Handshake(s) ==
    /\ Scheduled(s) /\ ~mutex
    /\ spc[s] = "handshake"
    /\ LET to == IF kind[s] = "udp" THEN "set" ELSE timeout[s]
       IN  \/ WaitIo(s, "handshake", timeout[s]) /\ UNCHANGED session_set
           \/ pcb[s] /\ WaitIo(s, "splice", to) /\ UNCHANGED session_set
           \/ pcb[s] /\ SpliceProgress(s, to) /\ UNCHANGED session_set
           \/ SessionEnd(s)
    /\ UNCHANGED taskVars

\* hev_socks5_session_tcp_splice, hev_socks5_session_udp_splice: data moved.
Splice(s) ==
    /\ Scheduled(s) /\ ~mutex
    /\ spc[s] = "splice"
    /\ SpliceProgress(s, timeout[s])
    /\ session_set' = UpdateSession(s)
    /\ UNCHANGED taskVars

\* The same when nothing moved, or both directions are closed.
SpliceIdle(s) ==
    /\ Scheduled(s) /\ ~mutex
    /\ spc[s] = "splice"
    /\ \/ WaitIo(s, "splice", timeout[s]) /\ session_set' = UpdateSession(s)
       \/ SpliceLeave(s)
    /\ UNCHANGED taskVars

\* hev_socks5_session_tcp_splice, last loop.
Drain(s) ==
    /\ Scheduled(s) /\ ~mutex
    /\ spc[s] = "drain"
    /\ \/ pcb[s] /\ WaitIo(s, "drain", timeout[s])
          /\ session_set' = UpdateSession(s)
       \/ SessionEnd(s)
    /\ UNCHANGED taskVars

\* hev_task_sleep of a session's wait has slept it out.
TimesOut(s) ==
    /\ state[s] = "waiting"
    /\ ~cpu /\ ~mutex
    /\ IF spc[s] = "splice" THEN SpliceLeave(s) ELSE SessionEnd(s)
    /\ UNCHANGED taskVars

\* The reactor finds the session's socket ready.
SessionReadable(s) ==
    /\ state[s] = "waiting"
    /\ ~cpu
    /\ Wakeup({s})
    /\ UNCHANGED <<taskVars, sessionVars>>
-----------------------------------------------------------------------------
EventTask == EventWait \/ EventStop \/ EventJoin
IoTask == IoResume \/ IoEnd
TimerTask == TimerTick \/ TimerEnd
SessionTask(s) == Connect(s) \/ Handshake(s) \/ SpliceIdle(s) \/ Drain(s)

Ended == \A t \in Task : state[t] = "stopped"

\* hev_task_system_run has returned.
Returned == Ended /\ UNCHANGED vars

Next ==
    \/ RequestStop \/ EventReadable \/ EventTask
    \/ IoReadable \/ IoTask \/ IoIdle \/ IoSpin \/ TunBreaks
    \/ TimerTask \/ TimerExpires
    \/ AcceptFails
    \/ \E s \in Session :
          \/ \E k \in {"tcp", "udp"} : Accept(s, k)
          \/ Receive(s) \/ IoReset(s)
          \/ SessionTask(s) \/ Splice(s) \/ TimesOut(s) \/ SessionReadable(s)
    \/ Returned

(***************************************************************************)
(* The scheduler takes the ready task with the smallest key, and the key   *)
(* of a task grows with the time it has run: every ready task has its      *)
(* turn.  The queue of the tun device runs dry from time to time; a        *)
(* session has, from time to time, nothing to copy, and a silence of its   *)
(* peers lasts as long as the timeout.                                     *)
(***************************************************************************)
Spec ==
    /\ Init /\ [][Next]_vars
    /\ SF_vars(EventTask) /\ SF_vars(EventReadable)
    /\ SF_vars(IoTask) /\ WF_vars(IoIdle)
    /\ SF_vars(TimerTask)
    /\ \A s \in Session : SF_vars(SessionTask(s)) /\ SF_vars(TimesOut(s))
-----------------------------------------------------------------------------
ListAgrees ==
    /\ session_count = Len(session_set)
    /\ IsInjective(session_set)
    /\ Range(session_set) = {s \in Session : state[s] # "stopped"}

\* The list, its count and the tasks agree: a session is in the list once,
\* exactly while it has a task, so that hev_socks5_session_terminate never
\* meets a session whose task is gone.  (Unless a failed hev_task_new has
\* locked the worker up; see AcceptFails.)
ListMatchesTasks == ~mutex => ListAgrees

\* hev_task_wakeup is never given a task that is not in the scheduler, on
\* which it calls abort().
WakesLiveTasks == ~aborted

\* The TCP timers run while there is a session: the timer task is parked
\* only with an empty list.
TimerAttentive ==
    (parked /\ state["timer"] = "waiting" /\ run) => session_set = <<>>

\* A session that is copying data when the stop comes does not sleep again:
\* it ends at its first idle moment, not after its timeout of minutes.  (One
\* that is still connecting has its timeout set anew, and may; so may all
\* where a failed hev_task_new has locked the worker up.)
PromptStop == ~mutex => \A s \in copying : state[s] # "waiting"

Phase == INSTANCE RunPhase WITH asked <- request, ended <- Ended

\* The tasks implement RunPhase: they all end, and only after a request.
ImplementsRunPhase == Phase!Spec
=============================================================================
