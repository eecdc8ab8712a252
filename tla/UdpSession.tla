----------------------------- MODULE UdpSession -----------------------------
(***************************************************************************)
(* One UDP session of the worker, hev-socks5-session-udp.c over            *)
(* hev-socks5-udp.c, from its creation to its destructor: datagrams of the *)
(* app wait in the frame list from the moment lwIP delivers them, while    *)
(* the session's task connects, shakes hands (Socks5Client) and then moves *)
(* them in batches to a UDP socket, and the server's back to the app.      *)
(*                                                                         *)
(* Tasks share one thread: lwIP's callback comes only while the session's  *)
(* task has yielded.  Nothing yields inside lwIP, so its mutex is free     *)
(* whenever the task asks for it, and is left out; so is the mode          *)
(* UDP_IN_TCP, which the app's configuration (udp: 'udp') does not use.    *)
(***************************************************************************)
EXTENDS Socks5Client, Integers

CONSTANTS
    PoolSize,       \* UDP_POOL_SIZE
    Num,            \* udp-copy-buffer-nums: datagrams moved at a time
    SockBuf,        \* room of the socket's send buffer
    Up, Down,       \* datagrams the app and the server send (bounds)
    Faults          \* of "socket", "tun", "mem", "terminate"

ASSUME PoolAssumption == {PoolSize, Num, SockBuf} \subseteq Nat \ {0}

VARIABLES
    at,             \* where the task is
    awake,          \* the task is in the scheduler's tree
    edge,           \* the reactor has an event to report
    timeout,        \* "set" or "zero"
    frame_list, frames,     \* the list, and the count the code keeps of it
    batch, sent,    \* how many datagrams a call is to send and has sent
    res_f, res_b,   \* results of the two directions
    out, in,        \* the socket's buffers
    got, back,      \* what the server and the app have received
    app, srv,       \* datagrams the app and the server have sent
    accepted        \* the app's datagrams that entered the list (a ghost)

upVars == <<frame_list, frames, batch, sent, res_f, out, got, app, accepted>>
downVars == <<res_b, in, back, srv>>
vars == <<clientVars, at, awake, edge, timeout, upVars, downVars>>

Init ==
    /\ ClientInit
    /\ at = "connect" /\ awake = TRUE /\ edge = FALSE /\ timeout = "set"
    /\ frame_list = << >> /\ frames = 0 /\ batch = 0 /\ sent = 0 /\ res_f = 1
    /\ out = << >> /\ got = << >> /\ app = 0 /\ accepted = << >>
    /\ res_b = 1 /\ in = << >> /\ back = << >> /\ srv = 0

Smaller(a, b) == IF a < b THEN a ELSE b
Prefix(s, n) == SubSeq(s, 1, n)
Rest(s, n) == SubSeq(s, n + 1, Len(s))

\* Places where the task has given up the thread.
Yielded == at \in {"connect", "connecting", "handshake", "sending", "ready", "wait"}

-----------------------------------------------------------------------------
(* Connection and handshake.  Both set the timeout anew, also one that     *)
(* hev_socks5_session_terminate has set to zero.                           *)
-----------------------------------------------------------------------------
Connect ==
    /\ at = "connect"
    /\ at' = "connecting" /\ timeout' = "set" /\ fds' = {"tcp"}
    /\ UNCHANGED <<opt, todo, toServer, toClient, server, closed, awake, edge,
                   upVars, downVars>>

Connected ==
    /\ at = "connecting"
    /\ at' = "handshake" /\ timeout' = "set" /\ todo' = Script
    /\ UNCHANGED <<opt, toServer, toClient, server, closed, fds, awake, edge,
                   upVars, downVars>>

\* The descriptor of a connection that fails is closed on the spot.
ConnectFails ==
    /\ at \in {"connect", "connecting"}
    /\ at' = "leave" /\ fds' = {}
    /\ UNCHANGED <<opt, todo, toServer, toClient, server, closed, awake, edge,
                   timeout, upVars, downVars>>

HandshakeStep ==
    /\ at = "handshake"
    /\ Write \/ Read
    /\ at' = IF todo' = << >> THEN "forward" ELSE at
    /\ timeout' = IF todo' = << >> THEN "set" ELSE timeout
    /\ UNCHANGED <<awake, edge, upVars, downVars>>

HandshakeFails ==
    /\ at = "handshake"
    /\ Refused \/ Broken \/ (Waits /\ timeout = "zero")
    /\ at' = "leave" /\ timeout' = "set"
    /\ UNCHANGED <<clientVars, awake, edge, upVars, downVars>>

-----------------------------------------------------------------------------
(* The loop of hev_socks5_session_udp_splice.                              *)
-----------------------------------------------------------------------------
\* The beginning of hev_socks5_session_udp_fwd_f.
Forward ==
    /\ at = "forward"
    /\ IF res_f >= 0 /\ frames > 0
       THEN at' = "send" /\ batch' = Smaller(frames, Num) /\ UNCHANGED res_f
       ELSE /\ at' = "backward" /\ UNCHANGED batch
            /\ res_f' = IF res_f >= 0 THEN 0 ELSE res_f
    /\ UNCHANGED <<clientVars, awake, edge, timeout, frame_list, frames, sent,
                   out, got, app, accepted, downVars>>

\* sendmmsg of what is left of the batch takes as much as there is room for.
Send ==
    /\ at = "send" /\ sent < batch /\ Len(out) < SockBuf
    /\ sent' = sent + Smaller(batch - sent, SockBuf - Len(out))
    /\ out' = out \o SubSeq(frame_list, sent + 1, sent')
    /\ UNCHANGED <<clientVars, at, awake, edge, timeout, frame_list, frames,
                   batch, res_f, got, app, accepted, downVars>>

\* task_io_yielder: the control connection is looked at before every wait.
WaitToSend ==
    /\ at = "send" /\ sent < batch /\ Len(out) = SockBuf
    /\ ~HungUp /\ timeout # "zero"
    /\ at' = "sending" /\ awake' = FALSE
    /\ UNCHANGED <<clientVars, edge, timeout, upVars, downVars>>

\* A mutant: the frames of the whole batch are freed.
TakenOff(n) == batch

\* The frames that are freed: as many as were sent.
Sent(n) == n

\* What was sent leaves the list; nothing sent is an error, and the direction
\* is not tried again.
FreeSent ==
    /\ frame_list' = Rest(frame_list, Sent(sent))
    /\ frames' = frames - Sent(sent)
    /\ res_f' = IF sent > 0 THEN 1 ELSE -1
    /\ sent' = 0 /\ batch' = 0
    /\ at' = "backward"
    /\ UNCHANGED <<clientVars, edge, out, got, app, accepted, downVars>>

\* The call ends: the batch is sent, the yielder refuses to wait, or the
\* socket fails.
SendEnds ==
    /\ at = "send"
    /\ \/ sent = batch
       \/ Len(out) = SockBuf /\ (HungUp \/ timeout = "zero")
       \/ "socket" \in Faults
    /\ timeout' = IF sent < batch /\ HungUp THEN "zero" ELSE timeout
    /\ FreeSent
    /\ UNCHANGED awake

SendTimesOut ==
    /\ at = "sending"
    /\ awake' = TRUE
    /\ FreeSent
    /\ UNCHANGED timeout

\* hev_socks5_session_udp_fwd_b: a datagram the app cannot be given, because
\* the tun device is full, ends the direction, with the others of the batch.
Backward ==
    /\ at = "backward"
    /\ IF res_b < 0 THEN UNCHANGED <<res_b, in, back>>
       ELSE \/ in = << >> /\ res_b' = 0 /\ UNCHANGED <<in, back>>
            \/ "socket" \in Faults /\ res_b' = -1 /\ UNCHANGED <<in, back>>
            \/ LET n == Smaller(Len(in), Num) IN
               /\ n > 0
               /\ \E k \in IF "tun" \in Faults THEN 0..n ELSE {n} :
                    /\ back' = back \o Prefix(in, k)
                    /\ res_b' = IF k = n THEN 1 ELSE -1
               /\ in' = Rest(in, n)
    /\ at' = "choose"
    /\ UNCHANGED <<clientVars, awake, edge, timeout, upVars, srv>>

Progress == res_f > 0 \/ res_b > 0
Idle == ~Progress /\ (res_f = 0 \/ res_b = 0)

\* A mutant: the control connection is not looked at.
NeverHungUp == FALSE

\* What the recv of task_io_yielder sees.
ControlGone == HungUp

\* The type of the yield, and what task_io_yielder makes of it: a round with
\* progress yields without a look at the timeout.
Choose ==
    /\ at = "choose"
    /\ LET stays == ~ControlGone /\ (Progress \/ (Idle /\ timeout # "zero")) IN
       /\ at' = IF ~stays THEN "leave" ELSE IF Progress THEN "ready" ELSE "wait"
       /\ awake' = (stays => Progress)
       /\ timeout' = IF (Progress \/ Idle) /\ ControlGone THEN "zero" ELSE timeout
    /\ UNCHANGED <<clientVars, edge, upVars, downVars>>

Resume ==
    /\ awake /\ at \in {"ready", "wait", "sending"}
    /\ at' = IF at = "sending" THEN "send" ELSE "forward"
    /\ UNCHANGED <<clientVars, awake, edge, timeout, upVars, downVars>>

\* The session has been silent for its timeout.  A datagram that arrives at
\* that moment does not help: the time left is what counts.
TimesOut ==
    /\ at = "wait" \/ (at = "handshake" /\ Waits)
    /\ at' = "leave" /\ awake' = TRUE
    /\ UNCHANGED <<clientVars, edge, timeout, upVars, downVars>>

\* The end of hev_socks5_session_task_entry, and the destructors.
Leave ==
    /\ at = "leave"
    /\ at' = "done" /\ awake' = FALSE
    /\ frame_list' = << >> /\ fds' = {}
    /\ UNCHANGED <<opt, todo, toServer, toClient, server, closed, edge, timeout,
                   frames, batch, sent, res_f, out, got, app, accepted, downVars>>

-----------------------------------------------------------------------------
(* lwIP, the worker's other tasks, the scheduler, and the outside.         *)
-----------------------------------------------------------------------------
\* A mutant: nobody is woken.
WakeNone == UNCHANGED awake

\* hev_task_wakeup of the session's task.
WakeTask == awake' = TRUE

\* udp_recv_handler: a full pool, or no memory, drops the datagram.
Receive ==
    /\ Yielded /\ app < Up
    /\ app' = app + 1
    /\ \/ /\ frames > PoolSize \/ "mem" \in Faults
          /\ UNCHANGED <<frame_list, frames, accepted, awake>>
       \/ /\ frames <= PoolSize
          /\ frame_list' = Append(frame_list, app')
          /\ frames' = frames + 1
          /\ accepted' = Append(accepted, app')
          /\ WakeTask
    /\ UNCHANGED <<clientVars, at, edge, timeout, batch, sent, res_f, out, got,
                   downVars>>

\* By the event task, by a newer session, or because lwIP drops the pcb.
Terminate ==
    /\ "terminate" \in Faults /\ Yielded
    /\ timeout' = "zero" /\ awake' = TRUE
    /\ UNCHANGED <<clientVars, at, edge, upVars, downVars>>

\* The kernel sends a datagram: there is room again.
Transmit ==
    /\ out # << >>
    /\ got' = Append(got, Head(out)) /\ out' = Tail(out)
    /\ edge' = TRUE
    /\ UNCHANGED <<clientVars, at, awake, timeout, frame_list, frames, batch,
                   sent, res_f, app, accepted, downVars>>

ServerSends ==
    /\ "udp" \in fds /\ srv < Down
    /\ srv' = srv + 1 /\ in' = Append(in, srv')
    /\ edge' = TRUE
    /\ UNCHANGED <<clientVars, at, awake, timeout, upVars, res_b, back>>

ServerAnswers ==
    /\ "tcp" \in fds
    /\ Serve
    /\ UNCHANGED <<at, awake, edge, timeout, upVars, downVars>>

ServerHangsUp ==
    /\ "tcp" \in fds
    /\ HangUp
    /\ edge' = TRUE
    /\ UNCHANGED <<at, awake, timeout, upVars, downVars>>

\* hev_task_system_io_poll, edge-triggered: an event is reported once.
Reactor ==
    /\ edge /\ Yielded
    /\ edge' = FALSE /\ awake' = TRUE
    /\ UNCHANGED <<clientVars, at, timeout, upVars, downVars>>

Done == at = "done" /\ UNCHANGED vars

Task ==
    \/ Connect \/ Connected \/ HandshakeStep \/ HandshakeFails \/ Forward
    \/ Send \/ WaitToSend \/ SendEnds \/ Backward \/ Choose \/ Resume \/ Leave

Next ==
    \/ Task \/ ConnectFails \/ SendTimesOut \/ TimesOut
    \/ Receive \/ Terminate \/ Transmit \/ ServerSends \/ ServerAnswers
    \/ ServerHangsUp \/ Reactor \/ Done

\* The task is scheduled, the reactor reports, the kernel sends; nobody has to
\* send, answer or wait until a timeout.
Spec == Init /\ [][Next]_vars /\ WF_vars(Task) /\ WF_vars(Reactor) /\ WF_vars(Transmit)

-----------------------------------------------------------------------------
\* No datagram is sent twice, lost from the list, or overtaken, whatever part
\* of a batch the socket takes, and the count, which bounds the list, is right
\* (hev_socks5_session_udp_fwd_f, udp_recv_handler).  In the other direction
\* nothing is missing before the first failure, after which nothing comes.
InOrder ==
    /\ at # "done" =>
        /\ frames = Len(frame_list) /\ frames <= PoolSize + 1
        /\ accepted = got \o out \o Rest(frame_list, sent)
    /\ back = [i \in 1..Len(back) |-> i]
    /\ res_b >= 0 => back \o in = [i \in 1..srv |-> i]

\* The task does not sleep over a datagram it could move, or over the end of
\* the control connection: somebody has woken it or the reactor is about to
\* (hev_socks5_session_udp_splice, udp_recv_handler).
Attentive ==
    ~awake =>
        /\ at = "wait" =>
            /\ res_f = 0 => frames = 0
            /\ (res_b = 0 /\ in # << >>) \/ closed => edge
        /\ at = "sending" => (Len(out) < SockBuf \/ closed => edge)

\* Datagrams flow only over an association the server granted, and when they
\* do, both sides have read everything the handshake wrote: with credentials
\* sent ahead or not, asked for or not (hev_socks5_client_handshake).
InStep ==
    "udp" \in fds => server = "granted" /\ toServer = << >> /\ toClient = << >>

\* When the server closes the control connection the session ends, without
\* its timeout being needed, wherever its task is (task_io_yielder).
HangUpEnds == closed ~> at = "done"
=============================================================================
