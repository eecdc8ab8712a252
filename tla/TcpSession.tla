----------------------------- MODULE TcpSession -----------------------------
(***************************************************************************)
(* The data path of a TCP session, src/hev-socks5-session-tcp.c: what the  *)
(* app sends (through lwIP) goes to the SOCKS server, what the server      *)
(* sends goes through a ring buffer to lwIP and so to the app.             *)
(*                                                                         *)
(* lwIP does not copy: it sends, and sends again, from the ring buffer's   *)
(* memory until the app has acknowledged.  The session's task runs from    *)
(* one yield to the next undisturbed (places "f" to "y"); in between, the  *)
(* callbacks of lwIP, the reactor and other tasks have their turn.         *)
(*                                                                         *)
(* Bytes are numbered in the order in which the server sends them.         *)
(***************************************************************************)
EXTENDS HevRingBuffer, Integers, FiniteSets

CONSTANTS
    Down,            \* bytes the server may send
    Up,              \* bytes the app may send
    Wnd,             \* TCP_WND, lwIP's receive window
    SockBuf,         \* send buffer of the socket to the server
    Faults,          \* of "timeout", "terminate", "reset" (by the app),
                     \* "socket" (an error) and "mem" (tcp_write fails)
    MaxFaults        \* bound: kinds of fault, but timeouts, in one behaviour

ASSUME AmountAssumption ==
    /\ Down \in Nat /\ Up \in Nat /\ MaxFaults \in Nat
    /\ Wnd \in Nat \ {0} /\ SockBuf \in Nat \ {0}

VARIABLES
    at,              \* where the session's task is
    res_f, res_b,    \* of the last round: 1 moved, 0 idle, -1 over
    pcb,             \* the session has its lwIP pcb
    pcb_eof,         \* the app has closed its side
    queue,           \* bytes of the app that wait in self->queue
    out,             \* bytes of the app written to the socket
    shutWr,          \* the socket was shut down for writing
    ring,            \* the counters of self->buffer
    data,            \* its cells: the number of the byte in each
    got,             \* bytes of the server read from the socket
    mem,             \* lwIP: the cell of each byte of its send queue
    byte,            \* ghost: the number of that byte when it was queued
    written, acked,  \* lwIP: bytes queued so far, bytes acknowledged so far
    finSent,         \* lwIP: the sending side was shut down
    lastAck,         \* lwIP: it was the second of the two sides
    avail,           \* the socket: bytes that wait to be read
    srvEnd,          \* the socket: the server has closed its side
    unread,          \* the socket: bytes in its send buffer
    sockErr,         \* the socket is broken
    edge,            \* the reactor has an event for the socket
    expired,         \* timeout is 0 (hev_socks5_session_terminate)
    cut              \* ghost: what has gone wrong

upVars == <<pcb_eof, queue, out, shutWr>>
ringVars == <<ring, data, got>>
lwipVars == <<mem, byte, written, acked, finSent, lastAck>>
sockVars == <<avail, srvEnd, unread, sockErr, edge>>
vars == <<at, res_f, res_b, pcb, upVars, ringVars, lwipVars, sockVars,
          expired, cut>>

Place == {"connect", "f", "b", "w", "y", "ready", "wait", "drain",
          "drainwait", "done"}

Fault == {"timeout", "terminate", "reset", "socket", "mem", "closed"}

TypeOK ==
    /\ at \in Place
    /\ res_f \in -1 .. 1 /\ res_b \in -1 .. 1
    /\ pcb \in BOOLEAN /\ pcb_eof \in BOOLEAN
    /\ queue \in 0 .. Wnd /\ out \in 0 .. Up /\ queue + out <= Up
    /\ ring \in RingBuffer
    /\ data \in [Cell -> 0 .. Down]
    /\ got \in 0 .. Down
    /\ mem \in [1 .. Down -> Cell] /\ byte \in [1 .. Down -> 0 .. Down]
    /\ written \in 0 .. got /\ acked \in 0 .. written
    /\ avail \in 0 .. Down /\ got + avail <= Down
    /\ unread \in 0 .. SockBuf
    /\ shutWr \in BOOLEAN /\ finSent \in BOOLEAN /\ lastAck \in BOOLEAN
    /\ srvEnd \in BOOLEAN /\ sockErr \in BOOLEAN
    /\ edge \in BOOLEAN /\ expired \in BOOLEAN
    /\ cut \subseteq Fault

Init ==
    /\ at = "connect"
    /\ res_f = 1 /\ res_b = 1
    /\ pcb = TRUE /\ pcb_eof = FALSE
    /\ queue = 0 /\ out = 0 /\ shutWr = FALSE
    /\ ring = EmptyRing
    /\ data = [i \in Cell |-> 0]
    /\ got = 0
    /\ mem = [k \in 1 .. Down |-> 0] /\ byte = [k \in 1 .. Down |-> 0]
    /\ written = 0 /\ acked = 0 /\ finSent = FALSE /\ lastAck = FALSE
    /\ avail = 0 /\ srvEnd = FALSE /\ unread = 0
    /\ sockErr = FALSE /\ edge = FALSE
    /\ expired = FALSE
    /\ cut = {}

\* The fault f may still happen.  (A timeout, which is how a session that
\* waits for nothing gets on, may happen in any case.)
May(f) ==
    f \in Faults /\ Cardinality((cut \ {"closed", "timeout"}) \cup {f}) <= MaxFaults

\* Another task has the thread.
Yielded == at \in {"connect", "ready", "wait", "drain", "drainwait"}

\* Mutant: a task that waits in the main loop is not woken.
WokenIfDraining == IF at = "drainwait" THEN "drain" ELSE at

\* hev_task_wakeup of the session's task.
Woken ==
    IF at = "wait" THEN "ready" ELSE IF at = "drainwait" THEN "drain" ELSE at

\* The task goes on to a place; at its end the destructor aborts the pcb.
Go(place) == at' = place /\ pcb' = (pcb /\ place # "done")

\* Mutant: it waits only for the bytes that are not handed on.
DrainPlaceEarly ==
    IF ~pcb \/ ring.rda_size = 0 \/ expired THEN "done" ELSE "drainwait"

\* The last loop of hev_socks5_session_tcp_splice, with the yielder's test.
DrainPlace ==
    IF ~pcb \/ ring.use_size = 0 \/ expired THEN "done" ELSE "drainwait"
-----------------------------------------------------------------------------
(***************************************************************************)
(* The session's task.                                                     *)
(***************************************************************************)

\* Connect and handshake are over: hev_socks5_session_tcp_splice begins, if
\* they succeeded and the app has not given up meanwhile.  The handshake sets
\* the timeout again, so that an earlier terminate may be forgotten.
Begin ==
    /\ at = "connect"
    /\ Go(IF pcb /\ ~sockErr THEN "f" ELSE "done")
    /\ expired' \in {expired, FALSE}
    /\ UNCHANGED <<res_f, res_b, upVars, ringVars, lwipVars, sockVars, cut>>

\* Mutant: the queue is forgotten.
UpEndEarly == pcb_eof

\* There is and will be nothing to send to the server.
UpEnd == queue = 0 /\ pcb_eof

\* tcp_splice_f: from the queue to the socket; tcp_recved opens the window.
SpliceF ==
    /\ at = "f"
    /\ at' = "b"
    /\ \/ /\ res_f >= 0 /\ queue > 0 /\ ~sockErr
          /\ \E s \in 1 .. queue :
                /\ s <= SockBuf - unread
                /\ queue' = queue - s /\ out' = out + s
                /\ unread' = unread + s
          /\ res_f' = 1
          /\ UNCHANGED shutWr
       \/ /\ res_f >= 0 /\ queue > 0 /\ (sockErr \/ unread = SockBuf)
          /\ res_f' = IF sockErr THEN -1 ELSE 0
          /\ UNCHANGED <<queue, out, unread, shutWr>>
       \/ /\ res_f >= 0 /\ UpEnd
          /\ res_f' = -1
          /\ shutWr' = TRUE
          /\ UNCHANGED <<queue, out, unread>>
       \/ /\ res_f >= 0 /\ queue = 0 /\ ~pcb_eof
          /\ res_f' = 0
          /\ UNCHANGED <<queue, out, unread, shutWr>>
       \/ /\ res_f < 0
          /\ UNCHANGED <<res_f, queue, out, unread, shutWr>>
    /\ UNCHANGED <<res_b, pcb, pcb_eof, ringVars, lwipVars, avail, srvEnd,
                   sockErr, edge, expired, cut>>

\* readv has filled the next s bytes of the ring's free cells.
Filled(s) ==
    [i \in Cell |->
        LET j == (i + MaxSize - ring.wp) % MaxSize
        IN  IF j < s THEN got + j + 1 ELSE data[i]]

\* The result when no byte was read: no room, EAGAIN, or the end.
NothingRead(room) ==
    IF room = 0 \/ (~sockErr /\ ~srvEnd) THEN 0 ELSE -1

\* tcp_splice_b, first half: from the socket to the ring.
ReadBack ==
    /\ at = "b"
    /\ LET room == Bytes(Writing(ring))
       IN  \/ /\ res_b < 0
              /\ at' = "y"
              /\ UNCHANGED <<res_b, ringVars, avail>>
           \/ /\ res_b >= 0 /\ room > 0 /\ ~sockErr
              /\ at' = "w"
              /\ res_b' = 1
              /\ \E s \in 1 .. avail :
                    /\ s <= room
                    /\ ring' = WriteFinish(ring, s)
                    /\ data' = Filled(s)
                    /\ got' = got + s
                    /\ avail' = avail - s
           \/ /\ res_b >= 0 /\ (room = 0 \/ sockErr \/ avail = 0)
              /\ at' = "w"
              /\ res_b' = NothingRead(room)
              /\ UNCHANGED <<ringVars, avail>>
    /\ UNCHANGED <<res_f, pcb, upVars, lwipVars, srvEnd, unread, sockErr,
                   edge, expired, cut>>

\* The iovecs tcp_write accepts of iov: each may fail by itself.
Accepted(iov) ==
    IF May("mem")
    THEN {iov, << >>} \cup {<<iov[i]>> : i \in 1 .. Len(iov)}
    ELSE {iov}

\* lwIP queues the bytes of iov.
TcpWrite(iov) ==
    LET new(k) == k > written /\ k <= written + Bytes(iov)
        cell(k) == Position(iov, k - written - 1)
    IN  /\ written' = written + Bytes(iov)
        /\ mem' = [k \in 1 .. Down |-> IF new(k) THEN cell(k) ELSE mem[k]]
        /\ byte' = [k \in 1 .. Down |->
                       IF new(k) THEN data[cell(k)] ELSE byte[k]]

\* tcp_splice_b, second half: from the ring to lwIP.  The end of the stream
\* is passed on when there is nothing left to write.
WriteBack ==
    /\ at = "w"
    /\ at' = "y"
    /\ \/ /\ ~pcb
          /\ res_b' = -1
          /\ UNCHANGED <<ring, mem, byte, written, finSent, lastAck, cut>>
       \/ /\ pcb /\ ring.rda_size = 0
          /\ finSent' = (res_b < 0) /\ lastAck' = (res_b < 0 /\ pcb_eof)
          /\ UNCHANGED <<res_b, ring, mem, byte, written, cut>>
       \/ /\ pcb /\ ring.rda_size > 0
          /\ \E iov \in Accepted(Reading(ring)) :
                /\ TcpWrite(iov)
                /\ \/ iov = Reading(ring) /\ res_b' = 1 /\ UNCHANGED cut
                   \/ /\ May("mem")
                      /\ res_b' = -1 /\ cut' = cut \cup {"mem"}
          /\ ring' = ReadFinish(ring, ring.rda_size)
          /\ UNCHANGED <<finSent, lastAck>>
    /\ UNCHANGED <<res_f, pcb, upVars, data, got, acked, sockVars, expired>>

\* The end of a round: go on, wait, or leave the loop.  With a timeout of 0
\* the yielder fails at once.
Yield ==
    /\ at = "y"
    /\ Go(IF res_f > 0 \/ res_b > 0 THEN "ready"
          ELSE IF (res_f = 0 \/ res_b = 0) /\ ~expired THEN "wait"
          ELSE DrainPlace)
    /\ UNCHANGED <<res_f, res_b, upVars, ringVars, lwipVars, sockVars,
                   expired, cut>>

\* The scheduler's turn comes round.
Resume ==
    /\ at \in {"ready", "drain"}
    /\ Go(IF at = "ready" THEN "f" ELSE DrainPlace)
    /\ UNCHANGED <<res_f, res_b, upVars, ringVars, lwipVars, sockVars,
                   expired, cut>>

\* The wait has lasted as long as the timeout.
TimesOut ==
    /\ "timeout" \in Faults
    /\ \/ at \in {"connect", "drainwait"} /\ Go("done")
       \/ at = "wait" /\ Go(DrainPlace)
    /\ cut' = cut \cup {"timeout"}
    /\ UNCHANGED <<res_f, res_b, upVars, ringVars, lwipVars, sockVars,
                   expired>>
-----------------------------------------------------------------------------
(***************************************************************************)
(* lwIP's callbacks, in the io and the timer task.                         *)
(***************************************************************************)

\* tcp_recv_handler: n bytes of the app, no more than the window.
Receive(n) ==
    /\ Yielded /\ pcb /\ ~pcb_eof
    /\ n <= Wnd - queue
    /\ out + queue + n <= Up
    /\ queue' = queue + n
    /\ at' = Woken
    /\ UNCHANGED <<res_f, res_b, pcb, pcb_eof, out, shutWr, ringVars,
                   lwipVars, sockVars, expired, cut>>

\* tcp_recv_handler without a packet: the app has closed its side.
ReceiveFin ==
    /\ Yielded /\ pcb /\ ~pcb_eof
    /\ pcb_eof' = TRUE
    /\ at' = Woken
    /\ UNCHANGED <<res_f, res_b, pcb, queue, out, shutWr, ringVars, lwipVars,
                   sockVars, expired, cut>>

\* tcp_sent_handler: the app has acknowledged n bytes.
Sent(n) ==
    /\ Yielded /\ pcb
    /\ acked + n <= written
    /\ acked' = acked + n
    /\ mem' = [k \in 1 .. Down |-> IF k <= acked' THEN 0 ELSE mem[k]]
    /\ byte' = [k \in 1 .. Down |-> IF k <= acked' THEN 0 ELSE byte[k]]
    /\ ring' = ReadRelease(ring, n)
    /\ at' = Woken
    /\ UNCHANGED <<res_f, res_b, pcb, upVars, data, got, written, finSent,
                   lastAck, sockVars, expired, cut>>

\* tcp_err_handler, when all is closed and acknowledged: lwIP frees the pcb of
\* the side that closed last.  This ends the session even if bytes of the app
\* still wait for the socket.
PcbClosed ==
    /\ Yielded /\ pcb
    /\ lastAck /\ acked = written
    /\ pcb' = FALSE
    /\ expired' = TRUE
    /\ cut' = cut \cup (IF queue > 0 THEN {"closed"} ELSE {})
    /\ at' = Woken
    /\ UNCHANGED <<res_f, res_b, upVars, ringVars, lwipVars, sockVars>>

\* tcp_err_handler: the app resets the connection, or lwIP gives it up.
PcbError ==
    /\ May("reset")
    /\ Yielded /\ pcb
    /\ pcb' = FALSE
    /\ expired' = TRUE
    /\ cut' = cut \cup {"reset"}
    /\ at' = Woken
    /\ UNCHANGED <<res_f, res_b, upVars, ringVars, lwipVars, sockVars>>

\* hev_socks5_session_terminate, by the event task or an eviction.
Terminate ==
    /\ May("terminate")
    /\ Yielded
    /\ expired' = TRUE
    /\ cut' = cut \cup {"terminate"}
    /\ at' = Woken
    /\ UNCHANGED <<res_f, res_b, pcb, upVars, ringVars, lwipVars, sockVars>>
-----------------------------------------------------------------------------
(***************************************************************************)
(* The socket to the server, and the reactor, which is edge-triggered: an  *)
(* event is reported once, and is of no use to a task that does not wait.  *)
(***************************************************************************)
ServerSend(n) ==
    /\ ~srvEnd /\ ~sockErr
    /\ got + avail + n <= Down
    /\ avail' = avail + n
    /\ edge' = TRUE
    /\ UNCHANGED <<at, res_f, res_b, pcb, upVars, ringVars, lwipVars, srvEnd,
                   unread, sockErr, expired, cut>>

ServerEnd ==
    /\ ~srvEnd /\ ~sockErr
    /\ srvEnd' = TRUE
    /\ edge' = TRUE
    /\ UNCHANGED <<at, res_f, res_b, pcb, upVars, ringVars, lwipVars, avail,
                   unread, sockErr, expired, cut>>

\* The server reads: a full send buffer has room again.
ServerRead ==
    /\ unread > 0
    /\ unread' = 0
    /\ edge' = (edge \/ unread = SockBuf)
    /\ UNCHANGED <<at, res_f, res_b, pcb, upVars, ringVars, lwipVars, avail,
                   srvEnd, sockErr, expired, cut>>

SocketError ==
    /\ May("socket")
    /\ ~sockErr
    /\ sockErr' = TRUE
    /\ edge' = TRUE
    /\ cut' = cut \cup {"socket"}
    /\ UNCHANGED <<at, res_f, res_b, pcb, upVars, ringVars, lwipVars, avail,
                   srvEnd, unread, expired>>

Reactor ==
    /\ edge
    /\ Yielded
    /\ edge' = FALSE
    /\ at' = Woken
    /\ UNCHANGED <<res_f, res_b, pcb, upVars, ringVars, lwipVars, avail,
                   srvEnd, unread, sockErr, expired, cut>>
-----------------------------------------------------------------------------
Task == Begin \/ SpliceF \/ ReadBack \/ WriteBack \/ Yield \/ Resume

Done == at = "done" /\ UNCHANGED vars

Next ==
    \/ Task \/ TimesOut
    \/ \E n \in 1 .. Up : Receive(n)
    \/ ReceiveFin
    \/ \E n \in 1 .. Down : Sent(n)
    \/ PcbClosed \/ PcbError \/ Terminate
    \/ \E n \in 1 .. Down : ServerSend(n)
    \/ ServerEnd \/ ServerRead \/ SocketError
    \/ Reactor
    \/ Done

\* The scheduler runs every ready task, the reactor reports its events, the
\* app acknowledges what it is sent and the server reads what it is sent.
Spec ==
    /\ Init /\ [][Next]_vars
    /\ WF_vars(Task) /\ WF_vars(Reactor) /\ WF_vars(ServerRead)
    /\ WF_vars(\E n \in 1 .. Down : Sent(n))
-----------------------------------------------------------------------------
\* As long as lwIP may send a byte (again), the ring's cell that it points to
\* still holds that byte: hev_ring_buffer_writing offers no cell that was
\* handed to tcp_write and is not acknowledged, not even after the positions
\* went back to 0.
LentIntact ==
    pcb => \A k \in acked + 1 .. written : data[mem[k]] = byte[k]

\* What the app receives is what the server sent, in the same order, unless
\* tcp_write failed.
StreamIntact ==
    "mem" \notin cut => \A k \in acked + 1 .. written : byte[k] = k

\* A session that ends without a fault, and without PcbClosed while bytes of
\* the app were waiting, has delivered everything: each side's bytes and each
\* side's end.
GracefulEnd ==
    at = "done" /\ cut = {} =>
        /\ srvEnd /\ avail = 0 /\ acked = got /\ finSent
        /\ pcb_eof /\ queue = 0 /\ shutWr

\* Once both sides have closed, the session ends: no wake-up is lost between
\* the edge-triggered reactor, the callbacks of lwIP and the waiting task,
\* whatever else fails.  (Only a tcp_write that failed can keep the last loop
\* of hev_socks5_session_tcp_splice waiting until its timeout.)
Ends == srvEnd /\ pcb_eof ~> at = "done" \/ "mem" \in cut

Downstream == INSTANCE Relay WITH taken <- got, given <- written,
    inEnd <- (srvEnd /\ avail = 0) \/ sockErr, outEnd <- finSent
Upstream == INSTANCE Relay WITH taken <- out + queue, given <- out,
    inEnd <- pcb_eof, outEnd <- shutWr

\* Both directions are faithful relays (module Relay), whatever fails.
Relays == Downstream!Spec /\ Upstream!Spec
=============================================================================
