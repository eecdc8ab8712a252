-------------------------- MODULE TcpSessionProofs --------------------------
(***************************************************************************)
(* A TCP session for every size of the ring buffer, of the windows and of  *)
(* the streams: what lwIP points to stays what it was, the app gets the    *)
(* server's bytes in order, a session that ends without a fault has passed *)
(* everything on, and both directions are relays.                          *)
(***************************************************************************)
EXTENDS TcpSession, TLAPS

\* The position x, or where it is after the end; the e-th cell (from 0) before
\* position pos.
Wrap(x) == IF x < MaxSize THEN x ELSE x - MaxSize
Before(pos, e) == IF pos - 1 - e >= 0 THEN pos - 1 - e ELSE pos - 1 - e + MaxSize

\* The cells before wp hold the bytes that are not acknowledged, the latest
\* one first; those lwIP has are where it thinks they are.
Intact ==
    "mem" \notin cut =>
        /\ ring.rda_size = got - written /\ ring.use_size = got - acked
        /\ ring.wp = Wrap(ring.rp + ring.rda_size)
        /\ \A k \in acked + 1 .. got : data[Before(ring.wp, got - k)] = k
        /\ \A k \in acked + 1 .. written :
              mem[k] = Before(ring.wp, got - k) /\ byte[k] = k

\* After a tcp_write that failed the direction is over: the ring holds more
\* than lwIP will ever release, and is not used again.
Broken ==
    "mem" \in cut =>
        /\ res_b = -1 /\ at # "w"
        /\ ring.rda_size = 0 /\ written - acked <= ring.use_size

\* LentIntact, whether the pcb is still there or not.
Lent == \A k \in acked + 1 .. written : data[mem[k]] = byte[k]

InEnd == (srvEnd /\ avail = 0) \/ sockErr

\* What is known once one of the ends was seen or passed on.
Closing ==
    /\ at = "connect" => res_f = 1 /\ res_b = 1
    /\ finSent => res_b = -1 /\ at # "w" /\ written = got /\ InEnd
    /\ lastAck => finSent /\ pcb_eof
    /\ shutWr => res_f = -1 /\ UpEnd
    /\ at = "w" /\ res_b = -1 => InEnd
    /\ sockErr => "socket" \in cut

\* Without a fault a direction is over only when its end was passed on, and
\* the pcb goes only when there is nothing left to do for it.
Unhurt ==
    cut = {} =>
        /\ res_f = -1 => shutWr
        /\ res_b = -1 /\ at # "w" => finSent
        /\ expired => ~pcb
        /\ ~pcb /\ at # "done" => lastAck /\ acked = written /\ queue = 0
        /\ ~pcb /\ at \in {"b", "w", "y"} => res_f = -1
        /\ at \in {"drain", "drainwait"} => res_f = -1 /\ res_b = -1

RingInv == Intact /\ Broken /\ Lent
EndInv == Closing /\ Unhurt /\ GracefulEnd

\* The inductive invariant.
IInv == TypeOK /\ RingInv /\ EndInv

-----------------------------------------------------------------------------
(***************************************************************************)
(* The ring buffer's arithmetic.                                           *)
(***************************************************************************)

\* Positions run over the end at most once.
LEMMA ModWrap ==
    ASSUME NEW x \in Nat, x < 2 * MaxSize PROVE x % MaxSize = Wrap(x)
<1>1. MaxSize \in Nat /\ MaxSize > 0
  BY SizeAssumption
<1>2. CASE x < MaxSize
  BY <1>1, <1>2 DEF Wrap
<1>3. CASE x >= MaxSize
  <2>1. x - MaxSize \in 0 .. MaxSize - 1
    BY <1>1, <1>3
  <2>2. (x - MaxSize) + MaxSize * 1 = x
    BY <1>1
  <2> QED BY <1>1, <1>3, <2>1, <2>2 DEF Wrap
<1> QED BY <1>1, <1>2, <1>3

\* What the iovecs of hev_ring_buffer_reading and writing cover.
LEMMA VectorsCover ==
    ASSUME NEW pos \in Cell, NEW size \in 0 .. MaxSize
    PROVE  /\ Bytes(Vectors(pos, size)) = size
           /\ \A j \in 0 .. size - 1 : Position(Vectors(pos, size), j) = Wrap(pos + j)
<1>1. MaxSize \in Nat /\ MaxSize > 0 /\ pos \in Nat /\ pos < MaxSize /\ size \in Nat
  BY SizeAssumption DEF Cell
<1>2. CASE size = 0
  BY <1>1, <1>2 DEF Vectors, Bytes
<1>3. CASE size > 0 /\ size <= MaxSize - pos
  <2>1. Vectors(pos, size) = <<[base |-> pos, len |-> size]>>
    BY <1>1, <1>3 DEF Vectors
  <2> QED BY <1>1, <1>3, <2>1 DEF Bytes, Position, Wrap
<1>4. CASE size > MaxSize - pos
  <2>1. Vectors(pos, size) = <<[base |-> pos, len |-> MaxSize - pos],
                               [base |-> 0, len |-> size - (MaxSize - pos)]>>
    BY <1>1, <1>4 DEF Vectors
  <2> QED BY <1>1, <1>4, <2>1 DEF Bytes, Position, Wrap
<1> QED BY <1>1, <1>2, <1>3, <1>4

\* Whatever tcp_write accepts of them lies in the buffer.
LEMMA AcceptedCover ==
    ASSUME NEW pos \in Cell, NEW size \in 0 .. MaxSize,
           NEW iov \in Accepted(Vectors(pos, size))
    PROVE  /\ Bytes(iov) \in 0 .. size
           /\ \A j \in 0 .. Bytes(iov) - 1 : Position(iov, j) \in Cell
<1>1. /\ MaxSize \in Nat /\ MaxSize > 0 /\ pos \in Nat /\ pos < MaxSize
      /\ size \in Nat /\ size <= MaxSize
  BY SizeAssumption DEF Cell
<1>2. CASE iov = Vectors(pos, size)
  <2>1. /\ Bytes(iov) = size
        /\ \A j \in 0 .. size - 1 : Position(iov, j) = Wrap(pos + j)
    BY <1>2, VectorsCover
  <2>2. \A j \in 0 .. size - 1 : Wrap(pos + j) \in Cell
    BY <1>1 DEF Wrap, Cell
  <2> QED BY <1>1, <2>1, <2>2
<1>3. CASE iov = << >>
  BY <1>1, <1>3 DEF Bytes
<1>4. ASSUME NEW i \in 1 .. Len(Vectors(pos, size)), iov = <<Vectors(pos, size)[i]>>
      PROVE  /\ Bytes(iov) \in 0 .. size
             /\ \A j \in 0 .. Bytes(iov) - 1 : Position(iov, j) \in Cell
  <2>1. PICK v \in [base : Cell, len : 0 .. size] :
           iov = <<v>> /\ v.base + v.len <= MaxSize
    <3>1. CASE size = 0
      BY <1>4, <3>1 DEF Vectors
    <3>2. CASE size > 0 /\ size <= MaxSize - pos
      <4>1. Vectors(pos, size) = <<[base |-> pos, len |-> size]>>
        BY <1>1, <3>2 DEF Vectors
      <4> QED BY <1>1, <1>4, <3>2, <4>1
    <3>3. CASE size > MaxSize - pos
      <4>1. Vectors(pos, size) = <<[base |-> pos, len |-> MaxSize - pos],
                                   [base |-> 0, len |-> size - (MaxSize - pos)]>>
        BY <1>1, <3>3 DEF Vectors
      <4>2. i = 1 \/ i = 2
        BY <1>4, <4>1
      <4>3. 0 \in Cell
        BY <1>1 DEF Cell
      <4> QED BY <1>1, <1>4, <3>3, <4>1, <4>2, <4>3
    <3> QED BY <1>1, <3>1, <3>2, <3>3
  <2>2. Bytes(iov) = v.len
    BY <1>1, <2>1 DEF Bytes
  <2> QED BY <1>1, <2>1, <2>2 DEF Position, Cell
<1> QED BY <1>2, <1>3, <1>4 DEF Accepted

\* The cells before a position, when it moves on by n.
LEMMA BeforeMoved ==
    ASSUME NEW pos \in Cell, NEW n \in 0 .. MaxSize, NEW e \in 0 .. MaxSize - 1
    PROVE  /\ Before(pos, e) \in Cell
           /\ Wrap(pos + n) \in Cell
           /\ e + n < MaxSize => Before(Wrap(pos + n), e + n) = Before(pos, e)
           /\ e < n => Before(Wrap(pos + n), n - 1 - e) = Wrap(pos + e)
BY SizeAssumption DEF Before, Wrap, Cell

\* How far the e-th cell before the new write position is from the old one.
LEMMA Distance ==
    ASSUME NEW pos \in Cell, NEW n \in 0 .. MaxSize, NEW e \in 0 .. MaxSize - 1
    PROVE  (Before(Wrap(pos + n), e) + MaxSize - pos) % MaxSize =
              IF e < n THEN n - 1 - e ELSE MaxSize - 1 - (e - n)
<1>1. /\ MaxSize \in Nat /\ MaxSize > 0 /\ pos \in Nat /\ pos < MaxSize
      /\ n \in Nat /\ n <= MaxSize /\ e \in Nat /\ e < MaxSize
  BY SizeAssumption DEF Cell
<1> DEFINE c == Before(Wrap(pos + n), e)
<1>2. c \in Nat /\ c < MaxSize
  BY <1>1 DEF Before, Wrap
<1>3. c + MaxSize - pos \in Nat /\ c + MaxSize - pos < 2 * MaxSize
  BY <1>1, <1>2
<1>4. (c + MaxSize - pos) % MaxSize = Wrap(c + MaxSize - pos)
  BY <1>3, ModWrap
<1>5. Wrap(c + MaxSize - pos) = IF e < n THEN n - 1 - e ELSE MaxSize - 1 - (e - n)
  BY <1>1 DEF Before, Wrap
<1> QED BY <1>4, <1>5

\* A ring with other counters is a ring.
LEMMA RingUpdate ==
    ASSUME NEW r \in RingBuffer, NEW pos \in Cell, NEW rda \in 0 .. MaxSize,
           NEW use \in 0 .. MaxSize
    PROVE  /\ [r EXCEPT !.wp = pos, !.use_size = use, !.rda_size = rda] \in RingBuffer
           /\ [r EXCEPT !.rp = pos, !.rda_size = rda] \in RingBuffer
           /\ [r EXCEPT !.use_size = use, !.rp = pos, !.wp = pos] \in RingBuffer
           /\ [r EXCEPT !.use_size = use] \in RingBuffer
BY DEF RingBuffer

-----------------------------------------------------------------------------
(***************************************************************************)
(* The ring and lwIP's queue.                                              *)
(***************************************************************************)
LEMMA RingQuiet ==
    ASSUME RingInv, UNCHANGED <<ringVars, mem, byte, written, acked>>,
           "mem" \in cut' <=> "mem" \in cut,
           "mem" \in cut => res_b' = -1 /\ at' # "w"
    PROVE  RingInv'
BY DEF RingInv, Intact, Broken, Lent, ringVars, Wrap, Before

\* tcp_splice_b reads s bytes into the ring: the cells it fills are not among
\* those before wp that are in use.
LEMMA RingFilled ==
    ASSUME TypeOK, RingInv, NEW s \in 1 .. avail, s <= Bytes(Writing(ring)),
           res_b >= 0, ring' = WriteFinish(ring, s), data' = Filled(s), got' = got + s,
           UNCHANGED <<mem, byte, written, acked, cut>>
    PROVE  RingInv' /\ ring' \in RingBuffer /\ data' \in [Cell -> 0 .. Down]
<1>1. /\ MaxSize \in Nat /\ MaxSize > 0 /\ ring \in RingBuffer /\ Down \in Nat
      /\ ring.wp \in Cell /\ ring.rp \in Cell
      /\ ring.use_size \in 0 .. MaxSize /\ ring.rda_size \in 0 .. MaxSize
      /\ data \in [Cell -> 0 .. Down] /\ got \in Nat /\ got + avail <= Down
      /\ written \in Nat /\ written <= got /\ acked \in Nat /\ acked <= written
      /\ s \in Nat /\ s > 0 /\ s <= avail /\ avail \in Nat
  BY SizeAssumption, AmountAssumption DEF TypeOK, RingBuffer
<1>2. "mem" \notin cut /\ "mem" \notin cut'
  BY DEF RingInv, Broken
<1>3. /\ ring.rda_size = got - written /\ ring.use_size = got - acked
      /\ ring.wp = Wrap(ring.rp + ring.rda_size)
      /\ \A k \in acked + 1 .. got : data[Before(ring.wp, got - k)] = k
      /\ \A k \in acked + 1 .. written :
            mem[k] = Before(ring.wp, got - k) /\ byte[k] = k
  BY <1>2 DEF RingInv, Intact
<1>4. ring.use_size + s <= MaxSize
  <2>1. MaxSize - ring.use_size \in 0 .. MaxSize
    BY <1>1
  <2>2. Bytes(Writing(ring)) = MaxSize - ring.use_size
    BY <1>1, <2>1, VectorsCover DEF Writing
  <2> QED BY <1>1, <2>2
<1>5. /\ ring'.wp = Wrap(ring.wp + s) /\ ring'.rp = ring.rp
      /\ ring'.use_size = ring.use_size + s /\ ring'.rda_size = ring.rda_size + s
  <2>1. (ring.wp + s) % MaxSize = Wrap(ring.wp + s)
    <3>1. ring.wp + s \in Nat /\ ring.wp + s < 2 * MaxSize
      BY <1>1, <1>4 DEF Cell
    <3> QED BY <3>1, ModWrap
  <2> QED BY <1>1, <2>1 DEF WriteFinish, RingBuffer
<1>6. ring'.wp \in Cell /\ Wrap(ring.wp + s) \in Cell
  <2>1. s \in 0 .. MaxSize /\ 0 \in 0 .. MaxSize - 1
    BY <1>1, <1>4
  <2>2. Wrap(ring.wp + s) \in Cell
    BY <1>1, <2>1, BeforeMoved
  <2> QED BY <1>5, <2>2
<1>7. ring' \in RingBuffer
  <2>1. (ring.wp + s) % MaxSize \in Cell
    <3>1. ring.wp + s \in Nat /\ ring.wp + s < 2 * MaxSize
      BY <1>1, <1>4 DEF Cell
    <3> QED BY <1>6, <3>1, ModWrap
  <2>2. ring.use_size + s \in 0 .. MaxSize /\ ring.rda_size + s \in 0 .. MaxSize
    BY <1>1, <1>3, <1>4
  <2> QED BY <1>1, <2>1, <2>2, RingUpdate DEF WriteFinish
<1>8. data' \in [Cell -> 0 .. Down]
  <2> SUFFICES ASSUME NEW i \in Cell
               PROVE  (IF (i + MaxSize - ring.wp) % MaxSize < s
                       THEN got + ((i + MaxSize - ring.wp) % MaxSize) + 1 ELSE data[i])
                      \in 0 .. Down
    BY Zenon DEF Filled
  <2>1. (i + MaxSize - ring.wp) % MaxSize \in Nat
    BY <1>1 DEF Cell
  <2> QED BY <1>1, <2>1
<1>9. ring'.wp = Wrap(ring'.rp + ring'.rda_size)
  <2>1. ring.rp \in Nat /\ ring.rp < MaxSize /\ ring.rda_size \in Nat
        /\ ring.rda_size + s <= MaxSize
    BY <1>1, <1>3, <1>4 DEF Cell
  <2>2. Wrap(Wrap(ring.rp + ring.rda_size) + s) = Wrap(ring.rp + (ring.rda_size + s))
    BY <1>1, <2>1 DEF Wrap
  <2> QED BY <1>3, <1>5, <2>2
<1>10. ASSUME NEW k \in acked + 1 .. got
       PROVE  Before(ring'.wp, got' - k) = Before(ring.wp, got - k)
  <2>1. /\ got - k \in 0 .. MaxSize - 1 /\ s \in 0 .. MaxSize
        /\ (got - k) + s < MaxSize /\ got' - k = (got - k) + s
    BY <1>1, <1>3, <1>4
  <2>2. Before(Wrap(ring.wp + s), (got - k) + s) = Before(ring.wp, got - k)
    BY <1>1, <2>1, BeforeMoved
  <2> QED BY <1>5, <2>1, <2>2
<1>11. ASSUME NEW k \in acked + 1 .. got'
       PROVE  data'[Before(ring'.wp, got' - k)] = k
  <2> DEFINE e == got' - k
             c == Before(Wrap(ring.wp + s), e)
  <2>1. /\ e \in 0 .. MaxSize - 1 /\ s \in 0 .. MaxSize /\ e < ring.use_size + s
        /\ k \in Nat /\ e \in Nat
    BY <1>1, <1>3, <1>4
  <2>2. c \in Cell
    <3> HIDE DEF e
    <3> QED BY <1>6, <2>1, BeforeMoved
  <2>3. (c + MaxSize - ring.wp) % MaxSize =
           IF e < s THEN s - 1 - e ELSE MaxSize - 1 - (e - s)
    <3> HIDE DEF e
    <3> QED BY <1>1, <2>1, Distance
  <2>4. data'[c] = IF (c + MaxSize - ring.wp) % MaxSize < s
                   THEN got + ((c + MaxSize - ring.wp) % MaxSize) + 1 ELSE data[c]
    BY <2>2 DEF Filled
  <2>5. CASE e < s
    <3>1. (c + MaxSize - ring.wp) % MaxSize = s - 1 - e /\ s - 1 - e < s
      BY <1>1, <2>1, <2>3, <2>5
    <3>2. data'[c] = got + (s - 1 - e) + 1
      BY <2>4, <3>1
    <3> QED BY <1>1, <1>5, <2>1, <3>2
  <2>6. CASE e >= s
    <3>1. k \in acked + 1 .. got
      BY <1>1, <2>1, <2>6
    <3>2. c = Before(ring.wp, got - k)
      BY <1>5, <1>10, <3>1
    <3>3. ~((c + MaxSize - ring.wp) % MaxSize < s)
      <4> HIDE DEF e, c
      <4> QED BY <1>1, <1>4, <2>1, <2>3, <2>6
    <3>4. data'[c] = data[c]
      BY <2>4, <3>3
    <3> QED BY <1>3, <1>5, <3>1, <3>2, <3>4
  <2> QED BY <2>1, <2>5, <2>6
<1>12. Intact'
  <2>1. ring'.rda_size = got' - written' /\ ring'.use_size = got' - acked'
    BY <1>1, <1>3, <1>5
  <2>2. \A k \in acked' + 1 .. written' :
           mem'[k] = Before(ring'.wp, got' - k) /\ byte'[k] = k
    <3> SUFFICES ASSUME NEW k \in acked + 1 .. written
                 PROVE  mem[k] = Before(ring'.wp, got' - k) /\ byte[k] = k
      OBVIOUS
    <3>1. k \in acked + 1 .. got
      BY <1>1
    <3> QED BY <1>3, <1>10, <3>1
  <2>3. \A k \in acked' + 1 .. got' : data'[Before(ring'.wp, got' - k)] = k
    BY <1>11
  <2> QED BY <1>9, <2>1, <2>2, <2>3 DEF Intact, Wrap, Before
<1>13. Lent'
  <2> SUFFICES ASSUME NEW k \in acked + 1 .. written
               PROVE  data'[mem[k]] = byte[k]
    BY DEF Lent
  <2>1. k \in acked + 1 .. got /\ k \in acked + 1 .. got'
    BY <1>1
  <2>2. mem[k] = Before(ring'.wp, got' - k) /\ byte[k] = k
    BY <1>3, <1>10, <2>1
  <2> QED BY <1>11, <2>1, <2>2
<1> QED BY <1>2, <1>7, <1>8, <1>12, <1>13 DEF RingInv, Broken

\* tcp_write queues bytes of the ring: they are where Intact says, and if it
\* takes only a part of them the direction is over.
LEMMA RingHanded ==
    ASSUME TypeOK, RingInv, at = "w", at' = "y", NEW iov \in Accepted(Reading(ring)),
           TcpWrite(iov), ring' = ReadFinish(ring, ring.rda_size),
           \/ iov = Reading(ring) /\ cut' = cut
           \/ res_b' = -1 /\ cut' = cut \cup {"mem"},
           UNCHANGED <<data, got, acked>>
    PROVE  /\ RingInv' /\ ring' \in RingBuffer /\ written' \in written .. got
           /\ mem' \in [1 .. Down -> Cell] /\ byte' \in [1 .. Down -> 0 .. Down]
<1>1. /\ MaxSize \in Nat /\ MaxSize > 0 /\ ring \in RingBuffer /\ Down \in Nat
      /\ ring.wp \in Cell /\ ring.rp \in Cell /\ ring.rp \in Nat /\ ring.rp < MaxSize
      /\ ring.use_size \in 0 .. MaxSize /\ ring.rda_size \in 0 .. MaxSize
      /\ data \in [Cell -> 0 .. Down] /\ got \in Nat /\ got <= Down
      /\ written \in Nat /\ written <= got /\ acked \in Nat /\ acked <= written
      /\ mem \in [1 .. Down -> Cell] /\ byte \in [1 .. Down -> 0 .. Down]
  BY SizeAssumption, AmountAssumption DEF TypeOK, RingBuffer, Cell
<1>2. "mem" \notin cut
  BY DEF RingInv, Broken
<1>3. /\ ring.rda_size = got - written /\ ring.use_size = got - acked
      /\ ring.wp = Wrap(ring.rp + ring.rda_size)
      /\ \A k \in acked + 1 .. got : data[Before(ring.wp, got - k)] = k
      /\ \A k \in acked + 1 .. written :
            mem[k] = Before(ring.wp, got - k) /\ byte[k] = k
  BY <1>2 DEF RingInv, Intact
<1> DEFINE b == Bytes(iov)
           cell(k) == Position(iov, k - written - 1)
<1>4. b \in 0 .. ring.rda_size /\ \A j \in 0 .. b - 1 : Position(iov, j) \in Cell
  BY <1>1, AcceptedCover DEF Reading
<1>5. /\ written' = written + b
      /\ mem' = [k \in 1 .. Down |->
                   IF k > written /\ k <= written + b THEN cell(k) ELSE mem[k]]
      /\ byte' = [k \in 1 .. Down |->
                    IF k > written /\ k <= written + b THEN data[cell(k)] ELSE byte[k]]
  BY DEF TcpWrite
<1>6. \A k \in 1 .. Down : k > written /\ k <= written + b => cell(k) \in Cell
  <2> SUFFICES ASSUME NEW k \in 1 .. Down, k > written, k <= written + b
               PROVE  cell(k) \in Cell
    OBVIOUS
  <2>1. k - written - 1 \in 0 .. b - 1
    BY <1>1, <1>4
  <2> QED BY <1>4, <2>1
<1> HIDE DEF b, cell
<1>7. written' \in written .. got
  BY <1>1, <1>3, <1>4, <1>5
<1>8. mem' \in [1 .. Down -> Cell] /\ byte' \in [1 .. Down -> 0 .. Down]
  BY <1>1, <1>5, <1>6
<1>9. ring'.rp = ring.wp /\ ring'.wp = ring.wp /\ ring'.rda_size = 0
      /\ ring'.use_size = ring.use_size /\ ring' \in RingBuffer
  <2>1. (ring.rp + ring.rda_size) % MaxSize = ring.wp
    <3>1. ring.rp + ring.rda_size \in Nat /\ ring.rp + ring.rda_size < 2 * MaxSize
      BY <1>1
    <3> QED BY <1>3, <3>1, ModWrap
  <2>2. ring.rda_size - ring.rda_size = 0 /\ 0 \in 0 .. MaxSize
    BY <1>1
  <2>3. ring' = [ring EXCEPT !.rp = ring.wp, !.rda_size = 0]
    BY <2>1, <2>2 DEF ReadFinish
  <2>4. [ring EXCEPT !.rp = ring.wp, !.rda_size = 0] \in RingBuffer
    <3>1. ring \in RingBuffer /\ ring.wp \in Cell /\ 0 \in 0 .. MaxSize
      BY <1>1
    <3> QED BY <3>1, RingUpdate, Zenon
  <2>5. ring' \in RingBuffer
    BY <2>3, <2>4
  <2> QED BY <1>1, <2>3, <2>5 DEF RingBuffer
<1>10. Lent'
  <2> SUFFICES ASSUME NEW k \in acked + 1 .. written' PROVE data[mem'[k]] = byte'[k]
    BY DEF Lent
  <2>1. k \in 1 .. Down
    BY <1>1, <1>7
  <2>2. CASE k > written /\ k <= written + b
    BY <1>5, <2>1, <2>2
  <2>3. CASE ~(k > written /\ k <= written + b)
    <3>1. k \in acked + 1 .. written
      BY <1>1, <1>4, <1>5, <2>3
    <3> QED BY <1>5, <2>1, <2>3, <3>1 DEF RingInv, Lent
  <2> QED BY <2>2, <2>3
<1>11. CASE iov = Reading(ring) /\ cut' = cut
  <2>1. /\ b = ring.rda_size
        /\ \A j \in 0 .. ring.rda_size - 1 : Position(iov, j) = Wrap(ring.rp + j)
    BY <1>1, <1>11, VectorsCover, Zenon DEF Reading, b
  <2>2. written' = got
    BY <1>1, <1>3, <1>5, <2>1
  <2>3. ASSUME NEW k \in acked + 1 .. got
        PROVE  mem'[k] = Before(ring.wp, got - k) /\ byte'[k] = k
    <3>1. k \in 1 .. Down
      BY <1>1
    <3>2. CASE k <= written
      <4>1. k \in acked + 1 .. written
        BY <3>2, <1>1
      <4> QED BY <1>1, <1>3, <1>5, <3>1, <3>2, <4>1
    <3>3. CASE k > written
      <4>1. k - written - 1 \in 0 .. b - 1 /\ b \in 0 .. MaxSize /\ k <= written + b
            /\ k - written - 1 \in 0 .. MaxSize - 1 /\ k - written - 1 < b
            /\ b - 1 - (k - written - 1) = got - k
        BY <1>1, <1>3, <2>1, <3>3
      <4>2. Before(Wrap(ring.rp + b), b - 1 - (k - written - 1)) = Wrap(ring.rp + (k - written - 1))
        BY <1>1, <4>1, BeforeMoved
      <4>3. cell(k) = Before(ring.wp, got - k)
        BY <1>3, <2>1, <4>1, <4>2 DEF cell
      <4> QED BY <1>3, <1>5, <3>1, <3>3, <4>1, <4>3
    <3> QED BY <1>1, <3>1, <3>2, <3>3
  <2>4. Intact'
    <3>1. ring'.rda_size = got' - written' /\ ring'.use_size = got' - acked'
      BY <1>1, <1>3, <1>9, <2>2
    <3>2. ring'.wp = Wrap(ring'.rp + ring'.rda_size)
      BY <1>1, <1>9 DEF Wrap, Cell
    <3> QED BY <1>3, <1>9, <2>2, <2>3, <3>1, <3>2 DEF Intact, Wrap, Before
  <2> QED BY <1>2, <1>7, <1>8, <1>9, <1>10, <1>11, <2>4 DEF RingInv, Broken
<1>12. CASE res_b' = -1 /\ cut' = cut \cup {"mem"}
  <2>1. written' - acked' <= ring'.use_size
    BY <1>1, <1>3, <1>7, <1>9
  <2> QED BY <1>7, <1>8, <1>9, <1>10, <1>12, <2>1 DEF RingInv, Broken, Intact
<1> QED BY <1>11, <1>12

\* tcp_sent_handler releases acknowledged bytes; the positions go back to 0
\* only when nothing is left.
LEMMA RingReleased ==
    ASSUME TypeOK, RingInv, NEW n \in 1 .. Down, Sent(n)
    PROVE  /\ RingInv' /\ ring' \in RingBuffer /\ acked' \in 0 .. written
           /\ mem' \in [1 .. Down -> Cell] /\ byte' \in [1 .. Down -> 0 .. Down]
<1>1. /\ MaxSize \in Nat /\ MaxSize > 0 /\ ring \in RingBuffer /\ Down \in Nat
      /\ ring.wp \in Cell /\ ring.rp \in Cell
      /\ ring.use_size \in 0 .. MaxSize /\ ring.rda_size \in 0 .. MaxSize
      /\ got \in Nat /\ got <= Down /\ n \in Nat /\ n > 0
      /\ written \in Nat /\ written <= got /\ acked \in Nat /\ acked <= written
      /\ mem \in [1 .. Down -> Cell] /\ byte \in [1 .. Down -> 0 .. Down]
  BY SizeAssumption, AmountAssumption DEF TypeOK, RingBuffer
<1>2. /\ acked' = acked + n /\ acked + n <= written
      /\ mem' = [k \in 1 .. Down |-> IF k <= acked' THEN 0 ELSE mem[k]]
      /\ byte' = [k \in 1 .. Down |-> IF k <= acked' THEN 0 ELSE byte[k]]
      /\ ring' = ReadRelease(ring, n)
      /\ UNCHANGED <<data, got, written, cut, res_b>>
  BY DEF Sent
<1>3. acked' \in 0 .. written
  BY <1>1, <1>2
<1>4. mem' \in [1 .. Down -> Cell] /\ byte' \in [1 .. Down -> 0 .. Down]
  <2>1. 0 \in Cell /\ 0 \in 0 .. Down
    BY <1>1 DEF Cell
  <2> QED BY <1>1, <1>2, <2>1
<1>5. \A k \in acked' + 1 .. written : /\ k \in acked + 1 .. written
                                       /\ mem'[k] = mem[k] /\ byte'[k] = byte[k]
  <2> SUFFICES ASSUME NEW k \in acked' + 1 .. written
               PROVE  k \in acked + 1 .. written /\ mem'[k] = mem[k] /\ byte'[k] = byte[k]
    OBVIOUS
  <2>1. k \in 1 .. Down /\ ~(k <= acked') /\ k \in acked + 1 .. written
    BY <1>1, <1>2
  <2> QED BY <1>2, <2>1
<1>6. Lent'
  BY <1>2, <1>5 DEF RingInv, Lent
<1>7. CASE ring.use_size = n
  <2>1. 0 \in Cell /\ 0 \in 0 .. MaxSize
    BY <1>1 DEF Cell
  <2>2. ring' = [ring EXCEPT !.use_size = 0, !.rp = 0, !.wp = 0]
    BY <1>2, <1>7 DEF ReadRelease
  <2>3. ring' \in RingBuffer
    BY <1>1, <2>1, <2>2, RingUpdate
  <2>4. ring'.use_size = 0 /\ ring'.rp = 0 /\ ring'.wp = 0 /\ ring'.rda_size = ring.rda_size
    BY <1>1, <2>2 DEF RingBuffer
  <2>5. CASE "mem" \in cut
    BY <1>1, <1>2, <1>3, <1>4, <1>6, <1>7, <2>3, <2>4, <2>5 DEF RingInv, Intact, Broken, Sent, Woken
  <2>6. CASE "mem" \notin cut
    <3>1. ring.rda_size = got - written /\ ring.use_size = got - acked
      BY <2>6 DEF RingInv, Intact
    <3>2. ring.rda_size = 0 /\ acked' = got /\ written = got
      BY <1>1, <1>2, <1>7, <3>1
    <3>3. Wrap(0 + 0) = 0
      BY <1>1 DEF Wrap
    <3>4. Intact'
      BY <1>1, <1>2, <2>4, <3>1, <3>2, <3>3 DEF Intact, Wrap
    <3> QED BY <1>2, <1>3, <1>4, <1>6, <2>3, <2>6, <3>4 DEF RingInv, Broken
  <2> QED BY <2>5, <2>6
<1>8. CASE ring.use_size # n
  <2>1. ring' = [ring EXCEPT !.use_size = ring.use_size - n]
    BY <1>2, <1>8 DEF ReadRelease
  <2>2. ring.use_size - n \in 0 .. MaxSize
    <3>1. written - acked <= ring.use_size
      BY <1>1 DEF RingInv, Intact, Broken
    <3> QED BY <1>1, <1>2, <3>1
  <2>3. ring' \in RingBuffer
    BY <1>1, <2>1, <2>2, RingUpdate
  <2>4. /\ ring'.use_size = ring.use_size - n /\ ring'.rp = ring.rp /\ ring'.wp = ring.wp
        /\ ring'.rda_size = ring.rda_size
    BY <1>1, <2>1 DEF RingBuffer
  <2>5. CASE "mem" \in cut
    BY <1>1, <1>2, <1>3, <1>4, <1>6, <2>3, <2>4, <2>5 DEF RingInv, Intact, Broken, Sent, Woken
  <2>6. CASE "mem" \notin cut
    <3>1. /\ ring.rda_size = got - written /\ ring.use_size = got - acked
          /\ ring.wp = Wrap(ring.rp + ring.rda_size)
          /\ \A k \in acked + 1 .. got : data[Before(ring.wp, got - k)] = k
          /\ \A k \in acked + 1 .. written :
                mem[k] = Before(ring.wp, got - k) /\ byte[k] = k
      BY <2>6 DEF RingInv, Intact
    <3>2. ring'.use_size = got - acked'
      BY <1>1, <1>2, <2>4, <3>1
    <3>3. \A k \in acked' + 1 .. got : k \in acked + 1 .. got
      BY <1>1, <1>2
    <3>4. Intact'
      BY <1>2, <1>5, <2>4, <3>1, <3>2, <3>3 DEF Intact, Wrap, Before
    <3> QED BY <1>2, <1>3, <1>4, <1>6, <2>3, <2>6, <3>4 DEF RingInv, Broken
  <2> QED BY <2>5, <2>6
<1> QED BY <1>7, <1>8

-----------------------------------------------------------------------------
(***************************************************************************)
(* The ends of the two streams.                                            *)
(***************************************************************************)

\* What is left to do when both directions are over and the last loop of
\* hev_socks5_session_tcp_splice is too: nothing.
Delivered ==
    /\ srvEnd /\ avail = 0 /\ acked = got /\ finSent
    /\ pcb_eof /\ queue = 0 /\ shutWr

LEMMA DrainDone ==
    ASSUME IInv, cut = {}, at \in {"y", "drain", "drainwait"},
           res_f = -1, res_b = -1, DrainPlace = "done"
    PROVE  Delivered
<1>1. finSent /\ shutWr /\ written = got /\ InEnd /\ UpEnd /\ ~sockErr
  BY DEF IInv, EndInv, Unhurt, Closing
<1>2. acked = got
  <2>1. CASE ~pcb \/ expired
    BY <1>1, <2>1 DEF IInv, EndInv, Unhurt
  <2>2. CASE ring.use_size = 0
    <3>1. ring.use_size = got - acked /\ got \in Nat /\ acked \in Nat
      BY AmountAssumption DEF IInv, RingInv, Intact, TypeOK
    <3> QED BY <2>2, <3>1
  <2> QED BY <2>1, <2>2 DEF DrainPlace
<1> QED BY <1>1, <1>2 DEF InEnd, UpEnd, Delivered

LEMMA YieldEnd == ASSUME IInv, Yield PROVE EndInv'
<1>1. /\ at = "y" /\ pcb' = (pcb /\ at' # "done")
      /\ UNCHANGED <<res_f, res_b, upVars, ringVars, lwipVars, sockVars, expired, cut>>
  BY DEF Yield, Go
<1>2. /\ at' \in {"ready", "wait", "drainwait", "done"}
      /\ at' \in {"drainwait", "done"} =>
            ~(res_f > 0) /\ ~(res_b > 0) /\ at' = DrainPlace
            /\ ((res_f # 0 /\ res_b # 0) \/ expired)
  BY DEF Yield, Go, DrainPlace
<1>3. ASSUME cut = {}, at' \in {"drainwait", "done"} PROVE res_f = -1 /\ res_b = -1
  <2>1. res_f \in -1 .. 1 /\ res_b \in -1 .. 1
    BY DEF IInv, TypeOK
  <2>2. CASE expired
    BY <1>1, <1>3, <2>2 DEF IInv, EndInv, Unhurt, Closing
  <2>3. CASE ~expired
    BY <1>2, <1>3, <2>1, <2>3
  <2> QED BY <2>2, <2>3
<1>4. Closing'
  BY <1>1, <1>2 DEF IInv, EndInv, Closing, InEnd, UpEnd, upVars, ringVars, lwipVars, sockVars
<1>5. Unhurt'
  BY <1>1, <1>2, <1>3 DEF IInv, EndInv, Unhurt, upVars, lwipVars
<1>6. GracefulEnd'
  <2> SUFFICES ASSUME at' = "done", cut = {} PROVE Delivered'
    BY <1>1 DEF GracefulEnd, Delivered
  <2>1. Delivered
    BY <1>1, <1>2, <1>3, DrainDone
  <2> QED BY <1>1, <2>1 DEF Delivered, upVars, ringVars, lwipVars, sockVars
<1> QED BY <1>4, <1>5, <1>6 DEF EndInv

LEMMA ResumeEnd == ASSUME IInv, Resume PROVE EndInv'
<1>1. /\ at \in {"ready", "drain"} /\ pcb' = (pcb /\ at' # "done")
      /\ at' = IF at = "ready" THEN "f" ELSE DrainPlace
      /\ UNCHANGED <<res_f, res_b, upVars, ringVars, lwipVars, sockVars, expired, cut>>
  BY DEF Resume, Go
<1>2. at' \in {"f", "drainwait", "done"} /\ (at' \in {"drainwait", "done"} => at = "drain")
  BY <1>1 DEF DrainPlace
<1>3. Closing'
  BY <1>1, <1>2 DEF IInv, EndInv, Closing, InEnd, UpEnd, upVars, ringVars, lwipVars, sockVars
<1>4. Unhurt'
  BY <1>1, <1>2 DEF IInv, EndInv, Unhurt, upVars, lwipVars
<1>5. GracefulEnd'
  <2> SUFFICES ASSUME at' = "done", cut = {} PROVE Delivered'
    BY <1>1 DEF GracefulEnd, Delivered
  <2>1. at = "drain" /\ DrainPlace = "done"
    BY <1>1, <1>2
  <2>2. res_f = -1 /\ res_b = -1
    BY <2>1 DEF IInv, EndInv, Unhurt
  <2>3. Delivered
    BY <2>1, <2>2, DrainDone
  <2> QED BY <1>1, <2>3 DEF Delivered, upVars, ringVars, lwipVars, sockVars
<1> QED BY <1>3, <1>4, <1>5 DEF EndInv

LEMMA BeginEnd == ASSUME IInv, Begin PROVE EndInv'
<1>1. /\ at = "connect" /\ pcb' = (pcb /\ at' # "done")
      /\ at' = IF pcb /\ ~sockErr THEN "f" ELSE "done"
      /\ expired' \in {expired, FALSE}
      /\ UNCHANGED <<res_f, res_b, upVars, ringVars, lwipVars, sockVars, cut>>
  BY DEF Begin, Go
<1>2. res_f = 1 /\ res_b = 1 /\ ~finSent /\ (cut = {} => at' = "f")
  BY <1>1 DEF IInv, EndInv, Closing, Unhurt
<1>3. Closing'
  BY <1>1, <1>2 DEF IInv, EndInv, Closing, InEnd, UpEnd, upVars, ringVars, lwipVars, sockVars
<1>4. Unhurt'
  BY <1>1, <1>2 DEF IInv, EndInv, Unhurt, upVars, lwipVars
<1> QED BY <1>1, <1>2, <1>3, <1>4 DEF EndInv, GracefulEnd

LEMMA SpliceFEnd == ASSUME IInv, SpliceF PROVE EndInv'
<1>1. /\ at = "f" /\ at' = "b"
      /\ UNCHANGED <<res_b, pcb, pcb_eof, ringVars, lwipVars, avail, srvEnd, sockErr, edge,
                     expired, cut>>
  BY DEF SpliceF
<1>2. res_f \in -1 .. 1 /\ queue \in Nat
  BY AmountAssumption DEF IInv, TypeOK
<1>3. (shutWr' => res_f' = -1 /\ UpEnd') /\ (cut = {} /\ res_f' = -1 => shutWr')
  <2>1. CASE res_f < 0
    BY <1>1, <1>2, <2>1 DEF SpliceF, IInv, EndInv, Closing, Unhurt, UpEnd
  <2>2. CASE res_f >= 0 /\ UpEnd
    BY <1>1, <1>2, <2>2 DEF SpliceF, IInv, EndInv, Closing, Unhurt, UpEnd
  <2>3. CASE res_f >= 0 /\ ~UpEnd
    <3>1. ~shutWr /\ shutWr' = shutWr /\ (res_f' = -1 => sockErr)
      BY <1>1, <1>2, <2>3 DEF SpliceF, IInv, EndInv, Closing, UpEnd
    <3> QED BY <3>1 DEF IInv, EndInv, Closing
  <2> QED BY <1>2, <2>1, <2>2, <2>3
<1>4. cut = {} /\ ~pcb => res_f' = -1 /\ queue' = 0
  <2> SUFFICES ASSUME cut = {}, ~pcb PROVE res_f' = -1 /\ queue' = 0
    OBVIOUS
  <2>1. queue = 0 /\ pcb_eof
    BY <1>1 DEF IInv, EndInv, Unhurt, Closing
  <2> QED BY <1>2, <2>1 DEF SpliceF, UpEnd
<1>5. Closing'
  BY <1>1, <1>3 DEF IInv, EndInv, Closing, InEnd, UpEnd, ringVars, lwipVars
<1>6. Unhurt'
  BY <1>1, <1>3, <1>4 DEF IInv, EndInv, Unhurt, lwipVars
<1> QED BY <1>1, <1>5, <1>6 DEF EndInv, GracefulEnd

LEMMA ReadBackEnd == ASSUME IInv, ReadBack PROVE EndInv'
<1>1. /\ at = "b" /\ at' \in {"w", "y"}
      /\ UNCHANGED <<res_f, pcb, upVars, lwipVars, srvEnd, unread, sockErr, edge, expired, cut>>
  BY DEF ReadBack
<1>2. res_b \in -1 .. 1 /\ avail \in Nat
  BY AmountAssumption DEF IInv, TypeOK
<1>3. CASE res_b < 0
  <2>1. at' = "y" /\ UNCHANGED <<res_b, ringVars, avail>>
    BY <1>3, <1>2 DEF ReadBack
  <2>2. Closing'
    BY <1>1, <2>1 DEF IInv, EndInv, Closing, InEnd, UpEnd, upVars, ringVars, lwipVars
  <2>3. Unhurt'
    BY <1>1, <2>1 DEF IInv, EndInv, Unhurt, upVars, lwipVars
  <2> QED BY <1>1, <2>2, <2>3 DEF EndInv, GracefulEnd
<1>4. CASE res_b >= 0
  <2>1. ~finSent /\ ~lastAck /\ at' = "w"
    BY <1>2, <1>4 DEF ReadBack, IInv, EndInv, Closing
  <2>2. res_b' = -1 => InEnd'
    <3>1. ~(res_b < 0)
      BY <1>2, <1>4
    <3>2. CASE res_b' = 1
      BY <3>2
    <3>3. CASE /\ Bytes(Writing(ring)) = 0 \/ sockErr \/ avail = 0
               /\ res_b' = NothingRead(Bytes(Writing(ring))) /\ UNCHANGED avail
      BY <1>1, <3>3 DEF NothingRead, InEnd
    <3> QED BY <3>1, <3>2, <3>3 DEF ReadBack
  <2>3. Closing'
    BY <1>1, <2>1, <2>2 DEF IInv, EndInv, Closing, UpEnd, upVars, lwipVars
  <2>4. Unhurt'
    BY <1>1, <2>1 DEF IInv, EndInv, Unhurt, upVars, lwipVars
  <2> QED BY <1>1, <2>3, <2>4 DEF EndInv, GracefulEnd
<1> QED BY <1>2, <1>3, <1>4

LEMMA WriteBackEnd == ASSUME IInv, WriteBack PROVE EndInv'
<1>1. /\ at = "w" /\ at' = "y" /\ ~finSent /\ ~lastAck
      /\ UNCHANGED <<res_f, pcb, upVars, data, got, acked, sockVars, expired>>
  BY DEF WriteBack, IInv, EndInv, Closing
<1>2. res_b \in -1 .. 1 /\ "mem" \notin cut /\ (cut = {} => pcb)
  BY <1>1 DEF IInv, TypeOK, RingInv, Broken, EndInv, Closing, Unhurt
<1>3. CASE ~pcb
  <2>1. res_b' = -1 /\ UNCHANGED <<ring, mem, byte, written, finSent, lastAck, cut>>
    BY <1>3 DEF WriteBack
  <2>2. Closing'
    BY <1>1, <2>1 DEF IInv, EndInv, Closing, InEnd, UpEnd, upVars, sockVars
  <2> QED BY <1>1, <1>2, <1>3, <2>1, <2>2 DEF EndInv, Unhurt, GracefulEnd
<1>4. CASE pcb /\ ring.rda_size = 0
  <2>1. /\ finSent' = (res_b < 0) /\ lastAck' = (res_b < 0 /\ pcb_eof)
        /\ UNCHANGED <<res_b, ring, mem, byte, written, cut>>
    <3>1. ~(ring.rda_size > 0)
      BY <1>4
    <3> QED BY <1>4, <3>1 DEF WriteBack
  <2>2. written = got
    <3>1. ring.rda_size = got - written /\ got \in Nat /\ written \in Nat
      BY <1>2, AmountAssumption DEF IInv, RingInv, Intact, TypeOK
    <3> QED BY <1>4, <3>1
  <2>3. finSent' <=> res_b = -1
    <3>1. res_b < 0 <=> res_b = -1
      BY <1>2
    <3> QED BY <2>1, <3>1, Zenon
  <2>4. Closing'
    BY <1>1, <2>1, <2>2, <2>3 DEF IInv, EndInv, Closing, InEnd, UpEnd, upVars, sockVars
  <2>5. Unhurt'
    BY <1>1, <1>2, <1>4, <2>1, <2>3 DEF IInv, EndInv, Unhurt, upVars
  <2> QED BY <1>1, <2>4, <2>5 DEF EndInv, GracefulEnd
<1>5. CASE pcb /\ ring.rda_size > 0
  <2>1. /\ UNCHANGED <<finSent, lastAck>>
        /\ (res_b' = 1 /\ cut' = cut) \/ cut' = cut \cup {"mem"}
    BY <1>2, <1>5, AmountAssumption DEF WriteBack, IInv, TypeOK, RingBuffer
  <2>2. Closing'
    BY <1>1, <2>1 DEF IInv, EndInv, Closing, InEnd, UpEnd, upVars, sockVars
  <2>3. Unhurt'
    BY <1>1, <1>5, <2>1 DEF IInv, EndInv, Unhurt, upVars
  <2> QED BY <1>1, <2>2, <2>3 DEF EndInv, GracefulEnd
<1> QED
  <2>1. ring.rda_size \in Nat
    BY SizeAssumption DEF IInv, TypeOK, RingBuffer
  <2> QED BY <1>3, <1>4, <1>5, <2>1

\* The callbacks of lwIP come while the task has yielded.
LEMMA CallbackEnd ==
    ASSUME IInv, (\E n \in 1 .. Up : Receive(n)) \/ ReceiveFin
                 \/ (\E n \in 1 .. Down : Sent(n))
    PROVE  EndInv'
<1>1. /\ Yielded /\ pcb /\ at' = Woken
      /\ UNCHANGED <<res_f, res_b, pcb, out, shutWr, data, got, written, finSent, lastAck,
                     sockVars, expired, cut>>
      /\ (pcb_eof => pcb_eof' /\ queue' = queue)
  BY DEF Receive, ReceiveFin, Sent, ringVars, lwipVars, upVars
<1>2. Closing'
  BY <1>1 DEF IInv, EndInv, Closing, InEnd, UpEnd, sockVars, Yielded, Woken
<1>3. Unhurt'
  BY <1>1 DEF IInv, EndInv, Unhurt, sockVars, Yielded, Woken
<1> QED BY <1>1, <1>2, <1>3 DEF EndInv, GracefulEnd, Yielded, Woken

LEMMA PcbEnd == ASSUME IInv, PcbClosed \/ PcbError \/ Terminate PROVE EndInv'
<1>1. /\ Yielded /\ at' = Woken /\ at' # "done" /\ cut \subseteq cut'
      /\ UNCHANGED <<res_f, res_b, upVars, ringVars, lwipVars, sockVars>>
  BY DEF PcbClosed, PcbError, Terminate, Yielded, Woken
<1>2. Closing'
  BY <1>1 DEF IInv, EndInv, Closing, InEnd, UpEnd, upVars, ringVars, lwipVars, sockVars,
     Yielded, Woken
<1>3. Unhurt'
  <2> SUFFICES ASSUME cut' = {} PROVE Unhurt'
    BY DEF Unhurt
  <2>1. PcbClosed /\ queue \in Nat
    BY AmountAssumption DEF PcbError, Terminate, IInv, TypeOK
  <2>2. cut = {} /\ lastAck /\ acked = written /\ queue = 0 /\ ~pcb'
    BY <2>1 DEF PcbClosed
  <2>3. finSent /\ res_b = -1
    BY <2>2 DEF IInv, EndInv, Closing
  <2>4. at' \notin {"b", "w", "y"}
    BY <1>1 DEF Yielded, Woken
  <2> QED BY <1>1, <2>2, <2>3, <2>4 DEF IInv, EndInv, Unhurt, Yielded, Woken, upVars, lwipVars
<1> QED BY <1>1, <1>2, <1>3 DEF EndInv, GracefulEnd

LEMMA SocketEnd ==
    ASSUME IInv, (\E n \in 1 .. Down : ServerSend(n)) \/ ServerEnd \/ ServerRead \/ SocketError
                 \/ Reactor \/ TimesOut
    PROVE  EndInv'
<1>1. CASE TimesOut
  <2>1. /\ at' \in {"done", "drainwait"} /\ cut' # {} /\ cut \subseteq cut'
        /\ UNCHANGED <<res_f, res_b, upVars, ringVars, lwipVars, sockVars>>
    BY <1>1 DEF TimesOut, Go, DrainPlace
  <2>2. Closing'
    BY <2>1 DEF IInv, EndInv, Closing, InEnd, UpEnd, upVars, ringVars, lwipVars, sockVars
  <2> QED BY <2>1, <2>2 DEF EndInv, Unhurt, GracefulEnd
<1>2. CASE Reactor
  <2>1. /\ Yielded /\ at' = Woken
        /\ UNCHANGED <<res_f, res_b, pcb, upVars, ringVars, lwipVars, avail, srvEnd, sockErr,
                       expired, cut>>
    BY <1>2 DEF Reactor
  <2>2. Closing'
    BY <2>1 DEF IInv, EndInv, Closing, InEnd, UpEnd, upVars, ringVars, lwipVars, Yielded, Woken
  <2>3. Unhurt'
    BY <2>1 DEF IInv, EndInv, Unhurt, upVars, lwipVars, Yielded, Woken
  <2> QED BY <2>1, <2>2, <2>3 DEF EndInv, GracefulEnd, Yielded, Woken
<1>3. CASE (\E n \in 1 .. Down : ServerSend(n)) \/ ServerEnd \/ ServerRead \/ SocketError
  <2>1. /\ cut \subseteq cut' /\ (sockErr' => sockErr \/ "socket" \in cut')
        /\ UNCHANGED <<at, res_f, res_b, pcb, upVars, ringVars, lwipVars, expired>>
    BY <1>3 DEF ServerSend, ServerEnd, ServerRead, SocketError
  <2>2. InEnd => InEnd'
    BY <1>3 DEF ServerSend, ServerEnd, ServerRead, SocketError, InEnd
  <2>3. srvEnd => srvEnd' /\ avail' = avail
    BY <1>3 DEF ServerSend, ServerEnd, ServerRead, SocketError
  <2>4. Closing'
    BY <2>1, <2>2 DEF IInv, EndInv, Closing, UpEnd, upVars, ringVars, lwipVars
  <2>5. Unhurt'
    BY <2>1 DEF IInv, EndInv, Unhurt, upVars, lwipVars
  <2>6. GracefulEnd'
    BY <2>1, <2>3 DEF IInv, EndInv, GracefulEnd, upVars, ringVars, lwipVars
  <2> QED BY <2>4, <2>5, <2>6 DEF EndInv
<1> QED BY <1>1, <1>2, <1>3

-----------------------------------------------------------------------------
(***************************************************************************)
(* Types, and the whole invariant.                                         *)
(***************************************************************************)
LEMMA GoTyped ==
    ASSUME TypeOK, NEW place \in Place, Go(place)
    PROVE  at' \in Place /\ pcb' \in BOOLEAN
BY DEF Go, TypeOK

LEMMA PlacesTyped == ASSUME TypeOK PROVE Woken \in Place /\ DrainPlace \in Place
BY DEF Woken, DrainPlace, TypeOK, Place

LEMMA TaskTyped ==
    ASSUME TypeOK, Begin \/ Yield \/ Resume \/ TimesOut
    PROVE  TypeOK'
<1>1. at' \in Place /\ pcb' \in BOOLEAN
  <2>1. "f" \in Place /\ "done" \in Place /\ "ready" \in Place /\ "wait" \in Place
    BY DEF Place
  <2>2. CASE Begin
    BY <2>1, <2>2, GoTyped DEF Begin
  <2>3. CASE Yield
    BY <2>1, <2>3, GoTyped, PlacesTyped DEF Yield
  <2>4. CASE Resume
    BY <2>1, <2>4, GoTyped, PlacesTyped DEF Resume
  <2>5. CASE TimesOut
    BY <2>1, <2>5, GoTyped, PlacesTyped DEF TimesOut
  <2> QED BY <2>2, <2>3, <2>4, <2>5
<1>2. /\ expired' \in {expired, FALSE} /\ cut' \in {cut, cut \cup {"timeout"}}
      /\ UNCHANGED <<res_f, res_b, upVars, ringVars, lwipVars, sockVars>>
  BY DEF Begin, Yield, Resume, TimesOut
<1> QED BY <1>1, <1>2 DEF TypeOK, Fault, upVars, ringVars, lwipVars, sockVars

LEMMA SpliceFTyped == ASSUME TypeOK, SpliceF PROVE TypeOK'
<1>1. /\ at' = "b"
      /\ UNCHANGED <<res_b, pcb, pcb_eof, ringVars, lwipVars, avail, srvEnd, sockErr, edge,
                     expired, cut>>
  BY DEF SpliceF
<1>2. /\ Wnd \in Nat /\ SockBuf \in Nat /\ Up \in Nat /\ queue \in 0 .. Wnd /\ out \in 0 .. Up
      /\ queue + out <= Up /\ unread \in 0 .. SockBuf
  BY AmountAssumption DEF TypeOK
<1>3. /\ queue' \in 0 .. Wnd /\ out' \in 0 .. Up /\ queue' + out' <= Up
      /\ unread' \in 0 .. SockBuf
  <2>1. CASE UNCHANGED <<queue, out, unread>>
    BY <1>2, <2>1
  <2>2. ASSUME NEW s \in 1 .. queue, s <= SockBuf - unread, queue' = queue - s,
               out' = out + s, unread' = unread + s
        PROVE  /\ queue' \in 0 .. Wnd /\ out' \in 0 .. Up /\ queue' + out' <= Up
               /\ unread' \in 0 .. SockBuf
    BY <1>2, <2>2
  <2> QED BY <2>1, <2>2 DEF SpliceF
<1>4. res_f' \in -1 .. 1 /\ shutWr' \in BOOLEAN
  <2>1. res_f' = 1 \/ res_f' = 0 \/ res_f' = -1 \/ res_f' = res_f
    BY DEF SpliceF
  <2>2. shutWr' = TRUE \/ shutWr' = shutWr
    BY DEF SpliceF
  <2>3. res_f' \in -1 .. 1
    BY <2>1 DEF TypeOK
  <2> QED BY <2>2, <2>3 DEF TypeOK
<1>5. at' \in Place
  BY <1>1 DEF Place
<1> QED BY <1>1, <1>3, <1>4, <1>5 DEF TypeOK, ringVars, lwipVars

\* tcp_splice_b.
LEMMA ReadBackRing == ASSUME IInv, ReadBack PROVE TypeOK' /\ RingInv'
<1>1. /\ at' \in {"w", "y"} /\ at' \in Place
      /\ UNCHANGED <<res_f, pcb, upVars, lwipVars, srvEnd, unread, sockErr, edge, expired, cut>>
  BY DEF ReadBack, Place
<1>2. /\ res_b \in -1 .. 1 /\ avail \in 0 .. Down /\ got \in 0 .. Down /\ got + avail <= Down
      /\ Down \in Nat /\ written \in 0 .. got
  BY AmountAssumption DEF IInv, TypeOK
<1>3. CASE UNCHANGED <<ringVars, avail>>
  <2>1. res_b' \in -1 .. 1
    BY <1>2 DEF ReadBack, NothingRead
  <2>2. TypeOK'
    BY <1>1, <1>3, <2>1 DEF IInv, TypeOK, ringVars, lwipVars, upVars
  <2>3. "mem" \in cut => res_b' = -1 /\ at' # "w"
    <3> SUFFICES ASSUME "mem" \in cut PROVE res_b' = -1 /\ at' # "w"
      OBVIOUS
    <3>1. res_b = -1
      BY DEF IInv, RingInv, Broken
    <3>2. res_b < 0 /\ ~(res_b >= 0)
      BY <3>1
    <3> QED BY <3>1, <3>2 DEF ReadBack
  <2>4. RingInv'
    BY <1>1, <1>3, <2>3, RingQuiet DEF IInv, lwipVars
  <2> QED BY <2>2, <2>4
<1>4. ASSUME NEW s \in 1 .. avail, s <= Bytes(Writing(ring)), res_b >= 0, res_b' = 1,
             ring' = WriteFinish(ring, s), data' = Filled(s), got' = got + s,
             avail' = avail - s
      PROVE  TypeOK' /\ RingInv'
  <2>1. RingInv' /\ ring' \in RingBuffer /\ data' \in [Cell -> 0 .. Down]
    BY <1>1, <1>4, RingFilled DEF IInv, lwipVars
  <2>2. /\ avail' \in 0 .. Down /\ got' \in 0 .. Down /\ got' + avail' <= Down
        /\ written \in 0 .. got'
    BY <1>2, <1>4
  <2>3. res_b' \in -1 .. 1
    BY <1>4
  <2>4. TypeOK'
    BY <1>1, <2>1, <2>2, <2>3 DEF IInv, TypeOK, lwipVars, upVars
  <2> QED BY <2>1, <2>4
<1> QED BY <1>3, <1>4 DEF ReadBack

LEMMA WriteBackRing == ASSUME IInv, WriteBack PROVE TypeOK' /\ RingInv'
<1>1. /\ at = "w" /\ at' = "y" /\ at' \in Place
      /\ UNCHANGED <<res_f, pcb, upVars, data, got, acked, sockVars, expired>>
  BY DEF WriteBack, Place
<1>2. "mem" \notin cut
  BY <1>1 DEF IInv, RingInv, Broken
<1>3. CASE UNCHANGED <<ring, mem, byte, written, cut>>
  <2>1. res_b' \in -1 .. 1 /\ finSent' \in BOOLEAN /\ lastAck' \in BOOLEAN
    <3>1. res_b' = -1 \/ res_b' = res_b \/ res_b' = 1
      BY DEF WriteBack
    <3>2. /\ finSent' = finSent \/ finSent' = (res_b < 0)
          /\ lastAck' = lastAck \/ lastAck' = (res_b < 0 /\ pcb_eof)
      BY DEF WriteBack
    <3>3. res_b' \in -1 .. 1
      BY <3>1 DEF IInv, TypeOK
    <3>4. finSent \in BOOLEAN /\ lastAck \in BOOLEAN
      BY DEF IInv, TypeOK
    <3>5. finSent' \in BOOLEAN
      <4>1. (res_b < 0) \in BOOLEAN
        OBVIOUS
      <4> QED BY <3>2, <3>4, <4>1, Zenon
    <3>6. lastAck' \in BOOLEAN
      BY <3>2, <3>4
    <3> QED BY <3>3, <3>5, <3>6
  <2>2. TypeOK'
    BY <1>1, <1>3, <2>1 DEF IInv, TypeOK, upVars, sockVars
  <2>3. RingInv'
    BY <1>1, <1>2, <1>3, RingQuiet DEF IInv, ringVars
  <2> QED BY <2>2, <2>3
<1>4. ASSUME NEW iov \in Accepted(Reading(ring)), TcpWrite(iov),
             ring' = ReadFinish(ring, ring.rda_size), UNCHANGED <<finSent, lastAck>>,
             \/ iov = Reading(ring) /\ res_b' = 1 /\ cut' = cut
             \/ res_b' = -1 /\ cut' = cut \cup {"mem"}
      PROVE  TypeOK' /\ RingInv'
  <2>1. /\ RingInv' /\ ring' \in RingBuffer /\ written' \in written .. got
        /\ mem' \in [1 .. Down -> Cell] /\ byte' \in [1 .. Down -> 0 .. Down]
    BY <1>1, <1>4, RingHanded DEF IInv
  <2>2. res_b' \in -1 .. 1
    BY <1>4
  <2>3. cut' \subseteq Fault
    BY <1>4 DEF IInv, TypeOK, Fault
  <2>4. written' \in 0 .. got /\ acked \in 0 .. written'
    BY <2>1, AmountAssumption DEF IInv, TypeOK
  <2>5. TypeOK'
    BY <1>1, <1>4, <2>1, <2>2, <2>3, <2>4 DEF IInv, TypeOK, upVars, sockVars
  <2> QED BY <2>1, <2>5
<1> QED BY <1>3, <1>4 DEF WriteBack

LEMMA SentRing ==
    ASSUME IInv, NEW n \in 1 .. Down, Sent(n) PROVE TypeOK' /\ RingInv'
<1>1. /\ RingInv' /\ ring' \in RingBuffer /\ acked' \in 0 .. written
      /\ mem' \in [1 .. Down -> Cell] /\ byte' \in [1 .. Down -> 0 .. Down]
  BY RingReleased DEF IInv
<1>2. at' \in Place
  BY PlacesTyped DEF IInv, Sent
<1> QED BY <1>1, <1>2 DEF IInv, Sent, TypeOK, upVars, sockVars

LEMMA CallbackTyped ==
    ASSUME TypeOK, (\E n \in 1 .. Up : Receive(n)) \/ ReceiveFin \/ PcbClosed \/ PcbError
                   \/ Terminate
    PROVE  TypeOK'
<1>1. /\ at' \in Place /\ pcb' \in BOOLEAN /\ pcb_eof' \in BOOLEAN /\ expired' \in BOOLEAN
      /\ cut' \subseteq Fault
      /\ UNCHANGED <<res_f, res_b, out, shutWr, ringVars, lwipVars, sockVars>>
  BY PlacesTyped DEF Receive, ReceiveFin, PcbClosed, PcbError, Terminate, TypeOK, Fault, upVars
<1>2. queue' \in 0 .. Wnd /\ queue' + out <= Up
  <2>1. /\ Wnd \in Nat /\ Up \in Nat /\ queue \in 0 .. Wnd /\ out \in 0 .. Up
        /\ queue + out <= Up
    BY AmountAssumption DEF TypeOK
  <2>2. ASSUME NEW n \in 1 .. Up, Receive(n) PROVE queue' \in 0 .. Wnd /\ queue' + out <= Up
    BY <2>1, <2>2 DEF Receive
  <2> QED BY <2>1, <2>2 DEF ReceiveFin, PcbClosed, PcbError, Terminate, upVars
<1> QED BY <1>1, <1>2 DEF TypeOK, ringVars, lwipVars, sockVars

LEMMA SocketTyped ==
    ASSUME TypeOK, (\E n \in 1 .. Down : ServerSend(n)) \/ ServerEnd \/ ServerRead
                   \/ SocketError \/ Reactor
    PROVE  TypeOK'
<1>1. /\ at' \in Place /\ srvEnd' \in BOOLEAN /\ sockErr' \in BOOLEAN /\ edge' \in BOOLEAN
      /\ cut' \subseteq Fault
      /\ UNCHANGED <<res_f, res_b, pcb, upVars, ringVars, lwipVars, expired>>
  BY PlacesTyped DEF ServerSend, ServerEnd, ServerRead, SocketError, Reactor, TypeOK, Fault
<1>2. avail' \in 0 .. Down /\ got + avail' <= Down /\ unread' \in 0 .. SockBuf
  <2>1. /\ Down \in Nat /\ SockBuf \in Nat /\ avail \in 0 .. Down /\ got \in 0 .. Down
        /\ got + avail <= Down /\ unread \in 0 .. SockBuf
    BY AmountAssumption DEF TypeOK
  <2>2. ASSUME NEW n \in 1 .. Down, ServerSend(n)
        PROVE  avail' \in 0 .. Down /\ got + avail' <= Down /\ unread' \in 0 .. SockBuf
    BY <2>1, <2>2 DEF ServerSend
  <2>3. CASE ServerEnd \/ ServerRead \/ SocketError \/ Reactor
    BY <2>1, <2>3 DEF ServerEnd, ServerRead, SocketError, Reactor
  <2> QED BY <2>2, <2>3
<1> QED BY <1>1, <1>2 DEF TypeOK, upVars, ringVars, lwipVars

-----------------------------------------------------------------------------
LEMMA InitInv == Init => IInv
<1> SUFFICES ASSUME Init PROVE IInv
  OBVIOUS
<1>1. MaxSize \in Nat /\ MaxSize > 0 /\ 0 \in Cell /\ 0 \in 0 .. MaxSize
  BY SizeAssumption DEF Cell
<1>2. ring.rp = 0 /\ ring.wp = 0 /\ ring.rda_size = 0 /\ ring.use_size = 0 /\ ring \in RingBuffer
  BY <1>1 DEF Init, EmptyRing, RingBuffer
<1>3. TypeOK
  <2>1. /\ 1 \in -1 .. 1 /\ 0 \in 0 .. Wnd /\ 0 \in 0 .. Up /\ 0 + 0 <= Up /\ 0 \in 0 .. Down
        /\ 0 + 0 <= Down /\ 0 \in 0 .. SockBuf /\ 0 \in 0 .. 0
    BY AmountAssumption
  <2>2. data \in [Cell -> 0 .. Down] /\ mem \in [1 .. Down -> Cell]
        /\ byte \in [1 .. Down -> 0 .. Down]
    BY <1>1, <2>1 DEF Init
  <2> QED BY <1>2, <2>1, <2>2 DEF Init, TypeOK, Place
<1>4. RingInv
  <2>1. Wrap(0 + 0) = 0
    BY <1>1 DEF Wrap
  <2> QED BY <1>2, <2>1 DEF Init, RingInv, Intact, Broken, Lent
<1>5. EndInv
  BY DEF Init, EndInv, Closing, Unhurt, GracefulEnd
<1> QED BY <1>3, <1>4, <1>5 DEF IInv

LEMMA NextInv == IInv /\ [Next]_vars => IInv'
<1> SUFFICES ASSUME IInv, [Next]_vars PROVE IInv'
  OBVIOUS
<1> USE DEF IInv
<1>1. CASE SpliceF
  <2>1. RingInv'
    BY <1>1, RingQuiet DEF SpliceF, RingInv, Broken, lwipVars
  <2> QED BY <1>1, <2>1, SpliceFTyped, SpliceFEnd
<1>2. CASE ReadBack
  BY <1>2, ReadBackRing, ReadBackEnd
<1>3. CASE WriteBack
  BY <1>3, WriteBackRing, WriteBackEnd
<1>4. CASE Begin \/ Yield \/ Resume \/ TimesOut
  <2>1. /\ at' # "w" /\ UNCHANGED <<res_b, ringVars, lwipVars>>
        /\ ("mem" \in cut' <=> "mem" \in cut)
    BY <1>4 DEF Begin, Yield, Resume, TimesOut, Go, DrainPlace
  <2>2. RingInv'
    BY <2>1, RingQuiet DEF RingInv, Broken, lwipVars
  <2>3. TypeOK'
    BY <1>4, TaskTyped
  <2>4. EndInv'
    BY <1>4, BeginEnd, YieldEnd, ResumeEnd, SocketEnd
  <2> QED BY <2>2, <2>3, <2>4
<1>5. CASE (\E n \in 1 .. Up : Receive(n)) \/ ReceiveFin \/ PcbClosed \/ PcbError \/ Terminate
  <2>1. /\ at' # "w" /\ UNCHANGED <<res_b, ringVars, lwipVars>>
        /\ ("mem" \in cut' <=> "mem" \in cut)
    BY <1>5 DEF Receive, ReceiveFin, PcbClosed, PcbError, Terminate, Woken, Yielded
  <2>2. RingInv'
    BY <2>1, RingQuiet DEF RingInv, Broken, lwipVars
  <2>3. TypeOK'
    BY <1>5, CallbackTyped
  <2>4. EndInv'
    BY <1>5, CallbackEnd, PcbEnd
  <2> QED BY <2>2, <2>3, <2>4
<1>6. CASE \E n \in 1 .. Down : Sent(n)
  BY <1>6, SentRing, CallbackEnd
<1>7. CASE (\E n \in 1 .. Down : ServerSend(n)) \/ ServerEnd \/ ServerRead \/ SocketError \/ Reactor
  <2>1. /\ (at' = "w" => at = "w") /\ UNCHANGED <<res_b, ringVars, lwipVars>>
        /\ ("mem" \in cut' <=> "mem" \in cut)
    BY <1>7 DEF ServerSend, ServerEnd, ServerRead, SocketError, Reactor, Woken, Yielded
  <2>2. RingInv'
    BY <2>1, RingQuiet DEF RingInv, Broken, lwipVars
  <2>3. TypeOK'
    BY <1>7, SocketTyped
  <2>4. EndInv'
    BY <1>7, SocketEnd
  <2> QED BY <2>2, <2>3, <2>4
<1>8. CASE UNCHANGED vars
  <2>1. RingInv'
    BY <1>8, RingQuiet DEF vars, RingInv, Broken, lwipVars
  <2>2. TypeOK'
    BY <1>8 DEF vars, TypeOK, upVars, ringVars, lwipVars, sockVars
  <2>3. EndInv'
    BY <1>8 DEF vars, EndInv, Closing, Unhurt, GracefulEnd, InEnd, UpEnd, upVars, ringVars,
       lwipVars, sockVars
  <2> QED BY <2>1, <2>2, <2>3
<1> QED BY <1>1, <1>2, <1>3, <1>4, <1>5, <1>6, <1>7, <1>8 DEF Next, Task, Done

\* The inductive invariant holds throughout the session.
THEOREM InvHolds == Spec => []IInv
BY InitInv, NextInv, PTL DEF Spec

\* hev_socks5_session_tcp never lets the socket overwrite memory that lwIP may
\* still send from, for every buffer size and whatever fails.
THEOREM LentMemoryIntact == Spec => []LentIntact
<1>1. IInv => LentIntact
  BY DEF IInv, RingInv, Lent, LentIntact
<1> QED BY <1>1, InvHolds, PTL

\* The app is sent the server's bytes, each once and in order, as long as
\* tcp_write does not fail.
THEOREM BytesInOrder == Spec => []StreamIntact
<1>1. IInv => StreamIntact
  BY DEF IInv, RingInv, Intact, StreamIntact
<1> QED BY <1>1, InvHolds, PTL

\* hev_socks5_session_tcp_splice returns without a fault only when both ends
\* were passed on and every byte was acknowledged.
THEOREM EndsGracefully == Spec => []GracefulEnd
<1>1. IInv => GracefulEnd
  BY DEF IInv, EndInv
<1> QED BY <1>1, InvHolds, PTL

-----------------------------------------------------------------------------
(***************************************************************************)
(* Both directions are relays.                                             *)
(***************************************************************************)

\* From the server to the app: tcp_splice_b reads nothing after the end, lwIP
\* gets nothing after the end was passed on, and that is when all was.
LEMMA DownstreamStep == ASSUME IInv, [Next]_vars PROVE Downstream!Next
<1>1. /\ got \in Nat /\ written \in Nat /\ avail \in Nat /\ written <= got
      /\ res_b \in -1 .. 1
  BY AmountAssumption DEF IInv, TypeOK
<1>2. CASE ReadBack
  <2>1. UNCHANGED <<written, finSent, srvEnd, sockErr>>
    BY <1>2 DEF ReadBack, lwipVars
  <2>2. CASE UNCHANGED <<got, avail>>
    BY <1>1, <2>1, <2>2 DEF Downstream!Next
  <2>3. ASSUME NEW s \in 1 .. avail, got' = got + s, avail' = avail - s, ~sockErr, res_b >= 0
        PROVE  Downstream!Next
    <3>1. ~finSent
      BY <1>1, <2>3 DEF IInv, EndInv, Closing
    <3>2. avail # 0 /\ got' \in Nat /\ got' >= got /\ written \in written .. got'
      BY <1>1, <2>3
    <3> QED BY <2>1, <2>3, <3>1, <3>2 DEF Downstream!Next
  <2> QED BY <1>2, <2>2, <2>3 DEF ReadBack, ringVars
<1>3. CASE WriteBack
  <2>1. /\ UNCHANGED <<got, srvEnd, sockErr, avail>> /\ at = "w" /\ ~finSent
    BY <1>3 DEF WriteBack, sockVars, IInv, EndInv, Closing
  <2>2. CASE UNCHANGED <<written, finSent>>
    BY <1>1, <2>1, <2>2 DEF Downstream!Next
  <2>3. CASE pcb /\ ring.rda_size = 0 /\ finSent' = (res_b < 0) /\ UNCHANGED written
    <3>1. finSent' => InEnd
      <4>1. res_b < 0 => res_b = -1
        BY <1>1
      <4>2. res_b = -1 => InEnd
        BY <2>1 DEF IInv, EndInv, Closing
      <4> QED BY <2>3, <4>1, <4>2, Zenon
    <3>2. written = got
      <4>1. ring.rda_size = got - written
        BY <2>1 DEF IInv, RingInv, Intact, Broken
      <4> QED BY <1>1, <2>3, <4>1
    <3> QED BY <1>1, <2>1, <2>3, <3>1, <3>2 DEF Downstream!Next, InEnd
  <2>4. ASSUME NEW iov \in Accepted(Reading(ring)), TcpWrite(iov), UNCHANGED finSent
        PROVE  Downstream!Next
    <3>1. ring.rp \in Cell /\ ring.rda_size \in 0 .. MaxSize
      BY DEF IInv, TypeOK, RingBuffer
    <3>2. ring.rda_size = got - written
      BY <2>1 DEF IInv, RingInv, Intact, Broken
    <3>3. Bytes(iov) \in 0 .. ring.rda_size
      BY <3>1, <2>4, AcceptedCover DEF Reading
    <3>4. written' = written + Bytes(iov)
      BY <2>4 DEF TcpWrite
    <3>5. written' \in written .. got
      BY <1>1, <3>2, <3>3, <3>4
    <3> QED BY <1>1, <2>1, <2>4, <3>5 DEF Downstream!Next
  <2> QED BY <1>3, <2>2, <2>3, <2>4 DEF WriteBack
<1>4. CASE (\E n \in 1 .. Down : ServerSend(n)) \/ ServerEnd \/ SocketError
  <2>1. UNCHANGED <<got, written, finSent>>
    BY <1>4 DEF ServerSend, ServerEnd, SocketError, ringVars, lwipVars
  <2>2. InEnd => InEnd'
    BY <1>4 DEF ServerSend, ServerEnd, SocketError, InEnd
  <2> QED BY <1>1, <2>1, <2>2 DEF Downstream!Next, InEnd
<1>5. CASE UNCHANGED <<got, written, finSent, srvEnd, avail, sockErr>>
  BY <1>1, <1>5 DEF Downstream!Next
<1>6. CASE Begin \/ SpliceF \/ Yield \/ Resume \/ TimesOut
  BY <1>5, <1>6 DEF Begin, SpliceF, Yield, Resume, TimesOut, ringVars, lwipVars, sockVars
<1>7. CASE \/ \E n \in 1 .. Up : Receive(n)
           \/ ReceiveFin
           \/ \E n \in 1 .. Down : Sent(n)
           \/ PcbClosed \/ PcbError \/ Terminate
  BY <1>5, <1>7 DEF Receive, ReceiveFin, Sent, PcbClosed, PcbError, Terminate, ringVars,
     lwipVars, sockVars
<1>8. CASE ServerRead \/ Reactor
  BY <1>5, <1>8 DEF ServerRead, Reactor, ringVars, lwipVars
<1>9. CASE UNCHANGED vars
  BY <1>5, <1>9 DEF vars, ringVars, lwipVars, sockVars
<1> QED BY <1>2, <1>3, <1>4, <1>6, <1>7, <1>8, <1>9 DEF Next, Task, Done

\* From the app to the server: tcp_splice_f shuts the socket down when the app
\* has closed its side and the queue is empty.
LEMMA UpstreamStep == ASSUME IInv, [Next]_vars PROVE Upstream!Next
<1>1. queue \in Nat /\ out \in Nat /\ res_f \in -1 .. 1
  BY AmountAssumption DEF IInv, TypeOK
<1>2. shutWr => res_f = -1 /\ UpEnd
  BY DEF IInv, EndInv, Closing
<1>3. CASE SpliceF
  <2>1. UNCHANGED pcb_eof
    BY <1>3 DEF SpliceF
  <2>2. ASSUME NEW s \in 1 .. queue, res_f >= 0, queue' = queue - s, out' = out + s,
               UNCHANGED shutWr
        PROVE  Upstream!Next
    <3>1. ~shutWr
      BY <1>1, <1>2, <2>2
    <3>2. out' + queue' = out + queue /\ out' \in out .. out + queue
      BY <1>1, <2>2
    <3> QED BY <1>1, <2>1, <2>2, <3>1, <3>2 DEF Upstream!Next
  <2>3. CASE UNCHANGED <<queue, out, shutWr>>
    BY <1>1, <2>1, <2>3 DEF Upstream!Next
  <2>4. CASE UpEnd /\ shutWr' = TRUE /\ UNCHANGED <<queue, out>>
    BY <1>1, <2>1, <2>4 DEF Upstream!Next, UpEnd
  <2> QED BY <1>3, <2>2, <2>3, <2>4 DEF SpliceF
<1>4. ASSUME NEW n \in 1 .. Up, Receive(n) PROVE Upstream!Next
  <2>1. UNCHANGED <<pcb_eof, out, shutWr>> /\ ~pcb_eof /\ queue' = queue + n /\ ~shutWr
    BY <1>2, <1>4 DEF Receive, UpEnd
  <2> QED BY <1>1, <2>1 DEF Upstream!Next
<1>5. CASE ReceiveFin
  <2>1. UNCHANGED <<queue, out, shutWr>> /\ pcb_eof'
    BY <1>5 DEF ReceiveFin
  <2> QED BY <1>1, <2>1 DEF Upstream!Next
<1>6. CASE UNCHANGED upVars
  BY <1>1, <1>6 DEF Upstream!Next, upVars
<1>7. CASE Begin \/ ReadBack \/ WriteBack \/ Yield \/ Resume \/ TimesOut
  BY <1>6, <1>7 DEF Begin, ReadBack, WriteBack, Yield, Resume, TimesOut
<1>8. CASE (\E n \in 1 .. Down : Sent(n)) \/ PcbClosed \/ PcbError \/ Terminate
  BY <1>6, <1>8 DEF Sent, PcbClosed, PcbError, Terminate
<1>9. CASE \/ \E n \in 1 .. Down : ServerSend(n)
           \/ ServerEnd \/ ServerRead \/ SocketError \/ Reactor
  BY <1>6, <1>9 DEF ServerSend, ServerEnd, ServerRead, SocketError, Reactor
<1>10. CASE UNCHANGED vars
  BY <1>6, <1>10 DEF vars
<1> QED BY <1>3, <1>4, <1>5, <1>7, <1>8, <1>9, <1>10 DEF Next, Task, Done

\* A session implements module Relay in both directions, whatever fails: no
\* byte is made up or passed on after the end, and the end of one side is
\* announced to the other only after every byte before it.
THEOREM SessionRelays == Spec => Relays
<1>1. Init => Downstream!Init /\ Upstream!Init
  <2> SUFFICES ASSUME Init PROVE Downstream!Init /\ Upstream!Init
    OBVIOUS
  <2>1. /\ got = 0 /\ written = 0 /\ srvEnd = FALSE /\ sockErr = FALSE /\ finSent = FALSE
        /\ out = 0 /\ queue = 0 /\ pcb_eof = FALSE /\ shutWr = FALSE
    BY DEF Init
  <2>2. ((srvEnd /\ avail = 0) \/ sockErr) = FALSE
    BY <2>1
  <2>3. Downstream!Init
    BY <2>1, <2>2 DEF Downstream!Init
  <2>4. Upstream!Init
    <3>1. out + queue = 0
      BY <2>1
    <3> QED BY <2>1, <3>1, Zenon DEF Upstream!Init
  <2> QED BY <2>3, <2>4
<1>2. IInv /\ [Next]_vars => Downstream!Next /\ Upstream!Next
  BY DownstreamStep, UpstreamStep
<1> QED BY <1>1, <1>2, InvHolds, PTL DEF Spec, Relays, Downstream!Spec, Upstream!Spec
=============================================================================
