---------------------------- MODULE HevRingBuffer ----------------------------
(***************************************************************************)
(* src/misc/hev-ring-buffer.c as operations on the four counters of a      *)
(* buffer.  Reading is in two halves: read_finish says that bytes were     *)
(* handed on, read_release that their memory is free again.  Until then    *)
(* they count in use_size, and the writer must not touch them.             *)
(***************************************************************************)
EXTENDS Naturals, Sequences

CONSTANT
    MaxSize          \* max_size, of misc.tcp-buffer-size

ASSUME SizeAssumption == MaxSize \in Nat \ {0}

Cell == 0 .. MaxSize - 1

RingBuffer == [rp : Cell, wp : Cell, rda_size : 0 .. MaxSize,
               use_size : 0 .. MaxSize]

\* hev_ring_buffer_alloca.
EmptyRing == [rp |-> 0, wp |-> 0, rda_size |-> 0, use_size |-> 0]

\* The iovecs that cover size bytes from position pos on: one, or two if they
\* reach over the end.
Vectors(pos, size) ==
    LET upper_size == MaxSize - pos
    IN  IF size = 0 THEN <<>>
        ELSE IF size <= upper_size
        THEN <<[base |-> pos, len |-> size]>>
        ELSE <<[base |-> pos, len |-> upper_size],
               [base |-> 0, len |-> size - upper_size]>>

\* hev_ring_buffer_reading.
Reading(r) == Vectors(r.rp, r.rda_size)

\* hev_ring_buffer_read_finish.
ReadFinish(r, size) ==
    [r EXCEPT !.rp = (@ + size) % MaxSize, !.rda_size = @ - size]

\* Mutant: the write position is left where it is.
ReadReleaseKeepWp(r, size) ==
    IF r.use_size = size
    THEN [r EXCEPT !.use_size = 0, !.rp = 0]
    ELSE [r EXCEPT !.use_size = @ - size]

\* Mutant: it starts again at 0 when all is handed on, before it is released.
ReadReleaseEarly(r, size) ==
    IF r.rda_size = 0
    THEN [r EXCEPT !.use_size = @ - size, !.rp = 0, !.wp = 0]
    ELSE [r EXCEPT !.use_size = @ - size]

\* hev_ring_buffer_read_release: an empty buffer starts again at 0.
ReadRelease(r, size) ==
    IF r.use_size = size
    THEN [r EXCEPT !.use_size = 0, !.rp = 0, !.wp = 0]
    ELSE [r EXCEPT !.use_size = @ - size]

\* hev_ring_buffer_writing.
Writing(r) == Vectors(r.wp, MaxSize - r.use_size)

\* hev_ring_buffer_write_finish.
WriteFinish(r, size) ==
    [r EXCEPT !.wp = (@ + size) % MaxSize,
              !.use_size = @ + size, !.rda_size = @ + size]

\* The number of bytes in a sequence of at most two iovecs, and the position
\* of byte number j (from 0) of them.
Bytes(iov) ==
    IF Len(iov) = 0 THEN 0
    ELSE iov[1].len + (IF Len(iov) = 1 THEN 0 ELSE iov[2].len)

Position(iov, j) ==
    IF j < iov[1].len THEN iov[1].base + j
    ELSE iov[2].base + (j - iov[1].len)
=============================================================================
