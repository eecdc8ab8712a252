------------------------------- MODULE Relay -------------------------------
(***************************************************************************)
(* What a session promises for one direction of a connection: bytes go out *)
(* in the order they came in, none is dropped or made up, and the end of   *)
(* the stream is announced only after the input has ended and every byte   *)
(* of it has gone out.  A relay may break down at any time, but then it    *)
(* says nothing more.                                                      *)
(***************************************************************************)
EXTENDS Naturals

VARIABLES
    taken,           \* the number of bytes that have come in
    given,           \* the number of bytes that have gone out
    inEnd,           \* the input has ended
    outEnd           \* the end was announced

Init == taken = 0 /\ given = 0 /\ inEnd \in BOOLEAN /\ outEnd = FALSE

Next ==
    /\ taken' >= taken /\ (inEnd => inEnd' /\ taken' = taken)
    /\ given' \in given .. taken'
    /\ outEnd => outEnd' /\ given' = given
    /\ outEnd' /\ ~outEnd => inEnd' /\ given' = taken'

Spec == Init /\ [][Next]_<<taken, given, inEnd, outEnd>>
=============================================================================
