------------------------------ MODULE RunPhase ------------------------------
(***************************************************************************)
(* What hev_socks5_tunnel_run promises to the code around it: it goes on   *)
(* until it is asked to stop, and then it returns.  NativeTunnel relies on *)
(* this (its action RunReturns); TunnelTasks implements it.                *)
(***************************************************************************)
VARIABLES
    asked,           \* a stop was requested
    ended            \* the scheduler has returned

Init == asked \in BOOLEAN /\ ended = FALSE

Ask == asked' = TRUE /\ UNCHANGED ended

End == asked /\ ended' = TRUE /\ UNCHANGED asked

Next == Ask \/ End

Spec == Init /\ [][Next]_<<asked, ended>> /\ WF_<<asked, ended>>(End)
=============================================================================
