------------------------------ MODULE Sessions ------------------------------
(***************************************************************************)
(* The names shared by the modules that model a VPN connection.  A start   *)
(* coroutine establishes at most one tun device, generates at most one     *)
(* pair of SOCKS credentials and creates at most one xray controller, so a *)
(* member of Co names the coroutine, its tun descriptor, its credentials   *)
(* and its controller.                                                     *)
(***************************************************************************)
CONSTANTS
    Co,     \* start coroutines (CoreService.startConnection)
    Inst,   \* instances of the Android service object
    None    \* null

ASSUME NoneAssumption == None \notin Co /\ None \notin Inst

\* A nullable reference to something a coroutine made.
CoRef == Co \cup {None}
=============================================================================
