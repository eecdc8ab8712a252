---------------------------- MODULE MCTunnelTasks ----------------------------
(***************************************************************************)
(* Instances of TunnelTasks for TLC.  Session objects are interchangeable. *)
(***************************************************************************)
EXTENDS TunnelTasks, TLC

Symmetry == Permutations(Session)
=============================================================================
