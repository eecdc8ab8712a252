------------------------- MODULE MCLocalConfigServer -------------------------
(***************************************************************************)
(* LocalConfigServer with interchangeable jobs and keys.                   *)
(***************************************************************************)
EXTENDS LocalConfigServer, TLC

Symmetry == Permutations(Job) \cup Permutations(Profile)
=============================================================================
