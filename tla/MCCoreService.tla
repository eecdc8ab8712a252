--------------------------- MODULE MCCoreService ---------------------------
(* CoreService on small sets of coroutines and service instances. *)
EXTENDS CoreService, TLC

\* Coroutines and instances are interchangeable names (safety runs only).
Symmetry == Permutations(Co) \cup Permutations(Inst)
=============================================================================
