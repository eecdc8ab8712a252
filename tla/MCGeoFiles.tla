----------------------------- MODULE MCGeoFiles -----------------------------
(***************************************************************************)
(* GeoFiles for TLC.  Two updaters are at work at once, and files that two *)
(* writers have had in hand are looked at, only in behaviours without an   *)
(* event: that is the first start of a new installation, which queues both *)
(* workers.                                                                *)
(***************************************************************************)
EXTENDS GeoFiles, FiniteSets

AtWork == {u \in Updater : up[u].pc \notin {"idle", "restart"}}

Explored == left = MaxEvents \/ (Cardinality(AtWork) <= 1 /\ overlap = {})
=============================================================================
