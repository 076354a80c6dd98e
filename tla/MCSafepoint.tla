---------------------------- MODULE MCSafepoint ----------------------------
(***************************************************************************)
(* An instance of Safepoint for TLC: the main thread, one spawned thread   *)
(* and the collector.                                                      *)
(***************************************************************************)
EXTENDS Safepoint

CONSTANTS m, t1
=============================================================================
