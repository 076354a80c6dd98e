---------------------------- MODULE MCController ----------------------------
(***************************************************************************)
(* Two mutators, one marking task: instance of Controller for TLC.         *)
(***************************************************************************)
EXTENDS Controller, TLC

CONSTANTS m1, m2, w1, w2
=============================================================================
