----------------------------- MODULE MCRegions ------------------------------
(***************************************************************************)
(* An instance of Regions for TLC.                                         *)
(***************************************************************************)
EXTENDS Regions

CONSTANTS m1, m2
=============================================================================
