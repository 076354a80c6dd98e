----------------------------- MODULE MCGCCycle -----------------------------
(***************************************************************************)
(* An instance of GCCycle for TLC: two cells in one region, so that the    *)
(* region has room for one object while it still holds another.            *)
(***************************************************************************)
EXTENDS GCCycle, TLC

CONSTANTS m1, w1, w2, a, b, r

OneRegion == [x \in {a, b} |-> r]

\* Workers are interchangeable, and so are the cells of the region.
Symmetry == Permutations(Workers) \cup Permutations(Cells)
=============================================================================
