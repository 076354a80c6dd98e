--------------------------- MODULE MCParallelMark ---------------------------
(***************************************************************************)
(* An instance of ParallelMark for TLC.                                    *)
(***************************************************************************)
EXTENDS ParallelMark

CONSTANTS w1, w2, a, b, c

\* Every graph on three objects in which c is a leaf: chains, forks, cycles
\* and self-references of a and b, with and without garbage.
LeafGraphs == {g \in [Objects -> SUBSET Objects] : g[c] = {}}
=============================================================================
