---------------------------- MODULE MCObjStorage ----------------------------
(* Instance of ObjStorage: two clients, blocks of two entries, a first      *)
(* array of one block.  Many calls without readers, or few with two.        *)
EXTENDS ObjStorage, TLC

CONSTANTS c1, c2, r1, r2

MCEntries == 0 .. 1
MCBudgets == {<<5, 0>>, <<3, 2>>}
MCSymmetry == Permutations(Clients) \cup Permutations(Readers)
=============================================================================
