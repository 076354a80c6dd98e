------------------------------ MODULE Marking ------------------------------
(***************************************************************************)
(* What a marking loop promises: it marks reachable objects one after the  *)
(* other, in any order, says that it is done only when all of them are     *)
(* marked, and may be given up before that, but not after.                 *)
(***************************************************************************)
CONSTANTS Objects, Graphs, Roots

VARIABLES refs, marked, outcome

vars == <<refs, marked, outcome>>

Closed(S) == \A o \in S : refs[o] \subseteq S

\* What the roots lead to: the objects of the least closed set they are in.
Reachable ==
  {o \in Objects : \A S \in SUBSET Objects : Roots \subseteq S /\ Closed(S) => o \in S}

Init == refs \in Graphs /\ marked = Roots /\ outcome = "open"

\* Workers that have not noticed that the loop was given up still mark.
Mark(o) ==
  /\ outcome # "complete" /\ o \in Reachable \ marked
  /\ marked' = marked \cup {o}
  /\ UNCHANGED <<refs, outcome>>

Complete ==
  /\ outcome = "open" /\ marked = Reachable
  /\ outcome' = "complete"
  /\ UNCHANGED <<refs, marked>>

Abandon ==
  /\ outcome = "open"
  /\ outcome' = "abandoned"
  /\ UNCHANGED <<refs, marked>>

Next == Complete \/ Abandon \/ \E o \in Objects : Mark(o)

Spec == Init /\ [][Next]_vars
=============================================================================
