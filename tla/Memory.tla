------------------------------- MODULE Memory -------------------------------
(***************************************************************************)
(* What an allocator promises: a block of heap memory is handed out only   *)
(* while no unit of it belongs to another block in use.  A block is a pair *)
(* <<first unit, number of units>>.                                        *)
(***************************************************************************)
EXTENDS Naturals

CONSTANT Blocks   \* the blocks that may ever be handed out

VARIABLE inUse    \* the blocks in use

Units(b) == b[1] .. (b[1] + b[2] - 1)

Overlap(b, c) == Units(b) \cap Units(c) # {}

Init == inUse = {}

HandOut(b) ==
  /\ \A c \in inUse : ~Overlap(b, c)
  /\ inUse' = inUse \cup {b}

\* Blocks are taken back in any number.
TakeBack == inUse' \subseteq inUse

Next == TakeBack \/ \E b \in Blocks : HandOut(b)

Spec == Init /\ [][Next]_inUse
=============================================================================
