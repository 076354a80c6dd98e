-------------------------------- MODULE Pause --------------------------------
(***************************************************************************)
(* What stopping promises to whoever opens a pause: it begins when nobody  *)
(* runs, nobody starts before it ends, and what it looks at stays as it    *)
(* is.                                                                     *)
(***************************************************************************)
CONSTANT Threads

VARIABLES
  running,  \* the threads at work
  paused,
  world     \* what work may change and a pause relies on

vars == <<running, paused, world>>

Init == running = {} /\ paused = FALSE

Start(t) ==
  /\ ~paused
  /\ running' = running \cup {t}
  /\ UNCHANGED paused

Stop(t) ==
  /\ ~paused
  /\ running' = running \ {t}
  /\ UNCHANGED paused

\* Between pauses the world may change in any way.
Work ==
  /\ ~paused
  /\ UNCHANGED <<running, paused>>

Open ==
  /\ ~paused /\ running = {}
  /\ paused' = TRUE
  /\ UNCHANGED <<running, world>>

Close ==
  /\ paused
  /\ paused' = FALSE
  /\ UNCHANGED <<running, world>>

Next == Work \/ Open \/ Close \/ \E t \in Threads : Start(t) \/ Stop(t)

Spec == Init /\ [][Next]_vars
=============================================================================
