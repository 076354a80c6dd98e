---------------------------- MODULE ParallelMark ----------------------------
(***************************************************************************)
(* The parallel marking loop of heap/mark.rs: MarkingTask::run on every    *)
(* worker, the queues of SlotVisitor and MarkQueueSet, and the Terminator. *)
(* The heap graph is fixed, as it is in STWMark::mark and ConcMark::finish *)
(* (Cancellable = FALSE) and between two mutator writes in ConcMark::mark  *)
(* (Cancellable = TRUE).                                                   *)
(*                                                                         *)
(* A task is an object.  Queues are sets: an object is pushed only by the  *)
(* visit that won its mark bit, so no queue holds it twice, and no         *)
(* property depends on the order in which tasks leave a queue.  A worker   *)
(* visits the references of its task one at a time; looking into the own   *)
(* queues, the injector and the other workers' deques are separate steps.  *)
(*                                                                         *)
(* Definitions named Bug... are no part of the specification: each is a    *)
(* definition with a plausible mistake, which a property must notice.      *)
(***************************************************************************)
EXTENDS Naturals, FiniteSets

CONSTANTS
  Workers,        \* marking workers, parallel_gc_threads of them
  Objects,
  Graphs,         \* the heap graphs considered
  Roots,          \* objects root_set().process() marks and pushes
  Cancellable,    \* the CANCELLABLE parameter of MarkingTask::run
  NoTask,
  SegmentSize,    \* Segment::SEGMENT_SIZE, capacity of a worker's local queue
  DefensiveAfter, \* pushes between two rounds of defensive_push (256)
  DefensiveMin    \* local length defensive_push leaves alone (4)

ASSUME WorkersAssumption == IsFiniteSet(Workers) /\ Workers # {}
ASSUME GraphAssumption ==
  /\ Graphs \subseteq [Objects -> SUBSET Objects]
  /\ Roots \subseteq Objects
  /\ NoTask \notin Objects \cup Workers
ASSUME CancellableAssumption == Cancellable \in BOOLEAN
ASSUME BoundsAssumption ==
  SegmentSize \in Nat /\ DefensiveAfter \in Nat /\ DefensiveMin \in Nat

VARIABLES
  refs,       \* the references of every object
  marked,     \* the mark bitmap
  local,      \* SlotVisitor::local of every worker, invisible to the others
  deque,      \* SlotVisitor::worker of every worker, open to stealing
  injector,   \* MarkQueueSet::injector
  task,       \* the object a worker is tracing
  todo,       \* the references of it not visited yet
  pushes,     \* SlotVisitor::marked, pushes since the last defensive round
  worked,     \* the worker did some task in this round of the loop
  nworkers,   \* Terminator::nworkers
  pc,
  cancelled   \* heap.cancelled_gc() would return true

queues == <<local, deque, injector>>
loopvars == <<nworkers, cancelled>>
vars == <<refs, marked, queues, task, todo, pushes, worked, pc, loopvars>>

Goto(w, to) == pc' = [pc EXCEPT ![w] = to]

\* root_set().process() has marked the roots and pushed them: to the injector,
\* or, with parallel root tasks, to the workers' own queues (segment, deque).
Init ==
  /\ refs \in Graphs
  /\ marked = Roots
  /\ \E home \in [Roots -> Workers \cup {NoTask}], kept \in [Workers -> SUBSET Roots] :
       LET own(w) == {r \in Roots : home[r] = w}
       IN /\ \A w \in Workers :
               /\ kept[w] \subseteq own(w)
               /\ \/ kept[w] = own(w) /\ Cardinality(kept[w]) <= SegmentSize
                  \/ kept[w] # own(w) /\ Cardinality(kept[w]) = SegmentSize
          /\ injector = own(NoTask)
          /\ local = kept
          /\ deque = [w \in Workers |-> own(w) \ kept[w]]
  /\ task = [w \in Workers |-> NoTask]
  /\ todo = [w \in Workers |-> {}]
  /\ pushes = [w \in Workers |-> 0]
  /\ worked = [w \in Workers |-> FALSE]
  /\ nworkers = Cardinality(Workers)
  /\ pc = [w \in Workers |-> "loop"]
  /\ cancelled = FALSE

\* A mutator whose allocation failed cancels the cycle at any moment.
CancelGC ==
  /\ Cancellable /\ ~cancelled
  /\ cancelled' = TRUE
  /\ UNCHANGED <<refs, marked, queues, task, todo, pushes, worked, pc, nworkers>>
\* A cancelled worker that takes itself out of the Terminator.
BugLoopTopLeaves(w) ==
  /\ pc[w] = "loop"
  /\ Goto(w, IF cancelled THEN "cancelled" ELSE "pop")
  /\ nworkers' = IF cancelled THEN nworkers - 1 ELSE nworkers
  /\ worked' = [worked EXCEPT ![w] = FALSE]
  /\ UNCHANGED <<refs, marked, queues, task, todo, pushes, cancelled>>

\* The top of the loop: leave when cancelled, else start a round.
LoopTop(w) ==
  /\ pc[w] = "loop"
  /\ Goto(w, IF cancelled THEN "cancelled" ELSE "pop")
  /\ worked' = [worked EXCEPT ![w] = FALSE]
  /\ UNCHANGED <<refs, marked, queues, task, todo, pushes, loopvars>>

-----------------------------------------------------------------------------
(***************************************************************************)
(* SlotVisitor::pop: own segment, own deque, injector, other deques.       *)
(***************************************************************************)
StartTask(w, o) ==
  /\ task' = [task EXCEPT ![w] = o]
  /\ todo' = [todo EXCEPT ![w] = refs[o]]
  /\ Goto(w, "scan")
  /\ UNCHANGED <<refs, marked, pushes, worked, loopvars>>

PopLocal(w) ==
  /\ pc[w] = "pop"
  /\ \E o \in local[w] :
       /\ local' = [local EXCEPT ![w] = @ \ {o}]
       /\ StartTask(w, o)
  /\ UNCHANGED <<deque, injector>>

PopWorker(w) ==
  /\ pc[w] = "pop" /\ local[w] = {}
  /\ \E o \in deque[w] :
       /\ deque' = [deque EXCEPT ![w] = @ \ {o}]
       /\ StartTask(w, o)
  /\ UNCHANGED <<local, injector>>
\* steal_batch_and_pop: one task to run, and a batch for the own deque.
PopGlobal(w) ==
  /\ pc[w] = "pop" /\ local[w] = {} /\ deque[w] = {}
  /\ \E o \in injector : \E batch \in SUBSET (injector \ {o}) :
       /\ injector' = injector \ (batch \cup {o})
       /\ deque' = [deque EXCEPT ![w] = @ \cup batch]
       /\ StartTask(w, o)
  /\ UNCHANGED local

GlobalEmpty(w) ==
  /\ pc[w] = "pop" /\ local[w] = {} /\ deque[w] = {} /\ injector = {}
  /\ Goto(w, "steal")
  /\ UNCHANGED <<refs, marked, queues, task, todo, pushes, worked, loopvars>>
\* A steal that leaves the task with its victim.
BugSteal(w, v) ==
  /\ pc[w] = "steal" /\ v # w
  /\ \E o \in deque[v] : StartTask(w, o)
  /\ UNCHANGED queues

Steal(w, v) ==
  /\ pc[w] = "steal" /\ v # w
  /\ \E o \in deque[v] : \E batch \in SUBSET (deque[v] \ {o}) :
       /\ deque' = [deque EXCEPT ![v] = @ \ (batch \cup {o}), ![w] = @ \cup batch]
       /\ StartTask(w, o)
  /\ UNCHANGED <<local, injector>>

\* The victims sampled had nothing: a round without any task tries to
\* terminate, another one goes back to the top.
FoundNothing(w) ==
  /\ pc[w] = "steal"
  /\ Goto(w, IF worked[w] THEN "loop" ELSE "term")
  /\ UNCHANGED <<refs, marked, queues, task, todo, pushes, worked, loopvars>>

-----------------------------------------------------------------------------
(***************************************************************************)
(* Tracing a task.                                                         *)
(***************************************************************************)
\* A defensive_push that pops the tasks and forgets to share them.
BugDefensivePush(w, loc) ==
  IF pushes[w] + 1 > DefensiveAfter /\ Cardinality(loc) > DefensiveMin
  THEN /\ pushes' = [pushes EXCEPT ![w] = 0]
       /\ \E keep \in SUBSET loc :
            /\ Cardinality(keep) = Cardinality(loc) \div 2
            /\ local' = [local EXCEPT ![w] = keep]
       /\ UNCHANGED injector
  ELSE /\ pushes' = [pushes EXCEPT ![w] = @ + 1]
       /\ local' = [local EXCEPT ![w] = loc]
       /\ UNCHANGED injector

\* defensive_push: after enough pushes, give half of a long local queue away.
DefensivePush(w, loc) ==
  IF pushes[w] + 1 > DefensiveAfter
  THEN /\ pushes' = [pushes EXCEPT ![w] = 0]
       /\ IF Cardinality(loc) > DefensiveMin
          THEN \E keep \in SUBSET loc :
                 /\ Cardinality(keep) = Cardinality(loc) \div 2
                 /\ local' = [local EXCEPT ![w] = keep]
                 /\ injector' = injector \cup (loc \ keep)
          ELSE /\ local' = [local EXCEPT ![w] = loc]
               /\ UNCHANGED injector
  ELSE /\ pushes' = [pushes EXCEPT ![w] = @ + 1]
       /\ local' = [local EXCEPT ![w] = loc]
       /\ UNCHANGED injector

Push(w, o) ==
  IF Cardinality(local[w]) < SegmentSize
  THEN DefensivePush(w, local[w] \cup {o}) /\ UNCHANGED deque
  ELSE /\ deque' = [deque EXCEPT ![w] = @ \cup {o}]
       /\ UNCHANGED <<local, injector, pushes>>

\* Visitor::visit: the visit that wins the mark bit pushes the object.
Visit(w, o) ==
  /\ pc[w] = "scan" /\ o \in todo[w]
  /\ todo' = [todo EXCEPT ![w] = @ \ {o}]
  /\ IF o \in marked
     THEN UNCHANGED <<marked, queues, pushes>>
     ELSE marked' = marked \cup {o} /\ Push(w, o)
  /\ UNCHANGED <<refs, task, worked, pc, loopvars>>

\* The task is done; the stride may be used up.
EndTask(w) ==
  /\ pc[w] = "scan" /\ todo[w] = {}
  /\ task' = [task EXCEPT ![w] = NoTask]
  /\ worked' = [worked EXCEPT ![w] = TRUE]
  /\ \E to \in {"pop", "loop"} : Goto(w, to)
  /\ UNCHANGED <<refs, marked, queues, todo, pushes, loopvars>>

-----------------------------------------------------------------------------
\* decrease_workers that compares the value after the subtraction.
BugDecreaseWorkers(w) ==
  /\ pc[w] = "term"
  /\ nworkers' = nworkers - 1
  /\ Goto(w, IF nworkers = 2 THEN "done" ELSE "sleep")
  /\ UNCHANGED <<refs, marked, queues, task, todo, pushes, worked, cancelled>>

(***************************************************************************)
(* Terminator::try_terminate.                                              *)
(***************************************************************************)
DecreaseWorkers(w) ==
  /\ pc[w] = "term"
  /\ IF Cardinality(Workers) = 1
     THEN Goto(w, "done") /\ UNCHANGED nworkers
     ELSE /\ nworkers' = nworkers - 1
          /\ Goto(w, IF nworkers = 1 THEN "done" ELSE "sleep")
  /\ UNCHANGED <<refs, marked, queues, task, todo, pushes, worked, cancelled>>
\* A worker that goes back to work without counting itself again.
BugZeroOrIncreaseWorkers(w) ==
  /\ pc[w] = "sleep"
  /\ Goto(w, IF nworkers = 0 THEN "done" ELSE "loop")
  /\ UNCHANGED <<refs, marked, queues, task, todo, pushes, worked, loopvars>>

ZeroOrIncreaseWorkers(w) ==
  /\ pc[w] = "sleep"
  /\ IF nworkers = 0
     THEN Goto(w, "done") /\ UNCHANGED nworkers
     ELSE Goto(w, "loop") /\ nworkers' = nworkers + 1
  /\ UNCHANGED <<refs, marked, queues, task, todo, pushes, worked, cancelled>>

-----------------------------------------------------------------------------
Worker(w) ==
  \/ LoopTop(w) \/ PopLocal(w) \/ PopWorker(w) \/ PopGlobal(w) \/ GlobalEmpty(w)
  \/ \E v \in Workers : Steal(w, v)
  \/ FoundNothing(w) \/ EndTask(w)
  \/ \E o \in Objects : Visit(w, o)
  \/ DecreaseWorkers(w) \/ ZeroOrIncreaseWorkers(w)

\* Every worker has left the loop; scoped() joins them.
Joined ==
  /\ \A w \in Workers : pc[w] \in {"done", "cancelled"}
  /\ UNCHANGED vars

Next == CancelGC \/ (\E w \in Workers : Worker(w)) \/ Joined

Spec == Init /\ [][Next]_vars

\* The pool gives every worker a thread of its own, which the system runs.
FairSpec == Spec /\ \A w \in Workers : WF_vars(Worker(w))

-----------------------------------------------------------------------------
PCs == {"loop", "pop", "steal", "scan", "term", "sleep", "done", "cancelled"}

\* The type invariant of the marking state.
TypeOK ==
  /\ refs \in [Objects -> SUBSET Objects]
  /\ marked \subseteq Objects
  /\ local \in [Workers -> SUBSET Objects]
  /\ deque \in [Workers -> SUBSET Objects]
  /\ injector \subseteq Objects
  /\ task \in [Workers -> Objects \cup {NoTask}]
  /\ todo \in [Workers -> SUBSET Objects]
  /\ pushes \in [Workers -> Nat]
  /\ worked \in [Workers -> BOOLEAN]
  /\ nworkers \in Nat
  /\ pc \in [Workers -> PCs]
  /\ cancelled \in BOOLEAN

Closed(S) == \A o \in S : refs[o] \subseteq S

(***************************************************************************)
(* Termination is never declared early: as soon as the Terminator lets one *)
(* worker go, the marked objects include the roots and everything they     *)
(* refer to, and no queue of any worker still holds a task.                *)
(***************************************************************************)
MarkingComplete ==
  (\E w \in Workers : pc[w] = "done") =>
    /\ Roots \subseteq marked
    /\ Closed(marked)
    /\ injector = {}
    /\ \A w \in Workers : local[w] = {} /\ deque[w] = {} /\ task[w] = NoTask

(***************************************************************************)
(* Nothing but what is reachable is marked: marked is contained in every   *)
(* closed set of objects that contains the roots (MarkingSpec says so).    *)
(***************************************************************************)
MarkingSound ==
  \A S \in SUBSET Objects : (Roots \subseteq S /\ Closed(S)) => marked \subseteq S

(***************************************************************************)
(* No object is traced twice: at any moment a task is in one place only.   *)
(***************************************************************************)
TaskInOnePlace ==
  /\ \A w \in Workers :
       /\ local[w] \cap deque[w] = {}
       /\ (local[w] \cup deque[w]) \cap injector = {}
       /\ task[w] \notin local[w] \cup deque[w] \cup injector
  /\ \A v, w \in Workers : v # w =>
       /\ (local[v] \cup deque[v]) \cap (local[w] \cup deque[w]) = {}
       /\ task[v] \notin local[w] \cup deque[w]
       /\ task[v] = task[w] => task[v] = NoTask

\* A cancelled run is left by every worker through the cancellation check: the
\* worker that left without decrementing keeps the Terminator above zero.
NoMixedExit ==
  ~ \E v, w \in Workers : pc[v] = "done" /\ pc[w] = "cancelled"

(***************************************************************************)
(* The loop, seen from outside, is Marking: complete once the Terminator   *)
(* has let a worker go, given up once a worker has left as cancelled, and  *)
(* never both.  The steps of try_terminate and of the cancellation check   *)
(* map to its outcomes, every visit that wins a mark bit to Mark.          *)
(***************************************************************************)
Outcome ==
  LET left(how) == \E w \in Workers : pc[w] = how
  IN  IF left("done") /\ left("cancelled") THEN "mixed"
      ELSE IF left("done") THEN "complete"
      ELSE IF left("cancelled") THEN "abandoned"
      ELSE "open"

Loop == INSTANCE Marking WITH outcome <- Outcome

MarkingSpec == Loop!Spec

(***************************************************************************)
(* Work is not forgotten: unless the run is cancelled, all marked objects  *)
(* get traced.  (That the workers then agree to stop is a matter of the    *)
(* one-microsecond sleeps overlapping, not of fairness.)                   *)
(***************************************************************************)
WorkDone == <>(cancelled \/ (Closed(marked) /\ injector = {}))

(***************************************************************************)
(* A cancellation is noticed: every worker leaves the loop.                *)
(***************************************************************************)
CancelNoticed ==
  cancelled ~> \A w \in Workers : pc[w] \in {"done", "cancelled"}

(***************************************************************************)
(* The marking loop gets all work done, or is cancelled and left by all.   *)
(***************************************************************************)
LoopEnds == WorkDone /\ CancelNoticed
=============================================================================
