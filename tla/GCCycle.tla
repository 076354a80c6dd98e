------------------------------ MODULE GCCycle ------------------------------
(***************************************************************************)
(* A heap that mutators change while it is marked and swept: allocation,   *)
(* stores behind the SATB write barrier, the concurrent cycle of           *)
(* heap/concurrent_gc.rs with its cancellation points, and the full        *)
(* collection of heap/full_gc.rs that follows a cancelled cycle.           *)
(*                                                                         *)
(* A pause is one step where nothing else can run in it; while workers     *)
(* drain the queues in a pause, the mutators have no step.  The queues of  *)
(* all workers are one set (module ParallelMark has their detail), and so  *)
(* is a store buffer, which may be full at any enqueue.  Heap memory is a  *)
(* set of cells in regions; a region's cells have one size.  What a freed  *)
(* cell contains matters to no property: it is taken to be empty.          *)
(*                                                                         *)
(* Definitions named Bug... are no part of the specification: each is a    *)
(* definition with a plausible mistake, which a property must notice.      *)
(***************************************************************************)
EXTENDS Naturals

CONSTANTS
  Mutators,
  Workers,    \* marking workers
  Cells,      \* cells of heap memory; an allocated one is an object
  Regions,
  RegionOf,   \* the region of every cell
  Fields,     \* reference fields of an object
  Null

ASSUME CellsAssumption ==
  /\ RegionOf \in [Cells -> Regions]
  /\ Null \notin Cells

VARIABLES
  slot,       \* the references in every cell
  alloc,      \* the cells that hold an object
  free,       \* mutator_free_bitmap: regions open to allocation
  to_sweep,   \* HeapRegion::to_sweep
  stack,      \* the references on each mutator's stack
  pc,         \* what each mutator executes next
  holder,     \* the object a store is about to change
  barrier,    \* Thread::cm_in_progress
  ssb,        \* Thread::satb_mark_queue
  cm,         \* Heap::is_concurrent_mark_in_progress
  marked,     \* the mark bitmap
  queue,      \* objects waiting in the mark queues
  task,       \* the object each worker traces
  todo,       \* the fields of it still to visit
  phase,      \* what the controller thread is doing
  cancelled,  \* cancelled_gc = GC_CANCELLED
  written     \* ghost: slots stored to since the initial mark

memory == <<slot, alloc, free, to_sweep>>
threads == <<stack, pc, holder, barrier, ssb>>
marking == <<marked, queue, task, todo>>
vars == <<memory, threads, cm, marking, phase, cancelled, written>>

\* The conservative scan of all stacks: words that are not references to
\* objects are passed over.
Roots == alloc \cap UNION {stack[m] : m \in Mutators}
Attached == {m \in Mutators : pc[m] # "off"}
NoRefs == [f \in Fields |-> Null]

\* Mutators run, or all of them are stopped at a safepoint.
Running == phase \notin {"drain", "full"}
AllStopped == \A m \in Mutators : pc[m] # "store"

\* Stores are of interest while marking is concurrent.
Written(slots) ==
  written' = IF phase \in {"mark", "remark"} THEN written \cup slots ELSE written

\* RegionFreeSet::rebuild: the regions with room.
Rebuilt(live) == {r \in Regions : \E c \in Cells \ live : RegionOf[c] = r}

Init ==
  /\ slot = [c \in Cells |-> NoRefs]
  /\ alloc = {}
  /\ free = Rebuilt({})
  /\ to_sweep = {}
  /\ stack = [m \in Mutators |-> {}]
  /\ pc = [m \in Mutators |-> "off"]
  /\ holder = [m \in Mutators |-> Null]
  /\ barrier = [m \in Mutators |-> FALSE]
  /\ ssb = [m \in Mutators |-> {}]
  /\ cm = FALSE
  /\ marked = {}
  /\ queue = {}
  /\ task = [w \in Workers |-> Null]
  /\ todo = [w \in Workers |-> {}]
  /\ phase = "idle"
  /\ cancelled = FALSE
  /\ written = {}

-----------------------------------------------------------------------------
(***************************************************************************)
(* Mutators.                                                               *)
(***************************************************************************)

BugAttach(m) ==
  /\ Running /\ pc[m] = "off"
  /\ pc' = [pc EXCEPT ![m] = "run"]
  /\ barrier' = [barrier EXCEPT ![m] = TRUE]
  /\ UNCHANGED <<memory, stack, holder, ssb, cm, marking, phase, cancelled, written>>

\* register: the thread takes over the heap's flag.
Attach(m) ==
  /\ Running /\ pc[m] = "off"
  /\ pc' = [pc EXCEPT ![m] = "run"]
  /\ barrier' = [barrier EXCEPT ![m] = cm]
  /\ UNCHANGED <<memory, stack, holder, ssb, cm, marking, phase, cancelled, written>>

\* flush_ssb pushes the unmarked entries and does not mark them.
Flushed(m) == ssb[m] \ marked

\* remove_current_thread; the Thread record goes with the thread.
Detach(m) ==
  /\ Running /\ pc[m] = "run"
  /\ queue' = queue \cup Flushed(m)
  /\ ssb' = [ssb EXCEPT ![m] = {}]
  /\ stack' = [stack EXCEPT ![m] = {}]
  /\ barrier' = [barrier EXCEPT ![m] = FALSE]
  /\ pc' = [pc EXCEPT ![m] = "off"]
  /\ UNCHANGED <<memory, holder, cm, marked, task, todo, phase, cancelled, written>>

\* Managed code loads a reference, or forgets one.
Load(m, x, f) ==
  /\ Running /\ pc[m] = "run" /\ x \in stack[m] /\ slot[x][f] # Null
  /\ stack' = [stack EXCEPT ![m] = @ \cup {slot[x][f]}]
  /\ UNCHANGED <<memory, pc, holder, barrier, ssb, cm, marking, phase, cancelled,
                 written>>

Forget(m, x) ==
  /\ Running /\ pc[m] = "run" /\ x \in stack[m]
  /\ stack' = [stack EXCEPT ![m] = @ \ {x}]
  /\ UNCHANGED <<memory, pc, holder, barrier, ssb, cm, marking, phase, cancelled,
                 written>>

\* Thread::allocate: the initial value may refer to what is on the stack, and
\* the object is marked whether or not a cycle is running.  On its way
\* allocate_single retires the regions a request does not fit in, and the
\* region it used up.
Allocate(m, c) ==
  /\ Running /\ pc[m] = "run"
  /\ c \notin alloc /\ RegionOf[c] \in free
  /\ alloc' = alloc \cup {c}
  /\ \E value \in [Fields -> stack[m] \cup {Null}] :
       slot' = [slot EXCEPT ![c] = value]
  /\ \E tried \in SUBSET (free \ {RegionOf[c]}) :
       free' = {r \in free \ tried : r = RegionOf[c] => r \in Rebuilt(alloc')}
  /\ marked' = marked \cup {c}
  /\ stack' = [stack EXCEPT ![m] = @ \cup {c}]
  /\ Written({c} \X Fields)
  /\ UNCHANGED <<to_sweep, pc, holder, barrier, ssb, cm, queue, task, todo, phase,
                 cancelled>>

\* raw_write_barrier::<true>, called before a store to x: an unmarked holder
\* goes to the store buffer, which is flushed first when it is full.
WriteBarrier(m, x) ==
  /\ Running /\ pc[m] = "run" /\ x \in stack[m]
  /\ IF barrier[m] /\ x \notin marked
     THEN \/ ssb' = [ssb EXCEPT ![m] = @ \cup {x}] /\ UNCHANGED queue
          \/ ssb' = [ssb EXCEPT ![m] = {x}] /\ queue' = queue \cup Flushed(m)
     ELSE UNCHANGED <<ssb, queue>>
  /\ holder' = [holder EXCEPT ![m] = x]
  /\ pc' = [pc EXCEPT ![m] = "store"]
  /\ UNCHANGED <<memory, stack, barrier, cm, marked, task, todo, phase, cancelled,
                 written>>

Store(m, f, y) ==
  /\ Running /\ pc[m] = "store" /\ y \in stack[m] \cup {Null}
  /\ slot' = [slot EXCEPT ![holder[m]][f] = y]
  /\ Written({<<holder[m], f>>})
  /\ holder' = [holder EXCEPT ![m] = Null]
  /\ pc' = [pc EXCEPT ![m] = "run"]
  /\ UNCHANGED <<alloc, free, to_sweep, stack, barrier, ssb, cm, marking, phase,
                 cancelled>>

\* allocate_single found room nowhere: the allocation cancels the cycle.
AllocationFails(m) ==
  /\ Running /\ pc[m] = "run"
  /\ free' = {}
  /\ cancelled' = TRUE
  /\ UNCHANGED <<slot, alloc, to_sweep, threads, cm, marking, phase, written>>

\* So does one for a humongous object, and Heap::stop.  The canceller may be in
\* a safepoint scope, so pauses do not keep it away.
CancelGC ==
  /\ ~cancelled
  /\ cancelled' = TRUE
  /\ UNCHANGED <<memory, threads, cm, marking, phase, written>>

-----------------------------------------------------------------------------
(***************************************************************************)
(* Marking workers, concurrent with the mutators in phase "mark".          *)
(***************************************************************************)
TakeTask(w, c) ==
  /\ phase \in {"mark", "drain", "full"}
  /\ task[w] = Null /\ c \in queue
  /\ queue' = queue \ {c}
  /\ task' = [task EXCEPT ![w] = c]
  /\ todo' = [todo EXCEPT ![w] = Fields]
  /\ UNCHANGED <<memory, threads, cm, marked, phase, cancelled, written>>

VisitField(w, f) ==
  /\ f \in todo[w]
  /\ LET y == slot[task[w]][f]
         new == IF y = Null THEN {} ELSE {y} \ marked
     IN marked' = marked \cup new /\ queue' = queue \cup new
  /\ todo' = [todo EXCEPT ![w] = @ \ {f}]
  /\ UNCHANGED <<memory, threads, cm, task, phase, cancelled, written>>

BugEndTask(w) ==
  /\ task[w] # Null
  /\ task' = [task EXCEPT ![w] = Null]
  /\ UNCHANGED <<memory, threads, cm, marked, queue, todo, phase, cancelled, written>>

EndTask(w) ==
  /\ task[w] # Null /\ todo[w] = {}
  /\ task' = [task EXCEPT ![w] = Null]
  /\ UNCHANGED <<memory, threads, cm, marked, queue, todo, phase, cancelled, written>>

WorkersIdle == \A w \in Workers : task[w] = Null
Drained == WorkersIdle /\ queue = {}

-----------------------------------------------------------------------------
(***************************************************************************)
(* ConcurrentGC::collect.                                                  *)
(***************************************************************************)

\* The initial pause: clear the bitmap, switch the barriers on, mark the roots.
InitMark ==
  /\ phase = "idle" /\ ~cancelled /\ AllStopped
  /\ marked' = Roots
  /\ queue' = queue \cup Roots
  /\ barrier' = [m \in Mutators |-> m \in Attached]
  /\ cm' = TRUE
  /\ written' = {}
  /\ phase' = "mark"
  /\ UNCHANGED <<memory, stack, pc, holder, ssb, task, todo, cancelled>>

\* ConcMark::mark returns because the terminator fired ...
MarkEnd ==
  /\ phase = "mark" /\ Drained /\ ~cancelled
  /\ phase' = "remark"
  /\ UNCHANGED <<memory, threads, cm, marking, cancelled, written>>

\* ... or the cycle is cancelled, whatever is left in the queues.
MarkCancelled ==
  /\ phase = "mark" /\ WorkersIdle /\ cancelled
  /\ phase' = "idle"
  /\ written' = {}
  /\ UNCHANGED <<memory, threads, cm, marking, cancelled>>

BugFinalMark ==
  /\ phase = "remark" /\ AllStopped
  /\ cm' = FALSE
  /\ queue' = queue \cup (UNION {ssb[m] : m \in Mutators} \ marked)
  /\ ssb' = [m \in Mutators |-> {}]
  /\ barrier' = [m \in Mutators |-> FALSE]
  /\ phase' = "drain"
  /\ UNCHANGED <<memory, stack, pc, holder, marked, task, todo, cancelled, written>>

\* The final pause: mark the roots again, flush the buffers, barriers off.
FinalMark ==
  /\ phase = "remark" /\ AllStopped
  /\ cm' = FALSE
  /\ marked' = marked \cup Roots
  /\ queue' = queue \cup (Roots \ marked)
                    \cup (UNION {ssb[m] : m \in Mutators} \ marked')
  /\ ssb' = [m \in Mutators |-> {}]
  /\ barrier' = [m \in Mutators |-> FALSE]
  /\ phase' = "drain"
  /\ UNCHANGED <<memory, stack, pc, holder, task, todo, cancelled, written>>

\* ... drained: PrepareUnsweptRegions takes every used region from the mutators.
FinalMarkEnd ==
  /\ phase = "drain" /\ Drained
  /\ to_sweep' = {RegionOf[c] : c \in alloc}
  /\ free' = free \ to_sweep'
  /\ phase' = "sweep"
  /\ written' = {}
  /\ UNCHANGED <<slot, alloc, threads, cm, marking, cancelled>>

\* heap_region_do: one region is swept; mutators run.  Cancellation is looked
\* at before each region only if the regions outnumber a stride.
SweepRegion(r) ==
  /\ phase = "sweep" /\ r \in to_sweep
  /\ to_sweep' = to_sweep \ {r}
  /\ LET dead == {c \in alloc \ marked : RegionOf[c] = r}
     IN /\ alloc' = alloc \ dead
        /\ slot' = [c \in Cells |-> IF c \in dead THEN NoRefs ELSE slot[c]]
  /\ UNCHANGED <<free, threads, cm, marking, phase, cancelled, written>>

BugSweepEnd ==
  /\ phase = "sweep"
  /\ cancelled \/ to_sweep = {}
  /\ free' = Rebuilt(alloc)
  /\ phase' = "idle"
  /\ UNCHANGED <<slot, alloc, to_sweep, threads, cm, marking, cancelled, written>>

\* A cancelled sweep leaves its regions unswept and the free set as it is.
SweepEnd ==
  /\ phase = "sweep"
  /\ \/ cancelled /\ UNCHANGED free
     \/ ~cancelled /\ to_sweep = {} /\ free' = Rebuilt(alloc)
  /\ phase' = "idle"
  /\ UNCHANGED <<slot, alloc, to_sweep, threads, cm, marking, cancelled, written>>

-----------------------------------------------------------------------------
(***************************************************************************)
(* FullGC::do_collect: one pause.  It does not touch the barriers, the     *)
(* store buffers, the queues or the flag an abandoned mark left.           *)
(***************************************************************************)
BugFullBegin ==
  /\ phase = "idle" /\ AllStopped
  /\ cancelled' = FALSE
  /\ marked' = marked \cup Roots
  /\ queue' = queue \cup (Roots \ marked)
  /\ phase' = "full"
  /\ UNCHANGED <<memory, threads, cm, task, todo, written>>

FullBegin ==
  /\ phase = "idle" /\ AllStopped
  /\ cancelled' = FALSE
  /\ marked' = Roots
  /\ queue' = queue \cup Roots
  /\ phase' = "full"
  /\ UNCHANGED <<memory, threads, cm, task, todo, written>>

FullEnd ==
  /\ phase = "full" /\ Drained
  /\ alloc' = alloc \cap marked
  /\ slot' = [c \in Cells |-> IF c \in alloc \ marked THEN NoRefs ELSE slot[c]]
  /\ to_sweep' = {}
  /\ free' = Rebuilt(alloc')
  /\ phase' = "idle"
  /\ UNCHANGED <<threads, cm, marking, cancelled, written>>

-----------------------------------------------------------------------------
Mutator(m) ==
  \/ Attach(m) \/ Detach(m) \/ AllocationFails(m)
  \/ \E x \in Cells :
       Forget(m, x) \/ Allocate(m, x) \/ WriteBarrier(m, x) \/ \E f \in Fields : Load(m, x, f)
  \/ \E f \in Fields, y \in Cells \cup {Null} : Store(m, f, y)

Worker(w) ==
  (\E c \in Cells : TakeTask(w, c)) \/ (\E f \in Fields : VisitField(w, f)) \/ EndTask(w)

Cycle ==
  \/ InitMark \/ MarkEnd \/ MarkCancelled \/ FinalMark \/ FinalMarkEnd
  \/ (\E r \in Regions : SweepRegion(r)) \/ SweepEnd
  \/ FullBegin \/ FullEnd

Next ==
  \/ \E m \in Mutators : Mutator(m)
  \/ CancelGC
  \/ \E w \in Workers : Worker(w)
  \/ Cycle

Spec == Init /\ [][Next]_vars

-----------------------------------------------------------------------------
\* The type invariant of the heap and of the cycle.
TypeOK ==
  /\ slot \in [Cells -> [Fields -> Cells \cup {Null}]]
  /\ alloc \subseteq Cells
  /\ free \subseteq Regions
  /\ to_sweep \subseteq Regions
  /\ stack \in [Mutators -> SUBSET Cells]
  /\ pc \in [Mutators -> {"off", "run", "store"}]
  /\ holder \in [Mutators -> Cells \cup {Null}]
  /\ \A m \in Mutators : pc[m] = "store" => holder[m] \in Cells
  /\ barrier \in [Mutators -> BOOLEAN]
  /\ ssb \in [Mutators -> SUBSET Cells]
  /\ cm \in BOOLEAN
  /\ marked \subseteq Cells
  /\ queue \subseteq Cells
  /\ task \in [Workers -> Cells \cup {Null}]
  /\ todo \in [Workers -> SUBSET Fields]
  /\ \A w \in Workers : todo[w] # {} => task[w] # Null
  /\ phase \in {"idle", "mark", "remark", "drain", "sweep", "full"}
  /\ cancelled \in BOOLEAN
  /\ written \subseteq Cells \X Fields

(***************************************************************************)
(* A full collection marks everything the mutators can reach, whatever an  *)
(* abandoned concurrent mark left in the bitmap and in the queues.         *)
(***************************************************************************)
FullMarksAll ==
  phase = "full" /\ Drained =>
    /\ Roots \subseteq marked
    /\ \A x \in marked, f \in Fields : slot[x][f] \in marked \cup {Null}

(***************************************************************************)
(* What the barrier and the second root scan do achieve: when concurrent   *)
(* marking is over, the stacks are marked, and a marked object refers to   *)
(* an unmarked one only through a field stored to during this cycle.       *)
(***************************************************************************)
LostOnlyThroughWrites ==
  phase = "drain" /\ Drained =>
    /\ Roots \subseteq marked
    /\ \A x \in marked, f \in Fields :
         slot[x][f] \in marked \cup {Null} \/ <<x, f>> \in written

(***************************************************************************)
(* "regions are not available to mutator threads until sweep phase is      *)
(* finished" (docs/internals.md), the assertion of try_allocate_in: no     *)
(* region is handed out before it is swept, cancelled sweeps included.     *)
(***************************************************************************)
NoAllocInUnswept == free \cap to_sweep = {}

(***************************************************************************)
(* Outside concurrent marking a mutator has no barrier and no buffered     *)
(* holder, unless the marking was cancelled: threads that attach or detach *)
(* during the cycle included.                                              *)
(***************************************************************************)
BarriersOffInSweep ==
  phase \in {"drain", "sweep"} => \A m \in Mutators : ~barrier[m] /\ ssb[m] = {}

(***************************************************************************)
(* No mutator ever holds a reference to a freed object.                    *)
(***************************************************************************)
NoDangling == \A m \in Mutators : stack[m] \subseteq alloc
=============================================================================
