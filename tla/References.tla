----------------------------- MODULE References -----------------------------
(***************************************************************************)
(* system/weak_reference.rs and system/finalizer.rs: two intrusive lists   *)
(* that mutators extend with a compare-and-exchange and that the collector *)
(* prunes while they are stopped, between marking and sweeping             *)
(* (concurrent_gc.rs, full_gc.rs).  Objects have no fields here: what is   *)
(* marked is what the handles of the mutators, or words that only look     *)
(* like handles, refer to.  An entry of the finalizer list is named after  *)
(* its object.                                                             *)
(***************************************************************************)
EXTENDS Naturals

CONSTANTS
    Mutators,
    Cells,      \* memory of one object each
    Null

VARIABLES
    kind,      \* "free", or what the cell holds: "plain", "finalizable", "weak"
    ptr,       \* WeakReference::ptr
    weak,      \* HEAD_REF and the next of each weak reference
    fin,       \* FinalizerQueue::list and the next of each entry
    call,      \* the object each mutator is linking, and the head it expects
    handles,   \* handles of each mutator
    phase,     \* "idle", "mark", "sweep", "cancelled", or the loop of a pause: "weak", "fin"
    loop,      \* the cursors of that loop, and whether a full collection runs it
    marked, unswept,
    crashed,   \* an access outside the mark bitmap brought the process down
    drops      \* history: finalizers run for the object in the cell

vars == <<kind, ptr, weak, fin, call, handles, phase, loop, marked, unswept, crashed, drops>>

NoCall == [node |-> Null, old |-> Null]
NoLoop == [at |-> Null, tail |-> Null, full |-> FALSE]
EmptyChain == [head |-> Null, next |-> [c \in Cells |-> Null]]

Init ==
    /\ kind = [c \in Cells |-> "free"]
    /\ ptr = [c \in Cells |-> Null]
    /\ weak = EmptyChain /\ fin = EmptyChain
    /\ call = [m \in Mutators |-> NoCall]
    /\ handles = [m \in Mutators |-> {}]
    /\ phase = "idle" /\ loop = NoLoop
    /\ marked = {} /\ unswept = {}
    /\ crashed = FALSE
    /\ drops = [c \in Cells |-> 0]

Held == UNION {handles[m] : m \in Mutators}
Allocated == {c \in Cells : kind[c] # "free"}
Idle(m) == call[m] = NoCall

\* No thread reaches a safepoint between the load and the exchange of a head.
Paused == \A m \in Mutators : Idle(m)
Running == phase \notin {"weak", "fin"}

\* What the conservative scan of the roots finds: any word may look like a handle.
Roots == {Held \cup S : S \in SUBSET Allocated}

\* What a freed cell contains matters to nobody: it is taken to be empty.
Emptied(f, cells) == [c \in Cells |-> IF c \in cells THEN Null ELSE f[c]]
Free(cells) ==
    /\ kind' = [c \in Cells |-> IF c \in cells THEN "free" ELSE kind[c]]
    /\ ptr' = Emptied(ptr, cells)
    /\ weak' = [weak EXCEPT !.next = Emptied(@, cells)]
    /\ fin' = [fin EXCEPT !.next = Emptied(@, cells)]

-----------------------------------------------------------------------------
(***************************************************************************)
(* Mutators.                                                               *)
(***************************************************************************)

\* Thread::allocate, of an object that is new, black and held; a weak reference
\* or an object with a destructor is to be linked next, behind the head it read.
Allocate(m, c, k, t) ==
    /\ Running /\ Idle(m) /\ kind[c] = "free"
    /\ kind' = [kind EXCEPT ![c] = k]
    /\ ptr' = [ptr EXCEPT ![c] = t]
    /\ call' = [call EXCEPT ![m] =
                    IF k = "plain" THEN NoCall
                    ELSE [node |-> c, old |-> IF k = "weak" THEN weak.head ELSE fin.head]]
    /\ handles' = [handles EXCEPT ![m] = @ \cup {c}]
    /\ marked' = marked \cup {c}
    /\ drops' = [drops EXCEPT ![c] = 0]
    /\ UNCHANGED <<weak, fin, phase, loop, unswept, crashed>>

AllocateObject(m, c) == \E k \in {"plain", "finalizable"} : Allocate(m, c, k, Null)
NewWeak(m, c) == \E t \in handles[m] : kind[t] # "weak" /\ Allocate(m, c, "weak", t)

\* A store where the code has an exchange.
BugPushed(l, c, old) == [head |-> c, next |-> [l.next EXCEPT ![c] = old]]

\* The exchange that ends the loop in WeakReference::new and FinalizerQueue::add.
Pushed(l, c, old) ==
    IF l.head = old THEN [head |-> c, next |-> [l.next EXCEPT ![c] = old]] ELSE l

Link(m) ==
    LET c == call[m].node
        isWeak == kind[c] = "weak"
        l == Pushed(IF isWeak THEN weak ELSE fin, c, call[m].old)
    IN  /\ Running /\ ~Idle(m)
        /\ weak' = IF isWeak THEN l ELSE weak
        /\ fin' = IF isWeak THEN fin ELSE l
        /\ call' = [call EXCEPT ![m] = IF l.head = c THEN NoCall ELSE [node |-> c, old |-> l.head]]
        /\ UNCHANGED <<kind, ptr, handles, phase, loop, marked, unswept, crashed, drops>>

\* upgrade: a handle to the target, unless the reference is cleared.
Upgrade(m, w) ==
    /\ Running /\ Idle(m) /\ w \in handles[m] /\ kind[w] = "weak" /\ ptr[w] # Null
    /\ handles' = [handles EXCEPT ![m] = @ \cup {ptr[w]}]
    /\ UNCHANGED <<kind, ptr, weak, fin, call, phase, loop, marked, unswept, crashed, drops>>

\* Handles reach other mutators through the heap, and go out of scope.
Share(m, n, c) ==
    /\ Running /\ Idle(m) /\ Idle(n) /\ c \in handles[m] \ handles[n]
    /\ handles' = [handles EXCEPT ![n] = @ \cup {c}]
    /\ UNCHANGED <<kind, ptr, weak, fin, call, phase, loop, marked, unswept, crashed, drops>>

Forget(m, c) ==
    /\ Running /\ Idle(m) /\ c \in handles[m]
    /\ handles' = [handles EXCEPT ![m] = @ \ {c}]
    /\ UNCHANGED <<kind, ptr, weak, fin, call, phase, loop, marked, unswept, crashed, drops>>

-----------------------------------------------------------------------------
(***************************************************************************)
(* The pauses.  Each loop looks at one entry per step.                     *)
(***************************************************************************)

\* What a list leads to from one of its entries, and the entries of a list.
From(next, c) ==
    {d \in Cells : \A S \in SUBSET Cells :
        ({c} \cup {next[e] : e \in S}) \ {Null} \subseteq S => d \in S}
Chain(l) == From(l.next, l.head)

\* The entry behind tail, or the first one, becomes c.
Joined(l, tail, c) ==
    IF tail = Null THEN [l EXCEPT !.head = c] ELSE [l EXCEPT !.next[tail] = c]

Advance(w, stays, list) ==
    loop' = [loop EXCEPT !.at = list.next[w], !.tail = IF stays THEN w ELSE @]

\* WeakReference::process: dead references leave the list, dead targets are cleared.
\* The target of a reference that an earlier collection cleared is looked up too, as
\* the header in front of address 0, far outside the mark bitmap: where that is not
\* mapped the process ends here.
ProcessWeak ==
    LET w == loop.at
        live == w \in marked
    IN  /\ phase = "weak" /\ w # Null
        /\ weak' = Joined(weak, loop.tail, IF live THEN w ELSE weak.next[w])
        /\ ptr' = IF live /\ ptr[w] \notin marked THEN [ptr EXCEPT ![w] = Null] ELSE ptr
        /\ crashed' \in {FALSE, live /\ ptr[w] = Null}
        /\ Advance(w, live, weak)
        /\ UNCHANGED <<kind, fin, call, handles, phase, marked, unswept, drops>>

Finalize ==
    /\ phase = "weak" /\ loop.at = Null
    /\ phase' = "fin"
    /\ loop' = [loop EXCEPT !.at = fin.head, !.tail = Null]
    /\ UNCHANGED <<kind, ptr, weak, fin, call, handles, marked, unswept, crashed, drops>>

\* FinalizerQueue::run: finalizers of dead objects are called and leave the list.
RunFinalizer ==
    LET f == loop.at
        live == f \in marked
    IN  /\ phase = "fin" /\ f # Null
        /\ fin' = IF live THEN fin ELSE Joined(fin, loop.tail, fin.next[f])
        /\ drops' = IF live THEN drops ELSE [drops EXCEPT ![f] = @ + 1]
        /\ Advance(f, live, fin)
        /\ UNCHANGED <<kind, ptr, weak, call, handles, phase, marked, unswept, crashed>>

InitMark ==
    /\ phase = "idle" /\ Paused
    /\ marked' \in Roots
    /\ phase' = "mark"
    /\ UNCHANGED <<kind, ptr, weak, fin, call, handles, loop, unswept, crashed, drops>>

\* Marking is complete: both loops are to run before anything is swept.
CleanUp(full) ==
    /\ phase' = "weak"
    /\ loop' = [at |-> weak.head, tail |-> Null, full |-> full]
    /\ UNCHANGED <<kind, ptr, weak, fin, call, handles, unswept, crashed, drops>>

\* Remarking.
FinalMark ==
    /\ phase = "mark" /\ Paused
    /\ marked' \in {marked \cup S : S \in Roots}
    /\ CleanUp(FALSE)

FullMark ==
    /\ phase \in {"idle", "cancelled"} /\ Paused
    /\ marked' \in Roots
    /\ CleanUp(TRUE)

\* The concurrent collection leaves all regions to sweep, the full one sweeps them.
PrepareSweep ==
    /\ phase = "fin" /\ loop.at = Null /\ ~loop.full
    /\ unswept' = Cells
    /\ phase' = "sweep" /\ loop' = NoLoop
    /\ UNCHANGED <<kind, ptr, weak, fin, call, handles, marked, crashed, drops>>

FullSweep ==
    /\ phase = "fin" /\ loop.at = Null /\ loop.full
    /\ Free(Allocated \ marked)
    /\ phase' = "idle" /\ loop' = NoLoop
    /\ UNCHANGED <<call, handles, marked, unswept, crashed, drops>>

Sweep(c) ==
    /\ phase = "sweep" /\ c \in unswept
    /\ unswept' = unswept \ {c}
    /\ Free({c} \ marked)
    /\ phase' = IF unswept' = {} THEN "idle" ELSE phase
    /\ UNCHANGED <<call, handles, loop, marked, crashed, drops>>

\* check_cancellation_and_abort: a full collection is to follow.
Abort ==
    /\ phase \in {"mark", "sweep"}
    /\ phase' = "cancelled"
    /\ unswept' = {}
    /\ UNCHANGED <<kind, ptr, weak, fin, call, handles, loop, marked, crashed, drops>>

Next ==
    /\ ~crashed
    /\ \/ \E m \in Mutators, c \in Cells :
            AllocateObject(m, c) \/ NewWeak(m, c) \/ Upgrade(m, c) \/ Forget(m, c)
       \/ \E m, n \in Mutators, c \in Cells : Share(m, n, c)
       \/ \E m \in Mutators : Link(m)
       \/ \E c \in Cells : Sweep(c)
       \/ InitMark \/ FinalMark \/ FullMark \/ Abort
       \/ ProcessWeak \/ Finalize \/ RunFinalizer \/ PrepareSweep \/ FullSweep

Spec == Init /\ [][Next]_vars

-----------------------------------------------------------------------------

\* The references a mutator can still ask for their target.
Linked == {c \in Held : kind[c] = "weak" /\ \A m \in Mutators : call[m].node # c}

\* A weak reference that some mutator can use is cleared or has a target whose
\* memory is still its own and whose finalizer has not run: none was lost in the race
\* to link it, or by the unlinking of its neighbours (new, process, upgrade).
TargetAlive ==
    /\ Linked \subseteq Chain(weak)
    /\ \A w \in Linked : ptr[w] # Null => kind[ptr[w]] # "free" /\ drops[ptr[w]] = 0

\* No list leads through memory that was freed (process, run).
ListsAllocated ==
    /\ \A w \in Chain(weak) : kind[w] = "weak"
    /\ \A f \in Chain(fin) : kind[f] = "finalizable" /\ drops[f] = 0

\* A destructor runs once before the memory of its object is freed, and never while
\* a mutator holds the object (register_for_finalization, run, the order in collect).
DropsOnce ==
    /\ \A c \in Cells : kind[c] = "finalizable" /\ kind'[c] = "free" => drops'[c] = 1
    /\ \A c \in Held : drops'[c] = drops[c]
DroppedOnce == [][DropsOnce]_vars

\* A reference is cleared only when no mutator holds its target.
ClearsDead == \A w \in Held : ptr[w] \in Held => ptr'[w] = ptr[w]
ClearedWhenDead == [][ClearsDead]_vars
=============================================================================
