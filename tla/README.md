# RSGC in TLA+

RSGC is a mostly concurrent mark-and-sweep garbage collector for Rust programs.
Mutator threads run managed code, stop at safepoints, allocate from regions and
call a write barrier before they store references. One controller thread decides
when to collect and runs the cycles; pools of worker threads mark and sweep. This
directory models the protocols between these threads, checks them with TLC on
small instances and proves the main invariants with TLAPS for all sizes.

Paths are relative to `src/` of the repository unless they start with `docs/` or
`README`.

## Inventory

| Part | Source | State | Operations | Correct when |
|---|---|---|---|---|
| Safepoints, threads | `heap/safepoint.rs`, `heap/thread.rs`, `heap/signals/` | thread list, `gc_state`, `last_sp` and SSB of a thread, polling page, `GC_RUNNING`, three locks, a condition variable | register, poll, safepoint and unsafe scopes, exit, `main_thread`, `begin`/`end` | nobody runs managed code in a pause; whole stacks are scanned; every pause begins and ends |
| Parallel marking | `heap/mark.rs`, `heap/marking_context.rs`, `heap/root_processor.rs` | mark bitmap, injector, a deque and a segment per worker, terminator | pop, steal, visit, push, terminate, cancel | all and only reachable objects are marked when the loop ends; it ends |
| Controller | `heap/controller.rs`, `heap/heap.rs`, `heap/shared_vars.rs`, `sync/monitor.rs` | `gc_requested`, `alloc_failure_gc`, `cancelled_gc`, `gc_id`, degeneration point, two monitors | `run_service`, `handle_alloc_failure_gc`, `request_gc`, `cancel_gc`, `stop` | no failed allocation before a full collection; no lost cancellation or wakeup |
| Cycles, write barrier | `heap/concurrent_gc.rs`, `heap/full_gc.rs`, `heap/degenerated_gc.rs`, `heap/thread.rs` | mark-in-progress flags, SSBs, bitmap, `to_sweep` | init mark, mark, final mark, sweep, full collection | no reachable object is freed; an abandoned cycle leaves nothing behind |
| Suspendible thread set | `sync/suspendible_thread_set.rs` | `NTHREADS`, `NTHREADS_STOPPED`, `SUSPEND_ALL`, a semaphore | join, leave, yield, synchronize, desynchronize | a pause starts only when all members have yielded or left, and everybody goes on after it |
| Worker threads | `sync/worker_threads.rs`, `sync/semaphore.rs` | created and active workers, task, two counters, two semaphores | create, run a task, shrink and restore | each worker works once on each task, which outlives them |
| Region allocator | `heap/free_set.rs`, `heap/region.rs`, `heap/free_list.rs`, `heap/tlab.rs` | free bitmap and bounds, region states, free lists, TLABs, accounts | allocate, retire, recycle, rebuild, uncommit | memory is handed out once; nothing free is lost |
| Sweeper | `heap/sweeper.rs` | a region's free list and object start bitmap | sweep a region | exactly the gaps between marked objects become free |
| Start-up and sizing | `heap/region.rs`, `heap/heap.rs` | `HeapArguments`, `HeapOptions` | defaults, environment, `set_heap_size`, `setup_sizes`, `Heap::new`, region walks | regions tile the heap; buffers and small objects fit in one |
| Weak references, finalizers | `system/weak_reference.rs`, `system/finalizer.rs` | two linked lists | create, upgrade, process, run | cleared exactly for dead referents; each finalizer runs once |
| Bitmaps | `heap/bitmap.rs` | bits in shared cells | set, test, range, object start search | equal to a set of addresses |
| Locks | `sync/mutex.rs`, `sync/monitor.rs` | lock bytes, parked queues, condition words | lock, unlock, bump, wait, notify, requeue | mutual exclusion, no lost wakeup |
| Single writer | `sync/single_writer.rs` | enter and two exit counters, a semaphore | enter, exit, synchronize | synchronize returns after the sections open when it began |
| Object storage | `heap/obj_storage.rs` | blocks with bitmasks, allocation list, deferred list, active array | allocate, release, delete empty blocks, iterate, drop | no entry is given twice; no block is lost or deleted in use |
| Collections | `system/arraylist.rs`, `system/collections/` | arrays, hash tables, order list | insert, remove, grow, reserve, iterate | a sequence's and a map's laws |
| Task queue, terminator | `utils/taskqueue.rs`, `sync/task_terminator.rs`, `utils/deque/`, `utils/stack.rs` | age/bottom words, offered count | push, pop, steal, offer termination | not modelled: nothing uses them |
| Heuristics, pacing | `heap/heuristics/`, `heap/pacer.rs` | moving averages | should start a cycle | reduced to a free choice |
| Object model | `system/object.rs`, `system/array.rs`, `system/string.rs` | none of its own | headers, vtables, layout | not modelled |
| Environment | `heap/virtual_memory.rs`, `heap/stack.rs`, `utils/env.rs`, ... | none of its own | system calls, options, timers | not modelled |

How they interact: mutators share the thread list, the polling page and
`GC_RUNNING` with whoever opens a pause; a mutator that cannot allocate cancels
the cycle through `cancelled_gc`, which markers poll between strides and sweepers
between regions, and blocks on a monitor until the controller has collected; the
barrier puts objects into a thread's buffer, which goes to the injector that
markers read; the final mark takes regions from the free set and the sweeper's end
gives them back. Workers that mark are members of the suspendible set, which a
pause synchronizes with. All monitors are `sync/mutex.rs` underneath; the object
storage waits for its readers through the single writer synchronizer.

What is hard here: stopping threads that are being registered, are exiting or sit
in a scope; two words published one after the other (`gc_state`, then `last_sp`);
termination of a work-stealing loop; a cancellation that races with its
consumer; flags that are read once and used after a cycle; mutation during
marking; cycles that are cut short halfway; a lock-free list and a lock-guarded one
over the same blocks; a waiter that times out while it is moved to another queue;
a region looked at before the lock is taken; and the arithmetic of sizes, chunks
and cells at their limits. The list of hazards, each with its
line and the properties that watch it, is in `PROJECT.json`.

## Modules

Every action is a stretch of code between two points where another thread can be
observed: an atomic access, a lock, a wait, the begin or end of a pause. Atomics
are sequentially consistent in all modules (the code uses relaxed and
acquire/release orders in places; weaker behaviours are outside these models).
Mutexes and condition variables are atomic sections with wait sets, with the
notification after the unlock where the code has it there; Monitor shows that
`sync/mutex.rs` keeps that promise.

A component is a specification `X`, an instance `MCX` with its `.cfg` files for
TLC and, for those with proofs, `XProofs` (`ObjStorageProofs` for SingleWriter too,
`PartsProofs` for Suspendible, Workers and the six parts of `Parts`). Small ones
share an instance: `MCPool` and `MCStructures` pick one component in the initial
state (`subject`, `part`) and let only that one move. Definitions named `Bug...` in `X` are not
part of the specification: each is one definition with a plausible mistake, kept
to show that a property notices it.

### Safepoint

`threads` is the list of `Threads`, `gc_state[t]` and `last_sp[t]` are the thread's
words, `page` says whether the polling page is armed, and `pc[t]` is the thread's next step.
Frames of a stack are counted (`MaxDepth`), and `last_sp` is a depth, so "the scan
covers the stack" is a comparison. Actions follow `Thread::register`, `safepoint`
and the SIGSEGV handler, `enter`/`wait_gc`, `safepoint_scope`, unsafe scopes,
`remove_current_thread`, `main_thread` and `SafepointSynchronize::begin`/`end`.
With `Conditional = FALSE` polls are page faults: the handler returns to the
faulting load, which polls again. With `Conditional = TRUE` they are loads of a
flag (`enter_conditional`), and control returns to managed code.

### Pause

What a pause promises to whoever opens it: it opens when nobody runs, nobody starts
before it is closed, and a `world` that runs may change stays as it is. `Safepoint`
implements it (`PauseSpec`, without `Conditional`) with the threads in managed code
as those that run and the thread list and the stacks as the world; a pause is open
from the return of `begin` to the call of `end`. `Suspendible` implements it too, with
the members that have not stopped in `yield_`, and the set of members as the world.

### ParallelMark

`MarkingTask::run` for a set of workers over an arbitrary graph: a segment
(`local`), a deque that others steal batches from and a shared `injector`, with
the defensive push of `SlotVisitor`, the `Terminator`'s two functions, and the
cancellation check at the top of each stride. `Init` distributes the roots in
every way the root processor can: to the injector, or to workers' segments and
deques. Array chunks are in ArrayMarking; here an object is one task. A stride is one task.

`Marking` is what such a loop promises: objects that the roots lead to are marked one
after the other, in any order; the outcome becomes `complete` only when all are, or
`abandoned`, and stays that. `ParallelMark` implements it (`MarkingSpec`): the
outcome is what the workers that have left the loop were told.

### Controller

`ControlThread::run_service` step by step: the flags read at the top of the loop,
the choice of the mode, `update_gc_id`, the concurrent cycle with its pauses and
its cancellation points, full collections, the notifications, the sleep; mutators
in `allocate_memory` with its three retries, in `handle_alloc_failure_gc` and in
`request_gc`; `Heap::stop`; markers in `check_cancelled_gc_and_yield`, which takes
`GC_CANCELLABLE` to `GC_NOT_CANCELLED` and back. `SpuriousCAS` lets the weak
compare-exchange of `SharedFlag::try_set` fail for no reason. Heuristics are a
free choice. `MaxCalls` bounds the calls of a mutator, `MaxConcurrent` the
concurrent cycles.

### GCCycle

A heap of cells in regions, each cell with `Fields`; mutators allocate, load,
forget, call the barrier and store; workers trace one field at a time; the
controller goes through the concurrent cycle or a full collection. A barrier and
the store behind it are two steps, since the collector runs between them, but a
pause never falls between them, since there is no safepoint. The queues of all
workers are one set, and a pause that only computes is one step, because
ParallelMark and Safepoint justify it: nobody is let go before the queues are
empty, and no mutator runs in a pause. TLABs, free lists and the free set are in
Regions; memory of a freed cell is taken to be empty, and a
pointer to a freed cell found on a stack marks nothing. `written` is a ghost: the
slots stored to since the initial mark.

### Memory and Regions

`Memory` says what an allocator promises: a block is handed out only while no unit
of it is in use. `Regions` implements it (`MemorySpec`, the live objects being the
blocks in use). Memory is counted in units of 16 bytes. `region[r]` holds the state
of a `HeapRegion`, its segregated free list (`heads` by bucket, and the biggest
index), and `to_sweep`; `AddAll` is a series of calls of `add`, which a sweep makes
for its `Gaps` and a retirement for what is left of buffers. `bits` and `bounds` are the
free set; `tlab[m]` is a
thread's buffer. The mutators' actions are the TLAB's bump allocation, its refill,
direct allocation in a region, contiguous regions for large objects, thread exit
and `main_thread`'s exit inside a safepoint scope. The collector retires all
buffers, marks (any set of live objects survives), closes the regions to sweep,
sweeps them one by one with a possible cancellation, and rebuilds the free set;
`entry_uncommit` looks without the lock and acts with it. What the code does under
`heap.lock` is one step.

Three defects give memory in use away; the model records which one happened in
`fault` and stops there, so that the other properties speak of everything before:
`decommitted` (see the run), `overrun` (an elastic TLAB smaller than the object it
was fetched for; `FixedTlabFits` says that only elastic buffers do it) and
`retiredTwice` (`main_thread` retires its buffer inside a pause that retires it too).

### Mesa and Monitor

`Mesa` is what a monitor promises: the mutex goes from its owner to nobody or to a
thread that asks for it; a waiter asks for it only after a notification or its own
deadline took it from the waiters; one notification takes one waiter or all of them,
and who leaves the monitor leaves none behind. `Monitor` implements it (`MesaSpec`) with
the byte of `RawMutex`, `parking_lot_core`'s queues and the condition variable:
barging and fair unlock with handoff, `bump`, the park with its validation, waits
with and without timeout, `wait_while`, and `notify_all` that wakes one waiter and
requeues the rest to the mutex. Each atomic operation and each section under a
queue lock is one step. Under the mapping a thread waits from the moment it stands in the
queue of the condition variable, still with the mutex (`Entering`); it asks from the
moment it stands in the queue of the mutex or has a token, and it owns with a handoff
token before it runs. So a waiter may be notified before it has released the mutex, and
its own unlock may hand the mutex to itself.

### Suspendible and Workers

`Suspendible` has the three counters and the semaphore of the set, and its members
in `join`, `yield_`, `leave` and in the suspender's `synchronize`/`desynchronize`.
`Workers` has the coordinator that creates workers with a handshake, changes their
active number, and runs tasks through `WorkerTaskDispatcher`.

### SingleWriter and ObjStorage

`SingleWriter` is the synchronizer with its polarity bit; `ObjStorage` extends it
and lets readers hold the active array inside a section. Clients allocate (one
entry or a slice), release without the lock, work off deferred updates, add blocks
with the lock dropped around `malloc`, and delete empty ones; `Drop` ends the run.
With two blocks on the allocation list at once `unlink` leaves stale links and the
assertions of the code fail; `FaultsNeedTwoBlocks` says that nothing less leads
there, and the model stops at a failed assertion. It does fail in the instance: two
clients that find no block add one each, the first is unlinked when it is full and
keeps its link to the second (`obj_storage.rs:458`), and when the storage is dropped
"deleting attached block" (98) fails for it (`fault` is `"attached"`).
A release claims its block for the deferred list by a load and a store; when two do
it at once (`doubled`) only the entries are still known to be right (`EntriesOK`), and
`BlocksOK` speaks of behaviours without it.

### Parts

References, Bitmap, ArrayMarking, HeapSizing, ArrayList and HashMap are small, have
nothing to do with each other and are each a few operations on a few words. `Parts` puts
them side by side with one variable that tells which of them a behaviour is about, so
that they have one instance and one module of proofs; `MCStructures` adds the
ordered hash map.

### References

Weak references and finalizers as two linked lists that mutators extend by
compare-exchange and that the pauses prune, in concurrent, cancelled and full
collections. Handles are the mutators' roots, and the conservative scan may also
mark what nobody holds. `drops` counts the runs of a cell's destructor.

### HashTable, HashMap, LinkedHashMap, ArrayList

Each operation that changes the structure is an action; `ref`, `order` and
`expected` are what a caller expects. The keys are chosen so that three of them
meet in one bucket at each capacity. `lost` and `cut` name what the removal defect
has cut off; `LookupAgrees` and `CutNodesStay` say what holds in spite of it. `HashTable`
is what both maps share; it takes the mask of lookups and the remainder of `resize`
as the code does, bit by bit, so that their agreement is something to show.

### ArrayMarking, Bitmap

`do_chunked_array_start`, `do_chunked_array` and the packed `MarkTask` with small
bit widths; and `HeapBitmap` with cells of two bits, whose compare-exchange may
fail, against sets of granules.

### HeapSizing

The chain from defaults and environment over `set_heap_size` and `setup_sizes`
to the layout of `Heap::new`, in bytes, and one walk over all regions in strides.
Shares of the physical memory are in 64ths (the defaults are 32, 16 and 1 of them).

## Runs

| Run | Instance | Shows |
|---|---|---|
| MCSafepoint | main, one thread, collector, depth 2; about 57,000 states | refinement `PauseSpec`; `ListedAlive`, `StackCoveredPastSetSp`; with fairness `NobodyStuck` |
| MCParallelMark | 2 workers, every graph on 3 objects with a leaf, segment of 1; about 58,000 states | refinement `MarkingSpec`; `MarkingComplete`, `TaskInOnePlace`; with fairness `LoopEnds` |
| MCController | 2 mutators, 2 markers, one call each, one concurrent cycle; about 420,000 states | `RetriedAfterFullGC`, `CancelKept`; with fairness `WaitsEnd` |
| MCGCCycle | 1 mutator, 2 workers, 2 cells in one region, 1 field; about 710,000 states | `FullMarksAll`, `LostOnlyThroughWrites`, `NoAllocInUnswept`, `BarriersOffInSweep` |
| MCRegions | 2 mutators, 2 regions of 4 units, objects of 2, 3 and 6 units, at most 2 alive; about 430,000 states | refinement `MemorySpec`; `FreeIsFree`, `FreeSetOK`, `ObjectsWhole` |
| MCMonitor | 3 threads, one of which locks twice; about 210,000 states | refinement `MesaSpec`; `QueuesOK`; with fairness `WaitsEnd` |
| MCPool | 3 members that join up to 3 times; 3 workers and 3 tasks; about 24,000 states | refinement `PauseSpec`; `SetOK`, `PoolOK`; with fairness `WaitsEnd` |
| MCObjStorage | 2 clients, blocks of 2 entries, up to 3 blocks, first array of 1 block, 5 calls alone or 3 with 2 reader sections; about 600,000 states | `EntriesOK`, `BlocksOK`, `ReadersOK` |
| MCStructures | 4 keys, maps of up to 4 entries, lists of up to 5, arrays of 17 lengths up to 100, bitmaps of 6 granules, 3 cells for references, some 400 environments; about 104,000 states | `HashMapAgrees`, `LinkedMapAgrees`, `ListAgrees`, `ArraysMarkedOnce`, `BitmapAgrees`, `ReferencesOK`, `SizesAgree` |

Several of these are conjunctions of named parts, each with its own comment in the
module:

| Property | Parts |
|---|---|
| `NobodyStuck` | `SafepointReached`, `StoppedResume`, `MainJoins` |
| `LoopEnds` | `WorkDone`, `CancelNoticed` |
| `WaitsEnd` | Controller: `CallsReturn`, `StopReturns`; Monitor: `ReadyServed`, `LockReturns`; MCPool: `SynchronizeReturns`, `NobodyLeftBehind`, `TasksReturn` |
| `FreeSetOK` | `FreeListFindable`, `BoundsCover`, `OpenRegionsUsable`, `UsedBounded`, `CommitCount` |
| `ObjectsWhole` | `HumongousWhole`, `StartBitsExact`, `FixedTlabFits` |
| `QueuesOK` | `HeldByOne`, `SleepersKnown`, `WaitersKnown`, `InOneQueue` |
| `SetOK`, `PoolOK` | `StaysSynchronized`, `OneSignal`; `TaskAlive`, `WorkDoneOnce`, `HandshakeMatches` |
| `EntriesOK`, `BlocksOK`, `ReadersOK` | `EntriesExclusive`, `CountAgrees`; `FaultsNeedTwoBlocks`, `EmptyBlockFindable`, `SafeToDelete`; `ArrayAlive`, `WakeupComing` |
| `HashMapAgrees` | `LookupAgrees`, `FoundWhereStored`, `SizeAgrees` |
| `LinkedMapAgrees` | `ListWhole`, `CutNodesStay`, `OrderAgrees`, `TracedWhole`, `DefaultGrows` |
| `ListAgrees` | `ListAgrees`, `Initialized`, `KeepsBuffer`, `LeavesRoom` of ArrayList |
| `ArraysMarkedOnce` | `ElementsOnce`, `TasksWhole` |
| `BitmapAgrees` | `NoLostBit`, `OneWinner`, `StartFound`, `RangesAgree` |
| `ReferencesOK` | `TargetAlive`, `ListsAllocated`, `DropsOnce`, `ClearsDead` |
| `SizesAgree` | `SizesOrdered`, `GeometryAgrees`, `TlabsFit`, `CommittedFits`, `WalksOnce` |

The type invariants of the modules without proofs are parts of these as well.

Three runs show where the code departs from what it says about itself:

* `MCGCCycleDangling`: the deletion barrier is given the object that is about to
  change, not the overwritten reference, and skips marked objects. A reference
  taken out of a marked object before it is traced, and stored back afterwards, is
  never marked; the sweep frees its referent.
* `MCRegionsUncommit`: `entry_uncommit` looks at a region again after it has taken
  the lock, but decommits it whatever the second look says (`heap.rs:249`): a
  region that a mutator took in between loses its memory.
* `MCHashMap`: `remove_node` links the head of the chain past the removed node and
  not its predecessor (`hashmap.rs:356`): the nodes in between are lost.

Why the bounds are enough: each race needs two threads or one thread and a
cycle. Two levels of stack tell an old `last_sp` from a new one. Two workers
already steal from each other, and three objects give chains, forks, cycles and
garbage; a segment of one object overflows into the deque at once. Two mutators
with one call each meet in both monitors, and one concurrent cycle can be cancelled
at each of its points by a call of either. Two cells in one region make a region that
holds garbage and has room at the same time. Two regions of four units have a split
free entry, a region that is used up, a bound that moves from either side and a
large object over both. With three threads one holds the mutex while one
waits and one sleeps, and `notify_all` has a waiter to wake and one to requeue.
Two entries make a block empty, partly used and full; three blocks are a list
with a middle, and the second block already outgrows the array. Three nodes in a
bucket have a middle one. Two cells of two granules and an edge cover ranges within
a cell, over an edge and over a whole cell. The safety invariants of Safepoint,
ParallelMark, Controller, GCCycle, Monitor, Suspendible, Workers, ObjStorage,
Regions, References, Bitmap, ArrayMarking, HeapSizing, ArrayList and HashMap are proved
without these bounds; only those of the ordered hash map rest on them.

Fairness: each thread that can run does (weak fairness of its own steps), and in
Safepoint a thread that finds a lock free again and again gets it (strong
fairness of acquiring: the parking-lot locks hand over to a waiter that has waited
too long). Managed code polls and leaves the scopes it opens, as the
documentation asks of it; a worker that joined the suspendible set looks at
`should_yield` and comes to an end, as the marking loop does; a thread that holds
a monitor gives it up. No fairness is assumed for what nobody promises: to
allocate, request a collection, spawn a thread, exit, open a safepoint, cancel,
stop the heap, lock a mutex, or hand out a task. Controller assumes that marking comes
to an end (strong fairness of `MarkerFinish`), which is what `WorkDone` of
ParallelMark checks.

Deadlock is checked in the runs of Safepoint, ParallelMark, Controller and
GCCycle; a marking loop that everybody has left and a stopped heap stutter
explicitly (`Joined`, `Halted`). The other instances come to an end when their
calls are used up; there the liveness properties and, for the object storage,
`WakeupComing` say that nobody is left waiting.

## Proofs

The theorems have the form `Spec => []P` or `Spec => [][A]_v`; five are refinements
(`MemorySpec`, `MesaSpec`, `MarkingSpec`, `PauseSpec` twice). They hold for any
sets of threads, workers, objects, cells, blocks and any values of the other
constants, the bounds on calls included, under the named assumptions beside the
constants: finite sets of workers, clients and readers, distinct names, sizes that
are at least 1. `MonitorAssumption`, `SuspendibleAssumption`, `PoolAssumption` and
`SizesOK` say it for Monitor, Suspendible, Workers and ObjStorage. `RegionsAssumption`
asks for at least one region, sizes and buffers above 0; `PowersOfTwo` only states
arithmetic that the provers lack. `NullAssumption`, `BitmapAssumption` and
`ListAssumption` ask the same of the parts; `ArrayAssumption` that the fields of a task
word fit its bits, `SizesAssumption` that a page is a power of two of at least 2 KB and
that a size given in the environment is below 2^30, up to which the model takes
logarithms, and `MapAssumption` that capacities are powers of two, that a map is asked
for at least two buckets and that it never counts as far as its largest threshold. Each inductive invariant was first checked by TLC on the instance above.

* `SafepointProofs`: `TypeCorrect`, `SafepointIsAPause` (`PauseSpec`),
  `ListStaysAlive` (`ListedAlive`), `ScanMissesOnlyPending` (`StackCoveredPastSetSp`),
  the last three with `~Conditional`. The refinement rests on `WorldStops`: nobody runs
  managed code in a pause (`StopTheWorld`). This is not inductive: `begin()`
  looks at one thread after another, and a thread already seen stopped may have
  stored 0 since. `CheckedOK` says that such a thread can only be on its way to a
  poll, and that the page is armed while the collector looks; `StateOK` and `ListOK`
  say where a thread is when it shows a stopped state or is listed, `SpOK` where its
  stack pointer is up to date.
* `ParallelMarkProofs`: `TypeCorrect`, `NoEarlyTermination` (`MarkingComplete`),
  `LoopIsMarking` (`MarkingSpec`). The invariant has the tri-colour fact
  `GreyOK` (a marked object has marked references or is pending), `WorkerOK` (an
  idle worker has empty queues), `QueuedOK` (queued objects are marked),
  `InjectorOK` (a non-empty injector has a worker that will still look into it)
  and `CountOK` (the terminator's counter counts the workers that are not out).
  `TracedOnce` (`TaskInOnePlace`) adds to it that an object is in one queue or with
  one worker, which holds because only the worker that sets the mark queues the
  object. The refinement uses `MarkingComplete` for the step to `complete`, `NothingElseMarked`
  (marked objects are reachable) for each mark, and `ExitsAgree`: no worker ends for
  want of work while another leaves for a cancellation, so the outcome is one.
* `ControllerProofs`: `TypeCorrect`, `NullOnlyAfterFullGC` (`RetriedAfterFullGC`)
  and `CancellationsKept` (`CancelKept`, an action property), both with
  `~SpuriousCAS`. The invariant relates a mutator's retries to the full
  collections it has seen (`SeenOK`), the mark phase to the markers (`MarkOK`),
  the controller's place to its mode (`CycleOK`) and pauses to stopped mutators
  (`WorldOK`).
* `GCCycleProofs`: `TypeCorrect`, `FullCollectionComplete` (`FullMarksAll`),
  `LossNeedsWrite` (`LostOnlyThroughWrites`), `UnsweptClosed`, `BarriersOff`.
  `GreyOK` says of each field of a marked object that it refers to a marked
  object, or the object is queued, or a worker has yet to visit the field, or it
  was stored to; `WrittenOK` and `RootsOK` say when stores count and that stacks
  are marked in a pause; `FlagOK` that a thread attaching later finds the flag off.

* `PartsProofs`, first part: `SuspensionHolds` (`SetOK`), `SuspensionIsAPause`
  (`PauseSpec`) and `TasksDoneOnce` (`PoolOK`). For the
  set, `SuspensionOK` says that `SUSPEND_ALL` is up exactly while a suspender is at
  work, `StaysSynchronized` that nobody goes on before `desynchronize`, and
  `SignalOK` ties the semaphore to the moment they become equal: it is raised once
  per suspension, by whoever makes the two counters equal. For the pool, `CreatedOK` and `QuietOK` say where workers are when
  no task is out; `AwaitOK` that permits, workers starting and calls of `work` add
  up to the number asked for, and permits, workers starting and workers at work to
  `not_finished`; `RanOK` that ids come from the counter `started`, so no two
  calls of a task share one; `GivenOK` that a task under way has workers enough.
* `MonitorProofs`: `SleepersNeverForgotten` (`QueuesOK`) and `MonitorIsMesa`
  (`MesaSpec`). `OwnersInv` says that the locked bit is set exactly when one thread
  is the owner, a thread with an unused handoff token included; `HolderInv` that a
  thread about to wait has no token left; `StandingInv` that the queues hold, once,
  the threads that sleep without a token. Given these, `SleepersKnown` (a sleeper
  on a free mutex has a thread on the way to it or the parked bit) and
  `WaitersKnown` are kept step by step. The refinement adds
  `LeavingInv`: while a thread unlocks for good the condition variable is marked as
  without waiters, and it did not get there by way of `notify_one` alone. `OnlyOwnPlace` says that a step
  changes what one thread owns, asks and waits for and nothing about the others;
  `UnparkPassesOn` that `unlock_slow` hands over only to a thread that asks, and
  `NotificationWakes` that waking one waiter and requeueing the rest is one `Notify`.
* `ObjStorageProofs`: `EntriesSafe` (`EntriesOK`), `ReadersSafe` (`ReadersOK`) and
  `BlocksSafe` (`BlocksOK`). `StorageInv` has the mutex (`LockInv`), the blocks
  reserved (`MadeInv`), the links and locals that name pushed blocks only
  (`PushedInv`), the entries (`EntryInv`: what a client chose stays free until it
  sets the bits, since without the lock bits are only cleared), the two counts with
  what releases still owe (`CountInv`, `RefsInv`), the reference counts of the arrays
  (`ArrayInv`) and the synchronizer (`SyncInv`: the distance of `enter` and the
  `exit` counter of a polarity is twice the number of its open sections). `BlockInv`
  adds the deferred list (`Chained`, `Defers`: as long as no block is claimed
  twice, each listed block is linked from one other and reached from the head,
  and links are written only to blocks that are off the list) and the allocation list
  (`ShortInv`: until it has held two blocks it has no links, its block has a free
  entry, and who holds the mutex works on it). `FoundInv` says that no empty block is
  lost: a change of the list takes out no block but its own, stale links or not, as
  long as head and tail are both set or both not; a block outside of the
  list was full, and who frees its first or last entry defers it.
* `RegionsProofs`: `FreeMemoryStaysFree` (`FreeIsFree`), `ObjectsStayWhole`
  (`ObjectsWhole`), `AllocatorIsMemory` (`MemorySpec`) and `FreeSetStaysRight`
  (`FreeSetOK`). `FreeIsFree` is not
  inductive: it does not say that a free region has no object start, that a region
  of a large object has an empty list, or that a region in the free set is not one to
  be swept. `InOrder` says all that of three things: `F`, what `heap.lock` protects;
  the objects; and the `Rests` of the buffers. For each region `RegionOK` says that
  its list is well filed, its entries lie in the region, apart from each other, from
  every object and rest and from every start bit, and that an unused region holds
  nothing; `Shape` that each large object has its regions for itself, up to the
  last one; `ObjOK` and `RestOK` that objects and rests lie in regions of the right
  kind, an object's start bit being the only one in it and a rest's region not one to
  sweep; `PiecesApart` that no unit belongs to two of them. `RegionInv` adds the threads'
  requests, and what remains true after a fault. The lemmas go from lists to
  regions (what an allocation in a region returns, `Serves`), to the free set
  (`Served`, for a single region by induction over the regions visited, for contiguous
  ones by the run found), to changes of the objects or buffers. An action
  is a chain of such changes, and each is a step of `Memory` or a stutter.

  `FreeSetOK` needs sums, which the code makes by loops and the model by folds.
  `SumFact` says that such a fold is the size of a set of units when the parts are
  disjoint, and `FreeBytesFact`, `ReturnedSum` and `CapacitySum` that it is so for the
  entries of a list, the buffers given back and the regions of a rebuild; it is here
  that `FreeIsFree` is used. With `FreeUnits(g, r)` for what a region offers and
  `Pool(f)` for what all open regions offer, the invariant `AccountInv` says
  `used + Cardinality(Pool(F)) <= capacity + returned` while nothing has gone wrong
  (`UsedBounded` alone is not inductive: a region retired with something left in it
  adds that to `used`), that every open region offers something and lies between
  the bounds, and that `committed` is the number of regions that have memory and
  never zero. A request moves what it gets, and what a retired region has left, from
  the pool to `used`; a sweep touches regions outside of the pool only; a buffer
  given back adds to the pool what it adds to `returned`; `rebuild` starts anew. After
  a fault `UsedBounded` and the filing of entries (`Findable`) still hold, although an
  entry is then in a list twice.

* `PartsProofs`, the parts: `ReferencesAreSafe` (`ReferencesOK`), `BitmapIsASet`
  (`BitmapAgrees`), `ArraysVisitedOnce` (`ArraysMarkedOnce`), `SizesHold`
  (`SizesAgree`), `ListIsAVec` (`ListAgrees`) and `MapAnswersPuts` (`HashMapAgrees`). Each speaks of the behaviours of
  `Parts` that are about its part.

  References: a list is the least set closed under the links, so that "in the list"
  needs no induction over its length (`ListsOK`). `LinkingOK` says what a mutator that
  is about to link a reference has read, `TargetsOK` and `HeldOK` that what is held is
  allocated and a target live or cleared, `PauseOK` what a pause has visited and what
  it has still before it, and `SweepOK` that what is about to be freed is neither listed
  nor held; `DropsOK` counts the destructors.

  Bitmap: `NoLostBit` needs `LoadedOK` (what a thread loaded differs from the cell
  only if the cell changed, so that its compare-exchange fails) and `WinsOK`. The
  rest compares the loops over cells with the bits one by one, for each range.

  ArrayMarking: the waiting tasks stand for pieces of the array. `ArrayInv` says that
  they do not overlap and that an element was visited once if it is in none of them.
  The loops of the code, which halve what is left until it is small, are unrolled into
  a sequence of rounds that `RoundsExist` shows to exist; `PrefixOK` and `PieceOK` are
  their invariants.

  HeapSizing: `SizeInv` ties the options to the arguments, `LayoutInv` the committed
  regions to the initial size, and `WalkInv` says that the chunks handed out so far are
  apart and cover the regions up to the index. The lemmas before it are about rounding,
  division and powers of two.

  ArrayList: `ListInv` says that until `split_off` panics the first `len` cells of the
  buffer hold the list a `Vec` would be, and no cell of them is uninitialized. The loops
  of `try_reserve`, `resize`, `split_off` and `retain` are sequences of steps again,
  each with an invariant (`Holds`, `PassOK`, `KeepsFirst`) that `LoopKeeps` carries to
  the end.

  HashMap: `AndFact` shows that the mask of a power of two less one is the remainder by
  it, so that lookups search where `resize` puts nodes. `TableOf` says that each chain
  holds each of its keys once and only keys that belong there; `PushAllFact` and
  `GatheredFact`, again over sequences of steps, that a rehash keeps the nodes, and
  `CutFact` what `remove_node` leaves of a chain. `Grown` ties the threshold to the
  capacity: it is never more than that below the maximum, which is why doubling it makes
  room for one node more. `MapInv` adds that `size` counts the nodes and those lost, that
  a key is in the table with the value put last, lost, or not expected, and that an
  entry remembers rightly whether its key is there.

Only model-checked: all liveness properties (fairness is beyond the prover), and the
ordered hash map (`LinkedMapAgrees`), whose walks along the links and whose tracing are
recursions over the data.

## Not modelled

* The degenerated cycle never runs: `should_degenerate_cycle` (`heuristics/mod.rs:54`)
  is `false` and no heuristic overrides it, although `README.md:27` says that
  an allocation failure switches to degenerated GC. Controller keeps the decision
  and models it as the code makes it.
* Code without a caller: `utils/taskqueue.rs`, `sync/task_terminator.rs`,
  `utils/deque/`, `utils/stack.rs`, `heap/pacer.rs`, `heap/mark_bitmap.rs`,
  `utils/bitvector.rs`, `heap/reference_queue.rs`, `SweepTask` and `Sweep` in
  `heap/sweeper.rs`; `sync/vm_thread.rs` is a stub.
* Floating-point heuristics, system calls, stack walking and register capture are
  out of reach of this method. `heap/card_table.rs` is not used by the default
  build. `graceful_shutdown` is never set; logging, statistics and timers have no
  influence on the protocols.
* Weak memory: relaxed and acquire/release accesses are taken as sequentially
  consistent everywhere.

## Observations without a run

Met while modelling; each is in the code as it stands.

Threads and collections:

* Conditional safepoints: a thread that wakes up from one pause and is delayed
  before it stores state 0 is counted as stopped by the next `begin()` and then runs
  in its pause (`thread.rs:592`). The page-fault build, which `PauseSpec` is
  about, is not affected.
* `safepoint_scope_conditional` stores `GC_STATE_SAFE` before `last_sp`
  (`thread.rs:661`); `StackCoveredPastSetSp` says that this is the only window.
* `register` is in the list, and polls, before the thread has an SSB
  (`thread.rs:321-342`).
* `request_gc` returns when `gc_id` has grown, which happens before the collection it
  counts, whatever its mode (`controller.rs:152`, `302`).
* A mutator in `try_cancel_gc` can set `GC_CANCELLED` after the full collection that
  served it (`heap.rs:705`); concurrent cycles are dropped until the next one.
* After a cancelled mark only a full collection runs, and it leaves barriers,
  buffers and the mark-in-progress flag as they were (`full_gc.rs:45`).
* With `SpuriousCAS = TRUE`, `RetriedAfterFullGC` fails: three spurious failures of
  `compare_exchange_weak` (`shared_vars.rs:40`, possible on AArch64) make
  `allocate_memory` return null without any collection, against the comment at
  `heap.rs:465`.
* `main_thread` calls `remove_current_thread` inside a safepoint scope
  (`thread.rs:816`), which retires the TLAB and flushes the SSB while a pause may be
  under way, against the rule at `thread.rs:648`; in Regions it ends as
  `retiredTwice`.
* `main_thread` returns when the list of registered threads is empty
  (`thread.rs:783`); a thread that `spawn_thread` started and that has not registered
  yet is not in it, although `thread.rs:807` says that the function does not
  terminate until all mutator threads are terminated.
* Weak references: `process` looks up the target of every live reference, also of
  one that was cleared before (`weak_reference.rs:89`); null lies outside the
  mark bitmap.
* Arrays of more than 2^30 elements take a path that pushes chunk 2 where chunk 1 is
  meant (`mark.rs:184-192`).

Memory:

* An elastic TLAB may be smaller than the object it was fetched for
  (`free_set.rs:186`); `region.rs:80` says that elastic TLABs are on by default,
  the default is off.
* More GC threads than regions make the stride 0, and the loop at `heap.rs:843`
  never ends; no GC threads with the default stride divide by zero
  (`region.rs:967`). The model has both: `Execute` hands out an empty chunk and stays
  where it is, `SetupPanics` ends the start-up. `WalksOnce` only says that the walk
  advances otherwise.
* An initial size below 5 MB without a minimal one gives a minimal size above the
  initial one (`region.rs:448-468`). A humongous threshold of 1 percent of a 4 KB
  region is 0 bytes. A minimal TLAB of 2 KB is more than the eighth of a region that
  the comment at `region.rs:944` promises.
* `trash_humongous_region_at` decrements its index below 0 for region 0 in its last
  round (`heap.rs:560`; a panic in debug builds only). `region_payload_size_bytes`
  is never set.
* `align_up` (`heap/mod.rs:47`) subtracts the alignment, so it answers an address
  below its argument; `Block::new_block` (`obj_storage.rs:286`) uses it on memory
  from `malloc`.
* `HeapBitmap`: `find_object_start` counts in granules of 16 whatever the
  parameter; `set_atomic` and `clear_atomic` are a load and a store (no caller);
  `CHeapBitmap::clear_range` skips whole cells, `HeapBytemap` subtracts in the
  wrong order (no caller).

Synchronization:

* Object storage: `unlink` leaves the block's own links; a release claims a block for
  the deferred list by load and store; the early return of `allocaten` without an
  unlock cannot be reached.
* Worker threads: the handshake flag is never reset, `run_task` with no active
  workers would wait for ever, `did_shutdown` is decremented from 0.
* `semaphore.rs`: a timeout that carries into the next second sets `tv_nsec` to 0.

Collections:

* `LinkedHashMap::resize` below the default capacity leaves the new capacity 0, and
  the next hash is taken modulo 0. A node that `remove_node` cut off stays on the
  order list; `pop_front` may return the head without removing it; the head is not
  traced when the table is otherwise empty.
* `table_size_for(0)` and `(1)` shift by 64 bits.
* `ArrayList`: `split_off` panics unless at most one element is split off;
  `IndexMut` checks the capacity, not the length; `try_reserve` of more than
  `max_elems` on an empty list answers true; `grow` copies without a barrier.

## Plan

What is left is the ordered map's proof: its table is the other map's, and for its links
References' way of speaking of lists serves. Of the code, the
bytemap's and the bit vector's remaining operations and the work queue's array would
come next, once something uses them.

Runs are kept few: one passing run per module or family of modules that asks all of
its questions, and one for a departure from the documentation that costs memory
or data.
