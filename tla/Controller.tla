----------------------------- MODULE Controller -----------------------------
(***************************************************************************)
(* The controller thread, the calls that wait for it, and the cancellation *)
(* flag they share (heap/controller.rs, heap/heap.rs, heap/shared_vars.rs, *)
(* the phases of heap/concurrent_gc.rs and heap/full_gc.rs).               *)
(*                                                                         *)
(* Mutators block in allocate_memory after a failed allocation and in      *)
(* request_gc; both wait on a Monitor whose guard notifies everybody when  *)
(* it is dropped.  Stopping the world is reduced to arm, stop and resume:  *)
(* module Safepoint has the detail, module ParallelMark that of marking.   *)
(*                                                                         *)
(* Definitions named Bug... are no part of the specification: each is a    *)
(* definition with a plausible mistake, which a property must notice.      *)
(***************************************************************************)
EXTENDS Naturals

CONSTANTS
  Mutators,       \* registered threads other than the one that calls stop()
  Markers,        \* the worker threads of a concurrent mark
  AlwaysFull,     \* the always_full option (or the gc-passive feature)
  SpuriousCAS,    \* compare_exchange_weak may fail without a reason
  MaxCalls,       \* bound: blocking calls one mutator makes
  MaxConcurrent   \* bound: cycles the heuristics start by themselves

ASSUME ControllerAssumption ==
  /\ AlwaysFull \in BOOLEAN
  /\ SpuriousCAS \in BOOLEAN
  /\ MaxCalls \in Nat
  /\ MaxConcurrent \in Nat

VARIABLES
  pc,               \* what each mutator executes next
  mon,              \* the monitor of the call the mutator is in
  tries,            \* allocate_memory's tries
  required_gc_id,   \* handle_requested_gc's, 0 until it has read gc_id
  calls,            \* blocking calls made so far (for MaxCalls)
  seen,             \* ghost: the full collections since the call began
  owner,            \* which mutator holds each monitor's mutex, if any
  alloc_failure_gc, gc_requested, gc_id, cancelled_gc,
  world,            \* running, arming (page armed) or stopped
  cpc,              \* what the controller executes next
  alloc_failure_pending, explicit_gc_requested, mode, degen_point,
  started,          \* concurrent cycles so far (for MaxConcurrent)
  marker,           \* what each marking task executes next
  spc,              \* Heap::stop
  should_terminate, has_terminated

mutators == <<pc, mon, tries, required_gc_id, calls, seen>>
flags == <<alloc_failure_gc, gc_requested, gc_id, cancelled_gc>>
cycle == <<alloc_failure_pending, explicit_gc_requested, mode, degen_point,
           started>>
shutdown == <<spc, should_terminate, has_terminated>>
vars == <<mutators, owner, flags, world, cpc, cycle, marker, shutdown>>

NoOne == "no one"
AllocFailureWaiters == "alloc_failure_waiters_lock"
GcWaiters == "gc_waiters_lock"
Monitors == {AllocFailureWaiters, GcWaiters}

ASSUME NoOneAssumption == NoOne \notin Mutators

GC_CANCELLABLE == 0
GC_CANCELLED == 1
GC_NOT_CANCELLED == 2
\* allocate_memory that retries once.
BugMaxTries == 1

MaxTries == 3

Goto(m, to) == pc' = [pc EXCEPT ![m] = to]

\* Inside a safepoint scope, or stopped at a poll, or gone.
Safe == {"parked", "spin", "slow", "got", "wait", "done"}

\* The flag's compare_exchange_weak: a spurious failure still returns the old
\* value, and every caller takes that for success.
CancelCAS(new) ==
  \/ cancelled_gc' = new
  \/ SpuriousCAS /\ UNCHANGED cancelled_gc

\* Condvar::notify_all as a mutator runs it: every waiter goes to the mutex.
Woken(q) ==
  [m \in Mutators |->
     IF pc[m] = "wait" /\ mon[m] = q THEN "slow" ELSE pc[m]]

Init ==
  /\ pc = [m \in Mutators |-> "run"]
  /\ mon = [m \in Mutators |-> AllocFailureWaiters]
  /\ tries = [m \in Mutators |-> 0]
  /\ required_gc_id = [m \in Mutators |-> 0]
  /\ calls = [m \in Mutators |-> 0]
  /\ seen = [m \in Mutators |-> "none"]
  /\ owner = [q \in Monitors |-> NoOne]
  /\ alloc_failure_gc = FALSE
  /\ gc_requested = FALSE
  /\ gc_id = 0
  /\ cancelled_gc = GC_CANCELLABLE
  /\ world = "running"
  /\ cpc = "top"
  /\ alloc_failure_pending = FALSE
  /\ explicit_gc_requested = FALSE
  /\ mode = "None"
  /\ degen_point = "Unset"
  /\ started = 0
  /\ marker = [w \in Markers |-> "off"]
  /\ spc = "off"
  /\ should_terminate = FALSE
  /\ has_terminated = FALSE

-----------------------------------------------------------------------------
(***************************************************************************)
(* Mutators.  A step that leaves a safepoint scope needs a running world.  *)
(***************************************************************************)

\* allocate_memory: the first attempt under the heap lock returned null.
AllocFails(m) ==
  /\ pc[m] = "run" /\ calls[m] < MaxCalls
  /\ calls' = [calls EXCEPT ![m] = @ + 1]
  /\ seen' = [seen EXCEPT ![m] = "none"]
  /\ tries' = [tries EXCEPT ![m] = 1]
  /\ mon' = [mon EXCEPT ![m] = AllocFailureWaiters]
  /\ Goto(m, "try_set")
  /\ UNCHANGED <<required_gc_id, owner, flags, world, cpc, cycle, marker,
                 shutdown>>

\* handle_alloc_failure_gc: the thread that sets the flag cancels the cycle.
TrySet(m) ==
  /\ pc[m] = "try_set"
  /\ \/ /\ ~alloc_failure_gc
        /\ alloc_failure_gc' = TRUE
        /\ Goto(m, "cancel")
     \/ /\ alloc_failure_gc \/ SpuriousCAS
        /\ Goto(m, "lock")
        /\ UNCHANGED alloc_failure_gc
  /\ UNCHANGED <<mon, tries, required_gc_id, calls, seen, owner, gc_requested,
                 gc_id, cancelled_gc, world, cpc, cycle, marker, shutdown>>

\* try_cancel_gc: while a marker holds the flag, spin in a safepoint scope.
TryCancel(m) ==
  /\ pc[m] = "cancel"
  /\ \/ /\ cancelled_gc = GC_CANCELLABLE
        /\ CancelCAS(GC_CANCELLED)
        /\ Goto(m, "lock")
     \/ /\ cancelled_gc = GC_CANCELLED
        /\ Goto(m, "lock")
        /\ UNCHANGED cancelled_gc
     \/ /\ cancelled_gc = GC_NOT_CANCELLED
        /\ Goto(m, "spin")
        /\ UNCHANGED cancelled_gc
  /\ UNCHANGED <<mon, tries, required_gc_id, calls, seen, owner,
                 alloc_failure_gc, gc_requested, gc_id, world, cpc, cycle,
                 marker, shutdown>>

SpinAgain(m) ==
  /\ pc[m] = "spin" /\ world = "running"
  /\ Goto(m, "cancel")
  /\ UNCHANGED <<mon, tries, required_gc_id, calls, seen, owner, flags, world,
                 cpc, cycle, marker, shutdown>>

\* request_gc: handle_requested_gc starts by locking its monitor.
RequestGC(m) ==
  /\ pc[m] = "run" /\ calls[m] < MaxCalls
  /\ calls' = [calls EXCEPT ![m] = @ + 1]
  /\ seen' = [seen EXCEPT ![m] = "none"]
  /\ required_gc_id' = [required_gc_id EXCEPT ![m] = 0]
  /\ mon' = [mon EXCEPT ![m] = GcWaiters]
  /\ Goto(m, "lock")
  /\ UNCHANGED <<tries, owner, flags, world, cpc, cycle, marker, shutdown>>

\* Mutex::lock(true): the fast path stays managed, lock_slow opens a
\* safepoint scope in which it waits for the mutex.
Lock(m) ==
  /\ pc[m] = "lock"
  /\ \/ /\ owner[mon[m]] = NoOne
        /\ owner' = [owner EXCEPT ![mon[m]] = m]
        /\ Goto(m, "check")
     \/ /\ owner[mon[m]] # NoOne
        /\ Goto(m, "slow")
        /\ UNCHANGED owner
  /\ UNCHANGED <<mon, tries, required_gc_id, calls, seen, flags, world, cpc,
                 cycle, marker, shutdown>>

LockSlow(m) ==
  /\ pc[m] = "slow" /\ owner[mon[m]] = NoOne
  /\ owner' = [owner EXCEPT ![mon[m]] = m]
  /\ Goto(m, "got")
  /\ UNCHANGED <<mon, tries, required_gc_id, calls, seen, flags, world, cpc,
                 cycle, marker, shutdown>>

\* The end of the scope around lock_slow or Condvar::wait, mutex held.
LeaveScope(m) ==
  /\ pc[m] = "got" /\ world = "running"
  /\ Goto(m, "check")
  /\ UNCHANGED <<mon, tries, required_gc_id, calls, seen, owner, flags, world,
                 cpc, cycle, marker, shutdown>>

\* MonitorLocker::wait: enter a scope, queue on the condvar, unlock.
Wait(m) ==
  /\ Goto(m, "wait")
  /\ owner' = [owner EXCEPT ![mon[m]] = NoOne]

\* The guard goes out of scope: MonitorLocker::drop notifies all, then the
\* mutex is released.
DropGuard(m, to) ==
  /\ pc' = [Woken(mon[m]) EXCEPT ![m] = to]
  /\ owner' = [owner EXCEPT ![mon[m]] = NoOne]

\* handle_alloc_failure_gc: while the flag is set, wait.
AwaitAllocFailureGC(m) ==
  /\ pc[m] = "check" /\ mon[m] = AllocFailureWaiters
  /\ IF alloc_failure_gc THEN Wait(m) ELSE DropGuard(m, "retry")
  /\ UNCHANGED <<mon, tries, required_gc_id, calls, seen, flags, world, cpc,
                 cycle, marker, shutdown>>
\* tries <= 3 where the code has tries < 3.
BugRetry(m) ==
  /\ pc[m] = "retry"
  /\ tries[m] <= MaxTries
  /\ tries' = [tries EXCEPT ![m] = @ + 1]
  /\ Goto(m, "try_set")
  /\ UNCHANGED <<mon, required_gc_id, calls, seen, owner, flags, world, cpc,
                 cycle, marker, shutdown>>

\* allocate_memory tries again, and gives up with null after three rounds.
Retry(m) ==
  /\ pc[m] = "retry"
  /\ \/ /\ Goto(m, "run")
        /\ UNCHANGED tries
     \/ /\ tries[m] < MaxTries
        /\ tries' = [tries EXCEPT ![m] = @ + 1]
        /\ Goto(m, "try_set")
     \/ /\ tries[m] = MaxTries
        /\ Goto(m, "oom")
        /\ UNCHANGED tries
  /\ UNCHANGED <<mon, required_gc_id, calls, seen, owner, flags, world, cpc,
                 cycle, marker, shutdown>>

\* handle_requested_gc reads gc_id once, under the lock.
ReadGcId(m) ==
  /\ pc[m] = "check" /\ mon[m] = GcWaiters /\ required_gc_id[m] = 0
  /\ required_gc_id' = [required_gc_id EXCEPT ![m] = gc_id + 1]
  /\ Goto(m, "ask")
  /\ UNCHANGED <<mon, tries, calls, seen, owner, flags, world, cpc, cycle,
                 marker, shutdown>>

\* The body of handle_requested_gc's loop up to the wait.
Ask(m) ==
  /\ pc[m] = "ask"
  /\ gc_requested' = TRUE
  /\ Wait(m)
  /\ UNCHANGED <<mon, tries, required_gc_id, calls, seen, alloc_failure_gc,
                 gc_id, cancelled_gc, world, cpc, cycle, marker, shutdown>>

\* After the wait: ask again, or return once gc_id has grown.
AwaitRequestedGC(m) ==
  /\ pc[m] = "check" /\ mon[m] = GcWaiters /\ required_gc_id[m] # 0
  /\ IF gc_id < required_gc_id[m]
     THEN Goto(m, "ask") /\ UNCHANGED owner
     ELSE DropGuard(m, "run")
  /\ UNCHANGED <<mon, tries, required_gc_id, calls, seen, flags, world, cpc,
                 cycle, marker, shutdown>>

\* A poll of an armed page, and the way back.
Poll(m) ==
  /\ pc[m] = "run" /\ world # "running"
  /\ Goto(m, "parked")
  /\ UNCHANGED <<mon, tries, required_gc_id, calls, seen, owner, flags, world,
                 cpc, cycle, marker, shutdown>>

Resume(m) ==
  /\ pc[m] = "parked" /\ world = "running"
  /\ Goto(m, "run")
  /\ UNCHANGED <<mon, tries, required_gc_id, calls, seen, owner, flags, world,
                 cpc, cycle, marker, shutdown>>

\* The OOM panic is caught, or unwinds the thread (then Exit follows).
PanicOOM(m) ==
  /\ pc[m] = "oom"
  /\ Goto(m, "run")
  /\ UNCHANGED <<mon, tries, required_gc_id, calls, seen, owner, flags, world,
                 cpc, cycle, marker, shutdown>>

\* The thread function ends; leaving the list needs the list's lock.
Exit(m) ==
  /\ pc[m] = "run" /\ world = "running"
  /\ Goto(m, "done")
  /\ UNCHANGED <<mon, tries, required_gc_id, calls, seen, owner, flags, world,
                 cpc, cycle, marker, shutdown>>

-----------------------------------------------------------------------------
(***************************************************************************)
(* ControlThread::run_service.                                             *)
(***************************************************************************)
\* The loop's condition and the first of the two flags it reads.
LoopTop ==
  /\ cpc = "top"
  /\ IF should_terminate
     THEN cpc' = "exit" /\ UNCHANGED alloc_failure_pending
     ELSE cpc' = "decide" /\ alloc_failure_pending' = alloc_failure_gc
  /\ UNCHANGED <<mutators, owner, flags, world, explicit_gc_requested, mode,
                 degen_point, started, marker, shutdown>>

\* Heuristics::should_degenerate_cycle, which is never overridden.
should_degenerate_cycle == FALSE

\* The second flag, and the choice of the mode.  Only the heuristics' own
\* trigger is free; always_full turns every choice into a full cycle.  The
\* degeneration point the last cycle left is consumed.
Decide ==
  /\ cpc = "decide"
  /\ degen_point' = "OutsideCycle"
  /\ explicit_gc_requested' = gc_requested
  /\ \E due \in BOOLEAN :
       /\ due => started < MaxConcurrent
       /\ LET trigger ==
                IF alloc_failure_pending
                THEN IF should_degenerate_cycle THEN "STWDegen" ELSE "STWFull"
                ELSE IF gc_requested THEN "STWFull"
                     ELSE IF due THEN "Concurrent" ELSE "None"
          IN /\ mode' = IF trigger # "None" /\ AlwaysFull
                        THEN "STWFull" ELSE trigger
             /\ started' = IF trigger = "Concurrent" THEN started + 1
                           ELSE started
             /\ cpc' = IF trigger = "None" THEN "sleep" ELSE "start"
  /\ UNCHANGED <<mutators, owner, flags, world, alloc_failure_pending, marker,
                 shutdown>>

\* update_gc_id comes before the cycle it counts.
StartCycle ==
  /\ cpc = "start"
  /\ gc_id' = gc_id + 1
  /\ cpc' = IF mode = "Concurrent" THEN "conc" ELSE "full"
  /\ UNCHANGED <<mutators, owner, alloc_failure_gc, gc_requested, cancelled_gc,
                 world, cycle, marker, shutdown>>

\* SafepointSynchronize::begin: arm the page, then wait for every mutator.
\* Each collection opens its pauses here: full, initial mark, final mark.
Arm ==
  /\ cpc \in {"full", "init_mark", "final_mark"} /\ world = "running"
  /\ world' = "arming"
  /\ UNCHANGED <<mutators, owner, flags, cpc, cycle, marker, shutdown>>

Stopped ==
  /\ world = "arming"
  /\ \A m \in Mutators : pc[m] \in Safe
  /\ world' = "stopped"
  /\ seen' = [m \in Mutators |->
               IF cpc = "full" /\ seen[m] = "none" THEN "begun" ELSE seen[m]]
  /\ UNCHANGED <<pc, mon, tries, required_gc_id, calls, owner, flags, cpc,
                 cycle, marker, shutdown>>

\* FullGC::do_collect inside the pause: the cancellation is consumed.
ClearCancelled ==
  /\ cpc = "full" /\ world = "stopped"
  /\ cancelled_gc' = GC_CANCELLABLE
  /\ cpc' = "full_sweep"
  /\ UNCHANGED <<mutators, owner, alloc_failure_gc, gc_requested, gc_id, world,
                 cycle, marker, shutdown>>

FullEnd ==
  /\ cpc = "full_sweep"
  /\ world' = "running"
  /\ seen' = [m \in Mutators |->
               IF seen[m] = "begun" THEN "done" ELSE seen[m]]
  /\ cpc' = "notify_gc"
  /\ UNCHANGED <<pc, mon, tries, required_gc_id, calls, owner, flags, cycle,
                 marker, shutdown>>

\* check_cancellation_or_degen and check_cancellation_and_abort.
CheckCancellation(point, next) ==
  IF cancelled_gc = GC_CANCELLED
  THEN degen_point' = point /\ cpc' = "notify_gc"
  ELSE UNCHANGED degen_point /\ cpc' = next

\* service_concurrent_normal_cycle: a cycle cancelled before it begins.
ConcBegin ==
  /\ cpc = "conc"
  /\ CheckCancellation("OutsideCycle", "init_mark")
  /\ UNCHANGED <<mutators, owner, flags, world, alloc_failure_pending,
                 explicit_gc_requested, mode, started, marker, shutdown>>

\* The initial pause ends and the marking tasks start.
InitMarkEnd ==
  /\ cpc = "init_mark" /\ world = "stopped"
  /\ world' = "running"
  /\ cpc' = "mark"
  /\ marker' = [w \in Markers |-> "check"]
  /\ UNCHANGED <<mutators, owner, flags, cycle, shutdown>>
\* Every marking task that was not cancelled restores the flag.
BugMarkerCheck(w) ==
  /\ marker[w] = "check" /\ cancelled_gc # GC_CANCELLED
  /\ marker' = [marker EXCEPT ![w] = "hold"]
  /\ UNCHANGED <<mutators, owner, alloc_failure_gc, gc_requested, cancelled_gc, gc_id,
                 world, cpc, cycle, shutdown>>

\* check_cancelled_gc_and_yield(true): a marking task holds the flag at
\* NOT_CANCELLED while it looks whether it has to yield.
MarkerCheck(w) ==
  /\ marker[w] = "check"
  /\ \/ /\ cancelled_gc = GC_CANCELLABLE
        /\ CancelCAS(GC_NOT_CANCELLED)
        /\ marker' = [marker EXCEPT ![w] = "hold"]
     \/ /\ cancelled_gc = GC_NOT_CANCELLED
        /\ marker' = [marker EXCEPT ![w] = "stride"]
        /\ UNCHANGED cancelled_gc
     \/ /\ cancelled_gc = GC_CANCELLED
        /\ marker' = [marker EXCEPT ![w] = "off"]
        /\ UNCHANGED cancelled_gc
  /\ UNCHANGED <<mutators, owner, alloc_failure_gc, gc_requested, gc_id, world,
                 cpc, cycle, shutdown>>

MarkerRestore(w) ==
  /\ marker[w] = "hold"
  /\ cancelled_gc' = GC_CANCELLABLE
  /\ marker' = [marker EXCEPT ![w] = "stride"]
  /\ UNCHANGED <<mutators, owner, alloc_failure_gc, gc_requested, gc_id, world,
                 cpc, cycle, shutdown>>

\* A stride of tasks: back to the check, or the terminator lets it go.
MarkerStride(w) ==
  /\ marker[w] = "stride"
  /\ marker' = [marker EXCEPT ![w] = "check"]
  /\ UNCHANGED <<mutators, owner, flags, world, cpc, cycle, shutdown>>

MarkerFinish(w) ==
  /\ marker[w] = "stride"
  /\ marker' = [marker EXCEPT ![w] = "off"]
  /\ UNCHANGED <<mutators, owner, flags, world, cpc, cycle, shutdown>>

\* ConcMark::mark returns and the cycle looks at the flag.
MarkEnd ==
  /\ cpc = "mark" /\ \A w \in Markers : marker[w] = "off"
  /\ CheckCancellation("ConcurrentMark", "final_mark")
  /\ UNCHANGED <<mutators, owner, flags, world, alloc_failure_pending,
                 explicit_gc_requested, mode, started, marker, shutdown>>

FinalMarkEnd ==
  /\ cpc = "final_mark" /\ world = "stopped"
  /\ world' = "running"
  /\ cpc' = "sweep"
  /\ UNCHANGED <<mutators, owner, flags, cycle, marker, shutdown>>

\* The concurrent sweep, whose workers stop early when cancelled.
SweepEnd ==
  /\ cpc = "sweep"
  /\ CheckCancellation("ConcurrentSweep", "notify_gc")
  /\ UNCHANGED <<mutators, owner, flags, world, alloc_failure_pending,
                 explicit_gc_requested, mode, started, marker, shutdown>>
\* notify_gc_waiters that unsets the flag and notifies nobody.
BugUnsetRequested ==
  /\ cpc = "notify_gc"
  /\ gc_requested' = (gc_requested /\ ~explicit_gc_requested)
  /\ cpc' = "notify_af"
  /\ UNCHANGED <<mutators, owner, alloc_failure_gc, gc_id, cancelled_gc, world,
                 cycle, marker, shutdown>>

\* notify_gc_waiters: unset the flag, then lock the monitor and notify.
UnsetRequested ==
  /\ cpc = "notify_gc"
  /\ IF explicit_gc_requested
     THEN gc_requested' = FALSE /\ cpc' = "lock_gc"
     ELSE UNCHANGED gc_requested /\ cpc' = "notify_af"
  /\ UNCHANGED <<mutators, owner, alloc_failure_gc, gc_id, cancelled_gc, world,
                 cycle, marker, shutdown>>

\* notify_alloc_failure_waiters.
UnsetAllocFailure ==
  /\ cpc = "notify_af"
  /\ IF alloc_failure_pending
     THEN alloc_failure_gc' = FALSE /\ cpc' = "lock_af"
     ELSE UNCHANGED alloc_failure_gc /\ cpc' = "sleep"
  /\ UNCHANGED <<mutators, owner, gc_requested, gc_id, cancelled_gc, world,
                 cycle, marker, shutdown>>

NotifyWaiters ==
  /\ \/ /\ cpc = "lock_gc" /\ owner[GcWaiters] = NoOne
        /\ pc' = Woken(GcWaiters)
        /\ cpc' = "notify_af"
     \/ /\ cpc = "lock_af" /\ owner[AllocFailureWaiters] = NoOne
        /\ pc' = Woken(AllocFailureWaiters)
        /\ cpc' = "sleep"
  /\ UNCHANGED <<mon, tries, required_gc_id, calls, seen, owner, flags, world,
                 cycle, marker, shutdown>>

\* thread::sleep at the end of the loop body.
Sleep ==
  /\ cpc = "sleep"
  /\ cpc' = "top"
  /\ UNCHANGED <<mutators, owner, flags, world, cycle, marker, shutdown>>

\* ConcurrentGCThread::run after the loop.
Terminate ==
  /\ cpc = "exit"
  /\ has_terminated' = TRUE
  /\ cpc' = "gone"
  /\ UNCHANGED <<mutators, owner, flags, world, cycle, marker, spc,
                 should_terminate>>

-----------------------------------------------------------------------------
(***************************************************************************)
(* Heap::stop, called by the main thread after every mutator is joined.    *)
(***************************************************************************)

StopCall ==
  /\ spc = "off" /\ \A m \in Mutators : pc[m] = "done"
  /\ spc' = "cancel"
  /\ UNCHANGED <<mutators, owner, flags, world, cpc, cycle, marker,
                 should_terminate, has_terminated>>

\* cancel_gc by an unregistered thread: it spins without a safepoint.
StopCancel ==
  /\ spc = "cancel"
  /\ \/ cancelled_gc = GC_CANCELLABLE /\ CancelCAS(GC_CANCELLED)
     \/ cancelled_gc = GC_CANCELLED /\ UNCHANGED cancelled_gc
  /\ spc' = "terminate"
  /\ UNCHANGED <<mutators, owner, alloc_failure_gc, gc_requested, gc_id, world,
                 cpc, cycle, marker, should_terminate, has_terminated>>

StopTerminate ==
  /\ spc = "terminate"
  /\ should_terminate' = TRUE
  /\ spc' = "wait"
  /\ UNCHANGED <<mutators, owner, flags, world, cpc, cycle, marker,
                 has_terminated>>

StopReturn ==
  /\ spc = "wait" /\ has_terminated
  /\ spc' = "returned"
  /\ UNCHANGED <<mutators, owner, flags, world, cpc, cycle, marker,
                 should_terminate, has_terminated>>

-----------------------------------------------------------------------------
\* The process is over; any other state without a step is a deadlock.
Halted ==
  /\ spc = "returned"
  /\ UNCHANGED vars

\* The steps of a call once it is made, and of a poll: no thread stops here.
Proceed(m) ==
  \/ TrySet(m) \/ TryCancel(m) \/ SpinAgain(m) \/ Lock(m) \/ LockSlow(m)
  \/ LeaveScope(m) \/ AwaitAllocFailureGC(m) \/ Retry(m) \/ ReadGcId(m)
  \/ Ask(m) \/ AwaitRequestedGC(m) \/ Poll(m) \/ Resume(m) \/ PanicOOM(m)

Mutator(m) == AllocFails(m) \/ RequestGC(m) \/ Proceed(m) \/ Exit(m)

Marker(w) ==
  MarkerCheck(w) \/ MarkerRestore(w) \/ MarkerStride(w) \/ MarkerFinish(w)

Control ==
  \/ LoopTop \/ Decide \/ StartCycle \/ Arm \/ Stopped \/ ClearCancelled
  \/ FullEnd \/ ConcBegin \/ InitMarkEnd \/ MarkEnd \/ FinalMarkEnd
  \/ SweepEnd \/ UnsetRequested \/ UnsetAllocFailure \/ NotifyWaiters
  \/ Sleep \/ Terminate

StopSteps == StopCancel \/ StopTerminate \/ StopReturn

Next ==
  \/ \E m \in Mutators : Mutator(m)
  \/ \E w \in Markers : Marker(w)
  \/ Control
  \/ StopCall \/ StopSteps
  \/ Halted

Spec == Init /\ [][Next]_vars

(***************************************************************************)
(* Threads that can run do run.  That marking comes to an end is what      *)
(* WorkDone of module ParallelMark checks; here it is assumed.  Nothing    *)
(* forces a mutator to make calls, to exit, or the main thread to stop.    *)
(***************************************************************************)
Fairness ==
  /\ \A m \in Mutators : WF_vars(Proceed(m))
  /\ \A w \in Markers : WF_vars(Marker(w)) /\ SF_vars(MarkerFinish(w))
  /\ WF_vars(Control)
  /\ WF_vars(StopSteps)

FairSpec == Spec /\ Fairness

-----------------------------------------------------------------------------
(***************************************************************************)
(* Properties.                                                             *)
(***************************************************************************)

\* Every variable has its type.
TypeOK ==
  /\ pc \in [Mutators -> {"run", "try_set", "cancel", "lock", "check",
                          "ask", "retry", "oom"} \cup Safe]
  /\ mon \in [Mutators -> Monitors]
  /\ tries \in [Mutators -> 0..MaxTries]
  /\ required_gc_id \in [Mutators -> Nat]
  /\ calls \in [Mutators -> 0..MaxCalls]
  /\ seen \in [Mutators -> {"none", "begun", "done"}]
  /\ owner \in [Monitors -> Mutators \cup {NoOne}]
  /\ alloc_failure_gc \in BOOLEAN /\ gc_requested \in BOOLEAN
  /\ gc_id \in Nat
  /\ cancelled_gc \in {GC_CANCELLABLE, GC_CANCELLED, GC_NOT_CANCELLED}
  /\ world \in {"running", "arming", "stopped"}
  /\ cpc \in {"top", "decide", "start", "full", "full_sweep", "conc",
              "init_mark", "mark", "final_mark", "sweep", "notify_gc",
              "lock_gc", "notify_af", "lock_af", "sleep", "exit", "gone"}
  /\ alloc_failure_pending \in BOOLEAN /\ explicit_gc_requested \in BOOLEAN
  /\ mode \in {"None", "Concurrent", "STWDegen", "STWFull"}
  /\ degen_point \in {"Unset", "OutsideCycle", "ConcurrentMark",
                      "ConcurrentSweep"}
  /\ started \in 0..MaxConcurrent
  /\ marker \in [Markers -> {"off", "check", "hold", "stride"}]
  /\ spc \in {"off", "cancel", "terminate", "wait", "returned"}
  /\ should_terminate \in BOOLEAN /\ has_terminated \in BOOLEAN

\* A cancellation a mutator or stop() has written is never overwritten: only a
\* full collection, inside its pause, takes it away (the cmpxchg protocol of
\* try_cancel_gc and check_cancelled_gc_and_yield, clear_cancelled_gc).
CancelKept ==
  [][cancelled_gc = GC_CANCELLED /\ cancelled_gc' # GC_CANCELLED
       => cpc = "full" /\ world = "stopped"]_vars

\* "we need to make sure the allocation was retried after at least one Full
\* GC" (allocate_memory): null is returned only after a full collection that
\* began after the first failed attempt.
RetriedAfterFullGC ==
  \A m \in Mutators : pc[m] = "oom" => seen[m] = "done"

\* No wakeup is lost: every failed allocation and every request_gc comes back
\* (handle_alloc_failure_gc, handle_requested_gc and their notifications).
CallsReturn ==
  \A m \in Mutators : pc[m] \in {"try_set", "lock"} ~> pc[m] \in {"run", "done"}

\* A cycle in progress when the heap is stopped gives way: Heap::stop returns.
StopReturns == spc = "cancel" ~> spc = "returned"

\* Nobody waits for the controller for ever: no allocation, no request, no stop.
WaitsEnd == CallsReturn /\ StopReturns
=============================================================================
