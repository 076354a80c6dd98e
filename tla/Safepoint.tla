------------------------------ MODULE Safepoint ------------------------------
(***************************************************************************)
(* Stopping the world: the safepoint page that mutators poll, the gc_state *)
(* they publish, the list of registered threads, and the collector thread  *)
(* that opens and closes safepoints (heap/safepoint.rs, heap/thread.rs,    *)
(* heap/signals/unix.rs).                                                  *)
(*                                                                         *)
(* Every store and every load another thread can observe is a step of its  *)
(* own.  Critical sections of the list lock and of SAFEPOINT_LOCK that     *)
(* only touch what the lock guards are one step.  The suspendible thread   *)
(* set that begin() and end() also drive has no members between cycles.    *)
(*                                                                         *)
(* Definitions named Bug... are no part of the specification: each is a    *)
(* definition with a plausible mistake, which a property must notice.      *)
(***************************************************************************)
EXTENDS Naturals

CONSTANTS
  Threads,      \* the operating system threads that may run mutator code
  Main,         \* the one that calls main_thread
  Conditional,  \* TRUE in builds with the conditional-safepoint feature
  MaxDepth      \* bound: frames a mutator's stack may grow to

ASSUME ThreadsAssumption == Main \in Threads
ASSUME ConditionalAssumption == Conditional \in BOOLEAN
ASSUME MaxDepthAssumption == MaxDepth \in Nat \ {0}

VARIABLES
  pc,           \* what each thread executes next
  ret,          \* where each thread continues after its current poll
  gc_state,     \* Thread::gc_state, the word the collector reads
  depth,        \* frames on the thread's stack (its stack pointer)
  last_sp,      \* Thread::last_sp, how deep a stack scan goes
  ssb,          \* satb_mark_queue has its buffer (register() set it)
  threads,      \* Threads::threads, the registered threads
  page,         \* SAFEPOINT_PAGE is armed
  gc_running,   \* GC_RUNNING
  gcpc,         \* what the collector thread executes next
  unchecked     \* registered threads begin() has not yet seen stopped

mutators == <<pc, ret, gc_state, depth, last_sp, ssb>>
collector == <<page, gc_running, gcpc, unchecked>>
vars == <<mutators, threads, collector>>

GC_STATE_RUNNING == 0
GC_STATE_WAITING == 1
GC_STATE_SAFE == 2

(***************************************************************************)
(* The collector holds the list lock from Threads::get until end() drops   *)
(* the guard, and SAFEPOINT_LOCK inside enter() and end().                 *)
(***************************************************************************)
ThreadsLocked == gcpc \in {"enter", "arm", "scan", "stw"}
SafepointLocked == gcpc \in {"arm", "clear"}

\* A thread runs user code that may touch the heap.
Managed == {"run", "urun"}

Goto(t, to) == pc' = [pc EXCEPT ![t] = to]
StoreState(t, s) == gc_state' = [gc_state EXCEPT ![t] = s]
\* set_last_sp one frame off.
BugStoreSp(t) == last_sp' = [last_sp EXCEPT ![t] = depth[t] + 1]

StoreSp(t) == last_sp' = [last_sp EXCEPT ![t] = depth[t]]

Init ==
  /\ pc = [t \in Threads |-> IF t = Main THEN "spawned" ELSE "none"]
  /\ ret = [t \in Threads |-> "run"]
  /\ gc_state = [t \in Threads |-> GC_STATE_RUNNING]
  /\ depth = [t \in Threads |-> 1]
  /\ last_sp = [t \in Threads |-> 0]
  /\ ssb = [t \in Threads |-> FALSE]
  /\ threads = {}
  /\ page = FALSE
  /\ gc_running = FALSE
  /\ gcpc = "idle"
  /\ unchecked = {}

-----------------------------------------------------------------------------
(***************************************************************************)
(* Life of a mutator thread.                                               *)
(***************************************************************************)

\* spawn_thread starts the thread inside a safepoint scope, Scope::spawn in
\* managed code; either way the child is not registered yet.
Spawn(p, t) ==
  /\ pc[p] \in {"safe", "run"} /\ pc[t] = "none"
  /\ Goto(t, "spawned")
  /\ UNCHANGED <<ret, gc_state, depth, last_sp, ssb, threads, collector>>

\* register without the list lock.
BugRegister(t) ==
  /\ pc[t] = "spawned"
  /\ StoreSp(t)
  /\ threads' = threads \cup {t}
  /\ Goto(t, "poll") /\ ret' = [ret EXCEPT ![t] = "init"]
  /\ UNCHANGED <<gc_state, depth, ssb, collector>>

\* register: publish a stack pointer, enter the list (add_thread), then poll.
Register(t) ==
  /\ pc[t] = "spawned"
  /\ ~ThreadsLocked
  /\ StoreSp(t)
  /\ threads' = threads \cup {t}
  /\ Goto(t, "poll") /\ ret' = [ret EXCEPT ![t] = "init"]
  /\ UNCHANGED <<gc_state, depth, ssb, collector>>

\* The tail of register: the SATB buffer is allocated after the polls.
FinishRegister(t) ==
  /\ pc[t] = "init"
  /\ ssb' = [ssb EXCEPT ![t] = TRUE]
  /\ Goto(t, "run")
  /\ UNCHANGED <<ret, gc_state, depth, last_sp, threads, collector>>

\* Managed code calls and returns: its roots live in frames 1..depth.
CallOrReturn(t) ==
  /\ pc[t] = "run"
  /\ \E d \in {depth[t] - 1, depth[t] + 1} \cap 1..MaxDepth :
       depth' = [depth EXCEPT ![t] = d]
  /\ UNCHANGED <<pc, ret, gc_state, last_sp, ssb, threads, collector>>

\* Thread::safepoint called by managed code.
SafepointCall(t) ==
  /\ pc[t] \in Managed
  /\ Goto(t, "poll") /\ ret' = [ret EXCEPT ![t] = pc[t]]
  /\ UNCHANGED <<gc_state, depth, last_sp, ssb, threads, collector>>

\* safepoint_scope: gc_state is stored before last_sp.
EnterScope(t) ==
  /\ pc[t] = "run"
  /\ StoreState(t, GC_STATE_SAFE)
  /\ Goto(t, "scope_sp")
  /\ UNCHANGED <<ret, depth, last_sp, ssb, threads, collector>>

ScopeSetSp(t) ==
  /\ pc[t] = "scope_sp"
  /\ StoreSp(t)
  /\ Goto(t, "safe")
  /\ UNCHANGED <<ret, gc_state, depth, ssb, threads, collector>>

\* scoped: the same state, with last_sp stored first.
EnterScoped(t) ==
  /\ pc[t] = "run"
  /\ StoreSp(t) /\ StoreState(t, GC_STATE_SAFE)
  /\ Goto(t, "safe")
  /\ UNCHANGED <<ret, depth, ssb, threads, collector>>
\* gc_state_set(0, GC_STATE_SAFE): store, then poll.
LeaveScope(t) ==
  /\ pc[t] = "safe"
  /\ StoreState(t, GC_STATE_RUNNING)
  /\ Goto(t, "poll") /\ ret' = [ret EXCEPT ![t] = "run"]
  /\ UNCHANGED <<depth, last_sp, ssb, threads, collector>>

\* UnsafeScope::new inside a safepoint scope, and its drop.
EnterUnsafe(t) ==
  /\ pc[t] = "safe"
  /\ StoreState(t, GC_STATE_RUNNING)
  /\ Goto(t, "poll") /\ ret' = [ret EXCEPT ![t] = "urun"]
  /\ UNCHANGED <<depth, last_sp, ssb, threads, collector>>

LeaveUnsafe(t) ==
  /\ pc[t] = "urun"
  /\ StoreState(t, GC_STATE_SAFE)
  /\ Goto(t, "safe")
  /\ UNCHANGED <<ret, depth, last_sp, ssb, threads, collector>>

\* The closure of a spawned thread returns: remove_current_thread retires the
\* TLAB and flushes the SSB in managed state, then opens a safepoint scope.
ExitThread(t) ==
  /\ pc[t] = "run" /\ t # Main
  /\ StoreState(t, GC_STATE_SAFE)
  /\ Goto(t, "remove_sp")
  /\ UNCHANGED <<ret, depth, last_sp, ssb, threads, collector>>

RemoveSetSp(t) ==
  /\ pc[t] = "remove_sp"
  /\ StoreSp(t)
  /\ Goto(t, "remove")
  /\ UNCHANGED <<ret, gc_state, depth, ssb, threads, collector>>
\* remove_current_thread that does not find its own pointer.
BugRemoveThread(t) ==
  /\ pc[t] = "remove"
  /\ ~ThreadsLocked
  /\ Goto(t, "removed")
  /\ UNCHANGED <<ret, gc_state, depth, last_sp, ssb, threads, collector>>

RemoveThread(t) ==
  /\ pc[t] = "remove"
  /\ ~ThreadsLocked
  /\ threads' = threads \ {t}
  /\ Goto(t, "removed")
  /\ UNCHANGED <<ret, gc_state, depth, last_sp, ssb, collector>>

LeaveRemove(t) ==
  /\ pc[t] = "removed"
  /\ StoreState(t, GC_STATE_RUNNING)
  /\ Goto(t, "poll") /\ ret' = [ret EXCEPT ![t] = "sink"]
  /\ UNCHANGED <<depth, last_sp, ssb, threads, collector>>
\* The poll word becomes SINK and join_all is notified.
Sink(t) ==
  /\ pc[t] = "sink"
  /\ pc' = [pc EXCEPT ![t] = "done",
                      ![Main] = IF @ = "join_wait" THEN "join" ELSE @]
  /\ UNCHANGED <<ret, gc_state, depth, last_sp, ssb, threads, collector>>

-----------------------------------------------------------------------------
(***************************************************************************)
(* main_thread's epilogue.  It runs inside safepoint_scope, so             *)
(* remove_current_thread retires the TLAB and flushes the SSB with         *)
(* gc_state = GC_STATE_SAFE (program point "main_retire").                 *)
(***************************************************************************)
MainExit ==
  /\ pc[Main] = "run"
  /\ StoreState(Main, GC_STATE_SAFE)
  /\ Goto(Main, "main_sp")
  /\ UNCHANGED <<ret, depth, last_sp, ssb, threads, collector>>

MainSetSp ==
  /\ pc[Main] = "main_sp"
  /\ StoreSp(Main)
  /\ Goto(Main, "main_retire")
  /\ UNCHANGED <<ret, gc_state, depth, ssb, threads, collector>>

\* The inner scope goes from SAFE to SAFE: no poll on either side.
MainRetire ==
  /\ pc[Main] = "main_retire"
  /\ StoreSp(Main)
  /\ Goto(Main, "main_remove")
  /\ UNCHANGED <<ret, gc_state, depth, ssb, threads, collector>>

MainRemove ==
  /\ pc[Main] = "main_remove"
  /\ ~ThreadsLocked
  /\ threads' = threads \ {Main}
  /\ Goto(Main, "join")
  /\ UNCHANGED <<ret, gc_state, depth, last_sp, ssb, collector>>

\* join_all: under the list lock, return or wait on cv_join.
JoinAll ==
  /\ pc[Main] = "join"
  /\ ~ThreadsLocked
  /\ Goto(Main, IF threads = {} THEN "joined" ELSE "join_wait")
  /\ UNCHANGED <<ret, gc_state, depth, last_sp, ssb, threads, collector>>

\* The outer scope closes; the poll reads SINK and never traps.
MainReturn ==
  /\ pc[Main] = "joined"
  /\ StoreState(Main, GC_STATE_RUNNING)
  /\ Goto(Main, "done")
  /\ UNCHANGED <<ret, depth, last_sp, ssb, threads, collector>>

-----------------------------------------------------------------------------
(***************************************************************************)
(* A poll, and the wait it may lead to.                                    *)
(***************************************************************************)
Poll(t) ==
  /\ pc[t] = "poll"
  /\ Goto(t, IF page THEN "trap" ELSE ret[t])
  /\ UNCHANGED <<ret, gc_state, depth, last_sp, ssb, threads, collector>>
\* A handler that forgets set_last_sp.
BugEnterSafepoint(t) ==
  /\ pc[t] = "trap"
  /\ StoreState(t, GC_STATE_WAITING)
  /\ Goto(t, "check")
  /\ UNCHANGED <<ret, depth, last_sp, ssb, threads, collector>>

\* segv_handler or enter_conditional, up to the store in set_gc_and_wait.
\* Polls happen only at gc_state 0, which is the state saved and restored.
EnterSafepoint(t) ==
  /\ pc[t] = "trap"
  /\ StoreSp(t) /\ StoreState(t, GC_STATE_WAITING)
  /\ Goto(t, "check")
  /\ UNCHANGED <<ret, depth, ssb, threads, collector>>

\* wait_gc: the unlocked load that ends or continues the loop ...
WaitCheck(t) ==
  /\ pc[t] = "check"
  /\ Goto(t, IF gc_running THEN "lock" ELSE "restore")
  /\ UNCHANGED <<ret, gc_state, depth, last_sp, ssb, threads, collector>>

\* ... and the second load, under SAFEPOINT_LOCK, before the condvar wait.
WaitLocked(t) ==
  /\ pc[t] = "lock"
  /\ ~SafepointLocked
  /\ Goto(t, IF gc_running THEN "parked" ELSE "check")
  /\ UNCHANGED <<ret, gc_state, depth, last_sp, ssb, threads, collector>>

\* The saved state is stored back without looking at GC_RUNNING again.  A
\* signal handler then returns to the faulting load, which polls once more;
\* enter_conditional returns to its caller.
RestoreState(t) ==
  /\ pc[t] = "restore"
  /\ StoreState(t, GC_STATE_RUNNING)
  /\ Goto(t, IF Conditional THEN ret[t] ELSE "poll")
  /\ UNCHANGED <<ret, depth, last_sp, ssb, threads, collector>>

-----------------------------------------------------------------------------
(***************************************************************************)
(* SafepointSynchronize, on the controller thread.                         *)
(***************************************************************************)
BeginLockThreads ==
  /\ gcpc = "idle"
  /\ gcpc' = "enter"
  /\ UNCHANGED <<mutators, threads, page, gc_running, unchecked>>

\* enter(): GC_RUNNING first, then the page, both under SAFEPOINT_LOCK.
EnterRunning ==
  /\ gcpc = "enter"
  /\ gc_running' = TRUE
  /\ gcpc' = "arm"
  /\ UNCHANGED <<mutators, threads, page, unchecked>>
EnterArm ==
  /\ gcpc = "arm"
  /\ page' = TRUE
  /\ unchecked' = threads
  /\ gcpc' = "scan"
  /\ UNCHANGED <<mutators, threads, gc_running>>

\* One exit of the spin loop: this thread's gc_state was read as non-zero.
SeeStopped(t) ==
  /\ gcpc = "scan" /\ t \in unchecked
  /\ gc_state[t] # GC_STATE_RUNNING
  /\ unchecked' = unchecked \ {t}
  /\ UNCHANGED <<mutators, threads, page, gc_running, gcpc>>

Synchronized ==
  /\ gcpc = "scan" /\ unchecked = {}
  /\ gcpc' = "stw"
  /\ UNCHANGED <<mutators, threads, page, gc_running, unchecked>>

\* end(): the list lock goes first, then the page, then GC_RUNNING.
EndUnlockThreads ==
  /\ gcpc = "stw"
  /\ gcpc' = "end"
  /\ UNCHANGED <<mutators, threads, page, gc_running, unchecked>>

EndDisarm ==
  /\ gcpc = "end"
  /\ page' = FALSE
  /\ gcpc' = "clear"
  /\ UNCHANGED <<mutators, threads, gc_running, unchecked>>

EndRunning ==
  /\ gcpc = "clear"
  /\ gc_running' = FALSE
  /\ gcpc' = "notify"
  /\ UNCHANGED <<mutators, threads, page, unchecked>>
\* end() without notify_all.
BugEndNotify ==
  /\ gcpc = "notify"
  /\ gcpc' = "idle"
  /\ UNCHANGED <<mutators, threads, page, gc_running, unchecked>>

\* SAFEPOINT_COND.notify_all, after the lock was released.
EndNotify ==
  /\ gcpc = "notify"
  /\ pc' = [t \in Threads |-> IF pc[t] = "parked" THEN "check" ELSE pc[t]]
  /\ gcpc' = "idle"
  /\ UNCHANGED <<ret, gc_state, depth, last_sp, ssb, threads,
                 page, gc_running, unchecked>>

-----------------------------------------------------------------------------
Mutator(t) ==
  \/ Register(t) \/ FinishRegister(t) \/ CallOrReturn(t) \/ SafepointCall(t)
  \/ EnterScope(t) \/ ScopeSetSp(t) \/ EnterScoped(t) \/ LeaveScope(t)
  \/ EnterUnsafe(t) \/ LeaveUnsafe(t)
  \/ ExitThread(t) \/ RemoveSetSp(t) \/ RemoveThread(t) \/ LeaveRemove(t)
  \/ Sink(t)
  \/ Poll(t) \/ EnterSafepoint(t) \/ WaitCheck(t) \/ WaitLocked(t)
  \/ RestoreState(t)

MainEpilogue ==
  MainExit \/ MainSetSp \/ MainRetire \/ MainRemove \/ JoinAll \/ MainReturn

Begin == BeginLockThreads

Collector ==
  \/ EnterRunning \/ EnterArm \/ (\E t \in Threads : SeeStopped(t))
  \/ Synchronized
  \/ EndUnlockThreads \/ EndDisarm \/ EndRunning \/ EndNotify

Next ==
  \/ \E p, t \in Threads : Spawn(p, t)
  \/ \E t \in Threads : Mutator(t)
  \/ MainEpilogue
  \/ Begin
  \/ Collector

Spec == Init /\ [][Next]_vars

(***************************************************************************)
(* Fairness.  The operating system runs every thread that can run; managed *)
(* code polls (the README asks its users to) and leaves the scopes it      *)
(* opens.  Whether the controller opens a safepoint, whether threads are   *)
(* spawned or exit is not promised.  The list lock is contended only by    *)
(* the collector and short critical sections, and both locks are           *)
(* parking-lot locks, which hand over to a waiter that has waited too      *)
(* long: a thread that finds them free again and again gets them (SF).     *)
(* The steps of one conjunct belong to different program points of the     *)
(* thread, so fairness of their disjunction is fairness of each.           *)
(***************************************************************************)
Runs(t) ==
  \/ FinishRegister(t) \/ SafepointCall(t) \/ ScopeSetSp(t) \/ LeaveScope(t)
  \/ RemoveSetSp(t) \/ LeaveRemove(t) \/ Sink(t)
  \/ Poll(t) \/ EnterSafepoint(t) \/ WaitCheck(t) \/ RestoreState(t)
  \/ t = Main /\ (MainSetSp \/ MainRetire \/ MainReturn)

Locks(t) ==
  \/ Register(t) \/ RemoveThread(t) \/ WaitLocked(t)
  \/ t = Main /\ (MainRemove \/ JoinAll)

Fairness ==
  /\ WF_vars(Collector)
  /\ \A t \in Threads : WF_vars(Runs(t)) /\ SF_vars(Locks(t))

FairSpec == Spec /\ Fairness

-----------------------------------------------------------------------------
PCs == {"none", "spawned", "poll", "init", "run", "scope_sp", "safe", "urun",
        "remove_sp", "remove", "removed", "sink", "done",
        "main_sp", "main_retire", "main_remove", "join", "join_wait", "joined",
        "trap", "check", "lock", "parked", "restore"}

\* The type invariant of the safepoint state.
TypeOK ==
  /\ pc \in [Threads -> PCs]
  /\ ret \in [Threads -> {"init", "run", "urun", "sink"}]
  /\ gc_state \in [Threads -> {GC_STATE_RUNNING, GC_STATE_WAITING, GC_STATE_SAFE}]
  /\ depth \in [Threads -> 1..MaxDepth]
  /\ last_sp \in [Threads -> 0..MaxDepth]
  /\ ssb \in [Threads -> BOOLEAN]
  /\ threads \subseteq Threads
  /\ page \in BOOLEAN
  /\ gc_running \in BOOLEAN
  /\ gcpc \in {"idle", "enter", "arm", "scan", "stw", "end", "clear", "notify"}
  /\ unchecked \subseteq Threads

(***************************************************************************)
(* Stop the world: from begin()'s return to end()'s call no registered     *)
(* thread executes managed code or the tail of register(), and no thread   *)
(* at all does (an unregistered one cannot have reached managed code).     *)
(* The comment on UnsafeScope (thread.rs:626) promises it.                 *)
(***************************************************************************)
StopTheWorld ==
  gcpc = "stw" => \A t \in Threads : pc[t] \notin Managed \cup {"init"}

(***************************************************************************)
(* The list holds pointers to thread-local Thread records: a thread in it  *)
(* has not passed remove_current_thread, so begin(), the root scan and the *)
(* flush of its buffer never follow a pointer into a dead thread.          *)
(***************************************************************************)
ListedAlive ==
  \A t \in threads : pc[t] \notin {"none", "spawned", "done"}

(***************************************************************************)
(* The three places between storing GC_STATE_SAFE and storing last_sp are  *)
(* the only ones where the scan can miss frames: a thread stopped by a     *)
(* poll, or past set_last_sp, is covered however it got there.             *)
(***************************************************************************)
SetSpPending == {"scope_sp", "remove_sp", "main_sp"}
StackCoveredPastSetSp ==
  gcpc = "stw" =>
    \A t \in threads : pc[t] \notin SetSpPending => last_sp[t] >= depth[t]

(***************************************************************************)
(* A safepoint is a pause: between the return of begin() and end() nobody  *)
(* enters managed code or finishes registering, the list of threads stays  *)
(* as it is, and so does every stack.                                      *)
(***************************************************************************)
World == INSTANCE Pause WITH
  running <- {t \in Threads : pc[t] \in Managed \cup {"init"}},
  paused <- gcpc = "stw",
  world <- <<threads, depth>>

PauseSpec == World!Spec

(***************************************************************************)
(* Every safepoint that is opened is reached: begin()'s spin loop ends.    *)
(***************************************************************************)
SafepointReached == (gcpc = "scan") ~> (gcpc = "stw")

(***************************************************************************)
(* No wakeup is lost: once safepoints stop being opened, every thread that *)
(* waits in wait_gc gets out of it.                                        *)
(***************************************************************************)
Stopped == {"trap", "check", "lock", "parked", "restore"}
StoppedResume ==
  <>[](gcpc = "idle") => \A t \in Threads : (pc[t] \in Stopped) ~> (pc[t] \notin Stopped)

(***************************************************************************)
(* No wakeup of join_all is lost: once the list stays empty and safepoints *)
(* stop being opened, main returns.                                        *)
(***************************************************************************)
MainJoins ==
  <>[](threads = {} /\ gcpc = "idle") =>
    (pc[Main] = "join_wait" ~> pc[Main] = "done")

(***************************************************************************)
(* Nobody is stuck: not begin(), not a stopped thread, not main's join.    *)
(***************************************************************************)
NobodyStuck == SafepointReached /\ StoppedResume /\ MainJoins
=============================================================================
