---------------------------- MODULE Suspendible -----------------------------
(***************************************************************************)
(* SuspendibleThreadSet (sync/suspendible_thread_set.rs): workers join the *)
(* set, look at should_yield now and then and yield (as                    *)
(* Heap::check_cancelled_gc_and_yield does), leave it for a while          *)
(* (SuspendibleThreadSetLeaver) or for good; a suspender outside of the    *)
(* set brackets its safepoints with synchronize and desynchronize.         *)
(*                                                                         *)
(* What happens with STS_LOCK held is one step, up to a wait.  Every way   *)
(* out of the lock is MonitorLocker::drop, which wakes all who wait.       *)
(***************************************************************************)
EXTENDS Naturals, FiniteSets

CONSTANTS
  Workers,
  MaxJoins   \* bound: times a worker joins

ASSUME SuspendibleAssumption == IsFiniteSet(Workers) /\ MaxJoins \in Nat

VARIABLES
  SUSPEND_ALL, NTHREADS, NTHREADS_STOPPED,
  wakeup,     \* count of SYNCHRONIZE_WAKEUP
  asleep,     \* workers waiting on STS_LOCK
  pc,         \* of every worker
  suspender,  \* where synchronize and desynchronize are
  joins,      \* joins so far
  signals     \* signals of the suspension under way (history)

sts == <<SUSPEND_ALL, NTHREADS, NTHREADS_STOPPED>>
vars == <<sts, wakeup, asleep, pc, suspender, joins, signals>>

Goto(w, label) == pc' = [pc EXCEPT ![w] = label]

Init ==
  /\ SUSPEND_ALL = FALSE /\ NTHREADS = 0 /\ NTHREADS_STOPPED = 0
  /\ wakeup = 0 /\ asleep = {}
  /\ pc = [w \in Workers |-> "out"]
  /\ suspender = "idle"
  /\ joins = [w \in Workers |-> 0]
  /\ signals = 0

is_synchronized(threads, stopped) == threads = stopped

\* Sem::signal(1) when the condition holds.
SignalIf(cond) ==
  /\ wakeup' = IF cond THEN wakeup + 1 ELSE wakeup
  /\ signals' = IF cond THEN signals + 1 ELSE signals

\* MonitorLocker::wait, and the notify_all of MonitorLocker::drop.
WaitOnLock(w) == asleep' = asleep \cup {w}
DropLocker == asleep' = {}

-----------------------------------------------------------------------------
\* join that does not wait for a suspension to end.
BugPass(w) ==
  /\ NTHREADS' = NTHREADS + 1
  /\ DropLocker
  /\ Goto(w, "in")

\* The loop of join: wait, or be counted.
Pass(w) ==
  \/ /\ SUSPEND_ALL
     /\ WaitOnLock(w)
     /\ Goto(w, "joining")
     /\ UNCHANGED NTHREADS
  \/ /\ ~SUSPEND_ALL
     /\ NTHREADS' = NTHREADS + 1
     /\ DropLocker
     /\ Goto(w, "in")

Join(w) ==
  /\ pc[w] = "out" /\ joins[w] < MaxJoins
  /\ joins' = [joins EXCEPT ![w] = @ + 1]
  /\ Pass(w)
  /\ UNCHANGED <<SUSPEND_ALL, NTHREADS_STOPPED, wakeup, suspender, signals>>

\* join that waits with an if instead of a loop.
BugJoinAgain(w) ==
  /\ pc[w] = "joining" /\ w \notin asleep
  /\ BugPass(w)
  /\ UNCHANGED <<SUSPEND_ALL, NTHREADS_STOPPED, wakeup, suspender, joins, signals>>

\* join after a wakeup, which need not be desynchronize's.
JoinAgain(w) ==
  /\ pc[w] = "joining" /\ w \notin asleep
  /\ Pass(w)
  /\ UNCHANGED <<SUSPEND_ALL, NTHREADS_STOPPED, wakeup, suspender, joins, signals>>

Leave(w) ==
  /\ pc[w] = "in"
  /\ NTHREADS' = NTHREADS - 1
  /\ SignalIf(SUSPEND_ALL /\ is_synchronized(NTHREADS - 1, NTHREADS_STOPPED))
  /\ DropLocker
  /\ Goto(w, "out")
  /\ UNCHANGED <<SUSPEND_ALL, NTHREADS_STOPPED, suspender, joins>>

\* should_yield, read without the lock.
ShouldYield(w) ==
  /\ pc[w] = "in" /\ SUSPEND_ALL
  /\ Goto(w, "yield")
  /\ UNCHANGED <<sts, wakeup, asleep, suspender, joins, signals>>

\* yield_ up to its wait; without a suspension it goes on to the end, where the
\* count of stopped threads shrinks in any case.
Yield(w) ==
  /\ pc[w] = "yield"
  /\ NTHREADS_STOPPED' = IF SUSPEND_ALL THEN NTHREADS_STOPPED + 1 ELSE NTHREADS_STOPPED - 1
  /\ SignalIf(SUSPEND_ALL /\ is_synchronized(NTHREADS, NTHREADS_STOPPED + 1))
  /\ asleep' = IF SUSPEND_ALL THEN asleep \cup {w} ELSE {}
  /\ Goto(w, IF SUSPEND_ALL THEN "stopped" ELSE "in")
  /\ UNCHANGED <<SUSPEND_ALL, NTHREADS, suspender, joins>>

\* The loop of yield_ after a wakeup, which need not be desynchronize's.
Resume(w) ==
  /\ pc[w] = "stopped" /\ w \notin asleep
  /\ \/ /\ SUSPEND_ALL
        /\ WaitOnLock(w)
        /\ UNCHANGED <<NTHREADS_STOPPED, pc>>
     \/ /\ ~SUSPEND_ALL
        /\ NTHREADS_STOPPED' = NTHREADS_STOPPED - 1
        /\ DropLocker
        /\ Goto(w, "in")
  /\ UNCHANGED <<SUSPEND_ALL, NTHREADS, wakeup, suspender, joins, signals>>

-----------------------------------------------------------------------------
\* synchronize, up to the semaphore.
Synchronize ==
  /\ suspender = "idle"
  /\ SUSPEND_ALL' = TRUE
  /\ DropLocker
  /\ suspender' = IF is_synchronized(NTHREADS, NTHREADS_STOPPED)
                  THEN "synchronized" ELSE "semaphore"
  /\ signals' = 0
  /\ UNCHANGED <<NTHREADS, NTHREADS_STOPPED, wakeup, pc, joins>>

\* Sem::wait
SemaphoreWait ==
  /\ suspender = "semaphore" /\ wakeup > 0
  /\ wakeup' = wakeup - 1
  /\ suspender' = "synchronized"
  /\ UNCHANGED <<sts, asleep, pc, joins, signals>>

\* desynchronize without its notification.
BugWakeAll == asleep' = asleep

WakeAll == DropLocker

Desynchronize ==
  /\ suspender = "synchronized"
  /\ SUSPEND_ALL' = FALSE
  /\ WakeAll
  /\ suspender' = "idle"
  /\ UNCHANGED <<NTHREADS, NTHREADS_STOPPED, wakeup, pc, joins, signals>>

Begins(w) == Join(w) \/ Leave(w)

Proceeds(w) == JoinAgain(w) \/ ShouldYield(w) \/ Yield(w) \/ Resume(w)

Suspender == SemaphoreWait \/ Desynchronize

Next == (\E w \in Workers : Begins(w) \/ Proceeds(w)) \/ Synchronize \/ Suspender

Spec == Init /\ [][Next]_vars

\* A worker in the set looks at should_yield again and again, and one that waits
\* for the lock gets it; a pause ends.
FairSpec ==
  /\ Spec
  /\ \A w \in Workers : WF_vars(Proceeds(w))
  /\ WF_vars(Suspender)

-----------------------------------------------------------------------------
Members == {w \in Workers : pc[w] \in {"in", "yield", "stopped"}}
Stopped == {w \in Workers : pc[w] = "stopped"}

\* The counters are those of the members and of the stopped among them; in
\* particular the subtraction at the end of yield_ never goes below zero.
TypeOK ==
  /\ SUSPEND_ALL \in BOOLEAN
  /\ NTHREADS = Cardinality(Members)
  /\ NTHREADS_STOPPED = Cardinality(Stopped)
  /\ wakeup \in Nat /\ signals \in Nat
  /\ asleep \subseteq {w \in Workers : pc[w] \in {"joining", "stopped"}}
  /\ pc \in [Workers -> {"out", "joining", "in", "yield", "stopped"}]
  /\ suspender \in {"idle", "semaphore", "synchronized"}
  /\ joins \in [Workers -> 0 .. MaxJoins]

\* "There is no need to re-check for is_synchronized after the wait; it will
\* always be true there": from the return of synchronize to desynchronize every
\* member is stopped, whoever joins, leaves or is woken in between.
StaysSynchronized == suspender = "synchronized" => Members = Stopped

\* "There will be exactly one signal": a suspension raises the semaphore at most
\* once, and no count is left over for the next one.
OneSignal ==
  /\ signals <= 1
  /\ wakeup <= 1
  /\ suspender # "semaphore" => wakeup = 0

\* A suspension is a pause for the members of the set: from the return of synchronize
\* to desynchronize none of them is at work, and none joins or leaves.
World == INSTANCE Pause WITH
  Threads <- Workers,
  running <- Members \ Stopped,
  paused <- suspender = "synchronized",
  world <- Members

PauseSpec == World!Spec

\* synchronize returns: the last member to yield or to leave signals.
SynchronizeReturns == (suspender = "semaphore") ~> (suspender = "synchronized")

\* After the suspender's last desynchronize nobody stays behind.
NobodyLeftBehind ==
  <>[](suspender = "idle") => <>[](\A w \in Workers : pc[w] \notin {"stopped", "joining"})
=============================================================================
