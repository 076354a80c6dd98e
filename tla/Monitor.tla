------------------------------- MODULE Monitor ------------------------------
(***************************************************************************)
(* A Monitor (sync/monitor.rs): one mutex and one condition variable of    *)
(* sync/mutex.rs, with the queues of parking_lot_core under them.          *)
(*                                                                         *)
(* Every atomic operation on the mutex word, and every section that        *)
(* parking_lot_core runs with its queue lock held (validate and callback   *)
(* included), is a step of its own.  A thread takes the lock a few times at *)
(* most; in between it waits, notifies, bumps or gives the lock  *)
(* up.  ready stands for the data: the condition of wait_while is ~ready.  *)
(* Safepoint scopes around the blocking parts are in module Safepoint.     *)
(* lock_slow never gets a timeout, the waits of Condvar do.  The monitor's *)
(* condition variable meets one mutex only, so bad_mutex does not occur.   *)
(* compare_exchange_weak does not fail spuriously; all its uses here retry.*)
(***************************************************************************)
EXTENDS Naturals, FiniteSets, SequencesExt

CONSTANTS
  Threads,
  MaxLocks    \* bound: times each thread locks the mutex

ASSUME MonitorAssumption ==
  IsFiniteSet(Threads) /\ MaxLocks \in [Threads -> Nat]

VARIABLES
  state,   \* RawMutex::state: a set of bits
  cv,      \* Condvar::state is not null
  queue,   \* threads parked on the mutex and on the condition variable
  token,   \* UnparkToken given to a thread
  seen,    \* value of state a thread in lock_slow has read
  pc,
  after,   \* where a call of lock or notify_all returns to
  wait,    \* how a thread waits: "no", "once", "timed" or "while"
  locks,   \* calls of lock so far
  ready    \* the data: what wait_while waits for

vars == <<state, cv, queue, token, seen, pc, after, wait, locks, ready>>

LOCKED == "LOCKED"
PARKED == "PARKED"
Unparked(t) == token[t] # "none"

Goto(t, label) == pc' = [pc EXCEPT ![t] = label]

Init ==
  /\ state = {} /\ cv = FALSE
  /\ queue = [a \in {"mutex", "cv"} |-> <<>>]
  /\ token = [t \in Threads |-> "none"]
  /\ seen = [t \in Threads |-> {}]
  /\ pc = [t \in Threads |-> "idle"]
  /\ after = [t \in Threads |-> "idle"]
  /\ wait = [t \in Threads |-> "no"]
  /\ locks = [t \in Threads |-> 0]
  /\ ready = FALSE

-----------------------------------------------------------------------------
(***************************************************************************)
(* RawMutex                                                                *)
(***************************************************************************)
\* The call of RawMutex::lock: its fast path.
CallLock(t) ==
  IF state = {}
  THEN state' = {LOCKED} /\ Goto(t, "held")
  ELSE UNCHANGED state /\ Goto(t, "load")

Lock(t) ==
  /\ pc[t] = "idle" /\ locks[t] < MaxLocks[t]
  /\ locks' = [locks EXCEPT ![t] = @ + 1]
  /\ CallLock(t)
  /\ UNCHANGED <<cv, queue, token, seen, after, wait, ready>>

TryLock(t) ==
  /\ pc[t] = "idle" /\ locks[t] < MaxLocks[t]
  /\ locks' = [locks EXCEPT ![t] = @ + 1]
  /\ IF LOCKED \in state
     THEN UNCHANGED <<state, pc>>
     ELSE state' = state \cup {LOCKED} /\ Goto(t, "held")
  /\ UNCHANGED <<cv, queue, token, seen, after, wait, ready>>

\* lock_slow, from the head of its loop.  Spinning only reads the word later.
Load(t) ==
  /\ pc[t] = "load"
  /\ seen' = [seen EXCEPT ![t] = state]
  /\ Goto(t, "slow")
  /\ UNCHANGED <<state, cv, queue, token, after, wait, locks, ready>>

\* Grab the lock if it is not locked, even if there is a queue on it.
Grab(t) ==
  /\ pc[t] = "slow" /\ LOCKED \notin seen[t]
  /\ \/ /\ state = seen[t]
        /\ state' = state \cup {LOCKED}
        /\ Goto(t, "held")
        /\ UNCHANGED seen
     \/ /\ state # seen[t]
        /\ seen' = [seen EXCEPT ![t] = state]
        /\ UNCHANGED <<state, pc>>
  /\ UNCHANGED <<cv, queue, token, after, wait, locks, ready>>

SetParked(t) ==
  /\ pc[t] = "slow" /\ LOCKED \in seen[t]
  /\ \/ /\ PARKED \in seen[t] \/ state = seen[t]
        /\ state' = IF PARKED \in seen[t] THEN state ELSE state \cup {PARKED}
        /\ Goto(t, "park")
        /\ UNCHANGED seen
     \/ /\ PARKED \notin seen[t] /\ state # seen[t]
        /\ seen' = [seen EXCEPT ![t] = state]
        /\ UNCHANGED <<state, pc>>
  /\ UNCHANGED <<cv, queue, token, after, wait, locks, ready>>

\* The park of lock_slow without its validation.
BugPark(t) ==
  /\ pc[t] = "park"
  /\ queue' = [queue EXCEPT !["mutex"] = Append(@, t)] /\ Goto(t, "parked")
  /\ UNCHANGED <<state, cv, token, seen, after, wait, locks, ready>>

\* parking_lot_core::park: validate and enqueue with the queue locked.
Park(t) ==
  /\ pc[t] = "park"
  /\ \/ /\ state = {LOCKED, PARKED}
        /\ queue' = [queue EXCEPT !["mutex"] = Append(@, t)]
        /\ Goto(t, "parked")
     \/ /\ state # {LOCKED, PARKED}
        /\ Goto(t, "load")
        /\ UNCHANGED queue
  /\ UNCHANGED <<state, cv, token, seen, after, wait, locks, ready>>

\* park returns: with the lock when it was handed over.
ParkReturns(t) ==
  /\ pc[t] = "parked" /\ Unparked(t)
  /\ Goto(t, IF token[t] = "HANDOFF" THEN "held" ELSE "load")
  /\ token' = [token EXCEPT ![t] = "none"]
  /\ UNCHANGED <<state, cv, queue, seen, after, wait, locks, ready>>

\* unlock_slow: unpark_one with its callback.  fair is force_fair or be_fair.
UnparkOne(fair) ==
  LET q == queue["mutex"]
      more == IF Len(q) > 1 THEN {PARKED} ELSE {}
  IN IF q = <<>>
     THEN state' = {} /\ UNCHANGED <<queue, token>>
     ELSE /\ queue' = [queue EXCEPT !["mutex"] = Tail(q)]
          /\ token' = [token EXCEPT ![Head(q)] = IF fair THEN "HANDOFF" ELSE "NORMAL"]
          /\ state' = IF ~fair THEN more
                      ELSE IF more = {} THEN {LOCKED} ELSE state

\* The call of RawMutex::unlock or unlock_fair: its fast path, or on to the slow
\* one; then label.
CallUnlock(t, label, slow) ==
  IF state = {LOCKED}
  THEN state' = {} /\ Goto(t, label)
  ELSE UNCHANGED state /\ Goto(t, slow)

\* MutexGuard::drop, or unlock_fair; with a MonitorLocker, after notify_all.
Unlock(t) ==
  /\ pc[t] = "unlock"
  /\ \E slow \in {"unlock_slow", "unlock_slow_fair"} : CallUnlock(t, "idle", slow)
  /\ UNCHANGED <<cv, queue, token, seen, after, wait, locks, ready>>

UnlockSlow(t) ==
  /\ pc[t] \in {"unlock_slow", "unlock_slow_fair"}
  /\ \E fair \in BOOLEAN : (pc[t] = "unlock_slow_fair" => fair) /\ UnparkOne(fair)
  /\ Goto(t, "idle")
  /\ UNCHANGED <<cv, seen, after, wait, locks, ready>>

\* bump: hand the lock to a parked thread, if there is one, and queue up again.
Bump(t) ==
  /\ pc[t] = "held" /\ PARKED \in state /\ locks[t] < MaxLocks[t]
  /\ locks' = [locks EXCEPT ![t] = @ + 1]
  /\ UnparkOne(TRUE)
  /\ Goto(t, "relock")
  /\ UNCHANGED <<cv, seen, after, wait, ready>>

Relock(t) ==
  /\ pc[t] = "relock"
  /\ CallLock(t)
  /\ UNCHANGED <<cv, queue, token, seen, after, wait, locks, ready>>

-----------------------------------------------------------------------------
(***************************************************************************)
(* Condvar                                                                 *)
(***************************************************************************)
MayWait(t) == pc[t] = "held" /\ locks[t] < MaxLocks[t]

\* park of wait_until_internal: validate sets the state, the thread is enqueued.
\* The mutex, taken again afterwards, counts as one more call of lock.
EnterWait(t) ==
  /\ locks' = [locks EXCEPT ![t] = @ + 1]
  /\ cv' = TRUE
  /\ queue' = [queue EXCEPT !["cv"] = Append(@, t)]
  /\ Goto(t, "wait_unlock")

\* wait, and wait_until or wait_for.
Wait(t) ==
  /\ MayWait(t) /\ wait[t] = "no"
  /\ \E kind \in {"once", "timed"} : wait' = [wait EXCEPT ![t] = kind]
  /\ EnterWait(t)
  /\ UNCHANGED <<state, token, seen, after, ready>>

\* wait_while: the condition is looked at before every wait.  The bound of
\* locks does not stop the loop.
WaitWhile(t) ==
  /\ pc[t] = "held" /\ ~ready
  /\ wait[t] \in {"while", "no"}
  /\ wait' = [wait EXCEPT ![t] = "while"]
  /\ cv' = TRUE
  /\ queue' = [queue EXCEPT !["cv"] = Append(@, t)]
  /\ Goto(t, "wait_unlock")
  /\ UNCHANGED <<state, token, seen, after, locks, ready>>

WaitWhileReturns(t) ==
  /\ pc[t] = "held" /\ wait[t] = "while" /\ ready
  /\ wait' = [wait EXCEPT ![t] = "no"]
  /\ UNCHANGED <<state, cv, queue, token, seen, pc, after, locks, ready>>

\* before_sleep: the mutex is unlocked after the thread is in the queue.
BeforeSleep(t) ==
  /\ pc[t] = "wait_unlock"
  /\ CallUnlock(t, "asleep", "wait_unlock_slow")
  /\ UNCHANGED <<cv, queue, token, seen, after, wait, locks, ready>>

BeforeSleepSlow(t) ==
  /\ pc[t] = "wait_unlock_slow"
  /\ \E fair \in BOOLEAN : UnparkOne(fair)
  /\ Goto(t, "asleep")
  /\ UNCHANGED <<cv, seen, after, wait, locks, ready>>

\* Back from park; the mutex is locked again unless it was handed over.
EndOfWait(t) == wait' = [wait EXCEPT ![t] = IF @ = "while" THEN @ ELSE "no"]

Awake(t) ==
  /\ pc[t] = "asleep" /\ Unparked(t)
  /\ token' = [token EXCEPT ![t] = "none"]
  /\ Goto(t, IF token[t] = "HANDOFF" THEN "held" ELSE "relock")
  /\ EndOfWait(t)
  /\ UNCHANGED <<state, cv, queue, seen, after, locks, ready>>

\* park times out on a queue: the condition variable's, or the mutex's when the
\* thread was moved there.
Without(q, t) ==
  IF t \in Range(q) THEN RemoveAt(q, CHOOSE i \in DOMAIN q : q[i] = t) ELSE q

\* timed_out that clears the state whoever else waits.
BugTimeoutState(t) == FALSE

TimeoutState(t) ==
  IF t \in Range(queue["cv"]) /\ Len(queue["cv"]) = 1
  THEN FALSE ELSE cv

Timeout(t) ==
  /\ pc[t] = "asleep" /\ wait[t] = "timed" /\ ~Unparked(t)
  /\ queue' = [a \in {"mutex", "cv"} |-> Without(queue[a], t)]
  /\ cv' = TimeoutState(t)
  /\ Goto(t, "relock")
  /\ EndOfWait(t)
  /\ UNCHANGED <<state, token, seen, after, locks, ready>>

\* notify_one: a first look at the state.  Called with or without the lock.
NotifyOne(t) ==
  /\ pc[t] = "held" \/ (pc[t] = "idle" /\ locks[t] < MaxLocks[t])
  /\ wait[t] = "no" /\ cv
  /\ locks' = IF pc[t] = "idle" THEN [locks EXCEPT ![t] = @ + 1] ELSE locks
  /\ after' = [after EXCEPT ![t] = IF pc[t] = "held" THEN "drop" ELSE "idle"]
  /\ Goto(t, "notify_one")
  /\ UNCHANGED <<state, cv, queue, token, seen, wait, ready>>

Return(t) == Goto(t, after[t])

\* mark_parked_if_locked, and the requeue or unpark of one thread.
NotifyOneSlow(t) ==
  LET q == queue["cv"]
  IN /\ pc[t] = "notify_one"
     /\ \/ ~cv /\ UNCHANGED <<state, cv, queue, token>>
        \/ /\ cv /\ q # <<>>
           /\ cv' = (Len(q) > 1)
           /\ \/ /\ LOCKED \in state
                 /\ state' = state \cup {PARKED}
                 /\ queue' = [queue EXCEPT !["mutex"] = Append(@, Head(q)), !["cv"] = Tail(q)]
                 /\ UNCHANGED token
              \/ /\ LOCKED \notin state
                 /\ queue' = [queue EXCEPT !["cv"] = Tail(q)]
                 /\ token' = [token EXCEPT ![Head(q)] = "NORMAL"]
                 /\ UNCHANGED state
     /\ Return(t)
     /\ UNCHANGED <<seen, after, wait, locks, ready>>

\* notify_all: with the lock (MonitorLocker), or without (Condvar).
NotifyAll(t) ==
  /\ pc[t] = "idle" /\ locks[t] < MaxLocks[t] /\ wait[t] = "no" /\ cv
  /\ locks' = [locks EXCEPT ![t] = @ + 1]
  /\ after' = [after EXCEPT ![t] = "idle"]
  /\ Goto(t, "notify_all")
  /\ UNCHANGED <<state, cv, queue, token, seen, wait, ready>>

\* notify_all_slow with the operation of notify_one when the mutex is free: the
\* other waiters stay where they are.
BugNotifyAllSlow(t) ==
  LET q == queue["cv"]
  IN /\ pc[t] = "notify_all"
     /\ \/ ~cv /\ UNCHANGED <<state, cv, queue, token>>
        \/ /\ cv /\ LOCKED \in state /\ cv' = FALSE
           /\ state' = state \cup {PARKED}
           /\ queue' = [queue EXCEPT !["mutex"] = @ \o q, !["cv"] = <<>>]
           /\ UNCHANGED token
        \/ /\ cv /\ LOCKED \notin state /\ cv' = (Len(q) > 1)
           /\ queue' = [queue EXCEPT !["cv"] = Tail(q)]
           /\ token' = [token EXCEPT ![Head(q)] = "NORMAL"]
           /\ UNCHANGED state
     /\ Return(t)
     /\ UNCHANGED <<seen, after, wait, locks, ready>>

NotifyAllSlow(t) ==
  LET q == queue["cv"]
  IN /\ pc[t] = "notify_all"
     /\ \/ ~cv /\ UNCHANGED <<state, cv, queue, token>>
        \/ /\ cv /\ q # <<>> /\ cv' = FALSE
           /\ \/ /\ LOCKED \in state
                 /\ state' = state \cup {PARKED}
                 /\ queue' = [queue EXCEPT !["mutex"] = @ \o q, !["cv"] = <<>>]
                 /\ UNCHANGED token
              \/ /\ LOCKED \notin state
                 /\ queue' = [queue EXCEPT !["mutex"] = @ \o Tail(q), !["cv"] = <<>>]
                 /\ token' = [token EXCEPT ![Head(q)] = "NORMAL"]
                 /\ state' = IF Len(q) > 1 THEN state \cup {PARKED} ELSE state
     /\ Return(t)
     /\ UNCHANGED <<seen, after, wait, locks, ready>>

-----------------------------------------------------------------------------
(***************************************************************************)
(* MonitorLocker                                                           *)
(***************************************************************************)
\* The holder changes the data and leaves.
MakeReady(t) ==
  /\ pc[t] = "held" /\ wait[t] = "no" /\ ~ready
  /\ ready' = TRUE
  /\ Goto(t, "drop")
  /\ UNCHANGED <<state, cv, queue, token, seen, after, wait, locks>>

\* MonitorLocker::drop notifies everybody, then the guard unlocks.
Drop(t) ==
  /\ pc[t] \in {"held", "drop"} /\ wait[t] = "no"
  /\ after' = [after EXCEPT ![t] = "unlock"]
  /\ Goto(t, IF cv THEN "notify_all" ELSE "unlock")
  /\ UNCHANGED <<state, cv, queue, token, seen, wait, locks, ready>>

\* What a thread may do of its own accord.
Chooses(t) ==
  Lock(t) \/ TryLock(t) \/ Bump(t) \/ Wait(t) \/ NotifyOne(t) \/ NotifyAll(t) \/ Timeout(t)

\* What it goes on with once begun.
Proceeds(t) ==
  \/ Load(t) \/ Grab(t) \/ SetParked(t) \/ Park(t) \/ ParkReturns(t)
  \/ Unlock(t) \/ UnlockSlow(t) \/ Relock(t)
  \/ WaitWhile(t) \/ WaitWhileReturns(t) \/ BeforeSleep(t) \/ BeforeSleepSlow(t) \/ Awake(t)
  \/ NotifyOneSlow(t) \/ NotifyAllSlow(t) \/ MakeReady(t) \/ Drop(t)

Next == \E t \in Threads : Chooses(t) \/ Proceeds(t)

Spec == Init /\ [][Next]_vars

\* Threads are scheduled: what can go on, goes on.
FairSpec == Spec /\ \A t \in Threads : WF_vars(Proceeds(t))

-----------------------------------------------------------------------------
Labels ==
  {"idle", "load", "slow", "park", "parked", "held", "drop", "unlock", "unlock_slow",
   "unlock_slow_fair", "relock", "wait_unlock", "wait_unlock_slow", "asleep",
   "notify_one", "notify_all"}

TypeOK ==
  /\ state \subseteq {LOCKED, PARKED} /\ cv \in BOOLEAN /\ ready \in BOOLEAN
  /\ queue \in [{"mutex", "cv"} -> Seq(Threads)]
  /\ token \in [Threads -> {"none", "NORMAL", "HANDOFF"}]
  /\ \A t \in Threads : Unparked(t) =>
       pc[t] \in {"parked", "wait_unlock", "wait_unlock_slow", "asleep"}
  /\ seen \in [Threads -> SUBSET {LOCKED, PARKED}]
  /\ pc \in [Threads -> Labels]
  /\ after \in [Threads -> {"idle", "drop", "unlock"}]
  /\ wait \in [Threads -> {"no", "once", "timed", "while"}]
  /\ \A t \in Threads : locks[t] \in 0 .. MaxLocks[t]

\* A thread that has the lock, or was given it while it is still waking up.
Holds(t) ==
  \/ pc[t] \in {"held", "drop", "unlock", "unlock_slow", "unlock_slow_fair",
                "wait_unlock", "wait_unlock_slow"}
  \/ pc[t] \in {"notify_one", "notify_all"} /\ after[t] # "idle"
  \/ token[t] = "HANDOFF"

\* The mutex is locked exactly when one thread has it: barging, handing over,
\* requeueing and timeouts never leave it with two owners or locked for nobody.
HeldByOne ==
  /\ \A t, u \in Threads : Holds(t) /\ Holds(u) => t = u
  /\ LOCKED \in state <=> \E t \in Threads : Holds(t)

\* Threads in the wait set of the condition variable.
Waits(t) == t \in Range(queue["cv"])

\* Threads that want the mutex: on their way to it, asleep on its queue, or woken.
Asks(t) ==
  ~Holds(t) /\ ~Waits(t) /\ pc[t] \in {"load", "slow", "park", "parked", "relock", "asleep"}

Notification(t) ==
  IF pc[t] = "notify_one" THEN "one" ELSE IF pc[t] = "notify_all" THEN "all" ELSE "no"

Owners == {t \in Threads : Holds(t)}
Askers == {t \in Threads : Asks(t)}
Waiters == {t \in Threads : Waits(t)}
Timed == {t \in Waiters : wait[t] = "timed"}
Entering == {t \in Threads : pc[t] \in {"wait_unlock", "wait_unlock_slow"}}
Notifying == [t \in Threads |-> Notification(t)]

M == INSTANCE Mesa WITH owner <- Owners, asking <- Askers, waiting <- Waiters,
                        timed <- Timed, entering <- Entering, notifying <- Notifying

\* Mutex and condition variable implement the monitor of Mesa: unlock, unlock_fair
\* and bump hand the mutex to nobody but a thread that asks for it, a plain wait
\* never ends without a notification, a timeout takes nobody but the thread itself
\* from the waiters, notify_one takes one and notify_all every thread that waits
\* at that moment, those included that have not given up the mutex yet, and
\* MonitorLocker::drop leaves none behind.
MesaSpec == M!Spec

\* Threads on the way to the lock, after a wakeup or before their first sleep.
OnTheWay(t) == pc[t] \in {"load", "slow", "park", "relock"} \/ token[t] = "NORMAL"

\* No lost wakeup on the mutex: while threads sleep on it the parked bit says
\* so, and somebody has it or is about to take it, and will wake the next one.
\* Waiters moved over from the condition variable are among them.
SleepersKnown ==
  queue["mutex"] # <<>> =>
    /\ PARKED \in state
    /\ LOCKED \in state \/ \E t \in Threads : OnTheWay(t)

\* Condvar::state is null exactly when nobody waits: a notification that sees
\* null may return, and one that does not finds the mutex to requeue to.
WaitersKnown == cv <=> queue["cv"] # <<>>

\* A thread that has entered a queue and was not given a token yet.
Queued(t) == ~Unparked(t) /\ pc[t] \in {"parked", "wait_unlock", "wait_unlock_slow", "asleep"}

\* The places of the two queues where a thread stands.
Places(t) == UNION {{<<a, i>> : i \in {j \in DOMAIN queue[a] : queue[a][j] = t}}
                    : a \in {"mutex", "cv"}}

\* A thread sleeps in one queue at most, and only until it gets a token.
InOneQueue ==
  \A t \in Threads : Cardinality(Places(t)) = IF Queued(t) THEN 1 ELSE 0

\* wait_while ends once its condition is false: whoever changed the data leaves
\* through MonitorLocker::drop, which notifies all waiters.
ReadyServed ==
  \A t \in Threads : (wait[t] = "while" /\ ready) ~> (wait[t] = "no")

\* lock returns, as long as other threads do not take the mutex for ever.
LockReturns ==
  \A t \in Threads : pc[t] \in {"load", "slow", "park", "parked"} ~> (pc[t] = "held")

\* The words of the mutex and of the condition variable never forget anybody: the
\* lock is held by one thread or free, every sleeper is known to the word whose
\* owner will wake it, and sleeps in one place.
QueuesOK == TypeOK /\ HeldByOne /\ SleepersKnown /\ WaitersKnown /\ InOneQueue

\* Waits end: lock and wait_while return.
WaitsEnd == ReadyServed /\ LockReturns
=============================================================================
