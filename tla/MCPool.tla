------------------------------- MODULE MCPool -------------------------------
(***************************************************************************)
(* The two ways in which worker threads are coordinated, one at a time:    *)
(* the suspendible thread set and the task dispatcher of the pool.         *)
(***************************************************************************)
EXTENDS Suspendible

CONSTANTS w1, w2, w3, MaxWorkers, MaxTasks

VARIABLES
  subject,  \* which of the two the behaviour is about
  created, active, task, started, not_finished, startSem, endSem, ready, coordAsleep,
  worker, coord, target, restore, number, given, ran

ASSUME PoolAssumption == MaxWorkers \in Nat /\ MaxTasks \in Nat

Pool == INSTANCE Workers WITH pc <- worker

poolVars == <<created, active, task, started, not_finished, startSem, endSem, ready,
              coordAsleep, worker, coord, target, restore, number, given, ran>>

OnSet(A) == subject = "set" /\ A /\ UNCHANGED <<subject, poolVars>>
OnPool(A) == subject = "pool" /\ A /\ UNCHANGED <<subject, vars>>

MCInit == subject \in {"set", "pool"} /\ Init /\ Pool!Init
MCNext == OnSet(Next) \/ OnPool(Pool!Next)

allVars == <<subject, vars, poolVars>>

\* Each with the fairness of its own module.
MCSpec ==
  /\ MCInit /\ [][MCNext]_allVars
  /\ \A w \in Workers : WF_allVars(OnSet(Proceeds(w)))
  /\ WF_allVars(OnSet(Suspender))
  /\ \A w \in Pool!Ids : WF_allVars(OnPool(Pool!Worker(w)))
  /\ WF_allVars(OnPool(Pool!Coordinator))

\* The dispatcher's counters and semaphores have their types: no count of unfinished
\* workers wraps (worker_run_task).
PoolTypeOK == Pool!TypeOK

\* No worker uses a task that run_task has stopped waiting for.
TaskAlive == Pool!TaskAlive

\* run_task returns after one call of work for each worker asked for.
WorkDoneOnce == Pool!WorkDoneOnce

\* The flag create_worker waits for is set by the worker it created.
HandshakeMatches == Pool!HandshakeMatches

\* run_task and initialize_workers return.
TasksReturn == (subject = "pool" /\ coord # "idle") ~> (coord = "idle")

\* While a suspension lasts all members have yielded or left, whoever joins or leaves,
\* and the suspender was signalled once (join, yield_, leave, synchronize).
SetOK == TypeOK /\ StaysSynchronized /\ OneSignal

\* A task is worked on once by each worker, none of which outlives it, and workers are
\* paired with the call that created them (worker_run_task, create_worker).
PoolOK == PoolTypeOK /\ TaskAlive /\ WorkDoneOnce /\ HandshakeMatches

\* Nobody waits for ever: synchronize, the members it stopped, and run_task return.
WaitsEnd == SynchronizeReturns /\ NobodyLeftBehind /\ TasksReturn
=============================================================================
