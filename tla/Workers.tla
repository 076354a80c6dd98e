------------------------------ MODULE Workers -------------------------------
(***************************************************************************)
(* WorkerThreads and WorkerTaskDispatcher (sync/worker_threads.rs): a      *)
(* coordinator creates workers one by one, hands every task to a number of *)
(* them through two semaphores and waits for the last.                     *)
(*                                                                         *)
(* Nothing sets shut_down, so workers never end.  sem_wait is retried when *)
(* it is interrupted, and is one step here.                                *)
(***************************************************************************)
EXTENDS Integers, FiniteSets

CONSTANTS
  MaxWorkers,  \* max_workers of the pool
  MaxTasks     \* bound: tasks handed out

VARIABLES
  created, active,            \* created_workers, active_workers
  task,                       \* number of the task in the dispatcher, 0 for null
  started, not_finished,
  startSem, endSem,           \* counts of the two semaphores
  ready, coordAsleep,         \* the flag under dispatcher.mutex; waiting on cv
  pc, coord,                  \* of the workers, of the coordinator
  target, restore,            \* set_active_workers: number wanted; what to restore
  number,                     \* num_workers of the task under way
  given,                      \* tasks so far
  ran                         \* <<task, worker_id>> of every call of work (history)

Ids == 1 .. MaxWorkers

dispatch == <<task, started, not_finished, startSem, endSem>>
pool == <<created, active, target, restore>>
vars == <<pool, dispatch, ready, coordAsleep, pc, coord, number, given, ran>>

Goto(w, label) == pc' = [pc EXCEPT ![w] = label]

Init ==
  /\ created = 0 /\ active = 0 /\ target = 0 /\ restore = 0
  /\ task = 0 /\ started = 0 /\ not_finished = 0 /\ startSem = 0 /\ endSem = 0
  /\ ready = FALSE /\ coordAsleep = FALSE
  /\ pc = [w \in Ids |-> "none"]
  /\ coord = "new" /\ number = 0 /\ given = 0 /\ ran = {}

-----------------------------------------------------------------------------
(***************************************************************************)
(* The coordinator: initialize_workers, run_task and run_task_wworkers.    *)
(***************************************************************************)
InitializeWorkers ==
  /\ coord = "new"
  /\ target' = MaxWorkers
  /\ coord' = "set_active"
  /\ UNCHANGED <<created, active, restore, dispatch, ready, coordAsleep, pc, number, given, ran>>

\* The loop of set_active_workers: create_worker spawns the thread.
SpawnWorker ==
  /\ coord = "set_active" /\ created < target
  /\ pc' = [pc EXCEPT ![created + 1] = "spawned"]
  /\ coord' = "handshake"
  /\ UNCHANGED <<pool, dispatch, ready, coordAsleep, number, given, ran>>

\* The rest of create_worker: wait on the condition variable unless the worker
\* has been there already.
Handshake ==
  /\ coord = "handshake" /\ ~coordAsleep
  /\ \/ /\ ~ready
        /\ coordAsleep' = TRUE
        /\ UNCHANGED <<created, ready, coord>>
     \/ /\ ready
        /\ ready' = FALSE
        /\ created' = created + 1
        /\ coord' = "set_active"
        /\ UNCHANGED coordAsleep
  /\ UNCHANGED <<active, target, restore, dispatch, pc, number, given, ran>>

SetActive ==
  /\ coord = "set_active" /\ created >= target
  /\ active' = target
  /\ coord' = IF number > 0 THEN "distribute" ELSE "idle"
  /\ UNCHANGED <<created, target, restore, dispatch, ready, coordAsleep, pc, number, given, ran>>

RunTask ==
  /\ coord = "idle" /\ given < MaxTasks
  /\ number' = active /\ restore' = active
  /\ coord' = "distribute"
  /\ UNCHANGED <<created, active, target, dispatch, ready, coordAsleep, pc, given, ran>>

\* run_task_wworkers with n workers, which may be more than are active.
RunTaskWWorkers(n) ==
  /\ coord = "idle" /\ given < MaxTasks
  /\ number' = n /\ restore' = active
  /\ target' = n
  /\ coord' = "set_active"
  /\ UNCHANGED <<created, active, dispatch, ready, coordAsleep, pc, given, ran>>

\* coordinator_distribute_task, to its wait: the stores come before the signal.
Distribute ==
  /\ coord = "distribute"
  /\ given' = given + 1
  /\ task' = given + 1
  /\ not_finished' = number
  /\ startSem' = startSem + number
  /\ coord' = "await"
  /\ UNCHANGED <<pool, started, endSem, ready, coordAsleep, pc, number, ran>>

\* end_semaphore.wait, the task pointer cleared, the number of workers restored.
Await ==
  /\ coord = "await" /\ endSem > 0
  /\ endSem' = endSem - 1
  /\ task' = 0
  /\ target' = restore
  /\ number' = 0
  /\ coord' = "set_active"
  /\ UNCHANGED <<created, active, restore, started, not_finished, startSem, ready, coordAsleep,
                 pc, given, ran>>

-----------------------------------------------------------------------------
(***************************************************************************)
(* A worker: run and worker_run_task.                                      *)
(***************************************************************************)
Run(w) ==
  /\ pc[w] = "spawned"
  /\ ready' = TRUE /\ coordAsleep' = FALSE
  /\ Goto(w, "wait")
  /\ UNCHANGED <<pool, dispatch, coord, number, given, ran>>

StartWait(w) ==
  /\ pc[w] = "wait" /\ startSem > 0
  /\ startSem' = startSem - 1
  /\ Goto(w, "start")
  /\ UNCHANGED <<pool, task, started, not_finished, endSem, ready, coordAsleep, coord, number,
                 given, ran>>

\* A worker id that is read and not taken.
BugStartWork(w) ==
  /\ pc[w] = "start"
  /\ ran' = IF task = 0 THEN ran ELSE ran \cup {<<task, started>>}
  /\ Goto(w, IF task = 0 THEN "wait" ELSE "work")
  /\ UNCHANGED <<pool, dispatch, ready, coordAsleep, coord, number, given>>

\* The task is read after the id is taken; work is called unless it is null.
StartWork(w) ==
  /\ pc[w] = "start"
  /\ started' = started + 1
  /\ ran' = IF task = 0 THEN ran ELSE ran \cup {<<task, started>>}
  /\ Goto(w, IF task = 0 THEN "wait" ELSE "work")
  /\ UNCHANGED <<pool, task, not_finished, startSem, endSem, ready, coordAsleep, coord, number,
                 given>>

\* work returns; the worker that was the last signals.
Finish(w) ==
  /\ pc[w] = "work"
  /\ not_finished' = not_finished - 1
  /\ endSem' = IF not_finished = 1 THEN endSem + 1 ELSE endSem
  /\ Goto(w, "wait")
  /\ UNCHANGED <<pool, task, started, startSem, ready, coordAsleep, coord, number, given, ran>>

Worker(w) == Run(w) \/ StartWait(w) \/ StartWork(w) \/ Finish(w)

Coordinator ==
  InitializeWorkers \/ SpawnWorker \/ Handshake \/ SetActive \/ Distribute \/ Await

Next ==
  \/ \E w \in Ids : Worker(w)
  \/ Coordinator
  \/ RunTask
  \/ \E n \in Ids : RunTaskWWorkers(n)

Spec == Init /\ [][Next]_vars

FairSpec == Spec /\ WF_vars(Coordinator) /\ \A w \in Ids : WF_vars(Worker(w))

-----------------------------------------------------------------------------
Busy == {w \in Ids : pc[w] = "work"}
CallsOf(n) == Cardinality({c \in ran : c[1] = n})

\* The fields have their types; the count of unfinished workers never wraps.
TypeOK ==
  /\ created \in 0 .. MaxWorkers /\ active \in 0 .. MaxWorkers
  /\ {target, restore, number} \subseteq 0 .. MaxWorkers
  /\ task \in 0 .. MaxTasks /\ given \in 0 .. MaxTasks
  /\ {started, startSem, endSem} \subseteq Nat /\ not_finished \in 0 .. MaxWorkers
  /\ ready \in BOOLEAN /\ coordAsleep \in BOOLEAN
  /\ pc \in [Ids -> {"none", "spawned", "wait", "start", "work"}]
  /\ coord \in {"new", "set_active", "handshake", "idle", "distribute", "await"}

\* "task would not outlive its owner": while a worker is between its start and
\* the end of work, run_task has not returned and the pointer is not null.
TaskAlive ==
  (\E w \in Ids : pc[w] \in {"start", "work"}) => coord = "await" /\ task # 0

\* When run_task returns, work has been called once for each of the num_workers
\* asked for, each with an id of its own, and no permit is left for a later task.
WorkDoneOnce ==
  coord = "await" /\ endSem > 0 =>
    CallsOf(task) = number /\ startSem = 0 /\ Busy = {}

\* Every created worker is at its semaphore or busy: the handshake of
\* create_worker is never answered by another worker.
HandshakeMatches ==
  \A w \in Ids : w <= created => pc[w] \notin {"none", "spawned"}

\* run_task and initialize_workers return.
CallsReturn == (coord # "idle") ~> (coord = "idle")
=============================================================================
