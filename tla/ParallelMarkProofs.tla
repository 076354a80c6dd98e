------------------------- MODULE ParallelMarkProofs -------------------------
(***************************************************************************)
(* Theorems about ParallelMark: for any number of workers, any heap graph  *)
(* and any queue sizes, marking stops only when exactly the reachable      *)
(* objects are marked.                                                     *)
(***************************************************************************)
EXTENDS ParallelMark, FiniteSetTheorems, TLAPS

\* A worker at these points has seen its own queues empty since it last had a
\* task, and has seen the injector empty too.
Idle == {"steal", "term", "sleep", "done"}
Out == {w \in Workers : pc[w] \in {"sleep", "done"}}

\* Where a marked object with unmarked references can be.
Pending(o) ==
  \/ o \in injector
  \/ \E w \in Workers : o \in local[w] \cup deque[w]
  \/ \E w \in Workers : /\ pc[w] = "scan" /\ task[w] = o
                        /\ refs[o] \subseteq marked \cup todo[w]

\* No marked object is forgotten.
GreyOK == \A o \in marked : refs[o] \subseteq marked \/ Pending(o)

\* A worker that is not tracing has no task, one that is idle has no queue.
WorkerOK ==
  \A w \in Workers :
    /\ pc[w] \in Idle => local[w] = {} /\ deque[w] = {}
    /\ pc[w] # "scan" => task[w] = NoTask /\ todo[w] = {}
    /\ pc[w] = "scan" => /\ task[w] \in marked
                         /\ todo[w] \subseteq refs[task[w]]

\* Every queued task is marked.
QueuedOK ==
  /\ Roots \subseteq marked
  /\ injector \subseteq marked
  /\ \A w \in Workers : local[w] \cup deque[w] \subseteq marked

\* Somebody will look into a non-empty injector before going idle.
InjectorOK == injector # {} => \E w \in Workers : pc[w] \notin Idle

\* The Terminator counts the workers that are not out, and lets nobody go
\* before all of them are.
CountOK ==
  /\ Cardinality(Workers) # 1 => nworkers + Cardinality(Out) = Cardinality(Workers)
  /\ (\E w \in Workers : pc[w] = "done") => Out = Workers

IInv == TypeOK /\ GreyOK /\ WorkerOK /\ QueuedOK /\ InjectorOK /\ CountOK

-----------------------------------------------------------------------------
(***************************************************************************)
(* What a push does to the queues: the object is added to one of the three *)
(* queues the worker can write, which otherwise only exchange tasks.       *)
(***************************************************************************)
LEMMA PushFacts ==
  ASSUME TypeOK, NEW w \in Workers, NEW o \in Objects, Push(w, o)
  PROVE  /\ local' \in [Workers -> SUBSET Objects]
         /\ deque' \in [Workers -> SUBSET Objects]
         /\ injector' \subseteq Objects
         /\ pushes' \in [Workers -> Nat]
         /\ injector \subseteq injector'
         /\ \A v \in Workers \ {w} : local'[v] = local[v] /\ deque'[v] = deque[v]
         /\ local'[w] \cup deque'[w] \cup injector'
              = local[w] \cup deque[w] \cup injector \cup {o}
<1> USE DEF TypeOK
<1>1. CASE Cardinality(local[w]) < SegmentSize
  <2> DEFINE loc == local[w] \cup {o}
  <2>0. DefensivePush(w, loc) /\ deque' = deque
    BY <1>1 DEF Push
  <2>1. loc \in SUBSET Objects
    OBVIOUS
  <2>2. pushes' \in [Workers -> Nat]
    BY <2>0 DEF DefensivePush
  <2>3. \E keep \in SUBSET loc :
          /\ local' = [local EXCEPT ![w] = keep]
          /\ injector' = injector \cup (loc \ keep)
    <3>1. CASE local' = [local EXCEPT ![w] = loc] /\ injector' = injector
      <4>1. loc \in SUBSET loc /\ injector' = injector \cup (loc \ loc)
        BY <3>1
      <4> QED BY <3>1, <4>1
    <3>2. CASE \E keep \in SUBSET loc :
                 /\ Cardinality(keep) = Cardinality(loc) \div 2
                 /\ local' = [local EXCEPT ![w] = keep]
                 /\ injector' = injector \cup (loc \ keep)
      BY <3>2
    <3> QED BY <2>0, <3>1, <3>2 DEF DefensivePush
  <2> HIDE DEF loc
  <2>4. PICK keep \in SUBSET loc :
          /\ local' = [local EXCEPT ![w] = keep]
          /\ injector' = injector \cup (loc \ keep)
    BY <2>3
  <2>5. local'[w] = keep /\ \A v \in Workers \ {w} : local'[v] = local[v]
    BY <2>4
  <2>6. local' \in [Workers -> SUBSET Objects]
    BY <2>4, <2>1
  <2>7. local'[w] \cup injector' = local[w] \cup injector \cup {o}
    BY <2>4, <2>5 DEF loc
  <2> QED BY <2>0, <2>1, <2>2, <2>4, <2>5, <2>6, <2>7
<1>2. CASE ~(Cardinality(local[w]) < SegmentSize)
  <2>1. /\ deque' = [deque EXCEPT ![w] = @ \cup {o}]
        /\ local' = local /\ injector' = injector /\ pushes' = pushes
    BY <1>2 DEF Push
  <2> QED BY <2>1
<1> QED BY <1>1, <1>2

(* The inductive invariant holds initially. *)
LEMMA InitIInv == Init => IInv
<1> SUFFICES ASSUME Init PROVE IInv
  OBVIOUS
<1> USE WorkersAssumption, GraphAssumption, CancellableAssumption
<1> DEFINE Own(home, w) == {r \in Roots : home[r] = w}
<1>1. PICK home \in [Roots -> Workers \cup {NoTask}], kept \in [Workers -> SUBSET Roots] :
        /\ \A w \in Workers : kept[w] \subseteq Own(home, w)
        /\ injector = Own(home, NoTask)
        /\ local = kept
        /\ deque = [w \in Workers |-> Own(home, w) \ kept[w]]
  BY DEF Init
<1>2. \A w \in Workers : local[w] \cup deque[w] = Own(home, w)
  BY <1>1
<1>3. /\ injector \subseteq Roots
      /\ local \in [Workers -> SUBSET Objects] /\ deque \in [Workers -> SUBSET Objects]
  BY <1>1
<1>4. TypeOK
  <2>1. nworkers \in Nat
    BY FS_CardinalityType DEF Init
  <2>2. worked \in [Workers -> BOOLEAN] /\ pc \in [Workers -> PCs]
    BY DEF Init, PCs
  <2> QED BY <1>3, <2>1, <2>2 DEF Init, TypeOK
<1>5. GreyOK
  <2> SUFFICES ASSUME NEW o \in marked PROVE Pending(o)
    BY DEF GreyOK
  <2>1. home[o] \in Workers \cup {NoTask} /\ o \in Own(home, home[o])
    BY DEF Init
  <2> QED BY <1>1, <1>2, <2>1 DEF Pending
<1>6. WorkerOK /\ InjectorOK
  BY DEF Init, WorkerOK, InjectorOK, Idle
<1>7. QueuedOK
  BY <1>2, <1>3 DEF Init, QueuedOK
<1>8. CountOK
  <2>1. Out = {} BY DEF Init, Out
  <2>2. nworkers = Cardinality(Workers) /\ nworkers \in Nat
    BY FS_CardinalityType DEF Init
  <2> QED BY <2>1, <2>2, FS_EmptySet DEF CountOK, Init
<1> QED BY <1>4, <1>5, <1>6, <1>7, <1>8 DEF IInv

(***************************************************************************)
(* Everything but the count: one lemma per kind of step.                   *)
(***************************************************************************)
Rest == TypeOK /\ GreyOK /\ WorkerOK /\ QueuedOK /\ InjectorOK

\* Taking a task from a queue moves it from the queue to the worker.
LEMMA TakeRest ==
  ASSUME IInv, NEW w \in Workers, NEW o \in Objects,
         pc[w] \in {"pop", "steal"}, StartTask(w, o), o \in marked,
         local' \in [Workers -> SUBSET Objects], deque' \in [Workers -> SUBSET Objects],
         injector' \subseteq injector,
         \A v \in Workers : pc[v] \in Idle /\ v # w => local'[v] = {} /\ deque'[v] = {},
         \A v \in Workers : local'[v] \cup deque'[v] \subseteq marked,
         \A x \in Objects : x # o /\ (x \in injector \/ \E v \in Workers : x \in local[v] \cup deque[v])
            => (x \in injector' \/ \E v \in Workers : x \in local'[v] \cup deque'[v])
  PROVE  Rest'
<1> USE DEF IInv, TypeOK, StartTask, Goto
<1>0. pc'[w] = "scan" /\ \A v \in Workers \ {w} : pc'[v] = pc[v]
  OBVIOUS
<1>1. TypeOK'
  BY DEF PCs, loopvars
<1>2. GreyOK'
  <2> SUFFICES ASSUME NEW x \in marked, ~(refs[x] \subseteq marked) PROVE Pending(x)'
    BY DEF GreyOK, loopvars
  <2>1. Pending(x) BY DEF GreyOK
  <2>2. CASE x = o
    BY <1>0, <2>2 DEF Pending
  <2>3. CASE x # o /\ (x \in injector \/ \E v \in Workers : x \in local[v] \cup deque[v])
    BY <2>3 DEF Pending
  <2>4. CASE \E v \in Workers : /\ pc[v] = "scan" /\ task[v] = x
                                /\ refs[x] \subseteq marked \cup todo[v]
    BY <1>0, <2>4 DEF Pending
  <2> QED BY <2>1, <2>2, <2>3, <2>4 DEF Pending
<1>3. WorkerOK'
  BY <1>0 DEF WorkerOK, Idle
<1>4. QueuedOK'
  BY DEF QueuedOK
<1>5. InjectorOK'
  BY <1>0 DEF InjectorOK, Idle
<1> QED BY <1>1, <1>2, <1>3, <1>4, <1>5 DEF Rest

(* Each way to find a task is such a move. *)
LEMMA PopRest ==
  ASSUME IInv, NEW w \in Workers,
         \/ PopLocal(w) \/ PopWorker(w) \/ PopGlobal(w)
         \/ \E v \in Workers : Steal(w, v)
  PROVE  Rest'
<1> USE DEF IInv, TypeOK, WorkerOK, QueuedOK, Idle
<1>1. CASE PopLocal(w)
  <2>1. PICK o \in local[w] : local' = [local EXCEPT ![w] = @ \ {o}] /\ StartTask(w, o)
    BY <1>1 DEF PopLocal
  <2>2. deque' = deque /\ injector' = injector /\ pc[w] = "pop"
    BY <1>1 DEF PopLocal
  <2> QED BY <2>1, <2>2, TakeRest
<1>2. CASE PopWorker(w)
  <2>1. PICK o \in deque[w] : deque' = [deque EXCEPT ![w] = @ \ {o}] /\ StartTask(w, o)
    BY <1>2 DEF PopWorker
  <2>2. local' = local /\ injector' = injector /\ pc[w] = "pop"
    BY <1>2 DEF PopWorker
  <2> QED BY <2>1, <2>2, TakeRest
<1>3. CASE PopGlobal(w)
  <2>0. PICK o \in injector : \E batch \in SUBSET (injector \ {o}) :
          /\ injector' = injector \ (batch \cup {o})
          /\ deque' = [deque EXCEPT ![w] = @ \cup batch]
          /\ StartTask(w, o)
    BY <1>3 DEF PopGlobal
  <2>1. PICK batch \in SUBSET (injector \ {o}) :
          /\ injector' = injector \ (batch \cup {o})
          /\ deque' = [deque EXCEPT ![w] = @ \cup batch]
          /\ StartTask(w, o)
    BY <2>0
  <2>2. local' = local /\ pc[w] = "pop"
    BY <1>3 DEF PopGlobal
  <2>3. deque'[w] = deque[w] \cup batch /\ \A v \in Workers \ {w} : deque'[v] = deque[v]
    BY <2>1
  <2>4. deque' \in [Workers -> SUBSET Objects]
    BY <2>1
  <2>5. \A x \in Objects : x # o /\ (x \in injector \/ \E v \in Workers : x \in local[v] \cup deque[v])
            => (x \in injector' \/ \E v \in Workers : x \in local'[v] \cup deque'[v])
    BY <2>1, <2>2, <2>3
  <2> QED BY <2>1, <2>2, <2>3, <2>4, <2>5, TakeRest
<1>4. ASSUME NEW v \in Workers, Steal(w, v) PROVE Rest'
  <2>0. PICK o \in deque[v] : \E batch \in SUBSET (deque[v] \ {o}) :
          /\ deque' = [deque EXCEPT ![v] = @ \ (batch \cup {o}), ![w] = @ \cup batch]
          /\ StartTask(w, o)
    BY <1>4 DEF Steal
  <2>1. PICK batch \in SUBSET (deque[v] \ {o}) :
          /\ deque' = [deque EXCEPT ![v] = @ \ (batch \cup {o}), ![w] = @ \cup batch]
          /\ StartTask(w, o)
    BY <2>0
  <2>2. local' = local /\ injector' = injector /\ pc[w] = "steal" /\ v # w
    BY <1>4 DEF Steal
  <2>3. /\ deque'[w] = deque[w] \cup batch
        /\ deque'[v] = deque[v] \ (batch \cup {o})
        /\ \A u \in Workers \ {v, w} : deque'[u] = deque[u]
    BY <2>1, <2>2
  <2>4. deque' \in [Workers -> SUBSET Objects]
    BY <2>1
  <2>5. \A x \in Objects : x # o /\ (x \in injector \/ \E u \in Workers : x \in local[u] \cup deque[u])
            => (x \in injector' \/ \E u \in Workers : x \in local'[u] \cup deque'[u])
    BY <2>1, <2>2, <2>3
  <2>6. \A u \in Workers : pc[u] \in Idle /\ u # w => local'[u] = {} /\ deque'[u] = {}
    BY <2>2, <2>3
  <2>7. \A u \in Workers : local'[u] \cup deque'[u] \subseteq marked
    BY <2>2, <2>3
  <2>8. o \in marked /\ o \in Objects /\ injector' \subseteq injector
    BY <2>2
  <2> HIDE DEF IInv, TypeOK, WorkerOK, QueuedOK, Idle
  <2>9. local' \in [Workers -> SUBSET Objects]
    BY <2>2 DEF IInv, TypeOK
  <2> QED BY <2>1, <2>2, <2>4, <2>5, <2>6, <2>7, <2>8, <2>9, TakeRest
<1> QED BY <1>1, <1>2, <1>3, <1>4

\* Visiting a reference marks it and queues it, or finds it marked.
LEMMA VisitRest ==
  ASSUME IInv, NEW w \in Workers, NEW o \in Objects, Visit(w, o)
  PROVE  Rest'
<1> USE DEF IInv
<1>0. /\ pc[w] = "scan" /\ o \in todo[w] /\ todo' = [todo EXCEPT ![w] = @ \ {o}]
      /\ refs' = refs /\ task' = task /\ worked' = worked /\ pc' = pc
      /\ nworkers' = nworkers /\ cancelled' = cancelled
  BY DEF Visit, loopvars
<1>1. /\ local' \in [Workers -> SUBSET Objects] /\ deque' \in [Workers -> SUBSET Objects]
      /\ injector' \subseteq Objects /\ pushes' \in [Workers -> Nat]
      /\ marked' = marked \cup {o}
      /\ \A v \in Workers \ {w} : local'[v] = local[v] /\ deque'[v] = deque[v]
      /\ local'[w] \cup deque'[w] \cup injector' \subseteq
           local[w] \cup deque[w] \cup injector \cup {o}
      /\ local[w] \cup deque[w] \cup injector \subseteq local'[w] \cup deque'[w] \cup injector'
      /\ injector \subseteq injector'
      /\ o \notin marked => o \in local'[w] \cup deque'[w] \cup injector'
  <2>1. CASE o \in marked
    BY <2>1 DEF Visit, queues, TypeOK
  <2>2. CASE o \notin marked
    <3>1. Push(w, o) /\ marked' = marked \cup {o}
      BY <2>2 DEF Visit
    <3> QED BY <3>1, PushFacts
  <2> QED BY <2>1, <2>2
<1>2. TypeOK'
  BY <1>0, <1>1 DEF TypeOK
<1>3. GreyOK'
  <2> SUFFICES ASSUME NEW x \in marked', ~(refs[x] \subseteq marked') PROVE Pending(x)'
    BY <1>0 DEF GreyOK
  <2>1. CASE x = o /\ o \notin marked
    BY <1>1, <2>1 DEF Pending
  <2>2. CASE x \in marked
    <3>1. Pending(x) BY <1>1, <2>2 DEF GreyOK
    <3>2. CASE x \in injector \/ \E v \in Workers : x \in local[v] \cup deque[v]
      BY <1>1, <3>2 DEF Pending
    <3>3. ASSUME NEW v \in Workers, pc[v] = "scan", task[v] = x,
                 refs[x] \subseteq marked \cup todo[v]
          PROVE  Pending(x)'
      BY <1>0, <1>1, <3>3 DEF Pending, TypeOK
    <3> QED BY <3>1, <3>2, <3>3 DEF Pending
  <2> QED BY <1>1, <2>1, <2>2
<1>4. WorkerOK'
  BY <1>0, <1>1 DEF WorkerOK, Idle, TypeOK
<1>5. QueuedOK'
  BY <1>1 DEF QueuedOK, TypeOK
<1>6. InjectorOK'
  BY <1>0 DEF InjectorOK, Idle
<1> QED BY <1>2, <1>3, <1>4, <1>5, <1>6 DEF Rest

\* Steps that move no task.
LEMMA ControlRest ==
  ASSUME IInv, NEW w \in Workers,
         \/ LoopTop(w) \/ GlobalEmpty(w) \/ FoundNothing(w) \/ EndTask(w)
         \/ DecreaseWorkers(w) \/ ZeroOrIncreaseWorkers(w)
  PROVE  Rest' \/ nworkers' \notin Nat
<1> USE DEF IInv, TypeOK, queues, loopvars, Goto
<1>0. /\ refs' = refs /\ marked' = marked /\ local' = local /\ deque' = deque
      /\ injector' = injector /\ todo' = todo /\ pushes' = pushes
      /\ cancelled' = cancelled
      /\ \A v \in Workers \ {w} : pc'[v] = pc[v] /\ task'[v] = task[v]
      /\ task' \in [Workers -> Objects \cup {NoTask}]
      /\ pc' \in [Workers -> PCs] /\ worked' \in [Workers -> BOOLEAN]
  BY DEF LoopTop, GlobalEmpty, FoundNothing, EndTask, DecreaseWorkers,
         ZeroOrIncreaseWorkers, PCs
<1>1. /\ pc'[w] # "scan" /\ task'[w] = NoTask /\ todo[w] = {}
      /\ pc'[w] \in Idle => local[w] = {} /\ deque[w] = {}
      /\ pc'[w] \in Idle => pc[w] \in Idle \/ injector = {}
  BY DEF LoopTop, GlobalEmpty, FoundNothing, EndTask, DecreaseWorkers,
         ZeroOrIncreaseWorkers, WorkerOK, Idle
<1>3. GreyOK'
  <2> SUFFICES ASSUME NEW x \in marked, ~(refs[x] \subseteq marked) PROVE Pending(x)'
    BY <1>0 DEF GreyOK
  <2>1. Pending(x) BY DEF GreyOK
  <2>2. CASE x \in injector \/ \E v \in Workers : x \in local[v] \cup deque[v]
    BY <1>0, <2>2 DEF Pending
  <2>3. ASSUME NEW v \in Workers, pc[v] = "scan", task[v] = x,
               refs[x] \subseteq marked \cup todo[v]
        PROVE  Pending(x)'
    BY <1>0, <1>1, <2>3 DEF Pending
  <2> QED BY <2>1, <2>2, <2>3 DEF Pending
<1>4. WorkerOK'
  BY <1>0, <1>1 DEF WorkerOK
<1>5. QueuedOK' /\ InjectorOK'
  BY <1>0, <1>1 DEF QueuedOK, InjectorOK
<1>6. nworkers' \in Nat => TypeOK'
  <2>1. injector' \subseteq Objects /\ marked' \subseteq Objects
    BY <1>0
  <2>2. cancelled' \in BOOLEAN
    BY <1>0
  <2> QED BY <1>0, <2>1, <2>2
<1> QED BY <1>3, <1>4, <1>5, <1>6 DEF Rest

-----------------------------------------------------------------------------
(***************************************************************************)
(* The count of the Terminator.                                            *)
(***************************************************************************)

\* Moving one worker between outside and inside changes the size by one.
LEMMA OutFinite ==
  ASSUME TypeOK
  PROVE  /\ IsFiniteSet(Out) /\ Out \subseteq Workers
         /\ Cardinality(Out) \in Nat /\ Cardinality(Workers) \in Nat
         /\ Cardinality(Out) = Cardinality(Workers) => Out = Workers
<1>1. Out \subseteq Workers BY DEF Out
<1>2. IsFiniteSet(Out) BY <1>1, WorkersAssumption, FS_Subset
<1>3. Cardinality(Out) \in Nat /\ Cardinality(Workers) \in Nat
  BY <1>2, WorkersAssumption, FS_CardinalityType
<1>4. Cardinality(Out) = Cardinality(Workers) => Out = Workers
  BY <1>1, WorkersAssumption, FS_Subset
<1> QED BY <1>1, <1>2, <1>3, <1>4

\* Steps of a worker that neither enter nor leave the Terminator.
LEMMA SameCount ==
  ASSUME IInv, NEW w \in Workers, NEW to \in {"loop", "pop", "steal", "scan", "term", "cancelled"},
         pc[w] \notin {"sleep", "done"}, pc' = [pc EXCEPT ![w] = to], nworkers' = nworkers
  PROVE  CountOK' /\ nworkers' \in Nat
<1>1. Out' = Out
  BY DEF Out, IInv, TypeOK
<1>2. (\E v \in Workers : pc'[v] = "done") => \E v \in Workers : pc[v] = "done"
  BY DEF IInv, TypeOK
<1> QED BY <1>1, <1>2 DEF CountOK, IInv, TypeOK

(* A worker counts itself out. *)
LEMMA DecreaseCount ==
  ASSUME IInv, NEW w \in Workers, DecreaseWorkers(w)
  PROVE  CountOK' /\ nworkers' \in Nat
<1> USE DEF IInv
<1>0. pc[w] = "term" /\ w \notin Out /\ pc' \in [Workers -> PCs]
  BY DEF DecreaseWorkers, Out, Goto, TypeOK, PCs
<1>1. Out' = Out \cup {w}
  BY DEF DecreaseWorkers, Goto, Out, TypeOK
<1>2. Cardinality(Out') = Cardinality(Out) + 1 /\ IsFiniteSet(Out')
  BY <1>0, <1>1, OutFinite, FS_AddElement
<1>3. ~ \E v \in Workers : pc[v] = "done"
  BY <1>0 DEF CountOK
<1>4. CASE Cardinality(Workers) = 1
  <2>1. PICK x : Workers = {x}
    BY <1>4, WorkersAssumption, FS_Singleton
  <2>2. Workers = {w}
    BY <2>1
  <2>3. Out' = Workers BY <1>1, <2>2, OutFinite
  <2>4. nworkers' = nworkers BY <1>4 DEF DecreaseWorkers
  <2> QED BY <1>4, <2>3, <2>4 DEF CountOK, TypeOK
<1>5. CASE Cardinality(Workers) # 1
  <2>1. nworkers' = nworkers - 1 /\ pc' = [pc EXCEPT ![w] = IF nworkers = 1 THEN "done" ELSE "sleep"]
    BY <1>5 DEF DecreaseWorkers, Goto
  <2>2. nworkers + Cardinality(Out) = Cardinality(Workers)
    BY <1>5 DEF CountOK
  <2>3. nworkers # 0
    BY <1>0, <2>2, OutFinite DEF TypeOK
  <2>4. nworkers' \in Nat /\ nworkers' + Cardinality(Out') = Cardinality(Workers)
    BY <1>2, <2>1, <2>2, <2>3, OutFinite DEF TypeOK
  <2>5. (\E v \in Workers : pc'[v] = "done") => nworkers' = 0
    BY <1>3, <2>1 DEF TypeOK
  <2>6. nworkers' = 0 => Out' = Workers
    <3>1. Out' \subseteq Workers BY DEF Out
    <3> QED BY <3>1, <1>2, <2>4, WorkersAssumption, FS_Subset, OutFinite
  <2> QED BY <1>5, <2>4, <2>5, <2>6 DEF CountOK
<1> QED BY <1>4, <1>5

(* A worker that found work, or sees zero, leaves the barrier. *)
LEMMA IncreaseCount ==
  ASSUME IInv, NEW w \in Workers, ZeroOrIncreaseWorkers(w)
  PROVE  CountOK' /\ nworkers' \in Nat
<1> USE DEF IInv
<1>0. pc[w] = "sleep" /\ w \in Out
  BY DEF ZeroOrIncreaseWorkers, Out
<1>1. CASE nworkers = 0
  <2>1. pc' = [pc EXCEPT ![w] = "done"] /\ nworkers' = nworkers
    BY <1>1 DEF ZeroOrIncreaseWorkers, Goto
  <2>2. Out' = Out
    BY <1>0, <2>1 DEF Out, TypeOK
  <2>3. CASE Cardinality(Workers) # 1
    <3>1. Cardinality(Out) = Cardinality(Workers)
      BY <1>1, <2>3, OutFinite DEF CountOK
    <3> QED BY <2>1, <2>2, <2>3, <3>1, OutFinite DEF CountOK, TypeOK
  <2>4. CASE Cardinality(Workers) = 1
    <3>1. PICK x : Workers = {x}
      BY <2>4, WorkersAssumption, FS_Singleton
    <3>2. Out = Workers BY <1>0, <3>1, OutFinite
    <3> QED BY <2>1, <2>2, <2>4, <3>2 DEF CountOK, TypeOK
  <2> QED BY <2>3, <2>4
<1>2. CASE nworkers # 0
  <2>1. pc' = [pc EXCEPT ![w] = "loop"] /\ nworkers' = nworkers + 1
    BY <1>2 DEF ZeroOrIncreaseWorkers, Goto
  <2>2. Out' = Out \ {w}
    BY <2>1 DEF Out, TypeOK
  <2>3. Cardinality(Out') = Cardinality(Out) - 1
    BY <1>0, <2>2, OutFinite, FS_RemoveElement
  <2>4. (\E v \in Workers : pc'[v] = "done") => \E v \in Workers : pc[v] = "done"
    BY <2>1 DEF TypeOK
  <2>5. CASE Cardinality(Workers) # 1
    <3>1. nworkers + Cardinality(Out) = Cardinality(Workers)
      BY <2>5 DEF CountOK
    <3>2. nworkers' + Cardinality(Out') = Cardinality(Workers) /\ nworkers' \in Nat
      BY <2>1, <2>3, <3>1, OutFinite DEF TypeOK
    <3>3. ~ \E v \in Workers : pc[v] = "done"
      BY <1>2, <3>1, OutFinite DEF CountOK, TypeOK
    <3> QED BY <2>4, <2>5, <3>2, <3>3 DEF CountOK
  <2>6. CASE Cardinality(Workers) = 1
    <3>1. PICK x : Workers = {x}
      BY <2>6, WorkersAssumption, FS_Singleton
    <3>2. ~ \E v \in Workers : pc'[v] = "done"
      BY <3>1, <2>1 DEF TypeOK
    <3> QED BY <2>1, <2>6, <3>2 DEF CountOK, TypeOK
  <2> QED BY <2>5, <2>6
<1> QED BY <1>1, <1>2

-----------------------------------------------------------------------------
(* Every step keeps the inductive invariant. *)
LEMMA NextIInv == IInv /\ [Next]_vars => IInv'
<1> SUFFICES ASSUME IInv, [Next]_vars PROVE IInv'
  OBVIOUS
<1>0. ASSUME Rest', CountOK' PROVE IInv'
  BY <1>0 DEF Rest, IInv
<1>1. ASSUME NEW w \in Workers, LoopTop(w) \/ GlobalEmpty(w) \/ FoundNothing(w) \/ EndTask(w)
      PROVE  IInv'
  <2>1. pc[w] \notin {"sleep", "done"} /\ nworkers' = nworkers
    BY <1>1 DEF LoopTop, GlobalEmpty, FoundNothing, EndTask, loopvars
  <2>2. \E to \in {"loop", "pop", "steal", "scan", "term", "cancelled"} : pc' = [pc EXCEPT ![w] = to]
    BY <1>1 DEF LoopTop, GlobalEmpty, FoundNothing, EndTask, Goto
  <2>3. CountOK' /\ nworkers' \in Nat
    BY <2>1, <2>2, SameCount
  <2> QED BY <1>0, <1>1, <2>3, ControlRest
<1>2. ASSUME NEW w \in Workers, DecreaseWorkers(w) PROVE IInv'
  BY <1>0, <1>2, DecreaseCount, ControlRest
<1>3. ASSUME NEW w \in Workers, ZeroOrIncreaseWorkers(w) PROVE IInv'
  BY <1>0, <1>3, IncreaseCount, ControlRest
<1>4. ASSUME NEW w \in Workers,
             \/ PopLocal(w) \/ PopWorker(w) \/ PopGlobal(w)
             \/ \E v \in Workers : Steal(w, v)
      PROVE  IInv'
  <2>1. pc[w] \notin {"sleep", "done"} /\ nworkers' = nworkers /\ pc' = [pc EXCEPT ![w] = "scan"]
    BY <1>4 DEF PopLocal, PopWorker, PopGlobal, Steal, StartTask, Goto, loopvars
  <2>2. CountOK'
    BY <2>1, SameCount
  <2> QED BY <1>0, <1>4, <2>2, PopRest
<1>5. ASSUME NEW w \in Workers, NEW o \in Objects, Visit(w, o) PROVE IInv'
  <2>1. pc' = pc /\ nworkers' = nworkers BY <1>5 DEF Visit, loopvars
  <2>2. CountOK' BY <2>1 DEF CountOK, Out, IInv
  <2> QED BY <1>0, <1>5, <2>2, VisitRest
<1>6. CASE CancelGC
  <2>1. TypeOK'
    BY <1>6 DEF CancelGC, IInv, TypeOK, queues
  <2> QED
    BY <1>6, <2>1 DEF CancelGC, IInv, GreyOK, Pending, WorkerOK, QueuedOK, InjectorOK, CountOK,
                      Out, queues
<1>7. CASE UNCHANGED vars
  BY <1>7 DEF vars, queues, loopvars, IInv, TypeOK, GreyOK, Pending, WorkerOK, QueuedOK,
              InjectorOK, CountOK, Out
<1>8. CASE Joined
  BY <1>7, <1>8 DEF Joined
<1> QED
  BY <1>1, <1>2, <1>3, <1>4, <1>5, <1>6, <1>7, <1>8 DEF Next, Worker

(* The inductive invariant implies complete marking. *)
LEMMA IInvComplete == IInv => MarkingComplete
<1> SUFFICES ASSUME IInv, NEW d \in Workers, pc[d] = "done"
             PROVE  /\ Roots \subseteq marked /\ Closed(marked) /\ injector = {}
                    /\ \A w \in Workers : local[w] = {} /\ deque[w] = {} /\ task[w] = NoTask
  BY DEF MarkingComplete
<1>1. \A w \in Workers : pc[w] \in {"sleep", "done"}
  BY DEF IInv, CountOK, Out
<1>2. /\ injector = {}
      /\ \A w \in Workers : local[w] = {} /\ deque[w] = {} /\ task[w] = NoTask
  BY <1>1 DEF IInv, InjectorOK, WorkerOK, Idle
<1>3. Closed(marked)
  BY <1>1, <1>2 DEF Closed, IInv, GreyOK, Pending
<1> QED BY <1>2, <1>3 DEF IInv, QueuedOK

(***************************************************************************)
(* The types of the marking state.                                         *)
(***************************************************************************)
THEOREM TypeCorrect == Spec => []TypeOK
<1>1. Init => IInv BY InitIInv
<1>2. IInv /\ [Next]_vars => IInv' BY NextIInv
<1>3. IInv => TypeOK BY DEF IInv
<1> QED BY <1>1, <1>2, <1>3, PTL DEF Spec

(***************************************************************************)
(* For any number of workers and any heap graph, the Terminator lets no    *)
(* worker go before everything reachable from the roots is marked and all  *)
(* queues are empty, whatever stealing, batching and defensive pushes did. *)
(***************************************************************************)
THEOREM NoEarlyTermination == Spec => []MarkingComplete
<1>1. Init => IInv BY InitIInv
<1>2. IInv /\ [Next]_vars => IInv' BY NextIInv
<1>3. IInv => MarkingComplete BY IInvComplete
<1> QED BY <1>1, <1>2, <1>3, PTL DEF Spec

(***************************************************************************)
(* Marking never marks an object that is not reachable from the roots.     *)
(***************************************************************************)
THEOREM NothingElseMarked == Spec => []MarkingSound
<1>1. Init => IInv BY InitIInv
<1>2. IInv /\ [Next]_vars => IInv' BY NextIInv
<1>3. Init => MarkingSound BY DEF Init, MarkingSound
<1>4. IInv /\ MarkingSound /\ [Next]_vars => MarkingSound'
  <2> SUFFICES ASSUME IInv, MarkingSound, [Next]_vars PROVE MarkingSound'
    OBVIOUS
  <2>1. refs' = refs
    BY DEF Next, vars, CancelGC, Joined, Worker, LoopTop, PopLocal, PopWorker, PopGlobal, GlobalEmpty,
           Steal, StartTask, FoundNothing, EndTask, Visit, DecreaseWorkers, ZeroOrIncreaseWorkers
  <2>2. marked' = marked \/ \E w \in Workers, o \in Objects : Visit(w, o)
    BY DEF Next, vars, CancelGC, Joined, Worker, LoopTop, PopLocal, PopWorker, PopGlobal, GlobalEmpty,
           Steal, StartTask, FoundNothing, EndTask, DecreaseWorkers, ZeroOrIncreaseWorkers
  <2>3. ASSUME NEW w \in Workers, NEW o \in Objects, Visit(w, o) PROVE MarkingSound'
    <3>1. pc[w] = "scan" /\ o \in todo[w] /\ marked' \subseteq marked \cup {o}
      BY <2>3 DEF Visit
    <3>2. task[w] \in marked /\ o \in refs[task[w]]
      BY <3>1 DEF IInv, WorkerOK
    <3> QED BY <2>1, <3>1, <3>2 DEF MarkingSound, Closed
  <2> QED BY <2>1, <2>2, <2>3 DEF MarkingSound, Closed
<1> QED BY <1>1, <1>2, <1>3, <1>4, PTL DEF Spec

-----------------------------------------------------------------------------
(***************************************************************************)
(* A push leaves the three queues it may touch disjoint, if they were and  *)
(* the object was in none of them.                                         *)
(***************************************************************************)
LEMMA PushApart ==
  ASSUME TypeOK, NEW w \in Workers, NEW o \in Objects, Push(w, o),
         o \notin local[w] \cup deque[w] \cup injector,
         local[w] \cap deque[w] = {}, (local[w] \cup deque[w]) \cap injector = {}
  PROVE  local'[w] \cap deque'[w] = {} /\ (local'[w] \cup deque'[w]) \cap injector' = {}
<1> USE DEF TypeOK
<1>1. CASE Cardinality(local[w]) < SegmentSize
  <2> DEFINE loc == local[w] \cup {o}
  <2>1. DefensivePush(w, loc) /\ deque' = deque
    BY <1>1 DEF Push
  <2>2. \/ local' = [local EXCEPT ![w] = loc] /\ injector' = injector
        \/ \E keep \in SUBSET loc : /\ local' = [local EXCEPT ![w] = keep]
                                    /\ injector' = injector \cup (loc \ keep)
    BY <2>1 DEF DefensivePush
  <2>3. CASE local' = [local EXCEPT ![w] = loc] /\ injector' = injector
    <3>1. local'[w] = loc
      BY <2>3
    <3> QED BY <2>1, <2>3, <3>1
  <2>4. CASE \E keep \in SUBSET loc : /\ local' = [local EXCEPT ![w] = keep]
                                      /\ injector' = injector \cup (loc \ keep)
    <3>1. PICK keep \in SUBSET loc : /\ local' = [local EXCEPT ![w] = keep]
                                     /\ injector' = injector \cup (loc \ keep)
      BY <2>4
    <3>2. local'[w] = keep
      BY <3>1
    <3> QED BY <2>1, <3>1, <3>2
  <2> QED BY <2>2, <2>3, <2>4
<1>2. CASE ~(Cardinality(local[w]) < SegmentSize)
  <2>1. deque' = [deque EXCEPT ![w] = @ \cup {o}] /\ local' = local /\ injector' = injector
    BY <1>2 DEF Push
  <2>2. deque'[w] = deque[w] \cup {o}
    BY <2>1
  <2> QED BY <2>1, <2>2
<1> QED BY <1>1, <1>2

\* A worker moves a batch of tasks to its own deque and takes one task more.
LEMMA TakeOnePlace ==
  ASSUME IInv, TaskInOnePlace, NEW w \in Workers, pc[w] # "scan",
         \/ PopLocal(w) \/ PopWorker(w) \/ PopGlobal(w)
         \/ \E v \in Workers : Steal(w, v)
  PROVE  TaskInOnePlace'
<1> USE DEF IInv, TypeOK
<1>0. NoTask \notin Objects /\ task[w] = NoTask
  BY GraphAssumption DEF WorkerOK
<1>1. CASE PopLocal(w)
  <2>1. PICK o \in local[w] : /\ local' = [local EXCEPT ![w] = @ \ {o}]
                              /\ task' = [task EXCEPT ![w] = o]
    BY <1>1 DEF PopLocal, StartTask
  <2>2. deque' = deque /\ injector' = injector
    BY <1>1 DEF PopLocal
  <2> QED BY <1>0, <2>1, <2>2 DEF TaskInOnePlace
<1>2. CASE PopWorker(w)
  <2>1. PICK o \in deque[w] : /\ deque' = [deque EXCEPT ![w] = @ \ {o}]
                              /\ task' = [task EXCEPT ![w] = o]
    BY <1>2 DEF PopWorker, StartTask
  <2>2. local' = local /\ injector' = injector
    BY <1>2 DEF PopWorker
  <2> QED BY <1>0, <2>1, <2>2 DEF TaskInOnePlace
<1>3. CASE PopGlobal(w)
  <2>1. PICK o \in injector, batch \in SUBSET injector :
          /\ o \notin batch
          /\ injector' = injector \ (batch \cup {o})
          /\ deque' = [deque EXCEPT ![w] = @ \cup batch]
          /\ task' = [task EXCEPT ![w] = o]
    BY <1>3 DEF PopGlobal, StartTask
  <2>2. local' = local
    BY <1>3 DEF PopGlobal
  <2> QED BY <1>0, <2>1, <2>2 DEF TaskInOnePlace
<1>4. ASSUME NEW v \in Workers, Steal(w, v) PROVE TaskInOnePlace'
  <2>1. PICK o \in deque[v], batch \in SUBSET deque[v] :
          /\ o \notin batch
          /\ deque' = [deque EXCEPT ![v] = @ \ (batch \cup {o}), ![w] = @ \cup batch]
          /\ task' = [task EXCEPT ![w] = o]
    BY <1>4 DEF Steal, StartTask
  <2>2. local' = local /\ injector' = injector /\ v # w
    BY <1>4 DEF Steal
  <2>3. /\ deque'[v] = deque[v] \ (batch \cup {o}) /\ deque'[w] = deque[w] \cup batch
        /\ \A u \in Workers \ {v, w} : deque'[u] = deque[u]
    BY <2>1, <2>2
  <2> QED BY <1>0, <2>1, <2>2, <2>3 DEF TaskInOnePlace
<1> QED BY <1>1, <1>2, <1>3, <1>4

\* A visit that wins the mark bit pushes an object that is nowhere else: all queued
\* tasks and all tasks being traced are marked.
LEMMA VisitOnePlace ==
  ASSUME IInv, TaskInOnePlace, NEW w \in Workers, NEW o \in Objects, Visit(w, o)
  PROVE  TaskInOnePlace'
<1> USE DEF IInv
<1>0. task' = task
  BY DEF Visit
<1>1. CASE o \in marked
  BY <1>0, <1>1 DEF Visit, TaskInOnePlace, queues
<1>2. CASE o \notin marked
  <2>1. Push(w, o)
    BY <1>2 DEF Visit
  <2>2. /\ o \notin injector
        /\ \A v \in Workers : o \notin local[v] \cup deque[v] /\ task[v] # o
    BY <1>2, GraphAssumption DEF QueuedOK, WorkerOK
  <2>3. local'[w] \cap deque'[w] = {} /\ (local'[w] \cup deque'[w]) \cap injector' = {}
    BY <2>1, <2>2, PushApart DEF TaskInOnePlace
  <2>4. /\ \A v \in Workers \ {w} : local'[v] = local[v] /\ deque'[v] = deque[v]
        /\ local'[w] \cup deque'[w] \cup injector'
             = local[w] \cup deque[w] \cup injector \cup {o}
    BY <2>1, PushFacts
  <2> QED BY <1>0, <2>2, <2>3, <2>4 DEF TaskInOnePlace
<1> QED BY <1>1, <1>2

(* Every step keeps each task in one place. *)
LEMMA NextOnePlace == IInv /\ TaskInOnePlace /\ [Next]_vars => TaskInOnePlace'
<1> SUFFICES ASSUME IInv, TaskInOnePlace, [Next]_vars PROVE TaskInOnePlace'
  OBVIOUS
<1>1. ASSUME NEW w \in Workers,
             \/ PopLocal(w) \/ PopWorker(w) \/ PopGlobal(w)
             \/ \E v \in Workers : Steal(w, v)
      PROVE  TaskInOnePlace'
  <2>1. pc[w] # "scan"
    BY <1>1 DEF PopLocal, PopWorker, PopGlobal, Steal
  <2> QED BY <1>1, <2>1, TakeOnePlace
<1>2. ASSUME NEW w \in Workers, NEW o \in Objects, Visit(w, o) PROVE TaskInOnePlace'
  BY <1>2, VisitOnePlace
<1>3. ASSUME NEW w \in Workers, EndTask(w) PROVE TaskInOnePlace'
  <2>1. task' = [task EXCEPT ![w] = NoTask] /\ local' = local /\ deque' = deque /\ injector' = injector
    BY <1>3 DEF EndTask, queues
  <2> QED BY <2>1, GraphAssumption DEF TaskInOnePlace, IInv, TypeOK
<1>4. ASSUME NEW w \in Workers,
             \/ LoopTop(w) \/ GlobalEmpty(w) \/ FoundNothing(w) \/ DecreaseWorkers(w)
             \/ ZeroOrIncreaseWorkers(w)
      PROVE  TaskInOnePlace'
  BY <1>4 DEF LoopTop, GlobalEmpty, FoundNothing, DecreaseWorkers, ZeroOrIncreaseWorkers, queues,
              TaskInOnePlace
<1>5. CASE CancelGC \/ Joined \/ UNCHANGED vars
  BY <1>5 DEF CancelGC, Joined, vars, queues, TaskInOnePlace
<1> QED BY <1>1, <1>2, <1>3, <1>4, <1>5 DEF Next, Worker

(***************************************************************************)
(* No object is in two queues or traced by two workers at a time, however  *)
(* tasks are stolen, batched and shared: the mark bit is won once.         *)
(***************************************************************************)
THEOREM TracedOnce == Spec => []TaskInOnePlace
<1>1. Init => IInv /\ TaskInOnePlace
  <2> SUFFICES ASSUME Init PROVE TaskInOnePlace
    BY InitIInv
  <2> DEFINE Own(home, w) == {r \in Roots : home[r] = w}
  <2>1. PICK home \in [Roots -> Workers \cup {NoTask}], kept \in [Workers -> SUBSET Roots] :
          /\ \A w \in Workers : kept[w] \subseteq Own(home, w)
          /\ injector = Own(home, NoTask)
          /\ local = kept
          /\ deque = [w \in Workers |-> Own(home, w) \ kept[w]]
    BY DEF Init
  <2>2. \A w \in Workers : task[w] = NoTask
    BY DEF Init
  <2> QED BY <2>1, <2>2, GraphAssumption DEF TaskInOnePlace
<1>2. IInv /\ [Next]_vars => IInv' BY NextIInv
<1>3. IInv /\ TaskInOnePlace /\ [Next]_vars => TaskInOnePlace' BY NextOnePlace
<1> QED BY <1>1, <1>2, <1>3, PTL DEF Spec

(***************************************************************************)
(* No worker is let go by the Terminator while another one leaves through  *)
(* the cancellation check, which does not count itself out.                *)
(***************************************************************************)
THEOREM ExitsAgree == Spec => []NoMixedExit
<1>1. Init => IInv BY InitIInv
<1>2. IInv /\ [Next]_vars => IInv' BY NextIInv
<1>3. IInv => NoMixedExit BY DEF IInv, CountOK, Out, NoMixedExit
<1> QED BY <1>1, <1>2, <1>3, PTL DEF Spec

-----------------------------------------------------------------------------
(* Marked objects that are closed, include the roots and nothing beyond what any closed
   set includes, are all that is reachable. *)
LEMMA ReachableWhenClosed ==
  ASSUME TypeOK, MarkingSound, Roots \subseteq marked, Closed(marked)
  PROVE  marked = Loop!Reachable
BY DEF MarkingSound, TypeOK, Closed, Loop!Reachable, Loop!Closed

Known == IInv /\ MarkingComplete /\ MarkingSound /\ NoMixedExit

(* A visit marks one reachable object, or none; no worker has been let go. *)
LEMMA VisitMaps ==
  ASSUME Known, Known', NEW w \in Workers, NEW o \in Objects, Visit(w, o)
  PROVE  [Loop!Next]_(Loop!vars)
<1>1. pc' = pc /\ refs' = refs
  BY DEF Visit
<1>2. CASE o \in marked
  BY <1>1, <1>2 DEF Visit, Outcome, Loop!vars
<1>3. CASE o \notin marked
  <2>1. marked' = marked \cup {o}
    BY <1>3 DEF Visit
  <2>2. o \in Loop!Reachable
    BY <1>1, <2>1 DEF Known, MarkingSound, Closed, Loop!Reachable, Loop!Closed
  <2>3. ~ \E v \in Workers : pc[v] = "done"
    BY <1>3, <2>2, ReachableWhenClosed DEF Known, IInv, MarkingComplete
  <2>4. Loop!Mark(o)
    BY <1>1, <1>3, <2>1, <2>2, <2>3 DEF Outcome, Loop!Mark
  <2> QED BY <2>4 DEF Loop!Next
<1> QED BY <1>2, <1>3

(* A worker that leaves the loop, or moves in it, changes the outcome at most. *)
LEMMA ControlMaps ==
  ASSUME Known, Known', NEW w \in Workers, NEW to \in PCs, pc' = [pc EXCEPT ![w] = to],
         pc[w] \notin {"done", "cancelled"}, refs' = refs, marked' = marked
  PROVE  [Loop!Next]_(Loop!vars)
<1> USE DEF Known, IInv, TypeOK
<1>1. \A v \in Workers : pc'[v] = IF v = w THEN to ELSE pc[v]
  OBVIOUS
<1>2. CASE to = "done" /\ ~ \E v \in Workers : pc[v] = "done"
  <2>1. ~ \E v \in Workers : pc[v] = "cancelled"
    BY <1>1, <1>2 DEF NoMixedExit
  <2>2. Roots \subseteq marked /\ Closed(marked)
    BY <1>1, <1>2 DEF MarkingComplete, Closed
  <2>3. marked = Loop!Reachable
    BY <2>2, ReachableWhenClosed
  <2>4. Loop!Complete
    BY <1>1, <1>2, <2>1, <2>3 DEF Outcome, Loop!Complete
  <2> QED BY <2>4 DEF Loop!Next
<1>3. CASE to = "cancelled" /\ ~ \E v \in Workers : pc[v] = "cancelled"
  <2>1. ~ \E v \in Workers : pc[v] = "done"
    BY <1>1, <1>3 DEF NoMixedExit
  <2>2. Loop!Abandon
    BY <1>1, <1>3, <2>1 DEF Outcome, Loop!Abandon
  <2> QED BY <2>2 DEF Loop!Next
<1>4. CASE /\ to = "done" => \E v \in Workers : pc[v] = "done"
           /\ to = "cancelled" => \E v \in Workers : pc[v] = "cancelled"
  BY <1>1, <1>4 DEF NoMixedExit, Outcome, Loop!vars
<1> QED BY <1>2, <1>3, <1>4

(* Every step of the loop is a step of Marking or none. *)
LEMMA NextMaps == Known /\ Known' /\ [Next]_vars => [Loop!Next]_(Loop!vars)
<1> SUFFICES ASSUME Known, Known', [Next]_vars PROVE [Loop!Next]_(Loop!vars)
  OBVIOUS
<1>1. ASSUME NEW w \in Workers, NEW o \in Objects, Visit(w, o) PROVE [Loop!Next]_(Loop!vars)
  BY <1>1, VisitMaps
<1>2. ASSUME NEW w \in Workers,
             \/ LoopTop(w) \/ PopLocal(w) \/ PopWorker(w) \/ PopGlobal(w) \/ GlobalEmpty(w)
             \/ \E v \in Workers : Steal(w, v)
             \/ FoundNothing(w) \/ EndTask(w) \/ DecreaseWorkers(w) \/ ZeroOrIncreaseWorkers(w)
      PROVE  [Loop!Next]_(Loop!vars)
  <2>1. /\ \E to \in PCs : pc' = [pc EXCEPT ![w] = to]
        /\ pc[w] \notin {"done", "cancelled"} /\ refs' = refs /\ marked' = marked
    BY <1>2 DEF LoopTop, PopLocal, PopWorker, PopGlobal, GlobalEmpty, Steal, StartTask, FoundNothing,
                EndTask, DecreaseWorkers, ZeroOrIncreaseWorkers, Goto, PCs
  <2> QED BY <2>1, ControlMaps
<1>3. CASE CancelGC \/ Joined \/ UNCHANGED vars
  BY <1>3 DEF CancelGC, Joined, vars, Outcome, Loop!vars
<1> QED BY <1>1, <1>2, <1>3 DEF Next, Worker

(***************************************************************************)
(* For any number of workers, any heap graph and any queue sizes the loop  *)
(* implements Marking: each visit that wins a mark bit marks a reachable   *)
(* object, the Terminator's first done declares marking complete when and  *)
(* only when all reachable objects are marked, and a cancellation never    *)
(* overtakes it.                                                           *)
(***************************************************************************)
THEOREM LoopIsMarking == Spec => MarkingSpec
<1>1. Init => Loop!Init
  BY DEF Init, Outcome, Loop!Init
<1>2. Spec => []Known
  <2>1. Init => IInv BY InitIInv
  <2>2. IInv /\ [Next]_vars => IInv' BY NextIInv
  <2>3. IInv => NoMixedExit BY DEF IInv, CountOK, Out, NoMixedExit
  <2>4. IInv /\ MarkingComplete /\ MarkingSound /\ NoMixedExit => Known BY DEF Known
  <2> QED BY <2>1, <2>2, <2>3, <2>4, NoEarlyTermination, NothingElseMarked, PTL DEF Spec
<1>3. Known /\ Known' /\ [Next]_vars => [Loop!Next]_(Loop!vars)
  BY NextMaps
<1> QED BY <1>1, <1>2, <1>3, PTL DEF Spec, MarkingSpec, Loop!Spec

=============================================================================
