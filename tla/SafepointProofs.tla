--------------------------- MODULE SafepointProofs ---------------------------
(***************************************************************************)
(* Theorems about Safepoint for any set of threads, proved with TLAPS.     *)
(***************************************************************************)
EXTENDS Safepoint, TLAPS

(***************************************************************************)
(* A registered thread's program points; those at which it may have        *)
(* published a non-zero gc_state; and those from which managed code is     *)
(* reached only through a poll.                                            *)
(***************************************************************************)
Listed == PCs \ {"none", "spawned", "removed", "sink", "done",
                 "join", "join_wait", "joined"}
Published == {"scope_sp", "safe", "remove_sp", "remove", "removed", "main_sp",
              "main_retire", "main_remove", "join", "join_wait", "joined",
              "check", "lock", "parked", "restore"}
Gated == Published \cup {"poll", "trap"}

(***************************************************************************)
(* StopTheWorld is not inductive: the invariant says what holds while the  *)
(* collector is still looking.  A thread already seen stopped may since    *)
(* have stored 0, but only on its way to a poll, and the page is armed.    *)
(***************************************************************************)
ListOK ==
  \A t \in Threads :
    /\ t \in threads => pc[t] \in Listed
    /\ t \notin threads => pc[t] \notin {"init", "run", "urun", "safe", "scope_sp"}
    /\ pc[t] \in {"poll", "trap", "check", "lock", "parked", "restore"} =>
         (t \notin threads <=> ret[t] = "sink")
    /\ t # Main => pc[t] \notin {"main_sp", "main_retire", "main_remove",
                                "join", "join_wait", "joined"}
    /\ pc[t] \in {"remove_sp", "remove", "main_sp", "main_retire", "main_remove"}
         => t \in threads

StateOK ==
  \A t \in Threads : gc_state[t] # GC_STATE_RUNNING => pc[t] \in Published

Looking == gcpc \in {"scan", "stw"}

CheckedOK ==
  /\ Looking => page
  /\ Looking => \A t \in threads \ unchecked : pc[t] \in Gated
  /\ gcpc = "stw" => unchecked = {}

\* Where last_sp reaches down to the top frame: past set_last_sp in a scope,
\* and in an unsafe scope nested in it.
Covered(t) == last_sp[t] >= depth[t]
SpOK ==
  /\ \A t \in Threads :
       \/ pc[t] \in Published \ SetSpPending
       \/ pc[t] = "urun"
       \/ pc[t] \in {"poll", "trap"} /\ ret[t] = "urun"
       => Covered(t)
  /\ Looking => \A t \in threads \ unchecked : pc[t] \in SetSpPending \/ Covered(t)

IInv == TypeOK /\ ListOK /\ StateOK /\ CheckedOK /\ SpOK

-----------------------------------------------------------------------------
(***************************************************************************)
(* Type correctness, in either build.                                      *)
(***************************************************************************)
LEMMA InitType == Init => TypeOK
<1> SUFFICES ASSUME Init PROVE TypeOK
  OBVIOUS
<1>1. pc \in [Threads -> PCs] BY DEF Init, PCs
<1>2. ret \in [Threads -> {"init", "run", "urun", "sink"}] BY DEF Init
<1>3. gc_state \in [Threads -> {GC_STATE_RUNNING, GC_STATE_WAITING, GC_STATE_SAFE}]
  BY DEF Init
<1>4. depth \in [Threads -> 1..MaxDepth] /\ last_sp \in [Threads -> 0..MaxDepth]
  BY MaxDepthAssumption DEF Init
<1>5. ssb \in [Threads -> BOOLEAN] BY DEF Init
<1> QED BY <1>1, <1>2, <1>3, <1>4, <1>5 DEF Init, TypeOK

(* Every step keeps the types. *)
LEMMA NextType == TypeOK /\ [Next]_vars => TypeOK'
<1> SUFFICES ASSUME TypeOK, [Next]_vars PROVE TypeOK'
  OBVIOUS
<1> USE ThreadsAssumption, MaxDepthAssumption, ConditionalAssumption
    DEF TypeOK, PCs, mutators, collector, Goto, StoreState, StoreSp, Managed,
        GC_STATE_RUNNING, GC_STATE_WAITING, GC_STATE_SAFE
<1>1. ASSUME NEW p \in Threads, NEW t \in Threads, Spawn(p, t) PROVE TypeOK'
  BY <1>1 DEF Spawn
<1>2. ASSUME NEW t \in Threads, Mutator(t) PROVE TypeOK'
  <2>1. CASE Register(t) BY <2>1 DEF Register
  <2>2. CASE FinishRegister(t) BY <2>2 DEF FinishRegister
  <2>3. CASE CallOrReturn(t) BY <2>3 DEF CallOrReturn
  <2>4. CASE SafepointCall(t) BY <2>4 DEF SafepointCall
  <2>5. CASE EnterScope(t) BY <2>5 DEF EnterScope
  <2>6. CASE ScopeSetSp(t) BY <2>6 DEF ScopeSetSp
  <2>7. CASE EnterScoped(t) BY <2>7 DEF EnterScoped
  <2>8. CASE LeaveScope(t) BY <2>8 DEF LeaveScope
  <2>9. CASE EnterUnsafe(t) BY <2>9 DEF EnterUnsafe
  <2>10. CASE LeaveUnsafe(t) BY <2>10 DEF LeaveUnsafe
  <2>11. CASE ExitThread(t) BY <2>11 DEF ExitThread
  <2>12. CASE RemoveSetSp(t) BY <2>12 DEF RemoveSetSp
  <2>13. CASE RemoveThread(t) BY <2>13 DEF RemoveThread
  <2>14. CASE LeaveRemove(t) BY <2>14 DEF LeaveRemove
  <2>15. CASE Sink(t) BY <2>15 DEF Sink
  <2>16. CASE Poll(t) BY <2>16 DEF Poll
  <2>17. CASE EnterSafepoint(t) BY <2>17 DEF EnterSafepoint
  <2>18. CASE WaitCheck(t) BY <2>18 DEF WaitCheck
  <2>19. CASE WaitLocked(t) BY <2>19 DEF WaitLocked
  <2>20. CASE RestoreState(t) BY <2>20 DEF RestoreState
  <2> QED
    BY <1>2, <2>1, <2>2, <2>3, <2>4, <2>5, <2>6, <2>7, <2>8, <2>9, <2>10, <2>11,
       <2>12, <2>13, <2>14, <2>15, <2>16, <2>17, <2>18, <2>19, <2>20 DEF Mutator
<1>3. ASSUME MainEpilogue PROVE TypeOK'
  BY <1>3 DEF MainEpilogue, MainExit, MainSetSp, MainRetire, MainRemove,
              JoinAll, MainReturn
<1>4. ASSUME Begin \/ Collector PROVE TypeOK'
  <2>1. CASE Begin BY <2>1 DEF Begin, BeginLockThreads
  <2>2. CASE EnterRunning \/ EnterArm BY <2>2 DEF EnterRunning, EnterArm
  <2>3. ASSUME NEW t \in Threads, SeeStopped(t) PROVE TypeOK'
    BY <2>3 DEF SeeStopped
  <2>4. CASE Synchronized \/ EndUnlockThreads BY <2>4 DEF Synchronized, EndUnlockThreads
  <2>5. CASE EndDisarm \/ EndRunning BY <2>5 DEF EndDisarm, EndRunning
  <2>6. CASE EndNotify BY <2>6 DEF EndNotify
  <2> QED BY <1>4, <2>1, <2>2, <2>3, <2>4, <2>5, <2>6 DEF Collector
<1>5. CASE UNCHANGED vars BY <1>5 DEF vars
<1> QED
  BY <1>1, <1>2, <1>3, <1>4, <1>5 DEF Next

(* Every variable of the safepoint protocol keeps its type (the thread states, lists and the polling word). *)
THEOREM TypeCorrect == Spec => []TypeOK
<1>1. Init => TypeOK BY InitType
<1>2. TypeOK /\ [Next]_vars => TypeOK' BY NextType
<1> QED BY <1>1, <1>2, PTL DEF Spec

-----------------------------------------------------------------------------
(***************************************************************************)
(* The inductive invariant, in the default build.                          *)
(***************************************************************************)
LEMMA InitIInv == Init => IInv
  BY InitType, ThreadsAssumption
  DEF Init, IInv, ListOK, StateOK, CheckedOK, SpOK, Looking, Published, PCs,
      GC_STATE_RUNNING

Others == ListOK' /\ StateOK' /\ CheckedOK' /\ SpOK'

(* Every step of the page-protecting build keeps the inductive invariant. *)
LEMMA NextIInv == ASSUME ~Conditional PROVE IInv /\ [Next]_vars => IInv'
<1> SUFFICES ASSUME IInv, [Next]_vars PROVE Others
  BY NextType DEF IInv, Others
<1> USE ThreadsAssumption, ~Conditional
    DEF IInv, TypeOK, Others, ListOK, StateOK, CheckedOK, SpOK, Covered, SetSpPending,
        Looking, Listed, Published, Gated,
        PCs, mutators, collector, Goto, StoreState, StoreSp, Managed, ThreadsLocked,
        GC_STATE_RUNNING, GC_STATE_WAITING, GC_STATE_SAFE
<1>1. ASSUME NEW p \in Threads, NEW t \in Threads, Spawn(p, t) PROVE Others
  BY <1>1 DEF Spawn
<1>2. ASSUME NEW t \in Threads, Mutator(t) PROVE Others
  <2>1. CASE Register(t) BY <2>1 DEF Register
  <2>2. CASE FinishRegister(t) BY <2>2 DEF FinishRegister
  <2>3. CASE CallOrReturn(t) BY <2>3 DEF CallOrReturn
  <2>4. CASE SafepointCall(t) BY <2>4 DEF SafepointCall
  <2>5. CASE EnterScope(t) BY <2>5 DEF EnterScope
  <2>6. CASE ScopeSetSp(t) BY <2>6 DEF ScopeSetSp
  <2>7. CASE EnterScoped(t) BY <2>7 DEF EnterScoped
  <2>8. CASE LeaveScope(t) BY <2>8 DEF LeaveScope
  <2>9. CASE EnterUnsafe(t) BY <2>9 DEF EnterUnsafe
  <2>10. CASE LeaveUnsafe(t) BY <2>10 DEF LeaveUnsafe
  <2>11. CASE ExitThread(t) BY <2>11 DEF ExitThread
  <2>12. CASE RemoveSetSp(t) BY <2>12 DEF RemoveSetSp
  <2>13. CASE RemoveThread(t) BY <2>13 DEF RemoveThread
  <2>14. CASE LeaveRemove(t) BY <2>14 DEF LeaveRemove
  <2>15. CASE Sink(t) BY <2>15 DEF Sink
  <2>16. CASE Poll(t) BY <2>16 DEF Poll
  <2>17. CASE EnterSafepoint(t) BY <2>17 DEF EnterSafepoint
  <2>18. CASE WaitCheck(t) BY <2>18 DEF WaitCheck
  <2>19. CASE WaitLocked(t) BY <2>19 DEF WaitLocked
  <2>20. CASE RestoreState(t) BY <2>20 DEF RestoreState
  <2> QED
    BY <1>2, <2>1, <2>2, <2>3, <2>4, <2>5, <2>6, <2>7, <2>8, <2>9, <2>10,
       <2>11, <2>12, <2>13, <2>14, <2>15, <2>16, <2>17, <2>18, <2>19, <2>20 DEF Mutator
<1>3. ASSUME MainEpilogue PROVE Others
  <2>1. CASE MainExit BY <2>1 DEF MainExit
  <2>2. CASE MainSetSp BY <2>2 DEF MainSetSp
  <2>3. CASE MainRetire BY <2>3 DEF MainRetire
  <2>4. CASE MainRemove BY <2>4 DEF MainRemove
  <2>5. CASE JoinAll BY <2>5 DEF JoinAll
  <2>6. CASE MainReturn BY <2>6 DEF MainReturn
  <2> QED BY <1>3, <2>1, <2>2, <2>3, <2>4, <2>5, <2>6 DEF MainEpilogue
<1>4. ASSUME Begin \/ Collector PROVE Others
  <2>1. CASE Begin BY <2>1 DEF Begin, BeginLockThreads
  <2>2. CASE EnterRunning BY <2>2 DEF EnterRunning
  <2>3. CASE EnterArm BY <2>3 DEF EnterArm
  <2>4. ASSUME NEW t \in Threads, SeeStopped(t) PROVE Others
    BY <2>4 DEF SeeStopped
  <2>5. CASE Synchronized BY <2>5 DEF Synchronized
  <2>6. CASE EndUnlockThreads BY <2>6 DEF EndUnlockThreads
  <2>7. CASE EndDisarm BY <2>7 DEF EndDisarm
  <2>8. CASE EndRunning BY <2>8 DEF EndRunning
  <2>9. CASE EndNotify BY <2>9 DEF EndNotify
  <2> QED
    BY <1>4, <2>1, <2>2, <2>3, <2>4, <2>5, <2>6, <2>7, <2>8, <2>9 DEF Collector
<1>5. CASE UNCHANGED vars BY <1>5 DEF vars
<1> QED
  BY <1>1, <1>2, <1>3, <1>4, <1>5 DEF Next

(* The inductive invariant implies the three safety properties. *)
LEMMA IInvImplies == IInv => StopTheWorld /\ ListedAlive /\ StackCoveredPastSetSp
  BY DEF IInv, TypeOK, ListOK, StateOK, CheckedOK, SpOK, Covered, Looking, Listed,
         Published, Gated, PCs, StopTheWorld, ListedAlive, StackCoveredPastSetSp, Managed

(***************************************************************************)
(* In the default (page-protecting) build, for any number of threads: a    *)
(* stopped world really is stopped, however the steps of mutators entering *)
(* and leaving scopes, registering and exiting interleave with begin().    *)
(***************************************************************************)
THEOREM WorldStops == ~Conditional => (Spec => []StopTheWorld)
<1> SUFFICES ASSUME ~Conditional PROVE Spec => []StopTheWorld
  OBVIOUS
<1>1. Init => IInv BY InitIInv
<1>2. IInv /\ [Next]_vars => IInv' BY NextIInv
<1>3. IInv => StopTheWorld BY IInvImplies
<1> QED BY <1>1, <1>2, <1>3, PTL DEF Spec

(***************************************************************************)
(* In the default build the list of registered threads never holds a       *)
(* thread that has not reached register() or has left                      *)
(* remove_current_thread().                                                *)
(***************************************************************************)
THEOREM ListStaysAlive == ~Conditional => (Spec => []ListedAlive)
<1> SUFFICES ASSUME ~Conditional PROVE Spec => []ListedAlive
  OBVIOUS
<1>1. Init => IInv BY InitIInv
<1>2. IInv /\ [Next]_vars => IInv' BY NextIInv
<1>3. IInv => ListedAlive BY IInvImplies
<1> QED BY <1>1, <1>2, <1>3, PTL DEF Spec

(***************************************************************************)
(* In the default build a stack scan misses frames only in the windows     *)
(* between the store of GC_STATE_SAFE and the store of last_sp.            *)
(***************************************************************************)
THEOREM ScanMissesOnlyPending == ~Conditional => (Spec => []StackCoveredPastSetSp)
<1> SUFFICES ASSUME ~Conditional PROVE Spec => []StackCoveredPastSetSp
  OBVIOUS
<1>1. Init => IInv BY InitIInv
<1>2. IInv /\ [Next]_vars => IInv' BY NextIInv
<1>3. IInv => StackCoveredPastSetSp BY IInvImplies
<1> QED BY <1>1, <1>2, <1>3, PTL DEF Spec

-----------------------------------------------------------------------------
(***************************************************************************)
(* A safepoint implements a pause.                                         *)
(***************************************************************************)
Running == {t \in Threads : pc[t] \in Managed \cup {"init"}}

\* A step of t: nobody else starts or stops to run, and in a pause the list of threads
\* stays and only a running thread moves its stack pointer.
OwnStep(t) ==
  /\ \A u \in Threads \ {t} : u \in Running' <=> u \in Running
  /\ gcpc' = gcpc
  /\ gcpc = "stw" => threads' = threads /\ (depth' = depth \/ t \in Running)

(* Threads outside of the collector make such steps. *)
LEMMA ThreadSteps ==
  ASSUME TypeOK, NEW t \in Threads, Mutator(t) \/ (t = Main /\ MainEpilogue)
  PROVE  OwnStep(t)
<1> USE ThreadsAssumption
    DEF TypeOK, OwnStep, Running, mutators, collector, Goto, Managed, ThreadsLocked
<1>1. ASSUME Mutator(t) PROVE OwnStep(t)
  <2>1. CASE Register(t) BY <2>1 DEF Register
  <2>2. CASE FinishRegister(t) BY <2>2 DEF FinishRegister
  <2>3. CASE CallOrReturn(t) BY <2>3 DEF CallOrReturn
  <2>4. CASE SafepointCall(t) BY <2>4 DEF SafepointCall
  <2>5. CASE EnterScope(t) BY <2>5 DEF EnterScope
  <2>6. CASE ScopeSetSp(t) BY <2>6 DEF ScopeSetSp
  <2>7. CASE EnterScoped(t) BY <2>7 DEF EnterScoped
  <2>8. CASE LeaveScope(t) BY <2>8 DEF LeaveScope
  <2>9. CASE EnterUnsafe(t) BY <2>9 DEF EnterUnsafe
  <2>10. CASE LeaveUnsafe(t) BY <2>10 DEF LeaveUnsafe
  <2>11. CASE ExitThread(t) BY <2>11 DEF ExitThread
  <2>12. CASE RemoveSetSp(t) BY <2>12 DEF RemoveSetSp
  <2>13. CASE RemoveThread(t) BY <2>13 DEF RemoveThread
  <2>14. CASE LeaveRemove(t) BY <2>14 DEF LeaveRemove
  <2>15. CASE Sink(t) BY <2>15 DEF Sink
  <2>16. CASE Poll(t) BY <2>16 DEF Poll
  <2>17. CASE EnterSafepoint(t) BY <2>17 DEF EnterSafepoint
  <2>18. CASE WaitCheck(t) BY <2>18 DEF WaitCheck
  <2>19. CASE WaitLocked(t) BY <2>19 DEF WaitLocked
  <2>20. CASE RestoreState(t) BY <2>20 DEF RestoreState
  <2> QED
    BY <1>1, <2>1, <2>2, <2>3, <2>4, <2>5, <2>6, <2>7, <2>8, <2>9, <2>10,
       <2>11, <2>12, <2>13, <2>14, <2>15, <2>16, <2>17, <2>18, <2>19, <2>20 DEF Mutator
<1>2. ASSUME t = Main, MainEpilogue PROVE OwnStep(t)
  BY <1>2 DEF MainEpilogue, MainExit, MainSetSp, MainRetire, MainRemove, JoinAll, MainReturn
<1> QED BY <1>1, <1>2

(* A step of a thread starts or stops it, or is work, and stutters in a pause. *)
LEMMA OwnStepPauses ==
  ASSUME StopTheWorld, StopTheWorld', NEW t \in Threads, OwnStep(t)
  PROVE  [World!Next]_(World!vars)
<1>1. CASE gcpc = "stw"
  <2>1. Running = {} /\ Running' = {}
    BY <1>1 DEF StopTheWorld, OwnStep, Running
  <2> QED BY <1>1, <2>1 DEF OwnStep, Running, World!vars
<1>2. CASE gcpc # "stw" /\ t \in Running'
  <2>1. Running' = Running \cup {t}
    BY <1>2 DEF OwnStep, Running
  <2> QED BY <1>2, <2>1 DEF OwnStep, Running, World!Next, World!Start
<1>3. CASE gcpc # "stw" /\ t \notin Running'
  <2>1. Running' = Running \ {t}
    BY <1>3 DEF OwnStep, Running
  <2> QED BY <1>3, <2>1 DEF OwnStep, Running, World!Next, World!Stop
<1> QED BY <1>1, <1>2, <1>3

(* Of the collector's steps, the end of the scan opens a pause and end() closes it. *)
LEMMA CollectorPauses ==
  ASSUME StopTheWorld, StopTheWorld', Begin \/ Collector
  PROVE  [World!Next]_(World!vars)
<1> USE DEF mutators, Running
<1>1. CASE Synchronized
  <2>1. Running = {} /\ Running' = Running
    BY <1>1 DEF Synchronized, StopTheWorld
  <2> QED BY <1>1, <2>1 DEF Synchronized, World!Next, World!Open
<1>2. CASE EndUnlockThreads
  BY <1>2 DEF EndUnlockThreads, World!Next, World!Close
<1>3. CASE EndNotify
  <2>1. Running' = Running
    BY <1>3 DEF EndNotify, Managed
  <2> QED BY <1>3, <2>1 DEF EndNotify, World!vars
<1>4. ASSUME NEW t \in Threads, SeeStopped(t) PROVE [World!Next]_(World!vars)
  BY <1>4 DEF SeeStopped, World!vars
<1>5. CASE Begin \/ EnterRunning \/ EnterArm \/ EndDisarm \/ EndRunning
  BY <1>5 DEF Begin, BeginLockThreads, EnterRunning, EnterArm, EndDisarm, EndRunning, World!vars
<1> QED BY <1>1, <1>2, <1>3, <1>4, <1>5 DEF Collector

(* Every step is a step of the pause, or none. *)
LEMMA NextPauses ==
  ASSUME TypeOK, StopTheWorld, StopTheWorld', [Next]_vars
  PROVE  [World!Next]_(World!vars)
<1>1. ASSUME NEW p \in Threads, NEW t \in Threads, Spawn(p, t) PROVE OwnStep(t)
  BY <1>1 DEF Spawn, TypeOK, OwnStep, Running, collector, Goto
<1>2. CASE UNCHANGED vars
  BY <1>2 DEF vars, mutators, collector, World!vars
<1>3. CASE \E t \in Threads : Mutator(t)
  <2>1. PICK t \in Threads : Mutator(t)
    BY <1>3
  <2>2. OwnStep(t)
    BY <2>1, ThreadSteps
  <2> QED BY <2>2, OwnStepPauses
<1>4. CASE MainEpilogue
  <2>1. OwnStep(Main)
    BY <1>4, ThreadsAssumption, ThreadSteps
  <2> QED BY <2>1, ThreadsAssumption, OwnStepPauses
<1>5. CASE \E p, t \in Threads : Spawn(p, t)
  BY <1>1, <1>5, OwnStepPauses
<1>6. CASE Begin \/ Collector
  BY <1>6, CollectorPauses
<1>7. Next \/ UNCHANGED vars
  OBVIOUS
<1> QED
  BY <1>2, <1>3, <1>4, <1>5, <1>6, <1>7, Zenon DEF Next

(***************************************************************************)
(* In the default build a safepoint is a pause: after begin() nobody runs  *)
(* or starts to run, registers, leaves the list or moves its stack, until  *)
(* end().                                                                  *)
(***************************************************************************)
THEOREM SafepointIsAPause == ~Conditional => (Spec => PauseSpec)
<1> SUFFICES ASSUME ~Conditional PROVE Spec => PauseSpec
  OBVIOUS
<1>1. Init => World!Init
  BY DEF Init, World!Init, Managed
<1>2. Init => IInv BY InitIInv
<1>3. IInv /\ [Next]_vars => IInv' BY NextIInv
<1>4. IInv => TypeOK /\ StopTheWorld BY IInvImplies DEF IInv
<1>5. TypeOK /\ StopTheWorld /\ StopTheWorld' /\ [Next]_vars => [World!Next]_(World!vars)
  BY NextPauses
<1> QED BY <1>1, <1>2, <1>3, <1>4, <1>5, PTL DEF Spec, PauseSpec, World!Spec
=============================================================================
