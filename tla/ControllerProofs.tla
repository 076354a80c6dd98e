-------------------------- MODULE ControllerProofs --------------------------
(***************************************************************************)
(* Theorems about Controller for any number of mutators, marking tasks and *)
(* calls, proved with TLAPS.                                               *)
(***************************************************************************)
EXTENDS Controller, TLAPS

(***************************************************************************)
(* Marking tasks run only in the mark phase, and the one that has the flag *)
(* at NOT_CANCELLED is alone with it, so what it restores is its own.      *)
(***************************************************************************)
MarkOK ==
  /\ cpc # "mark" => \A w \in Markers : marker[w] = "off"
  /\ \A w \in Markers : marker[w] = "hold" =>
       /\ cancelled_gc = GC_NOT_CANCELLED
       /\ \A v \in Markers : marker[v] = "hold" => v = w

(***************************************************************************)
(* A cycle that handles a failure is a full one, and the flag stays set    *)
(* until the cycle's end.                                                  *)
(***************************************************************************)
Handling == {"decide", "start", "full", "full_sweep", "notify_gc", "lock_gc",
             "notify_af"}
CycleOK ==
  alloc_failure_pending =>
    /\ cpc \in Handling => alloc_failure_gc
    /\ cpc \notin {"conc", "init_mark", "mark", "final_mark", "sweep"}
    /\ cpc = "start" => mode = "STWFull"

WorldOK ==
  /\ world # "running" =>
       cpc \in {"full", "full_sweep", "init_mark", "final_mark"}
  /\ cpc = "full_sweep" => world = "stopped"
  /\ world = "stopped" => \A m \in Mutators : pc[m] \in Safe

(***************************************************************************)
(* RetriedAfterFullGC needs to know which calls a full collection under    *)
(* way was in time for.  A call in its second round found the flag unset   *)
(* when the first ended, so a cycle that is past its pause for a failure   *)
(* cannot be older than the call.                                          *)
(***************************************************************************)
Blocked(m) ==
  /\ mon[m] = AllocFailureWaiters
  /\ pc[m] \in {"cancel", "spin", "lock", "slow", "got", "wait", "check"}
SecondRound(m) ==
  \/ pc[m] = "retry"
  \/ tries[m] >= 2 /\ (pc[m] = "try_set" \/ Blocked(m))
Collected == cpc \in {"notify_gc", "lock_gc", "notify_af"}
Late ==
  /\ alloc_failure_pending
  /\ \/ cpc = "full" /\ world = "stopped"
     \/ cpc = "full_sweep"
     \/ Collected
SeenOK ==
  \A m \in Mutators :
    /\ pc[m] \in {"try_set", "cancel", "spin", "retry"} =>
         mon[m] = AllocFailureWaiters
    /\ pc[m] = "ask" => mon[m] = GcWaiters
    /\ SecondRound(m) /\ Late => seen[m] # "none"
    /\ SecondRound(m) /\ Late /\ Collected => seen[m] = "done"
    /\ tries[m] >= 2 /\ Blocked(m) /\ seen[m] # "done" => alloc_failure_gc
    /\ tries[m] >= 2 /\ pc[m] = "retry" => seen[m] = "done"
    /\ pc[m] = "oom" => seen[m] = "done"

\* What one mutator sees of a step of another: at most a wakeup.
Moved(n) ==
  pc'[n] # pc[n] => pc[n] = "wait" /\ pc'[n] = "slow"

\* The body of CancelKept.
Kept ==
  cancelled_gc = GC_CANCELLED /\ cancelled_gc' # GC_CANCELLED
    => cpc = "full" /\ world = "stopped"

IInv == TypeOK /\ MarkOK /\ CycleOK /\ WorldOK /\ SeenOK

-----------------------------------------------------------------------------
PCType == [Mutators -> {"run", "try_set", "cancel", "lock", "check", "ask",
                        "retry", "oom"} \cup Safe]

(***************************************************************************)
(* Type correctness, spurious compare-and-swap failures included.          *)
(***************************************************************************)
LEMMA InitType == Init => TypeOK
<1> SUFFICES ASSUME Init PROVE TypeOK
  OBVIOUS
<1>1. pc \in PCType BY DEF Init, PCType
<1>2. /\ mon \in [Mutators -> Monitors]
      /\ tries \in [Mutators -> 0..MaxTries]
      /\ required_gc_id \in [Mutators -> Nat]
      /\ calls \in [Mutators -> 0..MaxCalls]
      /\ seen \in [Mutators -> {"none", "begun", "done"}]
  BY ControllerAssumption DEF Init, Monitors, MaxTries
<1>3. owner \in [Monitors -> Mutators \cup {NoOne}] BY DEF Init
<1>4. marker \in [Markers -> {"off", "check", "hold", "stride"}] BY DEF Init
<1>5. started \in 0..MaxConcurrent BY ControllerAssumption DEF Init
<1> QED BY <1>1, <1>2, <1>3, <1>4, <1>5 DEF Init, TypeOK, PCType, GC_CANCELLABLE

(* Every step keeps the types. *)
LEMMA NextType == TypeOK /\ [Next]_vars => TypeOK'
<1> SUFFICES ASSUME TypeOK, [Next]_vars PROVE TypeOK'
  OBVIOUS
<1> USE ControllerAssumption, NoOneAssumption
    DEF TypeOK, PCType, mutators, flags, cycle, shutdown, Goto, Monitors, MaxTries,
        Safe, AllocFailureWaiters, GcWaiters, GC_CANCELLABLE, GC_CANCELLED, GC_NOT_CANCELLED
<1>1. ASSUME NEW m \in Mutators, Mutator(m) PROVE TypeOK'
  <2>1. CASE AllocFails(m) BY <2>1 DEF AllocFails
  <2>2. CASE TrySet(m)
    <3>1. pc' \in PCType BY <2>2 DEF TrySet
    <3>2. alloc_failure_gc' \in BOOLEAN BY <2>2, Zenon DEF TrySet
    <3> QED BY <2>2, <3>1, <3>2 DEF TrySet
  <2>3. CASE TryCancel(m) BY <2>3 DEF TryCancel, CancelCAS
  <2>4. CASE SpinAgain(m) BY <2>4 DEF SpinAgain
  <2>5. CASE RequestGC(m) BY <2>5 DEF RequestGC
  <2>6. CASE Lock(m) BY <2>6 DEF Lock
  <2>7. CASE LockSlow(m) BY <2>7 DEF LockSlow
  <2>8. CASE LeaveScope(m) BY <2>8 DEF LeaveScope
  <2>9. CASE AwaitAllocFailureGC(m)
    <3>1. CASE alloc_failure_gc BY <2>9, <3>1 DEF AwaitAllocFailureGC, Wait
    <3>2. CASE ~alloc_failure_gc
      <4>1. Woken(mon[m]) \in PCType BY DEF Woken
      <4>2. pc' \in PCType
        BY <2>9, <3>2, <4>1 DEF AwaitAllocFailureGC, DropGuard
      <4> QED BY <2>9, <3>2, <4>2 DEF AwaitAllocFailureGC, DropGuard
    <3> QED BY <3>1, <3>2
  <2>10. CASE Retry(m) BY <2>10 DEF Retry
  <2>11. CASE ReadGcId(m) BY <2>11 DEF ReadGcId
  <2>12. CASE Ask(m) BY <2>12 DEF Ask, Wait
  <2>13. CASE AwaitRequestedGC(m)
    <3>1. CASE gc_id < required_gc_id[m] BY <2>13, <3>1 DEF AwaitRequestedGC
    <3>2. CASE ~(gc_id < required_gc_id[m])
      <4>1. Woken(mon[m]) \in PCType BY DEF Woken
      <4>2. pc' \in PCType
        BY <2>13, <3>2, <4>1 DEF AwaitRequestedGC, DropGuard
      <4> QED BY <2>13, <3>2, <4>2 DEF AwaitRequestedGC, DropGuard
    <3> QED BY <3>1, <3>2
  <2>14. CASE Poll(m) BY <2>14 DEF Poll
  <2>15. CASE Resume(m) BY <2>15 DEF Resume
  <2>16. CASE PanicOOM(m) BY <2>16 DEF PanicOOM
  <2>17. CASE Exit(m) BY <2>17 DEF Exit
  <2> QED BY <1>1, <2>1, <2>2, <2>3, <2>4, <2>5, <2>6, <2>7, <2>8, <2>9,
        <2>10, <2>11, <2>12, <2>13, <2>14, <2>15, <2>16, <2>17 DEF Mutator, Proceed
<1>2. ASSUME NEW w \in Markers, Marker(w) PROVE TypeOK'
  <2>1. CASE MarkerCheck(w) BY <2>1 DEF MarkerCheck, CancelCAS
  <2>2. CASE MarkerRestore(w) BY <2>2 DEF MarkerRestore
  <2>3. CASE MarkerStride(w) BY <2>3 DEF MarkerStride
  <2>4. CASE MarkerFinish(w) BY <2>4 DEF MarkerFinish
  <2> QED BY <1>2, <2>1, <2>2, <2>3, <2>4 DEF Marker
<1>3. ASSUME Control PROVE TypeOK'
  <2>1. CASE LoopTop BY <2>1 DEF LoopTop
  <2>2. CASE Decide BY <2>2 DEF Decide, should_degenerate_cycle
  <2>3. CASE StartCycle BY <2>3 DEF StartCycle
  <2>4. CASE Arm BY <2>4 DEF Arm
  <2>5. CASE Stopped BY <2>5 DEF Stopped
  <2>6. CASE ClearCancelled BY <2>6 DEF ClearCancelled
  <2>7. CASE FullEnd BY <2>7 DEF FullEnd
  <2>8. CASE ConcBegin BY <2>8 DEF ConcBegin, CheckCancellation
  <2>9. CASE InitMarkEnd BY <2>9 DEF InitMarkEnd
  <2>10. CASE MarkEnd BY <2>10 DEF MarkEnd, CheckCancellation
  <2>11. CASE FinalMarkEnd BY <2>11 DEF FinalMarkEnd
  <2>12. CASE SweepEnd BY <2>12 DEF SweepEnd, CheckCancellation
  <2>13. CASE UnsetRequested
    <3>1. gc_requested' \in BOOLEAN BY <2>13, Zenon DEF UnsetRequested
    <3>2. cpc' \in {"lock_gc", "notify_af"} BY <2>13 DEF UnsetRequested
    <3> QED BY <2>13, <3>1, <3>2 DEF UnsetRequested
  <2>14. CASE UnsetAllocFailure
    <3>1. alloc_failure_gc' \in BOOLEAN BY <2>14, Zenon DEF UnsetAllocFailure
    <3>2. cpc' \in {"lock_af", "sleep"} BY <2>14 DEF UnsetAllocFailure
    <3> QED BY <2>14, <3>1, <3>2 DEF UnsetAllocFailure
  <2>15. CASE NotifyWaiters BY <2>15 DEF NotifyWaiters, Woken
  <2>16. CASE Sleep BY <2>16 DEF Sleep
  <2>17. CASE Terminate BY <2>17 DEF Terminate
  <2> QED BY <1>3, <2>1, <2>2, <2>3, <2>4, <2>5, <2>6, <2>7, <2>8, <2>9,
        <2>10, <2>11, <2>12, <2>13, <2>14, <2>15, <2>16, <2>17 DEF Control
<1>4. ASSUME StopCall \/ StopSteps PROVE TypeOK'
  <2>1. CASE StopCall BY <2>1 DEF StopCall
  <2>2. CASE StopCancel BY <2>2 DEF StopCancel, CancelCAS
  <2>3. CASE StopTerminate BY <2>3 DEF StopTerminate
  <2>4. CASE StopReturn BY <2>4 DEF StopReturn
  <2> QED BY <1>4, <2>1, <2>2, <2>3, <2>4 DEF StopSteps
<1>5. CASE Halted \/ UNCHANGED vars BY <1>5 DEF Halted, vars
<1> QED BY <1>1, <1>2, <1>3, <1>4, <1>5 DEF Next

(***************************************************************************)
(* Whatever the interleaving, every variable of the controller protocol    *)
(* keeps its type; in particular tries never passes its limit of three.    *)
(***************************************************************************)
THEOREM TypeCorrect == Spec => []TypeOK
<1>1. Init => TypeOK BY InitType
<1>2. TypeOK /\ [Next]_vars => TypeOK' BY NextType
<1> QED BY <1>1, <1>2, PTL DEF Spec

-----------------------------------------------------------------------------
(* Every step keeps what is known of the marking tasks and the flag. *)
LEMMA NextMark == ~SpuriousCAS /\ TypeOK /\ MarkOK /\ [Next]_vars => MarkOK'
<1> SUFFICES ASSUME ~SpuriousCAS, TypeOK, MarkOK, [Next]_vars PROVE MarkOK'
  OBVIOUS
<1> USE DEF TypeOK, MarkOK, mutators, flags, cycle, shutdown, Goto,
           GC_CANCELLABLE, GC_CANCELLED, GC_NOT_CANCELLED
<1>1. ASSUME NEW m \in Mutators, Mutator(m) PROVE MarkOK'
  <2>1. CASE AllocFails(m) BY <2>1 DEF AllocFails
  <2>2. CASE TrySet(m) BY <2>2 DEF TrySet
  <2>3. CASE TryCancel(m) BY <2>3 DEF TryCancel, CancelCAS
  <2>4. CASE SpinAgain(m) BY <2>4 DEF SpinAgain
  <2>5. CASE RequestGC(m) BY <2>5 DEF RequestGC
  <2>6. CASE Lock(m) BY <2>6 DEF Lock
  <2>7. CASE LockSlow(m) BY <2>7 DEF LockSlow
  <2>8. CASE LeaveScope(m) BY <2>8 DEF LeaveScope
  <2>9. CASE AwaitAllocFailureGC(m) BY <2>9 DEF AwaitAllocFailureGC, Wait, DropGuard, Woken
  <2>10. CASE Retry(m) BY <2>10 DEF Retry
  <2>11. CASE ReadGcId(m) BY <2>11 DEF ReadGcId
  <2>12. CASE Ask(m) BY <2>12 DEF Ask, Wait
  <2>13. CASE AwaitRequestedGC(m) BY <2>13 DEF AwaitRequestedGC, DropGuard, Woken
  <2>14. CASE Poll(m) BY <2>14 DEF Poll
  <2>15. CASE Resume(m) BY <2>15 DEF Resume
  <2>16. CASE PanicOOM(m) BY <2>16 DEF PanicOOM
  <2>17. CASE Exit(m) BY <2>17 DEF Exit
  <2> QED BY <1>1, <2>1, <2>2, <2>3, <2>4, <2>5, <2>6, <2>7, <2>8, <2>9,
        <2>10, <2>11, <2>12, <2>13, <2>14, <2>15, <2>16, <2>17 DEF Mutator, Proceed
<1>2. ASSUME NEW w \in Markers, Marker(w) PROVE MarkOK'
  <2>1. CASE MarkerCheck(w) BY <2>1 DEF MarkerCheck, CancelCAS
  <2>2. CASE MarkerRestore(w) BY <2>2 DEF MarkerRestore
  <2>3. CASE MarkerStride(w) BY <2>3 DEF MarkerStride
  <2>4. CASE MarkerFinish(w) BY <2>4 DEF MarkerFinish
  <2> QED BY <1>2, <2>1, <2>2, <2>3, <2>4 DEF Marker
<1>3. ASSUME Control PROVE MarkOK'
  <2>1. CASE LoopTop BY <2>1 DEF LoopTop
  <2>2. CASE Decide BY <2>2 DEF Decide, should_degenerate_cycle
  <2>3. CASE StartCycle BY <2>3 DEF StartCycle
  <2>4. CASE Arm BY <2>4 DEF Arm
  <2>5. CASE Stopped BY <2>5 DEF Stopped
  <2>6. CASE ClearCancelled BY <2>6 DEF ClearCancelled
  <2>7. CASE FullEnd BY <2>7 DEF FullEnd
  <2>8. CASE ConcBegin BY <2>8 DEF ConcBegin, CheckCancellation
  <2>9. CASE InitMarkEnd BY <2>9 DEF InitMarkEnd
  <2>10. CASE MarkEnd BY <2>10 DEF MarkEnd, CheckCancellation
  <2>11. CASE FinalMarkEnd BY <2>11 DEF FinalMarkEnd
  <2>12. CASE SweepEnd BY <2>12 DEF SweepEnd, CheckCancellation
  <2>13. CASE UnsetRequested BY <2>13 DEF UnsetRequested
  <2>14. CASE UnsetAllocFailure BY <2>14 DEF UnsetAllocFailure
  <2>15. CASE NotifyWaiters BY <2>15 DEF NotifyWaiters, Woken
  <2>16. CASE Sleep BY <2>16 DEF Sleep
  <2>17. CASE Terminate BY <2>17 DEF Terminate
  <2> QED BY <1>3, <2>1, <2>2, <2>3, <2>4, <2>5, <2>6, <2>7, <2>8, <2>9,
        <2>10, <2>11, <2>12, <2>13, <2>14, <2>15, <2>16, <2>17 DEF Control
<1>4. ASSUME StopCall \/ StopSteps PROVE MarkOK'
  <2>1. CASE StopCall BY <2>1 DEF StopCall
  <2>2. CASE StopCancel BY <2>2 DEF StopCancel, CancelCAS
  <2>3. CASE StopTerminate BY <2>3 DEF StopTerminate
  <2>4. CASE StopReturn BY <2>4 DEF StopReturn
  <2> QED BY <1>4, <2>1, <2>2, <2>3, <2>4 DEF StopSteps
<1>5. CASE Halted \/ UNCHANGED vars BY <1>5 DEF Halted, vars
<1> QED BY <1>1, <1>2, <1>3, <1>4, <1>5 DEF Next

(* Every step keeps what is known of the cycle under way. *)
LEMMA NextCycle == TypeOK /\ CycleOK /\ [Next]_vars => CycleOK'
<1> SUFFICES ASSUME TypeOK, CycleOK, [Next]_vars PROVE CycleOK'
  OBVIOUS
<1> USE DEF TypeOK, CycleOK, Handling, mutators, flags, cycle, shutdown, Goto
<1>1. ASSUME NEW m \in Mutators, Mutator(m) PROVE CycleOK'
  <2>1. CASE AllocFails(m) BY <2>1 DEF AllocFails
  <2>2. CASE TrySet(m) BY <2>2 DEF TrySet
  <2>3. CASE TryCancel(m) BY <2>3 DEF TryCancel, CancelCAS
  <2>4. CASE SpinAgain(m) BY <2>4 DEF SpinAgain
  <2>5. CASE RequestGC(m) BY <2>5 DEF RequestGC
  <2>6. CASE Lock(m) BY <2>6 DEF Lock
  <2>7. CASE LockSlow(m) BY <2>7 DEF LockSlow
  <2>8. CASE LeaveScope(m) BY <2>8 DEF LeaveScope
  <2>9. CASE AwaitAllocFailureGC(m) BY <2>9 DEF AwaitAllocFailureGC, Wait, DropGuard, Woken
  <2>10. CASE Retry(m) BY <2>10 DEF Retry
  <2>11. CASE ReadGcId(m) BY <2>11 DEF ReadGcId
  <2>12. CASE Ask(m) BY <2>12 DEF Ask, Wait
  <2>13. CASE AwaitRequestedGC(m) BY <2>13 DEF AwaitRequestedGC, DropGuard, Woken
  <2>14. CASE Poll(m) BY <2>14 DEF Poll
  <2>15. CASE Resume(m) BY <2>15 DEF Resume
  <2>16. CASE PanicOOM(m) BY <2>16 DEF PanicOOM
  <2>17. CASE Exit(m) BY <2>17 DEF Exit
  <2> QED BY <1>1, <2>1, <2>2, <2>3, <2>4, <2>5, <2>6, <2>7, <2>8, <2>9,
        <2>10, <2>11, <2>12, <2>13, <2>14, <2>15, <2>16, <2>17 DEF Mutator, Proceed
<1>2. ASSUME NEW w \in Markers, Marker(w) PROVE CycleOK'
  <2>1. CASE MarkerCheck(w) BY <2>1 DEF MarkerCheck, CancelCAS
  <2>2. CASE MarkerRestore(w) BY <2>2 DEF MarkerRestore
  <2>3. CASE MarkerStride(w) BY <2>3 DEF MarkerStride
  <2>4. CASE MarkerFinish(w) BY <2>4 DEF MarkerFinish
  <2> QED BY <1>2, <2>1, <2>2, <2>3, <2>4 DEF Marker
<1>3. ASSUME Control PROVE CycleOK'
  <2>1. CASE LoopTop BY <2>1 DEF LoopTop
  <2>2. CASE Decide BY <2>2 DEF Decide, should_degenerate_cycle
  <2>3. CASE StartCycle BY <2>3 DEF StartCycle
  <2>4. CASE Arm BY <2>4 DEF Arm
  <2>5. CASE Stopped BY <2>5 DEF Stopped
  <2>6. CASE ClearCancelled BY <2>6 DEF ClearCancelled
  <2>7. CASE FullEnd BY <2>7 DEF FullEnd
  <2>8. CASE ConcBegin BY <2>8 DEF ConcBegin, CheckCancellation
  <2>9. CASE InitMarkEnd BY <2>9 DEF InitMarkEnd
  <2>10. CASE MarkEnd BY <2>10 DEF MarkEnd, CheckCancellation
  <2>11. CASE FinalMarkEnd BY <2>11 DEF FinalMarkEnd
  <2>12. CASE SweepEnd BY <2>12 DEF SweepEnd, CheckCancellation
  <2>13. CASE UnsetRequested BY <2>13 DEF UnsetRequested
  <2>14. CASE UnsetAllocFailure BY <2>14 DEF UnsetAllocFailure
  <2>15. CASE NotifyWaiters BY <2>15 DEF NotifyWaiters, Woken
  <2>16. CASE Sleep BY <2>16 DEF Sleep
  <2>17. CASE Terminate BY <2>17 DEF Terminate
  <2> QED BY <1>3, <2>1, <2>2, <2>3, <2>4, <2>5, <2>6, <2>7, <2>8, <2>9,
        <2>10, <2>11, <2>12, <2>13, <2>14, <2>15, <2>16, <2>17 DEF Control
<1>4. ASSUME StopCall \/ StopSteps PROVE CycleOK'
  <2>1. CASE StopCall BY <2>1 DEF StopCall
  <2>2. CASE StopCancel BY <2>2 DEF StopCancel, CancelCAS
  <2>3. CASE StopTerminate BY <2>3 DEF StopTerminate
  <2>4. CASE StopReturn BY <2>4 DEF StopReturn
  <2> QED BY <1>4, <2>1, <2>2, <2>3, <2>4 DEF StopSteps
<1>5. CASE Halted \/ UNCHANGED vars BY <1>5 DEF Halted, vars
<1> QED BY <1>1, <1>2, <1>3, <1>4, <1>5 DEF Next

(* Every step keeps what is known of the stopped world. *)
LEMMA NextWorld == TypeOK /\ WorldOK /\ [Next]_vars => WorldOK'
<1> SUFFICES ASSUME TypeOK, WorldOK, [Next]_vars PROVE WorldOK'
  OBVIOUS
<1> USE DEF TypeOK, WorldOK, Safe, mutators, flags, cycle, shutdown, Goto
<1>1. ASSUME NEW m \in Mutators, Mutator(m) PROVE WorldOK'
  <2>1. CASE AllocFails(m) BY <2>1 DEF AllocFails
  <2>2. CASE TrySet(m) BY <2>2 DEF TrySet
  <2>3. CASE TryCancel(m) BY <2>3 DEF TryCancel, CancelCAS
  <2>4. CASE SpinAgain(m) BY <2>4 DEF SpinAgain
  <2>5. CASE RequestGC(m) BY <2>5 DEF RequestGC
  <2>6. CASE Lock(m) BY <2>6 DEF Lock
  <2>7. CASE LockSlow(m) BY <2>7 DEF LockSlow
  <2>8. CASE LeaveScope(m) BY <2>8 DEF LeaveScope
  <2>9. CASE AwaitAllocFailureGC(m) BY <2>9 DEF AwaitAllocFailureGC, Wait, DropGuard, Woken
  <2>10. CASE Retry(m) BY <2>10 DEF Retry
  <2>11. CASE ReadGcId(m) BY <2>11 DEF ReadGcId
  <2>12. CASE Ask(m) BY <2>12 DEF Ask, Wait
  <2>13. CASE AwaitRequestedGC(m) BY <2>13 DEF AwaitRequestedGC, DropGuard, Woken
  <2>14. CASE Poll(m) BY <2>14 DEF Poll
  <2>15. CASE Resume(m) BY <2>15 DEF Resume
  <2>16. CASE PanicOOM(m) BY <2>16 DEF PanicOOM
  <2>17. CASE Exit(m) BY <2>17 DEF Exit
  <2> QED BY <1>1, <2>1, <2>2, <2>3, <2>4, <2>5, <2>6, <2>7, <2>8, <2>9,
        <2>10, <2>11, <2>12, <2>13, <2>14, <2>15, <2>16, <2>17 DEF Mutator, Proceed
<1>2. ASSUME NEW w \in Markers, Marker(w) PROVE WorldOK'
  <2>1. CASE MarkerCheck(w) BY <2>1 DEF MarkerCheck, CancelCAS
  <2>2. CASE MarkerRestore(w) BY <2>2 DEF MarkerRestore
  <2>3. CASE MarkerStride(w) BY <2>3 DEF MarkerStride
  <2>4. CASE MarkerFinish(w) BY <2>4 DEF MarkerFinish
  <2> QED BY <1>2, <2>1, <2>2, <2>3, <2>4 DEF Marker
<1>3. ASSUME Control PROVE WorldOK'
  <2>1. CASE LoopTop BY <2>1 DEF LoopTop
  <2>2. CASE Decide BY <2>2 DEF Decide, should_degenerate_cycle
  <2>3. CASE StartCycle BY <2>3 DEF StartCycle
  <2>4. CASE Arm BY <2>4 DEF Arm
  <2>5. CASE Stopped BY <2>5 DEF Stopped
  <2>6. CASE ClearCancelled BY <2>6 DEF ClearCancelled
  <2>7. CASE FullEnd BY <2>7 DEF FullEnd
  <2>8. CASE ConcBegin BY <2>8 DEF ConcBegin, CheckCancellation
  <2>9. CASE InitMarkEnd BY <2>9 DEF InitMarkEnd
  <2>10. CASE MarkEnd BY <2>10 DEF MarkEnd, CheckCancellation
  <2>11. CASE FinalMarkEnd BY <2>11 DEF FinalMarkEnd
  <2>12. CASE SweepEnd BY <2>12 DEF SweepEnd, CheckCancellation
  <2>13. CASE UnsetRequested BY <2>13 DEF UnsetRequested
  <2>14. CASE UnsetAllocFailure BY <2>14 DEF UnsetAllocFailure
  <2>15. CASE NotifyWaiters BY <2>15 DEF NotifyWaiters, Woken
  <2>16. CASE Sleep BY <2>16 DEF Sleep
  <2>17. CASE Terminate BY <2>17 DEF Terminate
  <2> QED BY <1>3, <2>1, <2>2, <2>3, <2>4, <2>5, <2>6, <2>7, <2>8, <2>9,
        <2>10, <2>11, <2>12, <2>13, <2>14, <2>15, <2>16, <2>17 DEF Control
<1>4. ASSUME StopCall \/ StopSteps PROVE WorldOK'
  <2>1. CASE StopCall BY <2>1 DEF StopCall
  <2>2. CASE StopCancel BY <2>2 DEF StopCancel, CancelCAS
  <2>3. CASE StopTerminate BY <2>3 DEF StopTerminate
  <2>4. CASE StopReturn BY <2>4 DEF StopReturn
  <2> QED BY <1>4, <2>1, <2>2, <2>3, <2>4 DEF StopSteps
<1>5. CASE Halted \/ UNCHANGED vars BY <1>5 DEF Halted, vars
<1> QED BY <1>1, <1>2, <1>3, <1>4, <1>5 DEF Next

(* Every step keeps what a failed allocation has seen of a full collection. *)
LEMMA NextSeen ==
  ~SpuriousCAS /\ TypeOK /\ CycleOK /\ WorldOK /\ SeenOK /\ [Next]_vars => SeenOK'
<1> SUFFICES ASSUME ~SpuriousCAS, TypeOK, CycleOK, WorldOK, SeenOK, [Next]_vars
             PROVE SeenOK'
  OBVIOUS
<1> USE DEF TypeOK, CycleOK, WorldOK, SeenOK, Handling, Safe, Blocked, SecondRound,
           Collected, Late, MaxTries, Monitors, AllocFailureWaiters, GcWaiters,
           mutators, flags, cycle, shutdown, Goto
<1>1. ASSUME NEW m \in Mutators, Mutator(m) PROVE SeenOK'
  <2>1. CASE AllocFails(m) BY <2>1 DEF AllocFails
  <2>2. CASE TrySet(m) BY <2>2 DEF TrySet
  <2>3. CASE TryCancel(m) BY <2>3 DEF TryCancel, CancelCAS
  <2>4. CASE SpinAgain(m) BY <2>4 DEF SpinAgain
  <2>5. CASE RequestGC(m) BY <2>5 DEF RequestGC
  <2>6. CASE Lock(m) BY <2>6 DEF Lock
  <2>7. CASE LockSlow(m) BY <2>7 DEF LockSlow
  <2>8. CASE LeaveScope(m) BY <2>8 DEF LeaveScope
  <2>9. CASE AwaitAllocFailureGC(m)
    <3>1. CASE alloc_failure_gc BY <2>9, <3>1 DEF AwaitAllocFailureGC, Wait
    <3>2. CASE ~alloc_failure_gc
      <4>1. pc'[m] = "retry" /\ ~Late /\ (tries[m] >= 2 => seen[m] = "done")
        BY <2>9, <3>2 DEF AwaitAllocFailureGC, DropGuard, Woken
      <4>2. \A n \in Mutators \ {m} : Moved(n)
        BY <2>9, <3>2 DEF AwaitAllocFailureGC, DropGuard, Woken, Moved
      <4> QED BY <2>9, <4>1, <4>2 DEF AwaitAllocFailureGC, Moved
    <3> QED BY <3>1, <3>2
  <2>10. CASE Retry(m) BY <2>10 DEF Retry
  <2>11. CASE ReadGcId(m) BY <2>11 DEF ReadGcId
  <2>12. CASE Ask(m)
    <3>1. pc'[m] = "wait" /\ mon[m] # AllocFailureWaiters
      BY <2>12 DEF Ask, Wait
    <3>2. \A n \in Mutators \ {m} : Moved(n) BY <2>12 DEF Ask, Wait, Moved
    <3> QED BY <2>12, <3>1, <3>2 DEF Ask, Moved
  <2>13. CASE AwaitRequestedGC(m)
    <3>1. pc'[m] \in {"ask", "run"}
      BY <2>13 DEF AwaitRequestedGC, DropGuard, Woken
    <3>2. \A n \in Mutators \ {m} : Moved(n)
      BY <2>13 DEF AwaitRequestedGC, DropGuard, Woken, Moved
    <3> QED BY <2>13, <3>1, <3>2 DEF AwaitRequestedGC, Moved
  <2>14. CASE Poll(m) BY <2>14 DEF Poll
  <2>15. CASE Resume(m) BY <2>15 DEF Resume
  <2>16. CASE PanicOOM(m) BY <2>16 DEF PanicOOM
  <2>17. CASE Exit(m) BY <2>17 DEF Exit
  <2> QED BY <1>1, <2>1, <2>2, <2>3, <2>4, <2>5, <2>6, <2>7, <2>8, <2>9,
        <2>10, <2>11, <2>12, <2>13, <2>14, <2>15, <2>16, <2>17 DEF Mutator, Proceed
<1>2. ASSUME NEW w \in Markers, Marker(w) PROVE SeenOK'
  <2>1. CASE MarkerCheck(w) BY <2>1 DEF MarkerCheck, CancelCAS
  <2>2. CASE MarkerRestore(w) BY <2>2 DEF MarkerRestore
  <2>3. CASE MarkerStride(w) BY <2>3 DEF MarkerStride
  <2>4. CASE MarkerFinish(w) BY <2>4 DEF MarkerFinish
  <2> QED BY <1>2, <2>1, <2>2, <2>3, <2>4 DEF Marker
<1>3. ASSUME Control PROVE SeenOK'
  <2>1. CASE LoopTop BY <2>1 DEF LoopTop
  <2>2. CASE Decide BY <2>2 DEF Decide, should_degenerate_cycle
  <2>3. CASE StartCycle BY <2>3 DEF StartCycle
  <2>4. CASE Arm BY <2>4 DEF Arm
  <2>5. CASE Stopped BY <2>5 DEF Stopped
  <2>6. CASE ClearCancelled BY <2>6 DEF ClearCancelled
  <2>7. CASE FullEnd BY <2>7 DEF FullEnd
  <2>8. CASE ConcBegin BY <2>8 DEF ConcBegin, CheckCancellation
  <2>9. CASE InitMarkEnd BY <2>9 DEF InitMarkEnd
  <2>10. CASE MarkEnd BY <2>10 DEF MarkEnd, CheckCancellation
  <2>11. CASE FinalMarkEnd BY <2>11 DEF FinalMarkEnd
  <2>12. CASE SweepEnd BY <2>12 DEF SweepEnd, CheckCancellation
  <2>13. CASE UnsetRequested BY <2>13 DEF UnsetRequested
  <2>14. CASE UnsetAllocFailure BY <2>14 DEF UnsetAllocFailure
  <2>15. CASE NotifyWaiters BY <2>15 DEF NotifyWaiters, Woken
  <2>16. CASE Sleep BY <2>16 DEF Sleep
  <2>17. CASE Terminate BY <2>17 DEF Terminate
  <2> QED BY <1>3, <2>1, <2>2, <2>3, <2>4, <2>5, <2>6, <2>7, <2>8, <2>9,
        <2>10, <2>11, <2>12, <2>13, <2>14, <2>15, <2>16, <2>17 DEF Control
<1>4. ASSUME StopCall \/ StopSteps PROVE SeenOK'
  <2>1. CASE StopCall BY <2>1 DEF StopCall
  <2>2. CASE StopCancel BY <2>2 DEF StopCancel, CancelCAS
  <2>3. CASE StopTerminate BY <2>3 DEF StopTerminate
  <2>4. CASE StopReturn BY <2>4 DEF StopReturn
  <2> QED BY <1>4, <2>1, <2>2, <2>3, <2>4 DEF StopSteps
<1>5. CASE Halted \/ UNCHANGED vars BY <1>5 DEF Halted, vars
<1> QED BY <1>1, <1>2, <1>3, <1>4, <1>5 DEF Next

(* The inductive invariant holds initially. *)
LEMMA InitIInv == Init => IInv
<1> SUFFICES ASSUME Init PROVE IInv
  OBVIOUS
<1>1. TypeOK BY InitType
<1>2. MarkOK BY DEF Init, MarkOK
<1>3. CycleOK /\ WorldOK BY DEF Init, CycleOK, WorldOK
<1>4. SeenOK BY DEF Init, SeenOK, SecondRound, Blocked, Late, Collected
<1> QED BY <1>1, <1>2, <1>3, <1>4 DEF IInv

(* and every step keeps it. *)
LEMMA NextIInv == ~SpuriousCAS /\ IInv /\ [Next]_vars => IInv'
  BY NextType, NextMark, NextCycle, NextWorld, NextSeen DEF IInv

(***************************************************************************)
(* Where compare_exchange_weak has no spurious failures, for any number of *)
(* threads: allocate_memory gives up only after a full collection that     *)
(* began after its first failed attempt.                                   *)
(***************************************************************************)
THEOREM NullOnlyAfterFullGC == ~SpuriousCAS => (Spec => []RetriedAfterFullGC)
<1> SUFFICES ASSUME ~SpuriousCAS PROVE Spec => []RetriedAfterFullGC
  OBVIOUS
<1>1. Init => IInv BY InitIInv
<1>2. IInv /\ [Next]_vars => IInv' BY NextIInv
<1>3. IInv => RetriedAfterFullGC BY DEF IInv, SeenOK, RetriedAfterFullGC
<1> QED BY <1>1, <1>2, <1>3, PTL DEF Spec

\* The five places that write the flag: all others leave it as it is.
LEMMA NextKept ==
  ~SpuriousCAS /\ MarkOK /\ [Next]_vars => [Kept]_vars
<1> SUFFICES ASSUME ~SpuriousCAS, MarkOK, Next PROVE Kept
  OBVIOUS
<1> USE DEF Kept, flags, GC_CANCELLABLE, GC_CANCELLED, GC_NOT_CANCELLED
<1>1. ASSUME NEW m \in Mutators, Mutator(m) PROVE Kept
  <2>1. CASE TryCancel(m) BY <2>1 DEF TryCancel, CancelCAS
  <2>2. CASE ~TryCancel(m)
    BY <1>1, <2>2 DEF Mutator, Proceed, AllocFails, TrySet, SpinAgain, RequestGC,
       Lock, LockSlow, LeaveScope, AwaitAllocFailureGC, Retry, ReadGcId, Ask,
       AwaitRequestedGC, Poll, Resume, PanicOOM, Exit
  <2> QED BY <2>1, <2>2
<1>2. ASSUME NEW w \in Markers, Marker(w) PROVE Kept
  <2>1. CASE MarkerCheck(w) BY <2>1 DEF MarkerCheck
  <2>2. CASE MarkerRestore(w) BY <2>2 DEF MarkerRestore, MarkOK
  <2> QED BY <1>2, <2>1, <2>2 DEF Marker, MarkerStride, MarkerFinish
<1>3. ASSUME Control PROVE Kept
  <2>1. CASE ClearCancelled BY <2>1 DEF ClearCancelled
  <2>2. CASE ~ClearCancelled
    BY <1>3, <2>2 DEF Control, LoopTop, Decide, StartCycle, Arm, Stopped, FullEnd,
       ConcBegin, InitMarkEnd, MarkEnd, FinalMarkEnd, SweepEnd, UnsetRequested,
       UnsetAllocFailure, NotifyWaiters, Sleep, Terminate
  <2> QED BY <2>1, <2>2
<1>4. ASSUME StopCall \/ StopSteps PROVE Kept
  BY <1>4 DEF StopCall, StopSteps, StopCancel, StopTerminate, StopReturn, CancelCAS
<1>5. CASE Halted BY <1>5 DEF Halted, vars
<1> QED BY <1>1, <1>2, <1>3, <1>4, <1>5 DEF Next

(***************************************************************************)
(* Under the same assumption and for any number of marking tasks: no       *)
(* marking task's restore of the flag overwrites a cancellation; only a    *)
(* full collection in its pause consumes one.                              *)
(***************************************************************************)
THEOREM CancellationsKept == ~SpuriousCAS => (Spec => CancelKept)
<1> SUFFICES ASSUME ~SpuriousCAS PROVE Spec => CancelKept
  OBVIOUS
<1>1. Init => IInv BY InitIInv
<1>2. IInv /\ [Next]_vars => IInv' BY NextIInv
<1>3. IInv /\ [Next]_vars => [Kept]_vars BY NextKept DEF IInv
<1> QED BY <1>1, <1>2, <1>3, PTL DEF Spec, CancelKept, Kept

=============================================================================
