---------------------------- MODULE PartsProofs -----------------------------
(***************************************************************************)
(* Theorems about the parts that MCPool and Parts put side by side:        *)
(* for any number of workers, joins and tasks, a suspension stops all      *)
(* members of the SuspendibleThreadSet with one signal, and a task of      *)
(* WorkerThreads is worked on once by each worker asked for; for any       *)
(* mutators and cells, weak references and finalizers are processed as     *)
(* References says; for any threads and sizes, a bitmap is a set; for any  *)
(* length and widths, the chunk tasks of an array visit each element once; *)
(* for any settings, the sizes of a heap agree and a walk visits each of   *)
(* its regions once; for any elements and calls, an ArrayList is the list  *)
(* a Vec would be; for any keys and hashes, a HashMap answers what was put *)
(* for every key that no removal cut out of its chain.                     *)
(***************************************************************************)
EXTENDS MCPool, Parts, FiniteSetTheorems, SequenceTheorems, WellFoundedInduction, TLAPS

-----------------------------------------------------------------------------
(***************************************************************************)
(* The suspendible thread set.                                             *)
(***************************************************************************)
\* A suspension lasts while the suspender is not idle, and nobody who has seen
\* should_yield outlives it.
SuspensionOK ==
  /\ SUSPEND_ALL <=> suspender # "idle"
  /\ \A w \in Workers : pc[w] = "yield" => SUSPEND_ALL

\* The signal is given when the last member stops, and once.
SignalOK ==
  /\ signals <= 1 /\ wakeup <= signals
  /\ SUSPEND_ALL /\ signals = 1 => Members = Stopped
  /\ wakeup > 0 => suspender = "semaphore"

SetInv == TypeOK /\ SuspensionOK /\ StaysSynchronized /\ SignalOK

PCs == {"out", "joining", "in", "yield", "stopped"}

\* The counters tell whether all members have stopped.
LEMMA CountFacts ==
  ASSUME TypeOK
  PROVE  /\ pc \in [Workers -> PCs]
         /\ Stopped \subseteq Members /\ IsFiniteSet(Members) /\ IsFiniteSet(Stopped)
         /\ NTHREADS \in Nat /\ NTHREADS_STOPPED \in Nat
         /\ NTHREADS = NTHREADS_STOPPED <=> Members = Stopped
<1>1. Stopped \subseteq Members /\ Members \subseteq Workers /\ Stopped \subseteq Workers
  BY DEF Members, Stopped
<1>2. IsFiniteSet(Members) /\ IsFiniteSet(Stopped)
  BY <1>1, SuspendibleAssumption, FS_Subset
<1>3. Cardinality(Members) \in Nat /\ Cardinality(Stopped) \in Nat
  BY <1>2, FS_CardinalityType
<1>4. Cardinality(Members) = Cardinality(Stopped) => Members = Stopped
  BY <1>1, <1>2, FS_Subset
<1> QED BY <1>1, <1>2, <1>3, <1>4 DEF TypeOK, PCs

\* What a worker's step from one label to another does to the two sets.
LEMMA MoveFacts ==
  ASSUME TypeOK, NEW w \in Workers, NEW label \in PCs, pc' = [pc EXCEPT ![w] = label]
  PROVE  /\ pc' \in [Workers -> PCs]
         /\ label \in {"in", "yield", "stopped"} /\ w \in Members =>
              Members' = Members /\ Cardinality(Members') = NTHREADS
         /\ label \in {"in", "yield", "stopped"} /\ w \notin Members =>
              Members' = Members \cup {w} /\ Cardinality(Members') = NTHREADS + 1
         /\ label \in {"out", "joining"} /\ w \in Members =>
              Members' = Members \ {w} /\ Cardinality(Members') = NTHREADS - 1
         /\ label \in {"out", "joining"} /\ w \notin Members =>
              Members' = Members /\ Cardinality(Members') = NTHREADS
         /\ label = "stopped" /\ w \notin Stopped =>
              Stopped' = Stopped \cup {w} /\ Cardinality(Stopped') = NTHREADS_STOPPED + 1
         /\ label # "stopped" /\ w \in Stopped =>
              Stopped' = Stopped \ {w} /\ Cardinality(Stopped') = NTHREADS_STOPPED - 1
         /\ label # "stopped" /\ w \notin Stopped =>
              Stopped' = Stopped /\ Cardinality(Stopped') = NTHREADS_STOPPED
<1>0. pc \in [Workers -> PCs] /\ pc'[w] = label /\ \A v \in Workers \ {w} : pc'[v] = pc[v]
  BY CountFacts
<1>1. pc' \in [Workers -> PCs]
  BY <1>0
<1>2. Members' = IF label \in {"in", "yield", "stopped"} THEN Members \cup {w} ELSE Members \ {w}
  BY <1>0 DEF Members
<1>3. Stopped' = IF label = "stopped" THEN Stopped \cup {w} ELSE Stopped \ {w}
  BY <1>0 DEF Stopped
<1>4. NTHREADS = Cardinality(Members) /\ NTHREADS_STOPPED = Cardinality(Stopped)
  BY DEF TypeOK
<1>5. /\ Cardinality(Members \cup {w}) = IF w \in Members THEN NTHREADS ELSE NTHREADS + 1
      /\ Cardinality(Members \ {w}) = IF w \in Members THEN NTHREADS - 1 ELSE NTHREADS
  BY <1>4, CountFacts, FS_AddElement, FS_RemoveElement
<1>6. /\ Cardinality(Stopped \cup {w}) = IF w \in Stopped THEN NTHREADS_STOPPED ELSE NTHREADS_STOPPED + 1
      /\ Cardinality(Stopped \ {w}) = IF w \in Stopped THEN NTHREADS_STOPPED - 1 ELSE NTHREADS_STOPPED
  BY <1>4, CountFacts, FS_AddElement, FS_RemoveElement
<1>7. /\ w \in Members => Members \cup {w} = Members
      /\ w \notin Members => Members \ {w} = Members
      /\ w \notin Stopped => Stopped \ {w} = Stopped
  OBVIOUS
<1>8. label \in {"in", "yield", "stopped"} \/ label \in {"out", "joining"}
  BY DEF PCs
<1> QED BY <1>1, <1>2, <1>3, <1>5, <1>6, <1>7, <1>8

(* The invariant of the suspendible set holds initially. *)
LEMMA InitSet == Init => SetInv
<1> SUFFICES ASSUME Init PROVE SetInv
  OBVIOUS
<1>1. Members = {} /\ Stopped = {}
  BY DEF Init, Members, Stopped
<1>2. TypeOK
  <2>1. SUSPEND_ALL \in BOOLEAN
    BY DEF Init
  <2>2. NTHREADS = Cardinality(Members) /\ NTHREADS_STOPPED = Cardinality(Stopped)
    BY <1>1, FS_EmptySet DEF Init
  <2>3. joins \in [Workers -> 0 .. MaxJoins]
    BY SuspendibleAssumption DEF Init
  <2> QED BY <2>1, <2>2, <2>3 DEF Init, TypeOK
<1> QED BY <1>2 DEF Init, SetInv, SuspensionOK, StaysSynchronized, SignalOK

\* join, at once or after a wait: nobody is counted in while a suspension lasts.
LEMMA PassSet ==
  ASSUME SetInv, NEW w \in Workers, pc[w] \in {"out", "joining"}, Pass(w),
         joins' \in [Workers -> 0 .. MaxJoins],
         UNCHANGED <<SUSPEND_ALL, NTHREADS_STOPPED, wakeup, suspender, signals>>
  PROVE  SetInv'
<1> USE DEF SetInv
<1>0. w \notin Members /\ w \notin Stopped
  BY DEF Members, Stopped
<1>1. CASE SUSPEND_ALL
  <2>1. /\ pc' = [pc EXCEPT ![w] = "joining"] /\ "joining" \in PCs
        /\ asleep' = asleep \cup {w} /\ NTHREADS' = NTHREADS
    BY <1>1 DEF Pass, Goto, WaitOnLock, PCs
  <2>2. /\ Members' = Members /\ Stopped' = Stopped /\ pc' \in [Workers -> PCs]
        /\ Cardinality(Members') = NTHREADS /\ Cardinality(Stopped') = NTHREADS_STOPPED
    BY <1>0, <2>1, MoveFacts, CountFacts
  <2>3. TypeOK'
    BY <2>1, <2>2 DEF TypeOK, PCs
  <2> QED BY <1>1, <2>1, <2>2, <2>3 DEF SuspensionOK, StaysSynchronized, SignalOK
<1>2. CASE ~SUSPEND_ALL
  <2>1. /\ pc' = [pc EXCEPT ![w] = "in"] /\ "in" \in PCs
        /\ asleep' = {} /\ NTHREADS' = NTHREADS + 1
    BY <1>2 DEF Pass, Goto, DropLocker, PCs
  <2>2. /\ Stopped' = Stopped /\ pc' \in [Workers -> PCs]
        /\ Cardinality(Members') = NTHREADS + 1 /\ Cardinality(Stopped') = NTHREADS_STOPPED
    BY <1>0, <2>1, MoveFacts, CountFacts
  <2>3. TypeOK'
    BY <2>1, <2>2 DEF TypeOK, PCs
  <2> QED BY <1>2, <2>1, <2>2, <2>3 DEF SuspensionOK, StaysSynchronized, SignalOK, TypeOK
<1> QED BY <1>1, <1>2

\* leave: the last member that has not stopped signals.
LEMMA LeaveSet ==
  ASSUME SetInv, NEW w \in Workers, Leave(w)
  PROVE  SetInv'
<1> USE DEF SetInv
<1>0. w \in Members /\ w \notin Stopped /\ Members # Stopped
  BY DEF Leave, Members, Stopped
<1>1. /\ pc' = [pc EXCEPT ![w] = "out"] /\ "out" \in PCs /\ asleep' = {} /\ NTHREADS' = NTHREADS - 1
      /\ UNCHANGED <<SUSPEND_ALL, NTHREADS_STOPPED, suspender, joins>>
  BY DEF Leave, Goto, DropLocker, PCs
<1>2. /\ Members' = Members \ {w} /\ Stopped' = Stopped /\ pc' \in [Workers -> PCs]
      /\ Cardinality(Members') = NTHREADS - 1 /\ Cardinality(Stopped') = NTHREADS_STOPPED
  BY <1>0, <1>1, MoveFacts, CountFacts
<1>3. signals = 0 \/ ~SUSPEND_ALL
  BY <1>0 DEF SignalOK, TypeOK
<1>4. /\ wakeup' \in Nat /\ signals' \in Nat
      /\ wakeup' = IF SUSPEND_ALL /\ NTHREADS - 1 = NTHREADS_STOPPED THEN wakeup + 1 ELSE wakeup
      /\ signals' = IF SUSPEND_ALL /\ NTHREADS - 1 = NTHREADS_STOPPED THEN signals + 1 ELSE signals
  BY DEF Leave, SignalIf, is_synchronized, TypeOK
<1>5. TypeOK'
  BY <1>1, <1>2, <1>4 DEF TypeOK, PCs
<1>6. NTHREADS - 1 = NTHREADS_STOPPED => Members' = Stopped'
  <2>1. IsFiniteSet(Members') /\ Stopped' \subseteq Members'
    BY <1>0, <1>2, CountFacts, FS_RemoveElement
  <2> QED BY <1>2, <2>1, FS_Subset
<1>7. suspender # "synchronized"
  BY <1>0 DEF StaysSynchronized
<1>8. SuspensionOK' /\ StaysSynchronized'
  BY <1>1, <1>7 DEF SuspensionOK, StaysSynchronized, TypeOK
<1>9. SignalOK'
  BY <1>1, <1>3, <1>4, <1>6, <1>7 DEF SignalOK, SuspensionOK, TypeOK
<1> QED BY <1>5, <1>8, <1>9

\* yield_: nobody yields without a suspension, and the last one to stop signals.
LEMMA YieldSet ==
  ASSUME SetInv, NEW w \in Workers, Yield(w)
  PROVE  SetInv'
<1> USE DEF SetInv
<1>0. w \in Members /\ w \notin Stopped /\ Members # Stopped /\ SUSPEND_ALL
  BY DEF Yield, Members, Stopped, SuspensionOK
<1>1. /\ pc' = [pc EXCEPT ![w] = "stopped"] /\ "stopped" \in PCs /\ asleep' = asleep \cup {w}
      /\ NTHREADS_STOPPED' = NTHREADS_STOPPED + 1
      /\ UNCHANGED <<SUSPEND_ALL, NTHREADS, suspender, joins>>
  BY <1>0 DEF Yield, Goto, PCs
<1>2. /\ Members' = Members /\ Stopped' = Stopped \cup {w} /\ pc' \in [Workers -> PCs]
      /\ Cardinality(Members') = NTHREADS /\ Cardinality(Stopped') = NTHREADS_STOPPED + 1
  BY <1>0, <1>1, MoveFacts, CountFacts
<1>3. signals = 0
  BY <1>0 DEF SignalOK, TypeOK
<1>4. /\ wakeup' \in Nat /\ signals' \in Nat
      /\ wakeup' = IF NTHREADS = NTHREADS_STOPPED + 1 THEN wakeup + 1 ELSE wakeup
      /\ signals' = IF NTHREADS = NTHREADS_STOPPED + 1 THEN signals + 1 ELSE signals
  BY <1>0 DEF Yield, SignalIf, is_synchronized, TypeOK
<1>5. TypeOK'
  BY <1>1, <1>2, <1>4 DEF TypeOK, PCs
<1>6. NTHREADS = NTHREADS_STOPPED + 1 => Members' = Stopped'
  <2>1. IsFiniteSet(Members') /\ Stopped' \subseteq Members'
    BY <1>0, <1>2, CountFacts, FS_RemoveElement
  <2> QED BY <1>2, <2>1, FS_Subset
<1>7. suspender # "synchronized"
  BY <1>0 DEF StaysSynchronized
<1>8. SuspensionOK' /\ StaysSynchronized'
  BY <1>1, <1>7 DEF SuspensionOK, StaysSynchronized, TypeOK
<1>9. SignalOK'
  BY <1>0, <1>1, <1>3, <1>4, <1>6, <1>7 DEF SignalOK, SuspensionOK, TypeOK
<1> QED BY <1>5, <1>8, <1>9

\* The loop of yield_: only the end of the suspension lets a member go on.
LEMMA ResumeSet ==
  ASSUME SetInv, NEW w \in Workers, Resume(w)
  PROVE  SetInv'
<1> USE DEF SetInv
<1>0. w \in Members /\ w \in Stopped
  BY DEF Resume, Members, Stopped
<1>1. CASE SUSPEND_ALL
  <2>1. /\ asleep' = asleep \cup {w}
        /\ UNCHANGED <<sts, wakeup, pc, suspender, joins, signals>>
    BY <1>1 DEF Resume, WaitOnLock, sts
  <2>2. Members' = Members /\ Stopped' = Stopped
    BY <2>1 DEF Members, Stopped
  <2>3. TypeOK'
    BY <1>0, <2>1, <2>2 DEF TypeOK, sts, Stopped
  <2> QED BY <2>1, <2>2, <2>3 DEF SuspensionOK, StaysSynchronized, SignalOK, sts
<1>2. CASE ~SUSPEND_ALL
  <2>1. /\ pc' = [pc EXCEPT ![w] = "in"] /\ "in" \in PCs
        /\ asleep' = {} /\ NTHREADS_STOPPED' = NTHREADS_STOPPED - 1
        /\ UNCHANGED <<SUSPEND_ALL, NTHREADS, wakeup, suspender, joins, signals>>
    BY <1>2 DEF Resume, Goto, DropLocker, PCs
  <2>2. /\ pc' \in [Workers -> PCs]
        /\ Cardinality(Members') = NTHREADS /\ Cardinality(Stopped') = NTHREADS_STOPPED - 1
    BY <1>0, <2>1, MoveFacts, CountFacts
  <2>3. TypeOK'
    BY <2>1, <2>2 DEF TypeOK, PCs
  <2> QED BY <1>2, <2>1, <2>3 DEF SuspensionOK, StaysSynchronized, SignalOK, TypeOK
<1> QED BY <1>1, <1>2

(* A member reads the flag. *)
LEMMA ShouldYieldSet ==
  ASSUME SetInv, NEW w \in Workers, ShouldYield(w)
  PROVE  SetInv'
<1> USE DEF SetInv
<1>0. w \in Members /\ w \notin Stopped /\ SUSPEND_ALL
  BY DEF ShouldYield, Members, Stopped
<1>1. pc' = [pc EXCEPT ![w] = "yield"] /\ "yield" \in PCs /\ pc[w] = "in"
  BY DEF ShouldYield, Goto, PCs
<1>u. UNCHANGED <<sts, wakeup, asleep, suspender, joins, signals>>
  BY DEF ShouldYield
<1>2. /\ Members' = Members /\ Stopped' = Stopped /\ pc' \in [Workers -> PCs]
      /\ Cardinality(Members') = NTHREADS /\ Cardinality(Stopped') = NTHREADS_STOPPED
  <2>1. /\ pc' \in [Workers -> PCs]
        /\ Members' = Members /\ Cardinality(Members') = NTHREADS
    BY <1>0, <1>1, MoveFacts
  <2>2. Stopped' = Stopped /\ Cardinality(Stopped') = NTHREADS_STOPPED
    BY <1>0, <1>1, MoveFacts
  <2> QED BY <2>1, <2>2
<1>3. TypeOK'
  BY <1>1, <1>2, <1>u DEF TypeOK, PCs, sts
<1> QED BY <1>0, <1>1, <1>u, <1>2, <1>3 DEF SuspensionOK, StaysSynchronized, SignalOK, sts

\* synchronize and desynchronize.
LEMMA SuspenderSet ==
  ASSUME SetInv, Synchronize \/ Suspender
  PROVE  SetInv'
<1> USE DEF SetInv
<1>0. pc' = pc /\ Members' = Members /\ Stopped' = Stopped /\ NTHREADS' = NTHREADS
      /\ NTHREADS_STOPPED' = NTHREADS_STOPPED /\ joins' = joins
  BY DEF Synchronize, Suspender, SemaphoreWait, Desynchronize, Members, Stopped, sts
<1>1. CASE Synchronize
  <2>1. TypeOK'
    BY <1>0, <1>1 DEF TypeOK, Synchronize, DropLocker
  <2>2. suspender = "idle" /\ wakeup = 0
    BY <1>1 DEF Synchronize, SignalOK, TypeOK
  <2>3. suspender' = "synchronized" => Members = Stopped
    BY <1>1, CountFacts DEF Synchronize, is_synchronized
  <2> QED BY <1>0, <1>1, <2>1, <2>2, <2>3
          DEF Synchronize, SuspensionOK, StaysSynchronized, SignalOK, TypeOK
<1>2. CASE SemaphoreWait
  <2>1. /\ wakeup = 1 /\ signals = 1 /\ wakeup' = 0 /\ suspender = "semaphore"
        /\ suspender' = "synchronized" /\ UNCHANGED <<sts, asleep, signals>>
    BY <1>2 DEF SemaphoreWait, SignalOK, TypeOK
  <2>2. TypeOK'
    BY <1>0, <2>1 DEF TypeOK, sts
  <2>3. SUSPEND_ALL /\ Members = Stopped
    BY <2>1 DEF SignalOK, SuspensionOK
  <2> QED BY <1>0, <2>1, <2>2, <2>3 DEF SuspensionOK, StaysSynchronized, SignalOK, sts
<1>3. CASE Desynchronize
  <2>1. /\ suspender = "synchronized" /\ SUSPEND_ALL' = FALSE /\ asleep' = {} /\ suspender' = "idle"
        /\ UNCHANGED <<wakeup, signals>>
    BY <1>3 DEF Desynchronize, WakeAll, DropLocker
  <2>2. TypeOK'
    BY <1>0, <2>1 DEF TypeOK
  <2>3. \A w \in Workers : pc[w] # "yield"
    BY <2>1 DEF StaysSynchronized, Members, Stopped
  <2> QED BY <1>0, <2>1, <2>2, <2>3 DEF SuspensionOK, StaysSynchronized, SignalOK, TypeOK
<1> QED BY <1>1, <1>2, <1>3 DEF Suspender

(* Every step keeps the invariant of the suspendible set. *)
LEMMA NextSet == SetInv /\ [Next]_vars => SetInv'
<1> SUFFICES ASSUME SetInv, [Next]_vars PROVE SetInv'
  OBVIOUS
<1>1. ASSUME NEW w \in Workers, Join(w) PROVE SetInv'
  <2>1. joins' \in [Workers -> 0 .. MaxJoins]
    BY <1>1, SuspendibleAssumption DEF Join, SetInv, TypeOK
  <2> QED BY <1>1, <2>1, PassSet DEF Join
<1>2. ASSUME NEW w \in Workers, JoinAgain(w) PROVE SetInv'
  <2>1. joins' \in [Workers -> 0 .. MaxJoins]
    BY <1>2 DEF JoinAgain, SetInv, TypeOK
  <2> QED BY <1>2, <2>1, PassSet DEF JoinAgain
<1>3. CASE UNCHANGED vars
  BY <1>3 DEF vars, sts, SetInv, TypeOK, SuspensionOK, StaysSynchronized, SignalOK, Members, Stopped
<1> QED BY <1>1, <1>2, <1>3, LeaveSet, YieldSet, ResumeSet, ShouldYieldSet, SuspenderSet
        DEF Next, Begins, Proceeds

(***************************************************************************)
(* While a suspension lasts all members of the SuspendibleThreadSet have   *)
(* yielded or left, whoever joins, leaves or wakes up meanwhile; synchronize *)
(* gets one signal at most, and none is left over for the next suspension. *)
(***************************************************************************)
THEOREM SuspensionHolds == Spec => []SetOK
<1>1. Init => SetInv BY InitSet
<1>2. SetInv /\ [Next]_vars => SetInv' BY NextSet
<1>3. SetInv => SetOK BY DEF SetInv, SetOK, SignalOK, OneSignal, TypeOK
<1> QED BY <1>1, <1>2, <1>3, PTL DEF Spec

\* A worker's step: nobody else starts or stops, and during a suspension members stay
\* members and others do not become one.
OwnStep(w) ==
  /\ suspender' = suspender
  /\ \A v \in Workers \ {w} : pc'[v] = pc[v]
  /\ suspender = "synchronized" => Members' = Members

(* Workers make such steps. *)
LEMMA WorkerSteps ==
  ASSUME SetInv, NEW w \in Workers, Begins(w) \/ Proceeds(w)
  PROVE  OwnStep(w)
<1> USE DEF SetInv, TypeOK, OwnStep, Goto
<1>0. suspender = "synchronized" => SUSPEND_ALL /\ pc[w] \notin {"in", "yield"}
  BY DEF SuspensionOK, StaysSynchronized, Members, Stopped
<1>1. ASSUME Pass(w), pc[w] \in {"out", "joining"}, suspender' = suspender PROVE OwnStep(w)
  BY <1>0, <1>1 DEF Pass, Members
<1>2. CASE Join(w) \/ JoinAgain(w)
  BY <1>1, <1>2 DEF Join, JoinAgain
<1>3. CASE Leave(w) \/ ShouldYield(w) \/ Yield(w)
  BY <1>0, <1>3 DEF Leave, ShouldYield, Yield
<1>4. CASE Resume(w)
  BY <1>0, <1>4 DEF Resume, Members
<1> QED BY <1>2, <1>3, <1>4 DEF Begins, Proceeds

(* Every step of the set is one of the pause, or none. *)
LEMMA NextPauses ==
  ASSUME SetInv, SetInv', [Next]_vars
  PROVE  [World!Next]_(World!vars)
<1> DEFINE AtWork == Members \ Stopped
<1> USE DEF SetInv
<1>1. ASSUME NEW w \in Workers, OwnStep(w) PROVE [World!Next]_(World!vars)
  <2>1. AtWork' = AtWork \cup {w} \/ AtWork' = AtWork \ {w}
    BY <1>1 DEF OwnStep, Members, Stopped
  <2>2. CASE suspender = "synchronized"
    <3>1. AtWork = {} /\ AtWork' = {}
      BY <1>1, <2>2 DEF OwnStep, StaysSynchronized
    <3> QED BY <1>1, <2>2, <3>1 DEF OwnStep, World!vars
  <2>3. CASE suspender # "synchronized"
    BY <1>1, <2>1, <2>3 DEF OwnStep, World!Next, World!Start, World!Stop
  <2> QED BY <2>2, <2>3
<1>2. CASE \E w \in Workers : Begins(w) \/ Proceeds(w)
  <2>1. PICK w \in Workers : Begins(w) \/ Proceeds(w)
    BY <1>2
  <2>2. OwnStep(w)
    BY <2>1, WorkerSteps
  <2> QED BY <1>1, <2>2
<1>3. CASE Synchronize \/ Suspender
  <2>1. Members' = Members /\ Stopped' = Stopped
    BY <1>3 DEF Synchronize, Suspender, SemaphoreWait, Desynchronize, Members, Stopped
  <2>2. suspender' = "synchronized" => AtWork = {}
    BY <2>1 DEF StaysSynchronized
  <2>3. CASE suspender # "synchronized" /\ suspender' = "synchronized"
    BY <2>1, <2>2, <2>3 DEF World!Next, World!Open
  <2>4. CASE suspender = "synchronized" /\ suspender' # "synchronized"
    BY <2>1, <2>4 DEF World!Next, World!Close
  <2>5. CASE (suspender = "synchronized") = (suspender' = "synchronized")
    BY <2>1, <2>5 DEF World!vars
  <2> QED BY <2>3, <2>4, <2>5
<1>4. CASE UNCHANGED vars
  BY <1>4 DEF vars, World!vars, Members, Stopped
<1> QED BY <1>2, <1>3, <1>4 DEF Next

(***************************************************************************)
(* A suspension is a pause for the members of the SuspendibleThreadSet: it *)
(* begins when none of them is at work, and until desynchronize none goes  *)
(* on, joins or leaves.                                                    *)
(***************************************************************************)
THEOREM SuspensionIsAPause == Spec => PauseSpec
<1>1. Init => SetInv BY InitSet
<1>2. SetInv /\ [Next]_vars => SetInv' BY NextSet
<1>3. Init => World!Init
  BY DEF Init, World!Init, Members
<1>4. SetInv /\ SetInv' /\ [Next]_vars => [World!Next]_(World!vars)
  BY NextPauses
<1> QED BY <1>1, <1>2, <1>3, <1>4, PTL DEF Spec, PauseSpec, World!Spec

-----------------------------------------------------------------------------
(***************************************************************************)
(* The dispatcher.                                                         *)
(***************************************************************************)
Starting == {w \in Pool!Ids : worker[w] = "start"}
Calls(n) == {c \in ran : c[1] = n}

\* Workers exist up to created; the next one exists while create_worker waits
\* for it, and the flag is set when that one has come, not before.
CreatedOK ==
  /\ \A w \in Pool!Ids : w <= created => worker[w] \notin {"none", "spawned"}
  /\ \A w \in Pool!Ids : w > created + 1 => worker[w] = "none"
  /\ coord # "handshake" =>
       /\ ~ready /\ ~coordAsleep
       /\ \A w \in Pool!Ids : w > created => worker[w] = "none"
  /\ coord = "handshake" =>
       /\ created < target
       /\ \/ worker[created + 1] = "spawned" /\ ~ready
          \/ worker[created + 1] = "wait" /\ ready /\ ~coordAsleep

\* Outside of coordinator_distribute_task nothing is left of any task.
QuietOK ==
  coord # "await" =>
    /\ task = 0 /\ startSem = 0 /\ endSem = 0 /\ not_finished = 0
    /\ Starting = {} /\ Pool!Busy = {}

\* Every worker asked for is a permit, a worker about to start, or has called work;
\* those who have not returned from it are counted.
AwaitOK ==
  coord = "await" =>
    /\ task = given /\ task # 0
    /\ startSem + Cardinality(Starting) + Cardinality(Calls(task)) = number
    /\ startSem + Cardinality(Starting) + Cardinality(Pool!Busy) = not_finished
    /\ endSem > 0 => endSem = 1 /\ not_finished = 0

\* Ids are taken from a counter, and tasks numbered in the order they are given.
RanOK ==
  /\ IsFiniteSet(ran)
  /\ ran \subseteq Nat \X Nat
  /\ \A c \in ran : c[1] <= given /\ c[2] < started

\* There is room for the task under way.
GivenOK ==
  /\ coord = "new" => number = 0
  /\ coord = "distribute" => given < MaxTasks
  /\ coord \in {"set_active", "handshake"} /\ number > 0 => given < MaxTasks

PoolInv == PoolTypeOK /\ CreatedOK /\ QuietOK /\ AwaitOK /\ RanOK /\ GivenOK

Labels == {"none", "spawned", "wait", "start", "work"}

\* The workers between their permit and the end of work are finitely many.
LEMMA PoolSets ==
  ASSUME PoolTypeOK
  PROVE  /\ worker \in [Pool!Ids -> Labels]
         /\ IsFiniteSet(Starting) /\ IsFiniteSet(Pool!Busy)
         /\ Cardinality(Starting) \in Nat /\ Cardinality(Pool!Busy) \in Nat
<1>1. IsFiniteSet(Pool!Ids)
  BY PoolAssumption, FS_Interval DEF Pool!Ids
<1>2. Starting \in SUBSET Pool!Ids /\ Pool!Busy \in SUBSET Pool!Ids
  BY DEF Starting, Pool!Busy
<1>3. IsFiniteSet(Starting) /\ IsFiniteSet(Pool!Busy)
  BY <1>1, <1>2, FS_Subset
<1> QED BY <1>3, FS_CardinalityType DEF PoolTypeOK, Pool!TypeOK, Labels

\* A worker that is neither about to start nor busy, before and after.
LEMMA QuietMove ==
  ASSUME PoolTypeOK, NEW w \in Pool!Ids, NEW label \in {"none", "spawned", "wait"},
         worker[w] \notin {"start", "work"}, worker' = [worker EXCEPT ![w] = label]
  PROVE  /\ worker' \in [Pool!Ids -> Labels]
         /\ Starting' = Starting /\ Pool!Busy' = Pool!Busy
<1>1. worker \in [Pool!Ids -> Labels] /\ label \in Labels
  BY PoolSets DEF Labels
<1> QED BY <1>1 DEF Starting, Pool!Busy

(* The invariant of the worker threads holds initially. *)
LEMMA InitPool == Pool!Init => PoolInv
<1> SUFFICES ASSUME Pool!Init PROVE PoolInv
  OBVIOUS
<1> USE DEF Pool!Init
<1>1. Starting = {} /\ Pool!Busy = {}
  BY DEF Starting, Pool!Busy
<1>2. PoolTypeOK
  <2>1. ready \in BOOLEAN /\ coordAsleep \in BOOLEAN
    OBVIOUS
  <2>2. worker \in [Pool!Ids -> {"none", "spawned", "wait", "start", "work"}]
    OBVIOUS
  <2> QED BY <2>1, <2>2, PoolAssumption DEF PoolTypeOK, Pool!TypeOK
<1>3. CreatedOK
  <2>1. ~ready /\ ~coordAsleep
    OBVIOUS
  <2>2. /\ created = 0 /\ coord = "new" /\ \A w \in Pool!Ids : worker[w] = "none"
        /\ \A w \in Pool!Ids : ~(w <= 0)
    BY PoolAssumption DEF Pool!Ids
  <2> QED BY <2>1, <2>2 DEF CreatedOK
<1>4. RanOK
  BY FS_EmptySet DEF RanOK
<1> QED BY <1>1, <1>2, <1>3, <1>4 DEF PoolInv, QuietOK, AwaitOK, GivenOK

(***************************************************************************)
(* The coordinator's steps.                                                *)
(***************************************************************************)
LEMMA InitializePool ==
  ASSUME PoolInv, Pool!InitializeWorkers
  PROVE  PoolInv'
<1> USE DEF PoolInv, Pool!InitializeWorkers, Pool!dispatch
<1>1. PoolTypeOK'
  BY PoolAssumption DEF PoolTypeOK, Pool!TypeOK
<1>2. Starting' = Starting /\ Pool!Busy' = Pool!Busy
  BY DEF Starting, Pool!Busy
<1>3. CreatedOK'
  BY DEF CreatedOK, Pool!Ids
<1>4. QuietOK' /\ AwaitOK'
  BY <1>2 DEF QuietOK, AwaitOK
<1>5. RanOK' /\ GivenOK'
  BY DEF RanOK, GivenOK
<1> QED BY <1>1, <1>3, <1>4, <1>5

\* create_worker spawns the next worker.
LEMMA SpawnPool ==
  ASSUME PoolInv, Pool!SpawnWorker
  PROVE  PoolInv'
<1> USE DEF PoolInv
<1>1. /\ coord = "set_active" /\ created < target /\ coord' = "handshake"
      /\ worker' = [worker EXCEPT ![created + 1] = "spawned"]
      /\ UNCHANGED <<created, active, target, restore, task, started, not_finished, startSem, endSem,
                     ready, coordAsleep, number, given, ran>>
  BY DEF Pool!SpawnWorker, Pool!pool, Pool!dispatch
<1>2. created \in Nat /\ created + 1 \in Pool!Ids /\ created < MaxWorkers
  BY <1>1, PoolAssumption DEF PoolTypeOK, Pool!TypeOK, Pool!Ids
<1>3. worker[created + 1] = "none" /\ ~ready
  BY <1>1, <1>2 DEF CreatedOK
<1>4. worker' \in [Pool!Ids -> Labels] /\ Starting' = Starting /\ Pool!Busy' = Pool!Busy
  BY <1>1, <1>2, <1>3, QuietMove
<1>5. PoolTypeOK'
  BY <1>1, <1>4 DEF PoolTypeOK, Pool!TypeOK, Labels
<1>6. CreatedOK'
  <2>1. worker'[created + 1] = "spawned" /\ \A w \in Pool!Ids : w # created + 1 => worker'[w] = worker[w]
    BY <1>1, <1>2, PoolSets
  <2> QED BY <1>1, <1>2, <1>3, <2>1 DEF CreatedOK, Pool!Ids
<1>7. QuietOK' /\ AwaitOK'
  BY <1>1, <1>4 DEF QuietOK, AwaitOK
<1>8. RanOK' /\ GivenOK'
  BY <1>1 DEF RanOK, GivenOK
<1> QED BY <1>5, <1>6, <1>7, <1>8

\* create_worker goes on only when the flag is set, by the worker it spawned.
LEMMA HandshakePool ==
  ASSUME PoolInv, Pool!Handshake
  PROVE  PoolInv'
<1> USE DEF PoolInv
<1>1. /\ coord = "handshake" /\ ~coordAsleep
      /\ UNCHANGED <<active, target, restore, task, started, not_finished, startSem, endSem,
                     worker, number, given, ran>>
  BY DEF Pool!Handshake, Pool!dispatch
<1>2. Starting' = Starting /\ Pool!Busy' = Pool!Busy
  BY <1>1 DEF Starting, Pool!Busy
<1>3. created \in Nat /\ created + 1 \in Pool!Ids /\ created < MaxWorkers
  BY <1>1, PoolAssumption DEF PoolTypeOK, Pool!TypeOK, Pool!Ids, CreatedOK
<1>4. CASE ~ready
  <2>1. coordAsleep' = TRUE /\ UNCHANGED <<created, ready, coord>>
    BY <1>4 DEF Pool!Handshake
  <2>2. PoolTypeOK'
    BY <1>1, <2>1 DEF PoolTypeOK, Pool!TypeOK
  <2>3. CreatedOK'
    BY <1>1, <1>3, <1>4, <2>1 DEF CreatedOK, Pool!Ids
  <2> QED BY <1>1, <1>2, <2>1, <2>2, <2>3 DEF QuietOK, AwaitOK, RanOK, GivenOK
<1>5. CASE ready
  <2>1. ready' = FALSE /\ created' = created + 1 /\ coord' = "set_active" /\ coordAsleep' = coordAsleep
    BY <1>5 DEF Pool!Handshake
  <2>2. PoolTypeOK'
    <3>1. created' \in 0 .. MaxWorkers
      BY <1>3, <2>1, PoolAssumption
    <3>2. ready' \in BOOLEAN
      BY <2>1
    <3> QED BY <1>1, <2>1, <3>1, <3>2 DEF PoolTypeOK, Pool!TypeOK
  <2>3. worker[created + 1] = "wait"
    BY <1>1, <1>5 DEF CreatedOK
  <2>4. CreatedOK'
    BY <1>1, <1>3, <2>1, <2>3 DEF CreatedOK, Pool!Ids
  <2> QED BY <1>1, <1>2, <2>1, <2>2, <2>4 DEF QuietOK, AwaitOK, RanOK, GivenOK
<1> QED BY <1>4, <1>5

(* The number of active workers is set. *)
LEMMA SetActivePool ==
  ASSUME PoolInv, Pool!SetActive
  PROVE  PoolInv'
<1> USE DEF PoolInv
<1>1. /\ coord = "set_active" /\ active' = target
      /\ coord' = IF number > 0 THEN "distribute" ELSE "idle"
      /\ UNCHANGED <<created, target, restore, task, started, not_finished, startSem, endSem,
                     ready, coordAsleep, worker, number, given, ran>>
  BY DEF Pool!SetActive, Pool!dispatch
<1>2. Starting' = Starting /\ Pool!Busy' = Pool!Busy
  BY <1>1 DEF Starting, Pool!Busy
<1>3. PoolTypeOK'
  BY <1>1 DEF PoolTypeOK, Pool!TypeOK
<1>4. CreatedOK'
  BY <1>1 DEF CreatedOK, Pool!Ids
<1> QED BY <1>1, <1>2, <1>3, <1>4 DEF QuietOK, AwaitOK, RanOK, GivenOK

(* A task is given, with or without a number of workers. *)
LEMMA RunTaskPool ==
  ASSUME PoolInv, Pool!RunTask \/ \E n \in Pool!Ids : Pool!RunTaskWWorkers(n)
  PROVE  PoolInv'
<1> USE DEF PoolInv
<1>1. /\ coord = "idle" /\ given < MaxTasks /\ coord' \in {"distribute", "set_active"}
      /\ number' \in 0 .. MaxWorkers /\ restore' = active /\ target' \in 0 .. MaxWorkers
      /\ UNCHANGED <<created, active, task, started, not_finished, startSem, endSem,
                     ready, coordAsleep, worker, given, ran>>
  BY PoolAssumption DEF Pool!RunTask, Pool!RunTaskWWorkers, Pool!dispatch, Pool!Ids, PoolTypeOK, Pool!TypeOK
<1>2. Starting' = Starting /\ Pool!Busy' = Pool!Busy
  BY <1>1 DEF Starting, Pool!Busy
<1>3. PoolTypeOK'
  BY <1>1 DEF PoolTypeOK, Pool!TypeOK
<1>4. CreatedOK'
  BY <1>1 DEF CreatedOK, Pool!Ids
<1> QED BY <1>1, <1>2, <1>3, <1>4 DEF QuietOK, AwaitOK, RanOK, GivenOK

\* coordinator_distribute_task: number permits, and as many workers to wait for.
LEMMA DistributePool ==
  ASSUME PoolInv, Pool!Distribute
  PROVE  PoolInv'
<1> USE DEF PoolInv
<1>1. /\ coord = "distribute" /\ coord' = "await" /\ given' = given + 1 /\ task' = given + 1
      /\ not_finished' = number /\ startSem' = startSem + number
      /\ UNCHANGED <<created, active, target, restore, started, endSem, ready, coordAsleep, worker,
                     number, ran>>
  BY DEF Pool!Distribute, Pool!pool
<1>2. given \in Nat /\ given < MaxTasks /\ number \in Nat
  BY <1>1 DEF PoolTypeOK, Pool!TypeOK, GivenOK
<1>3. startSem = 0 /\ endSem = 0 /\ Starting = {} /\ Pool!Busy = {}
  BY <1>1 DEF QuietOK
<1>4. Starting' = {} /\ Pool!Busy' = {}
  BY <1>1, <1>3 DEF Starting, Pool!Busy
<1>5. PoolTypeOK'
  BY <1>1, <1>2, <1>3, PoolAssumption DEF PoolTypeOK, Pool!TypeOK
<1>6. CreatedOK'
  BY <1>1 DEF CreatedOK, Pool!Ids
<1>7. RanOK' /\ GivenOK' /\ QuietOK'
  BY <1>1, <1>2 DEF RanOK, GivenOK, QuietOK
<1>8. Calls(task)' = {}
  BY <1>1, <1>2 DEF Calls, RanOK
<1>9. AwaitOK'
  BY <1>1, <1>2, <1>3, <1>4, <1>8, FS_EmptySet DEF AwaitOK
<1> QED BY <1>5, <1>6, <1>7, <1>9

\* The end of the wait: all permits taken, all workers back.
LEMMA AwaitPool ==
  ASSUME PoolInv, Pool!Await
  PROVE  PoolInv'
<1> USE DEF PoolInv
<1>1. /\ coord = "await" /\ endSem > 0 /\ endSem' = endSem - 1 /\ task' = 0 /\ target' = restore
      /\ number' = 0 /\ coord' = "set_active"
      /\ UNCHANGED <<created, active, restore, started, not_finished, startSem, ready, coordAsleep,
                     worker, given, ran>>
  BY DEF Pool!Await
<1>2. endSem = 1 /\ not_finished = 0
  BY <1>1 DEF AwaitOK
<1>3. startSem = 0 /\ Cardinality(Starting) = 0 /\ Cardinality(Pool!Busy) = 0
  BY <1>1, <1>2, PoolSets DEF AwaitOK, PoolTypeOK, Pool!TypeOK
<1>4. Starting = {} /\ Pool!Busy = {}
  BY <1>3, PoolSets, FS_EmptySet
<1>5. Starting' = {} /\ Pool!Busy' = {}
  BY <1>1, <1>4 DEF Starting, Pool!Busy
<1>6. PoolTypeOK'
  BY <1>1, <1>2, PoolAssumption DEF PoolTypeOK, Pool!TypeOK
<1>7. CreatedOK'
  BY <1>1 DEF CreatedOK, Pool!Ids
<1>8. QuietOK'
  BY <1>1, <1>2, <1>3, <1>5 DEF QuietOK
<1> QED BY <1>1, <1>6, <1>7, <1>8 DEF AwaitOK, RanOK, GivenOK

(***************************************************************************)
(* The workers' steps.                                                     *)
(***************************************************************************)
LEMMA RunPool ==
  ASSUME PoolInv, NEW w \in Pool!Ids, Pool!Run(w)
  PROVE  PoolInv'
<1> USE DEF PoolInv
<1>1. /\ worker[w] = "spawned" /\ ready' = TRUE /\ coordAsleep' = FALSE
      /\ worker' = [worker EXCEPT ![w] = "wait"]
      /\ UNCHANGED <<created, active, target, restore, task, started, not_finished, startSem, endSem,
                     coord, number, given, ran>>
  BY DEF Pool!Run, Pool!Goto, Pool!pool, Pool!dispatch
<1>2. created \in Nat /\ w \in Nat
  BY DEF PoolTypeOK, Pool!TypeOK, Pool!Ids
<1>3. coord = "handshake" /\ w = created + 1
  BY <1>1, <1>2 DEF CreatedOK
<1>4. worker' \in [Pool!Ids -> Labels] /\ Starting' = Starting /\ Pool!Busy' = Pool!Busy
  BY <1>1, QuietMove
<1>5. PoolTypeOK'
  BY <1>1, <1>4 DEF PoolTypeOK, Pool!TypeOK, Labels
<1>6. CreatedOK'
  <2>1. worker'[w] = "wait" /\ \A v \in Pool!Ids : v # w => worker'[v] = worker[v]
    BY <1>1, PoolSets
  <2> QED BY <1>1, <1>2, <1>3, <2>1 DEF CreatedOK, Pool!Ids
<1> QED BY <1>1, <1>3, <1>4, <1>5, <1>6 DEF QuietOK, AwaitOK, RanOK, GivenOK

\* The permits, the handshake and what is counted, for a step within a task.
LEMMA TaskStep ==
  ASSUME PoolInv, NEW w \in Pool!Ids, worker[w] \in {"wait", "start", "work"},
         NEW label \in {"wait", "start", "work"}, worker' = [worker EXCEPT ![w] = label],
         coord = "await",
         UNCHANGED <<created, active, target, restore, task, ready, coordAsleep, coord, number, given>>
  PROVE  worker' \in [Pool!Ids -> Labels] /\ CreatedOK' /\ QuietOK' /\ GivenOK'
<1> USE DEF PoolInv
<1>1. /\ worker \in [Pool!Ids -> Labels] /\ worker'[w] = label
      /\ \A v \in Pool!Ids : v # w => worker'[v] = worker[v]
  BY PoolSets
<1>2. created \in Nat /\ w \in Nat
  BY DEF PoolTypeOK, Pool!TypeOK, Pool!Ids
<1>3. CreatedOK'
  BY <1>1, <1>2 DEF CreatedOK, Pool!Ids
<1> QED BY <1>1, <1>3 DEF QuietOK, GivenOK, Labels

(* A worker waits for the start semaphore. *)
LEMMA StartWaitPool ==
  ASSUME PoolInv, NEW w \in Pool!Ids, Pool!StartWait(w)
  PROVE  PoolInv'
<1> USE DEF PoolInv
<1>1. /\ worker[w] = "wait" /\ startSem > 0 /\ startSem' = startSem - 1
      /\ worker' = [worker EXCEPT ![w] = "start"]
      /\ UNCHANGED <<created, active, target, restore, task, started, not_finished, endSem,
                     ready, coordAsleep, coord, number, given, ran>>
  BY DEF Pool!StartWait, Pool!Goto, Pool!pool
<1>2. coord = "await" /\ startSem \in Nat
  BY <1>1 DEF QuietOK, PoolTypeOK, Pool!TypeOK
<1>3. worker' \in [Pool!Ids -> Labels] /\ CreatedOK' /\ QuietOK' /\ GivenOK'
  BY <1>1, <1>2, TaskStep
<1>4. w \notin Starting /\ Starting' = Starting \cup {w} /\ Pool!Busy' = Pool!Busy
  BY <1>1, PoolSets DEF Starting, Pool!Busy
<1>5. Cardinality(Starting') = Cardinality(Starting) + 1
  BY <1>4, PoolSets, FS_AddElement
<1>6. PoolTypeOK'
  BY <1>1, <1>2, <1>3 DEF PoolTypeOK, Pool!TypeOK, Labels
<1>7. Calls(task)' = Calls(task)
  BY <1>1 DEF Calls
<1>8. AwaitOK'
  <2>1. /\ startSem' + Cardinality(Starting') = startSem + Cardinality(Starting)
    BY <1>1, <1>2, <1>5, PoolSets
  <2> QED BY <1>1, <1>2, <1>4, <1>7, <2>1 DEF AwaitOK
<1> QED BY <1>1, <1>3, <1>6, <1>8 DEF RanOK

(* A worker takes its number and begins. *)
LEMMA StartWorkPool ==
  ASSUME PoolInv, NEW w \in Pool!Ids, Pool!StartWork(w)
  PROVE  PoolInv'
<1> USE DEF PoolInv
<1>1. worker[w] = "start" /\ w \in Starting /\ w \notin Pool!Busy
  BY DEF Pool!StartWork, Starting, Pool!Busy
<1>2. coord = "await" /\ task # 0 /\ task = given
  BY <1>1 DEF QuietOK, AwaitOK
<1>3. /\ started' = started + 1 /\ ran' = ran \cup {<<task, started>>}
      /\ worker' = [worker EXCEPT ![w] = "work"]
      /\ UNCHANGED <<created, active, target, restore, task, not_finished, startSem, endSem,
                     ready, coordAsleep, coord, number, given>>
  BY <1>2 DEF Pool!StartWork, Pool!Goto, Pool!pool
<1>4. worker' \in [Pool!Ids -> Labels] /\ CreatedOK' /\ QuietOK' /\ GivenOK'
  BY <1>1, <1>2, <1>3, TaskStep
<1>5. Starting' = Starting \ {w} /\ Pool!Busy' = Pool!Busy \cup {w}
  BY <1>1, <1>3, PoolSets DEF Starting, Pool!Busy
<1>6. Cardinality(Starting') = Cardinality(Starting) - 1 /\ Cardinality(Pool!Busy') = Cardinality(Pool!Busy) + 1
  BY <1>1, <1>5, PoolSets, FS_AddElement, FS_RemoveElement
<1>7. started \in Nat /\ task \in Nat /\ given \in Nat
  BY DEF PoolTypeOK, Pool!TypeOK
<1>8. PoolTypeOK'
  BY <1>3, <1>4, <1>7 DEF PoolTypeOK, Pool!TypeOK, Labels
<1>9. Cardinality(Calls(task)') = Cardinality(Calls(task)) + 1 /\ Cardinality(Calls(task)) \in Nat
  <2>1. <<task, started>> \notin Calls(task)
    BY <1>7 DEF Calls, RanOK
  <2>2. Calls(task)' = Calls(task) \cup {<<task, started>>}
    BY <1>3 DEF Calls
  <2>3. IsFiniteSet(Calls(task))
    <3>1. Calls(task) \in SUBSET ran BY DEF Calls
    <3> QED BY <3>1, FS_Subset DEF RanOK
  <2> QED BY <2>1, <2>2, <2>3, FS_AddElement, FS_CardinalityType
<1>10. RanOK'
  <2>1. IsFiniteSet(ran')
    BY <1>3, FS_AddElement DEF RanOK
  <2>2. ran' \subseteq Nat \X Nat
    BY <1>3, <1>7 DEF RanOK
  <2>3. \A c \in ran' : c[1] <= given' /\ c[2] < started'
    <3> SUFFICES ASSUME NEW c \in ran' PROVE c[1] <= given /\ c[2] < started + 1
      BY <1>3
    <3>1. CASE c \in ran
      BY <3>1, <1>7 DEF RanOK
    <3>2. CASE c = <<task, started>>
      BY <3>2, <1>2, <1>7
    <3> QED BY <1>3, <3>1, <3>2
  <2> QED BY <2>1, <2>2, <2>3 DEF RanOK
<1>11. AwaitOK'
  <2>1. startSem \in Nat /\ number \in Nat
    BY DEF PoolTypeOK, Pool!TypeOK
  <2>2. /\ startSem' + Cardinality(Starting') + Cardinality(Calls(task)') = number'
        /\ startSem' + Cardinality(Starting') + Cardinality(Pool!Busy') = not_finished'
    BY <1>2, <1>3, <1>6, <1>9, <2>1, PoolSets DEF AwaitOK
  <2> QED BY <1>2, <1>3, <2>2 DEF AwaitOK
<1> QED BY <1>4, <1>8, <1>10, <1>11

(* A worker finishes; the last one wakes the coordinator. *)
LEMMA FinishPool ==
  ASSUME PoolInv, NEW w \in Pool!Ids, Pool!Finish(w)
  PROVE  PoolInv'
<1> USE DEF PoolInv
<1>1. /\ worker[w] = "work" /\ not_finished' = not_finished - 1
      /\ endSem' = IF not_finished = 1 THEN endSem + 1 ELSE endSem
      /\ worker' = [worker EXCEPT ![w] = "wait"]
      /\ UNCHANGED <<created, active, target, restore, task, started, startSem,
                     ready, coordAsleep, coord, number, given, ran>>
  BY DEF Pool!Finish, Pool!Goto, Pool!pool
<1>2. w \in Pool!Busy /\ w \notin Starting
  BY <1>1 DEF Starting, Pool!Busy
<1>3. coord = "await"
  BY <1>2 DEF QuietOK
<1>4. worker' \in [Pool!Ids -> Labels] /\ CreatedOK' /\ QuietOK' /\ GivenOK'
  BY <1>1, <1>3, TaskStep
<1>5. Starting' = Starting /\ Pool!Busy' = Pool!Busy \ {w}
  BY <1>1, PoolSets DEF Starting, Pool!Busy
<1>6. Cardinality(Pool!Busy') = Cardinality(Pool!Busy) - 1
  BY <1>2, <1>5, PoolSets, FS_RemoveElement
<1>7. Cardinality(Pool!Busy) # 0
  BY <1>2, PoolSets, FS_EmptySet
<1>8. /\ startSem \in Nat /\ number \in Nat /\ endSem \in Nat /\ not_finished \in 0 .. MaxWorkers
      /\ not_finished # 0 /\ endSem = 0
  BY <1>3, <1>7, PoolSets DEF AwaitOK, PoolTypeOK, Pool!TypeOK
<1>9. PoolTypeOK'
  BY <1>1, <1>4, <1>8, PoolAssumption DEF PoolTypeOK, Pool!TypeOK, Labels
<1>10. Calls(task)' = Calls(task)
  BY <1>1 DEF Calls
<1>11. AwaitOK'
  <2>1. startSem' + Cardinality(Starting') + Cardinality(Pool!Busy') = not_finished'
    BY <1>1, <1>3, <1>5, <1>6, <1>8, PoolSets DEF AwaitOK
  <2> QED BY <1>1, <1>3, <1>5, <1>8, <1>10, <2>1 DEF AwaitOK
<1> QED BY <1>1, <1>4, <1>9, <1>11 DEF RanOK

(* Every step keeps the invariant of the worker threads. *)
LEMMA NextPool == PoolInv /\ [Pool!Next]_(Pool!vars) => PoolInv'
<1> SUFFICES ASSUME PoolInv, [Pool!Next]_(Pool!vars) PROVE PoolInv'
  OBVIOUS
<1>1. CASE UNCHANGED Pool!vars
  BY <1>1 DEF Pool!vars, Pool!pool, Pool!dispatch, PoolInv, PoolTypeOK, Pool!TypeOK, CreatedOK,
              QuietOK, AwaitOK, RanOK, GivenOK, Starting, Calls, Pool!Busy
<1>2. CASE Pool!Next
  BY <1>2, InitializePool, SpawnPool, HandshakePool, SetActivePool, RunTaskPool, DistributePool,
     AwaitPool, RunPool, StartWaitPool, StartWorkPool, FinishPool
     DEF Pool!Next, Pool!Worker, Pool!Coordinator
<1> QED BY <1>1, <1>2

(***************************************************************************)
(* run_task returns after work was called once, with an id of its own, for *)
(* each worker asked for; no worker uses the task after that, no permit    *)
(* is left, the count of unfinished workers never wraps, and create_worker *)
(* is answered by the worker it created.                                   *)
(***************************************************************************)
THEOREM TasksDoneOnce == Pool!Spec => []PoolOK
<1>1. Pool!Init => PoolInv BY InitPool
<1>2. PoolInv /\ [Pool!Next]_(Pool!vars) => PoolInv' BY NextPool
<1>3. PoolInv => PoolOK
  <2> SUFFICES ASSUME PoolInv PROVE PoolOK
    OBVIOUS
  <2> USE DEF PoolInv
  <2>1. TaskAlive
    BY DEF TaskAlive, Pool!TaskAlive, QuietOK, AwaitOK, Starting, Pool!Busy
  <2>2. WorkDoneOnce
    <3> SUFFICES ASSUME coord = "await", endSem > 0
                 PROVE  Pool!CallsOf(task) = number /\ startSem = 0 /\ Pool!Busy = {}
      BY DEF WorkDoneOnce, Pool!WorkDoneOnce
    <3>1. /\ startSem \in Nat /\ not_finished = 0
          /\ startSem + Cardinality(Starting) + Cardinality(Pool!Busy) = 0
          /\ startSem + Cardinality(Starting) + Cardinality(Calls(task)) = number
      BY DEF AwaitOK, PoolTypeOK, Pool!TypeOK
    <3>2. startSem = 0 /\ Cardinality(Starting) = 0 /\ Cardinality(Pool!Busy) = 0
      BY <3>1, PoolSets
    <3>3. Cardinality(Calls(task)) \in Nat
      <4>1. Calls(task) \in SUBSET ran BY DEF Calls
      <4> QED BY <4>1, FS_Subset, FS_CardinalityType DEF RanOK
    <3>4. Cardinality(Calls(task)) = number
      BY <3>1, <3>2, <3>3
    <3>5. Pool!Busy = {}
      BY <3>2, PoolSets, FS_EmptySet
    <3>6. Pool!CallsOf(task) = Cardinality(Calls(task))
      BY DEF Pool!CallsOf, Calls, Pool!Cardinality, Cardinality
    <3> QED BY <3>2, <3>4, <3>5, <3>6
  <2>3. HandshakeMatches
    BY DEF HandshakeMatches, Pool!HandshakeMatches, CreatedOK
  <2> QED BY <2>1, <2>2, <2>3 DEF PoolOK
<1> QED BY <1>1, <1>2, <1>3, PTL DEF Pool!Spec

-----------------------------------------------------------------------------
(***************************************************************************)
(* Weak references and finalizers.                                         *)
(***************************************************************************)
Kinds == {"free", "plain", "finalizable", "weak"}
Links == [head : Cells \cup {Null}, next : [Cells -> Cells \cup {Null}]]

RefTypes ==
  /\ kind \in [Cells -> Kinds]
  /\ ptr \in [Cells -> Cells \cup {Null}]
  /\ weak \in Links /\ fin \in Links
  /\ linking \in [Threads -> {RF!NoCall} \cup [node : Cells, old : Cells \cup {Null}]]
  /\ handles \in [Threads -> SUBSET Cells]
  /\ phase \in {"idle", "mark", "weak", "fin", "sweep", "cancelled"}
  /\ loop \in [at : Cells \cup {Null}, tail : Cells \cup {Null}, full : BOOLEAN]
  /\ marked \subseteq Cells /\ unswept \subseteq Cells
  /\ crashed \in BOOLEAN
  /\ drops \in [Cells -> Nat]

\* A list has no cycle: no entry leads to the head, and no two to the same entry.
Acyclic(l) ==
  /\ \A c \in RF!Chain(l) : l.next[c] = Null \/ l.next[c] # l.head
  /\ \A c, d \in RF!Chain(l) : l.next[c] = l.next[d] /\ l.next[c] # Null => c = d

ListsOK ==
  /\ Acyclic(weak) /\ Acyclic(fin)
  /\ \A w \in RF!Chain(weak) : kind[w] = "weak"
  /\ \A f \in RF!Chain(fin) : kind[f] = "finalizable"

Nodes == {linking[m].node : m \in {n \in Threads : ~RF!Idle(n)}}

\* What a thread is linking is an object it alone holds, on neither list yet.
LinkingOK ==
  \A m \in Threads : ~RF!Idle(m) =>
    LET c == linking[m].node IN
    /\ c \in handles[m] /\ kind[c] \in {"weak", "finalizable"}
    /\ c \notin RF!Chain(weak) \cup RF!Chain(fin)
    /\ \A n \in Threads \ {m} : c \notin handles[n]
    /\ kind[c] = "weak" => ptr[c] \in handles[m] /\ kind[ptr[c]] # "weak"

HeldOK ==
  \A c \in RF!Held :
    /\ kind[c] # "free" /\ drops[c] = 0
    /\ kind[c] = "weak" => c \in RF!Chain(weak) \cup Nodes

TargetsOK ==
  \A w \in RF!Chain(weak) : ptr[w] # Null =>
    kind[ptr[w]] \notin {"free", "weak"} /\ drops[ptr[w]] = 0 /\ ptr[w] \notin Nodes

\* A finalizer is pending as long as it has not run.
DropsOK ==
  \A c \in Cells : kind[c] = "finalizable" =>
    /\ drops[c] \in {0, 1}
    /\ drops[c] = 0 <=> c \in RF!Chain(fin) \cup Nodes

\* What a sweep may free is of no use to anybody.
SweepOK ==
  phase = "sweep" => \A c \in unswept \ marked :
    /\ c \notin RF!Held \cup RF!Chain(weak) \cup RF!Chain(fin)
    /\ \A w \in RF!Chain(weak) : ptr[w] # c

Cursor(l, tail, at) ==
  IF tail = Null THEN at = l.head ELSE tail \in RF!Chain(l) /\ l.next[tail] = at
CursorOK(l) == Cursor(l, loop.tail, loop.at)

Visited(l) == RF!Chain(l) \ RF!From(l.next, loop.at)
Kept(ws) == \A w \in ws : w \in marked /\ (ptr[w] = Null \/ ptr[w] \in marked)

PauseOK ==
  /\ phase \in {"weak", "fin"} => (\A m \in Threads : RF!Idle(m)) /\ RF!Held \subseteq marked
  /\ phase = "weak" => CursorOK(weak) /\ Kept(Visited(weak))
  /\ phase = "fin" => Kept(RF!Chain(weak)) /\ CursorOK(fin) /\ Visited(fin) \subseteq marked

RefInv == RefTypes /\ ListsOK /\ LinkingOK /\ HeldOK /\ TargetsOK /\ DropsOK /\ SweepOK /\ PauseOK

(***************************************************************************)
(* Lists.  An entry leads to a set of entries that is closed and the least *)
(* such set.                                                               *)
(***************************************************************************)
Nexts == [Cells -> Cells \cup {Null}]

\* S is closed under the next of its members, and has c unless c is Null.
ClosedFrom(S, n, c) == /\ c = Null \/ c \in S
                       /\ \A e \in S : n[e] = Null \/ n[e] \in S

\* What From computes: the smallest closed set.
LEMMA FromFacts ==
  ASSUME NEW n \in Nexts, NEW c \in Cells \cup {Null}
  PROVE  /\ RF!From(n, c) \subseteq Cells
         /\ ClosedFrom(RF!From(n, c), n, c)
         /\ \A S \in SUBSET Cells : ClosedFrom(S, n, c) => RF!From(n, c) \subseteq S
<1>1. \A S \in SUBSET Cells :
        (({c} \cup {n[e] : e \in S}) \ {Null} \subseteq S) <=> ClosedFrom(S, n, c)
  BY DEF ClosedFrom
<1>2. RF!From(n, c) = {d \in Cells : \A S \in SUBSET Cells : ClosedFrom(S, n, c) => d \in S}
  BY <1>1 DEF RF!From
<1>3. ClosedFrom(RF!From(n, c), n, c)
  <2>1. c = Null \/ c \in RF!From(n, c)
    BY <1>2 DEF ClosedFrom
  <2>2. ASSUME NEW e \in RF!From(n, c), n[e] # Null PROVE n[e] \in RF!From(n, c)
    <3>1. e \in Cells /\ n[e] \in Cells
      BY <1>2, <2>2 DEF Nexts
    <3> QED BY <1>2, <2>2, <3>1 DEF ClosedFrom
  <2> QED BY <2>1, <2>2 DEF ClosedFrom
<1> QED BY <1>2, <1>3

\* An entry leads to itself and to where the next one leads.
LEMMA FromNext ==
  ASSUME NEW n \in Nexts, NEW c \in Cells
  PROVE  RF!From(n, c) = {c} \cup RF!From(n, n[c]) /\ c # Null /\ n[c] \in Cells \cup {Null}
<1>0. c # Null /\ n[c] \in Cells \cup {Null}
  BY NullAssumption DEF Nexts
<1>1. ClosedFrom({c} \cup RF!From(n, n[c]), n, c)
  BY <1>0, FromFacts DEF ClosedFrom
<1>2. RF!From(n, c) \subseteq {c} \cup RF!From(n, n[c])
  BY <1>0, <1>1, FromFacts
<1>3. c \in RF!From(n, c) /\ ClosedFrom(RF!From(n, c), n, n[c])
  BY <1>0, FromFacts DEF ClosedFrom
<1>4. RF!From(n, n[c]) \subseteq RF!From(n, c)
  BY <1>0, <1>3, FromFacts
<1> QED BY <1>0, <1>2, <1>3, <1>4

\* Nothing follows the end of a list.
LEMMA FromNull == ASSUME NEW n \in Nexts PROVE RF!From(n, Null) = {}
<1>1. ClosedFrom({}, n, Null)
  BY DEF ClosedFrom
<1> QED BY <1>1, FromFacts

\* Only the entries on the way matter.
LEMMA FromFrame ==
  ASSUME NEW n \in Nexts, NEW k \in Nexts, NEW c \in Cells \cup {Null},
         \A e \in RF!From(n, c) : k[e] = n[e]
  PROVE  RF!From(k, c) = RF!From(n, c)
<1>1. ClosedFrom(RF!From(n, c), k, c)
  BY FromFacts DEF ClosedFrom
<1>2. RF!From(k, c) \subseteq RF!From(n, c)
  BY <1>1, FromFacts
<1>3. ClosedFrom(RF!From(k, c), n, c)
  BY <1>2, FromFacts DEF ClosedFrom
<1> QED BY <1>2, <1>3, FromFacts

\* What an entry on the way leads to is on the way.
LEMMA FromWithin ==
  ASSUME NEW n \in Nexts, NEW c \in Cells \cup {Null}, NEW d \in RF!From(n, c)
  PROVE  RF!From(n, d) \subseteq RF!From(n, c) /\ RF!From(n, n[d]) \subseteq RF!From(n, c)
<1>1. d \in Cells /\ n[d] \in Cells \cup {Null}
  BY FromFacts DEF Nexts
<1>2. ClosedFrom(RF!From(n, c), n, d) /\ ClosedFrom(RF!From(n, c), n, n[d])
  BY <1>1, FromFacts DEF ClosedFrom
<1> QED BY <1>1, <1>2, FromFacts

\* No entry of an acyclic list leads back to itself.
LEMMA NoWayBack ==
  ASSUME NEW l \in Links, Acyclic(l), NEW x \in RF!Chain(l)
  PROVE  x \notin RF!From(l.next, l.next[x])
<1> DEFINE n == l.next
           h == l.head
           C == RF!Chain(l)
           P == {y \in C : y \notin RF!From(n, n[y])}
<1>0. n \in Nexts /\ h \in Cells \cup {Null} /\ C = RF!From(n, h) /\ C \subseteq Cells
  <2>1. n \in Nexts /\ h \in Cells \cup {Null}
    BY DEF Links, Nexts
  <2> QED BY <2>1, FromFacts DEF RF!Chain
<1>a. /\ \A c \in C : n[c] = Null \/ n[c] # h
      /\ \A c, d \in C : n[c] = n[d] /\ n[c] # Null => c = d
  BY DEF Acyclic
<1> HIDE DEF n, h, C
<1>1. h = Null \/ h \in P
  <2> SUFFICES ASSUME h # Null, h \in RF!From(n, n[h]) PROVE FALSE
    BY <1>0, FromFacts DEF ClosedFrom
  <2>1. h \in C /\ n[h] # h /\ n[h] \in Cells \cup {Null}
    BY <1>0, <1>a, FromFacts DEF ClosedFrom, Nexts
  <2>2. RF!From(n, n[h]) \subseteq C
    BY <1>0, <2>1, FromWithin
  <2>3. ClosedFrom(RF!From(n, n[h]) \ {h}, n, n[h])
    BY <1>0, <1>a, <2>1, <2>2, FromFacts DEF ClosedFrom
  <2> QED BY <1>0, <2>1, <2>3, FromFacts
<1>2. ASSUME NEW y \in P, n[y] # Null PROVE n[y] \in P
  <2> DEFINE z == n[y]
  <2>1. y \in C /\ z \in C /\ z \in Cells /\ y \notin RF!From(n, z) /\ n[z] \in Cells \cup {Null}
    BY <1>0, <1>2, FromFacts DEF ClosedFrom, Nexts
  <2> SUFFICES ASSUME z \in RF!From(n, n[z]) PROVE FALSE
    BY <2>1
  <2>2. RF!From(n, z) = {z} \cup RF!From(n, n[z]) /\ RF!From(n, z) \subseteq C
    BY <1>0, <2>1, FromNext, FromWithin
  <2>3. y \notin RF!From(n, n[z]) /\ z # y
    BY <2>1, <2>2
  <2>4. n[z] # z
    BY <1>a, <1>2, <2>1, <2>3
  <2>5. ClosedFrom(RF!From(n, n[z]) \ {z}, n, n[z])
    <3>1. \A e \in RF!From(n, n[z]) : n[e] # z
      BY <1>a, <1>2, <2>1, <2>2, <2>3
    <3> QED BY <1>0, <2>1, <2>4, <3>1, FromFacts DEF ClosedFrom
  <2>6. RF!From(n, n[z]) \subseteq Cells
    BY <1>0, <2>1, FromFacts
  <2> QED BY <1>0, <2>1, <2>5, <2>6, FromFacts
<1>3. ClosedFrom(P, n, h) /\ P \in SUBSET Cells
  BY <1>0, <1>1, <1>2 DEF ClosedFrom
<1>4. C \subseteq P
  BY <1>0, <1>3, FromFacts
<1> QED BY <1>4 DEF C, n

\* The entries of a list start with its head, and what follows one is one.
LEMMA ChainFacts ==
  ASSUME NEW l \in Links
  PROVE  /\ l.next \in Nexts /\ l.head \in Cells \cup {Null}
         /\ RF!Chain(l) = RF!From(l.next, l.head) /\ RF!Chain(l) \subseteq Cells
         /\ l.head = Null \/ l.head \in RF!Chain(l)
         /\ \A c \in RF!Chain(l) : l.next[c] \in RF!Chain(l) \cup {Null}
<1>1. l.next \in Nexts /\ l.head \in Cells \cup {Null}
  BY DEF Links, Nexts
<1> QED BY <1>1, FromFacts DEF RF!Chain, ClosedFrom

\* An exchange of the head adds one entry in front.
LEMMA PushedFacts ==
  ASSUME NEW l \in Links, Acyclic(l), NEW c \in Cells, c \notin RF!Chain(l)
  PROVE  LET r == RF!Pushed(l, c, l.head)
         IN  r \in Links /\ Acyclic(r) /\ RF!Chain(r) = RF!Chain(l) \cup {c} /\ r.head = c
<1> DEFINE n == l.next
           k == [n EXCEPT ![c] = l.head]
           r == [head |-> c, next |-> k]
<1>1. RF!Pushed(l, c, l.head) = r
  BY DEF RF!Pushed
<1>2. n \in Nexts /\ k \in Nexts /\ r \in Links /\ k[c] = l.head
  BY ChainFacts DEF Nexts, Links
<1>3. \A e \in RF!Chain(l) : k[e] = n[e]
  BY <1>2, ChainFacts DEF Nexts
<1> HIDE DEF k
<1>4. RF!From(k, l.head) = RF!Chain(l)
  <2>1. n \in Nexts /\ l.head \in Cells \cup {Null} /\ RF!Chain(l) = RF!From(n, l.head)
    BY ChainFacts
  <2> HIDE DEF n
  <2> QED BY <1>2, <1>3, <2>1, FromFrame
<1>5. r.head = c /\ r.next = k
  OBVIOUS
<1> HIDE DEF r
<1>6. RF!Chain(r) = RF!Chain(l) \cup {c}
  <2>1. RF!From(k, c) = {c} \cup RF!From(k, k[c])
    BY <1>2, FromNext
  <2> QED BY <1>2, <1>4, <1>5, <2>1 DEF RF!Chain
<1>7. Acyclic(r)
  BY <1>2, <1>3, <1>5, <1>6, ChainFacts, NullAssumption DEF Acyclic
<1> QED BY <1>1, <1>2, <1>5, <1>6, <1>7

\* One more entry has been looked at.
LEMMA LookedAt ==
  ASSUME NEW l \in Links, Acyclic(l), NEW w \in RF!Chain(l)
  PROVE  /\ l.next[w] \in Cells \cup {Null} /\ l.next[w] # w
         /\ RF!From(l.next, w) = {w} \cup RF!From(l.next, l.next[w])
         /\ w \notin RF!From(l.next, l.next[w])
         /\ RF!From(l.next, l.next[w]) \subseteq RF!Chain(l)
<1>1. w \in Cells /\ l.next \in Nexts
  BY ChainFacts
<1>2. w \notin RF!From(l.next, l.next[w])
  BY NoWayBack
<1>3. RF!From(l.next, w) = {w} \cup RF!From(l.next, l.next[w]) /\ l.next[w] \in Cells \cup {Null}
  BY <1>1, FromNext
<1>4. l.next[w] = Null \/ l.next[w] \in RF!From(l.next, l.next[w])
  BY <1>1, <1>3, FromFacts DEF ClosedFrom
<1>5. RF!From(l.next, l.next[w]) \subseteq RF!Chain(l)
  BY <1>1, ChainFacts, FromWithin
<1> QED BY <1>1, <1>2, <1>3, <1>4, <1>5, NullAssumption

\* The loops write back the link they have come by.
LEMMA Rejoined ==
  ASSUME NEW l \in Links, NEW w \in RF!Chain(l), NEW t, Cursor(l, t, w)
  PROVE  RF!Joined(l, t, w) = l
<1>1. CASE t = Null
  BY <1>1 DEF RF!Joined, Cursor, Links
<1>2. CASE t # Null
  <2>1. t \in Cells /\ l.next[t] = w
    BY <1>2, ChainFacts DEF Cursor
  <2>2. [l.next EXCEPT ![t] = w] = l.next
    BY <2>1 DEF Links
  <2> QED BY <1>2, <2>2 DEF RF!Joined, Links
<1> QED BY <1>1, <1>2

\* The unlinked entry is gone, all others are still there.
LEMMA UnlinkedFacts ==
  ASSUME NEW l \in Links, Acyclic(l), NEW w \in RF!Chain(l), NEW t, Cursor(l, t, w)
  PROVE  LET r == RF!Joined(l, t, l.next[w])
         IN  /\ r \in Links /\ Acyclic(r) /\ RF!Chain(r) = RF!Chain(l) \ {w}
             /\ Cursor(r, t, l.next[w])
             /\ RF!From(r.next, l.next[w]) = RF!From(l.next, l.next[w])
<1> DEFINE n == l.next
           C == RF!Chain(l)
           r == RF!Joined(l, t, n[w])
<1>0. /\ n \in Nexts /\ l.head \in Cells \cup {Null} /\ C \subseteq Cells /\ C = RF!From(n, l.head)
      /\ l.head = Null \/ l.head \in C
      /\ \A c \in C : n[c] \in C \cup {Null}
  BY ChainFacts
<1>a. /\ \A c \in C : n[c] = Null \/ n[c] # l.head
      /\ \A c, d \in C : n[c] = n[d] /\ n[c] # Null => c = d
  BY DEF Acyclic
<1>b. n[w] \in Cells \cup {Null} /\ n[w] # w /\ w \notin RF!From(n, n[w])
  BY LookedAt
<1>1. CASE t = Null
  <2>1. l.head = w /\ r = [head |-> n[w], next |-> n]
    BY <1>1 DEF Cursor, RF!Joined, Links
  <2>2. r.head = n[w] /\ r.next = n /\ r \in Links
    BY <1>0, <1>b, <2>1 DEF Links, Nexts
  <2>3. RF!Chain(r) = C \ {w}
    BY <1>0, <1>b, <2>1, <2>2, FromNext DEF RF!Chain
  <2>4. Acyclic(r)
    BY <1>a, <1>b, <2>1, <2>2, <2>3 DEF Acyclic
  <2> QED BY <1>1, <2>2, <2>3, <2>4 DEF Cursor
<1>2. CASE t # Null
  <2> DEFINE k == [n EXCEPT ![t] = n[w]]
  <2>1. t \in C /\ n[t] = w /\ r = [head |-> l.head, next |-> k] /\ w \in Cells /\ t \in Cells
    BY <1>0, <1>2 DEF Cursor, RF!Joined, Links
  <2>2. /\ r.head = l.head /\ r.next = k /\ r \in Links /\ k \in Nexts
        /\ k[t] = n[w] /\ \A e \in Cells : e # t => k[e] = n[e]
    BY <1>0, <1>b, <2>1 DEF Links, Nexts
  <2> HIDE DEF k
  <2>3. w # l.head /\ t # w /\ w # Null
    BY <1>a, <1>b, <2>1, NullAssumption
  <2> DEFINE G == RF!From(k, l.head)
  <2>4. G \subseteq C \ {w}
    <3>1. \A e \in C \ {w} : k[e] = Null \/ k[e] \in C \ {w}
      BY <1>0, <1>a, <1>b, <2>1, <2>2, <2>3
    <3>2. ClosedFrom(C \ {w}, k, l.head)
      BY <1>0, <2>3, <3>1 DEF ClosedFrom
    <3> QED BY <1>0, <2>2, <3>2, FromFacts
  <2>5. C \subseteq G \cup {w}
    <3> DEFINE S == IF t \in G THEN G \cup {w} ELSE G
    <3>1. ClosedFrom(G, k, l.head) /\ G \subseteq Cells
      BY <1>0, <2>2, FromFacts
    <3>2. \A e \in S : n[e] = Null \/ n[e] \in S
      BY <2>1, <2>2, <3>1 DEF ClosedFrom
    <3>3. ClosedFrom(S, n, l.head) /\ S \in SUBSET Cells
      BY <2>1, <3>1, <3>2 DEF ClosedFrom
    <3>4. C \subseteq S
      BY <1>0, <3>3, FromFacts
    <3> QED BY <3>4
  <2>6. RF!Chain(r) = C \ {w}
    BY <2>2, <2>4, <2>5 DEF RF!Chain
  <2>7. Acyclic(r)
    <3>1. \A c \in C \ {w} : k[c] = Null \/ k[c] # l.head
      BY <1>0, <1>a, <2>1, <2>2
    <3>2. \A c, d \in C \ {w} : k[c] = k[d] /\ k[c] # Null => c = d
      BY <1>0, <1>a, <2>1, <2>2
    <3> QED BY <2>2, <2>6, <3>1, <3>2 DEF Acyclic
  <2>8. RF!From(k, n[w]) = RF!From(n, n[w])
    <3>1. t \notin RF!From(n, w)
      BY <2>1, NoWayBack
    <3>2. RF!From(n, n[w]) \subseteq RF!From(n, w) /\ RF!From(n, n[w]) \subseteq Cells
      BY <1>0, <1>b, <2>1, FromNext, FromFacts
    <3> QED BY <1>0, <1>b, <2>2, <3>1, <3>2, FromFrame
  <2>9. Cursor(r, t, n[w])
    BY <1>2, <2>1, <2>2, <2>3, <2>6 DEF Cursor
  <2> QED BY <2>2, <2>6, <2>7, <2>8, <2>9
<1> QED BY <1>1, <1>2

\* Memory that no entry is in can be freed.
LEMMA FreedFacts ==
  ASSUME NEW l \in Links, NEW F \in SUBSET Cells, F \cap RF!Chain(l) = {}
  PROVE  LET r == [l EXCEPT !.next = RF!Emptied(@, F)]
         IN  r \in Links /\ RF!Chain(r) = RF!Chain(l) /\ (Acyclic(l) => Acyclic(r))
<1> DEFINE k == RF!Emptied(l.next, F)
           r == [head |-> l.head, next |-> k]
<1>1. [l EXCEPT !.next = RF!Emptied(@, F)] = r
  BY DEF Links
<1>2. k \in Nexts /\ \A e \in Cells \ F : k[e] = l.next[e]
  BY ChainFacts DEF RF!Emptied, Nexts
<1>3. \A e \in RF!Chain(l) : k[e] = l.next[e]
  BY <1>2, ChainFacts
<1> HIDE DEF k
<1>4. RF!From(k, l.head) = RF!Chain(l)
  BY <1>2, <1>3, ChainFacts, FromFrame
<1>5. r.head = l.head /\ r.next = k /\ r \in Links
  BY <1>2, ChainFacts DEF Links, Nexts
<1> HIDE DEF r
<1>6. RF!Chain(r) = RF!Chain(l)
  BY <1>4, <1>5 DEF RF!Chain
<1>7. Acyclic(l) => Acyclic(r)
  BY <1>3, <1>5, <1>6 DEF Acyclic
<1> QED BY <1>1, <1>5, <1>6, <1>7

-----------------------------------------------------------------------------
(***************************************************************************)
(* Mutators.                                                               *)
(***************************************************************************)
LEMMA InitRef == RF!Init => RefInv
<1> SUFFICES ASSUME RF!Init PROVE RefInv
  OBVIOUS
<1> USE DEF RF!Init, RF!EmptyChain, RF!NoCall, RF!NoLoop
<1>1. RefTypes
  BY DEF RefTypes, Kinds, Links
<1>2. RF!Chain(weak) = {} /\ RF!Chain(fin) = {}
  <2>1. weak.next \in Nexts /\ fin.next \in Nexts /\ weak.head = Null /\ fin.head = Null
    BY DEF Nexts
  <2> QED BY <2>1, FromNull DEF RF!Chain
<1>3. RF!Held = {} /\ Nodes = {} /\ \A m \in Threads : RF!Idle(m)
  BY DEF RF!Held, Nodes, RF!Idle
<1> QED BY <1>1, <1>2, <1>3 DEF RefInv, ListsOK, Acyclic, LinkingOK, HeldOK, TargetsOK, DropsOK,
           SweepOK, PauseOK

\* What a mutator holds is an allocated cell.
LEMMA HeldFacts ==
  ASSUME RefTypes
  PROVE  /\ RF!Held \subseteq Cells /\ \A m \in Threads : handles[m] \subseteq RF!Held
         /\ Nodes \subseteq Cells
         /\ \A m \in Threads : ~RF!Idle(m) => linking[m].node \in Nodes /\ linking[m].node \in Cells
         /\ weak \in Links /\ fin \in Links
         /\ RF!Chain(weak) \subseteq Cells /\ RF!Chain(fin) \subseteq Cells
<1>1. weak \in Links /\ fin \in Links
  BY DEF RefTypes
<1>2. RF!Chain(weak) \subseteq Cells /\ RF!Chain(fin) \subseteq Cells
  BY <1>1, ChainFacts
<1>3. \A m \in Threads : ~RF!Idle(m) => linking[m].node \in Cells
  BY DEF RefTypes, RF!Idle
<1> QED BY <1>1, <1>2, <1>3 DEF RefTypes, RF!Held, Nodes

\* A new object is in a cell that nothing refers to.
LEMMA AllocateRef ==
  ASSUME RefInv, NEW m \in Threads, NEW c \in Cells, NEW k \in Kinds \ {"free"}, NEW t,
         RF!Allocate(m, c, k, t),
         IF k = "weak" THEN t \in handles[m] /\ kind[t] # "weak" ELSE t = Null
  PROVE  RefInv'
<1> USE DEF RefInv
<1>0. /\ phase \notin {"weak", "fin"} /\ RF!Idle(m) /\ kind[c] = "free"
      /\ kind' = [kind EXCEPT ![c] = k] /\ ptr' = [ptr EXCEPT ![c] = t]
      /\ handles' = [handles EXCEPT ![m] = @ \cup {c}] /\ marked' = marked \cup {c}
      /\ drops' = [drops EXCEPT ![c] = 0]
      /\ weak' = weak /\ fin' = fin /\ phase' = phase /\ loop' = loop /\ unswept' = unswept
      /\ crashed' = crashed
  BY DEF RF!Allocate, RF!Running
<1>1. RefTypes'
  <2>1. t \in Cells \cup {Null}
    BY DEF RefTypes
  <2>2. linking' \in [Threads -> {RF!NoCall} \cup [node : Cells, old : Cells \cup {Null}]]
    BY DEF RF!Allocate, RefTypes, Links
  <2> QED BY <1>0, <2>1, <2>2 DEF RefTypes, Kinds
<1>2. /\ c \notin RF!Chain(weak) \cup RF!Chain(fin) /\ c \notin RF!Held /\ c \notin Nodes
      /\ \A w \in RF!Chain(weak) : ptr[w] # c
  BY <1>0, HeldFacts, NullAssumption DEF ListsOK, HeldOK, TargetsOK, LinkingOK, Nodes
<1>3. /\ RF!Chain(weak') = RF!Chain(weak) /\ RF!Chain(fin') = RF!Chain(fin)
      /\ RF!Held' = RF!Held \cup {c}
  BY <1>0 DEF RF!Held, RefTypes
<1>4. /\ \A n \in Threads \ {m} : linking'[n] = linking[n] /\ (RF!Idle(n)' <=> RF!Idle(n))
      /\ IF k = "plain" THEN RF!Idle(m)' ELSE ~RF!Idle(m)' /\ linking'[m].node = c
      /\ Nodes' = IF k = "plain" THEN Nodes ELSE Nodes \cup {c}
  <2>1. \A n \in Threads \ {m} : linking'[n] = linking[n]
    BY DEF RF!Allocate, RefTypes
  <2>2. IF k = "plain" THEN linking'[m] = RF!NoCall ELSE linking'[m].node = c
    BY DEF RF!Allocate, RefTypes
  <2>3. RF!NoCall.node = Null
    BY DEF RF!NoCall
  <2>4. IF k = "plain" THEN RF!Idle(m)' ELSE ~RF!Idle(m)' /\ linking'[m].node = c
    BY <2>2, <2>3, NullAssumption DEF RF!Idle
  <2>5. \A n \in Threads \ {m} : RF!Idle(n)' <=> RF!Idle(n)
    BY <2>1 DEF RF!Idle
  <2> QED BY <1>0, <2>1, <2>4, <2>5 DEF Nodes
<1>5. ListsOK'
  BY <1>0, <1>2, <1>3, HeldFacts DEF ListsOK, Acyclic, RefTypes
<1>6. LinkingOK'
  <2> SUFFICES ASSUME NEW n \in Threads, ~RF!Idle(n)'
               PROVE  LET d == linking'[n].node IN
                      /\ d \in handles'[n] /\ kind'[d] \in {"weak", "finalizable"}
                      /\ d \notin RF!Chain(weak') \cup RF!Chain(fin')
                      /\ \A o \in Threads \ {n} : d \notin handles'[o]
                      /\ kind'[d] = "weak" => ptr'[d] \in handles'[n] /\ kind'[ptr'[d]] # "weak"
    BY DEF LinkingOK
  <2>1. CASE n = m
    <3>1. linking'[n].node = c /\ k # "plain"
      BY <1>4, <2>1
    <3>2. \A o \in Threads \ {n} : c \notin handles'[o]
      BY <1>0, <1>2, <2>1, HeldFacts DEF RefTypes
    <3>3. c \in handles'[n] /\ kind'[c] = k
      BY <1>0, <2>1 DEF RefTypes
    <3>4. k = "weak" => ptr'[c] = t /\ t \in handles'[n] /\ kind'[t] # "weak"
      BY <1>0, <1>2, <2>1, HeldFacts DEF RefTypes
    <3> QED BY <1>2, <1>3, <3>1, <3>2, <3>3, <3>4 DEF Kinds
  <2>2. CASE n # m
    <3>1. /\ linking'[n] = linking[n] /\ ~RF!Idle(n)
      BY <1>4, <2>2
    <3>2. linking[n].node \in Nodes /\ linking[n].node \in Cells
      BY <3>1, HeldFacts
    <3> QED BY <1>0, <1>2, <1>3, <2>2, <3>1, <3>2, HeldFacts DEF LinkingOK, RefTypes
  <2> QED BY <2>1, <2>2
<1>7. HeldOK'
  BY <1>0, <1>2, <1>3, <1>4, HeldFacts DEF HeldOK, RefTypes, Kinds
<1>8. TargetsOK'
  BY <1>0, <1>2, <1>3, <1>4, HeldFacts, NullAssumption DEF TargetsOK, RefTypes
<1>9. DropsOK'
  BY <1>0, <1>2, <1>3, <1>4, HeldFacts DEF DropsOK, RefTypes, Kinds
<1>10. SweepOK'
  BY <1>0, <1>2, <1>3, HeldFacts DEF SweepOK, RefTypes
<1>11. PauseOK'
  BY <1>0 DEF PauseOK
<1> QED BY <1>1, <1>5, <1>6, <1>7, <1>8, <1>9, <1>10, <1>11

\* A failed exchange changes only the head that the next one expects.
LEMMA LinkFailsRef ==
  ASSUME RefInv, NEW m \in Threads, NEW h \in Cells \cup {Null}, ~RF!Idle(m), phase \notin {"weak", "fin"},
         linking' = [linking EXCEPT ![m] = [node |-> linking[m].node, old |-> h]],
         UNCHANGED <<kind, ptr, weak, fin, handles, phase, loop, marked, unswept, crashed, drops>>
  PROVE  RefInv'
<1> USE DEF RefInv
<1>1. /\ linking[m].node \in Cells
      /\ \A n \in Threads : /\ RF!Idle(n)' <=> RF!Idle(n)
                            /\ ~RF!Idle(n) => linking'[n].node = linking[n].node
  <2>1. linking[m].node \in Cells
    BY HeldFacts
  <2>2. linking'[m] = [node |-> linking[m].node, old |-> h] /\ \A n \in Threads \ {m} : linking'[n] = linking[n]
    BY DEF RefTypes
  <2>3. linking'[m].node = linking[m].node /\ linking'[m] # RF!NoCall
    BY <2>1, <2>2, NullAssumption DEF RF!NoCall
  <2> QED BY <2>1, <2>2, <2>3 DEF RF!Idle
<1>2. Nodes' = Nodes /\ RF!Held' = RF!Held
  BY <1>1 DEF Nodes, RF!Held
<1>3. RefTypes'
  BY <1>1 DEF RefTypes
<1>4. ListsOK' /\ HeldOK' /\ TargetsOK' /\ DropsOK' /\ SweepOK' /\ PauseOK'
  BY <1>2 DEF ListsOK, Acyclic, HeldOK, TargetsOK, DropsOK, SweepOK, PauseOK
<1>5. LinkingOK'
  BY <1>1 DEF LinkingOK
<1> QED BY <1>3, <1>4, <1>5

\* What an exchange that succeeds does to the threads' calls.
LEMMA LinkedNodes ==
  ASSUME RefInv, NEW m \in Threads, ~RF!Idle(m), linking' = [linking EXCEPT ![m] = RF!NoCall]
  PROVE  /\ RF!Idle(m)' /\ Nodes' = Nodes \ {linking[m].node}
         /\ linking' \in [Threads -> {RF!NoCall} \cup [node : Cells, old : Cells \cup {Null}]]
         /\ \A n \in Threads \ {m} : /\ linking'[n] = linking[n] /\ (RF!Idle(n)' <=> RF!Idle(n))
                                     /\ ~RF!Idle(n) => linking[n].node # linking[m].node
<1> USE DEF RefInv
<1>1. linking'[m] = RF!NoCall /\ \A n \in Threads \ {m} : linking'[n] = linking[n]
  BY DEF RefTypes
<1>2. RF!Idle(m)' /\ \A n \in Threads \ {m} : RF!Idle(n)' <=> RF!Idle(n)
  BY <1>1 DEF RF!Idle
<1>3. \A n \in Threads \ {m} : ~RF!Idle(n) => linking[n].node # linking[m].node
  BY DEF LinkingOK
<1>4. linking' \in [Threads -> {RF!NoCall} \cup [node : Cells, old : Cells \cup {Null}]]
  BY DEF RefTypes
<1> QED BY <1>1, <1>2, <1>3, <1>4 DEF Nodes

\* The object is behind the head of its list and no longer the thread's alone.
LEMMA LinkedRef ==
  ASSUME RefInv, NEW m \in Threads, ~RF!Idle(m), phase \notin {"weak", "fin"},
         linking' = [linking EXCEPT ![m] = RF!NoCall],
         UNCHANGED <<kind, ptr, handles, phase, loop, marked, unswept, crashed, drops>>,
         LET c == linking[m].node IN
           IF kind[c] = "weak" THEN weak' = RF!Pushed(weak, c, weak.head) /\ fin' = fin
           ELSE fin' = RF!Pushed(fin, c, fin.head) /\ weak' = weak
  PROVE  RefInv'
<1> USE DEF RefInv
<1> DEFINE c == linking[m].node
<1>0. /\ c \in Cells /\ c \in handles[m] /\ c \in RF!Held /\ kind[c] \in {"weak", "finalizable"}
      /\ c \notin RF!Chain(weak) /\ c \notin RF!Chain(fin) /\ c \in Nodes
      /\ \A n \in Threads \ {m} : c \notin handles[n]
      /\ kind[c] = "weak" => ptr[c] \in handles[m] /\ kind[ptr[c]] # "weak"
  BY HeldFacts DEF LinkingOK
<1>1. /\ weak' \in Links /\ fin' \in Links /\ Acyclic(weak') /\ Acyclic(fin')
      /\ RF!Chain(weak') = IF kind[c] = "weak" THEN RF!Chain(weak) \cup {c} ELSE RF!Chain(weak)
      /\ RF!Chain(fin') = IF kind[c] = "weak" THEN RF!Chain(fin) ELSE RF!Chain(fin) \cup {c}
  BY <1>0, HeldFacts, PushedFacts DEF ListsOK
<1>2. /\ RF!Idle(m)' /\ Nodes' = Nodes \ {c}
      /\ linking' \in [Threads -> {RF!NoCall} \cup [node : Cells, old : Cells \cup {Null}]]
      /\ \A n \in Threads \ {m} : /\ linking'[n] = linking[n] /\ (RF!Idle(n)' <=> RF!Idle(n))
                                  /\ ~RF!Idle(n) => linking[n].node # c
  BY LinkedNodes
<1> HIDE DEF c
<1>3. RefTypes'
  BY <1>1, <1>2 DEF RefTypes
<1>4. RF!Held' = RF!Held
  BY DEF RF!Held
<1>5. ListsOK'
  BY <1>0, <1>1 DEF ListsOK
<1>6. LinkingOK'
  BY <1>0, <1>1, <1>2 DEF LinkingOK
<1>7. HeldOK'
  BY <1>0, <1>1, <1>2, <1>4 DEF HeldOK
<1>8. TargetsOK'
  <2> SUFFICES ASSUME NEW w \in RF!Chain(weak'), ptr[w] # Null
               PROVE  kind[ptr[w]] \notin {"free", "weak"} /\ drops[ptr[w]] = 0 /\ ptr[w] \notin Nodes'
    BY DEF TargetsOK
  <2>1. CASE w \in RF!Chain(weak)
    BY <1>2, <2>1 DEF TargetsOK
  <2>2. CASE w = c /\ kind[c] = "weak"
    <3>1. ptr[w] \in handles[m] /\ ptr[w] \in RF!Held /\ kind[ptr[w]] # "weak"
      BY <1>0, <2>2, HeldFacts
    <3>2. ptr[w] \notin Nodes'
      <4>1. \A n \in Threads \ {m} : ~RF!Idle(n) => linking[n].node \notin handles[m]
        BY DEF LinkingOK
      <4> QED BY <1>2, <3>1, <4>1 DEF Nodes
    <3> QED BY <3>1, <3>2 DEF HeldOK
  <2> QED BY <1>1, <2>1, <2>2
<1>9. DropsOK'
  BY <1>0, <1>1, <1>2 DEF DropsOK, ListsOK
<1>10. SweepOK'
  BY <1>0, <1>1, <1>4, HeldFacts DEF SweepOK
<1>11. PauseOK'
  BY DEF PauseOK
<1> QED BY <1>3, <1>5, <1>6, <1>7, <1>8, <1>9, <1>10, <1>11

\* Link: the node in the middle of a call becomes the head of its list.
LEMMA LinkRef == ASSUME RefInv, NEW m \in Threads, RF!Link(m) PROVE RefInv'
<1> USE DEF RefInv
<1> DEFINE c == linking[m].node
           l == IF kind[c] = "weak" THEN weak ELSE fin
<1>0. /\ ~RF!Idle(m) /\ phase \notin {"weak", "fin"}
      /\ UNCHANGED <<kind, ptr, handles, phase, loop, marked, unswept, crashed, drops>>
      /\ c \in Cells /\ c \notin RF!Chain(l) /\ l \in Links /\ weak \in Links /\ fin \in Links
  BY HeldFacts DEF RF!Link, RF!Running, LinkingOK
<1>1. CASE l.head = linking[m].old
  <2>1. RF!Pushed(l, c, linking[m].old).head = c
    BY <1>1 DEF RF!Pushed
  <2>2. linking' = [linking EXCEPT ![m] = RF!NoCall]
    BY <2>1 DEF RF!Link
  <2>3. IF kind[c] = "weak" THEN weak' = RF!Pushed(weak, c, weak.head) /\ fin' = fin
        ELSE fin' = RF!Pushed(fin, c, fin.head) /\ weak' = weak
    BY <1>1 DEF RF!Link
  <2> QED BY <1>0, <2>2, <2>3, LinkedRef
<1>2. CASE l.head # linking[m].old
  <2>1. RF!Pushed(l, c, linking[m].old) = l
    BY <1>2 DEF RF!Pushed
  <2>2. l.head # c /\ l.head \in Cells \cup {Null}
    BY <1>0, ChainFacts, NullAssumption
  <2>3. linking' = [linking EXCEPT ![m] = [node |-> c, old |-> l.head]]
    BY <2>1, <2>2 DEF RF!Link
  <2>4. weak' = weak /\ fin' = fin
    BY <2>1 DEF RF!Link
  <2> QED BY <1>0, <2>2, <2>3, <2>4, LinkFailsRef
<1> QED BY <1>1, <1>2

\* Handles are passed on and dropped: nobody gets hold of what is not for use.
LEMMA HandlesRef ==
  ASSUME RefInv, NEW m \in Threads, RF!Idle(m), phase \notin {"weak", "fin"},
         NEW H \in SUBSET Cells, handles' = [handles EXCEPT ![m] = H],
         \A c \in H : c \in RF!Held \ Nodes \/ \E w \in RF!Held \ Nodes : kind[w] = "weak" /\ c = ptr[w],
         UNCHANGED <<kind, ptr, weak, fin, linking, phase, loop, marked, unswept, crashed, drops>>
  PROVE  RefInv'
<1> USE DEF RefInv
<1>1. RF!Held' \subseteq RF!Held \cup H /\ H \cap Nodes = {}
      /\ \A n \in Threads : RF!Idle(n)' = RF!Idle(n) /\ (n # m => handles'[n] = handles[n])
      /\ handles'[m] = H /\ Nodes' = Nodes
  <2>1. \A n \in Threads : handles'[n] = IF n = m THEN H ELSE handles[n]
    BY DEF RefTypes
  <2>2. H \cap Nodes = {}
    BY NullAssumption DEF HeldOK, TargetsOK
  <2> QED BY <2>1, <2>2 DEF RF!Held, RF!Idle, Nodes
<1>2. \A c \in H : /\ kind[c] # "free" /\ drops[c] = 0
                   /\ kind[c] = "weak" => c \in RF!Chain(weak)
                   /\ phase = "sweep" => c \notin unswept \ marked
  <2> SUFFICES ASSUME NEW c \in H, c \notin RF!Held
               PROVE  /\ kind[c] # "free" /\ drops[c] = 0 /\ kind[c] # "weak"
                      /\ phase = "sweep" => c \notin unswept \ marked
    BY <1>1 DEF HeldOK, SweepOK
  <2>1. PICK w \in RF!Held \ Nodes : kind[w] = "weak" /\ c = ptr[w]
    OBVIOUS
  <2>2. w \in RF!Chain(weak) /\ ptr[w] # Null
    BY <2>1, NullAssumption DEF HeldOK
  <2> QED BY <2>1, <2>2 DEF TargetsOK, SweepOK
<1>3. RefTypes'
  BY DEF RefTypes
<1>4. ListsOK' /\ TargetsOK' /\ DropsOK' /\ PauseOK'
  BY <1>1 DEF ListsOK, Acyclic, TargetsOK, DropsOK, PauseOK
<1>5. LinkingOK'
  <2> SUFFICES ASSUME NEW n \in Threads, ~RF!Idle(n)
               PROVE  LET c == linking[n].node IN
                      /\ c \in handles'[n] /\ kind[c] \in {"weak", "finalizable"}
                      /\ c \notin RF!Chain(weak) \cup RF!Chain(fin)
                      /\ \A o \in Threads \ {n} : c \notin handles'[o]
                      /\ kind[c] = "weak" => ptr[c] \in handles'[n] /\ kind[ptr[c]] # "weak"
    BY <1>1 DEF LinkingOK
  <2>1. n # m /\ linking[n].node \in Nodes
    BY HeldFacts
  <2> QED BY <1>1, <2>1 DEF LinkingOK
<1>6. HeldOK'
  BY <1>1, <1>2 DEF HeldOK
<1>7. SweepOK'
  BY <1>1, <1>2 DEF SweepOK
<1> QED BY <1>3, <1>4, <1>5, <1>6, <1>7

\* Every step of a mutator.
LEMMA MutatorRef ==
  ASSUME RefInv, NEW m \in Threads, NEW n \in Threads, NEW c \in Cells,
         \/ RF!AllocateObject(m, c) \/ RF!NewWeak(m, c) \/ RF!Upgrade(m, c) \/ RF!Forget(m, c)
         \/ RF!Share(m, n, c) \/ RF!Link(m)
  PROVE  RefInv'
<1> USE DEF RefInv
<1>0. \A o \in Threads : RF!Idle(o) => handles[o] \subseteq RF!Held \ Nodes
  BY HeldFacts DEF LinkingOK, Nodes
<1>1. CASE RF!AllocateObject(m, c)
  BY <1>1, AllocateRef DEF RF!AllocateObject, Kinds
<1>2. CASE RF!NewWeak(m, c)
  BY <1>2, AllocateRef DEF RF!NewWeak, Kinds
<1>3. CASE RF!Upgrade(m, c)
  <2>1. /\ RF!Idle(m) /\ phase \notin {"weak", "fin"} /\ c \in handles[m] /\ kind[c] = "weak"
        /\ handles' = [handles EXCEPT ![m] = @ \cup {ptr[c]}] /\ ptr[c] \in Cells
        /\ UNCHANGED <<kind, ptr, weak, fin, linking, phase, loop, marked, unswept, crashed, drops>>
    BY <1>3 DEF RF!Upgrade, RF!Running, RefTypes
  <2>2. handles' = [handles EXCEPT ![m] = handles[m] \cup {ptr[c]}] /\ handles[m] \cup {ptr[c]} \in SUBSET Cells
    BY <2>1 DEF RefTypes
  <2> QED BY <1>0, <2>1, <2>2, HandlesRef
<1>4. CASE RF!Forget(m, c)
  <2>1. /\ RF!Idle(m) /\ phase \notin {"weak", "fin"} /\ handles' = [handles EXCEPT ![m] = handles[m] \ {c}]
        /\ UNCHANGED <<kind, ptr, weak, fin, linking, phase, loop, marked, unswept, crashed, drops>>
        /\ handles[m] \ {c} \in SUBSET Cells
    BY <1>4 DEF RF!Forget, RF!Running, RefTypes
  <2> QED BY <1>0, <2>1, HandlesRef
<1>5. CASE RF!Share(m, n, c)
  <2>1. /\ RF!Idle(m) /\ RF!Idle(n) /\ phase \notin {"weak", "fin"} /\ c \in handles[m]
        /\ handles' = [handles EXCEPT ![n] = handles[n] \cup {c}] /\ handles[n] \cup {c} \in SUBSET Cells
        /\ UNCHANGED <<kind, ptr, weak, fin, linking, phase, loop, marked, unswept, crashed, drops>>
    BY <1>5 DEF RF!Share, RF!Running, RefTypes
  <2> QED BY <1>0, <2>1, HandlesRef
<1> QED BY <1>1, <1>2, <1>3, <1>4, <1>5, LinkRef

-----------------------------------------------------------------------------
(***************************************************************************)
(* The collector.                                                          *)
(***************************************************************************)
\* Only what is marked, the phase, the cursors and what is to be swept change.
LEMMA PhaseRef ==
  ASSUME RefInv, UNCHANGED <<kind, ptr, weak, fin, linking, handles, drops>>,
         crashed' \in BOOLEAN, RefTypes', SweepOK', PauseOK'
  PROVE  RefInv'
<1>1. ListsOK' /\ LinkingOK' /\ HeldOK' /\ TargetsOK' /\ DropsOK'
  BY DEF RefInv, ListsOK, Acyclic, LinkingOK, HeldOK, TargetsOK, DropsOK, RF!Held, Nodes, RF!Idle
<1> QED BY <1>1 DEF RefInv

\* Marking holds what the threads hold, and nothing is looked at yet.
LEMMA MarkRef ==
  ASSUME RefInv, RF!InitMark \/ RF!FinalMark \/ RF!FullMark
  PROVE  RefInv'
<1> USE DEF RefInv
<1>1. /\ UNCHANGED <<kind, ptr, weak, fin, linking, handles, unswept, crashed, drops>>
      /\ \A m \in Threads : RF!Idle(m)
      /\ marked' \subseteq Cells /\ RF!Held \subseteq marked'
      /\ \/ phase' = "mark" /\ loop' = loop
         \/ /\ phase' = "weak" /\ loop'.at = weak.head /\ loop'.tail = Null
            /\ loop' \in [at : Cells \cup {Null}, tail : Cells \cup {Null}, full : BOOLEAN]
  <2>1. \A S \in RF!Roots : S \subseteq Cells /\ RF!Held \subseteq S
    BY HeldFacts DEF RF!Roots, RF!Allocated
  <2>2. \A full \in BOOLEAN : [at |-> weak.head, tail |-> Null, full |-> full]
                                \in [at : Cells \cup {Null}, tail : Cells \cup {Null}, full : BOOLEAN]
    BY HeldFacts, ChainFacts
  <2>3. \A m \in Threads : RF!Idle(m)
    BY DEF RF!InitMark, RF!FinalMark, RF!FullMark, RF!Paused
  <2>4. CASE RF!InitMark
    BY <2>1, <2>3, <2>4 DEF RF!InitMark
  <2>5. CASE RF!FinalMark
    BY <2>1, <2>2, <2>3, <2>5 DEF RF!FinalMark, RF!CleanUp, RefTypes
  <2>6. CASE RF!FullMark
    BY <2>1, <2>2, <2>3, <2>6 DEF RF!FullMark, RF!CleanUp
  <2> QED BY <2>4, <2>5, <2>6
<1>2. RefTypes'
  BY <1>1 DEF RefTypes
<1>3. SweepOK'
  BY <1>1 DEF SweepOK
<1>4. Visited(weak)' = {} \/ phase' # "weak"
  <2> SUFFICES ASSUME phase' = "weak" PROVE Visited(weak)' = {}
    OBVIOUS
  <2>1. RF!Chain(weak') = RF!From(weak'.next, loop'.at)
    BY <1>1 DEF RF!Chain
  <2> QED BY <2>1 DEF Visited
<1>5. (\A m \in Threads : RF!Idle(m)') /\ RF!Held' = RF!Held
  BY <1>1 DEF RF!Idle, RF!Held
<1>6. PauseOK'
  BY <1>1, <1>4, <1>5 DEF PauseOK, CursorOK, Cursor, Kept
<1> QED BY <1>1, <1>2, <1>3, <1>6, PhaseRef DEF RefTypes

\* The loops go on to the next list, and to the sweep.
LEMMA LoopEndRef ==
  ASSUME RefInv, RF!Finalize \/ RF!PrepareSweep \/ RF!Abort
  PROVE  RefInv'
<1> USE DEF RefInv
<1>1. CASE RF!Finalize
  <2>1. /\ UNCHANGED <<kind, ptr, weak, fin, linking, handles, marked, unswept, crashed, drops>>
        /\ phase = "weak" /\ phase' = "fin" /\ loop.at = Null
        /\ loop' = [loop EXCEPT !.at = fin.head, !.tail = Null]
    BY <1>1 DEF RF!Finalize
  <2>2. /\ loop' \in [at : Cells \cup {Null}, tail : Cells \cup {Null}, full : BOOLEAN]
        /\ loop'.at = fin.head /\ loop'.tail = Null
    <3>1. fin.head \in Cells \cup {Null}
      BY HeldFacts, ChainFacts
    <3> QED BY <2>1, <3>1 DEF RefTypes
  <2>3. RefTypes'
    BY <2>1, <2>2 DEF RefTypes
  <2>4. Kept(RF!Chain(weak))
    <3>1. RF!From(weak.next, loop.at) = {}
      BY <2>1, HeldFacts, ChainFacts, FromNull
    <3> QED BY <2>1, <3>1 DEF PauseOK, Visited
  <2>5. Visited(fin)' = {} /\ CursorOK(fin)'
    <3>1. RF!Chain(fin') = RF!From(fin'.next, loop'.at)
      BY <2>1, <2>2 DEF RF!Chain
    <3> QED BY <2>1, <2>2, <3>1 DEF Visited, CursorOK, Cursor
  <2>6. (\A m \in Threads : RF!Idle(m)') /\ RF!Held' \subseteq marked'
    BY <2>1 DEF PauseOK, RF!Idle, RF!Held
  <2>7. PauseOK'
    BY <2>1, <2>4, <2>5, <2>6 DEF PauseOK, Kept
  <2>8. SweepOK'
    BY <2>1 DEF SweepOK
  <2> QED BY <2>1, <2>3, <2>7, <2>8, PhaseRef DEF RefTypes
<1>2. CASE RF!PrepareSweep
  <2>1. /\ UNCHANGED <<kind, ptr, weak, fin, linking, handles, marked, crashed, drops>>
        /\ phase = "fin" /\ phase' = "sweep" /\ loop.at = Null /\ loop' = RF!NoLoop /\ unswept' = Cells
    BY <1>2 DEF RF!PrepareSweep
  <2>2. RefTypes'
    BY <2>1 DEF RefTypes, RF!NoLoop
  <2>3. RF!Chain(fin) \subseteq marked
    <3>1. RF!From(fin.next, loop.at) = {}
      BY <2>1, HeldFacts, ChainFacts, FromNull
    <3> QED BY <2>1, <3>1 DEF PauseOK, Visited
  <2>4. RF!Held' = RF!Held
    BY <2>1 DEF RF!Held
  <2>5. SweepOK'
    BY <2>1, <2>3, <2>4, NullAssumption DEF SweepOK, PauseOK, Kept
  <2>6. PauseOK'
    BY <2>1 DEF PauseOK
  <2> QED BY <2>1, <2>2, <2>5, <2>6, PhaseRef DEF RefTypes
<1>3. CASE RF!Abort
  <2>1. /\ UNCHANGED <<kind, ptr, weak, fin, linking, handles, marked, crashed, drops, loop>>
        /\ phase' = "cancelled" /\ unswept' = {}
    BY <1>3 DEF RF!Abort
  <2>2. RefTypes'
    BY <2>1 DEF RefTypes
  <2>3. SweepOK' /\ PauseOK'
    BY <2>1 DEF SweepOK, PauseOK
  <2> QED BY <2>1, <2>2, <2>3, PhaseRef DEF RefTypes
<1> QED BY <1>1, <1>2, <1>3

\* The round of a loop leaves the list as it is, or without a dead entry.
LEMMA RoundFacts ==
  ASSUME NEW l \in Links, Acyclic(l), NEW w \in RF!Chain(l), NEW t, Cursor(l, t, w), NEW M
  PROVE  LET r == RF!Joined(l, t, IF w \in M THEN w ELSE l.next[w])
         IN  /\ r \in Links /\ Acyclic(r) /\ l.next[w] \in Cells \cup {Null}
             /\ w \in M => /\ RF!Chain(r) = RF!Chain(l) /\ Cursor(r, w, l.next[w])
                           /\ RF!Chain(r) \ RF!From(r.next, l.next[w])
                                = (RF!Chain(l) \ RF!From(l.next, w)) \cup {w}
             /\ w \notin M => /\ RF!Chain(r) = RF!Chain(l) \ {w} /\ Cursor(r, t, l.next[w])
                              /\ RF!Chain(r) \ RF!From(r.next, l.next[w])
                                   = RF!Chain(l) \ RF!From(l.next, w)
<1>1. /\ l.next[w] \in Cells \cup {Null} /\ l.next[w] # w
      /\ RF!From(l.next, w) = {w} \cup RF!From(l.next, l.next[w])
      /\ w \notin RF!From(l.next, l.next[w]) /\ w # Null
  BY LookedAt, ChainFacts, NullAssumption
<1>2. CASE w \in M
  <2>1. RF!Joined(l, t, w) = l
    BY Rejoined
  <2> QED BY <1>1, <1>2, <2>1 DEF Cursor
<1>3. CASE w \notin M
  BY <1>1, <1>3, UnlinkedFacts
<1> QED BY <1>2, <1>3

\* Where a loop has not come to its end, it is at an entry of the list.
LEMMA AtEntry ==
  ASSUME NEW l \in Links, NEW t, NEW w \in Cells, Cursor(l, t, w)
  PROVE  w \in RF!Chain(l)
<1> QED BY ChainFacts, NullAssumption DEF Cursor

\* One step of the walk over the weak references.
LEMMA ProcessWeakRef == ASSUME RefInv, RF!ProcessWeak PROVE RefInv'
<1> USE DEF RefInv
<1> DEFINE w == loop.at
           live == w \in marked
<1>0. /\ phase = "weak" /\ phase' = "weak" /\ w \in Cells
      /\ weak' = RF!Joined(weak, loop.tail, IF live THEN w ELSE weak.next[w])
      /\ ptr' = IF live /\ ptr[w] \notin marked THEN [ptr EXCEPT ![w] = Null] ELSE ptr
      /\ crashed' \in BOOLEAN
      /\ loop' = [loop EXCEPT !.at = weak.next[w], !.tail = IF live THEN w ELSE @]
      /\ UNCHANGED <<kind, fin, linking, handles, marked, unswept, drops>>
  BY DEF RF!ProcessWeak, RF!Advance, RefTypes
<1>1. w \in RF!Chain(weak) /\ Cursor(weak, loop.tail, w) /\ weak \in Links /\ Acyclic(weak)
  BY <1>0, HeldFacts, AtEntry DEF PauseOK, CursorOK, ListsOK
<1>2. /\ weak' \in Links /\ Acyclic(weak') /\ weak.next[w] \in Cells \cup {Null}
      /\ live => /\ RF!Chain(weak') = RF!Chain(weak) /\ Cursor(weak', w, weak.next[w])
                 /\ RF!Chain(weak') \ RF!From(weak'.next, weak.next[w]) = Visited(weak) \cup {w}
      /\ ~live => /\ RF!Chain(weak') = RF!Chain(weak) \ {w} /\ Cursor(weak', loop.tail, weak.next[w])
                  /\ RF!Chain(weak') \ RF!From(weak'.next, weak.next[w]) = Visited(weak)
  BY <1>0, <1>1, RoundFacts DEF Visited
<1>3. /\ loop'.at = weak.next[w] /\ loop'.tail = (IF live THEN w ELSE loop.tail)
      /\ loop' \in [at : Cells \cup {Null}, tail : Cells \cup {Null}, full : BOOLEAN]
  BY <1>0, <1>2 DEF RefTypes
<1>4. /\ (\A m \in Threads : RF!Idle(m) /\ RF!Idle(m)') /\ Nodes = {} /\ Nodes' = {}
      /\ RF!Held' = RF!Held /\ RF!Held \subseteq marked
  BY <1>0 DEF PauseOK, RF!Idle, RF!Held, Nodes
<1>5. \A c \in Cells : ptr'[c] = ptr[c] \/ (c = w /\ ptr'[c] = Null)
  BY <1>0 DEF RefTypes
<1>6. RefTypes'
  BY <1>0, <1>2, <1>3 DEF RefTypes
<1>7. ListsOK'
  BY <1>0, <1>2 DEF ListsOK
<1>8. LinkingOK' /\ SweepOK'
  BY <1>0, <1>4 DEF LinkingOK, SweepOK
<1>9. HeldOK'
  BY <1>0, <1>2, <1>4 DEF HeldOK
<1>10. TargetsOK'
  BY <1>0, <1>2, <1>4, <1>5, HeldFacts DEF TargetsOK
<1>11. DropsOK'
  BY <1>0, <1>4 DEF DropsOK
<1>12. PauseOK'
  <2>1. CursorOK(weak)'
    BY <1>2, <1>3 DEF CursorOK
  <2>2. live => w \in marked /\ (ptr'[w] = Null \/ ptr'[w] \in marked)
    BY <1>0 DEF RefTypes
  <2>3. Kept(Visited(weak))
    BY <1>0 DEF PauseOK
  <2>4. Visited(weak)' = IF live THEN Visited(weak) \cup {w} ELSE Visited(weak)
    BY <1>2, <1>3 DEF Visited
  <2>5. Visited(weak) \subseteq Cells
    BY HeldFacts DEF Visited
  <2> HIDE DEF w, live
  <2>6. Kept(Visited(weak))'
    BY <1>0, <1>5, <2>2, <2>3, <2>4, <2>5 DEF Kept
  <2> QED BY <1>0, <1>4, <2>1, <2>6 DEF PauseOK
<1> QED BY <1>6, <1>7, <1>8, <1>9, <1>10, <1>11, <1>12

\* One step of the walk over the finalizers.
LEMMA RunFinalizerRef == ASSUME RefInv, RF!RunFinalizer PROVE RefInv'
<1> USE DEF RefInv
<1> DEFINE f == loop.at
           live == f \in marked
<1>0. /\ phase = "fin" /\ phase' = "fin" /\ f \in Cells
      /\ fin' = IF live THEN fin ELSE RF!Joined(fin, loop.tail, fin.next[f])
      /\ drops' = IF live THEN drops ELSE [drops EXCEPT ![f] = @ + 1]
      /\ loop' = [loop EXCEPT !.at = fin.next[f], !.tail = IF live THEN f ELSE @]
      /\ UNCHANGED <<kind, ptr, weak, linking, handles, marked, unswept, crashed>>
  BY DEF RF!RunFinalizer, RF!Advance, RefTypes
<1>1. f \in RF!Chain(fin) /\ Cursor(fin, loop.tail, f) /\ fin \in Links /\ Acyclic(fin)
  BY <1>0, HeldFacts, AtEntry DEF PauseOK, CursorOK, ListsOK
<1>a. fin' = RF!Joined(fin, loop.tail, IF live THEN f ELSE fin.next[f])
  BY <1>0, <1>1, Rejoined
<1>2. /\ fin' \in Links /\ Acyclic(fin') /\ fin.next[f] \in Cells \cup {Null}
      /\ live => /\ RF!Chain(fin') = RF!Chain(fin) /\ Cursor(fin', f, fin.next[f])
                 /\ RF!Chain(fin') \ RF!From(fin'.next, fin.next[f]) = Visited(fin) \cup {f}
      /\ ~live => /\ RF!Chain(fin') = RF!Chain(fin) \ {f} /\ Cursor(fin', loop.tail, fin.next[f])
                  /\ RF!Chain(fin') \ RF!From(fin'.next, fin.next[f]) = Visited(fin)
  BY <1>a, <1>1, RoundFacts DEF Visited
<1>3. /\ loop'.at = fin.next[f] /\ loop'.tail = (IF live THEN f ELSE loop.tail)
      /\ loop' \in [at : Cells \cup {Null}, tail : Cells \cup {Null}, full : BOOLEAN]
  BY <1>0, <1>2 DEF RefTypes
<1>4. /\ (\A m \in Threads : RF!Idle(m) /\ RF!Idle(m)') /\ Nodes = {} /\ Nodes' = {}
      /\ RF!Held' = RF!Held /\ RF!Held \subseteq marked
  BY <1>0 DEF PauseOK, RF!Idle, RF!Held, Nodes
<1>5. \A c \in Cells : drops'[c] = IF c = f /\ ~live THEN drops[c] + 1 ELSE drops[c]
  BY <1>0 DEF RefTypes
<1>6. RefTypes'
  BY <1>0, <1>2, <1>3 DEF RefTypes
<1>7. ListsOK'
  BY <1>0, <1>2 DEF ListsOK
<1>8. LinkingOK' /\ SweepOK'
  BY <1>0, <1>4 DEF LinkingOK, SweepOK
<1>9. HeldOK'
  BY <1>0, <1>4, <1>5, HeldFacts DEF HeldOK
<1>10. TargetsOK'
  <2>1. Kept(RF!Chain(weak))
    BY <1>0 DEF PauseOK
  <2>2. \A w \in RF!Chain(weak) : ptr[w] # Null => ptr[w] \in marked /\ ptr[w] \in Cells
    BY <2>1, HeldFacts DEF Kept, RefTypes
  <2> QED BY <1>0, <1>4, <1>5, <2>2 DEF TargetsOK
<1>11. DropsOK'
  <2>1. kind[f] = "finalizable" /\ drops[f] = 0
    BY <1>0, <1>1 DEF ListsOK, DropsOK
  <2> QED BY <1>0, <1>2, <1>4, <1>5, <2>1 DEF DropsOK
<1>12. PauseOK'
  <2>1. CursorOK(fin)'
    BY <1>2, <1>3 DEF CursorOK
  <2>2. Visited(fin)' \subseteq marked
    BY <1>0, <1>2, <1>3 DEF Visited, PauseOK
  <2> QED BY <1>0, <1>4, <2>1, <2>2 DEF PauseOK, Kept
<1> QED BY <1>6, <1>7, <1>8, <1>9, <1>10, <1>11, <1>12

\* Memory is freed that is not held, on no list and no target.
LEMMA FreeRef ==
  ASSUME RefInv, NEW F \in SUBSET Cells, RF!Free(F), phase' \notin {"weak", "fin"},
         phase' = "sweep" => phase = "sweep" /\ unswept' \subseteq unswept,
         \A c \in F : /\ c \notin RF!Held \cup RF!Chain(weak) \cup RF!Chain(fin)
                      /\ \A w \in RF!Chain(weak) : ptr[w] # c,
         phase' \in {"idle", "sweep"}, unswept' \subseteq Cells,
         loop' \in [at : Cells \cup {Null}, tail : Cells \cup {Null}, full : BOOLEAN],
         UNCHANGED <<linking, handles, marked, crashed, drops>>
  PROVE  RefInv'
<1> USE DEF RefInv
<1>1. /\ \A c \in Cells : /\ kind'[c] = IF c \in F THEN "free" ELSE kind[c]
                          /\ ptr'[c] = IF c \in F THEN Null ELSE ptr[c]
      /\ kind' \in [Cells -> Kinds] /\ ptr' \in [Cells -> Cells \cup {Null}]
  BY DEF RF!Free, RF!Emptied, RefTypes, Kinds
<1>2. /\ weak' \in Links /\ fin' \in Links /\ Acyclic(weak') /\ Acyclic(fin')
      /\ RF!Chain(weak') = RF!Chain(weak) /\ RF!Chain(fin') = RF!Chain(fin)
  BY HeldFacts, FreedFacts DEF RF!Free, ListsOK
<1>3. RefTypes'
  BY <1>1, <1>2 DEF RefTypes
<1>4. RF!Held' = RF!Held /\ Nodes' = Nodes /\ \A m \in Threads : RF!Idle(m)' = RF!Idle(m)
  BY DEF RF!Held, Nodes, RF!Idle
<1>5. Nodes \cap F = {}
  BY HeldFacts DEF LinkingOK, Nodes
<1>6. ListsOK'
  BY <1>1, <1>2, HeldFacts DEF ListsOK
<1>7. LinkingOK'
  <2> SUFFICES ASSUME NEW m \in Threads, ~RF!Idle(m)
               PROVE  LET c == linking[m].node IN
                      /\ c \in handles[m] /\ kind'[c] \in {"weak", "finalizable"}
                      /\ c \notin RF!Chain(weak') \cup RF!Chain(fin')
                      /\ \A n \in Threads \ {m} : c \notin handles[n]
                      /\ kind'[c] = "weak" => ptr'[c] \in handles[m] /\ kind'[ptr'[c]] # "weak"
    BY <1>4 DEF LinkingOK
  <2>1. linking[m].node \in Cells \ F /\ handles[m] \subseteq Cells \ F
    BY HeldFacts DEF LinkingOK
  <2> QED BY <1>1, <1>2, <2>1 DEF LinkingOK
<1>8. HeldOK'
  BY <1>1, <1>2, <1>4, HeldFacts DEF HeldOK
<1>9. TargetsOK'
  BY <1>1, <1>2, <1>4, HeldFacts DEF TargetsOK, RefTypes
<1>10. DropsOK'
  BY <1>1, <1>2, <1>4 DEF DropsOK
<1>11. SweepOK'
  BY <1>1, <1>2, <1>4, HeldFacts DEF SweepOK
<1>12. PauseOK'
  BY DEF PauseOK
<1> QED BY <1>3, <1>6, <1>7, <1>8, <1>9, <1>10, <1>11, <1>12

\* What a sweep frees is dead, and its finalizer has run.
LEMMA SweepFacts ==
  ASSUME RefInv, NEW F \in SUBSET Cells,
         \/ RF!FullSweep /\ F = RF!Allocated \ marked
         \/ \E c \in Cells : RF!Sweep(c) /\ F = {c} \ marked
  PROVE  /\ RF!Free(F) /\ F \cap marked = {}
         /\ \A c \in F : /\ c \notin RF!Held \cup RF!Chain(weak) \cup RF!Chain(fin)
                         /\ \A w \in RF!Chain(weak) : ptr[w] # c
                         /\ kind[c] = "finalizable" => drops[c] = 1
<1> USE DEF RefInv
<1>1. Nodes \subseteq RF!Held
  BY HeldFacts DEF Nodes, LinkingOK
<1>2. ASSUME NEW c \in F, c \notin RF!Held \cup RF!Chain(weak) \cup RF!Chain(fin)
      PROVE  kind[c] = "finalizable" => drops[c] = 1
  BY <1>1, <1>2 DEF DropsOK
<1>3. CASE RF!FullSweep /\ F = RF!Allocated \ marked
  <2>1. phase = "fin" /\ loop.at = Null /\ RF!Free(F)
    BY <1>3 DEF RF!FullSweep
  <2>2. RF!From(fin.next, loop.at) = {}
    BY <2>1, HeldFacts, ChainFacts, FromNull
  <2>3. RF!Held \subseteq marked /\ RF!Chain(fin) \subseteq marked /\ Kept(RF!Chain(weak))
    BY <2>1, <2>2 DEF PauseOK, Visited
  <2> QED BY <1>2, <1>3, <2>1, <2>3, NullAssumption DEF Kept
<1>4. ASSUME NEW c \in Cells, RF!Sweep(c), F = {c} \ marked
      PROVE  /\ RF!Free(F)
             /\ \A d \in F : /\ d \notin RF!Held \cup RF!Chain(weak) \cup RF!Chain(fin)
                             /\ \A w \in RF!Chain(weak) : ptr[w] # d
  BY <1>4 DEF RF!Sweep, SweepOK
<1> QED BY <1>2, <1>3, <1>4

\* The sweep frees what nobody needs.
LEMMA SweepRef ==
  ASSUME RefInv, NEW F \in SUBSET Cells,
         \/ RF!FullSweep /\ F = RF!Allocated \ marked
         \/ \E c \in Cells : RF!Sweep(c) /\ F = {c} \ marked
  PROVE  RefInv'
<1>1. RF!Free(F) /\ \A c \in F : /\ c \notin RF!Held \cup RF!Chain(weak) \cup RF!Chain(fin)
                                 /\ \A w \in RF!Chain(weak) : ptr[w] # c
  BY SweepFacts
<1>2. /\ phase' \in {"idle", "sweep"}
      /\ phase' = "sweep" => phase = "sweep" /\ unswept' \subseteq unswept
      /\ unswept' \subseteq Cells
      /\ loop' \in [at : Cells \cup {Null}, tail : Cells \cup {Null}, full : BOOLEAN]
      /\ UNCHANGED <<linking, handles, marked, crashed, drops>>
  <2>1. RF!NoLoop \in [at : Cells \cup {Null}, tail : Cells \cup {Null}, full : BOOLEAN]
    BY DEF RF!NoLoop
  <2>2. CASE RF!FullSweep
    BY <2>1, <2>2 DEF RF!FullSweep, RefInv, RefTypes
  <2>3. CASE \E c \in Cells : RF!Sweep(c)
    BY <2>3 DEF RF!Sweep, RefInv, RefTypes
  <2> QED BY <2>2, <2>3
<1> QED BY <1>1, <1>2, FreeRef

\* Every step.
LEMMA NextRef == RefInv /\ [RF!Next]_(RF!vars) => RefInv'
<1> SUFFICES ASSUME RefInv, [RF!Next]_(RF!vars) PROVE RefInv'
  OBVIOUS
<1>1. CASE UNCHANGED RF!vars
  BY <1>1 DEF RF!vars, RefInv, RefTypes, ListsOK, Acyclic, LinkingOK, HeldOK, TargetsOK, DropsOK,
              SweepOK, PauseOK, CursorOK, Kept, Visited, RF!Held, Nodes, RF!Idle
<1>2. ASSUME NEW m \in Threads, NEW n \in Threads, NEW c \in Cells,
             \/ RF!AllocateObject(m, c) \/ RF!NewWeak(m, c) \/ RF!Upgrade(m, c) \/ RF!Forget(m, c)
             \/ RF!Share(m, n, c)
      PROVE  RefInv'
  BY <1>2, MutatorRef
<1>3. ASSUME NEW m \in Threads, RF!Link(m) PROVE RefInv'
  BY <1>3, LinkRef
<1>4. ASSUME NEW c \in Cells, RF!Sweep(c) PROVE RefInv'
  BY <1>4, SweepRef
<1>5. CASE RF!FullSweep
  <2>1. RF!Allocated \ marked \in SUBSET Cells
    BY DEF RF!Allocated
  <2> QED BY <1>5, <2>1, SweepRef
<1>6. CASE RF!InitMark \/ RF!FinalMark \/ RF!FullMark \/ RF!Abort \/ RF!ProcessWeak \/ RF!Finalize
           \/ RF!RunFinalizer \/ RF!PrepareSweep
  BY <1>6, MarkRef, LoopEndRef, ProcessWeakRef, RunFinalizerRef
<1> QED BY <1>1, <1>2, <1>3, <1>4, <1>5, <1>6 DEF RF!Next

-----------------------------------------------------------------------------
\* The invariant gives the state's part of ReferencesOK.
LEMMA RefSafe == RefInv => RF!TargetAlive /\ RF!ListsAllocated
<1> SUFFICES ASSUME RefInv PROVE RF!TargetAlive /\ RF!ListsAllocated
  OBVIOUS
<1> USE DEF RefInv
<1>1. RF!Linked \subseteq RF!Chain(weak)
  <2>1. \A c \in RF!Linked : c \notin Nodes
    BY HeldFacts DEF RF!Linked, Nodes
  <2> QED BY <2>1 DEF RF!Linked, HeldOK
<1>2. RF!TargetAlive
  BY <1>1 DEF RF!TargetAlive, TargetsOK
<1>3. RF!ListsAllocated
  BY HeldFacts DEF RF!ListsAllocated, ListsOK, DropsOK
<1> QED BY <1>2, <1>3

\* Steps free, clear and finalize only what is dead.
LEMMA StepSafe == RefInv /\ [RF!Next]_(RF!vars) => [RF!DropsOnce /\ RF!ClearsDead]_refVars
<1> SUFFICES ASSUME RefInv, RF!Next PROVE RF!DropsOnce /\ RF!ClearsDead
  BY DEF RF!vars, refVars
<1> USE DEF RefInv
<1>1. ASSUME NEW F \in SUBSET Cells,
             \/ RF!FullSweep /\ F = RF!Allocated \ marked
             \/ \E c \in Cells : RF!Sweep(c) /\ F = {c} \ marked
      PROVE  RF!DropsOnce /\ RF!ClearsDead
  <2>1. /\ RF!Free(F) /\ drops' = drops
        /\ \A c \in F : c \notin RF!Held /\ (kind[c] = "finalizable" => drops[c] = 1)
    BY <1>1, SweepFacts DEF RF!FullSweep, RF!Sweep
  <2>2. \A c \in Cells : /\ kind'[c] = IF c \in F THEN "free" ELSE kind[c]
                         /\ ptr'[c] = IF c \in F THEN Null ELSE ptr[c]
    BY <2>1 DEF RF!Free, RF!Emptied
  <2> QED BY <2>1, <2>2, HeldFacts DEF RF!DropsOnce, RF!ClearsDead
<1>2. ASSUME NEW m \in Threads, NEW c \in Cells, RF!AllocateObject(m, c) \/ RF!NewWeak(m, c)
      PROVE  RF!DropsOnce /\ RF!ClearsDead
  <2>1. PICK k \in Kinds, t \in Cells \cup {Null} : k # "free" /\ RF!Allocate(m, c, k, t)
    BY <1>2 DEF RF!AllocateObject, RF!NewWeak, Kinds, RefTypes
  <2>2. /\ kind[c] = "free" /\ kind' = [kind EXCEPT ![c] = k] /\ ptr' = [ptr EXCEPT ![c] = t]
        /\ drops' = [drops EXCEPT ![c] = 0]
    BY <2>1 DEF RF!Allocate
  <2>3. c \notin RF!Held
    BY <2>2 DEF HeldOK
  <2> QED BY <2>1, <2>2, <2>3, HeldFacts DEF RF!DropsOnce, RF!ClearsDead, RefTypes
<1>3. CASE RF!ProcessWeak
  <2>1. kind' = kind /\ drops' = drops /\ phase = "weak"
        /\ ptr' = IF loop.at \in marked /\ ptr[loop.at] \notin marked THEN [ptr EXCEPT ![loop.at] = Null]
                  ELSE ptr
    BY <1>3 DEF RF!ProcessWeak
  <2>2. RF!Held \subseteq marked
    BY <2>1 DEF PauseOK
  <2> QED BY <2>1, <2>2, HeldFacts DEF RF!DropsOnce, RF!ClearsDead, RefTypes
<1>4. CASE RF!RunFinalizer
  <2>1. kind' = kind /\ ptr' = ptr /\ phase = "fin"
        /\ drops' = IF loop.at \in marked THEN drops ELSE [drops EXCEPT ![loop.at] = @ + 1]
    BY <1>4 DEF RF!RunFinalizer
  <2>2. RF!Held \subseteq marked
    BY <2>1 DEF PauseOK
  <2> QED BY <2>1, <2>2, HeldFacts DEF RF!DropsOnce, RF!ClearsDead, RefTypes
<1>5. CASE kind' = kind /\ ptr' = ptr /\ drops' = drops
  BY <1>5 DEF RF!DropsOnce, RF!ClearsDead
<1>6. CASE RF!FullSweep
  <2>1. RF!Allocated \ marked \in SUBSET Cells
    BY DEF RF!Allocated
  <2> QED BY <1>1, <1>6, <2>1
<1>7. ASSUME NEW c \in Cells, RF!Sweep(c) PROVE RF!DropsOnce /\ RF!ClearsDead
  BY <1>1, <1>7
<1>8. ASSUME NEW m \in Threads, NEW n \in Threads, NEW c \in Cells,
             RF!Upgrade(m, c) \/ RF!Forget(m, c) \/ RF!Share(m, n, c) \/ RF!Link(m)
      PROVE  RF!DropsOnce /\ RF!ClearsDead
  BY <1>5, <1>8 DEF RF!Upgrade, RF!Forget, RF!Share, RF!Link
<1>9. ASSUME NEW m \in Threads, RF!Link(m) PROVE RF!DropsOnce /\ RF!ClearsDead
  BY <1>5, <1>9 DEF RF!Link
<1>10. CASE RF!InitMark \/ RF!FinalMark \/ RF!FullMark \/ RF!Abort \/ RF!Finalize \/ RF!PrepareSweep
  BY <1>5, <1>10 DEF RF!InitMark, RF!FinalMark, RF!FullMark, RF!Abort, RF!Finalize, RF!PrepareSweep,
                     RF!CleanUp
<1> QED BY <1>2, <1>3, <1>4, <1>6, <1>7, <1>8, <1>9, <1>10 DEF RF!Next

(***************************************************************************)
(* For any number of threads and objects: a weak reference that can be     *)
(* used is on the list and cleared or with a target that is neither freed  *)
(* nor finalized, however the exchanges of HEAD_REF race; both lists lead  *)
(* through live memory only while their loops unlink from them; a          *)
(* destructor runs once before its object is freed, never for an object in *)
(* use, and a reference in use is cleared only when its target is not; all *)
(* this whatever collections were cancelled on the way.                    *)
(***************************************************************************)
THEOREM ReferencesAreSafe == RF!Spec => ReferencesOK
<1>1. RF!Init => RefInv BY InitRef
<1>2. RefInv /\ [RF!Next]_(RF!vars) => RefInv' BY NextRef
<1>3. RefInv => RF!TargetAlive /\ RF!ListsAllocated BY RefSafe
<1>4. RefInv /\ [RF!Next]_(RF!vars) => [RF!DropsOnce /\ RF!ClearsDead]_refVars BY StepSafe
<1> QED BY <1>1, <1>2, <1>3, <1>4, PTL DEF RF!Spec, ReferencesOK

-----------------------------------------------------------------------------
(***************************************************************************)
(* Bitmaps.                                                                *)
(***************************************************************************)
(* A non-empty set of natural numbers has a least element. *)
LEMMA LeastNatural ==
  ASSUME NEW T, T \subseteq Nat, T # {}
  PROVE  \E n \in T : \A k \in T : n <= k
<1> DEFINE R == OpToRel(<, Nat)
<1>1. IsWellFoundedOn(R, Nat)
  BY NatLessThanWellFounded
<1> HIDE DEF R
<1>2. PICK n \in T : \A k \in T : ~(<<k, n>> \in R)
  BY <1>1, WFMin
<1>3. \A k \in T : ~(k < n)
  BY <1>2 DEF R, OpToRel
<1> QED BY <1>3

(* Min is what it says. *)
LEMMA MinFact ==
  ASSUME NEW T, T \subseteq Nat, T # {}
  PROVE  BM!Min(T) \in T /\ \A k \in T : BM!Min(T) <= k
BY LeastNatural DEF BM!Min

(* Max is what it says. *)
LEMMA MaxFact ==
  ASSUME NEW N \in Int, NEW T, T \subseteq Int, T # {}, \A x \in T : x <= N
  PROVE  BM!Max(T) \in T /\ \A k \in T : k <= BM!Max(T)
<1> DEFINE U == {N - x : x \in T}
<1>1. U \subseteq Nat /\ U # {}
  <2>1. \A x \in T : N - x \in Nat
    OBVIOUS
  <2> QED BY <2>1
<1>2. PICK n \in U : \A k \in U : n <= k
  BY <1>1, LeastNatural
<1>3. PICK x \in T : n = N - x
  BY <1>2
<1>4. ASSUME NEW k \in T PROVE k <= x
  <2>1. N - k \in U /\ n \in Nat /\ N - k \in Nat
    BY <1>1
  <2>2. n <= N - k
    BY <1>2, <2>1
  <2> QED BY <1>3, <2>2
<1> QED BY <1>4 DEF BM!Max

\* The bits of a cell, and the numbers beyond the last granule and the last cell.
BitIndexes == 0 .. BitsPerCell - 1
Total == CellCount * BitsPerCell

(* A number is made of its cell and its bit. *)
LEMMA CellBit ==
  ASSUME NEW g \in Nat
  PROVE  /\ BM!Cell(g) \in Nat /\ BM!Bit(g) \in BitIndexes
         /\ g = BM!Cell(g) * BitsPerCell + BM!Bit(g)
BY BitmapAssumption DEF BM!Cell, BM!Bit, BitIndexes

(* And only of those. *)
LEMMA CellBitUnique ==
  ASSUME NEW c \in Nat, NEW i \in BitIndexes
  PROVE  BM!Cell(c * BitsPerCell + i) = c /\ BM!Bit(c * BitsPerCell + i) = i
<1>1. c * BitsPerCell + i \in Nat
  BY BitmapAssumption DEF BitIndexes
<1> DEFINE g == c * BitsPerCell + i
           q == BM!Cell(g)
           r == BM!Bit(g)
<1>2. q \in Nat /\ r \in BitIndexes /\ q * BitsPerCell + r = g
  BY <1>1, CellBit
<1> HIDE DEF q, r
<1>3. (q - c) * BitsPerCell = i - r
  BY <1>2, BitmapAssumption DEF BitIndexes
<1>4. q = c
  BY <1>2, <1>3, BitmapAssumption DEF BitIndexes
<1>5. r = i
  BY <1>2, <1>4, BitmapAssumption DEF BitIndexes
<1> QED BY <1>4, <1>5 DEF q, r

(* Numbers are ordered by cell, then by bit. *)
LEMMA CellOrder ==
  ASSUME NEW g \in Nat, NEW h \in Nat
  PROVE  /\ g <= h => BM!Cell(g) <= BM!Cell(h)
         /\ BM!Cell(g) < BM!Cell(h) => g < h
         /\ BM!Cell(g) = BM!Cell(h) => (g <= h <=> BM!Bit(g) <= BM!Bit(h))
<1> DEFINE a == BM!Cell(g)
           b == BM!Cell(h)
           i == BM!Bit(g)
           j == BM!Bit(h)
<1>1. /\ a \in Nat /\ i \in BitIndexes /\ g = a * BitsPerCell + i
      /\ b \in Nat /\ j \in BitIndexes /\ h = b * BitsPerCell + j
  BY CellBit
<1> HIDE DEF a, b, i, j
<1>2. ASSUME a < b PROVE g < h
  <2>1. a * BitsPerCell + BitsPerCell <= b * BitsPerCell
    <3>1. (b - (a + 1)) * BitsPerCell >= 0
      BY <1>1, <1>2, BitmapAssumption
    <3> QED BY <3>1, <1>1, BitmapAssumption
  <2> QED BY <2>1, <1>1, BitmapAssumption DEF BitIndexes
<1>3. ASSUME b < a PROVE h < g
  <2>1. b * BitsPerCell + BitsPerCell <= a * BitsPerCell
    <3>1. (a - (b + 1)) * BitsPerCell >= 0
      BY <1>1, <1>3, BitmapAssumption
    <3> QED BY <3>1, <1>1, BitmapAssumption
  <2> QED BY <2>1, <1>1, BitmapAssumption DEF BitIndexes
<1>4. a = b => (g <= h <=> i <= j)
  BY <1>1, BitmapAssumption DEF BitIndexes
<1>5. g <= h => a <= b
  BY <1>1, <1>3
<1> QED BY <1>2, <1>4, <1>5 DEF a, b, i, j

(* The granules are those of the cells. *)
LEMMA GranuleCells ==
  /\ Total \in Nat
  /\ BM!Granules = 0 .. Total - 1
  /\ \A g \in Nat : g \in BM!Granules <=> BM!Cell(g) \in BM!CellIndexes
  /\ \A c \in BM!CellIndexes, i \in BitIndexes : c * BitsPerCell + i \in BM!Granules
<1>1. Total \in Nat /\ BM!Granules = 0 .. Total - 1
  BY BitmapAssumption DEF Total, BM!Granules
<1>2. 0 \in BitIndexes /\ CellCount \in Nat /\ CellCount * BitsPerCell + 0 = Total
  BY BitmapAssumption DEF BitIndexes, Total
<1>3. BM!Cell(Total) = CellCount /\ BM!Bit(Total) = 0
  BY <1>2, CellBitUnique
<1>4. ASSUME NEW g \in Nat PROVE g \in BM!Granules <=> BM!Cell(g) \in BM!CellIndexes
  <2>1. /\ BM!Cell(g) \in Nat /\ BM!Bit(g) \in BitIndexes
        /\ Total <= g => CellCount <= BM!Cell(g)
        /\ BM!Cell(Total) = BM!Cell(g) => (Total <= g <=> 0 <= BM!Bit(g))
        /\ CellCount < BM!Cell(g) => Total < g
    BY <1>1, <1>3, CellBit, CellOrder
  <2> QED BY <2>1, <1>1, <1>2, <1>3 DEF BM!CellIndexes, BitIndexes
<1>5. ASSUME NEW c \in BM!CellIndexes, NEW i \in BitIndexes
      PROVE  c * BitsPerCell + i \in BM!Granules
  <2>1. c \in Nat /\ c * BitsPerCell + i \in Nat
    BY BitmapAssumption DEF BM!CellIndexes, BitIndexes
  <2>2. BM!Cell(c * BitsPerCell + i) = c
    BY <2>1, CellBitUnique
  <2> QED BY <2>1, <2>2, <1>4
<1> QED BY <1>1, <1>4, <1>5

BitTypes ==
  /\ cells \in [BM!CellIndexes -> SUBSET BitIndexes]
  /\ call \in [Threads -> [at : {"idle", "loaded"}, bit : BM!Granules, old : SUBSET BitIndexes]]
  /\ wins \in [BM!Granules -> {0, 1}]

\* What a thread has loaded is still there: bits are cleared at a pause only.
LoadedOK ==
  \A t \in Threads : call[t].at = "loaded" => call[t].old \subseteq cells[BM!Cell(call[t].bit)]

\* Somebody has won a bit only if it is set.
WinsOK == \A g \in BM!Granules : wins[g] = 1 => BM!CheckBit(g)

BitInv == BitTypes /\ LoadedOK /\ WinsOK /\ BM!NoLostBit

(* A granule has a cell and a bit of its own. *)
LEMMA GranuleFact ==
  ASSUME NEW g \in BM!Granules
  PROVE  /\ g \in Nat /\ BM!Cell(g) \in BM!CellIndexes /\ BM!Bit(g) \in BitIndexes
         /\ \A h \in BM!Granules : BM!Cell(h) = BM!Cell(g) /\ BM!Bit(h) = BM!Bit(g) => h = g
<1>1. \A h \in BM!Granules : h \in Nat
  BY GranuleCells
<1> QED BY <1>1, CellBit, GranuleCells

(* The bitmap starts empty. *)
LEMMA InitBits == BM!Init => BitInv
<1> SUFFICES ASSUME BM!Init PROVE BitInv
  OBVIOUS
<1>1. BitTypes
  <2>1. 0 \in BM!Granules
    <3>1. 0 \in BM!CellIndexes /\ 0 \in BitIndexes /\ 0 * BitsPerCell + 0 = 0
      BY BitmapAssumption DEF BM!CellIndexes, BitIndexes
    <3> QED BY <3>1, GranuleCells
  <2> QED BY <2>1 DEF BM!Init, BitTypes, BM!NoCall
<1>2. \A g \in BM!Granules : ~BM!CheckBit(g)
  BY GranuleFact DEF BM!Init, BM!CheckBit
<1> QED BY <1>1, <1>2 DEF BM!Init, BitInv, LoadedOK, WinsOK, BM!NoLostBit, BM!Bits, BM!NoCall

(* Setting a bit sets no other and loses none. *)
LEMMA SetFact ==
  ASSUME BitInv, NEW g \in BM!Granules,
         cells' = [cells EXCEPT ![BM!Cell(g)] = @ \cup {BM!Bit(g)}]
  PROVE  /\ cells' \in [BM!CellIndexes -> SUBSET BitIndexes]
         /\ \A c \in BM!CellIndexes : cells[c] \subseteq cells'[c]
         /\ \A h \in BM!Granules : BM!CheckBit(h)' <=> h = g \/ BM!CheckBit(h)
         /\ BM!Bits' = BM!Bits \cup {g}
<1>1. cells \in [BM!CellIndexes -> SUBSET BitIndexes]
  BY DEF BitInv, BitTypes
<1>2. BM!Cell(g) \in BM!CellIndexes /\ BM!Bit(g) \in BitIndexes
  BY GranuleFact
<1>3. cells' \in [BM!CellIndexes -> SUBSET BitIndexes]
  BY <1>1, <1>2
<1>4. \A c \in BM!CellIndexes : cells'[c] = IF c = BM!Cell(g) THEN cells[c] \cup {BM!Bit(g)} ELSE cells[c]
  BY <1>1
<1>5. ASSUME NEW h \in BM!Granules PROVE BM!CheckBit(h)' <=> h = g \/ BM!CheckBit(h)
  <2>1. BM!CheckBit(h)' <=> BM!Bit(h) \in cells'[BM!Cell(h)]
    BY DEF BM!CheckBit, BM!Bit, BM!Cell
  <2>2. BM!Cell(h) \in BM!CellIndexes
    BY GranuleFact
  <2>3. BM!Cell(h) = BM!Cell(g) /\ BM!Bit(h) = BM!Bit(g) => h = g
    BY GranuleFact
  <2> QED BY <2>1, <2>2, <2>3, <1>4 DEF BM!CheckBit
<1>6. BM!Bits' = {h \in BM!Granules : BM!CheckBit(h)'}
  BY DEF BM!Bits, BM!Granules
<1> QED BY <1>3, <1>4, <1>5, <1>6 DEF BM!Bits

(* Steps that change no cell. *)
LEMMA SameBits ==
  ASSUME UNCHANGED cells
  PROVE  BM!Bits' = BM!Bits /\ \A g \in BM!Granules : BM!CheckBit(g)' = BM!CheckBit(g)
BY DEF BM!Bits, BM!Granules, BM!CheckBit, BM!Cell, BM!Bit

(* A thread's call has a granule. *)
LEMMA CallFact ==
  ASSUME BitInv, NEW t \in Threads
  PROVE  /\ call[t] \in [at : {"idle", "loaded"}, bit : BM!Granules, old : SUBSET BitIndexes]
         /\ BM!NoCall \in [at : {"idle", "loaded"}, bit : BM!Granules, old : SUBSET BitIndexes]
         /\ [call EXCEPT ![t] = BM!NoCall]
              \in [Threads -> [at : {"idle", "loaded"}, bit : BM!Granules, old : SUBSET BitIndexes]]
         /\ BM!Cell(call[t].bit) \in BM!CellIndexes
<1>1. 0 \in BM!Granules
  <2>1. 0 \in BM!CellIndexes /\ 0 \in BitIndexes /\ 0 * BitsPerCell + 0 = 0
    BY BitmapAssumption DEF BM!CellIndexes, BitIndexes
  <2> QED BY <2>1, GranuleCells
<1>2. call[t] \in [at : {"idle", "loaded"}, bit : BM!Granules, old : SUBSET BitIndexes]
  BY DEF BitInv, BitTypes
<1> QED BY <1>1, <1>2, GranuleFact DEF BM!NoCall, BitInv, BitTypes

(* set_bit. *)
LEMMA SetBitStep ==
  ASSUME BitInv, NEW g \in BM!Granules, BM!SetBit(g)
  PROVE  BitInv'
<1>1. cells' = [cells EXCEPT ![BM!Cell(g)] = @ \cup {BM!Bit(g)}] /\ UNCHANGED call
  BY DEF BM!SetBit
<1>2. wins[g] = 0
  BY DEF BM!SetBit, BitInv, WinsOK, BitTypes
<1>3. wins' = [wins EXCEPT ![g] = 1]
  BY <1>2 DEF BM!SetBit, BitInv, BitTypes
<1>4. BitTypes'
  BY <1>1, <1>3, SetFact DEF BitTypes, BitInv, BM!Granules, BM!CellIndexes
<1>5. LoadedOK'
  <2> SUFFICES ASSUME NEW t \in Threads, call[t].at = "loaded"
               PROVE  call[t].old \subseteq cells'[BM!Cell(call[t].bit)]
    BY <1>1 DEF LoadedOK, BM!Cell
  <2> QED BY <1>1, SetFact, CallFact DEF LoadedOK, BitInv
<1>6. WinsOK'
  <2> SUFFICES ASSUME NEW h \in BM!Granules, wins'[h] = 1 PROVE BM!CheckBit(h)'
    BY DEF WinsOK, BM!Granules
  <2> QED BY <1>1, <1>3, SetFact DEF WinsOK, BitInv, BitTypes
<1>7. BM!NoLostBit'
  <2>1. BM!Bits' = BM!Bits \cup {g}
    BY <1>1, SetFact
  <2>2. BM!NoLostBit' <=> BM!Bits' = sure'
    BY DEF BM!NoLostBit
  <2> QED BY <2>1, <2>2 DEF BM!SetBit, BitInv, BM!NoLostBit
<1> QED BY <1>4, <1>5, <1>6, <1>7 DEF BitInv

(* atomic_test_and_set: what it has loaded. *)
LEMMA LoadStep ==
  ASSUME BitInv, NEW t \in Threads,
         UNCHANGED <<cells, sure, wins>>,
         NEW g \in BM!Granules,
         call' = [call EXCEPT ![t] = [at |-> "loaded", bit |-> g, old |-> cells[BM!Cell(g)]]]
  PROVE  BitInv'
<1>1. cells[BM!Cell(g)] \in SUBSET BitIndexes
  BY GranuleFact DEF BitInv, BitTypes
<1>2. BitTypes'
  BY <1>1 DEF BitTypes, BitInv, BM!Granules, BM!CellIndexes
<1>3. LoadedOK'
  <2> SUFFICES ASSUME NEW u \in Threads, call'[u].at = "loaded"
               PROVE  call'[u].old \subseteq cells[BM!Cell(call'[u].bit)]
    BY DEF LoadedOK, BM!Cell
  <2>1. u # t => call'[u] = call[u]
    BY DEF BitInv, BitTypes
  <2>2. u = t => call'[u] = [at |-> "loaded", bit |-> g, old |-> cells[BM!Cell(g)]]
    BY DEF BitInv, BitTypes
  <2>3. CASE u = t
    BY <2>2, <2>3
  <2>4. CASE u # t
    BY <2>1, <2>4 DEF LoadedOK, BitInv
  <2> QED BY <2>3, <2>4
<1>4. WinsOK'
  BY SameBits DEF WinsOK, BitInv, BM!Granules
<1>5. BM!NoLostBit'
  BY SameBits DEF BM!NoLostBit, BitInv
<1> QED BY <1>2, <1>3, <1>4, <1>5 DEF BitInv

(* atomic_test_and_set: its last step, in which it sets the bit or finds it set. *)
LEMMA ReturnStep ==
  ASSUME BitInv, NEW t \in Threads, BM!Exchange(t) \/ BM!AlreadySet(t)
  PROVE  BitInv'
<1> DEFINE g == call[t].bit
<1>1. g \in BM!Granules /\ call' = [call EXCEPT ![t] = BM!NoCall] /\ call[t].at = "loaded"
  BY CallFact DEF BM!Exchange, BM!AlreadySet, BM!Returned
<1>2. sure' = sure \cup {g}
  BY DEF BM!Exchange, BM!AlreadySet, BM!Returned
<1>3. \A c \in BM!CellIndexes : cells[c] \subseteq cells'[c]
  BY <1>1, SetFact DEF BM!Exchange, BM!AlreadySet
<1>4. /\ cells' \in [BM!CellIndexes -> SUBSET BitIndexes]
      /\ BM!Bits' = BM!Bits \cup {g}
      /\ \A h \in BM!Granules : BM!CheckBit(h)' <=> h = g \/ BM!CheckBit(h)
      /\ wins' \in [BM!Granules -> {0, 1}]
      /\ \A h \in BM!Granules : h # g => wins'[h] = wins[h]
  <2>1. CASE BM!Exchange(t)
    <3>1. ~BM!CheckBit(g)
      BY <2>1 DEF BM!Exchange, BM!CheckBit
    <3>2. wins[g] = 0
      BY <1>1, <3>1 DEF BitInv, WinsOK, BitTypes
    <3>3. wins' = [wins EXCEPT ![g] = 1]
      BY <1>1, <2>1, <3>2 DEF BM!Exchange, BM!Returned, BitInv, BitTypes
    <3>4. cells' = [cells EXCEPT ![BM!Cell(g)] = @ \cup {BM!Bit(g)}]
      BY <2>1 DEF BM!Exchange
    <3> HIDE DEF g
    <3> QED BY <1>1, <3>3, <3>4, SetFact DEF BitInv, BitTypes
  <2>2. CASE BM!AlreadySet(t)
    <3>1. UNCHANGED cells /\ wins' = [wins EXCEPT ![g] = @]
      BY <2>2 DEF BM!AlreadySet, BM!Returned
    <3>2. BM!CheckBit(g)
      BY <2>2 DEF BM!AlreadySet, BM!CheckBit, BitInv, LoadedOK
    <3>3. wins' = wins
      BY <3>1, <1>1 DEF BitInv, BitTypes
    <3> QED BY <1>1, <3>1, <3>2, <3>3, SameBits DEF BitInv, BitTypes, BM!Bits
  <2> QED BY <2>1, <2>2
<1> HIDE DEF g
<1>5. BitTypes'
  BY <1>1, <1>4, CallFact DEF BitTypes, BM!Granules, BM!CellIndexes
<1>6. LoadedOK'
  <2> SUFFICES ASSUME NEW u \in Threads, call'[u].at = "loaded"
               PROVE  call'[u].old \subseteq cells'[BM!Cell(call'[u].bit)]
    BY DEF LoadedOK, BM!Cell
  <2>1. u # t /\ call'[u] = call[u]
    BY <1>1 DEF BitInv, BitTypes, BM!NoCall
  <2> QED BY <2>1, <1>3, CallFact DEF LoadedOK, BitInv
<1>7. WinsOK'
  <2> SUFFICES ASSUME NEW h \in BM!Granules, wins'[h] = 1 PROVE BM!CheckBit(h)'
    BY DEF WinsOK, BM!Granules
  <2> QED BY <1>4 DEF WinsOK, BitInv
<1>8. BM!NoLostBit'
  <2>1. BM!NoLostBit' <=> BM!Bits' = sure'
    BY DEF BM!NoLostBit
  <2> QED BY <1>2, <1>4, <2>1 DEF BitInv, BM!NoLostBit
<1> QED BY <1>5, <1>6, <1>7, <1>8 DEF BitInv

(* clear_bitmap_full. *)
LEMMA ClearStep ==
  ASSUME BitInv, BM!Clear
  PROVE  BitInv'
<1>1. BitTypes'
  BY DEF BM!Clear, BitInv, BitTypes, BM!Granules, BM!CellIndexes
<1>2. \A g \in BM!Granules : ~BM!CheckBit(g)'
  BY GranuleFact DEF BM!Clear, BM!CheckBit, BM!Cell, BM!Bit
<1>3. LoadedOK'
  BY DEF BM!Clear, LoadedOK
<1>4. BM!Bits' = {h \in BM!Granules : BM!CheckBit(h)'}
  BY DEF BM!Bits, BM!Granules
<1>5. WinsOK'
  <2> SUFFICES ASSUME NEW h \in BM!Granules PROVE wins'[h] # 1
    BY DEF WinsOK, BM!Granules
  <2> QED BY DEF BM!Clear
<1>6. BM!NoLostBit'
  BY <1>2, <1>4 DEF BM!Clear, BM!NoLostBit
<1> QED BY <1>1, <1>3, <1>5, <1>6 DEF BitInv

(* Every step of the bitmap. *)
LEMMA NextBits == BitInv /\ [BM!Next]_bitVars => BitInv'
<1> SUFFICES ASSUME BitInv, [BM!Next]_bitVars PROVE BitInv'
  OBVIOUS
<1>1. CASE UNCHANGED bitVars
  BY <1>1 DEF bitVars, BitInv, BitTypes, LoadedOK, WinsOK, BM!NoLostBit, BM!Bits, BM!Granules,
     BM!CellIndexes, BM!CheckBit, BM!Cell, BM!Bit
<1>2. CASE \E g \in BM!Granules : BM!SetBit(g)
  BY <1>2, SetBitStep
<1>3. ASSUME NEW t \in Threads, NEW g \in BM!Granules, BM!LoadCell(t, g) PROVE BitInv'
  BY <1>3, LoadStep DEF BM!LoadCell
<1>4. ASSUME NEW t \in Threads, BM!ExchangeFails(t) PROVE BitInv'
  <2> DEFINE g == call[t].bit
  <2>1. g \in BM!Granules /\ call[t] = [at |-> "loaded", bit |-> g, old |-> call[t].old]
    BY <1>4, CallFact DEF BM!ExchangeFails
  <2>2. call' = [call EXCEPT ![t] = [at |-> "loaded", bit |-> g, old |-> cells[BM!Cell(g)]]]
    <3> DEFINE x == cells[BM!Cell(g)]
    <3>1. call' = [call EXCEPT ![t] = [call[t] EXCEPT !.old = x]]
      BY <1>4 DEF BM!ExchangeFails
    <3> HIDE DEF x, g
    <3>2. [call[t] EXCEPT !.old = x] = [at |-> "loaded", bit |-> g, old |-> x]
      BY <2>1
    <3> QED BY <3>1, <3>2 DEF x
  <2>3. UNCHANGED <<cells, sure, wins>>
    BY <1>4 DEF BM!ExchangeFails
  <2> HIDE DEF g
  <2> QED BY <2>1, <2>2, <2>3, LoadStep
<1>5. CASE BM!Clear
  BY <1>5, ClearStep
<1> QED BY <1>1, <1>2, <1>3, <1>4, <1>5, ReturnStep DEF BM!Next

(* A search or a range operation reads the cells of granules. *)
LEMMA CellsFact ==
  ASSUME BitInv
  PROVE  /\ cells \in [BM!CellIndexes -> SUBSET BitIndexes]
         /\ \A g \in BM!Bits : g \in BM!Granules /\ BM!Bit(g) \in cells[BM!Cell(g)]
         /\ \A c \in BM!CellIndexes : \A i \in cells[c] : c * BitsPerCell + i \in BM!Bits
<1>1. cells \in [BM!CellIndexes -> SUBSET BitIndexes]
  BY DEF BitInv, BitTypes
<1>2. ASSUME NEW c \in BM!CellIndexes, NEW i \in cells[c]
      PROVE  c * BitsPerCell + i \in BM!Bits
  <2>1. c \in Nat /\ i \in BitIndexes
    BY <1>1 DEF BM!CellIndexes
  <2>2. c * BitsPerCell + i \in BM!Granules
    BY <2>1, GranuleCells
  <2>3. BM!CheckBit(c * BitsPerCell + i)
    BY <2>1, CellBitUnique DEF BM!CheckBit
  <2> QED BY <2>2, <2>3 DEF BM!Bits
<1> QED BY <1>1, <1>2 DEF BM!Bits, BM!CheckBit

(* find_object_start. *)
LEMMA StartFoundFact == BitInv => BM!StartFound
<1> SUFFICES ASSUME BitInv, NEW addr \in 0 .. CellCount * BitsPerCell * ALIGN - 1
             PROVE  BM!FindObjectStart(addr) = BM!Max({g \in BM!Bits : g * ALIGN <= addr} \cup {-1})
  BY DEF BM!StartFound
<1> DEFINE n == addr \div ALIGN
           byte == [c \in BM!CellIndexes |->
                      IF c = BM!Cell(n) THEN cells[c] \cap (0 .. BM!Bit(n)) ELSE cells[c]]
           found == {c \in 0 .. BM!Cell(n) : byte[c] # {}}
           before == {g \in BM!Bits : g * ALIGN <= addr}
<1>1. BM!FindObjectStart(addr) =
        IF found = {} THEN -1
        ELSE BM!Max(found) * BitsPerCell + BM!Max(byte[BM!Max(found)])
  BY DEF BM!FindObjectStart
<1>2. n \in BM!Granules /\ \A g \in Nat : g * ALIGN <= addr <=> g <= n
  <2>1. addr \in Nat /\ Total \in Nat /\ addr < Total * ALIGN
    BY BitmapAssumption, GranuleCells DEF Total
  <2>2. n \in Nat /\ n * ALIGN <= addr /\ addr < n * ALIGN + ALIGN
    BY <2>1, BitmapAssumption
  <2> HIDE DEF n
  <2>3. ASSUME NEW g \in Nat, g <= n PROVE g * ALIGN <= addr
    <3>1. (n - g) * ALIGN >= 0
      BY <2>2, <2>3, BitmapAssumption
    <3> QED BY <2>1, <2>2, <3>1, BitmapAssumption
  <2>4. ASSUME NEW g \in Nat, n < g PROVE addr < g * ALIGN
    <3>1. (g - (n + 1)) * ALIGN >= 0
      BY <2>2, <2>4, BitmapAssumption
    <3> QED BY <2>1, <2>2, <3>1, BitmapAssumption
  <2>5. n \in BM!Granules
    <3>1. Total * ALIGN \in Nat
      BY <2>1, BitmapAssumption
    <3>2. ~(Total * ALIGN <= addr)
      BY <3>1, <2>1
    <3>3. n < Total
      BY <2>1, <2>2, <2>3, <3>2
    <3> QED BY <2>1, <2>2, <3>3, GranuleCells
  <2>6. ASSUME NEW g \in Nat PROVE g * ALIGN <= addr <=> g <= n
    <3>1. g * ALIGN \in Nat
      BY BitmapAssumption
    <3>2. n < g => ~(g * ALIGN <= addr)
      BY <2>1, <2>4, <3>1
    <3> QED BY <2>2, <2>3, <3>2
  <2> QED BY <2>5, <2>6
<1> HIDE DEF n
<1>3. /\ n \in Nat /\ BM!Cell(n) \in BM!CellIndexes /\ BM!Cell(n) \in Nat
      /\ BM!Bit(n) \in BitIndexes /\ BM!Bit(n) \in Nat
  BY <1>2, GranuleFact, CellBit DEF BitIndexes
<1>4. \A c \in 0 .. BM!Cell(n) : c \in BM!CellIndexes /\ c \in Nat
  BY <1>3, BitmapAssumption DEF BM!CellIndexes
<1>5. before = {g \in BM!Bits : g <= n}
  <2>1. \A g \in BM!Bits : g \in Nat
    BY CellsFact, GranuleFact
  <2> QED BY <2>1, <1>2
<1>6. ASSUME NEW g \in before PROVE BM!Cell(g) \in found /\ BM!Bit(g) \in byte[BM!Cell(g)] /\ g \in Nat
  <2>1. g \in BM!Bits /\ g \in Nat /\ g <= n /\ g \in BM!Granules
    BY <1>5, CellsFact, GranuleFact
  <2>2. BM!Cell(g) <= BM!Cell(n) /\ BM!Cell(g) \in Nat /\ BM!Bit(g) \in Nat /\ BM!Cell(g) \in BM!CellIndexes
    BY <2>1, <1>3, CellOrder, CellBit, GranuleFact DEF BitIndexes
  <2>3. BM!Cell(g) = BM!Cell(n) => BM!Bit(g) <= BM!Bit(n)
    BY <2>1, <1>3, CellOrder
  <2>4. BM!Bit(g) \in cells[BM!Cell(g)]
    BY <2>1, CellsFact
  <2>5. BM!Bit(g) \in byte[BM!Cell(g)]
    BY <2>2, <2>3, <2>4, <1>3
  <2> HIDE DEF byte
  <2> QED BY <2>1, <2>2, <2>5, <1>3
<1>7. ASSUME NEW c \in found, NEW i \in byte[c]
      PROVE  /\ c \in Nat /\ i \in BitIndexes /\ c * BitsPerCell + i \in before
  <2>1. c \in Nat /\ c \in BM!CellIndexes /\ c <= BM!Cell(n) /\ i \in cells[c]
    BY <1>4, <1>3
  <2>2. i \in BitIndexes /\ c * BitsPerCell + i \in BM!Bits /\ c * BitsPerCell + i \in Nat
    BY <2>1, CellsFact, GranuleFact
  <2>3. c = BM!Cell(n) => i <= BM!Bit(n)
    BY <2>1, <1>3
  <2>4. BM!Cell(c * BitsPerCell + i) = c /\ BM!Bit(c * BitsPerCell + i) = i
    BY <2>1, <2>2, CellBitUnique
  <2>5. c * BitsPerCell + i <= n
    <3> DEFINE h == c * BitsPerCell + i
    <3>1. h \in Nat /\ BM!Cell(h) = c /\ BM!Bit(h) = i
      BY <2>2, <2>4
    <3> HIDE DEF h
    <3>2. h <= n
      BY <3>1, <2>1, <2>3, <1>3, CellOrder
    <3> QED BY <3>2 DEF h
  <2> HIDE DEF before
  <2> QED BY <2>1, <2>2, <2>5, <1>5
<1> HIDE DEF byte, before
<1>8. CASE found = {}
  <2>1. before = {}
    BY <1>6, <1>8
  <2>2. BM!Max({-1}) = -1
    BY MaxFact
  <2>3. before \cup {-1} = {-1}
    BY <2>1
  <2> QED BY <1>1, <1>8, <2>2, <2>3 DEF before
<1>9. CASE found # {}
  <2> DEFINE c == BM!Max(found)
             i == BM!Max(byte[c])
             h == c * BitsPerCell + i
  <2>1. c \in found /\ \A d \in found : d <= c
    <3>1. found \subseteq Int /\ \A d \in found : d <= BM!Cell(n)
      BY <1>3
    <3> DEFINE N == BM!Cell(n)
    <3>2. N \in Int
      BY <1>3
    <3> HIDE DEF found, N
    <3>3. \A d \in found : d <= N
      BY <3>1 DEF N
    <3> QED BY <3>1, <3>2, <3>3, <1>9, MaxFact
  <2>2. byte[c] # {}
    BY <2>1
  <2> HIDE DEF c, found
  <2>3. byte[c] \subseteq BitIndexes
    BY <2>1, <1>7
  <2>4. i \in byte[c] /\ \A j \in byte[c] : j <= i
    <3>1. byte[c] \subseteq Int /\ \A j \in byte[c] : j <= BitsPerCell
      BY <2>3, BitmapAssumption DEF BitIndexes
    <3> QED BY <3>1, <2>2, BitmapAssumption, MaxFact
  <2> HIDE DEF i
  <2>5. c \in Nat /\ i \in BitIndexes /\ h \in before
    BY <2>1, <2>4, <1>7
  <2>6. h \in Nat /\ BM!Cell(h) = c /\ BM!Bit(h) = i
    BY <2>5, <1>6, CellBitUnique
  <2> HIDE DEF h
  <2>7. ASSUME NEW g \in before PROVE g <= h
    <3>1. g \in Nat /\ BM!Cell(g) \in found /\ BM!Bit(g) \in byte[BM!Cell(g)]
      BY <1>6
    <3>2. BM!Cell(g) <= c /\ (BM!Cell(g) = c => BM!Bit(g) <= i)
      BY <3>1, <2>1, <2>4
    <3>3. BM!Cell(g) \in Nat
      BY <3>1, CellBit
    <3>4. CASE BM!Cell(g) = c
      BY <3>1, <3>2, <3>4, <2>6, CellOrder
    <3>5. CASE BM!Cell(g) < c
      BY <3>1, <3>5, <2>6, CellOrder
    <3> QED BY <3>2, <3>3, <3>4, <3>5, <2>5
  <2> DEFINE all == before \cup {-1}
  <2>8. all \subseteq Int /\ all # {} /\ \A g \in all : g <= h
    BY <2>6, <2>7, <1>6
  <2>9. h \in all /\ h \in Int
    BY <2>5, <2>6
  <2> HIDE DEF all
  <2>10. BM!Max(all) \in all /\ \A g \in all : g <= BM!Max(all)
    BY <2>8, <2>9, MaxFact
  <2>11. BM!Max(all) = h
    <3>1. BM!Max(all) \in Int /\ h <= BM!Max(all) /\ BM!Max(all) <= h
      BY <2>8, <2>9, <2>10
    <3> QED BY <3>1, <2>9
  <2> QED BY <1>1, <1>9, <2>11 DEF all, h, i, c, before
<1> QED BY <1>8, <1>9

(* The first cell boundary of a range, and the last after it. *)
LEMMA BoundaryFact ==
  ASSUME NEW b \in Nat, NEW e \in Nat, b <= e
  PROVE  LET b1 == BM!FirstBoundary(b, e)
             e1 == BM!LastBoundary(b1, e)
         IN  /\ b1 \in b .. e /\ e1 \in b1 .. e
             /\ b1 = e \/ (BM!Bit(b1) = 0 /\ BM!Bit(e1) = 0)
<1> DEFINE b1 == BM!FirstBoundary(b, e)
           e1 == BM!LastBoundary(b1, e)
<1>1. b1 \in b .. e /\ (b1 = e \/ BM!Bit(b1) = 0)
  <2> DEFINE T == {x \in b .. e : BM!Bit(x) = 0} \cup {e}
  <2>1. T \subseteq Nat /\ T # {}
    OBVIOUS
  <2>2. b1 = BM!Min(T)
    BY DEF BM!FirstBoundary
  <2> HIDE DEF T, b1
  <2>3. b1 \in T
    BY <2>1, <2>2, MinFact
  <2> QED BY <2>3 DEF T
<1> HIDE DEF b1
<1>2. e1 \in b1 .. e /\ (e1 = b1 \/ BM!Bit(e1) = 0)
  <2> DEFINE T == {x \in b1 .. e : BM!Bit(x) = 0} \cup {b1}
  <2>1. T \subseteq Int /\ T # {} /\ (\A x \in T : x <= e) /\ e \in Int
    BY <1>1
  <2>2. e1 = BM!Max(T)
    BY DEF BM!LastBoundary
  <2> HIDE DEF T, e1
  <2>3. e1 \in T
    BY <2>1, <2>2, MaxFact
  <2> QED BY <2>3, <1>1 DEF T
<1> HIDE DEF e1
<1>3. b1 = e \/ (BM!Bit(b1) = 0 /\ BM!Bit(e1) = 0)
  BY <1>1, <1>2
<1> QED BY <1>1, <1>2, <1>3 DEF b1, e1

(* The edges and the whole cells of a range are its granules, each on one side. *)
LEMMA InsideFact ==
  ASSUME NEW b \in BM!Granules, NEW e \in BM!Granules, b <= e
  PROVE  /\ BM!Inside(b, e).edges \subseteq b .. e - 1
         /\ BM!Inside(b, e).whole \subseteq BM!CellIndexes
         /\ \A g \in BM!Granules :
              g \in b .. e - 1 <=>
                g \in BM!Inside(b, e).edges \/ BM!Cell(g) \in BM!Inside(b, e).whole
<1> DEFINE b1 == BM!FirstBoundary(b, e)
           e1 == BM!LastBoundary(b1, e)
<1>1. b \in Nat /\ e \in Nat
  BY GranuleFact
<1>2. /\ BM!Inside(b, e).edges = (b .. b1 - 1) \cup (e1 .. e - 1)
      /\ BM!Inside(b, e).whole = BM!Cell(b1) .. BM!Cell(e1) - 1
  BY DEF BM!Inside
<1>3. b1 \in b .. e /\ e1 \in b1 .. e /\ (b1 = e \/ (BM!Bit(b1) = 0 /\ BM!Bit(e1) = 0))
  BY <1>1, BoundaryFact
<1> HIDE DEF b1, e1
<1>4. b1 \in Nat /\ e1 \in Nat /\ BM!Cell(b1) \in Nat /\ BM!Cell(e1) \in Nat
  BY <1>1, <1>3, CellBit
<1>5. BM!Cell(e1) <= BM!Cell(e) /\ BM!Cell(e) \in BM!CellIndexes
  BY <1>1, <1>3, <1>4, CellOrder, GranuleFact
<1>6. BM!Inside(b, e).edges \subseteq b .. e - 1
  BY <1>1, <1>2, <1>3
<1>7. BM!Inside(b, e).whole \subseteq BM!CellIndexes
  BY <1>2, <1>4, <1>5, BitmapAssumption DEF BM!CellIndexes
<1>8. ASSUME NEW g \in BM!Granules
      PROVE  BM!Cell(g) \in BM!Cell(b1) .. BM!Cell(e1) - 1 <=> g \in b1 .. e1 - 1
  <2>1. g \in Nat /\ BM!Cell(g) \in Nat /\ BM!Bit(g) \in Nat
    BY GranuleFact, CellBit DEF BitIndexes
  <2>2. CASE b1 = e
    BY <2>1, <2>2, <1>1, <1>3, <1>4
  <2>3. CASE BM!Bit(b1) = 0 /\ BM!Bit(e1) = 0
    <3>1. BM!Cell(b1) <= BM!Cell(g) <=> b1 <= g
      <4>1. BM!Cell(b1) = BM!Cell(g) => b1 <= g
        BY <2>1, <2>3, <1>4, CellOrder
      <4> QED BY <4>1, <2>1, <1>4, CellOrder
    <3>2. BM!Cell(e1) <= BM!Cell(g) <=> e1 <= g
      <4>1. BM!Cell(e1) = BM!Cell(g) => e1 <= g
        BY <2>1, <2>3, <1>4, CellOrder
      <4> QED BY <4>1, <2>1, <1>4, CellOrder
    <3> QED BY <3>1, <3>2, <2>1, <1>4
  <2> QED BY <2>2, <2>3, <1>3
<1>9. ASSUME NEW g \in BM!Granules
      PROVE  g \in b .. e - 1 <=> g \in (b .. b1 - 1) \cup (e1 .. e - 1) \/ g \in b1 .. e1 - 1
  <2>1. g \in Nat
    BY GranuleFact
  <2> QED BY <2>1, <1>1, <1>3, <1>4
<1> QED BY <1>2, <1>6, <1>7, <1>8, <1>9

(* is_marked_range. *)
LEMMA MarkedFact ==
  ASSUME BitInv, NEW b \in BM!Granules, NEW e \in BM!Granules, b <= e
  PROVE  BM!IsMarkedRange(b, e) <=> \E g \in b .. e - 1 : BM!CheckBit(g)
<1> DEFINE edges == BM!Inside(b, e).edges
           whole == BM!Inside(b, e).whole
<1>1. \A g \in b .. e - 1 : g \in BM!Granules
  <2>1. b \in Nat /\ e \in Nat /\ BM!Granules = 0 .. Total - 1 /\ Total \in Nat /\ e <= Total - 1
    BY GranuleFact, GranuleCells
  <2> QED BY <2>1
<1>2. edges \subseteq b .. e - 1 /\ whole \subseteq BM!CellIndexes
  BY InsideFact
<1>3. \A g \in BM!Granules : g \in b .. e - 1 <=> g \in edges \/ BM!Cell(g) \in whole
  BY InsideFact
<1>4. BM!IsMarkedRange(b, e) <=>
        (\E g \in edges : BM!CheckBit(g)) \/ (\E c \in whole : cells[c] # {})
  BY DEF BM!IsMarkedRange
<1> HIDE DEF edges, whole
<1>5. ASSUME NEW c \in whole, cells[c] # {} PROVE \E g \in b .. e - 1 : BM!CheckBit(g)
  <2>1. PICK i \in cells[c] : TRUE
    BY <1>5
  <2> DEFINE g == c * BitsPerCell + i
  <2>2. c \in BM!CellIndexes /\ c \in Nat /\ i \in BitIndexes
    BY <1>2, CellsFact DEF BM!CellIndexes
  <2>3. g \in BM!Granules /\ BM!CheckBit(g)
    BY <2>2, CellsFact DEF BM!Bits
  <2>4. BM!Cell(g) = c
    BY <2>2, CellBitUnique
  <2> HIDE DEF g
  <2> QED BY <2>3, <2>4, <1>3
<1>6. ASSUME NEW g \in b .. e - 1, BM!CheckBit(g)
      PROVE  (\E x \in edges : BM!CheckBit(x)) \/ (\E c \in whole : cells[c] # {})
  <2>1. cells[BM!Cell(g)] # {}
    BY <1>6 DEF BM!CheckBit
  <2> QED BY <2>1, <1>1, <1>3, <1>6
<1> QED BY <1>2, <1>4, <1>5, <1>6

(* clear_range. *)
LEMMA ClearedFact ==
  ASSUME BitInv, NEW b \in BM!Granules, NEW e \in BM!Granules, b <= e
  PROVE  {g \in BM!Granules : BM!Bit(g) \in BM!ClearedRange(b, e)[BM!Cell(g)]}
           = BM!Bits \ (b .. e - 1)
<1> DEFINE edges == BM!Inside(b, e).edges
           whole == BM!Inside(b, e).whole
           cleared == BM!ClearedRange(b, e)
<1>1. edges \subseteq BM!Granules
  <2>1. b \in Nat /\ e \in Nat /\ BM!Granules = 0 .. Total - 1 /\ Total \in Nat /\ e <= Total - 1
    BY GranuleFact, GranuleCells
  <2>2. edges \subseteq b .. e - 1
    BY InsideFact
  <2> HIDE DEF edges
  <2> QED BY <2>1, <2>2
<1>2. \A g \in BM!Granules : g \in b .. e - 1 <=> g \in edges \/ BM!Cell(g) \in whole
  BY InsideFact
<1>3. \A c \in BM!CellIndexes :
        cleared[c] = IF c \in whole THEN {}
                     ELSE cells[c] \ {BM!Bit(g) : g \in {x \in edges : BM!Cell(x) = c}}
  BY DEF BM!ClearedRange
<1> HIDE DEF edges, whole, cleared
<1>4. ASSUME NEW g \in BM!Granules
      PROVE  BM!Bit(g) \in cleared[BM!Cell(g)] <=> g \in BM!Bits /\ g \notin b .. e - 1
  <2> DEFINE c == BM!Cell(g)
             gone == {BM!Bit(x) : x \in {y \in edges : BM!Cell(y) = c}}
  <2>1. c \in BM!CellIndexes /\ (g \in BM!Bits <=> BM!Bit(g) \in cells[c])
    BY GranuleFact DEF BM!Bits, BM!CheckBit
  <2>2. BM!Bit(g) \in gone <=> g \in edges
    BY <1>1, GranuleFact
  <2>3. cleared[c] = IF c \in whole THEN {} ELSE cells[c] \ gone
    BY <1>3, <2>1
  <2> HIDE DEF gone
  <2> QED BY <1>2, <2>1, <2>2, <2>3
<1>5. BM!Bits \subseteq BM!Granules
  BY DEF BM!Bits
<1> QED BY <1>4, <1>5 DEF cleared

(* visit_marked_range. *)
LEMMA VisitedFact ==
  ASSUME BitInv, NEW b \in BM!Granules, NEW e \in BM!Granules, b <= e
  PROVE  BM!VisitedRange(b, e) = BM!Bits \cap (b .. e - 1)
<1> DEFINE cb == BM!Cell(b)
           ce == BM!Cell(e)
           ib == BM!Bit(b)
           ie == BM!Bit(e)
           left == cells[cb] \ (0 .. ib - 1)
           right == IF cb = ce THEN left ELSE IF ie = 0 THEN {} ELSE cells[ce]
           at(c, bits) == {c * BitsPerCell + i : i \in bits}
           first == IF cb < ce
                    THEN at(cb, left) \cup UNION {at(c, cells[c]) : c \in cb + 1 .. ce - 1}
                    ELSE {}
           last == at(ce, right \cap (0 .. ie - 1))
           between == b .. e - 1
<1>1. BM!VisitedRange(b, e) = first \cup last
  BY DEF BM!VisitedRange
<1>2. /\ b \in Nat /\ cb \in Nat /\ ib \in Nat /\ ib \in BitIndexes /\ cb \in BM!CellIndexes
      /\ e \in Nat /\ ce \in Nat /\ ie \in Nat /\ ie \in BitIndexes /\ ce \in BM!CellIndexes
      /\ cb <= ce /\ (cb = ce => ib <= ie)
  BY GranuleFact, CellBit, CellOrder DEF BitIndexes
<1>3. ASSUME NEW g \in BM!Granules
      PROVE  /\ b <= g <=> cb < BM!Cell(g) \/ (cb = BM!Cell(g) /\ ib <= BM!Bit(g))
             /\ g < e <=> BM!Cell(g) < ce \/ (BM!Cell(g) = ce /\ BM!Bit(g) < ie)
  <2>1. g \in Nat /\ BM!Cell(g) \in Nat /\ BM!Bit(g) \in Nat
    BY GranuleFact, CellBit DEF BitIndexes
  <2>2. /\ b <= g => cb <= BM!Cell(g)
        /\ cb < BM!Cell(g) => b < g
        /\ cb = BM!Cell(g) => (b <= g <=> ib <= BM!Bit(g))
    BY <2>1, <1>2, CellOrder
  <2>3. /\ e <= g => ce <= BM!Cell(g)
        /\ BM!Cell(g) < ce => g < e
        /\ ce = BM!Cell(g) => (e <= g <=> ie <= BM!Bit(g))
        /\ ce < BM!Cell(g) => e < g
    BY <2>1, <1>2, CellOrder
  <2> HIDE DEF cb, ce, ib, ie
  <2>4. b <= g <=> cb < BM!Cell(g) \/ (cb = BM!Cell(g) /\ ib <= BM!Bit(g))
    BY <2>1, <2>2, <1>2
  <2>5. g < e <=> BM!Cell(g) < ce \/ (BM!Cell(g) = ce /\ BM!Bit(g) < ie)
    BY <2>1, <2>3, <1>2
  <2> QED BY <2>4, <2>5
<1>4. \A g \in BM!Bits : /\ g \in BM!Granules /\ g \in Nat
                         /\ BM!Cell(g) \in BM!CellIndexes /\ BM!Cell(g) \in Nat
                         /\ BM!Bit(g) \in BitIndexes /\ BM!Bit(g) \in Nat
                         /\ g = BM!Cell(g) * BitsPerCell + BM!Bit(g)
                         /\ BM!Bit(g) \in cells[BM!Cell(g)]
  BY CellsFact, GranuleFact, CellBit DEF BitIndexes
<1>5. ASSUME NEW c \in BM!CellIndexes, NEW i \in cells[c]
      PROVE  /\ c \in Nat /\ i \in Nat /\ c * BitsPerCell + i \in BM!Bits
             /\ BM!Cell(c * BitsPerCell + i) = c /\ BM!Bit(c * BitsPerCell + i) = i
  <2>1. c \in Nat /\ i \in BitIndexes
    BY CellsFact DEF BM!CellIndexes
  <2> QED BY <2>1, CellsFact, CellBitUnique DEF BitIndexes
<1> HIDE DEF cb, ce, ib, ie
<1>6. ASSUME NEW c \in BM!CellIndexes, NEW i \in cells[c],
             (cb < c \/ (cb = c /\ ib <= i)), (c < ce \/ (c = ce /\ i < ie))
      PROVE  c * BitsPerCell + i \in BM!Bits \cap between
  <2> DEFINE g == c * BitsPerCell + i
  <2>1. g \in BM!Bits /\ BM!Cell(g) = c /\ BM!Bit(g) = i
    BY <1>5
  <2> HIDE DEF g
  <2>2. g \in BM!Granules /\ g \in Nat
    BY <2>1, <1>4
  <2>3. b <= g /\ g < e
    BY <2>1, <2>2, <1>3, <1>6
  <2>4. g \in between
    BY <2>2, <2>3, <1>2
  <2> QED BY <2>1, <2>4 DEF g
<1>7. ASSUME NEW g \in first PROVE g \in BM!Bits \cap between
  <2>1. cb < ce
    BY <1>7
  <2>2. CASE g \in at(cb, left)
    <3>1. PICK i \in left : g = cb * BitsPerCell + i
      BY <2>2
    <3>2. i \in cells[cb] /\ i \notin 0 .. ib - 1
      BY <3>1
    <3>3. i \in Nat
      BY <3>2, <1>2, <1>5
    <3>4. ib <= i
      BY <3>2, <3>3, <1>2
    <3> HIDE DEF between
    <3> QED BY <2>1, <3>1, <3>2, <3>4, <1>2, <1>6
  <2>3. CASE \E c \in cb + 1 .. ce - 1 : g \in at(c, cells[c])
    <3>1. PICK c \in cb + 1 .. ce - 1 : g \in at(c, cells[c])
      BY <2>3
    <3>2. PICK i \in cells[c] : g = c * BitsPerCell + i
      BY <3>1
    <3>3. c \in BM!CellIndexes /\ cb < c /\ c < ce
      BY <1>2, BitmapAssumption DEF BM!CellIndexes
    <3> HIDE DEF between
    <3> QED BY <3>2, <3>3, <1>6
  <2> QED BY <2>1, <2>2, <2>3, <1>7
<1>8. ASSUME NEW g \in last PROVE g \in BM!Bits \cap between
  <2>1. PICK i \in right \cap (0 .. ie - 1) : g = ce * BitsPerCell + i
    BY <1>8
  <2>2. i \in cells[ce] /\ i < ie /\ i \in Nat
    BY <2>1, <1>2
  <2>3. cb < ce \/ (cb = ce /\ ib <= i)
    BY <2>1, <2>2, <1>2
  <2> HIDE DEF between
  <2> QED BY <2>1, <2>2, <2>3, <1>2, <1>6
<1>9. ASSUME NEW g \in BM!Bits, g \in between PROVE g \in first \cup last
  <2> DEFINE c == BM!Cell(g)
             i == BM!Bit(g)
  <2>1. /\ c \in Nat /\ i \in Nat /\ i \in cells[c] /\ g = c * BitsPerCell + i /\ g \in Nat
        /\ g \in BM!Granules
    BY <1>4
  <2>2. b <= g /\ g < e
    BY <2>1, <1>2, <1>9
  <2>3. (cb < c \/ (cb = c /\ ib <= i)) /\ (c < ce \/ (c = ce /\ i < ie))
    BY <2>1, <2>2, <1>3
  <2> HIDE DEF c, i
  <2>4. CASE c = ce
    <3>1. i \in right \cap (0 .. ie - 1)
      BY <2>1, <2>3, <2>4, <1>2
    <3> QED BY <2>1, <2>4, <3>1
  <2>5. CASE c # ce
    <3>1. c < ce /\ cb < ce
      BY <2>1, <2>3, <2>5, <1>2
    <3>2. CASE c = cb
      <4>1. i \in left
        BY <2>1, <2>3, <3>2, <1>2
      <4>2. g \in at(cb, left)
        BY <2>1, <3>2, <4>1
      <4> QED BY <3>1, <4>2
    <3>3. CASE c # cb
      <4>1. c \in cb + 1 .. ce - 1
        BY <2>1, <2>3, <3>1, <3>3, <1>2
      <4>2. g \in at(c, cells[c])
        BY <2>1
      <4>3. g \in UNION {at(d, cells[d]) : d \in cb + 1 .. ce - 1}
        BY <4>1, <4>2
      <4> QED BY <3>1, <4>3
    <3> QED BY <3>2, <3>3
  <2> QED BY <2>4, <2>5
<1> HIDE DEF first, last, between
<1>10. BM!VisitedRange(b, e) = BM!Bits \cap between
  BY <1>1, <1>7, <1>8, <1>9
<1> QED BY <1>10 DEF between

(* The invariant gives what BitmapAgrees says of the bitmap. *)
LEMMA AgreesFact == BitInv => BitmapAgrees
<1> SUFFICES ASSUME BitInv PROVE BitmapAgrees
  OBVIOUS
<1>1. BM!NoLostBit
  BY DEF BitInv
<1>2. BM!OneWinner
  BY DEF BitInv, BitTypes, BM!OneWinner
<1>3. BM!StartFound
  BY StartFoundFact
<1>4. BM!RangesAgree
  <2>1. ASSUME NEW b \in BM!Granules, NEW e \in b .. CellCount * BitsPerCell - 1
        PROVE  e \in BM!Granules /\ b <= e
    BY BitmapAssumption DEF BM!Granules
  <2> SUFFICES ASSUME NEW b \in BM!Granules, NEW e \in b .. CellCount * BitsPerCell - 1
               PROVE  /\ BM!IsMarkedRange(b, e) = (\E g \in b .. e - 1 : BM!CheckBit(g))
                      /\ {g \in BM!Granules : BM!Bit(g) \in BM!ClearedRange(b, e)[BM!Cell(g)]}
                           = BM!Bits \ (b .. e - 1)
                      /\ BM!VisitedRange(b, e) = BM!Bits \cap (b .. e - 1)
    BY DEF BM!RangesAgree
  <2>2. BM!IsMarkedRange(b, e) = (\E g \in b .. e - 1 : BM!CheckBit(g))
    <3>1. BM!IsMarkedRange(b, e) <=> \E g \in b .. e - 1 : BM!CheckBit(g)
      BY <2>1, MarkedFact
    <3>2. BM!IsMarkedRange(b, e) \in BOOLEAN
      BY DEF BM!IsMarkedRange
    <3> QED BY <3>1, <3>2
  <2> QED BY <2>1, <2>2, ClearedFact, VisitedFact
<1> QED BY <1>1, <1>2, <1>3, <1>4 DEF BitmapAgrees

(***************************************************************************)
(* For any number of threads, cells and bits in a cell, and any alignment, *)
(* the bitmap is a set of granules: a bit that was set is never lost to a  *)
(* neighbour, one thread wins it, and find_object_start and the operations *)
(* on ranges agree with the bits one by one.                               *)
(***************************************************************************)
THEOREM BitmapIsASet == BM!Spec => []BitmapAgrees
<1>1. BM!Init => BitInv
  BY InitBits
<1>2. BitInv /\ [BM!Next]_(BM!vars) => BitInv'
  BY NextBits DEF BM!vars, bitVars
<1>3. BitInv => BitmapAgrees
  BY AgreesFact
<1> QED BY <1>1, <1>2, <1>3, PTL DEF BM!Spec

-----------------------------------------------------------------------------
(***************************************************************************)
(* Division and powers of two.                                             *)
(***************************************************************************)
(* Division of natural numbers. *)
LEMMA DivFact ==
  ASSUME NEW a \in Nat, NEW n \in Nat \ {0}
  PROVE  /\ a \div n \in Nat /\ a % n \in 0 .. n - 1 /\ a = (a \div n) * n + (a % n)
<1>1. a \div n \in Nat
  OBVIOUS
<1>2. a % n \in 0 .. n - 1
  OBVIOUS
<1>3. a = (a \div n) * n + (a % n)
  OBVIOUS
<1> QED BY <1>1, <1>2, <1>3

(* A quotient is no larger than what is divided. *)
LEMMA DivLess ==
  ASSUME NEW a \in Nat, NEW n \in Nat \ {0}
  PROVE  a \div n <= a
<1> DEFINE q == a \div n
           r == a % n
<1>1. q \in Nat /\ r \in 0 .. n - 1 /\ a = q * n + r
  BY DivFact
<1> HIDE DEF q, r
<1>2. (n - 1) * q >= 0
  BY <1>1
<1>3. q * n = q + (n - 1) * q
  BY <1>1
<1>4. q <= a
  BY <1>1, <1>2, <1>3
<1> QED BY <1>4 DEF q

(* Only one quotient and rest are possible. *)
LEMMA DivUnique ==
  ASSUME NEW n \in Nat \ {0}, NEW q \in Int, NEW r \in 0 .. n - 1
  PROVE  (n * q + r) \div n = q /\ (n * q + r) % n = r
<1> DEFINE a == n * q + r
           p == a \div n
           s == a % n
<1>1. a \in Int /\ p \in Int /\ s \in 0 .. n - 1 /\ a = n * p + s
  OBVIOUS
<1> HIDE DEF p, s
<1>2. n * (p - q) = r - s
  BY <1>1
<1>3. p = q
  BY <1>1, <1>2
<1>4. s = r
  BY <1>1, <1>2, <1>3
<1> QED BY <1>3, <1>4 DEF p, s

(* Division keeps the order. *)
LEMMA DivOrder ==
  ASSUME NEW a \in Nat, NEW b \in Nat, a <= b, NEW n \in Nat \ {0}
  PROVE  a \div n <= b \div n
<1> DEFINE p == a \div n
           q == b \div n
           r == a % n
           s == b % n
<1>1. /\ p \in Nat /\ r \in 0 .. n - 1 /\ a = p * n + r
      /\ q \in Nat /\ s \in 0 .. n - 1 /\ b = q * n + s
  BY DivFact
<1> HIDE DEF p, q, r, s
<1>2. ASSUME q < p PROVE FALSE
  <2>1. PICK d \in Nat : p = q + 1 + d
    <3>1. p - (q + 1) \in Nat /\ p = q + 1 + (p - (q + 1))
      BY <1>1, <1>2
    <3> QED BY <3>1
  <2>2. p * n = q * n + n + d * n /\ d * n \in Nat /\ q * n \in Nat
    BY <1>1, <2>1
  <2> QED BY <1>1, <2>2
<1>3. p <= q
  BY <1>1, <1>2
<1> QED BY <1>3 DEF p, q

(* Powers are numbers. *)
LEMMA PowerFact ==
  ASSUME NEW n \in 0 .. MaxPower
  PROVE  2 ^ n \in Nat
<1>1. CASE n = MaxPower
  <2>1. n = (MaxPower - 1) + 1 /\ MaxPower - 1 \in 0 .. MaxPower - 1
    BY <1>1, PowersOfTwo
  <2> QED BY <2>1, PowersOfTwo
<1>2. CASE n # MaxPower
  <2>1. n \in 0 .. MaxPower - 1
    BY <1>2, PowersOfTwo
  <2> QED BY <2>1, PowersOfTwo
<1> QED BY <1>1, <1>2

(* A smaller power divides a larger one. *)
LEMMA PowerDivides ==
  ASSUME NEW i \in 0 .. MaxPower, NEW j \in i .. MaxPower
  PROVE  \E q \in Nat \ {0} : 2 ^ j = q * 2 ^ i
<1> DEFINE P(k) == \E q \in Nat \ {0} : 2 ^ k = q * 2 ^ i
           T == {k \in i .. MaxPower : ~P(k)}
<1> SUFFICES ASSUME T # {} PROVE FALSE
  OBVIOUS
<1>1. PICK k \in T : \A l \in T : k <= l
  <2>1. T \subseteq Nat
    OBVIOUS
  <2> HIDE DEF T
  <2> QED BY <2>1, LeastNatural
<1>2. k \in i .. MaxPower /\ ~P(k)
  OBVIOUS
<1>3. \A n \in 0 .. MaxPower : 2 ^ n \in Nat
  BY PowerFact
<1>4. k # i
  <2>1. 2 ^ i = 1 * 2 ^ i
    BY <1>3
  <2> QED BY <1>2, <2>1
<1>5. k - 1 \in i .. MaxPower /\ k - 1 \in 0 .. MaxPower - 1
  BY <1>2, <1>4, PowersOfTwo
<1>6. PICK q \in Nat \ {0} : 2 ^ (k - 1) = q * 2 ^ i
  <2>1. ~(k <= k - 1)
    BY <1>2
  <2>2. k - 1 \notin T
    BY <1>1, <2>1
  <2> QED BY <1>5, <2>2
<1>7. 2 ^ k = 2 * 2 ^ (k - 1)
  <2>1. 2 ^ ((k - 1) + 1) = 2 * 2 ^ (k - 1)
    BY <1>5, PowersOfTwo
  <2>2. (k - 1) + 1 = k
    BY <1>2
  <2> QED BY <2>1, <2>2
<1>8. 2 ^ k = (2 * q) * 2 ^ i /\ 2 * q \in Nat \ {0}
  BY <1>3, <1>6, <1>7
<1> QED BY <1>2, <1>8

(* Powers are positive. *)
LEMMA PowerPositive ==
  ASSUME NEW i \in 0 .. MaxPower
  PROVE  2 ^ i \in Nat \ {0}
<1>1. 0 \in 0 .. MaxPower /\ i \in 0 .. MaxPower
  BY PowersOfTwo
<1>2. PICK q \in Nat \ {0} : 2 ^ i = q * 2 ^ 0
  BY <1>1, PowerDivides
<1> QED BY <1>2, PowersOfTwo

(* Exponents are added where powers are multiplied. *)
LEMMA PowerSum ==
  ASSUME NEW i \in Nat, NEW j \in Nat, i + j <= MaxPower
  PROVE  2 ^ (i + j) = 2 ^ i * 2 ^ j
<1> DEFINE T == {k \in 0 .. j : 2 ^ (i + k) # 2 ^ i * 2 ^ k}
<1> SUFFICES ASSUME T # {} PROVE FALSE
  <2>1. j \in 0 .. j
    OBVIOUS
  <2> QED BY <2>1
<1>1. PICK k \in T : \A l \in T : k <= l
  <2>1. T \subseteq Nat
    OBVIOUS
  <2> HIDE DEF T
  <2> QED BY <2>1, LeastNatural
<1>2. k \in 0 .. j /\ 2 ^ (i + k) # 2 ^ i * 2 ^ k
  OBVIOUS
<1>3. MaxPower \in Nat /\ 2 ^ 0 = 1
  BY PowersOfTwo
<1>4. \A n \in 0 .. MaxPower : 2 ^ n \in Nat
  BY PowerFact
<1>5. k # 0
  <2>1. i \in 0 .. MaxPower /\ i + 0 = i
    BY <1>3
  <2>2. 2 ^ i \in Nat
    BY <2>1, <1>4
  <2>3. 2 ^ (i + 0) = 2 ^ i * 2 ^ 0
    BY <1>3, <2>1, <2>2
  <2> QED BY <1>2, <2>3
<1>6. PICK d \in 0 .. j : k = d + 1
  <2>1. k - 1 \in 0 .. j /\ k = (k - 1) + 1
    BY <1>2, <1>5
  <2> QED BY <2>1
<1>7. 2 ^ (i + d) = 2 ^ i * 2 ^ d
  <2>1. ~(k <= d)
    BY <1>6
  <2>2. d \notin T
    BY <1>1, <2>1
  <2> QED BY <2>2
<1>8. 2 ^ k = 2 * 2 ^ d /\ 2 ^ (i + k) = 2 * 2 ^ (i + d)
  <2>1. d \in 0 .. MaxPower - 1 /\ i + d \in 0 .. MaxPower - 1 /\ i + k = (i + d) + 1
    BY <1>2, <1>3, <1>6
  <2>2. 2 ^ (d + 1) = 2 * 2 ^ d /\ 2 ^ ((i + d) + 1) = 2 * 2 ^ (i + d)
    BY <2>1, PowersOfTwo
  <2> QED BY <2>1, <2>2, <1>6
<1>9. 2 ^ i \in Nat /\ 2 ^ d \in Nat
  <2>1. i \in 0 .. MaxPower /\ d \in 0 .. MaxPower
    BY <1>3, <1>6
  <2> QED BY <2>1, <1>4
<1>10. 2 * (2 ^ i * 2 ^ d) = 2 ^ i * (2 * 2 ^ d)
  <2> DEFINE a == 2 ^ i
             b == 2 ^ d
  <2>1. a \in Nat /\ b \in Nat
    BY <1>9
  <2> HIDE DEF a, b
  <2>2. 2 * (a * b) = a * (2 * b)
    BY <2>1
  <2> QED BY <2>2 DEF a, b
<1>11. 2 ^ (i + k) = 2 ^ i * 2 ^ k
  BY <1>7, <1>8, <1>10
<1> QED BY <1>2, <1>11

(* Powers grow. *)
LEMMA PowerOrder ==
  ASSUME NEW i \in 0 .. MaxPower, NEW j \in i .. MaxPower
  PROVE  2 ^ i <= 2 ^ j /\ (i < j => 2 * 2 ^ i <= 2 ^ j)
<1>0. MaxPower \in Nat
  BY PowersOfTwo
<1>1. \A k \in 0 .. MaxPower : \A l \in k .. MaxPower : 2 ^ k <= 2 ^ l
  <2> SUFFICES ASSUME NEW k \in 0 .. MaxPower, NEW l \in k .. MaxPower
               PROVE  2 ^ k <= 2 ^ l
    OBVIOUS
  <2>1. PICK q \in Nat \ {0} : 2 ^ l = q * 2 ^ k
    BY PowerDivides
  <2>2. 2 ^ k \in Nat
    BY PowerFact
  <2> DEFINE a == 2 ^ k
  <2>3. a \in Nat /\ 2 ^ l = q * a
    BY <2>1, <2>2
  <2> HIDE DEF a
  <2>4. PICK d \in Nat : q = d + 1
    <3>1. q - 1 \in Nat /\ q = (q - 1) + 1
      BY <2>1
    <3> QED BY <3>1
  <2>5. q * a = d * a + a /\ d * a \in Nat
    BY <2>3, <2>4
  <2>6. a <= 2 ^ l
    BY <2>3, <2>5
  <2> QED BY <2>6 DEF a
<1>2. 2 ^ i <= 2 ^ j
  BY <1>1
<1>3. ASSUME i < j PROVE 2 * 2 ^ i <= 2 ^ j
  <2>1. i \in 0 .. MaxPower - 1 /\ i + 1 \in 0 .. MaxPower /\ j \in i + 1 .. MaxPower
    BY <1>0, <1>3
  <2>2. 2 ^ (i + 1) = 2 * 2 ^ i
    BY <2>1, PowersOfTwo
  <2>3. 2 ^ (i + 1) <= 2 ^ j
    BY <1>1, <2>1
  <2> QED BY <2>2, <2>3
<1> QED BY <1>2, <1>3

-----------------------------------------------------------------------------
(***************************************************************************)
(* Marking of a large array.                                               *)
(***************************************************************************)
(* The constants are numbers in their ranges. *)
LEMMA ArrayNumbers ==
  /\ OOP_BITS \in Nat \ {0} /\ POW_BITS \in Nat \ {0} /\ CHUNK_BITS \in Nat \ {0}
  /\ Slice \in Nat \ {0} /\ MaxPower \in Nat
  /\ AM!MaxPow \in 1 .. MaxPower /\ AM!MaxPow + 1 = 2 ^ POW_BITS
  /\ AM!ChunkSize \in Nat /\ AM!ChunkSize >= 4
  /\ AM!Span \in Nat \ {0} /\ AM!Limit \in Nat \ {0} /\ AM!Span = 2 * AM!Limit
<1>1. /\ OOP_BITS \in Nat \ {0} /\ POW_BITS \in Nat \ {0} /\ CHUNK_BITS \in Nat \ {0}
      /\ Slice \in Nat \ {0} /\ MaxPower \in Nat /\ MaxPower >= 30
  BY ArrayAssumption, PowersOfTwo
<1>2. CHUNK_BITS >= 2 /\ OOP_BITS + POW_BITS + CHUNK_BITS <= MaxPower /\ AM!MaxPow <= MaxPower
  BY ArrayAssumption
<1>3. 2 ^ 1 = 2 /\ 2 ^ 2 = 4
  <2>1. 0 \in 0 .. MaxPower - 1 /\ 1 \in 0 .. MaxPower - 1 /\ 0 + 1 = 1 /\ 1 + 1 = 2
    BY <1>1
  <2> QED BY <2>1, PowersOfTwo
<1>4. AM!ChunkSize \in Nat /\ AM!ChunkSize >= 4
  <2>1. 2 \in 0 .. MaxPower /\ CHUNK_BITS \in 2 .. MaxPower /\ CHUNK_BITS \in 0 .. MaxPower
    BY <1>1, <1>2
  <2>2. 2 ^ 2 <= 2 ^ CHUNK_BITS /\ 2 ^ CHUNK_BITS \in Nat
    BY <2>1, PowerOrder, PowerFact
  <2> QED BY <2>2, <1>3 DEF AM!ChunkSize
<1>5. AM!MaxPow \in 1 .. MaxPower /\ AM!MaxPow + 1 = 2 ^ POW_BITS
  <2>1. 1 \in 0 .. MaxPower /\ POW_BITS \in 1 .. MaxPower /\ POW_BITS \in 0 .. MaxPower
    BY <1>1, <1>2
  <2>2. 2 ^ 1 <= 2 ^ POW_BITS /\ 2 ^ POW_BITS \in Nat
    BY <2>1, PowerOrder, PowerFact
  <2>3. AM!MaxPow = 2 ^ POW_BITS - 1
    BY DEF AM!MaxPow
  <2> QED BY <2>2, <2>3, <1>1, <1>2, <1>3
<1>6. AM!Span \in Nat \ {0} /\ AM!Limit \in Nat \ {0} /\ AM!Span = 2 * AM!Limit
  <2> DEFINE m == AM!MaxPow
  <2>1. m \in 0 .. MaxPower /\ m - 1 \in 0 .. MaxPower /\ m - 1 \in 0 .. MaxPower - 1 /\ (m - 1) + 1 = m
    BY <1>1, <1>5
  <2>2. 2 ^ m \in Nat \ {0} /\ 2 ^ (m - 1) \in Nat \ {0}
    BY <2>1, PowerPositive
  <2>3. 2 ^ ((m - 1) + 1) = 2 * 2 ^ (m - 1)
    BY <2>1, PowersOfTwo
  <2> QED BY <2>1, <2>2, <2>3 DEF AM!Span, AM!Limit
<1> QED BY <1>1, <1>4, <1>5, <1>6

\* What a task can name.
ChunkNumbers == 1 .. AM!ChunkSize - 1
Pows == 0 .. AM!MaxPow - 1

(* Powers within the limit. *)
LEMMA PowsFact ==
  ASSUME NEW p \in Pows
  PROVE  /\ 2 ^ p \in Nat \ {0} /\ p \in Nat /\ p < 2 ^ POW_BITS
         /\ p # 0 => p - 1 \in Pows /\ 2 ^ p = 2 * 2 ^ (p - 1)
<1>1. MaxPower \in Nat /\ AM!MaxPow \in 1 .. MaxPower /\ AM!MaxPow + 1 = 2 ^ POW_BITS
  BY ArrayNumbers
<1>2. p \in 0 .. MaxPower /\ p \in Nat /\ p < AM!MaxPow
  BY <1>1 DEF Pows
<1>3. ASSUME p # 0 PROVE p - 1 \in Pows /\ 2 ^ p = 2 * 2 ^ (p - 1)
  <2>1. p - 1 \in 0 .. MaxPower - 1 /\ (p - 1) + 1 = p /\ p - 1 \in 0 .. AM!MaxPow - 1
    BY <1>1, <1>2, <1>3
  <2>2. 2 ^ ((p - 1) + 1) = 2 * 2 ^ (p - 1)
    BY <2>1, PowersOfTwo
  <2> QED BY <2>1, <2>2 DEF Pows
<1> QED BY <1>1, <1>2, <1>3, PowerPositive

(* A packed task decodes to what was encoded. *)
LEMMA EncodeFact ==
  ASSUME NEW c \in ChunkNumbers, NEW p \in Pows
  PROVE  LET w == AM!Encode(c, p)
         IN  AM!Chunk(w) = c /\ AM!Pow(w) = p /\ w % 2 ^ OOP_BITS = 1
<1> DEFINE A == 2 ^ OOP_BITS
           P == 2 ^ POW_BITS
           K == 2 ^ CHUNK_BITS
           w == 1 + p * A + c * (A * P)
<1>0. /\ OOP_BITS \in Nat \ {0} /\ POW_BITS \in Nat \ {0} /\ CHUNK_BITS \in Nat \ {0}
      /\ MaxPower \in Nat /\ OOP_BITS + POW_BITS + CHUNK_BITS <= MaxPower
  BY ArrayNumbers, ArrayAssumption
<1>1. 2 ^ (OOP_BITS + POW_BITS) = A * P /\ 2 ^ (OOP_BITS + POW_BITS + CHUNK_BITS) = (A * P) * K
  <2>1. OOP_BITS + POW_BITS \in Nat /\ OOP_BITS + POW_BITS <= MaxPower
    BY <1>0
  <2>2. 2 ^ (OOP_BITS + POW_BITS) = A * P
    BY <1>0, <2>1, PowerSum
  <2>3. 2 ^ ((OOP_BITS + POW_BITS) + CHUNK_BITS) = 2 ^ (OOP_BITS + POW_BITS) * K
    BY <1>0, <2>1, PowerSum
  <2> QED BY <2>2, <2>3
<1>2. A \in Nat /\ A >= 2 /\ P \in Nat \ {0} /\ K \in Nat \ {0}
  <2>1. /\ OOP_BITS \in 0 .. MaxPower /\ POW_BITS \in 0 .. MaxPower /\ CHUNK_BITS \in 0 .. MaxPower
        /\ 0 \in 0 .. MaxPower /\ OOP_BITS \in 0 .. MaxPower /\ 0 < OOP_BITS
    BY <1>0
  <2>2. A \in Nat \ {0} /\ P \in Nat \ {0} /\ K \in Nat \ {0}
    BY <2>1, PowerPositive
  <2>3. 2 * 2 ^ 0 <= 2 ^ OOP_BITS
    BY <2>1, PowerOrder
  <2>4. 2 ^ 0 = 1
    BY PowersOfTwo
  <2> QED BY <2>2, <2>3, <2>4
<1>3. c \in Nat /\ c + 1 <= K /\ p \in Nat /\ p + 1 <= P
  BY PowsFact, ArrayNumbers, <1>2 DEF ChunkNumbers, AM!ChunkSize
<1>4. AM!Encode(c, p) = w % ((A * P) * K)
  BY <1>1 DEF AM!Encode
<1>5. AM!Chunk(w) = w \div (A * P) /\ AM!Pow(w) = (w \div A) % P
  BY <1>1 DEF AM!Chunk, AM!Pow
<1> HIDE DEF A, P, K
<1> DEFINE N == A * P
           r == 1 + p * A
<1>6. N \in Nat /\ p * A \in Nat /\ r \in 0 .. N - 1 /\ N # 0
  <2>1. PICK d \in Nat : P = (p + 1) + d
    <3>1. P - (p + 1) \in Nat /\ P = (p + 1) + (P - (p + 1))
      BY <1>2, <1>3
    <3> QED BY <3>1
  <2>2. N = (p * A + A) + d * A /\ p * A \in Nat /\ d * A \in Nat
    BY <2>1, <1>2, <1>3
  <2> QED BY <2>2, <1>2
<1> DEFINE M == N * K
<1>7. M \in Nat /\ w \in 0 .. M - 1 /\ c * N \in Nat
  <2>1. PICK d \in Nat : K = (c + 1) + d
    <3>1. K - (c + 1) \in Nat /\ K = (c + 1) + (K - (c + 1))
      BY <1>2, <1>3
    <3> QED BY <3>1
  <2> HIDE DEF N, r
  <2>2. M = (c * N + N) + d * N /\ c * N \in Nat /\ d * N \in Nat
    BY <2>1, <1>6, <1>3
  <2>3. w = r + c * N
    BY DEF r, N
  <2> HIDE DEF M, w
  <2> QED BY <2>2, <2>3, <1>6
<1>8. w % M = w
  <2> HIDE DEF w, M
  <2>1. M \in Nat \ {0} /\ 0 \in Int /\ M * 0 + w = w
    BY <1>7
  <2>2. (M * 0 + w) % M = w
    BY <1>7, <2>1, DivUnique
  <2> QED BY <2>1, <2>2
<1>9. w \div N = c
  <2> HIDE DEF N, r
  <2>1. w = N * c + r
    <3>1. w = r + c * N
      BY DEF r, N
    <3>2. c * N = N * c /\ N * c \in Int /\ r \in Int
      BY <1>3, <1>6
    <3> HIDE DEF w
    <3> QED BY <3>1, <3>2
  <2>2. N \in Nat \ {0} /\ c \in Int /\ r \in 0 .. N - 1
    BY <1>3, <1>6
  <2> HIDE DEF w
  <2>3. (N * c + r) \div N = c
    BY <2>2, DivUnique
  <2> QED BY <2>1, <2>3
<1>10. (w \div A) % P = p /\ w % A = 1
  <2> DEFINE q == P * c + p
  <2>1. q \in Int /\ P * c \in Int /\ P \in Int /\ c \in Int /\ A \in Int /\ p \in Int
    BY <1>2, <1>3
  <2>2. w = A * q + 1
    <3>1. c * (A * P) = A * (P * c) /\ A * (P * c) \in Int
      BY <2>1
    <3>2. A * q = A * (P * c) + A * p /\ A * p = p * A /\ p * A \in Int
      BY <2>1
    <3> HIDE DEF q
    <3> QED BY <3>1, <3>2
  <2>3. 1 \in 0 .. A - 1 /\ A \in Nat \ {0} /\ p \in 0 .. P - 1
    BY <1>2, <1>3
  <2>4. q % P = p
    BY <1>2, <2>1, <2>3, DivUnique
  <2> HIDE DEF q, w
  <2>5. (A * q + 1) \div A = q /\ (A * q + 1) % A = 1
    BY <2>1, <2>3, DivUnique
  <2> QED BY <2>2, <2>4, <2>5
<1>11. AM!Encode(c, p) = w
  BY <1>4, <1>8
<1> HIDE DEF w
<1>12. AM!Chunk(w) = c /\ AM!Pow(w) = p /\ w % 2 ^ OOP_BITS = 1
  BY <1>5, <1>9, <1>10 DEF A
<1> QED BY <1>11, <1>12

(* The rounded logarithm of an array's length. *)
LEMMA Log2UpFact ==
  ASSUME NEW n \in 0 .. AM!Span
  PROVE  /\ AM!Log2Up(n) \in 0 .. AM!MaxPow
         /\ n <= AM!Limit => AM!Log2Up(n) \in Pows
<1> DEFINE m == AM!MaxPow
           T == {p \in 0 .. m : 2 ^ p >= n}
           Is(p) == 2 ^ p >= n /\ (p = 0 \/ 2 ^ (p - 1) < n)
<1>0. MaxPower \in Nat /\ m \in 1 .. MaxPower
  BY ArrayNumbers
<1>1. \A p \in 0 .. m : 2 ^ p \in Nat
  <2>1. \A p \in 0 .. m : p \in 0 .. MaxPower
    BY <1>0
  <2> QED BY <2>1, PowerFact
<1>2. \E p \in 0 .. m : Is(p)
  <2>1. T \subseteq Nat /\ T # {}
    <3>1. m \in 0 .. m
      BY <1>0
    <3>2. 2 ^ m >= n
      BY DEF AM!Span
    <3>3. m \in T
      BY <3>1, <3>2
    <3>4. T \subseteq Nat
      OBVIOUS
    <3> HIDE DEF T
    <3> QED BY <3>3, <3>4
  <2>2. PICK p \in T : \A l \in T : p <= l
    <3> HIDE DEF T
    <3> QED BY <2>1, LeastNatural
  <2>3. p \in 0 .. m /\ 2 ^ p >= n
    BY <2>2
  <2>4. ASSUME p # 0 PROVE 2 ^ (p - 1) < n
    <3>1. p - 1 \in 0 .. m /\ ~(p <= p - 1)
      BY <2>3, <2>4, <1>0
    <3>2. p - 1 \notin T
      BY <2>2, <3>1
    <3>3. ~(2 ^ (p - 1) >= n)
      BY <3>1, <3>2
    <3>4. 2 ^ (p - 1) \in Nat /\ n \in Int
      BY <1>1, <3>1, ArrayNumbers
    <3> QED BY <3>3, <3>4
  <2> QED BY <2>3, <2>4
<1> DEFINE b == CHOOSE p \in 0 .. m : Is(p)
<1>3. b \in 0 .. m /\ Is(b)
  BY <1>2, Zenon
<1>4. AM!Log2Up(n) = b
  BY DEF AM!Log2Up
<1> HIDE DEF b
<1>5. ASSUME n <= AM!Limit PROVE b \in Pows
  <2>1. b # m
    <3>1. ASSUME b = m PROVE FALSE
      <4>1. AM!Limit < n
        BY <1>0, <1>3, <3>1 DEF AM!Limit
      <4> QED BY <4>1, <1>5, ArrayNumbers
    <3> QED BY <3>1
  <2>2. b \in 0 .. m - 1
    BY <2>1, <1>0, <1>3
  <2> QED BY <2>2 DEF Pows
<1> QED BY <1>3, <1>4, <1>5

\* The tasks that name a piece of the array, and the pieces they name.
Words == {AM!Encode(c, p) : c \in ChunkNumbers, p \in Pows}
From(w) == (AM!Chunk(w) - 1) * 2 ^ AM!Pow(w)
To(w) == AM!Chunk(w) * 2 ^ AM!Pow(w)
Apart(v, w) == To(v) <= From(w) \/ To(w) <= From(v)

\* The pieces of a bag of tasks cover from .. to - 1, each index once.
Tiles(B, from, to) ==
  /\ \A w \in DOMAIN B : B[w] = 1 /\ from <= From(w) /\ To(w) <= to
  /\ \A v, w \in DOMAIN B : v # w => Apart(v, w)
  /\ \A i \in from .. to - 1 : \E w \in DOMAIN B : From(w) <= i /\ i < To(w)

(* A piece is not empty. *)
LEMMA PieceFact ==
  ASSUME NEW c \in ChunkNumbers, NEW p \in Pows
  PROVE  LET w == AM!Encode(c, p)
         IN  /\ w \in Words /\ From(w) = (c - 1) * 2 ^ p /\ To(w) = c * 2 ^ p
             /\ From(w) \in Nat /\ To(w) \in Nat /\ To(w) = From(w) + 2 ^ p /\ From(w) < To(w)
<1> DEFINE w == AM!Encode(c, p)
           Q == 2 ^ p
<1>1. From(w) = (c - 1) * Q /\ To(w) = c * Q
  BY EncodeFact DEF From, To
<1>2. Q \in Nat \ {0} /\ c \in Nat \ {0}
  BY PowsFact, ArrayNumbers DEF ChunkNumbers
<1>3. w \in Words
  BY DEF Words
<1> HIDE DEF w, Q
<1>4. PICK d \in Nat : c = d + 1
  <2>1. c - 1 \in Nat /\ c = (c - 1) + 1
    BY <1>2
  <2> QED BY <2>1
<1>5. (c - 1) * Q = d * Q /\ c * Q = d * Q + Q /\ d * Q \in Nat
  BY <1>2, <1>4
<1>6. From(w) \in Nat /\ To(w) \in Nat /\ To(w) = From(w) + Q /\ From(w) < To(w)
  BY <1>1, <1>2, <1>5
<1> QED BY <1>1, <1>3, <1>6 DEF w, Q

(* The pieces of words. *)
LEMMA WordFact ==
  ASSUME NEW w \in Words
  PROVE  /\ AM!Chunk(w) \in ChunkNumbers /\ AM!Pow(w) \in Pows /\ w % 2 ^ OOP_BITS = 1
         /\ From(w) \in Nat /\ To(w) \in Nat /\ From(w) < To(w)
<1>1. PICK c \in ChunkNumbers, p \in Pows : w = AM!Encode(c, p)
  BY DEF Words
<1> QED BY <1>1, PieceFact, EncodeFact

(* A push adds one task. *)
LEMMA PushFact ==
  ASSUME NEW B, NEW c, NEW p
  PROVE  DOMAIN AM!Push(B, c, p) = DOMAIN B \cup {AM!Encode(c, p)}
<1>1. DOMAIN AM!Task(c, p) = {AM!Encode(c, p)}
  BY DEF AM!Task, AM!SetToBag
<1> QED BY <1>1, Zenon DEF AM!Push, AM!(+)

(* Tasks pushed once are there once. *)
LEMMA PushOnce ==
  ASSUME NEW B, \A v \in DOMAIN B : B[v] = 1, NEW c, NEW p, AM!Encode(c, p) \notin DOMAIN B
  PROVE  \A v \in DOMAIN AM!Push(B, c, p) : AM!Push(B, c, p)[v] = 1
<1> DEFINE w == AM!Encode(c, p)
           C == AM!Push(B, c, p)
<1>1. AM!Task(c, p) = [e \in {w} |-> 1]
  BY DEF AM!Task, AM!SetToBag
<1> HIDE DEF w
<1>2. C = [e \in DOMAIN B \cup {w} |->
             (IF e \in DOMAIN B THEN B[e] ELSE 0) + (IF e \in {w} THEN 1 ELSE 0)]
  BY <1>1, Zenon DEF AM!Push, AM!(+)
<1>3. w \notin DOMAIN B
  BY DEF w
<1> HIDE DEF C
<1>4. \A v \in DOMAIN C : C[v] = 1
  BY <1>2, <1>3
<1> QED BY <1>4 DEF C

(* No tasks cover nothing. *)
LEMMA EmptyTile ==
  ASSUME NEW from \in Int
  PROVE  DOMAIN AM!EmptyBag = {} /\ Tiles(AM!EmptyBag, from, from)
<1>1. DOMAIN AM!EmptyBag = {}
  BY DEF AM!EmptyBag, AM!SetToBag
<1>2. from .. from - 1 = {}
  OBVIOUS
<1> QED BY <1>1, <1>2 DEF Tiles

(* Tasks are pushed from left to right. *)
LEMMA AddTile ==
  ASSUME NEW B, DOMAIN B \subseteq Words, NEW from \in Nat, NEW to \in Nat, from <= to,
         Tiles(B, from, to),
         NEW c \in ChunkNumbers, NEW p \in Pows, (c - 1) * 2 ^ p = to
  PROVE  Tiles(AM!Push(B, c, p), from, c * 2 ^ p)
<1> DEFINE w == AM!Encode(c, p)
           C == AM!Push(B, c, p)
           end == c * 2 ^ p
<1>1. w \in Words /\ From(w) = to /\ To(w) = end /\ end \in Nat /\ to < end
  BY PieceFact
<1>2. \A v \in DOMAIN B : /\ v \in Words /\ B[v] = 1 /\ from <= From(v) /\ To(v) <= to
                          /\ From(v) \in Nat /\ To(v) \in Nat /\ From(v) < To(v)
  BY WordFact DEF Tiles
<1>3. w \notin DOMAIN B
  BY <1>1, <1>2
<1>4. DOMAIN C = DOMAIN B \cup {w} /\ \A v \in DOMAIN C : C[v] = 1
  <2>1. DOMAIN AM!Push(B, c, p) = DOMAIN B \cup {AM!Encode(c, p)}
    BY PushFact
  <2>2. AM!Encode(c, p) \notin DOMAIN B
    BY <1>3
  <2>3. \A v \in DOMAIN B : B[v] = 1
    BY <1>2
  <2>4. \A v \in DOMAIN AM!Push(B, c, p) : AM!Push(B, c, p)[v] = 1
    BY <2>2, <2>3, PushOnce
  <2> QED BY <2>1, <2>4
<1> HIDE DEF w, C, end
<1>5. \A v \in DOMAIN C : C[v] = 1 /\ from <= From(v) /\ To(v) <= end
  BY <1>1, <1>2, <1>4
<1>6. \A u, v \in DOMAIN C : u # v => Apart(u, v)
  BY <1>1, <1>2, <1>4 DEF Tiles, Apart
<1>7. ASSUME NEW i \in from .. end - 1 PROVE \E v \in DOMAIN C : From(v) <= i /\ i < To(v)
  <2>1. CASE i < to
    <3>1. i \in from .. to - 1
      BY <2>1, <1>1
    <3>2. PICK v \in DOMAIN B : From(v) <= i /\ i < To(v)
      BY <3>1 DEF Tiles
    <3> QED BY <3>2, <1>4
  <2>2. CASE ~(i < to)
    <3>1. From(w) <= i /\ i < To(w)
      BY <2>2, <1>1
    <3> QED BY <3>1, <1>4
  <2> QED BY <2>1, <2>2
<1>8. Tiles(C, from, end)
  BY <1>5, <1>6, <1>7 DEF Tiles
<1> QED BY <1>8, Zenon DEF C, end

(* The two halves of a piece are pieces. *)
LEMMA HalfFact ==
  ASSUME NEW c \in ChunkNumbers, NEW p \in Pows, AM!Splits(c, p)
  PROVE  /\ p - 1 \in Pows /\ 2 * c - 1 \in ChunkNumbers /\ 2 * c \in ChunkNumbers
         /\ ((2 * c - 1) - 1) * 2 ^ (p - 1) = (c - 1) * 2 ^ p
         /\ (2 * c) * 2 ^ (p - 1) = c * 2 ^ p
<1>1. c \in Nat \ {0} /\ c * 2 < AM!ChunkSize /\ AM!ChunkSize \in Nat /\ 2 ^ p > Slice /\ Slice \in Nat \ {0}
  BY ArrayNumbers DEF ChunkNumbers, AM!Splits
<1>2. 2 * c - 1 \in ChunkNumbers /\ 2 * c \in ChunkNumbers
  BY <1>1 DEF ChunkNumbers
<1>3. p # 0
  <2>1. 2 ^ 0 = 1
    BY PowersOfTwo
  <2>2. ASSUME p = 0 PROVE FALSE
    <3>1. 2 ^ p = 1
      BY <2>1, <2>2
    <3> QED BY <1>1, <3>1
  <2> QED BY <2>2
<1>4. p - 1 \in Pows /\ 2 ^ p = 2 * 2 ^ (p - 1)
  BY <1>3, PowsFact
<1> DEFINE Q == 2 ^ (p - 1)
<1>5. Q \in Nat /\ 2 ^ p = 2 * Q
  BY <1>4, PowsFact
<1> HIDE DEF Q
<1>6. ((2 * c - 1) - 1) * Q = (c - 1) * (2 * Q) /\ (2 * c) * Q = c * (2 * Q)
  <2>1. PICK d \in Nat : c = d + 1
    <3>1. c - 1 \in Nat /\ c = (c - 1) + 1
      BY <1>1
    <3> QED BY <3>1
  <2>2. (2 * c - 1) - 1 = 2 * d /\ c - 1 = d /\ d * Q \in Nat
    BY <2>1, <1>5
  <2>3. (2 * d) * Q = d * (2 * Q) /\ (2 * c) * Q = c * (2 * Q)
    BY <2>1, <1>5
  <2> QED BY <2>2, <2>3
<1>7. ((2 * c - 1) - 1) * Q = (c - 1) * 2 ^ p /\ (2 * c) * Q = c * 2 ^ p
  BY <1>5, <1>6
<1> QED BY <1>2, <1>4, <1>7 DEF Q

\* The loop of do_chunked_array_start has queued what lies left of its piece.
PrefixOK(s) ==
  /\ DOMAIN s = {"chunk", "pow", "last", "queued"}
  /\ s.chunk \in ChunkNumbers /\ s.pow \in Pows /\ DOMAIN s.queued \subseteq Words
  /\ arrayLen <= AM!Limit => /\ s.last = (s.chunk - 1) * 2 ^ s.pow
                             /\ s.last <= arrayLen /\ Tiles(s.queued, 0, s.last)

(* The loop of do_chunked_array_start begins with the whole array, rounded up. *)
LEMMA FirstPieceFact ==
  ASSUME arrayLen \in Lengths
  PROVE  PrefixOK(AM!FirstPiece)
<1>1. arrayLen \in 0 .. AM!Span
  BY ArrayAssumption
<1>2. /\ AM!MaxPow \in Nat \ {0} /\ AM!ChunkSize \in Nat /\ AM!ChunkSize >= 4
  BY ArrayNumbers
<1>3. AM!Log2Up(arrayLen) \in 0 .. AM!MaxPow /\ (arrayLen <= AM!Limit => AM!Log2Up(arrayLen) \in Pows)
  BY <1>1, Log2UpFact
<1>4. CASE AM!Overflows
  <2> DEFINE s == [chunk |-> 2, pow |-> AM!MaxPow - 1, last |-> AM!Limit, queued |-> AM!Task(2, AM!MaxPow - 1)]
  <2>1. AM!FirstPiece = s
    BY <1>4 DEF AM!FirstPiece
  <2>2. ~(arrayLen <= AM!Limit)
    BY <1>2, <1>3, <1>4 DEF AM!Overflows, Pows
  <2>3. 2 \in ChunkNumbers /\ AM!MaxPow - 1 \in Pows
    BY <1>2 DEF ChunkNumbers, Pows
  <2>4. DOMAIN AM!Task(2, AM!MaxPow - 1) \subseteq Words
    <3>1. AM!Encode(2, AM!MaxPow - 1) \in Words
      BY <2>3, PieceFact
    <3> QED BY <3>1 DEF AM!Task, AM!SetToBag
  <2>5. PrefixOK(s)
    BY <2>2, <2>3, <2>4 DEF PrefixOK
  <2> QED BY <2>1, <2>5
<1>5. CASE ~AM!Overflows
  <2> DEFINE p == AM!Log2Up(arrayLen)
             s == [chunk |-> 1, pow |-> p, last |-> 0, queued |-> AM!EmptyBag]
  <2>1. AM!FirstPiece = s
    BY <1>5 DEF AM!FirstPiece
  <2>2. 1 \in ChunkNumbers /\ p \in Pows
    BY <1>2, <1>3, <1>5 DEF AM!Overflows, ChunkNumbers, Pows
  <2>3. DOMAIN AM!EmptyBag = {} /\ Tiles(AM!EmptyBag, 0, 0)
    BY EmptyTile
  <2>4. (1 - 1) * 2 ^ p = 0
    <3>1. 2 ^ p \in Nat
      BY <2>2, PowsFact
    <3> DEFINE Q == 2 ^ p
    <3> HIDE DEF Q
    <3>2. Q \in Nat => (1 - 1) * Q = 0
      OBVIOUS
    <3> QED BY <3>1, <3>2 DEF Q
  <2> HIDE DEF p
  <2>5. PrefixOK(s)
    BY <1>1, <2>2, <2>3, <2>4 DEF PrefixOK
  <2> QED BY <2>1, <2>5
<1> QED BY <1>4, <1>5

(* A round of the loop. *)
LEMMA SplitPrefixFact ==
  ASSUME arrayLen \in Lengths, NEW s, PrefixOK(s), AM!Splits(s.chunk, s.pow)
  PROVE  PrefixOK(AM!SplitPrefix(s))
<1> DEFINE c == s.chunk
           p == s.pow
           left == 2 * c - 1
           end == left * 2 ^ (p - 1)
           B == s.queued
<1>0. arrayLen \in Nat
  BY ArrayAssumption, ArrayNumbers
<1>1. c \in ChunkNumbers /\ p \in Pows /\ DOMAIN B \subseteq Words
  BY DEF PrefixOK
<1>2. /\ p - 1 \in Pows /\ left \in ChunkNumbers /\ 2 * c \in ChunkNumbers /\ left + 1 = 2 * c
      /\ (left - 1) * 2 ^ (p - 1) = (c - 1) * 2 ^ p
      /\ (2 * c) * 2 ^ (p - 1) = c * 2 ^ p
  <2>1. c \in Nat
    BY <1>1, ArrayNumbers DEF ChunkNumbers
  <2>2. left + 1 = 2 * c
    BY <2>1
  <2> QED BY <1>1, <2>2, HalfFact
<1>3. end \in Nat
  BY <1>2, PieceFact
<1>4. ASSUME arrayLen <= AM!Limit
      PROVE  /\ s.last = (left - 1) * 2 ^ (p - 1) /\ s.last \in Nat
             /\ s.last <= arrayLen /\ Tiles(B, 0, s.last)
  <2>1. s.last = (c - 1) * 2 ^ p /\ s.last <= arrayLen /\ Tiles(B, 0, s.last)
    BY <1>4 DEF PrefixOK
  <2>2. (c - 1) * 2 ^ p \in Nat
    BY <1>1, PieceFact
  <2> QED BY <2>1, <2>2, <1>2
<1>5. CASE end < arrayLen
  <2> DEFINE t == [chunk |-> left + 1, pow |-> p - 1, last |-> end, queued |-> AM!Push(B, left, p - 1)]
  <2>1. AM!SplitPrefix(s) = t
    BY <1>5 DEF AM!SplitPrefix
  <2>2. DOMAIN AM!Push(B, left, p - 1) \subseteq Words
    <3>1. AM!Encode(left, p - 1) \in Words
      BY <1>2, PieceFact
    <3>2. DOMAIN AM!Push(B, left, p - 1) = DOMAIN B \cup {AM!Encode(left, p - 1)}
      BY PushFact
    <3> HIDE DEF B, left
    <3> QED BY <1>1, <3>1, <3>2
  <2>3. arrayLen <= AM!Limit => Tiles(AM!Push(B, left, p - 1), 0, end)
    <3>1. ASSUME arrayLen <= AM!Limit PROVE Tiles(AM!Push(B, left, p - 1), 0, end)
      <4>1. /\ (left - 1) * 2 ^ (p - 1) = s.last /\ s.last \in Nat /\ 0 \in Nat /\ 0 <= s.last
            /\ Tiles(B, 0, s.last) /\ DOMAIN B \subseteq Words /\ left \in ChunkNumbers /\ p - 1 \in Pows
        BY <1>1, <1>2, <1>4, <3>1
      <4> HIDE DEF left, B
      <4> QED BY <4>1, AddTile
    <3> QED BY <3>1
  <2>4. ((left + 1) - 1) * 2 ^ (p - 1) = end
    <3>1. (left + 1) - 1 = left
      BY <1>1, ArrayNumbers DEF ChunkNumbers
    <3> QED BY <3>1
  <2>5. left + 1 \in ChunkNumbers /\ p - 1 \in Pows
    BY <1>2
  <2> HIDE DEF left, end, B
  <2>6. PrefixOK(t)
    BY <1>0, <1>3, <1>5, <2>2, <2>3, <2>4, <2>5 DEF PrefixOK
  <2> QED BY <2>1, <2>6
<1>6. CASE ~(end < arrayLen)
  <2> DEFINE t == [s EXCEPT !.chunk = left, !.pow = p - 1]
  <2>1. AM!SplitPrefix(s) = t
    BY <1>6 DEF AM!SplitPrefix
  <2> HIDE DEF left
  <2>2. DOMAIN s = {"chunk", "pow", "last", "queued"}
    BY DEF PrefixOK
  <2>3. DOMAIN t = DOMAIN s /\ t.chunk = left /\ t.pow = p - 1 /\ t.last = s.last /\ t.queued = B
    BY <2>2
  <2> HIDE DEF t, B
  <2>4. PrefixOK(t)
    BY <1>1, <1>2, <1>4, <2>2, <2>3 DEF PrefixOK
  <2> QED BY <2>1, <2>4
<1> QED BY <1>5, <1>6

\* The loop of do_chunked_array has queued what lies left of its piece of w.
PieceOK(w, s) ==
  /\ s.chunk \in ChunkNumbers /\ s.pow \in Pows /\ DOMAIN s.queued \subseteq Words
  /\ s.chunk * 2 ^ s.pow = To(w) /\ From(w) <= (s.chunk - 1) * 2 ^ s.pow
  /\ Tiles(s.queued, From(w), (s.chunk - 1) * 2 ^ s.pow)

(* A round of the loop. *)
LEMMA SplitRightFact ==
  ASSUME NEW w \in Words, NEW s, PieceOK(w, s), AM!Splits(s.chunk, s.pow)
  PROVE  PieceOK(w, AM!SplitRight(s))
<1> DEFINE c == s.chunk
           p == s.pow
           left == 2 * c - 1
           B == s.queued
           t == [chunk |-> 2 * c, pow |-> p - 1, queued |-> AM!Push(B, left, p - 1)]
<1>1. /\ c \in ChunkNumbers /\ p \in Pows /\ DOMAIN B \subseteq Words /\ c * 2 ^ p = To(w)
      /\ From(w) <= (c - 1) * 2 ^ p /\ Tiles(B, From(w), (c - 1) * 2 ^ p)
  BY DEF PieceOK
<1>2. /\ p - 1 \in Pows /\ left \in ChunkNumbers /\ 2 * c \in ChunkNumbers
      /\ (left - 1) * 2 ^ (p - 1) = (c - 1) * 2 ^ p
      /\ (2 * c) * 2 ^ (p - 1) = c * 2 ^ p
  BY <1>1, HalfFact
<1>3. From(w) \in Nat /\ (c - 1) * 2 ^ p \in Nat
  BY <1>1, PieceFact, WordFact
<1>4. Tiles(AM!Push(B, left, p - 1), From(w), left * 2 ^ (p - 1))
  <2> DEFINE to == (c - 1) * 2 ^ p
  <2>1. /\ to \in Nat /\ From(w) \in Nat /\ From(w) <= to /\ Tiles(B, From(w), to)
        /\ DOMAIN B \subseteq Words /\ left \in ChunkNumbers /\ p - 1 \in Pows /\ (left - 1) * 2 ^ (p - 1) = to
    BY <1>1, <1>2, <1>3
  <2> HIDE DEF to, left, B
  <2> QED BY <2>1, AddTile
<1>5. 2 * c - 1 = left
  OBVIOUS
<1>6. From(w) <= left * 2 ^ (p - 1)
  <2> DEFINE e == AM!Encode(left, p - 1)
  <2>1. From(e) = (left - 1) * 2 ^ (p - 1) /\ To(e) = left * 2 ^ (p - 1) /\ From(e) < To(e)
        /\ From(e) \in Nat /\ To(e) \in Nat
    BY <1>2, PieceFact
  <2>2. From(w) <= From(e)
    BY <1>1, <1>2, <2>1
  <2>3. From(w) <= To(e)
    <3> HIDE DEF e
    <3> QED BY <1>3, <2>1, <2>2
  <2> QED BY <2>1, <2>3
<1>7. DOMAIN AM!Push(B, left, p - 1) \subseteq Words
  <2>1. AM!Encode(left, p - 1) \in Words
    BY <1>2, PieceFact
  <2>2. DOMAIN AM!Push(B, left, p - 1) = DOMAIN B \cup {AM!Encode(left, p - 1)}
    BY PushFact
  <2> HIDE DEF B, left
  <2> QED BY <1>1, <2>1, <2>2
<1>8. AM!SplitRight(s) = t
  BY DEF AM!SplitRight
<1>9. (2 * c) * 2 ^ (p - 1) = To(w)
  BY <1>1, <1>2
<1> HIDE DEF left, B
<1>10. PieceOK(w, t)
  BY <1>2, <1>4, <1>5, <1>6, <1>7, <1>9 DEF PieceOK
<1> QED BY <1>8, <1>10

\* A round of either loop.
Round(right, s) ==
  IF AM!Splits(s.chunk, s.pow)
  THEN IF right THEN AM!SplitRight(s) ELSE AM!SplitPrefix(s)
  ELSE s

Runs(w, first, right, n) ==
  w = [i \in 0 .. n |-> IF i = 0 THEN first ELSE Round(right, w[i - 1])]

(* A loop has rounds. *)
LEMMA RoundsExist ==
  ASSUME NEW first, NEW right, NEW n \in Nat
  PROVE  \E w : Runs(w, first, right, n)
<1> DEFINE T == {k \in Nat : ~\E w : Runs(w, first, right, k)}
<1> SUFFICES ASSUME T # {} PROVE FALSE
  OBVIOUS
<1>1. PICK k \in T : \A l \in T : k <= l
  <2>1. T \subseteq Nat
    OBVIOUS
  <2> HIDE DEF T
  <2> QED BY <2>1, LeastNatural
<1>2. k \in Nat /\ ~\E w : Runs(w, first, right, k)
  OBVIOUS
<1>3. k # 0
  <2> DEFINE w == [i \in 0 .. 0 |-> first]
  <2>1. ASSUME k = 0 PROVE FALSE
    <3>1. Runs(w, first, right, 0)
      BY DEF Runs
    <3> QED BY <1>2, <2>1, <3>1
  <2> QED BY <2>1
<1>4. PICK d \in Nat : k = d + 1
  <2>1. k - 1 \in Nat /\ k = (k - 1) + 1
    BY <1>2, <1>3
  <2> QED BY <2>1
<1>5. PICK w : Runs(w, first, right, d)
  <2>1. ~(k <= d)
    BY <1>4
  <2>2. d \notin T
    BY <1>1, <2>1
  <2> QED BY <2>2
<1> DEFINE h == [i \in 0 .. k |-> IF i = k THEN Round(right, w[d]) ELSE w[i]]
<1>6. ASSUME NEW i \in 0 .. k
      PROVE  h[i] = IF i = 0 THEN first ELSE Round(right, h[i - 1])
  <2>1. CASE i = k
    <3>1. k - 1 = d /\ d \in 0 .. k /\ d # k /\ i # 0
      BY <1>4, <2>1
    <3>2. h[i] = Round(right, w[d]) /\ h[i - 1] = w[d]
      BY <2>1, <3>1
    <3> QED BY <3>1, <3>2
  <2>2. CASE i # k
    <3>1. i \in 0 .. d
      BY <1>4, <2>2
    <3>2. w[i] = IF i = 0 THEN first ELSE Round(right, w[i - 1])
      BY <1>5, <3>1 DEF Runs
    <3>3. i # 0 => i - 1 \in 0 .. k /\ i - 1 # k
      BY <1>4, <3>1
    <3>4. h[i] = w[i] /\ (i # 0 => h[i - 1] = w[i - 1])
      BY <2>2, <3>3
    <3> HIDE DEF h
    <3> QED BY <3>2, <3>4
  <2> QED BY <2>1, <2>2
<1>7. h = [i \in 0 .. k |-> h[i]]
  OBVIOUS
<1> HIDE DEF h
<1>8. Runs(h, first, right, k)
  BY <1>6, <1>7 DEF Runs
<1> QED BY <1>2, <1>8

(* What every round keeps holds at the end: do_chunked_array_start. *)
LEMMA StartChunksFact ==
  ASSUME arrayLen \in Lengths
  PROVE  PrefixOK(AM!StartChunks)
<1> DEFINE m == AM!MaxPow
           s == CHOOSE w : Runs(w, AM!FirstPiece, FALSE, m)
           T == {k \in 0 .. m : ~PrefixOK(s[k])}
<1>0. m \in Nat /\ m \in 0 .. m
  BY ArrayNumbers
<1>1. AM!StartChunks = s[m]
  BY Zenon DEF AM!StartChunks, Runs, Round
<1>2. Runs(s, AM!FirstPiece, FALSE, m)
  BY <1>0, RoundsExist, Zenon
<1> HIDE DEF s, m
<1>3. ASSUME T # {} PROVE FALSE
  <2>1. PICK k \in T : \A l \in T : k <= l
    <3>1. T \subseteq Nat
      OBVIOUS
    <3> HIDE DEF T
    <3> QED BY <1>3, <3>1, LeastNatural
  <2>2. k \in 0 .. m /\ ~PrefixOK(s[k])
    OBVIOUS
  <2>3. s[k] = IF k = 0 THEN AM!FirstPiece ELSE Round(FALSE, s[k - 1])
    BY <1>2, <2>2 DEF Runs
  <2>4. k # 0
    BY <2>2, <2>3, FirstPieceFact
  <2>5. PrefixOK(s[k - 1])
    <3>1. k - 1 \in 0 .. m /\ ~(k <= k - 1)
      BY <1>0, <2>2, <2>4
    <3>2. k - 1 \notin T
      BY <2>1, <3>1
    <3> QED BY <3>1, <3>2
  <2>6. PrefixOK(Round(FALSE, s[k - 1]))
    BY <2>5, SplitPrefixFact DEF Round
  <2> QED BY <2>2, <2>3, <2>4, <2>6
<1>4. PrefixOK(s[m])
  BY <1>0, <1>3
<1> QED BY <1>1, <1>4

(* The same for do_chunked_array. *)
LEMMA SplitChunkFact ==
  ASSUME NEW w \in Words
  PROVE  PieceOK(w, AM!SplitChunk(w))
<1> DEFINE m == AM!MaxPow
           first == [chunk |-> AM!Chunk(w), pow |-> AM!Pow(w), queued |-> AM!EmptyBag]
           s == CHOOSE t : Runs(t, first, TRUE, m)
           T == {k \in 0 .. m : ~PieceOK(w, s[k])}
<1>0. m \in Nat /\ m \in 0 .. m
  BY ArrayNumbers
<1>1. AM!SplitChunk(w) = s[m]
  BY Zenon DEF AM!SplitChunk, Runs, Round
<1>2. Runs(s, first, TRUE, m)
  BY <1>0, RoundsExist, Zenon
<1>3. PieceOK(w, first)
  <2>1. /\ AM!Chunk(w) \in ChunkNumbers /\ AM!Pow(w) \in Pows /\ From(w) \in Nat
        /\ AM!Chunk(w) * 2 ^ AM!Pow(w) = To(w) /\ (AM!Chunk(w) - 1) * 2 ^ AM!Pow(w) = From(w)
    BY WordFact DEF From, To
  <2>2. DOMAIN AM!EmptyBag = {} /\ Tiles(AM!EmptyBag, From(w), From(w))
    BY <2>1, EmptyTile
  <2> QED BY <2>1, <2>2 DEF PieceOK
<1> HIDE DEF s, m, first
<1>4. ASSUME T # {} PROVE FALSE
  <2>1. PICK k \in T : \A l \in T : k <= l
    <3>1. T \subseteq Nat
      OBVIOUS
    <3> HIDE DEF T
    <3> QED BY <1>4, <3>1, LeastNatural
  <2>2. k \in 0 .. m /\ ~PieceOK(w, s[k])
    OBVIOUS
  <2>3. s[k] = IF k = 0 THEN first ELSE Round(TRUE, s[k - 1])
    BY <1>2, <2>2 DEF Runs
  <2>4. k # 0
    BY <1>3, <2>2, <2>3
  <2>5. PieceOK(w, s[k - 1])
    <3>1. k - 1 \in 0 .. m /\ ~(k <= k - 1)
      BY <1>0, <2>2, <2>4
    <3>2. k - 1 \notin T
      BY <2>1, <3>1
    <3> QED BY <3>1, <3>2
  <2>6. PieceOK(w, Round(TRUE, s[k - 1]))
    BY <2>5, SplitRightFact DEF Round
  <2> QED BY <2>2, <2>3, <2>4, <2>6
<1>5. PieceOK(w, s[m])
  BY <1>0, <1>4
<1> QED BY <1>1, <1>5

(* A task is taken and others are queued. *)
LEMMA ReplacedFact ==
  ASSUME NEW w, NEW B
  PROVE  DOMAIN AM!Replaced(w, B) \subseteq DOMAIN tasks \cup DOMAIN B
<1> DEFINE D == [e \in DOMAIN tasks |-> IF e \in DOMAIN AM!SetToBag({w})
                                         THEN tasks[e] - AM!SetToBag({w})[e] ELSE tasks[e]]
           R == [e \in {d \in DOMAIN D : D[d] > 0} |-> D[e]]
<1>1. AM!Replaced(w, B) = [e \in DOMAIN R \cup DOMAIN B |->
             (IF e \in DOMAIN R THEN R[e] ELSE 0) + (IF e \in DOMAIN B THEN B[e] ELSE 0)]
  BY Zenon DEF AM!Replaced, AM!(+), AM!(-)
<1>2. DOMAIN R \subseteq DOMAIN tasks
  <2>1. DOMAIN D = DOMAIN tasks
    OBVIOUS
  <2> HIDE DEF D
  <2> QED BY <2>1
<1> HIDE DEF R
<1> QED BY <1>1, <1>2

(* Nothing is queued twice when the new tasks are not among the others. *)
LEMMA ReplacedOnce ==
  ASSUME NEW w \in DOMAIN tasks, NEW B, DOMAIN B \cap (DOMAIN tasks \ {w}) = {},
         \A v \in DOMAIN tasks : tasks[v] = 1, \A v \in DOMAIN B : B[v] = 1
  PROVE  /\ DOMAIN AM!Replaced(w, B) = (DOMAIN tasks \ {w}) \cup DOMAIN B
         /\ \A v \in DOMAIN AM!Replaced(w, B) : AM!Replaced(w, B)[v] = 1
<1> DEFINE D == [e \in DOMAIN tasks |-> IF e \in DOMAIN AM!SetToBag({w})
                                         THEN tasks[e] - AM!SetToBag({w})[e] ELSE tasks[e]]
           R == [e \in {d \in DOMAIN D : D[d] > 0} |-> D[e]]
           C == AM!Replaced(w, B)
<1>1. C = [e \in DOMAIN R \cup DOMAIN B |->
             (IF e \in DOMAIN R THEN R[e] ELSE 0) + (IF e \in DOMAIN B THEN B[e] ELSE 0)]
  BY Zenon DEF AM!Replaced, AM!(+), AM!(-)
<1>2. DOMAIN AM!SetToBag({w}) = {w} /\ AM!SetToBag({w})[w] = 1
  BY DEF AM!SetToBag
<1>3. DOMAIN D = DOMAIN tasks /\ D[w] = 0 /\ \A v \in DOMAIN tasks \ {w} : D[v] = 1
  <2>1. DOMAIN D = DOMAIN tasks
    OBVIOUS
  <2>2. D[w] = tasks[w] - AM!SetToBag({w})[w]
    BY <1>2
  <2>3. D[w] = 0
    <3> HIDE DEF D
    <3>1. tasks[w] = 1
      OBVIOUS
    <3> QED BY <2>2, <3>1, <1>2
  <2>4. ASSUME NEW v \in DOMAIN tasks \ {w} PROVE D[v] = 1
    <3>1. D[v] = tasks[v]
      BY <1>2
    <3>2. tasks[v] = 1
      OBVIOUS
    <3> HIDE DEF D
    <3> QED BY <3>1, <3>2
  <2> QED BY <2>1, <2>3, <2>4
<1> HIDE DEF D
<1>4. DOMAIN R = DOMAIN tasks \ {w} /\ \A v \in DOMAIN R : R[v] = 1
  <2>1. DOMAIN R = {d \in DOMAIN D : D[d] > 0}
    OBVIOUS
  <2>2. \A v \in DOMAIN R : R[v] = D[v]
    OBVIOUS
  <2> HIDE DEF R
  <2>3. DOMAIN R = DOMAIN tasks \ {w}
    BY <1>3, <2>1
  <2> QED BY <1>3, <2>2, <2>3
<1> HIDE DEF R, C
<1>5. DOMAIN C = DOMAIN R \cup DOMAIN B
  BY <1>1
<1>6. ASSUME NEW v \in DOMAIN C PROVE C[v] = 1
  <2>1. C[v] = (IF v \in DOMAIN R THEN R[v] ELSE 0) + (IF v \in DOMAIN B THEN B[v] ELSE 0)
    BY <1>1, <1>6, <1>5
  <2>2. CASE v \in DOMAIN R
    <3>1. v \notin DOMAIN B /\ R[v] = 1
      BY <1>4, <2>2
    <3> QED BY <2>1, <2>2, <3>1
  <2>3. CASE v \notin DOMAIN R
    <3>1. v \in DOMAIN B /\ B[v] = 1
      BY <1>5, <2>3
    <3> QED BY <2>1, <2>3, <3>1
  <2> QED BY <2>2, <2>3
<1>7. DOMAIN C = (DOMAIN tasks \ {w}) \cup DOMAIN B
  BY <1>4, <1>5
<1> QED BY <1>6, <1>7 DEF C

(***************************************************************************)
(* The pieces of the waiting tasks are apart, and an element was visited   *)
(* once if it lies in none of them; this is stronger than ElementsOnce,    *)
(* which counts visits only.                                               *)
(***************************************************************************)
Waits(i) == \E w \in DOMAIN tasks : From(w) <= i /\ i < To(w)

Covered ==
  /\ DOMAIN visited = 0 .. AM!Span - 1
  /\ \A w \in DOMAIN tasks : tasks[w] = 1 /\ To(w) <= arrayLen
  /\ \A v, w \in DOMAIN tasks : v # w => Apart(v, w)
  /\ \A i \in DOMAIN visited :
       visited[i] = IF arrayStarted /\ i < arrayLen /\ ~Waits(i) THEN 1 ELSE 0

ArrayInv ==
  /\ arrayLen \in Lengths
  /\ DOMAIN tasks \subseteq Words
  /\ ~arrayStarted => DOMAIN tasks = {}
  /\ arrayLen <= AM!Limit => Covered

(* Nothing is visited at first. *)
LEMMA InitArray == AM!Init => ArrayInv
<1> SUFFICES ASSUME AM!Init PROVE ArrayInv
  OBVIOUS
<1>1. /\ arrayLen \in Lengths /\ arrayStarted = FALSE /\ tasks = AM!EmptyBag
      /\ visited = [i \in 0 .. AM!Span - 1 |-> 0]
  BY DEF AM!Init
<1>2. DOMAIN tasks = {}
  BY <1>1 DEF AM!EmptyBag, AM!SetToBag
<1>3. Covered
  BY <1>1, <1>2 DEF Covered
<1> QED BY <1>1, <1>2, <1>3 DEF ArrayInv

(* Numbers of the array at hand. *)
LEMMA LengthFact ==
  ASSUME arrayLen \in Lengths
  PROVE  arrayLen \in Nat /\ AM!Span \in Nat /\ AM!Limit \in Nat /\ arrayLen <= AM!Span
BY ArrayAssumption, ArrayNumbers

(* What visiting a range does. *)
LEMMA VisitFact ==
  ASSUME NEW from \in Int, NEW to \in Int, AM!Visit(from, to),
         \A i \in DOMAIN visited : visited[i] \in {0, 1}
  PROVE  /\ DOMAIN visited' = DOMAIN visited
         /\ \A i \in DOMAIN visited :
              /\ from <= i /\ i < to => (visited[i] = 0 => visited'[i] = 1)
              /\ ~(from <= i /\ i < to) => visited'[i] = visited[i]
BY DEF AM!Visit

(* do_chunked_array_start queues the full pieces and visits the rest. *)
LEMMA StartStep == ArrayInv /\ AM!DoArrayStart => ArrayInv'
<1> SUFFICES ASSUME ArrayInv, AM!DoArrayStart PROVE ArrayInv'
  OBVIOUS
<1>1. /\ arrayLen' = arrayLen /\ arrayLen \in Lengths /\ ~arrayStarted /\ arrayStarted' = TRUE
      /\ DOMAIN tasks = {}
  BY DEF ArrayInv, AM!DoArrayStart
<1>2. arrayLen \in Nat /\ AM!Span \in Nat /\ arrayLen <= AM!Span
  BY <1>1, LengthFact
\* After either branch, the tasks tile what lies left of the part visited.
<1>3. \E last : /\ DOMAIN tasks' \subseteq Words
                /\ AM!Visit(last, arrayLen)
                /\ arrayLen <= AM!Limit =>
                     last \in Nat /\ last <= arrayLen /\ Tiles(tasks', 0, last)
  <2>1. CASE arrayLen <= 2 * Slice
    <3>1. AM!Visit(0, arrayLen) /\ tasks' = tasks
      BY <2>1, <1>1 DEF AM!DoArrayStart
    <3>2. Tiles(tasks', 0, 0)
      <4>1. 0 .. 0 - 1 = {}
        OBVIOUS
      <4> QED BY <4>1, <3>1, <1>1 DEF Tiles
    <3> QED BY <3>1, <3>2, <1>1, <1>2
  <2>2. CASE ~(arrayLen <= 2 * Slice)
    <3> DEFINE s == AM!StartChunks
    <3>1. tasks' = s.queued /\ AM!Visit(s.last, arrayLen)
      BY <2>2 DEF AM!DoArrayStart
    <3>2. PrefixOK(s)
      BY <1>1, StartChunksFact
    <3> HIDE DEF s
    <3>3. ASSUME arrayLen <= AM!Limit
          PROVE  s.last \in Nat /\ s.last <= arrayLen /\ Tiles(tasks', 0, s.last)
      <4>1. s.last \in Nat
        BY <3>2, <3>3, PieceFact DEF PrefixOK
      <4> QED BY <3>1, <3>2, <3>3, <4>1 DEF PrefixOK
    <3>4. DOMAIN tasks' \subseteq Words
      BY <3>1, <3>2 DEF PrefixOK
    <3> QED BY <3>1, <3>3, <3>4
  <2> QED BY <2>1, <2>2
<1>4. PICK last : /\ DOMAIN tasks' \subseteq Words
                  /\ AM!Visit(last, arrayLen)
                  /\ arrayLen <= AM!Limit =>
                       last \in Nat /\ last <= arrayLen /\ Tiles(tasks', 0, last)
  BY <1>3
<1>5. ASSUME arrayLen <= AM!Limit PROVE Covered'
  <2>1. last \in Nat /\ last <= arrayLen /\ Tiles(tasks', 0, last)
    BY <1>4, <1>5
  <2>2. DOMAIN visited = 0 .. AM!Span - 1 /\ \A i \in DOMAIN visited : visited[i] = 0
    BY <1>1, <1>5 DEF ArrayInv, Covered
  <2>3. /\ DOMAIN visited' = DOMAIN visited
        /\ \A i \in DOMAIN visited : /\ last <= i /\ i < arrayLen => visited'[i] = 1
                                     /\ ~(last <= i /\ i < arrayLen) => visited'[i] = 0
    <3>1. \A i \in DOMAIN visited : visited[i] \in {0, 1}
      BY <2>2
    <3>2. last \in Int /\ arrayLen \in Int /\ AM!Visit(last, arrayLen)
      BY <2>1, <1>2, <1>4
    <3> QED BY <3>1, <3>2, <2>2, VisitFact
  <2>4. /\ \A w \in DOMAIN tasks' : /\ tasks'[w] = 1 /\ To(w) <= last
                                    /\ From(w) \in Nat /\ To(w) \in Nat
        /\ \A v, w \in DOMAIN tasks' : v # w => Apart(v, w)
        /\ \A i \in 0 .. last - 1 : \E w \in DOMAIN tasks' : From(w) <= i /\ i < To(w)
    BY <2>1, <1>4, WordFact DEF Tiles
  <2>5. \A w \in DOMAIN tasks' : tasks'[w] = 1 /\ To(w) <= arrayLen
    BY <2>1, <2>4, <1>2
  <2>6. ASSUME NEW i \in DOMAIN visited'
        PROVE  visited'[i] = IF i < arrayLen /\ ~Waits(i)' THEN 1 ELSE 0
    <3>1. i \in Nat
      BY <2>2, <2>3, <1>2
    <3>2. Waits(i)' <=> i < last
      BY <2>1, <2>4, <3>1 DEF Waits
    <3> QED BY <2>1, <2>3, <1>2, <3>1, <3>2
  <2> QED BY <1>1, <2>2, <2>3, <2>4, <2>5, <2>6 DEF Covered
<1> QED BY <1>1, <1>4, <1>5 DEF ArrayInv

(* do_chunked_array replaces a piece by the pieces left of what it visits. *)
LEMMA ChunkStep == ArrayInv /\ AM!DoChunkedArray => ArrayInv'
<1> SUFFICES ASSUME ArrayInv, AM!DoChunkedArray PROVE ArrayInv'
  OBVIOUS
<1>1. PICK w \in DOMAIN tasks :
        /\ tasks' = AM!Replaced(w, AM!SplitChunk(w).queued)
        /\ AM!Visit((AM!SplitChunk(w).chunk - 1) * 2 ^ AM!SplitChunk(w).pow,
                    AM!SplitChunk(w).chunk * 2 ^ AM!SplitChunk(w).pow)
  BY DEF AM!DoChunkedArray, AM!BagToSet
<1>2. arrayLen' = arrayLen /\ arrayStarted' = arrayStarted /\ arrayLen \in Lengths /\ arrayStarted
      /\ DOMAIN tasks \subseteq Words
  BY <1>1 DEF ArrayInv, AM!DoChunkedArray
<1> DEFINE s == AM!SplitChunk(w)
           B == s.queued
           mid == (s.chunk - 1) * 2 ^ s.pow
           C == AM!Replaced(w, B)
<1>3. /\ DOMAIN B \subseteq Words /\ Tiles(B, From(w), mid) /\ From(w) <= mid
      /\ s.chunk * 2 ^ s.pow = To(w) /\ s.chunk \in ChunkNumbers /\ s.pow \in Pows
  BY <1>1, <1>2, SplitChunkFact DEF PieceOK
<1>4. /\ mid \in Nat /\ mid < To(w) /\ From(w) \in Nat /\ To(w) \in Nat
      /\ arrayLen \in Nat /\ AM!Span \in Nat
  BY <1>2, <1>3, PieceFact, WordFact, LengthFact
<1>5. AM!Visit(mid, To(w)) /\ tasks' = C
  BY <1>1, <1>3
<1>6. DOMAIN C \subseteq DOMAIN tasks \cup DOMAIN B
  BY ReplacedFact
<1> HIDE DEF s, mid, B, C
<1>7. ASSUME arrayLen <= AM!Limit PROVE Covered'
  <2>1. /\ DOMAIN visited = 0 .. AM!Span - 1
        /\ \A v \in DOMAIN tasks : /\ tasks[v] = 1 /\ To(v) <= arrayLen
                                   /\ From(v) \in Nat /\ To(v) \in Nat /\ From(v) < To(v)
        /\ \A u, v \in DOMAIN tasks : u # v => Apart(u, v)
        /\ \A i \in DOMAIN visited : visited[i] = IF i < arrayLen /\ ~Waits(i) THEN 1 ELSE 0
    BY <1>2, <1>7, WordFact DEF ArrayInv, Covered
  <2>2. /\ \A v \in DOMAIN B : /\ B[v] = 1 /\ From(w) <= From(v) /\ To(v) <= mid
                               /\ From(v) \in Nat /\ To(v) \in Nat /\ From(v) < To(v)
        /\ \A u, v \in DOMAIN B : u # v => Apart(u, v)
        /\ \A i \in From(w) .. mid - 1 : \E v \in DOMAIN B : From(v) <= i /\ i < To(v)
    BY <1>3, WordFact DEF Tiles
  \* The other pieces keep away from the new ones.
  <2>3. \A u \in DOMAIN tasks \ {w} : \A v \in DOMAIN B : Apart(u, v) /\ Apart(v, u) /\ u # v
    BY <1>4, <2>1, <2>2 DEF Apart
  <2>4. /\ DOMAIN C = (DOMAIN tasks \ {w}) \cup DOMAIN B
        /\ \A v \in DOMAIN C : C[v] = 1
    <3>1. w \in DOMAIN tasks /\ DOMAIN B \cap (DOMAIN tasks \ {w}) = {}
      BY <2>3
    <3>2. (\A v \in DOMAIN tasks : tasks[v] = 1) /\ \A v \in DOMAIN B : B[v] = 1
      BY <2>1, <2>2
    <3> QED BY <3>1, <3>2, ReplacedOnce DEF C
  <2>5. \A v \in DOMAIN C : To(v) <= arrayLen
    BY <1>4, <2>1, <2>2, <2>4
  <2>6. \A u, v \in DOMAIN C : u # v => Apart(u, v)
    BY <2>1, <2>2, <2>3, <2>4
  <2>7. /\ DOMAIN visited' = DOMAIN visited
        /\ \A i \in DOMAIN visited : /\ mid <= i /\ i < To(w) => (visited[i] = 0 => visited'[i] = 1)
                                     /\ ~(mid <= i /\ i < To(w)) => visited'[i] = visited[i]
    <3>1. \A i \in DOMAIN visited : visited[i] \in {0, 1}
      BY <2>1
    <3>2. mid \in Int /\ To(w) \in Int
      BY <1>4
    <3> QED BY <3>1, <3>2, <1>5, VisitFact
  <2>8. ASSUME NEW i \in DOMAIN visited'
        PROVE  visited'[i] = IF i < arrayLen /\ ~Waits(i)' THEN 1 ELSE 0
    <3>1. i \in Nat /\ i \in DOMAIN visited
      BY <2>1, <2>7, <1>4
    <3>2. Waits(i)' <=> \E v \in DOMAIN C : From(v) <= i /\ i < To(v)
      BY <1>5 DEF Waits
    <3>3. CASE From(w) <= i /\ i < To(w)
      <4>1. Waits(i) /\ visited[i] = 0
        BY <3>1, <3>3, <2>1 DEF Waits
      <4>2. \A u \in DOMAIN tasks \ {w} : ~(From(u) <= i /\ i < To(u))
        BY <3>1, <3>3, <2>1, <1>4 DEF Apart
      <4>3. Waits(i)' <=> i < mid
        BY <3>1, <3>2, <3>3, <4>2, <2>2, <2>4, <1>4
      <4>4. i < arrayLen
        BY <3>1, <3>3, <2>1, <1>4
      <4> QED BY <4>1, <4>3, <4>4, <3>1, <3>3, <2>7, <1>4
    <3>4. CASE ~(From(w) <= i /\ i < To(w))
      <4>1. visited'[i] = visited[i]
        BY <3>1, <3>4, <2>7, <1>3, <1>4
      <4>2. \A v \in DOMAIN B : ~(From(v) <= i /\ i < To(v))
        BY <3>1, <3>4, <2>2, <1>4
      <4>3. Waits(i)' <=> Waits(i)
        BY <3>2, <3>4, <4>2, <2>4 DEF Waits
      <4> QED BY <4>1, <4>3, <3>1, <2>1
    <3> QED BY <3>3, <3>4
  <2> QED BY <1>2, <1>5, <2>1, <2>4, <2>5, <2>6, <2>7, <2>8 DEF Covered
<1>8. DOMAIN tasks' \subseteq Words
  BY <1>2, <1>3, <1>5, <1>6
<1> QED BY <1>2, <1>7, <1>8 DEF ArrayInv

(***************************************************************************)
(* ArraysMarkedOnce (do_chunked_array_start, do_chunked_array, MarkTask):  *)
(* for any array within the limit, any widths of the fields of a task word *)
(* and any order in which workers take the tasks, no element is visited    *)
(* twice or beyond the end, all are visited when no task is left, and a    *)
(* task always decodes to what was encoded.                                *)
(***************************************************************************)
THEOREM ArraysVisitedOnce == AM!Spec => []ArraysMarkedOnce
<1>1. AM!Init => ArrayInv
  BY InitArray
<1>2. ArrayInv /\ [AM!Next]_AM!vars => ArrayInv'
  <2> SUFFICES ASSUME ArrayInv, [AM!Next]_AM!vars PROVE ArrayInv'
    OBVIOUS
  <2>1. CASE AM!DoArrayStart
    BY <2>1, StartStep
  <2>2. CASE AM!DoChunkedArray
    BY <2>2, ChunkStep
  <2>3. CASE UNCHANGED AM!vars
    <3>1. UNCHANGED <<arrayLen, arrayStarted, tasks, visited>>
      BY <2>3 DEF AM!vars
    <3> QED BY <3>1 DEF ArrayInv, Covered, Waits
  <2> QED BY <2>1, <2>2, <2>3 DEF AM!Next
<1>3. ArrayInv => ArraysMarkedOnce
  <2> SUFFICES ASSUME ArrayInv PROVE ArraysMarkedOnce
    OBVIOUS
  <2>1. AM!TasksWhole
    <3> SUFFICES ASSUME NEW w \in DOMAIN tasks
                 PROVE  AM!Chunk(w) > 0 /\ w % 2 ^ OOP_BITS = 1 /\ AM!Pow(w) < AM!MaxPow
      BY DEF AM!TasksWhole, AM!BagToSet
    <3>1. AM!Chunk(w) \in ChunkNumbers /\ AM!Pow(w) \in Pows /\ w % 2 ^ OOP_BITS = 1
      BY WordFact DEF ArrayInv
    <3> QED BY <3>1, ArrayNumbers DEF ChunkNumbers, Pows
  <2>2. AM!ElementsOnce
    <3> SUFFICES ASSUME arrayLen <= AM!Limit
                 PROVE  /\ \A i \in DOMAIN visited : visited[i] <= IF i < arrayLen THEN 1 ELSE 0
                        /\ arrayStarted /\ tasks = AM!EmptyBag =>
                             \A i \in 0 .. arrayLen - 1 : visited[i] = 1
      BY DEF AM!ElementsOnce
    <3>1. /\ DOMAIN visited = 0 .. AM!Span - 1
          /\ \A i \in DOMAIN visited :
               visited[i] = IF arrayStarted /\ i < arrayLen /\ ~Waits(i) THEN 1 ELSE 0
      BY DEF ArrayInv, Covered
    <3>2. arrayLen \in Nat /\ AM!Span \in Nat /\ arrayLen <= AM!Span
      BY LengthFact DEF ArrayInv
    <3>3. \A i \in DOMAIN visited : visited[i] <= IF i < arrayLen THEN 1 ELSE 0
      BY <3>1
    <3>4. ASSUME arrayStarted, tasks = AM!EmptyBag, NEW i \in 0 .. arrayLen - 1
          PROVE  visited[i] = 1
      <4>1. ~Waits(i)
        BY <3>4 DEF Waits, AM!EmptyBag, AM!SetToBag
      <4>2. i \in DOMAIN visited /\ i < arrayLen
        BY <3>1, <3>2
      <4> QED BY <3>1, <3>4, <4>1, <4>2
    <3> QED BY <3>3, <3>4
  <2> QED BY <2>1, <2>2 DEF ArraysMarkedOnce
<1> QED BY <1>1, <1>2, <1>3, PTL DEF AM!Spec

-----------------------------------------------------------------------------
(***************************************************************************)
(* Sizes of the heap and the walk over its regions.                        *)
(***************************************************************************)
(* align_usize rounds up to a multiple, by less than the alignment. *)
LEMMA AlignFact ==
  ASSUME NEW v \in Nat, NEW n \in Nat \ {0}
  PROVE  /\ HS!align_usize(v, n) \in Nat
         /\ v <= HS!align_usize(v, n) /\ HS!align_usize(v, n) < v + n
         /\ \E q \in Nat : HS!align_usize(v, n) = n * q
<1> DEFINE w == v + n - 1
           q == w \div n
           r == w % n
<1>1. w \in Nat /\ q \in Nat /\ r \in 0 .. n - 1 /\ w = q * n + r
  BY DivFact
<1>2. HS!align_usize(v, n) = q * n
  BY DEF HS!align_usize
<1> HIDE DEF q, r
<1>3. q * n = n * q /\ n * q \in Nat
  BY <1>1
<1>4. v <= n * q /\ n * q < v + n
  BY <1>1, <1>3
<1> QED BY <1>1, <1>2, <1>3, <1>4

(* align_down rounds down. *)
LEMMA AlignDownFact ==
  ASSUME NEW v \in Nat, NEW n \in Nat \ {0}
  PROVE  HS!align_down(v, n) \in 0 .. v
BY DivFact DEF HS!align_down

(* The logarithm of a size within the bound. *)
LEMMA Log2Fact ==
  ASSUME NEW n \in Nat \ {0}, n < 2 ^ 30
  PROVE  /\ HS!Log2(n) \in 0 .. 29
         /\ 2 ^ HS!Log2(n) <= n /\ n < 2 ^ (HS!Log2(n) + 1)
<1> DEFINE T == {k \in 0 .. 29 : n < 2 ^ (k + 1)}
<1>1. T \subseteq Nat /\ T # {}
  <2>1. 29 \in 0 .. 29 /\ 29 + 1 = 30
    OBVIOUS
  <2>2. 29 \in T
    BY <2>1
  <2>3. T \subseteq Nat
    OBVIOUS
  <2> HIDE DEF T
  <2> QED BY <2>2, <2>3
<1>2. PICK k \in T : \A l \in T : k <= l
  <2> HIDE DEF T
  <2> QED BY <1>1, LeastNatural
<1>3. k \in 0 .. 29 /\ n < 2 ^ (k + 1)
  OBVIOUS
<1>4. 2 ^ k <= n
  <2>1. CASE k = 0
    BY <2>1, PowersOfTwo
  <2>2. CASE k # 0
    <3>1. k - 1 \in 0 .. 29 /\ (k - 1) + 1 = k /\ ~(k <= k - 1)
      BY <1>3, <2>2
    <3>2. ~(n < 2 ^ k)
      <4>1. k - 1 \notin T
        BY <1>2, <3>1
      <4> QED BY <3>1, <4>1
    <3>3. 2 ^ k \in Nat
      BY <1>3, PowersOfTwo
    <3> QED BY <3>2, <3>3
  <2> QED BY <2>1, <2>2
<1> QED BY <1>3, <1>4 DEF HS!Log2

(* What the arguments are: a number for each, region sizes within the bound. *)
Arguments ==
  {a \in [HS!Settings -> Nat] : a.region_size <= SizeBound /\ a.max_region_size <= SizeBound}

LEMMA ArgumentsFact ==
  ASSUME NEW a \in Arguments
  PROVE  /\ a.min_region_size \in Nat /\ a.max_region_size \in Nat /\ a.target_num_regions \in Nat
         /\ a.humongous_threshold \in Nat /\ a.region_size \in Nat /\ a.min_tlab_size \in Nat
         /\ a.tlab_size \in Nat /\ a.max_heap_size \in Nat /\ a.min_heap_size \in Nat
         /\ a.initial_heap_size \in Nat /\ a.min_ram \in Nat /\ a.max_ram \in Nat
         /\ a.initial_ram \in Nat /\ a.parallel_region_stride \in Nat
         /\ a.parallel_gc_threads \in Nat
         /\ a.region_size <= SizeBound /\ a.max_region_size <= SizeBound
BY DEF Arguments, HS!Settings, HS!Defaults

(* The page is one of the powers. *)
LEMMA PageFact ==
  /\ PageSize \in Nat \ {0} /\ 2048 <= PageSize
  /\ SizeBound \in Nat /\ SizeBound + PageSize = 2 ^ 30 /\ HS!MAX_REGION_SIZE <= SizeBound
<1>1. PICK n \in 0 .. 29 : PageSize = 2 ^ n
  BY SizesAssumption
<1>2. n \in 0 .. MaxPower /\ 30 \in 0 .. MaxPower
  BY <1>1, PowersOfTwo
<1>3. PageSize \in Nat \ {0}
  BY <1>1, <1>2, PowerPositive
<1>4. 2 ^ 30 \in Nat
  BY <1>2, PowerFact
<1>5. 2048 <= PageSize /\ HS!MAX_REGION_SIZE <= SizeBound
  BY SizesAssumption DEF HS!KB
<1>6. HS!MAX_REGION_SIZE \in Nat
  BY DEF HS!MAX_REGION_SIZE, HS!MB, HS!KB
<1>7. SizeBound \in Int /\ SizeBound + PageSize = 2 ^ 30
  BY <1>3, <1>4 DEF SizeBound
<1>8. SizeBound \in Nat
  BY <1>5, <1>6, <1>7
<1> QED BY <1>3, <1>5, <1>7, <1>8

(* The environment's sizes are such arguments. *)
LEMMA FromEnvFact ==
  ASSUME NEW env \in Environments
  PROVE  HS!from_env(env) \in Arguments
<1>1. /\ DOMAIN env \subseteq HS!Settings /\ env \in [DOMAIN env -> Nat]
      /\ \A s \in {"region_size", "max_region_size"} \cap DOMAIN env : env[s] <= SizeBound
  BY SizesAssumption
<1>2. /\ HS!Defaults \in [HS!Settings -> Nat] /\ HS!Defaults.region_size = 0
      /\ HS!Defaults.max_region_size = HS!MAX_REGION_SIZE
  <2>1. /\ PageSize \in Nat /\ 32 * HS!MB \in Nat /\ 2 * HS!KB \in Nat /\ 96 * HS!MB \in Nat
    BY PageFact DEF HS!MB, HS!KB
  <2> QED BY <2>1 DEF HS!Defaults, HS!Settings, HS!MAX_REGION_SIZE
<1> DEFINE a == HS!from_env(env)
<1>3. /\ a \in [HS!Settings -> Nat]
      /\ \A s \in HS!Settings : a[s] = IF s \in DOMAIN env THEN env[s] ELSE HS!Defaults[s]
  BY <1>1, <1>2 DEF HS!from_env
<1>4. "region_size" \in HS!Settings /\ "max_region_size" \in HS!Settings
  BY DEF HS!Settings, HS!Defaults
<1> HIDE DEF a
<1>5. a["region_size"] <= SizeBound /\ a["max_region_size"] <= SizeBound
  BY <1>1, <1>2, <1>3, <1>4, PageFact
<1> QED BY <1>3, <1>5 DEF Arguments, a

(* set_heap_size keeps its argument's type, and sizes that were given in order in order. *)
LEMMA SetHeapSizeFact ==
  ASSUME NEW a \in Arguments, NEW phys \in Nat
  PROVE  /\ HS!set_heap_size(a, phys) \in Arguments
         /\ (/\ a.initial_heap_size # 0 => a.min_heap_size <= a.initial_heap_size
             /\ a.max_heap_size # 96 * HS!MB =>
                  HS!most(a.initial_heap_size, a.min_heap_size) <= a.max_heap_size)
            => LET b == HS!set_heap_size(a, phys)
               IN  b.initial_heap_size <= b.max_heap_size /\ b.min_heap_size <= b.max_heap_size
<1> DEFINE max == HS!ReasonableMax(a, phys)
           min == HS!least(5 * HS!MB, max)
           share == HS!Share(phys, a.initial_ram)
           initial == HS!least(HS!most(HS!most(share, min), a.min_heap_size), max)
           b == HS!set_heap_size(a, phys)
<1>1. \A part_ \in Nat : HS!Share(phys, part_) \in Nat
  <2>1. phys \div 64 \in Nat
    BY DivFact
  <2> QED BY <2>1 DEF HS!Share
<1>2. 5 * HS!MB \in Nat /\ 96 * HS!MB \in Nat
  BY DEF HS!MB, HS!KB
<1>3. /\ max \in Nat
      /\ a.max_heap_size # 96 * HS!MB => max = a.max_heap_size
      /\ a.max_heap_size = 96 * HS!MB =>
           max >= IF a.initial_heap_size # 0 THEN a.initial_heap_size ELSE a.min_heap_size
  <2>1. HS!Share(phys, a.min_ram) \in Nat /\ HS!Share(phys, a.max_ram) \in Nat
    BY <1>1, ArgumentsFact
  <2> QED BY <2>1, <1>2, ArgumentsFact DEF HS!ReasonableMax, HS!most
<1>4. share \in Nat
  BY <1>1, ArgumentsFact
<1> HIDE DEF max, share
<1>5. min \in Nat /\ min <= max /\ initial \in Nat /\ initial <= max
  BY <1>2, <1>3, <1>4, ArgumentsFact DEF HS!least, HS!most
<1>6. b = [a EXCEPT !.max_heap_size = max,
                    !.initial_heap_size = IF @ = 0 THEN initial ELSE @,
                    !.min_heap_size = IF @ = 0 THEN min ELSE @]
  BY DEF HS!set_heap_size, max, share
<1> HIDE DEF min, initial, b
<1>7. {"max_heap_size", "initial_heap_size", "min_heap_size", "region_size", "max_region_size"}
        \subseteq HS!Settings
  BY DEF HS!Settings, HS!Defaults
<1>8. a \in [HS!Settings -> Nat]
  BY DEF Arguments
<1>9. /\ b \in [HS!Settings -> Nat]
      /\ b.max_heap_size = max /\ b.region_size = a.region_size
      /\ b.max_region_size = a.max_region_size
      /\ b.initial_heap_size = IF a.initial_heap_size = 0 THEN initial ELSE a.initial_heap_size
      /\ b.min_heap_size = IF a.min_heap_size = 0 THEN min ELSE a.min_heap_size
  BY <1>3, <1>5, <1>6, <1>7, <1>8
<1>10. b \in Arguments
  BY <1>9, ArgumentsFact DEF Arguments
<1>11. ASSUME a.initial_heap_size # 0 => a.min_heap_size <= a.initial_heap_size,
              a.max_heap_size # 96 * HS!MB =>
                HS!most(a.initial_heap_size, a.min_heap_size) <= a.max_heap_size
       PROVE  b.initial_heap_size <= b.max_heap_size /\ b.min_heap_size <= b.max_heap_size
  BY <1>2, <1>3, <1>5, <1>9, <1>11, ArgumentsFact DEF HS!most
<1> QED BY <1>10, <1>11 DEF b

(* The region size before the cut is at least a page and within the bound. *)
LEMMA PageRegionFact ==
  ASSUME NEW a \in Arguments
  PROVE  /\ HS!PageRegionSize(a) \in Nat \ {0} /\ PageSize <= HS!PageRegionSize(a)
         /\ HS!PageRegionSize(a) < 2 ^ 30
<1> DEFINE v == IF a.region_size # 0 THEN a.region_size
                ELSE HS!least(HS!MaxRegionSize(a),
                       HS!most(a.max_heap_size \div HS!TargetNumRegions(a), HS!MinRegionSize(a)))
<1>1. v \in Nat \ {0} /\ v <= SizeBound
  <2>1. a.max_heap_size \div HS!TargetNumRegions(a) \in Nat
    <3>1. HS!TargetNumRegions(a) \in Nat \ {0}
      BY ArgumentsFact DEF HS!TargetNumRegions
    <3> QED BY <3>1, ArgumentsFact, DivFact
  <2>2. HS!MinRegionSize(a) \in Nat \ {0}
    BY ArgumentsFact DEF HS!MinRegionSize, HS!MIN_REGION_SIZE, HS!KB, HS!most
  <2>3. HS!MaxRegionSize(a) \in Nat \ {0} /\ HS!MaxRegionSize(a) <= SizeBound
    <3>1. HS!MAX_REGION_SIZE \in Nat \ {0}
      BY DEF HS!MAX_REGION_SIZE, HS!MB, HS!KB
    <3> QED BY <3>1, ArgumentsFact, PageFact DEF HS!MaxRegionSize
  <2> QED BY <2>1, <2>2, <2>3, ArgumentsFact, PageFact DEF HS!least, HS!most
<1>2. HS!PageRegionSize(a) = HS!align_usize(v, PageSize)
  BY DEF HS!PageRegionSize
<1> HIDE DEF v
<1> DEFINE p == HS!align_usize(v, PageSize)
<1>3. p \in Nat /\ v <= p /\ p < v + PageSize /\ \E q \in Nat : p = PageSize * q
  <2>1. v \in Nat /\ PageSize \in Nat \ {0}
    BY <1>1, PageFact
  <2> QED BY <2>1, AlignFact
<1> HIDE DEF p
<1>4. PICK q \in Nat : p = PageSize * q
  BY <1>3
<1>5. q # 0
  BY <1>1, <1>3, <1>4, PageFact
<1>6. PageSize <= p
  <2>1. PICK d \in Nat : q = d + 1
    <3>1. q - 1 \in Nat /\ q = (q - 1) + 1
      BY <1>5
    <3> QED BY <3>1
  <2>2. p = PageSize + PageSize * d /\ PageSize * d \in Nat
    BY <1>4, <2>1, PageFact
  <2> QED BY <2>2, PageFact
<1>7. 2 ^ 30 \in Int
  BY PageFact
<1>8. p < 2 ^ 30
  <2>1. v + PageSize <= SizeBound + PageSize
    BY <1>1, PageFact
  <2> QED BY <1>1, <1>3, <1>7, <2>1, PageFact
<1> QED BY <1>1, <1>2, <1>3, <1>6, <1>8 DEF p

(* The size of a region is a power of two that the page divides. *)
LEMMA RegionSizeFact ==
  ASSUME NEW a \in Arguments, NEW shift, shift = HS!Log2(HS!PageRegionSize(a))
  PROVE  /\ shift \in 0 .. 29 /\ 2 ^ shift \in Nat \ {0}
         /\ PageSize <= 2 ^ shift /\ (2 ^ shift) % PageSize = 0
<1> DEFINE p == HS!PageRegionSize(a)
<1>1. p \in Nat \ {0} /\ PageSize <= p /\ p < 2 ^ 30
  BY PageRegionFact
<1> HIDE DEF p
<1>2. shift \in 0 .. 29 /\ 2 ^ shift <= p /\ p < 2 ^ (shift + 1)
  BY <1>1, Log2Fact DEF p
<1>3. PICK n \in 0 .. 29 : PageSize = 2 ^ n
  BY SizesAssumption
<1>4. n <= shift
  <2> SUFFICES ASSUME shift < n PROVE FALSE
    BY <1>2, <1>3
  <2>1. shift + 1 \in 0 .. MaxPower /\ n \in (shift + 1) .. MaxPower
    BY <1>2, <1>3, PowersOfTwo
  <2>2. 2 ^ (shift + 1) <= 2 ^ n /\ 2 ^ (shift + 1) \in Nat
    BY <2>1, PowerOrder, PowerFact
  <2> DEFINE s == 2 ^ (shift + 1)
  <2>3. s \in Nat /\ p < s /\ PageSize <= p /\ p \in Nat /\ s <= PageSize
    BY <1>1, <1>2, <1>3, <2>2
  <2> HIDE DEF s
  <2> QED BY <2>3, PageFact
<1>5. n \in 0 .. MaxPower /\ shift \in n .. MaxPower /\ shift \in 0 .. MaxPower
  BY <1>2, <1>3, <1>4, PowersOfTwo
<1>6. PICK q \in Nat \ {0} : 2 ^ shift = q * 2 ^ n
  BY <1>5, PowerDivides
<1> DEFINE r == 2 ^ shift
<1>7. r = PageSize * q + 0 /\ r \in Nat \ {0}
  <2>1. r \in Nat \ {0}
    BY <1>5, PowerPositive
  <2>2. r = q * PageSize
    BY <1>3, <1>6
  <2> HIDE DEF r
  <2> QED BY <2>1, <2>2, <1>6, PageFact
<1> HIDE DEF r
<1>8. 0 \in 0 .. PageSize - 1 /\ q \in Int
  BY PageFact
<1>9. r % PageSize = 0
  BY <1>7, <1>8, PageFact, DivUnique
<1>10. PageSize <= r
  BY <1>3, <1>5, PowerOrder DEF r
<1> QED BY <1>2, <1>7, <1>9, <1>10 DEF r

(* The regions tile a heap that is at least what was asked for. *)
LEMMA HeapSizeFact ==
  ASSUME NEW a \in Arguments, NEW r \in Nat \ {0}
  PROVE  LET m == HS!MaxHeapSize(a, r)
         IN  /\ m \in Nat /\ a.max_heap_size <= m
             /\ m \div r \in Nat /\ m = r * (m \div r)
<1> DEFINE m == HS!MaxHeapSize(a, r)
           w == HS!align_usize(a.max_heap_size, HS!PageRegionSize(a))
<1>1. w \in Nat /\ a.max_heap_size <= w
  BY ArgumentsFact, PageRegionFact, AlignFact
<1>2. m = HS!align_usize(w, r)
  BY DEF HS!MaxHeapSize
<1> HIDE DEF w, m
<1>3. m \in Nat /\ w <= m /\ \E q \in Nat : m = r * q
  BY <1>1, <1>2, AlignFact
<1>4. PICK q \in Nat : m = r * q
  BY <1>3
<1>5. m = r * q + 0 /\ 0 \in 0 .. r - 1 /\ q \in Int
  BY <1>4
<1>6. m \div r = q
  BY <1>5, DivUnique
<1>7. m \div r \in Nat /\ m = r * (m \div r)
  BY <1>4, <1>6
<1>8. a.max_heap_size <= m
  BY <1>1, <1>3, ArgumentsFact
<1> QED BY <1>3, <1>7, <1>8 DEF m

(* What the options are once setup_sizes did not panic: the regions tile the heap, a
   buffer fits in a region, and a stride is not 0 without reason. *)
OptionsOf(a, o) ==
  /\ o.region_size_bytes_shift \in 0 .. 29 /\ o.region_size_bytes = 2 ^ o.region_size_bytes_shift
  /\ o.region_size_bytes \in Nat \ {0} /\ o.region_size_bytes % PageSize = 0
  /\ o.region_count \in Nat /\ o.max_heap_size = o.region_size_bytes * o.region_count
  /\ a.max_heap_size <= o.max_heap_size
  /\ a.humongous_threshold <= 100 => o.humongous_threshold_bytes <= o.region_size_bytes
  /\ o.tlab_size <= o.humongous_threshold_bytes
  /\ o.max_tlab_size <= HS!most(a.min_tlab_size, o.region_size_bytes)
  /\ o.parallel_region_stride \in Nat /\ o.parallel_gc_threads \in Nat
  /\ o.parallel_gc_threads \in 1 .. o.region_count => o.parallel_region_stride > 0

(* The humongous threshold is at most the region, if it is a percentage of it. *)
LEMMA ThresholdFact ==
  ASSUME NEW a \in Arguments, NEW r \in Nat \ {0}
  PROVE  /\ HS!HumongousThreshold(a, r) \in Nat
         /\ a.humongous_threshold <= 100 => HS!HumongousThreshold(a, r) <= r
<1> DEFINE percent == IF a.humongous_threshold = 0 THEN 100 ELSE a.humongous_threshold
           words == r \div 8
           part_ == (words * percent) \div 100
           even == HS!align_down(part_, 8)
<1>1. percent \in Nat /\ (a.humongous_threshold <= 100 => percent <= 100)
  BY ArgumentsFact
<1>2. words \in Nat /\ 8 * words <= r
  <2>1. words \in Nat /\ r % 8 \in 0 .. 7 /\ r = words * 8 + (r % 8)
    BY DivFact
  <2> QED BY <2>1
<1>3. HS!HumongousThreshold(a, r) = 8 * even
  BY DEF HS!HumongousThreshold, HS!WORD
<1> HIDE DEF percent, words
<1>4. words * percent \in Nat
  BY <1>1, <1>2
<1>5. part_ \in Nat
  BY <1>4, DivFact
<1>6. ASSUME percent <= 100 PROVE part_ <= words
  <2>1. words * percent <= words * 100
    <3>1. PICK d \in Nat : 100 = percent + d
      <4>1. 100 - percent \in Nat /\ 100 = percent + (100 - percent)
        BY <1>1, <1>6
      <4> QED BY <4>1
    <3>2. words * 100 = words * percent + words * d /\ words * d \in Nat
      BY <1>1, <1>2, <3>1
    <3> QED BY <1>4, <3>2
  <2>2. words * 100 = 100 * words + 0 /\ 0 \in 0 .. 99
    BY <1>2
  <2>3. (100 * words + 0) \div 100 = words
    BY <1>2, <2>2, DivUnique
  <2>4. words * 100 \in Nat /\ (words * 100) \div 100 = words
    BY <1>2, <2>2, <2>3
  <2> QED BY <1>4, <2>1, <2>4, DivOrder
<1> HIDE DEF part_
<1>7. even \in 0 .. part_
  BY <1>5, AlignDownFact
<1> HIDE DEF even
<1>8. 8 * even \in Nat /\ (a.humongous_threshold <= 100 => 8 * even <= r)
  BY <1>1, <1>2, <1>5, <1>6, <1>7
<1> QED BY <1>3, <1>8

(* setup_sizes makes such options. *)
LEMMA SetupFact ==
  ASSUME NEW a \in Arguments, ~(HS!PerThread(a) /\ a.parallel_gc_threads = 0)
  PROVE  OptionsOf(a, HS!setup_sizes(a))
<1> DEFINE shift == HS!Log2(HS!PageRegionSize(a))
           r == 2 ^ shift
           m == HS!MaxHeapSize(a, r)
           count == m \div r
           limit == HS!HumongousThreshold(a, r)
           stride == IF HS!PerThread(a) THEN count \div a.parallel_gc_threads
                     ELSE a.parallel_region_stride
           o == HS!setup_sizes(a)
<1>1. /\ o.region_count = count /\ o.region_size_bytes = r /\ o.region_size_bytes_shift = shift
      /\ o.max_heap_size = m /\ o.humongous_threshold_bytes = limit
      /\ o.max_tlab_size = HS!most(HS!MinTlabSize(a), HS!least(r \div 8, limit))
      /\ o.tlab_size = HS!least(a.tlab_size, limit)
      /\ o.parallel_gc_threads = a.parallel_gc_threads
      /\ o.parallel_region_stride = stride
  BY DEF HS!setup_sizes, HS!TrimTlab
<1>2. shift \in 0 .. 29 /\ r \in Nat \ {0} /\ PageSize <= r /\ r % PageSize = 0
  BY RegionSizeFact
<1> HIDE DEF shift, o
<1>3. o.region_size_bytes = 2 ^ o.region_size_bytes_shift
  BY <1>1
<1> HIDE DEF r
<1>4. m \in Nat /\ a.max_heap_size <= m /\ count \in Nat /\ m = r * count
  BY <1>2, HeapSizeFact
<1> HIDE DEF m, count
<1>5. limit \in Nat /\ (a.humongous_threshold <= 100 => limit <= r)
  BY <1>2, ThresholdFact
<1> HIDE DEF limit
<1>6. HS!least(a.tlab_size, limit) <= limit
  BY <1>5, ArgumentsFact DEF HS!least
<1>7. HS!most(HS!MinTlabSize(a), HS!least(r \div 8, limit)) <= HS!most(a.min_tlab_size, r)
  <2>1. r \div 8 \in Nat /\ r \div 8 <= r
    BY <1>2, DivFact, DivLess
  <2>2. HS!MinTlabSize(a) <= HS!most(a.min_tlab_size, r)
    BY <1>2, ArgumentsFact, PageFact DEF HS!MinTlabSize, HS!most, HS!KB
  <2> DEFINE eighth == r \div 8
  <2>3. eighth \in Nat /\ eighth <= r
    BY <2>1
  <2> HIDE DEF eighth
  <2>4. HS!most(HS!MinTlabSize(a), HS!least(eighth, limit)) <= HS!most(a.min_tlab_size, r)
    BY <1>2, <1>5, <2>2, <2>3, ArgumentsFact DEF HS!most, HS!least
  <2> QED BY <2>4 DEF eighth
<1>8. /\ stride \in Nat
      /\ a.parallel_gc_threads \in 1 .. count => stride > 0
  <2>1. CASE HS!PerThread(a)
    <3>1. a.parallel_gc_threads \in Nat \ {0}
      BY <2>1, ArgumentsFact
    <3>2. count \div a.parallel_gc_threads \in Nat
      BY <1>4, <3>1, DivFact
    <3>3. ASSUME a.parallel_gc_threads <= count PROVE count \div a.parallel_gc_threads > 0
      <4> DEFINE t == a.parallel_gc_threads
                 q == count \div t
                 s == count % t
      <4>1. q \in Nat /\ s \in 0 .. t - 1 /\ count = q * t + s
        BY <1>4, <3>1, DivFact
      <4>2. t \in Nat \ {0} /\ t <= count
        BY <3>1, <3>3
      <4> HIDE DEF t, q, s
      <4>3. q # 0
        BY <4>1, <4>2
      <4>4. q > 0
        BY <4>1, <4>3
      <4> QED BY <4>4 DEF q, t
    <3> QED BY <2>1, <3>1, <3>2, <3>3, <1>4
  <2>2. CASE ~HS!PerThread(a)
    BY <2>2, ArgumentsFact DEF HS!PerThread
  <2> QED BY <2>1, <2>2
<1> HIDE DEF stride
<1>9. a.parallel_gc_threads \in Nat
  BY ArgumentsFact
<1> QED BY <1>1, <1>2, <1>3, <1>4, <1>5, <1>6, <1>7, <1>8, <1>9 DEF OptionsOf, o

(* Positive factors keep the order. *)
LEMMA TimesOrder ==
  ASSUME NEW i \in Int, NEW n \in Int, NEW r \in Nat \ {0}
  PROVE  i < n <=> i * r < n * r
<1>1. ASSUME NEW j \in Int, NEW k \in Int, j < k PROVE j * r < k * r
  <2>1. PICK d \in Nat : k = j + 1 + d
    <3>1. k - (j + 1) \in Nat /\ k = j + 1 + (k - (j + 1))
      BY <1>1
    <3> QED BY <3>1
  <2>2. k * r = j * r + r + d * r /\ d * r \in Nat /\ j * r \in Int
    BY <2>1
  <2> QED BY <2>2
<1>2. i < n => i * r < n * r
  BY <1>1
<1>3. n < i => n * r < i * r
  BY <1>1
<1>4. i * r \in Int /\ n * r \in Int
  OBVIOUS
<1> QED BY <1>2, <1>3, <1>4

SetUp == {"options", "running", "walking", "walked"}

(* The chunks lie apart and cover the regions up to a limit. *)
Chunks == queued \cup walked

Walk(limit) ==
  /\ Chunks \subseteq Nat \X Nat
  /\ \A c \in Chunks : c[2] <= opts.region_count /\ c[2] <= limit
  /\ \A c, d \in Chunks : c # d => c[2] <= d[1] \/ d[2] <= c[1]
  /\ \A i \in 0 .. opts.region_count - 1 : i < limit => \E c \in Chunks : c[1] <= i /\ i < c[2]

WalkInv ==
  /\ index \in Nat
  /\ stage \notin {"walking", "walked"} => index = 0 /\ queued = {} /\ walked = {}
  /\ stage = "walking" => opts.parallel_gc_threads # 0 /\ Walk(index)
  /\ stage = "walked" => queued = {} /\ Walk(opts.region_count)

LayoutInv ==
  stage \in {"running", "walking", "walked"} =>
    /\ layout.num_commited \in 0 .. opts.region_count
    /\ layout.initial_size = layout.num_commited * opts.region_size_bytes
    /\ layout.decommited = opts.max_heap_size - layout.initial_size

SizeInv ==
  /\ args \in Arguments /\ (stage = "arguments" => args = environment)
  /\ HS!SizesOrdered
  /\ stage \in SetUp => OptionsOf(args, opts)
  /\ LayoutInv
  /\ WalkInv

(* A process starts with the arguments of its environment. *)
LEMMA InitSizes == HS!Init => SizeInv
BY FromEnvFact DEF HS!Init, SizeInv, SetUp, LayoutInv, WalkInv, HS!SizesOrdered

(* set_heap_size makes the three sizes of the heap agree. *)
LEMMA SetHeapSizeStep == SizeInv /\ HS!SetHeapSize => SizeInv'
<1> SUFFICES ASSUME SizeInv, HS!SetHeapSize PROVE SizeInv'
  OBVIOUS
<1>1. PICK phys \in PhysMem : args' = HS!set_heap_size(args, phys)
  BY DEF HS!SetHeapSize
<1>2. /\ stage = "arguments" /\ stage' = "sized" /\ args = environment /\ args \in Arguments
      /\ environment' = environment
      /\ UNCHANGED <<opts, layout, index, queued, walked>>
  BY DEF SizeInv, HS!SetHeapSize
<1>3. phys \in Nat
  BY SizesAssumption
<1>4. args' \in Arguments
  BY <1>1, <1>2, <1>3, SetHeapSizeFact
<1>5. HS!SizesOrdered'
  BY <1>1, <1>2, <1>3, SetHeapSizeFact DEF HS!SizesOrdered
<1>6. LayoutInv' /\ WalkInv'
  BY <1>2 DEF SizeInv, LayoutInv, WalkInv
<1> QED BY <1>2, <1>4, <1>5, <1>6 DEF SizeInv, SetUp

(* setup_sizes gives up or yields options that agree with the arguments. *)
LEMMA SetupStep == SizeInv /\ (HS!SetupPanics \/ HS!SetupSizes) => SizeInv'
<1> SUFFICES ASSUME SizeInv, HS!SetupPanics \/ HS!SetupSizes PROVE SizeInv'
  OBVIOUS
<1>1. /\ stage = "sized" /\ stage' \in {"panic", "options"}
      /\ UNCHANGED <<args, environment, layout, index, queued, walked>>
      /\ stage' = "options" => /\ opts' = HS!setup_sizes(args)
                               /\ ~(HS!PerThread(args) /\ args.parallel_gc_threads = 0)
  BY DEF HS!SetupPanics, HS!SetupSizes
<1>2. args' \in Arguments /\ HS!SizesOrdered'
  BY <1>1 DEF SizeInv, HS!SizesOrdered
<1>3. stage' \in SetUp => OptionsOf(args, opts)'
  <2>1. ASSUME stage' = "options" PROVE OptionsOf(args, opts')
    BY <1>1, <2>1, SetupFact DEF SizeInv
  <2>2. args' = args
    BY <1>1
  <2> QED BY <1>1, <2>1, <2>2 DEF SetUp, OptionsOf
<1>4. LayoutInv' /\ WalkInv'
  BY <1>1 DEF SizeInv, LayoutInv, WalkInv
<1> QED BY <1>1, <1>2, <1>3, <1>4 DEF SizeInv

(* Heap::new commits the first regions and gives back the others. *)
LEMMA NewHeapStep == SizeInv /\ HS!NewHeap => SizeInv'
<1> SUFFICES ASSUME SizeInv, HS!NewHeap PROVE SizeInv'
  OBVIOUS
<1> DEFINE num == HS!NumCommited(args, opts)
<1>1. /\ stage = "options" /\ stage' = "running"
      /\ UNCHANGED <<args, environment, opts, index, queued, walked>>
      /\ layout'.num_commited = num /\ layout'.initial_size = num * opts.region_size_bytes
      /\ layout'.decommited = opts.max_heap_size - num * opts.region_size_bytes
  BY DEF HS!NewHeap
<1>2. args \in Arguments /\ OptionsOf(args, opts)
  BY <1>1 DEF SizeInv, SetUp
<1>3. num \in 0 .. opts.region_count
  <2>1. args.initial_heap_size \div opts.region_size_bytes \in Nat
    BY <1>2, ArgumentsFact, DivFact DEF OptionsOf
  <2> QED BY <1>2, <2>1 DEF OptionsOf, HS!NumCommited, HS!least
<1> HIDE DEF num
<1>4. LayoutInv' /\ WalkInv'
  BY <1>1, <1>3 DEF SizeInv, LayoutInv, WalkInv
<1>5. OptionsOf(args, opts)' /\ HS!SizesOrdered'
  BY <1>1, <1>2 DEF OptionsOf, SizeInv, HS!SizesOrdered
<1> QED BY <1>1, <1>2, <1>4, <1>5 DEF SizeInv

(* A walk without chunks is one chunk. *)
LEMMA IterateStep == SizeInv /\ HS!parallel_heap_region_iterate => WalkInv'
<1> SUFFICES ASSUME SizeInv, HS!parallel_heap_region_iterate PROVE WalkInv'
  OBVIOUS
<1>1. /\ stage = "running" /\ UNCHANGED <<opts, index, queued>>
      /\ index = 0 /\ queued = {} /\ walked = {}
  BY DEF SizeInv, WalkInv, HS!parallel_heap_region_iterate, HS!heap_region_iterate
<1>2. opts.region_count \in Nat
  BY <1>1 DEF SizeInv, SetUp, OptionsOf
<1>3. CASE stage' = "walking" /\ walked' = walked /\ opts.parallel_gc_threads # 0
  BY <1>1, <1>3 DEF WalkInv, Walk, Chunks
<1>4. CASE stage' = "walked" /\ walked' = {<<0, opts.region_count>>}
  <2>1. Chunks' = {<<0, opts.region_count>>} /\ opts' = opts
    BY <1>1, <1>4 DEF Chunks
  <2>2. Walk(opts.region_count)'
    BY <1>2, <2>1 DEF Walk
  <2> QED BY <1>1, <1>4, <2>2 DEF WalkInv
<1> QED BY <1>3, <1>4 DEF HS!parallel_heap_region_iterate, HS!heap_region_iterate

(* The next chunk begins where all others end. *)
LEMMA ExecuteStep == SizeInv /\ HS!Execute => WalkInv'
<1> SUFFICES ASSUME SizeInv, HS!Execute PROVE WalkInv'
  OBVIOUS
<1> DEFINE count == opts.region_count
           stride == opts.parallel_region_stride
           end == HS!ChunkEnd(index, stride, count)
<1>1. /\ stage = "walking" /\ stage' = stage /\ index < count /\ index' = index + stride
      /\ queued' = queued \cup {<<index, end>>} /\ walked' = walked /\ opts' = opts
  BY DEF HS!Execute
<1>2. index \in Nat /\ count \in Nat /\ stride \in Nat
  BY <1>1 DEF SizeInv, WalkInv, SetUp, OptionsOf
<1>3. opts.parallel_gc_threads # 0 /\ Walk(index)
  BY <1>1 DEF SizeInv, WalkInv
<1>4. /\ end \in Nat /\ end <= count /\ end <= index + stride /\ index <= end
      /\ \A i \in 0 .. count - 1 : index <= i /\ i < index + stride => i < end
  BY <1>1, <1>2 DEF HS!ChunkEnd, HS!least
<1> HIDE DEF end
<1> DEFINE new == <<index, end>>
<1>5. Chunks' = Chunks \cup {new} /\ new \in Nat \X Nat /\ new[1] = index /\ new[2] = end
  BY <1>1, <1>2, <1>4 DEF Chunks
<1> HIDE DEF new
<1>6. /\ \A c \in Chunks : c[1] \in Nat /\ c[2] \in Nat /\ c[2] <= count /\ c[2] <= index
      /\ \A c, d \in Chunks : c # d => c[2] <= d[1] \/ d[2] <= c[1]
      /\ \A i \in 0 .. count - 1 : i < index => \E c \in Chunks : c[1] <= i /\ i < c[2]
  BY <1>3 DEF Walk
<1>7. Walk(index)'
  <2>1. (Chunks \subseteq Nat \X Nat)'
    BY <1>3, <1>5 DEF Walk
  <2>2. \A c \in Chunks' : c[2] <= count /\ c[2] <= index + stride
    BY <1>2, <1>4, <1>5, <1>6
  <2>3. \A c, d \in Chunks' : c # d => c[2] <= d[1] \/ d[2] <= c[1]
    BY <1>5, <1>6
  <2>4. ASSUME NEW i \in 0 .. count - 1, i < index + stride
        PROVE  \E c \in Chunks' : c[1] <= i /\ i < c[2]
    <3>1. CASE i < index
      BY <1>5, <1>6, <3>1
    <3>2. CASE ~(i < index)
      <4>1. new[1] <= i /\ i < new[2] /\ new \in Chunks'
        BY <1>2, <1>4, <1>5, <2>4, <3>2
      <4> QED BY <4>1
    <3> QED BY <3>1, <3>2
  <2> QED BY <1>1, <2>1, <2>2, <2>3, <2>4 DEF Walk
<1> QED BY <1>1, <1>2, <1>3, <1>7 DEF WalkInv

(* Running a chunk only moves it from the queue to what was visited. *)
LEMMA ChunkSteps == SizeInv /\ (HS!RunChunk \/ HS!ScopeEnds) => WalkInv'
<1> SUFFICES ASSUME SizeInv, HS!RunChunk \/ HS!ScopeEnds PROVE WalkInv'
  OBVIOUS
<1>1. /\ stage = "walking" /\ UNCHANGED <<opts, index>>
      /\ index \in Nat /\ opts.region_count \in Nat
      /\ opts.parallel_gc_threads # 0 /\ Walk(index)
  BY DEF SizeInv, WalkInv, SetUp, OptionsOf, HS!RunChunk, HS!ScopeEnds
<1>2. CASE HS!RunChunk
  <2>1. Chunks' = Chunks
    BY <1>2 DEF HS!RunChunk, Chunks
  <2> QED BY <1>1, <1>2, <2>1 DEF WalkInv, Walk, HS!RunChunk
<1>3. CASE HS!ScopeEnds
  <2>1. /\ index >= opts.region_count /\ queued = {} /\ stage' = "walked"
        /\ UNCHANGED <<queued, walked>>
    BY <1>3 DEF HS!ScopeEnds
  <2>2. Chunks' = Chunks
    BY <2>1 DEF Chunks
  <2>3. Walk(opts.region_count)'
    BY <1>1, <2>1, <2>2 DEF Walk
  <2> QED BY <1>1, <2>1, <2>3 DEF WalkInv
<1> QED BY <1>2, <1>3

(* Every step keeps the invariant. *)
LEMMA NextSizes == SizeInv /\ [HS!Next]_sizeVars => SizeInv'
<1> SUFFICES ASSUME SizeInv, [HS!Next]_sizeVars PROVE SizeInv'
  OBVIOUS
<1>1. CASE HS!SetHeapSize \/ HS!SetupPanics \/ HS!SetupSizes \/ HS!NewHeap
  BY <1>1, SetHeapSizeStep, SetupStep, NewHeapStep
<1>2. CASE HS!parallel_heap_region_iterate \/ HS!Execute \/ HS!RunChunk \/ HS!ScopeEnds
  <2>1. WalkInv'
    BY <1>2, IterateStep, ExecuteStep, ChunkSteps
  <2>2. /\ UNCHANGED <<args, environment, opts, layout>>
        /\ stage \in {"running", "walking"} /\ stage' \in {"walking", "walked"}
    BY <1>2 DEF HS!parallel_heap_region_iterate, HS!heap_region_iterate, HS!Execute, HS!RunChunk,
                HS!ScopeEnds
  <2>3. LayoutInv' /\ OptionsOf(args, opts)'
    BY <2>2 DEF SizeInv, LayoutInv, SetUp, OptionsOf
  <2> QED BY <2>1, <2>2, <2>3 DEF SizeInv, HS!SizesOrdered
<1>3. CASE UNCHANGED sizeVars
  BY <1>3 DEF sizeVars, SizeInv, SetUp, LayoutInv, WalkInv, Walk, Chunks, OptionsOf, HS!SizesOrdered
<1> QED BY <1>1, <1>2, <1>3 DEF HS!Next

(* The last byte of the heap lies in the last region. *)
LEMMA GeometryFact == SizeInv => HS!GeometryAgrees
<1> SUFFICES ASSUME SizeInv, stage \in SetUp
             PROVE  /\ opts.max_heap_size >= args.max_heap_size
                    /\ HS!region_index(opts, opts.max_heap_size - 1) = opts.region_count - 1
                    /\ HS!region_index(opts, opts.max_heap_size) = opts.region_count
                    /\ opts.region_size_bytes % PageSize = 0
  BY DEF HS!GeometryAgrees, SetUp
<1> DEFINE r == opts.region_size_bytes
           n == opts.region_count
           m == opts.max_heap_size
<1>1. /\ r \in Nat \ {0} /\ r = 2 ^ opts.region_size_bytes_shift /\ n \in Nat /\ m = r * n
      /\ args.max_heap_size <= m /\ r % PageSize = 0 /\ args.max_heap_size \in Nat
  BY ArgumentsFact DEF SizeInv, OptionsOf
<1> HIDE DEF r, n, m
<1>2. m \div r = n
  <2>1. 0 \in 0 .. r - 1 /\ m = r * n + 0
    BY <1>1
  <2> QED BY <1>1, <2>1, DivUnique
<1>3. (m - 1) \div r = n - 1
  <2> DEFINE k == n - 1
             e == r - 1
  <2>1. k \in Int /\ e \in 0 .. r - 1 /\ n = k + 1 /\ r = e + 1
    BY <1>1
  <2>2. (r * k + e) \div r = k
    BY <1>1, <2>1, DivUnique
  <2> HIDE DEF k, e
  <2>3. r * n = r * k + r
    BY <1>1, <2>1
  <2>4. r * k \in Int
    BY <1>1, <2>1
  <2>5. m - 1 = r * k + e
    BY <1>1, <2>1, <2>3, <2>4
  <2> QED BY <2>2, <2>5 DEF k
<1>4. HS!region_index(opts, m - 1) = n - 1 /\ HS!region_index(opts, m) = n
  BY <1>1, <1>2, <1>3 DEF HS!region_index
<1>5. m >= args.max_heap_size
  BY <1>1
<1> QED BY <1>1, <1>4, <1>5 DEF r, n, m

(* A region is committed when it lies below the committed size. *)
LEMMA CommittedFact == SizeInv => HS!CommittedFits
<1> SUFFICES ASSUME SizeInv, stage \in {"running", "walking", "walked"}
             PROVE  /\ layout.num_commited <= opts.region_count
                    /\ layout.initial_size + layout.decommited = opts.max_heap_size
                    /\ \A i \in {0, layout.num_commited, opts.region_count - 1} :
                         i < opts.region_count =>
                         (i < layout.num_commited <=> i * opts.region_size_bytes < layout.initial_size)
  BY DEF HS!CommittedFits
<1> DEFINE r == opts.region_size_bytes
           n == opts.region_count
           m == opts.max_heap_size
           num == layout.num_commited
           initial == layout.initial_size
           gone == layout.decommited
<1>1. r \in Nat \ {0} /\ n \in Nat /\ m = r * n
  BY DEF SizeInv, SetUp, OptionsOf
<1>2. num \in 0 .. n /\ initial = num * r /\ gone = m - initial
  BY DEF SizeInv, LayoutInv
<1> HIDE DEF r, n, m, num, initial, gone
<1>3. initial \in Int /\ m \in Int
  BY <1>1, <1>2
<1>4. num <= n /\ initial + gone = m
  BY <1>1, <1>2, <1>3
<1>5. \A i \in Int : i < num <=> i * r < initial
  BY <1>1, <1>2, TimesOrder
<1>6. 0 \in Int /\ num \in Int /\ n - 1 \in Int
  BY <1>1, <1>2
<1> QED BY <1>4, <1>5, <1>6 DEF r, n, m, num, initial, gone

(* Chunks that are apart and reach the end cover every region once. *)
LEMMA WalkFact == SizeInv => HS!WalksOnce
<1> SUFFICES ASSUME SizeInv PROVE HS!WalksOnce
  OBVIOUS
<1>1. CASE stage \notin {"walking", "walked"}
  <2>1. queued \cup walked = {}
    BY <1>1 DEF SizeInv, WalkInv
  <2> QED BY <1>1, <2>1 DEF HS!WalksOnce
<1>2. ASSUME stage \in {"walking", "walked"}, NEW limit, Walk(limit)
      PROVE  LET chunks == queued \cup walked
             IN  /\ \A c \in chunks : 0 <= c[1] /\ c[2] <= opts.region_count
                 /\ \A c, d \in chunks : c # d => c[2] <= d[1] \/ d[2] <= c[1]
  BY <1>2 DEF Walk, Chunks
<1>3. CASE stage = "walking"
  <2>1. Walk(index) /\ OptionsOf(args, opts) /\ opts.parallel_gc_threads # 0
    BY <1>3 DEF SizeInv, WalkInv, SetUp
  <2>2. opts.parallel_gc_threads <= opts.region_count => opts.parallel_region_stride > 0
    BY <2>1 DEF OptionsOf
  <2> QED BY <1>2, <1>3, <2>1, <2>2 DEF HS!WalksOnce
<1>4. CASE stage = "walked"
  <2>1. queued = {} /\ Walk(opts.region_count) /\ opts.region_count \in Nat
    BY <1>4 DEF SizeInv, WalkInv, SetUp, OptionsOf
  <2>2. UNION {c[1] .. c[2] - 1 : c \in walked} = 0 .. opts.region_count - 1
    <3>1. Chunks = walked
      BY <2>1 DEF Chunks
    <3>2. ASSUME NEW c \in walked, NEW i \in c[1] .. c[2] - 1
          PROVE  i \in 0 .. opts.region_count - 1
      <4>1. c[1] \in Nat /\ c[2] \in Nat /\ c[2] <= opts.region_count
        BY <2>1, <3>1 DEF Walk
      <4> QED BY <2>1, <4>1
    <3>3. ASSUME NEW i \in 0 .. opts.region_count - 1
          PROVE  \E c \in walked : i \in c[1] .. c[2] - 1
      <4>1. i < opts.region_count
        BY <2>1
      <4>2. PICK c \in walked : c[1] <= i /\ i < c[2]
        BY <2>1, <3>1, <4>1 DEF Walk
      <4>3. c[1] \in Nat /\ c[2] \in Nat
        BY <2>1, <3>1 DEF Walk
      <4> QED BY <4>2, <4>3
    <3> QED BY <3>2, <3>3
  <2> QED BY <1>2, <1>4, <2>1, <2>2 DEF HS!WalksOnce
<1> QED BY <1>1, <1>3, <1>4

(***************************************************************************)
(* For any page size, physical memory and environment within the bound: a  *)
(* heap whose sizes were given in order has them in order, the regions     *)
(* tile it and are whole pages, buffers and the objects that are not       *)
(* humongous fit in one, what is committed is the first regions, and the   *)
(* parallel walk visits each region once and always advances when there    *)
(* are no more threads than regions.                                       *)
(***************************************************************************)
THEOREM SizesHold == HS!Spec => []SizesAgree
<1>1. HS!Init => SizeInv
  BY InitSizes
<1>2. SizeInv /\ [HS!Next]_(HS!vars) => SizeInv'
  BY NextSizes DEF HS!vars, sizeVars
<1>3. SizeInv => SizesAgree
  <2>1. SizeInv => HS!SizesOrdered /\ HS!TlabsFit
    BY DEF SizeInv, SetUp, OptionsOf, HS!TlabsFit
  <2> QED BY <2>1, GeometryFact, CommittedFact, WalkFact DEF SizesAgree
<1> QED BY <1>1, <1>2, <1>3, PTL DEF HS!Spec

-----------------------------------------------------------------------------
(***************************************************************************)
(* The growable array.                                                     *)
(***************************************************************************)
(* Counting up: what holds at a and goes from each number to the next holds up to b. *)
LEMMA CountUp ==
  ASSUME NEW a \in Nat, NEW b \in Nat, a <= b,
         NEW S, a \in S, \A i \in a + 1 .. b : i - 1 \in S => i \in S
  PROVE  \A i \in a .. b : i \in S
<1> DEFINE T == {k \in a .. b : k \notin S}
<1>1. SUFFICES ASSUME T # {} PROVE FALSE
  OBVIOUS
<1>2. PICK k \in T : \A n \in T : k <= n
  <2>1. T \subseteq Nat
    OBVIOUS
  <2> HIDE DEF T
  <2> QED BY <1>1, <2>1, LeastNatural
<1>3. k \in a .. b /\ k \notin S /\ k # a
  OBVIOUS
<1>4. k - 1 \in a .. b /\ k \in a + 1 .. b /\ ~(k <= k - 1)
  BY <1>3
<1>5. k - 1 \notin T
  BY <1>2, <1>4
<1> QED BY <1>3, <1>4, <1>5

(* The rounds of a loop from a to b, `step' being one round. *)
Steps(f, a, b, first, step) ==
  f = [i \in a .. b |-> IF i = a THEN first ELSE step[<<i, f[i - 1]>>]]

(* A loop has a result. *)
LEMMA StepsExist ==
  ASSUME NEW a \in Nat, NEW b \in Nat, a <= b, NEW first, NEW step
  PROVE  \E f : Steps(f, a, b, first, step)
<1> DEFINE S == {k \in a .. b : \E f : Steps(f, a, k, first, step)}
<1>1. a \in S
  <2> DEFINE f == [i \in a .. a |-> first]
  <2>1. Steps(f, a, a, first, step)
    BY DEF Steps
  <2> HIDE DEF f
  <2> QED BY <2>1
<1>2. ASSUME NEW k \in a + 1 .. b, k - 1 \in S PROVE k \in S
  <2>1. PICK w : Steps(w, a, k - 1, first, step)
    BY <1>2
  <2> DEFINE h == [i \in a .. k |-> IF i = k THEN step[<<k, w[k - 1]>>] ELSE w[i]]
  <2>2. ASSUME NEW i \in a .. k PROVE h[i] = IF i = a THEN first ELSE step[<<i, h[i - 1]>>]
    <3>1. CASE i = k
      <4>1. i # a /\ k - 1 \in a .. k /\ k - 1 # k
        BY <3>1
      <4>2. h[i] = step[<<k, w[k - 1]>>] /\ h[i - 1] = w[k - 1]
        BY <3>1, <4>1
      <4> QED BY <3>1, <4>1, <4>2
    <3>2. CASE i # k
      <4>1. i \in a .. k - 1
        BY <3>2
      <4>2. w[i] = IF i = a THEN first ELSE step[<<i, w[i - 1]>>]
        BY <2>1, <4>1 DEF Steps
      <4>3. i # a => i - 1 \in a .. k /\ i - 1 # k
        BY <4>1
      <4>4. h[i] = w[i] /\ (i # a => h[i - 1] = w[i - 1])
        BY <3>2, <4>3
      <4> HIDE DEF h
      <4> QED BY <4>2, <4>4
    <3> QED BY <3>1, <3>2
  <2>3. h = [i \in a .. k |-> h[i]]
    OBVIOUS
  <2> HIDE DEF h
  <2>4. Steps(h, a, k, first, step)
    BY <2>2, <2>3 DEF Steps
  <2> QED BY <2>4
<1> HIDE DEF S
<1>3. \A i \in a .. b : i \in S
  BY <1>1, <1>2, CountUp
<1>4. b \in S
  BY <1>3
<1> QED BY <1>4 DEF S

(* If each round leads from X[i - 1] to X[i], then whatever goes on by `step' as long as it has
   that property keeps it, and the loop has a result with it. *)
LEMMA LoopKeeps ==
  ASSUME NEW a \in Nat, NEW b \in Nat, a <= b, NEW step, NEW X, NEW g, g[a] \in X[a],
         \A i \in a + 1 .. b : \A x \in X[i - 1] : step[<<i, x>>] \in X[i],
         \A i \in a + 1 .. b : g[i - 1] \in X[i - 1] => g[i] = step[<<i, g[i - 1]>>]
  PROVE  \A i \in a .. b : g[i] \in X[i]
<1> DEFINE S == {i \in a .. b : g[i] \in X[i]}
<1>1. a \in S
  OBVIOUS
<1>2. ASSUME NEW i \in a + 1 .. b, i - 1 \in S PROVE i \in S
  <2>1. g[i - 1] \in X[i - 1]
    BY <1>2
  <2>2. g[i] = step[<<i, g[i - 1]>>] /\ step[<<i, g[i - 1]>>] \in X[i]
    BY <2>1
  <2> QED BY <2>2
<1> HIDE DEF S
<1>3. \A i \in a .. b : i \in S
  BY <1>1, <1>2, CountUp
<1> QED BY <1>3 DEF S

LEMMA LoopExists ==
  ASSUME NEW a \in Nat, NEW b \in Nat, a <= b, NEW first, NEW step, NEW X, first \in X[a],
         \A i \in a + 1 .. b : \A x \in X[i - 1] : step[<<i, x>>] \in X[i]
  PROVE  \E f : Steps(f, a, b, first, step) /\ \A i \in a .. b : f[i] \in X[i]
<1>1. PICK f : Steps(f, a, b, first, step)
  BY StepsExist
<1>2. \A i \in a .. b : f[i] = IF i = a THEN first ELSE step[<<i, f[i - 1]>>]
  BY <1>1 DEF Steps
<1>3. f[a] \in X[a]
  <2>1. a \in a .. b
    OBVIOUS
  <2> QED BY <1>2, <2>1
<1>4. \A i \in a + 1 .. b : f[i - 1] \in X[i - 1] => f[i] = step[<<i, f[i - 1]>>]
  <2> SUFFICES ASSUME NEW i \in a + 1 .. b PROVE f[i] = step[<<i, f[i - 1]>>]
    OBVIOUS
  <2>1. i \in a .. b /\ i # a
    OBVIOUS
  <2> QED BY <1>2, <2>1
<1>5. \A i \in a .. b : f[i] \in X[i]
  BY <1>3, <1>4, LoopKeeps, Zenon
<1> QED BY <1>1, <1>5

Buffers == Seq(Elements \cup {Uninit})
Lists == [buf : Buffers, len : Nat]

(* An array list l holds the sequence s. *)
Holds(l, s) ==
  /\ l \in Lists /\ s \in Seq(Elements)
  /\ l.len = Len(s) /\ l.len <= Len(l.buf)
  /\ \A i \in 1 .. l.len : l.buf[i] = s[i]

(* A buffer given cell by cell. *)
LEMMA BufferFact ==
  ASSUME NEW n \in Nat, NEW b \in [1 .. n -> Elements \cup {Uninit}]
  PROVE  b \in Buffers /\ Len(b) = n
BY DEF Buffers

LEMMA BufferCells ==
  ASSUME NEW b \in Buffers
  PROVE  Len(b) \in Nat /\ DOMAIN b = 1 .. Len(b) /\ b \in [1 .. Len(b) -> Elements \cup {Uninit}]
BY DEF Buffers

LEMMA HoldsFact ==
  ASSUME NEW l, NEW s, Holds(l, s)
  PROVE  /\ l.buf \in Buffers /\ l.len \in Nat /\ l = [buf |-> l.buf, len |-> l.len]
         /\ Len(l.buf) \in Nat /\ l.len = Len(s) /\ l.len \in 0 .. Len(l.buf)
         /\ DOMAIN l.buf = 1 .. Len(l.buf) /\ l.buf \in [1 .. Len(l.buf) -> Elements \cup {Uninit}]
         /\ s \in Seq(Elements) /\ Len(s) \in Nat /\ s \in [1 .. Len(s) -> Elements]
         /\ \A i \in 1 .. l.len : l.buf[i] = s[i]
         /\ SubSeq(l.buf, 1, l.len) = s
         /\ Uninit \notin {l.buf[i] : i \in 1 .. l.len}
<1>1. /\ l \in Lists /\ s \in Seq(Elements) /\ l.len = Len(s) /\ l.len <= Len(l.buf)
      /\ \A i \in 1 .. l.len : l.buf[i] = s[i]
  BY DEF Holds
<1>2. l.buf \in Buffers /\ l.len \in Nat /\ l = [buf |-> l.buf, len |-> l.len]
  BY <1>1 DEF Lists
<1>3. /\ Len(l.buf) \in Nat /\ DOMAIN l.buf = 1 .. Len(l.buf)
      /\ l.buf \in [1 .. Len(l.buf) -> Elements \cup {Uninit}]
  BY <1>2, BufferCells
<1>4. Len(s) \in Nat /\ s \in [1 .. Len(s) -> Elements]
  BY <1>1
<1>5. SubSeq(l.buf, 1, l.len) = s
  <2> DEFINE t == SubSeq(l.buf, 1, l.len)
  <2>1. t \in Buffers /\ Len(t) = l.len /\ \A i \in 1 .. l.len : t[i] = l.buf[i]
    BY <1>1, <1>2, <1>3 DEF Buffers
  <2>2. s \in Buffers
    BY <1>1 DEF Buffers
  <2>3. Len(t) = Len(s) /\ \A i \in 1 .. Len(s) : t[i] = s[i]
    BY <1>1, <2>1
  <2> HIDE DEF t
  <2>4. t = s
    BY <2>1, <2>2, <2>3, SeqEqual DEF Buffers
  <2> QED BY <2>4 DEF t
<1>6. Uninit \notin {l.buf[i] : i \in 1 .. l.len}
  <2>1. \A i \in 1 .. l.len : l.buf[i] \in Elements
    BY <1>1, <1>4
  <2> QED BY <2>1, ListAssumption
<1> QED BY <1>1, <1>2, <1>3, <1>4, <1>5, <1>6

(* A list whose first cells are s holds s. *)
LEMMA HoldsIf ==
  ASSUME NEW n \in Nat, NEW b \in [1 .. n -> Elements \cup {Uninit}], NEW s \in Seq(Elements),
         Len(s) <= n, \A i \in 1 .. Len(s) : b[i] = s[i], NEW k, k = Len(s)
  PROVE  Holds([buf |-> b, len |-> k], s) /\ Len(b) = n
<1>1. b \in Buffers /\ Len(b) = n
  BY BufferFact
<1> QED BY <1>1 DEF Holds, Lists

(* grow copies the list. *)
LEMMA GrowFact ==
  ASSUME NEW l, NEW s, Holds(l, s), NEW cap \in Nat, l.len <= cap
  PROVE  Holds(AL!Grow(l, cap), s) /\ Len(AL!Grow(l, cap).buf) = cap
<1>1. CASE cap = Len(l.buf)
  BY <1>1 DEF AL!Grow
<1>2. CASE cap # Len(l.buf)
  <2> DEFINE b == [i \in 1 .. cap |-> IF i <= l.len THEN l.buf[i] ELSE Uninit]
  <2>1. AL!Grow(l, cap) = [buf |-> b, len |-> l.len]
    <3>1. l = [buf |-> l.buf, len |-> l.len]
      BY HoldsFact
    <3>2. AL!Grow(l, cap) = [l EXCEPT !.buf = b]
      BY <1>2, Zenon DEF AL!Grow
    <3> HIDE DEF b
    <3>3. [l EXCEPT !.buf = b] = [buf |-> b, len |-> l.len]
      BY <3>1
    <3> QED BY <3>2, <3>3
  <2>2. b \in [1 .. cap -> Elements \cup {Uninit}]
    BY HoldsFact
  <2>3. \A i \in 1 .. Len(s) : b[i] = s[i]
    BY HoldsFact
  <2>4. s \in Seq(Elements) /\ l.len = Len(s)
    BY HoldsFact
  <2> HIDE DEF b
  <2> QED BY <2>1, <2>2, <2>3, <2>4, HoldsIf
<1> QED BY <1>1, <1>2

LEMMA NextCapacityFact ==
  ASSUME NEW cap \in Nat
  PROVE  AL!NextCapacity(cap) \in Nat /\ AL!NextCapacity(cap) >= cap + 1
BY ListAssumption DEF AL!NextCapacity

(* push. *)
LEMMA PushedFact ==
  ASSUME NEW l, NEW s, Holds(l, s), NEW v \in Elements
  PROVE  Holds(AL!Pushed(l, v), Append(s, v)) /\ Len(AL!Pushed(l, v).buf) >= Len(l.buf)
<1> DEFINE g == IF l.len = Len(l.buf) THEN AL!Grow(l, AL!NextCapacity(Len(l.buf))) ELSE l
           b == [g.buf EXCEPT ![l.len + 1] = v]
<1>1. Holds(g, s) /\ Len(g.buf) >= Len(l.buf) /\ Len(g.buf) >= l.len + 1
  <2>1. Len(l.buf) \in Nat /\ l.len \in 0 .. Len(l.buf)
    BY HoldsFact
  <2> DEFINE cap == AL!NextCapacity(Len(l.buf))
  <2>2. cap \in Nat /\ cap >= Len(l.buf) + 1
    BY <2>1, NextCapacityFact
  <2> HIDE DEF cap
  <2>3. l.len <= cap
    BY <2>1, <2>2
  <2>4. Holds(AL!Grow(l, cap), s) /\ Len(AL!Grow(l, cap).buf) = cap
    BY <2>2, <2>3, GrowFact
  <2> QED BY <2>1, <2>2, <2>4 DEF cap
<1>2. AL!Pushed(l, v) = [buf |-> b, len |-> l.len + 1]
  BY Zenon DEF AL!Pushed
<1> HIDE DEF g
<1>3. /\ g.buf \in [1 .. Len(g.buf) -> Elements \cup {Uninit}] /\ Len(g.buf) \in Nat
      /\ \A i \in 1 .. Len(s) : g.buf[i] = s[i]
  BY <1>1, HoldsFact
<1>4. s \in Seq(Elements) /\ l.len = Len(s) /\ Len(s) \in Nat
  BY HoldsFact
<1> DEFINE t == Append(s, v)
<1>5. t \in Seq(Elements) /\ Len(t) = Len(s) + 1 /\ t[Len(s) + 1] = v /\ \A i \in 1 .. Len(s) : t[i] = s[i]
  BY <1>4
<1> HIDE DEF t
<1>6. b \in [1 .. Len(g.buf) -> Elements \cup {Uninit}]
  BY <1>3
<1>7. \A i \in 1 .. Len(t) : b[i] = t[i]
  BY <1>1, <1>3, <1>4, <1>5
<1>8. Len(t) <= Len(g.buf) /\ l.len + 1 = Len(t)
  BY <1>1, <1>4, <1>5
<1> HIDE DEF b
<1>9. Holds([buf |-> b, len |-> l.len + 1], t) /\ Len(b) = Len(g.buf)
  BY <1>3, <1>5, <1>6, <1>7, <1>8, HoldsIf
<1> QED BY <1>1, <1>2, <1>9 DEF t

(* truncate. *)
LEMMA TruncatedFact ==
  ASSUME NEW l, NEW s, Holds(l, s), NEW n \in Nat
  PROVE  /\ Holds(AL!Truncated(l, n), SubSeq(s, 1, IF n < Len(s) THEN n ELSE Len(s)))
         /\ AL!Truncated(l, n).buf = l.buf
<1>1. /\ l = [buf |-> l.buf, len |-> l.len] /\ l.len = Len(s) /\ Len(s) \in Nat /\ s \in Seq(Elements)
      /\ Len(l.buf) \in Nat /\ l.buf \in [1 .. Len(l.buf) -> Elements \cup {Uninit}]
      /\ l.len \in 0 .. Len(l.buf) /\ \A i \in 1 .. l.len : l.buf[i] = s[i]
  BY HoldsFact
<1>2. CASE n >= l.len
  <2>1. SubSeq(s, 1, Len(s)) = s
    BY <1>1
  <2>2. (IF n < Len(s) THEN n ELSE Len(s)) = Len(s)
    BY <1>1, <1>2
  <2>3. AL!Truncated(l, n) = l
    BY <1>2, Zenon DEF AL!Truncated
  <2> QED BY <2>1, <2>2, <2>3, Zenon
<1>3. CASE ~(n >= l.len)
  <2> DEFINE t == SubSeq(s, 1, n)
  <2>1. t \in Seq(Elements) /\ Len(t) = n /\ \A i \in 1 .. n : t[i] = s[i]
    BY <1>1, <1>3
  <2>2. AL!Truncated(l, n) = [buf |-> l.buf, len |-> n]
    <3>1. AL!Truncated(l, n) = [l EXCEPT !.len = n]
      BY <1>3, Zenon DEF AL!Truncated
    <3> QED BY <1>1, <3>1
  <2> HIDE DEF t
  <2>3. \A i \in 1 .. Len(t) : l.buf[i] = t[i]
    BY <1>1, <1>3, <2>1
  <2>4. Len(t) <= Len(l.buf) /\ n = Len(t) /\ n < Len(s)
    BY <1>1, <1>3, <2>1
  <2>5. Holds([buf |-> l.buf, len |-> n], t)
    BY <1>1, <2>1, <2>3, <2>4, HoldsIf
  <2>6. (IF n < Len(s) THEN n ELSE Len(s)) = n
    BY <2>4
  <2>7. AL!Truncated(l, n).buf = l.buf
    BY <2>2
  <2>8. Holds(AL!Truncated(l, n), SubSeq(s, 1, n))
    BY <2>2, <2>5 DEF t
  <2> QED BY <2>6, <2>7, <2>8, Zenon
<1> QED BY <1>2, <1>3

(* A sequence without the element at idx, counted from 0. *)
Without(s, idx) == SubSeq(s, 1, idx) \o SubSeq(s, idx + 2, Len(s))

LEMMA WithoutFact ==
  ASSUME NEW s \in Seq(Elements), NEW idx \in 0 .. Len(s) - 1
  PROVE  /\ Without(s, idx) \in Seq(Elements) /\ Len(Without(s, idx)) = Len(s) - 1
         /\ \A i \in 1 .. Len(s) - 1 : Without(s, idx)[i] = IF i <= idx THEN s[i] ELSE s[i + 1]
<1> DEFINE n == Len(s)
           p == SubSeq(s, 1, idx)
           q == SubSeq(s, idx + 2, n)
           m == n - (idx + 1)
<1>0. n \in Nat /\ idx \in 0 .. n /\ m \in Nat
  OBVIOUS
<1>1. /\ p \in Seq(Elements) /\ Len(p) = idx /\ \A i \in 1 .. idx : p[i] = s[i]
      /\ q \in Seq(Elements) /\ Len(q) = m /\ \A i \in 1 .. m : q[i] = s[i + (idx + 1)]
  OBVIOUS
<1>2. Without(s, idx) = p \o q
  BY DEF Without
<1> HIDE DEF p, q
<1>3. /\ p \o q \in Seq(Elements) /\ Len(p \o q) = Len(p) + Len(q)
      /\ \A i \in 1 .. Len(p) + Len(q) : (p \o q)[i] = IF i <= Len(p) THEN p[i] ELSE q[i - Len(p)]
  BY <1>1, ConcatProperties
<1>4. Len(p) + Len(q) = n - 1
  BY <1>0, <1>1
<1>5. ASSUME NEW i \in 1 .. n - 1 PROVE (p \o q)[i] = IF i <= idx THEN s[i] ELSE s[i + 1]
  <2>1. CASE i <= idx
    <3>1. i \in 1 .. idx
      BY <1>0, <2>1
    <3> QED BY <1>1, <1>3, <1>4, <2>1, <3>1
  <2>2. CASE ~(i <= idx)
    <3>1. i - idx \in 1 .. m /\ (i - idx) + (idx + 1) = i + 1
      BY <1>0, <2>2
    <3>2. (p \o q)[i] = q[i - idx]
      BY <1>1, <1>3, <1>4, <2>2
    <3>3. q[i - idx] = s[(i - idx) + (idx + 1)]
      BY <1>1, <3>1
    <3> QED BY <2>2, <3>1, <3>2, <3>3
  <2> QED BY <2>1, <2>2
<1>6. Len(p \o q) = n - 1
  BY <1>3, <1>4
<1> QED BY <1>2, <1>3, <1>5, <1>6

(* remove: the cells up to the position and behind the list stay. *)
LEMMA RemovedCells ==
  ASSUME NEW l \in Lists, NEW idx \in Nat, idx < l.len, l.len <= Len(l.buf)
  PROVE  /\ AL!Removed(l, idx) \in Lists /\ AL!Removed(l, idx).len = l.len - 1
         /\ Len(AL!Removed(l, idx).buf) = Len(l.buf)
         /\ \A i \in 1 .. Len(l.buf) :
              AL!Removed(l, idx).buf[i] = IF i > idx /\ i < l.len THEN l.buf[i + 1] ELSE l.buf[i]
<1> DEFINE b == [i \in DOMAIN l.buf |-> IF i > idx /\ i < l.len THEN l.buf[i + 1] ELSE l.buf[i]]
<1>1. l.buf \in Buffers /\ l.len \in Nat
  BY DEF Lists
<1>2. Len(l.buf) \in Nat /\ DOMAIN l.buf = 1 .. Len(l.buf) /\ l.buf \in [1 .. Len(l.buf) -> Elements \cup {Uninit}]
  BY <1>1, BufferCells
<1>3. b \in [1 .. Len(l.buf) -> Elements \cup {Uninit}]
  BY <1>1, <1>2
<1>4. b \in Buffers /\ Len(b) = Len(l.buf)
  BY <1>2, <1>3, BufferFact
<1>5. AL!Removed(l, idx) = [buf |-> b, len |-> l.len - 1]
  BY Zenon DEF AL!Removed
<1>6. \A i \in 1 .. Len(l.buf) : b[i] = IF i > idx /\ i < l.len THEN l.buf[i + 1] ELSE l.buf[i]
  BY <1>2
<1>7. l.len - 1 \in Nat
  BY <1>1
<1> HIDE DEF b
<1> QED BY <1>4, <1>5, <1>6, <1>7 DEF Lists

LEMMA RemovedFact ==
  ASSUME NEW l, NEW s, Holds(l, s), NEW idx \in Nat, idx < l.len
  PROVE  /\ Holds(AL!Removed(l, idx), Without(s, idx))
         /\ Len(AL!Removed(l, idx).buf) = Len(l.buf)
<1>1. /\ l \in Lists /\ l.len = Len(s) /\ Len(s) \in Nat /\ s \in Seq(Elements)
      /\ Len(l.buf) \in Nat /\ l.len \in 0 .. Len(l.buf) /\ \A i \in 1 .. l.len : l.buf[i] = s[i]
  BY HoldsFact DEF Holds
<1> DEFINE m == AL!Removed(l, idx)
           t == Without(s, idx)
<1>2. /\ m \in Lists /\ m.len = l.len - 1 /\ Len(m.buf) = Len(l.buf)
      /\ \A i \in 1 .. Len(l.buf) :
              m.buf[i] = IF i > idx /\ i < l.len THEN l.buf[i + 1] ELSE l.buf[i]
  BY <1>1, RemovedCells
<1>3. /\ t \in Seq(Elements) /\ Len(t) = Len(s) - 1
      /\ \A i \in 1 .. Len(s) - 1 : t[i] = IF i <= idx THEN s[i] ELSE s[i + 1]
  <2>1. idx \in 0 .. Len(s) - 1
    BY <1>1
  <2> QED BY <1>1, <2>1, WithoutFact
<1> HIDE DEF m, t
<1>4. ASSUME NEW i \in 1 .. m.len PROVE m.buf[i] = t[i]
  <2>1. i \in 1 .. Len(l.buf) /\ i \in 1 .. Len(s) - 1 /\ i \in 1 .. l.len /\ i + 1 \in 1 .. l.len
    BY <1>1, <1>2
  <2> QED BY <1>1, <1>2, <1>3, <2>1
<1>5. m.len = Len(t) /\ m.len <= Len(m.buf)
  BY <1>1, <1>2, <1>3
<1>6. Holds(m, t)
  BY <1>2, <1>3, <1>4, <1>5 DEF Holds
<1> QED BY <1>2, <1>6 DEF m, t

(* reverse_in_place. *)
Backwards(s) == [i \in DOMAIN s |-> s[Len(s) + 1 - i]]

LEMMA ReversedFact ==
  ASSUME NEW l, NEW s, Holds(l, s)
  PROVE  /\ Holds(AL!Reversed(l), Backwards(s))
         /\ Len(AL!Reversed(l).buf) = Len(l.buf)
<1>1. /\ l = [buf |-> l.buf, len |-> l.len] /\ l.len = Len(s) /\ Len(s) \in Nat /\ s \in Seq(Elements)
      /\ Len(l.buf) \in Nat /\ l.len \in 0 .. Len(l.buf) /\ \A i \in 1 .. l.len : l.buf[i] = s[i]
      /\ DOMAIN l.buf = 1 .. Len(l.buf) /\ l.buf \in [1 .. Len(l.buf) -> Elements \cup {Uninit}]
  BY HoldsFact
<1> DEFINE b == [i \in DOMAIN l.buf |-> IF i <= l.len THEN l.buf[l.len + 1 - i] ELSE l.buf[i]]
           t == Backwards(s)
<1>2. AL!Reversed(l) = [l EXCEPT !.buf = b]
  BY Zenon DEF AL!Reversed
<1>3. b \in [1 .. Len(l.buf) -> Elements \cup {Uninit}]
  BY <1>1
<1>4. t = [i \in 1 .. Len(s) |-> s[Len(s) + 1 - i]]
  BY <1>1 DEF Backwards
<1>5. t \in [1 .. Len(s) -> Elements]
  BY <1>1, <1>4
<1>6. t \in Seq(Elements) /\ Len(t) = Len(s)
  BY <1>1, <1>5
<1>7. ASSUME NEW i \in 1 .. Len(s) PROVE b[i] = t[i]
  <2>1. l.len + 1 - i \in 1 .. l.len /\ Len(s) + 1 - i = l.len + 1 - i /\ i \in 1 .. Len(l.buf)
    BY <1>1
  <2>2. b[i] = l.buf[l.len + 1 - i] /\ t[i] = s[l.len + 1 - i]
    BY <1>1, <1>4, <2>1
  <2> QED BY <1>1, <2>1, <2>2
<1> HIDE DEF b, t
<1>8. AL!Reversed(l) = [buf |-> b, len |-> l.len]
  BY <1>1, <1>2
<1>9. Holds([buf |-> b, len |-> l.len], t) /\ Len(b) = Len(l.buf)
  <2>1. Len(t) <= Len(l.buf) /\ l.len = Len(t) /\ \A i \in 1 .. Len(t) : b[i] = t[i]
    BY <1>1, <1>6, <1>7
  <2> QED BY <1>1, <1>3, <1>6, <2>1, HoldsIf
<1> QED BY <1>8, <1>9 DEF t

(* The capacities that try_reserve goes through. *)
Capacity(l, f) ==
  f = [i \in 0 .. MaxLen |-> IF i = 0 THEN AL!NextCapacity(Len(l.buf)) ELSE AL!NextCapacity(f[i - 1])]

LEMMA CapacityExists ==
  ASSUME NEW l, Len(l.buf) \in Nat
  PROVE  \E cap : Capacity(l, cap)
<1> DEFINE first == AL!NextCapacity(Len(l.buf))
           step == [p \in (1 .. MaxLen) \X Nat |-> AL!NextCapacity(p[2])]
           X == [i \in 0 .. MaxLen |-> Nat]
<1>1. MaxLen \in Nat /\ 0 \in Nat /\ 0 <= MaxLen
  BY ListAssumption
<1>2. \A i \in 1 .. MaxLen, x \in Nat : step[<<i, x>>] = AL!NextCapacity(x)
  OBVIOUS
<1>3. \A i \in 0 .. MaxLen : X[i] = Nat
  OBVIOUS
<1>4. first \in Nat
  BY NextCapacityFact
<1> HIDE DEF first, step, X
<1>5. first \in X[0]
  BY <1>1, <1>3, <1>4
<1>6. \A i \in 0 + 1 .. MaxLen : \A x \in X[i - 1] : step[<<i, x>>] = AL!NextCapacity(x) /\ step[<<i, x>>] \in X[i]
  <2> SUFFICES ASSUME NEW i \in 0 + 1 .. MaxLen, NEW x \in X[i - 1]
               PROVE  step[<<i, x>>] = AL!NextCapacity(x) /\ step[<<i, x>>] \in X[i]
    OBVIOUS
  <2>1. i \in 1 .. MaxLen /\ i - 1 \in 0 .. MaxLen /\ i \in 0 .. MaxLen
    BY <1>1
  <2>2. x \in Nat
    BY <1>3, <2>1
  <2> QED BY <1>2, <1>3, <2>1, <2>2, NextCapacityFact
<1>7. PICK f : Steps(f, 0, MaxLen, first, step) /\ \A i \in 0 .. MaxLen : f[i] \in X[i]
  BY <1>1, <1>5, <1>6, LoopExists
<1>8. ASSUME NEW i \in 0 .. MaxLen
      PROVE  (IF i = 0 THEN first ELSE step[<<i, f[i - 1]>>])
               = IF i = 0 THEN first ELSE AL!NextCapacity(f[i - 1])
  <2>1. i # 0 => i \in 0 + 1 .. MaxLen /\ i - 1 \in 0 .. MaxLen
    BY <1>1
  <2> QED BY <1>6, <1>7, <2>1
<1>9. f = [i \in 0 .. MaxLen |-> IF i = 0 THEN first ELSE AL!NextCapacity(f[i - 1])]
  BY <1>7, <1>8 DEF Steps
<1>10. Capacity(l, f)
  BY <1>9 DEF Capacity, first
<1> QED BY <1>10

LEMMA CapacityFact ==
  ASSUME NEW l, Len(l.buf) \in Nat, NEW cap, Capacity(l, cap)
  PROVE  \A i \in 0 .. MaxLen : cap[i] \in Nat /\ cap[i] >= Len(l.buf) + i + 1
<1> DEFINE S == {i \in 0 .. MaxLen : cap[i] \in Nat /\ cap[i] >= Len(l.buf) + i + 1}
<1>1. MaxLen \in Nat /\ 0 \in Nat /\ 0 <= MaxLen
  BY ListAssumption
<1>2. \A i \in 0 .. MaxLen : cap[i] = IF i = 0 THEN AL!NextCapacity(Len(l.buf)) ELSE AL!NextCapacity(cap[i - 1])
  BY Zenon DEF Capacity
<1>3. 0 \in S
  <2>1. 0 \in 0 .. MaxLen
    BY <1>1
  <2>2. cap[0] = AL!NextCapacity(Len(l.buf))
    BY <1>2, <2>1
  <2>3. cap[0] \in Nat /\ cap[0] >= Len(l.buf) + 1
    BY <2>2, NextCapacityFact
  <2> QED BY <2>1, <2>3
<1>4. ASSUME NEW i \in 0 + 1 .. MaxLen, i - 1 \in S PROVE i \in S
  <2>1. i \in 0 .. MaxLen /\ i # 0 /\ i \in Nat
    BY <1>1
  <2>2. cap[i - 1] \in Nat /\ cap[i - 1] >= Len(l.buf) + (i - 1) + 1
    BY <1>4
  <2>3. cap[i] = AL!NextCapacity(cap[i - 1])
    BY <1>2, <2>1
  <2>4. cap[i] \in Nat /\ cap[i] >= cap[i - 1] + 1
    BY <2>2, <2>3, NextCapacityFact
  <2> QED BY <2>1, <2>2, <2>4
<1> HIDE DEF S
<1>5. \A i \in 0 .. MaxLen : i \in S
  BY <1>1, <1>3, <1>4, CountUp
<1> QED BY <1>5 DEF S

(* try_reserve. *)
LEMMA ReservedFact ==
  ASSUME NEW l, NEW s, Holds(l, s), NEW n \in Nat, l.len + n <= MaxLen
  PROVE  /\ Holds(AL!Reserved(l, n), s)
         /\ Len(AL!Reserved(l, n).buf) \in Nat /\ Len(AL!Reserved(l, n).buf) >= Len(l.buf)
         /\ Len(AL!Reserved(l, n).buf) >= l.len + n
<1>1. Len(l.buf) \in Nat /\ l.len \in 0 .. Len(l.buf)
  BY HoldsFact
<1>2. CASE l.len + n <= Len(l.buf)
  BY <1>1, <1>2 DEF AL!Reserved
<1>3. CASE ~(l.len + n <= Len(l.buf))
  <2> DEFINE cap == CHOOSE f : Capacity(l, f)
             enough == {i \in 0 .. MaxLen : cap[i] >= l.len + n}
             k == CHOOSE i \in enough : \A j \in enough : i <= j
  <2>2. AL!Reserved(l, n) = AL!Grow(l, cap[k])
    BY <1>3, Zenon DEF AL!Reserved, Capacity
  <2>1. Capacity(l, cap)
    BY <1>1, CapacityExists
  <2> HIDE DEF cap
  <2>3. \A i \in 0 .. MaxLen : cap[i] \in Nat /\ cap[i] >= Len(l.buf) + i + 1
    BY <1>1, <2>1, CapacityFact
  <2>4. MaxLen \in enough
    BY <1>1, <2>3, ListAssumption
  <2>5. k \in enough
    <3>1. enough \subseteq Nat /\ enough # {}
      BY <2>4
    <3> HIDE DEF enough
    <3>2. \E i \in enough : \A j \in enough : i <= j
      BY <3>1, LeastNatural
    <3> QED BY <3>2
  <2> HIDE DEF k
  <2>6. cap[k] \in Nat /\ cap[k] >= l.len + n /\ cap[k] >= Len(l.buf)
    <3>1. k \in 0 .. MaxLen /\ cap[k] >= l.len + n
      BY <2>5
    <3> QED BY <1>1, <2>3, <3>1
  <2>7. l.len <= cap[k]
    BY <1>1, <2>6
  <2>8. Holds(AL!Grow(l, cap[k]), s) /\ Len(AL!Grow(l, cap[k]).buf) = cap[k]
    BY <2>6, <2>7, GrowFact
  <2> QED BY <2>2, <2>6, <2>8
<1> QED BY <1>2, <1>3

(* The pushes of resize, and the sequence with v up to position i. *)
Pushes(f, l, v, a, b) == f = [i \in a .. b |-> IF i = a THEN l ELSE AL!Pushed(f[i - 1], v)]
Filled(s, v, i) == [j \in 1 .. i |-> IF j <= Len(s) THEN s[j] ELSE v]

LEMMA FilledFact ==
  ASSUME NEW s \in Seq(Elements), NEW v \in Elements, NEW i \in Nat, Len(s) < i
  PROVE  Filled(s, v, i) = Append(Filled(s, v, i - 1), v)
<1>1. Len(s) \in Nat /\ s \in [1 .. Len(s) -> Elements] /\ i - 1 \in Nat
  BY SMT
<1> DEFINE p == Filled(s, v, i - 1)
           q == Filled(s, v, i)
<1>2. p \in [1 .. i - 1 -> Elements] /\ q \in [1 .. i -> Elements]
  BY <1>1 DEF Filled
<1>3. p \in Seq(Elements) /\ Len(p) = i - 1 /\ q \in Seq(Elements) /\ Len(q) = i
  BY <1>1, <1>2
<1>4. \A j \in 1 .. i - 1 : q[j] = p[j]
  BY <1>1 DEF Filled
<1>5. q[i] = v
  BY <1>1 DEF Filled
<1> HIDE DEF p, q
<1> DEFINE t == Append(p, v)
<1>6. t \in Seq(Elements) /\ Len(t) = i /\ t[i] = v /\ \A j \in 1 .. i - 1 : t[j] = p[j]
  BY <1>1, <1>3
<1>7. \A j \in 1 .. i : q[j] = t[j]
  BY <1>4, <1>5, <1>6
<1> HIDE DEF t
<1>8. q = t
  BY <1>3, <1>6, <1>7, SeqEqual
<1> QED BY <1>8 DEF p, q, t

(* Each push adds one v. *)
LEMMA PushRound ==
  ASSUME NEW s \in Seq(Elements), NEW v \in Elements, NEW i \in Nat, Len(s) < i,
         NEW x, Holds(x, Filled(s, v, i - 1))
  PROVE  Holds(AL!Pushed(x, v), Filled(s, v, i)) /\ Len(AL!Pushed(x, v).buf) >= Len(x.buf)
BY PushedFact, FilledFact

LEMMA PushesExist ==
  ASSUME NEW l, NEW s, Holds(l, s), NEW v \in Elements, NEW n \in Nat, Len(s) <= n
  PROVE  \E f : Pushes(f, l, v, Len(s), n)
<1> DEFINE a == Len(s)
           step == [p \in (a + 1 .. n) \X Lists |-> AL!Pushed(p[2], v)]
           X == [i \in a .. n |-> {x \in Lists : Holds(x, Filled(s, v, i))}]
<1>1. a \in Nat /\ s \in Seq(Elements) /\ a <= n
  BY HoldsFact
<1>2. \A i \in a + 1 .. n, x \in Lists : step[<<i, x>>] = AL!Pushed(x, v)
  OBVIOUS
<1>3. \A i \in a .. n : X[i] = {x \in Lists : Holds(x, Filled(s, v, i))}
  OBVIOUS
<1>4. l \in Lists /\ Holds(l, Filled(s, v, a))
  <2>1. s \in [1 .. Len(s) -> Elements]
    BY <1>1
  <2>2. Filled(s, v, Len(s)) = s
    BY <1>1, <2>1 DEF Filled
  <2> QED BY <2>2 DEF Holds
<1> HIDE DEF step, X
<1>5. l \in X[a]
  BY <1>1, <1>3, <1>4
<1>6. \A i \in a + 1 .. n : \A x \in X[i - 1] : step[<<i, x>>] = AL!Pushed(x, v) /\ step[<<i, x>>] \in X[i]
  <2> SUFFICES ASSUME NEW i \in a + 1 .. n, NEW x \in X[i - 1]
               PROVE  step[<<i, x>>] = AL!Pushed(x, v) /\ step[<<i, x>>] \in X[i]
    OBVIOUS
  <2>1. i \in Nat /\ a < i /\ i - 1 \in a .. n /\ i \in a .. n
    BY <1>1
  <2>2. x \in Lists /\ Holds(x, Filled(s, v, i - 1))
    BY <1>3, <2>1
  <2>3. Holds(AL!Pushed(x, v), Filled(s, v, i))
    BY <1>1, <2>1, <2>2, PushRound
  <2>4. AL!Pushed(x, v) \in Lists
    BY <2>3 DEF Holds
  <2> QED BY <1>2, <1>3, <2>1, <2>2, <2>3, <2>4
<1> HIDE DEF a
<1>7. PICK f : Steps(f, a, n, l, step) /\ \A i \in a .. n : f[i] \in X[i]
  BY <1>1, <1>5, <1>6, LoopExists
<1>8. ASSUME NEW i \in a .. n
      PROVE  (IF i = a THEN l ELSE step[<<i, f[i - 1]>>]) = IF i = a THEN l ELSE AL!Pushed(f[i - 1], v)
  <2>1. i # a => i \in a + 1 .. n /\ i - 1 \in a .. n
    BY <1>1
  <2> QED BY <1>6, <1>7, <2>1
<1>9. f = [i \in a .. n |-> IF i = a THEN l ELSE AL!Pushed(f[i - 1], v)]
  BY <1>7, <1>8 DEF Steps
<1>10. Pushes(f, l, v, a, n)
  BY <1>9 DEF Pushes
<1> QED BY <1>10 DEF a

LEMMA PushesFact ==
  ASSUME NEW l, NEW s, Holds(l, s), NEW v \in Elements, NEW n \in Nat, Len(s) <= n,
         NEW f, Pushes(f, l, v, Len(s), n)
  PROVE  Holds(f[n], Filled(s, v, n)) /\ Len(f[n].buf) >= Len(l.buf)
<1> DEFINE a == Len(s)
           S == {i \in a .. n : Holds(f[i], Filled(s, v, i)) /\ Len(f[i].buf) >= Len(l.buf)}
<1>1. a \in Nat /\ s \in Seq(Elements) /\ a <= n /\ Len(l.buf) \in Nat
  BY HoldsFact
<1>2. \A i \in a .. n : f[i] = IF i = a THEN l ELSE AL!Pushed(f[i - 1], v)
  BY Zenon DEF Pushes
<1>3. a \in S
  <2>1. s \in [1 .. Len(s) -> Elements]
    BY <1>1
  <2>2. Filled(s, v, a) = s
    BY <1>1, <2>1 DEF Filled
  <2>3. f[a] = l /\ a \in a .. n
    BY <1>1, <1>2
  <2> QED BY <1>1, <2>2, <2>3
<1>4. ASSUME NEW i \in a + 1 .. n, i - 1 \in S PROVE i \in S
  <2>1. i \in Nat /\ a < i /\ i \in a .. n /\ i # a
    BY <1>1
  <2>2. Holds(f[i - 1], Filled(s, v, i - 1)) /\ Len(f[i - 1].buf) >= Len(l.buf)
    BY <1>4
  <2>3. f[i] = AL!Pushed(f[i - 1], v)
    BY <1>2, <2>1
  <2>4. Holds(f[i], Filled(s, v, i)) /\ Len(f[i].buf) >= Len(f[i - 1].buf)
    BY <1>1, <2>1, <2>2, <2>3, PushRound
  <2>5. Len(f[i].buf) \in Nat /\ Len(f[i - 1].buf) \in Nat
    BY <2>2, <2>4, HoldsFact
  <2> QED BY <1>1, <2>1, <2>2, <2>4, <2>5
<1> HIDE DEF S
<1>5. \A i \in a .. n : i \in S
  <2> HIDE DEF a
  <2> QED BY <1>1, <1>3, <1>4, CountUp
<1>6. n \in S
  BY <1>1, <1>5
<1> QED BY <1>6 DEF S

(* resize, resize_with: what is left of the list is the sequence with as many v as were asked for. *)
LEMMA ResizeFact ==
  ASSUME NEW l, NEW s, Holds(l, s), NEW v \in Elements, NEW n \in Nat, Len(s) < n, n <= MaxLen,
         NEW f, f = CHOOSE g : Pushes(g, AL!Reserved(l, n - l.len), v, l.len, n)
  PROVE  /\ Holds(f[n], s \o [i \in 1 .. n - Len(s) |-> v])
         /\ Len(f[n].buf) >= Len(l.buf)
<1>1. Len(s) \in Nat /\ l.len = Len(s) /\ s \in Seq(Elements) /\ Len(l.buf) \in Nat
  BY HoldsFact
<1> DEFINE r == AL!Reserved(l, n - l.len)
<1>2. Holds(r, s) /\ Len(r.buf) \in Nat /\ Len(r.buf) >= Len(l.buf)
  <2>1. n - l.len \in Nat /\ l.len + (n - l.len) <= MaxLen
    BY <1>1, ListAssumption
  <2> QED BY <2>1, ReservedFact
<1> HIDE DEF r
<1>3. \E g : Pushes(g, r, v, Len(s), n)
  BY <1>1, <1>2, PushesExist
<1>4. Pushes(f, r, v, Len(s), n)
  BY <1>1, <1>3, Zenon DEF r
<1>5. Holds(f[n], Filled(s, v, n)) /\ Len(f[n].buf) >= Len(r.buf)
  BY <1>1, <1>2, <1>4, PushesFact
<1>6. Filled(s, v, n) = s \o [i \in 1 .. n - Len(s) |-> v]
  <2> DEFINE w == [i \in 1 .. n - Len(s) |-> v]
             q == Filled(s, v, n)
             t == s \o w
  <2>1. n - Len(s) \in Nat
    BY <1>1
  <2>2. w \in Seq(Elements) /\ Len(w) = n - Len(s) /\ \A i \in 1 .. n - Len(s) : w[i] = v
    BY <2>1
  <2>3. s \in [1 .. Len(s) -> Elements]
    BY <1>1
  <2>4. q \in [1 .. n -> Elements] /\ \A i \in 1 .. n : q[i] = IF i <= Len(s) THEN s[i] ELSE v
    BY <1>1, <2>3 DEF Filled
  <2>5. q \in Seq(Elements) /\ Len(q) = n
    BY <2>4
  <2> HIDE DEF w, q
  <2>6. /\ t \in Seq(Elements) /\ Len(t) = Len(s) + Len(w)
        /\ \A i \in 1 .. Len(s) + Len(w) : t[i] = IF i <= Len(s) THEN s[i] ELSE w[i - Len(s)]
    BY <1>1, <2>2, ConcatProperties
  <2> HIDE DEF t
  <2>7. ASSUME NEW i \in 1 .. n PROVE q[i] = t[i]
    <3>1. i \in 1 .. Len(s) + Len(w) /\ (~(i <= Len(s)) => i - Len(s) \in 1 .. n - Len(s))
      BY <1>1, <2>2
    <3> QED BY <2>2, <2>4, <2>6, <3>1
  <2>8. Len(q) = Len(t)
    BY <1>1, <2>2, <2>5, <2>6
  <2>9. q = t
    BY <2>5, <2>6, <2>7, <2>8, SeqEqual
  <2> QED BY <2>9 DEF q, t, w
<1>7. Len(f[n].buf) \in Nat
  BY <1>5, HoldsFact
<1> QED BY <1>1, <1>2, <1>5, <1>6, <1>7

(* The removals of split_off. *)
Splits(f, l, a, b) ==
  f = [i \in a .. b |-> IF i = a THEN l
                        ELSE IF i - 1 < f[i - 1].len THEN AL!Removed(f[i - 1], i - 1)
                        ELSE f[i - 1]]

(* What they keep, l being the list before and `at' the place to split at. *)
KeepsFirst(x, l, at) ==
  /\ x \in Lists /\ x.len \in at .. l.len /\ Len(x.buf) = Len(l.buf)
  /\ \A k \in 1 .. at : x.buf[k] = l.buf[k]
  /\ \A k \in 1 .. x.len : x.buf[k] \in Elements

LEMMA SplitRound ==
  ASSUME NEW l, NEW s, Holds(l, s), NEW at \in Nat, at <= l.len,
         NEW i \in Nat, at < i, NEW x, KeepsFirst(x, l, at)
  PROVE  KeepsFirst(IF i - 1 < x.len THEN AL!Removed(x, i - 1) ELSE x, l, at)
<1>1. CASE ~(i - 1 < x.len)
  BY <1>1
<1>2. CASE i - 1 < x.len
  <2>1. /\ x \in Lists /\ x.len \in at .. l.len /\ Len(x.buf) = Len(l.buf)
        /\ \A k \in 1 .. at : x.buf[k] = l.buf[k]
        /\ \A k \in 1 .. x.len : x.buf[k] \in Elements
    BY DEF KeepsFirst
  <2>2. Len(l.buf) \in Nat /\ l.len \in 0 .. Len(l.buf)
    BY HoldsFact
  <2> DEFINE y == AL!Removed(x, i - 1)
  <2>3. i - 1 \in Nat /\ at <= i - 1 /\ x.len \in Nat /\ x.len <= Len(x.buf)
    BY <2>1, <2>2
  <2>4. /\ y \in Lists /\ y.len = x.len - 1 /\ Len(y.buf) = Len(x.buf)
        /\ \A k \in 1 .. Len(x.buf) :
              y.buf[k] = IF k > i - 1 /\ k < x.len THEN x.buf[k + 1] ELSE x.buf[k]
    BY <1>2, <2>1, <2>3, RemovedCells
  <2> HIDE DEF y
  <2>5. y.len \in at .. l.len
    BY <1>2, <2>1, <2>2, <2>3, <2>4
  <2>6. ASSUME NEW k \in 1 .. at PROVE y.buf[k] = l.buf[k]
    <3>1. k \in 1 .. Len(x.buf) /\ ~(k > i - 1)
      BY <2>1, <2>2, <2>3
    <3> QED BY <2>1, <2>4, <3>1
  <2>7. ASSUME NEW k \in 1 .. y.len PROVE y.buf[k] \in Elements
    <3>1. k \in 1 .. Len(x.buf) /\ k \in 1 .. x.len /\ k + 1 \in 1 .. x.len
      BY <2>1, <2>3, <2>4
    <3> QED BY <2>1, <2>4, <3>1
  <2>8. KeepsFirst(y, l, at)
    BY <2>1, <2>4, <2>5, <2>6, <2>7 DEF KeepsFirst
  <2> QED BY <1>2, <2>8 DEF y
<1> QED BY <1>1, <1>2

LEMMA SplitsExist ==
  ASSUME NEW l, NEW s, Holds(l, s), NEW at \in Nat, at <= l.len
  PROVE  \E f : Splits(f, l, at, l.len)
<1> DEFINE n == l.len
           Move(i, x) == IF i - 1 < x.len THEN AL!Removed(x, i - 1) ELSE x
           step == [p \in (at + 1 .. n) \X Lists |-> Move(p[1], p[2])]
           X == [i \in at .. n |-> {x \in Lists : KeepsFirst(x, l, at)}]
<1>1. n \in Nat
  BY HoldsFact
<1>2. \A i \in at + 1 .. n, x \in Lists : step[<<i, x>>] = Move(i, x)
  OBVIOUS
<1>3. \A i \in at .. n : X[i] = {x \in Lists : KeepsFirst(x, l, at)}
  OBVIOUS
<1>4. \A i \in at + 1 .. n : \A x \in Lists : KeepsFirst(x, l, at) => KeepsFirst(Move(i, x), l, at)
  BY <1>1, SplitRound
<1>5. l \in Lists /\ KeepsFirst(l, l, at)
  BY HoldsFact DEF Holds, KeepsFirst
<1> HIDE DEF step, X, Move
<1>6. l \in X[at]
  BY <1>1, <1>3, <1>5
<1>7. \A i \in at + 1 .. n : \A x \in X[i - 1] : step[<<i, x>>] = Move(i, x) /\ step[<<i, x>>] \in X[i]
  <2> SUFFICES ASSUME NEW i \in at + 1 .. n, NEW x \in X[i - 1]
               PROVE  step[<<i, x>>] = Move(i, x) /\ step[<<i, x>>] \in X[i]
    OBVIOUS
  <2>1. i - 1 \in at .. n /\ i \in at .. n
    BY <1>1
  <2>2. x \in Lists /\ KeepsFirst(x, l, at)
    BY <1>3, <2>1
  <2>3. KeepsFirst(Move(i, x), l, at)
    BY <1>4, <2>2
  <2>4. Move(i, x) \in Lists
    BY <2>3 DEF KeepsFirst
  <2> QED BY <1>2, <1>3, <2>1, <2>2, <2>3, <2>4
<1>8. PICK f : Steps(f, at, n, l, step) /\ \A i \in at .. n : f[i] \in X[i]
  BY <1>1, <1>6, <1>7, LoopExists
<1>9. ASSUME NEW i \in at .. n
      PROVE  (IF i = at THEN l ELSE step[<<i, f[i - 1]>>]) = IF i = at THEN l ELSE Move(i, f[i - 1])
  <2>1. i # at => i \in at + 1 .. n /\ i - 1 \in at .. n
    BY <1>1
  <2> QED BY <1>7, <1>8, <2>1
<1>10. f = [i \in at .. n |-> IF i = at THEN l ELSE Move(i, f[i - 1])]
  BY <1>8, <1>9 DEF Steps
<1>11. Splits(f, l, at, n)
  BY <1>10, Zenon DEF Splits, Move
<1> QED BY <1>11

(* split_off: the cells before the split stay as they are, and the list is cut there if the
   removals take out as many elements as there are behind it. *)
LEMMA SplitFact ==
  ASSUME NEW l, NEW s, Holds(l, s), NEW at \in Nat, at <= l.len,
         NEW f, Splits(f, l, at, l.len)
  PROVE  /\ f[l.len] \in Lists /\ Len(f[l.len].buf) = Len(l.buf)
         /\ Uninit \notin {f[l.len].buf[i] : i \in 1 .. f[l.len].len}
         /\ f[l.len].len = at => Holds(f[l.len], SubSeq(s, 1, at))
<1> DEFINE n == l.len
           S == {i \in at .. n : KeepsFirst(f[i], l, at)}
<1>1. /\ n \in Nat /\ Len(l.buf) \in Nat /\ n \in 0 .. Len(l.buf) /\ s \in Seq(Elements) /\ n = Len(s)
      /\ \A i \in 1 .. n : l.buf[i] = s[i]
  BY HoldsFact
<1>2. Splits(f, l, at, n)
  OBVIOUS
<1>3. \A i \in at .. n : f[i] = IF i = at THEN l
                                ELSE IF i - 1 < f[i - 1].len THEN AL!Removed(f[i - 1], i - 1)
                                ELSE f[i - 1]
  BY <1>2, Zenon DEF Splits
<1>4. at \in S
  <2>1. KeepsFirst(l, l, at)
    BY HoldsFact DEF Holds, KeepsFirst
  <2>2. at \in at .. n
    BY <1>1
  <2>3. f[at] = l
    BY <1>3, <2>2
  <2> QED BY <2>1, <2>2, <2>3
<1>5. ASSUME NEW i \in at + 1 .. n, i - 1 \in S PROVE i \in S
  <2>1. i \in at .. n /\ i # at /\ i \in Nat /\ at < i
    BY <1>1
  <2>2. f[i] = IF i - 1 < f[i - 1].len THEN AL!Removed(f[i - 1], i - 1) ELSE f[i - 1]
    BY <1>3, <2>1
  <2>3. KeepsFirst(f[i - 1], l, at)
    BY <1>5
  <2>4. KeepsFirst(f[i], l, at)
    BY <2>1, <2>2, <2>3, SplitRound
  <2> QED BY <2>1, <2>4
<1> HIDE DEF S
<1>6. \A i \in at .. n : i \in S
  <2> HIDE DEF n
  <2>1. at <= n
    BY DEF n
  <2> QED BY <1>1, <1>4, <1>5, <2>1, CountUp
<1>7. n \in S
  BY <1>1, <1>6
<1> DEFINE x == f[n]
<1>8. KeepsFirst(x, l, at)
  BY <1>7 DEF S
<1> HIDE DEF x
<1>9. /\ x \in Lists /\ x.len \in at .. n /\ Len(x.buf) = Len(l.buf)
      /\ \A k \in 1 .. at : x.buf[k] = l.buf[k]
      /\ \A k \in 1 .. x.len : x.buf[k] \in Elements
  BY <1>8 DEF KeepsFirst
<1>10. Uninit \notin {x.buf[i] : i \in 1 .. x.len}
  BY <1>9, ListAssumption
<1>11. ASSUME x.len = at PROVE Holds(x, SubSeq(s, 1, at))
  <2> DEFINE t == SubSeq(s, 1, at)
  <2>1. t \in Seq(Elements) /\ Len(t) = at /\ \A i \in 1 .. at : t[i] = s[i]
    BY <1>1
  <2> HIDE DEF t
  <2>2. \A i \in 1 .. at : x.buf[i] = t[i]
    BY <1>1, <1>9, <2>1
  <2>3. Holds(x, t)
    BY <1>1, <1>9, <1>11, <2>1, <2>2 DEF Holds
  <2> QED BY <2>3 DEF t
<1> QED BY <1>9, <1>10, <1>11 DEF x

(* Filtering a sequence, one element a round. *)
Filters(f, s, kept) ==
  f = [i \in 0 .. Len(s) |-> IF i = 0 THEN <<>>
                             ELSE IF s[i] \in kept THEN Append(f[i - 1], s[i])
                             ELSE f[i - 1]]

LEMMA FiltersExist ==
  ASSUME NEW s \in Seq(Elements), NEW kept
  PROVE  \E f : Filters(f, s, kept)
<1> DEFINE n == Len(s)
           Move(i, t) == IF s[i] \in kept THEN Append(t, s[i]) ELSE t
           step == [p \in (1 .. n) \X Seq(Elements) |-> Move(p[1], p[2])]
           X == [i \in 0 .. n |-> Seq(Elements)]
<1>1. n \in Nat /\ 0 \in Nat /\ 0 <= n /\ s \in [1 .. n -> Elements]
  OBVIOUS
<1>2. \A i \in 1 .. n, t \in Seq(Elements) : step[<<i, t>>] = Move(i, t)
  OBVIOUS
<1>3. \A i \in 0 .. n : X[i] = Seq(Elements)
  OBVIOUS
<1>4. ASSUME NEW i \in 1 .. n, NEW t \in Seq(Elements) PROVE Move(i, t) \in Seq(Elements)
  <2>1. s[i] \in Elements
    BY <1>1
  <2> QED BY <2>1
<1> HIDE DEF step, X, Move, n
<1>5. <<>> \in X[0]
  <2>1. <<>> \in Seq(Elements)
    OBVIOUS
  <2>2. 0 \in 0 .. n
    BY <1>1
  <2>3. X[0] = Seq(Elements)
    BY <1>3, <2>2
  <2> QED BY <2>1, <2>3, Zenon
<1>6. \A i \in 0 + 1 .. n : \A t \in X[i - 1] : step[<<i, t>>] = Move(i, t) /\ step[<<i, t>>] \in X[i]
  <2> SUFFICES ASSUME NEW i \in 0 + 1 .. n, NEW t \in X[i - 1]
               PROVE  step[<<i, t>>] = Move(i, t) /\ step[<<i, t>>] \in X[i]
    OBVIOUS
  <2>1. i \in 1 .. n /\ i - 1 \in 0 .. n /\ i \in 0 .. n
    BY <1>1
  <2> QED BY <1>2, <1>3, <1>4, <2>1
<1>7. PICK f : Steps(f, 0, n, <<>>, step) /\ \A i \in 0 .. n : f[i] \in X[i]
  BY <1>1, <1>5, <1>6, LoopExists
<1>8. ASSUME NEW i \in 0 .. n
      PROVE  (IF i = 0 THEN <<>> ELSE step[<<i, f[i - 1]>>]) = IF i = 0 THEN <<>> ELSE Move(i, f[i - 1])
  <2>1. i # 0 => i \in 0 + 1 .. n /\ i - 1 \in 0 .. n
    BY <1>1
  <2> QED BY <1>6, <1>7, <2>1
<1>9. f = [i \in 0 .. n |-> IF i = 0 THEN <<>> ELSE Move(i, f[i - 1])]
  BY <1>7, <1>8 DEF Steps
<1>10. Filters(f, s, kept)
  BY <1>9, Zenon DEF Filters, Move, n
<1> QED BY <1>10

LEMMA FiltersFact ==
  ASSUME NEW s \in Seq(Elements), NEW kept, NEW f, Filters(f, s, kept)
  PROVE  \A i \in 0 .. Len(s) : f[i] \in Seq(Elements) /\ Len(f[i]) <= i
<1> DEFINE n == Len(s)
           S == {i \in 0 .. n : f[i] \in Seq(Elements) /\ Len(f[i]) <= i}
<1>1. n \in Nat /\ 0 \in Nat /\ 0 <= n /\ s \in [1 .. n -> Elements]
  OBVIOUS
<1>2. \A i \in 0 .. n : f[i] = IF i = 0 THEN <<>>
                               ELSE IF s[i] \in kept THEN Append(f[i - 1], s[i])
                               ELSE f[i - 1]
  BY Zenon DEF Filters
<1>3. 0 \in S
  <2>1. 0 \in 0 .. n /\ f[0] = <<>>
    BY <1>1, <1>2
  <2>2. <<>> \in Seq(Elements) /\ Len(<<>>) = 0
    OBVIOUS
  <2>3. f[0] \in Seq(Elements) /\ Len(f[0]) = 0
    BY <2>1, <2>2, Zenon
  <2>4. Len(f[0]) <= 0
    BY <2>3
  <2> QED BY <2>1, <2>3, <2>4
<1>4. ASSUME NEW i \in 0 + 1 .. n, i - 1 \in S PROVE i \in S
  <2>1. i \in 0 .. n /\ i # 0 /\ i \in 1 .. n /\ s[i] \in Elements
    BY <1>1
  <2>2. f[i - 1] \in Seq(Elements) /\ Len(f[i - 1]) <= i - 1
    BY <1>4
  <2>3. f[i] = IF s[i] \in kept THEN Append(f[i - 1], s[i]) ELSE f[i - 1]
    BY <1>2, <2>1
  <2>4. f[i] \in Seq(Elements) /\ Len(f[i]) <= Len(f[i - 1]) + 1
    BY <2>1, <2>2, <2>3
  <2>5. Len(f[i]) \in Nat /\ Len(f[i - 1]) \in Nat
    BY <2>2, <2>4
  <2> QED BY <2>1, <2>2, <2>4, <2>5
<1> HIDE DEF S
<1>5. \A i \in 0 .. n : i \in S
  <2> HIDE DEF n
  <2> QED BY <1>1, <1>3, <1>4, CountUp
<1> QED BY <1>5 DEF S

(* The rounds of retain: p is the buffer and the place to write to. *)
PassStep(p, r, kept) ==
  IF p.buf[r] \in kept
  THEN [buf |-> [p.buf EXCEPT ![r] = p.buf[p.w], ![p.w] = p.buf[r]], w |-> p.w + 1]
  ELSE p

Passes(f, l, kept) ==
  f = [r \in 0 .. l.len |-> IF r = 0 THEN [buf |-> l.buf, w |-> 1] ELSE PassStep(f[r - 1], r, kept)]

PassStates == [buf : Buffers, w : Nat]

(* After r rounds t is in front, and the cells from r + 1 are as they were. *)
PassOK(p, r, l, t) ==
  /\ p \in PassStates /\ Len(p.buf) = Len(l.buf)
  /\ t \in Seq(Elements) /\ Len(t) <= r /\ p.w = Len(t) + 1
  /\ \A i \in 1 .. Len(t) : p.buf[i] = t[i]
  /\ \A i \in r + 1 .. l.len : p.buf[i] = l.buf[i]

LEMMA PassRound ==
  ASSUME NEW l, NEW s, Holds(l, s), NEW kept, NEW r \in 1 .. l.len, NEW p, NEW t, PassOK(p, r - 1, l, t)
  PROVE  PassOK(PassStep(p, r, kept), r, l, IF s[r] \in kept THEN Append(t, s[r]) ELSE t)
<1>1. /\ p \in PassStates /\ Len(p.buf) = Len(l.buf) /\ p.buf \in Buffers /\ p.w \in Nat
      /\ t \in Seq(Elements) /\ Len(t) \in Nat /\ Len(t) <= r - 1 /\ p.w = Len(t) + 1
      /\ \A i \in 1 .. Len(t) : p.buf[i] = t[i]
      /\ \A i \in r .. l.len : p.buf[i] = l.buf[i]
  <2>1. l.len \in Nat
    BY HoldsFact
  <2>2. (r - 1) + 1 = r
    BY <2>1
  <2> QED BY <2>2 DEF PassOK, PassStates
<1>2. /\ l.len = Len(s) /\ l.len \in 0 .. Len(l.buf) /\ Len(l.buf) \in Nat
      /\ s \in [1 .. Len(s) -> Elements] /\ \A i \in 1 .. l.len : l.buf[i] = s[i]
  BY HoldsFact
<1>3. p.buf[r] = s[r] /\ s[r] \in Elements /\ r \in 1 .. Len(p.buf) /\ p.w \in 1 .. r
  BY <1>1, <1>2
<1>4. p.buf \in [1 .. Len(p.buf) -> Elements \cup {Uninit}]
  BY <1>1, BufferCells
<1>5. CASE s[r] \notin kept
  <2>1. PassStep(p, r, kept) = p
    BY <1>3, <1>5 DEF PassStep
  <2>2. Len(t) <= r /\ \A i \in r + 1 .. l.len : p.buf[i] = l.buf[i]
    BY <1>1, <1>2
  <2> QED BY <1>1, <1>5, <2>1, <2>2 DEF PassOK
<1>6. CASE s[r] \in kept
  <2> DEFINE b == [p.buf EXCEPT ![r] = p.buf[p.w], ![p.w] = p.buf[r]]
             q == Append(t, s[r])
  <2>1. PassStep(p, r, kept) = [buf |-> b, w |-> p.w + 1]
    BY <1>3, <1>6, Zenon DEF PassStep
  <2>2. b \in [1 .. Len(p.buf) -> Elements \cup {Uninit}]
    <3>1. p.w \in 1 .. Len(p.buf)
      BY <1>1, <1>2, <1>3
    <3>2. p.buf[p.w] \in Elements \cup {Uninit} /\ p.buf[r] \in Elements \cup {Uninit}
      BY <1>3, <1>4, <3>1
    <3> DEFINE c == p.buf
    <3>3. c \in [1 .. Len(p.buf) -> Elements \cup {Uninit}]
      BY <1>4
    <3> QED BY <3>2, <3>3
  <2>3. b \in Buffers /\ Len(b) = Len(p.buf)
    BY <1>1, <1>2, <2>2, BufferFact
  <2>4. /\ q \in Seq(Elements) /\ Len(q) = Len(t) + 1 /\ q[Len(t) + 1] = s[r]
        /\ \A i \in 1 .. Len(t) : q[i] = t[i]
    BY <1>1, <1>3
  <2>5. ASSUME NEW i \in 1 .. Len(q) PROVE b[i] = q[i]
    <3>1. CASE i = p.w
      <4>1. b[i] = p.buf[r]
        BY <1>1, <1>2, <1>3, <1>4, <3>1
      <4> QED BY <1>1, <1>3, <2>4, <3>1, <4>1
    <3>2. CASE i # p.w
      <4>1. i \in 1 .. Len(t) /\ i # r /\ i \in 1 .. Len(p.buf)
        BY <1>1, <1>3, <2>4, <3>2
      <4>2. b[i] = p.buf[i]
        BY <1>4, <3>2, <4>1
      <4> QED BY <1>1, <2>4, <4>1, <4>2
    <3> QED BY <3>1, <3>2
  <2>6. ASSUME NEW i \in r + 1 .. l.len PROVE b[i] = l.buf[i]
    <3>1. i # r /\ i # p.w /\ i \in 1 .. Len(p.buf) /\ i \in r .. l.len
      BY <1>1, <1>2, <1>3
    <3>2. b[i] = p.buf[i]
      BY <1>4, <3>1
    <3> QED BY <1>1, <3>1, <3>2
  <2> HIDE DEF b, q
  <2>7. PassOK([buf |-> b, w |-> p.w + 1], r, l, q)
    <3>1. [buf |-> b, w |-> p.w + 1] \in PassStates
      BY <1>1, <2>3 DEF PassStates
    <3>2. Len(q) <= r /\ p.w + 1 = Len(q) + 1
      BY <1>1, <1>2, <2>4
    <3> QED BY <1>1, <2>3, <2>4, <2>5, <2>6, <3>1, <3>2 DEF PassOK
  <2> QED BY <1>6, <2>1, <2>7 DEF q
<1> QED BY <1>5, <1>6

LEMMA PassesExist ==
  ASSUME NEW l, NEW s, Holds(l, s), NEW kept, NEW g, Filters(g, s, kept)
  PROVE  \E f : Passes(f, l, kept)
<1> DEFINE n == l.len
           first == [buf |-> l.buf, w |-> 1]
           step == [c \in (1 .. n) \X PassStates |-> PassStep(c[2], c[1], kept)]
           X == [r \in 0 .. n |-> {p \in PassStates : PassOK(p, r, l, g[r])}]
<1>1. n \in Nat /\ 0 \in Nat /\ 0 <= n /\ n = Len(s) /\ s \in Seq(Elements)
  BY HoldsFact
<1>2. \A r \in 1 .. n, p \in PassStates : step[<<r, p>>] = PassStep(p, r, kept)
  OBVIOUS
<1>3. \A r \in 0 .. n : X[r] = {p \in PassStates : PassOK(p, r, l, g[r])}
  OBVIOUS
<1>4. \A r \in 0 .. n : g[r] = IF r = 0 THEN <<>> ELSE IF s[r] \in kept THEN Append(g[r - 1], s[r]) ELSE g[r - 1]
  BY <1>1, Zenon DEF Filters
<1>5. PassOK(first, 0, l, g[0])
  <2>1. 0 \in 0 .. n
    BY <1>1
  <2>2. g[0] = <<>>
    BY <1>4, <2>1, Zenon
  <2>3. <<>> \in Seq(Elements) /\ Len(<<>>) = 0
    OBVIOUS
  <2>4. g[0] \in Seq(Elements) /\ Len(g[0]) = 0
    BY <2>2, <2>3, Zenon
  <2>5. l.buf \in Buffers
    BY HoldsFact
  <2> QED BY <2>4, <2>5 DEF PassOK, PassStates
<1>6. \A r \in 1 .. n : \A p : PassOK(p, r - 1, l, g[r - 1]) => PassOK(PassStep(p, r, kept), r, l, g[r])
  <2> SUFFICES ASSUME NEW r \in 1 .. n, NEW p, PassOK(p, r - 1, l, g[r - 1])
               PROVE  PassOK(PassStep(p, r, kept), r, l, g[r])
    OBVIOUS
  <2>1. r \in 0 .. n /\ r # 0
    BY <1>1
  <2>2. g[r] = IF s[r] \in kept THEN Append(g[r - 1], s[r]) ELSE g[r - 1]
    BY <1>4, <2>1, Zenon
  <2>3. PassOK(PassStep(p, r, kept), r, l, IF s[r] \in kept THEN Append(g[r - 1], s[r]) ELSE g[r - 1])
    BY PassRound, Zenon
  <2> QED BY <2>2, <2>3, Zenon
<1> HIDE DEF step, X, n, first
<1>7. first \in X[0]
  BY <1>1, <1>3, <1>5 DEF PassOK
<1>8. \A r \in 0 + 1 .. n : \A p \in X[r - 1] : step[<<r, p>>] = PassStep(p, r, kept) /\ step[<<r, p>>] \in X[r]
  <2> SUFFICES ASSUME NEW r \in 0 + 1 .. n, NEW p \in X[r - 1]
               PROVE  step[<<r, p>>] = PassStep(p, r, kept) /\ step[<<r, p>>] \in X[r]
    OBVIOUS
  <2>1. r \in 1 .. n /\ r - 1 \in 0 .. n /\ r \in 0 .. n
    BY <1>1
  <2>2. p \in PassStates /\ PassOK(p, r - 1, l, g[r - 1])
    BY <1>3, <2>1
  <2>3. PassOK(PassStep(p, r, kept), r, l, g[r])
    BY <1>6, <2>1, <2>2
  <2>4. PassStep(p, r, kept) \in PassStates
    BY <2>3 DEF PassOK
  <2> QED BY <1>2, <1>3, <2>1, <2>2, <2>3, <2>4
<1>9. PICK f : Steps(f, 0, n, first, step) /\ \A r \in 0 .. n : f[r] \in X[r]
  BY <1>1, <1>7, <1>8, LoopExists
<1>10. ASSUME NEW r \in 0 .. n
       PROVE  (IF r = 0 THEN first ELSE step[<<r, f[r - 1]>>]) = IF r = 0 THEN first ELSE PassStep(f[r - 1], r, kept)
  <2>1. r # 0 => r \in 0 + 1 .. n /\ r - 1 \in 0 .. n
    BY <1>1
  <2> QED BY <1>8, <1>9, <2>1
<1>11. f = [r \in 0 .. n |-> IF r = 0 THEN first ELSE PassStep(f[r - 1], r, kept)]
  BY <1>9, <1>10 DEF Steps
<1>12. Passes(f, l, kept)
  BY <1>11, Zenon DEF Passes, first, n
<1> QED BY <1>12

LEMMA PassesFact ==
  ASSUME NEW l, NEW s, Holds(l, s), NEW kept, NEW g, Filters(g, s, kept), NEW f, Passes(f, l, kept)
  PROVE  PassOK(f[l.len], l.len, l, g[l.len])
<1> DEFINE n == l.len
           S == {r \in 0 .. n : PassOK(f[r], r, l, g[r])}
<1>1. n \in Nat /\ 0 \in Nat /\ 0 <= n /\ n = Len(s) /\ s \in Seq(Elements)
  BY HoldsFact
<1>2. \A r \in 0 .. n : f[r] = IF r = 0 THEN [buf |-> l.buf, w |-> 1] ELSE PassStep(f[r - 1], r, kept)
  BY Zenon DEF Passes
<1>3. \A r \in 0 .. n : g[r] = IF r = 0 THEN <<>> ELSE IF s[r] \in kept THEN Append(g[r - 1], s[r]) ELSE g[r - 1]
  BY <1>1, Zenon DEF Filters
<1>4. 0 \in S
  <2>1. 0 \in 0 .. n
    BY <1>1
  <2>2. g[0] = <<>> /\ f[0] = [buf |-> l.buf, w |-> 1]
    BY <1>2, <1>3, <2>1, Zenon
  <2>3. <<>> \in Seq(Elements) /\ Len(<<>>) = 0
    OBVIOUS
  <2>4. g[0] \in Seq(Elements) /\ Len(g[0]) = 0
    BY <2>2, <2>3, Zenon
  <2>5. l.buf \in Buffers
    BY HoldsFact
  <2>6. PassOK(f[0], 0, l, g[0])
    BY <2>2, <2>4, <2>5 DEF PassOK, PassStates
  <2> QED BY <2>1, <2>6
<1>5. ASSUME NEW r \in 0 + 1 .. n, r - 1 \in S PROVE r \in S
  <2>1. r \in 1 .. n /\ r \in 0 .. n /\ r # 0
    BY <1>1
  <2>2. PassOK(f[r - 1], r - 1, l, g[r - 1])
    BY <1>5
  <2>3. PassOK(PassStep(f[r - 1], r, kept), r, l, IF s[r] \in kept THEN Append(g[r - 1], s[r]) ELSE g[r - 1])
    BY <2>1, <2>2, PassRound, Zenon
  <2>4. /\ g[r] = IF s[r] \in kept THEN Append(g[r - 1], s[r]) ELSE g[r - 1]
        /\ f[r] = PassStep(f[r - 1], r, kept)
    BY <1>2, <1>3, <2>1, Zenon
  <2>5. PassOK(f[r], r, l, g[r])
    BY <2>3, <2>4, Zenon
  <2> QED BY <2>1, <2>5
<1> HIDE DEF S
<1>6. \A r \in 0 .. n : r \in S
  <2> HIDE DEF n
  <2> QED BY <1>1, <1>4, <1>5, CountUp
<1>7. n \in S
  BY <1>1, <1>6
<1> QED BY <1>7 DEF S

(* retain, retain_mut: the elements kept, in order. *)
LEMMA RetainedFact ==
  ASSUME NEW l, NEW s, Holds(l, s), NEW kept
  PROVE  /\ Holds(AL!Retained(l, kept), AL!Filtered(s, kept))
         /\ Len(AL!Retained(l, kept).buf) = Len(l.buf)
<1> DEFINE g == CHOOSE h : Filters(h, s, kept)
           f == CHOOSE h : Passes(h, l, kept)
<1>1. /\ l.len \in Nat /\ l.len = Len(s) /\ s \in Seq(Elements) /\ Len(l.buf) \in Nat /\ l.len \in 0 .. Len(l.buf)
      /\ l = [buf |-> l.buf, len |-> l.len]
  BY HoldsFact
<1>2. Filters(g, s, kept)
  BY <1>1, FiltersExist, Zenon
<1>3. Passes(f, l, kept)
  <2>1. \E h : Passes(h, l, kept)
    BY <1>2, PassesExist
  <2> QED BY <2>1, Zenon
<1>4. AL!Filtered(s, kept) = g[l.len]
  BY <1>1, Zenon DEF AL!Filtered, Filters
<1>5. AL!Retained(l, kept) = AL!Truncated([l EXCEPT !.buf = f[l.len].buf], f[l.len].w - 1)
  BY Zenon DEF AL!Retained, Passes, PassStep
<1> HIDE DEF f, g
<1> DEFINE p == f[l.len]
           t == g[l.len]
<1>6. PassOK(p, l.len, l, t)
  BY <1>2, <1>3, PassesFact
<1> HIDE DEF p, t
<1>7. /\ p.buf \in Buffers /\ p.w \in Nat /\ Len(p.buf) = Len(l.buf)
      /\ t \in Seq(Elements) /\ Len(t) <= l.len /\ Len(t) \in Nat /\ p.w = Len(t) + 1
      /\ \A i \in 1 .. Len(t) : p.buf[i] = t[i]
  BY <1>6 DEF PassOK, PassStates
<1>8. AL!Retained(l, kept) = [buf |-> p.buf, len |-> Len(t)]
  <2> DEFINE m == [l EXCEPT !.buf = p.buf]
  <2>1. m = [buf |-> p.buf, len |-> l.len]
    BY <1>1
  <2>2. p.w - 1 = Len(t)
    BY <1>7
  <2>3. AL!Truncated(m, Len(t)) = [buf |-> p.buf, len |-> Len(t)]
    <3> HIDE DEF m
    <3>1. CASE Len(t) >= l.len
      <4>1. Len(t) = l.len
        BY <1>1, <1>7, <3>1
      <4> QED BY <2>1, <4>1 DEF AL!Truncated
    <3>2. CASE ~(Len(t) >= l.len)
      <4>1. AL!Truncated(m, Len(t)) = [m EXCEPT !.len = Len(t)]
        BY <2>1, <3>2 DEF AL!Truncated
      <4> QED BY <2>1, <4>1
    <3> QED BY <3>1, <3>2
  <2> QED BY <1>5, <2>2, <2>3, Zenon DEF p
<1>9. Holds([buf |-> p.buf, len |-> Len(t)], t)
  BY <1>1, <1>7 DEF Holds, Lists
<1> QED BY <1>4, <1>7, <1>8, <1>9 DEF t

(* Until a split_off panics, the buffer holds the list a Vec would be. *)
ListInv == ~panicked => Holds(AL!List, expected)

(* What an operation leads to. *)
ListOK ==
  /\ ~panicked' => Holds([buf |-> buf', len |-> len'], expected')
  /\ Len(buf') >= Len(buf)
  /\ Uninit \notin {buf'[i] : i \in 1 .. len'}

LEMMA InitList == AL!Init => ListInv
<1> SUFFICES ASSUME AL!Init PROVE Holds(AL!List, expected)
  BY DEF ListInv
<1>1. PICK c \in Capacities : buf = AL!FreshCells(c)
  BY DEF AL!Init
<1>2. c \in Nat /\ buf \in [1 .. c -> Elements \cup {Uninit}]
  BY <1>1, ListAssumption DEF AL!FreshCells
<1>3. len = 0 /\ expected = <<>>
  BY DEF AL!Init
<1>4. <<>> \in Seq(Elements) /\ Len(<<>>) = 0
  OBVIOUS
<1>5. expected \in Seq(Elements) /\ Len(expected) = 0
  BY <1>3, <1>4, Zenon
<1>6. Len(expected) <= c /\ \A i \in 1 .. Len(expected) : buf[i] = expected[i]
  BY <1>2, <1>5
<1>7. Holds([buf |-> buf, len |-> len], expected)
  <2>1. len = Len(expected)
    BY <1>3, <1>5
  <2> QED BY <1>2, <1>5, <1>6, <2>1, HoldsIf
<1> QED BY <1>7 DEF AL!List

(* The list before an operation. *)
LEMMA BeforeFact ==
  ASSUME Holds(AL!List, expected)
  PROVE  /\ buf \in [1 .. Len(buf) -> Elements \cup {Uninit}] /\ Len(buf) \in Nat /\ DOMAIN buf = 1 .. Len(buf)
         /\ len = Len(expected) /\ len \in 0 .. Len(buf) /\ len \in Nat
         /\ expected \in Seq(Elements) /\ expected \in [1 .. len -> Elements]
         /\ \A i \in 1 .. len : buf[i] = expected[i]
         /\ AL!List.buf = buf /\ AL!List.len = len
<1>1. AL!List.buf = buf /\ AL!List.len = len
  BY DEF AL!List
<1> QED BY <1>1, HoldsFact

(* Operations that leave a list l with the content s. *)
LEMMA AfterFact ==
  ASSUME NEW l, NEW s, Holds(l, s), AL!SetList(l), expected' = s, Len(l.buf) >= Len(buf)
  PROVE  ListOK
<1>1. l = [buf |-> l.buf, len |-> l.len] /\ Uninit \notin {l.buf[i] : i \in 1 .. l.len}
  BY HoldsFact
<1>2. buf' = l.buf /\ len' = l.len
  BY DEF AL!SetList
<1>3. [buf |-> buf', len |-> len'] = l
  BY <1>1, <1>2
<1> QED BY <1>1, <1>2, <1>3 DEF ListOK

(* The same for operations that write cells. *)
LEMMA WriteFact ==
  ASSUME Holds(AL!List, expected), buf' \in [1 .. Len(buf) -> Elements \cup {Uninit}],
         expected' \in Seq(Elements), len' = Len(expected'), len' <= Len(buf),
         \A i \in 1 .. len' : buf'[i] = expected'[i]
  PROVE  ListOK
<1>1. Len(buf) \in Nat
  BY BeforeFact
<1> DEFINE l == [buf |-> buf', len |-> len']
<1>2. Holds(l, expected') /\ Len(buf') = Len(buf)
  BY <1>1, HoldsIf
<1>3. AL!SetList(l) /\ Len(l.buf) >= Len(buf)
  BY <1>1, <1>2 DEF AL!SetList
<1> HIDE DEF l
<1> QED BY <1>2, <1>3, AfterFact

(* A sequence given position by position. *)
LEMMA SequenceFact ==
  ASSUME NEW n \in Nat, NEW s \in [1 .. n -> Elements]
  PROVE  s \in Seq(Elements) /\ Len(s) = n
OBVIOUS

(* push, pop. *)
LEMMA PushStep ==
  ASSUME Holds(AL!List, expected), NEW v \in Elements, AL!Push(v)
  PROVE  ListOK
<1> DEFINE l == AL!Pushed(AL!List, v)
<1>1. Holds(l, Append(expected, v)) /\ Len(l.buf) >= Len(AL!List.buf)
  BY PushedFact
<1>2. AL!SetList(l) /\ expected' = Append(expected, v)
  BY DEF AL!Push
<1>3. Len(AL!List.buf) = Len(buf)
  BY BeforeFact
<1> HIDE DEF l
<1> QED BY <1>1, <1>2, <1>3, AfterFact

LEMMA PrefixFact ==
  ASSUME NEW s \in Seq(Elements), NEW n \in 0 .. Len(s)
  PROVE  SubSeq(s, 1, n) \in Seq(Elements) /\ Len(SubSeq(s, 1, n)) = n /\ \A i \in 1 .. n : SubSeq(s, 1, n)[i] = s[i]
OBVIOUS

LEMMA PopStep ==
  ASSUME Holds(AL!List, expected), AL!Pop
  PROVE  ListOK
<1>1. len > 0 /\ len' = len - 1 /\ expected' = SubSeq(expected, 1, Len(expected) - 1) /\ buf' = buf
  BY DEF AL!Pop
<1>2. /\ expected' \in Seq(Elements) /\ Len(expected') = len - 1
      /\ \A i \in 1 .. len - 1 : expected'[i] = expected[i]
  <2>1. expected \in Seq(Elements) /\ len = Len(expected) /\ len \in Nat
    BY BeforeFact
  <2>2. len - 1 \in 0 .. Len(expected)
    BY <1>1, <2>1
  <2>3. expected' = SubSeq(expected, 1, len - 1)
    BY <1>1, <2>1
  <2> QED BY <2>1, <2>2, <2>3, PrefixFact
<1>3. len' <= Len(buf) /\ \A i \in 1 .. len' : buf'[i] = expected'[i]
  BY <1>1, <1>2, BeforeFact
<1>4. buf' \in [1 .. Len(buf) -> Elements \cup {Uninit}]
  BY <1>1, BeforeFact
<1> QED BY <1>1, <1>2, <1>3, <1>4, WriteFact

(* set, and writes through index_mut and the slices. *)
LEMMA SetStep ==
  ASSUME Holds(AL!List, expected), NEW idx \in Nat, NEW v \in Elements, AL!Set(idx, v)
  PROVE  ListOK
<1>1. /\ idx < len /\ buf' = [buf EXCEPT ![idx + 1] = v] /\ expected' = [expected EXCEPT ![idx + 1] = v]
      /\ len' = len
  BY DEF AL!Set
<1>2. /\ buf \in [1 .. Len(buf) -> Elements \cup {Uninit}] /\ Len(buf) \in Nat
      /\ len \in 0 .. Len(buf) /\ expected \in [1 .. len -> Elements] /\ len \in Nat
      /\ \A i \in 1 .. len : buf[i] = expected[i]
  BY BeforeFact
<1>3. expected' \in [1 .. len -> Elements] /\ buf' \in [1 .. Len(buf) -> Elements \cup {Uninit}]
  BY <1>1, <1>2
<1>4. expected' \in Seq(Elements) /\ Len(expected') = len
  BY <1>2, <1>3, SequenceFact
<1>5. ASSUME NEW i \in 1 .. len PROVE buf'[i] = expected'[i]
  BY <1>1, <1>2
<1> QED BY <1>1, <1>2, <1>3, <1>4, <1>5, WriteFact

LEMMA IndexMutStep ==
  ASSUME Holds(AL!List, expected), NEW idx \in Int, NEW v \in Elements, AL!IndexMut(idx, v)
  PROVE  ListOK
<1> DEFINE k == AL!Position(idx)
<1>1. /\ k \in 0 .. Len(buf) - 1 /\ buf' = [buf EXCEPT ![k + 1] = v] /\ len' = len
      /\ expected' = IF k < len THEN [expected EXCEPT ![k + 1] = v] ELSE expected
  BY Zenon DEF AL!IndexMut
<1> HIDE DEF k
<1>2. /\ buf \in [1 .. Len(buf) -> Elements \cup {Uninit}] /\ Len(buf) \in Nat
      /\ len \in 0 .. Len(buf) /\ expected \in [1 .. len -> Elements] /\ len \in Nat
      /\ \A i \in 1 .. len : buf[i] = expected[i]
  BY BeforeFact
<1>3. expected' \in [1 .. len -> Elements] /\ buf' \in [1 .. Len(buf) -> Elements \cup {Uninit}]
  BY <1>1, <1>2
<1>4. expected' \in Seq(Elements) /\ Len(expected') = len
  BY <1>2, <1>3, SequenceFact
<1>5. ASSUME NEW i \in 1 .. len PROVE buf'[i] = expected'[i]
  BY <1>1, <1>2
<1> QED BY <1>1, <1>2, <1>3, <1>4, <1>5, WriteFact

LEMMA SliceMutStep ==
  ASSUME Holds(AL!List, expected), NEW start, NEW end, NEW v \in Elements, AL!SliceMut(start, end, v)
  PROVE  ListOK
<1> DEFINE from == AL!Position(start)
           to == AL!Position(end)
<1>1. /\ buf' = [i \in DOMAIN buf |-> IF from < i /\ i <= to THEN v ELSE buf[i]]
      /\ expected' = [i \in DOMAIN expected |-> IF from < i /\ i <= to THEN v ELSE expected[i]]
      /\ len' = len
  BY Zenon DEF AL!SliceMut
<1> HIDE DEF from, to
<1>2. /\ buf \in [1 .. Len(buf) -> Elements \cup {Uninit}] /\ Len(buf) \in Nat
      /\ len \in 0 .. Len(buf) /\ expected \in [1 .. len -> Elements] /\ len \in Nat
      /\ \A i \in 1 .. len : buf[i] = expected[i]
  BY BeforeFact
<1>3. expected' \in [1 .. len -> Elements] /\ buf' \in [1 .. Len(buf) -> Elements \cup {Uninit}]
  BY <1>1, <1>2
<1>4. expected' \in Seq(Elements) /\ Len(expected') = len
  BY <1>2, <1>3, SequenceFact
<1>5. ASSUME NEW i \in 1 .. len PROVE buf'[i] = expected'[i]
  BY <1>1, <1>2
<1> QED BY <1>1, <1>2, <1>3, <1>4, <1>5, WriteFact

(* remove, swap_remove. *)
LEMMA RemoveStep ==
  ASSUME Holds(AL!List, expected), NEW idx \in Nat, AL!Remove(idx)
  PROVE  ListOK
<1> DEFINE l == AL!Removed(AL!List, idx)
<1>1. idx < len /\ AL!SetList(l) /\ expected' = Without(expected, idx)
  BY DEF AL!Remove, Without
<1>2. Holds(l, Without(expected, idx)) /\ Len(l.buf) = Len(buf)
  BY <1>1, BeforeFact, RemovedFact
<1>3. Len(l.buf) >= Len(buf)
  BY <1>2, BeforeFact
<1> HIDE DEF l
<1> QED BY <1>1, <1>2, <1>3, AfterFact

LEMMA SwapRemoveStep ==
  ASSUME Holds(AL!List, expected), NEW idx \in Nat, AL!SwapRemove(idx)
  PROVE  ListOK
<1> DEFINE s == [expected EXCEPT ![idx + 1] = expected[Len(expected)]]
<1>1. /\ idx < len /\ buf' = [buf EXCEPT ![idx + 1] = buf[len]] /\ len' = len - 1
      /\ expected' = SubSeq(s, 1, Len(expected) - 1)
  BY DEF AL!SwapRemove
<1>2. /\ buf \in [1 .. Len(buf) -> Elements \cup {Uninit}] /\ Len(buf) \in Nat
      /\ len \in 0 .. Len(buf) /\ expected \in [1 .. len -> Elements] /\ len \in Nat
      /\ \A i \in 1 .. len : buf[i] = expected[i] /\ len = Len(expected)
  BY BeforeFact
<1>3. Len(expected) = len
  BY BeforeFact
<1>4. expected[len] \in Elements /\ buf[len] = expected[len]
  BY <1>1, <1>2
<1>5. /\ s \in [1 .. len -> Elements] /\ buf' \in [1 .. Len(buf) -> Elements \cup {Uninit}]
      /\ \A i \in 1 .. len : s[i] = buf'[i]
  BY <1>1, <1>2, <1>3, <1>4
<1> HIDE DEF s
<1>6. s \in Seq(Elements) /\ Len(s) = len
  BY <1>2, <1>5, SequenceFact
<1>7. /\ expected' \in Seq(Elements) /\ Len(expected') = len - 1
      /\ \A i \in 1 .. len - 1 : expected'[i] = s[i]
  <2>1. len - 1 \in 0 .. Len(s)
    BY <1>1, <1>2, <1>6
  <2>2. expected' = SubSeq(s, 1, len - 1)
    BY <1>1, <1>3
  <2> QED BY <1>6, <2>1, <2>2, PrefixFact
<1>8. \A i \in 1 .. len' : buf'[i] = expected'[i]
  BY <1>1, <1>2, <1>5, <1>7
<1>9. len' = Len(expected') /\ len' <= Len(buf)
  BY <1>1, <1>2, <1>7
<1> QED BY <1>5, <1>7, <1>8, <1>9, WriteFact

(* truncate, clear, reverse_in_place, retain, reserve. *)
LEMMA TruncateStep ==
  ASSUME Holds(AL!List, expected), NEW n \in Nat, AL!Truncate(n)
  PROVE  ListOK
<1> DEFINE l == AL!Truncated(AL!List, n)
           s == SubSeq(expected, 1, IF n < Len(expected) THEN n ELSE Len(expected))
<1>1. AL!SetList(l) /\ expected' = s
  BY DEF AL!Truncate
<1>2. Holds(l, s) /\ l.buf = buf
  BY BeforeFact, TruncatedFact
<1>3. Len(l.buf) >= Len(buf)
  BY <1>2, BeforeFact
<1> HIDE DEF l, s
<1> QED BY <1>1, <1>2, <1>3, AfterFact

LEMMA ReverseStep ==
  ASSUME Holds(AL!List, expected), AL!ReverseInPlace
  PROVE  ListOK
<1> DEFINE l == AL!Reversed(AL!List)
           s == Backwards(expected)
<1>1. AL!SetList(l) /\ expected' = s
  BY DEF AL!ReverseInPlace, Backwards
<1>2. Holds(l, s) /\ Len(l.buf) = Len(buf)
  BY BeforeFact, ReversedFact
<1>3. Len(l.buf) >= Len(buf)
  BY <1>2, BeforeFact
<1> HIDE DEF l, s
<1> QED BY <1>1, <1>2, <1>3, AfterFact

LEMMA RetainStep ==
  ASSUME Holds(AL!List, expected), NEW kept, AL!Retain(kept)
  PROVE  ListOK
<1> DEFINE l == AL!Retained(AL!List, kept)
           s == AL!Filtered(expected, kept)
<1>1. AL!SetList(l) /\ expected' = s
  BY DEF AL!Retain
<1>2. Holds(l, s) /\ Len(l.buf) = Len(buf)
  BY BeforeFact, RetainedFact
<1>3. Len(l.buf) >= Len(buf)
  BY <1>2, BeforeFact
<1> HIDE DEF l, s
<1> QED BY <1>1, <1>2, <1>3, AfterFact

LEMMA ReserveStep ==
  ASSUME Holds(AL!List, expected), NEW n \in Nat, AL!Reserve(n)
  PROVE  ListOK /\ Len(buf') >= len' + n
<1> DEFINE l == AL!Reserved(AL!List, n)
<1>1. len + n <= MaxLen /\ AL!SetList(l) /\ expected' = expected
  BY DEF AL!Reserve
<1>2. /\ Holds(l, expected) /\ Len(l.buf) \in Nat
      /\ Len(l.buf) >= Len(buf) /\ Len(l.buf) >= len + n
  BY <1>1, BeforeFact, ReservedFact
<1> HIDE DEF l
<1>3. ListOK
  BY <1>1, <1>2, AfterFact
<1>4. buf' = l.buf /\ len' = l.len
  BY <1>1 DEF AL!SetList
<1>5. l.len = len
  BY <1>2, HoldsFact, BeforeFact
<1> QED BY <1>2, <1>3, <1>4, <1>5

(* resize, split_off. *)
LEMMA ResizeStep ==
  ASSUME Holds(AL!List, expected), NEW n \in 0 .. MaxLen, NEW v \in Elements, AL!Resize(n, v)
  PROVE  ListOK
<1> DEFINE f == CHOOSE g : Pushes(g, AL!Reserved(AL!List, n - len), v, len, n)
           s == expected \o [i \in 1 .. n - Len(expected) |-> v]
<1>1. n > len /\ AL!SetList(f[n]) /\ expected' = s
  BY Zenon DEF AL!Resize, Pushes
<1>2. AL!List.len = len /\ AL!List.buf = buf /\ len = Len(expected) /\ len \in Nat /\ Len(buf) \in Nat
  BY BeforeFact
<1>3. f = CHOOSE g : Pushes(g, AL!Reserved(AL!List, n - AL!List.len), v, AL!List.len, n)
  BY <1>2, Zenon
<1>4. n \in Nat /\ Len(expected) < n /\ n <= MaxLen
  BY <1>1, <1>2, ListAssumption
<1> HIDE DEF f
<1>5. Holds(f[n], s) /\ Len(f[n].buf) >= Len(AL!List.buf)
  BY <1>3, <1>4, ResizeFact
<1> HIDE DEF s
<1> QED BY <1>1, <1>2, <1>5, AfterFact

LEMMA SplitOffStep ==
  ASSUME Holds(AL!List, expected), NEW at \in Nat, AL!SplitOff(at)
  PROVE  ListOK
<1> DEFINE f == CHOOSE g : Splits(g, AL!List, at, len)
<1>1. at <= len /\ AL!SetList(f[len]) /\ panicked' = (f[len].len # at) /\ expected' = SubSeq(expected, 1, at)
  BY Zenon DEF AL!SplitOff, Splits
<1>2. AL!List.len = len /\ AL!List.buf = buf /\ len \in Nat /\ Len(buf) \in Nat
  BY BeforeFact
<1>3. f = CHOOSE g : Splits(g, AL!List, at, AL!List.len)
  BY <1>2, Zenon
<1> HIDE DEF f
<1>4. /\ f[len] \in Lists /\ Len(f[len].buf) = Len(buf)
      /\ Uninit \notin {f[len].buf[i] : i \in 1 .. f[len].len}
      /\ f[len].len = at => Holds(f[len], SubSeq(expected, 1, at))
  <2>1. at <= AL!List.len
    BY <1>1, <1>2
  <2> DEFINE l == AL!List
  <2>2. Holds(l, expected) /\ at <= l.len /\ f = CHOOSE g : Splits(g, l, at, l.len)
    BY <1>3, <2>1
  <2>3. l.len = len /\ l.buf = buf
    BY <1>2
  <2>5. \E g : Splits(g, l, at, l.len)
    BY <2>2, SplitsExist
  <2>6. Splits(f, l, at, l.len)
    BY <2>2, <2>5, Zenon
  <2> HIDE DEF l, f
  <2>4. /\ f[l.len] \in Lists /\ Len(f[l.len].buf) = Len(l.buf)
        /\ Uninit \notin {f[l.len].buf[i] : i \in 1 .. f[l.len].len}
        /\ f[l.len].len = at => Holds(f[l.len], SubSeq(expected, 1, at))
    <3>1. Holds(l, expected) /\ at <= l.len
      BY <2>2
    <3> QED BY <3>1, <2>6, SplitFact
  <2> QED BY <2>3, <2>4
<1> DEFINE x == f[len]
<1> HIDE DEF x
<1>5. buf' = x.buf /\ len' = x.len /\ x = [buf |-> x.buf, len |-> x.len]
  BY <1>1, <1>4 DEF x, AL!SetList, Lists
<1>6. ~panicked' => Holds([buf |-> buf', len |-> len'], expected')
  BY <1>1, <1>4, <1>5 DEF x
<1> QED BY <1>2, <1>4, <1>5, <1>6 DEF ListOK, x

LEMMA ListStep ==
  ASSUME ListInv, AL!Next
  PROVE  Holds(AL!List, expected) /\ ListOK
<1>1. Holds(AL!List, expected)
  BY DEF ListInv, AL!Next
<1>2. MaxLen \in Nat /\ 0 .. MaxLen - 1 \subseteq Nat /\ 0 .. MaxLen \subseteq Nat
      /\ -MaxLen .. MaxLen - 1 \subseteq Int
  BY ListAssumption
<1>3. ASSUME NEW v \in Elements, AL!Push(v) PROVE ListOK
  BY <1>1, <1>3, PushStep
<1>4. CASE AL!Pop
  BY <1>1, <1>4, PopStep
<1>5. CASE AL!ReverseInPlace
  BY <1>1, <1>5, ReverseStep
<1>6. ASSUME NEW i \in 0 .. MaxLen - 1, AL!Remove(i) \/ AL!SwapRemove(i) PROVE ListOK
  BY <1>1, <1>2, <1>6, RemoveStep, SwapRemoveStep
<1>7. ASSUME NEW i \in 0 .. MaxLen - 1, NEW v \in Elements, AL!Set(i, v) PROVE ListOK
  BY <1>1, <1>2, <1>7, SetStep
<1>8. ASSUME NEW i \in -MaxLen .. MaxLen - 1, NEW v \in Elements, AL!IndexMut(i, v) PROVE ListOK
  BY <1>1, <1>2, <1>8, IndexMutStep
<1>9. ASSUME NEW i \in -MaxLen .. MaxLen, NEW j \in -MaxLen .. MaxLen, NEW v \in Elements, AL!SliceMut(i, j, v)
      PROVE  ListOK
  BY <1>1, <1>9, SliceMutStep
<1>10. ASSUME NEW n \in 0 .. MaxLen, AL!Truncate(n) \/ AL!Reserve(n) \/ AL!SplitOff(n) PROVE ListOK
  BY <1>1, <1>2, <1>10, TruncateStep, ReserveStep, SplitOffStep
<1>11. ASSUME NEW n \in 0 .. MaxLen, NEW v \in Elements, AL!Resize(n, v) PROVE ListOK
  BY <1>1, <1>11, ResizeStep
<1>12. ASSUME NEW kept, AL!Retain(kept) PROVE ListOK
  BY <1>1, <1>12, RetainStep
<1> QED
  BY <1>1, <1>3, <1>4, <1>5, <1>6, <1>7, <1>8, <1>9, <1>10, <1>11, <1>12, Zenon DEF AL!Next

LEMMA NextList == ListInv /\ AL!Initialized /\ [AL!Next]_listVars => ListInv' /\ AL!Initialized'
<1> SUFFICES ASSUME ListInv, AL!Initialized, [AL!Next]_listVars PROVE ListInv' /\ AL!Initialized'
  OBVIOUS
<1>1. CASE AL!Next
  <2>1. ListOK
    BY <1>1, ListStep
  <2>2. ListInv'
    BY <2>1 DEF ListOK, ListInv, AL!List
  <2>3. AL!Initialized'
    BY <2>1, Zenon DEF ListOK, AL!Initialized
  <2> QED BY <2>2, <2>3
<1>2. CASE UNCHANGED listVars
  <2>1. ListInv'
    BY <1>2 DEF listVars, ListInv, AL!List
  <2>2. AL!Initialized'
    BY <1>2 DEF listVars, AL!Initialized
  <2> QED BY <2>1, <2>2
<1> QED BY <1>1, <1>2

LEMMA StepKeeps == ListInv /\ [AL!Next]_listVars => [AL!KeepsBuffer /\ AL!LeavesRoom]_listVars
<1> SUFFICES ASSUME ListInv, AL!Next PROVE AL!KeepsBuffer /\ AL!LeavesRoom
  BY Zenon
<1>1. Holds(AL!List, expected) /\ ListOK
  BY ListStep
<1>2. AL!KeepsBuffer
  BY <1>1, Zenon DEF ListOK, AL!KeepsBuffer
<1>3. ASSUME NEW n \in 0 .. MaxLen, AL!Reserve(n) PROVE Len(buf') >= len' + n
  <2>1. n \in Nat
    BY ListAssumption
  <2> QED BY <1>1, <1>3, <2>1, ReserveStep
<1> QED BY <1>2, <1>3, Zenon DEF AL!LeavesRoom

(* ArrayList: whatever calls are made, the list is the one a Vec would be, no cell of it is
   uninitialized, the buffer never shrinks, and try_reserve leaves the room asked for. *)
THEOREM ListIsAVec == AL!Spec => ListAgrees
<1>1. AL!Init => ListInv /\ AL!Initialized
  <2>1. AL!Init => AL!Initialized
    BY DEF AL!Init, AL!Initialized
  <2> QED BY <2>1, InitList
<1>2. ListInv /\ AL!Initialized /\ [AL!Next]_listVars => ListInv' /\ AL!Initialized'
  BY NextList
<1>3. ListInv => AL!ListAgrees
  <2> SUFFICES ASSUME ListInv, ~panicked PROVE len <= Len(buf) /\ SubSeq(buf, 1, len) = expected
    BY DEF AL!ListAgrees
  <2>1. Holds(AL!List, expected)
    BY DEF ListInv
  <2> QED BY <2>1, BeforeFact, HoldsFact
<1>4. ListInv /\ [AL!Next]_listVars => [AL!KeepsBuffer /\ AL!LeavesRoom]_listVars
  BY StepKeeps
<1> QED BY <1>1, <1>2, <1>3, <1>4, PTL DEF AL!Spec, AL!vars, listVars, ListAgrees

-----------------------------------------------------------------------------
(***************************************************************************)
(* The hash map.                                                           *)
(***************************************************************************)
(* The module of hash tables counts as this one does. *)
LEMMA SameCount == \A S : HM!Cardinality(S) = Cardinality(S)
  BY Zenon DEF HM!Cardinality, Cardinality

(* The remainder by the next power has one bit more. *)
LEMMA NextBit ==
  ASSUME NEW h \in Nat, NEW b \in 0 .. 29
  PROVE  HM!BitAt(h, b) \in {0, 1} /\ h % 2 ^ (b + 1) = (h % 2 ^ b) + 2 ^ b * HM!BitAt(h, b)
<1> DEFINE P == 2 ^ b
           q == h \div P
           r == h % P
           c == q \div 2
           d == q % 2
<1>1. b \in 0 .. MaxPower /\ b \in 0 .. MaxPower - 1
  BY PowersOfTwo
<1>2. P \in Nat \ {0} /\ 2 ^ (b + 1) = 2 * P
  BY <1>1, PowerPositive, PowersOfTwo
<1> HIDE DEF P
<1>3. q \in Nat /\ r \in 0 .. P - 1 /\ h = q * P + r
  BY <1>2, DivFact
<1> HIDE DEF q, r
<1>4. c \in Nat /\ d \in 0 .. 1 /\ q = c * 2 + d
  BY <1>3, DivFact
<1> HIDE DEF c, d
<1>5. d = HM!BitAt(h, b)
  BY DEF HM!BitAt, P, q, d
<1>6. h = (2 * P) * c + (r + P * d)
  BY <1>2, <1>3, <1>4
<1>7. r + P * d \in 0 .. 2 * P - 1
  <2>1. CASE d = 0
    BY <2>1, <1>2, <1>3
  <2>2. CASE d = 1
    BY <2>2, <1>2, <1>3
  <2> QED BY <2>1, <2>2, <1>4
<1>8. h % (2 * P) = r + P * d
  <2> DEFINE n == 2 * P
             s == r + P * d
  <2>1. n \in Nat \ {0} /\ s \in 0 .. n - 1 /\ h = n * c + s /\ c \in Int
    BY <1>2, <1>4, <1>6, <1>7
  <2> HIDE DEF n, s
  <2>2. (n * c + s) % n = s
    BY <2>1, DivUnique
  <2>3. h % n = s
    BY <2>1, <2>2
  <2> QED BY <2>3 DEF n, s
<1>9. h % 2 ^ b = r /\ 2 ^ b = P
  BY DEF P, r
<1>10. HM!BitAt(h, b) \in {0, 1}
  BY <1>4, <1>5
<1> QED BY <1>2, <1>5, <1>8, <1>9, <1>10

(* The bits of a capacity less one are the ones below its own. *)
LEMMA MaskBits ==
  ASSUME NEW k \in 0 .. 30, NEW b \in 0 .. 29
  PROVE  HM!BitAt(2 ^ k - 1, b) = IF b < k THEN 1 ELSE 0
<1> DEFINE P == 2 ^ b
           C == 2 ^ k
<1>1. b \in 0 .. MaxPower /\ b + 1 \in 0 .. MaxPower /\ k \in 0 .. MaxPower /\ b \in 0 .. MaxPower - 1
  BY PowersOfTwo
<1>2. P \in Nat \ {0} /\ C \in Nat \ {0} /\ 2 ^ (b + 1) = 2 * P
  BY <1>1, PowerPositive, PowersOfTwo
<1>3. CASE b < k
  <2>1. k \in b + 1 .. MaxPower
    BY <1>1, <1>3
  <2>2. PICK q \in Nat \ {0} : C = q * 2 ^ (b + 1)
    BY <1>1, <2>1, PowerDivides
  <2> HIDE DEF P, C
  <2>3. C - 1 = P * (2 * q - 1) + (P - 1) /\ P - 1 \in 0 .. P - 1 /\ 2 * q - 1 \in Int
    BY <1>2, <2>2
  <2>4. (C - 1) \div P = 2 * q - 1
    BY <1>2, <2>3, DivUnique
  <2>5. (2 * q - 1) % 2 = 1
    OBVIOUS
  <2> QED BY <1>3, <2>4, <2>5 DEF HM!BitAt, P, C
<1>4. CASE ~(b < k)
  <2>1. b \in k .. MaxPower
    BY <1>1, <1>4
  <2>2. C <= P
    BY <1>1, <2>1, PowerOrder
  <2> HIDE DEF P, C
  <2>3. C - 1 = P * 0 + (C - 1) /\ C - 1 \in 0 .. P - 1
    BY <1>2, <2>2
  <2>4. (C - 1) \div P = 0
    BY <1>2, <2>3, DivUnique
  <2>5. 0 % 2 = 0
    OBVIOUS
  <2> QED BY <1>4, <2>4, <2>5 DEF HM!BitAt, P, C
<1> QED BY <1>3, <1>4

(* The sums of And, bit by bit. *)
Sums(f, x, y) ==
  f = [b \in 0 .. 30 |-> IF b = 0 THEN 0
                         ELSE f[b - 1] + 2 ^ (b - 1) * (HM!BitAt(x, b - 1) * HM!BitAt(y, b - 1))]

LEMMA SumsExist ==
  ASSUME NEW x \in Nat, NEW y \in Nat
  PROVE  \E f : Sums(f, x, y)
<1> DEFINE Add(b, s) == s + 2 ^ (b - 1) * (HM!BitAt(x, b - 1) * HM!BitAt(y, b - 1))
           step == [p \in (1 .. 30) \X Nat |-> Add(p[1], p[2])]
           X == [b \in 0 .. 30 |-> Nat]
<1>1. \A b \in 1 .. 30, s \in Nat : step[<<b, s>>] = Add(b, s)
  OBVIOUS
<1>2. \A b \in 0 .. 30 : X[b] = Nat
  OBVIOUS
<1>3. ASSUME NEW b \in 1 .. 30, NEW s \in Nat PROVE Add(b, s) \in Nat
  <2>1. b - 1 \in 0 .. 29 /\ b - 1 \in 0 .. MaxPower
    BY PowersOfTwo
  <2>2. HM!BitAt(x, b - 1) \in {0, 1} /\ HM!BitAt(y, b - 1) \in {0, 1} /\ 2 ^ (b - 1) \in Nat
    BY <2>1, NextBit, PowerFact
  <2> QED BY <2>2
<1> HIDE DEF step, X, Add
<1>4. 0 \in X[0]
  <2>1. 0 \in 0 .. 30
    OBVIOUS
  <2> QED BY <1>2, <2>1
<1>5. \A b \in 0 + 1 .. 30 : \A s \in X[b - 1] : step[<<b, s>>] = Add(b, s) /\ step[<<b, s>>] \in X[b]
  <2> SUFFICES ASSUME NEW b \in 0 + 1 .. 30, NEW s \in X[b - 1]
               PROVE  step[<<b, s>>] = Add(b, s) /\ step[<<b, s>>] \in X[b]
    OBVIOUS
  <2>1. b \in 1 .. 30 /\ b - 1 \in 0 .. 30 /\ b \in 0 .. 30
    OBVIOUS
  <2>2. s \in Nat
    BY <1>2, <2>1
  <2>3. step[<<b, s>>] = Add(b, s) /\ Add(b, s) \in Nat
    BY <1>1, <1>3, <2>1, <2>2
  <2> QED BY <1>2, <2>1, <2>3
<1>6. PICK f : Steps(f, 0, 30, 0, step) /\ \A b \in 0 .. 30 : f[b] \in X[b]
  <2> DEFINE n == 30
  <2>1. n \in Nat /\ 0 \in Nat /\ 0 <= n
    OBVIOUS
  <2>2. \A b \in 0 + 1 .. n : \A s \in X[b - 1] : step[<<b, s>>] \in X[b]
    BY <1>5
  <2> HIDE DEF n
  <2>3. \E f : Steps(f, 0, n, 0, step) /\ \A b \in 0 .. n : f[b] \in X[b]
    BY <2>1, <2>2, <1>4, LoopExists
  <2> QED BY <2>3 DEF n
<1>7. ASSUME NEW b \in 0 .. 30
      PROVE  (IF b = 0 THEN 0 ELSE step[<<b, f[b - 1]>>]) = IF b = 0 THEN 0 ELSE Add(b, f[b - 1])
  <2>1. b # 0 => b \in 0 + 1 .. 30 /\ b - 1 \in 0 .. 30
    OBVIOUS
  <2> QED BY <1>5, <1>6, <2>1
<1>8. f = [b \in 0 .. 30 |-> IF b = 0 THEN 0 ELSE Add(b, f[b - 1])]
  BY <1>6, <1>7 DEF Steps
<1>9. Sums(f, x, y)
  BY <1>8, Zenon DEF Sums, Add
<1> QED BY <1>9

(* With a power of two as the capacity the mask gives the remainder: lookup and resize agree. *)
LEMMA AndFact ==
  ASSUME NEW k \in 0 .. 30, NEW h \in Nat
  PROVE  HM!And(2 ^ k - 1, h) = h % 2 ^ k
<1> DEFINE x == 2 ^ k - 1
           f == CHOOSE g : Sums(g, x, h)
           low(b) == h % 2 ^ (IF b < k THEN b ELSE k)
           S == {b \in 0 .. 30 : f[b] = low(b)}
<1>1. x \in Nat
  <2>1. k \in 0 .. MaxPower
    BY PowersOfTwo
  <2>2. 2 ^ k \in Nat \ {0}
    BY <2>1, PowerPositive
  <2> QED BY <2>2
<1>2. \A b \in 0 .. 29 : HM!BitAt(x, b) = IF b < k THEN 1 ELSE 0
  BY MaskBits
<1>3. HM!And(x, h) = f[30]
  BY Zenon DEF HM!And, Sums
<1> HIDE DEF x
<1>4. Sums(f, x, h)
  <2>1. \E g : Sums(g, x, h)
    BY <1>1, SumsExist
  <2> QED BY <2>1, Zenon
<1> HIDE DEF f
<1>5. \A b \in 0 .. 30 : f[b] = IF b = 0 THEN 0
                                 ELSE f[b - 1] + 2 ^ (b - 1) * (HM!BitAt(x, b - 1) * HM!BitAt(h, b - 1))
  BY <1>4, Zenon DEF Sums
<1>6. 0 \in S
  <2>1. f[0] = 0
    BY <1>5
  <2>2. h % 1 = 0
    BY DivFact
  <2>3. low(0) = h % 2 ^ 0
    <3>1. ~(0 < k) => k = 0
      OBVIOUS
    <3> QED BY <3>1
  <2> QED BY <2>1, <2>2, <2>3, PowersOfTwo
<1>7. ASSUME NEW b \in 0 + 1 .. 30, b - 1 \in S PROVE b \in S
  <2>1. b \in 0 .. 30 /\ b # 0 /\ b - 1 \in 0 .. 29 /\ (b - 1) + 1 = b
    OBVIOUS
  <2>2. f[b] = f[b - 1] + 2 ^ (b - 1) * (HM!BitAt(x, b - 1) * HM!BitAt(h, b - 1))
    BY <1>5, <2>1
  <2>3. f[b - 1] = low(b - 1)
    BY <1>7
  <2>4. 2 ^ (b - 1) \in Nat /\ HM!BitAt(h, b - 1) \in {0, 1} /\ h % 2 ^ b = (h % 2 ^ (b - 1)) + 2 ^ (b - 1) * HM!BitAt(h, b - 1)
    <3>1. b - 1 \in 0 .. MaxPower
      BY PowersOfTwo
    <3>2. h % 2 ^ ((b - 1) + 1) = (h % 2 ^ (b - 1)) + 2 ^ (b - 1) * HM!BitAt(h, b - 1)
      BY <2>1, NextBit
    <3> QED BY <2>1, <3>1, <3>2, NextBit, PowerFact
  <2>5. CASE b - 1 < k
    <3>1. HM!BitAt(x, b - 1) = 1 /\ low(b - 1) = h % 2 ^ (b - 1)
      BY <1>2, <2>1, <2>5
    <3>2. low(b) = h % 2 ^ b
      <4>1. ~(b < k) => b = k
        BY <2>5
      <4> QED BY <4>1
    <3>3. 1 * HM!BitAt(h, b - 1) = HM!BitAt(h, b - 1)
      BY <2>4
    <3> HIDE DEF low
    <3>4. f[b] = low(b)
      BY <2>2, <2>3, <2>4, <3>1, <3>2, <3>3
    <3> QED BY <2>1, <3>4
  <2>6. CASE ~(b - 1 < k)
    <3>1. HM!BitAt(x, b - 1) = 0 /\ low(b - 1) = h % 2 ^ k /\ low(b) = h % 2 ^ k
      BY <1>2, <2>1, <2>6
    <3>2. 0 * HM!BitAt(h, b - 1) = 0 /\ 2 ^ (b - 1) * 0 = 0
      BY <2>4
    <3>3. h % 2 ^ k \in Nat
      <4>1. k \in 0 .. MaxPower
        BY PowersOfTwo
      <4>2. 2 ^ k \in Nat \ {0}
        BY <4>1, PowerPositive
      <4> QED BY <4>2, DivFact
    <3> HIDE DEF low
    <3>4. f[b] = low(b)
      BY <2>2, <2>3, <3>1, <3>2, <3>3
    <3> QED BY <2>1, <3>4
  <2> QED BY <2>5, <2>6
<1> HIDE DEF S, low
<1>8. 30 \in S
  <2>1. 0 \in Nat /\ 30 \in Nat /\ 0 <= 30
    OBVIOUS
  <2>2. \A b \in 0 .. 30 : b \in S
    BY <1>6, <1>7, <2>1, CountUp
  <2> QED BY <2>2
<1>9. low(30) = h % 2 ^ k
  <2>1. ~(30 < k)
    OBVIOUS
  <2> QED BY <2>1 DEF low
<1> QED BY <1>3, <1>8, <1>9 DEF S, x

Elems(c) == {c[p] : p \in 1 .. Len(c)}

Distinct(c) == \A p, q \in 1 .. Len(c) : c[p] = c[q] => p = q

\* A chain holds these keys, each once.
ChainOf(c, S) == c \in Seq(Keys) /\ Elems(c) = S /\ Distinct(c)

(* A node is pushed in front of a chain. *)
LEMMA PushedInFront ==
  ASSUME NEW c, NEW S, ChainOf(c, S), NEW k \in Keys, k \notin S
  PROVE  ChainOf(<<k>> \o c, {k} \cup S)
<1> DEFINE d == <<k>> \o c
<1>1. c \in Seq(Keys) /\ Len(c) \in Nat /\ Elems(c) = S /\ Distinct(c)
  BY DEF ChainOf
<1>2. d \in Seq(Keys) /\ Len(d) = Len(c) + 1 /\ d[1] = k
  BY <1>1
<1>3. \A p \in 1 .. Len(c) : d[p + 1] = c[p]
  BY <1>1
<1> HIDE DEF d
<1>4. \A p \in 1 .. Len(d) : p = 1 \/ (p - 1 \in 1 .. Len(c) /\ d[p] = c[p - 1])
  <2> SUFFICES ASSUME NEW p \in 1 .. Len(d), p # 1
               PROVE  p - 1 \in 1 .. Len(c) /\ d[p] = c[p - 1]
    OBVIOUS
  <2>1. p - 1 \in 1 .. Len(c) /\ (p - 1) + 1 = p
    BY <1>1, <1>2
  <2> QED BY <1>3, <2>1
<1>5. Elems(d) = {k} \cup S
  <2>1. ASSUME NEW x \in Elems(d) PROVE x \in {k} \cup S
    <3>1. PICK p \in 1 .. Len(d) : x = d[p]
      BY DEF Elems
    <3> QED BY <1>1, <1>2, <1>4, <3>1 DEF Elems
  <2>2. k \in Elems(d)
    <3>1. 1 \in 1 .. Len(d)
      BY <1>1, <1>2
    <3> QED BY <1>2, <3>1 DEF Elems
  <2>3. ASSUME NEW x \in S PROVE x \in Elems(d)
    <3>1. PICK p \in 1 .. Len(c) : x = c[p]
      BY <1>1 DEF Elems
    <3>2. p + 1 \in 1 .. Len(d)
      BY <1>1, <1>2
    <3> QED BY <1>3, <3>1, <3>2 DEF Elems
  <2> QED BY <2>1, <2>2, <2>3
<1>6. Distinct(d)
  <2> SUFFICES ASSUME NEW p \in 1 .. Len(d), NEW q \in 1 .. Len(d), d[p] = d[q], p # q PROVE FALSE
    BY DEF Distinct
  <2>1. \A r \in 1 .. Len(c) : c[r] # k
    BY <1>1 DEF Elems
  <2>2. CASE p = 1
    <3>1. q - 1 \in 1 .. Len(c) /\ d[q] = c[q - 1]
      BY <1>4, <2>2
    <3> QED BY <1>2, <2>1, <2>2, <3>1
  <2>3. CASE q = 1
    <3>1. p - 1 \in 1 .. Len(c) /\ d[p] = c[p - 1]
      BY <1>4, <2>3
    <3> QED BY <1>2, <2>1, <2>3, <3>1
  <2>4. CASE p # 1 /\ q # 1
    <3>1. p - 1 \in 1 .. Len(c) /\ q - 1 \in 1 .. Len(c) /\ c[p - 1] = c[q - 1]
      BY <1>4, <2>4
    <3>2. p - 1 = q - 1
      BY <1>1, <3>1 DEF Distinct
    <3> QED BY <3>1, <3>2
  <2> QED BY <2>2, <2>3, <2>4
<1> QED BY <1>2, <1>5, <1>6 DEF ChainOf, d

(* The pushes of a rehash, from the front of an old chain to its end. *)
Chained(f, c, chain, ours) ==
  f = [p \in 0 .. Len(c) |-> IF p = 0 THEN chain
                             ELSE IF c[p] \in ours THEN <<c[p]>> \o f[p - 1] ELSE f[p - 1]]

PushedUpTo(c, p, S, ours) == S \cup ({c[q] : q \in 1 .. p} \cap ours)

LEMMA PushRoundFact ==
  ASSUME NEW c, NEW T, ChainOf(c, T), NEW S, S \cap T = {}, NEW ours,
         NEW p \in 1 .. Len(c), NEW d, ChainOf(d, PushedUpTo(c, p - 1, S, ours))
  PROVE  ChainOf(IF c[p] \in ours THEN <<c[p]>> \o d ELSE d, PushedUpTo(c, p, S, ours))
<1>1. c \in Seq(Keys) /\ Len(c) \in Nat /\ Elems(c) = T /\ Distinct(c)
  BY DEF ChainOf
<1>2. c[p] \in Keys /\ c[p] \in T
  BY <1>1 DEF Elems
<1>3. {c[q] : q \in 1 .. p} = {c[p]} \cup {c[q] : q \in 1 .. p - 1}
  <2>1. \A q : q \in 1 .. p <=> q = p \/ q \in 1 .. p - 1
    BY <1>1
  <2> QED BY <2>1
<1>4. c[p] \notin {c[q] : q \in 1 .. p - 1}
  <2>1. \A q \in 1 .. p - 1 : q \in 1 .. Len(c) /\ q # p
    BY <1>1
  <2> QED BY <1>1, <2>1 DEF Distinct
<1>5. CASE c[p] \in ours
  <2>1. c[p] \notin PushedUpTo(c, p - 1, S, ours)
    BY <1>2, <1>4 DEF PushedUpTo
  <2>2. {c[p]} \cup PushedUpTo(c, p - 1, S, ours) = PushedUpTo(c, p, S, ours)
    BY <1>3, <1>5 DEF PushedUpTo
  <2>3. ChainOf(<<c[p]>> \o d, {c[p]} \cup PushedUpTo(c, p - 1, S, ours))
    BY <1>2, <2>1, PushedInFront
  <2> QED BY <1>5, <2>2, <2>3
<1>6. CASE c[p] \notin ours
  <2>1. PushedUpTo(c, p - 1, S, ours) = PushedUpTo(c, p, S, ours)
    BY <1>3, <1>6 DEF PushedUpTo
  <2> QED BY <1>6, <2>1
<1> QED BY <1>5, <1>6

LEMMA ChainedExists ==
  ASSUME NEW c, NEW T, ChainOf(c, T), NEW chain, NEW S, ChainOf(chain, S), S \cap T = {}, NEW ours
  PROVE  \E f : Chained(f, c, chain, ours)
<1> DEFINE n == Len(c)
           Move(p, d) == IF c[p] \in ours THEN <<c[p]>> \o d ELSE d
           step == [x \in (1 .. n) \X Seq(Keys) |-> Move(x[1], x[2])]
           X == [p \in 0 .. n |-> {d \in Seq(Keys) : ChainOf(d, PushedUpTo(c, p, S, ours))}]
<1>1. n \in Nat /\ 0 \in Nat /\ 0 <= n
  BY DEF ChainOf
<1>2. \A p \in 1 .. n, d \in Seq(Keys) : step[<<p, d>>] = Move(p, d)
  OBVIOUS
<1>3. \A p \in 0 .. n : X[p] = {d \in Seq(Keys) : ChainOf(d, PushedUpTo(c, p, S, ours))}
  OBVIOUS
<1>4. \A p \in 1 .. n : \A d : ChainOf(d, PushedUpTo(c, p - 1, S, ours)) => ChainOf(Move(p, d), PushedUpTo(c, p, S, ours))
  BY PushRoundFact
<1>5. chain \in Seq(Keys) /\ ChainOf(chain, PushedUpTo(c, 0, S, ours))
  BY DEF ChainOf, PushedUpTo
<1> HIDE DEF step, X, Move, n
<1>6. chain \in X[0]
  <2>1. 0 \in 0 .. n
    BY <1>1
  <2> QED BY <1>3, <1>5, <2>1
<1>7. \A p \in 0 + 1 .. n : \A d \in X[p - 1] : step[<<p, d>>] = Move(p, d) /\ step[<<p, d>>] \in X[p]
  <2> SUFFICES ASSUME NEW p \in 0 + 1 .. n, NEW d \in X[p - 1]
               PROVE  step[<<p, d>>] = Move(p, d) /\ step[<<p, d>>] \in X[p]
    OBVIOUS
  <2>1. p - 1 \in 0 .. n /\ p \in 0 .. n /\ p \in 1 .. n
    BY <1>1
  <2>2. d \in Seq(Keys) /\ ChainOf(d, PushedUpTo(c, p - 1, S, ours))
    BY <1>3, <2>1
  <2>3. ChainOf(Move(p, d), PushedUpTo(c, p, S, ours))
    BY <1>4, <2>1, <2>2
  <2>4. Move(p, d) \in Seq(Keys)
    BY <2>3 DEF ChainOf
  <2> QED BY <1>2, <1>3, <2>1, <2>2, <2>3, <2>4
<1>8. PICK f : Steps(f, 0, n, chain, step) /\ \A p \in 0 .. n : f[p] \in X[p]
  BY <1>1, <1>6, <1>7, LoopExists
<1>9. ASSUME NEW p \in 0 .. n
      PROVE  (IF p = 0 THEN chain ELSE step[<<p, f[p - 1]>>]) = IF p = 0 THEN chain ELSE Move(p, f[p - 1])
  <2>1. p # 0 => p \in 0 + 1 .. n /\ p - 1 \in 0 .. n
    BY <1>1
  <2> QED BY <1>7, <1>8, <2>1
<1>10. f = [p \in 0 .. n |-> IF p = 0 THEN chain ELSE Move(p, f[p - 1])]
  BY <1>8, <1>9 DEF Steps
<1>11. Chained(f, c, chain, ours)
  BY <1>10, Zenon DEF Chained, Move, n
<1> QED BY <1>11

(* The chain gets the keys of the old chain that belong to it. *)
LEMMA PushAllFact ==
  ASSUME NEW c, NEW T, ChainOf(c, T), NEW chain, NEW S, ChainOf(chain, S), S \cap T = {}, NEW ours
  PROVE  ChainOf(HM!PushAll(c, chain, ours), S \cup (T \cap ours))
<1> DEFINE n == Len(c)
           f == CHOOSE g : Chained(g, c, chain, ours)
           Good == {p \in 0 .. n : ChainOf(f[p], PushedUpTo(c, p, S, ours))}
<1>1. n \in Nat /\ 0 \in Nat /\ 0 <= n
  BY DEF ChainOf
<1>2. HM!PushAll(c, chain, ours) = f[n]
  BY Zenon DEF HM!PushAll, Chained
<1>3. Chained(f, c, chain, ours)
  <2>1. \E g : Chained(g, c, chain, ours)
    BY ChainedExists
  <2> QED BY <2>1, Zenon
<1> HIDE DEF f
<1>4. \A p \in 0 .. n : f[p] = IF p = 0 THEN chain
                               ELSE IF c[p] \in ours THEN <<c[p]>> \o f[p - 1] ELSE f[p - 1]
  BY <1>3, Zenon DEF Chained
<1>5. 0 \in Good
  <2>1. 0 \in 0 .. n
    BY <1>1
  <2>2. f[0] = chain
    BY <1>4, <2>1
  <2>3. PushedUpTo(c, 0, S, ours) = S
    BY DEF PushedUpTo
  <2> QED BY <2>1, <2>2, <2>3
<1>6. ASSUME NEW p \in 0 + 1 .. n, p - 1 \in Good PROVE p \in Good
  <2>1. p \in 0 .. n /\ p \in 1 .. n /\ p # 0
    BY <1>1
  <2>2. ChainOf(f[p - 1], PushedUpTo(c, p - 1, S, ours))
    BY <1>6
  <2>3. f[p] = IF c[p] \in ours THEN <<c[p]>> \o f[p - 1] ELSE f[p - 1]
    BY <1>4, <2>1
  <2>4. ChainOf(f[p], PushedUpTo(c, p, S, ours))
    BY <2>1, <2>2, <2>3, PushRoundFact
  <2> QED BY <2>1, <2>4
<1> HIDE DEF Good
<1>7. n \in Good
  <2> HIDE DEF n
  <2>1. \A p \in 0 .. n : p \in Good
    BY <1>1, <1>5, <1>6, CountUp
  <2> QED BY <1>1, <2>1
<1>8. PushedUpTo(c, n, S, ours) = S \cup (T \cap ours)
  BY DEF PushedUpTo, ChainOf, Elems
<1> QED BY <1>2, <1>7, <1>8 DEF Good

\* A table of n chains, each key in the one that its hash belongs to.
TableOf(t, n) ==
  /\ n \in Nat /\ t \in [0 .. n - 1 -> Seq(Keys)]
  /\ \A i \in 0 .. n - 1 : Distinct(t[i]) /\ \A k \in Elems(t[i]) : Hash[k] % n = i

NodesUpTo(t, i) == UNION {Elems(t[j]) : j \in 0 .. i - 1}

LEMMA TableFact ==
  ASSUME NEW t, NEW n, TableOf(t, n)
  PROVE  /\ HM!Cap(t) = n /\ DOMAIN t = 0 .. n - 1 /\ HM!Nodes(t) = NodesUpTo(t, n)
         /\ \A i \in 0 .. n - 1 : ChainOf(t[i], Elems(t[i])) /\ Elems(t[i]) \subseteq Keys
<1>1. n \in Nat /\ DOMAIN t = 0 .. n - 1 /\ \A i \in 0 .. n - 1 : t[i] \in Seq(Keys)
  BY DEF TableOf
<1>2. HM!Cap(t) = n
  <2>1. Cardinality(0 .. n - 1) = n
    <3>1. CASE n = 0
      <4>1. 0 .. n - 1 = {}
        BY <3>1
      <4> QED BY <3>1, <4>1, FS_EmptySet
    <3>2. CASE n # 0
      <4>1. 0 \in Int /\ n - 1 \in Int /\ ~(0 > n - 1)
        BY <1>1, <3>2
      <4>2. Cardinality(0 .. n - 1) = (n - 1) - 0 + 1
        BY <4>1, FS_Interval
      <4> QED BY <1>1, <4>2
    <3> QED BY <3>1, <3>2
  <2> QED BY <1>1, <2>1, SameCount DEF HM!Cap
<1>3. \A i \in 0 .. n - 1 : HM!Range(t[i]) = Elems(t[i])
  BY <1>1 DEF HM!Range, Elems
<1>4. HM!Nodes(t) = NodesUpTo(t, n)
  BY <1>1, <1>3 DEF HM!Nodes, NodesUpTo
<1>5. ASSUME NEW i \in 0 .. n - 1 PROVE ChainOf(t[i], Elems(t[i])) /\ Elems(t[i]) \subseteq Keys
  <2>1. t[i] \in Seq(Keys) /\ Distinct(t[i])
    BY <1>1 DEF TableOf
  <2> QED BY <2>1 DEF ChainOf, Elems
<1> QED BY <1>1, <1>2, <1>4, <1>5

(* The rounds of a rehash, one old chain each, for one of the new chains. *)
Gathers(f, t, n, ours) ==
  f = [i \in 0 .. n |-> IF i = 0 THEN <<>> ELSE HM!PushAll(t[i - 1], f[i - 1], ours)]

LEMMA GatherRound ==
  ASSUME NEW t, NEW n, TableOf(t, n), NEW ours, NEW i \in 1 .. n,
         NEW d, ChainOf(d, NodesUpTo(t, i - 1) \cap ours)
  PROVE  ChainOf(HM!PushAll(t[i - 1], d, ours), NodesUpTo(t, i) \cap ours)
<1> DEFINE c == t[i - 1]
           T == Elems(c)
           S == NodesUpTo(t, i - 1) \cap ours
<1>1. n \in Nat /\ i - 1 \in 0 .. n - 1
  BY DEF TableOf
<1>2. ChainOf(c, T)
  BY <1>1, TableFact
<1>3. S \cap T = {}
  <2> SUFFICES ASSUME NEW k, k \in NodesUpTo(t, i - 1), k \in T PROVE FALSE
    OBVIOUS
  <2>1. PICK j \in 0 .. (i - 1) - 1 : k \in Elems(t[j])
    BY DEF NodesUpTo
  <2>2. j \in 0 .. n - 1 /\ j # i - 1
    BY <1>1
  <2>3. Hash[k] % n = j /\ Hash[k] % n = i - 1
    BY <1>1, <2>1, <2>2 DEF TableOf
  <2> QED BY <2>2, <2>3
<1>4. S \cup (T \cap ours) = NodesUpTo(t, i) \cap ours
  <2>1. \A j : j \in 0 .. i - 1 <=> j = i - 1 \/ j \in 0 .. (i - 1) - 1
    BY <1>1
  <2>2. NodesUpTo(t, i) = NodesUpTo(t, i - 1) \cup T
    BY <2>1 DEF NodesUpTo
  <2> QED BY <2>2
<1>5. ChainOf(d, S)
  OBVIOUS
<1> HIDE DEF c, T, S
<1>6. ChainOf(HM!PushAll(c, d, ours), S \cup (T \cap ours))
  BY <1>2, <1>3, <1>5, PushAllFact
<1> QED BY <1>4, <1>6 DEF c

LEMMA GathersExist ==
  ASSUME NEW t, NEW n, TableOf(t, n), NEW ours
  PROVE  \E f : Gathers(f, t, n, ours)
<1> DEFINE Move(i, d) == HM!PushAll(t[i - 1], d, ours)
           step == [x \in (1 .. n) \X Seq(Keys) |-> Move(x[1], x[2])]
           X == [i \in 0 .. n |-> {d \in Seq(Keys) : ChainOf(d, NodesUpTo(t, i) \cap ours)}]
<1>1. n \in Nat /\ 0 \in Nat /\ 0 <= n
  BY DEF TableOf
<1>2. \A i \in 1 .. n, d \in Seq(Keys) : step[<<i, d>>] = Move(i, d)
  OBVIOUS
<1>3. \A i \in 0 .. n : X[i] = {d \in Seq(Keys) : ChainOf(d, NodesUpTo(t, i) \cap ours)}
  OBVIOUS
<1>4. \A i \in 1 .. n : \A d : ChainOf(d, NodesUpTo(t, i - 1) \cap ours) => ChainOf(Move(i, d), NodesUpTo(t, i) \cap ours)
  BY GatherRound
<1>5. <<>> \in Seq(Keys) /\ ChainOf(<<>>, NodesUpTo(t, 0) \cap ours)
  <2>1. Elems(<<>>) = {} /\ Distinct(<<>>) /\ <<>> \in Seq(Keys)
    BY DEF Elems, Distinct
  <2>2. NodesUpTo(t, 0) = {}
    BY DEF NodesUpTo
  <2> QED BY <2>1, <2>2 DEF ChainOf
<1> HIDE DEF step, X, Move
<1>6. <<>> \in X[0]
  <2>1. 0 \in 0 .. n
    BY <1>1
  <2> QED BY <1>3, <1>5, <2>1
<1>7. \A i \in 0 + 1 .. n : \A d \in X[i - 1] : step[<<i, d>>] = Move(i, d) /\ step[<<i, d>>] \in X[i]
  <2> SUFFICES ASSUME NEW i \in 0 + 1 .. n, NEW d \in X[i - 1]
               PROVE  step[<<i, d>>] = Move(i, d) /\ step[<<i, d>>] \in X[i]
    OBVIOUS
  <2>1. i - 1 \in 0 .. n /\ i \in 0 .. n /\ i \in 1 .. n
    BY <1>1
  <2>2. d \in Seq(Keys) /\ ChainOf(d, NodesUpTo(t, i - 1) \cap ours)
    BY <1>3, <2>1
  <2>3. ChainOf(Move(i, d), NodesUpTo(t, i) \cap ours)
    BY <1>4, <2>1, <2>2
  <2>4. Move(i, d) \in Seq(Keys)
    BY <2>3 DEF ChainOf
  <2> QED BY <1>2, <1>3, <2>1, <2>2, <2>3, <2>4
<1>8. PICK f : Steps(f, 0, n, <<>>, step) /\ \A i \in 0 .. n : f[i] \in X[i]
  BY <1>1, <1>6, <1>7, LoopExists
<1>9. ASSUME NEW i \in 0 .. n
      PROVE  (IF i = 0 THEN <<>> ELSE step[<<i, f[i - 1]>>]) = IF i = 0 THEN <<>> ELSE Move(i, f[i - 1])
  <2>1. i # 0 => i \in 0 + 1 .. n /\ i - 1 \in 0 .. n
    BY <1>1
  <2> QED BY <1>7, <1>8, <2>1
<1>10. f = [i \in 0 .. n |-> IF i = 0 THEN <<>> ELSE Move(i, f[i - 1])]
  BY <1>8, <1>9 DEF Steps
<1>11. Gathers(f, t, n, ours)
  BY <1>10, Zenon DEF Gathers, Move
<1> QED BY <1>11

(* A new chain gets those of all nodes that belong to it, each once. *)
LEMMA GatheredFact ==
  ASSUME NEW t, NEW n, TableOf(t, n), NEW ours
  PROVE  ChainOf(HM!Gathered(t, ours), HM!Nodes(t) \cap ours)
<1> DEFINE f == CHOOSE g : Gathers(g, t, n, ours)
           Good == {i \in 0 .. n : ChainOf(f[i], NodesUpTo(t, i) \cap ours)}
<1>1. n \in Nat /\ 0 \in Nat /\ 0 <= n /\ HM!Cap(t) = n /\ HM!Nodes(t) = NodesUpTo(t, n)
  <2>1. n \in Nat
    BY DEF TableOf
  <2> QED BY <2>1, TableFact
<1>2. HM!Gathered(t, ours) = f[n]
  BY <1>1, Zenon DEF HM!Gathered, Gathers
<1>3. Gathers(f, t, n, ours)
  <2>1. \E g : Gathers(g, t, n, ours)
    BY GathersExist
  <2> QED BY <2>1, Zenon
<1> HIDE DEF f
<1>4. \A i \in 0 .. n : f[i] = IF i = 0 THEN <<>> ELSE HM!PushAll(t[i - 1], f[i - 1], ours)
  BY <1>3, Zenon DEF Gathers
<1>5. 0 \in Good
  <2>1. 0 \in 0 .. n
    BY <1>1
  <2>2. f[0] = <<>>
    BY <1>4, <2>1
  <2>3. NodesUpTo(t, 0) = {}
    BY DEF NodesUpTo
  <2>4. ChainOf(<<>>, {})
    BY DEF ChainOf, Elems, Distinct
  <2>5. NodesUpTo(t, 0) \cap ours = {}
    BY <2>3
  <2> QED BY <2>1, <2>2, <2>4, <2>5
<1>6. ASSUME NEW i \in 0 + 1 .. n, i - 1 \in Good PROVE i \in Good
  <2>1. i \in 0 .. n /\ i \in 1 .. n /\ i # 0
    BY <1>1
  <2>2. ChainOf(f[i - 1], NodesUpTo(t, i - 1) \cap ours)
    BY <1>6
  <2>3. f[i] = HM!PushAll(t[i - 1], f[i - 1], ours)
    BY <1>4, <2>1
  <2>4. ChainOf(f[i], NodesUpTo(t, i) \cap ours)
    BY <2>1, <2>2, <2>3, GatherRound
  <2> QED BY <2>1, <2>4
<1> HIDE DEF Good
<1>7. \A i \in 0 .. n : i \in Good
  BY <1>1, <1>5, <1>6, CountUp
<1>8. n \in Good
  BY <1>1, <1>7
<1> QED BY <1>1, <1>2, <1>8 DEF Good

\* What a capacity is.
Powers == {2 ^ b : b \in 0 .. 30}

LEMMA PowersFact ==
  /\ \A n \in Powers : n \in Nat \ {0}
  /\ \A n \in Powers, h \in Nat : HM!And(n - 1, h) = h % n /\ h % n \in 0 .. n - 1
<1>1. ASSUME NEW n \in Powers, NEW h \in Nat
      PROVE  n \in Nat \ {0} /\ HM!And(n - 1, h) = h % n /\ h % n \in 0 .. n - 1
  <2>1. PICK b \in 0 .. 30 : n = 2 ^ b
    BY DEF Powers
  <2>2. b \in 0 .. MaxPower
    BY PowersOfTwo
  <2>3. n \in Nat \ {0}
    BY <2>1, <2>2, PowerPositive
  <2>4. HM!And(n - 1, h) = h % n
    BY <2>1, AndFact
  <2> QED BY <2>3, <2>4, DivFact
<1>2. 0 \in Nat
  OBVIOUS
<1> QED BY <1>1, <1>2

(* Rehashing gives a table of the new capacity with the same nodes. *)
LEMMA RehashedFact ==
  ASSUME NEW t, NEW m, TableOf(t, m), NEW n \in Nat \ {0}
  PROVE  TableOf(HM!Rehashed(t, n, Hash), n) /\ HM!Nodes(HM!Rehashed(t, n, Hash)) = HM!Nodes(t)
<1> DEFINE u == HM!Rehashed(t, n, Hash)
           ours(i) == {x \in DOMAIN Hash : Hash[x] % n = i}
<1>1. Hash \in [Keys -> Nat] /\ DOMAIN Hash = Keys
  BY MapAssumption
<1>2. HM!Nodes(t) \subseteq Keys
  <2>1. ASSUME NEW k \in NodesUpTo(t, m) PROVE k \in Keys
    <3>1. PICK j \in 0 .. m - 1 : k \in Elems(t[j])
      BY DEF NodesUpTo
    <3> QED BY <3>1, TableFact
  <2> QED BY <2>1, TableFact
<1>3. u = [i \in 0 .. n - 1 |-> HM!Gathered(t, ours(i))]
  BY DEF HM!Rehashed
<1>4. \A i \in 0 .. n - 1 : u[i] = HM!Gathered(t, ours(i))
  BY <1>3
<1>5. ASSUME NEW i \in 0 .. n - 1
      PROVE  ChainOf(u[i], HM!Nodes(t) \cap ours(i))
  BY <1>4, GatheredFact
<1>6. \A i \in 0 .. n - 1 : u[i] \in Seq(Keys) /\ Distinct(u[i]) /\ Elems(u[i]) = HM!Nodes(t) \cap ours(i)
  BY <1>5 DEF ChainOf
<1>7. u \in [0 .. n - 1 -> Seq(Keys)]
  BY <1>3, <1>6
<1> HIDE DEF u
<1>8. \A i \in 0 .. n - 1 : \A k \in Elems(u[i]) : Hash[k] % n = i
  BY <1>6
<1>9. TableOf(u, n)
  BY <1>6, <1>7, <1>8 DEF TableOf
<1>10. HM!Nodes(u) = NodesUpTo(u, n)
  BY <1>9, TableFact
<1>11. ASSUME NEW k \in HM!Nodes(t) PROVE k \in NodesUpTo(u, n)
  <2>1. Hash[k] \in Nat /\ k \in DOMAIN Hash
    BY <1>1, <1>2
  <2>2. Hash[k] % n \in 0 .. n - 1
    BY <2>1, DivFact
  <2>3. k \in Elems(u[Hash[k] % n])
    BY <1>6, <2>1, <2>2
  <2> QED BY <2>2, <2>3 DEF NodesUpTo
<1>12. ASSUME NEW k \in NodesUpTo(u, n) PROVE k \in HM!Nodes(t)
  BY <1>6 DEF NodesUpTo
<1> QED BY <1>9, <1>10, <1>11, <1>12 DEF u

\* The keys of chain i, and the replacement of that chain.
BelongTo(S, n, i) == \A k \in S : Hash[k] % n = i

Replaces(u, t, i, d) == u = [t EXCEPT ![i] = d]

(* A chain is replaced by one of keys that belong there too. *)
LEMMA ChainReplaced ==
  ASSUME NEW t, NEW n, TableOf(t, n), NEW i \in 0 .. n - 1,
         NEW d, NEW S, ChainOf(d, S), BelongTo(S, n, i),
         NEW u, Replaces(u, t, i, d)
  PROVE  TableOf(u, n) /\ HM!Nodes(u) = (HM!Nodes(t) \ Elems(t[i])) \cup S
<1>1. n \in Nat /\ t \in [0 .. n - 1 -> Seq(Keys)]
  BY DEF TableOf
<1>2. d \in Seq(Keys) /\ Elems(d) = S /\ Distinct(d)
  BY DEF ChainOf
<1>3. u \in [0 .. n - 1 -> Seq(Keys)] /\ \A j \in 0 .. n - 1 : u[j] = IF j = i THEN d ELSE t[j]
  BY <1>1, <1>2 DEF Replaces
<1>4. TableOf(u, n)
  BY <1>1, <1>2, <1>3 DEF TableOf, BelongTo
<1>5. HM!Nodes(u) = NodesUpTo(u, n) /\ HM!Nodes(t) = NodesUpTo(t, n)
  BY <1>4, TableFact
<1>6. ASSUME NEW j \in 0 .. n - 1, j # i PROVE Elems(t[j]) \cap Elems(t[i]) = {}
  BY <1>6 DEF TableOf
<1>7. ASSUME NEW k \in NodesUpTo(u, n) PROVE k \in (NodesUpTo(t, n) \ Elems(t[i])) \cup S
  <2>1. PICK j \in 0 .. n - 1 : k \in Elems(u[j])
    BY DEF NodesUpTo
  <2>2. CASE j = i
    BY <1>2, <1>3, <2>1, <2>2
  <2>3. CASE j # i
    <3>1. k \in Elems(t[j]) /\ k \notin Elems(t[i])
      BY <1>3, <1>6, <2>1, <2>3
    <3> QED BY <3>1 DEF NodesUpTo
  <2> QED BY <2>2, <2>3
<1>8. ASSUME NEW k \in (NodesUpTo(t, n) \ Elems(t[i])) \cup S PROVE k \in NodesUpTo(u, n)
  <2>1. CASE k \in S
    BY <1>2, <1>3, <2>1 DEF NodesUpTo
  <2>2. CASE k \notin S
    <3>1. PICK j \in 0 .. n - 1 : k \in Elems(t[j])
      BY <2>2 DEF NodesUpTo
    <3>2. j # i
      BY <2>2, <3>1
    <3> QED BY <1>3, <3>1, <3>2 DEF NodesUpTo
  <2> QED BY <2>1, <2>2
<1> QED BY <1>4, <1>5, <1>7, <1>8

(* Where lookups search is where the node of a key is. *)
LEMMA HomeFact ==
  ASSUME NEW t, NEW n \in Powers, TableOf(t, n), NEW k \in Keys
  PROVE  /\ HM!Home(t, Hash[k]) = Hash[k] % n /\ Hash[k] % n \in 0 .. n - 1
         /\ k \in HM!Nodes(t) <=> k \in Elems(t[Hash[k] % n])
<1>1. Hash[k] \in Nat
  BY MapAssumption
<1>2. HM!Home(t, Hash[k]) = Hash[k] % n /\ Hash[k] % n \in 0 .. n - 1
  BY <1>1, PowersFact, TableFact DEF HM!Home
<1>3. ASSUME k \in HM!Nodes(t) PROVE k \in Elems(t[Hash[k] % n])
  <2>1. PICK j \in 0 .. n - 1 : k \in Elems(t[j])
    BY <1>3, TableFact DEF NodesUpTo
  <2>2. Hash[k] % n = j
    BY <2>1 DEF TableOf
  <2> QED BY <2>1, <2>2
<1>4. ASSUME k \in Elems(t[Hash[k] % n]) PROVE k \in HM!Nodes(t)
  BY <1>2, <1>4, TableFact DEF NodesUpTo
<1> QED BY <1>2, <1>3, <1>4

LEMMA PushNodeFact ==
  ASSUME NEW t, NEW n \in Powers, TableOf(t, n), NEW k \in Keys, k \notin HM!Nodes(t)
  PROVE  /\ TableOf(HM!PushNode(t, k, Hash[k]), n)
         /\ HM!Nodes(HM!PushNode(t, k, Hash[k])) = HM!Nodes(t) \cup {k}
<1> DEFINE i == Hash[k] % n
           d == <<k>> \o t[i]
<1>1. HM!Home(t, Hash[k]) = i /\ i \in 0 .. n - 1 /\ k \notin Elems(t[i])
  BY HomeFact
<1>2. HM!PushNode(t, k, Hash[k]) = [t EXCEPT ![i] = d]
  BY <1>1 DEF HM!PushNode
<1>3. ChainOf(d, {k} \cup Elems(t[i]))
  BY <1>1, TableFact, PushedInFront
<1>4. \A l \in {k} \cup Elems(t[i]) : Hash[l] % n = i
  BY <1>1 DEF TableOf
<1>5. Elems(t[i]) \subseteq HM!Nodes(t)
  BY <1>1, TableFact DEF NodesUpTo
<1> HIDE DEF i, d
<1> DEFINE u == HM!PushNode(t, k, Hash[k])
           S == {k} \cup Elems(t[i])
<1>6. i \in 0 .. n - 1 /\ ChainOf(d, S) /\ BelongTo(S, n, i) /\ Replaces(u, t, i, d)
  BY <1>1, <1>2, <1>3, <1>4 DEF BelongTo, Replaces
<1>7. HM!Nodes(t) = (HM!Nodes(t) \ Elems(t[i])) \cup Elems(t[i])
  BY <1>5
<1> HIDE DEF u, S
<1>8. TableOf(u, n) /\ HM!Nodes(u) = (HM!Nodes(t) \ Elems(t[i])) \cup S
  BY <1>6, ChainReplaced
<1>9. HM!Nodes(u) = HM!Nodes(t) \cup {k}
  BY <1>7, <1>8 DEF S
<1> QED BY <1>8, <1>9 DEF u

(* What remove_node leaves of a chain: all but the node and those between it and the head. *)
LEMMA CutFact ==
  ASSUME NEW c, NEW T, ChainOf(c, T), NEW p \in 1 .. Len(c)
  PROVE  /\ c[p] \in T /\ HM!DroppedWith(c, p) \subseteq T \ {c[p]}
         /\ ChainOf(HM!CutChain(c, p), T \ ({c[p]} \cup HM!DroppedWith(c, p)))
<1> DEFINE d == HM!CutChain(c, p)
           D == HM!DroppedWith(c, p)
           from(r) == IF p = 1 THEN r + 1 ELSE IF r = 1 THEN 1 ELSE p - 1 + r
<1>1. c \in Seq(Keys) /\ Len(c) \in Nat /\ Elems(c) = T /\ \A q, r \in 1 .. Len(c) : c[q] = c[r] => q = r
  BY DEF ChainOf, Distinct
<1>2. d \in Seq(Keys) /\ Len(d) = (IF p = 1 THEN Len(c) - 1 ELSE Len(c) - p + 1)
      /\ \A r \in 1 .. Len(d) : d[r] = c[from(r)]
  <2>1. CASE p = 1
    <3>1. d = Tail(c) /\ c # <<>>
      BY <1>1, <2>1 DEF HM!CutChain
    <3> QED BY <1>1, <2>1, <3>1
  <2>2. CASE p # 1
    <3> DEFINE e == SubSeq(c, p + 1, Len(c))
    <3>1. d = <<Head(c)>> \o e
      BY <2>2 DEF HM!CutChain
    <3>2. c # <<>> /\ Head(c) = c[1] /\ c[1] \in Keys
      BY <1>1, <2>2
    <3>3. e \in Seq(Keys) /\ Len(e) = Len(c) - p /\ \A r \in 1 .. Len(e) : e[r] = c[p + r]
      <4>1. p + 1 \in 1 .. Len(c) + 1 /\ Len(c) \in 0 .. Len(c)
        BY <1>1
      <4> QED BY <1>1, <4>1, SubSeqProperties
    <3> HIDE DEF e
    <3>4. d \in Seq(Keys) /\ Len(d) = Len(c) - p + 1 /\ d[1] = c[1]
      BY <1>1, <3>1, <3>2, <3>3
    <3>5. ASSUME NEW r \in 1 .. Len(d), r # 1 PROVE d[r] = c[p - 1 + r]
      <4>1. r - 1 \in 1 .. Len(e) /\ p + (r - 1) = p - 1 + r
        BY <1>1, <3>3, <3>4, <3>5
      <4>2. d[r] = e[r - 1]
        BY <3>1, <3>2, <3>3, <3>5, <4>1
      <4> QED BY <3>3, <4>1, <4>2
    <3> QED BY <2>2, <3>4, <3>5
  <2> QED BY <2>1, <2>2
<1>3. D = {c[q] : q \in 2 .. p - 1}
  BY DEF HM!DroppedWith
<1> HIDE DEF d, D
<1>4. \A r \in 1 .. Len(d) : from(r) \in 1 .. Len(c) /\ from(r) # p /\ from(r) \notin 2 .. p - 1
  BY <1>1, <1>2
<1>5. \A q \in 1 .. Len(c) : q # p /\ q \notin 2 .. p - 1 => \E r \in 1 .. Len(d) : from(r) = q
  <2> SUFFICES ASSUME NEW q \in 1 .. Len(c), q # p, q \notin 2 .. p - 1
               PROVE  \E r \in 1 .. Len(d) : from(r) = q
    OBVIOUS
  <2>1. CASE p = 1
    <3>1. q - 1 \in 1 .. Len(d) /\ from(q - 1) = q
      BY <1>1, <1>2, <2>1
    <3> QED BY <3>1
  <2>2. CASE p # 1 /\ q = 1
    <3>1. 1 \in 1 .. Len(d) /\ from(1) = q
      BY <1>1, <1>2, <2>2
    <3> QED BY <3>1
  <2>3. CASE p # 1 /\ q # 1
    <3>1. q > p
      BY <1>1, <2>3
    <3>2. q - p + 1 \in 1 .. Len(d) /\ from(q - p + 1) = q
      BY <1>1, <1>2, <2>3, <3>1
    <3> QED BY <3>2
  <2> QED BY <2>1, <2>2, <2>3
<1>6. \A r, s \in 1 .. Len(d) : from(r) = from(s) => r = s
  BY <1>1, <1>2
<1> HIDE DEF from
<1>7. c[p] \in T /\ D \subseteq T \ {c[p]}
  <2>1. \A q \in 2 .. p - 1 : q \in 1 .. Len(c) /\ q # p
    BY <1>1
  <2> QED BY <1>1, <1>3, <2>1 DEF Elems
<1>8. Distinct(d)
  <2> SUFFICES ASSUME NEW r \in 1 .. Len(d), NEW s \in 1 .. Len(d), d[r] = d[s] PROVE r = s
    BY DEF Distinct
  <2>1. from(r) \in 1 .. Len(c) /\ from(s) \in 1 .. Len(c)
    BY <1>4
  <2>2. c[from(r)] = c[from(s)]
    BY <1>2
  <2>3. from(r) = from(s)
    BY <1>1, <2>1, <2>2
  <2> QED BY <1>6, <2>3
<1>9. Elems(d) = T \ ({c[p]} \cup D)
  <2>1. ASSUME NEW x \in Elems(d) PROVE x \in T \ ({c[p]} \cup D)
    <3>1. PICK r \in 1 .. Len(d) : x = d[r]
      BY DEF Elems
    <3>2. x = c[from(r)] /\ from(r) \in 1 .. Len(c) /\ from(r) # p /\ from(r) \notin 2 .. p - 1
      BY <1>2, <1>4, <3>1
    <3>3. x # c[p] /\ x \in T
      BY <1>1, <3>2 DEF Elems
    <3>4. x \notin D
      <4>1. \A q \in 2 .. p - 1 : q \in 1 .. Len(c)
        BY <1>1
      <4> QED BY <1>1, <1>3, <3>2, <4>1
    <3> QED BY <3>3, <3>4
  <2>2. ASSUME NEW x \in T, x # c[p], x \notin D PROVE x \in Elems(d)
    <3>1. PICK q \in 1 .. Len(c) : x = c[q]
      BY <1>1 DEF Elems
    <3>2. q # p /\ q \notin 2 .. p - 1
      BY <1>3, <2>2, <3>1
    <3>3. PICK r \in 1 .. Len(d) : from(r) = q
      BY <1>5, <3>2
    <3> QED BY <1>2, <3>1, <3>3 DEF Elems
  <2> QED BY <2>1, <2>2
<1> QED BY <1>2, <1>7, <1>8, <1>9 DEF ChainOf, d, D

(* The same for the table. *)
LEMMA CutTableFact ==
  ASSUME NEW t, NEW n, TableOf(t, n), NEW i \in 0 .. n - 1, NEW p \in 1 .. Len(t[i]),
         NEW D, D = HM!DroppedWith(t[i], p),
         NEW u, Replaces(u, t, i, HM!CutChain(t[i], p))
  PROVE  /\ TableOf(u, n) /\ HM!Nodes(u) = HM!Nodes(t) \ ({t[i][p]} \cup D)
         /\ t[i][p] \in HM!Nodes(t) /\ D \subseteq HM!Nodes(t) \ {t[i][p]}
<1> DEFINE c == t[i]
           T == Elems(c)
           d == HM!CutChain(c, p)
           S == T \ ({c[p]} \cup D)
<1>1. ChainOf(c, T)
  BY TableFact
<1>2. c[p] \in T /\ D \subseteq T \ {c[p]} /\ ChainOf(d, S)
  BY <1>1, CutFact
<1>3. BelongTo(S, n, i) /\ Replaces(u, t, i, d)
  BY DEF TableOf, BelongTo
<1>4. T \subseteq HM!Nodes(t)
  BY TableFact DEF NodesUpTo
<1> HIDE DEF S, d
<1>5. TableOf(u, n) /\ HM!Nodes(u) = (HM!Nodes(t) \ Elems(t[i])) \cup S
  BY <1>2, <1>3, ChainReplaced
<1>6. (\A k \in HM!Nodes(t) \ T : k # c[p] /\ k \notin D)
  BY <1>2
<1>7. HM!Nodes(u) = HM!Nodes(t) \ ({c[p]} \cup D)
  BY <1>4, <1>5, <1>6 DEF S
<1> QED BY <1>2, <1>4, <1>5, <1>7

(* The places of a table hold its nodes, each at one place. *)
LEMMA PlacesFact ==
  ASSUME NEW t, NEW n, TableOf(t, n)
  PROVE  /\ \A x \in HM!Places(t) : /\ HM!NodeAt(t, x) \in HM!Nodes(t) /\ HM!NodeAt(t, x) \in Keys
                                    /\ Hash[HM!NodeAt(t, x)] % n = x[1]
         /\ \A x, y \in HM!Places(t) : HM!NodeAt(t, x) = HM!NodeAt(t, y) => x = y
         /\ \A k \in HM!Nodes(t) : \E x \in HM!Places(t) : HM!NodeAt(t, x) = k
<1>1. /\ DOMAIN t = 0 .. n - 1 /\ HM!Nodes(t) = NodesUpTo(t, n)
      /\ \A i \in 0 .. n - 1 : t[i] \in Seq(Keys) /\ DOMAIN t[i] = 1 .. Len(t[i])
  <2>1. \A i \in 0 .. n - 1 : t[i] \in Seq(Keys)
    BY DEF TableOf
  <2> QED BY <2>1, TableFact
<1>2. ASSUME NEW x \in HM!Places(t)
      PROVE  \E i \in 0 .. n - 1 : \E p \in 1 .. Len(t[i]) : x = <<i, p>> /\ HM!NodeAt(t, x) = t[i][p]
  <2>1. PICK i \in 0 .. n - 1 : x \in {i} \X (1 .. Len(t[i]))
    BY <1>1 DEF HM!Places
  <2>2. PICK p \in 1 .. Len(t[i]) : x = <<i, p>>
    BY <2>1
  <2>3. HM!NodeAt(t, x) = t[i][p]
    BY <2>2 DEF HM!NodeAt
  <2> QED BY <2>2, <2>3
<1>3. ASSUME NEW i \in 0 .. n - 1, NEW p \in 1 .. Len(t[i])
      PROVE  <<i, p>> \in HM!Places(t) /\ HM!NodeAt(t, <<i, p>>) = t[i][p]
  BY <1>1 DEF HM!Places, HM!NodeAt
<1>4. ASSUME NEW i \in 0 .. n - 1, NEW p \in 1 .. Len(t[i])
      PROVE  t[i][p] \in Keys /\ t[i][p] \in HM!Nodes(t) /\ Hash[t[i][p]] % n = i
  <2>1. t[i][p] \in Elems(t[i])
    BY DEF Elems
  <2>2. t[i][p] \in NodesUpTo(t, n) /\ Hash[t[i][p]] % n = i
    BY <2>1 DEF NodesUpTo, TableOf
  <2> QED BY <1>1, <2>2
<1>5. ASSUME NEW x \in HM!Places(t)
      PROVE  /\ HM!NodeAt(t, x) \in HM!Nodes(t) /\ HM!NodeAt(t, x) \in Keys
             /\ Hash[HM!NodeAt(t, x)] % n = x[1]
  <2>1. PICK i \in 0 .. n - 1 : \E p \in 1 .. Len(t[i]) : x = <<i, p>> /\ HM!NodeAt(t, x) = t[i][p]
    BY <1>2
  <2>2. PICK p \in 1 .. Len(t[i]) : x = <<i, p>> /\ HM!NodeAt(t, x) = t[i][p]
    BY <2>1
  <2>3. x[1] = i
    BY <2>2
  <2> QED BY <1>4, <2>2, <2>3
<1>6. ASSUME NEW x \in HM!Places(t), NEW y \in HM!Places(t), HM!NodeAt(t, x) = HM!NodeAt(t, y)
      PROVE  x = y
  <2>1. PICK i \in 0 .. n - 1 : \E p \in 1 .. Len(t[i]) : x = <<i, p>> /\ HM!NodeAt(t, x) = t[i][p]
    BY <1>2
  <2>2. PICK j \in 0 .. n - 1 : \E q \in 1 .. Len(t[j]) : y = <<j, q>> /\ HM!NodeAt(t, y) = t[j][q]
    BY <1>2
  <2>3. PICK p \in 1 .. Len(t[i]) : x = <<i, p>> /\ HM!NodeAt(t, x) = t[i][p]
    BY <2>1
  <2>4. PICK q \in 1 .. Len(t[j]) : y = <<j, q>> /\ HM!NodeAt(t, y) = t[j][q]
    BY <2>2
  <2>5. i = j
    BY <1>4, <1>6, <2>3, <2>4
  <2>6. p = q
    BY <1>6, <2>3, <2>4, <2>5 DEF TableOf, Distinct
  <2> QED BY <2>3, <2>4, <2>5, <2>6
<1>7. ASSUME NEW k \in HM!Nodes(t) PROVE \E x \in HM!Places(t) : HM!NodeAt(t, x) = k
  <2>1. PICK i \in 0 .. n - 1 : k \in Elems(t[i])
    BY <1>1 DEF NodesUpTo
  <2>2. PICK p \in 1 .. Len(t[i]) : k = t[i][p]
    BY <2>1 DEF Elems
  <2> QED BY <1>3, <2>2
<1> QED BY <1>5, <1>6, <1>7

LEMMA PlacesCount ==
  ASSUME NEW t, NEW n, TableOf(t, n), IsFiniteSet(HM!Nodes(t))
  PROVE  Cardinality(HM!Places(t)) = Cardinality(HM!Nodes(t))
<1> DEFINE N == HM!Nodes(t)
           P == HM!Places(t)
           at(x) == HM!NodeAt(t, x)
           f == [k \in N |-> CHOOSE x \in P : at(x) = k]
<1>1. \A x \in P : at(x) \in N
  BY PlacesFact
<1>2. \A x, y \in P : at(x) = at(y) => x = y
  BY PlacesFact
<1>3. \A k \in N : \E x \in P : at(x) = k
  BY PlacesFact
<1>4. IsFiniteSet(N)
  OBVIOUS
<1> HIDE DEF N, P, at
<1>5. ASSUME NEW k \in N PROVE f[k] \in P /\ at(f[k]) = k
  <2>1. f[k] = CHOOSE x \in P : at(x) = k
    OBVIOUS
  <2> HIDE DEF f
  <2> QED BY <1>3, <2>1
<1>6. f \in [N -> P]
  BY <1>5
<1> HIDE DEF f
<1>7. \A k, l \in N : f[k] = f[l] => k = l
  BY <1>5
<1>8. \A x \in P : \E k \in N : f[k] = x
  BY <1>1, <1>2, <1>5
<1>9. ExistsBijection(N, P)
  BY <1>6, <1>7, <1>8 DEF ExistsBijection, Bijection, Injection, Surjection, IsInjective
<1>10. Cardinality(P) = Cardinality(N)
  BY <1>4, <1>9, FS_Bijection
<1> QED BY <1>10 DEF P, N

(* The maximum and the least number counted before the first resize. *)
LEMMA MaxCapacityFact ==
  /\ MAXIMUM_CAPACITY \in Powers /\ MAXIMUM_CAPACITY \in Nat \ {0}
  /\ DEFAULT_INITIAL_CAPACITY \in Nat \ {0}
  /\ HM!U32MAX \in Nat /\ MAXIMUM_CAPACITY <= HM!U32MAX
  /\ MaxSize \in Nat /\ MaxSize <= HM!U32MAX
<1>1. MAXIMUM_CAPACITY \in Powers /\ DEFAULT_INITIAL_CAPACITY \in Powers
  BY MapAssumption DEF Powers
<1>2. MAXIMUM_CAPACITY \in Nat \ {0} /\ DEFAULT_INITIAL_CAPACITY \in Nat \ {0}
  BY <1>1, PowersFact
<1>3. HM!U32MAX \in Nat /\ MAXIMUM_CAPACITY <= HM!U32MAX
  BY <1>2 DEF HM!U32MAX
<1>4. MaxSize \in 0 .. HM!U32MAX
  BY MapAssumption
<1> QED BY <1>1, <1>2, <1>3, <1>4

LEMMA FirstThresholdFact ==
  ASSUME NEW c \in InitialCapacities
  PROVE  HM!FirstThreshold(c) \in Powers /\ HM!FirstThreshold(c) <= MAXIMUM_CAPACITY
<1> DEFINE M == MAXIMUM_CAPACITY
           cap == IF c > M THEN M ELSE c
           l == cap - 1
           T == {m \in HM!Masks : m >= l}
<1>1. M \in Powers /\ M \in Nat \ {0} /\ c \in Nat /\ c >= 2
  BY MaxCapacityFact, MapAssumption
<1>2. cap \in Nat /\ 1 <= cap /\ cap <= M /\ l \in Nat /\ l < M
  BY <1>1
<1>3. \A b \in 1 .. 30 : 2 ^ b \in Nat \ {0}
  <2> SUFFICES ASSUME NEW b \in 1 .. 30 PROVE 2 ^ b \in Nat \ {0}
    OBVIOUS
  <2>1. b \in 0 .. MaxPower
    BY PowersOfTwo
  <2> QED BY <2>1, PowerPositive
<1>4. T \subseteq Nat
  BY <1>3 DEF HM!Masks
<1>5. T # {}
  <2>1. PICK a \in 0 .. 30 : M = 2 ^ a
    BY <1>1 DEF Powers
  <2>2. a \in 0 .. MaxPower /\ 30 \in a .. MaxPower /\ 30 \in 1 .. 30
    BY PowersOfTwo
  <2>3. M <= 2 ^ 30
    BY <2>1, <2>2, PowerOrder
  <2>4. 2 ^ 30 - 1 \in HM!Masks
    BY <2>2 DEF HM!Masks
  <2>5. 2 ^ 30 \in Nat
    BY <1>3, <2>2
  <2>6. 2 ^ 30 - 1 >= l
    BY <1>1, <1>2, <2>3, <2>5
  <2> QED BY <2>4, <2>6
<1> HIDE DEF l, cap, M
<1>6. \E m \in T : \A k \in T : m <= k
  BY <1>4, <1>5, LeastNatural
<1>7. \E m \in HM!Masks : m >= l /\ \A k \in HM!Masks : k >= l => m <= k
  BY <1>6
<1>8. HM!MaskOf(l) \in HM!Masks
  BY <1>7 DEF HM!MaskOf
<1>9. PICK b \in 1 .. 30 : HM!MaskOf(l) = 2 ^ b - 1
  BY <1>8 DEF HM!Masks
<1>10. HM!FirstThreshold(c) = IF 2 ^ b - 1 >= M THEN M ELSE 2 ^ b - 1 + 1
  BY <1>9 DEF HM!FirstThreshold, HM!TableSizeFor, M, l, cap
<1>11. 2 ^ b \in Powers /\ 2 ^ b \in Nat
  <2>1. b \in 0 .. 30
    OBVIOUS
  <2> QED BY <1>3, <2>1 DEF Powers
<1>12. HM!FirstThreshold(c) \in Powers /\ HM!FirstThreshold(c) <= M
  BY <1>1, <1>10, <1>11
<1> QED BY <1>12 DEF M

\* A table, and the threshold that goes with its capacity.
Grown(t, n, thr) ==
  /\ n \in Powers /\ TableOf(t, n) /\ n <= MAXIMUM_CAPACITY
  /\ thr \in 1 .. HM!U32MAX
  /\ n < MAXIMUM_CAPACITY => thr <= n
  /\ n = MAXIMUM_CAPACITY => thr = HM!U32MAX

LEMMA LoadThresholdFact ==
  ASSUME NEW n \in Powers, n <= MAXIMUM_CAPACITY
  PROVE  /\ HM!LoadThreshold(n) \in 1 .. HM!U32MAX
         /\ n < MAXIMUM_CAPACITY => HM!LoadThreshold(n) <= n /\ 3 * n <= 4 * HM!LoadThreshold(n) + 1
         /\ n = MAXIMUM_CAPACITY => HM!LoadThreshold(n) = HM!U32MAX
<1>1. n \in Nat \ {0} /\ MAXIMUM_CAPACITY \in Nat \ {0} /\ HM!U32MAX \in Nat /\ MAXIMUM_CAPACITY <= HM!U32MAX
  BY PowersFact, MaxCapacityFact
<1>2. CASE n < MAXIMUM_CAPACITY
  <2> DEFINE a == 3 * n + 2
             q == a \div 4
             r == a % 4
  <2>1. a \in Nat /\ 4 \in Nat \ {0}
    BY <1>1
  <2>2. HM!LoadThreshold(n) = a \div 4
    BY <1>2 DEF HM!LoadThreshold
  <2> HIDE DEF a
  <2>3. q \in Nat /\ r \in 0 .. 3 /\ a = q * 4 + r
    BY <2>1, DivFact
  <2> HIDE DEF q, r
  <2>4. 1 <= q /\ q <= n /\ 3 * n <= 4 * q + 1
    BY <1>1, <2>3 DEF a
  <2> QED BY <1>1, <1>2, <2>2, <2>3, <2>4 DEF q
<1>3. CASE n = MAXIMUM_CAPACITY
  BY <1>1, <1>3 DEF HM!LoadThreshold
<1> QED BY <1>1, <1>2, <1>3

(* A table that grows keeps its nodes, and has room for one more. *)
LEMMA TableGrows ==
  ASSUME NEW t, NEW n, NEW thr, Grown(t, n, thr), n < MAXIMUM_CAPACITY,
         NEW s \in Nat, s <= thr, s + 1 <= HM!U32MAX,
         NEW m, m = HM!Resize(t, thr)
  PROVE  /\ Grown(m.table, 2 * n, m.threshold) /\ HM!Nodes(m.table) = HM!Nodes(t)
         /\ s + 1 <= m.threshold
<1> DEFINE M == MAXIMUM_CAPACITY
           doubled == n >= DEFAULT_INITIAL_CAPACITY /\ 2 * n < M
<1>1. /\ n \in Powers /\ n \in Nat \ {0} /\ M \in Powers /\ M \in Nat \ {0} /\ n < M
      /\ thr \in Nat /\ 1 <= thr /\ thr <= n /\ HM!U32MAX \in Nat /\ M <= HM!U32MAX
      /\ DEFAULT_INITIAL_CAPACITY \in Nat
  BY MaxCapacityFact, PowersFact DEF Grown
<1>2. TableOf(t, n) /\ HM!Cap(t) = n
  BY TableFact DEF Grown
<1>3. 2 * n \in Powers /\ 2 * n <= M
  <2>1. PICK a \in 0 .. 30 : M = 2 ^ a
    BY <1>1 DEF Powers
  <2>2. PICK b \in 0 .. 30 : n = 2 ^ b
    BY <1>1 DEF Powers
  <2>3. a \in 0 .. MaxPower /\ b \in 0 .. MaxPower /\ MaxPower \in Nat
    BY PowersOfTwo
  <2>4. b < a
    <3> SUFFICES ASSUME a <= b PROVE FALSE
      BY <2>3
    <3>1. b \in a .. MaxPower
      BY <2>3
    <3>2. 2 ^ a <= 2 ^ b
      BY <2>3, <3>1, PowerOrder
    <3> QED BY <1>1, <2>1, <2>2, <3>2
  <2>5. a \in b .. MaxPower /\ b \in 0 .. MaxPower - 1 /\ b + 1 \in 0 .. 30
    BY <2>3, <2>4
  <2>6. 2 * 2 ^ b <= 2 ^ a /\ 2 ^ (b + 1) = 2 * 2 ^ b
    BY <2>3, <2>4, <2>5, PowerOrder, PowersOfTwo
  <2> QED BY <2>1, <2>2, <2>5, <2>6 DEF Powers
<1>4. m = [table |-> HM!Rehashed(t, 2 * n, Hash),
           threshold |-> IF doubled THEN 2 * thr ELSE HM!LoadThreshold(2 * n)]
  <2>1. n # 0 /\ ~(n >= M)
    BY <1>1
  <2> QED BY <1>2, <2>1 DEF HM!Resize
<1>5. 2 * n \in Nat \ {0}
  BY <1>1
<1>6. TableOf(m.table, 2 * n) /\ HM!Nodes(m.table) = HM!Nodes(t)
  BY <1>2, <1>4, <1>5, RehashedFact
<1>7. m.threshold = IF doubled THEN 2 * thr ELSE HM!LoadThreshold(2 * n)
  BY <1>4
<1>8. CASE doubled
  <2>1. m.threshold = 2 * thr /\ 2 * n < M
    BY <1>7, <1>8
  <2>2. m.threshold \in 1 .. HM!U32MAX /\ m.threshold <= 2 * n /\ s + 1 <= m.threshold
    BY <1>1, <2>1
  <2> QED BY <1>1, <1>3, <1>5, <1>6, <2>1, <2>2 DEF Grown
<1>9. CASE ~doubled
  <2> DEFINE L == HM!LoadThreshold(2 * n)
  <2>1. m.threshold = L
    BY <1>7, <1>9
  <2>2. /\ L \in 1 .. HM!U32MAX
        /\ 2 * n < M => L <= 2 * n /\ 3 * (2 * n) <= 4 * L + 1
        /\ 2 * n = M => L = HM!U32MAX
    BY <1>3, LoadThresholdFact
  <2> HIDE DEF L
  <2>3. s + 1 <= L
    BY <1>1, <1>3, <2>2
  <2> QED BY <1>3, <1>6, <2>1, <2>2, <2>3 DEF Grown
<1> QED BY <1>8, <1>9

(* The first table. *)
LEMMA NoTableFact == TableOf(HM!NoTable, 0) /\ HM!Nodes(HM!NoTable) = {} /\ HM!Cap(HM!NoTable) = 0
<1>1. HM!NoTable \in [0 .. 0 - 1 -> Seq(Keys)]
  BY DEF HM!NoTable
<1>2. TableOf(HM!NoTable, 0)
  BY <1>1 DEF TableOf
<1>3. HM!Nodes(HM!NoTable) = {} /\ HM!Cap(HM!NoTable) = 0
  BY <1>2, TableFact DEF NodesUpTo
<1> QED BY <1>2, <1>3

LEMMA FirstTable ==
  ASSUME NEW thr \in Powers, thr <= MAXIMUM_CAPACITY,
         NEW m, m = HM!Resize(HM!NoTable, thr)
  PROVE  Grown(m.table, thr, m.threshold) /\ HM!Nodes(m.table) = {}
<1>1. /\ thr \in Nat \ {0} /\ MAXIMUM_CAPACITY \in Nat \ {0} /\ DEFAULT_INITIAL_CAPACITY \in Nat \ {0}
  BY MaxCapacityFact, PowersFact
<1>2. m = [table |-> HM!Rehashed(HM!NoTable, thr, Hash), threshold |-> HM!LoadThreshold(thr)]
  <2>1. ~(0 >= MAXIMUM_CAPACITY) /\ ~(0 >= DEFAULT_INITIAL_CAPACITY)
    BY <1>1
  <2> QED BY <2>1, NoTableFact DEF HM!Resize
<1>3. TableOf(m.table, thr) /\ HM!Nodes(m.table) = {}
  BY <1>1, <1>2, NoTableFact, RehashedFact
<1>4. m.threshold = HM!LoadThreshold(thr)
  BY <1>2
<1> QED BY <1>3, <1>4, LoadThresholdFact DEF Grown

(* A table that is there is not none. *)
LEMMA ThereFact ==
  ASSUME NEW t, NEW n, NEW thr, Grown(t, n, thr)
  PROVE  t # HM!NoTable
<1>1. n \in Nat \ {0} /\ HM!Cap(t) = n
  BY PowersFact, TableFact DEF Grown
<1> QED BY <1>1, NoTableFact

\* The map before and after a call: the table and its threshold, the count of the nodes,
\* and what is known of each key.
Shaped(t, thr, s) ==
  \/ t = HM!NoTable /\ thr \in Powers /\ thr <= MAXIMUM_CAPACITY /\ s = 0
  \/ (\E n : Grown(t, n, thr)) /\ s <= thr

Counted(N, s, d) == IsFiniteSet(N) /\ d \in Nat /\ s = Cardinality(N) + d /\ s <= MaxSize

Answers(N, v, r, l) ==
  /\ v \in [Keys -> Values \cup {None}] /\ r \in [Keys -> Values \cup {None}] /\ l \subseteq Keys
  /\ \A k \in Keys : k \in N => k \notin l /\ v[k] = r[k]
  /\ \A k \in Keys : k \notin N => k \in l \/ r[k] = None

\* An entry remembers whether its key is in the table.
Remembers(e, t) ==
  \/ e = HM!NoEntry
  \/ \E k \in Keys : /\ e = [kind |-> "vacant", key |-> k]
                     /\ t # HM!NoTable /\ k \notin HM!Nodes(t)
  \/ \E k \in Keys : e = [kind |-> "occupied", key |-> k] /\ k \in HM!Nodes(t)

MapOK ==
  /\ Shaped(table, threshold, size) /\ Counted(HM!Nodes(table), size, dropped)
  /\ Answers(HM!Nodes(table), val, ref, lost)

MapInv == MapOK /\ Remembers(entry, table)

LEMMA CountFact ==
  ASSUME NEW N, NEW s, NEW d, Counted(N, s, d)
  PROVE  s \in 0 .. MaxSize /\ Cardinality(N) \in Nat /\ d \in Nat /\ MaxSize \in Nat /\ s = Cardinality(N) + d
<1>1. Cardinality(N) \in Nat
  BY FS_CardinalityType DEF Counted
<1> QED BY <1>1, MaxCapacityFact DEF Counted

(* Whether a lookup finds a key. *)
LEMMA ContainsFact ==
  ASSUME NEW s, Shaped(table, threshold, s), NEW k \in Keys
  PROVE  HM!Contains(k) <=> k \in HM!Nodes(table)
<1>1. CASE table = HM!NoTable
  BY <1>1, NoTableFact DEF HM!Contains
<1>2. CASE table # HM!NoTable
  <2>1. PICK n : Grown(table, n, threshold)
    BY <1>2 DEF Shaped
  <2>2. n \in Powers /\ TableOf(table, n)
    BY <2>1 DEF Grown
  <2> DEFINE i == HM!Home(table, Hash[k])
  <2>3. i \in 0 .. n - 1 /\ (k \in HM!Nodes(table) <=> k \in Elems(table[i]))
    BY <2>2, HomeFact
  <2> HIDE DEF i
  <2>4. table[i] \in Seq(Keys)
    BY <2>2, <2>3 DEF TableOf
  <2>5. HM!Range(table[i]) = Elems(table[i])
    BY <2>4 DEF HM!Range, Elems
  <2> QED BY <1>2, <2>3, <2>5 DEF HM!Contains, i
<1> QED BY <1>1, <1>2

(* put_val and entry have a table to search and to fill. *)
LEMMA MadeFact ==
  ASSUME Shaped(table, threshold, size), NEW m, m = HM!Made
  PROVE  /\ Shaped(m.table, m.threshold, size) /\ HM!Nodes(m.table) = HM!Nodes(table)
         /\ m.table # HM!NoTable
<1>1. CASE table = HM!NoTable
  <2>1. m = HM!Resize(HM!NoTable, threshold)
    BY <1>1 DEF HM!Made
  <2>2. ~ \E n : Grown(table, n, threshold)
    BY <1>1, ThereFact
  <2>3. threshold \in Powers /\ threshold <= MAXIMUM_CAPACITY /\ size = 0
    BY <2>2 DEF Shaped
  <2>4. Grown(m.table, threshold, m.threshold) /\ HM!Nodes(m.table) = {}
    BY <2>1, <2>3, FirstTable
  <2>5. m.threshold \in Nat /\ size <= m.threshold
    BY <2>3, <2>4, MaxCapacityFact DEF Grown
  <2> QED BY <1>1, <2>4, <2>5, NoTableFact, ThereFact DEF Shaped
<1>2. CASE table # HM!NoTable
  <2>1. m.table = table /\ m.threshold = threshold
    BY <1>2 DEF HM!Made
  <2> QED BY <1>2, <2>1
<1> QED BY <1>1, <1>2

(* A new node is in the table, and the table large enough. *)
LEMMA NodeInserted ==
  ASSUME NEW m, Shaped(m.table, m.threshold, size), m.table # HM!NoTable,
         NEW k \in Keys, k \notin HM!Nodes(m.table), size \in Nat, size < MaxSize,
         NEW r, r = HM!Inserted(m, k)
  PROVE  /\ Shaped(r.table, r.threshold, size + 1) /\ HM!Nodes(r.table) = HM!Nodes(m.table) \cup {k}
         /\ r.table # HM!NoTable
<1>1. PICK n : Grown(m.table, n, m.threshold)
  BY DEF Shaped
<1>2. size <= m.threshold /\ n \in Powers /\ TableOf(m.table, n)
  BY <1>1 DEF Shaped, Grown
<1> DEFINE t == HM!PushNode(m.table, k, Hash[k])
<1>3. TableOf(t, n) /\ HM!Nodes(t) = HM!Nodes(m.table) \cup {k}
  BY <1>2, PushNodeFact
<1>4. r = IF size + 1 > m.threshold THEN HM!Resize(t, m.threshold)
          ELSE [table |-> t, threshold |-> m.threshold]
  BY DEF HM!Inserted
<1> HIDE DEF t
<1>5. Grown(t, n, m.threshold)
  BY <1>1, <1>3 DEF Grown
<1>6. size + 1 <= HM!U32MAX /\ m.threshold \in Nat /\ HM!U32MAX \in Nat
  BY <1>1, MaxCapacityFact DEF Grown
<1>7. CASE size + 1 > m.threshold
  <2>1. n \in Nat /\ MAXIMUM_CAPACITY \in Nat /\ n <= MAXIMUM_CAPACITY
        /\ (n = MAXIMUM_CAPACITY => m.threshold = HM!U32MAX)
    BY <1>1, <1>2, MaxCapacityFact, PowersFact DEF Grown
  <2>2. n < MAXIMUM_CAPACITY
    BY <1>6, <1>7, <2>1
  <2>3. r = HM!Resize(t, m.threshold)
    BY <1>4, <1>7
  <2>4. /\ Grown(r.table, 2 * n, r.threshold) /\ HM!Nodes(r.table) = HM!Nodes(t)
        /\ size + 1 <= r.threshold
    BY <1>2, <1>5, <1>6, <2>2, <2>3, TableGrows
  <2> QED BY <1>3, <2>4, ThereFact DEF Shaped
<1>8. CASE ~(size + 1 > m.threshold)
  <2>1. r.table = t /\ r.threshold = m.threshold
    BY <1>4, <1>8
  <2>2. size + 1 <= m.threshold
    BY <1>6, <1>8
  <2> QED BY <1>3, <1>5, <2>1, <2>2, ThereFact DEF Shaped
<1> QED BY <1>7, <1>8

(* put_val's tail and VacantEntry::insert. *)
LEMMA InsertNewFact ==
  ASSUME MapOK, NEW m, Shaped(m.table, m.threshold, size), m.table # HM!NoTable,
         HM!Nodes(m.table) = HM!Nodes(table),
         NEW k \in Keys, k \notin HM!Nodes(table), NEW v \in Values, HM!InsertNew(m, k, v)
  PROVE  MapOK'
<1> DEFINE N == HM!Nodes(table)
           r == HM!Inserted(m, k)
<1>1. /\ size < MaxSize /\ table' = r.table /\ threshold' = r.threshold /\ size' = size + 1
      /\ val' = [val EXCEPT ![k] = v] /\ ref' = [ref EXCEPT ![k] = v] /\ lost' = lost \ {k}
      /\ dropped' = dropped
  BY DEF HM!InsertNew, HM!SetMap, HM!Expect
<1>2. Counted(N, size, dropped) /\ Answers(N, val, ref, lost)
  BY DEF MapOK
<1>3. size \in Nat /\ Cardinality(N) \in Nat /\ dropped \in Nat /\ MaxSize \in Nat /\ size = Cardinality(N) + dropped
  BY <1>2, CountFact
<1>4. Shaped(table', threshold', size') /\ HM!Nodes(table') = N \cup {k}
  <2>1. k \notin HM!Nodes(m.table)
    OBVIOUS
  <2> HIDE DEF r
  <2>2. /\ Shaped(r.table, r.threshold, size + 1) /\ HM!Nodes(r.table) = HM!Nodes(m.table) \cup {k}
    BY <1>1, <1>3, <2>1, NodeInserted DEF r
  <2> QED BY <1>1, <2>2
<1>5. Counted(N \cup {k}, size', dropped')
  <2>1. IsFiniteSet(N) /\ k \notin N
    BY <1>2 DEF Counted
  <2>2. IsFiniteSet(N \cup {k}) /\ Cardinality(N \cup {k}) = Cardinality(N) + 1
    BY <2>1, FS_AddElement
  <2> HIDE DEF N
  <2> QED BY <1>1, <1>3, <2>2 DEF Counted
<1> HIDE DEF N
<1>6. Answers(N \cup {k}, val', ref', lost')
  BY <1>1, <1>2 DEF Answers
<1> QED BY <1>4, <1>5, <1>6 DEF MapOK

(* The value of a node is replaced. *)
LEMMA ReplaceFact ==
  ASSUME MapOK, NEW k \in Keys, k \in HM!Nodes(table), NEW v \in Values, HM!ReplaceValue(k, v)
  PROVE  MapOK' /\ table' = table
<1> DEFINE N == HM!Nodes(table)
<1>1. /\ table' = table /\ threshold' = threshold /\ size' = size /\ dropped' = dropped
      /\ val' = [val EXCEPT ![k] = v] /\ ref' = [ref EXCEPT ![k] = v] /\ lost' = lost \ {k}
  BY DEF HM!ReplaceValue, HM!Expect
<1>2. Shaped(table, threshold, size) /\ Counted(N, size, dropped) /\ Answers(N, val, ref, lost)
  BY DEF MapOK
<1>3. HM!Nodes(table') = N /\ k \in N
  BY <1>1
<1> HIDE DEF N
<1>4. Answers(N, val', ref', lost')
  BY <1>1, <1>2, <1>3 DEF Answers
<1> QED BY <1>1, <1>2, <1>3, <1>4 DEF MapOK

(* remove_node takes the node out of the table, and those before it but the head. *)
LEMMA RemoveNodeFact ==
  ASSUME MapOK, NEW k \in Keys, k \in HM!Nodes(table), HM!RemoveNode(k), threshold' = threshold
  PROVE  MapOK'
<1> DEFINE N == HM!Nodes(table)
           i == HM!Home(table, Hash[k])
           c == table[i]
           p == CHOOSE q \in DOMAIN c : c[q] = k
           cut == HM!DroppedWith(c, p)
<1>1. /\ table' = [table EXCEPT ![i] = HM!CutChain(c, p)] /\ size' = size - 1
      /\ val' = [x \in Keys |-> IF x = k \/ x \in cut THEN None ELSE val[x]]
      /\ ref' = [ref EXCEPT ![k] = None] /\ lost' = lost \cup cut
      /\ dropped' = dropped + HM!Cardinality(cut)
  BY DEF HM!RemoveNode
<1>2. Shaped(table, threshold, size) /\ Counted(N, size, dropped) /\ Answers(N, val, ref, lost)
  BY DEF MapOK
<1>3. table # HM!NoTable
  BY NoTableFact
<1>4. PICK n : Grown(table, n, threshold)
  BY <1>2, <1>3 DEF Shaped
<1>5. n \in Powers /\ TableOf(table, n) /\ size <= threshold /\ threshold \in Nat
  BY <1>2, <1>3, <1>4, MaxCapacityFact DEF Shaped, Grown
<1>6. i \in 0 .. n - 1 /\ k \in Elems(c)
  BY <1>5, HomeFact
<1>7. DOMAIN c = 1 .. Len(c)
  BY <1>5, <1>6 DEF TableOf
<1>8. p \in 1 .. Len(c) /\ c[p] = k
  <2>1. \E q \in DOMAIN c : c[q] = k
    BY <1>6, <1>7 DEF Elems
  <2> HIDE DEF c
  <2> QED BY <1>7, <2>1
<1> HIDE DEF p
<1> DEFINE D == {k} \cup cut
<1>10. /\ TableOf(table', n) /\ HM!Nodes(table') = N \ D
       /\ cut \subseteq N \ {k}
  <2> DEFINE u == table'
  <2>1. Replaces(u, table, i, HM!CutChain(table[i], p))
    BY <1>1 DEF Replaces
  <2> HIDE DEF u, i, cut
  <2>2. /\ TableOf(u, n) /\ HM!Nodes(u) = HM!Nodes(table) \ ({table[i][p]} \cup cut)
        /\ cut \subseteq HM!Nodes(table) \ {table[i][p]}
    <3>1. cut = HM!DroppedWith(table[i], p)
      BY DEF cut
    <3>2. TableOf(table, n) /\ i \in 0 .. n - 1 /\ p \in 1 .. Len(table[i])
      BY <1>5, <1>6, <1>8
    <3> QED BY <2>1, <3>1, <3>2, CutTableFact
  <2> QED BY <1>8, <2>2 DEF u
<1> HIDE DEF N, cut, i, c
<1>11. k \in N
  BY DEF N
<1>12. size \in Nat /\ Cardinality(N) \in Nat /\ dropped \in Nat /\ MaxSize \in Nat
       /\ size = Cardinality(N) + dropped /\ IsFiniteSet(N) /\ size <= MaxSize
  BY <1>2, CountFact DEF Counted
<1>13. /\ IsFiniteSet(N \ D) /\ Cardinality(cut) \in Nat /\ Cardinality(N \ D) \in Nat
       /\ Cardinality(N \ D) + Cardinality(cut) + 1 = Cardinality(N)
  <2>1. D \subseteq N /\ D = cut \cup {k} /\ k \notin cut /\ cut \subseteq N
    BY <1>10, <1>11
  <2>2. IsFiniteSet(cut) /\ Cardinality(cut) \in Nat
    BY <1>12, <2>1, FS_Subset, FS_CardinalityType
  <2>3. Cardinality(D) = Cardinality(cut) + 1
    BY <2>1, <2>2, FS_AddElement
  <2>4. N \cap D = D
    BY <2>1
  <2>5. IsFiniteSet(N \ D) /\ Cardinality(N \ D) = Cardinality(N) - Cardinality(D)
    BY <1>12, <2>4, FS_Difference
  <2>6. Cardinality(N \ D) \in Nat
    BY <2>5, FS_CardinalityType
  <2> HIDE DEF D
  <2> QED BY <1>12, <2>2, <2>3, <2>5, <2>6
<1>14. dropped' = dropped + Cardinality(cut)
  BY <1>1, SameCount
<1>15. Counted(N \ D, size', dropped')
  <2> HIDE DEF D
  <2> QED BY <1>1, <1>12, <1>13, <1>14 DEF Counted
<1>16. Grown(table', n, threshold') /\ size' <= threshold'
  <2>1. size' = size - 1
    BY <1>1
  <2> QED BY <1>4, <1>5, <1>10, <1>12, <2>1 DEF Grown
<1>17. Answers(N \ D, val', ref', lost')
  <2>1. cut \subseteq N \ {k}
    BY <1>10
  <2>2. N \subseteq Keys
    <3>1. ASSUME NEW x \in NodesUpTo(table, n) PROVE x \in Keys
      <4>1. PICK j \in 0 .. n - 1 : x \in Elems(table[j])
        BY DEF NodesUpTo
      <4> QED BY <1>5, <4>1, TableFact
    <3> QED BY <1>5, <3>1, TableFact DEF N
  <2> QED BY <1>1, <1>2, <1>11, <2>1, <2>2 DEF Answers
<1> QED BY <1>10, <1>15, <1>16, <1>17 DEF MapOK, Shaped

(* put, remove, clear. *)
LEMMA PutStep ==
  ASSUME MapInv, NEW k \in Keys, NEW v \in Values, HM!Put(k, v)
  PROVE  MapInv'
<1>1. MapOK /\ entry = HM!NoEntry /\ entry' = entry
  BY DEF MapInv, HM!Put
<1>2. HM!Contains(k) <=> k \in HM!Nodes(table)
  BY <1>1, ContainsFact DEF MapOK
<1>3. CASE HM!Contains(k)
  <2>1. HM!ReplaceValue(k, v)
    BY <1>3 DEF HM!Put
  <2> QED BY <1>1, <1>2, <1>3, <2>1, ReplaceFact DEF MapInv, Remembers
<1>4. CASE ~HM!Contains(k)
  <2> DEFINE m == HM!Made
  <2>1. HM!InsertNew(m, k, v)
    BY <1>4 DEF HM!Put
  <2>2. /\ Shaped(m.table, m.threshold, size) /\ HM!Nodes(m.table) = HM!Nodes(table)
        /\ m.table # HM!NoTable
    BY <1>1, MadeFact DEF MapOK
  <2> HIDE DEF m
  <2>3. MapOK'
    BY <1>1, <1>2, <1>4, <2>1, <2>2, InsertNewFact
  <2> QED BY <1>1, <2>3 DEF MapInv, Remembers
<1> QED BY <1>3, <1>4

LEMMA MapRemoveStep ==
  ASSUME MapInv, NEW k \in Keys, HM!Remove(k)
  PROVE  MapInv'
<1>1. MapOK /\ entry = HM!NoEntry /\ entry' = entry /\ threshold' = threshold
  BY DEF MapInv, HM!Remove
<1>2. HM!Contains(k) <=> k \in HM!Nodes(table)
  BY <1>1, ContainsFact DEF MapOK
<1>3. CASE HM!Contains(k)
  <2>1. HM!RemoveNode(k)
    BY <1>3 DEF HM!Remove
  <2> QED BY <1>1, <1>2, <1>3, <2>1, RemoveNodeFact DEF MapInv, Remembers
<1>4. CASE ~HM!Contains(k)
  <2> DEFINE N == HM!Nodes(table)
  <2>1. /\ ref' = [ref EXCEPT ![k] = None] /\ lost' = lost \ {k}
        /\ table' = table /\ size' = size /\ val' = val /\ dropped' = dropped
    BY <1>4 DEF HM!Remove, HM!Expect
  <2>2. Shaped(table, threshold, size) /\ Counted(N, size, dropped) /\ Answers(N, val, ref, lost)
    BY <1>1 DEF MapOK
  <2>3. HM!Nodes(table') = N /\ k \notin N
    BY <1>2, <1>4, <2>1
  <2> HIDE DEF N
  <2>4. Answers(N, val', ref', lost')
    BY <2>1, <2>2, <2>3 DEF Answers
  <2> QED BY <1>1, <2>1, <2>2, <2>3, <2>4 DEF MapInv, MapOK, Remembers
<1> QED BY <1>3, <1>4

LEMMA MapClearStep ==
  ASSUME MapInv, HM!Clear
  PROVE  MapInv'
<1>1. /\ table # HM!NoTable /\ table' = HM!EmptyTable(HM!Cap(table)) /\ size' = 0
      /\ val' = [k \in Keys |-> None] /\ ref' = [k \in Keys |-> None] /\ lost' = {} /\ dropped' = 0
      /\ threshold' = threshold /\ entry = HM!NoEntry /\ entry' = entry
  BY DEF HM!Clear
<1>2. PICK n : Grown(table, n, threshold)
  BY <1>1 DEF MapInv, MapOK, Shaped
<1>3. n \in Powers /\ n \in Nat /\ HM!Cap(table) = n /\ threshold \in Nat
  BY <1>2, PowersFact, TableFact, MaxCapacityFact DEF Grown
<1>4. table' = [i \in 0 .. n - 1 |-> <<>>]
  BY <1>1, <1>3 DEF HM!EmptyTable
<1>5. \A i \in 0 .. n - 1 : table'[i] = <<>> /\ Elems(table'[i]) = {} /\ Distinct(table'[i])
  BY <1>4 DEF Elems, Distinct
<1>6. table' \in [0 .. n - 1 -> Seq(Keys)]
  BY <1>4
<1>7. TableOf(table', n)
  BY <1>3, <1>5, <1>6 DEF TableOf
<1> DEFINE u == table'
<1>8. HM!Nodes(u) = {}
  <2>1. TableOf(u, n)
    BY <1>7
  <2>2. HM!Nodes(u) = NodesUpTo(u, n)
    BY <2>1, TableFact
  <2>3. NodesUpTo(u, n) = {}
    BY <1>5 DEF NodesUpTo
  <2> QED BY <2>2, <2>3
<1>9. Grown(table', n, threshold') /\ size' <= threshold'
  BY <1>1, <1>2, <1>3, <1>7 DEF Grown
<1>10. Counted({}, size', dropped')
  BY <1>1, FS_EmptySet, MaxCapacityFact DEF Counted
<1>11. Answers({}, val', ref', lost')
  BY <1>1 DEF Answers
<1>12. MapOK'
  BY <1>8, <1>9, <1>10, <1>11 DEF MapOK, Shaped
<1> QED BY <1>1, <1>12 DEF MapInv, Remembers

(* The entry and what is done through it. *)
LEMMA EntryCallStep ==
  ASSUME MapInv, NEW k \in Keys, HM!EntryCall(k)
  PROVE  MapInv'
<1> DEFINE m == HM!Made
<1>1. /\ MapOK /\ table' = m.table /\ threshold' = m.threshold
      /\ entry' = [kind |-> IF HM!Contains(k) THEN "occupied" ELSE "vacant", key |-> k]
      /\ size' = size /\ val' = val /\ ref' = ref /\ lost' = lost /\ dropped' = dropped
  BY DEF HM!EntryCall, HM!SetMap, MapInv
<1>2. HM!Contains(k) <=> k \in HM!Nodes(table)
  BY <1>1, ContainsFact DEF MapOK
<1>3. /\ Shaped(m.table, m.threshold, size) /\ HM!Nodes(m.table) = HM!Nodes(table)
      /\ m.table # HM!NoTable
  BY <1>1, MadeFact DEF MapOK
<1> HIDE DEF m
<1>4. HM!Nodes(table') = HM!Nodes(table)
  BY <1>1, <1>3
<1>5. MapOK'
  BY <1>1, <1>3, <1>4 DEF MapOK
<1>6. Remembers(entry', table')
  BY <1>1, <1>2, <1>3, <1>4 DEF Remembers
<1> QED BY <1>5, <1>6 DEF MapInv

LEMMA EntryFact ==
  ASSUME MapInv
  PROVE  /\ entry.kind = "vacant" =>
              entry.key \in Keys /\ entry.key \notin HM!Nodes(table) /\ table # HM!NoTable
         /\ entry.kind = "occupied" => entry.key \in Keys /\ entry.key \in HM!Nodes(table)
<1>1. CASE entry = HM!NoEntry
  BY <1>1 DEF HM!NoEntry
<1>2. ASSUME NEW k \in Keys, entry = [kind |-> "vacant", key |-> k], table # HM!NoTable, k \notin HM!Nodes(table)
      PROVE  entry.kind = "vacant" /\ entry.key \in Keys /\ entry.key \notin HM!Nodes(table)
  BY <1>2
<1>3. ASSUME NEW k \in Keys, entry = [kind |-> "occupied", key |-> k], k \in HM!Nodes(table)
      PROVE  entry.kind = "occupied" /\ entry.key \in Keys /\ entry.key \in HM!Nodes(table)
  BY <1>3
<1> QED BY <1>1, <1>2, <1>3 DEF MapInv, Remembers

LEMMA EntryUseStep ==
  ASSUME MapInv, NEW v \in Values, HM!VacantInsert(v) \/ HM!OccupiedInsert(v)
  PROVE  MapInv'
<1>1. MapOK
  BY DEF MapInv
<1>2. CASE HM!VacantInsert(v)
  <2> DEFINE m == [table |-> table, threshold |-> threshold]
  <2>1. entry.kind = "vacant" /\ HM!InsertNew(m, entry.key, v) /\ entry' = HM!NoEntry
    BY <1>2 DEF HM!VacantInsert
  <2>2. entry.key \in Keys /\ entry.key \notin HM!Nodes(table) /\ table # HM!NoTable
    BY <2>1, EntryFact
  <2>3. m.table = table /\ m.threshold = threshold
    OBVIOUS
  <2> HIDE DEF m
  <2>4. Shaped(m.table, m.threshold, size) /\ m.table # HM!NoTable /\ HM!Nodes(m.table) = HM!Nodes(table)
    BY <1>1, <2>2, <2>3 DEF MapOK
  <2>5. MapOK'
    BY <1>1, <2>1, <2>2, <2>4, InsertNewFact
  <2> QED BY <2>1, <2>5 DEF MapInv, Remembers
<1>3. CASE HM!OccupiedInsert(v)
  <2>1. entry.kind = "occupied" /\ HM!ReplaceValue(entry.key, v) /\ entry' = entry
    BY <1>3 DEF HM!OccupiedInsert
  <2>2. entry.key \in Keys /\ entry.key \in HM!Nodes(table)
    BY <2>1, EntryFact
  <2>3. MapOK' /\ table' = table
    BY <1>1, <2>1, <2>2, ReplaceFact
  <2>4. HM!Nodes(table') = HM!Nodes(table)
    BY <2>3
  <2> QED BY <2>1, <2>3, <2>4 DEF MapInv, Remembers
<1> QED BY <1>2, <1>3

LEMMA EntryEndStep ==
  ASSUME MapInv, HM!OccupiedRemove \/ HM!DropEntry
  PROVE  MapInv'
<1>1. MapOK
  BY DEF MapInv
<1>2. CASE HM!OccupiedRemove
  <2>1. entry.kind = "occupied" /\ HM!RemoveNode(entry.key) /\ entry' = HM!NoEntry /\ threshold' = threshold
    BY <1>2 DEF HM!OccupiedRemove
  <2>2. entry.key \in Keys /\ entry.key \in HM!Nodes(table)
    BY <2>1, EntryFact
  <2>3. MapOK'
    BY <1>1, <2>1, <2>2, RemoveNodeFact
  <2> QED BY <2>1, <2>3 DEF MapInv, Remembers
<1>3. CASE HM!DropEntry
  <2>1. /\ entry' = HM!NoEntry /\ table' = table /\ size' = size /\ threshold' = threshold /\ val' = val
        /\ ref' = ref /\ lost' = lost /\ dropped' = dropped
    BY <1>3 DEF HM!DropEntry
  <2>2. HM!Nodes(table') = HM!Nodes(table)
    BY <2>1
  <2> QED BY <1>1, <2>1, <2>2 DEF MapInv, MapOK, Remembers
<1> QED BY <1>2, <1>3

LEMMA InitMap == HM!Init => MapInv
<1> SUFFICES ASSUME HM!Init PROVE MapInv
  OBVIOUS
<1>1. /\ table = HM!NoTable /\ size = 0 /\ val = [k \in Keys |-> None] /\ entry = HM!NoEntry
      /\ ref = [k \in Keys |-> None] /\ lost = {} /\ dropped = 0
  BY DEF HM!Init
<1>2. threshold \in Powers /\ threshold <= MAXIMUM_CAPACITY
  BY FirstThresholdFact DEF HM!Init
<1>3. HM!Nodes(table) = {}
  BY <1>1, NoTableFact
<1>4. Counted({}, size, dropped)
  BY <1>1, FS_EmptySet, MaxCapacityFact DEF Counted
<1>5. Answers({}, val, ref, lost)
  BY <1>1 DEF Answers
<1> QED BY <1>1, <1>2, <1>3, <1>4, <1>5 DEF MapInv, MapOK, Shaped, Remembers

LEMMA NextMap == MapInv /\ [HM!Next]_mapVars => MapInv'
<1> SUFFICES ASSUME MapInv, [HM!Next]_mapVars PROVE MapInv'
  OBVIOUS
<1>1. ASSUME NEW k \in Keys, NEW v \in Values, HM!Put(k, v) PROVE MapInv'
  BY <1>1, PutStep
<1>2. ASSUME NEW k \in Keys, HM!Remove(k) \/ HM!EntryCall(k) PROVE MapInv'
  BY <1>2, MapRemoveStep, EntryCallStep
<1>3. ASSUME NEW v \in Values, HM!VacantInsert(v) \/ HM!OccupiedInsert(v) PROVE MapInv'
  BY <1>3, EntryUseStep
<1>4. CASE HM!OccupiedRemove \/ HM!DropEntry
  BY <1>4, EntryEndStep
<1>5. CASE HM!Clear
  BY <1>5, MapClearStep
<1>6. CASE UNCHANGED mapVars
  <2>1. /\ table' = table /\ size' = size /\ threshold' = threshold /\ val' = val
        /\ entry' = entry /\ ref' = ref /\ lost' = lost /\ dropped' = dropped
    BY <1>6 DEF mapVars
  <2>2. HM!Nodes(table') = HM!Nodes(table)
    BY <2>1
  <2> QED BY <2>1, <2>2 DEF MapInv, MapOK, Remembers
<1> QED BY <1>1, <1>2, <1>3, <1>4, <1>5, <1>6, Zenon DEF HM!Next

(* What the map answers, from what it is made of. *)
LEMMA MapInvAgrees == MapInv => HashMapAgrees
<1> SUFFICES ASSUME MapInv PROVE HM!TypeOK /\ HM!LookupAgrees /\ HM!FoundWhereStored /\ HM!SizeAgrees
  BY DEF HashMapAgrees
<1> DEFINE N == HM!Nodes(table)
<1>1. Shaped(table, threshold, size) /\ Counted(N, size, dropped) /\ Answers(N, val, ref, lost)
  BY DEF MapInv, MapOK
<1>2. size \in 0 .. MaxSize /\ dropped \in Nat /\ size = Cardinality(N) + dropped
  BY <1>1, CountFact
<1>3. /\ threshold \in 1 .. HM!U32MAX /\ (table # HM!NoTable => size <= threshold)
      /\ \E n : TableOf(table, n) /\ (n # 0 => n \in Powers)
  <2>1. CASE table = HM!NoTable /\ threshold \in Powers /\ threshold <= MAXIMUM_CAPACITY
    <3>1. threshold \in Nat \ {0} /\ MAXIMUM_CAPACITY \in Nat /\ HM!U32MAX \in Nat
          /\ MAXIMUM_CAPACITY <= HM!U32MAX
      BY <2>1, PowersFact, MaxCapacityFact
    <3>2. TableOf(table, 0)
      BY <2>1, NoTableFact
    <3> QED BY <2>1, <3>1, <3>2
  <2>2. CASE (\E n : Grown(table, n, threshold)) /\ size <= threshold
    BY <2>2 DEF Grown
  <2> QED BY <1>1, <2>1, <2>2 DEF Shaped
<1>4. PICK n : TableOf(table, n) /\ (n # 0 => n \in Powers)
  BY <1>3
<1>5. HM!TypeOK
  <2>1. \A i \in DOMAIN table : table[i] \in Seq(Keys)
    BY <1>4 DEF TableOf
  <2> QED BY <1>1, <1>2, <1>3, <2>1 DEF HM!TypeOK, Answers
<1>6. HM!LookupAgrees
  <2> SUFFICES ASSUME NEW k \in Keys PROVE HM!Get(k) = IF k \in lost THEN None ELSE ref[k]
    BY DEF HM!LookupAgrees
  <2>1. HM!Contains(k) <=> k \in N
    BY <1>1, ContainsFact
  <2> HIDE DEF N
  <2> QED BY <1>1, <2>1 DEF Answers, HM!Get
<1>7. HM!FoundWhereStored
  <2>1. ASSUME NEW x \in HM!Places(table) PROVE HM!Home(table, Hash[HM!NodeAt(table, x)]) = x[1]
    <3> DEFINE k == HM!NodeAt(table, x)
    <3>1. k \in HM!Nodes(table) /\ k \in Keys /\ Hash[k] % n = x[1]
      BY <1>4, PlacesFact
    <3>2. n # 0
      BY <1>4, <3>1, TableFact DEF NodesUpTo
    <3> HIDE DEF k
    <3>3. HM!Home(table, Hash[k]) = Hash[k] % n
      BY <1>4, <3>1, <3>2, HomeFact
    <3> QED BY <3>1, <3>3 DEF k
  <2>2. \A x, y \in HM!Places(table) : HM!NodeAt(table, x) = HM!NodeAt(table, y) => x = y
    BY <1>4, PlacesFact
  <2> QED BY <2>1, <2>2 DEF HM!FoundWhereStored
<1>8. HM!SizeAgrees
  <2>1. Cardinality(HM!Places(table)) = Cardinality(N)
    BY <1>1, <1>4, PlacesCount DEF Counted
  <2>2. HM!Cardinality(HM!Places(table)) = Cardinality(N)
    BY <2>1, SameCount
  <2>3. size = HM!Cardinality(HM!Places(table)) + dropped
    BY <1>2, <2>2
  <2> QED BY <1>3, <2>3 DEF HM!SizeAgrees
<1> QED BY <1>5, <1>6, <1>7, <1>8

(* HashMap: whatever is put and removed and however the table grows, a lookup answers what
   was put last for every key that no removal cut out of its chain, each node is where
   get_node searches, and len() counts the nodes. *)
THEOREM MapAnswersPuts == HM!Spec => []HashMapAgrees
<1>1. HM!Init => MapInv
  BY InitMap
<1>2. MapInv /\ [HM!Next]_mapVars => MapInv'
  BY NextMap
<1>3. MapInv => HashMapAgrees
  BY MapInvAgrees
<1> QED BY <1>1, <1>2, <1>3, PTL DEF HM!Spec, HM!vars, mapVars
=============================================================================
