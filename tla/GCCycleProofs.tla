--------------------------- MODULE GCCycleProofs ---------------------------
(***************************************************************************)
(* Theorems about GCCycle, for any number of mutators, workers, cells and  *)
(* fields: what concurrent and full marking establish before a sweep, and  *)
(* which regions mutators may allocate in.                                 *)
(***************************************************************************)
EXTENDS GCCycle, TLAPS

\* A worker is tracing x and has yet to visit field f.
Tracing(x, f) == \E w \in Workers : task[w] = x /\ f \in todo[w]

\* Every field of a marked object has been dealt with, will be, or was stored
\* to behind the collector's back.
GreyOK ==
  phase \in {"mark", "remark", "drain", "full"} =>
    \A x \in marked, f \in Fields :
      \/ slot[x][f] \in marked \cup {Null}
      \/ x \in queue
      \/ Tracing(x, f)
      \/ <<x, f>> \in written

\* Stores count from the initial mark to the end of the final one.
WrittenOK == phase \notin {"mark", "remark", "drain"} => written = {}

\* Stacks are marked first thing in a pause, and do not change in it.
RootsOK == phase \in {"drain", "full"} => Roots \subseteq marked

\* No thread that attaches after the final mark may pick up the flag.
FlagOK == phase \in {"drain", "sweep"} => ~cm

IInv ==
  /\ TypeOK /\ GreyOK /\ WrittenOK /\ RootsOK /\ FlagOK
  /\ NoAllocInUnswept /\ BarriersOffInSweep

-----------------------------------------------------------------------------
(* The inductive invariant holds initially. *)
LEMMA InitIInv == Init => IInv
<1> SUFFICES ASSUME Init PROVE IInv
  OBVIOUS
<1>1. TypeOK
  BY DEF Init, TypeOK, NoRefs, Rebuilt
<1>2. GreyOK /\ WrittenOK /\ RootsOK /\ FlagOK /\ NoAllocInUnswept /\ BarriersOffInSweep
  BY DEF Init, GreyOK, WrittenOK, RootsOK, FlagOK, NoAllocInUnswept, BarriersOffInSweep
<1> QED BY <1>1, <1>2 DEF IInv

(***************************************************************************)
(* The steps of mutators.                                                  *)
(***************************************************************************)
LEMMA AttachIInv ==
  ASSUME IInv, NEW m \in Mutators, Attach(m) PROVE IInv'
<1> USE DEF Attach, memory, threads, marking
<1>1. TypeOK' BY DEF IInv, TypeOK
<1>2. GreyOK' BY DEF IInv, GreyOK, Tracing
<1>3. WrittenOK' /\ FlagOK' /\ NoAllocInUnswept'
  BY DEF IInv, WrittenOK, FlagOK, NoAllocInUnswept
<1>4. RootsOK' BY DEF IInv, RootsOK, Running
<1>5. BarriersOffInSweep' BY DEF IInv, TypeOK, BarriersOffInSweep, FlagOK
<1> QED BY <1>1, <1>2, <1>3, <1>4, <1>5 DEF IInv

(* A thread leaves with its buffers flushed. *)
LEMMA DetachIInv ==
  ASSUME IInv, NEW m \in Mutators, Detach(m) PROVE IInv'
<1> USE DEF Detach, memory, threads, marking, Flushed
<1>1. TypeOK' BY DEF IInv, TypeOK
<1>2. GreyOK' BY DEF IInv, GreyOK, Tracing
<1>3. WrittenOK' /\ FlagOK' /\ NoAllocInUnswept'
  BY DEF IInv, WrittenOK, FlagOK, NoAllocInUnswept
<1>4. RootsOK' BY DEF IInv, RootsOK, Running
<1>5. BarriersOffInSweep' BY DEF IInv, TypeOK, BarriersOffInSweep
<1> QED BY <1>1, <1>2, <1>3, <1>4, <1>5 DEF IInv

\* Load and Forget change a stack only.
LEMMA StackIInv ==
  ASSUME IInv, NEW m \in Mutators, NEW x \in Cells,
         Forget(m, x) \/ \E f \in Fields : Load(m, x, f)
  PROVE  IInv'
<1> USE DEF Forget, Load, memory, threads, marking
<1>1. TypeOK' BY DEF IInv, TypeOK
<1>2. GreyOK' BY DEF IInv, GreyOK, Tracing
<1>3. WrittenOK' /\ FlagOK' /\ NoAllocInUnswept'
  BY DEF IInv, WrittenOK, FlagOK, NoAllocInUnswept
<1>4. RootsOK' BY DEF IInv, RootsOK, Running
<1>5. BarriersOffInSweep' BY DEF IInv, TypeOK, BarriersOffInSweep
<1> QED BY <1>1, <1>2, <1>3, <1>4, <1>5 DEF IInv

(* A cell allocated while marking is marked. *)
LEMMA AllocateIInv ==
  ASSUME IInv, NEW m \in Mutators, NEW c \in Cells, Allocate(m, c) PROVE IInv'
<1> USE CellsAssumption DEF Allocate, memory, threads, marking, Written
<1>0. PICK value \in [Fields -> stack[m] \cup {Null}] : slot' = [slot EXCEPT ![c] = value]
  OBVIOUS
<1>1. TypeOK'
  <2>1. slot' \in [Cells -> [Fields -> Cells \cup {Null}]]
    BY <1>0 DEF IInv, TypeOK
  <2>2. written' \subseteq Cells \X Fields
    BY DEF IInv, TypeOK
  <2>3. free' \subseteq Regions
    BY DEF IInv, TypeOK
  <2> QED BY <2>1, <2>2, <2>3 DEF IInv, TypeOK
<1>2. GreyOK'
  <2> SUFFICES ASSUME phase \in {"mark", "remark"}, NEW x \in marked', NEW f \in Fields
               PROVE  \/ slot'[x][f] \in marked' \cup {Null}
                      \/ x \in queue' \/ Tracing(x, f)' \/ <<x, f>> \in written'
    BY DEF GreyOK, Running
  <2>1. CASE x = c
    BY <2>1
  <2>2. CASE x # c
    <3>1. x \in marked /\ x \in Cells /\ slot'[x] = slot[x]
      BY <1>0, <2>2 DEF IInv, TypeOK
    <3> QED BY <3>1 DEF IInv, GreyOK, Tracing
  <2> QED BY <2>1, <2>2
<1>3. WrittenOK' /\ FlagOK' /\ NoAllocInUnswept'
  BY DEF IInv, WrittenOK, FlagOK, NoAllocInUnswept
<1>4. RootsOK' BY DEF IInv, RootsOK, Running
<1>5. BarriersOffInSweep' BY DEF IInv, TypeOK, BarriersOffInSweep
<1> QED BY <1>1, <1>2, <1>3, <1>4, <1>5 DEF IInv

(* The write barrier records the cell before the store. *)
LEMMA WriteBarrierIInv ==
  ASSUME IInv, NEW m \in Mutators, NEW x \in Cells, WriteBarrier(m, x) PROVE IInv'
<1> USE DEF WriteBarrier, memory, threads, marking, Flushed
<1>0. queue \subseteq queue' /\ (~barrier[m] => ssb' = ssb)
  OBVIOUS
<1>1. TypeOK'
  <2>1. ssb' \in [Mutators -> SUBSET Cells] /\ queue' \subseteq Cells
    BY DEF IInv, TypeOK
  <2> QED BY <2>1 DEF IInv, TypeOK
<1>2. GreyOK' BY <1>0 DEF IInv, GreyOK, Tracing
<1>3. WrittenOK' /\ FlagOK' /\ NoAllocInUnswept'
  BY DEF IInv, WrittenOK, FlagOK, NoAllocInUnswept
<1>4. RootsOK' BY DEF IInv, RootsOK, Running
<1>5. BarriersOffInSweep' BY <1>0 DEF IInv, TypeOK, BarriersOffInSweep
<1> QED BY <1>1, <1>2, <1>3, <1>4, <1>5 DEF IInv

(* The store itself is covered by the barrier before it. *)
LEMMA StoreIInv ==
  ASSUME IInv, NEW m \in Mutators, NEW f \in Fields, NEW y \in Cells \cup {Null},
         Store(m, f, y)
  PROVE  IInv'
<1> USE DEF Store, memory, threads, marking, Written
<1>0. holder[m] \in Cells
  BY DEF IInv, TypeOK
<1>1. TypeOK'
  <2>1. slot' \in [Cells -> [Fields -> Cells \cup {Null}]]
    BY <1>0 DEF IInv, TypeOK
  <2>2. written' \subseteq Cells \X Fields
    BY <1>0 DEF IInv, TypeOK
  <2>3. /\ pc' \in [Mutators -> {"off", "run", "store"}]
        /\ holder' \in [Mutators -> Cells \cup {Null}]
        /\ \A n \in Mutators : pc'[n] = "store" => holder'[n] \in Cells
    BY DEF IInv, TypeOK
  <2> QED BY <2>1, <2>2, <2>3 DEF IInv, TypeOK
<1>2. GreyOK'
  <2> SUFFICES ASSUME phase \in {"mark", "remark"}, NEW x \in marked', NEW g \in Fields
               PROVE  \/ slot'[x][g] \in marked' \cup {Null}
                      \/ x \in queue' \/ Tracing(x, g)' \/ <<x, g>> \in written'
    BY DEF GreyOK, Running
  <2>1. CASE x = holder[m] /\ g = f
    BY <2>1
  <2>2. CASE ~(x = holder[m] /\ g = f)
    <3>1. slot'[x][g] = slot[x][g]
      BY <1>0, <2>2 DEF IInv, TypeOK
    <3> QED BY <3>1 DEF IInv, GreyOK, Tracing
  <2> QED BY <2>1, <2>2
<1>3. WrittenOK' /\ FlagOK' /\ NoAllocInUnswept'
  BY DEF IInv, WrittenOK, FlagOK, NoAllocInUnswept
<1>4. RootsOK' BY DEF IInv, RootsOK, Running
<1>5. BarriersOffInSweep' BY DEF IInv, TypeOK, BarriersOffInSweep
<1> QED BY <1>1, <1>2, <1>3, <1>4, <1>5 DEF IInv

\* A failed allocation and a cancellation.
LEMMA CancelIInv ==
  ASSUME IInv, CancelGC \/ \E m \in Mutators : AllocationFails(m) PROVE IInv'
<1> USE DEF CancelGC, AllocationFails, memory, threads, marking
<1>1. TypeOK' BY DEF IInv, TypeOK
<1>2. GreyOK' BY DEF IInv, GreyOK, Tracing
<1>3. WrittenOK' /\ FlagOK' /\ NoAllocInUnswept'
  BY DEF IInv, WrittenOK, FlagOK, NoAllocInUnswept
<1>4. RootsOK' BY DEF IInv, RootsOK, Roots
<1>5. BarriersOffInSweep' BY DEF IInv, BarriersOffInSweep
<1> QED BY <1>1, <1>2, <1>3, <1>4, <1>5 DEF IInv

(***************************************************************************)
(* The steps of marking workers.  None changes a slot, a stack or a region.*)
(***************************************************************************)
LEMMA WorkerIInv ==
  ASSUME IInv, NEW w \in Workers, Worker(w) PROVE IInv'
<1> USE CellsAssumption DEF memory, threads
<1>0. /\ slot' = slot /\ stack' = stack /\ phase' = phase /\ written' = written
      /\ marked \subseteq marked'
      /\ UNCHANGED <<memory, threads, cm, cancelled>>
  BY DEF Worker, TakeTask, VisitField, EndTask
<1>1. TypeOK'
  <2>1. CASE \E c \in Cells : TakeTask(w, c)
    BY <2>1 DEF TakeTask, IInv, TypeOK
  <2>2. CASE \E f \in Fields : VisitField(w, f)
    <3>1. PICK f \in Fields : VisitField(w, f)
      BY <2>2
    <3>2. slot[task[w]][f] \in Cells \cup {Null}
      BY <3>1 DEF VisitField, IInv, TypeOK
    <3>3. marked' \subseteq Cells /\ queue' \subseteq Cells
      BY <3>1, <3>2 DEF VisitField, IInv, TypeOK
    <3> QED BY <3>1, <3>3 DEF VisitField, IInv, TypeOK
  <2>3. CASE EndTask(w)
    BY <2>3 DEF EndTask, IInv, TypeOK
  <2> QED BY <2>1, <2>2, <2>3 DEF Worker
<1>2. GreyOK'
  <2> SUFFICES ASSUME phase \in {"mark", "remark", "drain", "full"},
                      NEW x \in marked', NEW g \in Fields
               PROVE  \/ slot[x][g] \in marked' \cup {Null}
                      \/ x \in queue' \/ Tracing(x, g)' \/ <<x, g>> \in written
    BY <1>0 DEF GreyOK
  <2>0. x \in marked => \/ slot[x][g] \in marked \cup {Null}
                        \/ x \in queue \/ Tracing(x, g) \/ <<x, g>> \in written
    BY DEF IInv, GreyOK
  <2>1. CASE \E c \in Cells : TakeTask(w, c)
    <3>1. PICK c \in Cells : TakeTask(w, c)
      BY <2>1
    <3>2. x \in Cells /\ x \in marked /\ marked' = marked
      BY <3>1 DEF TakeTask, IInv, TypeOK
    <3>3. CASE x = c
      BY <3>1, <3>3 DEF TakeTask, Tracing, IInv, TypeOK
    <3>4. CASE x # c
      <4>1. x \in queue => x \in queue'
        BY <3>1, <3>4 DEF TakeTask
      <4>2. Tracing(x, g) => Tracing(x, g)'
        BY <3>1, <3>2 DEF TakeTask, Tracing, IInv, TypeOK
      <4> QED BY <2>0, <3>2, <4>1, <4>2
    <3> QED BY <3>3, <3>4
  <2>2. CASE \E f \in Fields : VisitField(w, f)
    <3>1. PICK f \in Fields : VisitField(w, f)
      BY <2>2
    <3>2. x \notin marked => x \in queue'
      BY <3>1 DEF VisitField
    <3>3. CASE x = task[w] /\ g = f
      BY <3>1, <3>3 DEF VisitField
    <3>4. CASE x \in marked /\ ~(x = task[w] /\ g = f)
      <4>1. x \in queue => x \in queue'
        BY <3>1 DEF VisitField
      <4>2. Tracing(x, g) => Tracing(x, g)'
        BY <3>1, <3>4 DEF VisitField, Tracing, IInv, TypeOK
      <4> QED BY <2>0, <3>4, <4>1, <4>2, <1>0
    <3> QED BY <3>2, <3>3, <3>4
  <2>3. CASE EndTask(w)
    <3>1. Tracing(x, g) => Tracing(x, g)'
      BY <2>3 DEF EndTask, Tracing, IInv, TypeOK
    <3> QED BY <2>0, <2>3, <3>1 DEF EndTask
  <2> QED BY <2>1, <2>2, <2>3 DEF Worker
<1>3. WrittenOK' /\ FlagOK' /\ NoAllocInUnswept' /\ BarriersOffInSweep'
  BY <1>0 DEF IInv, WrittenOK, FlagOK, NoAllocInUnswept, BarriersOffInSweep
<1>4. RootsOK'
  BY <1>0 DEF IInv, RootsOK, Roots
<1> QED BY <1>1, <1>2, <1>3, <1>4 DEF IInv

(***************************************************************************)
(* The steps of the controller thread.                                     *)
(***************************************************************************)
LEMMA CycleIInv == ASSUME IInv, Cycle PROVE IInv'
<1> USE CellsAssumption DEF memory, threads, marking
<1>0. Roots \subseteq Cells
  BY DEF Roots, IInv, TypeOK
<1>1. CASE InitMark
  <2>1. TypeOK' BY <1>0, <1>1 DEF InitMark, IInv, TypeOK, Attached
  <2>2. GreyOK' BY <1>1 DEF InitMark, GreyOK
  <2> QED BY <1>1, <2>1, <2>2 DEF InitMark, IInv, WrittenOK, RootsOK, FlagOK,
             NoAllocInUnswept, BarriersOffInSweep
<1>2. CASE MarkEnd
  <2>1. TypeOK' BY <1>2 DEF MarkEnd, IInv, TypeOK
  <2>2. GreyOK' BY <1>2 DEF MarkEnd, IInv, GreyOK, Tracing
  <2> QED BY <1>2, <2>1, <2>2 DEF MarkEnd, IInv, WrittenOK, RootsOK, FlagOK,
             NoAllocInUnswept, BarriersOffInSweep
<1>3. CASE MarkCancelled
  <2>1. TypeOK' BY <1>3 DEF MarkCancelled, IInv, TypeOK
  <2> QED BY <1>3, <2>1 DEF MarkCancelled, IInv, GreyOK, WrittenOK, RootsOK, FlagOK,
             NoAllocInUnswept, BarriersOffInSweep
<1>4. CASE FinalMark
  <2>0. marked' = marked \cup Roots /\ Roots' = Roots
    BY <1>4 DEF FinalMark, Roots
  <2>1. TypeOK'
    <3>1. queue' \subseteq Cells
      BY <1>0, <1>4 DEF FinalMark, IInv, TypeOK
    <3> QED BY <1>0, <1>4, <3>1 DEF FinalMark, IInv, TypeOK
  <2>2. GreyOK'
    <3> SUFFICES ASSUME NEW x \in marked', NEW g \in Fields
                 PROVE  \/ slot[x][g] \in marked' \cup {Null}
                        \/ x \in queue' \/ Tracing(x, g)' \/ <<x, g>> \in written
      BY <1>4 DEF FinalMark, GreyOK
    <3>1. x \notin marked => x \in queue'
      BY <1>4 DEF FinalMark
    <3>2. x \in queue => x \in queue'
      BY <1>4 DEF FinalMark
    <3>3. Tracing(x, g)' <=> Tracing(x, g)
      BY <1>4 DEF FinalMark, Tracing
    <3> QED BY <1>4, <2>0, <3>1, <3>2, <3>3 DEF FinalMark, IInv, GreyOK
  <2>3. RootsOK' BY <2>0 DEF RootsOK
  <2> QED BY <1>4, <2>1, <2>2, <2>3 DEF FinalMark, IInv, WrittenOK, FlagOK,
             NoAllocInUnswept, BarriersOffInSweep
<1>5. CASE FinalMarkEnd
  <2>1. TypeOK' BY <1>5 DEF FinalMarkEnd, IInv, TypeOK
  <2> QED BY <1>5, <2>1 DEF FinalMarkEnd, IInv, GreyOK, WrittenOK, RootsOK, FlagOK,
             NoAllocInUnswept, BarriersOffInSweep
<1>6. CASE \E r \in Regions : SweepRegion(r)
  <2>1. TypeOK' BY <1>6 DEF SweepRegion, IInv, TypeOK, NoRefs
  <2> QED BY <1>6, <2>1 DEF SweepRegion, IInv, GreyOK, WrittenOK, RootsOK, FlagOK,
             NoAllocInUnswept, BarriersOffInSweep
<1>7. CASE SweepEnd
  <2>1. TypeOK' BY <1>7 DEF SweepEnd, IInv, TypeOK, Rebuilt
  <2> QED BY <1>7, <2>1 DEF SweepEnd, IInv, GreyOK, WrittenOK, RootsOK, FlagOK,
             NoAllocInUnswept, BarriersOffInSweep
<1>8. CASE FullBegin
  <2>1. TypeOK' BY <1>0, <1>8 DEF FullBegin, IInv, TypeOK
  <2>2. GreyOK' BY <1>8 DEF FullBegin, GreyOK
  <2>3. RootsOK' BY <1>8 DEF FullBegin, RootsOK, Roots
  <2> QED BY <1>8, <2>1, <2>2, <2>3 DEF FullBegin, IInv, WrittenOK, FlagOK,
             NoAllocInUnswept, BarriersOffInSweep
<1>9. CASE FullEnd
  <2>1. TypeOK' BY <1>9 DEF FullEnd, IInv, TypeOK, Rebuilt, NoRefs
  <2> QED BY <1>9, <2>1 DEF FullEnd, IInv, GreyOK, WrittenOK, RootsOK, FlagOK,
             NoAllocInUnswept, BarriersOffInSweep
<1> QED BY <1>1, <1>2, <1>3, <1>4, <1>5, <1>6, <1>7, <1>8, <1>9 DEF Cycle

(* Stuttering. *)
LEMMA StutterIInv == ASSUME IInv, UNCHANGED vars PROVE IInv'
<1> USE DEF vars, memory, threads, marking
<1>1. TypeOK' BY DEF IInv, TypeOK
<1>2. GreyOK' BY DEF IInv, GreyOK, Tracing
<1>3. RootsOK' BY DEF IInv, RootsOK, Roots
<1> QED BY <1>1, <1>2, <1>3 DEF IInv, WrittenOK, FlagOK, NoAllocInUnswept, BarriersOffInSweep

(* Every step keeps the inductive invariant. *)
LEMMA NextIInv == IInv /\ [Next]_vars => IInv'
<1> SUFFICES ASSUME IInv, [Next]_vars PROVE IInv'
  OBVIOUS
<1>1. ASSUME NEW m \in Mutators, Mutator(m) PROVE IInv'
  BY <1>1, AttachIInv, DetachIInv, StackIInv, AllocateIInv, WriteBarrierIInv, StoreIInv,
     CancelIInv DEF Mutator
<1>2. ASSUME NEW w \in Workers, Worker(w) PROVE IInv'
  BY <1>2, WorkerIInv
<1> QED BY <1>1, <1>2, CancelIInv, CycleIInv, StutterIInv DEF Next

(***************************************************************************)
(* The types of the heap and of the collection cycle.                      *)
(***************************************************************************)
THEOREM TypeCorrect == Spec => []TypeOK
<1>1. IInv => TypeOK BY DEF IInv
<1> QED BY <1>1, InitIInv, NextIInv, PTL DEF Spec

(***************************************************************************)
(* Whatever a cancelled concurrent mark left in the bitmap, the queues and *)
(* the store buffers, a full collection's marking ends with every object   *)
(* the mutators can reach marked.                                          *)
(***************************************************************************)
THEOREM FullCollectionComplete == Spec => []FullMarksAll
<1>1. IInv => FullMarksAll
  BY DEF IInv, FullMarksAll, GreyOK, WrittenOK, RootsOK, Tracing, Drained, WorkersIdle,
         TypeOK
<1> QED BY <1>1, InitIInv, NextIInv, PTL DEF Spec

(***************************************************************************)
(* When the final mark of a concurrent cycle is over, an unmarked object   *)
(* can be reachable from marked ones only through a field stored to while  *)
(* the cycle was marking, new objects included.                            *)
(***************************************************************************)
THEOREM LossNeedsWrite == Spec => []LostOnlyThroughWrites
<1>1. IInv => LostOnlyThroughWrites
  BY DEF IInv, LostOnlyThroughWrites, GreyOK, RootsOK, Tracing, Drained, WorkersIdle, TypeOK
<1> QED BY <1>1, InitIInv, NextIInv, PTL DEF Spec

(***************************************************************************)
(* No region is open to allocation while it waits to be swept, cancelled   *)
(* sweeps and the full collection after them included.                     *)
(***************************************************************************)
THEOREM UnsweptClosed == Spec => []NoAllocInUnswept
<1>1. IInv => NoAllocInUnswept BY DEF IInv
<1> QED BY <1>1, InitIInv, NextIInv, PTL DEF Spec

(***************************************************************************)
(* After the final mark no thread has a barrier switched on or a buffered  *)
(* entry, threads that attach during the sweep included.                   *)
(***************************************************************************)
THEOREM BarriersOff == Spec => []BarriersOffInSweep
<1>1. IInv => BarriersOffInSweep BY DEF IInv
<1> QED BY <1>1, InitIInv, NextIInv, PTL DEF Spec

=============================================================================
