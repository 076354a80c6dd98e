-------------------------- MODULE ObjStorageProofs --------------------------
(***************************************************************************)
(* Proofs about ObjStorage and the SingleWriter synchronizer it uses: the  *)
(* entries belong to one client each, the counts agree, and a reader never *)
(* has an array that was destroyed.  The inductive invariant StorageInv    *)
(* has a part for the mutex, the blocks, the entries, each of the two      *)
(* counts, the arrays and the synchronizer; each part is kept by a lemma   *)
(* of its own for the steps of clients, readers, the writer and Drop.      *)
(* BlockInv adds what is known of the deferred and the allocation list,    *)
(* and FoundInv that no empty block drops out of both.                     *)
(***************************************************************************)
EXTENDS ObjStorage, SequenceTheorems, FiniteSetTheorems, WellFoundedInduction, TLAPS

-----------------------------------------------------------------------------
(* The types of the variables. *)
CallKinds == {"none", "one", "many", "release"}
Places == 0 .. MaxBlocks
PCs == {"idle", "find", "relock", "sync", "next", "pop", "clear", "update",
        "load", "add", "full", "xor", "claim", "claimed", "link", "push"}
Regs == [op : CallKinds, want : Nat, b : Places, h : Places, t : Places, set : SUBSET Entries]
Lists(K) == [head : K, tail : K, prev : [Blocks -> K], next : [Blocks -> K]]
ArrayRecords == [blocks : Seq(Blocks), refs : Int, alive : BOOLEAN]
Sections == [at : {"out", "in", "leaving"}, val : Nat]
Stages == {"none", "store", "cas", "announce", "check", "wait", "drain", "done"}

ClientType == pc \in [Clients -> PCs] /\ reg \in [Clients -> Regs] /\ lock \in Clients \cup {Nobody}
BlockType ==
    /\ mask \in [Blocks -> SUBSET Entries]
    /\ refs \in [Blocks -> Int] /\ count \in Int /\ made \in Places
ArrayType == arrays \in Seq(ArrayRecords) /\ arrays # <<>> /\ view \in [Readers -> 0 .. Len(arrays)]
SyncType ==
    /\ enter \in Nat /\ exit \in [0 .. 1 -> Nat] /\ waitingFor \in Nat /\ wakeup \in Nat
    /\ section \in [Readers -> Sections] /\ sectionsLeft \in Nat
    /\ writer \in [at : Stages, value : Nat, old : Nat]

(* allocation_mutex is held exactly at these places; one caller at most is  *)
(* inside synchronize, and Drop finds everybody gone.                       *)
Locked == {"find", "sync", "next", "pop", "clear", "update", "load", "add", "full"}
Releasing == {"xor", "claim", "claimed", "link", "push"}

LockInv ==
    /\ \A c \in Clients : pc[c] \in Locked <=> lock = c
    /\ writer.at # "none" <=> \E c \in Clients : pc[c] = "sync"
    /\ phase \in {"open", "deferred", "list", "array", "closed"}
    /\ phase # "open" => /\ \A c \in Clients : pc[c] = "idle"
                         /\ \A r \in Readers : section[r].at = "out" /\ view[r] = 0

(* A client that is constructing a block has its place reserved. *)
Relocking == {c \in Clients : pc[c] = "relock"}
MadeInv == made + Cardinality(Relocking) <= MaxBlocks

(* The links and the locals only name blocks the current array has; the one *)
(* exception is the block of a client that is waiting to push it.           *)
Pushed == Range(arrays[Active].blocks)
Known == Pushed \cup {None}
LocalsKnown(c) ==
    /\ reg[c].h \in Known /\ reg[c].t \in Known
    /\ pc[c] # "sync" => reg[c].b \in Known
    /\ pc[c] = "sync" => reg[c].b \in 1 .. made
    /\ pc[c] \in Releasing \cup {"load", "add", "full"} => reg[c].b # None
    /\ pc[c] \in {"next", "pop"} => deferred # None
    /\ pc[c] \in {"next", "pop", "clear", "update"} => reg[c].h # None
PushedInv ==
    /\ Pushed \subseteq 1 .. made
    /\ list \in Lists(Known) /\ deferred \in Known /\ dnext \in [Blocks -> Known]
    /\ \A b \in Blocks : mask[b] # {} => b \in Pushed
    /\ held \subseteq Pushed \X Entries
    /\ \A c \in Clients : LocalsKnown(c)

(* Between the load of the bitmask and the addition, releases may only free *)
(* more: the entries chosen stay free.                                      *)
TakesFree(c) ==
    /\ pc[c] = "add" => reg[c].set \cap mask[reg[c].b] = {}
    /\ (pc[c] = "add" /\ reg[c].op = "one") \/ pc[c] = "full" => \E e \in Entries : reg[c].set = {e}
EntryInv ==
    /\ EntriesExclusive
    /\ phase = "closed" => \A b \in Blocks : mask[b] = {}
    /\ \A c \in Clients : TakesFree(c)

(* allocation_count still has the entries of the releases under way. *)
Owed == {x \in Clients \X Entries : pc[x[1]] \in Releasing /\ x[2] \in reg[x[1]].set}
CountInv == count = Cardinality(held) + Cardinality(Owed)

(* release_refcount counts the threads inside release_entries. *)
Releasers(b) == {c \in Clients : pc[c] \in Releasing /\ reg[c].b = b}
RefsInv == \A b \in Blocks : refs[b] = Cardinality(Releasers(b))

(* The refcount of an array: one for being current, or for being replaced   *)
(* while synchronize runs, and one for each reader that has raised it.  A   *)
(* reader that has not yet raised it has the current array, or the old one  *)
(* in a section synchronize still waits for.                                *)
Base(a) == IF (a = Active /\ phase # "closed") \/ (a + 1 = Active /\ writer.at # "none") THEN 1 ELSE 0
Holders(a) == {r \in Readers : view[r] = a /\ section[r].at # "in"}
ArrayInv ==
    /\ \A a \in 1 .. Active :
         /\ arrays[a].refs = Base(a) + Cardinality(Holders(a))
         /\ arrays[a].alive <=> arrays[a].refs > 0
    /\ writer.at # "none" => Active > 1
    /\ \A r \in Readers : section[r].at = "in" /\ view[r] # 0 =>
         \/ view[r] = Active
         \/ /\ view[r] + 1 = Active
            /\ writer.at \in {"store", "cas", "announce", "check", "wait"}
            /\ writer.at \in {"announce", "check", "wait"} => section[r].val % 2 = writer.old % 2

(* The synchronizer: a counter of enter less the counter of exit of the     *)
(* same polarity is twice the number of sections of that polarity still     *)
(* open, and the polarity not in use has none.                              *)
Open(p) == {r \in Readers : section[r].at = "in" /\ section[r].val % 2 = p}
Flipped == writer.at \in {"announce", "check", "wait", "drain"}
CurrentInv == enter = exit[enter % 2] + 2 * Cardinality(Open(enter % 2))
OldInv ==
    /\ Flipped => /\ enter % 2 = (writer.old + 1) % 2
                  /\ writer.old = exit[writer.old % 2] + 2 * Cardinality(Open(writer.old % 2))
    /\ ~Flipped \/ writer.at = "drain" => Open((enter + 1) % 2) = {}
StageInv ==
    /\ writer.at = "store" => writer.value % 2 = enter % 2
    /\ writer.at = "cas" => /\ writer.value = writer.old + 1 /\ writer.old % 2 = enter % 2
                            /\ exit[writer.value % 2] = writer.value
    /\ writer.at \in {"check", "wait"} => waitingFor = writer.old
WakeInv ==
    writer.at = "wait" =>
       \/ Open(writer.old % 2) # {}
       \/ \E r \in Readers : section[r].at = "leaving" /\ section[r].val = waitingFor
       \/ wakeup > 0
SyncInv == CurrentInv /\ OldInv /\ StageInv /\ WakeInv

(* The inductive invariant. *)
StorageInv == ClientType /\ BlockType /\ ArrayType /\ SyncType /\ LockInv /\ MadeInv
              /\ PushedInv /\ EntryInv /\ CountInv /\ RefsInv /\ ArrayInv /\ SyncInv

-----------------------------------------------------------------------------
(* Polarities: the counters move by two, and a flip changes the parity. *)
LEMMA Parity ==
    ASSUME NEW n \in Nat
    PROVE  /\ n % 2 \in 0 .. 1 /\ (n + 2) % 2 = n % 2
           /\ (n + 1) % 2 = 1 - (n % 2) /\ ((n + 1) + 1) % 2 = n % 2
OBVIOUS

(* Counting readers. *)
LEMMA FiniteReaders ==
    ASSUME NEW S \in SUBSET Readers
    PROVE  /\ IsFiniteSet(S) /\ Cardinality(S) \in Nat /\ Cardinality(S) <= Cardinality(Readers)
           /\ Cardinality(S) = 0 <=> S = {}
           /\ \A r \in Readers : /\ r \notin S => Cardinality(S \cup {r}) = Cardinality(S) + 1
                                 /\ r \in S => Cardinality(S \ {r}) = Cardinality(S) - 1
<1>1. IsFiniteSet(S) /\ Cardinality(S) <= Cardinality(Readers)
    BY SizesOK, FS_Subset
<1>2. Cardinality(S) \in Nat /\ (Cardinality(S) = 0 <=> S = {})
    BY <1>1, FS_CardinalityType, FS_EmptySet
<1>3. ASSUME NEW r \in Readers PROVE /\ r \notin S => Cardinality(S \cup {r}) = Cardinality(S) + 1
                                     /\ r \in S => Cardinality(S \ {r}) = Cardinality(S) - 1
    BY <1>1, FS_AddElement, FS_RemoveElement
<1> QED BY <1>1, <1>2, <1>3

-----------------------------------------------------------------------------
(***************************************************************************)
(* The synchronizer: each exit counter counts the sections of its polarity *)
(* that have been left.                                                    *)
(***************************************************************************)
LEMMA OpenFinite ==
    ASSUME NEW p \in 0 .. 1
    PROVE  /\ Open(p) \in SUBSET Readers
           /\ IsFiniteSet(Open(p)) /\ Cardinality(Open(p)) \in Nat
           /\ Cardinality(Open(p)) = 0 <=> Open(p) = {}
<1>1. Open(p) \in SUBSET Readers BY DEF Open
<1> QED BY <1>1, FiniteReaders

(* The numbers of the synchronizer. *)
LEMMA SyncNumbers ==
    ASSUME SyncType
    PROVE  /\ enter \in Nat /\ writer.old \in Nat /\ writer.value \in Nat
           /\ exit[0] \in Nat /\ exit[1] \in Nat /\ DOMAIN exit = 0 .. 1
           /\ enter % 2 \in 0 .. 1 /\ (enter + 1) % 2 = 1 - (enter % 2) /\ (enter + 2) % 2 = enter % 2
           /\ writer.old % 2 \in 0 .. 1 /\ (writer.old + 1) % 2 = 1 - (writer.old % 2)
           /\ writer.value % 2 \in 0 .. 1 /\ (writer.value + 1) % 2 = 1 - (writer.value % 2)
<1>1. enter \in Nat /\ writer.old \in Nat /\ writer.value \in Nat
    BY DEF SyncType
<1>2. exit[0] \in Nat /\ exit[1] \in Nat /\ DOMAIN exit = 0 .. 1
    BY DEF SyncType
<1> QED BY <1>1, <1>2, Parity

(* A section is opened on the polarity in use. *)
LEMMA EnterSync ==
    ASSUME SyncType, SyncInv, NEW r \in Readers, Enter(r)
    PROVE  SyncInv'
<1>0. PICK p \in 0 .. 1 : p = enter % 2
    BY SyncNumbers
<1>1. /\ section' = [section EXCEPT ![r] = [at |-> "in", val |-> enter + 2]]
      /\ enter' = enter + 2 /\ UNCHANGED <<exit, waitingFor, wakeup, writer>>
      /\ section[r].at = "out" /\ section \in [Readers -> Sections]
    BY DEF Enter, SyncType
<1>2. enter' % 2 = p /\ (enter' + 1) % 2 = 1 - p /\ enter' \in Nat
    <2>1. enter + 2 \in Nat /\ enter \in Nat BY SyncNumbers
    <2> QED BY <1>0, <1>1, <2>1, Parity
<1>3. Open(p)' = Open(p) \cup {r} /\ r \notin Open(p)
    BY <1>0, <1>1, <1>2 DEF Open
<1>4. Open(1 - p)' = Open(1 - p)
    BY <1>0, <1>1, <1>2 DEF Open
<1>5. Cardinality(Open(p)') = Cardinality(Open(p)) + 1 /\ Cardinality(Open(p)) \in Nat
    BY <1>3, OpenFinite, FiniteReaders
<1>6. CurrentInv'
    <2>1. enter = exit[p] + 2 * Cardinality(Open(p)) /\ enter \in Nat /\ exit[p] \in Nat
        BY <1>0, SyncNumbers DEF SyncInv, CurrentInv
    <2>2. enter' = exit[p] + 2 * Cardinality(Open(p)')
        BY <1>1, <1>5, <2>1
    <2> QED BY <1>1, <1>2, <2>2 DEF CurrentInv
<1>7. OldInv'
    <2>1. CASE Flipped
        <3>1. writer.old % 2 = 1 - p
            BY <1>0, <2>1, SyncNumbers DEF SyncInv, OldInv
        <3>2. (writer.old + 1) % 2 = p
            BY <1>0, <2>1 DEF SyncInv, OldInv
        <3>3. writer.old = exit[1 - p] + 2 * Cardinality(Open(1 - p))
            BY <2>1, <3>1 DEF SyncInv, OldInv
        <3>4. writer.at = "drain" => Open(1 - p) = {}
            BY <1>0, SyncNumbers DEF SyncInv, OldInv
        <3> QED BY <1>1, <1>2, <1>4, <2>1, <3>1, <3>2, <3>3, <3>4 DEF OldInv, Flipped
    <2>2. CASE ~Flipped
        <3>1. Open(1 - p) = {} BY <1>0, <2>2, SyncNumbers DEF SyncInv, OldInv
        <3> QED BY <1>1, <1>2, <1>4, <2>2, <3>1 DEF OldInv, Flipped
    <2> QED BY <2>1, <2>2
<1>8. StageInv'
    BY <1>0, <1>1, <1>2 DEF SyncInv, StageInv
<1>9. WakeInv'
    <2>1. \A q \in 0 .. 1 : Open(q) \subseteq Open(q)'
        BY <1>1 DEF Open
    <2>2. \A s \in Readers : section[s].at = "leaving" => section'[s] = section[s]
        BY <1>1
    <2>3. writer.old % 2 \in 0 .. 1 BY SyncNumbers
    <2> QED BY <1>1, <2>1, <2>2, <2>3 DEF SyncInv, WakeInv
<1> QED BY <1>6, <1>7, <1>8, <1>9 DEF SyncInv

(* A section is left on the polarity it was opened on. *)
LEMMA ExitSync ==
    ASSUME SyncType, SyncInv, NEW r \in Readers, Exit(r)
    PROVE  SyncInv'
<1>0. PICK p \in 0 .. 1 : p = section[r].val % 2
    BY Parity DEF Exit, SyncType, Sections
<1>1. /\ section' = [section EXCEPT ![r] = [at |-> "leaving", val |-> exit[p] + 2]]
      /\ exit' = [exit EXCEPT ![p] = @ + 2] /\ UNCHANGED <<enter, waitingFor, wakeup, writer>>
      /\ section[r].at = "in" /\ section \in [Readers -> Sections]
      /\ exit \in [0 .. 1 -> Nat]
    BY <1>0 DEF Exit, SyncType
<1>2. Open(p)' = Open(p) \ {r} /\ r \in Open(p)
    BY <1>0, <1>1 DEF Open
<1>3. Open(1 - p)' = Open(1 - p)
    BY <1>0, <1>1 DEF Open
<1>4. Cardinality(Open(p)') = Cardinality(Open(p)) - 1 /\ Cardinality(Open(p)) \in Nat
    BY <1>2, OpenFinite, FiniteReaders
<1>5. /\ exit'[p] = exit[p] + 2 /\ exit'[1 - p] = exit[1 - p]
      /\ exit[p] \in Nat /\ exit[1 - p] \in Nat
    BY <1>1
<1>6. ASSUME NEW n \in Nat, NEW q \in 0 .. 1, n = exit[q] + 2 * Cardinality(Open(q))
      PROVE  n = exit'[q] + 2 * Cardinality(Open(q)')
    <2>1. CASE q = p BY <1>4, <1>5, <1>6, <2>1
    <2>2. CASE q = 1 - p BY <1>3, <1>5, <1>6, <2>2
    <2> QED BY <2>1, <2>2
<1>7. CurrentInv'
    <2>1. PICK q \in 0 .. 1 : q = enter % 2 BY SyncNumbers
    <2>2. enter = exit[q] + 2 * Cardinality(Open(q)) BY <2>1 DEF SyncInv, CurrentInv
    <2>3. enter = exit'[q] + 2 * Cardinality(Open(q)') BY <1>6, <2>2, SyncNumbers
    <2> QED BY <1>1, <2>1, <2>3 DEF CurrentInv
<1>8. \A q \in 0 .. 1 : Open(q) = {} => Open(q)' = {}
    BY <1>2, <1>3
<1>9. OldInv'
    <2>1. PICK q \in 0 .. 1 : q = writer.old % 2 BY SyncNumbers
    <2>2. Flipped => writer.old = exit'[q] + 2 * Cardinality(Open(q)')
        BY <1>6, <2>1, SyncNumbers DEF SyncInv, OldInv
    <2>3. Flipped => enter % 2 = (writer.old + 1) % 2
        BY DEF SyncInv, OldInv
    <2>4. PICK k \in 0 .. 1 : k = (enter + 1) % 2 BY SyncNumbers
    <2>5. ~Flipped \/ writer.at = "drain" => Open(k)' = {}
        BY <1>8, <2>4 DEF SyncInv, OldInv
    <2> QED BY <1>1, <2>1, <2>2, <2>3, <2>4, <2>5 DEF OldInv, Flipped
<1>10. Open(p) # {} BY <1>2
<1>11. StageInv'
    <2>1. ASSUME writer.at = "cas" PROVE p # writer.value % 2
        <3>1. ~Flipped BY <2>1 DEF Flipped
        <3>2. Open((enter + 1) % 2) = {} BY <3>1 DEF SyncInv, OldInv
        <3>3. writer.value % 2 = (enter + 1) % 2
            BY <2>1, SyncNumbers DEF SyncInv, StageInv
        <3> QED BY <3>2, <3>3, <1>10
    <2>2. writer.at = "cas" => exit'[writer.value % 2] = exit[writer.value % 2]
        BY <1>0, <1>1, <2>1, SyncNumbers
    <2> QED BY <1>1, <2>2 DEF SyncInv, StageInv
<1>12. WakeInv'
    <2> SUFFICES ASSUME writer.at = "wait" PROVE WakeInv'
        BY <1>1 DEF WakeInv
    <2>1. PICK q \in 0 .. 1 : q = writer.old % 2 BY SyncNumbers
    <2>2. waitingFor = writer.old /\ writer.old = exit[q] + 2 * Cardinality(Open(q))
        BY <2>1 DEF SyncInv, StageInv, OldInv, Flipped
    <2>3. CASE wakeup > 0
        BY <2>3, <1>1 DEF WakeInv
    <2>4. CASE \E s \in Readers : section[s].at = "leaving" /\ section[s].val = waitingFor
        BY <2>4, <1>1 DEF WakeInv
    <2>5. CASE Open(q) # {}
        <3>1. CASE Open(q)' # {}
            BY <3>1, <2>1, <1>1 DEF WakeInv
        <3>2. CASE Open(q)' = {}
            <4>1. q = p BY <3>2, <2>5, <1>3
            <4>2. Cardinality(Open(p)') = 0 BY <3>2, <4>1, FS_EmptySet
            <4>3. writer.old = exit[p] + 2 BY <4>1, <4>2, <2>2, <1>4, <1>5
            <4>4. section'[r].at = "leaving" /\ section'[r].val = writer.old BY <4>3, <1>1
            <4> QED BY <4>4, <2>2, <1>1 DEF WakeInv
        <3> QED BY <3>1, <3>2
    <2> QED BY <2>1, <2>3, <2>4, <2>5 DEF SyncInv, WakeInv
<1> QED BY <1>7, <1>9, <1>11, <1>12 DEF SyncInv

(* The reader that reaches waiting_for signals. *)
LEMMA ExitSignalSync ==
    ASSUME SyncType, SyncInv, NEW r \in Readers, ExitSignal(r)
    PROVE  SyncInv'
<1>1. /\ section' = [section EXCEPT ![r] = Out]
      /\ section[r].at = "leaving" /\ section \in [Readers -> Sections]
      /\ UNCHANGED <<enter, exit, waitingFor, writer>>
    BY DEF ExitSignal, SyncType
<1>2. wakeup \in Nat /\ wakeup' >= wakeup /\ (section[r].val = waitingFor => wakeup' > 0)
    BY DEF ExitSignal, SyncType
<1>3. ASSUME NEW p \in 0 .. 1 PROVE Open(p)' = Open(p)
    BY <1>1 DEF Open, Out
<1>4. PICK p \in 0 .. 1 : p = enter % 2 BY SyncNumbers
<1>5. PICK q \in 0 .. 1 : q = writer.old % 2 BY SyncNumbers
<1>6. PICK k \in 0 .. 1 : k = (enter + 1) % 2 BY SyncNumbers
<1>7. CurrentInv'
    BY <1>1, <1>3, <1>4 DEF SyncInv, CurrentInv
<1>8. OldInv'
    BY <1>1, <1>3, <1>5, <1>6 DEF SyncInv, OldInv, Flipped
<1>9. StageInv'
    BY <1>1 DEF SyncInv, StageInv
<1>10. WakeInv'
    <2>1. CASE \E s \in Readers : section[s].at = "leaving" /\ section[s].val = waitingFor
        BY <1>1, <1>2, <2>1 DEF WakeInv
    <2>2. CASE wakeup > 0
        <3>1. wakeup' > 0 BY <1>1, <1>2, <2>2 DEF ExitSignal
        <3> QED BY <3>1 DEF WakeInv
    <2> QED BY <1>1, <1>3, <1>5, <2>1, <2>2 DEF SyncInv, WakeInv
<1> QED BY <1>7, <1>8, <1>9, <1>10 DEF SyncInv

(* The open sections are those of the readers. *)
LEMMA SameOpen ==
    ASSUME NEW p \in 0 .. 1, UNCHANGED section
    PROVE  Open(p)' = Open(p)
BY DEF Open

(* synchronize sets the other exit counter to the value after the flip. *)
LEMMA SyncStoreSync ==
    ASSUME SyncType, SyncInv, SyncStore
    PROVE  SyncInv'
<1>0. PICK p \in 0 .. 1 : p = enter % 2 BY SyncNumbers
<1>1. writer.at = "store" /\ writer.value % 2 = p /\ ~Flipped
    BY <1>0 DEF SyncInv, StageInv, SyncStore, Flipped
<1>2. (writer.value + 1) % 2 = 1 - p /\ writer.value \in Nat
    BY <1>1, SyncNumbers
<1>3. /\ exit' = [exit EXCEPT ![1 - p] = writer.value + 1]
      /\ UNCHANGED <<enter, waitingFor, wakeup, section>>
    BY <1>2 DEF SyncStore
<1>4. writer'.at = "cas" /\ writer'.value = writer.value + 1 /\ writer'.old = writer.value
    BY DEF SyncStore
<1>5. exit'[p] = exit[p] /\ exit'[1 - p] = writer.value + 1
    BY <1>3 DEF SyncType
<1>6. (enter + 1) % 2 = 1 - p /\ Open(p)' = Open(p) /\ Open(1 - p)' = Open(1 - p)
    BY <1>0, <1>3, SameOpen, SyncNumbers
<1>7. CurrentInv'
    BY <1>0, <1>3, <1>5, <1>6 DEF SyncInv, CurrentInv
<1>8. OldInv'
    BY <1>1, <1>3, <1>4, <1>6 DEF SyncInv, OldInv, Flipped
<1>9. StageInv'
    BY <1>0, <1>1, <1>2, <1>3, <1>4, <1>5 DEF StageInv
<1>10. WakeInv' BY <1>4 DEF WakeInv
<1> QED BY <1>7, <1>8, <1>9, <1>10 DEF SyncInv

(* The flip of enter: new sections open on the other polarity. *)
LEMMA SyncFlipSync ==
    ASSUME SyncType, SyncInv, SyncFlip
    PROVE  SyncInv'
<1>0. PICK p \in 0 .. 1 : p = enter % 2 BY SyncNumbers
<1>1. /\ writer.at = "cas" /\ ~Flipped
      /\ writer.value = writer.old + 1 /\ writer.old % 2 = p /\ exit[writer.value % 2] = writer.value
    BY <1>0 DEF SyncInv, StageInv, SyncFlip, Flipped
<1>2. UNCHANGED <<exit, waitingFor, wakeup, section>>
    BY DEF SyncFlip
<1>3. writer.value % 2 = 1 - p /\ (writer.value + 1) % 2 = p /\ (enter + 1) % 2 = 1 - p
    BY <1>0, <1>1, SyncNumbers
<1>4. Open(1 - p) = {} /\ Open(1 - p)' = {} /\ Open(p)' = Open(p)
    BY <1>1, <1>2, <1>3, SameOpen DEF SyncInv, OldInv
<1>5. CASE enter = writer.old
    <2>1. enter' = writer.value /\ writer' = [writer EXCEPT !.at = "announce"]
        BY <1>5 DEF SyncFlip
    <2>2. writer'.at = "announce" /\ writer'.old = writer.old
        BY <2>1 DEF SyncType
    <2>3. CurrentInv'
        <3>1. Cardinality(Open(1 - p)') = 0 BY <1>4, FS_EmptySet
        <3>2. writer.value = exit[1 - p] + 2 * Cardinality(Open(1 - p)')
            BY <1>1, <1>3, <3>1, SyncNumbers
        <3> QED BY <1>2, <1>3, <2>1, <3>2 DEF CurrentInv
    <2>4. OldInv'
        <3>1. writer.old = exit[p] + 2 * Cardinality(Open(p))
            BY <1>0, <1>5 DEF SyncInv, CurrentInv
        <3>2. enter' % 2 = (writer.old + 1) % 2 BY <1>1, <2>1
        <3> QED BY <1>1, <1>2, <1>4, <2>2, <3>1, <3>2 DEF OldInv, Flipped
    <2>5. StageInv' /\ WakeInv'
        BY <2>2 DEF StageInv, WakeInv
    <2> QED BY <2>3, <2>4, <2>5 DEF SyncInv
<1>6. CASE enter # writer.old
    <2>1. enter' = enter /\ writer'.at = "store" /\ writer'.value = enter
        BY <1>6 DEF SyncFlip
    <2>2. CurrentInv'
        BY <1>0, <1>2, <1>4, <2>1 DEF SyncInv, CurrentInv
    <2>3. OldInv'
        BY <1>0, <1>1, <1>2, <1>3, <1>4, <2>1 DEF SyncInv, OldInv, Flipped
    <2>4. StageInv' /\ WakeInv'
        BY <2>1 DEF StageInv, WakeInv
    <2> QED BY <2>2, <2>3, <2>4 DEF SyncInv
<1> QED BY <1>5, <1>6

(* The steps after the flip leave the counters and the sections alone. *)
LEMMA AfterFlip ==
    ASSUME SyncType, SyncInv, UNCHANGED <<enter, exit, section>>
    PROVE  /\ CurrentInv'
           /\ writer' = [writer EXCEPT !.at = writer'.at] /\ Flipped /\ Flipped'
              /\ (writer'.at = "drain" => Open(writer.old % 2) = {}) => OldInv'
<1>0. PICK p \in 0 .. 1 : p = enter % 2 BY SyncNumbers
<1>1. PICK q \in 0 .. 1 : q = writer.old % 2 BY SyncNumbers
<1>2. Open(p)' = Open(p) /\ Open(q)' = Open(q)
    BY SameOpen
<1>3. CurrentInv'
    BY <1>0, <1>2 DEF SyncInv, CurrentInv
<1>4. ASSUME writer' = [writer EXCEPT !.at = writer'.at], Flipped, Flipped',
             writer'.at = "drain" => Open(writer.old % 2) = {}
      PROVE  OldInv'
    <2>1. writer'.old = writer.old BY <1>4 DEF SyncType
    <2>2. enter % 2 = (writer.old + 1) % 2 /\ writer.old = exit[q] + 2 * Cardinality(Open(q))
        BY <1>1, <1>4 DEF SyncInv, OldInv
    <2>3. (enter + 1) % 2 = q
        BY <1>1, <2>2, SyncNumbers
    <2>4. writer'.at # "drain" \/ Open(q) = {} BY <1>1, <1>4
    <2>5. Open((enter + 1) % 2)' = Open(q)
        BY <1>2, <2>3 DEF Open
    <2> QED BY <1>1, <1>4, <1>2, <2>1, <2>2, <2>3, <2>4, <2>5 DEF OldInv, Flipped
<1> QED BY <1>3, <1>4

(* waiting_for is announced. *)
LEMMA SyncAnnounceSync ==
    ASSUME SyncType, SyncInv, SyncAnnounce
    PROVE  SyncInv'
<1>1. /\ writer.at = "announce" /\ Flipped
      /\ writer' = [writer EXCEPT !.at = "check"] /\ waitingFor' = writer.old
      /\ UNCHANGED <<enter, exit, section>>
    BY DEF SyncAnnounce, Flipped
<1>2. writer'.at = "check" /\ writer'.old = writer.old /\ Flipped'
    BY <1>1 DEF SyncType, Flipped
<1>3. CurrentInv' /\ OldInv'
    BY <1>1, <1>2, AfterFlip
<1>4. StageInv' /\ WakeInv'
    BY <1>1, <1>2 DEF StageInv, WakeInv
<1> QED BY <1>3, <1>4 DEF SyncInv

(* The old polarity is compared once. *)
LEMMA SyncCheckSync ==
    ASSUME SyncType, SyncInv, SyncCheck
    PROVE  SyncInv'
<1>1. /\ writer.at = "check" /\ Flipped
      /\ UNCHANGED <<enter, exit, section, waitingFor, wakeup>>
    BY DEF SyncCheck, Flipped
<1>2. PICK q \in 0 .. 1 : q = writer.old % 2 BY SyncNumbers
<1>3. writer.old = exit[q] + 2 * Cardinality(Open(q)) /\ waitingFor = writer.old
    BY <1>1, <1>2 DEF SyncInv, OldInv, StageInv
<1>4. exit[q] = writer.old <=> Open(q) = {}
    <2>1. Cardinality(Open(q)) \in Nat /\ (Cardinality(Open(q)) = 0 <=> Open(q) = {})
        BY OpenFinite
    <2>2. exit[q] \in Nat BY SyncNumbers
    <2> QED BY <1>3, <2>1, <2>2
<1>5. PICK l \in {"drain", "wait"} :
        /\ writer' = [writer EXCEPT !.at = l] /\ (l = "drain" <=> exit[q] = writer.old)
    BY <1>2 DEF SyncCheck
<1>6. writer'.at = l /\ writer'.old = writer.old /\ Flipped'
    BY <1>5 DEF SyncType, Flipped
<1>7. CurrentInv' /\ OldInv'
    BY <1>1, <1>2, <1>4, <1>5, <1>6, AfterFlip
<1>8. StageInv'
    BY <1>1, <1>3, <1>6 DEF StageInv
<1>9. WakeInv'
    <2>1. Open(q)' = Open(q) BY <1>1, SameOpen
    <2> QED BY <1>2, <1>4, <1>5, <1>6, <2>1 DEF WakeInv
<1> QED BY <1>7, <1>8, <1>9 DEF SyncInv

(* The semaphore is waited for. *)
LEMMA SyncWaitSync ==
    ASSUME SyncType, SyncInv, SyncWait
    PROVE  SyncInv'
<1>1. /\ writer.at = "wait" /\ Flipped
      /\ writer' = [writer EXCEPT !.at = "check"]
      /\ UNCHANGED <<enter, exit, section, waitingFor>>
    BY DEF SyncWait, Flipped
<1>2. writer'.at = "check" /\ writer'.old = writer.old /\ Flipped'
    BY <1>1 DEF SyncType, Flipped
<1>3. CurrentInv' /\ OldInv'
    BY <1>1, <1>2, AfterFlip
<1>4. StageInv' /\ WakeInv'
    BY <1>1, <1>2 DEF SyncInv, StageInv, WakeInv
<1> QED BY <1>3, <1>4 DEF SyncInv

(* The semaphore is drained. *)
LEMMA SyncDrainSync ==
    ASSUME SyncType, SyncInv, SyncDrain
    PROVE  SyncInv'
<1>1. writer.at = "drain" /\ UNCHANGED <<enter, exit, section>> /\ writer'.at = "done"
    BY DEF SyncDrain, NoWriter
<1>2. PICK k \in 0 .. 1 : k = (enter + 1) % 2 BY SyncNumbers
<1>3. Open(k) = {} /\ Open(k)' = {}
    BY <1>1, <1>2, SameOpen DEF SyncInv, OldInv
<1>4. CurrentInv' BY <1>1, AfterFlip
<1>5. OldInv' /\ StageInv' /\ WakeInv'
    BY <1>1, <1>2, <1>3 DEF OldInv, StageInv, WakeInv, Flipped
<1> QED BY <1>4, <1>5 DEF SyncInv

(* synchronize is entered with the value of enter, and left after the drain. *)
LEMMA WriterSync ==
    ASSUME SyncType, SyncInv, UNCHANGED <<enter, exit, section, waitingFor, wakeup>>,
           writer.at \in {"none", "done"},
           \/ writer' = [at |-> "store", value |-> enter, old |-> 0]
           \/ writer' = NoWriter
    PROVE  SyncInv'
<1>1. writer'.at \in {"store", "none"} /\ (writer'.at = "store" => writer'.value = enter)
    BY DEF NoWriter
<1>2. PICK k \in 0 .. 1 : k = (enter + 1) % 2 BY SyncNumbers
<1>3. Open(k) = {} /\ Open(k)' = {}
    BY <1>2, SameOpen DEF SyncInv, OldInv, Flipped
<1>4. CurrentInv' BY AfterFlip
<1>5. OldInv' /\ WakeInv'
    BY <1>1, <1>2, <1>3 DEF OldInv, WakeInv, Flipped
<1>6. StageInv'
    BY <1>1 DEF StageInv
<1> QED BY <1>4, <1>5, <1>6 DEF SyncInv

(* Who leaves the synchronizer alone keeps its part. *)
LEMMA SameSync ==
    ASSUME SyncType, SyncInv, UNCHANGED <<enter, exit, section, waitingFor, wakeup, writer>>
    PROVE  SyncInv'
BY DEF SyncInv, CurrentInv, OldInv, StageInv, WakeInv, Flipped, Open

-----------------------------------------------------------------------------
(***************************************************************************)
(* Frames: a step that fails an assertion changes nothing else, and most   *)
(* steps of clients leave the arrays and the synchronizer alone.           *)
(***************************************************************************)
rest == <<pc, reg, lock, mask, count, list, deferred, dnext, refs, made, arrays, view, held,
          phase, syncVars>>

(* A failed assertion stops the program where it is. *)
LEMMA Panics ==
    ASSUME NEW why, Panic(why)
    PROVE  UNCHANGED rest
BY DEF Panic, rest, syncVars

(* A step that ends in a fault has changed nothing else. *)
LEMMA FaultStep ==
    ASSUME Next, fault' # "none"
    PROVE  UNCHANGED rest
<1>0. fault = "none" BY DEF Next
<1>1. ASSUME NEW c \in Clients, ClientStep(c) PROVE UNCHANGED rest
    <2>1. CASE UpdateList(c)
        BY <1>0, <2>1, Panics DEF UpdateList
    <2>2. CASE LoadMask(c)
        BY <1>0, <2>2, Panics DEF LoadMask
    <2>3. CASE Allocated(c)
        BY <1>0, <2>3, Panics DEF Allocated
    <2>4. CASE LoadAll(c)
        BY <1>0, <2>4, Panics DEF LoadAll
    <2>5. CASE Allocate(c) \/ AllocateN(c)
        BY <1>0, <2>5 DEF Allocate, AllocateN, Call
    <2>6. CASE BlockForAllocation(c) \/ TryAddBlock(c) \/ Expanded(c)
        BY <1>0, <2>6 DEF BlockForAllocation, TryAddBlock, Expanded
    <2>7. CASE ReadTail(c) \/ PopDeferred(c) \/ ClearNext(c)
        BY <1>0, <2>7 DEF ReadTail, PopDeferred, ClearNext
    <2>8. CASE AddAllocated(c) \/ AddAll(c) \/ Release(c) \/ ClearBits(c)
        BY <1>0, <2>8 DEF AddAllocated, AddAll, Release, ClearBits
    <2>9. CASE Claim(c) \/ StoreClaim(c) \/ LinkHead(c) \/ PushDeferred(c)
        BY <1>0, <2>9 DEF Claim, StoreClaim, LinkHead, PushDeferred
    <2> QED BY <1>1, <2>1, <2>2, <2>3, <2>4, <2>5, <2>6, <2>7, <2>8, <2>9 DEF ClientStep
<1>2. ASSUME NEW r \in Readers, ReaderStep(r) PROVE FALSE
    BY <1>0, <1>2 DEF ReaderStep, OpenSection, ReadArray, IncrementRefcount, LeaveSection,
                      RelinquishBlockArray, storageVars
<1>3. ~Synchronize
    BY <1>0 DEF Synchronize, storageVars
<1>4. ASSUME DropStep PROVE UNCHANGED rest
    BY <1>0, <1>4, Panics DEF DropStep, BeginDrop, DropDeferred, DropList, DropBlocks
<1> QED BY <1>1, <1>2, <1>3, <1>4 DEF Next

(* The calls that extend the active array. *)
Extends(c) == TryAddBlock(c) \/ Expanded(c)

(* What a client leaves alone unless it extends the active array. *)
LEMMA ClientFrame ==
    ASSUME NEW c \in Clients, ClientStep(c), ~Extends(c)
    PROVE  UNCHANGED <<made, arrays, view, phase, syncVars>>
<1>1. CASE UpdateList(c)
    BY <1>1 DEF UpdateList, Panic
<1>2. CASE LoadMask(c) \/ Allocated(c) \/ LoadAll(c)
    BY <1>2 DEF LoadMask, Allocated, LoadAll, Panic
<1>5. CASE Allocate(c) \/ AllocateN(c)
    BY <1>5 DEF Allocate, AllocateN, Call
<1>6. CASE BlockForAllocation(c)
    BY <1>6 DEF BlockForAllocation
<1>7. CASE ReadTail(c) \/ PopDeferred(c) \/ ClearNext(c)
    BY <1>7 DEF ReadTail, PopDeferred, ClearNext
<1>8. CASE AddAllocated(c) \/ AddAll(c) \/ Release(c) \/ ClearBits(c)
    BY <1>8 DEF AddAllocated, AddAll, Release, ClearBits
<1>9. CASE Claim(c) \/ StoreClaim(c) \/ LinkHead(c) \/ PushDeferred(c)
    BY <1>9 DEF Claim, StoreClaim, LinkHead, PushDeferred
<1> QED BY <1>1, <1>2, <1>5, <1>6, <1>7, <1>8, <1>9 DEF ClientStep, Extends

(* What a client that extends the active array leaves alone. *)
LEMMA ExtendsFrame ==
    ASSUME NEW c \in Clients, Extends(c)
    PROVE  /\ UNCHANGED <<view, phase, held, mask, count, dnext, deferred, refs>>
           /\ UNCHANGED <<enter, exit, waitingFor, wakeup, section, sectionsLeft>>
BY DEF Extends, TryAddBlock, Expanded, blockVars, syncVars

-----------------------------------------------------------------------------
(***************************************************************************)
(* The types of the variables.                                             *)
(***************************************************************************)
LEMMA FiniteClients ==
    ASSUME NEW S \in SUBSET Clients
    PROVE  /\ IsFiniteSet(S) /\ Cardinality(S) \in Nat /\ Cardinality(S) <= Cardinality(Clients)
           /\ Cardinality(S) = 0 <=> S = {}
           /\ \A c \in Clients : /\ c \notin S => Cardinality(S \cup {c}) = Cardinality(S) + 1
                                 /\ c \in S => Cardinality(S \ {c}) = Cardinality(S) - 1
<1>1. IsFiniteSet(S) /\ Cardinality(S) <= Cardinality(Clients)
    BY SizesOK, FS_Subset
<1>2. Cardinality(S) \in Nat /\ (Cardinality(S) = 0 <=> S = {})
    BY <1>1, FS_CardinalityType, FS_EmptySet
<1>3. ASSUME NEW c \in Clients PROVE /\ c \notin S => Cardinality(S \cup {c}) = Cardinality(S) + 1
                                     /\ c \in S => Cardinality(S \ {c}) = Cardinality(S) - 1
    BY <1>1, FS_AddElement, FS_RemoveElement
<1> QED BY <1>1, <1>2, <1>3

(* A client that comes back with a block has room to have made it. *)
LEMMA RoomToMake ==
    ASSUME BlockType, MadeInv, NEW c \in Clients, pc[c] = "relock"
    PROVE  made + 1 \in Blocks /\ Places = Blocks \cup {None}
<1>1. Relocking \in SUBSET Clients /\ c \in Relocking BY DEF Relocking
<1>2. Cardinality(Relocking) \in Nat /\ Cardinality(Relocking) # 0
    BY <1>1, FiniteClients
<1> QED BY <1>2, SizesOK DEF MadeInv, BlockType, Places, Blocks, None

(* The places of a link: a block or none. *)
LEMMA PlacesAre == Places = Blocks \cup {None} /\ None \notin Blocks
BY SizesOK DEF Places, Blocks, None

(* Setting one of a client's locals. *)
LEMMA RegType ==
    ASSUME NEW q \in Regs
    PROVE  /\ \A b \in Places : [q EXCEPT !.b = b] \in Regs /\ [q EXCEPT !.h = b] \in Regs
                                /\ [q EXCEPT !.t = b] \in Regs /\ [q EXCEPT !.h = b, !.t = None] \in Regs
           /\ \A s \in SUBSET Entries : [q EXCEPT !.set = s] \in Regs
           /\ NoReg \in Regs /\ None \in Places
           /\ q.b \in Places /\ q.h \in Places /\ q.t \in Places /\ q.set \subseteq Entries
<1>1. None \in Places BY PlacesAre
<1>2. NoReg \in Regs BY <1>1 DEF NoReg, Regs, CallKinds
<1>3. ASSUME NEW b \in Places
      PROVE  /\ [q EXCEPT !.b = b] \in Regs /\ [q EXCEPT !.h = b] \in Regs
             /\ [q EXCEPT !.t = b] \in Regs /\ [q EXCEPT !.h = b, !.t = None] \in Regs
    BY <1>1 DEF Regs
<1> QED BY <1>1, <1>2, <1>3 DEF Regs

(* What is known by links and locals is a pushed block or none. *)
LEMMA KnownPlaces ==
    ASSUME StorageInv
    PROVE  /\ Pushed \subseteq Blocks /\ Known \subseteq Places /\ None \in Known
           /\ \A b \in Known : b # None => b \in Pushed
           /\ list.head \in Known /\ list.tail \in Known /\ deferred \in Known
           /\ \A b \in Blocks : dnext[b] \in Known
           /\ held \subseteq Blocks \X Entries
<1>1. Pushed \subseteq 1 .. made /\ made \in Places BY DEF StorageInv, BlockType, PushedInv
<1>2. Pushed \subseteq Blocks BY <1>1, SizesOK DEF Places, Blocks
<1>3. list \in Lists(Known) /\ deferred \in Known /\ dnext \in [Blocks -> Known]
    BY DEF StorageInv, PushedInv
<1>4. list.head \in Known /\ list.tail \in Known
    BY <1>3 DEF Lists
<1>5. held \subseteq Blocks \X Entries
    BY <1>2 DEF StorageInv, PushedInv
<1> QED BY <1>2, <1>3, <1>4, <1>5, PlacesAre DEF Known

(* A client's step keeps the types of labels and locals. *)
LEMMA ClientTypeStep ==
    ASSUME StorageInv, NEW c \in Clients, ClientStep(c), fault' = "none"
    PROVE  ClientType'
<1> DEFINE to(l, q) == pc' = [pc EXCEPT ![c] = l] /\ reg' = [reg EXCEPT ![c] = q]
<1>0. ClientType /\ BlockType BY DEF StorageInv
<1>1. ASSUME NEW l \in PCs, NEW q \in Regs, to(l, q), lock' \in {lock, c, Nobody}
      PROVE  ClientType'
    BY <1>0, <1>1 DEF ClientType
<1>2. reg[c] \in Regs BY <1>0 DEF ClientType
<1>3. list.head \in Places /\ list.tail \in Places /\ deferred \in Places
    BY KnownPlaces
<1>4. reg = [reg EXCEPT ![c] = reg[c]] BY <1>0 DEF ClientType
<1> HIDE DEF to
<1>5. CASE Allocate(c) \/ AllocateN(c)
    <2>1. PICK o \in {"one", "many"}, n \in Nat : Call(c, o, n)
        BY <1>5, SizesOK DEF Allocate, AllocateN
    <2>2. [NoReg EXCEPT !.op = o, !.want = n] \in Regs
        BY <1>2, RegType DEF NoReg, Regs, CallKinds
    <2> QED BY <1>1, <2>1, <2>2 DEF Call, Goto, Set, to, PCs
<1>6. CASE BlockForAllocation(c)
    <2>1. CASE list.head # None
        BY <1>1, <1>2, <1>3, <1>6, <2>1, RegType DEF BlockForAllocation, Goto, Set, to, PCs
    <2>2. CASE list.head = None /\ deferred # None
        BY <1>1, <1>2, <1>3, <1>6, <2>2, RegType DEF BlockForAllocation, Goto, Set, to, PCs
    <2>3. CASE list.head = None /\ deferred = None
        BY <1>1, <1>2, <1>4, <1>6, <2>3 DEF BlockForAllocation, Goto, Set, to, PCs
    <2> QED BY <2>1, <2>2, <2>3
<1>7. CASE TryAddBlock(c)
    <2>1. made + 1 \in Places
        BY <1>7, RoomToMake DEF TryAddBlock, StorageInv
    <2>2. CASE Len(arrays[Active].blocks) < SizeOf(Active)
        BY <1>1, <1>2, <1>4, <1>7, <2>2 DEF TryAddBlock, Goto, to, PCs
    <2>3. CASE ~(Len(arrays[Active].blocks) < SizeOf(Active))
        BY <1>1, <1>2, <1>7, <2>1, <2>3, RegType DEF TryAddBlock, Goto, Set, to, PCs
    <2> QED BY <2>2, <2>3
<1>8. CASE Expanded(c)
    BY <1>1, <1>2, <1>8, RegType DEF Expanded, Goto, Set, to, PCs
<1>9. CASE ReadTail(c)
    <2>1. reg[c].h # None BY <1>9 DEF ReadTail, StorageInv, PushedInv, LocalsKnown
    <2>2. dnext[reg[c].h] \in Places BY <1>0, <1>2, <2>1, RegType, PlacesAre, KnownPlaces
    <2>3. PICK n \in Places : n = IF dnext[reg[c].h] = reg[c].h THEN None ELSE dnext[reg[c].h]
        BY <1>2, <2>2, RegType
    <2> QED BY <1>1, <1>2, <1>9, <2>3, RegType DEF ReadTail, Goto, Set, to, PCs
<1>10. CASE PopDeferred(c)
    <2>1. CASE deferred = reg[c].h
        BY <1>1, <1>2, <1>4, <1>10, <2>1 DEF PopDeferred, Goto, to, PCs
    <2>2. CASE deferred # reg[c].h
        BY <1>1, <1>2, <1>3, <1>10, <2>2, RegType DEF PopDeferred, Goto, Set, to, PCs
    <2> QED BY <2>1, <2>2
<1>11. CASE ClearNext(c)
    BY <1>1, <1>2, <1>11, RegType DEF ClearNext, Goto, Set, to, PCs
<1>12. CASE UpdateList(c)
    <2>1. Goto(c, "find") /\ Set(c, [reg[c] EXCEPT !.h = None]) /\ lock' = lock
        BY <1>12 DEF UpdateList, Panic
    <2> QED BY <1>1, <1>2, <2>1, RegType DEF Goto, Set, to, PCs
<1>13. CASE LoadMask(c)
    <2>1. PICK s \in SUBSET Entries : s = Lowest(Full \ mask[reg[c].b], 1)
        BY DEF Lowest, Full
    <2>2. Goto(c, "add") /\ Set(c, [reg[c] EXCEPT !.set = s]) /\ lock' = lock
        BY <1>13, <2>1 DEF LoadMask, Panic
    <2> QED BY <1>1, <1>2, <2>2, RegType DEF Goto, Set, to, PCs
<1>14. CASE AddAllocated(c)
    BY <1>1, <1>2, <1>4, <1>14 DEF AddAllocated, Goto, to, PCs
<1>15. CASE Allocated(c)
    <2>1. Idle(c) /\ lock' = Nobody
        BY <1>15 DEF Allocated, Panic
    <2> QED BY <1>1, <1>2, <2>1, RegType DEF Idle, Goto, Set, to, PCs
<1>16. CASE LoadAll(c)
    <2>1. PICK s \in SUBSET Entries : s = Full \ mask[reg[c].b]
        BY DEF Full
    <2>2. Goto(c, "add") /\ Set(c, [reg[c] EXCEPT !.set = s]) /\ lock' = lock
        BY <1>16, <2>1 DEF LoadAll, Panic
    <2> QED BY <1>1, <1>2, <2>2, RegType DEF Goto, Set, to, PCs
<1>17. CASE AddAll(c)
    <2>1. PICK s \in SUBSET Entries : s = reg[c].set \ Lowest(reg[c].set, reg[c].want)
        BY <1>2, RegType
    <2>2. CASE s = {}
        <3>1. Idle(c) /\ lock' = Nobody BY <1>17, <2>1, <2>2 DEF AddAll
        <3> QED BY <1>1, <1>2, <3>1, RegType DEF Idle, Goto, Set, to, PCs
    <2>3. CASE s # {}
        <3>1. Goto(c, "xor") /\ Set(c, [reg[c] EXCEPT !.set = s]) /\ lock' = Nobody
            BY <1>17, <2>1, <2>3 DEF AddAll
        <3> QED BY <1>1, <1>2, <3>1, RegType DEF Goto, Set, to, PCs
    <2> QED BY <2>2, <2>3
<1>18. CASE Release(c)
    <2>1. PICK e \in held : Set(c, [NoReg EXCEPT !.op = "release", !.b = e[1], !.set = {e[2]}])
        BY <1>18 DEF Release
    <2>2. e[1] \in Blocks /\ e[2] \in Entries BY KnownPlaces
    <2>3. [NoReg EXCEPT !.op = "release", !.b = e[1], !.set = {e[2]}] \in Regs
        BY <2>2, PlacesAre DEF NoReg, Regs, CallKinds
    <2> QED BY <1>1, <1>18, <2>1, <2>3 DEF Release, Goto, Set, to, PCs
<1>19. CASE Released(c) /\ lock' = lock
    BY <1>1, <1>2, <1>19, RegType DEF Released, Idle, Goto, Set, to, PCs
<1>20. CASE ClearBits(c)
    BY <1>1, <1>2, <1>4, <1>19, <1>20 DEF ClearBits, Goto, to, PCs
<1>21. CASE Claim(c)
    BY <1>1, <1>2, <1>4, <1>19, <1>21 DEF Claim, Goto, to, PCs
<1>22. CASE StoreClaim(c)
    BY <1>1, <1>2, <1>3, <1>22, RegType DEF StoreClaim, Goto, Set, to, PCs
<1>23. CASE LinkHead(c)
    BY <1>1, <1>2, <1>4, <1>23 DEF LinkHead, Goto, to, PCs
<1>24. CASE PushDeferred(c)
    <2>1. CASE deferred = reg[c].h
        BY <1>19, <1>24, <2>1 DEF PushDeferred
    <2>2. CASE deferred # reg[c].h
        BY <1>1, <1>2, <1>3, <1>24, <2>2, RegType DEF PushDeferred, Goto, Set, to, PCs
    <2> QED BY <2>1, <2>2
<1> QED BY <1>5, <1>6, <1>7, <1>8, <1>9, <1>10, <1>11, <1>12, <1>13, <1>14, <1>15, <1>16, <1>17,
           <1>18, <1>20, <1>21, <1>22, <1>23, <1>24 DEF ClientStep

-----------------------------------------------------------------------------
(***************************************************************************)
(* The allocation list only links what it is given.                        *)
(***************************************************************************)
LEMMA ListLinks ==
    ASSUME NEW K, None \in K, NEW l \in Lists(K), NEW b \in Blocks, b \in K
    PROVE  /\ PushFront(l, b) \in Lists(K)
           /\ PushBack(l, b) \in Lists(K)
           /\ Unlink(l, b) \in Lists(K)
           /\ PushBack(Unlink(l, b), b) \in Lists(K)
<1>1. ASSUME NEW m \in Lists(K)
      PROVE  m.head \in K /\ m.tail \in K /\ m.prev \in [Blocks -> K] /\ m.next \in [Blocks -> K]
    BY DEF Lists
<1>2. ASSUME NEW m \in Lists(K) PROVE PushFront(m, b) \in Lists(K)
    <2>1. CASE m.head = None BY <2>1 DEF PushFront, Lists
    <2>2. CASE m.head # None
        <3>1. [m.next EXCEPT ![b] = m.head] \in [Blocks -> K] BY <1>1
        <3>2. [m.prev EXCEPT ![m.head] = b] \in [Blocks -> K] BY <1>1
        <3>3. PushFront(m, b) = [m EXCEPT !.next = [m.next EXCEPT ![b] = m.head],
                                          !.prev = [m.prev EXCEPT ![m.head] = b], !.head = b]
            BY <2>2 DEF PushFront, Lists
        <3> QED BY <3>1, <3>2, <3>3 DEF Lists
    <2> QED BY <2>1, <2>2
<1>3. ASSUME NEW m \in Lists(K) PROVE PushBack(m, b) \in Lists(K)
    <2>1. CASE m.tail = None BY <2>1 DEF PushBack, Lists
    <2>2. CASE m.tail # None
        <3>1. [m.prev EXCEPT ![b] = m.tail] \in [Blocks -> K] BY <1>1
        <3>2. [m.next EXCEPT ![m.tail] = b] \in [Blocks -> K] BY <1>1
        <3>3. PushBack(m, b) = [m EXCEPT !.prev = [m.prev EXCEPT ![b] = m.tail],
                                         !.next = [m.next EXCEPT ![m.tail] = b], !.tail = b]
            BY <2>2 DEF PushBack, Lists
        <3> QED BY <3>1, <3>2, <3>3 DEF Lists
    <2> QED BY <2>1, <2>2
<1>4. Unlink(l, b) \in Lists(K)
    <2>1. PICK p \in K, n \in K : p = l.prev[b] /\ n = l.next[b]
        BY <1>1
    <2>2. PICK ends \in Lists(K) :
            ends = [l EXCEPT !.head = IF p = None THEN n ELSE @, !.tail = IF n = None THEN p ELSE @]
        BY <1>1, <2>1 DEF Lists
    <2>3. [x \in Blocks |-> IF x = p THEN n ELSE ends.next[x]] \in [Blocks -> K]
        BY <1>1, <2>1, <2>2
    <2>4. [x \in Blocks |-> IF x = n THEN p ELSE ends.prev[x]] \in [Blocks -> K]
        BY <1>1, <2>1, <2>2
    <2>5. Unlink(l, b) = [ends EXCEPT !.next = [x \in Blocks |-> IF x = p THEN n ELSE ends.next[x]],
                                      !.prev = [x \in Blocks |-> IF x = n THEN p ELSE ends.prev[x]]]
        BY <2>1, <2>2 DEF Unlink, Lists
    <2> QED BY <2>3, <2>4, <2>5 DEF Lists
<1> QED BY <1>2, <1>3, <1>4

(* update of the allocation list links nothing new. *)
LEMMA UpdatedLinks ==
    ASSUME NEW K, None \in K, NEW l \in Lists(K), NEW b \in Blocks, b \in K, NEW m
    PROVE  Updated(l, b, m) \in Lists(K)
BY ListLinks DEF Updated

(* A client's registers in use. *)
LEMMA Locals ==
    ASSUME StorageInv, NEW c \in Clients
    PROVE  /\ reg[c] \in Regs /\ reg[c].set \subseteq Entries
           /\ IsFiniteSet(reg[c].set) /\ Cardinality(reg[c].set) \in Nat
           /\ pc[c] \in Releasing \cup {"load", "add", "full"} => reg[c].b \in Pushed /\ reg[c].b \in Blocks
           /\ pc[c] \in {"next", "pop", "clear", "update"} => reg[c].h \in Pushed /\ reg[c].h \in Blocks
           /\ reg[c].h \in Known /\ reg[c].t \in Known
<1>1. reg[c] \in Regs BY DEF StorageInv, ClientType
<1>2. reg[c].set \subseteq Entries BY <1>1, RegType
<1>3. IsFiniteSet(reg[c].set) /\ Cardinality(reg[c].set) \in Nat
    BY <1>2, SizesOK, FS_Subset, FS_CardinalityType
<1>4. LocalsKnown(c) BY DEF StorageInv, PushedInv
<1>5. pc[c] \in Releasing \cup {"load", "add", "full"} => reg[c].b \in Pushed
    BY <1>4, KnownPlaces DEF LocalsKnown, Releasing
<1>6. pc[c] \in {"next", "pop", "clear", "update"} => reg[c].h \in Pushed
    BY <1>4, KnownPlaces DEF LocalsKnown
<1>7. reg[c].h \in Known /\ reg[c].t \in Known BY <1>4 DEF LocalsKnown
<1> QED BY <1>1, <1>2, <1>3, <1>5, <1>6, <1>7, KnownPlaces

(* A client's step keeps the types of the blocks and the lists. *)
LEMMA BlockTypeStep ==
    ASSUME StorageInv, NEW c \in Clients, ClientStep(c), fault' = "none"
    PROVE  BlockType'
<1>0. BlockType /\ Cardinality(reg[c].set) \in Nat /\ reg[c].set \subseteq Entries
    BY Locals DEF StorageInv
<1>1. ASSUME UNCHANGED <<mask, refs, count, made>> PROVE BlockType'
    BY <1>0, <1>1 DEF BlockType
<1>2. CASE Allocate(c) \/ AllocateN(c) \/ BlockForAllocation(c)
    BY <1>1, <1>2 DEF Allocate, AllocateN, Call, BlockForAllocation, blockVars
<1>3. CASE TryAddBlock(c)
    <2>1. made' \in Places
        BY <1>3, RoomToMake, PlacesAre DEF TryAddBlock, StorageInv
    <2> QED BY <1>0, <1>3, <2>1 DEF TryAddBlock, BlockType, blockVars
<1>4. CASE Expanded(c) \/ ReadTail(c)
    BY <1>1, <1>4 DEF Expanded, ReadTail, blockVars
<1>5. CASE PopDeferred(c) \/ ClearNext(c) \/ StoreClaim(c) \/ LinkHead(c)
    BY <1>1, <1>5 DEF PopDeferred, ClearNext, StoreClaim, LinkHead
<1>6. CASE UpdateList(c) \/ LoadMask(c) \/ LoadAll(c)
    BY <1>1, <1>6 DEF UpdateList, LoadMask, LoadAll, Panic, blockVars
<1>7. CASE Allocated(c)
    <2>1. count' = count + 1 /\ UNCHANGED <<mask, refs, made>>
        BY <1>7 DEF Allocated, Panic, blockVars
    <2> QED BY <1>0, <2>1 DEF BlockType
<1>8. CASE AddAllocated(c)
    BY <1>0, <1>8 DEF AddAllocated, BlockType
<1>9. CASE AddAll(c)
    <2>1. /\ mask' = [mask EXCEPT ![reg[c].b] = @ \cup reg[c].set]
          /\ count' = count + Cardinality(reg[c].set) /\ made' = made
          /\ refs' = refs \/ refs' = [refs EXCEPT ![reg[c].b] = @ + 1]
        BY <1>9 DEF AddAll
    <2>2. refs' \in [Blocks -> Int] BY <1>0, <2>1 DEF BlockType
    <2>3. mask' \in [Blocks -> SUBSET Entries] BY <1>0, <2>1 DEF BlockType
    <2>4. count' \in Int /\ made' \in Places BY <1>0, <2>1 DEF BlockType
    <2> QED BY <2>2, <2>3, <2>4 DEF BlockType
<1>10. CASE Release(c)
    <2>1. PICK b \in Blocks : refs' = [refs EXCEPT ![b] = @ + 1]
        BY <1>10, KnownPlaces DEF Release
    <2> QED BY <1>0, <1>10, <2>1 DEF Release, BlockType
<1>11. /\ Released(c) => refs' \in [Blocks -> Int] /\ count' \in Int
       /\ UNCHANGED <<refs, count>> => refs' \in [Blocks -> Int] /\ count' \in Int
    BY <1>0 DEF Released, BlockType
<1>12. CASE ClearBits(c)
    BY <1>0, <1>11, <1>12 DEF ClearBits, BlockType
<1>13. CASE Claim(c) \/ PushDeferred(c)
    BY <1>0, <1>11, <1>13 DEF Claim, PushDeferred, BlockType
<1> QED BY <1>2, <1>3, <1>4, <1>5, <1>6, <1>7, <1>8, <1>9, <1>10, <1>12, <1>13 DEF ClientStep

-----------------------------------------------------------------------------
(***************************************************************************)
(* The mutex, and the bound on the blocks made.                            *)
(***************************************************************************)
Takes(c, l) == lock = Nobody /\ lock' = c /\ pc[c] \in {"idle", "relock"} /\ l \in {"find", "sync"}
Drops(c, l) == lock' = Nobody /\ pc[c] \in {"find", "add", "full"} /\ l \in {"relock", "idle", "xor"}
Keeps(c, l) == lock' = lock /\ pc[c] \in Locked /\ l \in Locked \ {"sync"}
Works(c, l) == lock' = lock /\ pc[c] \in Releasing \cup {"idle"} /\ l \in Releasing \cup {"idle"}

(* A client's step takes the mutex, drops it, keeps it or works without it. *)
LEMMA Moves ==
    ASSUME StorageInv, NEW c \in Clients, ClientStep(c), fault' = "none"
    PROVE  \E l \in PCs : pc' = [pc EXCEPT ![c] = l] /\ (Takes(c, l) \/ Drops(c, l) \/ Keeps(c, l) \/ Works(c, l))
<1> USE DEF PCs
<1>1. CASE Allocate(c) \/ AllocateN(c)
    BY <1>1 DEF Allocate, AllocateN, Call, Goto, Takes
<1>2. CASE BlockForAllocation(c)
    BY <1>2 DEF BlockForAllocation, Goto, Drops, Keeps, Locked
<1>3. CASE TryAddBlock(c)
    BY <1>3 DEF TryAddBlock, Goto, Takes
<1>4. CASE Expanded(c) \/ ReadTail(c) \/ PopDeferred(c) \/ ClearNext(c)
    BY <1>4 DEF Expanded, ReadTail, PopDeferred, ClearNext, Goto, Keeps, Locked
<1>5. CASE UpdateList(c) \/ LoadMask(c) \/ LoadAll(c) \/ AddAllocated(c)
    BY <1>5 DEF UpdateList, LoadMask, LoadAll, AddAllocated, Panic, Goto, Keeps, Locked
<1>6. CASE Allocated(c)
    BY <1>6 DEF Allocated, Panic, Idle, Goto, Drops
<1>7. CASE AddAll(c)
    BY <1>7 DEF AddAll, Idle, Goto, Drops
<1>8. CASE Release(c) \/ ClearBits(c) \/ Claim(c) \/ StoreClaim(c) \/ LinkHead(c) \/ PushDeferred(c)
    BY <1>8 DEF Release, ClearBits, Claim, StoreClaim, LinkHead, PushDeferred, Released, Idle, Goto,
                Works, Releasing
<1> QED BY <1>1, <1>2, <1>3, <1>4, <1>5, <1>6, <1>7, <1>8 DEF ClientStep

(* Nobody calls a storage that is being dropped. *)
LEMMA ClientOpen ==
    ASSUME StorageInv, NEW c \in Clients, ClientStep(c)
    PROVE  phase = "open"
<1>1. pc[c] # "idle" => phase = "open" BY DEF StorageInv, LockInv
<1>2. CASE pc[c] = "idle"
    <2>1. Allocate(c) \/ AllocateN(c) \/ Release(c)
        BY <1>2 DEF ClientStep, BlockForAllocation, TryAddBlock, Expanded, ReadTail, PopDeferred,
                ClearNext, UpdateList, LoadMask, LoadAll, AddAllocated, Allocated, AddAll, ClearBits,
                Claim, StoreClaim, LinkHead, PushDeferred
    <2> QED BY <2>1 DEF Allocate, AllocateN, Call, Release
<1> QED BY <1>1, <1>2

(* The mutex is held exactly at the places that hold it. *)
LEMMA LockStep ==
    ASSUME StorageInv, NEW c \in Clients, ClientStep(c), fault' = "none"
    PROVE  LockInv'
<1>0. /\ pc \in [Clients -> PCs] /\ lock \in Clients \cup {Nobody} /\ Nobody \notin Clients
      /\ LockInv
    BY SizesOK DEF StorageInv, ClientType
<1>1. PICK l \in PCs : /\ pc' = [pc EXCEPT ![c] = l]
                       /\ Takes(c, l) \/ Drops(c, l) \/ Keeps(c, l) \/ Works(c, l)
    BY Moves
<1>2. phase = "open" /\ phase' = "open"
    BY ClientOpen, ClientFrame, ExtendsFrame
<1>3. ASSUME NEW d \in Clients PROVE pc'[d] \in Locked <=> lock' = d
    <2>1. pc[d] \in Locked <=> lock = d BY <1>0 DEF LockInv
    <2>2. pc[c] \in Locked <=> lock = c BY <1>0 DEF LockInv
    <2>3. pc'[d] = IF d = c THEN l ELSE pc[d] BY <1>0, <1>1
    <2>4. CASE Takes(c, l) BY <1>0, <2>1, <2>3, <2>4 DEF Takes, Locked
    <2>5. CASE Drops(c, l) BY <1>0, <2>1, <2>2, <2>3, <2>5 DEF Drops, Locked
    <2>6. CASE Keeps(c, l) BY <1>0, <2>1, <2>2, <2>3, <2>6 DEF Keeps
    <2>7. CASE Works(c, l) BY <1>0, <2>1, <2>2, <2>3, <2>7 DEF Works, Locked, Releasing
    <2> QED BY <1>1, <2>4, <2>5, <2>6, <2>7
<1>4. writer'.at # "none" <=> \E d \in Clients : pc'[d] = "sync"
    <2>1. CASE TryAddBlock(c)
        <3>1. CASE Len(arrays[Active].blocks) < SizeOf(Active)
            <4>1. pc[c] = "relock" /\ pc' = [pc EXCEPT ![c] = "find"] /\ UNCHANGED writer
                BY <2>1, <3>1 DEF TryAddBlock, Goto, syncVars
            <4> QED BY <1>0, <4>1 DEF LockInv
        <3>2. CASE ~(Len(arrays[Active].blocks) < SizeOf(Active))
            <4>1. pc' = [pc EXCEPT ![c] = "sync"] /\ writer'.at = "store"
                BY <2>1, <3>2 DEF TryAddBlock, Goto
            <4> QED BY <1>0, <4>1
        <3> QED BY <3>1, <3>2
    <2>2. CASE Expanded(c)
        <3>1. pc[c] = "sync" /\ pc' = [pc EXCEPT ![c] = "find"] /\ writer'.at = "none"
            BY <2>2 DEF Expanded, Goto, NoWriter
        <3>2. ASSUME NEW d \in Clients, d # c PROVE pc[d] # "sync"
            BY <1>0, <3>1, <3>2 DEF LockInv, Locked
        <3> QED BY <1>0, <3>1, <3>2
    <2>3. CASE ~Extends(c)
        <3>1. UNCHANGED writer BY <2>3, ClientFrame DEF syncVars
        <3>2. pc[c] # "sync" /\ l # "sync"
            BY <1>0, <1>1, <2>3 DEF Extends, ClientStep, Allocate, AllocateN, Call, BlockForAllocation,
                ReadTail, PopDeferred,
                ClearNext, UpdateList, LoadMask, LoadAll, AddAllocated, Allocated, AddAll, ClearBits,
                Claim, StoreClaim, LinkHead, PushDeferred, Release, Goto, Takes, Drops, Keeps, Works, Releasing
        <3> QED BY <1>0, <1>1, <3>1, <3>2 DEF LockInv
    <2> QED BY <2>1, <2>2, <2>3 DEF Extends
<1> QED BY <1>2, <1>3, <1>4 DEF LockInv

(* A block under construction has its place reserved. *)
LEMMA MadeStep ==
    ASSUME StorageInv, NEW c \in Clients, ClientStep(c), fault' = "none"
    PROVE  MadeInv'
<1>0. pc \in [Clients -> PCs] /\ made \in Nat /\ MadeInv /\ MaxBlocks \in Nat
    BY SizesOK DEF StorageInv, ClientType, BlockType, Places
<1>1. Relocking \in SUBSET Clients BY DEF Relocking
<1>2. /\ Cardinality(Relocking) \in Nat
      /\ c \notin Relocking => Cardinality(Relocking \cup {c}) = Cardinality(Relocking) + 1
      /\ c \in Relocking => Cardinality(Relocking \ {c}) = Cardinality(Relocking) - 1
    BY <1>1, FiniteClients
<1>3. PICK l \in PCs : /\ pc' = [pc EXCEPT ![c] = l]
                       /\ Takes(c, l) \/ Drops(c, l) \/ Keeps(c, l) \/ Works(c, l)
    BY Moves
<1>4. Relocking' = IF l = "relock" THEN Relocking \cup {c} ELSE Relocking \ {c}
    BY <1>0, <1>3 DEF Relocking
<1>5. CASE BlockForAllocation(c)
    <2>1. made' = made /\ pc[c] = "find" BY <1>5 DEF BlockForAllocation
    <2>2. c \notin Relocking BY <2>1 DEF Relocking
    <2>3. CASE l = "relock"
        <3>1. made + Cardinality(Relocking) < MaxBlocks
            BY <1>0, <1>3, <1>5, <2>3 DEF BlockForAllocation, Relocking, Goto
        <3>2. Cardinality(Relocking') = Cardinality(Relocking) + 1
            BY <1>2, <1>4, <2>2, <2>3
        <3> QED BY <1>0, <1>2, <2>1, <3>1, <3>2 DEF MadeInv
    <2>4. CASE l # "relock"
        BY <1>0, <1>4, <2>1, <2>2, <2>4 DEF MadeInv
    <2> QED BY <2>3, <2>4
<1>6. CASE TryAddBlock(c)
    <2>1. made' = made + 1 /\ pc[c] = "relock" /\ l # "relock"
        BY <1>0, <1>3, <1>6 DEF TryAddBlock, Goto
    <2>2. Cardinality(Relocking') = Cardinality(Relocking) - 1
        BY <1>2, <1>4, <2>1 DEF Relocking
    <2> QED BY <1>0, <1>2, <2>1, <2>2 DEF MadeInv
<1>7. CASE ~BlockForAllocation(c) /\ ~TryAddBlock(c)
    <2>1. made' = made
        <3>1. CASE Expanded(c) BY <3>1 DEF Expanded
        <3> QED BY <1>7, <3>1, ClientFrame DEF Extends
    <2>2. pc[c] # "relock"
        BY <1>7 DEF Extends, ClientStep, Allocate, AllocateN, Call, Expanded, ReadTail, PopDeferred,
                ClearNext, UpdateList, LoadMask, LoadAll, AddAllocated, Allocated, AddAll, ClearBits,
                Claim, StoreClaim, LinkHead, PushDeferred, Release
    <2>3. l # "relock"
        <3>1. CASE Allocate(c) \/ AllocateN(c)
            BY <1>0, <1>3, <3>1 DEF Allocate, AllocateN, Call, Goto
        <3>2. CASE Expanded(c) \/ ReadTail(c) \/ PopDeferred(c) \/ ClearNext(c)
            BY <1>0, <1>3, <3>2 DEF Expanded, ReadTail, PopDeferred, ClearNext, Goto
        <3>3. CASE UpdateList(c) \/ LoadMask(c) \/ LoadAll(c) \/ AddAllocated(c) \/ Allocated(c) \/ AddAll(c)
            BY <1>0, <1>3, <3>3 DEF UpdateList, LoadMask, LoadAll, AddAllocated, Allocated, AddAll,
                                    Panic, Idle, Goto
        <3>4. CASE Release(c) \/ ClearBits(c) \/ Claim(c) \/ StoreClaim(c) \/ LinkHead(c) \/ PushDeferred(c)
            BY <1>0, <1>3, <3>4 DEF Release, ClearBits, Claim, StoreClaim, LinkHead, PushDeferred,
                                    Released, Idle, Goto
        <3> QED BY <1>7, <3>1, <3>2, <3>3, <3>4 DEF ClientStep
    <2>4. Relocking' = Relocking BY <1>4, <2>2, <2>3 DEF Relocking
    <2> QED BY <1>0, <2>1, <2>4 DEF MadeInv
<1> QED BY <1>5, <1>6, <1>7

-----------------------------------------------------------------------------
(***************************************************************************)
(* Every block that is linked, in use or in somebody's hands has been      *)
(* pushed on the active array.                                             *)
(***************************************************************************)
LEMMA Others ==
    ASSUME StorageInv, NEW c \in Clients, ClientStep(c), NEW d \in Clients, d # c
    PROVE  pc'[d] = pc[d] /\ reg'[d] = reg[d]
<1>0. pc \in [Clients -> PCs] /\ reg \in [Clients -> Regs] BY DEF StorageInv, ClientType
<1> USE <1>0 DEF Goto, Set, Idle
<1>1. CASE Allocate(c) \/ AllocateN(c)
    BY <1>1 DEF Allocate, AllocateN, Call
<1>2. CASE BlockForAllocation(c)
    BY <1>2 DEF BlockForAllocation
<1>3. CASE TryAddBlock(c)
    BY <1>3 DEF TryAddBlock
<1>4. CASE Expanded(c) \/ ReadTail(c) \/ PopDeferred(c) \/ ClearNext(c)
    BY <1>4 DEF Expanded, ReadTail, PopDeferred, ClearNext
<1>5. CASE UpdateList(c) \/ LoadMask(c) \/ LoadAll(c) \/ AddAllocated(c)
    BY <1>5 DEF UpdateList, LoadMask, LoadAll, AddAllocated, Panic
<1>6. CASE Allocated(c)
    BY <1>6 DEF Allocated, Panic
<1>7. CASE AddAll(c)
    BY <1>7 DEF AddAll
<1>8. CASE Release(c) \/ ClearBits(c) \/ Claim(c) \/ StoreClaim(c) \/ LinkHead(c) \/ PushDeferred(c)
    BY <1>8 DEF Release, ClearBits, Claim, StoreClaim, LinkHead, PushDeferred, Released
<1> QED BY <1>1, <1>2, <1>3, <1>4, <1>5, <1>6, <1>7, <1>8 DEF ClientStep

(* When the locals of the client that moves are known, *)
LEMMA HereKnown ==
    ASSUME StorageInv, NEW c \in Clients, NEW l \in PCs, NEW q \in Regs,
           pc' = [pc EXCEPT ![c] = l], reg' = [reg EXCEPT ![c] = q],
           q.h \in Known', q.t \in Known',
           IF l = "sync" THEN q.b \in 1 .. made' ELSE q.b \in Known',
           l \in Releasing \cup {"load", "add", "full"} => q.b # None,
           l \in {"next", "pop"} => deferred' # None,
           l \in {"next", "pop", "clear", "update"} => q.h # None
    PROVE  LocalsKnown(c)'
<1>1. pc'[c] = l /\ reg'[c] = q BY DEF StorageInv, ClientType
<1> QED BY <1>1 DEF LocalsKnown

(* and that the locals of the others stay known. *)
LEMMA OthersKnown ==
    ASSUME StorageInv, NEW c \in Clients, ClientStep(c), NEW d \in Clients, d # c,
           Known \subseteq Known', 1 .. made \subseteq 1 .. made',
           pc[d] \in {"next", "pop"} => deferred' # None
    PROVE  LocalsKnown(d)'
<1>1. pc'[d] = pc[d] /\ reg'[d] = reg[d] BY Others
<1>2. LocalsKnown(d) BY DEF StorageInv, PushedInv
<1> QED BY <1>1, <1>2 DEF LocalsKnown

(* Only a client with the mutex can make the deferred list empty. *)
LEMMA DeferredStays ==
    ASSUME StorageInv, NEW c \in Clients, ClientStep(c), fault' = "none",
           NEW d \in Clients, d # c, pc[d] \in {"next", "pop"}
    PROVE  deferred' # None
<1>1. deferred # None BY DEF StorageInv, PushedInv, LocalsKnown
<1>2. lock = d /\ pc[c] \notin Locked
    BY SizesOK DEF StorageInv, LockInv, Locked
<1>3. CASE PushDeferred(c)
    <2>1. reg[c].b # None BY <1>3, Locals, PlacesAre DEF PushDeferred, Releasing
    <2> QED BY <1>1, <1>3, <2>1 DEF PushDeferred
<1>4. CASE Extends(c) BY <1>1, <1>4, ExtendsFrame
<1>5. CASE ~PushDeferred(c) /\ ~Extends(c)
    BY <1>1, <1>2, <1>5 DEF Extends, ClientStep, Allocate, AllocateN, Call, BlockForAllocation,
                ReadTail, PopDeferred, ClearNext, UpdateList, LoadMask, LoadAll, AddAllocated,
                Allocated, AddAll, ClearBits, Claim, StoreClaim, LinkHead, Release, Locked, blockVars
<1> QED BY <1>3, <1>4, <1>5

(* A step that does not extend the array keeps all locals known, *)
LEMMA LocalsStep ==
    ASSUME StorageInv, NEW c \in Clients, ClientStep(c), ~Extends(c), fault' = "none"
    PROVE  \A d \in Clients : LocalsKnown(d)'
<1>0. Known' = Known /\ made' = made
    <2>1. UNCHANGED <<arrays, made>> BY ClientFrame
    <2> QED BY <2>1 DEF Known, Pushed, Active
<1>1. ASSUME NEW d \in Clients, d # c PROVE LocalsKnown(d)'
    BY <1>0, <1>1, OthersKnown, DeferredStays
<1> SUFFICES LocalsKnown(c)'
    BY <1>1
<1>2. /\ reg[c] \in Regs /\ LocalsKnown(c) /\ None \in Known /\ Known \subseteq Places
      /\ reg = [reg EXCEPT ![c] = reg[c]]
      /\ reg[c].h \in Known /\ reg[c].t \in Known
      /\ list.head \in Known /\ deferred \in Known
    BY Locals, KnownPlaces DEF StorageInv, PushedInv, ClientType
<1>3. pc[c] # "sync" => reg[c].b \in Known
    BY <1>2 DEF LocalsKnown
<1> DEFINE to(l, q) == pc' = [pc EXCEPT ![c] = l] /\ reg' = [reg EXCEPT ![c] = q]
<1>4. ASSUME NEW l \in PCs \ {"sync"}, NEW q \in Regs, to(l, q),
             q.h \in Known, q.t \in Known, q.b \in Known,
             l \in Releasing \cup {"load", "add", "full"} => q.b # None,
             l \in {"next", "pop"} => deferred' # None,
             l \in {"next", "pop", "clear", "update"} => q.h # None
      PROVE  LocalsKnown(c)'
    BY <1>0, <1>4, HereKnown
<1> HIDE DEF to
<1>5. CASE Allocate(c) \/ AllocateN(c)
    <2>1. PICK o \in {"one", "many"}, n \in Nat : Call(c, o, n)
        BY <1>5, SizesOK DEF Allocate, AllocateN
    <2>2. PICK q \in Regs : q = [NoReg EXCEPT !.op = o, !.want = n]
        BY <1>2, RegType DEF NoReg, Regs, CallKinds
    <2>3. q.h \in Known /\ q.t \in Known /\ q.b \in Known BY <1>2, <2>2 DEF NoReg
    <2>4. to("find", q) BY <2>1, <2>2 DEF Call, Goto, Set, to
    <2> QED BY <1>4, <2>3, <2>4 DEF PCs, Releasing
<1>6. CASE BlockForAllocation(c)
    <2>0. reg[c].b \in Known BY <1>3, <1>6 DEF BlockForAllocation
    <2>1. CASE list.head # None
        <3>1. PICK q \in Regs : q = [reg[c] EXCEPT !.b = list.head]
            BY <1>2, RegType
        <3>2. q.h = reg[c].h /\ q.t = reg[c].t /\ q.b = list.head
            BY <1>2, <3>1 DEF Regs
        <3>3. to("load", q) BY <1>6, <2>1, <3>1 DEF BlockForAllocation, Goto, Set, to
        <3> QED BY <1>2, <1>4, <2>1, <3>2, <3>3 DEF PCs, Releasing
    <2>2. CASE list.head = None /\ deferred # None
        <3>1. PICK q \in Regs : q = [reg[c] EXCEPT !.h = deferred]
            BY <1>2, RegType
        <3>2. q.h = deferred /\ q.t = reg[c].t /\ q.b = reg[c].b
            BY <1>2, <3>1 DEF Regs
        <3>3. to("next", q) /\ deferred' # None
            BY <1>6, <2>2, <3>1 DEF BlockForAllocation, Goto, Set, to, blockVars
        <3> QED BY <1>2, <1>4, <2>0, <2>2, <3>2, <3>3 DEF PCs, Releasing
    <2>3. CASE list.head = None /\ deferred = None
        <3>1. to("relock", reg[c])
            BY <1>2, <1>6, <2>3 DEF BlockForAllocation, Goto, Set, to
        <3> QED BY <1>2, <1>4, <2>0, <3>1 DEF PCs, Releasing
    <2> QED BY <2>1, <2>2, <2>3
<1>7. CASE ReadTail(c)
    <2>1. reg[c].h \in Blocks /\ reg[c].h # None BY <1>7, Locals, PlacesAre DEF ReadTail
    <2>2. PICK n \in Known : n = IF dnext[reg[c].h] = reg[c].h THEN None ELSE dnext[reg[c].h]
        BY <1>2, <2>1, KnownPlaces
    <2>3. PICK q \in Regs : q = [reg[c] EXCEPT !.t = n]
        BY <1>2, RegType
    <2>4. q.h = reg[c].h /\ q.t = n /\ q.b = reg[c].b
        BY <1>2, <2>3 DEF Regs
    <2>5. to("pop", q) /\ deferred' = deferred
        BY <1>7, <2>2, <2>3 DEF ReadTail, Goto, Set, to, blockVars
    <2>6. deferred # None /\ pc[c] # "sync" BY <1>2, <1>7 DEF ReadTail, LocalsKnown
    <2> QED BY <1>2, <1>3, <1>4, <2>1, <2>4, <2>5, <2>6 DEF PCs, Releasing
<1>8. CASE PopDeferred(c)
    <2>0. reg[c].h # None /\ deferred # None /\ reg[c].b \in Known
        BY <1>2, <1>3, <1>8 DEF PopDeferred, LocalsKnown
    <2>1. CASE deferred = reg[c].h
        <3>1. to("clear", reg[c])
            BY <1>2, <1>8, <2>1 DEF PopDeferred, Goto, to
        <3> QED BY <1>2, <1>4, <2>0, <3>1 DEF PCs, Releasing
    <2>2. CASE deferred # reg[c].h
        <3>1. PICK q \in Regs : q = [reg[c] EXCEPT !.h = deferred, !.t = None]
            BY <1>2, RegType
        <3>2. q.h = deferred /\ q.t = None /\ q.b = reg[c].b
            BY <1>2, <3>1 DEF Regs
        <3>3. to("next", q) /\ deferred' = deferred
            BY <1>8, <2>2, <3>1 DEF PopDeferred, Goto, Set, to
        <3> QED BY <1>2, <1>4, <2>0, <3>2, <3>3 DEF PCs, Releasing
    <2> QED BY <2>1, <2>2
<1>9. CASE ClearNext(c)
    <2>1. PICK q \in Regs : q = [reg[c] EXCEPT !.t = None]
        BY <1>2, RegType
    <2>2. q.h = reg[c].h /\ q.t = None /\ q.b = reg[c].b
        BY <1>2, <2>1 DEF Regs
    <2>3. to("update", q) /\ reg[c].h # None /\ reg[c].b \in Known
        BY <1>2, <1>3, <1>9, <2>1 DEF ClearNext, Goto, Set, to, LocalsKnown
    <2> QED BY <1>2, <1>4, <2>2, <2>3 DEF PCs, Releasing
<1>10. CASE UpdateList(c)
    <2>1. PICK q \in Regs : q = [reg[c] EXCEPT !.h = None]
        BY <1>2, RegType
    <2>2. q.h = None /\ q.t = reg[c].t /\ q.b = reg[c].b
        BY <1>2, <2>1 DEF Regs
    <2>3. to("find", q) /\ reg[c].b \in Known
        BY <1>2, <1>3, <1>10, <2>1 DEF UpdateList, Panic, Goto, Set, to
    <2> QED BY <1>2, <1>4, <2>2, <2>3 DEF PCs, Releasing
<1>11. ASSUME NEW l \in {"add", "xor"}, NEW s \in SUBSET Entries,
              Goto(c, l), Set(c, [reg[c] EXCEPT !.set = s]), pc[c] \in {"load", "add"}
       PROVE  LocalsKnown(c)'
    <2>1. PICK q \in Regs : q = [reg[c] EXCEPT !.set = s]
        BY <1>2, RegType
    <2>2. q.h = reg[c].h /\ q.t = reg[c].t /\ q.b = reg[c].b
        BY <1>2, <2>1 DEF Regs
    <2>3. to(l, q) BY <1>11, <2>1 DEF Goto, Set, to
    <2>4. reg[c].b \in Known /\ reg[c].b # None
        BY <1>2, <1>3, <1>11 DEF LocalsKnown
    <2> QED BY <1>2, <1>4, <2>2, <2>3, <2>4 DEF PCs, Releasing
<1>12. ASSUME Idle(c) PROVE LocalsKnown(c)'
    <2>1. to("idle", NoReg) BY <1>12 DEF Idle, Goto, Set, to
    <2>2. NoReg \in Regs BY <1>2, RegType
    <2> QED BY <1>2, <1>4, <2>1, <2>2 DEF PCs, Releasing, NoReg
<1>13. CASE LoadMask(c)
    <2>1. PICK s \in SUBSET Entries : s = Lowest(Full \ mask[reg[c].b], 1)
        BY DEF Lowest, Full
    <2>2. Goto(c, "add") /\ Set(c, [reg[c] EXCEPT !.set = s]) /\ pc[c] = "load"
        BY <1>13, <2>1 DEF LoadMask, Panic
    <2> QED BY <1>11, <2>2
<1>14. CASE AddAllocated(c)
    <2>1. to("full", reg[c]) /\ reg[c].b \in Known /\ reg[c].b # None
        BY <1>2, <1>3, <1>14 DEF AddAllocated, Goto, to, LocalsKnown
    <2> QED BY <1>2, <1>4, <2>1 DEF PCs
<1>15. CASE Allocated(c)
    BY <1>12, <1>15 DEF Allocated, Panic
<1>16. CASE LoadAll(c)
    <2>1. PICK s \in SUBSET Entries : s = Full \ mask[reg[c].b]
        BY DEF Full
    <2>2. Goto(c, "add") /\ Set(c, [reg[c] EXCEPT !.set = s]) /\ pc[c] = "load"
        BY <1>16, <2>1 DEF LoadAll, Panic
    <2> QED BY <1>11, <2>2
<1>17. CASE AddAll(c)
    <2>1. PICK s \in SUBSET Entries : s = reg[c].set \ Lowest(reg[c].set, reg[c].want)
        BY Locals
    <2> QED BY <1>11, <1>12, <1>17, <2>1 DEF AddAll
<1>18. CASE Release(c)
    <2>1. PICK e \in held : Set(c, [NoReg EXCEPT !.op = "release", !.b = e[1], !.set = {e[2]}])
        BY <1>18 DEF Release
    <2>2. e[1] \in Pushed /\ e[1] \in Known /\ e[2] \in Entries
        BY DEF StorageInv, PushedInv, Known
    <2>3. PICK q \in Regs : q = [NoReg EXCEPT !.op = "release", !.b = e[1], !.set = {e[2]}]
        BY <1>2, <2>2 DEF NoReg, Regs, CallKinds
    <2>4. q.h = None /\ q.t = None /\ q.b = e[1] BY <2>3 DEF NoReg
    <2>5. to("xor", q) BY <1>18, <2>1, <2>3 DEF Release, Goto, Set, to
    <2>6. e[1] # None BY <2>2, KnownPlaces, PlacesAre
    <2> QED BY <1>2, <1>4, <2>2, <2>4, <2>5, <2>6 DEF PCs
<1>19. ASSUME pc[c] \in Releasing PROVE reg[c].b \in Known /\ reg[c].b # None
    BY <1>2, <1>3, <1>19 DEF LocalsKnown, Releasing
<1>20. CASE ClearBits(c)
    <2>1. Released(c) \/ to("claim", reg[c]) BY <1>2, <1>20 DEF ClearBits, Goto, to
    <2> QED BY <1>2, <1>4, <1>12, <1>19, <1>20, <2>1 DEF Released, ClearBits, PCs, Releasing
<1>21. CASE Claim(c)
    <2>1. Released(c) \/ to("claimed", reg[c]) BY <1>2, <1>21 DEF Claim, Goto, to
    <2> QED BY <1>2, <1>4, <1>12, <1>19, <1>21, <2>1 DEF Released, Claim, PCs, Releasing
<1>22. ASSUME pc[c] \in Releasing, Set(c, [reg[c] EXCEPT !.h = deferred]), Goto(c, "link")
       PROVE  LocalsKnown(c)'
    <2>1. PICK q \in Regs : q = [reg[c] EXCEPT !.h = deferred]
        BY <1>2, RegType
    <2>2. q.h = deferred /\ q.t = reg[c].t /\ q.b = reg[c].b
        BY <1>2, <2>1 DEF Regs
    <2>3. to("link", q) BY <1>22, <2>1 DEF Goto, Set, to
    <2> QED BY <1>2, <1>4, <1>19, <1>22, <2>2, <2>3 DEF PCs
<1>23. CASE StoreClaim(c)
    BY <1>22, <1>23 DEF StoreClaim, Releasing
<1>24. CASE LinkHead(c)
    <2>1. to("push", reg[c]) BY <1>2, <1>24 DEF LinkHead, Goto, to
    <2> QED BY <1>2, <1>4, <1>19, <1>24, <2>1 DEF LinkHead, PCs, Releasing
<1>25. CASE PushDeferred(c)
    BY <1>12, <1>22, <1>25 DEF PushDeferred, Released, Releasing
<1> QED
    BY <1>5, <1>6, <1>7, <1>8, <1>9, <1>10, <1>13, <1>14, <1>15, <1>16, <1>17, <1>18, <1>20, <1>21,
       <1>23, <1>24, <1>25 DEF ClientStep, Extends

(* and every link. *)
LEMMA PushedStep ==
    ASSUME StorageInv, NEW c \in Clients, ClientStep(c), ~Extends(c), fault' = "none"
    PROVE  PushedInv'
<1>0. Known' = Known /\ made' = made /\ Pushed' = Pushed
    <2>1. UNCHANGED <<arrays, made>> BY ClientFrame
    <2> QED BY <2>1 DEF Known, Pushed, Active
<1>1. /\ list \in Lists(Known) /\ deferred \in Known /\ dnext \in [Blocks -> Known]
      /\ held \subseteq Pushed \X Entries /\ mask \in [Blocks -> SUBSET Entries]
    BY DEF StorageInv, PushedInv, BlockType
<1>2. \A b \in Blocks : mask[b] # {} => b \in Pushed
    BY DEF StorageInv, PushedInv
<1>3. None \in Known /\ \A b \in Pushed : b \in Known
    BY DEF Known
<1>4. ASSUME list' \in Lists(Known), deferred' \in Known, dnext' \in [Blocks -> Known],
             \A b \in Blocks : mask'[b] # {} => b \in Pushed, held' \subseteq Pushed \X Entries
      PROVE  PushedInv'
    <2>1. \A d \in Clients : LocalsKnown(d)' BY LocalsStep
    <2>2. Pushed \subseteq 1 .. made BY DEF StorageInv, PushedInv
    <2> QED BY <1>0, <1>4, <2>1, <2>2 DEF PushedInv
<1>5. CASE UNCHANGED <<list, deferred, dnext, mask, held>>
    BY <1>1, <1>2, <1>4, <1>5
<1>6. CASE Allocate(c) \/ AllocateN(c) \/ BlockForAllocation(c) \/ ReadTail(c)
    BY <1>5, <1>6 DEF Allocate, AllocateN, Call, BlockForAllocation, ReadTail, blockVars, listVars
<1>7. CASE LoadMask(c) \/ Claim(c)
    BY <1>5, <1>7 DEF LoadMask, Panic, Claim, blockVars, listVars
<1>8. CASE PopDeferred(c)
    <2>1. deferred' \in Known BY <1>1, <1>8, Locals DEF PopDeferred
    <2> QED BY <1>1, <1>2, <1>4, <1>8, <2>1 DEF PopDeferred, listVars
<1>9. CASE ClearNext(c)
    <2>1. dnext' \in [Blocks -> Known] BY <1>1, <1>3, <1>9 DEF ClearNext
    <2> QED BY <1>1, <1>2, <1>4, <1>9, <2>1 DEF ClearNext, listVars
<1>10. CASE UpdateList(c)
    <2>1. reg[c].h \in Blocks /\ reg[c].h \in Known
        BY <1>10, Locals DEF UpdateList
    <2>2. list' \in Lists(Known)
        BY <1>1, <1>3, <1>10, <2>1, UpdatedLinks DEF UpdateList, Panic, Relist
    <2>3. UNCHANGED <<deferred, dnext, mask, held>>
        BY <1>10 DEF UpdateList, Panic, blockVars
    <2> QED BY <1>1, <1>2, <1>4, <2>2, <2>3
<1>11. ASSUME pc[c] \in Releasing \cup {"load", "add", "full"}
       PROVE  /\ reg[c].b \in Blocks /\ reg[c].b \in Pushed /\ reg[c].b \in Known
              /\ Unlink(list, reg[c].b) \in Lists(Known)
    BY <1>1, <1>3, <1>11, Locals, ListLinks
<1>12. CASE AddAllocated(c)
    <2>1. \A b \in Blocks : mask'[b] # {} => b \in Pushed
        BY <1>1, <1>2, <1>11, <1>12 DEF AddAllocated
    <2> QED BY <1>1, <1>4, <1>12, <2>1 DEF AddAllocated, listVars
<1>13. CASE Allocated(c)
    <2>1. /\ list' = (IF mask[reg[c].b] = Full THEN Unlink(list, reg[c].b) ELSE list)
          /\ held' = held \cup {<<reg[c].b, e>> : e \in reg[c].set}
          /\ UNCHANGED <<deferred, dnext, mask>> /\ pc[c] = "full"
        BY <1>13 DEF Allocated, Panic, Relist, blockVars
    <2>2. list' \in Lists(Known) BY <1>1, <1>11, <2>1
    <2>3. held' \subseteq Pushed \X Entries BY <1>1, <1>11, <2>1, Locals
    <2> QED BY <1>1, <1>2, <1>4, <2>1, <2>2, <2>3
<1>14. CASE LoadAll(c)
    <2>1. list' = Unlink(list, reg[c].b) /\ UNCHANGED <<deferred, dnext, mask, held>> /\ pc[c] = "load"
        BY <1>14 DEF LoadAll, Panic, Relist, blockVars
    <2> QED BY <1>1, <1>2, <1>4, <1>11, <2>1
<1>15. CASE AddAll(c)
    <2>1. /\ mask' = [mask EXCEPT ![reg[c].b] = @ \cup reg[c].set] /\ pc[c] = "add"
          /\ held' = held \cup {<<reg[c].b, e>> : e \in Lowest(reg[c].set, reg[c].want)}
          /\ UNCHANGED <<deferred, dnext, list>>
        BY <1>15 DEF AddAll, listVars
    <2>2. \A b \in Blocks : mask'[b] # {} => b \in Pushed
        BY <1>1, <1>2, <1>11, <2>1
    <2>3. Lowest(reg[c].set, reg[c].want) \subseteq Entries BY Locals DEF Lowest
    <2>4. held' \subseteq Pushed \X Entries BY <1>1, <1>11, <2>1, <2>3
    <2> QED BY <1>1, <1>4, <2>1, <2>2, <2>4
<1>16. CASE Release(c)
    <2>1. held' \subseteq held /\ UNCHANGED <<mask, list, deferred, dnext>>
        BY <1>16 DEF Release, listVars
    <2> QED BY <1>1, <1>2, <1>4, <2>1
<1>17. CASE ClearBits(c)
    <2>1. \A b \in Blocks : mask'[b] # {} => b \in Pushed
        BY <1>1, <1>2, <1>17 DEF ClearBits
    <2> QED BY <1>1, <1>4, <1>17, <2>1 DEF ClearBits, listVars
<1>18. CASE StoreClaim(c)
    <2>1. dnext' \in [Blocks -> Known]
        BY <1>1, <1>11, <1>18 DEF StoreClaim, Releasing
    <2> QED BY <1>1, <1>2, <1>4, <1>18, <2>1 DEF StoreClaim, listVars
<1>19. CASE LinkHead(c)
    <2>1. PICK n \in Known : dnext' = [dnext EXCEPT ![reg[c].b] = n]
        BY <1>11, <1>19, Locals DEF LinkHead, Releasing
    <2>2. dnext' \in [Blocks -> Known] BY <1>1, <2>1
    <2> QED BY <1>1, <1>2, <1>4, <1>19, <2>2 DEF LinkHead, listVars
<1>20. CASE PushDeferred(c)
    <2>1. deferred' \in Known BY <1>1, <1>11, <1>20 DEF PushDeferred, Releasing
    <2> QED BY <1>1, <1>2, <1>4, <1>20, <2>1 DEF PushDeferred, listVars
<1> QED BY <1>6, <1>7, <1>8, <1>9, <1>10, <1>12, <1>13, <1>14, <1>15, <1>16, <1>17, <1>18, <1>19,
           <1>20 DEF ClientStep, Extends

-----------------------------------------------------------------------------
(***************************************************************************)
(* The active arrays.                                                      *)
(***************************************************************************)
LEMMA SameLength ==
    ASSUME NEW xs \in Seq(ArrayRecords), NEW a \in 1 .. Len(xs), NEW x \in ArrayRecords
    PROVE  /\ [xs EXCEPT ![a] = x] \in Seq(ArrayRecords)
           /\ Len([xs EXCEPT ![a] = x]) = Len(xs)
           /\ [xs EXCEPT ![a] = x][a] = x
           /\ \A d \in 1 .. Len(xs) : d # a => [xs EXCEPT ![a] = x][d] = xs[d]
<1>1. [xs EXCEPT ![a] = x] \in Seq(ArrayRecords) /\ Len([xs EXCEPT ![a] = x]) = Len(xs)
    BY ExceptSeq
<1> QED BY <1>1

OnlyPushes(xs, a, b, p) ==
    /\ p \in Seq(ArrayRecords) /\ Len(p) = Len(xs)
    /\ p[a].refs = xs[a].refs /\ p[a].alive = xs[a].alive
    /\ Range(p[a].blocks) = Range(xs[a].blocks) \cup {b}
    /\ \A d \in 1 .. Len(xs) : d # a => p[d] = xs[d]

(* push adds one block to one array and nothing else. *)
LEMMA PushBlockFacts ==
    ASSUME NEW xs \in Seq(ArrayRecords), NEW a \in 1 .. Len(xs), NEW b \in Blocks,
           NEW p, p = PushBlock(xs, a, b)
    PROVE  OnlyPushes(xs, a, b, p)
<1>1. xs[a] \in ArrayRecords OBVIOUS
<1>2. PICK s \in Seq(Blocks) : s = xs[a].blocks BY <1>1 DEF ArrayRecords
<1>3. Append(s, b) \in Seq(Blocks) OBVIOUS
<1>4. PICK x \in ArrayRecords : x = [xs[a] EXCEPT !.blocks = Append(s, b)]
    BY <1>1, <1>3 DEF ArrayRecords
<1>5. x.refs = xs[a].refs /\ x.alive = xs[a].alive /\ x.blocks = Append(s, b)
    BY <1>1, <1>4 DEF ArrayRecords
<1>6. PushBlock(xs, a, b) = [xs EXCEPT ![a] = x]
    BY <1>1, <1>2, <1>4 DEF PushBlock
<1>7. Range(Append(s, b)) = Range(s) \cup {b}
    <2>1. DOMAIN Append(s, b) = 1 .. Len(s) + 1 /\ DOMAIN s = 1 .. Len(s) /\ Len(s) \in Nat OBVIOUS
    <2>2. Append(s, b)[Len(s) + 1] = b /\ \A i \in 1 .. Len(s) : Append(s, b)[i] = s[i] OBVIOUS
    <2> HIDE DEF Append
    <2> QED BY <2>1, <2>2 DEF Range
<1>8. p = [xs EXCEPT ![a] = x] BY <1>6
<1>9. p \in Seq(ArrayRecords) /\ Len(p) = Len(xs) /\ p[a] = x /\ \A d \in 1 .. Len(xs) : d # a => p[d] = xs[d]
    BY <1>8, SameLength
<1>10. p[a].refs = xs[a].refs /\ p[a].alive = xs[a].alive
    BY <1>5, <1>9
<1>11. Range(p[a].blocks) = Range(xs[a].blocks) \cup {b}
    BY <1>2, <1>5, <1>7, <1>9
<1> QED BY <1>9, <1>10, <1>11 DEF OnlyPushes

OnlyRelinquishes(xs, a, p) ==
    /\ p \in Seq(ArrayRecords) /\ Len(p) = Len(xs)
    /\ p[a].refs = xs[a].refs - 1 /\ (p[a].alive <=> xs[a].refs > 1)
    /\ p[a].blocks = xs[a].blocks
    /\ \A d \in 1 .. Len(xs) : d # a => p[d] = xs[d]

(* Giving up an array lowers its refcount, and the last one destroys it. *)
LEMMA RelinquishFacts ==
    ASSUME NEW xs \in Seq(ArrayRecords), NEW a \in 1 .. Len(xs), NEW p, p = Relinquish(xs, a)
    PROVE  OnlyRelinquishes(xs, a, p)
<1>1. xs[a] \in ArrayRecords OBVIOUS
<1>2. PICK n \in Int : n = xs[a].refs BY <1>1 DEF ArrayRecords
<1>3. PICK live : live = (n > 1) OBVIOUS
<1>4. PICK x \in ArrayRecords : x = [xs[a] EXCEPT !.refs = n - 1, !.alive = live]
    <2>1. n - 1 \in Int BY <1>2
    <2>2. live \in BOOLEAN BY <1>3
    <2> QED BY <1>1, <2>1, <2>2 DEF ArrayRecords
<1>5. x.refs = n - 1 /\ x.alive = live /\ x.blocks = xs[a].blocks
    BY <1>1, <1>4 DEF ArrayRecords
<1>6. Relinquish(xs, a) = [xs EXCEPT ![a] = x]
    <2>1. x = [xs[a] EXCEPT !.refs = xs[a].refs - 1, !.alive = xs[a].refs > 1]
        BY <1>2, <1>3, <1>4, Zenon
    <2> QED BY <1>1, <2>1 DEF Relinquish, ArrayRecords
<1>7. p = [xs EXCEPT ![a] = x] BY <1>6
<1>8. p \in Seq(ArrayRecords) /\ Len(p) = Len(xs) /\ p[a] = x /\ \A d \in 1 .. Len(xs) : d # a => p[d] = xs[d]
    BY <1>7, SameLength
<1>9. p[a].refs = xs[a].refs - 1 /\ (p[a].alive <=> xs[a].refs > 1) /\ p[a].blocks = xs[a].blocks
    <2>1. live <=> n > 1 BY <1>3
    <2> QED BY <1>2, <1>5, <1>8, <2>1
<1> QED BY <1>8, <1>9 DEF OnlyRelinquishes

(* The current array is the last one. *)
LEMMA ActiveIs ==
    ASSUME ArrayType
    PROVE  /\ Active \in Nat /\ Active >= 1 /\ Active \in 1 .. Len(arrays) /\ arrays \in Seq(ArrayRecords)
           /\ arrays[Active] \in ArrayRecords /\ arrays[Active].blocks \in Seq(Blocks)
<1>1. /\ Active \in Nat /\ Active >= 1 /\ Active \in 1 .. Len(arrays) /\ arrays \in Seq(ArrayRecords)
      /\ arrays[Active] \in ArrayRecords
    BY DEF ArrayType, Active
<1> QED BY <1>1 DEF ArrayRecords

(* A block is pushed on the active array, *)
LEMMA PushEffect ==
    ASSUME StorageInv, NEW b \in Blocks, arrays' = PushBlock(arrays, Active, b)
    PROVE  /\ ArrayType' \/ ~UNCHANGED view
           /\ Active' = Active /\ Pushed' = Pushed \cup {b}
           /\ \A a \in 1 .. Active : arrays'[a].refs = arrays[a].refs /\ arrays'[a].alive = arrays[a].alive
<1>1. ArrayType BY DEF StorageInv
<1>2. /\ arrays' \in Seq(ArrayRecords) /\ Len(arrays') = Len(arrays)
      /\ arrays'[Active].refs = arrays[Active].refs /\ arrays'[Active].alive = arrays[Active].alive
      /\ Range(arrays'[Active].blocks) = Range(arrays[Active].blocks) \cup {b}
      /\ \A d \in 1 .. Len(arrays) : d # Active => arrays'[d] = arrays[d]
    <2>1. arrays \in Seq(ArrayRecords) /\ Active \in 1 .. Len(arrays) BY <1>1, ActiveIs
    <2>2. PICK a \in 1 .. Len(arrays) : a = Active BY <2>1
    <2>3. PICK p : p = PushBlock(arrays, a, b) OBVIOUS
    <2>4. /\ p \in Seq(ArrayRecords) /\ Len(p) = Len(arrays)
          /\ p[a].refs = arrays[a].refs /\ p[a].alive = arrays[a].alive
          /\ Range(p[a].blocks) = Range(arrays[a].blocks) \cup {b}
          /\ \A d \in 1 .. Len(arrays) : d # a => p[d] = arrays[d]
        <3>1. OnlyPushes(arrays, a, b, p) BY <2>1, <2>3, PushBlockFacts
        <3> QED BY <3>1 DEF OnlyPushes
    <2>5. arrays' = p BY <2>2, <2>3
    <2> QED BY <2>2, <2>4, <2>5
<1>3. Active' = Active /\ Active = Len(arrays) BY <1>2 DEF Active
<1>4. Pushed' = Pushed \cup {b} BY <1>2, <1>3 DEF Pushed
<1>5. ArrayType' \/ ~UNCHANGED view BY <1>1, <1>2, ActiveIs DEF ArrayType
<1> QED BY <1>2, <1>3, <1>4, <1>5

(* or the array is full and a larger one takes its place. *)
LEMMA GrowEffect ==
    ASSUME StorageInv, arrays' = Append(arrays, NewArray(arrays[Active].blocks))
    PROVE  /\ ArrayType' \/ ~UNCHANGED view
           /\ Active' = Active + 1 /\ Pushed' = Pushed
           /\ \A a \in 1 .. Active : arrays'[a] = arrays[a]
           /\ arrays'[Active + 1].refs = 1 /\ arrays'[Active + 1].alive
<1>1. ArrayType BY DEF StorageInv
<1>2. PICK x \in ArrayRecords : x = NewArray(arrays[Active].blocks)
    <2>1. arrays[Active].blocks \in Seq(Blocks) BY <1>1, ActiveIs
    <2>2. PICK s \in Seq(Blocks) : s = arrays[Active].blocks BY <2>1
    <2>3. [blocks |-> s, refs |-> 1, alive |-> TRUE] \in ArrayRecords BY DEF ArrayRecords
    <2> QED BY <2>2, <2>3 DEF NewArray
<1>3. x.refs = 1 /\ x.alive /\ x.blocks = arrays[Active].blocks BY <1>2 DEF NewArray
<1>4. /\ arrays' \in Seq(ArrayRecords) /\ Len(arrays') = Len(arrays) + 1
      /\ arrays'[Len(arrays) + 1] = x /\ \A a \in 1 .. Len(arrays) : arrays'[a] = arrays[a]
    BY <1>1, <1>2, ActiveIs
<1>5. Active' = Active + 1 /\ Active = Len(arrays) BY <1>4 DEF Active
<1>6. Pushed' = Pushed BY <1>3, <1>4, <1>5 DEF Pushed
<1>7. ArrayType' \/ ~UNCHANGED view
    <2>1. arrays' # <<>> BY <1>1, <1>4, ActiveIs
    <2>2. 0 .. Len(arrays) \subseteq 0 .. Len(arrays') BY <1>1, <1>4, ActiveIs
    <2> QED BY <1>1, <1>4, <2>1, <2>2 DEF ArrayType
<1> QED BY <1>3, <1>4, <1>5, <1>6, <1>7

(* After synchronize the array it replaced is given up. *)
LEMMA ExpandedEffect ==
    ASSUME StorageInv, Active > 1, NEW b \in Blocks,
           arrays' = PushBlock(Relinquish(arrays, Active - 1), Active, b)
    PROVE  /\ ArrayType' \/ ~UNCHANGED view
           /\ Active' = Active /\ Pushed' = Pushed \cup {b}
           /\ \A a \in 1 .. Active : a # Active - 1 =>
                arrays'[a].refs = arrays[a].refs /\ arrays'[a].alive = arrays[a].alive
           /\ arrays'[Active - 1].refs = arrays[Active - 1].refs - 1
           /\ arrays'[Active - 1].alive <=> arrays[Active - 1].refs > 1
<1>1. ArrayType BY DEF StorageInv
<1>2. /\ Active \in 1 .. Len(arrays) /\ Active - 1 \in 1 .. Len(arrays) /\ Active = Len(arrays)
      /\ Active \in Nat /\ Active # Active - 1 /\ arrays \in Seq(ArrayRecords)
    BY <1>1, ActiveIs DEF Active
<1>3. PICK xs : xs = Relinquish(arrays, Active - 1) OBVIOUS
<1>4. /\ xs \in Seq(ArrayRecords) /\ Len(xs) = Len(arrays)
      /\ xs[Active - 1].refs = arrays[Active - 1].refs - 1
      /\ xs[Active - 1].alive <=> arrays[Active - 1].refs > 1
      /\ \A d \in 1 .. Len(arrays) : d # Active - 1 => xs[d] = arrays[d]
    <2>1. OnlyRelinquishes(arrays, Active - 1, xs) BY <1>2, <1>3, RelinquishFacts
    <2> QED BY <2>1 DEF OnlyRelinquishes
<1>5. arrays' = PushBlock(xs, Active, b) BY <1>3
<1>6. /\ arrays' \in Seq(ArrayRecords) /\ Len(arrays') = Len(xs)
      /\ arrays'[Active].refs = xs[Active].refs /\ arrays'[Active].alive = xs[Active].alive
      /\ Range(arrays'[Active].blocks) = Range(xs[Active].blocks) \cup {b}
      /\ \A d \in 1 .. Len(xs) : d # Active => arrays'[d] = xs[d]
    <2>1. Active \in 1 .. Len(xs) BY <1>2, <1>4
    <2>2. PICK a \in 1 .. Len(xs) : a = Active BY <2>1
    <2>3. PICK ys : ys = PushBlock(xs, a, b) OBVIOUS
    <2>4. /\ ys \in Seq(ArrayRecords) /\ Len(ys) = Len(xs)
          /\ ys[a].refs = xs[a].refs /\ ys[a].alive = xs[a].alive
          /\ Range(ys[a].blocks) = Range(xs[a].blocks) \cup {b}
          /\ \A d \in 1 .. Len(xs) : d # a => ys[d] = xs[d]
        <3>1. OnlyPushes(xs, a, b, ys) BY <1>4, <2>3, PushBlockFacts
        <3> QED BY <3>1 DEF OnlyPushes
    <2> QED BY <1>5, <2>2, <2>3, <2>4
<1>7. Active' = Active BY <1>4, <1>6 DEF Active
<1>8. Pushed' = Pushed \cup {b} BY <1>2, <1>4, <1>6, <1>7 DEF Pushed
<1>9. ArrayType' \/ ~UNCHANGED view BY <1>1, <1>4, <1>6 DEF ArrayType
<1> QED BY <1>2, <1>4, <1>6, <1>7, <1>8, <1>9

(* The steps that extend the array keep links and locals known. *)
LEMMA ExtendsPushed ==
    ASSUME StorageInv, NEW c \in Clients, ClientStep(c), Extends(c), fault' = "none"
    PROVE  PushedInv' /\ ArrayType'
<1>0. /\ list \in Lists(Known) /\ deferred \in Known /\ dnext \in [Blocks -> Known]
      /\ held \subseteq Pushed \X Entries /\ Pushed \subseteq 1 .. made
      /\ LocalsKnown(c) /\ None \in Known
    BY DEF StorageInv, PushedInv, Known
<1>1. \A b \in Blocks : mask[b] # {} => b \in Pushed
    BY DEF StorageInv, PushedInv
<1>2. reg[c] \in Regs /\ reg = [reg EXCEPT ![c] = reg[c]] /\ made \in Nat
    BY DEF StorageInv, ClientType, BlockType, Places
<1>3. UNCHANGED <<view, held, mask, dnext, deferred>> BY ExtendsFrame
<1>4. ASSUME Pushed \subseteq Pushed', 1 .. made \subseteq 1 .. made', Pushed' \subseteq 1 .. made',
             list' \in Lists(Known'), LocalsKnown(c)'
      PROVE  PushedInv'
    <2>1. Known \subseteq Known' BY <1>4 DEF Known
    <2>2. ASSUME NEW d \in Clients PROVE LocalsKnown(d)'
        <3>1. CASE d = c BY <1>4, <3>1
        <3>2. CASE d # c BY <1>4, <2>1, <3>2, OthersKnown, DeferredStays
        <3> QED BY <3>1, <3>2
    <2>3. deferred' \in Known' BY <1>0, <1>3, <2>1
    <2>4. dnext' \in [Blocks -> Known'] BY <1>0, <1>3, <2>1
    <2>5. held' \subseteq Pushed' \X Entries BY <1>0, <1>3, <1>4
    <2>6. \A b \in Blocks : mask'[b] # {} => b \in Pushed' BY <1>1, <1>3, <1>4
    <2> QED BY <1>4, <2>2, <2>3, <2>4, <2>5, <2>6 DEF PushedInv
<1>5. ASSUME Known \subseteq Known' PROVE list \in Lists(Known')
    BY <1>0, <1>5 DEF Lists
<1>6. ASSUME NEW b \in Blocks, Pushed' = Pushed \cup {b}
      PROVE  PushBack(list, b) \in Lists(Known')
    <2>1. Known \subseteq Known' /\ b \in Known' /\ None \in Known' BY <1>6 DEF Known
    <2> QED BY <1>5, <2>1, ListLinks
<1>7. CASE TryAddBlock(c)
    <2>1. made + 1 \in Blocks /\ pc[c] = "relock" /\ made' = made + 1
        BY <1>7, RoomToMake DEF TryAddBlock, StorageInv
    <2>2. 1 .. made \subseteq 1 .. made' /\ made + 1 \in 1 .. made' BY <1>2, <2>1
    <2>3. reg[c].b \in Known /\ reg[c].h \in Known /\ reg[c].t \in Known
        BY <1>0, <2>1 DEF LocalsKnown
    <2>4. CASE Len(arrays[Active].blocks) < SizeOf(Active)
        <3>1. /\ arrays' = PushBlock(arrays, Active, made + 1) /\ list' = PushBack(list, made + 1)
              /\ pc' = [pc EXCEPT ![c] = "find"] /\ reg' = reg
            BY <1>7, <2>4 DEF TryAddBlock, Relist, Goto
        <3>2. Pushed' = Pushed \cup {made + 1} /\ ArrayType' BY <1>3, <2>1, <3>1, PushEffect
        <3>3. list' \in Lists(Known') BY <1>6, <2>1, <3>1, <3>2
        <3>4. Pushed' \subseteq 1 .. made' BY <1>0, <2>2, <3>2
        <3>5. LocalsKnown(c)'
            <4>1. Known \subseteq Known' BY <3>2 DEF Known
            <4> QED BY <1>2, <2>3, <3>1, <4>1, HereKnown DEF PCs, Releasing
        <3> QED BY <1>4, <2>2, <3>2, <3>3, <3>4, <3>5
    <2>5. CASE ~(Len(arrays[Active].blocks) < SizeOf(Active))
        <3>1. /\ arrays' = Append(arrays, NewArray(arrays[Active].blocks)) /\ list' = list
              /\ pc' = [pc EXCEPT ![c] = "sync"] /\ reg' = [reg EXCEPT ![c] = [reg[c] EXCEPT !.b = made + 1]]
            BY <1>7, <2>5 DEF TryAddBlock, listVars, Goto, Set
        <3>2. Pushed' = Pushed /\ ArrayType' BY <1>3, <3>1, GrowEffect
        <3>3. Known' = Known BY <3>2 DEF Known
        <3>4. LocalsKnown(c)'
            <4>1. PICK q \in Regs : q = [reg[c] EXCEPT !.b = made + 1] BY <1>2, <2>1, RegType, PlacesAre
            <4>2. q.h = reg[c].h /\ q.t = reg[c].t /\ q.b = made + 1 BY <1>2, <4>1 DEF Regs
            <4>3. reg' = [reg EXCEPT ![c] = q] BY <3>1, <4>1
            <4> QED BY <2>2, <2>3, <3>1, <3>3, <4>2, <4>3, HereKnown DEF PCs, Releasing
        <3> QED BY <1>0, <1>4, <2>2, <3>1, <3>2, <3>3, <3>4
    <2> QED BY <2>4, <2>5
<1>8. CASE Expanded(c)
    <2>1. pc[c] = "sync" /\ writer.at # "none" /\ made' = made BY <1>8 DEF Expanded
    <2>2. Active > 1 BY <2>1 DEF StorageInv, ArrayInv
    <2>3. reg[c].b \in 1 .. made /\ reg[c].h \in Known /\ reg[c].t \in Known
        BY <1>0, <2>1 DEF LocalsKnown
    <2>4. reg[c].b \in Blocks BY <2>3, SizesOK DEF StorageInv, BlockType, Places, Blocks
    <2>5. /\ arrays' = PushBlock(Relinquish(arrays, Active - 1), Active, reg[c].b)
          /\ list' = PushBack(list, reg[c].b)
          /\ pc' = [pc EXCEPT ![c] = "find"] /\ reg' = [reg EXCEPT ![c] = [reg[c] EXCEPT !.b = None]]
        BY <1>8 DEF Expanded, Relist, Goto, Set
    <2>6. Pushed' = Pushed \cup {reg[c].b} /\ ArrayType' BY <1>3, <2>2, <2>4, <2>5, ExpandedEffect
    <2>7. list' \in Lists(Known') BY <1>6, <2>4, <2>5, <2>6
    <2>8. LocalsKnown(c)'
        <3>1. PICK q \in Regs : q = [reg[c] EXCEPT !.b = None] BY <1>2, RegType
        <3>2. q.h = reg[c].h /\ q.t = reg[c].t /\ q.b = None BY <1>2, <3>1 DEF Regs
        <3>3. reg' = [reg EXCEPT ![c] = q] BY <2>5, <3>1
        <3>4. Known \subseteq Known' /\ None \in Known' BY <2>6 DEF Known
        <3> QED BY <2>3, <2>5, <3>2, <3>3, <3>4, HereKnown DEF PCs, Releasing
    <2>9. Pushed' \subseteq 1 .. made' BY <1>0, <2>1, <2>3, <2>6
    <2> QED BY <1>4, <2>1, <2>6, <2>7, <2>8, <2>9
<1> QED BY <1>7, <1>8 DEF Extends

-----------------------------------------------------------------------------
(***************************************************************************)
(* The refcount of an array: one for the storage while the array is active *)
(* or synchronize is still to end, and one for every reader that has it.   *)
(***************************************************************************)
LEMMA HoldersFinite ==
    ASSUME NEW a
    PROVE  /\ Holders(a) \in SUBSET Readers /\ Cardinality(Holders(a)) \in Nat
           /\ \A r \in Readers :
                /\ r \notin Holders(a) => Cardinality(Holders(a) \cup {r}) = Cardinality(Holders(a)) + 1
                /\ r \in Holders(a) => Cardinality(Holders(a) \ {r}) = Cardinality(Holders(a)) - 1
<1>1. Holders(a) \in SUBSET Readers BY DEF Holders
<1> QED BY <1>1, FiniteReaders

(* The array a reader reads in its section is one the storage still has. *)
ReadersInside(r) ==
    section[r].at = "in" /\ view[r] # 0 =>
         \/ view[r] = Active
         \/ /\ view[r] + 1 = Active
            /\ writer.at \in {"store", "cas", "announce", "check", "wait"}
            /\ writer.at \in {"announce", "check", "wait"} => section[r].val % 2 = writer.old % 2

(* The invariant of the arrays in parts. *)
LEMMA ArrayInvParts ==
    ArrayInv <=> /\ \A a \in 1 .. Active : /\ arrays[a].refs = Base(a) + Cardinality(Holders(a))
                                           /\ arrays[a].alive <=> arrays[a].refs > 0
                 /\ writer.at # "none" => Active > 1
                 /\ \A r \in Readers : ReadersInside(r)
BY DEF ArrayInv, ReadersInside

(* What the refcount of an array is. *)
LEMMA RefsAre ==
    ASSUME StorageInv, NEW a \in 1 .. Active
    PROVE  /\ arrays[a].refs = Base(a) + Cardinality(Holders(a)) /\ arrays[a].refs \in Nat
           /\ arrays[a].alive <=> arrays[a].refs > 0
           /\ Base(a) \in 0 .. 1 /\ Cardinality(Holders(a)) \in Nat
<1>1. Base(a) \in 0 .. 1 BY DEF Base
<1>2. Cardinality(Holders(a)) \in Nat BY HoldersFinite
<1>3. arrays[a].refs = Base(a) + Cardinality(Holders(a)) /\ (arrays[a].alive <=> arrays[a].refs > 0)
    BY DEF StorageInv, ArrayInv
<1> QED BY <1>1, <1>2, <1>3

(* Who leaves the arrays and the readers alone keeps their part. *)
LEMMA SameArrays ==
    ASSUME StorageInv, UNCHANGED <<arrays, view, section, writer, phase>>
    PROVE  ArrayInv' /\ ArrayType'
<1>1. ArrayInv /\ ArrayType BY DEF StorageInv
<1>2. ArrayType' BY <1>1 DEF ArrayType
<1>3. \A a : Base(a)' = Base(a) /\ Holders(a)' = Holders(a) BY DEF Base, Holders, Active
<1>4. Active' = Active BY DEF Active
<1> QED BY <1>1, <1>2, <1>3, <1>4 DEF ArrayInv

(* The steps that extend the array keep the refcounts. *)
LEMMA ExtendsArrays ==
    ASSUME StorageInv, NEW c \in Clients, ClientStep(c), Extends(c), fault' = "none"
    PROVE  ArrayInv'
<1>0. /\ Active \in Nat /\ Active >= 1 /\ view \in [Readers -> 0 .. Active]
      /\ \A r \in Readers : ReadersInside(r)
      /\ writer.at # "none" => Active > 1
    BY ActiveIs, ArrayInvParts DEF StorageInv, ArrayType, Active
<1>1. UNCHANGED <<view, section, phase>> /\ phase = "open"
    BY ExtendsFrame, ClientOpen
<1>2. \A a : Holders(a)' = Holders(a) BY <1>1 DEF Holders
<1>3. CASE TryAddBlock(c) /\ Len(arrays[Active].blocks) < SizeOf(Active)
    <2>1. arrays' = PushBlock(arrays, Active, made + 1) /\ UNCHANGED writer
        BY <1>3 DEF TryAddBlock, syncVars
    <2>2. made + 1 \in Blocks BY <1>3, RoomToMake DEF TryAddBlock, StorageInv
    <2>3. /\ Active' = Active
          /\ \A a \in 1 .. Active : arrays'[a].refs = arrays[a].refs /\ arrays'[a].alive = arrays[a].alive
        BY <2>1, <2>2, PushEffect
    <2>4. \A a : Base(a)' = Base(a) BY <1>1, <2>1, <2>3 DEF Base
    <2>5. \A r \in Readers : ReadersInside(r)'
        BY <1>0, <1>1, <2>1, <2>3 DEF ReadersInside
    <2>6. ASSUME NEW a \in 1 .. Active
          PROVE  /\ arrays'[a].refs = Base(a)' + Cardinality(Holders(a)')
                 /\ arrays'[a].alive <=> arrays'[a].refs > 0
        BY <1>2, <2>3, <2>4, RefsAre
    <2> QED BY <1>0, <2>1, <2>3, <2>5, <2>6 DEF ArrayInv, ReadersInside
<1>4. CASE TryAddBlock(c) /\ ~(Len(arrays[Active].blocks) < SizeOf(Active))
    <2>1. arrays' = Append(arrays, NewArray(arrays[Active].blocks)) /\ writer'.at = "store" /\ lock = Nobody
        BY <1>4 DEF TryAddBlock
    <2>2. writer.at = "none"
        <3>1. \A d \in Clients : pc[d] # "sync"
            BY <2>1, SizesOK DEF StorageInv, LockInv, Locked
        <3> QED BY <3>1 DEF StorageInv, LockInv
    <2>3. /\ Active' = Active + 1 /\ \A a \in 1 .. Active : arrays'[a] = arrays[a]
          /\ arrays'[Active + 1].refs = 1 /\ arrays'[Active + 1].alive
        BY <2>1, GrowEffect
    <2>4. \A r \in Readers : ReadersInside(r)'
        BY <1>0, <1>1, <2>1, <2>2, <2>3 DEF ReadersInside
    <2>5. ASSUME NEW a \in 1 .. Active
          PROVE  /\ arrays'[a].refs = Base(a)' + Cardinality(Holders(a)')
                 /\ arrays'[a].alive <=> arrays'[a].refs > 0
        <3>1. Base(a)' = Base(a)
            BY <1>0, <1>1, <2>1, <2>2, <2>3 DEF Base
        <3> QED BY <1>2, <2>3, <3>1, RefsAre
    <2>6. ASSUME NEW n, n = Active + 1
          PROVE  /\ arrays'[n].refs = Base(n)' + Cardinality(Holders(n)')
                 /\ arrays'[n].alive <=> arrays'[n].refs > 0
        <3>1. Holders(n)' = {} BY <1>0, <1>1, <2>6 DEF Holders
        <3>2. Base(n)' = 1 BY <1>1, <2>3, <2>6 DEF Base
        <3>3. Cardinality(Holders(n)') = 0 BY <3>1, FS_EmptySet
        <3> QED BY <2>3, <2>6, <3>2, <3>3
    <2>7. writer'.at # "none" => Active' > 1 BY <1>0, <2>3
    <2>8. ASSUME NEW a \in 1 .. Active'
          PROVE  /\ arrays'[a].refs = Base(a)' + Cardinality(Holders(a)')
                 /\ arrays'[a].alive <=> arrays'[a].refs > 0
        <3>1. a \in 1 .. Active \/ a = Active + 1 BY <1>0, <2>3
        <3> QED BY <2>5, <2>6, <3>1
    <2> QED BY <2>4, <2>7, <2>8 DEF ArrayInv, ReadersInside
<1>5. CASE Expanded(c)
    <2>1. /\ writer.at = "done" /\ writer'.at = "none"
          /\ arrays' = PushBlock(Relinquish(arrays, Active - 1), Active, reg[c].b) /\ pc[c] = "sync"
        BY <1>5 DEF Expanded, NoWriter
    <2>2. reg[c].b \in 1 .. made BY <2>1 DEF StorageInv, PushedInv, LocalsKnown
    <2>3. reg[c].b \in Blocks BY <2>2, SizesOK DEF StorageInv, BlockType, Places, Blocks
    <2>4. /\ Active' = Active /\ Active > 1
          /\ \A a \in 1 .. Active : a # Active - 1 =>
                arrays'[a].refs = arrays[a].refs /\ arrays'[a].alive = arrays[a].alive
          /\ arrays'[Active - 1].refs = arrays[Active - 1].refs - 1
          /\ arrays'[Active - 1].alive <=> arrays[Active - 1].refs > 1
        BY <1>0, <2>1, <2>3, ExpandedEffect
    <2>5. \A r \in Readers : ReadersInside(r)'
        BY <1>0, <1>1, <2>1, <2>4 DEF ReadersInside
    <2>6. ASSUME NEW a \in 1 .. Active
          PROVE  /\ arrays'[a].refs = Base(a)' + Cardinality(Holders(a)')
                 /\ arrays'[a].alive <=> arrays'[a].refs > 0
        <3>1. CASE a = Active - 1
            <4>1. Base(a) = 1 /\ Base(a)' = 0 BY <1>0, <2>1, <2>4, <3>1 DEF Base
            <4>2. arrays'[a].refs = arrays[a].refs - 1 /\ (arrays'[a].alive <=> arrays[a].refs > 1)
                BY <2>4, <3>1
            <4> QED BY <1>2, <4>1, <4>2, RefsAre
        <3>2. CASE a # Active - 1
            <4>1. Base(a)' = Base(a) BY <1>0, <1>1, <2>1, <2>4, <3>2 DEF Base
            <4>2. arrays'[a].refs = arrays[a].refs /\ arrays'[a].alive = arrays[a].alive
                BY <2>4, <3>2
            <4> QED BY <1>2, <4>1, <4>2, RefsAre
        <3> QED BY <3>1, <3>2
    <2> QED BY <2>1, <2>4, <2>5, <2>6 DEF ArrayInv, ReadersInside
<1> QED BY <1>3, <1>4, <1>5 DEF Extends

(* A reader raises one refcount and changes nothing else. *)
LEMMA IncrementFacts ==
    ASSUME NEW xs \in Seq(ArrayRecords), NEW a \in 1 .. Len(xs), NEW p, p = [xs EXCEPT ![a].refs = @ + 1]
    PROVE  /\ p \in Seq(ArrayRecords) /\ Len(p) = Len(xs)
           /\ p[a].refs = xs[a].refs + 1 /\ p[a].alive = xs[a].alive
           /\ p[a].blocks = xs[a].blocks
           /\ \A d \in 1 .. Len(xs) : d # a => p[d] = xs[d]
<1>1. xs[a] \in ArrayRecords OBVIOUS
<1>2. PICK n \in Int : n = xs[a].refs BY <1>1 DEF ArrayRecords
<1>3. PICK x \in ArrayRecords : x = [xs[a] EXCEPT !.refs = n + 1]
    <2>1. n + 1 \in Int BY <1>2
    <2> QED BY <1>1, <2>1 DEF ArrayRecords
<1>4. x.refs = n + 1 /\ x.alive = xs[a].alive /\ x.blocks = xs[a].blocks
    BY <1>1, <1>3 DEF ArrayRecords
<1>5. p = [xs EXCEPT ![a] = x] BY <1>1, <1>2, <1>3
<1>6. p \in Seq(ArrayRecords) /\ Len(p) = Len(xs) /\ p[a] = x /\ \A d \in 1 .. Len(xs) : d # a => p[d] = xs[d]
    BY <1>5, SameLength
<1> QED BY <1>2, <1>4, <1>6

(* A reader's steps, by what they do to its section, its view and the arrays. *)
LEMMA ReaderArrays ==
    ASSUME StorageInv, NEW r \in Readers, ReaderStep(r)
    PROVE  ArrayInv' /\ ArrayType'
<1>0. /\ Active \in Nat /\ Active >= 1 /\ Active = Len(arrays) /\ view \in [Readers -> 0 .. Active]
      /\ arrays \in Seq(ArrayRecords) /\ arrays # <<>>
      /\ \A s \in Readers : ReadersInside(s)
      /\ writer.at # "none" => Active > 1
      /\ section \in [Readers -> Sections]
    BY ActiveIs, ArrayInvParts DEF StorageInv, ArrayType, Active, SyncType
<1>1. UNCHANGED <<phase, writer>>
    BY DEF ReaderStep, OpenSection, ReadArray, IncrementRefcount, LeaveSection,
           RelinquishBlockArray, storageVars, syncVars, Enter, Exit, ExitSignal
<1>2. ASSUME Active' = Active,
             view' \in [Readers -> 0 .. Active], arrays' \in Seq(ArrayRecords),
             \A s \in Readers : ReadersInside(s)',
             \A a \in 1 .. Active : /\ arrays'[a].refs = Base(a) + Cardinality(Holders(a)')
                                    /\ arrays'[a].alive <=> arrays'[a].refs > 0
      PROVE  ArrayInv' /\ ArrayType'
    <2>1. \A a \in 1 .. Active : Base(a)' = Base(a) BY <1>1, <1>2 DEF Base
    <2>2. Active' = Len(arrays') BY DEF Active
    <2>3. arrays' # <<>> BY <1>0, <1>2, <2>2
    <2>4. ArrayType' BY <1>2, <2>2, <2>3 DEF ArrayType
    <2>5. ArrayInv' BY <1>0, <1>1, <1>2, <2>1 DEF ArrayInv, ReadersInside
    <2> QED BY <2>4, <2>5
<1>3. CASE UNCHANGED arrays /\ (\A a \in 1 .. Active : Holders(a)' = Holders(a))
           /\ view' \in [Readers -> 0 .. Active] /\ (\A s \in Readers : ReadersInside(s)')
    <2>1. Active' = Active BY <1>3 DEF Active
    <2>2. ASSUME NEW a \in 1 .. Active
          PROVE  /\ arrays'[a].refs = Base(a) + Cardinality(Holders(a)')
                 /\ arrays'[a].alive <=> arrays'[a].refs > 0
        BY <1>3, RefsAre
    <2> QED BY <1>0, <1>2, <1>3, <2>1, <2>2
<1>4. CASE OpenSection(r)
    <2>1. /\ section' = [section EXCEPT ![r] = [at |-> "in", val |-> enter + 2]] /\ section[r].at = "out"
          /\ view[r] = 0 /\ UNCHANGED <<arrays, view>>
        BY <1>4 DEF OpenSection, Enter
    <2>2. \A a \in 1 .. Active : Holders(a)' = Holders(a) BY <1>0, <2>1 DEF Holders
    <2>3. \A s \in Readers : ReadersInside(s)' BY <1>0, <1>1, <2>1 DEF ReadersInside, Active
    <2> QED BY <1>0, <1>3, <2>1, <2>2, <2>3
<1>5. CASE ReadArray(r)
    <2>1. /\ section[r].at = "in" /\ view' = [view EXCEPT ![r] = Active]
          /\ UNCHANGED <<arrays, section>> /\ view[r] = 0
        BY <1>5 DEF ReadArray, syncVars
    <2>2. \A a \in 1 .. Active : Holders(a)' = Holders(a) BY <1>0, <2>1 DEF Holders
    <2>3. \A s \in Readers : ReadersInside(s)' BY <1>0, <1>1, <2>1 DEF ReadersInside, Active
    <2>4. view' \in [Readers -> 0 .. Active] BY <1>0, <2>1
    <2> QED BY <1>3, <2>1, <2>2, <2>3, <2>4
<1>6. CASE LeaveSection(r)
    <2>1. /\ section' = [section EXCEPT ![r] = Out] /\ section[r].at = "leaving"
          /\ UNCHANGED <<arrays, view>>
        BY <1>6 DEF LeaveSection, ExitSignal
    <2>2. \A a \in 1 .. Active : Holders(a)' = Holders(a) BY <1>0, <2>1 DEF Holders, Out
    <2>3. \A s \in Readers : ReadersInside(s)' BY <1>0, <1>1, <2>1 DEF ReadersInside, Active, Out
    <2> QED BY <1>0, <1>3, <2>1, <2>2, <2>3
<1>7. CASE IncrementRefcount(r)
    <2>0. PICK v \in 1 .. Active : v = view[r]
        BY <1>0, <1>7 DEF IncrementRefcount
    <2>1. /\ section[r].at = "in" /\ section'[r].at = "leaving"
          /\ \A s \in Readers : s # r => section'[s] = section[s]
          /\ UNCHANGED view /\ arrays' = [arrays EXCEPT ![v].refs = @ + 1]
        BY <1>0, <1>7, <2>0 DEF IncrementRefcount, Exit
    <2>2. /\ arrays' \in Seq(ArrayRecords) /\ Len(arrays') = Len(arrays)
          /\ arrays'[v].refs = arrays[v].refs + 1 /\ arrays'[v].alive = arrays[v].alive
          /\ \A d \in 1 .. Len(arrays) : d # v => arrays'[d] = arrays[d]
        <3>1. v \in 1 .. Len(arrays) /\ arrays \in Seq(ArrayRecords) BY <1>0
        <3>2. PICK p : p = arrays' OBVIOUS
        <3>3. p = [arrays EXCEPT ![v].refs = @ + 1] BY <2>1, <3>2
        <3>4. /\ p \in Seq(ArrayRecords) /\ Len(p) = Len(arrays)
              /\ p[v].refs = arrays[v].refs + 1 /\ p[v].alive = arrays[v].alive
              /\ \A d \in 1 .. Len(arrays) : d # v => p[d] = arrays[d]
            BY <3>1, <3>3, IncrementFacts
        <3> QED BY <3>2, <3>4
    <2>3. Active' = Active BY <2>2 DEF Active
    <2>4. \A s \in Readers : ReadersInside(s)' BY <1>0, <1>1, <2>1, <2>3 DEF ReadersInside
    <2>5. Holders(v)' = Holders(v) \cup {r} /\ r \notin Holders(v) BY <2>0, <2>1 DEF Holders
    <2>6. Cardinality(Holders(v)') = Cardinality(Holders(v)) + 1 BY <2>5, HoldersFinite
    <2>7. Base(v) = 1
        <3>1. phase = "open" BY <2>1 DEF StorageInv, LockInv
        <3>2. ReadersInside(r) BY <1>0
        <3>3. v = Active \/ (v + 1 = Active /\ writer.at # "none")
            BY <2>0, <2>1, <3>2 DEF ReadersInside
        <3> QED BY <3>1, <3>3 DEF Base
    <2>8. ASSUME NEW a \in 1 .. Active
          PROVE  /\ arrays'[a].refs = Base(a) + Cardinality(Holders(a)')
                 /\ arrays'[a].alive <=> arrays'[a].refs > 0
        <3>1. CASE a = v BY <2>2, <2>6, <2>7, <3>1, RefsAre
        <3>2. CASE a # v
            <4>1. Holders(a)' = Holders(a) BY <2>0, <2>1, <3>2 DEF Holders
            <4> QED BY <1>0, <2>2, <3>2, <4>1, RefsAre
        <3> QED BY <3>1, <3>2
    <2> QED BY <1>0, <1>2, <2>1, <2>2, <2>3, <2>4, <2>8
<1>8. CASE RelinquishBlockArray(r)
    <2>0. PICK v \in 1 .. Active : v = view[r]
        BY <1>0, <1>8 DEF RelinquishBlockArray
    <2>1. /\ section[r].at = "out" /\ UNCHANGED section
          /\ view' = [view EXCEPT ![r] = 0] /\ arrays' = Relinquish(arrays, v)
        BY <1>8, <2>0 DEF RelinquishBlockArray, syncVars
    <2>2. /\ arrays' \in Seq(ArrayRecords) /\ Len(arrays') = Len(arrays)
          /\ arrays'[v].refs = arrays[v].refs - 1 /\ (arrays'[v].alive <=> arrays[v].refs > 1)
          /\ \A d \in 1 .. Len(arrays) : d # v => arrays'[d] = arrays[d]
        <3>1. OnlyRelinquishes(arrays, v, arrays') BY <1>0, <2>1, RelinquishFacts
        <3> QED BY <3>1 DEF OnlyRelinquishes
    <2>3. Active' = Active /\ view' \in [Readers -> 0 .. Active]
        BY <1>0, <2>1, <2>2 DEF Active
    <2>4. \A s \in Readers : ReadersInside(s)' BY <1>0, <1>1, <2>1, <2>3 DEF ReadersInside
    <2>5. Holders(v)' = Holders(v) \ {r} /\ r \in Holders(v)
        BY <1>0, <2>0, <2>1 DEF Holders
    <2>6. Cardinality(Holders(v)') = Cardinality(Holders(v)) - 1 BY <2>5, HoldersFinite
    <2>8. ASSUME NEW a \in 1 .. Active
          PROVE  /\ arrays'[a].refs = Base(a) + Cardinality(Holders(a)')
                 /\ arrays'[a].alive <=> arrays'[a].refs > 0
        <3>1. CASE a = v BY <2>2, <2>6, <3>1, RefsAre
        <3>2. CASE a # v
            <4>1. Holders(a)' = Holders(a) BY <1>0, <2>0, <2>1, <3>2 DEF Holders
            <4> QED BY <1>0, <2>2, <3>2, <4>1, RefsAre
        <3> QED BY <3>1, <3>2
    <2> QED BY <1>0, <1>2, <2>2, <2>3, <2>4, <2>8
<1> QED BY <1>4, <1>5, <1>6, <1>7, <1>8 DEF ReaderStep

(* The steps of synchronize: past the check, nobody reads the old array. *)
LEMMA SynchronizeArrays ==
    ASSUME StorageInv, Synchronize
    PROVE  ArrayInv' /\ ArrayType'
<1>0. /\ Active \in Nat /\ ArrayType /\ SyncType /\ SyncInv
      /\ \A r \in Readers : ReadersInside(r)
      /\ writer.at # "none" => Active > 1
    BY ActiveIs, ArrayInvParts DEF StorageInv
<1>1. UNCHANGED <<arrays, view, phase>> /\ SyncStep
    BY DEF Synchronize, storageVars
<1>2. UNCHANGED section /\ writer.at # "none" /\ writer'.at # "none" /\ Active' = Active
    BY <1>1 DEF SyncStep, SyncStore, SyncFlip, SyncAnnounce, SyncCheck, SyncWait, SyncDrain,
                NoWriter, SyncType, StorageInv, Active
<1>3. ASSUME NEW r \in Readers PROVE ReadersInside(r)'
    <2>0. ReadersInside(r) /\ section[r] \in Sections BY <1>0 DEF SyncType
    <2> SUFFICES ASSUME section[r].at = "in", view[r] # 0, view[r] # Active PROVE ReadersInside(r)'
        BY <1>1, <1>2 DEF ReadersInside
    <2>1. /\ view[r] + 1 = Active
          /\ writer.at \in {"store", "cas", "announce", "check", "wait"}
          /\ writer.at \in {"announce", "check", "wait"} => section[r].val % 2 = writer.old % 2
        BY <2>0 DEF ReadersInside
    <2>2. CASE SyncStore
        BY <1>1, <1>2, <2>1, <2>2 DEF SyncStore, ReadersInside
    <2>3. CASE SyncFlip
        <3>1. writer.at = "cas" /\ ~Flipped BY <2>3 DEF SyncFlip, Flipped
        <3>2. Open((enter + 1) % 2) = {} /\ writer.old % 2 = enter % 2
            BY <1>0, <3>1 DEF SyncInv, OldInv, StageInv
        <3>3. section[r].val % 2 \in 0 .. 1 BY <2>0, Parity DEF Sections
        <3>4. section[r].val % 2 # (enter + 1) % 2 BY <3>2 DEF Open
        <3>5. section[r].val % 2 = writer.old % 2 BY <1>0, <3>2, <3>3, <3>4, SyncNumbers
        <3>6. \/ writer'.at = "announce" /\ writer'.old = writer.old
              \/ writer'.at = "store"
            BY <1>0, <2>3 DEF SyncFlip, SyncType
        <3> QED BY <1>1, <1>2, <2>1, <3>5, <3>6 DEF ReadersInside
    <2>4. CASE SyncAnnounce \/ SyncWait
        <3>1. writer.at \in {"announce", "wait"} /\ writer'.at = "check" /\ writer'.old = writer.old
            BY <1>0, <2>4 DEF SyncAnnounce, SyncWait, SyncType
        <3> QED BY <1>1, <1>2, <2>1, <3>1 DEF ReadersInside
    <2>5. CASE SyncCheck
        <3>1. PICK q \in 0 .. 1 : q = writer.old % 2 BY <1>0, SyncNumbers
        <3>2. writer.at = "check" /\ Flipped BY <2>5 DEF SyncCheck, Flipped
        <3>3. r \in Open(q) BY <2>1, <3>1, <3>2 DEF Open
        <3>4. writer.old = exit[q] + 2 * Cardinality(Open(q)) BY <1>0, <3>1, <3>2 DEF SyncInv, OldInv
        <3>5. Cardinality(Open(q)) \in Nat /\ Cardinality(Open(q)) # 0 BY <3>3, OpenFinite
        <3>6. exit[q] \in Nat BY <1>0, SyncNumbers
        <3>7. exit[q] # writer.old BY <3>4, <3>5, <3>6
        <3>8. writer'.at = "wait" /\ writer'.old = writer.old
            BY <1>0, <2>5, <3>1, <3>7 DEF SyncCheck, SyncType
        <3> QED BY <1>1, <1>2, <2>1, <3>2, <3>8 DEF ReadersInside
    <2>6. CASE SyncDrain BY <2>1, <2>6 DEF SyncDrain
    <2> QED BY <1>1, <2>2, <2>3, <2>4, <2>5, <2>6 DEF SyncStep
<1>4. \A a : Base(a)' = Base(a) /\ Holders(a)' = Holders(a) BY <1>1, <1>2 DEF Base, Holders
<1>5. ArrayInv BY DEF StorageInv
<1> QED BY <1>0, <1>1, <1>2, <1>3, <1>4, <1>5 DEF ArrayInv, ArrayType, ReadersInside

-----------------------------------------------------------------------------
(***************************************************************************)
(* Entries: the bits set are the entries handed out or in flight.          *)
(***************************************************************************)
LEMMA NatWellFounded == IsWellFoundedOn({ss \in Nat \X Nat : ss[1] < ss[2]}, Nat)
BY NatLessThanWellFounded, Zenon DEF OpToRel

(* The lowest free entry is one entry. *)
LEMMA LowestIsOne ==
    ASSUME NEW S \in SUBSET Entries, S # {}
    PROVE  \E e \in S : Lowest(S, 1) = {e}
<1>1. S \subseteq Nat /\ IsFiniteSet(S) BY SizesOK, FS_Subset
<1>2. PICK m \in S : \A y \in S : m <= y
    <2>1. PICK R : R = {ss \in Nat \X Nat : ss[1] < ss[2]} OBVIOUS
    <2>2. IsWellFoundedOn(R, Nat) BY <2>1, NatWellFounded, Zenon
    <2>3. PICK m \in S : \A y \in S : ~(<<y, m>> \in R) BY <1>1, <2>2, WFMin
    <2>4. ASSUME NEW y \in S PROVE m <= y
        <3>1. m \in Nat /\ y \in Nat BY <1>1
        <3>2. ~(<<y, m>> \in R) BY <2>3
        <3>3. ~(y < m) BY <2>1, <3>1, <3>2
        <3> QED BY <3>1, <3>3
    <2> QED BY <2>4
<1>3. \A y \in S : m <= y BY <1>2
<1>4. ASSUME NEW e \in S PROVE Cardinality({d \in S : d < e}) < 1 <=> e = m
    <2>1. IsFiniteSet({d \in S : d < e}) BY <1>1, FS_Subset
    <2>2. Cardinality({d \in S : d < e}) \in Nat BY <2>1, FS_CardinalityType
    <2>3. Cardinality({d \in S : d < e}) = 0 <=> {d \in S : d < e} = {} BY <2>1, FS_EmptySet
    <2>4. {d \in S : d < e} = {} <=> e = m
        <3>1. m \in Nat /\ e \in Nat BY <1>1
        <3>2. m <= e BY <1>3
        <3>3. {d \in S : d < m} = {}
            <4>1. ASSUME NEW y \in S PROVE ~(y < m)
                <5>1. m \in Nat /\ y \in Nat /\ m <= y BY <1>1, <1>3
                <5> QED BY <5>1
            <4> QED BY <4>1
        <3>4. {d \in S : d < e} = {} => ~(m < e) OBVIOUS
        <3> QED BY <3>1, <3>2, <3>3, <3>4
    <2> QED BY <2>2, <2>3, <2>4
<1> QED BY <1>4 DEF Lowest

Bits == {x \in Blocks \X Entries : x[2] \in mask[x[1]]}
Of(b, S) == {<<b, e>> : e \in S}
Elsewhere(c) == UNION {InFlight(d) : d \in Clients \ {c}}

(* The bits set are handed out, in this client's hands or elsewhere. *)
LEMMA ExclusiveParts ==
    ASSUME StorageInv, phase = "open", NEW c \in Clients
    PROVE  /\ Bits = held \cup InFlight(c) \cup Elsewhere(c)
           /\ held \cap InFlight(c) = {} /\ held \cap Elsewhere(c) = {} /\ InFlight(c) \cap Elsewhere(c) = {}
<1>1. /\ Bits = held \cup UNION {InFlight(d) : d \in Clients}
      /\ \A d \in Clients : InFlight(d) \cap held = {}
      /\ \A d, e \in Clients : d # e => InFlight(d) \cap InFlight(e) = {}
    BY DEF StorageInv, EntryInv, EntriesExclusive, Bits
<1>2. UNION {InFlight(d) : d \in Clients} = InFlight(c) \cup Elsewhere(c) BY DEF Elsewhere
<1> QED BY <1>1, <1>2 DEF Elsewhere

(* It is enough to look at the client that moves. *)
LEMMA ExclusiveStep ==
    ASSUME StorageInv, phase = "open", NEW c \in Clients, ClientStep(c),
           Bits' = held' \cup InFlight(c)' \cup Elsewhere(c),
           held' \cap InFlight(c)' = {}, held' \cap Elsewhere(c) = {}, InFlight(c)' \cap Elsewhere(c) = {}
    PROVE  EntriesExclusive'
<1>1. ASSUME NEW d \in Clients, d # c PROVE InFlight(d)' = InFlight(d)
    BY <1>1, Others DEF InFlight
<1>2. \A d, e \in Clients : d # e => InFlight(d) \cap InFlight(e) = {}
    BY DEF StorageInv, EntryInv, EntriesExclusive
<1>3. UNION {InFlight(d)' : d \in Clients} = InFlight(c)' \cup Elsewhere(c)
    BY <1>1 DEF Elsewhere
<1>4. Bits' = held' \cup UNION {InFlight(d)' : d \in Clients} BY <1>3
<1>5. \A d \in Clients : InFlight(d)' \cap held' = {}
    BY <1>1 DEF Elsewhere
<1>6. \A d, e \in Clients : d # e => InFlight(d)' \cap InFlight(e)' = {}
    BY <1>1, <1>2 DEF Elsewhere
<1> QED BY <1>4, <1>5, <1>6 DEF EntriesExclusive, Bits

(* Setting and clearing the bits of one block. *)
LEMMA BitsChange ==
    ASSUME mask \in [Blocks -> SUBSET Entries], NEW b \in Blocks, NEW S \in SUBSET Entries
    PROVE  /\ mask' = [mask EXCEPT ![b] = @ \cup S] => Bits' = Bits \cup Of(b, S)
           /\ mask' = [mask EXCEPT ![b] = @ \ S] => Bits' = Bits \ Of(b, S)
<1>1. ASSUME NEW x \in Blocks \X Entries PROVE x \in Of(b, S) <=> x[1] = b /\ x[2] \in S
    BY DEF Of
<1>2. Of(b, S) \subseteq Blocks \X Entries BY DEF Of
<1>3. ASSUME mask' = [mask EXCEPT ![b] = @ \cup S] PROVE Bits' = Bits \cup Of(b, S)
    <2>1. ASSUME NEW x \in Blocks \X Entries
          PROVE  x[2] \in mask'[x[1]] <=> x[2] \in mask[x[1]] \/ x \in Of(b, S)
        <3>1. x[1] \in Blocks OBVIOUS
        <3>2. mask'[x[1]] = IF x[1] = b THEN mask[x[1]] \cup S ELSE mask[x[1]] BY <1>3, <3>1
        <3> QED BY <1>1, <3>2
    <2> QED BY <1>2, <2>1 DEF Bits
<1>4. ASSUME mask' = [mask EXCEPT ![b] = @ \ S] PROVE Bits' = Bits \ Of(b, S)
    <2>1. ASSUME NEW x \in Blocks \X Entries
          PROVE  x[2] \in mask'[x[1]] <=> x[2] \in mask[x[1]] /\ x \notin Of(b, S)
        <3>1. x[1] \in Blocks OBVIOUS
        <3>2. mask'[x[1]] = IF x[1] = b THEN mask[x[1]] \ S ELSE mask[x[1]] BY <1>4, <3>1
        <3> QED BY <1>1, <3>2
    <2> QED BY <2>1 DEF Bits
<1> QED BY <1>3, <1>4

(* What is in flight at a client. *)
LEMMA FlightIs ==
    ASSUME NEW c \in Clients
    PROVE  /\ pc[c] \in {"full", "xor"} => InFlight(c) = Of(reg[c].b, reg[c].set)
           /\ pc[c] \notin {"full", "xor"} => InFlight(c) = {}
           /\ pc'[c] \in {"full", "xor"} => InFlight(c)' = Of(reg'[c].b, reg'[c].set)
           /\ pc'[c] \notin {"full", "xor"} => InFlight(c)' = {}
BY DEF InFlight, Of

(* The entries a client is about to take are nobody's. *)
LEMMA FreeEntries ==
    ASSUME StorageInv, NEW c \in Clients, pc[c] = "add"
    PROVE  Of(reg[c].b, reg[c].set) \cap Bits = {}
<1>1. reg[c].set \cap mask[reg[c].b] = {} BY DEF StorageInv, EntryInv, TakesFree
<1> QED BY <1>1 DEF Of, Bits

(* A client's step keeps every entry in one place. *)
LEMMA ExclusiveClient ==
    ASSUME StorageInv, NEW c \in Clients, ClientStep(c), fault' = "none"
    PROVE  EntriesExclusive'
<1>0. /\ phase = "open" /\ mask \in [Blocks -> SUBSET Entries]
      /\ pc \in [Clients -> PCs] /\ reg \in [Clients -> Regs]
    BY ClientOpen DEF StorageInv, BlockType, ClientType
<1>1. /\ Bits = held \cup InFlight(c) \cup Elsewhere(c)
      /\ held \cap InFlight(c) = {} /\ held \cap Elsewhere(c) = {} /\ InFlight(c) \cap Elsewhere(c) = {}
    BY <1>0, ExclusiveParts
<1>2. CASE UNCHANGED <<mask, held>> /\ pc[c] \notin {"full", "xor"} /\ pc'[c] \notin {"full", "xor"}
    <2>1. InFlight(c) = {} /\ InFlight(c)' = {} BY <1>2, FlightIs
    <2>2. Bits' = Bits BY <1>2 DEF Bits
    <2> QED BY <1>0, <1>1, <1>2, <2>1, <2>2, ExclusiveStep
<1>3. CASE Allocate(c) \/ AllocateN(c) \/ BlockForAllocation(c) \/ ReadTail(c)
    BY <1>0, <1>2, <1>3 DEF Allocate, AllocateN, Call, BlockForAllocation, ReadTail, Goto, blockVars
<1>4. CASE TryAddBlock(c) \/ Expanded(c)
    BY <1>0, <1>2, <1>4 DEF TryAddBlock, Expanded, Goto, blockVars
<1>5. CASE PopDeferred(c) \/ ClearNext(c)
    BY <1>0, <1>2, <1>5 DEF PopDeferred, ClearNext, Goto
<1>6. CASE UpdateList(c) \/ LoadMask(c) \/ LoadAll(c)
    BY <1>0, <1>2, <1>6 DEF UpdateList, LoadMask, LoadAll, Panic, Goto, blockVars
<1>7. CASE Claim(c) \/ StoreClaim(c) \/ LinkHead(c) \/ PushDeferred(c)
    BY <1>0, <1>2, <1>7 DEF Claim, StoreClaim, LinkHead, PushDeferred, Released, Idle, Goto
<1>8. CASE AddAllocated(c)
    <2>1. /\ pc[c] = "add" /\ pc'[c] = "full" /\ reg' = reg /\ held' = held
          /\ mask' = [mask EXCEPT ![reg[c].b] = @ \cup reg[c].set]
        BY <1>0, <1>8 DEF AddAllocated, Goto
    <2>2. InFlight(c) = {} /\ InFlight(c)' = Of(reg[c].b, reg[c].set) BY <2>1, FlightIs
    <2>3. Bits' = Bits \cup Of(reg[c].b, reg[c].set) BY <1>0, <2>1, BitsChange, Locals
    <2>4. Of(reg[c].b, reg[c].set) \cap Bits = {} BY <2>1, FreeEntries
    <2> QED BY <1>0, <1>1, <2>1, <2>2, <2>3, <2>4, ExclusiveStep
<1>9. CASE Allocated(c)
    <2>1. /\ pc[c] = "full" /\ pc'[c] = "idle" /\ UNCHANGED mask
          /\ held' = held \cup Of(reg[c].b, reg[c].set)
        BY <1>0, <1>9 DEF Allocated, Panic, Idle, Goto, Of, blockVars
    <2>2. InFlight(c)' = {} /\ InFlight(c) = Of(reg[c].b, reg[c].set) BY <2>1, FlightIs
    <2>3. Bits' = Bits BY <2>1 DEF Bits
    <2> QED BY <1>0, <1>1, <2>1, <2>2, <2>3, ExclusiveStep
<1>10. CASE AddAll(c)
    <2>1. PICK kept, left : kept = Lowest(reg[c].set, reg[c].want) /\ left = reg[c].set \ kept
        OBVIOUS
    <2>2. /\ pc[c] = "add" /\ held' = held \cup Of(reg[c].b, kept)
          /\ mask' = [mask EXCEPT ![reg[c].b] = @ \cup reg[c].set]
        BY <1>10, <2>1 DEF AddAll, Of
    <2>3. \/ left = {} /\ pc'[c] = "idle"
          \/ pc'[c] = "xor" /\ reg'[c].b = reg[c].b /\ reg'[c].set = left
        BY <1>0, <1>10, <2>1 DEF AddAll, Idle, Goto, Set, Regs
    <2>4. InFlight(c) = {} /\ InFlight(c)' = Of(reg[c].b, left)
        <3>1. left = {} => Of(reg[c].b, left) = {} BY DEF Of
        <3> QED BY <2>2, <2>3, <3>1, FlightIs
    <2>5. /\ Of(reg[c].b, reg[c].set) = Of(reg[c].b, kept) \cup Of(reg[c].b, left)
          /\ Of(reg[c].b, kept) \cap Of(reg[c].b, left) = {}
        <3>1. kept \subseteq reg[c].set BY <2>1 DEF Lowest
        <3>2. reg[c].set = kept \cup left /\ kept \cap left = {} BY <2>1, <3>1
        <3> QED BY <3>2 DEF Of
    <2>6. Bits' = Bits \cup Of(reg[c].b, reg[c].set) BY <1>0, <2>2, BitsChange, Locals
    <2>7. Of(reg[c].b, reg[c].set) \cap Bits = {} BY <2>2, FreeEntries
    <2> QED BY <1>0, <1>1, <2>2, <2>4, <2>5, <2>6, <2>7, ExclusiveStep
<1>11. CASE Release(c)
    <2>1. PICK e \in held : /\ held' = held \ {e}
                            /\ Set(c, [NoReg EXCEPT !.op = "release", !.b = e[1], !.set = {e[2]}])
        BY <1>11 DEF Release
    <2>2. pc[c] = "idle" /\ pc'[c] = "xor" /\ reg'[c].b = e[1] /\ reg'[c].set = {e[2]} /\ UNCHANGED mask
        BY <1>0, <1>11, <2>1 DEF Release, Set, Goto, NoReg
    <2>3. e \in Blocks \X Entries BY KnownPlaces
    <2>4. InFlight(c) = {} /\ InFlight(c)' = {e}
        <3>1. Of(e[1], {e[2]}) = {e} BY <2>3 DEF Of
        <3> QED BY <2>2, <3>1, FlightIs
    <2>5. Bits' = Bits BY <2>2 DEF Bits
    <2> QED BY <1>0, <1>1, <2>1, <2>4, <2>5, ExclusiveStep
<1>12. CASE ClearBits(c)
    <2>1. /\ pc[c] = "xor" /\ pc'[c] \notin {"full", "xor"} /\ held' = held
          /\ mask' = [mask EXCEPT ![reg[c].b] = @ \ reg[c].set]
        BY <1>0, <1>12 DEF ClearBits, Released, Idle, Goto
    <2>2. InFlight(c)' = {} /\ InFlight(c) = Of(reg[c].b, reg[c].set) BY <2>1, FlightIs
    <2>3. Bits' = Bits \ Of(reg[c].b, reg[c].set) BY <1>0, <2>1, BitsChange, Locals DEF Releasing
    <2> QED BY <1>0, <1>1, <2>1, <2>2, <2>3, ExclusiveStep
<1> QED BY <1>3, <1>4, <1>5, <1>6, <1>7, <1>8, <1>9, <1>10, <1>11, <1>12 DEF ClientStep

(* The entries a client chose stay free until it takes them. *)
LEMMA TakesFreeStep ==
    ASSUME StorageInv, NEW c \in Clients, ClientStep(c), fault' = "none", NEW d \in Clients
    PROVE  TakesFree(d)'
<1>0. /\ mask \in [Blocks -> SUBSET Entries] /\ pc \in [Clients -> PCs] /\ reg \in [Clients -> Regs]
      /\ TakesFree(d) /\ TakesFree(c) /\ reg[c] \in Regs
    BY DEF StorageInv, BlockType, ClientType, EntryInv
<1>1. CASE d # c
    <2>1. pc'[d] = pc[d] /\ reg'[d] = reg[d] BY <1>1, Others
    <2>2. ASSUME pc[d] = "add" PROVE mask'[reg[d].b] \subseteq mask[reg[d].b]
        <3>1. lock = d /\ pc[c] \notin Locked
            BY <1>1, <2>2, SizesOK DEF StorageInv, LockInv, Locked
        <3>2. reg[d].b \in Blocks BY <2>2, Locals
        <3>3. CASE ClearBits(c) BY <1>0, <3>2, <3>3 DEF ClearBits
        <3>4. CASE Extends(c) BY <3>4, ExtendsFrame
        <3>5. CASE ~ClearBits(c) /\ ~Extends(c)
            <4>1. UNCHANGED mask
                BY <3>1, <3>5 DEF Extends, ClientStep, Allocate, AllocateN, Call, BlockForAllocation,
                ReadTail, PopDeferred, ClearNext, UpdateList, LoadMask, LoadAll, AddAllocated,
                Allocated, AddAll, Claim, StoreClaim, LinkHead, PushDeferred, Release, Locked, blockVars
            <4> QED BY <4>1
        <3> QED BY <3>3, <3>4, <3>5
    <2> QED BY <1>0, <2>1, <2>2 DEF TakesFree
<1>2. CASE d = c
    <2>1. CASE pc'[c] \notin {"add", "full"} BY <1>2, <2>1 DEF TakesFree
    <2>2. CASE LoadMask(c)
        <3>1. PICK S : S = Full \ mask[reg[c].b] OBVIOUS
        <3>2. reg[c].b \in Blocks BY <2>2, Locals DEF LoadMask
        <3>3. /\ mask[reg[c].b] # Full /\ reg' = [reg EXCEPT ![c] = [reg[c] EXCEPT !.set = Lowest(S, 1)]]
              /\ UNCHANGED mask
            BY <2>2, <3>1 DEF LoadMask, Panic, Set, blockVars
        <3>4. S \in SUBSET Entries /\ S # {} BY <1>0, <3>1, <3>2, <3>3 DEF Full
        <3>5. PICK e \in S : Lowest(S, 1) = {e} BY <3>4, LowestIsOne
        <3>6. reg'[c].set = {e} /\ reg'[c].b = reg[c].b BY <1>0, <3>3, <3>5 DEF Regs
        <3>7. e \notin mask[reg[c].b] /\ e \in Entries BY <3>1, <3>4
        <3> QED BY <1>2, <3>3, <3>6, <3>7 DEF TakesFree
    <2>3. CASE LoadAll(c)
        <3>1. /\ reg' = [reg EXCEPT ![c] = [reg[c] EXCEPT !.set = Full \ mask[reg[c].b]]]
              /\ pc' = [pc EXCEPT ![c] = "add"] /\ reg[c].op = "many" /\ UNCHANGED mask
            BY <2>3 DEF LoadAll, Panic, Set, Goto, blockVars
        <3>2. reg'[c].set = Full \ mask[reg[c].b] /\ reg'[c].b = reg[c].b /\ reg'[c].op = "many"
            BY <1>0, <3>1 DEF Regs
        <3> QED BY <1>0, <1>2, <3>1, <3>2 DEF TakesFree
    <2>4. CASE AddAllocated(c)
        <3>1. reg' = reg /\ pc' = [pc EXCEPT ![c] = "full"] /\ pc[c] = "add" /\ reg[c].op = "one"
            BY <2>4 DEF AddAllocated, Goto
        <3> QED BY <1>0, <1>2, <3>1 DEF TakesFree
    <2>5. CASE ~LoadMask(c) /\ ~LoadAll(c) /\ ~AddAllocated(c)
        <3>1. pc'[c] \notin {"add", "full"}
            <4>1. CASE Allocate(c) \/ AllocateN(c)
                BY <1>0, <4>1 DEF Allocate, AllocateN, Call, Goto
            <4>2. CASE BlockForAllocation(c) \/ TryAddBlock(c)
                BY <1>0, <4>2 DEF BlockForAllocation, TryAddBlock, Goto
            <4>3. CASE Expanded(c) \/ ReadTail(c) \/ PopDeferred(c) \/ ClearNext(c)
                BY <1>0, <4>3 DEF Expanded, ReadTail, PopDeferred, ClearNext, Goto
            <4>4. CASE UpdateList(c) \/ Allocated(c) \/ AddAll(c)
                BY <1>0, <4>4 DEF UpdateList, Allocated, AddAll, Panic, Idle, Goto
            <4>5. CASE Release(c) \/ ClearBits(c) \/ Claim(c) \/ StoreClaim(c) \/ LinkHead(c) \/ PushDeferred(c)
                BY <1>0, <4>5 DEF Release, ClearBits, Claim, StoreClaim, LinkHead, PushDeferred,
                                  Released, Idle, Goto
            <4> QED BY <2>5, <4>1, <4>2, <4>3, <4>4, <4>5 DEF ClientStep
        <3> QED BY <2>1, <3>1
    <2> QED BY <2>2, <2>3, <2>4, <2>5
<1> QED BY <1>1, <1>2

(* A client's step keeps the invariant of the entries. *)
LEMMA EntryStep ==
    ASSUME StorageInv, NEW c \in Clients, ClientStep(c), fault' = "none"
    PROVE  EntryInv'
<1>1. EntriesExclusive' BY ExclusiveClient
<1>2. \A d \in Clients : TakesFree(d)' BY TakesFreeStep
<1>3. phase' # "closed" BY ClientOpen, ClientFrame, ExtendsFrame
<1> QED BY <1>1, <1>2, <1>3 DEF EntryInv

-----------------------------------------------------------------------------
(***************************************************************************)
(* allocation_count and release_refcount.                                  *)
(***************************************************************************)
LEMMA DisjointUnion ==
    ASSUME NEW S, NEW T, IsFiniteSet(S), IsFiniteSet(T), S \cap T = {}
    PROVE  /\ IsFiniteSet(S \cup T) /\ Cardinality(S) \in Nat /\ Cardinality(T) \in Nat
           /\ Cardinality(S \cup T) = Cardinality(S) + Cardinality(T)
<1>1. Cardinality(S \cap T) = 0 BY FS_EmptySet
<1>2. Cardinality(S) \in Nat /\ Cardinality(T) \in Nat BY FS_CardinalityType
<1>3. /\ IsFiniteSet(S \cup T)
      /\ Cardinality(S \cup T) = Cardinality(S) + Cardinality(T) - Cardinality(S \cap T)
    BY FS_Union
<1> QED BY <1>1, <1>2, <1>3

(* Counting entries of a block. *)
LEMMA OfCard ==
    ASSUME NEW b, NEW S \in SUBSET Entries
    PROVE  /\ IsFiniteSet(S) /\ Cardinality(S) \in Nat
           /\ IsFiniteSet(Of(b, S)) /\ Cardinality(Of(b, S)) = Cardinality(S)
<1>1. IsFiniteSet(S) /\ Cardinality(S) \in Nat BY SizesOK, FS_Subset, FS_CardinalityType
<1>2. IsFiniteSet({b}) /\ Cardinality({b}) = 1 BY FS_Singleton
<1>3. Of(b, S) = {b} \X S BY DEF Of
<1>4. IsFiniteSet({b} \X S) /\ Cardinality({b} \X S) = Cardinality({b}) * Cardinality(S)
    BY <1>1, <1>2, FS_Product
<1> QED BY <1>1, <1>2, <1>3, <1>4

(* The entries handed out are finitely many. *)
LEMMA HeldFinite ==
    ASSUME StorageInv
    PROVE  IsFiniteSet(held) /\ Cardinality(held) \in Nat
<1>1. IsFiniteSet(Blocks) BY SizesOK, FS_Interval DEF Blocks
<1>2. IsFiniteSet(Blocks \X Entries) BY <1>1, SizesOK, FS_Product
<1> QED BY <1>2, KnownPlaces, FS_Subset, FS_CardinalityType

(* What the others owe, and what a client at l with s to give back owes. *)
OwedElse(c) == {x \in Clients \X Entries : x[1] # c /\ pc[x[1]] \in Releasing /\ x[2] \in reg[x[1]].set}
Debt(l, s) == IF l \in Releasing THEN Cardinality(s) ELSE 0

(* What is owed to allocation_count: by one client and by the others. *)
LEMMA OwedCard ==
    ASSUME NEW p \in [Clients -> PCs], NEW q \in [Clients -> Regs], NEW c \in Clients
    PROVE  LET O == {x \in Clients \X Entries : p[x[1]] \in Releasing /\ x[2] \in q[x[1]].set}
               E == {x \in Clients \X Entries : x[1] # c /\ p[x[1]] \in Releasing /\ x[2] \in q[x[1]].set}
           IN  /\ Cardinality(E) \in Nat /\ Debt(p[c], q[c].set) \in Nat
               /\ Cardinality(O) = Cardinality(E) + Debt(p[c], q[c].set)
<1> DEFINE O == {x \in Clients \X Entries : p[x[1]] \in Releasing /\ x[2] \in q[x[1]].set}
<1> DEFINE E == {x \in Clients \X Entries : x[1] # c /\ p[x[1]] \in Releasing /\ x[2] \in q[x[1]].set}
<1>1. IsFiniteSet(Clients \X Entries) BY SizesOK, FS_Product
<1>2. IsFiniteSet(E) /\ Cardinality(E) \in Nat BY <1>1, FS_Subset, FS_CardinalityType
<1>3. q[c].set \in SUBSET Entries BY DEF Regs
<1>4. CASE p[c] \in Releasing
    <2>1. ASSUME NEW x \in Clients \X Entries
          PROVE  x \in O <=> x \in E \/ (x[1] = c /\ x[2] \in q[c].set)
        BY <1>4
    <2>2. ASSUME NEW x \in Clients \X Entries PROVE x \in Of(c, q[c].set) <=> x[1] = c /\ x[2] \in q[c].set
        BY DEF Of
    <2>3. Of(c, q[c].set) \subseteq Clients \X Entries BY <1>3 DEF Of
    <2>4. O = E \cup Of(c, q[c].set) BY <2>1, <2>2, <2>3
    <2>5. E \cap Of(c, q[c].set) = {} BY DEF Of
    <2> HIDE DEF O, E
    <2>6. Cardinality(O) = Cardinality(E) + Cardinality(Of(c, q[c].set))
        BY <1>2, <1>3, <2>4, <2>5, OfCard, DisjointUnion
    <2>7. Cardinality(O) = Cardinality(E) + Cardinality(q[c].set) /\ Cardinality(q[c].set) \in Nat
        BY <1>3, <2>6, OfCard
    <2> QED BY <1>2, <1>4, <2>7 DEF Debt, O, E
<1>5. CASE p[c] \notin Releasing
    <2>1. O = E BY <1>5
    <2>2. Debt(p[c], q[c].set) = 0 BY <1>5 DEF Debt
    <2> HIDE DEF O, E
    <2>3. Cardinality(O) = Cardinality(E) + 0 BY <1>2, <2>1
    <2> QED BY <1>2, <2>2, <2>3 DEF O, E
<1> QED BY <1>4, <1>5

(* A step changes what its own client owes. *)
LEMMA OwedChange ==
    ASSUME StorageInv, NEW c \in Clients, ClientStep(c), fault' = "none"
    PROVE  /\ Cardinality(Owed) \in Nat
           /\ Debt(pc[c], reg[c].set) \in Nat /\ Debt(pc'[c], reg'[c].set) \in Nat
           /\ Cardinality(Owed') = Cardinality(Owed) - Debt(pc[c], reg[c].set) + Debt(pc'[c], reg'[c].set)
<1>1. pc \in [Clients -> PCs] /\ reg \in [Clients -> Regs] BY DEF StorageInv, ClientType
<1>2. pc' \in [Clients -> PCs] /\ reg' \in [Clients -> Regs]
    <2>1. ClientType' BY ClientTypeStep
    <2> QED BY <2>1 DEF ClientType
<1>3. OwedElse(c)' = OwedElse(c)
    BY Others DEF OwedElse
<1>4. /\ Cardinality(OwedElse(c)) \in Nat /\ Debt(pc[c], reg[c].set) \in Nat
      /\ Cardinality(Owed) = Cardinality(OwedElse(c)) + Debt(pc[c], reg[c].set)
    BY <1>1, OwedCard DEF Owed, OwedElse
<1>5. /\ Debt(pc'[c], reg'[c].set) \in Nat
      /\ Cardinality(Owed') = Cardinality(OwedElse(c)') + Debt(pc'[c], reg'[c].set)
    <2>1. PICK p \in [Clients -> PCs], q \in [Clients -> Regs] : p = pc' /\ q = reg' BY <1>2
    <2>2. Owed' = {x \in Clients \X Entries : p[x[1]] \in Releasing /\ x[2] \in q[x[1]].set}
        BY <2>1 DEF Owed
    <2>3. OwedElse(c)' = {x \in Clients \X Entries : x[1] # c /\ p[x[1]] \in Releasing /\ x[2] \in q[x[1]].set}
        BY <2>1 DEF OwedElse
    <2>4. /\ Debt(p[c], q[c].set) \in Nat
          /\ Cardinality(Owed') = Cardinality(OwedElse(c)') + Debt(p[c], q[c].set)
        BY <2>2, <2>3, OwedCard
    <2> QED BY <2>1, <2>4
<1> QED BY <1>3, <1>4, <1>5

(* allocation_count is the entries handed out and those still owed. *)
LEMMA CountStep ==
    ASSUME StorageInv, NEW c \in Clients, ClientStep(c), fault' = "none"
    PROVE  CountInv'
<1>0. /\ pc \in [Clients -> PCs] /\ reg \in [Clients -> Regs] /\ reg[c] \in Regs
      /\ count \in Int /\ count = Cardinality(held) + Cardinality(Owed) /\ phase = "open"
      /\ reg[c].set \in SUBSET Entries
    BY ClientOpen, Locals DEF StorageInv, ClientType, BlockType, CountInv
<1> DEFINE before == Debt(pc[c], reg[c].set)
           after == Debt(pc'[c], reg'[c].set)
<1>1. /\ Cardinality(Owed) \in Nat /\ before \in Nat /\ after \in Nat
      /\ Cardinality(Owed') = Cardinality(Owed) - before + after
      /\ IsFiniteSet(held) /\ Cardinality(held) \in Nat
    BY OwedChange, HeldFinite
<1>2. ASSUME NEW n \in Int, NEW h \in Int, count' = count + n, Cardinality(held') = Cardinality(held) + h,
             n = h - before + after
      PROVE  CountInv'
    <2> HIDE DEF before, after
    <2> QED BY <1>0, <1>1, <1>2 DEF CountInv
<1>3. ASSUME UNCHANGED <<count, held>>, before = after PROVE CountInv'
    <2> HIDE DEF before, after
    <2> QED BY <1>0, <1>1, <1>3 DEF CountInv
<1>4. CASE UNCHANGED <<count, held>> /\ pc[c] \notin Releasing /\ pc'[c] \notin Releasing
    BY <1>3, <1>4 DEF Debt
<1>5. CASE UNCHANGED <<count, held>> /\ pc[c] \in Releasing /\ pc'[c] \in Releasing /\ reg'[c].set = reg[c].set
    BY <1>3, <1>5 DEF Debt
<1>6. CASE Released(c) /\ UNCHANGED held /\ pc[c] \in Releasing
    <2>1. count' = count - Cardinality(reg[c].set) /\ pc'[c] = "idle"
        BY <1>0, <1>6 DEF Released, Idle, Goto
    <2>2. before = Cardinality(reg[c].set) /\ after = 0 BY <1>6, <2>1 DEF Debt, Releasing
    <2>3. Cardinality(reg[c].set) \in Nat BY Locals
    <2>4. PICK n \in Int : n = 0 - Cardinality(reg[c].set) BY <2>3
    <2> HIDE DEF before, after
    <2>5. count' = count + n /\ n = 0 - before + after BY <1>0, <2>1, <2>2, <2>3, <2>4
    <2>6. Cardinality(held') = Cardinality(held) + 0 BY <1>1, <1>6
    <2> QED BY <1>2, <2>5, <2>6
<1>7. CASE Allocate(c) \/ AllocateN(c) \/ BlockForAllocation(c) \/ ReadTail(c)
    BY <1>0, <1>4, <1>7 DEF Allocate, AllocateN, Call, BlockForAllocation, ReadTail, Goto, Releasing
<1>8. CASE TryAddBlock(c) \/ Expanded(c)
    BY <1>0, <1>4, <1>8 DEF TryAddBlock, Expanded, Goto, Releasing
<1>9. CASE PopDeferred(c) \/ ClearNext(c) \/ AddAllocated(c)
    BY <1>0, <1>4, <1>9 DEF PopDeferred, ClearNext, AddAllocated, Goto, Releasing
<1>10. CASE UpdateList(c) \/ LoadMask(c) \/ LoadAll(c)
    BY <1>0, <1>4, <1>10 DEF UpdateList, LoadMask, LoadAll, Panic, Goto, Releasing
<1>11. CASE ClearBits(c)
    <2>1. pc[c] \in Releasing /\ UNCHANGED held BY <1>11 DEF ClearBits, Releasing
    <2>2. Released(c) \/ (UNCHANGED <<count, reg>> /\ pc'[c] = "claim")
        BY <1>0, <1>11 DEF ClearBits, Goto
    <2> QED BY <1>5, <1>6, <2>1, <2>2 DEF Releasing
<1>12. CASE Claim(c)
    <2>1. pc[c] \in Releasing /\ UNCHANGED held BY <1>12 DEF Claim, Releasing
    <2>2. Released(c) \/ (UNCHANGED <<count, reg>> /\ pc'[c] = "claimed")
        BY <1>0, <1>12 DEF Claim, Goto
    <2> QED BY <1>5, <1>6, <2>1, <2>2 DEF Releasing
<1>13. CASE StoreClaim(c)
    <2>1. pc[c] \in Releasing /\ UNCHANGED <<held, count>> /\ pc'[c] = "link"
        BY <1>0, <1>13 DEF StoreClaim, Goto, Releasing
    <2>2. reg'[c].set = reg[c].set BY <1>0, <1>13 DEF StoreClaim, Set, Regs
    <2> QED BY <1>5, <2>1, <2>2 DEF Releasing
<1>14. CASE LinkHead(c)
    BY <1>0, <1>5, <1>14 DEF LinkHead, Goto, Releasing
<1>15. CASE PushDeferred(c)
    <2>1. pc[c] \in Releasing /\ UNCHANGED held BY <1>15 DEF PushDeferred, Releasing
    <2>2. Released(c) \/ (UNCHANGED count /\ pc'[c] = "link" /\ reg'[c].set = reg[c].set)
        BY <1>0, <1>15 DEF PushDeferred, Goto, Set, Regs
    <2> QED BY <1>5, <1>6, <2>1, <2>2 DEF Releasing
<1>16. CASE Allocated(c)
    <2>1. /\ pc[c] = "full" /\ pc'[c] = "idle" /\ count' = count + 1
          /\ held' = held \cup Of(reg[c].b, reg[c].set)
        BY <1>0, <1>16 DEF Allocated, Panic, Idle, Goto, Of
    <2>2. before = 0 /\ after = 0 BY <2>1 DEF Debt, Releasing
    <2>3. Cardinality(Of(reg[c].b, reg[c].set)) = 1 /\ IsFiniteSet(Of(reg[c].b, reg[c].set))
        <3>1. PICK e \in Entries : reg[c].set = {e} BY <2>1 DEF StorageInv, EntryInv, TakesFree
        <3>2. Cardinality(reg[c].set) = 1 BY <3>1, FS_Singleton
        <3> QED BY <1>0, <3>2, OfCard
    <2>4. held \cap Of(reg[c].b, reg[c].set) = {} BY <1>0, <2>1, ExclusiveParts, FlightIs
    <2>5. Cardinality(held') = Cardinality(held) + 1 BY <1>1, <2>1, <2>3, <2>4, DisjointUnion
    <2> HIDE DEF before, after
    <2>6. 1 = 1 - before + after BY <2>2
    <2> QED BY <1>2, <2>1, <2>5, <2>6
<1>17. CASE AddAll(c)
    <2>1. PICK kept, left : kept = Lowest(reg[c].set, reg[c].want) /\ left = reg[c].set \ kept
        OBVIOUS
    <2>2. /\ pc[c] = "add" /\ held' = held \cup Of(reg[c].b, kept)
          /\ count' = count + Cardinality(reg[c].set)
        BY <1>17, <2>1 DEF AddAll, Of
    <2>3. kept \subseteq reg[c].set /\ reg[c].set = kept \cup left /\ kept \cap left = {}
        BY <2>1 DEF Lowest
    <2>4. kept \in SUBSET Entries /\ left \in SUBSET Entries BY <1>0, <2>3
    <2>5. /\ Cardinality(reg[c].set) = Cardinality(kept) + Cardinality(left)
          /\ Cardinality(kept) \in Nat /\ Cardinality(left) \in Nat
        BY <2>3, <2>4, OfCard, DisjointUnion
    <2>6. \/ left = {} /\ pc'[c] = "idle"
          \/ pc'[c] = "xor" /\ reg'[c].set = left
        BY <1>0, <1>17, <2>1 DEF AddAll, Idle, Goto, Set, Regs
    <2>7. before = 0 /\ after = Cardinality(left)
        <3>1. left = {} => Cardinality(left) = 0 BY FS_EmptySet
        <3> QED BY <2>2, <2>6, <3>1 DEF Debt, Releasing
    <2>8. held \cap Of(reg[c].b, kept) = {}
        <3>1. Of(reg[c].b, reg[c].set) \cap Bits = {} BY <2>2, FreeEntries
        <3>2. held \subseteq Bits BY <1>0, ExclusiveParts
        <3>3. Of(reg[c].b, kept) \subseteq Of(reg[c].b, reg[c].set) BY <2>3 DEF Of
        <3> QED BY <3>1, <3>2, <3>3
    <2>9. IsFiniteSet(Of(reg[c].b, kept)) /\ Cardinality(Of(reg[c].b, kept)) = Cardinality(kept)
        BY <2>4, OfCard
    <2>10. Cardinality(held') = Cardinality(held) + Cardinality(kept)
        BY <1>1, <2>2, <2>8, <2>9, DisjointUnion
    <2> HIDE DEF before, after
    <2>11. Cardinality(reg[c].set) = Cardinality(kept) - before + after /\ Cardinality(reg[c].set) \in Int
        BY <2>5, <2>7
    <2> QED BY <1>2, <2>2, <2>5, <2>10, <2>11
<1>18. CASE Release(c)
    <2>1. PICK e \in held : /\ held' = held \ {e}
                            /\ Set(c, [NoReg EXCEPT !.op = "release", !.b = e[1], !.set = {e[2]}])
        BY <1>18 DEF Release
    <2>2. pc[c] = "idle" /\ pc'[c] = "xor" /\ reg'[c].set = {e[2]} /\ UNCHANGED count
        BY <1>0, <1>18, <2>1 DEF Release, Set, Goto, NoReg
    <2>3. Cardinality(held') = Cardinality(held) - 1 BY <1>1, <2>1, FS_RemoveElement
    <2>4. before = 0 /\ after = 1
        <3>1. Cardinality({e[2]}) = 1 BY FS_Singleton
        <3> QED BY <2>2, <3>1 DEF Debt, Releasing
    <2> HIDE DEF before, after
    <2> QED BY <1>0, <1>1, <2>2, <2>3, <2>4 DEF CountInv
<1> QED BY <1>7, <1>8, <1>9, <1>10, <1>11, <1>12, <1>13, <1>14, <1>15, <1>16, <1>17, <1>18 DEF ClientStep

(* A client counts as a releaser of the block it gives entries back to. *)
LEMMA RefsStep ==
    ASSUME StorageInv, NEW c \in Clients, ClientStep(c), fault' = "none"
    PROVE  RefsInv'
<1>0. /\ pc \in [Clients -> PCs] /\ reg \in [Clients -> Regs] /\ reg[c] \in Regs
      /\ refs \in [Blocks -> Int] /\ \A b \in Blocks : refs[b] = Cardinality(Releasers(b))
    BY DEF StorageInv, ClientType, BlockType, RefsInv
<1>1. ASSUME NEW b \in Blocks
      PROVE  /\ Releasers(b) \in SUBSET Clients /\ Cardinality(Releasers(b)) \in Nat
             /\ c \notin Releasers(b) => Cardinality(Releasers(b) \cup {c}) = Cardinality(Releasers(b)) + 1
             /\ c \in Releasers(b) => Cardinality(Releasers(b) \ {c}) = Cardinality(Releasers(b)) - 1
    <2>1. Releasers(b) \in SUBSET Clients BY DEF Releasers
    <2> QED BY <2>1, FiniteClients
<1>2. ASSUME NEW b \in Blocks
      PROVE  Releasers(b)' = IF pc'[c] \in Releasing /\ reg'[c].b = b
                             THEN Releasers(b) \cup {c} ELSE Releasers(b) \ {c}
    BY <1>0, Others DEF Releasers
<1>3. CASE UNCHANGED refs /\ pc[c] \notin Releasing /\ pc'[c] \notin Releasing
    <2>1. ASSUME NEW b \in Blocks PROVE Releasers(b)' = Releasers(b)
        BY <1>2, <1>3 DEF Releasers
    <2> QED BY <1>0, <1>3, <2>1 DEF RefsInv
<1>4. CASE UNCHANGED refs /\ pc[c] \in Releasing /\ pc'[c] \in Releasing /\ reg'[c].b = reg[c].b
    <2>1. ASSUME NEW b \in Blocks PROVE Releasers(b)' = Releasers(b)
        BY <1>2, <1>4 DEF Releasers
    <2> QED BY <1>0, <1>4, <2>1 DEF RefsInv
<1>5. CASE Released(c) /\ pc[c] \in Releasing
    <2>0. pc'[c] = "idle" /\ refs' = [refs EXCEPT ![reg[c].b] = @ - 1] /\ reg[c].b \in Blocks
        BY <1>0, <1>5, Locals DEF Released, Idle, Goto
    <2>1. ASSUME NEW b \in Blocks PROVE refs'[b] = Cardinality(Releasers(b)')
        <3>1. Releasers(b)' = Releasers(b) \ {c} BY <1>2, <2>0 DEF Releasing
        <3>2. CASE b = reg[c].b
            <4>1. c \in Releasers(b) BY <1>5, <3>2 DEF Releasers
            <4> QED BY <1>0, <1>1, <2>0, <3>1, <3>2, <4>1
        <3>3. CASE b # reg[c].b
            <4>1. Releasers(b)' = Releasers(b) BY <3>1, <3>3 DEF Releasers
            <4> QED BY <1>0, <2>0, <3>3, <4>1
        <3> QED BY <3>2, <3>3
    <2> QED BY <2>1 DEF RefsInv
<1>6. ASSUME NEW v \in Blocks, refs' = [refs EXCEPT ![v] = @ + 1], pc[c] \notin Releasing,
             pc'[c] = "xor", reg'[c].b = v
      PROVE  RefsInv'
    <2>1. ASSUME NEW b \in Blocks PROVE refs'[b] = Cardinality(Releasers(b)')
        <3>0. c \notin Releasers(b) BY <1>6 DEF Releasers
        <3>1. CASE b = v
            <4>1. Releasers(b)' = Releasers(b) \cup {c} BY <1>2, <1>6, <3>1 DEF Releasing
            <4> QED BY <1>0, <1>1, <1>6, <3>0, <3>1, <4>1
        <3>2. CASE b # v
            <4>1. Releasers(b)' = Releasers(b) BY <1>2, <1>6, <3>0, <3>2
            <4> QED BY <1>0, <1>6, <3>2, <4>1
        <3> QED BY <3>1, <3>2
    <2> QED BY <2>1 DEF RefsInv
<1>7. CASE Allocate(c) \/ AllocateN(c) \/ BlockForAllocation(c) \/ ReadTail(c)
    BY <1>0, <1>3, <1>7 DEF Allocate, AllocateN, Call, BlockForAllocation, ReadTail, Goto, Releasing, blockVars
<1>8. CASE TryAddBlock(c) \/ Expanded(c)
    BY <1>0, <1>3, <1>8 DEF TryAddBlock, Expanded, Goto, Releasing, blockVars
<1>9. CASE PopDeferred(c) \/ ClearNext(c) \/ AddAllocated(c)
    BY <1>0, <1>3, <1>9 DEF PopDeferred, ClearNext, AddAllocated, Goto, Releasing
<1>10. CASE UpdateList(c) \/ LoadMask(c) \/ LoadAll(c) \/ Allocated(c)
    BY <1>0, <1>3, <1>10 DEF UpdateList, LoadMask, LoadAll, Allocated, Idle, Panic, Goto, Releasing, blockVars
<1>11. CASE ClearBits(c)
    <2>1. pc[c] \in Releasing BY <1>11 DEF ClearBits, Releasing
    <2>2. Released(c) \/ (UNCHANGED <<refs, reg>> /\ pc'[c] = "claim")
        BY <1>0, <1>11 DEF ClearBits, Goto
    <2> QED BY <1>4, <1>5, <2>1, <2>2 DEF Releasing
<1>12. CASE Claim(c)
    <2>1. pc[c] \in Releasing BY <1>12 DEF Claim, Releasing
    <2>2. Released(c) \/ (UNCHANGED <<refs, reg>> /\ pc'[c] = "claimed")
        BY <1>0, <1>12 DEF Claim, Goto
    <2> QED BY <1>4, <1>5, <2>1, <2>2 DEF Releasing
<1>13. CASE StoreClaim(c)
    <2>1. pc[c] \in Releasing /\ UNCHANGED refs /\ pc'[c] = "link"
        BY <1>0, <1>13 DEF StoreClaim, Goto, Releasing
    <2>2. reg'[c].b = reg[c].b BY <1>0, <1>13 DEF StoreClaim, Set, Regs
    <2> QED BY <1>4, <2>1, <2>2 DEF Releasing
<1>14. CASE LinkHead(c)
    BY <1>0, <1>4, <1>14 DEF LinkHead, Goto, Releasing
<1>15. CASE PushDeferred(c)
    <2>1. pc[c] \in Releasing BY <1>15 DEF PushDeferred, Releasing
    <2>2. Released(c) \/ (UNCHANGED refs /\ pc'[c] = "link" /\ reg'[c].b = reg[c].b)
        BY <1>0, <1>15 DEF PushDeferred, Goto, Set, Regs
    <2> QED BY <1>4, <1>5, <2>1, <2>2 DEF Releasing
<1>16. CASE AddAll(c)
    <2>1. pc[c] = "add" /\ pc[c] \notin Releasing /\ reg[c].b \in Blocks
        BY <1>16, Locals DEF AddAll, Releasing
    <2>2. \/ pc'[c] = "idle" /\ UNCHANGED refs
          \/ pc'[c] = "xor" /\ reg'[c].b = reg[c].b /\ refs' = [refs EXCEPT ![reg[c].b] = @ + 1]
        BY <1>0, <1>16 DEF AddAll, Idle, Goto, Set, Regs
    <2> QED BY <1>3, <1>6, <2>1, <2>2 DEF Releasing
<1>17. CASE Release(c)
    <2>1. PICK e \in held : /\ refs' = [refs EXCEPT ![e[1]] = @ + 1]
                            /\ Set(c, [NoReg EXCEPT !.op = "release", !.b = e[1], !.set = {e[2]}])
        BY <1>17 DEF Release
    <2>2. pc[c] = "idle" /\ pc'[c] = "xor" /\ reg'[c].b = e[1] /\ e[1] \in Blocks
        BY <1>0, <1>17, <2>1, KnownPlaces DEF Release, Set, Goto, NoReg
    <2> QED BY <1>6, <2>1, <2>2 DEF Releasing
<1> QED BY <1>7, <1>8, <1>9, <1>10, <1>11, <1>12, <1>13, <1>14, <1>15, <1>16, <1>17 DEF ClientStep

-----------------------------------------------------------------------------
(***************************************************************************)
(* The synchronizer's part, whoever takes the step.                        *)
(***************************************************************************)
LEMMA ReaderSyncType ==
    ASSUME SyncType, NEW r \in Readers, Enter(r) \/ Exit(r) \/ ExitSignal(r)
    PROVE  SyncType'
<1>1. /\ enter \in Nat /\ exit \in [0 .. 1 -> Nat] /\ waitingFor \in Nat /\ wakeup \in Nat
      /\ section \in [Readers -> Sections] /\ sectionsLeft \in Nat
      /\ writer \in [at : Stages, value : Nat, old : Nat]
    BY DEF SyncType
<1>2. CASE Enter(r)
    <2>1. [at |-> "in", val |-> enter + 2] \in Sections BY <1>1 DEF Sections
    <2>2. section' \in [Readers -> Sections] BY <1>1, <1>2, <2>1 DEF Enter
    <2>3. enter' \in Nat /\ sectionsLeft' \in Nat BY <1>1, <1>2 DEF Enter
    <2> QED BY <1>1, <1>2, <2>2, <2>3 DEF Enter, SyncType
<1>3. CASE Exit(r)
    <2>0. PICK p \in 0 .. 1 : p = section[r].val % 2
        BY <1>1, Parity DEF Sections
    <2>1. exit[p] + 2 \in Nat BY <1>1
    <2>2. [at |-> "leaving", val |-> exit[p] + 2] \in Sections BY <2>1 DEF Sections
    <2>3. section' \in [Readers -> Sections] BY <1>1, <1>3, <2>0, <2>2 DEF Exit
    <2>4. exit' \in [0 .. 1 -> Nat] BY <1>1, <1>3, <2>0, <2>1 DEF Exit
    <2> QED BY <1>1, <1>3, <2>3, <2>4 DEF Exit, SyncType
<1>4. CASE ExitSignal(r)
    <2>1. Out \in Sections BY DEF Out, Sections
    <2>2. section' \in [Readers -> Sections] BY <1>1, <1>4, <2>1 DEF ExitSignal
    <2>3. wakeup' \in Nat BY <1>1, <1>4 DEF ExitSignal
    <2> QED BY <1>1, <1>4, <2>2, <2>3 DEF ExitSignal, SyncType
<1> QED BY <1>2, <1>3, <1>4

(* The steps of synchronize keep the types *)
LEMMA SyncStepType ==
    ASSUME SyncType, SyncStep
    PROVE  SyncType' /\ writer.at # "none" /\ writer'.at # "none" /\ UNCHANGED section
<1>1. /\ enter \in Nat /\ exit \in [0 .. 1 -> Nat] /\ waitingFor \in Nat /\ wakeup \in Nat
      /\ section \in [Readers -> Sections] /\ sectionsLeft \in Nat
      /\ writer \in [at : Stages, value : Nat, old : Nat]
      /\ writer.value \in Nat /\ writer.old \in Nat
    BY DEF SyncType
<1>2. CASE SyncStore
    <2>0. PICK p \in 0 .. 1 : p = (writer.value + 1) % 2
        BY <1>1, Parity
    <2>1. exit' \in [0 .. 1 -> Nat] BY <1>1, <1>2, <2>0 DEF SyncStore
    <2>2. writer' \in [at : Stages, value : Nat, old : Nat] BY <1>1, <1>2 DEF SyncStore, Stages
    <2> QED BY <1>1, <1>2, <2>1, <2>2 DEF SyncStore, SyncType
<1>3. CASE SyncFlip
    <2>1. writer' \in [at : Stages, value : Nat, old : Nat] BY <1>1, <1>3 DEF SyncFlip, Stages
    <2>2. enter' \in Nat BY <1>1, <1>3 DEF SyncFlip
    <2>3. writer.at # "none" /\ writer'.at # "none" BY <1>1, <1>3 DEF SyncFlip
    <2> QED BY <1>1, <1>3, <2>1, <2>2, <2>3 DEF SyncFlip, SyncType
<1>4. CASE SyncAnnounce
    BY <1>1, <1>4 DEF SyncAnnounce, SyncType, Stages
<1>5. CASE SyncCheck
    <2>1. writer' \in [at : Stages, value : Nat, old : Nat] BY <1>1, <1>5 DEF SyncCheck, Stages
    <2>2. writer.at # "none" /\ writer'.at # "none" BY <1>1, <1>5 DEF SyncCheck
    <2> QED BY <1>1, <1>5, <2>1, <2>2 DEF SyncCheck, SyncType
<1>6. CASE SyncWait
    <2>1. writer' \in [at : Stages, value : Nat, old : Nat] BY <1>1, <1>6 DEF SyncWait, Stages
    <2>2. wakeup' \in Nat BY <1>1, <1>6 DEF SyncWait
    <2> QED BY <1>1, <1>6, <2>1, <2>2 DEF SyncWait, SyncType
<1>7. CASE SyncDrain
    <2>1. writer' \in [at : Stages, value : Nat, old : Nat]
        BY <1>7 DEF SyncDrain, Stages, NoWriter
    <2>2. writer.at # "none" /\ writer'.at # "none" BY <1>7 DEF SyncDrain, NoWriter
    <2> QED BY <1>1, <1>7, <2>1, <2>2 DEF SyncDrain, SyncType
<1> QED BY <1>2, <1>3, <1>4, <1>5, <1>6, <1>7 DEF SyncStep

(* and the invariant of the synchronizer. *)
LEMMA SyncStepSync ==
    ASSUME SyncType, SyncInv, SyncStep
    PROVE  SyncInv'
BY SyncStoreSync, SyncFlipSync, SyncAnnounceSync, SyncCheckSync, SyncWaitSync, SyncDrainSync DEF SyncStep

(* A client enters synchronize, leaves it, or leaves it alone. *)
LEMMA ClientSync ==
    ASSUME StorageInv, NEW c \in Clients, ClientStep(c), fault' = "none"
    PROVE  SyncType' /\ SyncInv'
<1>0. SyncType /\ SyncInv /\ LockInv BY DEF StorageInv
<1>1. CASE ~Extends(c)
    <2>1. UNCHANGED syncVars BY <1>1, ClientFrame
    <2>2. UNCHANGED <<enter, exit, waitingFor, wakeup, section, writer, sectionsLeft>>
        BY <2>1 DEF syncVars
    <2> QED BY <1>0, <2>2, SameSync DEF SyncType
<1>2. CASE Extends(c)
    <2>1. UNCHANGED <<enter, exit, waitingFor, wakeup, section, sectionsLeft>>
        BY <1>2, ExtendsFrame
    <2>2. writer' = writer \/ writer' = [at |-> "store", value |-> enter, old |-> 0] \/ writer' = NoWriter
        BY <1>2 DEF Extends, TryAddBlock, Expanded, syncVars
    <2>3. SyncType'
        <3>1. writer' \in [at : Stages, value : Nat, old : Nat]
            BY <1>0, <2>2 DEF SyncType, Stages, NoWriter
        <3> QED BY <1>0, <2>1, <3>1 DEF SyncType
    <2>4. writer.at \in {"none", "done"}
        <3>1. CASE TryAddBlock(c)
            <4>1. lock = Nobody BY <3>1 DEF TryAddBlock
            <4>2. \A d \in Clients : pc[d] # "sync" BY <4>1, <1>0, SizesOK DEF LockInv, Locked
            <4> QED BY <4>2, <1>0 DEF LockInv
        <3>2. CASE Expanded(c) BY <3>2 DEF Expanded
        <3> QED BY <3>1, <3>2, <1>2 DEF Extends
    <2>5. SyncInv'
        <3>1. CASE writer' = writer
            BY <1>0, <2>1, <3>1, SameSync
        <3>2. CASE writer' # writer
            BY <1>0, <2>1, <2>2, <2>4, <3>2, WriterSync
        <3> QED BY <3>1, <3>2
    <2> QED BY <2>3, <2>5
<1> QED BY <1>1, <1>2

-----------------------------------------------------------------------------
(***************************************************************************)
(* Readers and the synchronizing writer leave the storage itself alone.    *)
(***************************************************************************)
(* What a reader or the synchronizing writer does not touch. *)
storage == <<pc, reg, lock, mask, count, list, deferred, dnext, refs, made, held, phase>>

(* Who leaves the storage alone keeps its parts. *)
LEMMA SameStorage ==
    ASSUME StorageInv, UNCHANGED storage, Pushed' = Pushed
    PROVE  ClientType' /\ BlockType' /\ MadeInv' /\ PushedInv' /\ EntryInv' /\ CountInv' /\ RefsInv'
<1>1. UNCHANGED <<pc, reg, lock, mask, count, list, deferred, dnext, refs, made, held, phase>>
    BY DEF storage
<1>2. ClientType' /\ BlockType'
    BY <1>1 DEF StorageInv, ClientType, BlockType
<1>3. MadeInv'
    BY <1>1 DEF StorageInv, MadeInv, Relocking
<1>4. Known' = Known BY DEF Known
<1>5. \A c \in Clients : LocalsKnown(c)'
    BY <1>1, <1>4 DEF StorageInv, PushedInv, LocalsKnown
<1>6. PushedInv'
    BY <1>1, <1>4, <1>5 DEF StorageInv, PushedInv
<1>7. EntriesExclusive'
    <2>1. \A c \in Clients : InFlight(c)' = InFlight(c) BY <1>1 DEF InFlight
    <2> QED BY <1>1, <2>1 DEF StorageInv, EntryInv, EntriesExclusive
<1>8. EntryInv'
    BY <1>1, <1>7 DEF StorageInv, EntryInv, TakesFree
<1>9. CountInv'
    BY <1>1 DEF StorageInv, CountInv, Owed
<1>10. RefsInv'
    BY <1>1 DEF StorageInv, RefsInv, Releasers
<1> QED BY <1>2, <1>3, <1>6, <1>8, <1>9, <1>10

(* A reader pushes no block. *)
LEMMA ReaderPushed ==
    ASSUME StorageInv, NEW r \in Readers, ReaderStep(r)
    PROVE  Pushed' = Pushed
<1>0. /\ Active = Len(arrays) /\ arrays \in Seq(ArrayRecords) /\ view \in [Readers -> 0 .. Len(arrays)]
      /\ Active \in Nat
    BY ActiveIs DEF StorageInv, ArrayType, Active
<1>1. CASE UNCHANGED arrays
    BY <1>1 DEF Pushed, Active
<1>2. ASSUME NEW a \in 1 .. Len(arrays), Len(arrays') = Len(arrays), arrays'[a].blocks = arrays[a].blocks,
             \A d \in 1 .. Len(arrays) : d # a => arrays'[d] = arrays[d]
      PROVE  Pushed' = Pushed
    <2>1. Active' = Active BY <1>2 DEF Active
    <2>2. Active \in 1 .. Len(arrays) BY <1>0, ActiveIs DEF StorageInv
    <2>3. arrays'[Active].blocks = arrays[Active].blocks BY <1>2, <2>2
    <2> QED BY <2>1, <2>3 DEF Pushed
<1>3. CASE IncrementRefcount(r)
    <2>1. PICK a \in 1 .. Len(arrays) : a = view[r] BY <1>0, <1>3 DEF IncrementRefcount
    <2>2. arrays' = [arrays EXCEPT ![a].refs = @ + 1] BY <1>3, <2>1 DEF IncrementRefcount
    <2>3. /\ Len(arrays') = Len(arrays) /\ arrays'[a].blocks = arrays[a].blocks
          /\ \A d \in 1 .. Len(arrays) : d # a => arrays'[d] = arrays[d]
        BY <1>0, <2>2, IncrementFacts
    <2> QED BY <1>2, <2>3
<1>4. CASE RelinquishBlockArray(r)
    <2>1. PICK a \in 1 .. Len(arrays) : a = view[r] BY <1>0, <1>4 DEF RelinquishBlockArray
    <2>2. arrays' = Relinquish(arrays, a) BY <1>4, <2>1 DEF RelinquishBlockArray
    <2>3. /\ Len(arrays') = Len(arrays) /\ arrays'[a].blocks = arrays[a].blocks
          /\ \A d \in 1 .. Len(arrays) : d # a => arrays'[d] = arrays[d]
        <3>1. OnlyRelinquishes(arrays, a, arrays') BY <1>0, <2>2, RelinquishFacts
        <3> QED BY <3>1 DEF OnlyRelinquishes
    <2> QED BY <1>2, <2>3
<1>5. CASE OpenSection(r) \/ ReadArray(r) \/ LeaveSection(r)
    BY <1>1, <1>5 DEF OpenSection, ReadArray, LeaveSection
<1> QED BY <1>3, <1>4, <1>5 DEF ReaderStep

(* Readers keep the invariant, *)
LEMMA ReaderKeeps ==
    ASSUME StorageInv, NEW r \in Readers, ReaderStep(r)
    PROVE  StorageInv'
<1>0. SyncType /\ SyncInv /\ LockInv /\ view \in [Readers -> 0 .. Len(arrays)]
    BY DEF StorageInv, ArrayType
<1>1. UNCHANGED storage /\ UNCHANGED writer
    BY DEF ReaderStep, OpenSection, ReadArray, IncrementRefcount, LeaveSection,
           RelinquishBlockArray, storageVars, storage, syncVars, Enter, Exit, ExitSignal
<1>2. ClientType' /\ BlockType' /\ MadeInv' /\ PushedInv' /\ EntryInv' /\ CountInv' /\ RefsInv'
    BY <1>1, ReaderPushed, SameStorage
<1>3. ArrayInv' /\ ArrayType'
    BY ReaderArrays
<1>4. SyncType' /\ SyncInv'
    <2>1. CASE Enter(r) \/ Exit(r) \/ ExitSignal(r)
        BY <1>0, <2>1, ReaderSyncType, EnterSync, ExitSync, ExitSignalSync
    <2>2. CASE UNCHANGED syncVars
        <3>1. UNCHANGED <<enter, exit, waitingFor, wakeup, section, writer, sectionsLeft>>
            BY <2>2 DEF syncVars
        <3> QED BY <1>0, <3>1, SameSync DEF SyncType
    <2> QED BY <2>1, <2>2 DEF ReaderStep, OpenSection, ReadArray, IncrementRefcount, LeaveSection,
                              RelinquishBlockArray
<1>5. phase = "open"
    <2>1. phase = "open" \/ section[r].at # "out" \/ view[r] # 0
        BY DEF ReaderStep, OpenSection, ReadArray, IncrementRefcount, LeaveSection,
               RelinquishBlockArray, ExitSignal
    <2> QED BY <1>0, <2>1 DEF LockInv
<1>6. LockInv'
    <2>1. UNCHANGED <<pc, lock, phase, writer>> BY <1>1 DEF storage
    <2> QED BY <1>0, <1>5, <2>1 DEF LockInv
<1> QED BY <1>2, <1>3, <1>4, <1>6 DEF StorageInv

(* and so does the synchronizing writer, *)
LEMMA SynchronizeKeeps ==
    ASSUME StorageInv, Synchronize
    PROVE  StorageInv'
<1>0. SyncType /\ SyncInv /\ LockInv BY DEF StorageInv
<1>1. SyncStep /\ UNCHANGED storage /\ UNCHANGED <<arrays, view>>
    BY DEF Synchronize, storageVars, storage
<1>2. Pushed' = Pushed BY <1>1 DEF Pushed, Active
<1>3. ClientType' /\ BlockType' /\ MadeInv' /\ PushedInv' /\ EntryInv' /\ CountInv' /\ RefsInv'
    BY <1>1, <1>2, SameStorage
<1>4. SyncType' /\ writer.at # "none" /\ writer'.at # "none" /\ UNCHANGED section
    BY <1>0, <1>1, SyncStepType
<1>5. SyncInv' BY <1>0, <1>1, SyncStepSync
<1>6. LockInv'
    <2>1. UNCHANGED <<pc, lock, phase, view, section>> BY <1>1, <1>4 DEF storage
    <2> QED BY <1>0, <1>4, <2>1 DEF LockInv
<1> QED BY <1>3, <1>4, <1>5, <1>6, SynchronizeArrays DEF StorageInv

(* and so does every client. *)
LEMMA ClientKeeps ==
    ASSUME StorageInv, NEW c \in Clients, ClientStep(c), fault' = "none"
    PROVE  StorageInv'
<1>1. ClientType' /\ BlockType' /\ LockInv' /\ MadeInv'
    BY ClientTypeStep, BlockTypeStep, LockStep, MadeStep
<1>2. EntryInv' /\ CountInv' /\ RefsInv'
    BY EntryStep, CountStep, RefsStep
<1>3. SyncType' /\ SyncInv' BY ClientSync
<1>4. PushedInv' /\ ArrayType' /\ ArrayInv'
    <2>1. CASE Extends(c) BY <2>1, ExtendsPushed, ExtendsArrays
    <2>2. CASE ~Extends(c)
        <3>1. UNCHANGED <<arrays, view, section, writer, phase>>
            BY <2>2, ClientFrame DEF syncVars
        <3> QED BY <2>2, <3>1, PushedStep, SameArrays
    <2> QED BY <2>1, <2>2
<1> QED BY <1>1, <1>2, <1>3, <1>4 DEF StorageInv

-----------------------------------------------------------------------------
(***************************************************************************)
(* Drop: the clients are idle and the readers gone.                        *)
(***************************************************************************)
Quiet == (\A c \in Clients : pc[c] = "idle") /\ (\A r \in Readers : section[r].at = "out" /\ view[r] = 0)

(* Drop takes the blocks off the two lists. *)
LEMMA UnlistKeeps ==
    ASSUME StorageInv, Quiet, phase # "closed", phase' \in {"deferred", "list", "array"},
           UNCHANGED <<pc, reg, lock, mask, refs, count, made, arrays, view, held, syncVars>>,
           list' \in Lists(Known), deferred' \in Known, dnext' \in [Blocks -> Known]
    PROVE  StorageInv'
<1>1. UNCHANGED <<enter, exit, waitingFor, wakeup, section, writer, sectionsLeft>>
    BY DEF syncVars
<1>2. ClientType' /\ BlockType' /\ MadeInv'
    BY DEF StorageInv, ClientType, BlockType, MadeInv, Relocking
<1>3. SyncType' /\ SyncInv'
    BY <1>1, SameSync DEF StorageInv, SyncType
<1>4. Pushed' = Pushed /\ Known' = Known BY DEF Pushed, Known, Active
<1>5. \A c \in Clients : LocalsKnown(c)'
    BY <1>4 DEF StorageInv, PushedInv, LocalsKnown, Quiet
<1>6. PushedInv'
    BY <1>4, <1>5 DEF StorageInv, PushedInv
<1>7. EntriesExclusive'
    <2>1. \A c \in Clients : InFlight(c)' = InFlight(c) BY DEF InFlight
    <2> QED BY <2>1 DEF StorageInv, EntryInv, EntriesExclusive
<1>8. EntryInv'
    BY <1>7 DEF StorageInv, EntryInv, TakesFree
<1>9. CountInv' /\ RefsInv'
    BY DEF StorageInv, CountInv, Owed, RefsInv, Releasers
<1>10. ArrayType'
    BY DEF StorageInv, ArrayType
<1>11. ArrayInv'
    <2>1. \A a \in 1 .. Active : Base(a)' = Base(a) /\ Holders(a)' = Holders(a)
        BY <1>1 DEF Base, Holders, Active
    <2>2. Active' = Active BY DEF Active
    <2> QED BY <1>1, <2>1, <2>2 DEF StorageInv, ArrayInv
<1>12. LockInv'
    BY <1>1 DEF StorageInv, LockInv, Quiet
<1> QED BY <1>2, <1>3, <1>6, <1>8, <1>9, <1>10, <1>11, <1>12 DEF StorageInv

(* Drop gives up the last array. *)
LEMMA DropBlocksKeeps ==
    ASSUME StorageInv, DropBlocks, fault' = "none", fault = "none"
    PROVE  StorageInv'
<1>1. /\ phase = "array" /\ phase' = "closed" /\ arrays' = Relinquish(arrays, Active)
      /\ mask' = [b \in Blocks |-> {}]
      /\ UNCHANGED <<pc, reg, lock, deferred, dnext, refs, count, list, made, view, held, syncVars>>
    BY DEF DropBlocks, Panic, listVars
<1>2. UNCHANGED <<enter, exit, waitingFor, wakeup, section, writer, sectionsLeft>>
    BY <1>1 DEF syncVars
<1>3. Quiet BY <1>1 DEF StorageInv, LockInv, Quiet
<1>4. ClientType' /\ BlockType' /\ MadeInv'
    BY <1>1 DEF StorageInv, ClientType, BlockType, MadeInv, Relocking
<1>5. SyncType' /\ SyncInv'
    BY <1>2, SameSync DEF StorageInv, SyncType
<1>6. /\ Active \in Nat /\ Active >= 1 /\ Active \in 1 .. Len(arrays) /\ arrays \in Seq(ArrayRecords)
      /\ Active = Len(arrays)
    BY ActiveIs DEF StorageInv, Active
<1>7. /\ arrays' \in Seq(ArrayRecords) /\ Len(arrays') = Len(arrays)
      /\ arrays'[Active].refs = arrays[Active].refs - 1 /\ (arrays'[Active].alive <=> arrays[Active].refs > 1)
      /\ arrays'[Active].blocks = arrays[Active].blocks
      /\ \A d \in 1 .. Len(arrays) : d # Active => arrays'[d] = arrays[d]
    <2>1. OnlyRelinquishes(arrays, Active, arrays') BY <1>1, <1>6, RelinquishFacts
    <2> QED BY <2>1 DEF OnlyRelinquishes
<1>8. Active' = Active BY <1>7 DEF Active
<1>9. Pushed' = Pushed /\ Known' = Known BY <1>7, <1>8 DEF Pushed, Known
<1>10. \A c \in Clients : LocalsKnown(c)'
    BY <1>1, <1>3, <1>9 DEF StorageInv, PushedInv, LocalsKnown, Quiet
<1>11. PushedInv'
    BY <1>1, <1>9, <1>10 DEF StorageInv, PushedInv
<1>12. EntryInv'
    <2>1. EntriesExclusive' BY <1>1 DEF EntriesExclusive
    <2>2. \A c \in Clients : TakesFree(c)' BY <1>1, <1>3 DEF TakesFree, Quiet
    <2> QED BY <1>1, <2>1, <2>2 DEF EntryInv
<1>13. CountInv' /\ RefsInv'
    BY <1>1 DEF StorageInv, CountInv, Owed, RefsInv, Releasers
<1>14. ArrayType'
    <2>1. arrays' # <<>> BY <1>6, <1>7
    <2>2. view' \in [Readers -> 0 .. Len(arrays')] BY <1>1, <1>7 DEF StorageInv, ArrayType
    <2> QED BY <1>7, <2>1, <2>2 DEF ArrayType
<1>15. writer.at = "none"
    BY <1>3 DEF StorageInv, LockInv, Quiet
<1>16. ArrayInv'
    <2>1. ASSUME NEW a \in 1 .. Active
          PROVE  /\ arrays'[a].refs = Base(a)' + Cardinality(Holders(a)')
                 /\ arrays'[a].alive <=> arrays'[a].refs > 0
        <3>1. Holders(a)' = Holders(a) BY <1>1, <1>2 DEF Holders
        <3>2. /\ arrays[a].refs = Base(a) + Cardinality(Holders(a)) /\ arrays[a].refs \in Nat
              /\ arrays[a].alive <=> arrays[a].refs > 0
              /\ Base(a) \in 0 .. 1 /\ Cardinality(Holders(a)) \in Nat
            BY RefsAre
        <3>3. Base(a)' = 0 /\ (Base(a) = IF a = Active THEN 1 ELSE 0)
            BY <1>1, <1>2, <1>8, <1>15 DEF Base
        <3>4. CASE a = Active BY <1>7, <3>1, <3>2, <3>3, <3>4
        <3>5. CASE a # Active
            <4>1. arrays'[a] = arrays[a] BY <1>6, <1>7, <3>5
            <4> QED BY <3>1, <3>2, <3>3, <3>5, <4>1
        <3> QED BY <3>4, <3>5
    <2>2. \A r \in Readers : section'[r].at # "in" BY <1>2, <1>3 DEF Quiet
    <2> QED BY <1>2, <1>8, <1>15, <2>1, <2>2 DEF ArrayInv
<1>17. LockInv'
    BY <1>1, <1>2, <1>3 DEF StorageInv, LockInv, Quiet
<1> QED BY <1>4, <1>5, <1>11, <1>12, <1>13, <1>14, <1>16, <1>17 DEF StorageInv

(* Drop keeps the invariant. *)
LEMMA DropKeeps ==
    ASSUME StorageInv, DropStep, fault' = "none", fault = "none"
    PROVE  StorageInv'
<1>0. /\ list \in Lists(Known) /\ deferred \in Known /\ dnext \in [Blocks -> Known]
      /\ None \in Known /\ Known \subseteq Places /\ Pushed \subseteq Blocks
      /\ \A b \in Known : b # None => b \in Blocks
    BY KnownPlaces DEF StorageInv, PushedInv
<1>1. CASE BeginDrop
    <2>1. Quiet /\ phase = "open" /\ phase' = "deferred"
          /\ UNCHANGED <<pc, reg, lock, mask, refs, count, made, arrays, view, held, syncVars>>
          /\ UNCHANGED <<list, deferred, dnext>>
        BY <1>1 DEF BeginDrop, Quiet, blockVars, listVars
    <2> QED BY <1>0, <2>1, UnlistKeeps
<1>2. CASE DropDeferred
    <2>1. /\ phase = "deferred" /\ phase' \in {"deferred", "list"}
          /\ UNCHANGED <<pc, reg, lock, mask, refs, count, made, arrays, view, held, syncVars, list>>
        BY <1>2 DEF DropDeferred, listVars
    <2>2. Quiet BY <2>1 DEF StorageInv, LockInv, Quiet
    <2>3. deferred' \in Known /\ dnext' \in [Blocks -> Known]
        <3>1. CASE deferred # None
            <4>1. deferred \in Blocks BY <1>0, <3>1
            <4>2. deferred' = dnext[deferred] /\ dnext' = [dnext EXCEPT ![deferred] = None]
                BY <1>2, <3>1 DEF DropDeferred
            <4> QED BY <1>0, <4>1, <4>2
        <3>2. CASE deferred = None
            BY <1>0, <1>2, <3>2 DEF DropDeferred
        <3> QED BY <3>1, <3>2
    <2> QED BY <1>0, <2>1, <2>2, <2>3, UnlistKeeps
<1>3. CASE DropList
    <2>1. /\ phase = "list" /\ phase' \in {"list", "array"}
          /\ UNCHANGED <<pc, reg, lock, mask, refs, count, made, arrays, view, held, syncVars, deferred, dnext>>
        BY <1>3 DEF DropList, blockVars, Panic
    <2>2. Quiet BY <2>1 DEF StorageInv, LockInv, Quiet
    <2>3. list' \in Lists(Known)
        <3>1. list' = list \/ (list.head # None /\ list' = Unlink(list, list.head))
            BY <1>3 DEF DropList, Panic, Relist, listVars
        <3>2. list.head \in Known BY <1>0 DEF Lists
        <3> QED BY <1>0, <3>1, <3>2, ListLinks
    <2> QED BY <1>0, <2>1, <2>2, <2>3, UnlistKeeps
<1>4. CASE DropBlocks BY <1>4, DropBlocksKeeps
<1> QED BY <1>1, <1>2, <1>3, <1>4 DEF DropStep

-----------------------------------------------------------------------------
(***************************************************************************)
(* The invariant.                                                          *)
(***************************************************************************)
LEMMA InitStorage ==
    ASSUME Init
    PROVE  StorageInv
<1>1. /\ pc = [c \in Clients |-> "idle"] /\ reg = [c \in Clients |-> NoReg] /\ lock = Nobody
      /\ mask = [b \in Blocks |-> {}] /\ count = 0 /\ list = EmptyList /\ deferred = None
      /\ dnext = NoLink /\ refs = [b \in Blocks |-> 0] /\ made = 0
      /\ arrays = <<NewArray(<<>>)>> /\ view = [r \in Readers |-> 0] /\ held = {}
      /\ phase = "open"
    BY DEF Init
<1>2. /\ enter = 0 /\ exit = [p \in 0 .. 1 |-> 0] /\ waitingFor = 1 /\ wakeup = 0
      /\ section = [r \in Readers |-> Out] /\ writer = NoWriter
    BY DEF Init, SyncInit
<1>3. MaxBlocks \in Nat BY SizesOK
<1>4. ClientType
    BY <1>1, <1>3 DEF ClientType, PCs, Regs, NoReg, CallKinds, Places, None
<1>5. BlockType
    BY <1>1, <1>3 DEF BlockType, Places
<1>6. NewArray(<<>>) \in ArrayRecords /\ NewArray(<<>>).blocks = <<>>
    BY DEF NewArray, ArrayRecords
<1>7. Len(arrays) = 1 /\ Active = 1 /\ arrays[1] = NewArray(<<>>) /\ arrays \in Seq(ArrayRecords)
    BY <1>1, <1>6 DEF Active
<1>8. ArrayType
    <2>1. arrays # <<>> BY <1>1
    <2>2. view \in [Readers -> 0 .. Len(arrays)] BY <1>1, <1>7
    <2> QED BY <1>7, <2>1, <2>2 DEF ArrayType
<1>9. SyncType
    <2>1. sectionsLeft \in Nat BY SizesOK DEF Init
    <2> QED BY <1>2, <2>1 DEF SyncType, Out, Sections, NoWriter, Stages
<1>10. LockInv
    <2>1. writer.at = "none" BY <1>2 DEF NoWriter
    <2> QED BY <1>1, <2>1, SizesOK DEF LockInv, Locked
<1>11. MadeInv
    <2>1. Relocking = {} BY <1>1 DEF Relocking
    <2> QED BY <1>1, <1>3, <2>1, FS_EmptySet DEF MadeInv
<1>12. Pushed = {} /\ Known = {None}
    BY <1>6, <1>7 DEF Pushed, Known, Range
<1>13. PushedInv
    <2>1. list \in Lists(Known) /\ deferred \in Known /\ dnext \in [Blocks -> Known]
        BY <1>1, <1>12 DEF Lists, EmptyList, NoLink
    <2>2. \A c \in Clients : LocalsKnown(c)
        BY <1>1, <1>12 DEF LocalsKnown, NoReg, Releasing
    <2>3. \A b \in Blocks : mask[b] = {} BY <1>1
    <2> QED BY <1>1, <1>12, <2>1, <2>2, <2>3 DEF PushedInv
<1>14. EntryInv
    <2>1. \A c \in Clients : InFlight(c) = {} BY <1>1 DEF InFlight
    <2>2. EntriesExclusive BY <1>1, <2>1 DEF EntriesExclusive
    <2> QED BY <1>1, <2>2 DEF EntryInv, TakesFree
<1>15. CountInv
    <2>1. Owed = {} BY <1>1 DEF Owed, Releasing
    <2> QED BY <1>1, <2>1, FS_EmptySet DEF CountInv
<1>16. RefsInv
    <2>1. \A b \in Blocks : Releasers(b) = {} BY <1>1 DEF Releasers, Releasing
    <2> QED BY <1>1, <2>1, FS_EmptySet DEF RefsInv
<1>17. ArrayInv
    <2>1. writer.at = "none" BY <1>2 DEF NoWriter
    <2>2. Holders(1) = {} BY <1>1 DEF Holders
    <2>3. Base(1) = 1 BY <1>1, <1>7 DEF Base
    <2>4. arrays[1].refs = 1 /\ arrays[1].alive BY <1>7 DEF NewArray
    <2>5. \A r \in Readers : section[r].at = "out" BY <1>2 DEF Out
    <2>6. Cardinality(Holders(1)) = 0 BY <2>2, FS_EmptySet
    <2>7. 1 .. Active = {1} BY <1>7
    <2> QED BY <2>1, <2>3, <2>4, <2>5, <2>6, <2>7 DEF ArrayInv
<1>18. SyncInv
    <2>1. \A p \in 0 .. 1 : Open(p) = {} BY <1>2 DEF Open, Out
    <2>2. enter % 2 = 0 /\ (enter + 1) % 2 = 1 BY <1>2
    <2>3. CurrentInv BY <1>2, <2>1, <2>2, FS_EmptySet DEF CurrentInv
    <2>4. writer.at = "none" BY <1>2 DEF NoWriter
    <2>5. OldInv BY <2>1, <2>2, <2>4 DEF OldInv, Flipped
    <2>6. StageInv /\ WakeInv BY <2>4 DEF StageInv, WakeInv
    <2> QED BY <2>3, <2>5, <2>6 DEF SyncInv
<1> QED BY <1>4, <1>5, <1>8, <1>9, <1>10, <1>11, <1>13, <1>14, <1>15, <1>16, <1>17, <1>18 DEF StorageInv

(* A step that leaves the state alone keeps the invariant. *)
LEMMA SameKeeps ==
    ASSUME StorageInv, UNCHANGED rest
    PROVE  StorageInv'
<1>1. UNCHANGED storage /\ UNCHANGED <<arrays, view, section, writer, phase>> /\ UNCHANGED syncVars
    BY DEF rest, storage, syncVars
<1>2. UNCHANGED <<enter, exit, waitingFor, wakeup, section, writer, sectionsLeft>>
    BY <1>1 DEF syncVars
<1>3. Pushed' = Pushed BY <1>1 DEF Pushed, Active
<1>4. ClientType' /\ BlockType' /\ MadeInv' /\ PushedInv' /\ EntryInv' /\ CountInv' /\ RefsInv'
    BY <1>1, <1>3, SameStorage
<1>5. SyncType' /\ SyncInv' BY <1>2, SameSync DEF StorageInv, SyncType
<1>6. LockInv' BY <1>1 DEF StorageInv, LockInv, storage
<1> QED BY <1>1, <1>4, <1>5, <1>6, SameArrays DEF StorageInv

(* Every step keeps StorageInv. *)
LEMMA NextKeeps ==
    ASSUME StorageInv, [Next]_vars
    PROVE  StorageInv'
<1>1. CASE UNCHANGED vars
    <2>1. UNCHANGED rest BY <1>1 DEF vars, rest
    <2> QED BY <2>1, SameKeeps
<1>2. CASE Next /\ fault' # "none"
    BY <1>2, FaultStep, SameKeeps
<1>3. CASE Next /\ fault' = "none"
    <2>1. fault = "none" BY <1>3 DEF Next
    <2>2. CASE \E c \in Clients : ClientStep(c) BY <1>3, <2>2, ClientKeeps
    <2>3. CASE \E r \in Readers : ReaderStep(r) BY <2>3, ReaderKeeps
    <2>4. CASE Synchronize BY <2>4, SynchronizeKeeps
    <2>5. CASE DropStep BY <1>3, <2>1, <2>5, DropKeeps
    <2> QED BY <1>3, <2>2, <2>3, <2>4, <2>5 DEF Next
<1> QED BY <1>1, <1>2, <1>3

(* StorageInv is an invariant of the specification. *)
LEMMA AlwaysStorageInv == Spec => []StorageInv
<1>1. Init => StorageInv BY InitStorage
<1>2. StorageInv /\ [Next]_vars => StorageInv' BY NextKeeps
<1> QED BY <1>1, <1>2, PTL DEF Spec

-----------------------------------------------------------------------------
(* StorageInv implies that readers are safe *)
LEMMA InvReaders ==
    ASSUME StorageInv
    PROVE  ReadersOK
<1>0. /\ Active \in Nat /\ view \in [Readers -> 0 .. Active] /\ section \in [Readers -> Sections]
      /\ LockInv /\ \A r \in Readers : ReadersInside(r)
    BY ActiveIs, ArrayInvParts DEF StorageInv, ArrayType, Active, SyncType
<1>1. ASSUME NEW r \in Readers, view[r] # 0 PROVE arrays[view[r]].alive
    <2>1. PICK a \in 1 .. Active : a = view[r] BY <1>0, <1>1
    <2>2. /\ arrays[a].refs = Base(a) + Cardinality(Holders(a)) /\ arrays[a].refs \in Nat
          /\ arrays[a].alive <=> arrays[a].refs > 0
          /\ Base(a) \in 0 .. 1 /\ Cardinality(Holders(a)) \in Nat
        BY RefsAre
    <2>3. CASE section[r].at = "in"
        <3>1. phase = "open" BY <1>0, <2>3 DEF LockInv
        <3>2. a = Active \/ (a + 1 = Active /\ writer.at # "none")
            BY <1>0, <1>1, <2>1, <2>3 DEF ReadersInside
        <3>3. Base(a) = 1 BY <3>1, <3>2 DEF Base
        <3> QED BY <2>1, <2>2, <3>3
    <2>4. CASE section[r].at # "in"
        <3>1. r \in Holders(a) BY <2>1, <2>4 DEF Holders
        <3>2. Cardinality(Holders(a)) # 0 BY <3>1, HoldersFinite, FiniteReaders
        <3> QED BY <2>1, <2>2, <3>2
    <2> QED BY <2>3, <2>4
<1>2. \A b \in Blocks : mask[b] # {} =>
        \E i \in DOMAIN arrays[Active].blocks : arrays[Active].blocks[i] = b
    BY DEF StorageInv, PushedInv, Pushed, Range
<1>3. WakeupComing
    <2>1. wakeup \in Nat BY DEF StorageInv, SyncType
    <2> QED BY <2>1 DEF StorageInv, SyncInv, WakeInv, WakeupComing, Open
<1> QED BY <1>1, <1>2, <1>3 DEF ReadersOK, ArrayAlive

(* and that the entries are. *)
LEMMA InvEntries ==
    ASSUME StorageInv
    PROVE  EntriesOK
<1>0. made \in Places /\ made \in Nat /\ MaxBlocks \in Nat /\ made <= MaxBlocks
    BY SizesOK DEF StorageInv, BlockType, Places
<1>1. Known \subseteq 0 .. made /\ Known \subseteq 0 .. MaxBlocks
    BY <1>0 DEF StorageInv, PushedInv, Known, None
<1>2. pc \in [Clients -> PCs] /\ lock \in Clients \cup {Nobody} /\ mask \in [Blocks -> SUBSET Entries]
    BY DEF StorageInv, ClientType, BlockType
<1>3. ASSUME NEW c \in Clients
      PROVE  /\ reg[c].b \in 0 .. made /\ reg[c].h \in 0 .. made /\ reg[c].t \in 0 .. made
             /\ reg[c].set \subseteq Entries
    <2>1. LocalsKnown(c) BY DEF StorageInv, PushedInv
    <2>2. reg[c].set \subseteq Entries BY Locals
    <2>3. reg[c].h \in 0 .. made /\ reg[c].t \in 0 .. made BY <1>1, <2>1 DEF LocalsKnown
    <2>4. reg[c].b \in Known \/ reg[c].b \in 1 .. made BY <2>1 DEF LocalsKnown
    <2>5. 1 .. made \subseteq 0 .. made BY <1>0
    <2>6. reg[c].b \in 0 .. made BY <1>1, <2>4, <2>5
    <2> QED BY <2>2, <2>3, <2>6
<1>4. count \in Nat
    <2>1. Cardinality(held) \in Nat BY HeldFinite
    <2>2. Cardinality(Owed) \in Nat
        <3>1. IsFiniteSet(Clients \X Entries) BY SizesOK, FS_Product
        <3>2. Owed \subseteq Clients \X Entries BY DEF Owed
        <3> QED BY <3>1, <3>2, FS_Subset, FS_CardinalityType
    <2> QED BY <2>1, <2>2 DEF StorageInv, CountInv
<1>5. /\ {list.head, list.tail, deferred} \subseteq 0 .. made
      /\ list.prev \in [Blocks -> 0 .. MaxBlocks] /\ list.next \in [Blocks -> 0 .. MaxBlocks]
      /\ dnext \in [Blocks -> 0 .. MaxBlocks]
    BY <1>1 DEF StorageInv, PushedInv, Lists
<1>6. refs \in [Blocks -> 0 .. Cardinality(Clients)]
    <2>1. ASSUME NEW b \in Blocks PROVE refs[b] \in 0 .. Cardinality(Clients)
        <3>1. Releasers(b) \in SUBSET Clients BY DEF Releasers
        <3>2. Cardinality(Releasers(b)) \in Nat /\ Cardinality(Releasers(b)) <= Cardinality(Clients)
            BY <3>1, FiniteClients
        <3>3. Cardinality(Clients) \in Nat BY SizesOK, FS_CardinalityType
        <3> QED BY <3>2, <3>3 DEF StorageInv, RefsInv
    <2> QED BY <2>1 DEF StorageInv, BlockType
<1>7. ASSUME NEW a \in DOMAIN arrays PROVE arrays[a].refs \in 0 .. 1 + Cardinality(Readers)
    <2>1. a \in 1 .. Active
        BY ActiveIs DEF StorageInv, Active
    <2>2. /\ arrays[a].refs = Base(a) + Cardinality(Holders(a)) /\ arrays[a].refs \in Nat
          /\ Base(a) \in 0 .. 1 /\ Cardinality(Holders(a)) \in Nat
        BY <2>1, RefsAre
    <2>3. Cardinality(Holders(a)) <= Cardinality(Readers) BY HoldersFinite, FiniteReaders
    <2>4. Cardinality(Readers) \in Nat BY SizesOK, FS_CardinalityType
    <2> QED BY <2>2, <2>3, <2>4
<1>8. view \in [Readers -> 0 .. Active] /\ enter \in Nat /\ exit \in [0 .. 1 -> Nat]
      /\ waitingFor \in Nat /\ wakeup \in Nat
    BY DEF StorageInv, ArrayType, Active, SyncType
<1>9. TypeOK
    BY <1>2, <1>3, <1>4, <1>5, <1>6, <1>7, <1>8 DEF TypeOK, PCs
<1>10. EntriesExclusive BY DEF StorageInv, EntryInv
<1>11. CountAgrees
    <2> SUFFICES ASSUME \A c \in Clients : pc[c] = "idle" PROVE count = Cardinality(held)
        BY DEF CountAgrees
    <2>1. Owed = {} BY DEF Owed, Releasing
    <2>2. Cardinality(held) \in Nat BY HeldFinite
    <2> QED BY <2>1, <2>2, FS_EmptySet DEF StorageInv, CountInv
<1> QED BY <1>9, <1>10, <1>11 DEF EntriesOK

(* Whatever allocates, releases, reads and drops, and however many do: an   *)
(* entry of the storage is with at most one client, the bits set are the    *)
(* entries handed out or in flight, and allocation_count is their number    *)
(* when no call is under way (allocate, allocaten, release_entries).        *)
THEOREM EntriesSafe == Spec => []EntriesOK
<1>1. StorageInv => EntriesOK BY InvEntries
<1> QED BY <1>1, AlwaysStorageInv, PTL

(* A reader's array is not destroyed under it, the current array has every  *)
(* block in use, and a writer that sleeps in synchronize will be signalled  *)
(* by a section still open or leaving (replace_active_array, synchronize).  *)
THEOREM ReadersSafe == Spec => []ReadersOK
<1>1. StorageInv => ReadersOK BY InvReaders
<1> QED BY <1>1, AlwaysStorageInv, PTL

-----------------------------------------------------------------------------
(***************************************************************************)
(* The deferred list.  A block is listed from the exchange that makes it   *)
(* the head to the exchange that takes it off; before and after, one       *)
(* client is busy with it.  As long as no block is claimed twice, every    *)
(* listed block but the head is linked from one other, so a head is taken  *)
(* off together with every link to it.                                     *)
(***************************************************************************)
Busy(c, b) ==
    \/ pc[c] \in {"link", "push"} /\ reg[c].b = b
    \/ pc[c] = "clear" /\ reg[c].h = b
Listed == {b \in Blocks : dnext[b] # None /\ \A c \in Clients : ~Busy(c, b)}

Chained ==
    /\ deferred \in Listed \cup {None}
    /\ \A b \in Listed : dnext[b] \in Listed
    /\ \A b \in Listed : dnext[b] = deferred => b = deferred
    /\ \A b, d \in Listed : dnext[b] = dnext[d] => b = d \/ dnext[b] = b \/ dnext[d] = d
    /\ Listed \subseteq DeferredBlocks
Defers(c) ==
    /\ \A b \in Blocks : Busy(c, b) => dnext[b] # None /\ \A d \in Clients \ {c} : ~Busy(d, b)
    /\ pc[c] = "push" => dnext[reg[c].b] = IF reg[c].h = None THEN reg[c].b ELSE reg[c].h
    /\ pc[c] \in {"next", "pop"} => reg[c].h \in Listed
    /\ pc[c] = "pop" => reg[c].t = IF dnext[reg[c].h] = reg[c].h THEN None ELSE dnext[reg[c].h]
DeferredInv == phase = "open" /\ ~doubled => Chained /\ \A c \in Clients : Defers(c)

(* A step makes no block busy for the other clients. *)
LEMMA BusyOthers ==
    ASSUME StorageInv, NEW c \in Clients, ClientStep(c), NEW d \in Clients, d # c, NEW b
    PROVE  Busy(d, b)' <=> Busy(d, b)
BY Others DEF Busy

(* When a block is busy for the client that moves. *)
LEMMA BusyHere ==
    ASSUME NEW c \in Clients, NEW b
    PROVE  /\ pc[c] \in {"link", "push"} => (Busy(c, b) <=> reg[c].b = b)
           /\ pc[c] = "clear" => (Busy(c, b) <=> reg[c].h = b)
           /\ pc[c] \notin {"link", "push", "clear"} => ~Busy(c, b)
           /\ pc'[c] \in {"link", "push"} => (Busy(c, b)' <=> reg'[c].b = b)
           /\ pc'[c] = "clear" => (Busy(c, b)' <=> reg'[c].h = b)
           /\ pc'[c] \notin {"link", "push", "clear"} => ~Busy(c, b)'
BY DEF Busy

(* What becomes of the list when one client moves. *)
LEMMA ListedStep ==
    ASSUME StorageInv, NEW c \in Clients, ClientStep(c), NEW b \in Blocks
    PROVE  /\ b \in Listed <=> /\ dnext[b] # None /\ ~Busy(c, b)
                               /\ \A d \in Clients \ {c} : ~Busy(d, b)
           /\ b \in Listed' <=> /\ dnext'[b] # None /\ ~Busy(c, b)'
                                /\ \A d \in Clients \ {c} : ~Busy(d, b)
<1>1. \A d \in Clients \ {c} : Busy(d, b)' <=> Busy(d, b) BY BusyOthers
<1>2. b \in Listed' <=> dnext'[b] # None /\ \A d \in Clients : ~Busy(d, b)'
    BY DEF Listed
<1> QED BY <1>1, <1>2 DEF Listed

(* Every set that has the head and follows the links has all that is listed. *)
LEMMA ListedLeast ==
    ASSUME Chained, NEW S, deferred \in S \cup {None}, \A d \in S \cap Listed : dnext[d] \in S \cup {None}
    PROVE  Listed \subseteq S
<1>1. S \cap Listed \in SUBSET Blocks BY DEF Listed
<1>2. deferred \in (S \cap Listed) \cup {None} BY DEF Chained
<1>3. \A d \in S \cap Listed : dnext[d] \in (S \cap Listed) \cup {None} BY DEF Chained
<1>4. \A b \in DeferredBlocks : b \in S \cap Listed
    BY <1>1, <1>2, <1>3 DEF DeferredBlocks
<1> QED BY <1>4 DEF Chained

(* How to show that what is listed is on the list after a step. *)
LEMMA ReachedNext ==
    ASSUME \A S \in SUBSET Blocks :
             (deferred' \in S \cup {None} /\ \A d \in S : dnext'[d] \in S \cup {None}) => Listed' \subseteq S
    PROVE  Listed' \subseteq DeferredBlocks'
<1>1. Listed' \subseteq Blocks BY DEF Listed
<1>2. DeferredBlocks' =
        {b \in Blocks : \A S \in SUBSET Blocks :
            (deferred' \in S \cup {None} /\ \A d \in S : dnext'[d] \in S \cup {None}) => b \in S}
    BY DEF DeferredBlocks
<1> QED BY <1>1, <1>2

(* Who leaves the links alone keeps the deferred list chained. *)
LEMMA SameChained ==
    ASSUME Chained, Listed' = Listed, UNCHANGED deferred, \A b \in Listed : dnext'[b] = dnext[b]
    PROVE  Chained'
<1>1. Chained' <=>
        /\ deferred' \in Listed' \cup {None}
        /\ \A b \in Listed' : dnext'[b] \in Listed'
        /\ \A b \in Listed' : dnext'[b] = deferred' => b = deferred'
        /\ \A b, d \in Listed' : dnext'[b] = dnext'[d] => b = d \/ dnext'[b] = b \/ dnext'[d] = d
        /\ Listed' \subseteq DeferredBlocks'
    BY DEF Chained
<1>2. Listed' \subseteq DeferredBlocks'
    <2>1. ASSUME NEW S \in SUBSET Blocks, deferred' \in S \cup {None},
                 \A d \in S : dnext'[d] \in S \cup {None}
          PROVE  Listed' \subseteq S
        <3>1. \A d \in S \cap Listed : dnext[d] \in S \cup {None} BY <2>1
        <3>2. deferred \in S \cup {None} BY <2>1
        <3> QED BY <3>1, <3>2, ListedLeast
    <2> QED BY <2>1, ReachedNext
<1> QED BY <1>1, <1>2 DEF Chained

(* A client keeps what it relies on when another one moves. *)
LEMMA OthersDefer ==
    ASSUME StorageInv, NEW c \in Clients, ClientStep(c), NEW d \in Clients, d # c, Defers(d),
           \A b \in Blocks : Busy(d, b) => dnext'[b] = dnext[b] /\ ~Busy(c, b)',
           pc[d] \in {"next", "pop"} => reg[d].h \in Listed' /\ dnext'[reg[d].h] = dnext[reg[d].h]
    PROVE  Defers(d)'
<1>1. pc'[d] = pc[d] /\ reg'[d] = reg[d] BY Others
<1>2. ASSUME NEW b \in Blocks, Busy(d, b)'
      PROVE  dnext'[b] # None /\ \A e \in Clients \ {d} : ~Busy(e, b)'
    <2>1. Busy(d, b) BY <1>2, BusyOthers
    <2>2. ASSUME NEW e \in Clients, e # d PROVE ~Busy(e, b)'
        <3>1. CASE e = c BY <2>1, <3>1
        <3>2. CASE e # c BY <2>1, <2>2, <3>2, BusyOthers DEF Defers
        <3> QED BY <3>1, <3>2
    <2> QED BY <2>1, <2>2 DEF Defers
<1>3. pc[d] = "push" => dnext'[reg[d].b] = dnext[reg[d].b]
    <2> SUFFICES ASSUME pc[d] = "push" PROVE dnext'[reg[d].b] = dnext[reg[d].b]
        OBVIOUS
    <2>1. reg[d].b \in Blocks BY Locals DEF Releasing
    <2>2. Busy(d, reg[d].b) BY DEF Busy
    <2> QED BY <2>1, <2>2
<1> QED BY <1>1, <1>2, <1>3 DEF Defers

(* One client at a time is inside the mutex. *)
LEMMA Sole ==
    ASSUME StorageInv, NEW c \in Clients, pc[c] \in Locked, NEW d \in Clients, d # c
    PROVE  pc[d] \notin Locked
BY DEF StorageInv, LockInv

(* Most steps have nothing to do with the deferred list. *)
LEMMA AwayDeferred ==
    ASSUME StorageInv, NEW c \in Clients, ClientStep(c), DeferredInv, phase = "open", ~doubled,
           UNCHANGED <<dnext, deferred>>,
           pc[c] \notin {"link", "push", "clear"}, pc'[c] \notin {"link", "push", "clear", "next", "pop"}
    PROVE  Chained' /\ \A d \in Clients : Defers(d)'
<1>0. Chained /\ \A d \in Clients : Defers(d) BY DEF DeferredInv
<1>1. \A b \in Blocks : ~Busy(c, b) /\ ~Busy(c, b)' BY BusyHere
<1>2. Listed' = Listed
    <2>1. \A b \in Blocks : b \in Listed' <=> b \in Listed BY <1>1, ListedStep
    <2>2. Listed \subseteq Blocks /\ Listed' \subseteq Blocks BY DEF Listed
    <2> QED BY <2>1, <2>2
<1>3. Chained' BY <1>0, <1>2, SameChained
<1>4. ASSUME NEW d \in Clients PROVE Defers(d)'
    <2>1. CASE d = c BY <1>1, <2>1 DEF Defers
    <2>2. CASE d # c
        <3>1. pc[d] \in {"next", "pop"} => reg[d].h \in Listed BY <1>0 DEF Defers
        <3> QED BY <1>0, <1>1, <1>2, <2>2, <3>1, OthersDefer
    <2> QED BY <2>1, <2>2
<1> QED BY <1>3, <1>4

(* A client that reads the deferred list learns its head and the next. *)
LEMMA ReadDeferred ==
    ASSUME StorageInv, NEW c \in Clients, ClientStep(c), DeferredInv, phase = "open", ~doubled,
           \/ BlockForAllocation(c) /\ pc'[c] = "next"
           \/ ReadTail(c)
           \/ PopDeferred(c) /\ deferred # reg[c].h
    PROVE  Chained' /\ \A d \in Clients : Defers(d)'
<1>0. Chained /\ \A d \in Clients : Defers(d) BY DEF DeferredInv
<1>a. pc \in [Clients -> PCs] /\ reg \in [Clients -> Regs] /\ reg[c] \in Regs
    BY DEF StorageInv, ClientType
<1>1. /\ UNCHANGED <<dnext, deferred>> /\ pc[c] \in {"find", "next", "pop"} /\ pc'[c] \in {"next", "pop"}
      /\ pc'[c] = "next" => reg'[c].h = deferred /\ deferred # None
      /\ pc'[c] = "pop" => /\ pc[c] = "next" /\ reg'[c].h = reg[c].h
                           /\ reg'[c].t = IF dnext[reg[c].h] = reg[c].h THEN None ELSE dnext[reg[c].h]
    <2>1. CASE BlockForAllocation(c) /\ pc'[c] = "next"
        BY <1>a, <2>1 DEF BlockForAllocation, Goto, Set, blockVars, Regs
    <2>2. CASE ReadTail(c)
        BY <1>a, <2>2 DEF ReadTail, Goto, Set, blockVars, Regs
    <2>3. CASE PopDeferred(c) /\ deferred # reg[c].h
        <3>1. deferred # None
            BY <2>3 DEF StorageInv, PushedInv, LocalsKnown, PopDeferred
        <3> QED BY <1>a, <2>3, <3>1 DEF PopDeferred, Goto, Set, Regs
    <2> QED BY <2>1, <2>2, <2>3
<1>2. \A b \in Blocks : ~Busy(c, b) /\ ~Busy(c, b)' BY <1>1, BusyHere
<1>3. Listed' = Listed
    <2>1. \A b \in Blocks : b \in Listed' <=> b \in Listed BY <1>1, <1>2, ListedStep
    <2>2. Listed \subseteq Blocks /\ Listed' \subseteq Blocks BY DEF Listed
    <2> QED BY <2>1, <2>2
<1>4. Chained' BY <1>0, <1>1, <1>3, SameChained
<1>5. reg'[c].h \in Listed
    <2>1. CASE pc'[c] = "next" BY <1>0, <1>1, <2>1 DEF Chained
    <2>2. CASE pc'[c] = "pop" BY <1>0, <1>1, <2>2 DEF Defers
    <2> QED BY <1>1, <2>1, <2>2
<1>6. ASSUME NEW d \in Clients PROVE Defers(d)'
    <2>1. CASE d = c
        BY <1>1, <1>2, <1>3, <1>5, <2>1 DEF Defers
    <2>2. CASE d # c
        <3>1. pc[d] \in {"next", "pop"} => reg[d].h \in Listed BY <1>0 DEF Defers
        <3> QED BY <1>0, <1>1, <1>2, <1>3, <2>2, <3>1, OthersDefer
    <2> QED BY <2>1, <2>2
<1> QED BY <1>4, <1>6

(* The compare_exchange that takes the head of the deferred list. *)
LEMMA TakeDeferred ==
    ASSUME StorageInv, NEW c \in Clients, ClientStep(c), DeferredInv, phase = "open", ~doubled,
           PopDeferred(c), deferred = reg[c].h
    PROVE  Chained' /\ \A d \in Clients : Defers(d)'
<1>0. Chained /\ \A d \in Clients : Defers(d) BY DEF DeferredInv
<1>a. pc \in [Clients -> PCs] /\ reg \in [Clients -> Regs] BY DEF StorageInv, ClientType
<1>1. PICK h \in Blocks : h = reg[c].h BY Locals DEF PopDeferred
<1>2. PICK t : t = reg[c].t OBVIOUS
<1>3. /\ UNCHANGED <<dnext, reg>> /\ pc[c] = "pop" /\ pc'[c] = "clear" /\ deferred' = t
      /\ deferred = h
    BY <1>a, <1>1, <1>2 DEF PopDeferred, Goto
<1>4. h \in Listed /\ t = IF dnext[h] = h THEN None ELSE dnext[h]
    BY <1>0, <1>1, <1>2, <1>3 DEF Defers
<1>5. \A b \in Blocks : ~Busy(c, b) /\ (Busy(c, b)' <=> b = h) BY <1>1, <1>3, BusyHere
<1>6. Listed' = Listed \ {h}
    <2>1. \A b \in Blocks : b \in Listed' <=> b \in Listed /\ b # h BY <1>3, <1>5, ListedStep
    <2>2. Listed \subseteq Blocks /\ Listed' \subseteq Blocks BY DEF Listed
    <2> QED BY <2>1, <2>2
<1>7. ASSUME NEW b \in Listed' PROVE dnext[b] # h /\ dnext[b] # None
    BY <1>0, <1>3, <1>6 DEF Chained, Listed
<1>8. Chained'
    <2>1. deferred' \in Listed' \cup {None}
        BY <1>0, <1>3, <1>4, <1>6 DEF Chained
    <2>2. \A b \in Listed' : dnext'[b] \in Listed'
        BY <1>0, <1>3, <1>6, <1>7 DEF Chained
    <2>3. ASSUME NEW b \in Listed', dnext'[b] = deferred' PROVE b = deferred'
        BY <1>0, <1>3, <1>4, <1>6, <1>7, <2>3 DEF Chained
    <2>4. ASSUME NEW b \in Listed', NEW d \in Listed', dnext'[b] = dnext'[d]
          PROVE  b = d \/ dnext'[b] = b \/ dnext'[d] = d
        BY <1>0, <1>3, <1>6, <2>4 DEF Chained
    <2>5. ASSUME NEW S \in SUBSET Blocks, deferred' \in S \cup {None},
                 \A d \in S : dnext'[d] \in S \cup {None}
          PROVE  Listed' \subseteq S
        <3>1. PICK T : T = S \cup {h} OBVIOUS
        <3>2. deferred \in T \cup {None} BY <1>3, <3>1
        <3>3. dnext[h] \in T \cup {None} BY <1>3, <1>4, <2>5, <3>1
        <3>4. \A d \in T \cap Listed : dnext[d] \in T \cup {None} BY <1>3, <2>5, <3>1, <3>3
        <3>5. Listed \subseteq T BY <1>0, <3>2, <3>4, ListedLeast
        <3> QED BY <1>6, <3>1, <3>5
    <2>6. Listed' \subseteq DeferredBlocks' BY <2>5, ReachedNext
    <2> QED BY <2>1, <2>2, <2>3, <2>4, <2>6 DEF Chained
<1>9. ASSUME NEW d \in Clients PROVE Defers(d)'
    <2>1. CASE d = c
        <3>1. ASSUME NEW b \in Blocks, Busy(c, b)'
              PROVE  dnext'[b] # None /\ \A e \in Clients \ {c} : ~Busy(e, b)'
            BY <1>3, <1>4, <1>5, <3>1, BusyOthers DEF Listed
        <3> QED BY <1>3, <2>1, <3>1 DEF Defers
    <2>2. CASE d # c
        <3>1. pc[d] \notin {"next", "pop"} BY <1>3, <2>2, Sole DEF Locked
        <3>2. \A b \in Blocks : Busy(d, b) => b # h BY <1>4 DEF Listed
        <3> QED BY <1>0, <1>3, <1>5, <2>2, <3>1, <3>2, OthersDefer
    <2> QED BY <2>1, <2>2
<1> QED BY <1>8, <1>9
(* The steps that write a link write that of a block which is not listed. *)
LEMMA WriteDeferred ==
    ASSUME StorageInv, NEW c \in Clients, ClientStep(c), DeferredInv, phase = "open", ~doubled', ~doubled,
           ClearNext(c) \/ StoreClaim(c) \/ LinkHead(c) \/ (PushDeferred(c) /\ deferred # reg[c].h)
    PROVE  Chained' /\ \A d \in Clients : Defers(d)'
<1>0. Chained /\ \A d \in Clients : Defers(d) BY DEF DeferredInv
<1>a. /\ pc \in [Clients -> PCs] /\ reg \in [Clients -> Regs] /\ reg[c] \in Regs
      /\ dnext \in [Blocks -> Known] /\ None \notin Blocks
    BY PlacesAre DEF StorageInv, ClientType, PushedInv
<1>1. UNCHANGED deferred BY DEF ClearNext, StoreClaim, LinkHead, PushDeferred
<1>2. PICK x \in Blocks :
        /\ \A b \in Blocks : b # x => dnext'[b] = dnext[b] /\ ~Busy(c, b) /\ ~Busy(c, b)'
        /\ x \notin Listed /\ x \notin Listed'
        /\ \A d \in Clients \ {c} : ~Busy(d, x)
        /\ Busy(c, x)' => dnext'[x] # None
        /\ pc'[c] \in {"update", "link", "push"}
        /\ pc'[c] = "push" => reg'[c].b = x /\ dnext'[x] = IF reg'[c].h = None THEN x ELSE reg'[c].h
    <2>1. CASE ClearNext(c)
        <3>1. PICK x \in Blocks : x = reg[c].h BY <2>1, Locals DEF ClearNext
        <3>2. /\ pc[c] = "clear" /\ pc'[c] = "update" /\ dnext' = [dnext EXCEPT ![x] = None]
            BY <1>a, <2>1, <3>1 DEF ClearNext, Goto
        <3>3. \A b \in Blocks : (Busy(c, b) <=> b = x) /\ ~Busy(c, b)' BY <3>1, <3>2, BusyHere
        <3>4. dnext'[x] = None /\ \A b \in Blocks : b # x => dnext'[b] = dnext[b] BY <1>a, <3>2
        <3>5. x \notin Listed /\ x \notin Listed' BY <3>3, <3>4, ListedStep
        <3>6. \A d \in Clients \ {c} : ~Busy(d, x) BY <1>0, <3>3 DEF Defers
        <3> QED BY <3>2, <3>3, <3>4, <3>5, <3>6
    <2>2. CASE StoreClaim(c)
        <3>1. PICK x \in Blocks : x = reg[c].b BY <2>2, Locals DEF StoreClaim, Releasing
        <3>2. /\ pc[c] = "claimed" /\ pc'[c] = "link" /\ dnext' = [dnext EXCEPT ![x] = x]
              /\ reg'[c].b = x /\ dnext[x] = None
            BY <1>a, <2>2, <3>1 DEF StoreClaim, Goto, Set, Regs
        <3>3. \A b \in Blocks : ~Busy(c, b) /\ (Busy(c, b)' <=> b = x) BY <3>2, BusyHere
        <3>4. dnext'[x] = x /\ \A b \in Blocks : b # x => dnext'[b] = dnext[b] BY <1>a, <3>2
        <3>5. x \notin Listed /\ x \notin Listed' BY <3>2, <3>3, ListedStep
        <3>6. \A d \in Clients \ {c} : ~Busy(d, x) BY <1>0, <3>2 DEF Defers
        <3>7. x # None BY <1>a
        <3> QED BY <3>2, <3>3, <3>4, <3>5, <3>6, <3>7
    <2>3. CASE LinkHead(c)
        <3>1. PICK x \in Blocks : x = reg[c].b BY <2>3, Locals DEF LinkHead, Releasing
        <3>2. PICK y : y = IF reg[c].h = None THEN x ELSE reg[c].h OBVIOUS
        <3>3. /\ pc[c] = "link" /\ pc'[c] = "push" /\ dnext' = [dnext EXCEPT ![x] = y]
              /\ UNCHANGED reg /\ reg'[c].b = x
            BY <1>a, <2>3, <3>1, <3>2 DEF LinkHead, Goto
        <3>4. \A b \in Blocks : (Busy(c, b) <=> b = x) /\ (Busy(c, b)' <=> b = x)
            BY <3>1, <3>3, BusyHere
        <3>5. dnext'[x] = y /\ \A b \in Blocks : b # x => dnext'[b] = dnext[b] BY <1>a, <3>3
        <3>6. x \notin Listed /\ x \notin Listed' BY <3>4, ListedStep
        <3>7. \A d \in Clients \ {c} : ~Busy(d, x) BY <1>0, <3>4 DEF Defers
        <3>8. y # None BY <1>a, <3>2
        <3> QED BY <3>2, <3>3, <3>4, <3>5, <3>6, <3>7, <3>8
    <2>4. CASE PushDeferred(c) /\ deferred # reg[c].h
        <3>1. PICK x \in Blocks : x = reg[c].b BY <2>4, Locals DEF PushDeferred, Releasing
        <3>2. /\ pc[c] = "push" /\ pc'[c] = "link" /\ UNCHANGED dnext /\ reg'[c].b = x
            BY <1>a, <2>4, <3>1 DEF PushDeferred, Goto, Set, Regs
        <3>3. \A b \in Blocks : (Busy(c, b) <=> b = x) /\ (Busy(c, b)' <=> b = x)
            BY <3>1, <3>2, BusyHere
        <3>4. x \notin Listed /\ x \notin Listed' BY <3>3, ListedStep
        <3>5. dnext[x] # None /\ \A d \in Clients \ {c} : ~Busy(d, x) BY <1>0, <3>3 DEF Defers
        <3> QED BY <3>2, <3>3, <3>4, <3>5
    <2> QED BY <2>1, <2>2, <2>3, <2>4
<1>3. Listed' = Listed
    <2>1. \A b \in Blocks : b \in Listed' <=> b \in Listed BY <1>2, ListedStep
    <2>2. Listed \subseteq Blocks /\ Listed' \subseteq Blocks BY DEF Listed
    <2> QED BY <2>1, <2>2
<1>4. \A b \in Listed : dnext'[b] = dnext[b] BY <1>2 DEF Listed
<1>5. Chained' BY <1>0, <1>1, <1>3, <1>4, SameChained
<1>6. ASSUME NEW d \in Clients PROVE Defers(d)'
    <2>1. CASE d = c
        <3>1. ASSUME NEW b \in Blocks, Busy(c, b)'
              PROVE  dnext'[b] # None /\ \A e \in Clients \ {c} : ~Busy(e, b)'
            <4>1. b = x BY <1>2, <3>1
            <4> QED BY <1>2, <3>1, <4>1, BusyOthers
        <3> QED BY <1>2, <2>1, <3>1 DEF Defers
    <2>2. CASE d # c
        <3>1. pc[d] \in {"next", "pop"} => reg[d].h \in Listed BY <1>0 DEF Defers
        <3>2. \A b \in Blocks : Busy(d, b) => b # x BY <1>2, <2>2
        <3> QED BY <1>0, <1>2, <1>3, <1>4, <2>2, <3>1, <3>2, OthersDefer
    <2> QED BY <2>1, <2>2
<1> QED BY <1>5, <1>6

(* The compare_exchange that pushes a block on the deferred list. *)
LEMMA AddDeferred ==
    ASSUME StorageInv, NEW c \in Clients, ClientStep(c), DeferredInv, phase = "open", ~doubled,
           PushDeferred(c), deferred = reg[c].h
    PROVE  Chained' /\ \A d \in Clients : Defers(d)'
<1>0. Chained /\ \A d \in Clients : Defers(d) BY DEF DeferredInv
<1>a. pc \in [Clients -> PCs] /\ reg \in [Clients -> Regs] /\ None \notin Blocks
    BY PlacesAre DEF StorageInv, ClientType
<1>1. PICK x \in Blocks : x = reg[c].b BY Locals DEF PushDeferred, Releasing
<1>2. /\ UNCHANGED dnext /\ pc[c] = "push" /\ pc'[c] = "idle" /\ deferred' = x
    BY <1>a, <1>1 DEF PushDeferred, Released, Idle, Goto
<1>3. dnext[x] = IF deferred = None THEN x ELSE deferred
    BY <1>0, <1>1, <1>2 DEF Defers
<1>4. \A b \in Blocks : (Busy(c, b) <=> b = x) /\ ~Busy(c, b)' BY <1>1, <1>2, BusyHere
<1>5. dnext[x] # None /\ \A d \in Clients \ {c} : ~Busy(d, x) BY <1>0, <1>4 DEF Defers
<1>6. Listed' = Listed \cup {x} /\ x \notin Listed
    <2>1. \A b \in Blocks : b \in Listed' <=> b \in Listed \/ b = x BY <1>2, <1>4, <1>5, ListedStep
    <2>2. Listed \subseteq Blocks /\ Listed' \subseteq Blocks BY DEF Listed
    <2>3. x \notin Listed BY <1>4, ListedStep
    <2> QED BY <2>1, <2>2, <2>3
<1>7. ASSUME NEW b \in Listed PROVE dnext[b] # x /\ dnext[b] # None /\ (dnext[b] = deferred => dnext[b] = b)
    BY <1>0, <1>6 DEF Chained, Listed
<1>8. Chained'
    <2>1. deferred' \in Listed' \cup {None} BY <1>2, <1>6
    <2>2. \A b \in Listed' : dnext'[b] \in Listed'
        BY <1>0, <1>2, <1>3, <1>6 DEF Chained
    <2>3. \A b \in Listed' : dnext'[b] = deferred' => b = deferred'
        BY <1>2, <1>6, <1>7
    <2>4. ASSUME NEW b \in Listed', NEW d \in Listed', dnext'[b] = dnext'[d]
          PROVE  b = d \/ dnext'[b] = b \/ dnext'[d] = d
        <3>1. CASE b \in Listed /\ d \in Listed BY <1>0, <1>2, <2>4, <3>1 DEF Chained
        <3>2. CASE b \in Listed /\ d = x BY <1>2, <1>3, <1>7, <2>4, <3>2
        <3>3. CASE b = x /\ d \in Listed BY <1>2, <1>3, <1>7, <2>4, <3>3
        <3> QED BY <1>6, <3>1, <3>2, <3>3
    <2>5. ASSUME NEW S \in SUBSET Blocks, deferred' \in S \cup {None},
                 \A d \in S : dnext'[d] \in S \cup {None}
          PROVE  Listed' \subseteq S
        <3>1. x \in S BY <1>a, <1>2, <2>5
        <3>2. dnext[x] \in S \cup {None} BY <1>2, <2>5, <3>1
        <3>3. deferred \in S \cup {None} BY <1>3, <3>2
        <3>4. \A d \in S \cap Listed : dnext[d] \in S \cup {None} BY <1>2, <2>5
        <3>5. Listed \subseteq S BY <1>0, <3>3, <3>4, ListedLeast
        <3> QED BY <1>6, <3>1, <3>5
    <2>6. Listed' \subseteq DeferredBlocks' BY <2>5, ReachedNext
    <2> QED BY <2>1, <2>2, <2>3, <2>4, <2>6 DEF Chained
<1>9. ASSUME NEW d \in Clients PROVE Defers(d)'
    <2>1. CASE d = c BY <1>2, <1>4, <2>1 DEF Defers
    <2>2. CASE d # c
        <3>1. pc[d] \in {"next", "pop"} => reg[d].h \in Listed BY <1>0 DEF Defers
        <3> QED BY <1>0, <1>2, <1>4, <1>6, <2>2, <3>1, OthersDefer
    <2> QED BY <2>1, <2>2
<1> QED BY <1>8, <1>9

(* A client's step keeps the invariant of the deferred list. *)
LEMMA ClientDeferred ==
    ASSUME StorageInv, NEW c \in Clients, ClientStep(c), DeferredInv, fault' = "none"
    PROVE  DeferredInv'
<1> SUFFICES ASSUME phase' = "open", ~doubled' PROVE Chained' /\ \A d \in Clients : Defers(d)'
    BY DEF DeferredInv
<1>1. phase = "open" BY ClientOpen
<1>a. pc \in [Clients -> PCs] BY DEF StorageInv, ClientType
<1>2. ~doubled
    BY DEF ClientStep, Allocate, AllocateN, Call, BlockForAllocation, TryAddBlock, Expanded, ReadTail,
           PopDeferred, ClearNext, UpdateList, LoadMask, AddAllocated, Allocated, LoadAll, AddAll,
           Release, ClearBits, Claim, StoreClaim, LinkHead, PushDeferred, Panic
<1> DEFINE Away == /\ UNCHANGED <<dnext, deferred>> /\ pc[c] \notin {"link", "push", "clear"}
                   /\ pc'[c] \notin {"link", "push", "clear", "next", "pop"}
<1>3. CASE Allocate(c) \/ AllocateN(c) \/ TryAddBlock(c) \/ Expanded(c)
    <2>1. Away
        BY <1>a, <1>3 DEF Allocate, AllocateN, Call, TryAddBlock, Expanded, Goto, blockVars
    <2> QED BY <1>1, <1>2, <2>1, AwayDeferred
<1>4. CASE BlockForAllocation(c)
    <2>1. Away \/ pc'[c] = "next"
        BY <1>a, <1>4 DEF BlockForAllocation, Goto, blockVars
    <2> QED BY <1>1, <1>2, <1>4, <2>1, AwayDeferred, ReadDeferred
<1>5. CASE ReadTail(c) BY <1>1, <1>2, <1>5, ReadDeferred
<1>6. CASE PopDeferred(c) BY <1>1, <1>2, <1>6, ReadDeferred, TakeDeferred
<1>7. CASE ClearNext(c) \/ StoreClaim(c) \/ LinkHead(c) BY <1>1, <1>2, <1>7, WriteDeferred
<1>8. CASE PushDeferred(c) BY <1>1, <1>2, <1>8, WriteDeferred, AddDeferred
<1>9. CASE UpdateList(c) \/ LoadMask(c) \/ LoadAll(c) \/ Allocated(c)
    <2>1. Away
        BY <1>a, <1>9 DEF UpdateList, LoadMask, LoadAll, Allocated, Panic, Idle, Goto, blockVars
    <2> QED BY <1>1, <1>2, <2>1, AwayDeferred
<1>10. CASE AddAllocated(c) \/ AddAll(c) \/ Release(c) \/ ClearBits(c) \/ Claim(c)
    <2>1. Away
        BY <1>a, <1>10 DEF AddAllocated, AddAll, Release, ClearBits, Claim, Released, Idle, Goto
    <2> QED BY <1>1, <1>2, <2>1, AwayDeferred
<1> QED BY <1>3, <1>4, <1>5, <1>6, <1>7, <1>8, <1>9, <1>10 DEF ClientStep

(* Who leaves the deferred list alone keeps its invariant. *)
LEMMA SameDeferred ==
    ASSUME DeferredInv, UNCHANGED <<pc, reg, dnext, deferred, phase, doubled>>
    PROVE  DeferredInv'
<1>1. Listed' = Listed BY DEF Listed, Busy
<1>2. Chained => Chained' BY <1>1, SameChained
<1>3. ASSUME NEW c \in Clients, Defers(c) PROVE Defers(c)'
    BY <1>1, <1>3 DEF Defers, Busy
<1> QED BY <1>2, <1>3 DEF DeferredInv

(* What is on the deferred list is listed. *)
LEMMA ListedBlocks ==
    ASSUME Chained
    PROVE  DeferredBlocks \subseteq Listed
<1>1. Listed \in SUBSET Blocks BY DEF Listed
<1>2. deferred \in Listed \cup {None} /\ \A d \in Listed : dnext[d] \in Listed \cup {None}
    BY DEF Chained
<1> QED BY <1>1, <1>2 DEF DeferredBlocks

(* A block that passes the test for deletion is unused. *)
LEMMA InvDelete ==
    ASSUME StorageInv, DeferredInv
    PROVE  SafeToDelete
<1> SUFFICES ASSUME phase = "open", ~doubled, NEW b \in 1 .. made, IsSafeToDelete(b)
             PROVE  b \notin DeferredBlocks /\ \A c \in Clients : ~Deferring(c, b)
    BY DEF SafeToDelete
<1>1. b \notin DeferredBlocks
    <2>1. Chained BY DEF DeferredInv
    <2> QED BY <2>1, ListedBlocks DEF IsSafeToDelete, Listed
<1>2. b \in Blocks BY SizesOK DEF StorageInv, BlockType, Places, Blocks
<1>3. Releasers(b) = {}
    <2>1. Releasers(b) \in SUBSET Clients BY DEF Releasers
    <2>2. Cardinality(Releasers(b)) = 0 BY <1>2 DEF StorageInv, RefsInv, IsSafeToDelete
    <2> QED BY <2>1, <2>2, FiniteClients
<1>4. \A c \in Clients : ~Deferring(c, b) BY <1>3 DEF Deferring, Releasers, Releasing
<1> QED BY <1>1, <1>4

-----------------------------------------------------------------------------
(***************************************************************************)
(* The assertions.  As long as the allocation list has never held two      *)
(* blocks, no block has links, the client that holds the lock works on the *)
(* only block of the list, and that block has a free entry.                *)
(***************************************************************************)
ShortList(l) == l.head = l.tail /\ \A b \in Blocks : l.prev[b] = None /\ l.next[b] = None
Heads(c) ==
    /\ pc[c] \in {"load", "full"} \/ (pc[c] = "add" /\ reg[c].op = "one") => reg[c].b = list.head
    /\ pc[c] = "add" /\ reg[c].op = "many" => list.head = None
HeadHasRoom == list.head # None /\ mask[list.head] = Full => \E c \in Clients : pc[c] = "full"
Unpushed == \A c \in Clients : pc[c] = "sync" => reg[c].b \notin Pushed
ShortInv ==
    /\ Unpushed
    /\ ~crowded => ShortList(list) /\ HeadHasRoom /\ \A c \in Clients : Heads(c)

(* Pushing on a list of at most one block. *)
LEMMA PushShort ==
    ASSUME NEW K, NEW l \in Lists(K), ShortList(l), NEW b \in Blocks, b # l.head
    PROVE  /\ PushBack(l, b).head = PushBack(l, b).tail =>
                l.head = None /\ PushBack(l, b).head = b /\ ShortList(PushBack(l, b))
           /\ PushFront(l, b).head = PushFront(l, b).tail =>
                l.head = None /\ PushFront(l, b).head = b /\ ShortList(PushFront(l, b))
<1>1. b # None BY PlacesAre
<1>2. CASE l.head = None
    <2>1. l.tail = None BY <1>2 DEF ShortList
    <2>2. PushBack(l, b) = [l EXCEPT !.head = b, !.tail = b] /\ PushFront(l, b) = [l EXCEPT !.head = b, !.tail = b]
        BY <1>2, <2>1 DEF PushBack, PushFront
    <2> QED BY <1>2, <2>2 DEF ShortList, Lists
<1>3. CASE l.head # None
    <2>1. l.tail # None BY <1>3 DEF ShortList
    <2>2. PushBack(l, b).head = l.head /\ PushBack(l, b).tail = b
        BY <2>1 DEF PushBack, Lists
    <2>3. PushFront(l, b).head = b /\ PushFront(l, b).tail = l.head
        BY <1>3 DEF PushFront, Lists, ShortList
    <2> QED BY <2>2, <2>3
<1> QED BY <1>2, <1>3

(* Unlinking the only block trips no assertion. *)
LEMMA UnlinkShort ==
    ASSUME NEW K, NEW l \in Lists(K), ShortList(l), NEW b \in Blocks, b = l.head
    PROVE  /\ UnlinkAsserts(l, b)
           /\ Unlink(l, b).head = None /\ ShortList(Unlink(l, b)) /\ Unlink(l, b) \in Lists({None})
<1>1. l.prev[b] = None /\ l.next[b] = None /\ l.tail = b BY DEF ShortList
<1>2. UnlinkAsserts(l, b) BY <1>1 DEF UnlinkAsserts
<1>3. \A x \in Blocks : x # None BY PlacesAre
<1> DEFINE ends == [l EXCEPT !.head = None, !.tail = None]
<1>4. Unlink(l, b) = [ends EXCEPT !.next = [x \in Blocks |-> IF x = None THEN None ELSE ends.next[x]],
                                  !.prev = [x \in Blocks |-> IF x = None THEN None ELSE ends.prev[x]]]
    BY <1>1 DEF Unlink
<1>5. ends \in [head : {None}, tail : {None}, prev : [Blocks -> K], next : [Blocks -> K]]
      /\ ends.next = l.next /\ ends.prev = l.prev
    BY DEF Lists
<1>6. [x \in Blocks |-> IF x = None THEN None ELSE ends.next[x]] = [x \in Blocks |-> None]
      /\ [x \in Blocks |-> IF x = None THEN None ELSE ends.prev[x]] = [x \in Blocks |-> None]
    BY <1>3, <1>5 DEF ShortList
<1>7. PICK e, z : /\ e = ends /\ z = [x \in Blocks |-> None] OBVIOUS
<1>8. Unlink(l, b) = [e EXCEPT !.next = z, !.prev = z] BY <1>4, <1>6, <1>7
<1>9. /\ e \in [head : {None}, tail : {None}, prev : [Blocks -> K], next : [Blocks -> K]]
      /\ z \in [Blocks -> {None}]
    BY <1>5, <1>7
<1>10. /\ Unlink(l, b).head = None /\ Unlink(l, b).tail = None
       /\ Unlink(l, b).next = z /\ Unlink(l, b).prev = z
       /\ Unlink(l, b) \in Lists({None})
    <2> HIDE DEF ends
    <2> QED BY <1>8, <1>9 DEF Lists
<1> QED BY <1>2, <1>9, <1>10 DEF ShortList

(* A list of at most one block has its head and no other. *)
LEMMA InList ==
    ASSUME NEW l, ShortList(l), NEW b \in Blocks
    PROVE  Contains(l, b) <=> l.head = b
BY DEF ShortList, Contains

(* What a client that holds the lock knows of the list. *)
LEMMA HolderSees ==
    ASSUME StorageInv, ShortInv, ~crowded, NEW c \in Clients, pc[c] \in Locked
    PROVE  /\ list \in Lists(Known) /\ ShortList(list)
           /\ pc[c] # "full" /\ list.head # None => mask[list.head] # Full
           /\ pc[c] \in {"load", "full"} \/ (pc[c] = "add" /\ reg[c].op = "one") =>
                reg[c].b = list.head /\ reg[c].b \in Blocks
           /\ pc[c] = "add" /\ reg[c].op = "many" => list.head = None
<1>1. list \in Lists(Known) /\ ShortList(list) BY DEF StorageInv, PushedInv, ShortInv
<1>2. pc[c] # "full" => \A d \in Clients : pc[d] # "full" BY Sole DEF Locked
<1>3. pc[c] # "full" /\ list.head # None => mask[list.head] # Full
    BY <1>2 DEF ShortInv, HeadHasRoom
<1>4. pc[c] \in {"load", "add", "full"} => reg[c].b \in Blocks BY Locals
<1> QED BY <1>1, <1>3, <1>4 DEF ShortInv, Heads

(* Without two blocks on the list no assertion fails. *)
LEMMA NoPanic ==
    ASSUME StorageInv, ShortInv, ~crowded, Next
    PROVE  fault' = "none"
<1>0. fault = "none" BY DEF Next
<1>1. ASSUME NEW c \in Clients, UpdateList(c) PROVE fault' = "none"
    <2>1. PICK b \in Blocks : b = reg[c].h BY <1>1, Locals DEF UpdateList
    <2>2. pc[c] = "update" BY <1>1 DEF UpdateList
    <2>3. list \in Lists(Known) /\ ShortList(list) /\ (list.head # None => mask[list.head] # Full)
        BY <2>2, HolderSees DEF Locked
    <2>4. Contains(list, b) <=> list.head = b BY <2>3, InList
    <2>5. b # None BY PlacesAre
    <2>6. UpdateAsserts(list, b, mask[b])
        BY <2>3, <2>4, <2>5, UnlinkShort DEF UpdateAsserts
    <2> QED BY <1>0, <1>1, <2>1, <2>6 DEF UpdateList
<1>2. ASSUME NEW c \in Clients, LoadMask(c) PROVE fault' = "none"
    <2>1. pc[c] = "load" BY <1>2 DEF LoadMask
    <2>2. reg[c].b = list.head /\ reg[c].b # None /\ (list.head # None => mask[list.head] # Full)
        BY <2>1, HolderSees, PlacesAre DEF Locked
    <2> QED BY <1>0, <1>2, <2>2 DEF LoadMask
<1>3. ASSUME NEW c \in Clients, Allocated(c) \/ LoadAll(c) PROVE fault' = "none"
    <2>1. pc[c] \in {"load", "full"} BY <1>3 DEF Allocated, LoadAll
    <2>2. list \in Lists(Known) /\ ShortList(list) /\ reg[c].b = list.head /\ reg[c].b \in Blocks
        BY <2>1, HolderSees DEF Locked
    <2>3. UnlinkAsserts(list, reg[c].b) BY <2>2, UnlinkShort
    <2> QED BY <1>0, <1>3, <2>3 DEF Allocated, LoadAll
<1>4. ASSUME DropList PROVE fault' = "none"
    <2>1. list \in Lists(Known) /\ ShortList(list) BY DEF StorageInv, PushedInv, ShortInv
    <2>2. list.head # None => list.head \in Blocks BY KnownPlaces
    <2>3. list.head # None => UnlinkAsserts(list, list.head) BY <2>1, <2>2, UnlinkShort
    <2> QED BY <1>0, <1>4, <2>3 DEF DropList
<1>5. ASSUME DropBlocks PROVE fault' = "none"
    <2>1. ASSUME NEW i \in DOMAIN arrays[Active].blocks
          PROVE  LET b == arrays[Active].blocks[i] IN list.prev[b] = None /\ list.next[b] = None
        <3>1. arrays[Active].blocks[i] \in Pushed BY DEF Pushed, Range
        <3>2. arrays[Active].blocks[i] \in Blocks BY <3>1, KnownPlaces
        <3> QED BY <3>2 DEF ShortInv, ShortList
    <2> QED BY <1>0, <1>5, <2>1 DEF DropBlocks
<1>6. ASSUME NEW c \in Clients, ClientStep(c) PROVE fault' = "none"
    BY <1>0, <1>1, <1>2, <1>3, <1>6 DEF ClientStep, Allocate, AllocateN, Call, BlockForAllocation,
       TryAddBlock, Expanded, ReadTail, PopDeferred, ClearNext, AddAllocated, AddAll,
       Release, ClearBits, Claim, StoreClaim, LinkHead, PushDeferred
<1>7. ASSUME NEW r \in Readers, ReaderStep(r) PROVE fault' = "none"
    BY <1>0, <1>7 DEF ReaderStep, OpenSection, ReadArray, IncrementRefcount, LeaveSection,
           RelinquishBlockArray, storageVars
<1>8. ASSUME Synchronize \/ BeginDrop \/ DropDeferred PROVE fault' = "none"
    BY <1>0, <1>8 DEF Synchronize, BeginDrop, DropDeferred, storageVars
<1> QED BY <1>4, <1>5, <1>6, <1>7, <1>8 DEF Next, DropStep
(* A block that waits for synchronize has not been pushed. *)
LEMMA UnpushedStep ==
    ASSUME StorageInv, Unpushed, NEW c \in Clients, ClientStep(c), fault' = "none"
    PROVE  Unpushed'
<1>0. pc \in [Clients -> PCs] /\ reg \in [Clients -> Regs] /\ reg[c] \in Regs /\ Nobody \notin Clients
    BY SizesOK DEF StorageInv, ClientType
<1>1. CASE Extends(c)
    <2>1. ASSUME NEW d \in Clients, d # c PROVE pc'[d] # "sync"
        <3>1. pc'[d] = pc[d] BY <2>1, Others
        <3>2. CASE TryAddBlock(c) BY <1>0, <3>1, <3>2 DEF TryAddBlock, StorageInv, LockInv, Locked
        <3>3. CASE Expanded(c) BY <2>1, <3>1, <3>3, Sole DEF Expanded, Locked
        <3> QED BY <1>1, <3>2, <3>3 DEF Extends
    <2>2. pc'[c] = "sync" => reg'[c].b \notin Pushed'
        <3>1. CASE Expanded(c) BY <1>0, <3>1 DEF Expanded, Goto
        <3>2. CASE TryAddBlock(c) /\ Len(arrays[Active].blocks) < SizeOf(Active)
            BY <1>0, <3>2 DEF TryAddBlock, Goto
        <3>3. CASE TryAddBlock(c) /\ ~(Len(arrays[Active].blocks) < SizeOf(Active))
            <4>1. reg'[c].b = made + 1 /\ arrays' = Append(arrays, NewArray(arrays[Active].blocks))
                BY <1>0, <3>3 DEF TryAddBlock, Set, Regs
            <4>2. Pushed' = Pushed BY <4>1, GrowEffect
            <4>3. made + 1 \notin Pushed
                <5>1. Pushed \subseteq 1 .. made /\ made \in Nat
                    BY SizesOK DEF StorageInv, PushedInv, BlockType, Places
                <5> QED BY <5>1
            <4> QED BY <4>1, <4>2, <4>3
        <3> QED BY <1>1, <3>1, <3>2, <3>3 DEF Extends
    <2> QED BY <2>1, <2>2 DEF Unpushed
<1>2. CASE ~Extends(c)
    <2>1. Pushed' = Pushed BY <1>2, ClientFrame DEF Pushed, Active
    <2>2. pc'[c] # "sync"
        <3>1. CASE Allocate(c) \/ AllocateN(c) BY <1>0, <3>1 DEF Allocate, AllocateN, Call, Goto
        <3>2. CASE BlockForAllocation(c) BY <1>0, <3>2 DEF BlockForAllocation, Goto
        <3>3. CASE ReadTail(c) \/ PopDeferred(c) \/ ClearNext(c) \/ UpdateList(c)
            BY <1>0, <3>3 DEF ReadTail, PopDeferred, ClearNext, UpdateList, Panic, Goto
        <3>4. CASE LoadMask(c) \/ AddAllocated(c) \/ Allocated(c) \/ LoadAll(c) \/ AddAll(c)
            BY <1>0, <3>4 DEF LoadMask, AddAllocated, Allocated, LoadAll, AddAll, Panic, Goto, Idle
        <3>5. CASE Release(c) \/ ClearBits(c) \/ Claim(c) \/ StoreClaim(c) \/ LinkHead(c) \/ PushDeferred(c)
            BY <1>0, <3>5 DEF Release, ClearBits, Claim, StoreClaim, LinkHead, PushDeferred, Goto, Released, Idle
        <3> QED BY <1>2, <3>1, <3>2, <3>3, <3>4, <3>5 DEF ClientStep, Extends
    <2>3. ASSUME NEW d \in Clients, pc'[d] = "sync" PROVE reg'[d].b \notin Pushed'
        BY <2>1, <2>2, <2>3, Others DEF Unpushed
    <2> QED BY <2>3 DEF Unpushed
<1> QED BY <1>1, <1>2

(* Who moves a block knows that it heads the list. *)
LEMMA HeadsStep ==
    ASSUME StorageInv, ShortInv, NEW c \in Clients, ClientStep(c), ~crowded,
           UNCHANGED list \/ pc[c] \in Locked \/ lock = Nobody, Heads(c)'
    PROVE  \A d \in Clients : Heads(d)'
<1>1. ASSUME NEW d \in Clients, d # c PROVE Heads(d)'
    <2>1. pc'[d] = pc[d] /\ reg'[d] = reg[d] BY <1>1, Others
    <2>2. CASE UNCHANGED list BY <2>1, <2>2 DEF ShortInv, Heads
    <2>3. CASE pc[d] \notin Locked BY <2>1, <2>3 DEF Heads, Locked
    <2>4. pc[c] \in Locked => pc[d] \notin Locked BY <1>1, Sole
    <2>5. lock = Nobody => pc[d] \notin Locked BY SizesOK DEF StorageInv, LockInv
    <2> QED BY <2>2, <2>3, <2>4, <2>5
<1> QED BY <1>1

(* Steps that leave the list as it is and give no entry of a block away. *)
LEMMA ShortSame ==
    ASSUME StorageInv, ShortInv, NEW c \in Clients, ClientStep(c), ~crowded, UNCHANGED list,
           \A b \in Blocks : mask'[b] \subseteq mask[b],
           pc[c] # "full", Heads(c)'
    PROVE  ShortList(list)' /\ HeadHasRoom' /\ \A d \in Clients : Heads(d)'
<1>1. ShortList(list)' BY DEF ShortInv, ShortList
<1>2. HeadHasRoom'
    <2> SUFFICES ASSUME list.head # None, mask'[list.head] = Full PROVE \E d \in Clients : pc'[d] = "full"
        BY DEF HeadHasRoom
    <2>1. list.head \in Blocks BY KnownPlaces
    <2>2. mask[list.head] = Full BY <2>1 DEF StorageInv, BlockType, Full
    <2>3. PICK d \in Clients : pc[d] = "full" BY <2>2 DEF ShortInv, HeadHasRoom
    <2>4. d # c BY <2>3
    <2>5. pc'[d] = "full" BY <2>3, <2>4, Others
    <2> QED BY <2>5
<1>3. \A d \in Clients : Heads(d)' BY HeadsStep
<1> QED BY <1>1, <1>2, <1>3

(* A block with a free entry comes into an empty list. *)
LEMMA ShortPush ==
    ASSUME StorageInv, ShortInv, ~crowded, NEW b \in Blocks, b # list.head, mask'[b] # Full,
           \/ Relist(PushBack(list, b)) \/ Relist(PushFront(list, b)),
           ~crowded'
    PROVE  ShortList(list)' /\ HeadHasRoom'
<1>0. list \in Lists(Known) /\ ShortList(list) BY DEF StorageInv, PushedInv, ShortInv
<1>1. CASE Relist(PushBack(list, b))
    <2>1. PICK l : l = PushBack(list, b) OBVIOUS
    <2>2. list' = l /\ l.head = l.tail BY <1>1, <2>1 DEF Relist
    <2>3. l.head = b /\ ShortList(l) BY <1>0, <2>1, <2>2, PushShort
    <2> QED BY <2>2, <2>3 DEF HeadHasRoom, ShortList
<1>2. CASE Relist(PushFront(list, b))
    <2>1. PICK l : l = PushFront(list, b) OBVIOUS
    <2>2. list' = l /\ l.head = l.tail BY <1>2, <2>1 DEF Relist
    <2>3. l.head = b /\ ShortList(l) BY <1>0, <2>1, <2>2, PushShort
    <2> QED BY <2>2, <2>3 DEF HeadHasRoom, ShortList
<1> QED BY <1>1, <1>2

(* Unlinking the only block leaves the list empty. *)
LEMMA ShortUnlink ==
    ASSUME StorageInv, ShortInv, ~crowded, NEW b \in Blocks, b = list.head, list' = Unlink(list, b)
    PROVE  ShortList(list)' /\ HeadHasRoom' /\ list'.head = None
<1>0. list \in Lists(Known) /\ ShortList(list) BY DEF StorageInv, PushedInv, ShortInv
<1>1. PICK l : l = Unlink(list, b) OBVIOUS
<1>2. l.head = None /\ ShortList(l) BY <1>0, <1>1, UnlinkShort
<1> QED BY <1>1, <1>2 DEF ShortList, HeadHasRoom

(* A client's step keeps the invariant of the allocation list. *)
LEMMA ClientShort ==
    ASSUME StorageInv, ShortInv, NEW c \in Clients, ClientStep(c), fault' = "none"
    PROVE  ShortInv'
<1> SUFFICES ASSUME ~crowded' PROVE ShortList(list)' /\ HeadHasRoom' /\ \A d \in Clients : Heads(d)'
    BY UnpushedStep DEF ShortInv
<1>a. /\ pc \in [Clients -> PCs] /\ reg \in [Clients -> Regs] /\ reg[c] \in Regs
      /\ mask \in [Blocks -> SUBSET Entries] /\ Entries # {}
    BY SizesOK DEF StorageInv, ClientType, BlockType
<1>1. ~crowded
    BY DEF ClientStep, Allocate, AllocateN, Call, BlockForAllocation, TryAddBlock, Expanded, ReadTail,
           PopDeferred, ClearNext, UpdateList, LoadMask, AddAllocated, Allocated, LoadAll, AddAll,
           Release, ClearBits, Claim, StoreClaim, LinkHead, PushDeferred, Panic, Relist, listVars
<1>2. \A b \in Blocks : b \notin Pushed => mask[b] # Full
    BY <1>a DEF StorageInv, PushedInv, Full
<1>3. CASE Allocate(c) \/ AllocateN(c) \/ BlockForAllocation(c) \/ ReadTail(c) \/ PopDeferred(c) \/ ClearNext(c)
    <2>1. UNCHANGED <<list, mask>> /\ pc[c] # "full"
        BY <1>3 DEF Allocate, AllocateN, Call, BlockForAllocation, ReadTail, PopDeferred, ClearNext,
                    listVars, blockVars
    <2>2. pc'[c] \notin {"add", "full"} /\ (pc'[c] = "load" => reg'[c].b = list.head)
        BY <1>a, <1>3 DEF Allocate, AllocateN, Call, BlockForAllocation, ReadTail, PopDeferred, ClearNext,
                    Goto, Set, Regs
    <2>3. Heads(c)' BY <2>1, <2>2 DEF Heads
    <2> QED BY <1>1, <2>1, <2>3, ShortSame
<1>4. CASE Release(c) \/ ClearBits(c) \/ Claim(c) \/ StoreClaim(c) \/ LinkHead(c) \/ PushDeferred(c)
    <2>1. UNCHANGED list /\ pc[c] # "full" /\ pc'[c] \notin {"load", "add", "full"}
        BY <1>a, <1>4 DEF Release, ClearBits, Claim, StoreClaim, LinkHead, PushDeferred, Released, Idle,
                    Goto, listVars
    <2>2. Heads(c)' BY <2>1 DEF Heads
    <2>3. ASSUME NEW b \in Blocks PROVE mask'[b] \subseteq mask[b]
        BY <1>a, <1>4 DEF Release, ClearBits, Claim, StoreClaim, LinkHead, PushDeferred
    <2> QED BY <1>1, <2>1, <2>2, <2>3, ShortSame
<1>5. CASE LoadMask(c)
    <2>1. pc[c] = "load" /\ reg[c].op = "one" /\ UNCHANGED <<list, mask>>
        BY <1>5 DEF LoadMask, Panic, listVars, blockVars
    <2>2. pc'[c] = "add" /\ reg'[c].op = "one" /\ reg'[c].b = reg[c].b
        BY <1>a, <1>5 DEF LoadMask, Panic, Goto, Set, Regs
    <2>3. reg[c].b = list.head BY <1>1, <2>1, HolderSees DEF Locked
    <2>4. Heads(c)' BY <2>1, <2>2, <2>3 DEF Heads
    <2> QED BY <1>1, <2>1, <2>4, ShortSame
<1>6. CASE AddAllocated(c)
    <2>1. pc[c] = "add" /\ reg[c].op = "one" /\ UNCHANGED <<list, reg>> /\ pc'[c] = "full"
        BY <1>a, <1>6 DEF AddAllocated, Goto, listVars
    <2>2. Heads(c)' BY <1>1, <2>1, HolderSees DEF Heads, Locked
    <2>3. ShortList(list)' BY <1>1, <2>1 DEF ShortInv, ShortList
    <2>4. HeadHasRoom' BY <2>1 DEF HeadHasRoom
    <2> QED BY <1>1, <2>1, <2>2, <2>3, <2>4, HeadsStep
<1>7. CASE Allocated(c)
    <2>1. pc[c] = "full" /\ pc'[c] = "idle" /\ UNCHANGED mask
        BY <1>a, <1>7 DEF Allocated, Panic, Idle, Goto, blockVars
    <2>2. reg[c].b = list.head /\ reg[c].b \in Blocks BY <1>1, <2>1, HolderSees DEF Locked
    <2>3. Heads(c)' BY <2>1 DEF Heads
    <2>4. \A d \in Clients : Heads(d)' BY <1>1, <2>1, <2>3, HeadsStep DEF Locked
    <2>5. CASE mask[reg[c].b] = Full
        <3>1. list' = Unlink(list, reg[c].b) BY <1>7, <2>5 DEF Allocated, Panic, Relist
        <3> QED BY <1>1, <2>2, <2>4, <3>1, ShortUnlink
    <2>6. CASE mask[reg[c].b] # Full
        <3>1. list' = list BY <1>7, <2>6 DEF Allocated, Panic, Relist
        <3>2. ShortList(list)' BY <1>1, <3>1 DEF ShortInv, ShortList
        <3>3. HeadHasRoom' BY <2>1, <2>2, <2>6, <3>1 DEF HeadHasRoom
        <3> QED BY <2>4, <3>2, <3>3
    <2> QED BY <2>5, <2>6
<1>8. CASE LoadAll(c)
    <2>1. pc[c] = "load" /\ reg[c].op = "many" /\ pc'[c] = "add" /\ reg'[c].op = "many"
          /\ list' = Unlink(list, reg[c].b)
        BY <1>a, <1>8 DEF LoadAll, Panic, Goto, Set, Regs, Relist
    <2>2. reg[c].b = list.head /\ reg[c].b \in Blocks BY <1>1, <2>1, HolderSees DEF Locked
    <2>3. ShortList(list)' /\ HeadHasRoom' /\ list'.head = None BY <1>1, <2>1, <2>2, ShortUnlink
    <2>4. Heads(c)' BY <2>1, <2>3 DEF Heads
    <2> QED BY <1>1, <2>1, <2>3, <2>4, HeadsStep DEF Locked
<1>9. CASE AddAll(c)
    <2>1. pc[c] = "add" /\ reg[c].op = "many" /\ UNCHANGED list /\ pc'[c] \in {"idle", "xor"}
        BY <1>a, <1>9 DEF AddAll, Idle, Goto, listVars
    <2>2. list.head = None BY <1>1, <2>1, HolderSees DEF Locked
    <2>3. Heads(c)' BY <2>1 DEF Heads
    <2>4. ShortList(list)' BY <1>1, <2>1 DEF ShortInv, ShortList
    <2>5. HeadHasRoom' BY <2>1, <2>2 DEF HeadHasRoom
    <2> QED BY <1>1, <2>1, <2>3, <2>4, <2>5, HeadsStep
<1>10. CASE TryAddBlock(c)
    <2>1. pc[c] = "relock" /\ lock = Nobody /\ UNCHANGED mask /\ pc'[c] \in {"find", "sync"}
        BY <1>a, <1>10 DEF TryAddBlock, Goto, blockVars
    <2>2. Heads(c)' BY <2>1 DEF Heads
    <2>3. CASE Len(arrays[Active].blocks) < SizeOf(Active)
        <3>1. PICK b \in Blocks : b = made + 1 BY <2>1, RoomToMake DEF StorageInv
        <3>2. Relist(PushBack(list, b)) BY <1>10, <2>3, <3>1 DEF TryAddBlock
        <3>3. b \notin Pushed
            <4>1. Pushed \subseteq 1 .. made /\ made \in Nat
                BY SizesOK DEF StorageInv, PushedInv, BlockType, Places
            <4> QED BY <3>1, <4>1
        <3>4. b # list.head BY <3>3, KnownPlaces, PlacesAre
        <3>5. mask'[b] # Full BY <1>2, <2>1, <3>3
        <3> QED BY <1>1, <2>1, <2>2, <3>2, <3>4, <3>5, ShortPush, HeadsStep
    <2>4. CASE ~(Len(arrays[Active].blocks) < SizeOf(Active))
        <3>1. UNCHANGED list BY <1>10, <2>4 DEF TryAddBlock, listVars
        <3> QED BY <1>1, <2>1, <2>2, <3>1, ShortSame
    <2> QED BY <2>3, <2>4
<1>11. CASE Expanded(c)
    <2>1. pc[c] = "sync" /\ UNCHANGED mask /\ pc'[c] = "find" /\ Relist(PushBack(list, reg[c].b))
        BY <1>a, <1>11 DEF Expanded, Goto, blockVars
    <2>2. Heads(c)' BY <2>1 DEF Heads
    <2>3. PICK b \in Blocks : b = reg[c].b
        <3>1. reg[c].b \in 1 .. made /\ made \in 0 .. MaxBlocks /\ MaxBlocks \in Nat
            BY <2>1, SizesOK DEF StorageInv, PushedInv, LocalsKnown, BlockType, Places
        <3> QED BY <3>1 DEF Blocks
    <2>4. b \notin Pushed BY <2>1, <2>3 DEF ShortInv, Unpushed
    <2>5. b # list.head BY <2>4, KnownPlaces, PlacesAre
    <2>6. mask'[b] # Full BY <1>2, <2>1, <2>4
    <2> QED BY <1>1, <2>1, <2>2, <2>3, <2>5, <2>6, ShortPush, HeadsStep DEF Locked
<1>12. CASE UpdateList(c)
    <2>1. PICK b \in Blocks : b = reg[c].h BY <1>12, Locals DEF UpdateList
    <2>2. pc[c] = "update" /\ UNCHANGED mask /\ pc'[c] = "find" /\ Relist(Updated(list, b, mask[b]))
        BY <1>a, <1>12, <2>1 DEF UpdateList, Panic, Goto, blockVars
    <2>3. Heads(c)' BY <2>2 DEF Heads
    <2>4. \A d \in Clients : Heads(d)' BY <1>1, <2>2, <2>3, HeadsStep DEF Locked
    <2>5. list \in Lists(Known) /\ ShortList(list) /\ (list.head # None => mask[list.head] # Full)
        BY <1>1, <2>2, HolderSees DEF Locked
    <2>6. Contains(list, b) <=> list.head = b BY <2>5, InList
    <2>7. CASE Updated(list, b, mask[b]) = list
        <3>1. list' = list BY <2>2, <2>7 DEF Relist
        <3>2. ShortList(list)' BY <1>1, <3>1 DEF ShortInv, ShortList
        <3>3. HeadHasRoom' BY <2>2, <2>5, <3>1 DEF HeadHasRoom
        <3> QED BY <2>4, <3>2, <3>3
    <2>8. CASE mask[b] # Full /\ list.head # b
        <3>1. Updated(list, b, mask[b]) \in {PushBack(list, b), PushFront(list, b)}
            BY <2>6, <2>8 DEF Updated
        <3> QED BY <1>1, <2>2, <2>4, <2>8, <3>1, ShortPush
    <2>9. CASE mask[b] # Full /\ list.head = b /\ mask[b] = {}
        <3>1. Updated(list, b, mask[b]) = PushBack(Unlink(list, b), b)
            BY <2>6, <2>9 DEF Updated
        <3>2. PICK l : l = Unlink(list, b) OBVIOUS
        <3>3. l.head = None /\ ShortList(l) /\ l \in Lists({None}) BY <2>5, <2>9, <3>2, UnlinkShort
        <3>4. PICK k : k = PushBack(l, b) OBVIOUS
        <3>5. list' = k /\ k.head = k.tail BY <2>2, <3>1, <3>2, <3>4 DEF Relist
        <3>6. k.head = b /\ ShortList(k) BY <3>3, <3>4, <3>5, PushShort, PlacesAre
        <3>7. ShortList(list)' /\ HeadHasRoom' BY <2>2, <2>9, <3>5, <3>6 DEF HeadHasRoom, ShortList
        <3> QED BY <2>4, <3>7
    <2>10. mask[b] = Full => Updated(list, b, mask[b]) = list BY <1>a DEF Updated, Full
    <2>11. mask[b] # Full /\ list.head = b /\ mask[b] # {} => Updated(list, b, mask[b]) = list
        BY <2>6 DEF Updated
    <2> QED BY <2>7, <2>8, <2>9, <2>10, <2>11
<1> QED BY <1>3, <1>4, <1>5, <1>6, <1>7, <1>8, <1>9, <1>10, <1>11, <1>12 DEF ClientStep
(* Steps of readers, of the writer and of Drop. *)
LEMMA SameShort ==
    ASSUME ShortInv, UNCHANGED <<pc, reg, list, mask, crowded>>, Pushed' = Pushed
    PROVE  ShortInv'
BY DEF ShortInv, Unpushed, ShortList, HeadHasRoom, Heads

(* Drop keeps the invariant of the allocation list. *)
LEMMA DropShort ==
    ASSUME StorageInv, ShortInv, DropStep, fault' = "none"
    PROVE  ShortInv'
<1>1. CASE BeginDrop
    <2>1. UNCHANGED <<pc, reg, list, mask, crowded, arrays>> BY <1>1 DEF BeginDrop, listVars, blockVars
    <2> QED BY <2>1, SameShort DEF Pushed, Active
<1>2. CASE DropDeferred
    <2>1. UNCHANGED <<pc, reg, list, mask, crowded, arrays>> BY <1>2 DEF DropDeferred, listVars
    <2> QED BY <2>1, SameShort DEF Pushed, Active
<1>3. ASSUME phase # "open", UNCHANGED pc, ~crowded' => ShortList(list)' /\ HeadHasRoom'
      PROVE  ShortInv'
    <2>1. \A c \in Clients : pc'[c] = "idle" BY <1>3 DEF StorageInv, LockInv
    <2> QED BY <1>3, <2>1 DEF ShortInv, Unpushed, Heads
<1>4. CASE DropList
    <2>1. /\ phase = "list" /\ UNCHANGED <<pc, mask>>
          /\ \/ UNCHANGED <<list, crowded>>
             \/ list.head # None /\ Relist(Unlink(list, list.head))
        BY <1>4 DEF DropList, Panic, listVars, blockVars
    <2>2. ASSUME ~crowded' PROVE ShortList(list)' /\ HeadHasRoom'
        <3>1. CASE UNCHANGED <<list, crowded>>
            BY <2>1, <2>2, <3>1 DEF ShortInv, ShortList, HeadHasRoom
        <3>2. CASE list.head # None /\ Relist(Unlink(list, list.head))
            <4>1. PICK b \in Blocks : b = list.head BY <3>2, KnownPlaces
            <4>2. list' = Unlink(list, b) /\ ~crowded BY <2>2, <3>2, <4>1 DEF Relist
            <4> QED BY <4>1, <4>2, ShortUnlink
        <3> QED BY <2>1, <3>1, <3>2
    <2> QED BY <1>3, <2>1, <2>2
<1>5. CASE DropBlocks
    <2>1. phase = "array" /\ UNCHANGED <<pc, list, crowded>> /\ mask' = [b \in Blocks |-> {}]
        BY <1>5 DEF DropBlocks, Panic, listVars
    <2>2. ASSUME ~crowded' PROVE ShortList(list)' /\ HeadHasRoom'
        <3>1. ShortList(list)' BY <2>1, <2>2 DEF ShortInv, ShortList
        <3>2. list.head # None => mask'[list.head] = {} BY <2>1, KnownPlaces
        <3>3. {} # Full BY SizesOK DEF Full
        <3>4. HeadHasRoom' BY <2>1, <3>2, <3>3 DEF HeadHasRoom
        <3> QED BY <3>1, <3>4
    <2> QED BY <1>3, <2>1, <2>2
<1> QED BY <1>1, <1>2, <1>4, <1>5 DEF DropStep

(* What was crowded or doubled once stays marked so. *)
LEMMA HistoryStays ==
    ASSUME Next
    PROVE  (~crowded' => ~crowded) /\ (~doubled' => ~doubled)
<1>1. ASSUME ~crowded' PROVE ~crowded
    <2>1. ASSUME NEW c \in Clients, ClientStep(c) PROVE ~crowded
        BY <1>1, <2>1 DEF ClientStep, Allocate, AllocateN, Call, BlockForAllocation, TryAddBlock, Expanded, ReadTail,
           PopDeferred, ClearNext, UpdateList, LoadMask, AddAllocated, Allocated, LoadAll, AddAll,
           Release, ClearBits, Claim, StoreClaim, LinkHead, PushDeferred, Panic, Relist, listVars
    <2>2. ASSUME NEW r \in Readers, ReaderStep(r) PROVE ~crowded
        BY <1>1, <2>2 DEF ReaderStep, OpenSection, ReadArray, IncrementRefcount, LeaveSection,
               RelinquishBlockArray, storageVars, Synchronize
    <2>3. ASSUME Synchronize PROVE ~crowded
        BY <1>1, <2>3 DEF Synchronize, storageVars
    <2>4. ASSUME DropStep PROVE ~crowded
        BY <1>1, <2>4 DEF DropStep, BeginDrop, DropDeferred, DropList, DropBlocks, Panic, Relist, listVars
    <2> QED BY <2>1, <2>2, <2>3, <2>4 DEF Next
<1>2. ASSUME ~doubled' PROVE ~doubled
    <2>1. ASSUME NEW c \in Clients, ClientStep(c) PROVE ~doubled
        BY <1>2, <2>1 DEF ClientStep, Allocate, AllocateN, Call, BlockForAllocation, TryAddBlock, Expanded, ReadTail,
           PopDeferred, ClearNext, UpdateList, LoadMask, AddAllocated, Allocated, LoadAll, AddAll,
           Release, ClearBits, Claim, StoreClaim, LinkHead, PushDeferred, Panic
    <2>2. ASSUME NEW r \in Readers, ReaderStep(r) PROVE ~doubled
        BY <1>2, <2>2 DEF ReaderStep, OpenSection, ReadArray, IncrementRefcount, LeaveSection,
               RelinquishBlockArray, storageVars, Synchronize
    <2>3. ASSUME Synchronize PROVE ~doubled
        BY <1>2, <2>3 DEF Synchronize, storageVars
    <2>4. ASSUME DropStep PROVE ~doubled
        BY <1>2, <2>4 DEF DropStep, BeginDrop, DropDeferred, DropList, DropBlocks, Panic
    <2> QED BY <2>1, <2>2, <2>3, <2>4 DEF Next
<1> QED BY <1>1, <1>2

(* The inductive invariant with the two lists. *)
BlockInv == StorageInv /\ DeferredInv /\ ShortInv /\ FaultsNeedTwoBlocks

(* BlockInv holds initially *)
LEMMA InitBlocks ==
    ASSUME Init
    PROVE  BlockInv
<1>1. /\ pc = [c \in Clients |-> "idle"] /\ mask = [b \in Blocks |-> {}] /\ list = EmptyList
      /\ deferred = None /\ dnext = NoLink /\ fault = "none"
    BY DEF Init
<1>2. DeferredInv
    <2>1. Listed = {} BY <1>1 DEF Listed, NoLink
    <2>2. Chained BY <1>1, <2>1 DEF Chained
    <2>3. \A c \in Clients : Defers(c) BY <1>1 DEF Defers, Busy
    <2> QED BY <2>2, <2>3 DEF DeferredInv
<1>3. ShortInv
    BY <1>1 DEF ShortInv, Unpushed, ShortList, HeadHasRoom, Heads, EmptyList, NoLink
<1> QED BY <1>1, <1>2, <1>3, InitStorage DEF BlockInv, FaultsNeedTwoBlocks

(* and every step keeps it, *)
LEMMA BlocksKeep ==
    ASSUME BlockInv, [Next]_vars
    PROVE  BlockInv'
<1>0. StorageInv /\ DeferredInv /\ ShortInv BY DEF BlockInv
<1>1. StorageInv' BY <1>0, NextKeeps
<1>2. FaultsNeedTwoBlocks'
    <2>1. CASE Next
        <3>1. crowded => crowded' BY <2>1, HistoryStays
        <3>2. ~crowded => fault' = "none" BY <1>0, <2>1, NoPanic
        <3> QED BY <3>1, <3>2 DEF FaultsNeedTwoBlocks
    <2>2. CASE UNCHANGED vars BY <2>2 DEF BlockInv, FaultsNeedTwoBlocks, vars
    <2> QED BY <2>1, <2>2
<1>3. CASE UNCHANGED vars
    <2>1. UNCHANGED <<pc, reg, list, mask, crowded, arrays, dnext, deferred, phase, doubled>>
        BY <1>3 DEF vars
    <2>2. Pushed' = Pushed BY <2>1 DEF Pushed, Active
    <2> QED BY <1>0, <1>1, <1>2, <2>1, <2>2, SameShort, SameDeferred DEF BlockInv
<1>4. CASE Next /\ fault' # "none"
    <2>1. UNCHANGED rest BY <1>4, FaultStep
    <2>2. crowded BY <1>0, <1>4, NoPanic
    <2>3. UNCHANGED <<pc, reg, arrays, dnext, deferred, phase>> BY <2>1 DEF rest
    <2>4. ShortInv'
        <3>1. Pushed' = Pushed BY <2>3 DEF Pushed, Active
        <3>2. crowded' BY <1>2, <1>4 DEF FaultsNeedTwoBlocks
        <3> QED BY <1>0, <2>3, <3>1, <3>2 DEF ShortInv, Unpushed
    <2>5. DeferredInv'
        <3>1. doubled => doubled' BY <1>4, HistoryStays
        <3>2. \A c \in Clients, b \in Blocks : Busy(c, b)' <=> Busy(c, b) BY <2>3 DEF Busy
        <3>3. Listed' = Listed BY <2>3, <3>2 DEF Listed
        <3>4. Chained => Chained' BY <2>3, <3>3, SameChained
        <3>5. ASSUME NEW c \in Clients, Defers(c) PROVE Defers(c)'
            BY <2>3, <3>2, <3>3, <3>5 DEF Defers
        <3> QED BY <1>0, <2>3, <3>1, <3>4, <3>5 DEF DeferredInv
    <2> QED BY <1>1, <1>2, <2>4, <2>5 DEF BlockInv
<1>5. CASE Next /\ fault' = "none"
    <2>1. CASE \E c \in Clients : ClientStep(c)
        BY <1>0, <1>1, <1>2, <1>5, <2>1, ClientShort, ClientDeferred DEF BlockInv
    <2>2. CASE (\E r \in Readers : ReaderStep(r)) \/ Synchronize
        <3>1. UNCHANGED <<pc, reg, list, mask, crowded, dnext, deferred, phase, doubled>>
            BY <2>2 DEF ReaderStep, OpenSection, ReadArray, IncrementRefcount, LeaveSection,
               RelinquishBlockArray, storageVars, Synchronize
        <3>2. Pushed' = Pushed
            BY <1>0, <2>2, ReaderPushed DEF Synchronize, Pushed, Active
        <3> QED BY <1>0, <1>1, <1>2, <3>1, <3>2, SameShort, SameDeferred DEF BlockInv
    <2>3. CASE DropStep
        <3>1. DeferredInv'
            <4>1. phase' # "open"
                BY <1>5, <2>3 DEF DropStep, BeginDrop, DropDeferred, DropList, DropBlocks, Panic
            <4> QED BY <4>1 DEF DeferredInv
        <3> QED BY <1>0, <1>1, <1>2, <1>5, <2>3, <3>1, DropShort DEF BlockInv
    <2> QED BY <1>5, <2>1, <2>2, <2>3 DEF Next
<1> QED BY <1>3, <1>4, <1>5

(* so that it is an invariant of the specification. *)
LEMMA AlwaysBlockInv == Spec => []BlockInv
<1>1. Init => BlockInv BY InitBlocks
<1>2. BlockInv /\ [Next]_vars => BlockInv' BY BlocksKeep
<1> QED BY <1>1, <1>2, PTL DEF Spec

-----------------------------------------------------------------------------
(***************************************************************************)
(* No empty block is lost.  Contains tells by the link of a block, and     *)
(* unlink leaves links behind; still, as long as head and tail are both    *)
(* there or both missing, no change of the list takes a block out of it    *)
(* but the one it is about.  A block outside of the list has been filled,  *)
(* and who frees its first or its last entry defers it, or finds it        *)
(* deferred.                                                               *)
(***************************************************************************)
EndsAgree(l) == l.head = None <=> l.tail = None
Waits(b) == dnext[b] # None \/ \E c \in Clients : Deferring(c, b) \/ Reducing(c, b)
FindInv ==
    /\ EndsAgree(list)
    /\ \A b \in 1 .. made : mask[b] = {} =>
          Contains(list, b) \/ Waits(b) \/ \E c \in Clients : Taking(c, b)
    /\ \A c \in Clients : pc[c] = "add" /\ reg[c].op = "many" /\ reg[c].set = {} =>
          mask[reg[c].b] = Full \/ Waits(reg[c].b)
FoundInv == phase = "open" /\ ~doubled => FindInv

(* push_back and push_front take no block out of the list, *)
LEMMA PushFinds ==
    ASSUME NEW K, NEW l \in Lists(K), EndsAgree(l), NEW b \in Blocks
    PROVE  /\ EndsAgree(PushBack(l, b)) /\ EndsAgree(PushFront(l, b))
           /\ Contains(PushBack(l, b), b) /\ Contains(PushFront(l, b), b)
           /\ \A x \in Blocks : Contains(l, x) =>
                Contains(PushBack(l, b), x) /\ Contains(PushFront(l, b), x)
<1>0. b # None /\ \A x \in Blocks : x # None BY PlacesAre
<1>1. CASE l.head = None
    <2>1. l.tail = None BY <1>1 DEF EndsAgree
    <2>2. PushBack(l, b) = [l EXCEPT !.head = b, !.tail = b] /\ PushFront(l, b) = [l EXCEPT !.head = b, !.tail = b]
        BY <1>1, <2>1 DEF PushBack, PushFront
    <2>3. PICK k : k = [l EXCEPT !.head = b, !.tail = b] OBVIOUS
    <2>4. k.head = b /\ k.tail = b /\ k.next = l.next BY <2>3 DEF Lists
    <2> QED BY <1>0, <2>1, <2>2, <2>3, <2>4 DEF EndsAgree, Contains
<1>2. CASE l.head # None
    <2>1. l.tail # None BY <1>2 DEF EndsAgree
    <2>2. PICK k : k = PushBack(l, b) OBVIOUS
    <2>3. k.head = l.head /\ k.tail = b /\ k.next = [l.next EXCEPT ![l.tail] = b]
        BY <2>1, <2>2 DEF PushBack, Lists
    <2>4. PICK j : j = PushFront(l, b) OBVIOUS
    <2>5. j.head = b /\ j.tail = l.tail /\ j.next = [l.next EXCEPT ![b] = l.head]
        BY <1>2, <2>4 DEF PushFront, Lists
    <2>6. l.next \in [Blocks -> K] BY DEF Lists
    <2>7. EndsAgree(k) /\ EndsAgree(j) BY <1>0, <1>2, <2>1, <2>3, <2>5 DEF EndsAgree
    <2>8. Contains(k, b) /\ Contains(j, b) BY <1>2, <2>3, <2>5, <2>6 DEF Contains
    <2>9. ASSUME NEW x \in Blocks, Contains(l, x) PROVE Contains(k, x) /\ Contains(j, x)
        BY <1>0, <1>2, <2>3, <2>5, <2>6, <2>9 DEF Contains
    <2> QED BY <2>2, <2>4, <2>7, <2>8, <2>9
<1> QED BY <1>1, <1>2

(* unlink takes out no other block, *)
LEMMA UnlinkFinds ==
    ASSUME NEW K, NEW l \in Lists(K), EndsAgree(l), NEW b \in Blocks, UnlinkAsserts(l, b)
    PROVE  /\ EndsAgree(Unlink(l, b))
           /\ \A x \in Blocks : x # b /\ Contains(l, x) => Contains(Unlink(l, b), x)
<1>0. b # None /\ \A x \in Blocks : x # None BY PlacesAre
<1>1. PICK p, n : p = l.prev[b] /\ n = l.next[b] OBVIOUS
<1>2. PICK e : e = [l EXCEPT !.head = IF p = None THEN n ELSE @, !.tail = IF n = None THEN p ELSE @]
    OBVIOUS
<1>3. /\ e.head = (IF p = None THEN n ELSE l.head) /\ e.tail = (IF n = None THEN p ELSE l.tail)
      /\ e.next = l.next
      /\ e = [head |-> e.head, tail |-> e.tail, prev |-> e.prev, next |-> e.next]
    BY <1>2 DEF Lists
<1>4. PICK k : k = Unlink(l, b) OBVIOUS
<1>5. k = [e EXCEPT !.next = [x \in Blocks |-> IF x = p THEN n ELSE e.next[x]],
                    !.prev = [x \in Blocks |-> IF x = n THEN p ELSE e.prev[x]]]
    BY <1>1, <1>2, <1>4 DEF Unlink
<1>6. /\ k.head = e.head /\ k.tail = e.tail
      /\ k.next = [x \in Blocks |-> IF x = p THEN n ELSE e.next[x]]
    BY <1>3, <1>5
<1>7. p = None => l.head = b BY <1>1 DEF UnlinkAsserts
<1>8. n = None => l.tail = b BY <1>1 DEF UnlinkAsserts
<1>9. EndsAgree(k)
    BY <1>0, <1>3, <1>6, <1>7, <1>8 DEF EndsAgree
<1>10. ASSUME NEW x \in Blocks, x # b, Contains(l, x) PROVE Contains(k, x)
    <2>1. k.next[x] = IF x = p THEN n ELSE l.next[x] BY <1>3, <1>6
    <2> QED BY <1>3, <1>6, <1>8, <1>10, <2>1 DEF Contains
<1> QED BY <1>4, <1>9, <1>10

(* and an update puts an empty block into it. *)
LEMMA UpdateFinds ==
    ASSUME NEW K, None \in K, NEW l \in Lists(K), EndsAgree(l), NEW b \in Blocks, b \in K,
           NEW m, UpdateAsserts(l, b, m), NEW k, k = Updated(l, b, m)
    PROVE  /\ EndsAgree(k)
           /\ m = {} => Contains(k, b)
           /\ \A x \in Blocks : Contains(l, x) => Contains(k, x)
<1>0. Full # {} BY SizesOK DEF Full
<1>1. CASE m = Full
    <2>1. k = l BY <1>0, <1>1 DEF Updated
    <2> QED BY <1>0, <1>1, <2>1
<1>2. CASE m # Full /\ Contains(l, b) /\ m # {}
    <2>1. k = l BY <1>2 DEF Updated
    <2> QED BY <1>2, <2>1
<1>3. CASE m # Full /\ Contains(l, b) /\ m = {}
    <2>1. PICK j : j = Unlink(l, b) OBVIOUS
    <2>2. k = PushBack(j, b) BY <1>3, <2>1 DEF Updated
    <2>3. j \in Lists(K) BY <2>1, ListLinks
    <2>4. UnlinkAsserts(l, b) BY <1>3 DEF UpdateAsserts
    <2>5. EndsAgree(j) /\ \A x \in Blocks : x # b /\ Contains(l, x) => Contains(j, x)
        BY <2>1, <2>4, UnlinkFinds
    <2>6. /\ EndsAgree(k) /\ Contains(k, b)
          /\ \A x \in Blocks : Contains(j, x) => Contains(k, x)
        BY <2>2, <2>3, <2>5, PushFinds
    <2> QED BY <2>5, <2>6
<1>4. CASE m # Full /\ ~Contains(l, b)
    <2>1. k \in {PushBack(l, b), PushFront(l, b)} BY <1>4 DEF Updated
    <2> QED BY <2>1, PushFinds
<1> QED BY <1>1, <1>2, <1>3, <1>4

(* A block that waits goes on waiting until it is put into the list. *)
LEMMA WaitsStays ==
    ASSUME StorageInv, DeferredInv, phase = "open", ~doubled, NEW c \in Clients, ClientStep(c),
           NEW b \in Blocks, Waits(b), ~(UpdateList(c) /\ reg[c].h = b)
    PROVE  Waits(b)'
<1>a. /\ pc \in [Clients -> PCs] /\ reg \in [Clients -> Regs] /\ reg[c] \in Regs
      /\ dnext \in [Blocks -> Known] /\ None \notin Blocks
    BY PlacesAre DEF StorageInv, ClientType, PushedInv
<1>0. \A d \in Clients : Defers(d) BY DEF DeferredInv
<1>1. Waits(b)' <=> dnext'[b] # None \/ \E d \in Clients : Deferring(d, b)' \/ Reducing(d, b)'
    BY DEF Waits
<1>2. CASE \E d \in Clients : d # c /\ (Deferring(d, b) \/ Reducing(d, b))
    <2>1. PICK d \in Clients : d # c /\ (Deferring(d, b) \/ Reducing(d, b)) BY <1>2
    <2>2. pc'[d] = pc[d] /\ reg'[d] = reg[d] BY <2>1, Others
    <2> QED BY <1>1, <2>1, <2>2 DEF Deferring, Reducing
<1>3. CASE Deferring(c, b)
    <2>1. CASE pc[c] = "claim"
        <3>1. Claim(c)
            BY <2>1 DEF ClientStep, Allocate, AllocateN, Call, BlockForAllocation, TryAddBlock, Expanded, ReadTail,
           PopDeferred, ClearNext, UpdateList, LoadMask, AddAllocated, Allocated, LoadAll, AddAll,
           Release, ClearBits, StoreClaim, LinkHead, PushDeferred
        <3>2. UNCHANGED dnext /\ (dnext[reg[c].b] = None => pc'[c] = "claimed" /\ reg'[c] = reg[c])
            BY <1>a, <3>1 DEF Claim, Goto
        <3> QED BY <1>1, <1>3, <3>2 DEF Deferring
    <2>2. CASE pc[c] = "claimed"
        <3>1. StoreClaim(c)
            BY <2>2 DEF ClientStep, Allocate, AllocateN, Call, BlockForAllocation, TryAddBlock, Expanded, ReadTail,
           PopDeferred, ClearNext, UpdateList, LoadMask, AddAllocated, Allocated, LoadAll, AddAll,
           Release, ClearBits, Claim, LinkHead, PushDeferred
        <3>2. dnext' = [dnext EXCEPT ![b] = b] BY <1>3, <3>1 DEF StoreClaim, Deferring
        <3> QED BY <1>a, <1>1, <3>2
    <2>3. CASE pc[c] = "link"
        <3>1. LinkHead(c)
            BY <2>3 DEF ClientStep, Allocate, AllocateN, Call, BlockForAllocation, TryAddBlock, Expanded, ReadTail,
           PopDeferred, ClearNext, UpdateList, LoadMask, AddAllocated, Allocated, LoadAll, AddAll,
           Release, ClearBits, Claim, StoreClaim, PushDeferred
        <3>2. pc'[c] = "push" /\ UNCHANGED reg BY <1>a, <3>1 DEF LinkHead, Goto
        <3> QED BY <1>1, <1>3, <3>2 DEF Deferring
    <2>4. CASE pc[c] = "push"
        <3>1. PushDeferred(c)
            BY <2>4 DEF ClientStep, Allocate, AllocateN, Call, BlockForAllocation, TryAddBlock, Expanded, ReadTail,
           PopDeferred, ClearNext, UpdateList, LoadMask, AddAllocated, Allocated, LoadAll, AddAll,
           Release, ClearBits, Claim, StoreClaim, LinkHead
        <3>2. UNCHANGED dnext BY <3>1 DEF PushDeferred
        <3>3. Busy(c, b) BY <1>3, <2>4 DEF Deferring, Busy
        <3>4. dnext[b] # None BY <1>0, <3>3 DEF Defers
        <3> QED BY <1>1, <3>2, <3>4
    <2> QED BY <1>3, <2>1, <2>2, <2>3, <2>4 DEF Deferring
<1>4. CASE Reducing(c, b)
    <2>1. CASE pc[c] = "clear"
        <3>1. ClearNext(c)
            BY <2>1 DEF ClientStep, Allocate, AllocateN, Call, BlockForAllocation, TryAddBlock, Expanded, ReadTail,
           PopDeferred, UpdateList, LoadMask, AddAllocated, Allocated, LoadAll, AddAll,
           Release, ClearBits, Claim, StoreClaim, LinkHead, PushDeferred
        <3>2. pc'[c] = "update" /\ reg'[c].h = reg[c].h BY <1>a, <3>1 DEF ClearNext, Goto, Set, Regs
        <3> QED BY <1>1, <1>4, <3>2 DEF Reducing
    <2>2. CASE pc[c] = "update"
        <3>1. UpdateList(c)
            BY <2>2 DEF ClientStep, Allocate, AllocateN, Call, BlockForAllocation, TryAddBlock, Expanded, ReadTail,
           PopDeferred, ClearNext, LoadMask, AddAllocated, Allocated, LoadAll, AddAll,
           Release, ClearBits, Claim, StoreClaim, LinkHead, PushDeferred
        <3> QED BY <1>4, <3>1 DEF Reducing
    <2> QED BY <1>4, <2>1, <2>2 DEF Reducing
<1>5. CASE dnext[b] # None /\ ~Deferring(c, b) /\ ~Reducing(c, b)
    <2>1. CASE ClearNext(c)
        <3>1. reg[c].h # b BY <1>5, <2>1 DEF ClearNext, Reducing
        <3>2. dnext'[b] = dnext[b] BY <1>a, <2>1, <3>1 DEF ClearNext
        <3> QED BY <1>1, <1>5, <3>2
    <2>2. CASE StoreClaim(c) \/ LinkHead(c)
        <3>1. reg[c].b # b BY <1>5, <2>2 DEF StoreClaim, LinkHead, Deferring
        <3>2. dnext'[b] = dnext[b] BY <1>a, <2>2, <3>1 DEF StoreClaim, LinkHead
        <3> QED BY <1>1, <1>5, <3>2
    <2>3. CASE ~ClearNext(c) /\ ~StoreClaim(c) /\ ~LinkHead(c)
        <3>1. UNCHANGED dnext
            BY <2>3 DEF ClientStep, Allocate, AllocateN, Call, BlockForAllocation, TryAddBlock, Expanded, ReadTail,
           PopDeferred, UpdateList, LoadMask, AddAllocated, Allocated, LoadAll, AddAll,
           Release, ClearBits, Claim, PushDeferred, Panic, blockVars
        <3> QED BY <1>1, <1>5, <3>1
    <2> QED BY <2>1, <2>2, <2>3
<1> QED BY <1>2, <1>3, <1>4, <1>5 DEF Waits
(* What a client's step does to the list. *)
LEMMA ListStep ==
    ASSUME StorageInv, EndsAgree(list), NEW c \in Clients, ClientStep(c), fault' = "none"
    PROVE  /\ EndsAgree(list')
           /\ \A x \in Blocks : Contains(list, x) =>
                \/ Contains(list', x)
                \/ Allocated(c) /\ mask[x] = Full
                \/ LoadAll(c) /\ reg[c].b = x
           /\ UpdateList(c) /\ mask[reg[c].h] = {} => Contains(list', reg[c].h)
           /\ Expanded(c) => Contains(list', reg[c].b)
           /\ TryAddBlock(c) => Contains(list', made + 1) \/ (pc'[c] = "sync" /\ reg'[c].b = made + 1)
<1>a. /\ pc \in [Clients -> PCs] /\ reg \in [Clients -> Regs] /\ reg[c] \in Regs
    BY DEF StorageInv, ClientType
<1>b. list \in Lists(Known) /\ None \in Known BY KnownPlaces DEF StorageInv, PushedInv
<1>1. CASE Allocated(c)
    <2>1. PICK b \in Blocks : b = reg[c].b BY <1>1, Locals DEF Allocated
    <2>2. CASE mask[b] = Full
        <3>1. UnlinkAsserts(list, b) /\ list' = Unlink(list, b)
            BY <1>1, <2>1, <2>2 DEF Allocated, Panic, Relist
        <3>2. EndsAgree(list') /\ \A x \in Blocks : x # b /\ Contains(list, x) => Contains(list', x)
            BY <1>b, <3>1, UnlinkFinds
        <3>3. pc[c] = "full" BY <1>1 DEF Allocated
        <3> QED BY <1>1, <2>2, <3>2, <3>3 DEF UpdateList, Expanded, TryAddBlock
    <2>3. CASE mask[b] # Full
        <3>1. list' = list BY <1>1, <2>1, <2>3 DEF Allocated, Panic, Relist
        <3>2. pc[c] = "full" BY <1>1 DEF Allocated
        <3> QED BY <3>1, <3>2 DEF UpdateList, Expanded, TryAddBlock
    <2> QED BY <2>2, <2>3
<1>2. CASE LoadAll(c)
    <2>1. PICK b \in Blocks : b = reg[c].b BY <1>2, Locals DEF LoadAll
    <2>2. UnlinkAsserts(list, b) /\ list' = Unlink(list, b) /\ pc[c] = "load"
        BY <1>2, <2>1 DEF LoadAll, Panic, Relist
    <2>3. EndsAgree(list') /\ \A x \in Blocks : x # b /\ Contains(list, x) => Contains(list', x)
        BY <1>b, <2>2, UnlinkFinds
    <2> QED BY <1>2, <2>1, <2>2, <2>3 DEF UpdateList, Expanded, TryAddBlock
<1>3. CASE UpdateList(c)
    <2>1. PICK b \in Blocks : b = reg[c].h /\ b \in Known BY <1>3, Locals DEF UpdateList
    <2>2. UpdateAsserts(list, b, mask[b]) /\ list' = Updated(list, b, mask[b]) /\ pc[c] = "update"
        BY <1>3, <2>1 DEF UpdateList, Panic, Relist
    <2>3. PICK m : m = mask[b] OBVIOUS
    <2>4. UpdateAsserts(list, b, m) /\ list' = Updated(list, b, m) BY <2>2, <2>3
    <2>5. PICK k : k = list' OBVIOUS
    <2>6. /\ EndsAgree(k) /\ (m = {} => Contains(k, b))
          /\ \A x \in Blocks : Contains(list, x) => Contains(k, x)
        BY <1>b, <2>1, <2>4, <2>5, UpdateFinds
    <2> QED BY <2>1, <2>2, <2>3, <2>5, <2>6 DEF Expanded, TryAddBlock
<1>4. CASE Expanded(c)
    <2>1. PICK b \in Blocks : b = reg[c].b
        <3>1. reg[c].b \in 1 .. made /\ made \in 0 .. MaxBlocks /\ MaxBlocks \in Nat
            BY <1>4, SizesOK DEF Expanded, StorageInv, PushedInv, LocalsKnown, BlockType, Places
        <3> QED BY <3>1 DEF Blocks
    <2>2. list' = PushBack(list, b) /\ pc[c] = "sync" BY <1>4, <2>1 DEF Expanded, Relist
    <2> QED BY <1>b, <2>1, <2>2, PushFinds DEF UpdateList, TryAddBlock
<1>5. CASE TryAddBlock(c)
    <2>1. pc[c] = "relock" BY <1>5 DEF TryAddBlock
    <2>2. CASE Len(arrays[Active].blocks) < SizeOf(Active)
        <3>1. PICK b \in Blocks : b = made + 1 BY <2>1, RoomToMake DEF StorageInv
        <3>2. list' = PushBack(list, b) BY <1>5, <2>2, <3>1 DEF TryAddBlock, Relist
        <3> QED BY <1>b, <2>1, <3>1, <3>2, PushFinds DEF UpdateList, Expanded
    <2>3. CASE ~(Len(arrays[Active].blocks) < SizeOf(Active))
        <3>1. list' = list BY <1>5, <2>3 DEF TryAddBlock, listVars
        <3>2. pc'[c] = "sync" /\ reg'[c].b = made + 1
            BY <1>a, <1>5, <2>3 DEF TryAddBlock, Goto, Set, Regs
        <3> QED BY <2>1, <3>1, <3>2 DEF UpdateList, Expanded
    <2> QED BY <2>2, <2>3
<1>6. CASE ~Allocated(c) /\ ~LoadAll(c) /\ ~UpdateList(c) /\ ~Expanded(c) /\ ~TryAddBlock(c)
    <2>1. UNCHANGED list
        BY <1>6 DEF ClientStep, Allocate, AllocateN, Call, BlockForAllocation, ReadTail,
           PopDeferred, ClearNext, LoadMask, AddAllocated, AddAll,
           Release, ClearBits, Claim, StoreClaim, LinkHead, PushDeferred, Panic, listVars
    <2> QED BY <1>6, <2>1
<1> QED BY <1>1, <1>2, <1>3, <1>4, <1>5, <1>6

(* A block loses its last entry, or ceases to be full, by a release that *)
(* goes on to defer it.                                                   *)
LEMMA FreedIsDeferred ==
    ASSUME StorageInv, phase = "open", NEW c \in Clients, ClientStep(c), NEW b \in Blocks,
           \/ mask[b] # {} /\ mask'[b] = {}
           \/ mask[b] = Full /\ mask'[b] # Full
    PROVE  Deferring(c, b)'
<1>a. /\ pc \in [Clients -> PCs] /\ reg \in [Clients -> Regs] /\ reg[c] \in Regs
      /\ mask \in [Blocks -> SUBSET Entries]
    BY DEF StorageInv, ClientType, BlockType
<1>1. ~AddAllocated(c) /\ ~AddAll(c)
    <2>1. reg[c].set \subseteq Entries BY Locals
    <2> SUFFICES ASSUME AddAllocated(c) \/ AddAll(c) PROVE FALSE
        OBVIOUS
    <2>2. mask' = [mask EXCEPT ![reg[c].b] = @ \cup reg[c].set] BY DEF AddAllocated, AddAll
    <2>3. mask[b] \subseteq mask'[b] /\ mask'[b] \subseteq Entries BY <1>a, <2>1, <2>2
    <2> QED BY <2>3 DEF Full
<1>2. ClearBits(c)
    BY <1>1 DEF ClientStep, Allocate, AllocateN, Call, BlockForAllocation, TryAddBlock, Expanded, ReadTail,
           PopDeferred, ClearNext, UpdateList, LoadMask, Allocated, LoadAll,
           Release, Claim, StoreClaim, LinkHead, PushDeferred, Panic, blockVars
<1>3. pc[c] = "xor" /\ mask' = [mask EXCEPT ![reg[c].b] = @ \ reg[c].set] BY <1>2 DEF ClearBits
<1>4. reg[c].b = b BY <1>a, <1>3
<1>5. reg[c].set \subseteq mask[b]
    <2>1. ASSUME NEW e \in reg[c].set PROVE e \in mask[b]
        <3>1. <<b, e>> \in InFlight(c) BY <1>3, <1>4, <2>1 DEF InFlight
        <3>2. <<b, e>> \in {x \in Blocks \X Entries : x[2] \in mask[x[1]]}
            BY <3>1 DEF StorageInv, EntryInv, EntriesExclusive
        <3> QED BY <3>2
    <2> QED BY <2>1
<1>6. reg[c].set = mask[b] \/ mask[b] = Full BY <1>a, <1>3, <1>4, <1>5
<1>7. pc'[c] = "claim" /\ UNCHANGED reg
    BY <1>a, <1>2, <1>4, <1>6 DEF ClearBits, Goto
<1> QED BY <1>4, <1>7 DEF Deferring

(* A client that leaves a block it was taking leaves it with entries taken, *)
(* in the list or waiting.                                                  *)
LEMMA TakingEnds ==
    ASSUME StorageInv, phase = "open", FindInv, NEW c \in Clients, ClientStep(c), fault' = "none",
           NEW b \in Blocks, Taking(c, b), mask[b] = {}, mask'[b] = {}
    PROVE  Taking(c, b)' \/ Contains(list', b) \/ (Waits(b) /\ ~UpdateList(c))
<1>a. /\ pc \in [Clients -> PCs] /\ reg \in [Clients -> Regs] /\ reg[c] \in Regs
      /\ mask \in [Blocks -> SUBSET Entries]
    BY DEF StorageInv, ClientType, BlockType
<1>b. reg[c].b = b BY DEF Taking
<1>1. CASE pc[c] = "sync"
    <2>1. Expanded(c)
        BY <1>1 DEF ClientStep, Allocate, AllocateN, Call, BlockForAllocation, TryAddBlock, ReadTail,
           PopDeferred, ClearNext, UpdateList, LoadMask, AddAllocated, Allocated, LoadAll, AddAll,
           Release, ClearBits, Claim, StoreClaim, LinkHead, PushDeferred
    <2> QED BY <1>b, <2>1, ListStep DEF FindInv
<1>2. CASE pc[c] = "load"
    <2>1. LoadMask(c) \/ LoadAll(c)
        BY <1>2 DEF ClientStep, Allocate, AllocateN, Call, BlockForAllocation, TryAddBlock, Expanded, ReadTail,
           PopDeferred, ClearNext, UpdateList, AddAllocated, Allocated, AddAll,
           Release, ClearBits, Claim, StoreClaim, LinkHead, PushDeferred
    <2>2. pc'[c] = "add" /\ reg'[c].b = reg[c].b
        BY <1>a, <2>1 DEF LoadMask, LoadAll, Goto, Set, Regs, Panic
    <2> QED BY <1>b, <2>2 DEF Taking
<1>3. CASE pc[c] = "add"
    <2>1. AddAllocated(c) \/ AddAll(c)
        BY <1>3 DEF ClientStep, Allocate, AllocateN, Call, BlockForAllocation, TryAddBlock, Expanded, ReadTail,
           PopDeferred, ClearNext, UpdateList, LoadMask, Allocated, LoadAll,
           Release, ClearBits, Claim, StoreClaim, LinkHead, PushDeferred
    <2>2. mask' = [mask EXCEPT ![b] = @ \cup reg[c].set] BY <1>b, <2>1 DEF AddAllocated, AddAll
    <2>3. reg[c].set = {} BY <1>a, <2>2
    <2>4. reg[c].op # "one"
        BY <1>3, <2>3 DEF StorageInv, EntryInv, TakesFree
    <2>5. reg[c].op = "many" BY <2>1, <2>4 DEF AddAllocated, AddAll
    <2>6. mask[b] # Full BY SizesOK DEF Full
    <2>7. Waits(b) BY <1>b, <1>3, <2>3, <2>5, <2>6 DEF FindInv
    <2> QED BY <1>3, <2>7 DEF UpdateList
<1>4. CASE pc[c] = "full"
    <2>1. PICK e \in Entries : reg[c].set = {e} BY <1>4 DEF StorageInv, EntryInv, TakesFree
    <2>2. <<b, e>> \in InFlight(c) BY <1>b, <1>4, <2>1 DEF InFlight
    <2>3. <<b, e>> \in {x \in Blocks \X Entries : x[2] \in mask[x[1]]}
        BY <2>2 DEF StorageInv, EntryInv, EntriesExclusive
    <2>4. e \in mask[b] BY <2>3
    <2> QED BY <2>4
<1> QED BY <1>1, <1>2, <1>3, <1>4 DEF Taking
(* A client's step keeps every empty block to be found. *)
LEMMA ClientFinds ==
    ASSUME StorageInv, DeferredInv, phase = "open", ~doubled, FindInv,
           NEW c \in Clients, ClientStep(c), fault' = "none", StorageInv'
    PROVE  FindInv'
<1>a. /\ pc \in [Clients -> PCs] /\ reg \in [Clients -> Regs] /\ reg[c] \in Regs
      /\ mask \in [Blocks -> SUBSET Entries]
    BY DEF StorageInv, ClientType, BlockType
<1>b. Full # {} BY SizesOK DEF Full
<1>c. \A d \in Clients : d # c => pc'[d] = pc[d] /\ reg'[d] = reg[d] BY Others
<1>1. EndsAgree(list') BY ListStep DEF FindInv
<1>2. ASSUME NEW b \in 1 .. made', mask'[b] = {}
      PROVE  Contains(list', b) \/ Waits(b)' \/ \E d \in Clients : Taking(d, b)'
    <2>0. b \in Blocks
        <3>1. made' \in 0 .. MaxBlocks BY DEF StorageInv, BlockType, Places
        <3> QED BY <3>1, SizesOK DEF Blocks
    <2>1. CASE b \notin 1 .. made
        <3>1. made' = made \/ TryAddBlock(c) BY ClientFrame DEF Extends, Expanded
        <3>2. TryAddBlock(c) /\ made' = made + 1 BY <2>1, <3>1 DEF TryAddBlock
        <3>3. b = made + 1
            <4>1. made \in Nat BY SizesOK DEF StorageInv, BlockType, Places
            <4> QED BY <2>1, <3>2, <4>1
        <3>4. Contains(list', b) \/ (pc'[c] = "sync" /\ reg'[c].b = b) BY <3>2, <3>3, ListStep DEF FindInv
        <3> QED BY <3>4 DEF Taking
    <2>2. CASE b \in 1 .. made /\ mask[b] # {}
        <3>1. Deferring(c, b)' BY <1>2, <2>0, <2>2, FreedIsDeferred
        <3> QED BY <3>1 DEF Waits
    <2>3. CASE b \in 1 .. made /\ mask[b] = {}
        <3>1. CASE Contains(list, b)
            <4>1. CASE LoadAll(c) /\ reg[c].b = b
                <5>1. pc'[c] = "add" /\ reg'[c].b = b
                    BY <1>a, <4>1 DEF LoadAll, Goto, Set, Regs, Panic
                <5> QED BY <5>1 DEF Taking
            <4>2. CASE ~(LoadAll(c) /\ reg[c].b = b)
                BY <1>b, <2>0, <2>3, <3>1, <4>2, ListStep DEF FindInv
            <4> QED BY <4>1, <4>2
        <3>2. CASE Waits(b)
            <4>1. CASE UpdateList(c) /\ reg[c].h = b BY <2>3, <4>1, ListStep DEF FindInv
            <4>2. CASE ~(UpdateList(c) /\ reg[c].h = b) BY <2>0, <3>2, <4>2, WaitsStays
            <4> QED BY <4>1, <4>2
        <3>3. CASE \E d \in Clients : d # c /\ Taking(d, b)
            <4>1. PICK d \in Clients : d # c /\ Taking(d, b) BY <3>3
            <4>2. Taking(d, b)' BY <1>c, <4>1 DEF Taking
            <4> QED BY <4>2
        <3>4. CASE Taking(c, b)
            <4>1. Taking(c, b)' \/ Contains(list', b) \/ (Waits(b) /\ ~UpdateList(c))
                BY <1>2, <2>0, <2>3, <3>4, TakingEnds
            <4> QED BY <2>0, <4>1, WaitsStays
        <3> QED BY <2>3, <3>1, <3>2, <3>3, <3>4 DEF FindInv
    <2> QED BY <2>1, <2>2, <2>3
<1>3. ASSUME NEW d \in Clients, pc'[d] = "add", reg'[d].op = "many", reg'[d].set = {}
      PROVE  mask'[reg'[d].b] = Full \/ Waits(reg[d].b)'
    <2>1. CASE d = c
        <3>1. LoadAll(c)
            <4>1. pc'[c] = "add" => LoadMask(c) \/ LoadAll(c)
                <5>1. CASE Allocate(c) \/ AllocateN(c) BY <1>a, <5>1 DEF Allocate, AllocateN, Call, Goto
                <5>2. CASE BlockForAllocation(c) \/ TryAddBlock(c) \/ Expanded(c)
                    BY <1>a, <5>2 DEF BlockForAllocation, TryAddBlock, Expanded, Goto
                <5>3. CASE ReadTail(c) \/ PopDeferred(c) \/ ClearNext(c) \/ UpdateList(c)
                    BY <1>a, <5>3 DEF ReadTail, PopDeferred, ClearNext, UpdateList, Panic, Goto
                <5>4. CASE AddAllocated(c) \/ Allocated(c) \/ AddAll(c)
                    BY <1>a, <5>4 DEF AddAllocated, Allocated, AddAll, Panic, Goto, Idle
                <5>5. CASE Release(c) \/ ClearBits(c) \/ Claim(c) \/ StoreClaim(c) \/ LinkHead(c) \/ PushDeferred(c)
                    BY <1>a, <5>5 DEF Release, ClearBits, Claim, StoreClaim, LinkHead, PushDeferred, Goto,
                       Released, Idle
                <5> QED BY <5>1, <5>2, <5>3, <5>4, <5>5 DEF ClientStep
            <4>2. LoadMask(c) => reg'[c].op = "one" BY <1>a DEF LoadMask, Set, Regs, Panic
            <4> QED BY <1>3, <2>1, <4>1, <4>2
        <3>2. PICK b \in Blocks : b = reg[c].b BY <3>1, Locals DEF LoadAll
        <3>3. reg'[c].set = Full \ mask[b] /\ reg'[c].b = b /\ UNCHANGED mask
            BY <1>a, <3>1, <3>2 DEF LoadAll, Set, Regs, Panic, blockVars
        <3>4. mask[b] \subseteq Full BY <1>a DEF Full
        <3> QED BY <1>3, <2>1, <3>3, <3>4
    <2>2. CASE d # c
        <3>1. pc[d] = "add" /\ reg'[d] = reg[d] BY <1>c, <1>3, <2>2
        <3>2. PICK b \in Blocks : b = reg[d].b BY <3>1, Locals
        <3>3. pc[c] # "update" BY <2>2, <3>1, Sole DEF Locked
        <3>4. CASE mask[b] = Full
            <4>1. mask'[b] # Full => Deferring(c, b)' BY <3>4, FreedIsDeferred
            <4>2. Deferring(c, b)' => Waits(b)' BY DEF Waits
            <4> QED BY <3>1, <3>2, <4>1, <4>2
        <3>5. CASE mask[b] # Full
            <4>1. Waits(b) BY <1>3, <3>1, <3>2, <3>5 DEF FindInv
            <4>2. Waits(b)' BY <3>3, <4>1, WaitsStays DEF UpdateList
            <4> QED BY <3>2, <3>1, <4>2
        <3> QED BY <3>4, <3>5
    <2> QED BY <2>1, <2>2
<1> QED BY <1>1, <1>2, <1>3 DEF FindInv

(* FoundInv holds initially *)
LEMMA InitFound ==
    ASSUME Init
    PROVE  FoundInv
<1>1. /\ pc = [c \in Clients |-> "idle"] /\ list = EmptyList /\ made = 0 BY DEF Init
<1> QED BY <1>1 DEF FoundInv, FindInv, EndsAgree, EmptyList

(* and every step keeps it, *)
LEMMA FoundKeeps ==
    ASSUME BlockInv, BlockInv', FoundInv, [Next]_vars
    PROVE  FoundInv'
<1>0. StorageInv /\ DeferredInv /\ StorageInv' BY DEF BlockInv
<1>a. ASSUME UNCHANGED <<pc, reg, mask, list, dnext, made>>, FindInv PROVE FindInv'
    <2>1. \A b : Waits(b)' <=> Waits(b) BY <1>a DEF Waits, Deferring, Reducing
    <2>2. \A b, c : Taking(c, b)' <=> Taking(c, b) BY <1>a DEF Taking
    <2>3. /\ EndsAgree(list') <=> EndsAgree(list)
          /\ \A b : Contains(list', b) <=> Contains(list, b)
        BY <1>a
    <2>4. \A b \in 1 .. made' : mask'[b] = {} =>
            Contains(list', b) \/ Waits(b)' \/ \E c \in Clients : Taking(c, b)'
        BY <1>a, <2>1, <2>2, <2>3 DEF FindInv
    <2>5. ASSUME NEW c \in Clients, pc'[c] = "add" /\ reg'[c].op = "many" /\ reg'[c].set = {}
          PROVE  mask'[reg'[c].b] = Full \/ Waits(reg[c].b)'
        <3>1. PICK b : b = reg[c].b OBVIOUS
        <3>2. Waits(b) => Waits(b)' BY <2>1
        <3>3. mask[b] = Full \/ Waits(b) BY <1>a, <2>5, <3>1 DEF FindInv
        <3>4. reg'[c].b = b BY <1>a, <3>1
        <3> QED BY <1>a, <3>1, <3>2, <3>3, <3>4
    <2> QED BY <1>a, <2>3, <2>4, <2>5 DEF FindInv
<1> SUFFICES ASSUME phase' = "open", ~doubled' PROVE FindInv'
    BY DEF FoundInv
<1>1. CASE UNCHANGED vars
    BY <1>a, <1>1 DEF vars, FoundInv
<1>2. CASE Next /\ fault' # "none"
    <2>1. UNCHANGED rest BY <1>2, FaultStep
    <2>2. UNCHANGED <<pc, reg, mask, list, dnext, made, phase>> BY <2>1 DEF rest
    <2>3. ~doubled BY <1>2, HistoryStays
    <2> QED BY <1>a, <2>2, <2>3 DEF FoundInv
<1>3. CASE Next /\ fault' = "none"
    <2>1. ~doubled BY <1>3, HistoryStays
    <2>2. ASSUME NEW c \in Clients, ClientStep(c) PROVE FindInv'
        <3>1. phase = "open" BY <1>0, <2>2, ClientOpen
        <3> QED BY <1>0, <1>3, <2>1, <2>2, <3>1, ClientFinds DEF FoundInv
    <2>3. ASSUME (\E r \in Readers : ReaderStep(r)) \/ Synchronize PROVE FindInv'
        <3>1. UNCHANGED <<pc, reg, mask, list, dnext, made, phase>>
            BY <2>3 DEF ReaderStep, OpenSection, ReadArray, IncrementRefcount, LeaveSection,
               RelinquishBlockArray, storageVars, Synchronize
        <3> QED BY <1>a, <2>1, <3>1 DEF FoundInv
    <2>4. ~DropStep
        BY <1>3 DEF DropStep, BeginDrop, DropDeferred, DropList, DropBlocks, Panic
    <2> QED BY <1>3, <2>2, <2>3, <2>4 DEF Next
<1> QED BY <1>1, <1>2, <1>3

(* and together with the list that has all that is linked, it says that an *)
(* empty block can be found.                                               *)
LEMMA InvFindable ==
    ASSUME StorageInv, DeferredInv, FoundInv
    PROVE  EmptyBlockFindable
<1> SUFFICES ASSUME phase = "open", ~doubled, NEW b \in 1 .. made, mask[b] = {}
             PROVE  \/ Contains(list, b)
                    \/ b \in DeferredBlocks
                    \/ \E c \in Clients : Deferring(c, b) \/ Reducing(c, b) \/ Taking(c, b)
    BY DEF EmptyBlockFindable
<1>1. b \in Blocks BY SizesOK DEF StorageInv, BlockType, Places, Blocks
<1>2. Contains(list, b) \/ Waits(b) \/ \E c \in Clients : Taking(c, b) BY DEF FoundInv, FindInv
<1>3. ASSUME dnext[b] # None
      PROVE  b \in DeferredBlocks \/ \E c \in Clients : Deferring(c, b) \/ Reducing(c, b)
    <2>1. CASE b \in Listed BY <2>1 DEF DeferredInv, Chained
    <2>2. CASE b \notin Listed
        <3>1. PICK c \in Clients : Busy(c, b) BY <1>1, <1>3, <2>2 DEF Listed
        <3> QED BY <3>1 DEF Busy, Deferring, Reducing
    <2> QED BY <2>1, <2>2
<1> QED BY <1>2, <1>3 DEF Waits

(* release_entries and the two lists: a block with nothing in use can be    *)
(* found again, a block that may be deleted is unused, and no assertion     *)
(* fails before the allocation list has held two blocks, whatever calls     *)
(* interleave and however many.                                             *)
THEOREM BlocksSafe == Spec => []BlocksOK
<1>1. Init => FoundInv BY InitFound
<1>2. BlockInv /\ BlockInv' /\ FoundInv /\ [Next]_vars => FoundInv' BY FoundKeeps
<1>3. BlockInv /\ FoundInv => BlocksOK
    BY InvFindable, InvDelete DEF BlockInv, BlocksOK
<1> QED BY <1>1, <1>2, <1>3, AlwaysBlockInv, PTL DEF Spec
=============================================================================
