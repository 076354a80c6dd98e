----------------------------- MODULE ObjStorage -----------------------------
(***************************************************************************)
(* heap/obj_storage.rs: off-heap entries, allocated under a mutex and      *)
(* released without it.  Blocks of entries sit in the active array (never  *)
(* taken out), those with free entries in the allocation list; a release   *)
(* that frees the first or the last entry of a block queues the block on a *)
(* lock-free list that a later allocation works off.  The active array is  *)
(* replaced when it is full, and iterating readers, which have no function *)
(* in the crate yet, obtain it as the comment in replace_active_array says.*)
(***************************************************************************)
EXTENDS SingleWriter, FiniteSets, Sequences, FiniteSetsExt

CONSTANTS
    Clients,    \* threads that allocate and release
    Entries,    \* entry indices of a block (64 in the code), 0 .. n-1
    MaxBlocks,  \* bound on the blocks ever made
    ArraySize,  \* size of the first active array (8 in the code)
    Bulks,      \* lengths of the slices given to allocaten
    Budgets     \* bounds of the runs explored: pairs of calls and sections

VARIABLES
    pc, reg,     \* per client: where it is, and its locals
    lock,        \* holder of allocation_mutex
    mask,        \* allocated_bitmask of every block
    count,       \* allocation_count
    list,        \* the allocation list: head, tail and the links of every block
    deferred,    \* deferred_updates
    dnext,       \* deferred_updates_next of every block
    refs,        \* release_refcount of every block
    made,        \* blocks constructed so far
    arrays,      \* the active arrays made so far: blocks, refcount, alive
    view,        \* per reader: the array it has got hold of (0: none)
    held,        \* entries in the hands of clients
    phase,       \* "open", or how far Drop has come
    fault,       \* an assertion that failed
    callsLeft,   \* calls the run may still make: a bound
    crowded,     \* history: the allocation list has held two blocks
    doubled      \* history: a block was claimed while it was claimed already

vars == <<pc, reg, lock, mask, count, list, deferred, dnext, refs, made, arrays,
          view, held, phase, fault, callsLeft, crowded, doubled, syncVars>>
blockVars == <<mask, deferred, dnext, refs>>
listVars == <<list, crowded>>

None == 0
Blocks == 1 .. MaxBlocks
Full == Entries
NoReg == [op |-> "none", want |-> 0, b |-> None, h |-> None, t |-> None, set |-> {}]
Nobody == "nobody"

ASSUME SizesOK ==
    /\ MaxBlocks \in Nat \ {0} /\ ArraySize \in Nat \ {0}
    /\ IsFiniteSet(Entries) /\ Entries # {} /\ Entries \subseteq Nat /\ Bulks \subseteq Nat
    /\ IsFiniteSet(Clients) /\ Nobody \notin Clients
    /\ IsFiniteSet(Readers)
    /\ Budgets \subseteq Nat \X Nat

SizeOf(a) == ArraySize * 2 ^ (a - 1)
Active == Len(arrays)

-----------------------------------------------------------------------------
(* AllocationList *)

NoLink == [b \in Blocks |-> None]
EmptyList == [head |-> None, tail |-> None, prev |-> NoLink, next |-> NoLink]

PushFront(l, b) ==
    IF l.head = None THEN [l EXCEPT !.head = b, !.tail = b]
    ELSE [l EXCEPT !.next[b] = l.head, !.prev[l.head] = b, !.head = b]

PushBack(l, b) ==
    IF l.tail = None THEN [l EXCEPT !.head = b, !.tail = b]
    ELSE [l EXCEPT !.prev[b] = l.tail, !.next[l.tail] = b, !.tail = b]

(* unlink: the links of the block itself are left as they are. *)
UnlinkAsserts(l, b) ==
    /\ l.prev[b] = None => l.head = b
    /\ l.next[b] = None => l.tail = b

Unlink(l, b) ==
    LET p == l.prev[b]
        n == l.next[b]
        ends == [l EXCEPT !.head = IF p = None THEN n ELSE @,
                          !.tail = IF n = None THEN p ELSE @]
    IN [ends EXCEPT !.next = [x \in Blocks |-> IF x = p THEN n ELSE @[x]],
                    !.prev = [x \in Blocks |-> IF x = n THEN p ELSE @[x]]]

Contains(l, b) == l.next[b] # None \/ l.tail = b

-----------------------------------------------------------------------------
(* ActiveArray *)

NewArray(bs) == [blocks |-> bs, refs |-> 1, alive |-> TRUE]

Relinquish(as, a) ==
    [as EXCEPT ![a].refs = @ - 1, ![a].alive = as[a].refs > 1]

PushBlock(as, a, b) == [as EXCEPT ![a].blocks = Append(@, b)]

-----------------------------------------------------------------------------
Init ==
    /\ SyncInit
    /\ pc = [c \in Clients |-> "idle"]
    /\ reg = [c \in Clients |-> NoReg]
    /\ lock = Nobody
    /\ mask = [b \in Blocks |-> {}]
    /\ count = 0
    /\ list = EmptyList
    /\ deferred = None
    /\ dnext = NoLink
    /\ refs = [b \in Blocks |-> 0]
    /\ made = 0
    /\ arrays = <<NewArray(<<>>)>>
    /\ view = [r \in Readers |-> 0]
    /\ held = {}
    /\ phase = "open"
    /\ fault = "none"
    /\ \E k \in Budgets : callsLeft = k[1] /\ sectionsLeft = k[2]
    /\ crowded = FALSE
    /\ doubled = FALSE

Goto(c, l) == pc' = [pc EXCEPT ![c] = l]
Set(c, r) == reg' = [reg EXCEPT ![c] = r]
Idle(c) == Goto(c, "idle") /\ Set(c, NoReg)

(* A change of the allocation list, noting whether it holds two blocks. *)
Relist(l) ==
    /\ list' = l
    /\ crowded' = (crowded \/ l.head # l.tail)

(* A failed assertion ends the run. *)
Panic(why) ==
    /\ fault' = why
    /\ UNCHANGED <<pc, reg, lock, mask, count, list, deferred, dnext, refs, made, arrays,
                   view, held, phase, callsLeft, crowded, doubled, syncVars>>

-----------------------------------------------------------------------------
(* allocate and allocaten: the block *)

Call(c, op, n) ==
    /\ pc[c] = "idle" /\ phase = "open"
    /\ callsLeft > 0 /\ callsLeft' = callsLeft - 1
    /\ lock = Nobody
    /\ lock' = c
    /\ Goto(c, "find")
    /\ Set(c, [NoReg EXCEPT !.op = op, !.want = n])
    /\ UNCHANGED <<blockVars, count, listVars, made, arrays, view, held, phase, fault, doubled, syncVars>>

Allocate(c) == Call(c, "one", 1)
AllocateN(c) == \E n \in Bulks : Call(c, "many", n)

(* block_for_allocation: the head of the list, else a deferred update, else *)
(* a new block, made without the lock.                                      *)
BlockForAllocation(c) ==
    /\ pc[c] = "find"
    /\ IF list.head # None
       THEN /\ Goto(c, "load") /\ Set(c, [reg[c] EXCEPT !.b = list.head])
            /\ UNCHANGED lock
       ELSE IF deferred # None
       THEN /\ Goto(c, "next") /\ Set(c, [reg[c] EXCEPT !.h = deferred])
            /\ UNCHANGED lock
       ELSE /\ made + Cardinality({d \in Clients : pc[d] = "relock"}) < MaxBlocks
            /\ lock' = Nobody
            /\ Goto(c, "relock") /\ UNCHANGED reg
    /\ UNCHANGED <<blockVars, count, listVars, made, arrays, view, held, phase, fault, callsLeft, doubled, syncVars>>

(* try_add_block that goes on without taking the lock back. *)
BugTryAddBlock(c) ==
    LET b == made + 1 IN
    /\ pc[c] = "relock"
    /\ UNCHANGED lock
    /\ made' = b
    /\ IF Len(arrays[Active].blocks) < SizeOf(Active)
       THEN /\ arrays' = PushBlock(arrays, Active, b)
            /\ Relist(PushBack(list, b))
            /\ Goto(c, "find")
            /\ UNCHANGED <<reg, syncVars>>
       ELSE \* expand_active_array, replace_active_array
            /\ arrays' = Append(arrays, NewArray(arrays[Active].blocks))
            /\ writer' = [at |-> "store", value |-> enter, old |-> 0]
            /\ Goto(c, "sync") /\ Set(c, [reg[c] EXCEPT !.b = b])
            /\ UNCHANGED <<listVars, enter, exit, waitingFor, wakeup, section, sectionsLeft>>
    /\ UNCHANGED <<blockVars, count, view, held, phase, fault, callsLeft, doubled>>

(* try_add_block, past the construction of the block. *)
TryAddBlock(c) ==
    LET b == made + 1 IN
    /\ pc[c] = "relock"
    /\ lock = Nobody
    /\ lock' = c
    /\ made' = b
    /\ IF Len(arrays[Active].blocks) < SizeOf(Active)
       THEN /\ arrays' = PushBlock(arrays, Active, b)
            /\ Relist(PushBack(list, b))
            /\ Goto(c, "find")
            /\ UNCHANGED <<reg, syncVars>>
       ELSE \* expand_active_array, replace_active_array
            /\ arrays' = Append(arrays, NewArray(arrays[Active].blocks))
            /\ writer' = [at |-> "store", value |-> enter, old |-> 0]
            /\ Goto(c, "sync") /\ Set(c, [reg[c] EXCEPT !.b = b])
            /\ UNCHANGED <<listVars, enter, exit, waitingFor, wakeup, section, sectionsLeft>>
    /\ UNCHANGED <<blockVars, count, view, held, phase, fault, callsLeft, doubled>>

(* relinquish_block_array, and the push that failed before. *)
Expanded(c) ==
    /\ pc[c] = "sync" /\ writer.at = "done"
    /\ arrays' = PushBlock(Relinquish(arrays, Active - 1), Active, reg[c].b)
    /\ Relist(PushBack(list, reg[c].b))
    /\ writer' = NoWriter
    /\ Goto(c, "find") /\ Set(c, [reg[c] EXCEPT !.b = None])
    /\ UNCHANGED <<blockVars, lock, count, made, view, held, phase, fault, callsLeft, doubled,
                   enter, exit, waitingFor, wakeup, section, sectionsLeft>>

-----------------------------------------------------------------------------
(* reduce_deferred_updates *)

ReadTail(c) ==
    LET n == dnext[reg[c].h] IN
    /\ pc[c] = "next"
    /\ Set(c, [reg[c] EXCEPT !.t = IF n = reg[c].h THEN None ELSE n])
    /\ Goto(c, "pop")
    /\ UNCHANGED <<blockVars, lock, count, listVars, made, arrays, view, held, phase, fault, callsLeft, doubled, syncVars>>

PopDeferred(c) ==
    /\ pc[c] = "pop"
    /\ IF deferred = reg[c].h
       THEN /\ deferred' = reg[c].t
            /\ Goto(c, "clear") /\ UNCHANGED reg
       ELSE /\ Set(c, [reg[c] EXCEPT !.h = deferred, !.t = None])
            /\ Goto(c, "next") /\ UNCHANGED deferred
    /\ UNCHANGED <<mask, dnext, refs, lock, count, listVars, made, arrays, view, held, phase, fault, callsLeft, doubled, syncVars>>

ClearNext(c) ==
    /\ pc[c] = "clear"
    /\ dnext' = [dnext EXCEPT ![reg[c].h] = None]
    /\ Goto(c, "update") /\ Set(c, [reg[c] EXCEPT !.t = None])
    /\ UNCHANGED <<mask, deferred, refs, lock, count, listVars, made, arrays, view, held, phase, fault, callsLeft, doubled, syncVars>>

(* What the list should say of a block with these entries in use. *)
Updated(l, b, m) ==
    CASE m = Full -> l
      [] m # Full /\ Contains(l, b) -> IF m = {} THEN PushBack(Unlink(l, b), b) ELSE l
      [] m = {} /\ ~Contains(l, b) -> PushBack(l, b)
      [] OTHER -> PushFront(l, b)

UpdateAsserts(l, b, m) ==
    /\ m = Full => ~Contains(l, b)
    /\ m = {} /\ Contains(l, b) => UnlinkAsserts(l, b)

UpdateList(c) ==
    LET b == reg[c].h IN
    /\ pc[c] = "update"
    /\ IF UpdateAsserts(list, b, mask[b])
       THEN /\ Relist(Updated(list, b, mask[b]))
            /\ Goto(c, "find") /\ Set(c, [reg[c] EXCEPT !.h = None])
            /\ UNCHANGED <<blockVars, lock, count, made, arrays, view, held, phase, fault, callsLeft, doubled, syncVars>>
       ELSE Panic("reduce")

-----------------------------------------------------------------------------
(* allocate and allocaten: the entries *)

Lowest(s, n) == {e \in s : Cardinality({d \in s : d < e}) < n}

(* Block::allocate, up to its load of the bitmask. *)
LoadMask(c) ==
    LET b == reg[c].b IN
    /\ pc[c] = "load" /\ reg[c].op = "one"
    /\ IF mask[b] # Full
       THEN /\ Set(c, [reg[c] EXCEPT !.set = Lowest(Full \ mask[b], 1)])
            /\ Goto(c, "add")
            /\ UNCHANGED <<blockVars, lock, count, listVars, made, arrays, view, held, phase, fault, callsLeft, doubled, syncVars>>
       ELSE Panic("index")

AddAllocated(c) ==
    LET b == reg[c].b IN
    /\ pc[c] = "add" /\ reg[c].op = "one"
    /\ mask' = [mask EXCEPT ![b] = @ \cup reg[c].set]
    /\ Goto(c, "full")
    /\ UNCHANGED <<reg, deferred, dnext, refs, lock, count, listVars, made, arrays, view, held, phase, fault, callsLeft, doubled, syncVars>>

(* Rest of allocate: a full block leaves the list. *)
Allocated(c) ==
    LET b == reg[c].b IN
    /\ pc[c] = "full"
    /\ IF mask[b] = Full /\ ~UnlinkAsserts(list, b)
       THEN Panic("unlink")
       ELSE /\ Relist(IF mask[b] = Full THEN Unlink(list, b) ELSE list)
            /\ count' = count + 1
            /\ held' = held \cup {<<b, e>> : e \in reg[c].set}
            /\ lock' = Nobody
            /\ Idle(c)
            /\ UNCHANGED <<blockVars, made, arrays, view, phase, fault, callsLeft, doubled, syncVars>>

(* allocaten: the block leaves the list, whatever is free in it is taken. *)
LoadAll(c) ==
    LET b == reg[c].b IN
    /\ pc[c] = "load" /\ reg[c].op = "many"
    /\ IF UnlinkAsserts(list, b)
       THEN /\ Relist(Unlink(list, b))
            /\ Set(c, [reg[c] EXCEPT !.set = Full \ mask[b]])
            /\ Goto(c, "add")
            /\ UNCHANGED <<blockVars, lock, count, made, arrays, view, held, phase, fault, callsLeft, doubled, syncVars>>
       ELSE Panic("unlink")

(* allocaten, without the lock again: it keeps what was asked for and goes *)
(* on to release the rest.                                                 *)
AddAll(c) ==
    LET b == reg[c].b
        kept == Lowest(reg[c].set, reg[c].want)
        rest == reg[c].set \ kept
    IN /\ pc[c] = "add" /\ reg[c].op = "many"
       /\ mask' = [mask EXCEPT ![b] = @ \cup reg[c].set]
       /\ lock' = Nobody
       /\ count' = count + Cardinality(reg[c].set)
       /\ held' = held \cup {<<b, e>> : e \in kept}
       /\ IF rest = {} THEN Idle(c) /\ UNCHANGED refs
          ELSE /\ Goto(c, "xor") /\ Set(c, [reg[c] EXCEPT !.set = rest])
               /\ refs' = [refs EXCEPT ![b] = @ + 1]
       /\ UNCHANGED <<deferred, dnext, listVars, made, arrays, view, phase, fault, callsLeft, doubled, syncVars>>

-----------------------------------------------------------------------------
(* release and release_entries *)

Release(c) ==
    /\ pc[c] = "idle" /\ phase = "open"
    /\ callsLeft > 0 /\ callsLeft' = callsLeft - 1
    /\ \E e \in held :
         /\ held' = held \ {e}
         /\ refs' = [refs EXCEPT ![e[1]] = @ + 1]
         /\ Set(c, [NoReg EXCEPT !.op = "release", !.b = e[1], !.set = {e[2]}])
    /\ Goto(c, "xor")
    /\ UNCHANGED <<mask, deferred, dnext, lock, count, listVars, made, arrays, view, phase, fault, doubled, syncVars>>

(* The end of a release: release_refcount down, then allocation_count. *)
Released(c) ==
    /\ refs' = [refs EXCEPT ![reg[c].b] = @ - 1]
    /\ count' = count - Cardinality(reg[c].set)
    /\ Idle(c)

(* release_entries that only tells of full blocks. *)
BugClearBits(c) ==
    LET b == reg[c].b
        old == mask[b]
    IN /\ pc[c] = "xor"
       /\ mask' = [mask EXCEPT ![b] = @ \ reg[c].set]
       /\ IF old = Full
          THEN Goto(c, "claim") /\ UNCHANGED <<reg, refs, count>>
          ELSE Released(c)
       /\ UNCHANGED <<deferred, dnext, lock, listVars, made, arrays, view, held, phase, fault, callsLeft, doubled, syncVars>>

(* The bits are cleared; the first and the last entry to be freed make the *)
(* block a deferred update.                                                *)
ClearBits(c) ==
    LET b == reg[c].b
        old == mask[b]
    IN /\ pc[c] = "xor"
       /\ mask' = [mask EXCEPT ![b] = @ \ reg[c].set]
       /\ IF reg[c].set = old \/ old = Full
          THEN Goto(c, "claim") /\ UNCHANGED <<reg, refs, count>>
          ELSE Released(c)
       /\ UNCHANGED <<deferred, dnext, lock, listVars, made, arrays, view, held, phase, fault, callsLeft, doubled, syncVars>>

(* A load and, a step later, a store: two releasers may both claim. *)
Claim(c) ==
    /\ pc[c] = "claim"
    /\ IF dnext[reg[c].b] = None
       THEN Goto(c, "claimed") /\ UNCHANGED <<reg, refs, count>>
       ELSE Released(c)
    /\ UNCHANGED <<mask, deferred, dnext, lock, listVars, made, arrays, view, held, phase, fault, callsLeft, doubled, syncVars>>

StoreClaim(c) ==
    /\ pc[c] = "claimed"
    /\ dnext' = [dnext EXCEPT ![reg[c].b] = reg[c].b]
    /\ doubled' = (doubled \/ dnext[reg[c].b] # None)
    /\ Set(c, [reg[c] EXCEPT !.h = deferred])
    /\ Goto(c, "link")
    /\ UNCHANGED <<mask, deferred, refs, lock, count, listVars, made, arrays, view, held, phase, fault, callsLeft, syncVars>>

(* The link to the head it has seen, itself when there is none. *)
LinkHead(c) ==
    LET r == reg[c] IN
    /\ pc[c] = "link"
    /\ dnext' = [dnext EXCEPT ![r.b] = IF r.h = None THEN r.b ELSE r.h]
    /\ Goto(c, "push")
    /\ UNCHANGED <<reg, mask, deferred, refs, lock, count, listVars, made, arrays, view, held, phase, fault, callsLeft, doubled, syncVars>>

PushDeferred(c) ==
    /\ pc[c] = "push"
    /\ IF deferred = reg[c].h
       THEN deferred' = reg[c].b /\ Released(c)
       ELSE /\ Set(c, [reg[c] EXCEPT !.h = deferred])
            /\ Goto(c, "link") /\ UNCHANGED <<deferred, refs, count>>
    /\ UNCHANGED <<mask, dnext, lock, listVars, made, arrays, view, held, phase, fault, callsLeft, doubled, syncVars>>

-----------------------------------------------------------------------------
(* Readers of the active array *)

storageVars == <<pc, reg, lock, mask, count, list, deferred, dnext, refs, made,
                 held, phase, fault, callsLeft, crowded, doubled>>

OpenSection(r) == phase = "open" /\ view[r] = 0 /\ Enter(r) /\ UNCHANGED <<storageVars, arrays, view>>

(* Inside the section: the array is read, then its refcount raised. *)
ReadArray(r) ==
    /\ section[r].at = "in" /\ view[r] = 0
    /\ view' = [view EXCEPT ![r] = Active]
    /\ UNCHANGED <<storageVars, arrays, syncVars>>

IncrementRefcount(r) ==
    /\ section[r].at = "in" /\ view[r] # 0
    /\ arrays' = [arrays EXCEPT ![view[r]].refs = @ + 1]
    /\ Exit(r)
    /\ UNCHANGED <<storageVars, view>>

LeaveSection(r) == ExitSignal(r) /\ UNCHANGED <<storageVars, arrays, view>>

(* The reader is done with its array. *)
RelinquishBlockArray(r) ==
    /\ section[r].at = "out" /\ view[r] # 0
    /\ arrays' = Relinquish(arrays, view[r])
    /\ view' = [view EXCEPT ![r] = 0]
    /\ UNCHANGED <<storageVars, syncVars>>

Synchronize == SyncStep /\ UNCHANGED <<storageVars, arrays, view>>

-----------------------------------------------------------------------------
(* Drop for ObjStorage: nobody else has a reference to it. *)

BeginDrop ==
    /\ phase = "open"
    /\ \A c \in Clients : pc[c] = "idle"
    /\ \A r \in Readers : section[r].at = "out" /\ view[r] = 0
    /\ phase' = "deferred"
    /\ UNCHANGED <<pc, reg, lock, blockVars, count, listVars, made, arrays, view, held, fault, callsLeft, doubled, syncVars>>

DropDeferred ==
    /\ phase = "deferred"
    /\ IF deferred # None
       THEN /\ deferred' = dnext[deferred]
            /\ dnext' = [dnext EXCEPT ![deferred] = None]
            /\ UNCHANGED phase
       ELSE phase' = "list" /\ UNCHANGED <<deferred, dnext>>
    /\ UNCHANGED <<pc, reg, lock, mask, refs, count, listVars, made, arrays, view, held, fault, callsLeft, doubled, syncVars>>

DropList ==
    /\ phase = "list"
    /\ IF list.head # None /\ ~UnlinkAsserts(list, list.head)
       THEN Panic("unlink")
       ELSE /\ IF list.head # None
               THEN Relist(Unlink(list, list.head)) /\ UNCHANGED phase
               ELSE phase' = "array" /\ UNCHANGED listVars
            /\ UNCHANGED <<pc, reg, lock, blockVars, count, made, arrays, view, held, fault, callsLeft, doubled, syncVars>>

(* delete_block asserts that the block is in no list. *)
DropBlocks ==
    /\ phase = "array"
    /\ IF \E i \in DOMAIN arrays[Active].blocks :
            LET b == arrays[Active].blocks[i] IN list.prev[b] # None \/ list.next[b] # None
       THEN Panic("attached")
       ELSE /\ phase' = "closed"
            /\ arrays' = Relinquish(arrays, Active)
            /\ mask' = [b \in Blocks |-> {}]
            /\ UNCHANGED <<pc, reg, lock, deferred, dnext, refs, count, listVars, made,
                           view, held, fault, callsLeft, doubled, syncVars>>

-----------------------------------------------------------------------------
ClientStep(c) ==
    \/ Allocate(c) \/ AllocateN(c) \/ BlockForAllocation(c) \/ TryAddBlock(c) \/ Expanded(c)
    \/ ReadTail(c) \/ PopDeferred(c) \/ ClearNext(c) \/ UpdateList(c)
    \/ LoadMask(c) \/ AddAllocated(c) \/ Allocated(c) \/ LoadAll(c) \/ AddAll(c)
    \/ Release(c) \/ ClearBits(c) \/ Claim(c) \/ StoreClaim(c) \/ LinkHead(c)
    \/ PushDeferred(c)

ReaderStep(r) ==
    \/ OpenSection(r) \/ ReadArray(r) \/ IncrementRefcount(r) \/ LeaveSection(r)
    \/ RelinquishBlockArray(r)

DropStep == BeginDrop \/ DropDeferred \/ DropList \/ DropBlocks

Next ==
    /\ fault = "none"
    /\ \/ \E c \in Clients : ClientStep(c)
       \/ \E r \in Readers : ReaderStep(r)
       \/ Synchronize
       \/ DropStep

Spec == Init /\ [][Next]_vars

-----------------------------------------------------------------------------
(* Type invariant. *)
TypeOK ==
    /\ pc \in [Clients -> {"idle", "find", "relock", "sync", "next", "pop", "clear", "update",
                           "load", "add", "full", "xor", "claim", "claimed", "link", "push"}]
    /\ \A c \in Clients :
         /\ reg[c].b \in 0 .. made /\ reg[c].h \in 0 .. made /\ reg[c].t \in 0 .. made
         /\ reg[c].set \subseteq Entries
    /\ lock \in Clients \cup {Nobody}
    /\ mask \in [Blocks -> SUBSET Entries]
    /\ count \in Nat
    /\ {list.head, list.tail, deferred} \subseteq 0 .. made
    /\ list.prev \in [Blocks -> 0 .. MaxBlocks] /\ list.next \in [Blocks -> 0 .. MaxBlocks]
    /\ dnext \in [Blocks -> 0 .. MaxBlocks]
    /\ refs \in [Blocks -> 0 .. Cardinality(Clients)]
    /\ \A a \in DOMAIN arrays : arrays[a].refs \in 0 .. 1 + Cardinality(Readers)
    /\ view \in [Readers -> 0 .. Active]
    /\ enter \in Nat /\ exit \in [0 .. 1 -> Nat] /\ waitingFor \in Nat /\ wakeup \in Nat

(* Entries a client is taking or giving back. *)
InFlight(c) ==
    IF pc[c] \in {"full", "xor"} THEN {<<reg[c].b, e>> : e \in reg[c].set} ELSE {}

(* allocate, allocaten, release: whatever the clients do, the bits set are *)
(* exactly the entries handed out or in flight, and no entry is with two.  *)
EntriesExclusive ==
    phase # "closed" =>
    /\ {x \in Blocks \X Entries : x[2] \in mask[x[1]]} =
         held \cup UNION {InFlight(c) : c \in Clients}
    /\ \A c \in Clients : InFlight(c) \cap held = {}
    /\ \A c, d \in Clients : c # d => InFlight(c) \cap InFlight(d) = {}

(* allocation_count is the number of entries in use once calls are over. *)
CountAgrees ==
    (\A c \in Clients : pc[c] = "idle") => count = Cardinality(held)

(* The assertions of unlink, reduce_deferred_updates and delete_block, and *)
(* the index check of Block::allocate, fail only after the allocation list *)
(* has held two blocks: then a block keeps the links of the list it left.  *)
FaultsNeedTwoBlocks == fault # "none" => crowded

Deferring(c, b) ==
    reg[c].b = b /\ pc[c] \in {"claim", "claimed", "link", "push"}
Reducing(c, b) == reg[c].h = b /\ pc[c] \in {"clear", "update"}
Taking(c, b) == reg[c].b = b /\ pc[c] \in {"sync", "load", "add", "full"}

(* The deferred list: the least set that has its head and follows the links. *)
DeferredBlocks ==
    {b \in Blocks : \A S \in SUBSET Blocks :
        (deferred \in S \cup {None} /\ \A d \in S : dnext[d] \in S \cup {None}) => b \in S}

(* release_entries: a block whose entries have all been given back is not  *)
(* lost: it is in the list, waits on the deferred list, or a thread is     *)
(* about to put it there.                                                  *)
EmptyBlockFindable ==
    phase = "open" /\ ~doubled =>
    \A b \in 1 .. made :
       mask[b] = {} => \/ Contains(list, b)
                       \/ b \in DeferredBlocks
                       \/ \E c \in Clients : Deferring(c, b) \/ Reducing(c, b) \/ Taking(c, b)

(* is_safe_to_delete: no such block is on the deferred list or in the      *)
(* hands of a releasing thread.                                            *)
IsSafeToDelete(b) == refs[b] = 0 /\ dnext[b] = None
SafeToDelete ==
    phase = "open" /\ ~doubled =>
    \A b \in 1 .. made :
       IsSafeToDelete(b) => /\ b \notin DeferredBlocks
                            /\ \A c \in Clients : ~Deferring(c, b)

(* replace_active_array: a reader never has an array that was destroyed,   *)
(* and the current array has every block with entries in use.              *)
ArrayAlive ==
    /\ \A r \in Readers : view[r] # 0 => arrays[view[r]].alive
    /\ phase # "closed" =>
         \A b \in Blocks : mask[b] # {} =>
            \E i \in DOMAIN arrays[Active].blocks : arrays[Active].blocks[i] = b

(* single_writer.rs, exit: a writer that sleeps is going to be woken: a     *)
(* section it waits for is still open, or the last one is about to signal. *)
WakeupComing ==
    writer.at = "wait" /\ wakeup = 0 =>
       \E r \in Readers :
          \/ section[r].at = "in" /\ section[r].val % 2 = writer.old % 2
          \/ section[r].at = "leaving" /\ section[r].val = waitingFor

\* An entry belongs to one client, and allocation_count counts the entries in use.
EntriesOK == TypeOK /\ EntriesExclusive /\ CountAgrees

\* No block is lost and none is deleted in use: an empty one can be found, what is
\* deleted is on no list, and assertions fail only after two blocks were listed.
BlocksOK == FaultsNeedTwoBlocks /\ EmptyBlockFindable /\ SafeToDelete

\* A reader's array stays alive while it holds it, and the writer that waits for
\* readers is woken by the last of them (replace_active_array, synchronize).
ReadersOK == ArrayAlive /\ WakeupComing
=============================================================================
