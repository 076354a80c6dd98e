------------------------------ MODULE Regions -------------------------------
(***************************************************************************)
(* The region allocator: region states (heap/region.rs), the segregated    *)
(* free list of a region (heap/free_list.rs), the set of regions open to   *)
(* mutators (heap/free_set.rs), thread local allocation buffers            *)
(* (heap/tlab.rs, heap/thread.rs), the sweep that rebuilds free lists      *)
(* (heap/sweeper.rs) and the return of empty regions to the system         *)
(* (Heap::entry_uncommit).                                                 *)
(*                                                                         *)
(* Memory is counted in units of 16 bytes, the alignment of every object,  *)
(* so no remainder is smaller than a free list entry and Filler objects do *)
(* not occur.  Everything the code does under heap.lock is one step.  Dead *)
(* objects are not kept: a sweep decides by the mark bits alone.  An       *)
(* allocation that fails is abandoned here; its retries are in Controller. *)
(*                                                                         *)
(* Three defects lead to memory in use being given away; the model stops   *)
(* there and records which one in fault.                                   *)
(*                                                                         *)
(* Definitions named Bug... are no part of the specification: each is a    *)
(* definition with a plausible mistake, which a property must notice.      *)
(***************************************************************************)
EXTENDS Naturals, FiniteSets, SequencesExt

CONSTANTS
  Mutators,
  MainThread,     \* the mutator whose epilogue runs in a safepoint scope
  NumRegions,     \* HeapOptions::region_count
  RegionLog,      \* region_size_log2, in units
  InitialRegions, \* regions committed at start
  MinRegions,     \* regions entry_uncommit leaves committed (shrink_until)
  TlabSize,       \* HeapOptions::max_tlab_size, in units
  MinTlabSize,
  Sizes,          \* object sizes, in units
  MaxObjects,     \* bound: live objects
  MaxReturned     \* bound: units of TLABs given back between two rebuilds

RegionSize == 2 ^ RegionLog
Indices == 0 .. NumRegions - 1
NoRegion == NumRegions
NoBlock == <<0, 0>>

ASSUME RegionsAssumption ==
  /\ IsFiniteSet(Mutators)
  /\ NumRegions \in Nat \ {0} /\ RegionLog \in Nat
  /\ InitialRegions \in 1 .. NumRegions /\ MinRegions \in 1 .. NumRegions
  /\ TlabSize \in 1 .. RegionSize /\ MinTlabSize \in 1 .. TlabSize
  /\ Sizes \subseteq Nat \ {0} /\ IsFiniteSet(Sizes)
  /\ MaxObjects \in Nat /\ MaxReturned \in Nat

\* Arithmetic, which the provers lack for exponents.
ASSUME PowersOfTwo ==
  2 ^ 0 = 1 /\ \A n \in 0 .. RegionLog : 2 ^ n \in Nat /\ 2 ^ (n + 1) = 2 * 2 ^ n

VARIABLES
  region,     \* state, free list and to_sweep of every HeapRegion, and the
              \* heap_size in the header of a large object that begins there
  bits,       \* mutator_free_bitmap
  bounds,     \* mutator_leftmost and mutator_rightmost
  capacity,   \* RegionFreeSet::capacity
  used,       \* RegionFreeSet::used
  returned,   \* units TLABs gave back since the last rebuild (history)
  committed,  \* Heap::commited, in regions
  starts,     \* object_start_bitmap of all regions
  tlab,       \* start, top and end of every thread's buffer
  want,       \* size a mutator is allocating, 0 when none
  pc,         \* where a mutator is in allocate_slow or in its epilogue
  objs,       \* objects, as blocks, until a collection finds them dead
  phase,      \* the collection: idle or sweep
  candidate,  \* region entry_uncommit looked at without the lock
  elastic,    \* HeapOptions::elastic_tlab
  fault       \* how memory in use was given away

freeset == <<region, bits, bounds, capacity, used, starts, committed>>
vars == <<freeset, returned, tlab, want, pc, objs, phase, candidate,
          elastic, fault>>

RegionOf(addr) == addr \div RegionSize
Bottom(r) == r * RegionSize
Units(b) == b[1] .. (b[1] + b[2] - 1)
InRegion(b, r) == RegionOf(b[1]) = r

-----------------------------------------------------------------------------
(***************************************************************************)
(* FreeList: one list of entries per power of two.  Bucket i > 0 holds the *)
(* sizes from 2^(i-1) to 2^i - 1; index 0 stands for the buckets below 16  *)
(* bytes, which are always empty.                                          *)
(***************************************************************************)
Buckets == 1 .. RegionLog + 1

bucket_index_for_size(n) ==
  CHOOSE i \in Buckets : 2 ^ (i - 1) <= n /\ n < 2 ^ i

EmptyList == [heads |-> [i \in Buckets |-> <<>>], biggest |-> 0]

\* add: the new entry becomes the head of its bucket.
Add(list, b) ==
  LET i == bucket_index_for_size(b[2])
  IN [heads |-> [list.heads EXCEPT ![i] = <<b>> \o @],
      biggest |-> Max({list.biggest, i})]

Entries(list) == UNION {Range(list.heads[i]) : i \in Buckets}

\* Blocks by falling address: an added block is linked in at the head.
Falling(bs) ==
  CHOOSE s \in [1 .. Cardinality(bs) -> bs] :
    Range(s) = bs /\ \A i, j \in DOMAIN s : i < j => s[j][1] <= s[i][1]

\* The blocks of a set, added in the order of their addresses.
AddAll(list, bs) ==
  [heads |-> [i \in Buckets |->
                Falling({b \in bs : bucket_index_for_size(b[2]) = i}) \o list.heads[i]],
   biggest |-> Max({list.biggest} \cup {bucket_index_for_size(b[2]) : b \in bs})]

\* FreeList::free
FreeBytes(list) ==
  FoldFunction(LAMBDA s, sum : FoldLeft(LAMBDA n, b : n + b[2], sum, s), 0, list.heads)

\* Where the walk of FreeList::allocate stops: the first non-empty bucket from
\* biggest downwards, or the first whose sizes may be too small.
StopIndex(list, size) ==
  Max({0} \cup {i \in 1 .. list.biggest : list.heads[i] # <<>> \/ size > 2 ^ (i - 1)})

\* FreeList::allocate: the head of that bucket, if it is large enough.
FreeListAllocate(list, size) ==
  LET i == StopIndex(list, size)
  IN IF i > 0 /\ list.heads[i] # <<>> /\ Head(list.heads[i])[2] >= size
     THEN [list |-> [heads |-> [list.heads EXCEPT ![i] = Tail(@)], biggest |-> i],
           block |-> Head(list.heads[i])]
     ELSE [list |-> [list EXCEPT !.biggest = i], block |-> NoBlock]

PeekFree(list) ==
  IF list.biggest > 0 /\ list.heads[list.biggest] # <<>>
  THEN Head(list.heads[list.biggest])[2]
  ELSE 0

-----------------------------------------------------------------------------
(***************************************************************************)
(* HeapRegion                                                              *)
(***************************************************************************)
IsEmpty(g) == g.typ \in {"EmptyUncommited", "EmptyCommited"}
IsAllocAllowed(g) == g.typ = "Regular" \/ IsEmpty(g)
Free(g) == IF IsEmpty(g) THEN RegionSize ELSE FreeBytes(g.list)
AllocCapacity(g) == IF g.typ = "Trash" THEN RegionSize ELSE Free(g)

\* make_trash leaves the rebuilt list; recycle clears it.
Recycled(g) == [g EXCEPT !.list = EmptyList, !.typ = "EmptyCommited"]

\* make_regular_allocation, the commit it may need included.
MadeRegular(g, r) ==
  [g EXCEPT !.typ = "Regular",
            !.list = IF IsEmpty(g) THEN Add(@, <<Bottom(r), RegionSize>>) ELSE @]

\* HeapRegion::allocate that forgets what is left of the entry's end.
BugRegionAllocate(g, r, size) ==
  LET m == MadeRegular(g, r)
      res == FreeListAllocate(m.list, size)
      rest == <<res.block[1] + size, res.block[2] - size>>
  IN IF res.block = NoBlock
     THEN [g |-> [m EXCEPT !.list = res.list], block |-> NoBlock]
     ELSE [g |-> [m EXCEPT !.list = IF rest[2] > 0
                                    THEN Add(res.list, <<rest[1] - 1, rest[2] + 1>>)
                                    ELSE res.list],
           block |-> <<res.block[1], size>>]

\* HeapRegion::allocate: the front of an entry, its remainder goes back.
RegionAllocate(g, r, size) ==
  LET m == MadeRegular(g, r)
      res == FreeListAllocate(m.list, size)
      rest == <<res.block[1] + size, res.block[2] - size>>
  IN IF res.block = NoBlock
     THEN [g |-> [m EXCEPT !.list = res.list], block |-> NoBlock]
     ELSE [g |-> [m EXCEPT !.list = IF rest[2] > 0 THEN Add(res.list, rest)
                                    ELSE res.list],
           block |-> <<res.block[1], size>>]

-----------------------------------------------------------------------------
(***************************************************************************)
(* RegionFreeSet.  The operators work on the record F of what heap.lock    *)
(* protects; an action reads F from the variables and stores the result.   *)
(***************************************************************************)
F == [region |-> region, bits |-> bits, bounds |-> bounds, used |-> used,
      starts |-> starts, committed |-> committed]

StoreF(f) ==
  /\ region' = f.region /\ bits' = f.bits /\ bounds' = f.bounds
  /\ used' = f.used /\ starts' = f.starts /\ committed' = f.committed

\* adjust_bounds with a right bound that stops one region early.
BugAdjustBounds(b, free) ==
  LET right == Max({0} \cup {i \in free : i <= b.right})
  IN [left |-> Min({NumRegions} \cup {i \in free : i >= b.left}),
      right |-> IF right > 0 THEN right - 1 ELSE 0]

\* adjust_bounds: both bounds move inwards over regions that are not free.
AdjustBounds(b, free) ==
  [left |-> Min({NumRegions} \cup {i \in free : i >= b.left}),
   right |-> Max({0} \cup {i \in free : i <= b.right})]

FullRange == [left |-> 0, right |-> NumRegions - 1]

\* retire_region part of try_allocate_in: the bit goes, the rest is wasted.
RetireRegion(f, r) ==
  LET free == f.bits \ {r}
  IN [f EXCEPT !.used = @ + Free(f.region[r]),
               !.bits = free,
               !.bounds = IF r \in {@.left, @.right} THEN AdjustBounds(@, free) ELSE @]

\* try_recycle_trashed
Recycle(f, r) ==
  IF f.region[r].typ # "Trash" THEN f
  ELSE [f EXCEPT !.region[r] = Recycled(@),
                 !.starts = {a \in @ : RegionOf(a) # r}]

\* do_commit as part of the first allocation in a region.
Commit(f, r) ==
  IF f.region[r].typ = "EmptyUncommited" THEN f.committed + 1 ELSE f.committed

\* The size try_allocate_in asks the region for; 0 when it does not ask.
AskFor(f, r, req) ==
  IF ~(elastic /\ req.lab) THEN req.size
  ELSE LET free == PeekFree(f.region[r].list)
           size == Min({req.size, free})
       IN IF size >= req.min THEN size ELSE 0

\* try_allocate_in: recycle, allocate, retire the region when it could not
\* serve the request or has nothing left.
TryAllocateIn(f0, r, req) ==
  LET f == Recycle(f0, r)
      size == AskFor(f, r, req)
      res == IF size > 0 THEN RegionAllocate(f.region[r], r, size)
             ELSE [g |-> f.region[r], block |-> NoBlock]
      got == res.block # NoBlock
      f1 == [f EXCEPT !.region[r] = res.g,
                      !.committed = IF size > 0 THEN Commit(f, r) ELSE @,
                      !.used = IF got THEN @ + size ELSE @,
                      !.starts = IF got /\ ~req.lab THEN @ \cup {res.block[1]} ELSE @]
  IN [f |-> IF ~got \/ AllocCapacity(f1.region[r]) = 0 THEN RetireRegion(f1, r) ELSE f1,
      block |-> res.block]

\* allocate_single: first fit over the range of the bounds.
AllocateSingle(f, req) ==
  LET range == f.bounds.left .. f.bounds.right
  IN FoldLeft(LAMBDA acc, r : IF acc.block # NoBlock \/ r \notin range \cap acc.f.bits THEN acc
                              ELSE TryAllocateIn(acc.f, r, req),
              [f |-> f, block |-> NoBlock],
              [i \in 1 .. NumRegions |-> i - 1])

\* HeapOptions::required_regions
RequiredRegions(size) == (size + RegionSize - 1) \div RegionSize

\* The runs of n adjacent regions that are free and empty or trash.
Runs(f, n) ==
  {b \in f.bounds.left .. NumRegions - n :
     \A i \in b .. b + n - 1 :
        i \in f.bits /\ (IsEmpty(f.region[i]) \/ f.region[i].typ = "Trash")}

\* allocate_contiguous.  region_payload_size_bytes is never set, so used does
\* not grow.
AllocateContiguous(f0, size) ==
  LET n == RequiredRegions(size)
      runs == IF n > Cardinality(f0.bits) THEN {} ELSE Runs(f0, n)
      beg == Min(runs)
      span == beg .. beg + n - 1
      f == [f0 EXCEPT
             !.region = [r \in Indices |->
                IF r \notin span THEN @[r]
                ELSE [@[r] EXCEPT !.list = EmptyList, !.large = IF r = beg THEN size ELSE 0,
                        !.typ = IF r = beg THEN "HumongousStart" ELSE "HumongousCont"]],
             !.starts = {a \in @ : RegionOf(a) \notin {r \in span : f0.region[r].typ = "Trash"}},
             !.committed = @ + Cardinality({r \in span : f0.region[r].typ = "EmptyUncommited"}),
             !.bits = @ \ span]
  IN IF runs = {} THEN [f |-> f0, block |-> NoBlock]
     ELSE [f |-> [f EXCEPT !.bounds =
                    IF beg = @.left \/ beg + n - 1 = @.right THEN AdjustBounds(@, f.bits)
                    ELSE @],
           block |-> <<Bottom(beg), size>>]

\* RegionFreeSet::allocate; humongous_threshold is 100 % of a region.
Allocate(f, req) ==
  IF req.size > RegionSize THEN AllocateContiguous(f, req.size)
  ELSE AllocateSingle(f, req)

\* rebuild: every region that allows allocation or is trash and has room.
Rebuilt(f) ==
  LET free == {r \in Indices : /\ IsAllocAllowed(f.region[r]) \/ f.region[r].typ = "Trash"
                               /\ AllocCapacity(f.region[r]) # 0}
  IN [f EXCEPT !.bits = free, !.used = 0, !.bounds = AdjustBounds(FullRange, free)]

Capacity(f) ==
  FoldFunctionOnSet(LAMBDA g, sum : sum + AllocCapacity(g), 0, f.region, Rebuilt(f).bits)

-----------------------------------------------------------------------------
NoTlab == [start |-> 0, top |-> 0, end |-> 0]

\* HeapRegion::new and Heap::new, up to the first rebuild.
Init ==
  /\ elastic \in BOOLEAN
  /\ region = [r \in Indices |->
       [typ |-> IF r < InitialRegions THEN "EmptyCommited" ELSE "EmptyUncommited",
        list |-> EmptyList, sweep |-> FALSE, large |-> 0]]
  /\ bits = Indices
  /\ bounds = FullRange
  /\ capacity = NumRegions * RegionSize
  /\ used = 0 /\ returned = 0
  /\ committed = InitialRegions
  /\ starts = {}
  /\ tlab = [m \in Mutators |-> NoTlab]
  /\ want = [m \in Mutators |-> 0]
  /\ pc = [m \in Mutators |-> "run"]
  /\ objs = {}
  /\ phase = "idle"
  /\ candidate = NoRegion
  /\ fault = "none"

-----------------------------------------------------------------------------
(***************************************************************************)
(* Mutators: Thread::allocate_raw, allocate_slow and thread exit.          *)
(***************************************************************************)
Room(m) == tlab[m].end - tlab[m].top
Rest(m) == <<tlab[m].top, Room(m)>>
Pending == {m \in Mutators : want[m] > 0}
MayAllocate(m) == pc[m] = "run" /\ Cardinality(objs) + Cardinality(Pending) < MaxObjects

\* Threads with something left in their buffers.
Holding == {m \in Mutators : tlab[m].end # 0 /\ Room(m) # 0}

\* free_remaining of the buffers of the threads in ms: what is left goes to the
\* free lists of their regions (by address; the order of the threads does not
\* matter to what is free).
GivenBack(ms) ==
  [r \in Indices |->
     [region[r] EXCEPT !.list =
        AddAll(@, {Rest(m) : m \in {x \in ms \cap Holding : RegionOf(tlab[x].start) = r}})]]

Returned(ms) == returned + FoldSet(LAMBDA m, n : n + Room(m), 0, ms \cap Holding)

\* The rest of ThreadLocalAllocBuffer::retire.
Cleared(ms) == [m \in Mutators |-> IF m \in ms THEN NoTlab ELSE tlab[m]]

Retire(ms) ==
  /\ region' = GivenBack(ms)
  /\ returned' = Returned(ms)
  /\ tlab' = Cleared(ms)

\* tlab.allocate
AllocateInTlab(m, size) ==
  /\ MayAllocate(m) /\ Room(m) >= size
  /\ tlab' = [tlab EXCEPT ![m].top = @ + size]
  /\ objs' = objs \cup {<<tlab[m].top, size>>}
  /\ starts' = starts \cup {tlab[m].top}
  /\ UNCHANGED <<region, bits, bounds, capacity, used, committed, returned, want, pc,
                 phase, candidate, elastic, fault>>

\* allocate_slow: too large for a buffer, or retire the buffer and get another.
AllocateSlow(m, size) ==
  /\ MayAllocate(m) /\ Room(m) < size
  /\ want' = [want EXCEPT ![m] = size]
  /\ IF size > TlabSize
     THEN pc' = [pc EXCEPT ![m] = "shared"] /\ UNCHANGED <<region, returned, tlab>>
     ELSE /\ returned + Room(m) <= MaxReturned
          /\ pc' = [pc EXCEPT ![m] = "refill"]
          /\ Retire({m})
  /\ UNCHANGED <<bits, bounds, capacity, used, starts, committed, objs, phase,
                 candidate, elastic, fault>>

\* The rest of alloc_inside_tlab_slow: the object is the front of a new buffer.
\* An elastic buffer may be shorter than the object.
Refill(m) ==
  LET res == Allocate(F, [lab |-> TRUE, size |-> TlabSize, min |-> MinTlabSize])
      b == res.block
  IN /\ pc[m] = "refill"
     /\ \/ /\ b = NoBlock
           /\ pc' = [pc EXCEPT ![m] = "shared"]
           /\ StoreF(res.f)
           /\ UNCHANGED <<tlab, objs, want, fault>>
        \/ /\ b # NoBlock /\ want[m] <= b[2]
           /\ pc' = [pc EXCEPT ![m] = "run"]
           /\ want' = [want EXCEPT ![m] = 0]
           /\ StoreF([res.f EXCEPT !.starts = @ \cup {b[1]}])
           /\ tlab' = [tlab EXCEPT ![m] = [start |-> b[1], top |-> b[1] + want[m],
                                           end |-> b[1] + b[2]]]
           /\ objs' = objs \cup {<<b[1], want[m]>>}
           /\ UNCHANGED fault
        \/ /\ b # NoBlock /\ want[m] > b[2]
           /\ fault' = "overrun"
           /\ UNCHANGED <<region, bits, bounds, used, starts, committed, tlab, objs, want, pc>>
     /\ UNCHANGED <<capacity, returned, phase, candidate, elastic>>

\* allocate_outside_tlab; mark_live repeats the start bit.
AllocateShared(m) ==
  LET res == Allocate(F, [lab |-> FALSE, size |-> want[m], min |-> want[m]])
  IN /\ pc[m] = "shared"
     /\ pc' = [pc EXCEPT ![m] = "run"]
     /\ want' = [want EXCEPT ![m] = 0]
     /\ StoreF(res.f)
     /\ objs' = IF res.block = NoBlock THEN objs ELSE objs \cup {res.block}
     /\ UNCHANGED <<capacity, returned, tlab, phase, candidate, elastic, fault>>

\* A spawned thread ends: remove_current_thread outside of any safepoint scope.
ExitThread(m) ==
  /\ m # MainThread /\ pc[m] = "run"
  /\ Retire({m})
  /\ pc' = [pc EXCEPT ![m] = "done"]
  /\ UNCHANGED <<bits, bounds, capacity, used, starts, committed, want, objs, phase,
                 candidate, elastic, fault>>

\* main_thread's epilogue calls it inside one, where pauses go on: the two
\* halves of retire.
MainGivesBack(m) ==
  /\ m = MainThread /\ pc[m] = "run"
  /\ region' = GivenBack({m}) /\ returned' = Returned({m})
  /\ pc' = [pc EXCEPT ![m] = "exiting"]
  /\ UNCHANGED <<bits, bounds, capacity, used, starts, committed, tlab, want, objs,
                 phase, candidate, elastic, fault>>

MainClears(m) ==
  /\ pc[m] = "exiting"
  /\ tlab' = [tlab EXCEPT ![m] = NoTlab]
  /\ pc' = [pc EXCEPT ![m] = "done"]
  /\ UNCHANGED <<freeset, returned, want, objs, phase, candidate, elastic, fault>>

-----------------------------------------------------------------------------
(***************************************************************************)
(* The collection, as far as it touches the allocator.                     *)
(***************************************************************************)
RetireAll ==
  /\ Retire(Mutators)
  /\ fault' = IF \E m \in Holding : pc[m] = "exiting" THEN "retiredTwice" ELSE fault

\* The pause that begins a marking, which may be cancelled or end in FinalMark.
InitMark ==
  /\ phase = "idle" /\ candidate = NoRegion /\ returned <= MaxReturned
  /\ RetireAll
  /\ UNCHANGED <<bits, bounds, capacity, used, starts, committed, want, pc, objs, phase,
                 candidate, elastic>>

ToSweep(g) == g.typ \in {"Regular", "HumongousStart"}

\* PrepareUnsweptRegions; the bounds stay as they are.
PrepareUnswept(regs) ==
  /\ region' = [r \in Indices |-> [regs[r] EXCEPT !.sweep = @ \/ ToSweep(regs[r])]]
  /\ bits' = {r \in bits : ~ToSweep(regs[r])}

\* Final Mark, or the pause of a full collection: buffers are retired, some
\* objects die, and the regions in use are closed until they are swept.
FinalMark(live) ==
  /\ phase = "idle" /\ candidate = NoRegion
  /\ PrepareUnswept(GivenBack(Mutators))
  /\ returned' = Returned(Mutators)
  /\ tlab' = Cleared(Mutators)
  /\ fault' = IF \E m \in Holding : pc[m] = "exiting" THEN "retiredTwice" ELSE fault
  /\ objs' = live
  /\ phase' = "sweep"
  /\ UNCHANGED <<bounds, capacity, used, starts, committed, want, pc, candidate,
                 elastic>>

\* A sweep that does not move the start of the gap past a marked object.
BugSweptList(r) == Add(EmptyList, <<Bottom(r), RegionSize>>)

\* The gaps between marked objects, and the tail.
Gaps(r) ==
  LET live == {o \in objs : InRegion(o, r)}
      from == {Bottom(r)} \cup {o[1] + o[2] : o \in live}
      to == {Bottom(r) + RegionSize} \cup {o[1] : o \in live}
  IN {<<p[1], p[2] - p[1]>> : p \in
        {x \in from \X to :
           x[1] < x[2] /\ \A o \in live : Units(o) \cap (x[1] .. x[2] - 1) = {}}}

\* sweep_region's list.
SweptList(r) == AddAll(EmptyList, Gaps(r))

\* object_start_bitmap after sweep_region.
SweptStarts(r) ==
  {a \in starts : RegionOf(a) # r} \cup {o[1] : o \in {x \in objs : InRegion(x, r)}}

\* SweepGarbageClosure on a regular region: trash when nothing in it is marked.
SweepRegular(r) ==
  /\ region[r].typ = "Regular"
  /\ region' = [region EXCEPT ![r] =
       [typ |-> IF \E o \in objs : InRegion(o, r) THEN "Regular" ELSE "Trash",
        list |-> SweptList(r), sweep |-> FALSE, large |-> 0]]
  /\ starts' = SweptStarts(r)

\* trash_humongous_region_at that counts whole regions only.
BugTrashSpan(r) == r .. r + region[r].large \div RegionSize - 1

\* The regions of the large object that begins in r, by the size in its header.
TrashSpan(r) == r .. r + RequiredRegions(region[r].large) - 1

\* SweepGarbageClosure on the first region of a large object, with
\* trash_humongous_region_at when the object is not marked.
SweepHumongous(r) ==
  LET live == \E o \in objs : o[1] = Bottom(r)
  IN /\ region[r].typ = "HumongousStart"
     /\ region' = [i \in Indices |->
          [region[i] EXCEPT
             !.typ = IF ~live /\ i \in TrashSpan(r) THEN "Trash" ELSE @,
             !.sweep = IF i = r THEN FALSE ELSE @]]
     /\ UNCHANGED starts

SweepRegion(r) ==
  /\ phase = "sweep" /\ region[r].sweep
  /\ SweepRegular(r) \/ SweepHumongous(r)
  /\ UNCHANGED <<bits, bounds, capacity, used, committed, returned, tlab, want, pc, objs,
                 phase, candidate, elastic, fault>>

\* A concurrent sweep cut short leaves the free set as it is.
CancelSweep ==
  /\ phase = "sweep" /\ \E r \in Indices : region[r].sweep
  /\ phase' = "idle"
  /\ UNCHANGED <<freeset, returned, tlab, want, pc, objs, candidate, elastic, fault>>

FinishSweep ==
  /\ phase = "sweep" /\ \A r \in Indices : ~region[r].sweep
  /\ StoreF(Rebuilt(F))
  /\ capacity' = Capacity(F)
  /\ returned' = 0
  /\ phase' = "idle"
  /\ UNCHANGED <<tlab, want, pc, objs, candidate, elastic, fault>>

-----------------------------------------------------------------------------
(***************************************************************************)
(* Heap::entry_uncommit on the controller's thread, between collections.   *)
(***************************************************************************)
\* The first look, without the lock, at a region that has been empty long.
UncommitLook(r) ==
  /\ phase = "idle" /\ candidate = NoRegion
  /\ region[r].typ = "EmptyCommited"
  /\ candidate' = r
  /\ UNCHANGED <<freeset, returned, tlab, want, pc, objs, phase, elastic, fault>>

\* With the lock: a region that is still empty is kept when too few would be
\* left; do_decommit follows whatever state the region is in.
UncommitLocked ==
  LET r == candidate
      stay == region[r].typ = "EmptyCommited" /\ committed < MinRegions + 1
  IN /\ candidate # NoRegion
     /\ candidate' = NoRegion
     /\ IF stay THEN UNCHANGED <<region, committed>>
        ELSE /\ region' = [region EXCEPT ![r].typ = "EmptyUncommited", ![r].list = EmptyList]
             /\ committed' = committed - 1
     /\ fault' = IF ~stay /\ region[r].typ # "EmptyCommited" THEN "decommitted" ELSE fault
     /\ UNCHANGED <<bits, bounds, capacity, used, starts, returned, tlab, want, pc, objs,
                    phase, elastic>>

Mutator(m) ==
  \/ \E size \in Sizes : AllocateInTlab(m, size) \/ AllocateSlow(m, size)
  \/ Refill(m) \/ AllocateShared(m)
  \/ ExitThread(m) \/ MainGivesBack(m) \/ MainClears(m)

Collector ==
  \/ InitMark
  \/ \E live \in SUBSET objs : FinalMark(live)
  \/ \E r \in Indices : SweepRegion(r) \/ UncommitLook(r)
  \/ CancelSweep \/ FinishSweep \/ UncommitLocked

Next ==
  /\ fault = "none"
  /\ \/ \E m \in Mutators : Mutator(m)
     \/ Collector

Spec == Init /\ [][Next]_vars

-----------------------------------------------------------------------------
Block == Nat \X Nat
States == {"EmptyUncommited", "EmptyCommited", "Regular", "HumongousStart",
           "HumongousCont", "Trash"}

\* The values of region.rs, free_set.rs and tlab.rs stay in their ranges; the
\* count of committed regions never exceeds the heap (Heap::commited).
TypeOK ==
  /\ \A r \in Indices :
       /\ region[r].typ \in States /\ region[r].sweep \in BOOLEAN
       /\ region[r].large \in Nat /\ Entries(region[r].list) \subseteq Block
  /\ bits \subseteq Indices
  /\ bounds.left \in 0 .. NumRegions /\ bounds.right \in Indices
  /\ {capacity, used, returned} \subseteq Nat /\ committed \in 0 .. NumRegions
  /\ starts \subseteq Nat
  /\ \A m \in Mutators : tlab[m].top <= tlab[m].end /\ want[m] \in {0} \cup Sizes
  /\ pc \in [Mutators -> {"run", "refill", "shared", "exiting", "done"}]
  /\ objs \subseteq Block
  /\ phase \in {"idle", "sweep"} /\ candidate \in Indices \cup {NoRegion}
  /\ elastic \in BOOLEAN
  /\ fault \in {"none", "overrun", "retiredTwice", "decommitted"}

Covered(bs) == UNION {Units(b) : b \in bs}

\* What belongs to somebody: live objects and what is left of the buffers.
\* A thread in main_thread's epilogue has given its buffer back.
Owned == objs \cup {Rest(m) : m \in {x \in Holding : pc[x] # "exiting"}}

\* No unit is in two entries, and no entry in two places.
EntriesApart(list) ==
  \A i, j \in Buckets : \A k \in DOMAIN list.heads[i], l \in DOMAIN list.heads[j] :
    Units(list.heads[i][k]) \cap Units(list.heads[j][l]) # {} => i = j /\ k = l

\* Free memory is free: the entries of a free list lie in their region, overlap
\* neither each other nor an object nor a buffer, and a region that may be
\* recycled holds nothing in use.  A sweep, a retired buffer, a split entry and
\* a collection cut short all have to keep this.
FreeIsFree ==
  \A r \in Indices :
    LET free == Covered(Entries(region[r].list))
        all == Units(<<Bottom(r), RegionSize>>)
    IN /\ free \subseteq all
       /\ fault = "none" =>
            /\ EntriesApart(region[r].list)
            /\ free \cap Covered(Owned) = {}
            /\ region[r].typ \in {"Trash", "EmptyCommited", "EmptyUncommited"} =>
                 all \cap Covered(Owned) = {}

\* FreeList::allocate starts at biggest_free_list_index: an entry above it, or
\* in a bucket that is not the one of its size, would never be found again.
FreeListFindable ==
  \A r \in Indices : \A i \in Buckets : \A b \in Range(region[r].list.heads[i]) :
    i <= region[r].list.biggest /\ bucket_index_for_size(b[2]) = i

\* allocate_single only looks between the bounds: no region open to mutators is
\* outside of them, whatever retired, recycled or swept regions did to them.
BoundsCover == fault = "none" => bits \subseteq bounds.left .. bounds.right

\* The assertions at the head of try_allocate_in, in every state in which a
\* mutator may take the lock: a region in the set is not waiting for its sweep
\* and has something to give.
OpenRegionsUsable ==
  fault = "none" => \A r \in bits : ~region[r].sweep /\ AllocCapacity(region[r]) # 0

\* The regions of a large object stay together: a continuation belongs to the
\* object that starts before it, until both become trash in one step.
HumongousWhole ==
  fault = "none" => \A r \in Indices : region[r].typ = "HumongousCont" =>
    \E s \in 0 .. r - 1 :
      region[s].typ = "HumongousStart" /\ s + RequiredRegions(region[s].large) > r

\* Units given back by buffers are allocated, and counted, a second time: used
\* exceeds capacity, but never by more than they are.
UsedBounded == used <= capacity + returned

\* Heap::commited counts the regions that have memory.
CommitCount ==
  fault = "none" =>
    committed = Cardinality({r \in Indices : region[r].typ # "EmptyUncommited"})

\* Conservative stack scanning looks for the last start bit at or before an
\* address: in the memory of a small live object it is the object's own.
StartBitsExact ==
  fault = "none" =>
    \A o \in objs : o[2] <= RegionSize => starts \cap Units(o) = {o[1]}

\* A buffer of the configured size holds the object it was fetched for, unless
\* buffers are elastic.
FixedTlabFits == fault = "overrun" => elastic

\* The allocator implements Memory: every object is made of memory that no
\* other live object has.
M == INSTANCE Memory WITH
       inUse <- objs,
       Blocks <- {<<u, n>> : u \in 0 .. NumRegions * RegionSize - 1, n \in Sizes}

MemorySpec == M!Spec

\* "Uncommit region only if it was unused": a region decommitted by
\* entry_uncommit was not allocated from after it was looked at.
DecommitUnused == fault # "decommitted"

\* Nothing free is lost and every account is right: entries are where allocate
\* looks for them, open regions are usable and between the bounds, used and
\* committed sizes agree with the regions.
FreeSetOK ==
  TypeOK /\ FreeListFindable /\ BoundsCover /\ OpenRegionsUsable /\ UsedBounded /\ CommitCount

\* Objects are whole: a large one keeps all its regions, a small one has its own
\* start bit and no other, and one in a buffer of fixed size fits into it.
ObjectsWhole == HumongousWhole /\ StartBitsExact /\ FixedTlabFits
=============================================================================
