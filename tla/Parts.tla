------------------------------- MODULE Parts -------------------------------
(***************************************************************************)
(* Six parts, side by side: the lists of weak references and finalizers    *)
(* and the bitmaps, which mutators and the collector share; the marking of *)
(* a large array by several workers; how a heap starts and is walked; the  *)
(* growable array; and the hash map.  A behaviour is about one part, the   *)
(* others stay as created.                                                 *)
(***************************************************************************)
EXTENDS Integers

CONSTANTS
    Threads, Cells, Null,
    ALIGN, BitsPerCell, CellCount,
    Lengths, Slice, OOP_BITS, POW_BITS, CHUNK_BITS,
    PageSize, PhysMem, Environments,
    Elements, Uninit, FirstCapacity, Capacities, MaxLen,
    Keys, Hash, Values, None, DEFAULT_INITIAL_CAPACITY, MAXIMUM_CAPACITY, InitialCapacities, MaxSize,
    MaxPower    \* the largest exponent in use, 64 in the code

ASSUME NullAssumption == Null \notin Cells
ASSUME ListAssumption ==
    Uninit \notin Elements /\ FirstCapacity \in Nat \ {0} /\ Capacities \subseteq Nat /\ MaxLen \in Nat
ASSUME BitmapAssumption == ALIGN \in Nat \ {0} /\ BitsPerCell \in Nat \ {0} /\ CellCount \in Nat \ {0}

\* Arithmetic, which the provers lack for exponents.
ASSUME PowersOfTwo ==
    /\ MaxPower \in Nat /\ MaxPower >= 30
    /\ 2 ^ 0 = 1 /\ \A n \in 0 .. MaxPower - 1 : 2 ^ n \in Nat /\ 2 ^ (n + 1) = 2 * 2 ^ n

VARIABLES
    part,      \* which of the six the behaviour is about
    kind, ptr, weak, fin, linking, handles, phase, loop, marked, unswept, crashed, drops,
    cells, call, sure, wins,
    arrayLen, arrayStarted, tasks, visited,
    stage, args, environment, opts, layout, index, queued, walked,
    buf, len, panicked, expected,
    table, size, threshold, val, entry, ref, lost, dropped

RF == INSTANCE References WITH Mutators <- Threads, call <- linking
BM == INSTANCE Bitmap
AM == INSTANCE ArrayMarking WITH len <- arrayLen, started <- arrayStarted
HS == INSTANCE HeapSizing WITH given <- environment
AL == INSTANCE ArrayList WITH ref <- expected
HM == INSTANCE HashMap

\* A task word fits its bits, and the array what they can name.
ASSUME ArrayAssumption ==
    /\ {OOP_BITS, POW_BITS, CHUNK_BITS, Slice} \subseteq Nat \ {0} /\ CHUNK_BITS >= 2
    /\ OOP_BITS + POW_BITS + CHUNK_BITS <= MaxPower /\ AM!MaxPow <= MaxPower
    /\ Lengths \subseteq 0 .. AM!Span

\* What Log2 reaches, with room for rounding up to a page.
SizeBound == 2 ^ 30 - PageSize

ASSUME SizesAssumption ==
    /\ PageSize \in {2 ^ n : n \in 0 .. 29} /\ 2 * HS!KB <= PageSize
    /\ HS!MAX_REGION_SIZE <= SizeBound
    /\ PhysMem \subseteq Nat
    /\ \A env \in Environments :
          /\ DOMAIN env \subseteq HS!Settings /\ env \in [DOMAIN env -> Nat]
          /\ \A s \in {"region_size", "max_region_size"} \cap DOMAIN env : env[s] <= SizeBound

\* Capacities are powers of two, and no map gets as large as the maximal threshold.
\* table_size_for shifts too far when it is asked for less than two.
ASSUME MapAssumption ==
    /\ {DEFAULT_INITIAL_CAPACITY, MAXIMUM_CAPACITY} \subseteq {2 ^ n : n \in 0 .. 30}
    /\ InitialCapacities \subseteq Nat \ {0, 1}
    /\ Hash \in [Keys -> Nat] /\ MaxSize \in 0 .. HM!U32MAX

refVars == <<kind, ptr, weak, fin, linking, handles, phase, loop, marked, unswept, crashed, drops>>
bitVars == <<cells, call, sure, wins>>
arrayVars == <<arrayLen, arrayStarted, tasks, visited>>
sizeVars == <<stage, args, environment, opts, layout, index, queued, walked>>
listVars == <<buf, len, panicked, expected>>
mapVars == <<table, size, threshold, val, entry, ref, lost, dropped>>

PartsInit ==
    /\ RF!Init /\ BM!Init
    /\ AM!Init /\ (part = "array" \/ arrayLen = 0)
    /\ HS!Init /\ (part = "sizes" \/ args = HS!Defaults)
    /\ AL!Init /\ (part = "ArrayList" \/ buf = <<>>)
    /\ HM!Init /\ (part = "HashMap" \/ threshold = MAXIMUM_CAPACITY)

PartsNext ==
    \/ part = "references" /\ RF!Next /\ UNCHANGED <<bitVars, arrayVars, sizeVars, listVars, mapVars>>
    \/ part = "bitmap" /\ BM!Next /\ UNCHANGED <<refVars, arrayVars, sizeVars, listVars, mapVars>>
    \/ part = "array" /\ AM!Next /\ UNCHANGED <<refVars, bitVars, sizeVars, listVars, mapVars>>
    \/ part = "sizes" /\ HS!Next /\ UNCHANGED <<refVars, bitVars, arrayVars, listVars, mapVars>>
    \/ part = "ArrayList" /\ AL!Next /\ UNCHANGED <<refVars, bitVars, arrayVars, sizeVars, mapVars>>
    \/ part = "HashMap" /\ HM!Next /\ UNCHANGED <<refVars, bitVars, arrayVars, sizeVars, listVars>>

partsVars == <<refVars, bitVars, arrayVars, sizeVars, listVars, mapVars>>

\* A weak reference in use is cleared or has a live target, and the lists lead through
\* live memory only; a destructor runs once, before the memory is freed, and for nobody's
\* object; a weak reference is cleared only when nobody holds the target (new, upgrade,
\* process, run).
ReferencesOK ==
    /\ [](RF!TargetAlive /\ RF!ListsAllocated)
    /\ [][RF!DropsOnce /\ RF!ClearsDead]_refVars

\* The bitmap is a set of granules: no bit set by one thread is lost to another, one of
\* those who set it is told so, ranges agree with single bits, and find_object_start
\* answers the last start at or before an address.
BitmapAgrees == BM!NoLostBit /\ BM!OneWinner /\ BM!StartFound /\ BM!RangesAgree

\* The chunk tasks of an array visit each element once, and each packed task decodes to
\* what was encoded (do_chunked_array_start, do_chunked_array, MarkTask).
ArraysMarkedOnce == AM!ElementsOnce /\ AM!TasksWhole

\* Sizes given in order stay in order, the regions tile the heap, buffers and small objects
\* fit in one, the committed regions are the first ones, and a walk in strides visits
\* each once (set_heap_size, setup_sizes, Heap::new, ParallelHeapRegionTask::work).
SizesAgree ==
    HS!SizesOrdered /\ HS!GeometryAgrees /\ HS!TlabsFit /\ HS!CommittedFits /\ HS!WalksOnce

\* An ArrayList holds what a Vec would hold after the same calls, no element of it is
\* uninitialized, its buffer never shrinks, and try_reserve leaves the room asked for.
ListAgrees ==
    /\ [](AL!ListAgrees /\ AL!Initialized)
    /\ [][AL!KeepsBuffer /\ AL!LeavesRoom]_listVars

\* The hash map answers what was put last for every key that no removal cut out of its
\* chain, len() counts the nodes put and not removed, and resize leaves every node in
\* the bucket that get_node searches (put_val, entry, remove_node, resize, clear).
HashMapAgrees == HM!TypeOK /\ HM!LookupAgrees /\ HM!FoundWhereStored /\ HM!SizeAgrees
=============================================================================
