----------------------------- MODULE HeapSizing -----------------------------
(***************************************************************************)
(* How a heap gets its sizes: HeapArguments (defaults, environment and     *)
(* set_heap_size), HeapRegion::setup_sizes, the layout that Heap::new      *)
(* makes of them, and the walk over the regions in strides that            *)
(* parallel_heap_region_iterate hands to the pool (heap/region.rs,         *)
(* heap/heap.rs).  Sizes are bytes; a share of the physical memory is      *)
(* counted in 64ths of it.  The arguments that are only copied from one    *)
(* record to the other are left out.                                       *)
(***************************************************************************)
EXTENDS Integers

CONSTANTS
    PageSize,       \* virtual_memory::page_size()
    PhysMem,        \* what get_total_memory() may answer
    Environments    \* the GC_* variables a process may start with

VARIABLES
    stage,      \* how far start-up is, "panic" when it gave up
    args,       \* the HeapArguments
    given,      \* the HeapArguments before set_heap_size
    opts,       \* the HeapOptions
    layout,     \* what Heap::new committed
    index,      \* ParallelHeapRegionTask::index
    queued,     \* chunks <<start, end>> handed to the pool
    walked      \* chunks whose regions were visited

vars == <<stage, args, given, opts, layout, index, queued, walked>>

KB == 1024
MB == 1024 * KB

WORD == 8
MIN_REGION_SIZE == 4 * KB
MIN_NUM_PAGES == 10
MAX_REGION_SIZE == 32 * MB

Defaults ==
    [min_region_size |-> PageSize, max_region_size |-> 32 * MB, target_num_regions |-> 2048,
     humongous_threshold |-> 100, region_size |-> 0, min_tlab_size |-> 2 * KB, tlab_size |-> 0,
     max_heap_size |-> 96 * MB, min_heap_size |-> 0, initial_heap_size |-> 0,
     min_ram |-> 32, max_ram |-> 16, initial_ram |-> 1,
     parallel_region_stride |-> 1024, parallel_gc_threads |-> 2]

Settings == DOMAIN Defaults

\* A variable of the environment replaces the default of its argument.
from_env(env) == [s \in Settings |-> IF s \in DOMAIN env THEN env[s] ELSE Defaults[s]]

least(a, b) == IF a < b THEN a ELSE b
most(a, b) == IF a < b THEN b ELSE a

align_usize(value, align) == ((value + align - 1) \div align) * align
align_down(value, align) == value - (value % align)
Log2(n) == CHOOSE k \in 0..29 : 2^k <= n /\ n < 2^(k + 1)

Share(phys, part) == (phys \div 64) * part

(***************************************************************************)
(* set_heap_size.                                                          *)
(***************************************************************************)
ReasonableMax(a, phys) ==
    IF a.max_heap_size # 96 * MB THEN a.max_heap_size
    ELSE LET half == Share(phys, a.min_ram)
             share == IF half < a.max_heap_size THEN half
                      ELSE most(Share(phys, a.max_ram), a.max_heap_size)
         IN most(share, IF a.initial_heap_size # 0 THEN a.initial_heap_size ELSE a.min_heap_size)

set_heap_size(a, phys) ==
    LET max == ReasonableMax(a, phys)
        min == least(5 * MB, max)
        initial == least(most(most(Share(phys, a.initial_ram), min), a.min_heap_size), max)
    IN [a EXCEPT !.max_heap_size = max,
                 !.initial_heap_size = IF @ = 0 THEN initial ELSE @,
                 !.min_heap_size = IF @ = 0 THEN min ELSE @]

(***************************************************************************)
(* setup_sizes.                                                            *)
(***************************************************************************)
MinRegionSize(a) == most(a.min_region_size, MIN_REGION_SIZE)

MaxRegionSize(a) ==
    IF a.max_region_size = 0 \/ a.max_region_size < a.min_region_size
    THEN MAX_REGION_SIZE ELSE a.max_region_size

TargetNumRegions(a) == IF a.target_num_regions = 0 THEN 2048 ELSE a.target_num_regions

TooSmall(a) == MinRegionSize(a) > a.max_heap_size \div MIN_NUM_PAGES

\* The region size before it is cut down to a power of two.
PageRegionSize(a) ==
    align_usize(IF a.region_size # 0 THEN a.region_size
                ELSE least(MaxRegionSize(a),
                           most(a.max_heap_size \div TargetNumRegions(a), MinRegionSize(a))),
                PageSize)

BugMaxHeapSize(a, region_size) == align_usize(a.max_heap_size, PageRegionSize(a))

\* The heap is rounded up for the region size before and after the cut.
MaxHeapSize(a, region_size) ==
    align_usize(align_usize(a.max_heap_size, PageRegionSize(a)), region_size)

HumongousThreshold(a, region_size) ==
    LET percent == IF a.humongous_threshold = 0 THEN 100 ELSE a.humongous_threshold
    IN WORD * align_down(((region_size \div WORD) * percent) \div 100, 8)

MinTlabSize(a) == most(a.min_tlab_size, 2 * KB)

TrimTlab(tlab_size, threshold) == least(tlab_size, threshold)

PerThread(a) ==
    \/ a.parallel_region_stride = 0 /\ a.parallel_gc_threads # 0
    \/ a.parallel_region_stride = 1024

setup_sizes(a) ==
    LET shift == Log2(PageRegionSize(a))
        region_size == 2^shift
        max_heap == MaxHeapSize(a, region_size)
        count == max_heap \div region_size
        threshold == HumongousThreshold(a, region_size)
    IN [region_count |-> count,
        region_size_bytes |-> region_size,
        region_size_bytes_shift |-> shift,
        max_heap_size |-> max_heap,
        humongous_threshold_bytes |-> threshold,
        min_tlab_size |-> MinTlabSize(a),
        max_tlab_size |-> most(MinTlabSize(a), least(region_size \div 8, threshold)),
        tlab_size |-> TrimTlab(a.tlab_size, threshold),
        parallel_gc_threads |-> a.parallel_gc_threads,
        parallel_region_stride |-> IF PerThread(a) THEN count \div a.parallel_gc_threads
                                   ELSE a.parallel_region_stride]

NoOpts == setup_sizes(Defaults)
NoLayout == [num_commited |-> 0, initial_size |-> 0, minimum_size |-> 0, decommited |-> 0]

(***************************************************************************)
(* Start-up, step by step.                                                 *)
(***************************************************************************)
Init ==
    /\ stage = "arguments"
    /\ \E env \in Environments : args = from_env(env)
    /\ given = args
    /\ opts = NoOpts /\ layout = NoLayout
    /\ index = 0 /\ queued = {} /\ walked = {}

SetHeapSize ==
    /\ stage = "arguments"
    /\ \E phys \in PhysMem : args' = set_heap_size(args, phys)
    /\ stage' = "sized"
    /\ UNCHANGED <<given, opts, layout, index, queued, walked>>

\* The panic of a heap too small for its regions, and that of a division by no threads.
SetupPanics ==
    /\ stage = "sized"
    /\ TooSmall(args) \/ (PerThread(args) /\ args.parallel_gc_threads = 0)
    /\ stage' = "panic"
    /\ UNCHANGED <<args, given, opts, layout, index, queued, walked>>

SetupSizes ==
    /\ stage = "sized"
    /\ ~TooSmall(args) /\ ~(PerThread(args) /\ args.parallel_gc_threads = 0)
    /\ opts' = setup_sizes(args)
    /\ stage' = "options"
    /\ UNCHANGED <<args, given, layout, index, queued, walked>>

NumCommited(a, o) == least(a.initial_heap_size \div o.region_size_bytes, o.region_count)

\* Heap::new reserves the whole heap and gives back what lies behind the initial size.
NewHeap ==
    /\ stage = "options"
    /\ LET num == NumCommited(args, opts)
           initial == num * opts.region_size_bytes
       IN layout' = [num_commited |-> num,
                     initial_size |-> initial,
                     minimum_size |-> (args.min_heap_size \div opts.region_size_bytes)
                                      * opts.region_size_bytes,
                     decommited |-> opts.max_heap_size - initial]
    /\ stage' = "running"
    /\ UNCHANGED <<args, given, opts, index, queued, walked>>

(***************************************************************************)
(* One walk over all regions.                                              *)
(***************************************************************************)
heap_region_iterate ==
    /\ walked' = {<<0, opts.region_count>>}
    /\ stage' = "walked"
    /\ UNCHANGED <<args, given, opts, layout, index, queued>>

parallel_heap_region_iterate ==
    /\ stage = "running"
    /\ IF opts.region_count > opts.parallel_region_stride /\ opts.parallel_gc_threads # 0
       THEN /\ stage' = "walking"
            /\ UNCHANGED <<args, given, opts, layout, index, queued, walked>>
       ELSE heap_region_iterate

ChunkEnd(cur, stride, max) == least(max, cur + stride)

\* A round of the loop of ParallelHeapRegionTask::work.
Execute ==
    /\ stage = "walking" /\ index < opts.region_count
    /\ index' = index + opts.parallel_region_stride
    /\ queued' = queued \cup
         {<<index, ChunkEnd(index, opts.parallel_region_stride, opts.region_count)>>}
    /\ UNCHANGED <<stage, args, given, opts, layout, walked>>

\* A worker of the pool visits the regions of one chunk.
RunChunk ==
    /\ stage = "walking"
    /\ \E c \in queued : queued' = queued \ {c} /\ walked' = walked \cup {c}
    /\ UNCHANGED <<stage, args, given, opts, layout, index>>

\* The scope waits for its chunks.
ScopeEnds ==
    /\ stage = "walking" /\ index >= opts.region_count /\ queued = {}
    /\ stage' = "walked"
    /\ UNCHANGED <<args, given, opts, layout, index, queued, walked>>

Next ==
    \/ SetHeapSize
    \/ SetupPanics
    \/ SetupSizes
    \/ NewHeap
    \/ parallel_heap_region_iterate
    \/ Execute
    \/ RunChunk
    \/ ScopeEnds

Spec == Init /\ [][Next]_vars

region_index(o, offset) == offset \div 2^o.region_size_bytes_shift

\* Sizes given in order stay in order: neither the initial nor the minimal size of
\* the heap exceeds its maximum after set_heap_size.
SizesOrdered ==
    (/\ stage # "arguments"
     /\ given.initial_heap_size # 0 => given.min_heap_size <= given.initial_heap_size
     /\ given.max_heap_size # 96 * MB =>
          most(given.initial_heap_size, given.min_heap_size) <= given.max_heap_size)
    => /\ args.initial_heap_size <= args.max_heap_size
       /\ args.min_heap_size <= args.max_heap_size

\* The regions tile the heap, which is no smaller than was asked for: the last byte
\* lies in the last region, and the byte behind it in none (setup_sizes, region_index).
GeometryAgrees ==
    stage \in {"options", "running", "walking", "walked"} =>
    /\ opts.max_heap_size >= args.max_heap_size
    /\ region_index(opts, opts.max_heap_size - 1) = opts.region_count - 1
    /\ region_index(opts, opts.max_heap_size) = opts.region_count
    /\ opts.region_size_bytes % PageSize = 0

\* A thread's buffer fits in one region, so does every object that is not humongous:
\* a fixed TLAB never exceeds the humongous threshold, and only a minimum size that
\* was asked for makes the largest TLAB exceed the region.
TlabsFit ==
    stage \in {"options", "running", "walking", "walked"} =>
    /\ args.humongous_threshold <= 100 =>
         opts.humongous_threshold_bytes <= opts.region_size_bytes
    /\ opts.tlab_size <= opts.humongous_threshold_bytes
    /\ opts.max_tlab_size <= most(args.min_tlab_size, opts.region_size_bytes)

\* The committed regions are the heap's first ones, and there are that many.
CommittedFits ==
    stage \in {"running", "walking", "walked"} =>
    /\ layout.num_commited <= opts.region_count
    /\ layout.initial_size + layout.decommited = opts.max_heap_size
    /\ \A i \in {0, layout.num_commited, opts.region_count - 1} :
         i < opts.region_count =>
         (i < layout.num_commited <=> i * opts.region_size_bytes < layout.initial_size)

\* A walk visits every region once, in whatever order the pool runs the chunks, and
\* advances in every round as long as there are no more threads than regions.
WalksOnce ==
    LET chunks == queued \cup walked IN
    /\ \A c \in chunks : 0 <= c[1] /\ c[2] <= opts.region_count
    /\ \A c, d \in chunks : c # d => c[2] <= d[1] \/ d[2] <= c[1]
    /\ stage = "walked" => UNION {c[1] .. c[2] - 1 : c \in walked} = 0 .. opts.region_count - 1
    /\ (stage = "walking" /\ opts.parallel_gc_threads <= opts.region_count) =>
         opts.parallel_region_stride > 0
=============================================================================
