---------------------------- MODULE MCStructures ----------------------------
(***************************************************************************)
(* The parts and the ordered hash map, one at a time: the initial state    *)
(* picks the one whose operations the behaviour consists of.               *)
(***************************************************************************)
EXTENDS Parts, FiniteSets, TLC

CONSTANTS
    k1, k2, k3, k4,
    Nil

VARIABLES
    ltable, lsize, lthreshold, access_order, list, fault, order, cut, initial

LM == INSTANCE LinkedHashMap WITH table <- ltable, size <- lsize, threshold <- lthreshold

linkedVars == <<ltable, lsize, lthreshold, access_order, list, fault, order, cut, initial>>

Megabyte == 1024 * 1024

\* What the environment may set: nothing, sizes that do not divide each other or are out
\* of order, a heap too small for its regions, fewer threads than regions and more.
SizeEnvironments ==
    {[max_heap_size |-> h, region_size |-> r, target_num_regions |-> n, parallel_gc_threads |-> t,
      parallel_region_stride |-> s] :
        h \in {30000, 100000, 120001}, r \in {0, 5000, 12288, 65536}, n \in {0, 12},
        t \in {0, 2, 3, 64}, s \in {0, 7, 1024}}
    \cup {[initial_heap_size |-> i, min_heap_size |-> m] :
        i \in {0, 1000000, 400 * Megabyte}, m \in {0, 6 * Megabyte, 200 * Megabyte}}
    \cup {[max_heap_size |-> 8 * Megabyte, initial_heap_size |-> i, min_region_size |-> m,
           max_region_size |-> x] :
        i \in {0, 3000000, 9000000}, m \in {1, 70000}, x \in {0, 40000, 80000}}
    \cup {[region_size |-> r, humongous_threshold |-> p, tlab_size |-> b, min_tlab_size |-> l] :
        r \in {4096, 12288}, p \in {0, 1, 50}, b \in {0, 1000, 9000}, l \in {0, 3000, 20000}}
    \cup {<<>>}

\* Three keys share a bucket at every capacity up to the default one.
Hashes == (k1 :> 0) @@ (k2 :> 8) @@ (k3 :> 16) @@ (k4 :> 5)

Init ==
    /\ part \in {"references", "bitmap", "array", "sizes", "HashMap", "LinkedHashMap", "ArrayList"}
    /\ PartsInit
    /\ LM!Init /\ (part = "LinkedHashMap" \/ (initial = DEFAULT_INITIAL_CAPACITY /\ access_order))

Next ==
    /\ UNCHANGED part
    /\ \/ PartsNext /\ UNCHANGED linkedVars
       \/ part = "LinkedHashMap" /\ LM!Next /\ UNCHANGED partsVars

Spec ==
    Init /\ [][Next]_<<part, partsVars, linkedVars>>

Symmetry == Permutations(Threads) \cup Permutations(Cells)

\* A lookup in a hash map answers what was put last, as in OpenJDK's (remove_node).
MapAgrees == part = "HashMap" => HM!MapAgrees

\* The before and after links form one list in both directions, in the order of insertion
\* or of access, which keeps the nodes a removal cut out of a chain by accident; tracing
\* reaches every node; a map of at least the default capacity grows to a power of two.
LinkedMapAgrees ==
    part = "LinkedHashMap" =>
    LM!TypeOK /\ LM!ListWhole /\ LM!CutNodesStay /\ LM!OrderAgrees /\ LM!TracedWhole /\ LM!DefaultGrows
=============================================================================
