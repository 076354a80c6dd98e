----------------------------- MODULE HashTable -----------------------------
(***************************************************************************)
(* The bucket array that system/collections/hashmap.rs and                 *)
(* linked_hashmap.rs share line for line: capacity arithmetic, chains,     *)
(* removal from a chain and rehashing.  A table is a function from 0..n-1  *)
(* to chains; a chain is the sequence of nodes that `next' links.  Table   *)
(* None is the empty function.  hs maps a node to the hash it stores.      *)
(***************************************************************************)
EXTENDS Integers, Sequences, FiniteSets, Functions

CONSTANTS
    Keys,                        \* keys
    Hash,                        \* make_hash: the 64-bit hash of each key
    DEFAULT_INITIAL_CAPACITY,    \* 1 << 4 in the code
    MAXIMUM_CAPACITY,            \* 1 << 30 in the code
    InitialCapacities,           \* arguments of with_hasher_and_capacity
    MaxSize                      \* bound: no insertion beyond this size

NoTable == <<>>
Cap(t) == Cardinality(DOMAIN t)
U32MAX == 64 * MAXIMUM_CAPACITY  \* std::u32::MAX: no size gets there

(***************************************************************************)
(* table_size_for: the mask of cap - 1 plus one, at most the maximum.      *)
(***************************************************************************)
Masks == {2 ^ b - 1 : b \in 1 .. 30}
MaskOf(n) == CHOOSE m \in Masks : m >= n /\ \A l \in Masks : l >= n => m <= l

BugTableSizeFor(cap) ==
    LET n == MaskOf(cap - 1) IN IF n >= MAXIMUM_CAPACITY THEN MAXIMUM_CAPACITY ELSE n

TableSizeFor(cap) ==
    LET n == MaskOf(cap - 1) IN IF n >= MAXIMUM_CAPACITY THEN MAXIMUM_CAPACITY ELSE n + 1

\* The threshold with_hasher_and_capacity_and_load_factor starts from.
FirstThreshold(cap) ==
    TableSizeFor(IF cap > MAXIMUM_CAPACITY THEN MAXIMUM_CAPACITY ELSE cap)

\* (new_cap as f32 * 0.75).round(), unless the capacity is at its maximum.
LoadThreshold(cap) ==
    IF cap < MAXIMUM_CAPACITY THEN (3 * cap + 2) \div 4 ELSE U32MAX

(***************************************************************************)
(* Lookup searches the chain of (n - 1) & hash; resize distributes the     *)
(* nodes by hash % n.                                                      *)
(***************************************************************************)
BitAt(x, b) == (x \div 2 ^ b) % 2

\* x & y of a capacity less one and a hash, bit by bit.
And(x, y) ==
    LET sum[b \in 0 .. 30] ==
            IF b = 0 THEN 0 ELSE sum[b - 1] + 2 ^ (b - 1) * (BitAt(x, b - 1) * BitAt(y, b - 1))
    IN  sum[30]

Home(t, hash) == And(Cap(t) - 1, hash)

\* The nodes that iteration meets, and the places in the chains that hold them.
Nodes(t) == UNION {Range(t[i]) : i \in DOMAIN t}
Places(t) == UNION {{i} \X DOMAIN t[i] : i \in DOMAIN t}
NodeAt(t, x) == t[x[1]][x[2]]

EmptyTable(cap) == [i \in 0 .. cap - 1 |-> <<>>]

\* Every old chain is unlinked front to back, each node pushed on its new chain.
PushAll(c, chain, ours) ==
    LET f[p \in 0 .. Len(c)] ==
            IF p = 0 THEN chain ELSE IF c[p] \in ours THEN <<c[p]>> \o f[p - 1] ELSE f[p - 1]
    IN  f[Len(c)]

Gathered(t, ours) ==
    LET f[i \in 0 .. Cap(t)] == IF i = 0 THEN <<>> ELSE PushAll(t[i - 1], f[i - 1], ours)
    IN  f[Cap(t)]

Rehashed(t, cap, hs) ==
    [i \in 0 .. cap - 1 |-> Gathered(t, {x \in DOMAIN hs : hs[x] % cap = i})]

PushNode(t, x, hash) == [t EXCEPT ![Home(t, hash)] = <<x>> \o @]

(***************************************************************************)
(* remove_node: the head of the chain is replaced by its successor; any    *)
(* other node is unlinked by pointing the HEAD of the chain past it, so    *)
(* that the nodes between the two leave the table as well.                 *)
(***************************************************************************)
CutChain(c, p) ==
    IF p = 1 THEN Tail(c) ELSE <<Head(c)>> \o SubSeq(c, p + 1, Len(c))

DroppedWith(c, p) == {c[q] : q \in 2 .. p - 1}
=============================================================================
