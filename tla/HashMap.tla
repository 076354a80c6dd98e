------------------------------ MODULE HashMap ------------------------------
(***************************************************************************)
(* system/collections/hashmap.rs: the hash map with chained buckets.  A    *)
(* key is in the table at most once, so a chain is a sequence of keys and  *)
(* val holds the value of each key's node.  ref and lost are history: the  *)
(* map a caller expects, and the keys it expects but the table lost when   *)
(* remove_node cut a chain; dropped counts the nodes lost that way.        *)
(***************************************************************************)
EXTENDS HashTable

CONSTANTS Values, None

VARIABLES
    table, size, threshold,  \* fields of HashMap
    val,                     \* value of the node of each key
    entry,                   \* the Entry that borrows the map
    ref, lost, dropped       \* history

vars == <<table, size, threshold, val, entry, ref, lost, dropped>>

NoEntry == [kind |-> "none", key |-> None]

Init ==
    /\ table = NoTable
    /\ size = 0
    /\ \E c \in InitialCapacities : threshold = FirstThreshold(c)
    /\ val = [k \in Keys |-> None]
    /\ entry = NoEntry
    /\ ref = [k \in Keys |-> None]
    /\ lost = {}
    /\ dropped = 0

Contains(k) == table # NoTable /\ k \in Range(table[Home(table, Hash[k])])
Get(k) == IF Contains(k) THEN val[k] ELSE None

(***************************************************************************)
(* resize: the table and threshold that follow t and thr.                  *)
(***************************************************************************)
Resize(t, thr) ==
    LET cap == Cap(t)
        new == IF cap = 0 THEN thr ELSE 2 * cap
        doubled == cap >= DEFAULT_INITIAL_CAPACITY /\ new < MAXIMUM_CAPACITY
    IN  IF cap >= MAXIMUM_CAPACITY
        THEN [table |-> t, threshold |-> U32MAX]
        ELSE [table |-> Rehashed(t, new, Hash),
              threshold |-> IF doubled THEN 2 * thr ELSE LoadThreshold(new)]

\* put_val and entry make the table on first use.
Made == IF table = NoTable THEN Resize(table, threshold)
        ELSE [table |-> table, threshold |-> threshold]

\* A node pushed on its chain, the size counted and the table grown past its threshold.
Inserted(m, k) ==
    LET t == PushNode(m.table, k, Hash[k])
    IN  IF size + 1 > m.threshold THEN Resize(t, m.threshold)
        ELSE [table |-> t, threshold |-> m.threshold]

SetMap(m) == table' = m.table /\ threshold' = m.threshold

Expect(k, v) ==
    /\ ref' = [ref EXCEPT ![k] = v]
    /\ lost' = lost \ {k}

\* The insertion of a key that is in no chain: put_val's tail and VacantEntry::insert.
InsertNew(m, k, v) ==
    /\ size < MaxSize
    /\ SetMap(Inserted(m, k))
    /\ size' = size + 1
    /\ val' = [val EXCEPT ![k] = v]
    /\ Expect(k, v)
    /\ UNCHANGED dropped

ReplaceValue(k, v) ==
    /\ val' = [val EXCEPT ![k] = v]
    /\ Expect(k, v)
    /\ UNCHANGED <<table, size, threshold, dropped>>

Put(k, v) ==
    /\ entry = NoEntry
    /\ IF Contains(k) THEN ReplaceValue(k, v) ELSE InsertNew(Made, k, v)
    /\ UNCHANGED entry

(***************************************************************************)
(* remove_node, when the key is in the table.                              *)
(***************************************************************************)
RemoveNode(k) ==
    LET i == Home(table, Hash[k])
        p == CHOOSE q \in DOMAIN table[i] : table[i][q] = k
        cut == DroppedWith(table[i], p)
    IN  /\ table' = [table EXCEPT ![i] = CutChain(@, p)]
        /\ size' = size - 1
        /\ val' = [x \in Keys |-> IF x = k \/ x \in cut THEN None ELSE val[x]]
        /\ ref' = [ref EXCEPT ![k] = None]
        /\ lost' = lost \cup cut
        /\ dropped' = dropped + Cardinality(cut)

Remove(k) ==
    /\ entry = NoEntry
    /\ IF Contains(k) THEN RemoveNode(k)
       ELSE Expect(k, None) /\ UNCHANGED <<table, size, val, dropped>>
    /\ UNCHANGED <<threshold, entry>>

Clear ==
    /\ entry = NoEntry /\ table # NoTable
    /\ table' = EmptyTable(Cap(table))
    /\ size' = 0
    /\ val' = [k \in Keys |-> None]
    /\ ref' = [k \in Keys |-> None]
    /\ lost' = {}
    /\ dropped' = 0
    /\ UNCHANGED <<threshold, entry>>

(***************************************************************************)
(* entry(): the entry borrows the map until it is used or dropped.         *)
(***************************************************************************)
EntryCall(k) ==
    /\ entry = NoEntry
    /\ SetMap(Made)
    /\ entry' = [kind |-> IF Contains(k) THEN "occupied" ELSE "vacant", key |-> k]
    /\ UNCHANGED <<size, val, ref, lost, dropped>>

VacantInsert(v) ==
    /\ entry.kind = "vacant"
    /\ InsertNew([table |-> table, threshold |-> threshold], entry.key, v)
    /\ entry' = NoEntry

OccupiedInsert(v) ==
    /\ entry.kind = "occupied"
    /\ ReplaceValue(entry.key, v)
    /\ UNCHANGED entry

OccupiedRemove ==
    /\ entry.kind = "occupied"
    /\ RemoveNode(entry.key)
    /\ entry' = NoEntry
    /\ UNCHANGED threshold

DropEntry == entry # NoEntry /\ entry' = NoEntry /\ UNCHANGED <<table, size, threshold, val, ref, lost, dropped>>

Next ==
    \/ \E k \in Keys, v \in Values : Put(k, v)
    \/ \E k \in Keys : Remove(k) \/ EntryCall(k)
    \/ \E v \in Values : VacantInsert(v) \/ OccupiedInsert(v)
    \/ OccupiedRemove \/ DropEntry \/ Clear

Spec == Init /\ [][Next]_vars

-----------------------------------------------------------------------------

\* The fields have their types; keys outside the table hold no value.
TypeOK ==
    /\ \A i \in DOMAIN table : table[i] \in Seq(Keys)
    /\ size \in 0 .. MaxSize
    /\ threshold \in 1 .. U32MAX
    /\ val \in [Keys -> Values \cup {None}]
    /\ lost \subseteq Keys
    /\ dropped \in Nat

\* A lookup answers what the caller put last, for every key that no removal cut
\* out of its chain; a key that one did is not found (remove_node, put_val, entry).
LookupAgrees == \A k \in Keys : Get(k) = IF k \in lost THEN None ELSE ref[k]

\* A lookup answers what the caller put last: what a map based on OpenJDK's promises.
MapAgrees == \A k \in Keys : Get(k) = ref[k]

\* Growing puts every node where get_node will search for it, although one uses
\* the remainder and the other the mask; no key is in two nodes.
FoundWhereStored ==
    /\ \A x \in Places(table) : Home(table, Hash[NodeAt(table, x)]) = x[1]
    /\ \A x, y \in Places(table) : NodeAt(table, x) = NodeAt(table, y) => x = y

\* len() counts the nodes of the table and those that removals lost, and the
\* table never holds more than its threshold.
SizeAgrees ==
    /\ size = Cardinality(Places(table)) + dropped
    /\ table # NoTable => size <= threshold
=============================================================================
