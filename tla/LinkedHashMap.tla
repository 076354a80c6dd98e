--------------------------- MODULE LinkedHashMap ---------------------------
(***************************************************************************)
(* system/collections/linked_hashmap.rs: the hash map whose nodes are also *)
(* on a doubly linked list, in the order of insertion or of access.  After *)
(* a removal has cut nodes out of a chain (see HashTable!CutChain) those   *)
(* stay on the list, and their key may be put again: a node is its key and *)
(* a number that no other node of that key on the list has.  A node's      *)
(* value never decides anything and is left out.  order, cut and initial   *)
(* are history: the key order a caller expects, the nodes lost since the   *)
(* last clear, the capacity asked for.                                     *)
(***************************************************************************)
EXTENDS HashTable

CONSTANT Nil  \* Option::None

VARIABLES
    table, size, threshold, access_order,  \* fields of LinkedHashMap
    list,                                  \* head, tail and the before and after of each node
    fault,                                 \* capacity of the table whose growth panicked, or 0
    order, cut, initial                    \* history

vars == <<table, size, threshold, access_order, list, fault, order, cut, initial>>

Ids == Keys \X (1 .. MaxSize)
Key(n) == n[1]
MaxNodes == MaxSize  \* the list is as long as size says: see ListWhole

Init ==
    /\ table = NoTable
    /\ size = 0
    /\ initial \in InitialCapacities
    /\ threshold = FirstThreshold(initial)
    /\ access_order \in BOOLEAN
    /\ list = [head |-> Nil, tail |-> Nil, before |-> [n \in Ids |-> Nil], after |-> [n \in Ids |-> Nil]]
    /\ fault = 0
    /\ order = <<>>
    /\ cut = {}

-----------------------------------------------------------------------------
(***************************************************************************)
(* The list.                                                               *)
(***************************************************************************)

\* The nodes met from head through `after' (Iter); the walk of a sound list is no longer.
Walk(l) ==
    LET at[i \in 1 .. MaxNodes + 1] ==
            IF i = 1 THEN l.head ELSE IF at[i - 1] = Nil THEN Nil ELSE l.after[at[i - 1]]
    IN  SelectSeq([i \in 1 .. MaxNodes + 1 |-> at[i]], LAMBDA n : n # Nil)

\* make_node, link_node_last: a node without neighbours, put behind the last.
LinkNodeLast(l, p) ==
    [l EXCEPT !.tail = p,
              !.head = IF l.tail = Nil THEN p ELSE @,
              !.after = [n \in Ids |-> IF n = p THEN Nil ELSE IF n = l.tail THEN p ELSE @[n]],
              !.before[p] = l.tail]

\* The neighbours of e, or head and tail, are joined around it.
Unlinked(l, e) ==
    LET b == l.before[e]
        a == l.after[e]
    IN  [l EXCEPT !.head = IF b = Nil THEN a ELSE @,
                  !.after = IF b = Nil THEN @ ELSE [@ EXCEPT ![b] = a],
                  !.tail = IF a = Nil THEN b ELSE @,
                  !.before = IF a = Nil THEN @ ELSE [@ EXCEPT ![a] = b]]

AfterNodeRemoval(l, e) ==
    LET u == Unlinked(l, e)
    IN  [u EXCEPT !.before[e] = Nil, !.after[e] = Nil]

\* In access order a node that is not the last becomes the last.
BugAfterNodeAccess(l, e) ==
    IF l.tail = e THEN l
    ELSE LET u == Unlinked([l EXCEPT !.after[e] = Nil], e)
         IN  [u EXCEPT !.before[e] = l.tail, !.after[l.tail] = e, !.tail = e]

AfterNodeAccess(l, e) ==
    IF l.tail = e \/ ~access_order THEN l
    ELSE LET u == Unlinked(l, e)
         IN  [u EXCEPT !.before[e] = l.tail, !.after = [@ EXCEPT ![e] = Nil, ![l.tail] = e], !.tail = e]

-----------------------------------------------------------------------------
(***************************************************************************)
(* The table.  Map collects the fields an operation changes.               *)
(***************************************************************************)

Map == [table |-> table, size |-> size, threshold |-> threshold, list |-> list,
        fault |-> 0, cut |-> cut]

\* The node of key k that lookups find, or Nil (get_node).
NodeOf(m, k) ==
    LET found == IF m.table = NoTable THEN <<>>
                 ELSE SelectSeq(m.table[Home(m.table, Hash[k])], LAMBDA n : Key(n) = k)
    IN  IF found = <<>> THEN Nil ELSE Head(found)

\* resize: only a table of at least the default capacity is doubled; any other
\* leaves new_cap = 0, and rehashing the first node divides by it.
NewCap(t, thr) ==
    IF t = NoTable THEN thr
    ELSE IF Cap(t) >= DEFAULT_INITIAL_CAPACITY /\ 2 * Cap(t) < MAXIMUM_CAPACITY
         THEN 2 * Cap(t) ELSE 0

Resize(m) ==
    LET new == NewCap(m.table, m.threshold)
        hs == [n \in Nodes(m.table) |-> Hash[Key(n)]]
    IN  IF Cap(m.table) >= MAXIMUM_CAPACITY THEN [m EXCEPT !.threshold = U32MAX]
        ELSE [m EXCEPT !.table = IF new = 0 THEN NoTable ELSE Rehashed(@, new, hs),
                       !.threshold = IF m.table # NoTable /\ new # 0 THEN 2 * @ ELSE LoadThreshold(new),
                       !.fault = IF new = 0 THEN Cap(m.table) ELSE 0]

\* remove_node: the node found for key k leaves its chain and the list.
RemoveNode(m, k) ==
    LET n == NodeOf(m, k)
        i == Home(m.table, Hash[k])
        p == CHOOSE q \in DOMAIN m.table[i] : m.table[i][q] = n
    IN  IF n = Nil THEN m
        ELSE [m EXCEPT !.table = [@ EXCEPT ![i] = CutChain(@, p)],
                       !.size = @ - 1,
                       !.list = AfterNodeRemoval(@, n),
                       !.cut = @ \cup DroppedWith(m.table[i], p)]

\* after_node_insertion: the user's remove_eldest_entry may ask for the eldest to go.
Evicted(m) == RemoveNode(m, Key(m.list.head))

-----------------------------------------------------------------------------
(***************************************************************************)
(* The operations.  A node that left the list is garbage, its links        *)
(* forgotten; the expected order is kept until nodes are lost.             *)
(***************************************************************************)

SetMap(m, o) ==
    LET live(f) == [n \in Ids |-> IF n \in Range(Walk(m.list)) THEN f[n] ELSE Nil] IN
    /\ table' = m.table /\ size' = m.size /\ threshold' = m.threshold
    /\ list' = [m.list EXCEPT !.before = live(@), !.after = live(@)]
    /\ fault' = m.fault /\ cut' = m.cut
    /\ order' = IF m.cut # {} THEN <<>> ELSE o
    /\ UNCHANGED <<access_order, initial>>

Without(s, k) == SelectSeq(s, LAMBDA x : x # k)
Moved(s, k) == IF access_order THEN Append(Without(s, k), k) ELSE s

\* put_val of a key that is in the table.
PutPresent(k) ==
    /\ fault = 0 /\ NodeOf(Map, k) # Nil
    /\ SetMap([Map EXCEPT !.list = AfterNodeAccess(@, NodeOf(Map, k))], Moved(order, k))

\* put_val of a new key, in a fresh node; evicts is the answer of remove_eldest_entry.
PutNew(k, evicts) ==
    /\ fault = 0 /\ NodeOf(Map, k) = Nil /\ size < MaxSize
    /\ LET used == {n[2] : n \in {x \in Range(Walk(list)) : Key(x) = k}}
           n == <<k, CHOOSE i \in 1 .. MaxSize : i \notin used /\ (1 .. i - 1) \subseteq used>>
           made == IF table = NoTable THEN Resize(Map) ELSE Map
           put == [made EXCEPT !.table = PushNode(@, n, Hash[k]),
                               !.list = LinkNodeLast(@, n),
                               !.size = @ + 1]
           grown == IF put.size > put.threshold THEN Resize(put) ELSE put
           o == Append(order, k)
       IN  IF evicts /\ grown.fault = 0 THEN SetMap(Evicted(grown), SubSeq(o, 2, Len(o)))
           ELSE SetMap(grown, o)

\* get: in access order the node found becomes the last.
Get(k) ==
    /\ fault = 0 /\ access_order /\ NodeOf(Map, k) # Nil
    /\ SetMap([Map EXCEPT !.list = AfterNodeAccess(@, NodeOf(Map, k))], Moved(order, k))

Remove(k) ==
    /\ fault = 0
    /\ SetMap(RemoveNode(Map, k), Without(order, k))

\* pop_front and pop_back return the node at that end and remove the node of its key.
PopFront ==
    /\ fault = 0 /\ list.head # Nil
    /\ SetMap(RemoveNode(Map, Key(list.head)), SubSeq(order, 2, Len(order)))

PopBack ==
    /\ fault = 0 /\ list.tail # Nil
    /\ SetMap(RemoveNode(Map, Key(list.tail)), SubSeq(order, 1, Len(order) - 1))

Clear ==
    /\ fault = 0 /\ table # NoTable
    /\ SetMap([Map EXCEPT !.table = EmptyTable(Cap(table)), !.size = 0, !.cut = {},
                          !.list = [@ EXCEPT !.head = Nil, !.tail = Nil]], <<>>)

Next ==
    \/ \E k \in Keys : PutPresent(k) \/ Get(k) \/ Remove(k)
    \/ \E k \in Keys, evicts \in BOOLEAN : PutNew(k, evicts)
    \/ PopFront \/ PopBack \/ Clear

Spec == Init /\ [][Next]_vars

-----------------------------------------------------------------------------

\* The fields have their types.
TypeOK ==
    /\ \A i \in DOMAIN table : table[i] \in Seq(Ids)
    /\ size \in 0 .. MaxSize
    /\ threshold \in 0 .. U32MAX
    /\ list \in [head : Ids \cup {Nil}, tail : Ids \cup {Nil},
                 before : [Ids -> Ids \cup {Nil}], after : [Ids -> Ids \cup {Nil}]]
    /\ cut \subseteq Ids

\* The list reads the same from both ends, and len() is its length: also after
\* chains were cut, evictions and moves (link_node_last, after_node_removal,
\* after_node_access, clear).
ListWhole ==
    LET w == Walk(list)
    IN  /\ Len(w) = size
        /\ list.head = IF w = <<>> THEN Nil ELSE w[1]
        /\ list.tail = IF w = <<>> THEN Nil ELSE w[Len(w)]
        /\ \A i \in DOMAIN w : list.before[w[i]] = IF i = 1 THEN Nil ELSE w[i - 1]

\* Every node of the list is in the table or was cut out of its chain, none both.
CutNodesStay ==
    fault = 0 => /\ Range(Walk(list)) = Nodes(table) \cup cut
                 /\ Nodes(table) \cap cut = {}

\* Until nodes are lost, iteration gives the keys in the order of insertion, or
\* of access, and the eldest is the one evicted (put, get, pop_front, pop_back).
OrderAgrees ==
    fault = 0 /\ cut = {} => order = [i \in 1 .. Len(Walk(list)) |-> Key(Walk(list)[i])]

\* What tracing the map marks: trace follows the table to the first node of each
\* chain, and from a node `before' and `after', but neither `next' nor head and tail.
Traced ==
    LET firsts == {table[i][1] : i \in {j \in DOMAIN table : table[j] # <<>>}}
        step(S) == S \cup (({list.before[n] : n \in S} \cup {list.after[n] : n \in S}) \ {Nil})
        grown[i \in 0 .. MaxNodes] == IF i = 0 THEN firsts ELSE step(grown[i - 1])
    IN  grown[MaxNodes]

\* Until nodes are lost, tracing reaches every node of the map, the ones that only
\* `next' leads to in the table included.
TracedWhole == fault = 0 /\ cut = {} => Range(Walk(list)) \subseteq Traced

\* A map made with the default capacity fails to grow only at the maximum.
DefaultGrows == initial = DEFAULT_INITIAL_CAPACITY /\ fault # 0 => 2 * fault >= MAXIMUM_CAPACITY
=============================================================================
