------------------------------ MODULE Bitmap ------------------------------
(***************************************************************************)
(* heap/bitmap.rs, HeapBitmap: one bit per granule of the heap, in cells   *)
(* that threads update with atomic operations.  It keeps the mark bits     *)
(* (marking_context.rs) and the object starts of each region.  Offsets are *)
(* relative to the start of the memory covered.  sure and wins are         *)
(* history: the bits set by calls that returned and not cleared since, and *)
(* how many set each: set_bit, or an atomic_test_and_set that said so.     *)
(***************************************************************************)
EXTENDS Integers, FiniteSets, FiniteSetsExt

CONSTANTS
    Threads,
    ALIGN,          \* bytes of a granule, 16 in the code
    BitsPerCell,    \* 8 in the code
    CellCount

VARIABLES
    cells,      \* the set bits of each cell
    call,       \* the atomic_test_and_set each thread is in
    sure, wins  \* history

vars == <<cells, call, sure, wins>>

CellIndexes == 0 .. CellCount - 1
Granules == 0 .. CellCount * BitsPerCell - 1
NoCall == [at |-> "idle", bit |-> 0, old |-> {}]

Init ==
    /\ cells = [c \in CellIndexes |-> {}]
    /\ call = [t \in Threads |-> NoCall]
    /\ sure = {}
    /\ wins = [g \in Granules |-> 0]

\* object_start_index_bit of a granule.
Cell(g) == g \div BitsPerCell
Bit(g) == g % BitsPerCell
CheckBit(g) == Bit(g) \in cells[Cell(g)]
Bits == {g \in Granules : CheckBit(g)}

-----------------------------------------------------------------------------
(***************************************************************************)
(* Searches and range operations, on the cells as they are.                *)
(***************************************************************************)

\* find_object_start: the last bit at or before the address, or -1.
FindObjectStart(addr) ==
    LET n == addr \div ALIGN
        byte[c \in CellIndexes] == IF c = Cell(n) THEN cells[c] \cap (0 .. Bit(n)) ELSE cells[c]
        found == {c \in 0 .. Cell(n) : byte[c] # {}}
    IN  IF found = {} THEN -1 ELSE Max(found) * BitsPerCell + Max(byte[Max(found)])

\* The range operations go bit by bit up to the first cell boundary, bit by bit
\* down to the last, and over whole cells between the two.
FirstBoundary(b, e) == Min({x \in b .. e : Bit(x) = 0} \cup {e})
LastBoundary(b, e) == Max({x \in b .. e : Bit(x) = 0} \cup {b})

Inside(b, e) ==
    LET b1 == FirstBoundary(b, e)
        e1 == LastBoundary(b1, e)
    IN  [edges |-> (b .. b1 - 1) \cup (e1 .. e - 1), whole |-> Cell(b1) .. Cell(e1) - 1]

IsMarkedRange(b, e) ==
    \/ \E g \in Inside(b, e).edges : CheckBit(g)
    \/ \E c \in Inside(b, e).whole : cells[c] # {}

\* clear_range, clear_range_atomic.
ClearedRange(b, e) ==
    LET range == Inside(b, e)
    IN  [c \in CellIndexes |->
            IF c \in range.whole THEN {}
            ELSE cells[c] \ {Bit(g) : g \in {x \in range.edges : Cell(x) = c}}]

\* visit_marked_range: left edge, cells between, right edge.
VisitedRange(b, e) ==
    LET at(c, bits) == {c * BitsPerCell + i : i \in bits}
        left == cells[Cell(b)] \ (0 .. Bit(b) - 1)
        right == IF Cell(b) = Cell(e) THEN left
                 ELSE IF Bit(e) = 0 THEN {} ELSE cells[Cell(e)]
    IN  (IF Cell(b) < Cell(e)
         THEN at(Cell(b), left) \cup UNION {at(c, cells[c]) : c \in Cell(b) + 1 .. Cell(e) - 1}
         ELSE {})
        \cup at(Cell(e), right \cap (0 .. Bit(e) - 1))

-----------------------------------------------------------------------------
(***************************************************************************)
(* Updates.                                                                *)
(***************************************************************************)

\* set_bit of an allocator, for an object that nobody else marks yet.
SetBit(g) ==
    /\ ~CheckBit(g) /\ \A t \in Threads : call[t].at = "idle" \/ call[t].bit # g
    /\ cells' = [cells EXCEPT ![Cell(g)] = @ \cup {Bit(g)}]
    /\ sure' = sure \cup {g}
    /\ wins' = [wins EXCEPT ![g] = @ + 1]
    /\ UNCHANGED call

\* atomic_test_and_set: the load, then compare_exchange_weak until the bit is set.
LoadCell(t, g) ==
    /\ call[t].at = "idle"
    /\ call' = [call EXCEPT ![t] = [at |-> "loaded", bit |-> g, old |-> cells[Cell(g)]]]
    /\ UNCHANGED <<cells, sure, wins>>

Returned(t, g, won) ==
    /\ call' = [call EXCEPT ![t] = NoCall]
    /\ sure' = sure \cup {g}
    /\ wins' = [wins EXCEPT ![g] = IF won THEN @ + 1 ELSE @]

BugExchange(t) ==
    LET g == call[t].bit IN
    /\ call[t].at = "loaded" /\ Bit(g) \notin call[t].old
    /\ cells' = [cells EXCEPT ![Cell(g)] = call[t].old \cup {Bit(g)}]
    /\ Returned(t, g, TRUE)

Exchange(t) ==
    LET g == call[t].bit IN
    /\ call[t].at = "loaded" /\ Bit(g) \notin call[t].old
    /\ cells[Cell(g)] = call[t].old
    /\ cells' = [cells EXCEPT ![Cell(g)] = @ \cup {Bit(g)}]
    /\ Returned(t, g, TRUE)

\* The exchange fails: the cell changed, or for no reason (weak).
ExchangeFails(t) ==
    /\ call[t].at = "loaded" /\ Bit(call[t].bit) \notin call[t].old
    /\ call' = [call EXCEPT ![t].old = cells[Cell(call[t].bit)]]
    /\ UNCHANGED <<cells, sure, wins>>

AlreadySet(t) ==
    /\ call[t].at = "loaded" /\ Bit(call[t].bit) \in call[t].old
    /\ Returned(t, call[t].bit, FALSE)
    /\ UNCHANGED cells

\* clear, at a pause: nobody is marking (clear_bitmap_full).
Clear ==
    /\ \A t \in Threads : call[t].at = "idle"
    /\ cells' = [c \in CellIndexes |-> {}]
    /\ sure' = {}
    /\ wins' = [g \in Granules |-> 0]
    /\ UNCHANGED call

Next ==
    \/ \E g \in Granules : SetBit(g)
    \/ \E t \in Threads, g \in Granules : LoadCell(t, g)
    \/ \E t \in Threads : Exchange(t) \/ ExchangeFails(t) \/ AlreadySet(t)
    \/ Clear

Spec == Init /\ [][Next]_vars

-----------------------------------------------------------------------------

Quiet == \A t \in Threads : call[t].at = "idle"

\* A bit whose call returned stays set, whatever the threads do to its neighbours
\* in the cell; no other is set (atomic_test_and_set, set_bit, clear).
NoLostBit == Bits = sure

\* Of the threads that try to mark an object, one is told that it did, and none if
\* the allocator had marked it.
OneWinner == \A g \in Granules : wins[g] <= 1

\* find_object_start answers the last object start at or before the address: for
\* every address in the middle of an object, over cell boundaries, its own start.
StartFound == Quiet =>
    \A addr \in 0 .. CellCount * BitsPerCell * ALIGN - 1 :
        FindObjectStart(addr) = Max({g \in Bits : g * ALIGN <= addr} \cup {-1})

\* The operations on ranges are what one says bit by bit, with begin and end
\* anywhere within or between cells (is_marked_range, clear_range, visit_marked_range).
RangesAgree == Quiet =>
    \A b \in Granules : \A e \in b .. CellCount * BitsPerCell - 1 :
        /\ IsMarkedRange(b, e) = (\E g \in b .. e - 1 : CheckBit(g))
        /\ LET after == ClearedRange(b, e)
           IN  {g \in Granules : Bit(g) \in after[Cell(g)]} = Bits \ (b .. e - 1)
        /\ VisitedRange(b, e) = Bits \cap (b .. e - 1)
=============================================================================
