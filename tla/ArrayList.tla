----------------------------- MODULE ArrayList -----------------------------
(***************************************************************************)
(* system/arraylist.rs: a growable array in a garbage collected RawArray.  *)
(* buf holds the capacity's cells, stale and uninitialized ones included;  *)
(* the first len are the list.  ref is history: the list a Vec would be    *)
(* after the same calls.                                                   *)
(***************************************************************************)
EXTENDS Integers, Sequences

CONSTANTS
    Elements,      \* values
    Uninit,        \* the content of a cell nothing was written to
    FirstCapacity, \* next_capacity of 0: 8, 4 or 1, by element size
    Capacities,    \* arguments of with_capacity
    MaxLen         \* bound: no list longer than this

VARIABLES
    buf,       \* cells of the RawArray; their number is its cap
    len,       \* RawArray::len
    panicked,  \* a call of split_off panicked
    ref        \* history

vars == <<buf, len, panicked, ref>>

FreshCells(n) == [i \in 1 .. n |-> Uninit]

\* with_capacity; the constructors that fill the list push what they are given.
Init ==
    /\ \E c \in Capacities : buf = FreshCells(c)
    /\ len = 0
    /\ panicked = FALSE
    /\ ref = <<>>

List == [buf |-> buf, len |-> len]
SetList(l) == buf' = l.buf /\ len' = l.len

NextCapacity(cap) == IF cap = 0 THEN FirstCapacity ELSE 2 * cap

\* grow: a new array of cap cells with the list copied, unless it has that capacity.
Grow(l, cap) ==
    IF cap = Len(l.buf) THEN l
    ELSE [l EXCEPT !.buf = [i \in 1 .. cap |-> IF i <= l.len THEN l.buf[i] ELSE Uninit]]

Pushed(l, v) ==
    LET g == IF l.len = Len(l.buf) THEN Grow(l, NextCapacity(Len(l.buf))) ELSE l
    IN  [buf |-> [g.buf EXCEPT ![l.len + 1] = v], len |-> l.len + 1]

\* remove: the cells behind idx move down; the last stays behind as a stale copy.
Removed(l, idx) ==
    [buf |-> [i \in DOMAIN l.buf |-> IF i > idx /\ i < l.len THEN l.buf[i + 1] ELSE l.buf[i]],
     len |-> l.len - 1]

Truncated(l, n) == IF n >= l.len THEN l ELSE [l EXCEPT !.len = n]

\* try_reserve: the capacity doubled until it holds the list and `additional' more.
Reserved(l, additional) ==
    LET cap[i \in 0 .. MaxLen] == IF i = 0 THEN NextCapacity(Len(l.buf)) ELSE NextCapacity(cap[i - 1])
        enough == {i \in 0 .. MaxLen : cap[i] >= l.len + additional}
    IN  IF l.len + additional <= Len(l.buf) THEN l
        ELSE Grow(l, cap[CHOOSE i \in enough : \A j \in enough : i <= j])

\* The elements of a sequence that are in a set, in order.
Filtered(s, kept) ==
    LET f[i \in 0 .. Len(s)] == IF i = 0 THEN <<>>
                               ELSE IF s[i] \in kept THEN Append(f[i - 1], s[i])
                               ELSE f[i - 1]
    IN  f[Len(s)]

\* retain, retain_mut: each element kept is swapped down to the write position.
Retained(l, kept) ==
    LET pass[r \in 0 .. l.len] ==
            IF r = 0 THEN [buf |-> l.buf, w |-> 1]
            ELSE LET p == pass[r - 1]
                 IN  IF p.buf[r] \in kept
                     THEN [buf |-> [p.buf EXCEPT ![r] = p.buf[p.w], ![p.w] = p.buf[r]], w |-> p.w + 1]
                     ELSE p
    IN  Truncated([l EXCEPT !.buf = pass[l.len].buf], pass[l.len].w - 1)

BugReversed(l) ==
    [l EXCEPT !.buf = [i \in DOMAIN @ |-> IF i <= Len(@) THEN @[Len(@) + 1 - i] ELSE @[i]]]

\* reverse_in_place: the first and the last half swapped, element by element.
Reversed(l) ==
    [l EXCEPT !.buf = [i \in DOMAIN @ |-> IF i <= l.len THEN @[l.len + 1 - i] ELSE @[i]]]

-----------------------------------------------------------------------------

Push(v) ==
    /\ len < MaxLen
    /\ SetList(Pushed(List, v))
    /\ ref' = Append(ref, v)
    /\ UNCHANGED panicked

Pop ==
    /\ len > 0
    /\ len' = len - 1
    /\ ref' = SubSeq(ref, 1, Len(ref) - 1)
    /\ UNCHANGED <<buf, panicked>>

\* set, or an index that the caller kept within the list.
Set(idx, v) ==
    /\ idx < len
    /\ buf' = [buf EXCEPT ![idx + 1] = v]
    /\ ref' = [ref EXCEPT ![idx + 1] = v]
    /\ UNCHANGED <<len, panicked>>

\* index_mut of idx, negative ones counted from the end: it is checked against the
\* capacity, not the length, so that a write past the end goes to an unused cell.
Position(idx) == IF idx < 0 THEN len + idx ELSE idx

IndexMut(idx, v) ==
    /\ Position(idx) \in 0 .. Len(buf) - 1
    /\ buf' = [buf EXCEPT ![Position(idx) + 1] = v]
    /\ ref' = IF Position(idx) < len THEN [ref EXCEPT ![Position(idx) + 1] = v] ELSE ref
    /\ UNCHANGED <<len, panicked>>

\* A write through the slice that a range index gives: that one ends within the list.
SliceMut(start, end, v) ==
    LET from == Position(start)
        to == Position(end)
        Write(s) == [i \in DOMAIN s |-> IF from < i /\ i <= to THEN v ELSE s[i]]
    IN  /\ 0 <= from /\ from <= to /\ to <= len
        /\ buf' = Write(buf)
        /\ ref' = Write(ref)
        /\ UNCHANGED <<len, panicked>>

Remove(idx) ==
    /\ idx < len
    /\ SetList(Removed(List, idx))
    /\ ref' = SubSeq(ref, 1, idx) \o SubSeq(ref, idx + 2, Len(ref))
    /\ UNCHANGED panicked

SwapRemove(idx) ==
    /\ idx < len
    /\ buf' = [buf EXCEPT ![idx + 1] = buf[len]]
    /\ len' = len - 1
    /\ ref' = SubSeq([ref EXCEPT ![idx + 1] = ref[Len(ref)]], 1, Len(ref) - 1)
    /\ UNCHANGED panicked

\* truncate, clear.
Truncate(n) ==
    /\ SetList(Truncated(List, n))
    /\ ref' = SubSeq(ref, 1, IF n < Len(ref) THEN n ELSE Len(ref))
    /\ UNCHANGED panicked

\* resize, resize_with: room for all, then as many pushes.
Resize(n, v) ==
    /\ n > len
    /\ LET l[i \in len .. n] == IF i = len THEN Reserved(List, n - len) ELSE Pushed(l[i - 1], v)
       IN  SetList(l[n])
    /\ ref' = ref \o [i \in 1 .. n - Len(ref) |-> v]
    /\ UNCHANGED panicked

Reserve(additional) ==
    /\ len + additional <= MaxLen
    /\ SetList(Reserved(List, additional))
    /\ UNCHANGED <<ref, panicked>>

Retain(kept) ==
    /\ SetList(Retained(List, kept))
    /\ ref' = Filtered(ref, kept)
    /\ UNCHANGED panicked

ReverseInPlace ==
    /\ SetList(Reversed(List))
    /\ ref' = [i \in DOMAIN ref |-> ref[Len(ref) + 1 - i]]
    /\ UNCHANGED panicked

\* split_off removes at a growing index from a shrinking list: the second removal
\* skips an element, and the first index past the end unwraps a None.
SplitOff(at) ==
    /\ at <= len
    /\ LET l[i \in at .. len] == IF i = at THEN List
                                 ELSE IF i - 1 < l[i - 1].len THEN Removed(l[i - 1], i - 1)
                                 ELSE l[i - 1]
       IN  SetList(l[len]) /\ panicked' = (l[len].len # at)
    /\ ref' = SubSeq(ref, 1, at)

Next ==
    /\ ~panicked
    /\ \/ \E v \in Elements : Push(v)
       \/ Pop \/ ReverseInPlace
       \/ \E i \in 0 .. MaxLen - 1 : Remove(i) \/ SwapRemove(i)
       \/ \E i \in 0 .. MaxLen - 1, v \in Elements : Set(i, v)
       \/ \E i \in -MaxLen .. MaxLen - 1, v \in Elements : IndexMut(i, v)
       \/ \E i, j \in -MaxLen .. MaxLen, v \in Elements : SliceMut(i, j, v)
       \/ \E n \in 0 .. MaxLen : Truncate(n) \/ Reserve(n) \/ SplitOff(n)
       \/ \E n \in 0 .. MaxLen, v \in Elements : Resize(n, v)
       \/ \E kept \in SUBSET Elements : Retain(kept)

Spec == Init /\ [][Next]_vars

-----------------------------------------------------------------------------

\* The list is the one a Vec would be after the same calls, whatever the buffer
\* holds behind it; a split_off that panics is the exception.
ListAgrees == ~panicked => len <= Len(buf) /\ SubSeq(buf, 1, len) = ref

\* No cell of the list is uninitialized, after a panic either.
Initialized == Uninit \notin {buf[i] : i \in 1 .. len}

\* The buffer never shrinks.
KeepsBuffer == Len(buf') >= Len(buf)

\* try_reserve leaves room for what it was asked for: no later push of that many
\* moves the list.
LeavesRoom == \A n \in 0 .. MaxLen : Reserve(n) => Len(buf') >= len' + n
=============================================================================
