---------------------------- MODULE ArrayMarking ----------------------------
(***************************************************************************)
(* heap/mark.rs: marking of a large array in chunks.  A task names a       *)
(* power-of-two sized piece [(chunk - 1) * 2^pow, chunk * 2^pow) of the    *)
(* array, packed with the array's address into one word; workers split the *)
(* pieces further and visit what is left, without looking at the length.   *)
(* Tasks are taken in any order, by any worker.                            *)
(***************************************************************************)
EXTENDS Integers, FiniteSets, Bags

CONSTANTS
    Lengths,     \* array lengths
    Slice,       \* 2048 in the code: pieces of this size are not split
    OOP_BITS,    \* bits of the word for the address and its two flags
    POW_BITS,    \* 5 in the code
    CHUNK_BITS   \* 10 in the code

VARIABLES
    len,      \* array_length
    started,  \* do_chunked_array_start ran
    tasks,    \* bag of packed MarkTask words waiting in the queues
    visited   \* how often trace visited each element

vars == <<len, started, tasks, visited>>

\* The largest power: arrays of more than 2^(MaxPow - 1) elements take the overflow path.
MaxPow == 2 ^ POW_BITS - 1
Limit == 2 ^ (MaxPow - 1)
Span == 2 ^ MaxPow        \* no piece reaches further
ChunkSize == 2 ^ CHUNK_BITS

Init ==
    /\ len \in Lengths
    /\ started = FALSE
    /\ tasks = EmptyBag
    /\ visited = [i \in 0 .. Span - 1 |-> 0]

(***************************************************************************)
(* MarkTask::new2 and the decoders, in a word of OOP + POW + CHUNK bits;   *)
(* the task's address is 0 and its skip_live flag set.                     *)
(***************************************************************************)
Encode(chunk, pow) ==
    (1 + pow * 2 ^ OOP_BITS + chunk * 2 ^ (OOP_BITS + POW_BITS))
        % 2 ^ (OOP_BITS + POW_BITS + CHUNK_BITS)

Chunk(w) == w \div 2 ^ (OOP_BITS + POW_BITS)
Pow(w) == (w \div 2 ^ OOP_BITS) % 2 ^ POW_BITS

Task(chunk, pow) == SetToBag({Encode(chunk, pow)})
Push(queued, chunk, pow) == queued (+) Task(chunk, pow)

Visit(from, to) == visited' = [i \in DOMAIN visited |-> IF from <= i /\ i < to THEN visited[i] + 1 ELSE visited[i]]

\* log2i_graceful, rounded up.
Log2Up(n) == CHOOSE p \in 0 .. MaxPow : 2 ^ p >= n /\ (p = 0 \/ 2 ^ (p - 1) < n)

Splits(chunk, pow) == 2 ^ pow > Slice /\ chunk * 2 < ChunkSize

(***************************************************************************)
(* do_chunked_array_start: full left pieces are queued while the right     *)
(* ones are split; the irregular tail is visited at once.                  *)
(***************************************************************************)
BugSplitPrefix(s) ==
    LET pow == s.pow - 1
        left == 2 * s.chunk - 1
        end == left * 2 ^ pow
    IN  IF end <= len + 1
        THEN [chunk |-> left + 1, pow |-> pow, last |-> end, queued |-> Push(s.queued, left, pow)]
        ELSE [s EXCEPT !.chunk = left, !.pow = pow]

SplitPrefix(s) ==
    LET pow == s.pow - 1
        left == 2 * s.chunk - 1
        end == left * 2 ^ pow
    IN  IF end < len
        THEN [chunk |-> left + 1, pow |-> pow, last |-> end, queued |-> Push(s.queued, left, pow)]
        ELSE [s EXCEPT !.chunk = left, !.pow = pow]

Overflows == Log2Up(len) >= MaxPow

FirstPiece ==
    IF Overflows
    THEN [chunk |-> 2, pow |-> MaxPow - 1, last |-> Limit, queued |-> Task(2, MaxPow - 1)]
    ELSE [chunk |-> 1, pow |-> Log2Up(len), last |-> 0, queued |-> EmptyBag]

StartChunks ==
    LET s[i \in 0 .. MaxPow] ==
            IF i = 0 THEN FirstPiece
            ELSE IF Splits(s[i - 1].chunk, s[i - 1].pow) THEN SplitPrefix(s[i - 1]) ELSE s[i - 1]
    IN  s[MaxPow]

DoArrayStart ==
    /\ ~started
    /\ started' = TRUE
    /\ IF len <= 2 * Slice
       THEN Visit(0, len) /\ UNCHANGED tasks
       ELSE tasks' = StartChunks.queued /\ Visit(StartChunks.last, len)
    /\ UNCHANGED len

(***************************************************************************)
(* do_chunked_array: the left halves are queued, the last right piece is   *)
(* visited.                                                                *)
(***************************************************************************)
SplitRight(s) ==
    [chunk |-> 2 * s.chunk, pow |-> s.pow - 1,
     queued |-> Push(s.queued, 2 * s.chunk - 1, s.pow - 1)]

SplitChunk(w) ==
    LET s[i \in 0 .. MaxPow] ==
            IF i = 0 THEN [chunk |-> Chunk(w), pow |-> Pow(w), queued |-> EmptyBag]
            ELSE IF Splits(s[i - 1].chunk, s[i - 1].pow) THEN SplitRight(s[i - 1]) ELSE s[i - 1]
    IN  s[MaxPow]

Replaced(w, queued) == (tasks (-) SetToBag({w})) (+) queued

DoChunkedArray ==
    /\ \E w \in BagToSet(tasks) :
        LET last == SplitChunk(w)
        IN  /\ tasks' = Replaced(w, last.queued)
            /\ Visit((last.chunk - 1) * 2 ^ last.pow, last.chunk * 2 ^ last.pow)
    /\ UNCHANGED <<len, started>>

Next == DoArrayStart \/ DoChunkedArray
Spec == Init /\ [][Next]_vars

-----------------------------------------------------------------------------

\* Every element of an array within the limit is visited exactly once when no task
\* is left, and none beyond its end or twice at any time: pieces cover the array
\* although nobody checks them against its length (do_chunked_array_start).
ElementsOnce ==
    len <= Limit =>
        /\ \A i \in DOMAIN visited : visited[i] <= IF i < len THEN 1 ELSE 0
        /\ started /\ tasks = EmptyBag => \A i \in 0 .. len - 1 : visited[i] = 1

\* A chunk number is never 0, which would make the task that of a whole object
\* (is_not_chunked), and both numbers fit their bits.
TasksWhole ==
    \A w \in BagToSet(tasks) : Chunk(w) > 0 /\ w % 2 ^ OOP_BITS = 1 /\ Pow(w) < MaxPow
=============================================================================
