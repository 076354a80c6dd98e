--------------------------- MODULE RegionsProofs ----------------------------
(***************************************************************************)
(* Proofs about Regions, for any number of regions, mutators and sizes: no *)
(* unit of memory is free twice, or free and in use (FreeIsFree); objects  *)
(* are whole (ObjectsWhole); the allocator implements Memory; and the free *)
(* set is right: free memory is found, open regions are usable, used and   *)
(* committed sizes agree with the regions (FreeSetOK).                     *)
(*                                                                         *)
(* The argument: the record F of what heap.lock protects, the objects and  *)
(* what is left of the buffers of threads are related by InOrder.  The     *)
(* lemmas up to ContiguousFact say what an allocation makes of F, those up *)
(* to RebuildFact what every change of F, of the objects or of the buffers *)
(* makes of InOrder, and those up to StepSound that an action is made of   *)
(* such changes.  The accounts come after that: a fold over lists, buffers *)
(* or regions is the size of a set of units (SumFact), what an open region *)
(* offers is the set FreeUnits, and Tidy says that these sets together are *)
(* no more than capacity and what buffers gave back leave after used.      *)
(***************************************************************************)
EXTENDS Regions, TLAPS, FiniteSetTheorems, WellFoundedInduction

-----------------------------------------------------------------------------
(*****************************************************************************)
(* Numbers: least elements, powers of two, addresses.                        *)
(*****************************************************************************)

(* A non-empty set of natural numbers has a least element. *)
LEMMA LeastNatural ==
  ASSUME NEW T, T \subseteq Nat, T # {}
  PROVE  \E n \in T : \A k \in T : n <= k
<1> DEFINE R == OpToRel(<, Nat)
<1>1. IsWellFoundedOn(R, Nat)
  BY NatLessThanWellFounded
<1> HIDE DEF R
<1>2. PICK n \in T : \A k \in T : ~(<<k, n>> \in R)
  BY <1>1, WFMin
<1>3. \A k \in T : ~(k < n)
  BY <1>2 DEF R, OpToRel
<1> QED BY <1>3

(* Induction, with a set in the place of a formula. *)
LEMMA SetInduction ==
  ASSUME NEW T, 0 \in T, \A n \in Nat : n \in T => n + 1 \in T
  PROVE  Nat \subseteq T
<1> SUFFICES ASSUME Nat \ T # {} PROVE FALSE
  OBVIOUS
<1>1. PICK n \in Nat \ T : \A k \in Nat \ T : n <= k
  BY LeastNatural
<1>2. n # 0 /\ n - 1 \in Nat
  OBVIOUS
<1>3. n - 1 \in T
  BY <1>1, <1>2
<1>4. (n-1)+1 \in T
  BY <1>2, <1>3
<1> QED BY <1>4

(* Min is what it says. *)
LEMMA MinFact ==
  ASSUME NEW T, T \subseteq Nat, T # {}
  PROVE  Min(T) \in T /\ \A k \in T : Min(T) <= k
BY LeastNatural DEF Min

(* Max is what it says. *)
LEMMA MaxFact ==
  ASSUME NEW N \in Nat, NEW T, T \subseteq 0 .. N, T # {}
  PROVE  Max(T) \in T /\ \A k \in T : k <= Max(T)
<1> DEFINE U == {N - x : x \in T}
<1>1. U \subseteq Nat /\ U # {}
  <2>1. \A x \in T : N - x \in Nat
    OBVIOUS
  <2> QED BY <2>1
<1>2. PICK n \in U : \A k \in U : n <= k
  BY <1>1, LeastNatural
<1>3. PICK x \in T : n = N - x
  BY <1>2
<1>4. \A k \in T : k <= x
  BY <1>2, <1>3
<1> QED BY <1>4 DEF Max

(* Sizes of powers of two. *)
LEMMA Powers ==
  /\ RegionLog \in Nat
  /\ RegionSize \in Nat /\ RegionSize >= 1
  /\ \A n \in 0 .. RegionLog + 1 : 2 ^ n \in Nat
<1> USE RegionsAssumption, PowersOfTwo
<1>1. \A n \in 0 .. RegionLog + 1 : 2 ^ n \in Nat
  <2> TAKE n \in 0 .. RegionLog + 1
  <2>1. CASE n = 0
    BY <2>1
  <2>2. CASE n # 0
    <3>1. n - 1 \in 0 .. RegionLog /\ (n - 1) + 1 = n
      BY <2>2
    <3>2. 2 ^ ((n - 1) + 1) = 2 * 2 ^ (n - 1) /\ 2 ^ (n - 1) \in Nat
      BY <3>1
    <3> QED BY <3>1, <3>2
  <2> QED BY <2>1, <2>2
<1>2. 2 ^ RegionLog >= 1
  <2> DEFINE T == {n \in Nat : n <= RegionLog => 2 ^ n >= 1}
  <2>1. 0 \in T
    OBVIOUS
  <2>2. ASSUME NEW n \in Nat, n \in T PROVE n + 1 \in T
    <3> SUFFICES ASSUME n + 1 <= RegionLog PROVE 2 ^ (n + 1) >= 1
      OBVIOUS
    <3>1. 2 ^ (n + 1) = 2 * 2 ^ n /\ 2 ^ n \in Nat /\ 2 ^ n >= 1
      BY <2>2
    <3> QED BY <3>1
  <2>3. Nat \subseteq T
    <3> HIDE DEF T
    <3> QED BY <2>1, <2>2, SetInduction
  <2> QED BY <2>3
<1> QED BY <1>1, <1>2 DEF RegionSize

(* Every size up to that of a region has a bucket. *)
LEMMA BucketFact ==
  ASSUME NEW n \in Nat, 1 <= n, n <= RegionSize
  PROVE  bucket_index_for_size(n) \in Buckets
<1> USE RegionsAssumption, PowersOfTwo, Powers
<1> DEFINE T == {i \in Nat : i <= RegionLog + 1 /\ n < 2 ^ i}
<1>1. RegionLog + 1 \in T
  <2>1. 2 ^ (RegionLog + 1) = 2 * 2 ^ RegionLog
    OBVIOUS
  <2> QED BY <2>1 DEF RegionSize
<1>2. PICK i \in T : \A k \in T : i <= k
  BY <1>1, LeastNatural
<1>3. i # 0
  <2> SUFFICES ASSUME i = 0 PROVE FALSE
    OBVIOUS
  <2>1. n < 2 ^ 0
    BY <1>2
  <2>2. 2 ^ 0 = 1
    BY PowersOfTwo
  <2> QED BY <2>1, <2>2
<1>4. i - 1 \in Nat /\ ~(n < 2 ^ (i - 1)) /\ 2 ^ (i - 1) \in Nat
  BY <1>2, <1>3
<1>5. i \in Buckets /\ 2 ^ (i - 1) <= n /\ n < 2 ^ i
  BY <1>2, <1>3, <1>4 DEF Buckets
<1> QED BY <1>5 DEF bucket_index_for_size

(* The region of an address. *)
LEMMA RegionOfFact ==
  ASSUME NEW a \in Nat, NEW r \in Nat
  PROVE  /\ RegionOf(a) \in Nat
         /\ RegionOf(a) = r <=> Bottom(r) <= a /\ a < Bottom(r) + RegionSize
<1> USE Powers
<1> DEFINE q == a \div RegionSize
<1>1. q \in Nat /\ q * RegionSize <= a /\ a < q * RegionSize + RegionSize
  OBVIOUS
<1> HIDE DEF q
<1>2. ASSUME r * RegionSize <= a, a < r * RegionSize + RegionSize PROVE q = r
  <2>1. CASE q < r
    <3>1. (r - q - 1) * RegionSize >= 0
      BY <1>1, <2>1
    <3>2. r * RegionSize >= q * RegionSize + RegionSize
      BY <1>1, <3>1
    <3> QED BY <1>1, <1>2, <3>2
  <2>2. CASE r < q
    <3>1. (q - r - 1) * RegionSize >= 0
      BY <1>1, <2>2
    <3>2. q * RegionSize >= r * RegionSize + RegionSize
      BY <1>1, <3>1
    <3> QED BY <1>1, <1>2, <3>2
  <2> QED BY <1>1, <2>1, <2>2
<1> QED BY <1>1, <1>2 DEF RegionOf, Bottom, q

-----------------------------------------------------------------------------
(*****************************************************************************)
(* Free lists: what an operation makes of their entries.                     *)
(*****************************************************************************)

\* A free list as it is between two operations: an entry is in the bucket of its
\* size, at or below biggest, and in one place.
ListOK(list) ==
  /\ list = [heads |-> list.heads, biggest |-> list.biggest]
  /\ list.heads \in [Buckets -> Seq(Block)]
  /\ list.biggest \in 0 .. RegionLog + 1
  /\ \A i \in Buckets : \A k \in DOMAIN list.heads[i] :
       /\ list.heads[i][k][2] \in 1 .. RegionSize
       /\ bucket_index_for_size(list.heads[i][k][2]) = i
       /\ i <= list.biggest
  /\ \A i \in Buckets : \A k, l \in DOMAIN list.heads[i] :
       list.heads[i][k] = list.heads[i][l] => k = l

Sized(b) == b \in Block /\ b[2] \in 1 .. RegionSize

(* The entries of a list are those of its sequences. *)
LEMMA EntryFact ==
  ASSUME NEW list, NEW b
  PROVE  b \in Entries(list) <=> \E i \in Buckets : \E k \in DOMAIN list.heads[i] : b = list.heads[i][k]
BY DEF Entries, Range

(* An entry has a size and a bucket. *)
LEMMA EntrySized ==
  ASSUME NEW list, ListOK(list), NEW b \in Entries(list)
  PROVE  Sized(b) /\ b # NoBlock
<1>1a. PICK i \in Buckets : \E k \in DOMAIN list.heads[i] : b = list.heads[i][k]
  BY EntryFact
<1>1. PICK k \in DOMAIN list.heads[i] : b = list.heads[i][k]
  BY <1>1a
<1>2. list.heads[i] \in Seq(Block)
  BY DEF ListOK
<1>3. b \in Block
  BY <1>1, <1>2
<1>4. b[2] \in 1 .. RegionSize
  BY <1>1 DEF ListOK
<1> QED BY <1>3, <1>4, Powers DEF Sized, NoBlock

(* An empty list has no entries. *)
LEMMA EmptyListFact == ListOK(EmptyList) /\ Entries(EmptyList) = {}
<1>1. EmptyList.heads \in [Buckets -> Seq(Block)] /\ EmptyList.biggest = 0
  BY DEF EmptyList
<1>2. \A i \in Buckets : EmptyList.heads[i] = <<>>
  BY DEF EmptyList
<1>3. Entries(EmptyList) = {}
  BY <1>2 DEF Entries, Range
<1> QED BY <1>1, <1>2, <1>3, Powers DEF ListOK, EmptyList

(* FreeList::add. *)
LEMMA AddFact ==
  ASSUME NEW list, ListOK(list), NEW b, Sized(b), b \notin Entries(list)
  PROVE  ListOK(Add(list, b)) /\ Entries(Add(list, b)) = Entries(list) \cup {b}
<1> DEFINE i == bucket_index_for_size(b[2])
           new == Add(list, b)
<1>1. i \in Buckets /\ i \in 0 .. RegionLog + 1
  BY BucketFact, Powers DEF Sized, Buckets
<1>2. b \in Block /\ b[2] \in 1 .. RegionSize
  BY DEF Sized
<1>3. Max({list.biggest, i}) \in 0 .. RegionLog + 1 /\ list.biggest <= Max({list.biggest, i})
      /\ i <= Max({list.biggest, i})
  <2> DEFINE T == {list.biggest, i}
  <2>1. T \subseteq 0 .. RegionLog + 1 /\ T # {} /\ RegionLog + 1 \in Nat /\ list.biggest \in T /\ i \in T
    BY <1>1, Powers DEF ListOK
  <2> HIDE DEF T, i
  <2>2. Max(T) \in T /\ \A k \in T : k <= Max(T)
    BY <2>1, MaxFact
  <2> QED BY <2>1, <2>2 DEF T
<1>4. new = [heads |-> [list.heads EXCEPT ![i] = <<b>> \o list.heads[i]], biggest |-> Max({list.biggest, i})]
  BY DEF Add
<1> HIDE DEF new
<1>5. /\ \A j \in Buckets : list.heads[j] \in Seq(Block)
      /\ new.heads = [list.heads EXCEPT ![i] = <<b>> \o list.heads[i]]
      /\ new.biggest = Max({list.biggest, i})
  BY <1>4 DEF ListOK
<1> DEFINE s == list.heads[i]
           t == <<b>> \o s
<1>6. /\ t \in Seq(Block) /\ DOMAIN t = 1 .. Len(s) + 1 /\ DOMAIN s = 1 .. Len(s) /\ Len(s) \in Nat
      /\ t[1] = b /\ \A k \in 1 .. Len(s) : t[k + 1] = s[k]
  <2>1. s \in Seq(Block)
    BY <1>1, <1>5
  <2> HIDE DEF s, i
  <2> QED BY <2>1, <1>2
<1>7. \A k \in DOMAIN t : k = 1 \/ (k - 1 \in DOMAIN s /\ t[k] = s[k - 1])
  <2> HIDE DEF t, s
  <2> QED BY <1>6
<1>8. new.heads \in [Buckets -> Seq(Block)]
  <2> HIDE DEF i
  <2> QED BY <1>1, <1>5, <1>6 DEF ListOK
<1>9. /\ new.heads[i] = t
      /\ \A j \in Buckets : j # i => new.heads[j] = list.heads[j]
  <2> HIDE DEF i
  <2> QED BY <1>1, <1>5 DEF ListOK
<1>10. \A k \in DOMAIN s : s[k] # b
  <2> HIDE DEF i
  <2> QED BY <1>1, EntryFact
<1>11. \A j \in Buckets : \A k \in DOMAIN new.heads[j] :
          /\ new.heads[j][k][2] \in 1 .. RegionSize
          /\ bucket_index_for_size(new.heads[j][k][2]) = j
          /\ j <= new.biggest
  <2> TAKE j \in Buckets
  <2> TAKE k \in DOMAIN new.heads[j]
  <2>1. CASE j # i
    <3>1. j <= list.biggest /\ list.heads[j][k][2] \in 1 .. RegionSize
          /\ bucket_index_for_size(list.heads[j][k][2]) = j
      BY <1>9, <2>1 DEF ListOK
    <3>2. j <= new.biggest
      BY <3>1, <1>3, <1>5, Powers DEF ListOK, Buckets
    <3> QED BY <1>9, <2>1, <3>1, <3>2
  <2>2. CASE j = i /\ k = 1
    BY <1>2, <1>3, <1>5, <1>6, <1>9, <2>2
  <2>3. CASE j = i /\ k # 1
    <3>1. k - 1 \in DOMAIN s /\ t[k] = s[k - 1]
      BY <1>7, <1>9, <2>3
    <3>2. s[k-1][2] \in 1 .. RegionSize /\ bucket_index_for_size(s[k-1][2]) = j
      BY <1>1, <2>3, <3>1 DEF ListOK
    <3> QED BY <1>3, <1>5, <1>9, <2>3, <3>1, <3>2
  <2> QED BY <2>1, <2>2, <2>3
<1>12. \A j \in Buckets : \A k, l \in DOMAIN new.heads[j] : new.heads[j][k] = new.heads[j][l] => k = l
  <2> TAKE j \in Buckets
  <2> TAKE k, l \in DOMAIN new.heads[j]
  <2>1. CASE j # i
    BY <1>9, <2>1 DEF ListOK
  <2>2. CASE j = i
    <3>0. k \in DOMAIN t /\ l \in DOMAIN t /\ k \in Int /\ l \in Int
      BY <2>2, <1>9, <1>6
    <3> SUFFICES ASSUME t[k] = t[l] PROVE k = l
      BY <1>9, <2>2
    <3>1. CASE k = 1 \/ l = 1
      <4> HIDE DEF t, s
      <4> QED BY <1>7, <1>10, <1>6, <3>0, <3>1
    <3>2. CASE k # 1 /\ l # 1
      <4>1. k - 1 \in DOMAIN s /\ l - 1 \in DOMAIN s /\ s[k-1] = s[l-1]
        BY <1>7, <3>0, <3>2
      <4>2. k - 1 = l - 1
        BY <1>1, <4>1 DEF ListOK
      <4> QED BY <4>2, <3>0
    <3> QED BY <3>1, <3>2
  <2> QED BY <2>1, <2>2
<1>13. ListOK(new)
  <2>1. new = [heads |-> new.heads, biggest |-> new.biggest]
    BY <1>4
  <2> HIDE DEF i
  <2> QED BY <1>3, <1>5, <1>8, <1>11, <1>12, <2>1 DEF ListOK
<1>14. Entries(new) = Entries(list) \cup {b}
  <2>1. ASSUME NEW c \in Entries(new) PROVE c \in Entries(list) \cup {b}
    <3>1a. PICK j \in Buckets : \E k \in DOMAIN new.heads[j] : c = new.heads[j][k]
      BY EntryFact
    <3>1. PICK k \in DOMAIN new.heads[j] : c = new.heads[j][k]
      BY <3>1a
    <3>2. CASE j # i
      BY <1>9, <3>1, <3>2, EntryFact
    <3>3. CASE j = i
      <4>1. k \in DOMAIN t /\ c = t[k]
        BY <3>1, <3>3, <1>9
      <4>2. c = b \/ (k - 1 \in DOMAIN s /\ c = s[k-1])
        BY <4>1, <1>7, <1>6
      <4> QED BY <4>2, <1>1, EntryFact
    <3> QED BY <3>2, <3>3
  <2>2. b \in Entries(new)
    <3>1. 1 \in DOMAIN t /\ t[1] = b
      BY <1>6
    <3> QED BY <3>1, <1>1, <1>9, EntryFact
  <2>3. ASSUME NEW c \in Entries(list) PROVE c \in Entries(new)
    <3>1a. PICK j \in Buckets : \E k \in DOMAIN list.heads[j] : c = list.heads[j][k]
      BY EntryFact
    <3>1. PICK k \in DOMAIN list.heads[j] : c = list.heads[j][k]
      BY <3>1a
    <3>2. CASE j # i
      BY <1>9, <3>1, <3>2, EntryFact
    <3>3. CASE j = i
      <4>1. k + 1 \in DOMAIN t /\ t[k+1] = c
        BY <3>1, <3>3, <1>6
      <4> QED BY <4>1, <1>1, <1>9, EntryFact
    <3> QED BY <3>2, <3>3
  <2> QED BY <2>1, <2>2, <2>3
<1> QED BY <1>13, <1>14 DEF new

Sorted(s) == \A i, j \in DOMAIN s : i < j => s[j][1] <= s[i][1]

(* Every finite set of blocks can be put in order. *)
LEMMA Sortable ==
  ASSUME NEW bs, IsFiniteSet(bs), bs \subseteq Block
  PROVE  \E s \in [1 .. Cardinality(bs) -> bs] : Range(s) = bs /\ Sorted(s)
<1> DEFINE Ok(X) == \E s \in [1 .. Cardinality(X) -> X] : Range(s) = X /\ Sorted(s)
           T == {n \in Nat : \A X \in SUBSET bs : IsFiniteSet(X) /\ Cardinality(X) = n => Ok(X)}
<1>1. 0 \in T
  <2> SUFFICES ASSUME NEW X \in SUBSET bs, IsFiniteSet(X), Cardinality(X) = 0 PROVE Ok(X)
    OBVIOUS
  <2>1. X = {}
    BY FS_EmptySet
  <2> DEFINE s == [i \in 1 .. 0 |-> {}]
  <2>2. s \in [1 .. 0 -> X] /\ Range(s) = X /\ Sorted(s)
    BY <2>1 DEF Range, Sorted
  <2> QED BY <2>2
<1>2. ASSUME NEW n \in Nat, n \in T PROVE n + 1 \in T
  <2> SUFFICES ASSUME NEW X \in SUBSET bs, IsFiniteSet(X), Cardinality(X) = n + 1 PROVE Ok(X)
    OBVIOUS
  <2>1. X # {}
    BY FS_EmptySet
  <2>2. \A x \in X : x \in Block /\ x[1] \in Nat
    BY DEF Block
  <2> DEFINE P == {x[1] : x \in X}
  <2>3. PICK a \in P : \A k \in P : a <= k
    <3>1. P \subseteq Nat /\ P # {}
      BY <2>1, <2>2
    <3> HIDE DEF P
    <3> QED BY <3>1, LeastNatural
  <2>4. PICK b \in X : a = b[1]
    BY <2>3
  <2>5. \A x \in X : b[1] <= x[1]
    BY <2>3, <2>4
  <2> DEFINE Y == X \ {b}
  <2>6. IsFiniteSet(Y) /\ Cardinality(Y) = n /\ Y \in SUBSET bs
    <3>1. IsFiniteSet(Y) /\ Cardinality(Y) = Cardinality(X) - 1
      BY FS_RemoveElement
    <3> QED BY <3>1
  <2>7. PICK s \in [1 .. n -> Y] : Range(s) = Y /\ Sorted(s)
    BY <1>2, <2>6
  <2> DEFINE t == [i \in 1 .. n + 1 |-> IF i = n + 1 THEN b ELSE s[i]]
  <2>8. t \in [1 .. n + 1 -> X]
    BY <2>7
  <2>9. Range(t) = X
    <3>1. \A i \in 1 .. n + 1 : t[i] \in X
      BY <2>8
    <3>2. ASSUME NEW x \in X PROVE \E i \in 1 .. n + 1 : t[i] = x
      <4>1. CASE x = b
        BY <4>1
      <4>2. CASE x # b
        <5>1. x \in Range(s)
          BY <2>7, <4>2
        <5>2. PICK i \in 1 .. n : s[i] = x
          BY <2>7, <5>1 DEF Range
        <5>3. i \in 1 .. n + 1 /\ t[i] = x
          BY <5>2
        <5> QED BY <5>3
      <4> QED BY <4>1, <4>2
    <3>3. DOMAIN t = 1 .. n + 1
      OBVIOUS
    <3> HIDE DEF t
    <3> QED BY <3>1, <3>2, <3>3 DEF Range
  <2>10. Sorted(t)
    <3> SUFFICES ASSUME NEW i \in 1 .. n + 1, NEW j \in 1 .. n + 1, i < j PROVE t[j][1] <= t[i][1]
      BY DEF Sorted
    <3>1. i \in 1 .. n /\ t[i] = s[i] /\ s[i] \in X
      BY <2>7
    <3>2. CASE j = n + 1
      BY <3>1, <3>2, <2>5
    <3>3. CASE j # n + 1
      <4>1. j \in 1 .. n /\ t[j] = s[j] /\ DOMAIN s = 1 .. n
        BY <3>3, <2>7
      <4> HIDE DEF t
      <4> QED BY <4>1, <3>1, <2>7 DEF Sorted
    <3> QED BY <3>2, <3>3
  <2> HIDE DEF t
  <2> QED BY <2>8, <2>9, <2>10
<1>3. Nat \subseteq T
  <2> HIDE DEF T
  <2> QED BY <1>1, <1>2, SetInduction
<1>4. Cardinality(bs) \in Nat
  BY FS_CardinalityType
<1> QED BY <1>3, <1>4

(* The blocks of a set, each once. *)
LEMMA FallingFact ==
  ASSUME NEW bs, IsFiniteSet(bs), bs \subseteq Block
  PROVE  /\ Falling(bs) \in Seq(Block)
         /\ Range(Falling(bs)) = bs
         /\ \A k, l \in DOMAIN Falling(bs) : Falling(bs)[k] = Falling(bs)[l] => k = l
<1> DEFINE n == Cardinality(bs)
           s == Falling(bs)
<1>1. n \in Nat
  BY FS_CardinalityType
<1>2. \E x \in [1 .. n -> bs] : Range(x) = bs /\ \A i, j \in DOMAIN x : i < j => x[j][1] <= x[i][1]
  BY Sortable DEF Sorted
<1>3. s \in [1 .. n -> bs] /\ Range(s) = bs
  BY <1>2 DEF Falling
<1>4. s \in Surjection(1 .. n, bs)
  BY <1>3 DEF Surjection, Range
<1>5. IsFiniteSet(1 .. n) /\ Cardinality(1 .. n) = n
  BY <1>1, FS_Interval
<1>6. s \in Injection(1 .. n, bs)
  <2> HIDE DEF s, n
  <2> QED BY <1>4, <1>5, FS_SurjSameCardinalityImpliesInj DEF n
<1>7. s \in Seq(Block)
  <2> HIDE DEF s, n
  <2> QED BY <1>1, <1>3
<1> QED BY <1>3, <1>6, <1>7 DEF Injection, IsInjective

\* Every entry is where FreeList::allocate looks for its size.
Findable(list) ==
  \A i \in Buckets : \A b \in Range(list.heads[i]) :
    i <= list.biggest /\ bucket_index_for_size(b[2]) = i

(* Several blocks become entries. *)
LEMMA AddAllFact ==
  ASSUME NEW list, ListOK(list), NEW bs, IsFiniteSet(bs), \A b \in bs : Sized(b)
  PROVE  /\ Entries(AddAll(list, bs)) = Entries(list) \cup bs
         /\ Findable(AddAll(list, bs))
         /\ bs \cap Entries(list) = {} => ListOK(AddAll(list, bs))
<1> DEFINE Of(i) == {b \in bs : bucket_index_for_size(b[2]) = i}
           new == AddAll(list, bs)
           big == Max({list.biggest} \cup {bucket_index_for_size(b[2]) : b \in bs})
<1>1. \A b \in bs : b \in Block /\ b[2] \in 1 .. RegionSize /\ bucket_index_for_size(b[2]) \in Buckets
  BY BucketFact, Powers DEF Sized
<1>2. /\ big \in 0 .. RegionLog + 1 /\ list.biggest <= big
      /\ \A b \in bs : bucket_index_for_size(b[2]) <= big
  <2> DEFINE U == {list.biggest} \cup {bucket_index_for_size(b[2]) : b \in bs}
  <2>1. U \subseteq 0 .. RegionLog + 1 /\ U # {} /\ RegionLog + 1 \in Nat
    BY <1>1, Powers DEF ListOK, Buckets
  <2>2. list.biggest \in U /\ \A b \in bs : bucket_index_for_size(b[2]) \in U
    OBVIOUS
  <2>3. big = Max(U)
    OBVIOUS
  <2> HIDE DEF U, big
  <2>4. Max(U) \in U /\ \A k \in U : k <= Max(U)
    BY <2>1, MaxFact
  <2> QED BY <2>1, <2>2, <2>3, <2>4
<1>3. /\ new = [heads |-> new.heads, biggest |-> new.biggest] /\ new.biggest = big
      /\ new.heads = [i \in Buckets |-> Falling(Of(i)) \o list.heads[i]]
  BY DEF AddAll
<1> HIDE DEF new, big
<1>4. \A i \in Buckets : /\ Falling(Of(i)) \in Seq(Block) /\ Range(Falling(Of(i))) = Of(i)
                         /\ \A k, l \in DOMAIN Falling(Of(i)) : Falling(Of(i))[k] = Falling(Of(i))[l] => k = l
  <2> TAKE i \in Buckets
  <2>1. Of(i) \subseteq bs /\ Of(i) \subseteq Block
    BY <1>1
  <2>2. IsFiniteSet(Of(i))
    BY <2>1, FS_Subset
  <2> HIDE DEF Of
  <2> QED BY <2>1, <2>2, FallingFact
<1>5. \A i \in Buckets : list.heads[i] \in Seq(Block)
  BY DEF ListOK
<1> DEFINE A(i) == Falling(Of(i))
           S(i) == list.heads[i]
           N(i) == new.heads[i]
<1>6. \A i \in Buckets :
        /\ N(i) \in Seq(Block)
        /\ Len(A(i)) \in Nat /\ DOMAIN A(i) = 1 .. Len(A(i))
        /\ Len(S(i)) \in Nat /\ DOMAIN S(i) = 1 .. Len(S(i))
        /\ DOMAIN N(i) = 1 .. Len(A(i)) + Len(S(i))
        /\ \A k \in 1 .. Len(A(i)) : N(i)[k] = A(i)[k]
        /\ \A k \in Len(A(i)) + 1 .. Len(A(i)) + Len(S(i)) : N(i)[k] = S(i)[k - Len(A(i))]
  <2> TAKE i \in Buckets
  <2> DEFINE a == A(i)
             s == S(i)
  <2>1. a \in Seq(Block) /\ s \in Seq(Block)
    BY <1>4, <1>5
  <2>2. N(i) = a \o s
    BY <1>3
  <2> HIDE DEF a, s
  <2>3. /\ a \o s \in Seq(Block)
        /\ Len(a) \in Nat /\ DOMAIN a = 1 .. Len(a)
        /\ Len(s) \in Nat /\ DOMAIN s = 1 .. Len(s)
        /\ DOMAIN (a \o s) = 1 .. Len(a) + Len(s)
        /\ \A k \in 1 .. Len(a) : (a \o s)[k] = a[k]
        /\ \A k \in Len(a) + 1 .. Len(a) + Len(s) : (a \o s)[k] = s[k - Len(a)]
    BY <2>1
  <2> QED BY <2>2, <2>3 DEF a, s
<1>7. \A i \in Buckets : \A k \in DOMAIN A(i) : A(i)[k] \in Of(i)
  <2> TAKE i \in Buckets
  <2>1. Range(A(i)) = Of(i)
    BY <1>4
  <2> HIDE DEF A, Of
  <2> QED BY <2>1 DEF Range
<1>8. \A i \in Buckets : \A b \in Of(i) : \E k \in DOMAIN A(i) : A(i)[k] = b
  <2> TAKE i \in Buckets
  <2>1. Range(A(i)) = Of(i)
    BY <1>4
  <2> HIDE DEF A, Of
  <2> QED BY <2>1 DEF Range
<1>9. \A i \in Buckets : \A k, l \in DOMAIN A(i) : A(i)[k] = A(i)[l] => k = l
  BY <1>4
<1> HIDE DEF A
<1>10. \A i \in Buckets : \A k \in DOMAIN N(i) :
         \/ k \in DOMAIN A(i) /\ N(i)[k] = A(i)[k]
         \/ k - Len(A(i)) \in DOMAIN S(i) /\ N(i)[k] = S(i)[k - Len(A(i))]
  <2> HIDE DEF S, N
  <2> QED BY <1>6
<1>11. Entries(new) = Entries(list) \cup bs
  <2>1. ASSUME NEW c \in Entries(new) PROVE c \in Entries(list) \cup bs
    <3>1. PICK i \in Buckets : \E k \in DOMAIN N(i) : c = N(i)[k]
      BY EntryFact
    <3>2. PICK k \in DOMAIN N(i) : c = N(i)[k]
      BY <3>1
    <3>3. CASE k \in DOMAIN A(i) /\ c = A(i)[k]
      BY <3>3, <1>7
    <3>4. CASE k - Len(A(i)) \in DOMAIN S(i) /\ c = S(i)[k - Len(A(i))]
      BY <3>4, EntryFact
    <3> QED BY <3>2, <3>3, <3>4, <1>10
  <2>2. ASSUME NEW c \in bs PROVE c \in Entries(new)
    <3> DEFINE i == bucket_index_for_size(c[2])
    <3>1. i \in Buckets /\ c \in Of(i)
      BY <1>1
    <3> HIDE DEF i, Of
    <3>2. PICK k \in DOMAIN A(i) : A(i)[k] = c
      BY <3>1, <1>8
    <3>3. k \in DOMAIN N(i) /\ N(i)[k] = c
      <4> HIDE DEF N, S
      <4> QED BY <3>1, <3>2, <1>6
    <3> QED BY <3>1, <3>3, EntryFact
  <2>3. ASSUME NEW c \in Entries(list) PROVE c \in Entries(new)
    <3>1. PICK i \in Buckets : \E k \in DOMAIN S(i) : c = S(i)[k]
      BY EntryFact
    <3>2. PICK k \in DOMAIN S(i) : c = S(i)[k]
      BY <3>1
    <3>3. k + Len(A(i)) \in DOMAIN N(i) /\ N(i)[k + Len(A(i))] = c
      <4>1. k \in 1 .. Len(S(i)) /\ Len(A(i)) \in Nat /\ Len(S(i)) \in Nat
        BY <3>2, <1>6
      <4>2. /\ k + Len(A(i)) \in Len(A(i)) + 1 .. Len(A(i)) + Len(S(i))
            /\ k + Len(A(i)) \in 1 .. Len(A(i)) + Len(S(i)) /\ (k + Len(A(i))) - Len(A(i)) = k
        BY <4>1
      <4> HIDE DEF N, S
      <4> QED BY <4>2, <3>2, <1>6
    <3> QED BY <3>3, EntryFact
  <2> QED BY <2>1, <2>2, <2>3
<1>12. \A i \in Buckets : \A k \in DOMAIN N(i) :
         N(i)[k][2] \in 1 .. RegionSize /\ bucket_index_for_size(N(i)[k][2]) = i /\ i <= big
  <2> TAKE i \in Buckets
  <2> TAKE k \in DOMAIN N(i)
  <2>1. CASE k \in DOMAIN A(i) /\ N(i)[k] = A(i)[k]
    <3>1. N(i)[k] \in bs /\ bucket_index_for_size(N(i)[k][2]) = i
      BY <2>1, <1>7
    <3> QED BY <3>1, <1>1, <1>2
  <2>2. CASE k - Len(A(i)) \in DOMAIN S(i) /\ N(i)[k] = S(i)[k - Len(A(i))]
    <3>1. /\ N(i)[k][2] \in 1 .. RegionSize /\ bucket_index_for_size(N(i)[k][2]) = i
          /\ i <= list.biggest
      BY <2>2 DEF ListOK
    <3>2. i <= big
      BY <3>1, <1>2, Powers DEF Buckets, ListOK
    <3> QED BY <3>1, <3>2
  <2> QED BY <2>1, <2>2, <1>10
<1>13. ASSUME bs \cap Entries(list) = {}, NEW i \in Buckets, NEW k \in DOMAIN N(i), NEW l \in DOMAIN N(i),
              N(i)[k] = N(i)[l]
       PROVE  k = l
  <2>0. k \in Int /\ l \in Int /\ Len(A(i)) \in Nat
    BY <1>6
  <2>1. CASE k \in DOMAIN A(i) /\ N(i)[k] = A(i)[k]
    <3>1. N(i)[k] \in bs
      BY <2>1, <1>7
    <3>2. ~(l - Len(A(i)) \in DOMAIN S(i) /\ N(i)[l] = S(i)[l - Len(A(i))])
      BY <3>1, <1>13, EntryFact
    <3>3. l \in DOMAIN A(i) /\ N(i)[l] = A(i)[l]
      BY <3>2, <1>10
    <3> QED BY <2>1, <3>3, <1>9, <1>13
  <2>2. CASE k - Len(A(i)) \in DOMAIN S(i) /\ N(i)[k] = S(i)[k - Len(A(i))]
    <3>1. N(i)[k] \in Entries(list)
      BY <2>2, EntryFact
    <3>2. ~(l \in DOMAIN A(i) /\ N(i)[l] = A(i)[l])
      BY <3>1, <1>13, <1>7
    <3>3. l - Len(A(i)) \in DOMAIN S(i) /\ N(i)[l] = S(i)[l - Len(A(i))]
      BY <3>2, <1>10
    <3>4. k - Len(A(i)) = l - Len(A(i))
      BY <2>2, <3>3, <1>13 DEF ListOK
    <3> QED BY <3>4, <2>0
  <2> QED BY <2>1, <2>2, <1>10
<1>14. new.heads \in [Buckets -> Seq(Block)]
  <2>1. \A i \in Buckets : N(i) \in Seq(Block)
    BY <1>6
  <2> QED BY <2>1, <1>3
<1>15. bs \cap Entries(list) = {} => ListOK(new)
  BY <1>2, <1>3, <1>12, <1>13, <1>14 DEF ListOK
<1>16. Findable(new)
  <2> SUFFICES ASSUME NEW i \in Buckets, NEW b \in Range(N(i))
               PROVE  i <= new.biggest /\ bucket_index_for_size(b[2]) = i
    BY DEF Findable
  <2>1. PICK k \in DOMAIN N(i) : b = N(i)[k]
    BY DEF Range
  <2> QED BY <2>1, <1>3, <1>12
<1> QED BY <1>11, <1>15, <1>16 DEF new

\* What FreeList::allocate does to the entries.
TakesEntry(list, res, size) ==
  /\ ListOK(res.list)
  /\ \/ res.block = NoBlock /\ Entries(res.list) = Entries(list)
     \/ /\ res.block \in Entries(list) /\ res.block[2] >= size
        /\ Entries(res.list) = Entries(list) \ {res.block}

(* FreeList::allocate takes one entry out, or none. *)
LEMMA TakeFact ==
  ASSUME NEW list, ListOK(list), NEW size \in Nat
  PROVE  TakesEntry(list, FreeListAllocate(list, size), size)
<1> DEFINE C == {i \in 1 .. list.biggest : list.heads[i] # <<>> \/ size > 2 ^ (i - 1)}
           i == StopIndex(list, size)
           s == list.heads[i]
           res == FreeListAllocate(list, size)
<1>0. list.biggest \in 0 .. RegionLog + 1 /\ RegionLog + 1 \in Nat
  BY Powers DEF ListOK
<1>1. i \in {0} \cup C /\ \A k \in {0} \cup C : k <= i
  <2> DEFINE U == {0} \cup C
  <2>1. U \subseteq 0 .. RegionLog + 1 /\ U # {}
    BY <1>0
  <2>2. i = Max(U)
    BY DEF StopIndex
  <2> HIDE DEF U, i
  <2>3. Max(U) \in U /\ \A k \in U : k <= Max(U)
    BY <1>0, <2>1, MaxFact
  <2> QED BY <2>2, <2>3 DEF U
<1>2. i \in 0 .. RegionLog + 1 /\ i <= list.biggest /\ (i > 0 => i \in Buckets)
  <2> HIDE DEF i
  <2> QED BY <1>0, <1>1 DEF Buckets
<1>3. \A j \in Buckets : \A k \in DOMAIN list.heads[j] : j <= i
  <2> TAKE j \in Buckets
  <2> TAKE k \in DOMAIN list.heads[j]
  <2>1. j <= list.biggest /\ list.heads[j] # <<>>
    BY DEF ListOK
  <2>2. j \in C
    BY <1>0, <2>1 DEF Buckets
  <2> HIDE DEF i, C
  <2> QED BY <2>2, <1>1
<1> HIDE DEF i
<1>4. CASE i > 0 /\ s # <<>> /\ Head(s)[2] >= size
  <2>1. res = [list |-> [heads |-> [list.heads EXCEPT ![i] = Tail(s)], biggest |-> i], block |-> Head(s)]
    BY <1>4 DEF FreeListAllocate, i
  <2> DEFINE new == res.list
  <2>2. /\ new.heads = [list.heads EXCEPT ![i] = Tail(s)] /\ new.biggest = i /\ res.block = Head(s)
        /\ new = [heads |-> new.heads, biggest |-> new.biggest]
    <3> DEFINE h == [list.heads EXCEPT ![i] = Tail(s)]
               hd == Head(s)
    <3>1. res = [list |-> [heads |-> h, biggest |-> i], block |-> hd]
      BY <2>1
    <3> HIDE DEF h, hd, res
    <3>2. new = [heads |-> h, biggest |-> i] /\ res.block = hd
      BY <3>1
    <3> QED BY <3>2 DEF h, hd
  <2> HIDE DEF new, res
  <2>3. i \in Buckets /\ s \in Seq(Block)
    BY <1>2, <1>4 DEF ListOK
  <2> DEFINE t == Tail(s)
  <2>4. /\ t \in Seq(Block) /\ Head(s) = s[1] /\ 1 \in DOMAIN s
        /\ \A k \in DOMAIN t : k + 1 \in DOMAIN s /\ t[k] = s[k + 1] /\ k \in Nat /\ k >= 1
        /\ \A k \in DOMAIN s : k = 1 \/ (k - 1 \in DOMAIN t /\ t[k - 1] = s[k])
    <3> HIDE DEF s
    <3> QED BY <2>3, <1>4
  <2> HIDE DEF t
  <2>5. new.heads[i] = t /\ \A j \in Buckets : j # i => new.heads[j] = list.heads[j]
    BY <2>2, <2>3 DEF ListOK, t
  <2>6. new.heads \in [Buckets -> Seq(Block)]
    BY <2>2, <2>3, <2>4 DEF ListOK, t
  <2>7. \A j \in Buckets : \A k \in DOMAIN new.heads[j] :
           /\ new.heads[j][k][2] \in 1 .. RegionSize
           /\ bucket_index_for_size(new.heads[j][k][2]) = j
           /\ j <= new.biggest
    <3> TAKE j \in Buckets
    <3> TAKE k \in DOMAIN new.heads[j]
    <3>1. PICK l \in DOMAIN list.heads[j] : new.heads[j][k] = list.heads[j][l]
      <4>1. CASE j = i
        BY <2>4, <2>5, <4>1
      <4>2. CASE j # i
        BY <2>5, <4>2
      <4> QED BY <4>1, <4>2
    <3> QED BY <3>1, <1>3, <2>2 DEF ListOK
  <2>8. \A j \in Buckets : \A k, l \in DOMAIN new.heads[j] : new.heads[j][k] = new.heads[j][l] => k = l
    <3> TAKE j \in Buckets
    <3> TAKE k, l \in DOMAIN new.heads[j]
    <3> SUFFICES ASSUME new.heads[j][k] = new.heads[j][l] PROVE k = l
      OBVIOUS
    <3>1. CASE j = i
      <4>1. k + 1 \in DOMAIN s /\ l + 1 \in DOMAIN s /\ s[k + 1] = s[l + 1] /\ k \in Nat /\ l \in Nat
        BY <2>4, <2>5, <3>1
      <4>2. k + 1 = l + 1
        BY <4>1, <2>3 DEF ListOK
      <4> QED BY <4>1, <4>2
    <3>2. CASE j # i
      BY <2>5, <3>2 DEF ListOK
    <3> QED BY <3>1, <3>2
  <2>9. ListOK(new)
    BY <1>2, <2>2, <2>6, <2>7, <2>8 DEF ListOK
  <2>10. Head(s) \in Entries(list)
    BY <2>3, <2>4, EntryFact
  <2>11. Entries(new) = Entries(list) \ {Head(s)}
    <3>1. ASSUME NEW c \in Entries(new) PROVE c \in Entries(list) /\ c # Head(s)
      <4>1. PICK j \in Buckets : \E k \in DOMAIN new.heads[j] : c = new.heads[j][k]
        BY EntryFact
      <4>2. PICK k \in DOMAIN new.heads[j] : c = new.heads[j][k]
        BY <4>1
      <4>3. CASE j = i
        <5>1. k + 1 \in DOMAIN s /\ c = s[k + 1] /\ k \in Nat /\ k >= 1
          BY <2>4, <2>5, <4>2, <4>3
        <5>2. c # s[1]
          <6> SUFFICES ASSUME s[k + 1] = s[1] PROVE FALSE
            BY <5>1
          <6>1. k + 1 = 1
            BY <2>3, <2>4, <5>1 DEF ListOK
          <6> QED BY <6>1, <5>1
        <5> QED BY <5>1, <5>2, <2>3, <2>4, EntryFact
      <4>4. CASE j # i
        <5>1. k \in DOMAIN list.heads[j] /\ c = list.heads[j][k]
          BY <2>5, <4>2, <4>4
        <5>2. bucket_index_for_size(c[2]) = j /\ bucket_index_for_size(s[1][2]) = i
          BY <5>1, <2>3, <2>4 DEF ListOK
        <5> QED BY <5>1, <5>2, <4>4, <2>4, EntryFact
      <4> QED BY <4>3, <4>4
    <3>2. ASSUME NEW c \in Entries(list), c # Head(s) PROVE c \in Entries(new)
      <4>1. PICK j \in Buckets : \E k \in DOMAIN list.heads[j] : c = list.heads[j][k]
        BY EntryFact
      <4>2. PICK k \in DOMAIN list.heads[j] : c = list.heads[j][k]
        BY <4>1
      <4>3. CASE j = i
        <5>1. k - 1 \in DOMAIN t /\ t[k - 1] = c
          BY <2>4, <3>2, <4>2, <4>3
        <5> QED BY <5>1, <2>3, <2>5, EntryFact
      <4>4. CASE j # i
        BY <4>2, <4>4, <2>5, EntryFact
      <4> QED BY <4>3, <4>4
    <3> QED BY <3>1, <3>2
  <2>12. res.block \in Entries(list) /\ res.block[2] >= size /\ Entries(new) = Entries(list) \ {res.block}
    BY <1>4, <2>2, <2>10, <2>11
  <2> QED BY <2>9, <2>12 DEF TakesEntry, new, res
<1>5. CASE ~(i > 0 /\ s # <<>> /\ Head(s)[2] >= size)
  <2>1. res = [list |-> [list EXCEPT !.biggest = i], block |-> NoBlock]
    BY <1>5 DEF FreeListAllocate, i
  <2> DEFINE new == res.list
  <2>2. /\ new = [heads |-> list.heads, biggest |-> i] /\ res.block = NoBlock
    BY <2>1 DEF ListOK
  <2>3. new.heads = list.heads /\ new.biggest = i
    BY <2>2
  <2> HIDE DEF new, res
  <2>4. Entries(new) = Entries(list)
    BY <2>3 DEF Entries
  <2>5. ListOK(new)
    BY <2>2, <2>3, <1>2, <1>3 DEF ListOK
  <2> QED BY <2>2, <2>4, <2>5 DEF TakesEntry, new, res
<1> QED BY <1>4, <1>5

-----------------------------------------------------------------------------
(*****************************************************************************)
(* A region: what is free in it belongs to nobody.                           *)
(*****************************************************************************)

Whole(r) == <<Bottom(r), RegionSize>>
BlockIn(b, r) == \A u \in Units(b) : u \in Nat /\ RegionOf(u) = r
Apart(bs) == \A b, c \in bs : b # c => Units(b) \cap Units(c) = {}

Open == {"Regular", "EmptyCommited", "EmptyUncommited", "Trash"}
Unused == {"EmptyCommited", "EmptyUncommited", "Trash"}

\* Region g at index r, when the units in X belong to somebody and the bits of the
\* units in S are set.
RegionOK(g, r, X, S) ==
  /\ g = [typ |-> g.typ, list |-> g.list, sweep |-> g.sweep, large |-> g.large]
  /\ g.typ \in States /\ g.sweep \in BOOLEAN /\ g.large \in Nat
  /\ ListOK(g.list)
  /\ Apart(Entries(g.list))
  /\ \A b \in Entries(g.list) : BlockIn(b, r) /\ Units(b) \cap X = {} /\ Units(b) \cap S = {}
  /\ g.typ \in Unused => \A u \in X : RegionOf(u) # r
  /\ IsEmpty(g) => g.list = EmptyList /\ \A a \in S : RegionOf(a) # r

(* Two fields of a region at a time. *)
LEMMA RegionExcept ==
  ASSUME NEW g, g = [typ |-> g.typ, list |-> g.list, sweep |-> g.sweep, large |-> g.large],
         NEW t, NEW l
  PROVE  /\ [g EXCEPT !.typ = t, !.list = l] = [typ |-> t, list |-> l, sweep |-> g.sweep, large |-> g.large]
         /\ [g EXCEPT !.list = l, !.typ = t] = [typ |-> t, list |-> l, sweep |-> g.sweep, large |-> g.large]
<1> DEFINE h == [g EXCEPT !.typ = t]
           k == [g EXCEPT !.list = l]
<1>1. h = [typ |-> t, list |-> g.list, sweep |-> g.sweep, large |-> g.large]
  OBVIOUS
<1>2. k = [typ |-> g.typ, list |-> l, sweep |-> g.sweep, large |-> g.large]
  OBVIOUS
<1>3. /\ [g EXCEPT !.typ = t, !.list = l] = [h EXCEPT !.list = l]
      /\ [g EXCEPT !.list = l, !.typ = t] = [k EXCEPT !.typ = t]
  OBVIOUS
<1> HIDE DEF h, k
<1>4. [h EXCEPT !.list = l] = [typ |-> t, list |-> l, sweep |-> g.sweep, large |-> g.large]
  BY <1>1
<1>5. [k EXCEPT !.typ = t] = [typ |-> t, list |-> l, sweep |-> g.sweep, large |-> g.large]
  BY <1>2
<1> QED BY <1>3, <1>4, <1>5

(* The units of a block. *)
LEMMA UnitsFact ==
  ASSUME NEW b, Sized(b)
  PROVE  /\ b = <<b[1], b[2]>> /\ b[1] \in Nat /\ b[2] \in Nat /\ b[2] >= 1 /\ b[2] <= RegionSize
         /\ b[1] \in Units(b) /\ Units(b) \subseteq Nat
         /\ \A u \in Int : u \in Units(b) <=> b[1] <= u /\ u < b[1] + b[2]
<1>1. b \in Nat \X Nat /\ b[2] \in 1 .. RegionSize
  BY DEF Sized, Block
<1>2. b = <<b[1], b[2]>> /\ b[1] \in Nat /\ b[2] \in Nat /\ b[2] >= 1 /\ b[2] <= RegionSize
  BY <1>1, Powers
<1> QED BY <1>2 DEF Units

(* A region as one block. *)
LEMMA WholeFact ==
  ASSUME NEW r \in Indices
  PROVE  Sized(Whole(r)) /\ BlockIn(Whole(r), r)
<1>1. r \in Nat /\ Bottom(r) \in Nat /\ RegionSize \in Nat /\ RegionSize >= 1
  BY Powers, RegionsAssumption DEF Indices, Bottom
<1>2. Sized(Whole(r))
  BY <1>1 DEF Sized, Whole, Block
<1>3. ASSUME NEW u \in Units(Whole(r)) PROVE u \in Nat /\ RegionOf(u) = r
  <2>1. u \in Int /\ Bottom(r) <= u /\ u < Bottom(r) + RegionSize
    BY <1>1, <1>3 DEF Units, Whole
  <2>2. u \in Nat
    BY <1>1, <2>1
  <2> QED BY <1>1, <2>1, <2>2, RegionOfFact
<1> QED BY <1>2, <1>3 DEF BlockIn

(* The front of a block, and the rest of it. *)
LEMMA SplitFact ==
  ASSUME NEW b, Sized(b), NEW n \in Nat, 1 <= n, n <= b[2]
  PROVE  LET front == <<b[1], n>>
             rest == <<b[1] + n, b[2] - n>>
         IN /\ Sized(front) /\ Units(front) \subseteq Units(b)
            /\ rest[2] > 0 => Sized(rest) /\ Units(rest) \subseteq Units(b)
                              /\ Units(rest) \cap Units(front) = {} /\ rest \in Block
<1> DEFINE front == <<b[1], n>>
           rest == <<b[1] + n, b[2] - n>>
<1>1. /\ b[1] \in Nat /\ b[2] \in Nat /\ b[2] >= 1 /\ b[2] <= RegionSize /\ RegionSize \in Nat
      /\ \A u \in Int : u \in Units(b) <=> b[1] <= u /\ u < b[1] + b[2]
  BY UnitsFact, Powers
<1>2. Sized(front)
  BY <1>1 DEF Sized, Block
<1>3. rest[2] > 0 => Sized(rest)
  BY <1>1 DEF Sized, Block
<1>4. \A u \in Int : u \in Units(front) <=> b[1] <= u /\ u < b[1] + n
  BY <1>1 DEF Units
<1>5. \A u \in Int : u \in Units(rest) <=> b[1] + n <= u /\ u < b[1] + b[2]
  BY <1>1 DEF Units
<1>6. Units(front) \subseteq Int /\ Units(rest) \subseteq Int
  BY DEF Units
<1>7. Units(front) \subseteq Units(b)
  BY <1>1, <1>4, <1>6
<1>8. Units(rest) \subseteq Units(b) /\ Units(rest) \cap Units(front) = {}
  BY <1>1, <1>4, <1>5, <1>6
<1> QED BY <1>2, <1>3, <1>7, <1>8 DEF Sized

(* What a region is made ready to serve with. *)
LEMMA MadeRegularFact ==
  ASSUME NEW r \in Indices, NEW X, NEW S, NEW g, RegionOK(g, r, X, S), g.typ \in Open \ {"Trash"}
  PROVE  LET m == MadeRegular(g, r)
         IN RegionOK(m, r, X, S) /\ m.typ = "Regular" /\ m.sweep = g.sweep /\ m.large = g.large
<1> DEFINE m == MadeRegular(g, r)
<1>1. CASE ~IsEmpty(g)
  <2>1. m = [typ |-> "Regular", list |-> g.list, sweep |-> g.sweep, large |-> g.large]
    <3>1. g = [typ |-> g.typ, list |-> g.list, sweep |-> g.sweep, large |-> g.large]
      BY DEF RegionOK
    <3>2. [g EXCEPT !.typ = "Regular", !.list = g.list]
             = [typ |-> "Regular", list |-> g.list, sweep |-> g.sweep, large |-> g.large]
      BY <3>1, RegionExcept
    <3> QED BY <1>1, <3>2 DEF MadeRegular
  <2>2. m.typ = "Regular" /\ m.list = g.list /\ m.sweep = g.sweep /\ m.large = g.large
    BY <2>1
  <2> HIDE DEF m
  <2>3. RegionOK(m, r, X, S)
    BY <2>1, <2>2 DEF RegionOK, Unused, IsEmpty, States
  <2> QED BY <2>2, <2>3 DEF m
<1>2. CASE IsEmpty(g)
  <2> DEFINE new == Add(g.list, Whole(r))
  <2>1. m = [typ |-> "Regular", list |-> new, sweep |-> g.sweep, large |-> g.large]
    <3>1. g = [typ |-> g.typ, list |-> g.list, sweep |-> g.sweep, large |-> g.large]
      BY DEF RegionOK
    <3>2. m = [g EXCEPT !.typ = "Regular", !.list = new]
      BY <1>2 DEF MadeRegular, Whole
    <3> HIDE DEF new, m
    <3>3. [g EXCEPT !.typ = "Regular", !.list = new]
             = [typ |-> "Regular", list |-> new, sweep |-> g.sweep, large |-> g.large]
      BY <3>1, RegionExcept
    <3> QED BY <3>2, <3>3
  <2>2. m.typ = "Regular" /\ m.list = new /\ m.sweep = g.sweep /\ m.large = g.large
    BY <2>1
  <2>3. ListOK(new) /\ Entries(new) = {Whole(r)}
    <3>1. ListOK(g.list) /\ Entries(g.list) = {} /\ Sized(Whole(r))
      BY <1>2, EmptyListFact, WholeFact DEF RegionOK
    <3> QED BY <3>1, AddFact
  <2> HIDE DEF m, new
  <2>4. BlockIn(Whole(r), r)
    BY WholeFact
  <2>5. \A u \in X \cup S : RegionOf(u) # r
    BY <1>2 DEF RegionOK, IsEmpty, Unused
  <2>6. Units(Whole(r)) \cap X = {} /\ Units(Whole(r)) \cap S = {}
    BY <2>4, <2>5 DEF BlockIn
  <2>7. Apart(Entries(new))
    BY <2>3 DEF Apart
  <2>8. RegionOK(m, r, X, S)
    BY <2>1, <2>2, <2>3, <2>4, <2>6, <2>7 DEF RegionOK, Unused, IsEmpty, States
  <2> QED BY <2>2, <2>8 DEF m
<1> QED BY <1>1, <1>2

\* What HeapRegion::allocate gives.
Serves(g, res, r, size, X, S) ==
  /\ res.g.typ = "Regular" /\ res.g.sweep = g.sweep /\ res.g.large = g.large
  /\ \/ res.block = NoBlock /\ RegionOK(res.g, r, X, S)
     \/ /\ res.block # NoBlock
        /\ Sized(res.block) /\ res.block[2] = size /\ BlockIn(res.block, r)
        /\ Units(res.block) \cap X = {} /\ Units(res.block) \cap S = {}
        /\ RegionOK(res.g, r, X \cup Units(res.block), S)
        /\ RegionOK(res.g, r, X \cup Units(res.block), S \cup {res.block[1]})

(* HeapRegion::allocate hands out memory that was free. *)
LEMMA RegionAllocateFact ==
  ASSUME NEW r \in Indices, NEW X, NEW S, NEW g, RegionOK(g, r, X, S), g.typ \in Open \ {"Trash"},
         NEW size \in Nat, 1 <= size
  PROVE  Serves(g, RegionAllocate(g, r, size), r, size, X, S)
<1> DEFINE m == MadeRegular(g, r)
           took == FreeListAllocate(m.list, size)
           res == RegionAllocate(g, r, size)
           b == took.block
           front == <<b[1], size>>
           rest == <<b[1] + size, b[2] - size>>
<1>1. RegionOK(m, r, X, S) /\ m.typ = "Regular" /\ m.sweep = g.sweep /\ m.large = g.large
  BY MadeRegularFact
<1>2. TakesEntry(m.list, took, size)
  <2>1. ListOK(m.list)
    BY <1>1 DEF RegionOK
  <2> HIDE DEF m
  <2> QED BY <2>1, TakeFact
<1>3. res = IF b = NoBlock
            THEN [g |-> [m EXCEPT !.list = took.list], block |-> NoBlock]
            ELSE [g |-> [m EXCEPT !.list = IF rest[2] > 0 THEN Add(took.list, rest) ELSE took.list],
                  block |-> front]
  BY DEF RegionAllocate
<1> HIDE DEF res, took, m
<1>4. m = [typ |-> "Regular", list |-> m.list, sweep |-> g.sweep, large |-> g.large]
      /\ g.sweep \in BOOLEAN /\ g.large \in Nat
  BY <1>1 DEF RegionOK
<1>5. CASE b = NoBlock
  <2>1. Entries(took.list) = Entries(m.list) /\ ListOK(took.list)
    <3>1. NoBlock \notin Entries(m.list)
      BY <1>1, EntrySized DEF RegionOK
    <3> QED BY <3>1, <1>2, <1>5 DEF TakesEntry
  <2>2. res.block = NoBlock
        /\ res.g = [typ |-> "Regular", list |-> took.list, sweep |-> g.sweep, large |-> g.large]
    <3>1. res = [g |-> [m EXCEPT !.list = took.list], block |-> NoBlock]
      BY <1>3, <1>5
    <3>2. [m EXCEPT !.list = took.list]
             = [typ |-> "Regular", list |-> took.list, sweep |-> g.sweep, large |-> g.large]
      BY <1>4
    <3> QED BY <3>1, <3>2
  <2>3. res.g.typ = "Regular" /\ res.g.list = took.list /\ res.g.sweep = g.sweep /\ res.g.large = g.large
    BY <2>2
  <2>4. RegionOK(res.g, r, X, S)
    BY <1>1, <1>4, <2>1, <2>2, <2>3 DEF RegionOK, Unused, IsEmpty
  <2> QED BY <2>2, <2>3, <2>4 DEF Serves, res
<1>6. CASE b # NoBlock
  <2>1. b \in Entries(m.list) /\ b[2] >= size /\ ListOK(took.list)
        /\ Entries(took.list) = Entries(m.list) \ {b}
    BY <1>2, <1>6 DEF TakesEntry
  <2>2. Sized(b) /\ BlockIn(b, r) /\ Units(b) \cap X = {} /\ Units(b) \cap S = {}
    BY <1>1, <2>1, EntrySized DEF RegionOK
  <2>3. b[2] \in Nat /\ b[2] >= size /\ b[1] \in Nat
    BY <2>1, <2>2, UnitsFact
  <2>4. /\ Sized(front) /\ Units(front) \subseteq Units(b)
        /\ rest[2] > 0 => Sized(rest) /\ Units(rest) \subseteq Units(b)
                          /\ Units(rest) \cap Units(front) = {}
    BY <2>2, <2>3, SplitFact
  <2> HIDE DEF b
  <2> DEFINE new == IF rest[2] > 0 THEN Add(took.list, rest) ELSE took.list
  <2>5. res.block = front
        /\ res.g = [typ |-> "Regular", list |-> new, sweep |-> g.sweep, large |-> g.large]
    <3> HIDE DEF new, front, rest
    <3>1. res = [g |-> [m EXCEPT !.list = new], block |-> front]
      BY <1>3, <1>6 DEF new
    <3>2. [m EXCEPT !.list = new]
             = [typ |-> "Regular", list |-> new, sweep |-> g.sweep, large |-> g.large]
      BY <1>4
    <3> QED BY <3>1, <3>2
  <2>6. res.g.typ = "Regular" /\ res.g.list = new /\ res.g.sweep = g.sweep /\ res.g.large = g.large
    <3> HIDE DEF new, front
    <3> QED BY <2>5
  <2> HIDE DEF front, rest
  <2>7. \A c \in Entries(m.list) : c # b => Units(c) \cap Units(b) = {}
    BY <1>1, <2>1 DEF RegionOK, Apart
  <2>8. /\ ListOK(new)
        /\ Entries(new) \subseteq Entries(m.list) \cup {rest}
        /\ b \notin Entries(new) \/ b = rest
        /\ rest \in Entries(new) => rest[2] > 0 \/ (rest \in Entries(m.list) /\ rest # b)
    <3>1. CASE rest[2] > 0
      <4>1. rest \notin Entries(took.list)
        <5> SUFFICES ASSUME rest \in Entries(m.list), rest # b PROVE FALSE
          BY <2>1
        <5>1. Units(rest) \cap Units(b) = {} /\ Units(rest) \subseteq Units(b) /\ rest[1] \in Units(rest)
          BY <2>4, <2>7, <3>1, UnitsFact
        <5> QED BY <5>1
      <4>2. ListOK(Add(took.list, rest)) /\ Entries(Add(took.list, rest)) = Entries(took.list) \cup {rest}
        BY <2>1, <2>4, <3>1, <4>1, AddFact
      <4> QED BY <2>1, <3>1, <4>2
    <3>2. CASE ~(rest[2] > 0)
      BY <2>1, <3>2
    <3> QED BY <3>1, <3>2
  <2>9. \A c \in Entries(new) : \/ c \in Entries(m.list) /\ c # b
                                \/ c = rest /\ rest[2] > 0
    <3> SUFFICES ASSUME NEW c \in Entries(new), c = b \/ c \notin Entries(m.list) PROVE c = rest /\ rest[2] > 0
      OBVIOUS
    <3>1. c = rest
      BY <2>8
    <3> QED BY <2>8, <3>1
  <2>10. \A c \in Entries(new) : BlockIn(c, r) /\ Units(c) \cap X = {} /\ Units(c) \cap S = {}
                                 /\ Units(c) \cap Units(front) = {}
    <3> TAKE c \in Entries(new)
    <3>1. CASE c \in Entries(m.list) /\ c # b
      BY <3>1, <1>1, <2>4, <2>7 DEF RegionOK
    <3>2. CASE c = rest /\ rest[2] > 0
      BY <3>2, <2>2, <2>4 DEF BlockIn
    <3> QED BY <2>9, <3>1, <3>2
  <2>11. Apart(Entries(new))
    <3> SUFFICES ASSUME NEW c \in Entries(new), NEW d \in Entries(new), c # d PROVE Units(c) \cap Units(d) = {}
      BY DEF Apart
    <3>1. CASE c \in Entries(m.list) /\ c # b /\ d \in Entries(m.list) /\ d # b
      BY <3>1, <1>1 DEF RegionOK, Apart
    <3>2. CASE c \in Entries(m.list) /\ c # b /\ d = rest /\ rest[2] > 0
      BY <3>2, <2>4, <2>7
    <3>3. CASE d \in Entries(m.list) /\ d # b /\ c = rest /\ rest[2] > 0
      BY <3>3, <2>4, <2>7
    <3> QED BY <2>9, <3>1, <3>2, <3>3
  <2>12. front[1] \in Units(front) /\ front[2] = size /\ front # NoBlock
    BY <2>4, UnitsFact DEF front, NoBlock
  <2>13. BlockIn(front, r) /\ Units(front) \cap X = {} /\ Units(front) \cap S = {}
    BY <2>2, <2>4 DEF BlockIn
  <2>14. RegionOK(res.g, r, X \cup Units(front), S) /\ RegionOK(res.g, r, X \cup Units(front), S \cup {front[1]})
    <3>1. \A c \in Entries(new) : front[1] \notin Units(c)
      BY <2>10, <2>12
    <3> HIDE DEF new
    <3> QED BY <1>4, <2>5, <2>6, <2>8, <2>10, <2>11, <3>1 DEF RegionOK, Unused, IsEmpty, States
  <2> QED BY <2>4, <2>5, <2>6, <2>12, <2>13, <2>14 DEF Serves, res
<1> QED BY <1>5, <1>6

-----------------------------------------------------------------------------
(*****************************************************************************)
(* The free set: an allocation from a single region.                         *)
(*****************************************************************************)

IsRec(f) ==
  f = [region |-> f.region, bits |-> f.bits, bounds |-> f.bounds, used |-> f.used,
       starts |-> f.starts, committed |-> f.committed]

\* What heap.lock protects, when the units in X belong to somebody.
AllRight(f, X) ==
  /\ IsRec(f)
  /\ f.region = [r \in Indices |-> f.region[r]]
  /\ \A r \in Indices : RegionOK(f.region[r], r, X, f.starts)
  /\ \A a \in f.starts : a \in Nat /\ RegionOf(a) \in Indices
  /\ f.bits \subseteq Indices
  /\ \A r \in f.bits : f.region[r].typ \in Open /\ ~f.region[r].sweep

\* Regions in use stay what they are.
Kept(f, g) ==
  /\ \A r \in Indices :
       /\ f.region[r].typ \notin Unused => g.region[r].typ = f.region[r].typ
       /\ f.region[r].typ \in Unused => g.region[r].typ \in Unused \cup {"Regular"}
       /\ g.region[r].typ = "Trash" => f.region[r].typ = "Trash"
       /\ g.region[r].sweep = f.region[r].sweep /\ g.region[r].large = f.region[r].large
  /\ g.bits \subseteq f.bits
  /\ \A a \in f.starts : a \in g.starts \/ f.region[RegionOf(a)].typ = "Trash"

Request(req) == req.size \in 1 .. RegionSize /\ req.min \in Nat \ {0} /\ req.lab \in BOOLEAN

\* The outcome acc of an allocation that began with f.
Served(f, acc, req, X) ==
  /\ Kept(f, acc.f)
  /\ \/ /\ acc.block = NoBlock
        /\ AllRight(acc.f, X)
        /\ acc.f.starts \subseteq f.starts
     \/ /\ acc.block # NoBlock /\ Sized(acc.block)
        /\ AllRight(acc.f, X \cup Units(acc.block))
        /\ Units(acc.block) \cap X = {}
        /\ RegionOf(acc.block[1]) \in Indices /\ BlockIn(acc.block, RegionOf(acc.block[1]))
        /\ acc.f.region[RegionOf(acc.block[1])].typ = "Regular"
        /\ ~acc.f.region[RegionOf(acc.block[1])].sweep
        /\ acc.block[2] <= req.size
        /\ ~(elastic /\ req.lab) => acc.block[2] = req.size
        /\ acc.f.starts \subseteq f.starts \cup Units(acc.block)
        /\ acc.f.starts \cap Units(acc.block) = IF req.lab THEN {} ELSE {acc.block[1]}

(* Nothing done is nothing lost. *)
LEMMA KeptTrans ==
  ASSUME NEW f, NEW g, NEW h, Kept(f, g), Kept(g, h),
         \A a \in f.starts : RegionOf(a) \in Indices
  PROVE  Kept(f, h)
BY DEF Kept, Unused

(* What a region offers has a size. *)
LEMMA PeekFact ==
  ASSUME NEW list, ListOK(list)
  PROVE  PeekFree(list) \in Nat
<1>1. CASE list.biggest > 0 /\ list.heads[list.biggest] # <<>>
  <2> DEFINE s == list.heads[list.biggest]
  <2>1. list.biggest \in Buckets
    BY <1>1, Powers DEF ListOK, Buckets
  <2>2. s \in Seq(Block) /\ s # <<>>
    BY <1>1, <2>1 DEF ListOK
  <2>3. Head(s) \in Block
    <3> HIDE DEF s
    <3> QED BY <2>2
  <2> QED BY <1>1, <2>3 DEF PeekFree, Block
<1>2. CASE ~(list.biggest > 0 /\ list.heads[list.biggest] # <<>>)
  BY <1>2 DEF PeekFree
<1> QED BY <1>1, <1>2

(* The size asked for. *)
LEMMA AskFact ==
  ASSUME NEW f, NEW r, ListOK(f.region[r].list), NEW req, Request(req)
  PROVE  /\ AskFor(f, r, req) \in Nat /\ AskFor(f, r, req) <= req.size
         /\ ~(elastic /\ req.lab) => AskFor(f, r, req) = req.size
<1> DEFINE free == PeekFree(f.region[r].list)
           T == {req.size, free}
<1>1. free \in Nat
  BY PeekFact
<1>2. req.size \in Nat /\ req.min \in Nat
  BY Powers DEF Request
<1> HIDE DEF free
<1>3. Min(T) \in Nat /\ Min(T) <= req.size
  <2>1. T \subseteq Nat /\ T # {} /\ req.size \in T
    BY <1>1, <1>2
  <2> HIDE DEF T
  <2> QED BY <2>1, MinFact
<1>4. AskFor(f, r, req) = IF ~(elastic /\ req.lab) THEN req.size
                          ELSE IF Min(T) >= req.min THEN Min(T) ELSE 0
  BY DEF AskFor, free
<1> HIDE DEF T
<1> QED BY <1>2, <1>3, <1>4

(* try_recycle_trashed keeps everything in order and leaves no trash. *)
LEMMA RecycleFact ==
  ASSUME NEW f, NEW X, AllRight(f, X), NEW r \in f.bits
  PROVE  LET g == Recycle(f, r)
         IN /\ AllRight(g, X) /\ Kept(f, g) /\ g.bits = f.bits
            /\ g.starts \subseteq f.starts
            /\ g.region[r].typ \in Open \ {"Trash"}
<1> DEFINE g == Recycle(f, r)
<1>0. r \in Indices
  BY DEF AllRight
<1>1. CASE f.region[r].typ # "Trash"
  <2>1. g = f
    BY <1>1 DEF Recycle
  <2>2. f.region[r].typ \in Open
    BY DEF AllRight
  <2>3. Kept(f, f)
    BY DEF Kept
  <2> QED BY <1>1, <2>1, <2>2, <2>3
<1>2. CASE f.region[r].typ = "Trash"
  <2> DEFINE old == f.region[r]
             new == Recycled(f.region[r])
             left == {a \in f.starts : RegionOf(a) # r}
             regs == [f.region EXCEPT ![r] = new]
  <2>1. g = [region |-> regs, bits |-> f.bits, bounds |-> f.bounds, used |-> f.used,
             starts |-> left, committed |-> f.committed]
    <3>1. g = [f EXCEPT !.region[r] = new, !.starts = left]
      BY <1>2 DEF Recycle
    <3> HIDE DEF new, left, g
    <3> DEFINE h == [f EXCEPT !.region[r] = new]
    <3>2. h = [region |-> regs, bits |-> f.bits, bounds |-> f.bounds, used |-> f.used,
               starts |-> f.starts, committed |-> f.committed]
      BY DEF AllRight, IsRec
    <3>3. [f EXCEPT !.region[r] = new, !.starts = left] = [h EXCEPT !.starts = left]
      OBVIOUS
    <3> HIDE DEF h, regs
    <3> QED BY <3>1, <3>2, <3>3
  <2>2. new = [typ |-> "EmptyCommited", list |-> EmptyList, sweep |-> old.sweep, large |-> old.large]
    <3>1. old = [typ |-> old.typ, list |-> old.list, sweep |-> old.sweep, large |-> old.large]
      BY <1>0 DEF AllRight, RegionOK
    <3>2. new = [old EXCEPT !.list = EmptyList, !.typ = "EmptyCommited"]
      BY DEF Recycled
    <3> HIDE DEF old, new
    <3> QED BY <3>1, <3>2, RegionExcept
  <2> HIDE DEF g, new, left
  <2>3. g.region = regs /\ g.bits = f.bits /\ g.starts = left /\ IsRec(g)
    <3> HIDE DEF regs
    <3> QED BY <2>1 DEF IsRec
  <2>4. /\ g.region = [q \in Indices |-> g.region[q]] /\ g.region[r] = new
        /\ \A q \in Indices : q # r => g.region[q] = f.region[q]
    BY <1>0, <2>3 DEF AllRight
  <2>5. left \subseteq f.starts /\ \A a \in left : RegionOf(a) # r
    BY DEF left
  <2>6. \A q \in Indices : q # r => RegionOK(g.region[q], q, X, left)
    <3> TAKE q \in Indices
    <3>1. RegionOK(f.region[q], q, X, f.starts)
      BY DEF AllRight
    <3> QED BY <3>1, <2>4, <2>5 DEF RegionOK
  <2>7. RegionOK(new, r, X, left)
    <3>1. RegionOK(old, r, X, f.starts)
      BY <1>0 DEF AllRight
    <3>2. \A u \in X : RegionOf(u) # r
      BY <3>1, <1>2 DEF RegionOK, Unused
    <3>3. /\ new = [typ |-> new.typ, list |-> new.list, sweep |-> new.sweep, large |-> new.large]
          /\ new.typ = "EmptyCommited" /\ new.list = EmptyList
          /\ new.sweep = old.sweep /\ new.large = old.large
      BY <2>2
    <3> HIDE DEF old
    <3>4. new.sweep \in BOOLEAN /\ new.large \in Nat
      BY <3>1, <3>3 DEF RegionOK
    <3> QED BY <3>2, <3>3, <3>4, <2>5, EmptyListFact DEF RegionOK, Apart, States
  <2>8. AllRight(g, X)
    <3>1. \A q \in g.bits : g.region[q].typ \in Open /\ ~g.region[q].sweep
      <4> TAKE q \in g.bits
      <4>1. q \in Indices /\ f.region[q].typ \in Open /\ ~f.region[q].sweep
        BY <2>3 DEF AllRight
      <4> QED BY <4>1, <2>2, <2>4 DEF Open
    <3> QED BY <3>1, <2>3, <2>4, <2>5, <2>6, <2>7 DEF AllRight
  <2>9. Kept(f, g)
    <3>1. \A q \in Indices :
            /\ f.region[q].typ \notin Unused => g.region[q].typ = f.region[q].typ
            /\ f.region[q].typ \in Unused => g.region[q].typ \in Unused \cup {"Regular"}
            /\ g.region[q].typ = "Trash" => f.region[q].typ = "Trash"
            /\ g.region[q].sweep = f.region[q].sweep /\ g.region[q].large = f.region[q].large
      <4> TAKE q \in Indices
      <4>1. CASE q = r
        BY <4>1, <1>2, <2>2, <2>4 DEF Unused
      <4>2. CASE q # r
        BY <4>2, <2>4
      <4> QED BY <4>1, <4>2
    <3>2. \A a \in f.starts : a \in g.starts \/ f.region[RegionOf(a)].typ = "Trash"
      BY <1>2, <2>3 DEF left
    <3> QED BY <3>1, <3>2, <2>3 DEF Kept
  <2>10. g.region[r].typ = "EmptyCommited"
    BY <2>2, <2>4
  <2> QED BY <2>3, <2>5, <2>8, <2>9, <2>10 DEF g, Open
<1> QED BY <1>1, <1>2

(* The part of try_allocate_in that retires a region closes it, no more. *)
LEMMA RetireFact ==
  ASSUME NEW f, IsRec(f), NEW r
  PROVE  LET g == RetireRegion(f, r)
         IN /\ IsRec(g) /\ g.region = f.region /\ g.starts = f.starts
            /\ g.bits = f.bits \ {r} /\ g.committed = f.committed
<1> DEFINE u == f.used + Free(f.region[r])
           free == f.bits \ {r}
           bd == IF r \in {f.bounds.left, f.bounds.right} THEN AdjustBounds(f.bounds, free) ELSE f.bounds
           g == RetireRegion(f, r)
<1>1. g = [f EXCEPT !.used = u, !.bits = free, !.bounds = bd]
  BY DEF RetireRegion
<1> HIDE DEF u, free, bd, g
<1> DEFINE h == [f EXCEPT !.used = u]
           h2 == [h EXCEPT !.bits = free]
<1>2. h = [region |-> f.region, bits |-> f.bits, bounds |-> f.bounds, used |-> u,
           starts |-> f.starts, committed |-> f.committed]
  BY DEF IsRec
<1>3. g = [h2 EXCEPT !.bounds = bd]
  BY <1>1
<1> HIDE DEF h
<1>4. h2 = [region |-> f.region, bits |-> free, bounds |-> f.bounds, used |-> u,
            starts |-> f.starts, committed |-> f.committed]
  BY <1>2
<1> HIDE DEF h2
<1>5. g = [region |-> f.region, bits |-> free, bounds |-> bd, used |-> u,
           starts |-> f.starts, committed |-> f.committed]
  BY <1>3, <1>4
<1> QED BY <1>5 DEF IsRec, g, free

(* A region is as right as before when another one gives away a block. *)
LEMMA OtherRegion ==
  ASSUME NEW g, NEW q, NEW X, NEW S, RegionOK(g, q, X, S), NEW b, NEW r, BlockIn(b, r), q # r, Sized(b)
  PROVE  RegionOK(g, q, X \cup Units(b), S) /\ RegionOK(g, q, X \cup Units(b), S \cup {b[1]})
<1>1. \A u \in Units(b) : RegionOf(u) # q
  BY DEF BlockIn
<1>2. b[1] \in Units(b)
  BY UnitsFact
<1>3. \A c \in Entries(g.list) : Units(c) \cap Units(b) = {}
  BY <1>1 DEF RegionOK, BlockIn
<1>4. RegionOK(g, q, X \cup Units(b), S)
  BY <1>1, <1>3 DEF RegionOK
<1>5. RegionOK(g, q, X \cup Units(b), S \cup {b[1]})
  BY <1>1, <1>2, <1>3 DEF RegionOK
<1> QED BY <1>4, <1>5

\* The region of a request that is granted or refused, with the rest of the record.
Granted(f, g, r, res, size, lab) ==
  /\ IsRec(g)
  /\ g.region = [f.region EXCEPT ![r] = res.g]
  /\ g.bits \subseteq f.bits
  /\ g.starts = IF res.block # NoBlock /\ ~lab THEN f.starts \cup {res.block[1]} ELSE f.starts

(* After a region has served a request, or not. *)
LEMMA GrantedFact ==
  ASSUME NEW f, NEW X, AllRight(f, X), NEW r \in Indices, f.region[r].typ \in Open \ {"Trash"},
         ~f.region[r].sweep, NEW req, Request(req), NEW size \in Nat, 1 <= size, size <= req.size,
         ~(elastic /\ req.lab) => size = req.size,
         NEW res, Serves(f.region[r], res, r, size, X, f.starts),
         NEW g, Granted(f, g, r, res, size, req.lab)
  PROVE  Served(f, [f |-> g, block |-> res.block], req, X)
<1> DEFINE b == res.block
<1>1. /\ IsRec(g) /\ g.region = [q \in Indices |-> g.region[q]] /\ g.region[r] = res.g
      /\ \A q \in Indices : q # r => g.region[q] = f.region[q]
      /\ g.bits \subseteq f.bits
  BY DEF Granted, AllRight
<1>2. res.g.typ = "Regular" /\ res.g.sweep = f.region[r].sweep /\ res.g.large = f.region[r].large
  BY DEF Serves
<1>3. f.starts \subseteq g.starts
  BY DEF Granted
<1>4. Kept(f, g)
  <2>1. \A q \in Indices :
            /\ f.region[q].typ \notin Unused => g.region[q].typ = f.region[q].typ
            /\ f.region[q].typ \in Unused => g.region[q].typ \in Unused \cup {"Regular"}
            /\ g.region[q].typ = "Trash" => f.region[q].typ = "Trash"
            /\ g.region[q].sweep = f.region[q].sweep /\ g.region[q].large = f.region[q].large
    <3> TAKE q \in Indices
    <3>1. CASE q = r
      BY <3>1, <1>1, <1>2 DEF Unused, Open
    <3>2. CASE q # r
      BY <3>2, <1>1
    <3> QED BY <3>1, <3>2
  <2> QED BY <2>1, <1>1, <1>3 DEF Kept
<1>5. \A q \in g.bits : q \in Indices /\ g.region[q].typ \in Open /\ ~g.region[q].sweep
  <2> TAKE q \in g.bits
  <2>1. q \in Indices /\ f.region[q].typ \in Open /\ ~f.region[q].sweep
    BY <1>1 DEF AllRight
  <2>2. CASE q = r
    BY <2>1, <2>2, <1>1, <1>2 DEF Open
  <2>3. CASE q # r
    BY <2>1, <2>3, <1>1
  <2> QED BY <2>2, <2>3
<1>6. CASE b = NoBlock
  <2>1. RegionOK(res.g, r, X, f.starts) /\ g.starts = f.starts
    BY <1>6 DEF Serves, Granted
  <2>2. \A q \in Indices : RegionOK(g.region[q], q, X, g.starts)
    BY <2>1, <1>1 DEF AllRight
  <2>3. AllRight(g, X)
    BY <2>1, <2>2, <1>1, <1>5 DEF AllRight
  <2> QED BY <1>4, <1>6, <2>1, <2>3 DEF Served
<1>7. CASE b # NoBlock
  <2>1. /\ Sized(b) /\ b[2] = size /\ BlockIn(b, r)
        /\ Units(b) \cap X = {} /\ Units(b) \cap f.starts = {}
        /\ RegionOK(res.g, r, X \cup Units(b), f.starts)
        /\ RegionOK(res.g, r, X \cup Units(b), f.starts \cup {b[1]})
    BY <1>7 DEF Serves
  <2>2. b[1] \in Units(b) /\ b[1] \in Nat /\ RegionOf(b[1]) = r
    BY <2>1, UnitsFact DEF BlockIn
  <2>3. g.starts = IF ~req.lab THEN f.starts \cup {b[1]} ELSE f.starts
    BY <1>7 DEF Granted
  <2> HIDE DEF b
  <2>4. \A q \in Indices : RegionOK(g.region[q], q, X \cup Units(b), g.starts)
    <3> TAKE q \in Indices
    <3>1. CASE q = r
      BY <3>1, <1>1, <2>1, <2>3
    <3>2. CASE q # r
      <4>1. RegionOK(f.region[q], q, X, f.starts)
        BY DEF AllRight
      <4>2. RegionOK(f.region[q], q, X \cup Units(b), f.starts) /\ RegionOK(f.region[q], q, X \cup Units(b), f.starts \cup {b[1]})
        BY <4>1, <3>2, <2>1, OtherRegion
      <4> QED BY <4>2, <3>2, <1>1, <2>3
    <3> QED BY <3>1, <3>2
  <2>5. \A a \in g.starts : a \in Nat /\ RegionOf(a) \in Indices
    BY <2>2, <2>3 DEF AllRight
  <2>6. AllRight(g, X \cup Units(b))
    BY <2>4, <2>5, <1>1, <1>5 DEF AllRight
  <2>7. g.starts \subseteq f.starts \cup Units(b) /\ g.starts \cap Units(b) = IF req.lab THEN {} ELSE {b[1]}
    BY <2>1, <2>2, <2>3
  <2> QED BY <1>1, <1>2, <1>4, <1>7, <2>1, <2>2, <2>6, <2>7 DEF Served, b
<1> QED BY <1>6, <1>7

(* What comes before an allocation does not undo it. *)
LEMMA ServedAfter ==
  ASSUME NEW f, NEW g, NEW X, AllRight(f, X), Kept(f, g), g.starts \subseteq f.starts, NEW req,
         NEW acc, Served(g, acc, req, X)
  PROVE  Served(f, acc, req, X)
<1>1. Kept(f, acc.f)
  <2>1. Kept(g, acc.f)
    BY DEF Served
  <2>2. \A a \in f.starts : RegionOf(a) \in Indices
    BY DEF AllRight
  <2> QED BY <2>1, <2>2, KeptTrans
<1>2. CASE acc.block = NoBlock
  <2>1. AllRight(acc.f, X) /\ acc.f.starts \subseteq g.starts
    BY <1>2 DEF Served
  <2> QED BY <1>1, <1>2, <2>1 DEF Served
<1>3. CASE acc.block # NoBlock
  <2>1. acc.f.starts \subseteq g.starts \cup Units(acc.block)
    BY <1>3 DEF Served
  <2>2. acc.f.starts \subseteq f.starts \cup Units(acc.block)
    BY <2>1
  <2> QED BY <1>1, <1>3, <2>2 DEF Served
<1> QED BY <1>2, <1>3

(* Closing a region does not undo it either. *)
LEMMA ServedRetire ==
  ASSUME NEW f, NEW X, NEW req, NEW g, NEW h, NEW b, Served(f, [f |-> g, block |-> b], req, X),
         IsRec(h), h.region = g.region, h.starts = g.starts, h.bits \subseteq g.bits
  PROVE  Served(f, [f |-> h, block |-> b], req, X)
<1>1. Kept(f, h)
  <2>1. Kept(f, g)
    BY DEF Served
  <2> QED BY <2>1 DEF Kept
<1>2. \A Y : AllRight(g, Y) => AllRight(h, Y)
  BY DEF AllRight
<1> QED BY <1>1, <1>2 DEF Served

\* try_allocate_in: what the region answers, and the record after it.
Answer(f, r, size) ==
  IF size > 0 THEN RegionAllocate(f.region[r], r, size)
  ELSE [g |-> f.region[r], block |-> NoBlock]
Tried(f, r, req) ==
  LET size == AskFor(f, r, req)
      res == Answer(f, r, size)
      got == res.block # NoBlock
  IN [f EXCEPT !.region[r] = res.g,
               !.committed = IF size > 0 THEN Commit(f, r) ELSE @,
               !.used = IF got THEN @ + size ELSE @,
               !.starts = IF got /\ ~req.lab THEN @ \cup {res.block[1]} ELSE @]

(* try_allocate_in recycles, tries, and retires the region when it has nothing more. *)
LEMMA TryParts ==
  ASSUME NEW f0, NEW r, NEW req
  PROVE  LET f == Recycle(f0, r)
             g == Tried(f, r, req)
             res == Answer(f, r, AskFor(f, r, req))
         IN TryAllocateIn(f0, r, req)
              = [f |-> IF res.block = NoBlock \/ AllocCapacity(g.region[r]) = 0 THEN RetireRegion(g, r) ELSE g,
                 block |-> res.block]
BY DEF TryAllocateIn, Tried, Answer

\* g is f after the attempt.
IsTried(f, g, r, req) ==
  LET size == AskFor(f, r, req)
      res == Answer(f, r, size)
      got == res.block # NoBlock
  IN /\ IsRec(g) /\ g.region = [f.region EXCEPT ![r] = res.g]
     /\ g.bits = f.bits /\ g.bounds = f.bounds
     /\ g.starts = IF got /\ ~req.lab THEN f.starts \cup {res.block[1]} ELSE f.starts
     /\ g.used = IF got THEN f.used + size ELSE f.used
     /\ g.committed = IF size > 0 THEN Commit(f, r) ELSE f.committed

(* The record after the attempt. *)
LEMMA TriedFact ==
  ASSUME NEW f, IsRec(f), NEW r, NEW req
  PROVE  IsTried(f, Tried(f, r, req), r, req)
<1> DEFINE size == AskFor(f, r, req)
           res == Answer(f, r, size)
           got == res.block # NoBlock
           com == IF size > 0 THEN Commit(f, r) ELSE f.committed
           us == IF got THEN f.used + size ELSE f.used
           st == IF got /\ ~req.lab THEN f.starts \cup {res.block[1]} ELSE f.starts
           g == Tried(f, r, req)
           h == [f EXCEPT !.region[r] = res.g]
           h2 == [h EXCEPT !.committed = com]
           h3 == [h2 EXCEPT !.used = us]
<1>1. g = [f EXCEPT !.region[r] = res.g, !.committed = com, !.used = us, !.starts = st]
  BY DEF Tried
<1> HIDE DEF size, res, com, us, st, g
<1>2. h = [region |-> [f.region EXCEPT ![r] = res.g], bits |-> f.bits, bounds |-> f.bounds, used |-> f.used,
           starts |-> f.starts, committed |-> f.committed]
  BY DEF IsRec
<1>3. g = [h3 EXCEPT !.starts = st]
  BY <1>1
<1> HIDE DEF h
<1>4. h2 = [region |-> [f.region EXCEPT ![r] = res.g], bits |-> f.bits, bounds |-> f.bounds, used |-> f.used,
           starts |-> f.starts, committed |-> com]
  BY <1>2
<1> HIDE DEF h2
<1>5. h3 = [region |-> [f.region EXCEPT ![r] = res.g], bits |-> f.bits, bounds |-> f.bounds, used |-> us,
           starts |-> f.starts, committed |-> com]
  BY <1>4
<1> HIDE DEF h3
<1>6. g = [region |-> [f.region EXCEPT ![r] = res.g], bits |-> f.bits, bounds |-> f.bounds, used |-> us,
           starts |-> st, committed |-> com]
  BY <1>3, <1>5
<1>7. /\ IsRec(g) /\ g.region = [f.region EXCEPT ![r] = res.g] /\ g.bits = f.bits /\ g.bounds = f.bounds
      /\ g.starts = st /\ g.used = us /\ g.committed = com
  BY <1>6 DEF IsRec
<1> QED BY <1>7 DEF IsTried, g, st, us, com, got, res, size

(* try_allocate_in serves a request, or closes the region. *)
LEMMA TryFact ==
  ASSUME NEW f0, NEW X, AllRight(f0, X), NEW r \in f0.bits, NEW req, Request(req)
  PROVE  Served(f0, TryAllocateIn(f0, r, req), req, X)
<1> DEFINE f == Recycle(f0, r)
           size == AskFor(f, r, req)
           res == Answer(f, r, size)
           got == res.block # NoBlock
           f1 == Tried(f, r, req)
           f2 == IF ~got \/ AllocCapacity(f1.region[r]) = 0 THEN RetireRegion(f1, r) ELSE f1
           acc == TryAllocateIn(f0, r, req)
<1>0. r \in Indices
  BY DEF AllRight
<1>1. /\ AllRight(f, X) /\ Kept(f0, f) /\ f.bits = f0.bits /\ f.starts \subseteq f0.starts
      /\ f.region[r].typ \in Open \ {"Trash"} /\ ~f.region[r].sweep
  BY RecycleFact DEF AllRight
<1>2. acc = [f |-> f2, block |-> res.block]
  <2>1. acc = [f |-> IF res.block = NoBlock \/ AllocCapacity(f1.region[r]) = 0 THEN RetireRegion(f1, r) ELSE f1,
               block |-> res.block]
    BY TryParts
  <2> HIDE DEF acc, f1, res
  <2> QED BY <2>1
<1> HIDE DEF f
<1>3. size \in Nat /\ size <= req.size /\ (~(elastic /\ req.lab) => size = req.size)
  <2>1. ListOK(f.region[r].list)
    BY <1>0, <1>1 DEF AllRight, RegionOK
  <2> QED BY <2>1, AskFact
<1>7. /\ IsRec(f1) /\ f1.region = [f.region EXCEPT ![r] = res.g] /\ f1.bits = f.bits
      /\ f1.starts = IF got /\ ~req.lab THEN f.starts \cup {res.block[1]} ELSE f.starts
  <2>1. IsRec(f)
    BY <1>1 DEF AllRight
  <2>2. IsTried(f, f1, r, req)
    BY <2>1, TriedFact
  <2> HIDE DEF f1
  <2> QED BY <2>2 DEF IsTried
<1> HIDE DEF f1, size
<1>4. size > 0 => Serves(f.region[r], res, r, size, X, f.starts)
  <2>1. RegionOK(f.region[r], r, X, f.starts)
    BY <1>0, <1>1 DEF AllRight
  <2> SUFFICES ASSUME size > 0 PROVE Serves(f.region[r], RegionAllocate(f.region[r], r, size), r, size, X, f.starts)
    BY DEF Answer
  <2> HIDE DEF res
  <2> QED BY <2>1, <1>0, <1>1, <1>3, RegionAllocateFact
<1>5. size = 0 => res = [g |-> f.region[r], block |-> NoBlock]
  BY <1>3 DEF Answer
<1> HIDE DEF res
<1>8. /\ IsRec(f2) /\ f2.region = f1.region /\ f2.starts = f1.starts /\ f2.bits \subseteq f1.bits
  <2>1. /\ IsRec(RetireRegion(f1, r)) /\ RetireRegion(f1, r).region = f1.region
        /\ RetireRegion(f1, r).starts = f1.starts /\ RetireRegion(f1, r).bits = f1.bits \ {r}
    BY <1>7, RetireFact
  <2> QED BY <2>1, <1>7
<1> HIDE DEF f2
<1>9. CASE size > 0
  <2>1. Granted(f, f1, r, res, size, req.lab)
    BY <1>7 DEF Granted, got
  <2>2. Served(f, [f |-> f1, block |-> res.block], req, X)
    BY <1>0, <1>1, <1>3, <1>4, <1>9, <2>1, GrantedFact
  <2>3. Served(f, acc, req, X)
    BY <2>2, <1>2, <1>8, ServedRetire
  <2> QED BY <2>3, <1>1, ServedAfter DEF acc
<1>10. CASE size = 0
  <2>1. res.block = NoBlock /\ res.g = f.region[r]
    BY <1>5, <1>10
  <2>2. f1.region = f.region /\ f1.starts = f.starts
    <3>1. [f.region EXCEPT ![r] = f.region[r]] = f.region
      BY <1>0, <1>1 DEF AllRight
    <3> QED BY <3>1, <2>1, <1>7 DEF got
  <2>3. Served(f, [f |-> f, block |-> NoBlock], req, X)
    BY <1>1 DEF Served, Kept
  <2>4. Served(f, [f |-> f1, block |-> NoBlock], req, X)
    BY <2>2, <2>3, <1>7, ServedRetire
  <2>5. Served(f, acc, req, X)
    BY <2>1, <2>4, <1>2, <1>8, ServedRetire
  <2> QED BY <2>5, <1>1, ServedAfter DEF acc
<1> QED BY <1>3, <1>9, <1>10

\* allocate_single, with what it has so far, at region r.
Visit(f, req, acc, r) ==
  IF acc.block # NoBlock \/ r \notin (f.bounds.left .. f.bounds.right) \cap acc.f.bits THEN acc
  ELSE TryAllocateIn(acc.f, r, req)

\* walk[i] is what allocate_single has after the regions below i.
IsWalk(walk, f, req) ==
  /\ walk[0] = [f |-> f, block |-> NoBlock]
  /\ \A i \in 1 .. NumRegions : walk[i] = Visit(f, req, walk[i - 1], i - 1)

(* allocate_single goes from region to region. *)
LEMMA WalkFact ==
  ASSUME NEW f, NEW req
  PROVE  \E walk : IsWalk(walk, f, req) /\ AllocateSingle(f, req) = walk[NumRegions]
<1> DEFINE range == f.bounds.left .. f.bounds.right
           none == [f |-> f, block |-> NoBlock]
           Step(acc, r) == IF acc.block # NoBlock \/ r \notin range \cap acc.f.bits THEN acc
                           ELSE TryAllocateIn(acc.f, r, req)
           seq == [i \in 1 .. NumRegions |-> i - 1]
           \* The fold as Folds defines it: a function of the indices taken so far.
           Good(w, n) == w = [s \in SUBSET (1 .. n) |->
                                IF s = {} THEN none ELSE Step(w[s \ {Max(s)}], seq[Max(s)])]
           iter == CHOOSE w : Good(w, NumRegions)
<1>0. NumRegions \in Nat /\ DOMAIN seq = 1 .. NumRegions
  BY RegionsAssumption
<1>1. AllocateSingle(f, req) = iter[1 .. NumRegions]
  <2>1. AllocateSingle(f, req)
          = LET it == CHOOSE w : w = [s \in SUBSET DOMAIN seq |->
                                        IF s = {} THEN none ELSE Step(w[s \ {Max(s)}], seq[Max(s)])]
            IN it[DOMAIN seq]
    BY Zenon DEF AllocateSingle, FoldLeft, MapThenFoldSet
  <2> HIDE DEF range, none, Step, seq
  <2> QED BY <2>1, <1>0, Zenon
<1> HIDE DEF range, none, Step, seq
<1>2. ASSUME NEW n \in Nat, NEW s \in SUBSET (1 .. n), s # {}
      PROVE  Max(s) \in s /\ \A k \in s : k <= Max(s)
  <2>1. s \subseteq 0 .. n
    OBVIOUS
  <2> QED BY <1>2, <2>1, MaxFact
<1>3. \A n \in Nat : \E w : Good(w, n)
  <2> DEFINE T == {n \in Nat : \E w : Good(w, n)}
  <2>1. 0 \in T
    <3> DEFINE w == [s \in SUBSET (1 .. 0) |-> none]
    <3>1. \A s \in SUBSET (1 .. 0) : s = {}
      OBVIOUS
    <3>2. Good(w, 0)
      BY <3>1
    <3> QED BY <3>2
  <2>2. ASSUME NEW n \in Nat, n \in T PROVE n + 1 \in T
    <3>1. PICK w : Good(w, n)
      BY <2>2
    <3> DEFINE h == [s \in SUBSET (1 .. n + 1) |->
                       IF n + 1 \in s THEN Step(w[s \ {n + 1}], seq[n + 1]) ELSE w[s]]
    <3>2. ASSUME NEW s \in SUBSET (1 .. n + 1)
          PROVE  h[s] = IF s = {} THEN none ELSE Step(h[s \ {Max(s)}], seq[Max(s)])
      <4>1. n + 1 \in Nat
        OBVIOUS
      <4>2. CASE n + 1 \in s
        <5>1. Max(s) \in s /\ n + 1 <= Max(s)
          BY <1>2, <4>1, <4>2
        <5>2. Max(s) = n + 1
          <6>1. Max(s) \in 1 .. n + 1
            BY <5>1
          <6> HIDE DEF Good
          <6> QED BY <5>1, <6>1, <4>1
        <5>3. s \ {n + 1} \in SUBSET (1 .. n + 1) /\ n + 1 \notin s \ {n + 1}
          OBVIOUS
        <5>4. h[s \ {n + 1}] = w[s \ {n + 1}]
          BY <5>3
        <5> QED BY <5>2, <5>4, <4>2
      <4>3. CASE n + 1 \notin s
        <5>1. s \in SUBSET (1 .. n)
          BY <4>3
        <5>2. h[s] = w[s]
          BY <4>3
        <5>3. h[s \ {Max(s)}] = w[s \ {Max(s)}]
          <6>1. s \ {Max(s)} \in SUBSET (1 .. n + 1) /\ n + 1 \notin s \ {Max(s)}
            BY <4>3
          <6> QED BY <6>1
        <5>4. w[s] = IF s = {} THEN none ELSE Step(w[s \ {Max(s)}], seq[Max(s)])
          BY <3>1, <5>1
        <5> HIDE DEF h
        <5> QED BY <5>2, <5>3, <5>4
      <4> QED BY <4>2, <4>3
    <3>3. Good(h, n + 1)
      BY <3>2
    <3> HIDE DEF h, Good
    <3>4. n + 1 \in Nat
      OBVIOUS
    <3> QED BY <3>3, <3>4
  <2>3. Nat \subseteq T
    <3> HIDE DEF T
    <3> QED BY <2>1, <2>2, SetInduction
  <2> QED BY <2>3
<1>4. Good(iter, NumRegions)
  BY <1>0, <1>3
<1> HIDE DEF iter
<1> DEFINE walk == [i \in 0 .. NumRegions |-> iter[1 .. i]]
<1>5. /\ walk[0] = none
      /\ \A i \in 1 .. NumRegions : walk[i] = Step(walk[i - 1], seq[i])
  <2>1. \A s \in SUBSET (1 .. NumRegions) :
          iter[s] = IF s = {} THEN none ELSE Step(iter[s \ {Max(s)}], seq[Max(s)])
    BY <1>4
  <2>2. walk[0] = none
    <3>1. 1 .. 0 = {} /\ {} \in SUBSET (1 .. NumRegions) /\ 0 \in 0 .. NumRegions
      BY <1>0
    <3> QED BY <2>1, <3>1
  <2>3. ASSUME NEW i \in 1 .. NumRegions PROVE walk[i] = Step(walk[i - 1], seq[i])
    <3>1. i \in Nat /\ 1 .. i \in SUBSET (1 .. NumRegions) /\ i \in 1 .. i /\ 1 .. i # {}
      BY <1>0
    <3>2. Max(1 .. i) \in 1 .. i /\ i <= Max(1 .. i)
      <4>1. 1 .. i \in SUBSET (1 .. i)
        OBVIOUS
      <4> QED BY <1>2, <3>1, <4>1
    <3>3. Max(1 .. i) = i
      BY <3>1, <3>2
    <3>4. (1 .. i) \ {i} = 1 .. i - 1
      BY <3>1
    <3>5. iter[1 .. i] = Step(iter[1 .. i - 1], seq[i])
      <4>1. iter[1 .. i] = Step(iter[(1 .. i) \ {Max(1 .. i)}], seq[Max(1 .. i)])
        BY <2>1, <3>1
      <4> QED BY <4>1, <3>3, <3>4
    <3>6. i \in 0 .. NumRegions /\ i - 1 \in 0 .. NumRegions
      BY <1>0
    <3> QED BY <3>5, <3>6
  <2> QED BY <2>2, <2>3
<1> HIDE DEF walk, Good
<1>9. AllocateSingle(f, req) = walk[NumRegions]
  BY <1>0, <1>1 DEF walk
<1>10. IsWalk(walk, f, req)
  <2>1. walk[0] = [f |-> f, block |-> NoBlock]
    BY <1>5 DEF none
  <2>2. ASSUME NEW i \in 1 .. NumRegions PROVE walk[i] = Visit(f, req, walk[i - 1], i - 1)
    <3>1. walk[i] = Step(walk[i - 1], seq[i]) /\ seq[i] = i - 1
      BY <1>5 DEF seq
    <3> QED BY <3>1 DEF Step, Visit, range
  <2> QED BY <2>1, <2>2 DEF IsWalk
<1> HIDE DEF walk
<1> QED BY <1>9, <1>10

(* A visit serves the request, or closes the region. *)
LEMMA VisitFact ==
  ASSUME NEW f, NEW X, AllRight(f, X), NEW req, Request(req), NEW acc, NEW r, Served(f, acc, req, X)
  PROVE  Served(f, Visit(f, req, acc, r), req, X)
<1> DEFINE stop == acc.block # NoBlock \/ r \notin (f.bounds.left .. f.bounds.right) \cap acc.f.bits
<1>1. CASE stop
  BY <1>1 DEF Visit
<1>2. CASE ~stop
  <2>1. Visit(f, req, acc, r) = TryAllocateIn(acc.f, r, req)
    BY <1>2 DEF Visit
  <2>2. AllRight(acc.f, X) /\ Kept(f, acc.f) /\ acc.f.starts \subseteq f.starts
    BY <1>2 DEF Served
  <2>3. Served(acc.f, TryAllocateIn(acc.f, r, req), req, X)
    BY <1>2, <2>2, TryFact
  <2> QED BY <2>1, <2>2, <2>3, ServedAfter
<1> QED BY <1>1, <1>2

(* allocate_single serves a request, or closes the regions it looked at. *)
LEMMA SingleFact ==
  ASSUME NEW f, NEW X, AllRight(f, X), NEW req, Request(req)
  PROVE  Served(f, AllocateSingle(f, req), req, X)
<1>1. PICK walk : IsWalk(walk, f, req) /\ AllocateSingle(f, req) = walk[NumRegions]
  BY WalkFact
<1>2. Served(f, [f |-> f, block |-> NoBlock], req, X)
  BY DEF Served, Kept
<1>3. \A acc, r : Served(f, acc, req, X) => Served(f, Visit(f, req, acc, r), req, X)
  BY VisitFact
<1> DEFINE T == {i \in Nat : i <= NumRegions => Served(f, walk[i], req, X)}
<1>4. 0 \in T
  BY <1>1, <1>2 DEF IsWalk
<1>5. ASSUME NEW i \in Nat, i \in T PROVE i + 1 \in T
  <2> SUFFICES ASSUME i + 1 <= NumRegions PROVE Served(f, walk[i + 1], req, X)
    OBVIOUS
  <2>1. Served(f, walk[i], req, X)
    BY <1>5, RegionsAssumption
  <2>2. i + 1 \in 1 .. NumRegions /\ (i + 1) - 1 = i
    BY RegionsAssumption
  <2>3. walk[i + 1] = Visit(f, req, walk[i], i)
    BY <1>1, <2>2 DEF IsWalk
  <2> QED BY <2>1, <2>3, <1>3
<1>6. Nat \subseteq T
  <2> HIDE DEF T
  <2> QED BY <1>4, <1>5, SetInduction
<1>7. NumRegions \in T
  BY <1>6, RegionsAssumption
<1> QED BY <1>1, <1>7, RegionsAssumption

-----------------------------------------------------------------------------
(*****************************************************************************)
(* The free set: an allocation that takes whole regions.                     *)
(*****************************************************************************)

(* Regions follow each other in the order of their numbers. *)
LEMMA BottomOrder ==
  ASSUME NEW a \in Nat, NEW b \in Nat, a <= b
  PROVE  /\ Bottom(a) \in Nat /\ Bottom(b) \in Nat /\ Bottom(a) <= Bottom(b)
         /\ Bottom(a) + RegionSize = Bottom(a + 1)
<1> USE Powers
<1>1. a * RegionSize \in Nat /\ b * RegionSize \in Nat
  OBVIOUS
<1>2. (b - a) * RegionSize >= 0
  <2>1. b - a \in Nat
    OBVIOUS
  <2> QED BY <2>1
<1>3. b * RegionSize = a * RegionSize + (b - a) * RegionSize
  OBVIOUS
<1>4. (a + 1) * RegionSize = a * RegionSize + RegionSize
  OBVIOUS
<1> QED BY <1>1, <1>2, <1>3, <1>4 DEF Bottom

(* The regions a large object needs. *)
LEMMA SpanFact ==
  ASSUME NEW beg \in Nat, NEW size \in Nat, size >= 1
  PROVE  /\ RequiredRegions(size) \in Nat /\ RequiredRegions(size) >= 1
         /\ \A u \in Units(<<Bottom(beg), size>>) :
              u \in Nat /\ RegionOf(u) \in beg .. beg + RequiredRegions(size) - 1
<1> USE Powers
<1> DEFINE n == RequiredRegions(size)
           t == size + RegionSize - 1
           q == t \div RegionSize
<1>1. t \in Nat /\ t >= RegionSize
  OBVIOUS
<1> HIDE DEF t
<1>2. q \in Nat /\ q * RegionSize <= t /\ t < q * RegionSize + RegionSize
  BY <1>1
<1> HIDE DEF q
<1>3. n = q
  BY DEF RequiredRegions, q, t
<1>4. q >= 1
  <2> SUFFICES ASSUME q = 0 PROVE FALSE
    BY <1>2
  <2>1. q * RegionSize = 0
    OBVIOUS
  <2> QED BY <1>1, <1>2, <2>1
<1> HIDE DEF n
<1>5. q * RegionSize \in Nat /\ size <= q * RegionSize
  BY <1>2 DEF t
<1>6. Bottom(beg) \in Nat /\ Bottom(beg + n) = Bottom(beg) + q * RegionSize
  <2>1. (beg + q) * RegionSize = beg * RegionSize + q * RegionSize
    BY <1>2
  <2>2. beg * RegionSize \in Nat
    OBVIOUS
  <2> QED BY <2>1, <2>2, <1>3 DEF Bottom
<1>7. ASSUME NEW u \in Units(<<Bottom(beg), size>>)
      PROVE  u \in Nat /\ RegionOf(u) \in beg .. beg + n - 1
  <2>1. u \in Nat /\ Bottom(beg) <= u /\ u < Bottom(beg + n)
    <3>1. u \in Int /\ Bottom(beg) <= u /\ u <= Bottom(beg) + size - 1
      BY <1>6 DEF Units
    <3> QED BY <3>1, <1>5, <1>6
  <2> DEFINE r == RegionOf(u)
  <2>2. r \in Nat /\ Bottom(r) <= u /\ u < Bottom(r) + RegionSize
    <3>1. r \in Nat
      BY <2>1, RegionOfFact
    <3> HIDE DEF r
    <3>2. RegionOf(u) = r <=> Bottom(r) <= u /\ u < Bottom(r) + RegionSize
      BY <2>1, <3>1, RegionOfFact
    <3> QED BY <3>1, <3>2 DEF r
  <2> HIDE DEF r
  <2>3. n \in Nat
    BY <1>2, <1>3
  <2>4. ~(r < beg)
    <3> SUFFICES ASSUME r < beg PROVE FALSE
      OBVIOUS
    <3>1. Bottom(r + 1) <= Bottom(beg) /\ Bottom(r) + RegionSize = Bottom(r + 1) /\ Bottom(r + 1) \in Nat
      BY <2>2, BottomOrder
    <3> QED BY <3>1, <2>1, <2>2, <1>6
  <2>5. ~(beg + n <= r)
    <3> SUFFICES ASSUME beg + n <= r PROVE FALSE
      OBVIOUS
    <3>1. Bottom(beg + n) <= Bottom(r) /\ Bottom(beg + n) \in Nat /\ Bottom(r) \in Nat
      BY <2>2, <2>3, BottomOrder
    <3> QED BY <3>1, <2>1, <2>2
  <2>6. r \in beg .. beg + n - 1
    BY <2>2, <2>3, <2>4, <2>5
  <2> QED BY <2>1, <2>6 DEF r
<1> QED BY <1>2, <1>3, <1>4, <1>7 DEF n

\* The outcome res of the allocation of a large object that began with f.
ServedLarge(f, res, size, X) ==
  \/ res.block = NoBlock /\ res.f = f
  \/ \E beg \in Indices :
       LET span == beg .. beg + RequiredRegions(size) - 1
       IN /\ res.block = <<Bottom(beg), size>>
          /\ span \subseteq Indices
          /\ \A u \in Units(res.block) : u \in Nat /\ RegionOf(u) \in span
          /\ Units(res.block) \cap X = {}
          /\ \A r \in span : f.region[r].typ \in Unused
          /\ res.f.region[beg].typ = "HumongousStart" /\ res.f.region[beg].large = size
          /\ \A r \in span : r # beg => res.f.region[r].typ = "HumongousCont"
          /\ \A r \in span : ~res.f.region[r].sweep
          /\ \A r \in Indices \ span : res.f.region[r] = f.region[r]
          /\ res.f.bits \subseteq f.bits
          /\ res.f.starts \subseteq f.starts
          /\ \A a \in f.starts : a \in res.f.starts \/ f.region[RegionOf(a)].typ = "Trash"
          /\ AllRight(res.f, X \cup Units(res.block))

(* A region of a large object. *)
LEMMA HumongousExcept ==
  ASSUME NEW g, g = [typ |-> g.typ, list |-> g.list, sweep |-> g.sweep, large |-> g.large],
         NEW t, NEW l, NEW n
  PROVE  [g EXCEPT !.list = l, !.large = n, !.typ = t] = [typ |-> t, list |-> l, sweep |-> g.sweep, large |-> n]
<1> DEFINE h == [g EXCEPT !.list = l]
           k == [h EXCEPT !.large = n]
<1>1. h = [typ |-> g.typ, list |-> l, sweep |-> g.sweep, large |-> g.large]
  OBVIOUS
<1>2. [g EXCEPT !.list = l, !.large = n, !.typ = t] = [k EXCEPT !.typ = t]
  OBVIOUS
<1> HIDE DEF h
<1>3. k = [typ |-> g.typ, list |-> l, sweep |-> g.sweep, large |-> n]
  BY <1>1
<1> HIDE DEF k
<1> QED BY <1>2, <1>3

\* The record g after allocate_contiguous took the regions from beg on.
IsTaken(f0, g, beg, size) ==
  LET n == RequiredRegions(size)
      span == beg .. beg + n - 1
  IN /\ IsRec(g)
     /\ g.region = [r \in Indices |->
          IF r \notin span THEN f0.region[r]
          ELSE [f0.region[r] EXCEPT !.list = EmptyList, !.large = IF r = beg THEN size ELSE 0,
                  !.typ = IF r = beg THEN "HumongousStart" ELSE "HumongousCont"]]
     /\ g.bits = f0.bits \ span /\ g.used = f0.used
     /\ g.bounds = IF beg = f0.bounds.left \/ beg + n - 1 = f0.bounds.right
                   THEN AdjustBounds(f0.bounds, g.bits) ELSE f0.bounds
     /\ g.starts = {a \in f0.starts : RegionOf(a) \notin {r \in span : f0.region[r].typ = "Trash"}}
     /\ g.committed = f0.committed + Cardinality({r \in span : f0.region[r].typ = "EmptyUncommited"})

(* allocate_contiguous fails, or takes regions that are open and unused. *)
LEMMA ContiguousParts ==
  ASSUME NEW f0, NEW X, AllRight(f0, X), NEW size \in Nat, size >= 1
  PROVE  LET res == AllocateContiguous(f0, size)
         IN \/ res.block = NoBlock /\ res.f = f0
            \/ \E beg \in Nat :
                 /\ res.block = <<Bottom(beg), size>> /\ IsTaken(f0, res.f, beg, size)
                 /\ \A r \in beg .. beg + RequiredRegions(size) - 1 :
                      r \in Indices /\ r \in f0.bits /\ f0.region[r].typ \in Unused
<1> DEFINE n == RequiredRegions(size)
           runs == IF n > Cardinality(f0.bits) THEN {} ELSE Runs(f0, n)
           beg == Min(runs)
           span == beg .. beg + n - 1
           regs == [r \in Indices |->
                      IF r \notin span THEN f0.region[r]
                      ELSE [f0.region[r] EXCEPT !.list = EmptyList, !.large = IF r = beg THEN size ELSE 0,
                              !.typ = IF r = beg THEN "HumongousStart" ELSE "HumongousCont"]]
           st == {a \in f0.starts : RegionOf(a) \notin {r \in span : f0.region[r].typ = "Trash"}}
           com == f0.committed + Cardinality({r \in span : f0.region[r].typ = "EmptyUncommited"})
           bts == f0.bits \ span
           f == [f0 EXCEPT !.region = regs, !.starts = st, !.committed = com, !.bits = bts]
           bds == IF beg = f.bounds.left \/ beg + n - 1 = f.bounds.right THEN AdjustBounds(f.bounds, f.bits)
                  ELSE f.bounds
           res == AllocateContiguous(f0, size)
<1>1. res = IF runs = {} THEN [f |-> f0, block |-> NoBlock]
            ELSE [f |-> [f EXCEPT !.bounds = bds], block |-> <<Bottom(beg), size>>]
  BY DEF AllocateContiguous
<1>2. CASE runs = {}
  <2> HIDE DEF res, runs
  <2> QED BY <1>1, <1>2 DEF res
<1>3. CASE runs # {}
  <2>1. n \in Nat /\ n >= 1
    <3>1. 0 \in Nat
      OBVIOUS
    <3> QED BY <3>1, SpanFact
  <2> HIDE DEF n
  <2>2. /\ \A b \in runs : b \in Nat
        /\ \A b \in runs : \A i \in b .. b + n - 1 :
             i \in f0.bits /\ (IsEmpty(f0.region[i]) \/ f0.region[i].typ = "Trash")
    <3>1. \A b \in runs : b \in Int /\ \A i \in b .. b + n - 1 :
             i \in f0.bits /\ (IsEmpty(f0.region[i]) \/ f0.region[i].typ = "Trash")
      BY DEF Runs
    <3>2. \A b \in runs : b \in f0.bits
      BY <3>1, <2>1
    <3>3. f0.bits \subseteq Nat
      <4>1. Indices \subseteq Nat
        BY RegionsAssumption DEF Indices
      <4> QED BY <4>1 DEF AllRight
    <3> QED BY <3>1, <3>2, <3>3
  <2>3. beg \in runs
    <3> HIDE DEF runs
    <3> QED BY <2>2, <1>3, MinFact
  <2> HIDE DEF runs, beg
  <2>4. /\ beg \in Nat /\ span \subseteq Indices /\ beg \in span
        /\ \A i \in span : i \in f0.bits /\ f0.region[i].typ \in Unused
    <3>1. beg \in Nat /\ beg \in span
      BY <2>1, <2>2, <2>3
    <3>2. \A i \in span : i \in f0.bits /\ f0.region[i].typ \in Unused
      BY <2>2, <2>3 DEF IsEmpty, Unused
    <3> QED BY <3>1, <3>2 DEF AllRight
  <2> HIDE DEF regs, st, com, bts
  <2>5. f = [region |-> regs, bits |-> bts, bounds |-> f0.bounds, used |-> f0.used, starts |-> st, committed |-> com]
    <3> DEFINE h == [f0 EXCEPT !.region = regs]
               h2 == [h EXCEPT !.starts = st]
               h3 == [h2 EXCEPT !.committed = com]
    <3>1. h = [region |-> regs, bits |-> f0.bits, bounds |-> f0.bounds, used |-> f0.used,
               starts |-> f0.starts, committed |-> f0.committed]
      BY DEF AllRight, IsRec
    <3>2. f = [h3 EXCEPT !.bits = bts]
      OBVIOUS
    <3> HIDE DEF h
    <3>3. h2 = [region |-> regs, bits |-> f0.bits, bounds |-> f0.bounds, used |-> f0.used,
                starts |-> st, committed |-> f0.committed]
      BY <3>1
    <3> HIDE DEF h2
    <3>4. h3 = [region |-> regs, bits |-> f0.bits, bounds |-> f0.bounds, used |-> f0.used,
                starts |-> st, committed |-> com]
      BY <3>3
    <3> HIDE DEF h3, f
    <3> QED BY <3>2, <3>4
  <2> HIDE DEF f, bds
  <2> DEFINE g == [f EXCEPT !.bounds = bds]
  <2>6. res.f = g /\ res.block = <<Bottom(beg), size>>
    <3>1. res = [f |-> g, block |-> <<Bottom(beg), size>>]
      <4> HIDE DEF res
      <4> QED BY <1>1, <1>3
    <3> HIDE DEF g, res
    <3> QED BY <3>1
  <2>7. g = [region |-> regs, bits |-> bts, bounds |-> bds, used |-> f0.used, starts |-> st, committed |-> com]
    BY <2>5
  <2> HIDE DEF g, res
  <2>8. /\ IsRec(g) /\ g.region = regs /\ g.bits = bts /\ g.starts = st /\ g.bounds = bds /\ g.used = f0.used
        /\ g.committed = com
    BY <2>7 DEF IsRec
  <2>9. f.bounds = f0.bounds /\ f.bits = bts
    BY <2>5
  <2>10. IsTaken(f0, g, beg, size)
    BY <2>8, <2>9 DEF IsTaken, regs, bts, st, com, bds, n
  <2>11. \A i \in span : i \in Indices /\ i \in f0.bits /\ f0.region[i].typ \in Unused
    BY <2>4
  <2>12. beg \in Nat /\ res.block = <<Bottom(beg), size>> /\ res.f = g
    BY <2>4, <2>6
  <2> QED BY <2>10, <2>11, <2>12 DEF res, n
<1> QED BY <1>2, <1>3

(* allocate_contiguous takes unused regions. *)
LEMMA ContiguousFact ==
  ASSUME NEW f0, NEW X, AllRight(f0, X), NEW size \in Nat, size >= 1
  PROVE  ServedLarge(f0, AllocateContiguous(f0, size), size, X)
<1> DEFINE n == RequiredRegions(size)
           res == AllocateContiguous(f0, size)
           g == res.f
<1>1. \/ res.block = NoBlock /\ res.f = f0
      \/ \E beg \in Nat :
           /\ res.block = <<Bottom(beg), size>> /\ IsTaken(f0, res.f, beg, size)
           /\ \A r \in beg .. beg + n - 1 : r \in Indices /\ r \in f0.bits /\ f0.region[r].typ \in Unused
  BY ContiguousParts
<1> HIDE DEF res
<1>2. CASE res.block = NoBlock /\ res.f = f0
  BY <1>2 DEF ServedLarge, res
<1>3. ASSUME NEW beg \in Nat, res.block = <<Bottom(beg), size>>, IsTaken(f0, res.f, beg, size),
             \A r \in beg .. beg + n - 1 : r \in Indices /\ r \in f0.bits /\ f0.region[r].typ \in Unused
      PROVE  ServedLarge(f0, res, size, X)
  <2> DEFINE span == beg .. beg + n - 1
             regs == [r \in Indices |->
                        IF r \notin span THEN f0.region[r]
                        ELSE [f0.region[r] EXCEPT !.list = EmptyList, !.large = IF r = beg THEN size ELSE 0,
                                !.typ = IF r = beg THEN "HumongousStart" ELSE "HumongousCont"]]
             st == {a \in f0.starts : RegionOf(a) \notin {r \in span : f0.region[r].typ = "Trash"}}
             bts == f0.bits \ span
  <2>1. n \in Nat /\ n >= 1
    <3>1. 0 \in Nat
      OBVIOUS
    <3> QED BY <3>1, SpanFact
  <2>2. IsRec(g) /\ g.region = regs /\ g.bits = bts /\ g.starts = st
    BY <1>3 DEF IsTaken
  <2> HIDE DEF n, regs, st, bts, g
  <2>3. /\ beg \in Nat /\ span \subseteq Indices /\ beg \in span
        /\ \A i \in span : i \in f0.bits /\ f0.region[i].typ \in Unused
    BY <1>3, <2>1
  <2>4. res.f = g /\ res.block = <<Bottom(beg), size>>
    BY <1>3 DEF g
  <2> DEFINE b == <<Bottom(beg), size>>
  <2>5. \A u \in Units(b) : u \in Nat /\ RegionOf(u) \in span
    BY <2>3, SpanFact DEF n
  <2> HIDE DEF b
  <2>6. Units(b) \cap X = {}
    <3> SUFFICES ASSUME NEW u \in Units(b), u \in X PROVE FALSE
      OBVIOUS
    <3> DEFINE r == RegionOf(u)
    <3>1. r \in Indices /\ f0.region[r].typ \in Unused
      BY <2>3, <2>5
    <3>2. RegionOK(f0.region[r], r, X, f0.starts)
      BY <3>1 DEF AllRight
    <3> QED BY <3>1, <3>2 DEF RegionOK
  <2>7. /\ regs = [r \in Indices |-> regs[r]]
        /\ \A r \in Indices \ span : regs[r] = f0.region[r]
        /\ \A r \in span : regs[r] = [typ |-> IF r = beg THEN "HumongousStart" ELSE "HumongousCont",
                                      list |-> EmptyList, sweep |-> f0.region[r].sweep,
                                      large |-> IF r = beg THEN size ELSE 0]
    <3>1. \A r \in span : f0.region[r] = [typ |-> f0.region[r].typ, list |-> f0.region[r].list,
                                          sweep |-> f0.region[r].sweep, large |-> f0.region[r].large]
      BY <2>3 DEF AllRight, RegionOK
    <3>2. \A r \in span : regs[r] = [f0.region[r] EXCEPT !.list = EmptyList, !.large = IF r = beg THEN size ELSE 0,
                                          !.typ = IF r = beg THEN "HumongousStart" ELSE "HumongousCont"]
      BY <2>3 DEF regs
    <3>3. \A r \in span : regs[r] = [typ |-> IF r = beg THEN "HumongousStart" ELSE "HumongousCont",
                                       list |-> EmptyList, sweep |-> f0.region[r].sweep,
                                       large |-> IF r = beg THEN size ELSE 0]
      <4> TAKE r \in span
      <4> DEFINE o == f0.region[r]
                 l == IF r = beg THEN size ELSE 0
                 t == IF r = beg THEN "HumongousStart" ELSE "HumongousCont"
      <4>1. o = [typ |-> o.typ, list |-> o.list, sweep |-> o.sweep, large |-> o.large]
        BY <3>1
      <4>2. regs[r] = [o EXCEPT !.list = EmptyList, !.large = l, !.typ = t]
        BY <3>2
      <4> HIDE DEF o, l, t
      <4>3. regs[r] = [typ |-> t, list |-> EmptyList, sweep |-> o.sweep, large |-> l]
        BY <4>1, <4>2, HumongousExcept
      <4> QED BY <4>3 DEF o, l, t
    <3>4. regs = [r \in Indices |-> regs[r]] /\ \A r \in Indices \ span : regs[r] = f0.region[r]
      BY DEF regs
    <3> QED BY <3>3, <3>4
  <2>8. \A r \in span : /\ regs[r].typ = (IF r = beg THEN "HumongousStart" ELSE "HumongousCont")
                        /\ regs[r].list = EmptyList /\ ~regs[r].sweep
                        /\ regs[r].large = (IF r = beg THEN size ELSE 0)
                        /\ regs[r] = [typ |-> regs[r].typ, list |-> regs[r].list,
                                      sweep |-> regs[r].sweep, large |-> regs[r].large]
                        /\ regs[r].sweep \in BOOLEAN
    <3> TAKE r \in span
    <3>1. ~f0.region[r].sweep /\ f0.region[r].sweep \in BOOLEAN
      BY <2>3 DEF AllRight, RegionOK
    <3> DEFINE l == IF r = beg THEN size ELSE 0
               t == IF r = beg THEN "HumongousStart" ELSE "HumongousCont"
               w == f0.region[r].sweep
    <3>2. regs[r] = [typ |-> t, list |-> EmptyList, sweep |-> w, large |-> l]
      BY <2>7
    <3>3. ~w /\ w \in BOOLEAN
      BY <3>1
    <3> HIDE DEF l, t, w
    <3>4. regs[r].typ = t /\ regs[r].list = EmptyList /\ regs[r].sweep = w /\ regs[r].large = l
      BY <3>2
    <3>5. regs[r] = [typ |-> regs[r].typ, list |-> regs[r].list, sweep |-> regs[r].sweep, large |-> regs[r].large]
      BY <3>2, <3>4
    <3>6. ~regs[r].sweep /\ regs[r].sweep \in BOOLEAN
      BY <3>3, <3>4
    <3> QED BY <3>4, <3>5, <3>6 DEF l, t
  <2>9. \A r \in span : RegionOK(regs[r], r, X \cup Units(b), st)
    <3> TAKE r \in span
    <3>1. regs[r].typ \in {"HumongousStart", "HumongousCont"} /\ regs[r].large \in Nat
      <4>1. CASE r = beg
        BY <2>8, <4>1
      <4>2. CASE r # beg
        <5>1. regs[r].typ = "HumongousCont"
          BY <2>8, <4>2
        <5>2. regs[r].large = 0
          BY <2>8, <4>2
        <5> QED BY <5>1, <5>2
      <4> QED BY <4>1, <4>2
    <3> QED BY <2>8, <3>1, EmptyListFact DEF RegionOK, Apart, Unused, IsEmpty, States
  <2>10. \A r \in Indices \ span : RegionOK(regs[r], r, X \cup Units(b), st)
    <3> TAKE r \in Indices \ span
    <3>1. RegionOK(f0.region[r], r, X, f0.starts) /\ regs[r] = f0.region[r] /\ st \subseteq f0.starts
      BY <2>7 DEF AllRight, st
    <3>2. \A u \in Units(b) : RegionOf(u) # r
      BY <2>5
    <3>3. \A c \in Entries(f0.region[r].list) : Units(c) \cap Units(b) = {}
      BY <3>1, <3>2 DEF RegionOK, BlockIn
    <3> QED BY <3>1, <3>2, <3>3 DEF RegionOK
  <2>11. AllRight(g, X \cup Units(b))
    <3>1. \A r \in g.bits : r \in Indices /\ g.region[r].typ \in Open /\ ~g.region[r].sweep
      <4> TAKE r \in g.bits
      <4>1. r \in f0.bits /\ r \in Indices \ span
        BY <2>2 DEF bts, AllRight
      <4> QED BY <4>1, <2>2, <2>7 DEF AllRight
    <3>2. \A a \in g.starts : a \in Nat /\ RegionOf(a) \in Indices
      BY <2>2 DEF st, AllRight
    <3>3. \A r \in Indices : RegionOK(g.region[r], r, X \cup Units(b), g.starts)
      BY <2>2, <2>9, <2>10
    <3> QED BY <3>1, <3>2, <3>3, <2>2, <2>7 DEF AllRight
  <2>12. /\ g.bits \subseteq f0.bits /\ g.starts \subseteq f0.starts
         /\ \A a \in f0.starts : a \in g.starts \/ f0.region[RegionOf(a)].typ = "Trash"
    BY <2>2 DEF bts, st
  <2>13. beg \in Indices
    BY <2>3
  <2>14. /\ g.region[beg].typ = "HumongousStart" /\ g.region[beg].large = size
         /\ \A r \in span : r # beg => g.region[r].typ = "HumongousCont"
         /\ \A r \in span : ~g.region[r].sweep
         /\ \A r \in Indices \ span : g.region[r] = f0.region[r]
    BY <2>3, <2>2, <2>7, <2>8
  <2>15. /\ res.block = b /\ res.f = g /\ span \subseteq Indices /\ \A r \in span : f0.region[r].typ \in Unused
    BY <2>3, <2>4 DEF b
  <2> QED BY <2>5, <2>6, <2>11, <2>12, <2>13, <2>14, <2>15, <2>4 DEF ServedLarge, n, res, b
<1> QED BY <1>1, <1>2, <1>3 DEF res

-----------------------------------------------------------------------------
(*****************************************************************************)
(* The invariant, and what keeps it: objects, buffers, allocations.          *)
(*****************************************************************************)

\* The pieces of memory that belong to somebody: the objects in O and the rests
\* of buffers in R, a function of the threads that own them.
Pieces(O, R) == O \cup {R[m] : m \in DOMAIN R}

Span(r, f) == r .. r + RequiredRegions(f.region[r].large) - 1

\* A small object lies in a regular region, with its start bit and no other.
SmallOK(o, f) ==
  /\ o[2] <= RegionSize /\ RegionOf(o[1]) \in Indices /\ BlockIn(o, RegionOf(o[1]))
  /\ f.region[RegionOf(o[1])].typ = "Regular"
  /\ f.starts \cap Units(o) = {o[1]}

\* A large object begins with a region that knows its size.
LargeOK(o, f) ==
  /\ o[2] > RegionSize
  /\ \E r \in Indices :
       /\ o = <<Bottom(r), o[2]>>
       /\ f.region[r].typ = "HumongousStart" /\ f.region[r].large = o[2]

ObjOK(o, f) ==
  o = <<o[1], o[2]>> /\ o[1] \in Nat /\ o[2] \in Sizes /\ (SmallOK(o, f) \/ LargeOK(o, f))

\* What is left of a buffer: in a regular region that is not to be swept.
RestOK(b, f) ==
  /\ Sized(b) /\ RegionOf(b[1]) \in Indices /\ BlockIn(b, RegionOf(b[1]))
  /\ f.region[RegionOf(b[1])].typ = "Regular" /\ ~f.region[RegionOf(b[1])].sweep
  /\ f.starts \cap Units(b) = {}

SpansOK(f) ==
  \A r \in Indices : f.region[r].typ = "HumongousStart" =>
    /\ f.region[r].large \in Nat \ {0} /\ Span(r, f) \subseteq Indices
    /\ \A i \in Span(r, f) : i # r => f.region[i].typ = "HumongousCont"

ContsOK(f) ==
  \A i \in Indices : f.region[i].typ = "HumongousCont" =>
    \E r \in 0 .. i - 1 : f.region[r].typ = "HumongousStart" /\ i \in Span(r, f)

SweepsOK(f) ==
  \A r \in Indices : f.region[r].sweep => f.region[r].typ \in {"Regular", "HumongousStart"}

Shape(f) == SpansOK(f) /\ ContsOK(f) /\ SweepsOK(f)

PiecesApart(O, R) ==
  /\ \A o, p \in O : o # p => Units(o) \cap Units(p) = {}
  /\ \A o \in O : \A m \in DOMAIN R : Units(o) \cap Units(R[m]) = {}
  /\ \A m, n \in DOMAIN R : m # n => Units(R[m]) \cap Units(R[n]) = {}

InOrder(f, O, R) ==
  /\ AllRight(f, Covered(Pieces(O, R)))
  /\ Shape(f)
  /\ \A o \in O : ObjOK(o, f)
  /\ \A m \in DOMAIN R : RestOK(R[m], f)
  /\ PiecesApart(O, R)

(* Memory that belongs to nobody any more does no harm. *)
LEMMA LessFact ==
  ASSUME NEW f, NEW X, NEW Y, Y \subseteq X, AllRight(f, X)
  PROVE  AllRight(f, Y)
<1>1. \A r \in Indices : RegionOK(f.region[r], r, Y, f.starts)
  <2> TAKE r \in Indices
  <2>1. RegionOK(f.region[r], r, X, f.starts)
    BY DEF AllRight
  <2> QED BY <2>1 DEF RegionOK
<1> QED BY <1>1 DEF AllRight

(* A unit is covered by a piece. *)
LEMMA PieceFact ==
  ASSUME NEW O, NEW R, NEW u
  PROVE  u \in Covered(Pieces(O, R)) <=>
           (\E o \in O : u \in Units(o)) \/ (\E m \in DOMAIN R : u \in Units(R[m]))
BY DEF Covered, Pieces

(* Objects may die and buffers disappear. *)
LEMMA ShrinkFact ==
  ASSUME NEW f, NEW O, NEW R, InOrder(f, O, R), NEW P, P \subseteq O,
         NEW Q, DOMAIN Q \subseteq DOMAIN R, \A m \in DOMAIN Q : Q[m] = R[m]
  PROVE  InOrder(f, P, Q)
<1>1. Covered(Pieces(P, Q)) \subseteq Covered(Pieces(O, R))
  BY PieceFact
<1>2. AllRight(f, Covered(Pieces(P, Q)))
  BY <1>1, LessFact DEF InOrder
<1>3. PiecesApart(P, Q)
  BY DEF InOrder, PiecesApart
<1> QED BY <1>2, <1>3 DEF InOrder

(* The start bit of an object in memory that belongs to somebody. *)
LEMMA MarkFact ==
  ASSUME NEW f, NEW X, AllRight(f, X), NEW a \in X, a \in Nat, RegionOf(a) \in Indices,
         NEW g, IsRec(g), g.region = f.region, g.bits = f.bits, g.starts = f.starts \cup {a}
  PROVE  AllRight(g, X)
<1>1. \A r \in Indices : RegionOK(g.region[r], r, X, g.starts)
  <2> TAKE r \in Indices
  <2>1. RegionOK(f.region[r], r, X, f.starts)
    BY DEF AllRight
  <2>2. \A b \in Entries(f.region[r].list) : Units(b) \cap g.starts = {}
    BY <2>1 DEF RegionOK
  <2>3. IsEmpty(f.region[r]) => RegionOf(a) # r
    BY <2>1 DEF RegionOK, IsEmpty, Unused
  <2> QED BY <2>1, <2>2, <2>3 DEF RegionOK
<1>2. \A c \in g.starts : c \in Nat /\ RegionOf(c) \in Indices
  BY DEF AllRight
<1> QED BY <1>1, <1>2 DEF AllRight

(* The regions with large objects do not look at the rest. *)
LEMMA SameShape ==
  ASSUME NEW f, Shape(f), NEW g,
         \A r \in Indices : /\ g.region[r].typ = f.region[r].typ
                            /\ g.region[r].large = f.region[r].large
                            /\ g.region[r].sweep = f.region[r].sweep
  PROVE  Shape(g)
<1>1. \A r \in Indices : Span(r, g) = Span(r, f)
  BY DEF Span
<1>2. SpansOK(g)
  BY <1>1 DEF Shape, SpansOK
<1>3. ContsOK(g)
  <2> SUFFICES ASSUME NEW i \in Indices, g.region[i].typ = "HumongousCont"
               PROVE  \E r \in 0 .. i - 1 : g.region[r].typ = "HumongousStart" /\ i \in Span(r, g)
    BY DEF ContsOK
  <2>1. PICK r \in 0 .. i - 1 : f.region[r].typ = "HumongousStart" /\ i \in Span(r, f)
    BY DEF Shape, ContsOK
  <2>2. r \in Indices
    BY RegionsAssumption DEF Indices
  <2> QED BY <2>1, <2>2, <1>1
<1>4. SweepsOK(g)
  BY DEF Shape, SweepsOK
<1> QED BY <1>2, <1>3, <1>4 DEF Shape

(* A start bit outside of the other objects and buffers does not disturb them. *)
LEMMA KeepsObjects ==
  ASSUME NEW f, NEW g, NEW o, ObjOK(o, f), NEW a, a \notin Units(o),
         g.region = f.region, g.starts = f.starts \cup {a}
  PROVE  ObjOK(o, g)
<1>1. SmallOK(o, f) => SmallOK(o, g)
  <2> SUFFICES ASSUME SmallOK(o, f) PROVE g.starts \cap Units(o) = {o[1]}
    BY DEF SmallOK
  <2> QED BY DEF SmallOK
<1>2. LargeOK(o, f) => LargeOK(o, g)
  BY DEF LargeOK
<1> QED BY <1>1, <1>2 DEF ObjOK

(* An object is made at the front of a buffer. *)
LEMMA BumpFact ==
  ASSUME NEW f, NEW O, NEW R, InOrder(f, O, R), NEW m \in DOMAIN R,
         NEW n \in Sizes, n <= R[m][2],
         NEW g, IsRec(g), g.region = f.region, g.bits = f.bits, g.starts = f.starts \cup {R[m][1]},
         NEW Q, DOMAIN Q \subseteq DOMAIN R, \A k \in DOMAIN Q \ {m} : Q[k] = R[k],
         m \in DOMAIN Q => Q[m] = <<R[m][1] + n, R[m][2] - n>> /\ Q[m][2] > 0
  PROVE  /\ InOrder(g, O \cup {<<R[m][1], n>>}, Q)
         /\ \A o \in O : Units(o) \cap Units(<<R[m][1], n>>) = {}
<1> DEFINE b == R[m]
           new == <<b[1], n>>
           rest == <<b[1] + n, b[2] - n>>
           X == Covered(Pieces(O, R))
           P == O \cup {new}
<1>1. RestOK(b, f)
  BY DEF InOrder
<1>2. Sized(b) /\ n \in Nat /\ 1 <= n
  BY <1>1, RegionsAssumption DEF RestOK
<1>3. /\ Sized(new) /\ Units(new) \subseteq Units(b)
      /\ rest[2] > 0 => Sized(rest) /\ Units(rest) \subseteq Units(b) /\ Units(rest) \cap Units(new) = {}
  BY <1>2, SplitFact
<1>4. b[1] \in Units(b) /\ b[1] \in Units(new) /\ b[1] \in Nat /\ new[1] = b[1] /\ new[2] = n
      /\ new = <<new[1], new[2]>> /\ n <= RegionSize
  BY <1>2, <1>3, UnitsFact
<1>5. \A k \in DOMAIN Q : Units(Q[k]) \subseteq Units(R[k])
  BY <1>3
<1>6. m \in DOMAIN Q => Sized(Q[m]) /\ Units(Q[m]) \cap Units(new) = {}
  BY <1>3
<1>6a. m \in DOMAIN Q => b[1] \notin Units(Q[m])
  BY <1>4, <1>6
<1> HIDE DEF new, rest
<1>7. Covered(Pieces(P, Q)) \subseteq X
  <2> SUFFICES ASSUME NEW u \in Covered(Pieces(P, Q)) PROVE u \in X
    OBVIOUS
  <2>1. CASE \E o \in P : u \in Units(o)
    <3>1. (\E o \in O : u \in Units(o)) \/ u \in Units(b)
      BY <2>1, <1>3
    <3> QED BY <3>1, PieceFact
  <2>2. CASE \E k \in DOMAIN Q : u \in Units(Q[k])
    BY <2>2, <1>5, PieceFact
  <2> QED BY <2>1, <2>2, PieceFact
<1>8. AllRight(g, Covered(Pieces(P, Q)))
  <2>1. b[1] \in X
    BY <1>4, PieceFact
  <2>2. RegionOf(b[1]) \in Indices
    BY <1>1 DEF RestOK
  <2>3. AllRight(f, X)
    BY DEF InOrder
  <2>4. AllRight(g, X)
    BY <1>4, <2>1, <2>2, <2>3, MarkFact
  <2> QED BY <1>7, <2>4, LessFact
<1>9. Shape(g)
  BY SameShape DEF InOrder
<1>10. \A o \in O : Units(o) \cap Units(b) = {}
  BY DEF InOrder, PiecesApart
<1>11. \A o \in P : ObjOK(o, g)
  <2>1. \A o \in O : ObjOK(o, g)
    <3> TAKE o \in O
    <3>1. b[1] \notin Units(o)
      BY <1>4, <1>10
    <3> QED BY <3>1, KeepsObjects DEF InOrder
  <2>2. BlockIn(new, RegionOf(new[1]))
    BY <1>1, <1>3, <1>4 DEF RestOK, BlockIn
  <2>3. g.starts \cap Units(new) = {new[1]}
    BY <1>1, <1>3, <1>4 DEF RestOK
  <2>4. SmallOK(new, g)
    BY <1>1, <1>2, <1>4, <2>2, <2>3 DEF SmallOK, RestOK
  <2>5. ObjOK(new, g)
    BY <1>4, <2>4 DEF ObjOK
  <2> QED BY <2>1, <2>5
<1>12. \A k, l \in DOMAIN R : k # l => Units(R[k]) \cap Units(R[l]) = {}
  BY DEF InOrder, PiecesApart
<1>13. \A k \in DOMAIN Q : RestOK(Q[k], g)
  <2> TAKE k \in DOMAIN Q
  <2>1. CASE k # m
    <3>1. RestOK(R[k], f) /\ Q[k] = R[k]
      BY <2>1 DEF InOrder
    <3>2. b[1] \notin Units(R[k])
      BY <2>1, <1>4, <1>12
    <3>3. g.starts \cap Units(R[k]) = {}
      BY <3>1, <3>2 DEF RestOK
    <3> QED BY <3>1, <3>3 DEF RestOK
  <2>2. CASE k = m
    <3>1. Sized(Q[m]) /\ Units(Q[m]) \subseteq Units(b)
      BY <2>2, <1>5, <1>6
    <3>2. Q[m][1] \in Units(b)
      BY <3>1, UnitsFact
    <3>3. RegionOf(Q[m][1]) = RegionOf(b[1])
      BY <1>1, <3>2 DEF RestOK, BlockIn
    <3>4. BlockIn(Q[m], RegionOf(b[1]))
      BY <1>1, <3>1 DEF RestOK, BlockIn
    <3>5. g.starts \cap Units(Q[m]) = {}
      BY <1>1, <2>2, <3>1, <1>6a DEF RestOK
    <3> QED BY <1>1, <2>2, <3>1, <3>3, <3>4, <3>5 DEF RestOK
  <2> QED BY <2>1, <2>2
<1>14. PiecesApart(P, Q)
  <2>1. \A o, p \in P : o # p => Units(o) \cap Units(p) = {}
    BY <1>3, <1>10 DEF InOrder, PiecesApart
  <2>2. \A o \in P : \A k \in DOMAIN Q : Units(o) \cap Units(Q[k]) = {}
    <3> TAKE o \in P
    <3> TAKE k \in DOMAIN Q
    <3>1. CASE o \in O
      BY <3>1, <1>5 DEF InOrder, PiecesApart
    <3>2. CASE o = new /\ k = m
      BY <3>2, <1>6
    <3>3. CASE o = new /\ k # m
      <4>1. Units(b) \cap Units(R[k]) = {}
        BY <3>3, <1>12
      <4> QED BY <3>3, <4>1, <1>3
    <3> QED BY <3>1, <3>2, <3>3
  <2>3. \A k, l \in DOMAIN Q : k # l => Units(Q[k]) \cap Units(Q[l]) = {}
    <3> TAKE k, l \in DOMAIN Q
    <3>1. k # l => Units(R[k]) \cap Units(R[l]) = {}
      BY <1>12
    <3> QED BY <3>1, <1>5
  <2> QED BY <2>1, <2>2, <2>3 DEF PiecesApart
<1>15. \A o \in O : Units(o) \cap Units(new) = {}
  BY <1>3, <1>10
<1> QED BY <1>8, <1>9, <1>11, <1>13, <1>14, <1>15 DEF InOrder, new

(* Nothing is added to an empty list. *)
LEMMA AddNone == AddAll(EmptyList, {}) = EmptyList
<1>1. \A i \in Buckets : {b \in {} : bucket_index_for_size(b[2]) = i} = {}
  OBVIOUS
<1>2. Falling({}) = <<>>
  <2>1. Falling({}) \in Seq(Block) /\ Range(Falling({})) = {}
    BY FallingFact, FS_EmptySet
  <2> DEFINE s == Falling({})
  <2>2. s \in Seq(Block) /\ \A k \in 1 .. Len(s) : s[k] \in {}
    <3> HIDE DEF s
    <3>1. DOMAIN s = 1 .. Len(s)
      BY <2>1 DEF s
    <3> QED BY <2>1, <3>1 DEF Range, s
  <2> HIDE DEF s
  <2>3. Len(s) = 0
    <3>1. Len(s) \in Nat /\ ~(1 \in 1 .. Len(s))
      BY <2>2
    <3> QED BY <3>1
  <2>4. s = <<>>
    BY <2>2, <2>3
  <2> QED BY <2>4 DEF s
<1>3. \A i \in Buckets : EmptyList.heads[i] = <<>>
  BY DEF EmptyList
<1>4. <<>> \o <<>> = <<>>
  OBVIOUS
<1>5. [i \in Buckets |-> Falling({b \in {} : bucket_index_for_size(b[2]) = i}) \o EmptyList.heads[i]]
      = [i \in Buckets |-> <<>>]
  BY <1>1, <1>2, <1>3, <1>4
<1>6. Max({EmptyList.biggest} \cup {bucket_index_for_size(b[2]) : b \in {}}) = 0
  <2>1. {EmptyList.biggest} \cup {bucket_index_for_size(b[2]) : b \in {}} = {0}
    BY DEF EmptyList
  <2>2. Max({0}) = 0
    BY DEF Max
  <2> QED BY <2>1, <2>2
<1> QED BY <1>5, <1>6 DEF AddAll, EmptyList

\* g is f with the blocks of B[r] in the free list of region r.
Added(f, g, B) ==
  /\ IsRec(g) /\ g.bits = f.bits /\ g.starts = f.starts
  /\ g.region = [r \in Indices |-> [f.region[r] EXCEPT !.list = AddAll(@, B[r])]]

(* Only the list of a region changes. *)
LEMMA ListExcept ==
  ASSUME NEW g, g = [typ |-> g.typ, list |-> g.list, sweep |-> g.sweep, large |-> g.large], NEW l
  PROVE  [g EXCEPT !.list = l] = [typ |-> g.typ, list |-> l, sweep |-> g.sweep, large |-> g.large]
OBVIOUS

(* Buffers are given back: what was left of them is free. *)
LEMMA GiveBackFact ==
  ASSUME NEW f, NEW O, NEW R, InOrder(f, O, R), NEW D, D \subseteq DOMAIN R, IsFiniteSet(D),
         NEW B, \A r \in Indices : B[r] = {R[m] : m \in {x \in D : RegionOf(R[x][1]) = r}},
         NEW g, Added(f, g, B), NEW Q, DOMAIN Q = DOMAIN R \ D, \A m \in DOMAIN Q : Q[m] = R[m]
  PROVE  InOrder(g, O, Q)
<1> DEFINE X == Covered(Pieces(O, R))
           Y == Covered(Pieces(O, Q))
<1>1. AllRight(f, X)
  BY DEF InOrder
<1>2. \A r \in Indices : /\ RegionOK(f.region[r], r, X, f.starts)
                         /\ f.region[r] = [typ |-> f.region[r].typ, list |-> f.region[r].list,
                                           sweep |-> f.region[r].sweep, large |-> f.region[r].large]
  BY <1>1 DEF AllRight, RegionOK
<1>3. \A r \in Indices :
        /\ g.region[r] = [typ |-> f.region[r].typ, list |-> AddAll(f.region[r].list, B[r]),
                          sweep |-> f.region[r].sweep, large |-> f.region[r].large]
        /\ g.region[r].typ = f.region[r].typ /\ g.region[r].list = AddAll(f.region[r].list, B[r])
        /\ g.region[r].sweep = f.region[r].sweep /\ g.region[r].large = f.region[r].large
        /\ g.region[r] = [typ |-> g.region[r].typ, list |-> g.region[r].list,
                          sweep |-> g.region[r].sweep, large |-> g.region[r].large]
  <2> TAKE r \in Indices
  <2> DEFINE o == f.region[r]
             l == AddAll(o.list, B[r])
  <2>1. o = [typ |-> o.typ, list |-> o.list, sweep |-> o.sweep, large |-> o.large]
    BY <1>2
  <2>2. g.region[r] = [o EXCEPT !.list = l]
    BY DEF Added
  <2> HIDE DEF o, l
  <2>3. g.region[r] = [typ |-> o.typ, list |-> l, sweep |-> o.sweep, large |-> o.large]
    BY <2>1, <2>2, ListExcept
  <2>4. g.region[r].typ = o.typ /\ g.region[r].list = l /\ g.region[r].sweep = o.sweep /\ g.region[r].large = o.large
    BY <2>3
  <2>5. g.region[r] = [typ |-> g.region[r].typ, list |-> g.region[r].list,
                       sweep |-> g.region[r].sweep, large |-> g.region[r].large]
    BY <2>3, <2>4
  <2> QED BY <2>3, <2>4, <2>5 DEF o, l
<1>3a. \A r \in Indices :
        /\ g.region[r].typ = f.region[r].typ /\ g.region[r].large = f.region[r].large
        /\ g.region[r].sweep = f.region[r].sweep
  BY <1>3
<1>4. Y \subseteq X
  BY PieceFact
<1>5. \A m \in D : RestOK(R[m], f) /\ Units(R[m]) \subseteq X /\ Units(R[m]) \cap Y = {}
  <2> TAKE m \in D
  <2>1. RestOK(R[m], f)
    BY DEF InOrder
  <2>2. Units(R[m]) \subseteq X
    BY PieceFact
  <2>3. Units(R[m]) \cap Y = {}
    <3> SUFFICES ASSUME NEW u \in Units(R[m]), u \in Y PROVE FALSE
      OBVIOUS
    <3>1. \A o \in O : u \notin Units(o)
      BY DEF InOrder, PiecesApart
    <3>2. \A k \in DOMAIN Q : u \notin Units(Q[k])
      BY DEF InOrder, PiecesApart
    <3> QED BY <3>1, <3>2, PieceFact
  <2> QED BY <2>1, <2>2, <2>3
<1>6. \A r \in Indices : RegionOK(g.region[r], r, Y, g.starts)
  <2> TAKE r \in Indices
  <2> DEFINE o == f.region[r]
             new == B[r]
             l == g.region[r].list
  <2>1. \A b \in new : \E m \in D : b = R[m] /\ RegionOf(R[m][1]) = r
    OBVIOUS
  <2>2. IsFiniteSet(new)
    <3> DEFINE E == {x \in D : RegionOf(R[x][1]) = r}
    <3>1. IsFiniteSet(E)
      BY FS_Subset
    <3> DEFINE h == [m \in E |-> R[m]]
    <3>2. IsFiniteSet({h[m] : m \in E})
      <4>1. h \in Surjection(E, {h[m] : m \in E})
        BY DEF Surjection
      <4> QED BY <3>1, <4>1, FS_Surjection
    <3> QED BY <3>2
  <2>3. \A b \in new : /\ Sized(b) /\ BlockIn(b, r) /\ Units(b) \subseteq X /\ Units(b) \cap Y = {}
                       /\ Units(b) \cap f.starts = {} /\ Units(b) # {} /\ o.typ = "Regular"
    <3> TAKE b \in new
    <3>1. PICK m \in D : b = R[m] /\ RegionOf(R[m][1]) = r
      BY <2>1
    <3>2. RestOK(b, f) /\ Units(b) \subseteq X /\ Units(b) \cap Y = {}
      BY <1>5, <3>1
    <3>3. Units(b) # {}
      BY <3>2, UnitsFact DEF RestOK
    <3> QED BY <3>1, <3>2, <3>3 DEF RestOK
  <2>4. \A b, c \in new : b # c => Units(b) \cap Units(c) = {}
    <3> TAKE b, c \in new
    <3>1. PICK m \in D : b = R[m]
      BY <2>1
    <3>2. PICK k \in D : c = R[k]
      BY <2>1
    <3>3. m # k => Units(R[m]) \cap Units(R[k]) = {}
      BY DEF InOrder, PiecesApart
    <3> QED BY <3>1, <3>2, <3>3
  <2>5. RegionOK(o, r, X, f.starts)
    BY <1>2
  <2>6. new \cap Entries(o.list) = {}
    <3> SUFFICES ASSUME NEW b \in new, b \in Entries(o.list) PROVE FALSE
      OBVIOUS
    <3>1. Units(b) \cap X = {}
      BY <2>5 DEF RegionOK
    <3> QED BY <2>3, <3>1
  <2>7. l = AddAll(o.list, new)
    BY <1>3
  <2>8. ListOK(o.list)
    BY <2>5 DEF RegionOK
  <2> HIDE DEF new, l, o
  <2>9. ListOK(l) /\ Entries(l) = Entries(o.list) \cup new
    <3>1. \A b \in new : Sized(b)
      BY <2>3
    <3> QED BY <2>2, <2>6, <2>7, <2>8, <3>1, AddAllFact
  <2>10. \A b \in Entries(o.list) : BlockIn(b, r) /\ Units(b) \cap X = {} /\ Units(b) \cap f.starts = {}
    BY <2>5 DEF RegionOK
  <2>11. \A b \in Entries(l) : BlockIn(b, r) /\ Units(b) \cap Y = {} /\ Units(b) \cap g.starts = {}
    <3>1. g.starts = f.starts
      BY DEF Added
    <3> QED BY <1>4, <2>3, <2>9, <2>10, <3>1
  <2>12. Apart(Entries(l))
    <3> SUFFICES ASSUME NEW b \in Entries(l), NEW c \in Entries(l), b # c PROVE Units(b) \cap Units(c) = {}
      BY DEF Apart
    <3>1. CASE b \in new /\ c \in new
      BY <3>1, <2>4
    <3>2. CASE b \in Entries(o.list) /\ c \in Entries(o.list)
      BY <3>2, <2>5 DEF RegionOK, Apart
    <3>3. CASE b \in new /\ c \in Entries(o.list)
      BY <3>3, <2>3, <2>10
    <3>4. CASE c \in new /\ b \in Entries(o.list)
      BY <3>4, <2>3, <2>10
    <3> QED BY <2>9, <3>1, <3>2, <3>3, <3>4
  <2>13. g.region[r].typ = o.typ /\ g.region[r].sweep = o.sweep /\ g.region[r].large = o.large
    BY <1>3 DEF o
  <2>14. g.region[r].typ \in Unused => \A u \in Y : RegionOf(u) # r
    BY <1>4, <2>5, <2>13 DEF RegionOK
  <2>15. IsEmpty(g.region[r]) => l = EmptyList /\ \A a \in g.starts : RegionOf(a) # r
    <3> SUFFICES ASSUME IsEmpty(g.region[r]) PROVE l = EmptyList /\ \A a \in g.starts : RegionOf(a) # r
      OBVIOUS
    <3>1. IsEmpty(o) /\ o.typ # "Regular"
      BY <2>13 DEF IsEmpty
    <3>2. new = {}
      BY <2>3, <3>1
    <3>3. o.list = EmptyList /\ \A a \in f.starts : RegionOf(a) # r
      BY <2>5, <3>1 DEF RegionOK
    <3> QED BY <2>7, <3>2, <3>3, AddNone DEF Added
  <2>16. o.typ \in States /\ o.sweep \in BOOLEAN /\ o.large \in Nat
    BY <2>5 DEF RegionOK
  <2>17. g.region[r] = [typ |-> g.region[r].typ, list |-> g.region[r].list,
                          sweep |-> g.region[r].sweep, large |-> g.region[r].large]
    BY <1>3
  <2> QED BY <2>9, <2>11, <2>12, <2>13, <2>14, <2>15, <2>16, <2>17 DEF RegionOK, l
<1>7. AllRight(g, Y)
  <2>1. \A r \in g.bits : r \in Indices /\ g.region[r].typ \in Open /\ ~g.region[r].sweep
    BY <1>1, <1>3 DEF AllRight, Added
  <2>2. g.region = [r \in Indices |-> g.region[r]]
    BY DEF Added
  <2>3. \A a \in g.starts : a \in Nat /\ RegionOf(a) \in Indices
    BY <1>1 DEF AllRight, Added
  <2> QED BY <1>6, <2>1, <2>2, <2>3 DEF AllRight, Added
<1>8. Shape(g)
  BY <1>3a, SameShape DEF InOrder
<1>9. g.starts = f.starts
  BY DEF Added
<1>10. \A o \in O : ObjOK(o, g)
  BY <1>3a, <1>9 DEF InOrder, ObjOK, SmallOK, LargeOK
<1>11. \A m \in DOMAIN Q : RestOK(Q[m], g)
  BY <1>3a, <1>9 DEF InOrder, RestOK
<1>12. PiecesApart(O, Q)
  BY DEF InOrder, PiecesApart
<1> QED BY <1>7, <1>8, <1>10, <1>11, <1>12 DEF InOrder

\* Start bits come and go outside of X, except in regions that were trash.
StartsKept(f, g, X) ==
  /\ g.starts \cap X \subseteq f.starts
  /\ \A a \in f.starts : a \in g.starts \/ f.region[RegionOf(a)].typ = "Trash"

(* Objects and buffers keep their regions and start bits. *)
LEMMA PiecesKept ==
  ASSUME NEW f, NEW O, NEW R, InOrder(f, O, R), NEW g, StartsKept(f, g, Covered(Pieces(O, R))),
         \A r \in Indices : f.region[r].typ \in {"Regular", "HumongousStart"} =>
            /\ g.region[r].typ = f.region[r].typ
            /\ g.region[r].sweep = f.region[r].sweep /\ g.region[r].large = f.region[r].large
  PROVE  (\A o \in O : ObjOK(o, g)) /\ \A m \in DOMAIN R : RestOK(R[m], g)
<1> DEFINE X == Covered(Pieces(O, R))
<1>1. \A o \in O : ObjOK(o, g)
  <2> TAKE o \in O
  <2>1. ObjOK(o, f) /\ Units(o) \subseteq X
    BY PieceFact DEF InOrder
  <2>2. SmallOK(o, f) => SmallOK(o, g)
    <3> SUFFICES ASSUME SmallOK(o, f) PROVE SmallOK(o, g)
      OBVIOUS
    <3>1. g.region[RegionOf(o[1])].typ = "Regular"
      BY DEF SmallOK
    <3>2. o[1] \in f.starts /\ o[1] \in g.starts
      BY DEF SmallOK, StartsKept
    <3>3. g.starts \cap Units(o) \subseteq f.starts \cap Units(o)
      BY <2>1 DEF StartsKept
    <3>4. g.starts \cap Units(o) = {o[1]}
      BY <3>2, <3>3 DEF SmallOK
    <3> QED BY <3>1, <3>4 DEF SmallOK
  <2>3. LargeOK(o, f) => LargeOK(o, g)
    BY DEF LargeOK
  <2> QED BY <2>1, <2>2, <2>3 DEF ObjOK
<1>2. \A m \in DOMAIN R : RestOK(R[m], g)
  <2> TAKE m \in DOMAIN R
  <2>1. RestOK(R[m], f) /\ Units(R[m]) \subseteq X
    BY PieceFact DEF InOrder
  <2>2. g.starts \cap Units(R[m]) = {}
    BY <2>1 DEF RestOK, StartsKept
  <2> QED BY <2>1, <2>2 DEF RestOK
<1> QED BY <1>1, <1>2

(* Regions in use stay what they are, so the large objects do. *)
LEMMA ShapeKept ==
  ASSUME NEW f, NEW X, AllRight(f, X), Shape(f), NEW g, Kept(f, g)
  PROVE  Shape(g)
<1>1. \A r \in Indices :
        /\ f.region[r].typ \notin Unused => g.region[r].typ = f.region[r].typ
        /\ g.region[r].typ \in {"HumongousStart", "HumongousCont"} => g.region[r].typ = f.region[r].typ
        /\ g.region[r].sweep = f.region[r].sweep /\ g.region[r].large = f.region[r].large
  BY DEF Kept, Unused
<1>2. \A r \in Indices : Span(r, g) = Span(r, f)
  BY <1>1 DEF Span
<1>3. SpansOK(g)
  BY <1>1, <1>2 DEF Shape, SpansOK, Unused
<1>4. ContsOK(g)
  <2> SUFFICES ASSUME NEW i \in Indices, g.region[i].typ = "HumongousCont"
               PROVE  \E r \in 0 .. i - 1 : g.region[r].typ = "HumongousStart" /\ i \in Span(r, g)
    BY DEF ContsOK
  <2>1. PICK r \in 0 .. i - 1 : f.region[r].typ = "HumongousStart" /\ i \in Span(r, f)
    BY <1>1 DEF Shape, ContsOK
  <2>2. r \in Indices
    BY RegionsAssumption DEF Indices
  <2> QED BY <1>1, <1>2, <2>1, <2>2 DEF Unused
<1>5. SweepsOK(g)
  BY <1>1 DEF Shape, SweepsOK, Unused
<1> QED BY <1>3, <1>4, <1>5 DEF Shape

(* An allocation does not disturb what belongs to somebody. *)
LEMMA ServedKeeps ==
  ASSUME NEW f, NEW O, NEW R, InOrder(f, O, R), NEW req, NEW acc,
         Served(f, acc, req, Covered(Pieces(O, R)))
  PROVE  /\ Shape(acc.f)
         /\ \A o \in O : ObjOK(o, acc.f)
         /\ \A m \in DOMAIN R : RestOK(R[m], acc.f)
<1> DEFINE X == Covered(Pieces(O, R))
           g == acc.f
<1>1. Kept(f, g)
  BY DEF Served
<1>2. AllRight(f, X) /\ Shape(f)
  BY DEF InOrder
<1>3. Shape(g)
  BY <1>1, <1>2, ShapeKept
<1>4. StartsKept(f, g, X)
  <2>1. g.starts \cap X \subseteq f.starts
    BY DEF Served
  <2> QED BY <1>1, <2>1 DEF StartsKept, Kept
<1>5. \A r \in Indices : f.region[r].typ \in {"Regular", "HumongousStart"} =>
            /\ g.region[r].typ = f.region[r].typ
            /\ g.region[r].sweep = f.region[r].sweep /\ g.region[r].large = f.region[r].large
  BY <1>1 DEF Kept, Unused
<1> QED BY <1>3, <1>4, <1>5, PiecesKept

(* A request that is not served. *)
LEMMA NothingFact ==
  ASSUME NEW f, NEW O, NEW R, InOrder(f, O, R), NEW req, NEW acc,
         Served(f, acc, req, Covered(Pieces(O, R))), acc.block = NoBlock
  PROVE  InOrder(acc.f, O, R)
BY ServedKeeps DEF InOrder, Served

(* A small object gets memory of its own. *)
LEMMA SmallFact ==
  ASSUME NEW f, NEW O, NEW R, InOrder(f, O, R), NEW req, req.lab = FALSE, req.size \in Sizes, NEW acc,
         Served(f, acc, req, Covered(Pieces(O, R))), acc.block # NoBlock
  PROVE  /\ InOrder(acc.f, O \cup {acc.block}, R) /\ acc.block[2] = req.size
         /\ \A o \in O : Units(o) \cap Units(acc.block) = {}
<1> DEFINE X == Covered(Pieces(O, R))
           b == acc.block
           g == acc.f
<1>1. /\ Sized(b) /\ AllRight(g, X \cup Units(b)) /\ Units(b) \cap X = {}
      /\ RegionOf(b[1]) \in Indices /\ BlockIn(b, RegionOf(b[1]))
      /\ g.region[RegionOf(b[1])].typ = "Regular"
      /\ b[2] = req.size /\ g.starts \cap Units(b) = {b[1]}
  BY DEF Served
<1>2. b = <<b[1], b[2]>> /\ b[1] \in Nat /\ b[2] <= RegionSize
  BY <1>1, UnitsFact
<1>3. /\ Shape(g) /\ \A o \in O : ObjOK(o, g)
      /\ \A m \in DOMAIN R : RestOK(R[m], g)
  BY ServedKeeps
<1>4. ObjOK(b, g)
  BY <1>1, <1>2 DEF ObjOK, SmallOK
<1>5. \A o \in O : Units(o) \cap Units(b) = {}
  BY <1>1, PieceFact
<1>6. \A m \in DOMAIN R : Units(R[m]) \cap Units(b) = {}
  BY <1>1, PieceFact
<1>7. PiecesApart(O \cup {b}, R)
  BY <1>5, <1>6 DEF InOrder, PiecesApart
<1>8. Covered(Pieces(O \cup {b}, R)) \subseteq X \cup Units(b)
  BY PieceFact
<1>9. AllRight(g, Covered(Pieces(O \cup {b}, R)))
  <2> DEFINE Y == Covered(Pieces(O \cup {b}, R))
             Z == X \cup Units(b)
  <2>1. Y \subseteq Z /\ AllRight(g, Z)
    BY <1>1, <1>8
  <2> HIDE DEF Y, Z, g
  <2>2. AllRight(g, Y)
    BY <2>1, LessFact
  <2> QED BY <2>2 DEF Y
<1> QED BY <1>1, <1>3, <1>4, <1>5, <1>7, <1>9 DEF InOrder

(* So does a buffer. *)
LEMMA GrantFact ==
  ASSUME NEW f, NEW O, NEW R, InOrder(f, O, R), NEW req, req.lab = TRUE, NEW acc,
         Served(f, acc, req, Covered(Pieces(O, R))), acc.block # NoBlock,
         NEW m, NEW Q, DOMAIN Q \subseteq DOMAIN R \cup {m}, m \in DOMAIN Q, Q[m] = acc.block,
         \A k \in DOMAIN Q \ {m} : Q[k] = R[k]
  PROVE  InOrder(acc.f, O, Q)
<1> DEFINE X == Covered(Pieces(O, R))
           b == acc.block
           g == acc.f
<1>1. /\ Sized(b) /\ AllRight(g, X \cup Units(b)) /\ Units(b) \cap X = {}
      /\ RegionOf(b[1]) \in Indices /\ BlockIn(b, RegionOf(b[1]))
      /\ g.region[RegionOf(b[1])].typ = "Regular" /\ ~g.region[RegionOf(b[1])].sweep
      /\ g.starts \cap Units(b) = {}
  BY DEF Served
<1>2. /\ Shape(g) /\ \A o \in O : ObjOK(o, g)
      /\ \A k \in DOMAIN R : RestOK(R[k], g)
  BY ServedKeeps
<1>3. \A k \in DOMAIN Q : RestOK(Q[k], g)
  BY <1>1, <1>2 DEF RestOK
<1>4. \A o \in O : Units(o) \cap Units(b) = {}
  BY <1>1, PieceFact
<1>5. \A k \in DOMAIN R : Units(R[k]) \cap Units(b) = {}
  BY <1>1, PieceFact
<1>6. PiecesApart(O, Q)
  <2>1. \A o \in O : \A k \in DOMAIN Q : Units(o) \cap Units(Q[k]) = {}
    BY <1>4 DEF InOrder, PiecesApart
  <2>2. \A k, l \in DOMAIN Q : k # l => Units(Q[k]) \cap Units(Q[l]) = {}
    BY <1>5 DEF InOrder, PiecesApart
  <2> QED BY <2>1, <2>2 DEF InOrder, PiecesApart
<1>7. Covered(Pieces(O, Q)) \subseteq X \cup Units(b)
  BY PieceFact
<1>8. AllRight(g, Covered(Pieces(O, Q)))
  BY <1>1, <1>7, LessFact
<1> QED BY <1>2, <1>3, <1>6, <1>8 DEF InOrder

(* A large object needs at least one region. *)
LEMMA RequiredFact ==
  ASSUME NEW size \in Nat \ {0}
  PROVE  RequiredRegions(size) \in Nat /\ RequiredRegions(size) >= 1
BY 0 \in Nat, size >= 1, SpanFact

(* A large object gets unused regions of its own. *)
LEMMA LargeFact ==
  ASSUME NEW f, NEW O, NEW R, InOrder(f, O, R), NEW size \in Sizes, size > RegionSize, NEW res,
         ServedLarge(f, res, size, Covered(Pieces(O, R))), res.block # NoBlock
  PROVE  /\ InOrder(res.f, O \cup {res.block}, R)
         /\ \A o \in O : Units(o) \cap Units(res.block) = {}
         /\ \E r \in Indices : res.block = <<Bottom(r), size>>
<1> DEFINE X == Covered(Pieces(O, R))
           b == res.block
           g == res.f
           n == RequiredRegions(size)
<1>1. PICK beg \in Indices :
        /\ b = <<Bottom(beg), size>>
        /\ beg .. beg + n - 1 \subseteq Indices
        /\ Units(b) \cap X = {}
        /\ \A r \in beg .. beg + n - 1 : f.region[r].typ \in Unused
        /\ g.region[beg].typ = "HumongousStart" /\ g.region[beg].large = size
        /\ \A r \in beg .. beg + n - 1 : r # beg => g.region[r].typ = "HumongousCont"
        /\ \A r \in beg .. beg + n - 1 : ~g.region[r].sweep
        /\ \A r \in Indices \ (beg .. beg + n - 1) : g.region[r] = f.region[r]
        /\ g.starts \subseteq f.starts
        /\ \A a \in f.starts : a \in g.starts \/ f.region[RegionOf(a)].typ = "Trash"
        /\ AllRight(g, X \cup Units(b))
  BY DEF ServedLarge
<1> DEFINE span == beg .. beg + n - 1
<1>2. size \in Nat \ {0}
  BY RegionsAssumption
<1>3. n \in Nat /\ n >= 1 /\ beg \in Nat /\ beg \in span
  <2>1. n \in Nat /\ n >= 1
    BY <1>2, RequiredFact
  <2> HIDE DEF n
  <2> QED BY <2>1 DEF Indices
<1> HIDE DEF X, g, n
<1>4. \A r \in Indices : f.region[r].typ \notin Unused => r \notin span /\ g.region[r] = f.region[r]
  BY <1>1
<1>5. Span(beg, g) = span
  BY <1>1 DEF Span, n
<1>6. \A r \in Indices \ span : g.region[r] = f.region[r] /\ Span(r, g) = Span(r, f)
  BY <1>1 DEF Span
<1>7. Shape(f)
  BY DEF InOrder
<1> HIDE DEF span
<1>8. SpansOK(g)
  <2> SUFFICES ASSUME NEW r \in Indices, g.region[r].typ = "HumongousStart"
               PROVE  /\ g.region[r].large \in Nat \ {0} /\ Span(r, g) \subseteq Indices
                      /\ \A i \in Span(r, g) : i # r => g.region[i].typ = "HumongousCont"
    BY DEF SpansOK
  <2>1. CASE r \in span
    <3>1. r = beg
      BY <1>1, <2>1 DEF span
    <3> QED BY <3>1, <1>1, <1>2, <1>5 DEF span
  <2>2. CASE r \notin span
    <3>1. /\ f.region[r].large \in Nat \ {0} /\ Span(r, f) \subseteq Indices
          /\ \A i \in Span(r, f) : i # r => f.region[i].typ = "HumongousCont"
      BY <2>2, <1>6, <1>7 DEF Shape, SpansOK
    <3> QED BY <3>1, <2>2, <1>4, <1>6 DEF Unused
  <2> QED BY <2>1, <2>2
<1>9. ContsOK(g)
  <2> SUFFICES ASSUME NEW i \in Indices, g.region[i].typ = "HumongousCont"
               PROVE  \E r \in 0 .. i - 1 : g.region[r].typ = "HumongousStart" /\ i \in Span(r, g)
    BY DEF ContsOK
  <2>1. CASE i \in span
    <3>1. i # beg
      BY <1>1
    <3>2. beg \in 0 .. i - 1
      BY <2>1, <3>1, <1>3 DEF span
    <3> QED BY <2>1, <3>2, <1>1, <1>5
  <2>2. CASE i \notin span
    <3>1. PICK r \in 0 .. i - 1 : f.region[r].typ = "HumongousStart" /\ i \in Span(r, f)
      BY <2>2, <1>6, <1>7 DEF Shape, ContsOK
    <3>2. r \in Indices
      BY RegionsAssumption DEF Indices
    <3>3. r \notin span
      BY <3>1, <3>2, <1>4 DEF Unused
    <3> QED BY <3>1, <3>2, <3>3, <1>6
  <2> QED BY <2>1, <2>2
<1>10. SweepsOK(g)
  <2> SUFFICES ASSUME NEW r \in Indices, g.region[r].sweep
               PROVE  g.region[r].typ \in {"Regular", "HumongousStart"}
    BY DEF SweepsOK
  <2>1. r \notin span
    BY <1>1 DEF span
  <2> QED BY <2>1, <1>6, <1>7 DEF Shape, SweepsOK
<1>11. StartsKept(f, g, X)
  BY <1>1 DEF StartsKept
<1>12. (\A o \in O : ObjOK(o, g)) /\ \A m \in DOMAIN R : RestOK(R[m], g)
  <2>1. \A r \in Indices : f.region[r].typ \in {"Regular", "HumongousStart"} =>
            /\ g.region[r].typ = f.region[r].typ
            /\ g.region[r].sweep = f.region[r].sweep /\ g.region[r].large = f.region[r].large
    BY <1>4 DEF Unused
  <2> QED BY <2>1, <1>11, PiecesKept DEF X
<1>13. ObjOK(b, g)
  <2>1. b[1] = Bottom(beg) /\ b[2] = size /\ b = <<b[1], b[2]>>
    BY <1>1
  <2>2. b[1] \in Nat
    BY <2>1, <1>3, Powers DEF Bottom
  <2> QED BY <1>1, <2>1, <2>2 DEF ObjOK, LargeOK
<1>14. /\ \A o \in O : Units(o) \cap Units(b) = {}
       /\ \A m \in DOMAIN R : Units(R[m]) \cap Units(b) = {}
  BY <1>1, PieceFact DEF X
<1>15. PiecesApart(O \cup {b}, R)
  BY <1>14 DEF InOrder, PiecesApart
<1>16. AllRight(g, Covered(Pieces(O \cup {b}, R)))
  <2> DEFINE Y == Covered(Pieces(O \cup {b}, R))
             Z == X \cup Units(b)
  <2>1. Y \subseteq Z
    BY PieceFact DEF X
  <2>2. AllRight(g, Z)
    BY <1>1
  <2> HIDE DEF Y, Z
  <2>3. AllRight(g, Y)
    BY <2>1, <2>2, LessFact
  <2> QED BY <2>3 DEF Y
<1>17. Shape(g)
  BY <1>8, <1>9, <1>10 DEF Shape
<1>18. InOrder(g, O \cup {b}, R)
  BY <1>12, <1>13, <1>15, <1>16, <1>17 DEF InOrder
<1> QED BY <1>1, <1>14, <1>18 DEF g

(* An object with memory in a regular region is small and begins there. *)
LEMMA SmallOwner ==
  ASSUME NEW f, NEW O, NEW R, InOrder(f, O, R), NEW o \in O, NEW u \in Units(o), u \in Nat,
         f.region[RegionOf(u)].typ = "Regular"
  PROVE  SmallOK(o, f) /\ RegionOf(o[1]) = RegionOf(u)
<1>1. ObjOK(o, f)
  BY DEF InOrder
<1>2. CASE SmallOK(o, f)
  BY <1>2 DEF SmallOK, BlockIn
<1>3. CASE LargeOK(o, f)
  <2>1. PICK r \in Indices : o = <<Bottom(r), o[2]>> /\ f.region[r].typ = "HumongousStart" /\ f.region[r].large = o[2]
    BY <1>3 DEF LargeOK
  <2>2. o[2] \in Nat /\ o[2] >= 1 /\ r \in Nat
    BY <1>1, RegionsAssumption DEF ObjOK, Indices
  <2>3. RegionOf(u) \in Span(r, f)
    BY <2>1, <2>2, SpanFact DEF Span
  <2>4. RegionOf(u) = r \/ f.region[RegionOf(u)].typ = "HumongousCont"
    BY <2>1, <2>3 DEF InOrder, Shape, SpansOK
  <2> QED BY <2>1, <2>4
<1> QED BY <1>1, <1>2, <1>3 DEF ObjOK

(* No region belongs to two large objects. *)
LEMMA SpansApart ==
  ASSUME NEW f, Shape(f), NEW r \in Indices, NEW q \in Indices,
         f.region[r].typ = "HumongousStart", f.region[q].typ = "HumongousStart",
         NEW i \in Span(r, f), i \in Span(q, f)
  PROVE  r = q
<1>1. /\ f.region[r].large \in Nat \ {0} /\ \A k \in Span(r, f) : k # r => f.region[k].typ = "HumongousCont"
      /\ f.region[q].large \in Nat \ {0} /\ \A k \in Span(q, f) : k # q => f.region[k].typ = "HumongousCont"
  BY DEF Shape, SpansOK
<1>2. r \in Nat /\ q \in Nat /\ RequiredRegions(f.region[r].large) \in Nat /\ RequiredRegions(f.region[q].large) \in Nat
  BY <1>1, RequiredFact DEF Indices
<1>3. CASE r < q
  <2>1. q \in Span(r, f)
    BY <1>2, <1>3 DEF Span
  <2> QED BY <1>1, <1>3, <2>1
<1>4. CASE q < r
  <2>1. r \in Span(q, f)
    BY <1>2, <1>4 DEF Span
  <2> QED BY <1>1, <1>4, <2>1
<1> QED BY <1>2, <1>3, <1>4

-----------------------------------------------------------------------------
(*****************************************************************************)
(* What keeps it: sweeps, and what opens and closes regions.                 *)
(*****************************************************************************)

\* The objects that begin in region r.
Living(r) == {o \in objs : InRegion(o, r)}

\* b is the gap from x[1] to x[2].
IsGap(b, x, r) ==
  /\ x = <<x[1], x[2]>> /\ x[1] < x[2] /\ b = <<x[1], x[2] - x[1]>>
  /\ x[1] \in Nat /\ x[2] \in Nat /\ Bottom(r) <= x[1] /\ x[2] <= Bottom(r) + RegionSize
  /\ x[1] = Bottom(r) \/ \E o \in Living(r) : x[1] = o[1] + o[2]
  /\ x[2] = Bottom(r) + RegionSize \/ \E o \in Living(r) : x[2] = o[1]
  /\ \A o \in Living(r) : Units(o) \cap (x[1] .. x[2] - 1) = {}

(* Where an object of a region lies. *)
LEMMA InsideFact ==
  ASSUME NEW r \in Indices, NEW o, Sized(o), BlockIn(o, r)
  PROVE  /\ o[1] \in Nat /\ o[2] \in Nat /\ o[2] >= 1
         /\ Bottom(r) \in Nat /\ Bottom(r) <= o[1] /\ o[1] + o[2] <= Bottom(r) + RegionSize
<1>1. /\ o[1] \in Nat /\ o[2] \in Nat /\ o[2] >= 1
      /\ \A u \in Int : u \in Units(o) <=> o[1] <= u /\ u < o[1] + o[2]
  BY UnitsFact
<1>2. Bottom(r) \in Nat /\ r \in Nat /\ RegionSize \in Nat
  BY Powers, RegionsAssumption DEF Bottom, Indices
<1> DEFINE z == o[1] + o[2] - 1
<1>3. z \in Nat /\ z \in Units(o) /\ o[1] \in Units(o)
  BY <1>1
<1>4. RegionOf(z) = r /\ RegionOf(o[1]) = r
  BY <1>3 DEF BlockIn
<1>5. Bottom(r) <= o[1]
  BY <1>1, <1>2, <1>4, RegionOfFact
<1>6. z < Bottom(r) + RegionSize
  BY <1>2, <1>3, <1>4, RegionOfFact
<1> QED BY <1>1, <1>2, <1>5, <1>6

(* Every block of Gaps is a gap. *)
LEMMA GapFact ==
  ASSUME NEW r \in Indices, \A o \in Living(r) : Sized(o) /\ BlockIn(o, r), NEW b \in Gaps(r)
  PROVE  \E x : IsGap(b, x, r)
<1> DEFINE live == {o \in objs : InRegion(o, r)}
           from == {Bottom(r)} \cup {o[1] + o[2] : o \in live}
           to == {Bottom(r) + RegionSize} \cup {o[1] : o \in live}
<1>0. live = Living(r)
  BY DEF Living
<1>1. PICK x \in from \X to : /\ b = <<x[1], x[2] - x[1]>> /\ x[1] < x[2]
                              /\ \A o \in live : Units(o) \cap (x[1] .. x[2] - 1) = {}
  BY DEF Gaps
<1>2. x = <<x[1], x[2]>> /\ x[1] \in from /\ x[2] \in to
  BY <1>1
<1>3. Bottom(r) \in Nat /\ RegionSize \in Nat
  BY Powers, RegionsAssumption DEF Bottom, Indices
<1>4. \A o \in live : /\ o[1] \in Nat /\ o[2] \in Nat /\ o[2] >= 1
                      /\ Bottom(r) <= o[1] /\ o[1] + o[2] <= Bottom(r) + RegionSize
  BY <1>0, InsideFact
<1>5. x[1] \in Nat /\ Bottom(r) <= x[1]
  <2> HIDE DEF live
  <2> QED BY <1>2, <1>3, <1>4
<1>6. x[2] \in Nat /\ x[2] <= Bottom(r) + RegionSize
  <2> HIDE DEF live
  <2> QED BY <1>2, <1>3, <1>4
<1>7. x[1] = Bottom(r) \/ \E o \in Living(r) : x[1] = o[1] + o[2]
  BY <1>0, <1>2
<1>8. x[2] = Bottom(r) + RegionSize \/ \E o \in Living(r) : x[2] = o[1]
  BY <1>0, <1>2
<1> QED BY <1>0, <1>1, <1>2, <1>5, <1>6, <1>7, <1>8 DEF IsGap

(* The size and place of a gap. *)
LEMMA GapPlace ==
  ASSUME NEW r \in Indices, NEW b, NEW x, IsGap(b, x, r)
  PROVE  Sized(b) /\ BlockIn(b, r) /\ Units(b) = x[1] .. x[2] - 1
<1>1. /\ x[1] < x[2] /\ b = <<x[1], x[2] - x[1]>>
      /\ x[1] \in Nat /\ x[2] \in Nat /\ Bottom(r) <= x[1] /\ x[2] <= Bottom(r) + RegionSize
  BY DEF IsGap
<1>2. Bottom(r) \in Nat /\ RegionSize \in Nat /\ r \in Nat
  BY Powers, RegionsAssumption DEF Bottom, Indices
<1> DEFINE n == x[2] - x[1]
<1>3. n \in 1 .. RegionSize /\ n \in Nat /\ x[1] + n = x[2]
  BY <1>1, <1>2
<1>4. b[1] = x[1] /\ b[2] = n /\ b \in Nat \X Nat
  BY <1>1, <1>3
<1>5. Units(b) = x[1] .. x[2] - 1
  <2>1. b[1] + b[2] - 1 = x[2] - 1
    BY <1>1, <1>3, <1>4
  <2> QED BY <1>4, <2>1 DEF Units
<1>6. Sized(b)
  BY <1>3, <1>4 DEF Sized, Block
<1>7. BlockIn(b, r)
  <2> SUFFICES ASSUME NEW u \in x[1] .. x[2] - 1 PROVE u \in Nat /\ RegionOf(u) = r
    BY <1>5 DEF BlockIn
  <2>1. u \in Nat /\ Bottom(r) <= u /\ u < Bottom(r) + RegionSize
    BY <1>1, <1>2
  <2> QED BY <2>1, <1>2, RegionOfFact
<1> QED BY <1>5, <1>6, <1>7

(* Two gaps that meet begin together. *)
LEMMA GapsStart ==
  ASSUME NEW r \in Indices, \A o \in Living(r) : Sized(o) /\ BlockIn(o, r),
         NEW b, NEW x, IsGap(b, x, r), NEW c, NEW y, IsGap(c, y, r), NEW u \in Nat,
         x[1] <= u, u < x[2], y[1] <= u, u < y[2]
  PROVE  ~(x[1] < y[1]) /\ ~(x[2] < y[2])
<1>1. /\ x[1] \in Nat /\ x[2] \in Nat /\ Bottom(r) <= x[1] /\ x[2] <= Bottom(r) + RegionSize
      /\ y[1] \in Nat /\ y[2] \in Nat /\ Bottom(r) <= y[1] /\ y[2] <= Bottom(r) + RegionSize
  BY DEF IsGap
<1>2. Bottom(r) \in Nat /\ RegionSize \in Nat
  BY Powers, RegionsAssumption DEF Bottom, Indices
<1>3. ASSUME x[1] < y[1] PROVE FALSE
  <2>1. y[1] # Bottom(r)
    BY <1>1, <1>2, <1>3
  <2>2. PICK o \in Living(r) : y[1] = o[1] + o[2]
    BY <2>1 DEF IsGap
  <2>3. /\ Sized(o) /\ o[1] \in Nat /\ o[2] \in Nat /\ o[2] >= 1
        /\ \A k \in Int : k \in Units(o) <=> o[1] <= k /\ k < o[1] + o[2]
    BY UnitsFact
  <2> DEFINE z == y[1] - 1
  <2>4. z \in Int /\ x[1] <= z /\ z <= x[2] - 1 /\ o[1] <= z /\ z < o[1] + o[2]
    BY <1>1, <1>3, <2>2, <2>3
  <2>5. z \in Units(o) /\ z \in x[1] .. x[2] - 1
    BY <1>1, <2>3, <2>4
  <2> QED BY <2>5 DEF IsGap
<1>4. ASSUME x[2] < y[2] PROVE FALSE
  <2>1. x[2] # Bottom(r) + RegionSize
    BY <1>1, <1>2, <1>4
  <2>2. PICK o \in Living(r) : x[2] = o[1]
    BY <2>1 DEF IsGap
  <2>3. Sized(o) /\ x[2] \in Units(o)
    BY <2>2, UnitsFact
  <2>4. x[2] \in y[1] .. y[2] - 1
    BY <1>1, <1>4
  <2> QED BY <2>3, <2>4 DEF IsGap
<1> QED BY <1>3, <1>4

(* What sweep_region finds between the objects. *)
LEMMA GapsFact ==
  ASSUME NEW r \in Indices, \A o \in Living(r) : Sized(o) /\ BlockIn(o, r)
  PROVE  /\ IsFiniteSet(Gaps(r)) /\ Apart(Gaps(r))
         /\ \A b \in Gaps(r) : Sized(b) /\ BlockIn(b, r) /\ \A o \in Living(r) : Units(o) \cap Units(b) = {}
<1>1. \A b \in Gaps(r) : Sized(b) /\ BlockIn(b, r) /\ \A o \in Living(r) : Units(o) \cap Units(b) = {}
  <2> TAKE b \in Gaps(r)
  <2>1. PICK x : IsGap(b, x, r)
    BY GapFact
  <2> QED BY <2>1, GapPlace DEF IsGap
<1>2. Apart(Gaps(r))
  <2> SUFFICES ASSUME NEW b \in Gaps(r), NEW c \in Gaps(r), NEW u \in Units(b), u \in Units(c)
               PROVE  b = c
    BY DEF Apart
  <2>1. PICK x : IsGap(b, x, r)
    BY GapFact
  <2>2. PICK y : IsGap(c, y, r)
    BY GapFact
  <2>3. x[1] \in Nat /\ x[2] \in Nat /\ y[1] \in Nat /\ y[2] \in Nat
    BY <2>1, <2>2 DEF IsGap
  <2>4. u \in x[1] .. x[2] - 1 /\ u \in y[1] .. y[2] - 1
    BY <2>1, <2>2, GapPlace
  <2>5. u \in Nat /\ x[1] <= u /\ u < x[2] /\ y[1] <= u /\ u < y[2]
    BY <2>3, <2>4
  <2>6. ~(x[1] < y[1]) /\ ~(x[2] < y[2])
    BY <2>1, <2>2, <2>5, GapsStart
  <2>7. ~(y[1] < x[1]) /\ ~(y[2] < x[2])
    BY <2>1, <2>2, <2>5, GapsStart
  <2>8. x[1] = y[1] /\ x[2] = y[2]
    BY <2>3, <2>6, <2>7
  <2> QED BY <2>1, <2>2, <2>8 DEF IsGap
<1>3. IsFiniteSet(Gaps(r))
  <2> DEFINE top == Bottom(r) + RegionSize
             T == (0 .. top) \X (1 .. RegionSize)
  <2>0. Bottom(r) \in Nat /\ RegionSize \in Nat /\ top \in Nat
    BY Powers, RegionsAssumption DEF Bottom, Indices
  <2>1. IsFiniteSet(0 .. top) /\ IsFiniteSet(1 .. RegionSize)
    BY <2>0, FS_Interval
  <2>2. IsFiniteSet(T)
    BY <2>1, FS_Product
  <2>3. Gaps(r) \subseteq T
    <3> SUFFICES ASSUME NEW b \in Gaps(r) PROVE b \in T
      OBVIOUS
    <3>1. Sized(b) /\ BlockIn(b, r)
      BY <1>1
    <3>2. b = <<b[1], b[2]>> /\ b[2] \in 1 .. RegionSize
      BY <3>1, UnitsFact DEF Sized
    <3>3. b[1] \in 0 .. top
      BY <3>1, <2>0, InsideFact
    <3> QED BY <3>2, <3>3
  <2> QED BY <2>2, <2>3, FS_Subset
<1> QED BY <1>1, <1>2, <1>3

\* A regular region after its sweep.
SweptTo(f, g, r) ==
  /\ IsRec(g) /\ g.bits = f.bits
  /\ g.region = [f.region EXCEPT ![r] =
       [typ |-> IF \E o \in objs : InRegion(o, r) THEN "Regular" ELSE "Trash",
        list |-> SweptList(r), sweep |-> FALSE, large |-> 0]]
  /\ g.starts = {a \in f.starts : RegionOf(a) # r} \cup {o[1] : o \in {x \in objs : InRegion(x, r)}}

(* sweep_region: what is free lies between the objects. *)
LEMMA SweepRegularFact ==
  ASSUME NEW f, NEW R, InOrder(f, objs, R), NEW r \in Indices,
         f.region[r].typ = "Regular", f.region[r].sweep, NEW g, SweptTo(f, g, r)
  PROVE  InOrder(g, objs, R)
<1> DEFINE X == Covered(Pieces(objs, R))
           new == g.region[r]
           S == {a \in f.starts : RegionOf(a) # r} \cup {o[1] : o \in Living(r)}
<1>1. AllRight(f, X) /\ Shape(f)
  BY DEF InOrder
<1>2. /\ new = [typ |-> IF Living(r) # {} THEN "Regular" ELSE "Trash",
                list |-> SweptList(r), sweep |-> FALSE, large |-> 0]
      /\ \A q \in Indices : q # r => g.region[q] = f.region[q]
      /\ g.region = [q \in Indices |-> g.region[q]]
      /\ g.starts = S
  <2>1. Living(r) # {} <=> \E o \in objs : InRegion(o, r)
    BY DEF Living
  <2>2. f.region = [q \in Indices |-> f.region[q]]
    BY <1>1 DEF AllRight
  <2>3. g.starts = S
    BY DEF SweptTo, Living
  <2> QED BY <2>1, <2>2, <2>3 DEF SweptTo
<1>3. /\ new.typ = IF Living(r) # {} THEN "Regular" ELSE "Trash"
      /\ new.list = SweptList(r) /\ ~new.sweep /\ new.sweep \in BOOLEAN /\ new.large = 0
      /\ new = [typ |-> new.typ, list |-> new.list, sweep |-> new.sweep, large |-> new.large]
  <2> DEFINE t == IF Living(r) # {} THEN "Regular" ELSE "Trash"
  <2>1. new = [typ |-> t, list |-> SweptList(r), sweep |-> FALSE, large |-> 0]
    BY <1>2
  <2> HIDE DEF t, new
  <2>2. new.typ = t /\ new.list = SweptList(r) /\ new.sweep = FALSE /\ new.large = 0
    BY <2>1
  <2>3. new = [typ |-> new.typ, list |-> new.list, sweep |-> new.sweep, large |-> new.large]
    BY <2>1, <2>2
  <2> QED BY <2>2, <2>3 DEF t
<1> HIDE DEF new
<1>4. \A o \in Living(r) : /\ SmallOK(o, f) /\ Sized(o) /\ BlockIn(o, r) /\ o[1] \in Units(o)
                           /\ o \in objs /\ o[1] \in Nat /\ RegionOf(o[1]) = r
  <2> TAKE o \in Living(r)
  <2>1. o \in objs /\ RegionOf(o[1]) = r
    BY DEF Living, InRegion
  <2>2. o = <<o[1], o[2]>> /\ o[1] \in Nat /\ o[2] \in Nat /\ o[2] >= 1
    BY <2>1, RegionsAssumption DEF InOrder, ObjOK
  <2>3. o[1] \in Units(o)
    BY <2>2 DEF Units
  <2>4. SmallOK(o, f)
    BY <2>1, <2>2, <2>3, SmallOwner
  <2>5. Sized(o)
    BY <2>2, <2>4 DEF SmallOK, Sized, Block
  <2> QED BY <2>1, <2>2, <2>3, <2>4, <2>5 DEF SmallOK
<1>5. /\ IsFiniteSet(Gaps(r)) /\ Apart(Gaps(r))
      /\ \A b \in Gaps(r) : Sized(b) /\ BlockIn(b, r) /\ \A o \in Living(r) : Units(o) \cap Units(b) = {}
  BY <1>4, GapsFact
<1>6. ListOK(new.list) /\ Entries(new.list) = Gaps(r)
  <2>1. \A b \in Gaps(r) : Sized(b)
    BY <1>5
  <2>2. ListOK(EmptyList) /\ Entries(EmptyList) = {}
    BY EmptyListFact
  <2> DEFINE l == AddAll(EmptyList, Gaps(r))
  <2>3. ListOK(l) /\ Entries(l) = Entries(EmptyList) \cup Gaps(r)
    BY <1>5, <2>1, <2>2, AddAllFact
  <2> QED BY <2>2, <2>3, <1>3 DEF SweptList
\* What belongs to somebody in region r is an object that begins there.
<1>7. \A u \in X : RegionOf(u) = r => \E o \in Living(r) : u \in Units(o)
  <2> SUFFICES ASSUME NEW u \in X, RegionOf(u) = r PROVE \E o \in Living(r) : u \in Units(o)
    OBVIOUS
  <2>1. ASSUME NEW o \in objs, u \in Units(o) PROVE o \in Living(r)
    <3>1. u \in Nat
      <4>1. ObjOK(o, f)
        BY DEF InOrder
      <4>2. o[1] \in Nat /\ o[2] \in Nat
        BY <4>1, RegionsAssumption DEF ObjOK
      <4> QED BY <4>2, <2>1 DEF Units
    <3>2. RegionOf(o[1]) = r
      BY <2>1, <3>1, SmallOwner
    <3> QED BY <3>2 DEF Living, InRegion
  <2>2. ASSUME NEW m \in DOMAIN R, u \in Units(R[m]) PROVE FALSE
    BY <2>2 DEF InOrder, RestOK, BlockIn
  <2> QED BY <2>1, <2>2, PieceFact
<1>8. \A a \in S : a \in f.starts \/ \E o \in Living(r) : a = o[1]
  OBVIOUS
<1>9. \A a \in S : a \in Nat /\ RegionOf(a) \in Indices
  BY <1>1, <1>4 DEF AllRight
<1>10. RegionOK(new, r, X, S)
  <2>1. \A b \in Gaps(r) : BlockIn(b, r) /\ Units(b) \cap X = {} /\ Units(b) \cap S = {}
    <3> TAKE b \in Gaps(r)
    <3>1. Units(b) \cap X = {}
      BY <1>5, <1>7 DEF BlockIn
    <3>2. Units(b) \cap S = {}
      <4> SUFFICES ASSUME NEW a \in Units(b), a \in S PROVE FALSE
        OBVIOUS
      <4>1. RegionOf(a) = r
        BY <1>5 DEF BlockIn
      <4>2. PICK o \in Living(r) : a = o[1]
        BY <4>1
      <4> QED BY <4>2, <1>4, <1>5
    <3> QED BY <3>1, <3>2, <1>5
  <2>2. new.typ \in States /\ new.large \in Nat
    BY <1>3 DEF States
  <2>3. new.typ \in Unused => \A u \in X : RegionOf(u) # r
    BY <1>3, <1>7 DEF Unused
  <2>4. ~IsEmpty(new)
    BY <1>3 DEF IsEmpty
  <2> HIDE DEF S
  <2> QED BY <1>3, <1>5, <1>6, <2>1, <2>2, <2>3, <2>4 DEF RegionOK
<1>11. \A q \in Indices : q # r => RegionOK(g.region[q], q, X, S)
  <2> SUFFICES ASSUME NEW q \in Indices, q # r PROVE RegionOK(f.region[q], q, X, S)
    BY <1>2
  <2>1. RegionOK(f.region[q], q, X, f.starts)
    BY <1>1 DEF AllRight
  <2>2. \A b \in Entries(f.region[q].list) : Units(b) \cap S = {}
    <3> SUFFICES ASSUME NEW b \in Entries(f.region[q].list), NEW a \in Units(b), a \in S PROVE FALSE
      OBVIOUS
    <3>1. RegionOf(a) = q /\ a \notin f.starts
      BY <2>1 DEF RegionOK, BlockIn
    <3> QED BY <3>1, <1>4, <1>8
  <2>3. IsEmpty(f.region[q]) => \A a \in S : RegionOf(a) # q
    <3>1. \A a \in S : a \in f.starts \/ RegionOf(a) = r
      BY <1>4, <1>8
    <3> QED BY <2>1, <3>1 DEF RegionOK
  <2> HIDE DEF S
  <2> QED BY <2>1, <2>2, <2>3 DEF RegionOK
<1>12. AllRight(g, X)
  <2>1. \A q \in Indices : RegionOK(g.region[q], q, X, g.starts)
    BY <1>2, <1>10, <1>11 DEF new
  <2>2. \A q \in g.bits : q \in Indices /\ g.region[q].typ \in Open /\ ~g.region[q].sweep
    BY <1>1, <1>2 DEF AllRight, SweptTo
  <2>3. \A a \in g.starts : a \in Nat /\ RegionOf(a) \in Indices
    BY <1>2, <1>9
  <2> QED BY <2>1, <2>2, <2>3, <1>2 DEF AllRight, SweptTo
<1>13. Shape(g)
  <2>1. \A q \in Indices :
          /\ g.region[q].typ \in {"HumongousStart", "HumongousCont"} \/ f.region[q].typ \in {"HumongousStart", "HumongousCont"}
               => q # r /\ g.region[q] = f.region[q]
    BY <1>2, <1>3 DEF new
  <2>2. SpansOK(g)
    BY <2>1, <1>1 DEF Shape, SpansOK, Span
  <2>3. ContsOK(g)
    <3> SUFFICES ASSUME NEW i \in Indices, g.region[i].typ = "HumongousCont"
                 PROVE  \E q \in 0 .. i - 1 : g.region[q].typ = "HumongousStart" /\ i \in Span(q, g)
      BY DEF ContsOK
    <3>1. PICK q \in 0 .. i - 1 : f.region[q].typ = "HumongousStart" /\ i \in Span(q, f)
      BY <1>1, <2>1 DEF Shape, ContsOK
    <3>2. q \in Indices
      BY RegionsAssumption DEF Indices
    <3> QED BY <3>1, <3>2, <2>1 DEF Span
  <2>4. SweepsOK(g)
    BY <1>1, <1>2, <1>3 DEF Shape, SweepsOK, new
  <2> QED BY <2>2, <2>3, <2>4 DEF Shape
<1>14. \A o \in objs : ObjOK(o, g)
  <2> TAKE o \in objs
  <2>1. ObjOK(o, f)
    BY DEF InOrder
  <2>2. CASE o \in Living(r)
    <3>1. S \cap Units(o) = {o[1]}
      <4>1. o[1] \in S /\ o[1] \in Units(o)
        BY <2>2, <1>4
      <4>2. ASSUME NEW a \in S, a \in Units(o) PROVE a = o[1]
        <5>1. RegionOf(a) = r
          BY <2>2, <4>2, <1>4 DEF BlockIn
        <5>2. PICK p \in Living(r) : a = p[1]
          BY <5>1
        <5>3. p = o
          BY <4>2, <5>2, <1>4 DEF InOrder, PiecesApart
        <5> QED BY <5>2, <5>3
      <4> QED BY <4>1, <4>2
    <3>2. new.typ = "Regular"
      BY <2>2, <1>3
    <3>3. SmallOK(o, f) /\ RegionOf(o[1]) = r
      BY <2>2, <1>4
    <3>4. SmallOK(o, g)
      BY <3>1, <3>2, <3>3, <1>2 DEF SmallOK, new
    <3> QED BY <2>1, <3>4 DEF ObjOK
  <2>3. CASE o \notin Living(r) /\ SmallOK(o, f)
    <3>1. RegionOf(o[1]) # r
      BY <2>3 DEF Living, InRegion
    <3>2. g.region[RegionOf(o[1])].typ = "Regular"
      BY <2>3, <3>1, <1>2 DEF SmallOK
    <3>3. \A a \in Units(o) : RegionOf(a) # r
      BY <2>3, <3>1 DEF SmallOK, BlockIn
    <3>4. g.starts \cap Units(o) = f.starts \cap Units(o)
      BY <3>3, <1>2, <1>4
    <3>5. SmallOK(o, g)
      BY <2>3, <3>2, <3>4 DEF SmallOK
    <3> QED BY <2>1, <3>5 DEF ObjOK
  <2>4. CASE LargeOK(o, f)
    <3>1. LargeOK(o, g)
      BY <2>4, <1>2 DEF LargeOK
    <3> QED BY <2>1, <3>1 DEF ObjOK
  <2> QED BY <2>1, <2>2, <2>3, <2>4 DEF ObjOK
<1>15. \A m \in DOMAIN R : RestOK(R[m], g)
  <2> TAKE m \in DOMAIN R
  <2> DEFINE b == R[m]
  <2>1. RestOK(b, f)
    BY DEF InOrder
  <2> HIDE DEF b
  <2>2. RegionOf(b[1]) # r /\ g.region[RegionOf(b[1])] = f.region[RegionOf(b[1])]
    BY <2>1, <1>2 DEF RestOK
  <2>3. \A a \in Units(b) : RegionOf(a) # r
    BY <2>1, <2>2 DEF RestOK, BlockIn
  <2>4. g.starts \cap Units(b) = f.starts \cap Units(b)
    BY <2>3, <1>2, <1>4
  <2> QED BY <2>1, <2>2, <2>4 DEF RestOK, b
<1> QED BY <1>12, <1>13, <1>14, <1>15 DEF InOrder

\* The first region of a large object after its sweep, with the regions after it.
SweptLarge(f, g, r) ==
  LET live == \E o \in objs : o[1] = Bottom(r)
  IN /\ IsRec(g) /\ g.bits = f.bits /\ g.starts = f.starts
     /\ g.region = [i \in Indices |->
          [f.region[i] EXCEPT
             !.typ = IF ~live /\ i \in Span(r, f) THEN "Trash" ELSE @,
             !.sweep = IF i = r THEN FALSE ELSE @]]

(* State and to_sweep of a region change. *)
LEMMA TypExcept ==
  ASSUME NEW g, g = [typ |-> g.typ, list |-> g.list, sweep |-> g.sweep, large |-> g.large],
         NEW t, NEW w
  PROVE  [g EXCEPT !.typ = t, !.sweep = w] = [typ |-> t, list |-> g.list, sweep |-> w, large |-> g.large]
<1> DEFINE h == [g EXCEPT !.typ = t]
<1>1. h = [typ |-> t, list |-> g.list, sweep |-> g.sweep, large |-> g.large]
  OBVIOUS
<1>2. [g EXCEPT !.typ = t, !.sweep = w] = [h EXCEPT !.sweep = w]
  OBVIOUS
<1> HIDE DEF h
<1> QED BY <1>1, <1>2

(* Only the to_sweep flag of a region changes. *)
LEMMA SweepExcept ==
  ASSUME NEW g, g = [typ |-> g.typ, list |-> g.list, sweep |-> g.sweep, large |-> g.large], NEW w
  PROVE  [g EXCEPT !.sweep = w] = [typ |-> g.typ, list |-> g.list, sweep |-> w, large |-> g.large]
OBVIOUS

(* A large object is swept: all its regions become trash, or none. *)
LEMMA SweepLargeFact ==
  ASSUME NEW f, NEW R, InOrder(f, objs, R), NEW r \in Indices,
         f.region[r].typ = "HumongousStart", NEW g, SweptLarge(f, g, r)
  PROVE  InOrder(g, objs, R)
<1> DEFINE X == Covered(Pieces(objs, R))
           live == \E o \in objs : o[1] = Bottom(r)
           gone(i) == ~live /\ i \in Span(r, f)
<1>1. AllRight(f, X) /\ Shape(f)
  BY DEF InOrder
<1>2. \A i \in Indices :
        /\ g.region[i].typ = (IF gone(i) THEN "Trash" ELSE f.region[i].typ)
        /\ g.region[i].sweep = (IF i = r THEN FALSE ELSE f.region[i].sweep)
        /\ g.region[i].list = f.region[i].list /\ g.region[i].large = f.region[i].large
        /\ g.region[i] = [typ |-> g.region[i].typ, list |-> g.region[i].list,
                          sweep |-> g.region[i].sweep, large |-> g.region[i].large]
  <2> TAKE i \in Indices
  <2> DEFINE o == f.region[i]
             t == IF gone(i) THEN "Trash" ELSE o.typ
             w == IF i = r THEN FALSE ELSE o.sweep
  <2>1. o = [typ |-> o.typ, list |-> o.list, sweep |-> o.sweep, large |-> o.large]
    BY <1>1 DEF AllRight, RegionOK
  <2>2. g.region[i] = [o EXCEPT !.typ = t, !.sweep = w]
    BY DEF SweptLarge
  <2> HIDE DEF o, t, w
  <2>3. g.region[i] = [typ |-> t, list |-> o.list, sweep |-> w, large |-> o.large]
    BY <2>1, <2>2, TypExcept
  <2>4. g.region[i].typ = t /\ g.region[i].list = o.list /\ g.region[i].sweep = w /\ g.region[i].large = o.large
    BY <2>3
  <2>5. g.region[i] = [typ |-> g.region[i].typ, list |-> g.region[i].list,
                       sweep |-> g.region[i].sweep, large |-> g.region[i].large]
    BY <2>3, <2>4
  <2> QED BY <2>4, <2>5 DEF o, t, w
<1>3. /\ f.region[r].large \in Nat \ {0} /\ Span(r, f) \subseteq Indices
      /\ \A i \in Span(r, f) : i # r => f.region[i].typ = "HumongousCont"
  BY <1>1 DEF Shape, SpansOK
<1>4. r \in Span(r, f)
  <2>1. RequiredRegions(f.region[r].large) \in Nat /\ RequiredRegions(f.region[r].large) >= 1 /\ r \in Nat
    BY <1>3, RequiredFact DEF Indices
  <2> QED BY <2>1 DEF Span
<1>5. \A i \in Indices : f.region[i].typ \notin {"HumongousStart", "HumongousCont"} => ~gone(i) /\ i # r
  BY <1>3
<1> HIDE DEF gone, live
\* Nobody has memory in the regions of an object that is gone.
<1>6. \A u \in X : RegionOf(u) \in Indices => ~gone(RegionOf(u))
  <2> SUFFICES ASSUME NEW u \in X, RegionOf(u) \in Indices, gone(RegionOf(u)) PROVE FALSE
    OBVIOUS
  <2>1. RegionOf(u) \in Span(r, f) /\ ~live /\ f.region[RegionOf(u)].typ # "Regular"
    BY <1>5 DEF gone
  <2>2. ASSUME NEW m \in DOMAIN R, u \in Units(R[m]) PROVE FALSE
    BY <2>1, <2>2 DEF InOrder, RestOK, BlockIn
  <2>3. ASSUME NEW o \in objs, u \in Units(o) PROVE FALSE
    <3>1. ObjOK(o, f)
      BY DEF InOrder
    <3>2. ~SmallOK(o, f)
      BY <2>1, <2>3 DEF SmallOK, BlockIn
    <3>3. PICK q \in Indices : o = <<Bottom(q), o[2]>> /\ f.region[q].typ = "HumongousStart" /\ f.region[q].large = o[2]
      BY <3>1, <3>2 DEF ObjOK, LargeOK
    <3>4. o[2] \in Nat /\ o[2] >= 1 /\ q \in Nat
      BY <3>1, RegionsAssumption DEF ObjOK, Indices
    <3>5. RegionOf(u) \in Span(q, f)
      BY <2>3, <3>3, <3>4, SpanFact DEF Span
    <3>6. q = r
      BY <1>1, <2>1, <3>3, <3>5, SpansApart
    <3> QED BY <2>1, <3>3, <3>6 DEF live
  <2> QED BY <2>2, <2>3, PieceFact
<1>7. \A i \in Indices : RegionOK(g.region[i], i, X, g.starts)
  <2> TAKE i \in Indices
  <2>1. RegionOK(f.region[i], i, X, f.starts) /\ g.starts = f.starts
    BY <1>1 DEF AllRight, SweptLarge
  <2>2. g.region[i].typ \in States /\ g.region[i].sweep \in BOOLEAN /\ g.region[i].large \in Nat
    BY <1>2, <2>1 DEF RegionOK, States
  <2>3. g.region[i].typ \in Unused => \A u \in X : RegionOf(u) # i
    BY <1>2, <1>6, <2>1 DEF RegionOK
  <2>4. IsEmpty(g.region[i]) => IsEmpty(f.region[i])
    BY <1>2 DEF IsEmpty
  <2>5. /\ g.region[i].list = f.region[i].list
        /\ g.region[i] = [typ |-> g.region[i].typ, list |-> g.region[i].list,
                          sweep |-> g.region[i].sweep, large |-> g.region[i].large]
    BY <1>2
  <2> QED BY <2>1, <2>2, <2>3, <2>4, <2>5 DEF RegionOK
<1>8. AllRight(g, X)
  <2>1. \A i \in g.bits : i \in Indices /\ g.region[i].typ \in Open /\ ~g.region[i].sweep
    BY <1>1, <1>2 DEF AllRight, SweptLarge, Open
  <2>2. \A a \in g.starts : a \in Nat /\ RegionOf(a) \in Indices
    BY <1>1 DEF AllRight, SweptLarge
  <2>3. g.region = [i \in Indices |-> g.region[i]]
    BY DEF SweptLarge
  <2> QED BY <1>7, <2>1, <2>2, <2>3 DEF AllRight, SweptLarge
<1>9. \A i \in Indices : Span(i, g) = Span(i, f)
  BY <1>2 DEF Span
<1>10. SpansOK(g)
  <2> SUFFICES ASSUME NEW q \in Indices, g.region[q].typ = "HumongousStart"
               PROVE  /\ g.region[q].large \in Nat \ {0} /\ Span(q, g) \subseteq Indices
                      /\ \A i \in Span(q, g) : i # q => g.region[i].typ = "HumongousCont"
    BY DEF SpansOK
  <2>1. f.region[q].typ = "HumongousStart" /\ ~gone(q)
    BY <1>2
  <2>2. /\ f.region[q].large \in Nat \ {0} /\ Span(q, f) \subseteq Indices
        /\ \A i \in Span(q, f) : i # q => f.region[i].typ = "HumongousCont"
    BY <1>1, <2>1 DEF Shape, SpansOK
  <2>3. \A i \in Span(q, f) : ~gone(i)
    <3> SUFFICES ASSUME NEW i \in Span(q, f), gone(i) PROVE FALSE
      OBVIOUS
    <3>1. q = r
      BY <1>1, <2>1, SpansApart DEF gone
    <3> QED BY <3>1, <2>1, <1>4 DEF gone
  <2> QED BY <1>2, <1>9, <2>2, <2>3
<1>11. ContsOK(g)
  <2> SUFFICES ASSUME NEW i \in Indices, g.region[i].typ = "HumongousCont"
               PROVE  \E q \in 0 .. i - 1 : g.region[q].typ = "HumongousStart" /\ i \in Span(q, g)
    BY DEF ContsOK
  <2>1. f.region[i].typ = "HumongousCont" /\ ~gone(i)
    BY <1>2
  <2>2. PICK q \in 0 .. i - 1 : f.region[q].typ = "HumongousStart" /\ i \in Span(q, f)
    BY <1>1, <2>1 DEF Shape, ContsOK
  <2>3. q \in Indices
    BY RegionsAssumption DEF Indices
  <2>4. ~gone(q)
    <3> SUFFICES ASSUME gone(q) PROVE FALSE
      OBVIOUS
    <3>1. q = r
      BY <1>3, <2>2 DEF gone
    <3> QED BY <2>1, <2>2, <3>1 DEF gone
  <2> QED BY <1>2, <1>9, <2>2, <2>3, <2>4
<1>12. SweepsOK(g)
  <2> SUFFICES ASSUME NEW i \in Indices, g.region[i].sweep PROVE g.region[i].typ \in {"Regular", "HumongousStart"}
    BY DEF SweepsOK
  <2>1. i # r /\ f.region[i].sweep
    BY <1>2
  <2>2. f.region[i].typ \in {"Regular", "HumongousStart"}
    BY <1>1, <2>1 DEF Shape, SweepsOK
  <2>3. ~gone(i)
    BY <1>3, <2>1, <2>2 DEF gone
  <2> QED BY <1>2, <2>2, <2>3
<1>13. \A o \in objs : ObjOK(o, g)
  <2> TAKE o \in objs
  <2>1. ObjOK(o, f) /\ g.starts = f.starts
    BY DEF InOrder, SweptLarge
  <2>2. SmallOK(o, f) => SmallOK(o, g)
    BY <1>2, <1>5, <2>1 DEF SmallOK
  <2>3. LargeOK(o, f) => LargeOK(o, g)
    <3> SUFFICES ASSUME LargeOK(o, f) PROVE LargeOK(o, g)
      OBVIOUS
    <3>1. PICK q \in Indices : o = <<Bottom(q), o[2]>> /\ f.region[q].typ = "HumongousStart" /\ f.region[q].large = o[2]
      BY DEF LargeOK
    <3>2. ~gone(q)
      <4> SUFFICES ASSUME gone(q) PROVE FALSE
        OBVIOUS
      <4>1. q = r
        BY <1>3, <3>1 DEF gone
      <4> QED BY <3>1, <4>1 DEF gone, live
    <3> QED BY <1>2, <3>1, <3>2 DEF LargeOK
  <2> QED BY <2>1, <2>2, <2>3 DEF ObjOK
<1>14. \A m \in DOMAIN R : RestOK(R[m], g)
  <2> TAKE m \in DOMAIN R
  <2> DEFINE b == R[m]
  <2>1. RestOK(b, f) /\ g.starts = f.starts
    BY DEF InOrder, SweptLarge
  <2> HIDE DEF b
  <2>2. /\ g.region[RegionOf(b[1])].typ = f.region[RegionOf(b[1])].typ
        /\ g.region[RegionOf(b[1])].sweep = f.region[RegionOf(b[1])].sweep
    BY <2>1, <1>2, <1>5 DEF RestOK
  <2> QED BY <2>1, <2>2 DEF RestOK, b
<1>15. PiecesApart(objs, R)
  BY DEF InOrder
<1> QED BY <1>8, <1>10, <1>11, <1>12, <1>13, <1>14, <1>15 DEF InOrder, Shape

\* The regions in use are closed until they are swept.
Closed(f, g) ==
  /\ IsRec(g) /\ g.starts = f.starts
  /\ g.region = [r \in Indices |-> [f.region[r] EXCEPT !.sweep = @ \/ ToSweep(f.region[r])]]
  /\ g.bits = {r \in f.bits : ~ToSweep(f.region[r])}

(* PrepareUnsweptRegions, when no thread has a buffer. *)
LEMMA CloseFact ==
  ASSUME NEW f, NEW O, NEW R, InOrder(f, O, R), DOMAIN R = {}, NEW g, Closed(f, g)
  PROVE  InOrder(g, O, R)
<1> DEFINE X == Covered(Pieces(O, R))
<1>1. AllRight(f, X) /\ Shape(f)
  BY DEF InOrder
<1>2. \A i \in Indices :
        /\ g.region[i].typ = f.region[i].typ /\ g.region[i].list = f.region[i].list
        /\ g.region[i].large = f.region[i].large
        /\ g.region[i].sweep = (f.region[i].sweep \/ ToSweep(f.region[i]))
        /\ g.region[i] = [typ |-> g.region[i].typ, list |-> g.region[i].list,
                          sweep |-> g.region[i].sweep, large |-> g.region[i].large]
  <2> TAKE i \in Indices
  <2> DEFINE o == f.region[i]
             w == o.sweep \/ ToSweep(o)
  <2>1. o = [typ |-> o.typ, list |-> o.list, sweep |-> o.sweep, large |-> o.large]
    BY <1>1 DEF AllRight, RegionOK
  <2>2. g.region[i] = [o EXCEPT !.sweep = w]
    BY DEF Closed
  <2> HIDE DEF o, w
  <2>3. g.region[i] = [typ |-> o.typ, list |-> o.list, sweep |-> w, large |-> o.large]
    BY <2>1, <2>2, SweepExcept
  <2>4. g.region[i].typ = o.typ /\ g.region[i].list = o.list /\ g.region[i].sweep = w /\ g.region[i].large = o.large
    BY <2>3
  <2>5. g.region[i] = [typ |-> g.region[i].typ, list |-> g.region[i].list,
                       sweep |-> g.region[i].sweep, large |-> g.region[i].large]
    BY <2>3, <2>4
  <2> QED BY <2>4, <2>5 DEF o, w
<1>3. \A i \in Indices : RegionOK(g.region[i], i, X, g.starts)
  <2> TAKE i \in Indices
  <2>1. RegionOK(f.region[i], i, X, f.starts) /\ g.starts = f.starts
    BY <1>1 DEF AllRight, Closed
  <2>2. g.region[i].sweep \in BOOLEAN
    BY <1>2
  <2> QED BY <1>2, <2>1, <2>2 DEF RegionOK, IsEmpty
<1>4. \A i \in g.bits : i \in Indices /\ g.region[i].typ \in Open /\ ~g.region[i].sweep
  <2> TAKE i \in g.bits
  <2>1. i \in f.bits /\ ~ToSweep(f.region[i])
    BY DEF Closed
  <2>2. i \in Indices /\ f.region[i].typ \in Open /\ ~f.region[i].sweep
    BY <1>1, <2>1 DEF AllRight
  <2>3. g.region[i].typ = f.region[i].typ /\ g.region[i].sweep = (f.region[i].sweep \/ ToSweep(f.region[i]))
    BY <1>2, <2>2
  <2> QED BY <2>1, <2>2, <2>3
<1>5. AllRight(g, X)
  <2>1. g.region = [i \in Indices |-> g.region[i]]
    BY DEF Closed
  <2>2. \A a \in g.starts : a \in Nat /\ RegionOf(a) \in Indices
    BY <1>1 DEF AllRight, Closed
  <2>3. g.bits \subseteq Indices
    BY <1>4
  <2> QED BY <1>3, <1>4, <2>1, <2>2, <2>3 DEF AllRight, Closed
<1>6. \A i \in Indices : g.region[i].typ = f.region[i].typ /\ g.region[i].large = f.region[i].large
  BY <1>2
<1>7. \A i \in Indices : Span(i, g) = Span(i, f)
  BY <1>6 DEF Span
<1>8. SpansOK(g)
  BY <1>1, <1>6, <1>7 DEF Shape, SpansOK
<1>9. ContsOK(g)
  <2> SUFFICES ASSUME NEW i \in Indices, g.region[i].typ = "HumongousCont"
               PROVE  \E q \in 0 .. i - 1 : g.region[q].typ = "HumongousStart" /\ i \in Span(q, g)
    BY DEF ContsOK
  <2>1. PICK q \in 0 .. i - 1 : f.region[q].typ = "HumongousStart" /\ i \in Span(q, f)
    BY <1>1, <1>6 DEF Shape, ContsOK
  <2>2. q \in Indices
    BY RegionsAssumption DEF Indices
  <2> QED BY <1>6, <1>7, <2>1, <2>2
<1>10. SweepsOK(g)
  <2> SUFFICES ASSUME NEW i \in Indices, g.region[i].sweep PROVE g.region[i].typ \in {"Regular", "HumongousStart"}
    BY DEF SweepsOK
  <2>1. g.region[i].typ = f.region[i].typ /\ (f.region[i].sweep \/ ToSweep(f.region[i]))
    BY <1>2
  <2> QED BY <1>1, <2>1 DEF Shape, SweepsOK, ToSweep
<1>11. g.starts = f.starts
  BY DEF Closed
<1>12. \A o \in O : ObjOK(o, g)
  BY <1>6, <1>11 DEF InOrder, ObjOK, SmallOK, LargeOK
<1>13. PiecesApart(O, R)
  BY DEF InOrder
<1> QED BY <1>5, <1>8, <1>9, <1>10, <1>12, <1>13 DEF InOrder, Shape

(* A region that holds nothing goes back to the system. *)
LEMMA DecommitFact ==
  ASSUME NEW f, NEW O, NEW R, InOrder(f, O, R), NEW r \in Indices, f.region[r].typ = "EmptyCommited",
         NEW g, IsRec(g), g.bits = f.bits, g.starts = f.starts,
         g.region = [f.region EXCEPT ![r].typ = "EmptyUncommited", ![r].list = EmptyList]
  PROVE  InOrder(g, O, R)
<1> DEFINE X == Covered(Pieces(O, R))
           o == f.region[r]
           new == g.region[r]
<1>1. AllRight(f, X) /\ Shape(f)
  BY DEF InOrder
<1>2. f.region = [q \in Indices |-> f.region[q]]
  BY <1>1 DEF AllRight
<1>3. /\ \A q \in Indices : q # r => g.region[q] = f.region[q]
      /\ g.region = [q \in Indices |-> g.region[q]]
      /\ new = [o EXCEPT !.typ = "EmptyUncommited", !.list = EmptyList]
  <2> DEFINE h == [f.region EXCEPT ![r].typ = "EmptyUncommited"]
  <2>1. g.region = [h EXCEPT ![r].list = EmptyList]
    OBVIOUS
  <2>2. h = [q \in Indices |-> h[q]] /\ h[r] = [o EXCEPT !.typ = "EmptyUncommited"]
        /\ \A q \in Indices : q # r => h[q] = f.region[q]
    BY <1>2
  <2> HIDE DEF h
  <2>3. g.region = [q \in Indices |-> g.region[q]] /\ new = [h[r] EXCEPT !.list = EmptyList]
        /\ \A q \in Indices : q # r => g.region[q] = h[q]
    BY <2>1, <2>2
  <2> QED BY <2>2, <2>3
<1>4. o = [typ |-> o.typ, list |-> o.list, sweep |-> o.sweep, large |-> o.large]
  BY <1>1 DEF AllRight, RegionOK
<1>5. RegionOK(o, r, X, f.starts)
  BY <1>1 DEF AllRight
<1> HIDE DEF o, new
<1>6. new = [typ |-> "EmptyUncommited", list |-> EmptyList, sweep |-> o.sweep, large |-> o.large]
  <2> DEFINE t == "EmptyUncommited"
             l == EmptyList
  <2>1. new = [o EXCEPT !.typ = t, !.list = l]
    BY <1>3
  <2> HIDE DEF t, l
  <2>2. new = [typ |-> t, list |-> l, sweep |-> o.sweep, large |-> o.large]
    BY <1>4, <2>1, RegionExcept
  <2> QED BY <2>2 DEF t, l
<1>7. /\ new.typ = "EmptyUncommited" /\ new.list = EmptyList /\ new.sweep = o.sweep /\ new.large = o.large
      /\ new = [typ |-> new.typ, list |-> new.list, sweep |-> new.sweep, large |-> new.large]
  BY <1>6
<1>8. RegionOK(new, r, X, g.starts)
  <2>1. o.typ = "EmptyCommited"
    BY DEF o
  <2>2. ListOK(EmptyList) /\ Entries(EmptyList) = {}
    BY EmptyListFact
  <2>3. o.sweep \in BOOLEAN /\ o.large \in Nat
    BY <1>5 DEF RegionOK
  <2>4. \A u \in X : RegionOf(u) # r
    BY <1>5, <2>1 DEF RegionOK, Unused
  <2>5. \A a \in g.starts : RegionOf(a) # r
    BY <1>5, <2>1 DEF RegionOK, IsEmpty
  <2>6. new.typ \in States /\ Apart({})
    BY <1>7 DEF States, Apart
  <2> QED BY <1>7, <2>2, <2>3, <2>4, <2>5, <2>6 DEF RegionOK
<1>9. AllRight(g, X)
  <2>1. \A q \in Indices : RegionOK(g.region[q], q, X, g.starts)
    BY <1>1, <1>3, <1>8 DEF AllRight, new
  <2>2. \A q \in g.bits : q \in Indices /\ g.region[q].typ \in Open /\ ~g.region[q].sweep
    BY <1>1, <1>3, <1>7 DEF AllRight, Open, o, new
  <2>3. \A a \in g.starts : a \in Nat /\ RegionOf(a) \in Indices
    BY <1>1 DEF AllRight
  <2> QED BY <1>3, <2>1, <2>2, <2>3 DEF AllRight
<1>10. Kept(f, g)
  <2>1. \A q \in Indices :
       /\ f.region[q].typ \notin Unused => g.region[q].typ = f.region[q].typ
       /\ f.region[q].typ \in Unused => g.region[q].typ \in Unused \cup {"Regular"}
       /\ g.region[q].typ = "Trash" => f.region[q].typ = "Trash"
       /\ g.region[q].sweep = f.region[q].sweep /\ g.region[q].large = f.region[q].large
    BY <1>3, <1>7 DEF o, new, Unused
  <2> QED BY <2>1 DEF Kept
<1>11. Shape(g)
  BY <1>1, <1>10, ShapeKept
<1>12. (\A p \in O : ObjOK(p, g)) /\ \A m \in DOMAIN R : RestOK(R[m], g)
  <2>1. StartsKept(f, g, X)
    BY DEF StartsKept
  <2>2. \A q \in Indices : f.region[q].typ \in {"Regular", "HumongousStart"} =>
            /\ g.region[q].typ = f.region[q].typ
            /\ g.region[q].sweep = f.region[q].sweep /\ g.region[q].large = f.region[q].large
    BY <1>10 DEF Kept, Unused
  <2> QED BY <2>1, <2>2, PiecesKept
<1>13. PiecesApart(O, R)
  BY DEF InOrder
<1> QED BY <1>9, <1>11, <1>12, <1>13 DEF InOrder

(* rebuild opens regions. *)
LEMMA RebuildFact ==
  ASSUME NEW f, NEW O, NEW R, InOrder(f, O, R), NEW g, IsRec(g), g.region = f.region, g.starts = f.starts,
         g.bits \subseteq Indices, \A r \in g.bits : g.region[r].typ \in Open /\ ~g.region[r].sweep
  PROVE  InOrder(g, O, R)
<1>1. AllRight(g, Covered(Pieces(O, R)))
  BY DEF InOrder, AllRight
<1>2. Shape(g)
  BY SameShape DEF InOrder
<1>3. \A o \in O : ObjOK(o, g)
  BY DEF InOrder, ObjOK, SmallOK, LargeOK
<1>4. \A m \in DOMAIN R : RestOK(R[m], g)
  BY DEF InOrder, RestOK
<1> QED BY <1>1, <1>2, <1>3, <1>4 DEF InOrder

-----------------------------------------------------------------------------
(*****************************************************************************)
(* The steps of the threads.                                                 *)
(*****************************************************************************)

\* Threads that own what is left of their buffers.
Held == {m \in Holding : pc[m] # "exiting"}
Rests == [m \in Held |-> Rest(m)]

TlabsOK ==
  /\ tlab \in [Mutators -> [start : Nat, top : Nat, end : Nat]]
  /\ \A m \in Mutators : tlab[m].top <= tlab[m].end
  /\ \A m \in Holding : LET r == RegionOf(tlab[m].start)
                        IN r \in Indices /\ Sized(Rest(m)) /\ BlockIn(Rest(m), r)

WantsOK ==
  /\ pc \in [Mutators -> {"run", "refill", "shared", "exiting", "done"}]
  /\ want \in [Mutators -> Nat]
  /\ \A m \in Mutators : pc[m] \in {"refill", "shared"} => want[m] \in Sizes
  /\ \A m \in Mutators : pc[m] = "refill" => want[m] <= TlabSize

\* While nothing has gone wrong.
SoundInv ==
  InOrder(F, objs, Rests) /\ TlabsOK /\ WantsOK /\ candidate \in Indices \cup {NoRegion}

ListsInside == \A r \in Indices : \A b \in Entries(region[r].list) : BlockIn(b, r)

\* Whatever happened, entries lie in their regions, and a buffer that was too
\* short was an elastic one.
RegionInv ==
  /\ ListsInside
  /\ fault = "overrun" => elastic
  /\ fault = "none" => SoundInv

(* What the record F holds. *)
LEMMA FFact ==
  /\ IsRec(F) /\ F.region = region /\ F.bits = bits /\ F.bounds = bounds /\ F.used = used
  /\ F.starts = starts /\ F.committed = committed
BY DEF F, IsRec

(* StoreF stores a record of this kind. *)
LEMMA StoreFact ==
  ASSUME NEW f, IsRec(f), StoreF(f)
  PROVE  F' = f
BY DEF StoreF, F, IsRec

(* Every entry lies in its region. *)
LEMMA InsideLists ==
  ASSUME NEW f, NEW O, NEW R, InOrder(f, O, R), NEW r \in Indices, NEW b \in Entries(f.region[r].list)
  PROVE  BlockIn(b, r)
<1>1. RegionOK(f.region[r], r, Covered(Pieces(O, R)), f.starts)
  BY DEF InOrder, AllRight
<1> QED BY <1>1 DEF RegionOK

(* It is enough to look at what happens while nothing goes wrong. *)
LEMMA SoundStep ==
  ASSUME SoundInv', fault' = "none"
  PROVE  RegionInv'
<1>1. InOrder(F', objs', Rests')
  BY DEF SoundInv
<1>2. F'.region = region'
  BY DEF F
<1>3. ListsInside'
  <2> SUFFICES ASSUME NEW r \in Indices, NEW b \in Entries(region'[r].list) PROVE BlockIn(b, r)
    BY DEF ListsInside
  <2>1. b \in Entries(F'.region[r].list)
    BY <1>2
  <2> QED BY <1>1, <2>1, InsideLists
<1> QED BY <1>3 DEF RegionInv

(* The home of a buffer is where its rest lies. *)
LEMMA HomeFact ==
  ASSUME TlabsOK, NEW m \in Holding
  PROVE  /\ m \in Mutators /\ RegionOf(tlab[m].start) = RegionOf(Rest(m)[1])
         /\ RegionOf(tlab[m].start) \in Indices /\ Sized(Rest(m))
         /\ BlockIn(Rest(m), RegionOf(tlab[m].start))
<1>1. RegionOf(tlab[m].start) \in Indices /\ Sized(Rest(m)) /\ BlockIn(Rest(m), RegionOf(tlab[m].start))
  BY DEF TlabsOK
<1>2. Rest(m)[1] \in Units(Rest(m))
  BY <1>1, UnitsFact
<1> QED BY <1>1, <1>2 DEF BlockIn, Holding

(* A thread that has room has a rest. *)
LEMMA RoomFact ==
  ASSUME TlabsOK, NEW m \in Mutators
  PROVE  /\ Room(m) \in Nat /\ tlab[m].top \in Nat /\ tlab[m].end \in Nat
         /\ Room(m) = tlab[m].end - tlab[m].top
         /\ Room(m) > 0 => m \in Holding
         /\ m \in Holding => Room(m) > 0
         /\ Rest(m)[1] = tlab[m].top /\ Rest(m)[2] = Room(m)
<1>1. tlab[m].top \in Nat /\ tlab[m].end \in Nat /\ tlab[m].top <= tlab[m].end
  BY DEF TlabsOK
<1>2. Room(m) = tlab[m].end - tlab[m].top
  BY DEF Room
<1>3. Room(m) \in Nat /\ (Room(m) > 0 => tlab[m].end # 0)
  BY <1>1, <1>2
<1> QED BY <1>1, <1>2, <1>3 DEF Holding, Rest

\* The rests that go to region r.
RestsAt(ms, r) == {Rest(m) : m \in {x \in ms \cap Holding : RegionOf(tlab[x].start) = r}}

(* What the region of a buffer that is given back gets. *)
LEMMA RestsAtFact ==
  ASSUME TlabsOK, NEW ms, ms \subseteq Mutators, NEW r \in Indices
  PROVE  /\ IsFiniteSet(RestsAt(ms, r))
         /\ \A b \in RestsAt(ms, r) : Sized(b) /\ BlockIn(b, r)
<1> DEFINE E == {x \in ms \cap Holding : RegionOf(tlab[x].start) = r}
           h == [m \in E |-> Rest(m)]
<1>1. IsFiniteSet(E)
  BY RegionsAssumption, FS_Subset
<1>2. h \in Surjection(E, RestsAt(ms, r))
  BY DEF Surjection, RestsAt
<1>3. IsFiniteSet(RestsAt(ms, r))
  BY <1>1, <1>2, FS_Surjection
<1>4. \A b \in RestsAt(ms, r) : Sized(b) /\ BlockIn(b, r)
  <2> TAKE b \in RestsAt(ms, r)
  <2>1. PICK m \in Holding : b = Rest(m) /\ RegionOf(tlab[m].start) = r
    BY DEF RestsAt
  <2> QED BY <2>1, HomeFact
<1> QED BY <1>3, <1>4

(* Whatever is given back lies in its region. *)
LEMMA GivenInside ==
  ASSUME SoundInv, NEW ms, ms \subseteq Mutators, NEW r \in Indices
  PROVE  /\ GivenBack(ms)[r].list = AddAll(region[r].list, RestsAt(ms, r))
         /\ \A b \in Entries(GivenBack(ms)[r].list) : BlockIn(b, r)
<1>1. RegionOK(region[r], r, Covered(Pieces(objs, Rests)), starts)
  BY FFact DEF SoundInv, InOrder, AllRight
<1>2. region[r] = [typ |-> region[r].typ, list |-> region[r].list, sweep |-> region[r].sweep, large |-> region[r].large]
  BY <1>1 DEF RegionOK
<1> DEFINE g == region[r]
           l == AddAll(g.list, RestsAt(ms, r))
<1>3. GivenBack(ms)[r] = [g EXCEPT !.list = l]
  BY DEF GivenBack, RestsAt
<1>4. GivenBack(ms)[r].list = l
  <2> HIDE DEF l, g
  <2>1. [g EXCEPT !.list = l] = [typ |-> g.typ, list |-> l, sweep |-> g.sweep, large |-> g.large]
    BY <1>2, ListExcept DEF g
  <2> QED BY <1>3, <2>1
<1>5. /\ IsFiniteSet(RestsAt(ms, r)) /\ \A b \in RestsAt(ms, r) : Sized(b) /\ BlockIn(b, r)
  BY RestsAtFact DEF SoundInv
<1>6. Entries(l) = Entries(g.list) \cup RestsAt(ms, r)
  BY <1>1, <1>5, AddAllFact DEF RegionOK
<1>7. \A b \in Entries(g.list) : BlockIn(b, r)
  BY <1>1 DEF RegionOK
<1> QED BY <1>4, <1>5, <1>6, <1>7

(* Buffers that threads own are given back once. *)
LEMMA GivenFact ==
  ASSUME SoundInv, NEW ms, ms \subseteq Mutators, ms \cap Holding \subseteq Held,
         NEW g, IsRec(g), g.region = GivenBack(ms), g.bits = bits, g.starts = starts,
         NEW Q, DOMAIN Q = Held \ ms, \A m \in Held \ ms : Q[m] = Rest(m)
  PROVE  InOrder(g, objs, Q)
<1> DEFINE D == ms \cap Holding
           B == [r \in Indices |-> RestsAt(ms, r)]
<1>1. D \subseteq Held /\ DOMAIN Rests = Held /\ \A m \in Held : Rests[m] = Rest(m)
  BY DEF Rests
<1>2. IsFiniteSet(D)
  BY RegionsAssumption, FS_Subset
<1>3. \A m \in D : RegionOf(tlab[m].start) = RegionOf(Rest(m)[1])
  BY HomeFact DEF SoundInv
<1>4. \A r \in Indices : B[r] = {Rests[m] : m \in {x \in D : RegionOf(Rests[x][1]) = r}}
  <2> TAKE r \in Indices
  <2>1. B[r] = {Rest(m) : m \in {x \in D : RegionOf(tlab[x].start) = r}}
    BY DEF RestsAt
  <2> HIDE DEF B, D
  <2>2. {x \in D : RegionOf(tlab[x].start) = r} = {x \in D : RegionOf(Rests[x][1]) = r}
    BY <1>1, <1>3
  <2>3. {Rest(m) : m \in {x \in D : RegionOf(Rests[x][1]) = r}} = {Rests[m] : m \in {x \in D : RegionOf(Rests[x][1]) = r}}
    BY <1>1
  <2> QED BY <2>1, <2>2, <2>3
<1>5. Added(F, g, B)
  <2>1. g.region = [r \in Indices |-> [F.region[r] EXCEPT !.list = AddAll(@, B[r])]]
    BY FFact DEF GivenBack, RestsAt
  <2> QED BY <2>1, FFact DEF Added
<1>6. InOrder(F, objs, Rests)
  BY DEF SoundInv
<1>7. DOMAIN Q = DOMAIN Rests \ D /\ \A m \in DOMAIN Q : Q[m] = Rests[m]
  <2>1. Held \subseteq Holding
    BY DEF Held
  <2> QED BY <1>1, <2>1
<1> HIDE DEF D, B
<1> QED BY <1>1, <1>2, <1>4, <1>5, <1>6, <1>7, GiveBackFact

(* Cleared buffers are empty, the others stay. *)
LEMMA ClearedFact ==
  ASSUME TlabsOK, NEW ms, ms \subseteq Mutators, tlab' = Cleared(ms)
  PROVE  /\ TlabsOK' /\ Holding' = Holding \ ms
         /\ \A m \in Mutators \ ms : tlab'[m] = tlab[m] /\ Rest(m)' = Rest(m)
<1>1. \A m \in Mutators : tlab'[m] = IF m \in ms THEN NoTlab ELSE tlab[m]
  BY DEF Cleared
<1>2. \A m \in Mutators \ ms : tlab'[m] = tlab[m] /\ Rest(m)' = Rest(m) /\ Room(m)' = Room(m)
  BY <1>1 DEF Rest, Room
<1>3. Holding' = Holding \ ms
  <2>1. \A m \in ms : tlab'[m].end = 0
    BY <1>1 DEF NoTlab
  <2>2. \A m \in Mutators \ ms : tlab'[m].end = tlab[m].end /\ Room(m)' = Room(m)
    BY <1>2
  <2> QED BY <2>1, <2>2 DEF Holding
<1>4. tlab' \in [Mutators -> [start : Nat, top : Nat, end : Nat]]
  BY DEF Cleared, TlabsOK, NoTlab
<1>5. \A m \in Mutators : tlab'[m].top <= tlab'[m].end
  BY <1>1 DEF TlabsOK, NoTlab
<1>6. \A m \in Holding' : RegionOf(tlab'[m].start) \in Indices /\ Sized(Rest(m)') /\ BlockIn(Rest(m)', RegionOf(tlab'[m].start))
  <2> TAKE m \in Holding'
  <2>1. m \in Holding /\ tlab'[m] = tlab[m] /\ Rest(m)' = Rest(m)
    BY <1>2, <1>3 DEF Holding
  <2> QED BY <2>1, HomeFact
<1>7. TlabsOK'
  BY <1>4, <1>5, <1>6 DEF TlabsOK
<1> QED BY <1>2, <1>3, <1>7

(* An address in a region is one that Memory knows. *)
LEMMA AddressFact ==
  ASSUME NEW a \in Nat, RegionOf(a) \in Indices
  PROVE  a \in 0 .. NumRegions * RegionSize - 1
<1> DEFINE r == RegionOf(a)
<1>1. r \in Nat /\ r + 1 <= NumRegions /\ NumRegions \in Nat /\ RegionSize \in Nat
  BY RegionsAssumption, Powers DEF Indices
<1>2. Bottom(r) <= a /\ a < Bottom(r) + RegionSize
  BY <1>1, RegionOfFact
<1>3. Bottom(r) + RegionSize = Bottom(r + 1) /\ Bottom(r + 1) <= Bottom(NumRegions) /\ Bottom(r) \in Nat
      /\ Bottom(r + 1) \in Nat /\ Bottom(NumRegions) \in Nat
  <2> HIDE DEF r
  <2>1. r + 1 \in Nat /\ r <= r + 1
    BY <1>1
  <2> QED BY <1>1, <2>1, BottomOrder
<1>4. a < Bottom(NumRegions)
  <2> HIDE DEF r
  <2>1. a < Bottom(r + 1)
    BY <1>2, <1>3
  <2> QED BY <1>1, <1>3, <2>1
<1> QED BY <1>3, <1>4 DEF Bottom

(* A new object is handed out as Memory promises. *)
LEMMA HandOutFact ==
  ASSUME NEW n \in Sizes, NEW a \in Nat, RegionOf(a) \in Indices,
         \A o \in objs : Units(o) \cap Units(<<a, n>>) = {}, objs' = objs \cup {<<a, n>>}
  PROVE  M!Next
<1> DEFINE b == <<a, n>>
<1>1. b \in {<<u, k>> : u \in 0 .. NumRegions * RegionSize - 1, k \in Sizes}
  BY AddressFact
<1>2. \A c \in objs : ~M!Overlap(b, c)
  BY DEF M!Overlap, M!Units, Units
<1>3. M!HandOut(b)
  BY <1>2 DEF M!HandOut
<1> QED BY <1>1, <1>3 DEF M!Next

(* tlab.allocate *)
LEMMA AllocateInTlabStep ==
  ASSUME SoundInv, fault = "none", NEW m \in Mutators, NEW size \in Sizes, AllocateInTlab(m, size)
  PROVE  RegionInv' /\ M!Next
<1> DEFINE b == Rest(m)
           new == <<b[1], size>>
<1>1. /\ pc[m] = "run" /\ Room(m) >= size /\ tlab' = [tlab EXCEPT ![m].top = @ + size]
      /\ objs' = objs \cup {<<tlab[m].top, size>>} /\ starts' = starts \cup {tlab[m].top}
      /\ UNCHANGED <<region, bits, bounds, used, committed, want, pc, candidate, fault>>
  BY DEF AllocateInTlab, MayAllocate
<1>2. TlabsOK /\ InOrder(F, objs, Rests)
  BY DEF SoundInv
<1>3. size \in Nat /\ size >= 1
  BY RegionsAssumption
<1>4. /\ Room(m) \in Nat /\ tlab[m].top \in Nat /\ tlab[m].end \in Nat /\ Room(m) = tlab[m].end - tlab[m].top
      /\ b[1] = tlab[m].top /\ b[2] = Room(m) /\ m \in Holding
  BY <1>1, <1>2, <1>3, RoomFact
<1>5. m \in Held /\ Rests[m] = b /\ DOMAIN Rests = Held
  BY <1>1, <1>4 DEF Held, Rests
<1>6. /\ tlab'[m].top = tlab[m].top + size /\ tlab'[m].end = tlab[m].end /\ tlab'[m].start = tlab[m].start
      /\ \A k \in Mutators \ {m} : tlab'[k] = tlab[k]
      /\ tlab' \in [Mutators -> [start : Nat, top : Nat, end : Nat]]
  BY <1>1, <1>2, <1>3 DEF TlabsOK
<1>7. /\ Room(m)' = Room(m) - size /\ Rest(m)' = <<b[1] + size, b[2] - size>>
      /\ \A k \in Mutators \ {m} : Room(k)' = Room(k) /\ Rest(k)' = Rest(k)
  <2>1. Room(m)' = Room(m) - size
    BY <1>3, <1>4, <1>6 DEF Room
  <2>2. Rest(m)' = <<b[1] + size, b[2] - size>>
    BY <1>4, <1>6, <2>1 DEF Rest
  <2> QED BY <2>1, <2>2, <1>6 DEF Room, Rest
<1>8. Holding' \subseteq Holding /\ (m \in Holding' => Room(m) - size > 0)
  <2>1. m \in Holding' => Room(m) - size # 0
    BY <1>7 DEF Holding
  <2>2. Holding' \subseteq Holding
    BY <1>4, <1>6, <1>7 DEF Holding
  <2> QED BY <2>1, <2>2, <1>1, <1>3, <1>4
<1>9. Held' \subseteq Held
  BY <1>1, <1>8 DEF Held
<1>10. /\ IsRec(F') /\ F'.region = F.region /\ F'.bits = F.bits /\ F'.starts = F.starts \cup {b[1]}
  BY <1>1, <1>4 DEF F, IsRec
<1>11. DOMAIN Rests' = Held' /\ \A k \in Held' : Rests'[k] = Rest(k)'
  BY DEF Rests
<1>12. \A k \in Held' \ {m} : Rests'[k] = Rests[k]
  <2> TAKE k \in Held' \ {m}
  <2>1. k \in Held /\ k \in Mutators
    BY <1>9 DEF Held, Holding
  <2> QED BY <2>1, <1>7, <1>11 DEF Rests
<1>13. m \in Held' => Rests'[m] = <<b[1] + size, b[2] - size>> /\ Rests'[m][2] > 0
  <2> SUFFICES ASSUME m \in Held' PROVE Rests'[m] = <<b[1] + size, b[2] - size>> /\ Rests'[m][2] > 0
    OBVIOUS
  <2>1. Rests'[m] = <<b[1] + size, b[2] - size>>
    BY <1>7, <1>11
  <2>2. m \in Holding'
    BY DEF Held
  <2> QED BY <2>1, <2>2, <1>4, <1>8
<1> HIDE DEF b
<1>14. InOrder(F', objs \cup {new}, Rests') /\ \A o \in objs : Units(o) \cap Units(new) = {}
  <2> DEFINE R == Rests
             Q == Rests'
             g == F'
  <2>1. /\ InOrder(F, objs, R) /\ m \in DOMAIN R /\ R[m] = b /\ size \in Sizes /\ size <= R[m][2]
        /\ DOMAIN Q \subseteq DOMAIN R
    BY <1>1, <1>2, <1>4, <1>5, <1>9, <1>11
  <2>2. IsRec(g) /\ g.region = F.region /\ g.bits = F.bits /\ g.starts = F.starts \cup {R[m][1]}
    BY <1>5, <1>10
  <2>3. /\ \A k \in DOMAIN Q \ {m} : Q[k] = R[k]
        /\ m \in DOMAIN Q => Q[m] = <<R[m][1] + size, R[m][2] - size>> /\ Q[m][2] > 0
    BY <1>5, <1>11, <1>12, <1>13
  <2> HIDE DEF R, Q, g
  <2>4. InOrder(g, objs \cup {<<R[m][1], size>>}, Q) /\ \A o \in objs : Units(o) \cap Units(<<R[m][1], size>>) = {}
    BY <2>1, <2>2, <2>3, BumpFact
  <2> QED BY <2>1, <2>4 DEF Q, g
<1>15. InOrder(F', objs', Rests')
  BY <1>1, <1>4, <1>14
<1>16. TlabsOK'
  <2>1. \A k \in Mutators : tlab'[k].top <= tlab'[k].end
    <3> TAKE k \in Mutators
    <3>1. CASE k = m
      BY <3>1, <1>1, <1>3, <1>4, <1>6
    <3>2. CASE k # m
      BY <3>2, <1>2, <1>6 DEF TlabsOK
    <3> QED BY <3>1, <3>2
  <2>2. \A k \in Holding' : LET r == RegionOf(tlab'[k].start)
                            IN r \in Indices /\ Sized(Rest(k)') /\ BlockIn(Rest(k)', r)
    <3> TAKE k \in Holding'
    <3> DEFINE r == RegionOf(tlab[k].start)
    <3>1. k \in Holding /\ k \in Mutators
      BY <1>8 DEF Holding
    <3>2. r \in Indices /\ Sized(Rest(k)) /\ BlockIn(Rest(k), r) /\ tlab'[k].start = tlab[k].start
      BY <3>1, <1>2, <1>6, HomeFact
    <3>3. CASE k = m
      <4>1. Sized(b) /\ size <= b[2] /\ b[2] - size > 0
        BY <3>2, <3>3, <1>1, <1>4, <1>8 DEF b
      <4> DEFINE c == <<b[1] + size, b[2] - size>>
      <4>2. c[2] > 0 => Sized(c) /\ Units(c) \subseteq Units(b)
        BY <4>1, <1>3, SplitFact
      <4>2a. c[2] = b[2] - size
        OBVIOUS
      <4> HIDE DEF c
      <4>3. Sized(c) /\ Units(c) \subseteq Units(b) /\ Rest(m)' = c
        BY <4>1, <4>2, <4>2a, <1>7 DEF c
      <4> QED BY <3>2, <3>3, <4>3 DEF BlockIn, b
    <3>4. CASE k # m
      BY <3>1, <3>2, <3>4, <1>7
    <3> QED BY <3>3, <3>4
  <2> QED BY <1>6, <2>1, <2>2 DEF TlabsOK
<1>17. SoundInv' /\ fault' = "none"
  <2>1. WantsOK' /\ candidate' \in Indices \cup {NoRegion}
    BY <1>1 DEF SoundInv, WantsOK
  <2> QED BY <1>1, <1>15, <1>16, <2>1 DEF SoundInv
<1>18. M!Next
  <2>1. b[1] \in Nat /\ RegionOf(b[1]) \in Indices
    BY <1>2, <1>4, HomeFact DEF b
  <2>2. objs' = objs \cup {<<b[1], size>>}
    BY <1>1, <1>4
  <2> QED BY <1>14, <2>1, <2>2, HandOutFact
<1> QED BY <1>17, <1>18, SoundStep

(* Buffers are retired by threads that own them. *)
LEMMA RetireStep ==
  ASSUME SoundInv, NEW ms, ms \subseteq Mutators, ms \cap Holding \subseteq Held,
         region' = GivenBack(ms), tlab' = Cleared(ms), UNCHANGED <<bits, starts, objs>>,
         \A k \in Mutators \ ms : pc'[k] = pc[k]
  PROVE  InOrder(F', objs', Rests') /\ TlabsOK' /\ Held' = Held \ ms
<1>1. /\ TlabsOK' /\ Holding' = Holding \ ms
      /\ \A k \in Mutators \ ms : Rest(k)' = Rest(k)
  BY ClearedFact DEF SoundInv
<1>2. Held' = Held \ ms
  BY <1>1 DEF Held, Holding
<1>3. DOMAIN Rests' = Held \ ms /\ \A k \in Held \ ms : Rests'[k] = Rest(k)
  <2>1. DOMAIN Rests' = Held' /\ \A k \in Held' : Rests'[k] = Rest(k)'
    BY DEF Rests
  <2>2. \A k \in Held \ ms : Rest(k)' = Rest(k)
    BY <1>1 DEF Held, Holding
  <2> QED BY <2>1, <2>2, <1>2
<1>4. IsRec(F') /\ F'.region = GivenBack(ms) /\ F'.bits = bits /\ F'.starts = starts
  BY DEF F, IsRec
<1> DEFINE g == F'
           Q == Rests'
<1>5. InOrder(g, objs, Q)
  <2>1. IsRec(g) /\ g.region = GivenBack(ms) /\ g.bits = bits /\ g.starts = starts
    BY <1>4
  <2>2. DOMAIN Q = Held \ ms /\ \A k \in Held \ ms : Q[k] = Rest(k)
    BY <1>3
  <2> HIDE DEF g, Q
  <2> QED BY <2>1, <2>2, GivenFact
<1> QED BY <1>1, <1>2, <1>5

(* A thread in its normal course owns what is left of its buffer. *)
LEMMA OwnFact ==
  ASSUME NEW m \in Mutators, pc[m] # "exiting"
  PROVE  {m} \cap Holding \subseteq Held
BY DEF Held

(* allocate_slow *)
LEMMA AllocateSlowStep ==
  ASSUME SoundInv, fault = "none", NEW m \in Mutators, NEW size \in Sizes, AllocateSlow(m, size)
  PROVE  RegionInv' /\ objs' = objs
<1>1. /\ pc[m] = "run" /\ want' = [want EXCEPT ![m] = size]
      /\ UNCHANGED <<bits, bounds, used, starts, committed, objs, candidate, fault>>
  BY DEF AllocateSlow, MayAllocate
<1>2. size \in Nat /\ TlabSize \in Nat
  BY RegionsAssumption, Powers
<1>3. WantsOK /\ TlabsOK /\ InOrder(F, objs, Rests) /\ candidate \in Indices \cup {NoRegion}
  BY DEF SoundInv
<1>4. CASE size > TlabSize
  <2>1. pc' = [pc EXCEPT ![m] = "shared"] /\ UNCHANGED <<region, tlab>>
    BY <1>4 DEF AllocateSlow
  <2>2. F' = F /\ Holding' = Holding /\ \A k \in Mutators : Rest(k)' = Rest(k)
    BY <1>1, <2>1 DEF F, Holding, Room, Rest
  <2>3. Held' = Held
    BY <1>1, <1>3, <2>1, <2>2 DEF Held, WantsOK
  <2>4. Rests' = Rests
    BY <2>2, <2>3 DEF Rests, Held, Holding
  <2>5. InOrder(F', objs', Rests')
    BY <1>1, <1>3, <2>2, <2>4
  <2>6. TlabsOK'
    BY <1>3, <2>1, <2>2 DEF TlabsOK, Holding
  <2>7. WantsOK'
    BY <1>1, <1>2, <1>3, <2>1 DEF WantsOK
  <2>8. SoundInv' /\ fault' = "none"
    BY <1>1, <1>3, <2>5, <2>6, <2>7 DEF SoundInv
  <2> QED BY <1>1, <2>8, SoundStep
<1>5. CASE ~(size > TlabSize)
  <2>1. pc' = [pc EXCEPT ![m] = "refill"] /\ region' = GivenBack({m}) /\ tlab' = Cleared({m})
    BY <1>5 DEF AllocateSlow, Retire
  <2>2. {m} \cap Holding \subseteq Held
    BY <1>1, OwnFact
  <2>3. \A k \in Mutators \ {m} : pc'[k] = pc[k]
    BY <1>3, <2>1 DEF WantsOK
  <2>4. InOrder(F', objs', Rests') /\ TlabsOK'
    BY <1>1, <2>1, <2>2, <2>3, RetireStep
  <2>5. WantsOK'
    BY <1>1, <1>2, <1>3, <1>5, <2>1 DEF WantsOK
  <2>6. SoundInv' /\ fault' = "none"
    BY <1>1, <1>3, <2>4, <2>5 DEF SoundInv
  <2> QED BY <1>1, <2>6, SoundStep
<1> QED BY <1>4, <1>5

(* A thread ends. *)
LEMMA ExitThreadStep ==
  ASSUME SoundInv, fault = "none", NEW m \in Mutators, ExitThread(m)
  PROVE  RegionInv' /\ objs' = objs
<1>1. /\ pc[m] = "run" /\ pc' = [pc EXCEPT ![m] = "done"]
      /\ region' = GivenBack({m}) /\ tlab' = Cleared({m})
      /\ UNCHANGED <<bits, bounds, used, starts, committed, want, objs, candidate, fault>>
  BY DEF ExitThread, Retire
<1>2. WantsOK /\ candidate \in Indices \cup {NoRegion}
  BY DEF SoundInv
<1>3. {m} \cap Holding \subseteq Held
  BY <1>1, OwnFact
<1>4. \A k \in Mutators \ {m} : pc'[k] = pc[k]
  BY <1>1, <1>2 DEF WantsOK
<1>5. InOrder(F', objs', Rests') /\ TlabsOK'
  BY <1>1, <1>3, <1>4, RetireStep
<1>6. WantsOK'
  BY <1>1, <1>2 DEF WantsOK
<1>7. SoundInv' /\ fault' = "none"
  BY <1>1, <1>2, <1>5, <1>6 DEF SoundInv
<1> QED BY <1>1, <1>7, SoundStep

(* The main thread gives its buffer back, but keeps the pointers. *)
LEMMA MainGivesBackStep ==
  ASSUME SoundInv, fault = "none", NEW m \in Mutators, MainGivesBack(m)
  PROVE  RegionInv' /\ objs' = objs
<1>1. /\ pc[m] = "run" /\ pc' = [pc EXCEPT ![m] = "exiting"] /\ region' = GivenBack({m})
      /\ UNCHANGED <<bits, bounds, used, starts, committed, tlab, want, objs, candidate, fault>>
  BY DEF MainGivesBack
<1>2. WantsOK /\ TlabsOK /\ candidate \in Indices \cup {NoRegion}
  BY DEF SoundInv
<1>3. {m} \cap Holding \subseteq Held
  BY <1>1, OwnFact
<1>4. Holding' = Holding /\ \A k \in Mutators : Rest(k)' = Rest(k)
  BY <1>1 DEF Holding, Room, Rest
<1>5. Held' = Held \ {m}
  BY <1>1, <1>2, <1>4 DEF Held, Holding, WantsOK
<1>6. DOMAIN Rests' = Held \ {m} /\ \A k \in Held \ {m} : Rests'[k] = Rest(k)
  BY <1>4, <1>5 DEF Rests, Held, Holding
<1>7. IsRec(F') /\ F'.region = GivenBack({m}) /\ F'.bits = bits /\ F'.starts = starts
  BY <1>1 DEF F, IsRec
<1> DEFINE g == F'
           Q == Rests'
<1>8. InOrder(g, objs, Q)
  <2>1. IsRec(g) /\ g.region = GivenBack({m}) /\ g.bits = bits /\ g.starts = starts
    BY <1>7
  <2>2. DOMAIN Q = Held \ {m} /\ \A k \in Held \ {m} : Q[k] = Rest(k)
    BY <1>6
  <2> HIDE DEF g, Q
  <2> QED BY <1>3, <2>1, <2>2, GivenFact
<1>9. TlabsOK'
  BY <1>1, <1>2, <1>4 DEF TlabsOK, Holding
<1>10. WantsOK'
  BY <1>1, <1>2 DEF WantsOK
<1>11. SoundInv' /\ fault' = "none"
  BY <1>1, <1>2, <1>8, <1>9, <1>10 DEF SoundInv
<1> QED BY <1>1, <1>11, SoundStep

(* The second half of its retire. *)
LEMMA MainClearsStep ==
  ASSUME SoundInv, fault = "none", NEW m \in Mutators, MainClears(m)
  PROVE  RegionInv' /\ objs' = objs
<1>1. /\ pc[m] = "exiting" /\ pc' = [pc EXCEPT ![m] = "done"] /\ tlab' = [tlab EXCEPT ![m] = NoTlab]
      /\ UNCHANGED <<region, bits, bounds, used, starts, committed, want, objs, candidate, fault>>
  BY DEF MainClears, freeset
<1>2. WantsOK /\ TlabsOK /\ InOrder(F, objs, Rests) /\ candidate \in Indices \cup {NoRegion}
  BY DEF SoundInv
<1>3. tlab' = Cleared({m})
  BY <1>1, <1>2 DEF Cleared, TlabsOK
<1>4. /\ TlabsOK' /\ Holding' = Holding \ {m}
      /\ \A k \in Mutators \ {m} : Rest(k)' = Rest(k)
  BY <1>2, <1>3, ClearedFact
<1>5. Held' = Held
  BY <1>1, <1>2, <1>4 DEF Held, Holding, WantsOK
<1>6. Rests' = Rests
  <2>1. \A k \in Held : k \in Mutators \ {m}
    BY <1>1 DEF Held, Holding
  <2> QED BY <1>4, <1>5, <2>1 DEF Rests
<1>7. F' = F
  BY <1>1 DEF F
<1>8. WantsOK'
  BY <1>1, <1>2 DEF WantsOK
<1>9. SoundInv' /\ fault' = "none"
  BY <1>1, <1>2, <1>4, <1>6, <1>7, <1>8 DEF SoundInv
<1> QED BY <1>1, <1>9, SoundStep

(* A bit more in the record of the free set. *)
LEMMA StartsExcept ==
  ASSUME NEW f, IsRec(f), NEW s
  PROVE  LET g == [f EXCEPT !.starts = s]
         IN IsRec(g) /\ g.region = f.region /\ g.bits = f.bits /\ g.starts = s
<1> DEFINE g == [f EXCEPT !.starts = s]
<1>1. g = [region |-> f.region, bits |-> f.bits, bounds |-> f.bounds, used |-> f.used,
           starts |-> s, committed |-> f.committed]
  BY DEF IsRec
<1> HIDE DEF g
<1>2. IsRec(g) /\ g.region = f.region /\ g.bits = f.bits /\ g.starts = s
  BY <1>1 DEF IsRec
<1> QED BY <1>2 DEF g

\* The request of alloc_inside_tlab_slow.
TlabRequest == [lab |-> TRUE, size |-> TlabSize, min |-> MinTlabSize]

(* It is served from a single region. *)
LEMMA TlabServed ==
  ASSUME SoundInv
  PROVE  /\ Served(F, Allocate(F, TlabRequest), TlabRequest, Covered(Pieces(objs, Rests)))
         /\ TlabRequest.lab = TRUE /\ TlabRequest.size = TlabSize
<1>1. TlabSize \in 1 .. RegionSize /\ MinTlabSize \in Nat \ {0} /\ RegionSize \in Nat
  BY RegionsAssumption, Powers
<1>2. TlabRequest.lab = TRUE /\ TlabRequest.size = TlabSize /\ TlabRequest.min = MinTlabSize
  BY DEF TlabRequest
<1>3. Request(TlabRequest)
  BY <1>1, <1>2 DEF Request
<1>4. Allocate(F, TlabRequest) = AllocateSingle(F, TlabRequest)
  BY <1>1, <1>2 DEF Allocate
<1>5. AllRight(F, Covered(Pieces(objs, Rests)))
  BY DEF SoundInv, InOrder
<1> QED BY <1>2, <1>3, <1>4, <1>5, SingleFact

(* Refill, when there is a buffer for the object. *)
LEMMA RefillServed ==
  ASSUME SoundInv, fault = "none", NEW m \in Mutators, pc[m] = "refill",
         NEW b, NEW f, Served(F, [f |-> f, block |-> b], TlabRequest, Covered(Pieces(objs, Rests))),
         b # NoBlock, want[m] <= b[2],
         pc' = [pc EXCEPT ![m] = "run"], want' = [want EXCEPT ![m] = 0],
         StoreF([f EXCEPT !.starts = @ \cup {b[1]}]),
         tlab' = [tlab EXCEPT ![m] = [start |-> b[1], top |-> b[1] + want[m], end |-> b[1] + b[2]]],
         objs' = objs \cup {<<b[1], want[m]>>}, UNCHANGED <<fault, candidate>>
  PROVE  RegionInv' /\ M!Next
<1>1. WantsOK /\ TlabsOK /\ InOrder(F, objs, Rests) /\ candidate \in Indices \cup {NoRegion}
  BY DEF SoundInv
<1> DEFINE acc == [f |-> f, block |-> b]
           R == [k \in Held \cup {m} |-> IF k = m THEN b ELSE Rest(k)]
           n == want[m]
           h == [f EXCEPT !.starts = @ \cup {b[1]}]
<1>2. acc.f = f /\ acc.block = b
  OBVIOUS
<1>3. n \in Sizes /\ n \in Nat /\ n >= 1
  BY <1>1, RegionsAssumption DEF WantsOK
<1>4. Sized(b) /\ IsRec(f) /\ RegionOf(b[1]) \in Indices /\ BlockIn(b, RegionOf(b[1]))
  <2> HIDE DEF acc
  <2>1. AllRight(acc.f, Covered(Pieces(objs, Rests)) \cup Units(acc.block))
    BY <1>2 DEF Served, acc
  <2>2. Sized(acc.block) /\ RegionOf(acc.block[1]) \in Indices /\ BlockIn(acc.block, RegionOf(acc.block[1]))
    BY <1>2 DEF Served, acc
  <2> QED BY <1>2, <2>1, <2>2 DEF AllRight
<1>5. b[1] \in Nat /\ b[2] \in Nat /\ b[2] >= 1
  BY <1>4, UnitsFact
<1>6. InOrder(f, objs, R)
  <2>1. DOMAIN Rests = Held /\ \A k \in Held : Rests[k] = Rest(k)
    BY DEF Rests
  <2>2. DOMAIN R = DOMAIN Rests \cup {m} /\ R[m] = b /\ \A k \in DOMAIN R \ {m} : R[k] = Rests[k]
    BY <2>1
  <2>3. TlabRequest.lab = TRUE
    BY DEF TlabRequest
  <2>3a. Served(F, acc, TlabRequest, Covered(Pieces(objs, Rests))) /\ acc.block # NoBlock /\ R[m] = acc.block
    BY <2>2
  <2> HIDE DEF R, acc
  <2>4. InOrder(acc.f, objs, R)
    <3>1. DOMAIN R \subseteq DOMAIN Rests \cup {m} /\ m \in DOMAIN R
      BY <2>2
    <3> QED BY <1>1, <2>2, <2>3, <2>3a, <3>1, GrantFact
  <2> QED BY <1>2, <2>4
<1>7. IsRec(h) /\ h.region = f.region /\ h.bits = f.bits /\ h.starts = f.starts \cup {b[1]}
  BY <1>4, StartsExcept
<1>8. F' = h
  BY <1>7, StoreFact
<1>9. /\ tlab'[m] = [start |-> b[1], top |-> b[1] + n, end |-> b[1] + b[2]]
      /\ \A k \in Mutators \ {m} : tlab'[k] = tlab[k]
      /\ tlab' \in [Mutators -> [start : Nat, top : Nat, end : Nat]]
  BY <1>1, <1>3, <1>5 DEF TlabsOK
<1>10. /\ tlab'[m].start = b[1] /\ tlab'[m].top = b[1] + n /\ tlab'[m].end = b[1] + b[2]
  BY <1>9
<1>11. /\ Room(m)' = b[2] - n /\ Rest(m)' = <<b[1] + n, b[2] - n>>
       /\ \A k \in Mutators \ {m} : Room(k)' = Room(k) /\ Rest(k)' = Rest(k)
  <2>1. Room(m)' = b[2] - n
    BY <1>3, <1>5, <1>10 DEF Room
  <2>2. Rest(m)' = <<b[1] + n, b[2] - n>>
    BY <1>10, <2>1 DEF Rest
  <2>3. \A k \in Mutators \ {m} : Room(k)' = Room(k)
    BY <1>9 DEF Room
  <2>4. \A k \in Mutators \ {m} : Rest(k)' = Rest(k)
    BY <1>9, <2>3 DEF Rest
  <2> QED BY <2>1, <2>2, <2>3, <2>4
<1>12. /\ Holding' \subseteq Holding \cup {m} /\ (m \in Holding' => b[2] - n > 0)
  <2>1. m \in Holding' => b[2] - n # 0
    BY <1>11 DEF Holding
  <2>2. Holding' \subseteq Holding \cup {m}
    BY <1>9, <1>11 DEF Holding
  <2> QED BY <2>1, <2>2, <1>3, <1>5
<1>13. Held' \subseteq Held \cup {m}
  BY <1>1, <1>12 DEF Held, WantsOK, Holding
<1>14. /\ DOMAIN Rests' \subseteq DOMAIN R
       /\ \A k \in DOMAIN Rests' \ {m} : Rests'[k] = R[k]
       /\ m \in DOMAIN Rests' => Rests'[m] = <<b[1] + n, b[2] - n>> /\ Rests'[m][2] > 0
  <2>1. DOMAIN Rests' = Held' /\ \A k \in Held' : Rests'[k] = Rest(k)'
    BY DEF Rests
  <2>2. Held' \subseteq Mutators /\ Held' \subseteq Holding'
    BY DEF Held, Holding
  <2>3. \A k \in Held' \ {m} : Rests'[k] = R[k]
    BY <2>1, <2>2, <1>11, <1>13
  <2>4. ASSUME m \in Held' PROVE Rests'[m] = <<b[1] + n, b[2] - n>> /\ Rests'[m][2] > 0
    <3>1. Rests'[m] = <<b[1] + n, b[2] - n>>
      BY <2>1, <2>4, <1>11
    <3> QED BY <3>1, <2>2, <2>4, <1>12
  <2> QED BY <2>1, <2>3, <2>4, <1>13
<1>15. m \in DOMAIN R /\ R[m] = b
  OBVIOUS
<1>16. InOrder(h, objs \cup {<<b[1], n>>}, Rests') /\ \A o \in objs : Units(o) \cap Units(<<b[1], n>>) = {}
  <2> DEFINE Q == Rests'
  <2>1. m \in DOMAIN R /\ R[m] = b /\ n <= R[m][2] /\ h.starts = f.starts \cup {R[m][1]}
    BY <1>7, <1>15
  <2>2. /\ DOMAIN Q \subseteq DOMAIN R /\ \A k \in DOMAIN Q \ {m} : Q[k] = R[k]
        /\ m \in DOMAIN Q => Q[m] = <<R[m][1] + n, R[m][2] - n>> /\ Q[m][2] > 0
    BY <1>14, <1>15
  <2> HIDE DEF Q, R, h, n
  <2>3. InOrder(h, objs \cup {<<R[m][1], n>>}, Q) /\ \A o \in objs : Units(o) \cap Units(<<R[m][1], n>>) = {}
    BY <1>3, <1>6, <1>7, <2>1, <2>2, BumpFact
  <2> QED BY <2>1, <2>3 DEF Q
<1>17. InOrder(F', objs', Rests')
  <2> HIDE DEF h
  <2> QED BY <1>8, <1>16
<1>18. TlabsOK'
  <2>1. \A k \in Mutators : tlab'[k].top <= tlab'[k].end
    <3> TAKE k \in Mutators
    <3>1. CASE k = m
      BY <3>1, <1>3, <1>5, <1>10
    <3>2. CASE k # m
      BY <3>2, <1>1, <1>9 DEF TlabsOK
    <3> QED BY <3>1, <3>2
  <2>2. \A k \in Holding' : LET r == RegionOf(tlab'[k].start)
                            IN r \in Indices /\ Sized(Rest(k)') /\ BlockIn(Rest(k)', r)
    <3> TAKE k \in Holding'
    <3>1. CASE k = m
      <4>1. n <= b[2] /\ b[2] - n > 0
        BY <3>1, <1>12
      <4> DEFINE c == <<b[1] + n, b[2] - n>>
      <4>2. c[2] > 0 => Sized(c) /\ Units(c) \subseteq Units(b)
        BY <4>1, <1>3, <1>4, SplitFact
      <4>3. c[2] = b[2] - n
        OBVIOUS
      <4> HIDE DEF c
      <4>4. Sized(c) /\ Units(c) \subseteq Units(b) /\ Rest(m)' = c
        BY <4>1, <4>2, <4>3, <1>11 DEF c
      <4> QED BY <3>1, <4>4, <1>4, <1>10 DEF BlockIn
    <3>2. CASE k # m
      <4>1. k \in Holding /\ k \in Mutators \ {m}
        BY <3>2, <1>12 DEF Holding
      <4> QED BY <4>1, <1>1, <1>9, <1>11, HomeFact
    <3> QED BY <3>1, <3>2
  <2> QED BY <1>9, <2>1, <2>2 DEF TlabsOK
<1>19. WantsOK'
  BY <1>1 DEF WantsOK
<1>20. SoundInv' /\ fault' = "none"
  BY <1>1, <1>17, <1>18, <1>19 DEF SoundInv
<1>21. M!Next
  BY <1>3, <1>4, <1>5, <1>16, HandOutFact
<1> QED BY <1>20, <1>21, SoundStep

(* alloc_inside_tlab_slow *)
LEMMA RefillStep ==
  ASSUME RegionInv, fault = "none", NEW m \in Mutators, Refill(m)
  PROVE  RegionInv' /\ (M!Next \/ objs' = objs)
<1> DEFINE res == Allocate(F, TlabRequest)
           b == res.block
<1>0. SoundInv
  BY DEF RegionInv
<1>1. /\ Served(F, res, TlabRequest, Covered(Pieces(objs, Rests)))
      /\ TlabRequest.lab = TRUE /\ TlabRequest.size = TlabSize
  BY <1>0, TlabServed
<1>2. pc[m] = "refill" /\ UNCHANGED <<candidate, elastic>>
  BY DEF Refill
<1>3. WantsOK /\ TlabsOK /\ InOrder(F, objs, Rests) /\ candidate \in Indices \cup {NoRegion}
  BY <1>0 DEF SoundInv
<1>4. CASE /\ b = NoBlock /\ pc' = [pc EXCEPT ![m] = "shared"] /\ StoreF(res.f)
           /\ UNCHANGED <<tlab, objs, want, fault>>
  <2>1. InOrder(res.f, objs, Rests)
    BY <1>1, <1>3, <1>4, NothingFact
  <2>2. F' = res.f
    <3>1. IsRec(res.f)
      BY <2>1 DEF InOrder, AllRight
    <3> QED BY <3>1, <1>4, StoreFact
  <2>3. Holding' = Holding /\ \A k \in Mutators : Rest(k)' = Rest(k)
    BY <1>4 DEF Holding, Room, Rest
  <2>4. Held' = Held
    BY <1>2, <1>3, <1>4, <2>3 DEF Held, WantsOK, Holding
  <2>5. Rests' = Rests
    BY <2>3, <2>4 DEF Rests, Held, Holding
  <2>6. TlabsOK'
    BY <1>3, <1>4, <2>3 DEF TlabsOK, Holding
  <2>7. WantsOK'
    BY <1>2, <1>3, <1>4 DEF WantsOK
  <2>8. SoundInv' /\ fault' = "none"
    <3> HIDE DEF res
    <3> QED BY <1>2, <1>3, <1>4, <2>1, <2>2, <2>5, <2>6, <2>7 DEF SoundInv
  <2> QED BY <1>4, <2>8, SoundStep
<1>5. CASE /\ b # NoBlock /\ want[m] <= b[2]
           /\ pc' = [pc EXCEPT ![m] = "run"] /\ want' = [want EXCEPT ![m] = 0]
           /\ StoreF([res.f EXCEPT !.starts = @ \cup {b[1]}])
           /\ tlab' = [tlab EXCEPT ![m] = [start |-> b[1], top |-> b[1] + want[m], end |-> b[1] + b[2]]]
           /\ objs' = objs \cup {<<b[1], want[m]>>} /\ UNCHANGED fault
  <2> DEFINE f == res.f
             acc == [f |-> f, block |-> b]
  <2>1. Served(F, acc, TlabRequest, Covered(Pieces(objs, Rests)))
    <3> HIDE DEF res
    <3> QED BY <1>1 DEF Served
  <2>2. StoreF([f EXCEPT !.starts = @ \cup {b[1]}])
    BY <1>5
  <2>3. /\ b # NoBlock /\ want[m] <= b[2]
        /\ tlab' = [tlab EXCEPT ![m] = [start |-> b[1], top |-> b[1] + want[m], end |-> b[1] + b[2]]]
        /\ objs' = objs \cup {<<b[1], want[m]>>}
    BY <1>5
  <2> HIDE DEF f, b
  <2> QED BY <1>0, <1>2, <1>5, <2>1, <2>2, <2>3, RefillServed
<1>6. CASE /\ b # NoBlock /\ want[m] > b[2] /\ fault' = "overrun"
           /\ UNCHANGED <<region, objs>>
  <2>1. ~elastic => b[2] = TlabSize
    <3> HIDE DEF res
    <3> QED BY <1>1, <1>6 DEF Served
  <2>2. want[m] <= TlabSize /\ want[m] \in Nat /\ TlabSize \in Nat
    BY <1>2, <1>3, RegionsAssumption, Powers DEF WantsOK
  <2>3. elastic
    BY <1>6, <2>1, <2>2
  <2>4. ListsInside'
    BY <1>6 DEF RegionInv, ListsInside
  <2> QED BY <1>2, <1>6, <2>3, <2>4 DEF RegionInv
<1>7. QED
  BY <1>4, <1>5, <1>6 DEF Refill, TlabRequest

\* The outcome of an allocation outside of buffers.
SharedOutcome(res, n) ==
  \/ res.block = NoBlock /\ InOrder(res.f, objs, Rests)
  \/ /\ res.block # NoBlock
     /\ InOrder(res.f, objs \cup {res.block}, Rests)
     /\ \A o \in objs : Units(o) \cap Units(res.block) = {}
     /\ \E a \in Nat : RegionOf(a) \in Indices /\ res.block = <<a, n>>

(* An object gets memory of its own, or none. *)
LEMMA SharedFact ==
  ASSUME SoundInv, NEW n \in Sizes
  PROVE  SharedOutcome(Allocate(F, [lab |-> FALSE, size |-> n, min |-> n]), n)
<1> DEFINE req == [lab |-> FALSE, size |-> n, min |-> n]
           res == Allocate(F, req)
           X == Covered(Pieces(objs, Rests))
<1>1. n \in Nat /\ n >= 1 /\ RegionSize \in Nat
  BY RegionsAssumption, Powers
<1>2. req.lab = FALSE /\ req.size = n /\ req.min = n
  OBVIOUS
<1>3. InOrder(F, objs, Rests) /\ AllRight(F, X)
  BY DEF SoundInv, InOrder
<1> HIDE DEF req, X
<1>4. CASE n <= RegionSize
  <2>1. Request(req)
    <3>1. req.lab \in BOOLEAN
      BY <1>2
    <3>2. req.size \in 1 .. RegionSize /\ req.min \in Nat \ {0}
      BY <1>1, <1>2, <1>4
    <3> QED BY <3>1, <3>2 DEF Request
  <2>2. res = AllocateSingle(F, req)
    BY <1>1, <1>2, <1>4 DEF Allocate
  <2>3. Served(F, res, req, X)
    BY <1>3, <2>1, <2>2, SingleFact
  <2> HIDE DEF res
  <2>4. CASE res.block = NoBlock
    <3>1. InOrder(res.f, objs, Rests)
      BY <1>3, <2>3, <2>4, NothingFact DEF X
    <3> QED BY <2>4, <3>1 DEF SharedOutcome, res, req
  <2>5. CASE res.block # NoBlock
    <3>1. /\ InOrder(res.f, objs \cup {res.block}, Rests) /\ res.block[2] = n
          /\ \A o \in objs : Units(o) \cap Units(res.block) = {}
      <4>1. req.lab = FALSE
        BY <1>2
      <4>2. req.size = n /\ req.size \in Sizes
        BY <1>2
      <4>3. Served(F, res, req, Covered(Pieces(objs, Rests)))
        BY <2>3 DEF X
      <4>4. /\ InOrder(res.f, objs \cup {res.block}, Rests) /\ res.block[2] = req.size
            /\ \A o \in objs : Units(o) \cap Units(res.block) = {}
        BY <1>3, <2>5, <4>1, <4>2, <4>3, SmallFact, ZenonT(30)
      <4> QED BY <4>2, <4>4
    <3>2. RegionOf(res.block[1]) \in Indices /\ Sized(res.block)
      BY <2>3, <2>5 DEF Served
    <3>3. res.block = <<res.block[1], n>> /\ res.block[1] \in Nat
      BY <3>1, <3>2, UnitsFact
    <3> QED BY <2>5, <3>1, <3>2, <3>3 DEF SharedOutcome, res, req
  <2> QED BY <2>4, <2>5
<1>5. CASE ~(n <= RegionSize)
  <2>1. n > RegionSize
    BY <1>1, <1>5
  <2>2. res = AllocateContiguous(F, n)
    BY <1>2, <2>1 DEF Allocate
  <2>3. ServedLarge(F, res, n, X)
    BY <1>1, <1>3, <2>2, ContiguousFact
  <2> HIDE DEF res
  <2>4. CASE res.block = NoBlock
    <3>1. InOrder(res.f, objs, Rests)
      <4>1. res.f = F
        BY <2>3, <2>4, <1>1 DEF ServedLarge, NoBlock
      <4> QED BY <1>3, <4>1
    <3> QED BY <2>4, <3>1 DEF SharedOutcome, res, req
  <2>5. CASE res.block # NoBlock
    <3>1. /\ InOrder(res.f, objs \cup {res.block}, Rests)
          /\ \A o \in objs : Units(o) \cap Units(res.block) = {}
          /\ \E r \in Indices : res.block = <<Bottom(r), n>>
      BY <1>3, <2>1, <2>3, <2>5, LargeFact DEF X
    <3>2. PICK r \in Indices : res.block = <<Bottom(r), n>>
      BY <3>1
    <3>3. Bottom(r) \in Nat /\ RegionOf(Bottom(r)) = r
      <4>1. r \in Nat /\ RegionSize >= 1
        BY Powers DEF Indices
      <4>2. Bottom(r) \in Nat
        BY <1>1, <4>1 DEF Bottom
      <4> QED BY <1>1, <4>1, <4>2, RegionOfFact
    <3> QED BY <2>5, <3>1, <3>2, <3>3 DEF SharedOutcome, res, req
  <2> QED BY <2>4, <2>5
<1> QED BY <1>4, <1>5

(* allocate_outside_tlab *)
LEMMA AllocateSharedStep ==
  ASSUME SoundInv, fault = "none", NEW m \in Mutators, AllocateShared(m)
  PROVE  RegionInv' /\ (M!Next \/ objs' = objs)
<1> DEFINE res == Allocate(F, [lab |-> FALSE, size |-> want[m], min |-> want[m]])
<1>1. /\ pc[m] = "shared" /\ pc' = [pc EXCEPT ![m] = "run"] /\ want' = [want EXCEPT ![m] = 0]
      /\ StoreF(res.f) /\ objs' = (IF res.block = NoBlock THEN objs ELSE objs \cup {res.block})
      /\ UNCHANGED <<tlab, candidate, fault>>
  BY DEF AllocateShared
<1>2. WantsOK /\ TlabsOK /\ candidate \in Indices \cup {NoRegion}
  BY DEF SoundInv
<1>3. want[m] \in Sizes
  BY <1>1, <1>2 DEF WantsOK
<1>4. SharedOutcome(res, want[m])
  BY <1>3, SharedFact
<1> HIDE DEF res
<1>5. InOrder(res.f, objs', Rests)
  BY <1>1, <1>4 DEF SharedOutcome
<1>6. F' = res.f
  <2>1. IsRec(res.f)
    BY <1>5 DEF InOrder, AllRight
  <2> QED BY <2>1, <1>1, StoreFact
<1>7. Holding' = Holding /\ \A k \in Mutators : Rest(k)' = Rest(k)
  BY <1>1 DEF Holding, Room, Rest
<1>8. Held' = Held
  BY <1>1, <1>2, <1>7 DEF Held, WantsOK, Holding
<1>9. Rests' = Rests
  BY <1>7, <1>8 DEF Rests, Held, Holding
<1>10. TlabsOK'
  BY <1>1, <1>2, <1>7 DEF TlabsOK, Holding
<1>11. WantsOK'
  BY <1>1, <1>2 DEF WantsOK
<1>12. SoundInv' /\ fault' = "none"
  BY <1>1, <1>2, <1>5, <1>6, <1>9, <1>10, <1>11 DEF SoundInv
<1>13. M!Next \/ objs' = objs
  <2>1. CASE res.block = NoBlock
    BY <1>1, <2>1
  <2>2. CASE res.block # NoBlock
    <3>1. PICK a \in Nat : RegionOf(a) \in Indices /\ res.block = <<a, want[m]>>
      BY <1>4, <2>2 DEF SharedOutcome
    <3> QED BY <1>1, <1>3, <1>4, <2>2, <3>1, HandOutFact DEF SharedOutcome
  <2> QED BY <2>1, <2>2
<1> QED BY <1>12, <1>13, SoundStep

-----------------------------------------------------------------------------
(*****************************************************************************)
(* The steps of the collector and of the controller.                         *)
(*****************************************************************************)

(* The pause that begins a marking. *)
LEMMA InitMarkStep ==
  ASSUME SoundInv, fault = "none", InitMark
  PROVE  RegionInv' /\ objs' = objs
<1>1. /\ region' = GivenBack(Mutators) /\ tlab' = Cleared(Mutators)
      /\ fault' = (IF \E m \in Holding : pc[m] = "exiting" THEN "retiredTwice" ELSE fault)
      /\ UNCHANGED <<bits, bounds, used, starts, committed, want, pc, objs, candidate>>
  BY DEF InitMark, RetireAll, Retire
<1>2. WantsOK /\ candidate \in Indices \cup {NoRegion}
  BY DEF SoundInv
<1>3. CASE \E m \in Holding : pc[m] = "exiting"
  <2>1. ListsInside'
    BY <1>1, GivenInside DEF ListsInside
  <2>2. fault' = "retiredTwice"
    BY <1>1, <1>3
  <2> QED BY <1>1, <2>1, <2>2 DEF RegionInv
<1>4. CASE ~\E m \in Holding : pc[m] = "exiting"
  <2>1. Mutators \cap Holding \subseteq Held
    BY <1>4 DEF Held
  <2>2. InOrder(F', objs', Rests') /\ TlabsOK'
    BY <1>1, <2>1, RetireStep
  <2>3. WantsOK'
    BY <1>1, <1>2 DEF WantsOK
  <2>4. SoundInv' /\ fault' = "none"
    BY <1>1, <1>2, <1>4, <2>2, <2>3 DEF SoundInv
  <2> QED BY <1>1, <2>4, SoundStep
<1> QED BY <1>3, <1>4

(* The records and lists of PrepareUnswept. *)
LEMMA PreparedFact ==
  ASSUME NEW regs, \A r \in Indices : regs[r] = [typ |-> regs[r].typ, list |-> regs[r].list,
                                                 sweep |-> regs[r].sweep, large |-> regs[r].large],
         PrepareUnswept(regs)
  PROVE  \A r \in Indices : region'[r].list = regs[r].list
<1> TAKE r \in Indices
<1> DEFINE g == regs[r]
           w == g.sweep \/ ToSweep(g)
<1>1. region'[r] = [g EXCEPT !.sweep = w]
  BY DEF PrepareUnswept
<1>2. g = [typ |-> g.typ, list |-> g.list, sweep |-> g.sweep, large |-> g.large]
  OBVIOUS
<1> HIDE DEF g, w
<1>3. region'[r] = [typ |-> g.typ, list |-> g.list, sweep |-> w, large |-> g.large]
  BY <1>1, <1>2, SweepExcept
<1>4. region'[r].list = g.list
  BY <1>3
<1> QED BY <1>4 DEF g

(* A region with something given back is a record of the same kind. *)
LEMMA GivenRecord ==
  ASSUME SoundInv, NEW ms, NEW r \in Indices
  PROVE  LET g == GivenBack(ms)[r]
         IN g = [typ |-> g.typ, list |-> g.list, sweep |-> g.sweep, large |-> g.large]
<1> DEFINE o == region[r]
           l == AddAll(o.list, RestsAt(ms, r))
           g == GivenBack(ms)[r]
<1>1. RegionOK(o, r, Covered(Pieces(objs, Rests)), starts)
  BY FFact DEF SoundInv, InOrder, AllRight
<1>2. o = [typ |-> o.typ, list |-> o.list, sweep |-> o.sweep, large |-> o.large]
  BY <1>1 DEF RegionOK
<1>3. g = [o EXCEPT !.list = l]
  BY DEF GivenBack, RestsAt
<1> HIDE DEF o, l, g
<1>4. g = [typ |-> o.typ, list |-> l, sweep |-> o.sweep, large |-> o.large]
  BY <1>2, <1>3, ListExcept
<1>5. g.typ = o.typ /\ g.list = l /\ g.sweep = o.sweep /\ g.large = o.large
  BY <1>4
<1>6. g = [typ |-> g.typ, list |-> g.list, sweep |-> g.sweep, large |-> g.large]
  BY <1>4, <1>5
<1> QED BY <1>6 DEF g

(* Final Mark: buffers are retired, objects die, regions wait for their sweep. *)
LEMMA FinalMarkStep ==
  ASSUME SoundInv, fault = "none", NEW live \in SUBSET objs, FinalMark(live)
  PROVE  RegionInv' /\ objs' \subseteq objs
<1> DEFINE regs == GivenBack(Mutators)
<1>1. /\ PrepareUnswept(regs) /\ tlab' = Cleared(Mutators) /\ objs' = live
      /\ fault' = (IF \E m \in Holding : pc[m] = "exiting" THEN "retiredTwice" ELSE fault)
      /\ UNCHANGED <<bounds, used, starts, committed, want, pc, candidate>>
  BY DEF FinalMark
<1>2. WantsOK /\ TlabsOK /\ candidate \in Indices \cup {NoRegion}
  BY DEF SoundInv
<1>3. CASE \E m \in Holding : pc[m] = "exiting"
  <2>1. \A r \in Indices : regs[r] = [typ |-> regs[r].typ, list |-> regs[r].list,
                                      sweep |-> regs[r].sweep, large |-> regs[r].large]
    BY GivenRecord
  <2>2. \A r \in Indices : \A b \in Entries(regs[r].list) : BlockIn(b, r)
    BY GivenInside
  <2> HIDE DEF regs
  <2>3. \A r \in Indices : region'[r].list = regs[r].list
    BY <1>1, <2>1, PreparedFact
  <2>4. ListsInside'
    BY <2>2, <2>3 DEF ListsInside
  <2>5. fault' = "retiredTwice"
    BY <1>1, <1>3
  <2> QED BY <1>1, <2>4, <2>5 DEF RegionInv
<1>4. CASE ~\E m \in Holding : pc[m] = "exiting"
  <2> DEFINE f == [region |-> regs, bits |-> bits, bounds |-> bounds, used |-> used,
                   starts |-> starts, committed |-> committed]
             none == [m \in {} |-> NoBlock]
  <2>1. IsRec(f) /\ f.region = regs /\ f.bits = bits /\ f.starts = starts
    BY DEF IsRec
  <2>2. Mutators \cap Holding \subseteq Held /\ Held \ Mutators = {}
    BY <1>4 DEF Held, Holding
  <2>3. DOMAIN none = Held \ Mutators /\ \A m \in Held \ Mutators : none[m] = Rest(m)
    BY <2>2
  <2>4. InOrder(f, objs, none)
    <3> HIDE DEF f, none
    <3> QED BY <2>1, <2>2, <2>3, GivenFact
  <2>5. InOrder(f, live, none)
    <3> HIDE DEF f
    <3> QED BY <2>4, ShrinkFact
  <2>6. Closed(f, F')
    <3>1. region' = [r \in Indices |-> [regs[r] EXCEPT !.sweep = @ \/ ToSweep(regs[r])]]
      BY <1>1 DEF PrepareUnswept
    <3>2. bits' = {r \in bits : ~ToSweep(regs[r])}
      BY <1>1 DEF PrepareUnswept
    <3>3. F'.region = region' /\ F'.bits = bits' /\ F'.starts = starts' /\ IsRec(F')
      BY DEF F, IsRec
    <3> HIDE DEF f, regs
    <3> QED BY <2>1, <3>1, <3>2, <3>3, <1>1 DEF Closed
  <2>7. /\ TlabsOK' /\ Holding' = Holding \ Mutators
    BY <1>1, <1>2, ClearedFact
  <2>8. Rests' = none
    <3>1. Held' = {}
      BY <2>7 DEF Held, Holding
    <3> QED BY <3>1 DEF Rests
  <2>9. InOrder(F', live, none)
    <3>1. DOMAIN none = {}
      OBVIOUS
    <3> HIDE DEF f, none
    <3> DEFINE g == F'
    <3>2. Closed(f, g)
      BY <2>6
    <3> HIDE DEF g
    <3>3. InOrder(g, live, none)
      BY <2>5, <3>1, <3>2, CloseFact
    <3> QED BY <3>3 DEF g
  <2>10. InOrder(F', objs', Rests')
    BY <1>1, <2>8, <2>9
  <2>11. WantsOK'
    BY <1>1, <1>2 DEF WantsOK
  <2>12. SoundInv' /\ fault' = "none"
    BY <1>1, <1>2, <1>4, <2>7, <2>10, <2>11 DEF SoundInv
  <2> QED BY <1>1, <2>12, SoundStep
<1> QED BY <1>3, <1>4

(* The collector's steps leave threads alone. *)
LEMMA ThreadsStay ==
  ASSUME SoundInv, UNCHANGED <<tlab, want, pc>>
  PROVE  TlabsOK' /\ WantsOK' /\ Rests' = Rests
<1>1. WantsOK /\ TlabsOK
  BY DEF SoundInv
<1>2. Holding' = Holding /\ \A k \in Mutators : Rest(k)' = Rest(k)
  BY DEF Holding, Room, Rest
<1>3. Held' = Held
  BY <1>2 DEF Held
<1>4. Rests' = Rests
  BY <1>2, <1>3 DEF Rests, Held, Holding
<1>5. TlabsOK'
  BY <1>1, <1>2 DEF TlabsOK, Holding
<1>6. WantsOK'
  BY <1>1 DEF WantsOK
<1> QED BY <1>4, <1>5, <1>6

(* A region is swept. *)
LEMMA SweepStep ==
  ASSUME SoundInv, fault = "none", NEW r \in Indices, SweepRegion(r)
  PROVE  RegionInv' /\ objs' = objs
<1>1. /\ region[r].sweep /\ (SweepRegular(r) \/ SweepHumongous(r))
      /\ UNCHANGED <<bits, bounds, used, committed, tlab, want, pc, objs, candidate, fault>>
  BY DEF SweepRegion
<1>2. InOrder(F, objs, Rests) /\ candidate \in Indices \cup {NoRegion}
  BY DEF SoundInv
<1>3. TlabsOK' /\ WantsOK' /\ Rests' = Rests
  BY <1>1, ThreadsStay
<1> DEFINE g == F'
           R == Rests
<1>4. IsRec(g) /\ g.region = region' /\ g.bits = bits /\ g.starts = starts'
  BY <1>1 DEF F, IsRec
<1>5. F.region = region /\ F.starts = starts /\ F.bits = bits
  BY FFact
<1>6. CASE SweepRegular(r)
  <2>1. /\ F.region[r].typ = "Regular" /\ F.region[r].sweep
    BY <1>1, <1>5, <1>6 DEF SweepRegular
  <2>2. SweptTo(F, g, r)
    <3>1. g.region = [F.region EXCEPT ![r] =
            [typ |-> IF \E o \in objs : InRegion(o, r) THEN "Regular" ELSE "Trash",
             list |-> SweptList(r), sweep |-> FALSE, large |-> 0]]
      BY <1>4, <1>5, <1>6 DEF SweepRegular
    <3>2. g.starts = {a \in F.starts : RegionOf(a) # r} \cup {o[1] : o \in {x \in objs : InRegion(x, r)}}
      BY <1>4, <1>5, <1>6 DEF SweepRegular, SweptStarts
    <3> HIDE DEF g
    <3> QED BY <1>4, <1>5, <3>1, <3>2 DEF SweptTo
  <2>3. InOrder(g, objs, R)
    <3> HIDE DEF g
    <3> QED BY <1>2, <2>1, <2>2, SweepRegularFact
  <2>4. SoundInv' /\ fault' = "none"
    BY <1>1, <1>2, <1>3, <2>3 DEF SoundInv
  <2> QED BY <1>1, <2>4, SoundStep
<1>7. CASE SweepHumongous(r)
  <2>1. F.region[r].typ = "HumongousStart"
    BY <1>5, <1>7 DEF SweepHumongous
  <2>2. TrashSpan(r) = Span(r, F)
    BY <1>5 DEF TrashSpan, Span
  <2>3. SweptLarge(F, g, r)
    <3> DEFINE live == \E o \in objs : o[1] = Bottom(r)
    <3>1. g.region = [i \in Indices |->
            [F.region[i] EXCEPT
               !.typ = IF ~live /\ i \in TrashSpan(r) THEN "Trash" ELSE @,
               !.sweep = IF i = r THEN FALSE ELSE @]]
      BY <1>4, <1>5, <1>7 DEF SweepHumongous
    <3>2. g.starts = F.starts
      BY <1>4, <1>5, <1>7 DEF SweepHumongous
    <3> HIDE DEF g
    <3> QED BY <1>4, <1>5, <2>2, <3>1, <3>2 DEF SweptLarge
  <2>4. InOrder(g, objs, R)
    <3> HIDE DEF g
    <3> QED BY <1>2, <2>1, <2>3, SweepLargeFact
  <2>5. SoundInv' /\ fault' = "none"
    BY <1>1, <1>2, <1>3, <2>4 DEF SoundInv
  <2> QED BY <1>1, <2>5, SoundStep
<1> QED BY <1>1, <1>6, <1>7

(* The sweep is cut short, or a region is looked at: nothing happens to memory. *)
LEMMA QuietStep ==
  ASSUME SoundInv, fault = "none",
         CancelSweep \/ \E r \in Indices : UncommitLook(r)
  PROVE  RegionInv' /\ objs' = objs
<1>1. /\ UNCHANGED <<region, bits, bounds, used, starts, committed, tlab, want, pc, objs, fault>>
      /\ candidate' \in Indices \cup {NoRegion}
  BY DEF CancelSweep, UncommitLook, freeset, SoundInv
<1>2. F' = F
  BY <1>1 DEF F
<1>3. TlabsOK' /\ WantsOK' /\ Rests' = Rests
  BY <1>1, ThreadsStay
<1>4. SoundInv' /\ fault' = "none"
  BY <1>1, <1>2, <1>3 DEF SoundInv
<1> QED BY <1>1, <1>4, SoundStep

(* The end of a sweep opens the regions. *)
LEMMA FinishSweepStep ==
  ASSUME SoundInv, fault = "none", FinishSweep
  PROVE  RegionInv' /\ objs' = objs
<1> DEFINE free == {r \in Indices : /\ IsAllocAllowed(F.region[r]) \/ F.region[r].typ = "Trash"
                                    /\ AllocCapacity(F.region[r]) # 0}
           h == [F EXCEPT !.bits = free]
           h2 == [h EXCEPT !.used = 0]
           bd == AdjustBounds(FullRange, free)
           g == Rebuilt(F)
<1>1. /\ \A r \in Indices : ~region[r].sweep
      /\ StoreF(g) /\ UNCHANGED <<tlab, want, pc, objs, candidate, fault>>
  BY DEF FinishSweep
<1>2. InOrder(F, objs, Rests) /\ candidate \in Indices \cup {NoRegion}
  BY DEF SoundInv
<1>3. g = [h2 EXCEPT !.bounds = bd]
  BY DEF Rebuilt
<1>4. \A r \in free : r \in Indices /\ F.region[r].typ \in Open
  BY DEF IsAllocAllowed, IsEmpty, Open
<1> HIDE DEF free, bd, g
<1>5. h = [region |-> region, bits |-> free, bounds |-> bounds, used |-> used, starts |-> starts, committed |-> committed]
  BY DEF F
<1> HIDE DEF h
<1>6. h2 = [region |-> region, bits |-> free, bounds |-> bounds, used |-> 0, starts |-> starts, committed |-> committed]
  BY <1>5
<1> HIDE DEF h2
<1>7. g = [region |-> region, bits |-> free, bounds |-> bd, used |-> 0, starts |-> starts, committed |-> committed]
  BY <1>3, <1>6
<1>8. IsRec(g) /\ g.region = region /\ g.bits = free /\ g.starts = starts
  BY <1>7 DEF IsRec
<1>9. InOrder(g, objs, Rests)
  <2>1. F.region = region /\ F.starts = starts
    BY FFact
  <2>2. \A r \in g.bits : r \in Indices /\ g.region[r].typ \in Open /\ ~g.region[r].sweep
    BY <1>1, <1>4, <1>8, <2>1
  <2> QED BY <1>2, <1>8, <2>1, <2>2, RebuildFact
<1>10. F' = g
  BY <1>1, <1>8, StoreFact
<1>11. TlabsOK' /\ WantsOK' /\ Rests' = Rests
  BY <1>1, ThreadsStay
<1>12. SoundInv' /\ fault' = "none"
  BY <1>1, <1>2, <1>9, <1>10, <1>11 DEF SoundInv
<1> QED BY <1>1, <1>12, SoundStep

(* entry_uncommit, with the lock. *)
LEMMA UncommitStep ==
  ASSUME SoundInv, fault = "none", UncommitLocked
  PROVE  RegionInv' /\ objs' = objs
<1> DEFINE r == candidate
           stay == region[r].typ = "EmptyCommited" /\ committed < MinRegions + 1
<1>1. /\ candidate' = NoRegion /\ candidate # NoRegion
      /\ UNCHANGED <<bits, bounds, used, starts, tlab, want, pc, objs>>
      /\ fault' = (IF ~stay /\ region[r].typ # "EmptyCommited" THEN "decommitted" ELSE fault)
      /\ stay => UNCHANGED <<region, committed>>
      /\ ~stay => region' = [region EXCEPT ![r].typ = "EmptyUncommited", ![r].list = EmptyList]
  BY DEF UncommitLocked
<1>2. InOrder(F, objs, Rests) /\ candidate \in Indices
  BY <1>1 DEF SoundInv
<1>3. TlabsOK' /\ WantsOK' /\ Rests' = Rests
  BY <1>1, ThreadsStay
<1>4. F.region = region /\ F.starts = starts /\ F.bits = bits
  BY FFact
<1>5. CASE stay
  <2>1. F' = F
    BY <1>1, <1>5 DEF F
  <2>2. SoundInv' /\ fault' = "none"
    BY <1>1, <1>2, <1>3, <1>5, <2>1 DEF SoundInv
  <2> QED BY <1>1, <2>2, SoundStep
<1>6. CASE ~stay /\ region[r].typ = "EmptyCommited"
  <2> DEFINE g == F'
             q == candidate
  <2>1. /\ IsRec(g) /\ g.bits = F.bits /\ g.starts = F.starts
        /\ g.region = [F.region EXCEPT ![q].typ = "EmptyUncommited", ![q].list = EmptyList]
    <3>1. IsRec(g) /\ g.bits = bits' /\ g.starts = starts' /\ g.region = region'
      BY DEF F, IsRec
    <3> HIDE DEF g
    <3> QED BY <1>1, <1>4, <1>6, <3>1
  <2>2. F.region[q].typ = "EmptyCommited" /\ q \in Indices
    BY <1>2, <1>4, <1>6
  <2>3. InOrder(g, objs, Rests)
    <3> HIDE DEF g, q
    <3> QED BY <1>2, <2>1, <2>2, DecommitFact
  <2>4. SoundInv' /\ fault' = "none"
    BY <1>1, <1>3, <1>6, <2>3 DEF SoundInv
  <2> QED BY <1>1, <2>4, SoundStep
<1>7. CASE ~stay /\ region[r].typ # "EmptyCommited"
  <2>1. fault' = "decommitted"
    BY <1>1, <1>7
  <2>2. region = [q \in Indices |-> region[q]]
    BY <1>2, <1>4 DEF InOrder, AllRight
  <2>3. \A q \in Indices : region'[q].list = region[q].list \/ region'[q].list = EmptyList
    <3> DEFINE h == [region EXCEPT ![r].typ = "EmptyUncommited"]
    <3>1. region' = [h EXCEPT ![r].list = EmptyList]
      BY <1>1, <1>7
    <3>2. h[r] = [region[r] EXCEPT !.typ = "EmptyUncommited"] /\ h = [q \in Indices |-> h[q]]
          /\ \A q \in Indices : q # r => h[q] = region[q]
      BY <1>2, <2>2
    <3>3. h[r] = [typ |-> "EmptyUncommited", list |-> region[r].list, sweep |-> region[r].sweep, large |-> region[r].large]
      <4>1. region[r] = [typ |-> region[r].typ, list |-> region[r].list, sweep |-> region[r].sweep, large |-> region[r].large]
        BY <1>2, <1>4 DEF InOrder, AllRight, RegionOK
      <4> HIDE DEF h, r
      <4> QED BY <3>2, <4>1
    <3> HIDE DEF h
    <3>4. region'[r] = [h[r] EXCEPT !.list = EmptyList] /\ \A q \in Indices : q # r => region'[q] = h[q]
      BY <1>2, <3>1, <3>2
    <3>5. region'[r] = [typ |-> "EmptyUncommited", list |-> EmptyList, sweep |-> region[r].sweep, large |-> region[r].large]
      BY <3>3, <3>4
    <3>6. region'[r].list = EmptyList
      BY <3>5
    <3> QED BY <3>2, <3>4, <3>6
  <2>4. \A q \in Indices : \A b \in Entries(region[q].list) : BlockIn(b, q)
    BY <1>2, <1>4, InsideLists
  <2>5. ListsInside'
    BY <2>3, <2>4, EmptyListFact DEF ListsInside
  <2> QED BY <1>1, <2>1, <2>5 DEF RegionInv
<1> QED BY <1>5, <1>6, <1>7

-----------------------------------------------------------------------------
(*****************************************************************************)
(* All steps.                                                                *)
(*****************************************************************************)

(* The heap begins with empty regions. *)
LEMMA InitSound ==
  ASSUME Init
  PROVE  RegionInv
<1> DEFINE X == Covered(Pieces(objs, Rests))
<1>1. /\ F.region = region /\ F.bits = Indices /\ F.starts = {} /\ IsRec(F)
  BY FFact DEF Init
<1>2. \A r \in Indices : region[r] = [typ |-> IF r < InitialRegions THEN "EmptyCommited" ELSE "EmptyUncommited",
                                      list |-> EmptyList, sweep |-> FALSE, large |-> 0]
  BY DEF Init
<1>3. \A r \in Indices :
        /\ region[r].typ \in {"EmptyCommited", "EmptyUncommited"} /\ region[r].list = EmptyList
        /\ region[r].sweep = FALSE /\ region[r].large = 0
        /\ region[r] = [typ |-> region[r].typ, list |-> region[r].list, sweep |-> region[r].sweep, large |-> region[r].large]
  <2> TAKE r \in Indices
  <2> DEFINE t == IF r < InitialRegions THEN "EmptyCommited" ELSE "EmptyUncommited"
  <2>1. region[r] = [typ |-> t, list |-> EmptyList, sweep |-> FALSE, large |-> 0]
    BY <1>2
  <2>2. t \in {"EmptyCommited", "EmptyUncommited"}
    OBVIOUS
  <2> HIDE DEF t
  <2>3. region[r].typ = t /\ region[r].list = EmptyList /\ region[r].sweep = FALSE /\ region[r].large = 0
    BY <2>1
  <2>4. region[r] = [typ |-> region[r].typ, list |-> region[r].list, sweep |-> region[r].sweep, large |-> region[r].large]
    BY <2>1, <2>3
  <2> QED BY <2>2, <2>3, <2>4
<1>4. \A m \in Mutators : tlab[m] = NoTlab /\ tlab[m].end = 0 /\ tlab[m].top = 0
  BY DEF Init, NoTlab
<1>5. Holding = {} /\ Held = {}
  BY <1>4 DEF Holding, Held
<1>6. DOMAIN Rests = {} /\ objs = {}
  BY <1>5 DEF Rests, Init
<1>7. X = {}
  BY <1>6, PieceFact
<1> HIDE DEF X
<1>8. \A r \in Indices : RegionOK(region[r], r, X, {})
  <2> TAKE r \in Indices
  <2> DEFINE g == region[r]
  <2>1. /\ g.typ \in {"EmptyCommited", "EmptyUncommited"} /\ g.list = EmptyList
        /\ g.sweep = FALSE /\ g.large = 0
        /\ g = [typ |-> g.typ, list |-> g.list, sweep |-> g.sweep, large |-> g.large]
    BY <1>3
  <2> HIDE DEF g
  <2>2a. g.typ \in States /\ g.large \in Nat
    BY <2>1 DEF States
  <2>2b. g.sweep \in BOOLEAN
    <3>1. g.sweep = FALSE
      BY <2>1
    <3> QED BY <3>1, Zenon
  <2>2. g.typ \in States /\ g.sweep \in BOOLEAN /\ g.large \in Nat
    BY <2>2a, <2>2b
  <2>3. ListOK(g.list) /\ Entries(g.list) = {} /\ Apart({})
    BY <2>1, EmptyListFact DEF Apart
  <2>4. RegionOK(g, r, X, {})
    BY <2>1, <2>2, <2>3, <1>7 DEF RegionOK
  <2> QED BY <2>4 DEF g
<1>9. AllRight(F, X)
  <2>1. region = [r \in Indices |-> region[r]]
    BY DEF Init
  <2>2. \A r \in F.bits : F.region[r].typ \in Open /\ ~F.region[r].sweep
    BY <1>1, <1>3 DEF Open
  <2> QED BY <1>1, <1>8, <2>1, <2>2 DEF AllRight
<1>10. Shape(F)
  <2>1. \A r \in Indices : F.region[r].typ \notin {"HumongousStart", "HumongousCont"} /\ ~F.region[r].sweep
    BY <1>1, <1>3
  <2> QED BY <2>1 DEF Shape, SpansOK, ContsOK, SweepsOK
<1>11. InOrder(F, objs, Rests)
  BY <1>6, <1>9, <1>10 DEF InOrder, PiecesApart, X
<1>12. TlabsOK
  <2>1. tlab \in [Mutators -> [start : Nat, top : Nat, end : Nat]]
    BY DEF Init, NoTlab
  <2> QED BY <1>4, <1>5, <2>1 DEF TlabsOK
<1>13. WantsOK /\ candidate \in Indices \cup {NoRegion}
  BY DEF Init, WantsOK
<1>14. ListsInside
  BY <1>3, EmptyListFact DEF ListsInside
<1> QED BY <1>11, <1>12, <1>13, <1>14 DEF RegionInv, SoundInv, Init

(* Every step keeps the invariant, and is a step of Memory or none. *)
LEMMA StepSound ==
  ASSUME RegionInv, [Next]_vars
  PROVE  RegionInv' /\ [M!Next]_objs
<1>1. CASE UNCHANGED vars
  <2>1. UNCHANGED <<region, bits, bounds, used, starts, committed, tlab, want, pc, objs, candidate, elastic, fault>>
    BY <1>1 DEF vars, freeset
  <2>2. F' = F /\ Rests' = Rests /\ Holding' = Holding /\ \A m \in Mutators : Rest(m)' = Rest(m)
    BY <2>1 DEF F, Rests, Held, Holding, Rest, Room
  <2>3. TlabsOK => TlabsOK'
    BY <2>1, <2>2 DEF TlabsOK, Holding
  <2>4. WantsOK => WantsOK'
    BY <2>1 DEF WantsOK
  <2>5. SoundInv => SoundInv'
    BY <2>1, <2>2, <2>3, <2>4 DEF SoundInv
  <2>6. ListsInside => ListsInside'
    BY <2>1 DEF ListsInside
  <2> QED BY <2>1, <2>5, <2>6 DEF RegionInv
<1>2. ASSUME Next PROVE RegionInv' /\ [M!Next]_objs
  <2>1. fault = "none" /\ SoundInv
    BY <1>2 DEF Next, RegionInv
  <2>2. ASSUME NEW m \in Mutators, Mutator(m) PROVE RegionInv' /\ [M!Next]_objs
    <3>1. ASSUME NEW size \in Sizes, AllocateInTlab(m, size) PROVE RegionInv' /\ [M!Next]_objs
      BY <2>1, <3>1, AllocateInTlabStep
    <3>2. ASSUME NEW size \in Sizes, AllocateSlow(m, size) PROVE RegionInv' /\ [M!Next]_objs
      BY <2>1, <3>2, AllocateSlowStep
    <3>3. CASE Refill(m)
      BY <2>1, <3>3, RefillStep
    <3>4. CASE AllocateShared(m)
      BY <2>1, <3>4, AllocateSharedStep
    <3>5. CASE ExitThread(m)
      BY <2>1, <3>5, ExitThreadStep
    <3>6. CASE MainGivesBack(m)
      BY <2>1, <3>6, MainGivesBackStep
    <3>7. CASE MainClears(m)
      BY <2>1, <3>7, MainClearsStep
    <3> QED BY <2>2, <3>1, <3>2, <3>3, <3>4, <3>5, <3>6, <3>7 DEF Mutator
  <2>3. CASE InitMark
    BY <2>1, <2>3, InitMarkStep
  <2>4. ASSUME NEW live \in SUBSET objs, FinalMark(live) PROVE RegionInv' /\ [M!Next]_objs
    <3>1. RegionInv' /\ objs' \subseteq objs
      BY <2>1, <2>4, FinalMarkStep
    <3> QED BY <3>1 DEF M!Next, M!TakeBack
  <2>5. ASSUME NEW r \in Indices, SweepRegion(r) PROVE RegionInv' /\ [M!Next]_objs
    BY <2>1, <2>5, SweepStep
  <2>6. ASSUME CancelSweep \/ \E r \in Indices : UncommitLook(r) PROVE RegionInv' /\ [M!Next]_objs
    BY <2>1, <2>6, QuietStep
  <2>7. CASE FinishSweep
    BY <2>1, <2>7, FinishSweepStep
  <2>8. CASE UncommitLocked
    BY <2>1, <2>8, UncommitStep
  <2> QED BY <1>2, <2>2, <2>3, <2>4, <2>5, <2>6, <2>7, <2>8 DEF Next, Collector
<1> QED BY <1>1, <1>2

-----------------------------------------------------------------------------
(*****************************************************************************)
(* Sums: a fold is the size of a set.                                        *)
(*****************************************************************************)

\* c takes an element out of every non-empty subset of S.
Chooses(c, S) == \A s \in SUBSET S : s # {} => c[s] \in s

\* it and v agree on a set when they do without the element c takes.
StepsAlike(it, v, c, S) ==
  \A s \in SUBSET S : s # {} /\ it[s \ {c[s]}] = v[s \ {c[s]}] => it[s] = v[s]

\* Finite sets without common elements.
Family(U, S) ==
  /\ \A x \in S : IsFiniteSet(U[x])
  /\ \A x, y \in S : x # y => U[x] \cap U[y] = {}

(* Two functions of the subsets of a finite set agree when they agree on the   *)
(* empty set, and on a set as soon as they do without one of its elements.     *)
LEMMA SubsetInduction ==
  ASSUME NEW S, IsFiniteSet(S), NEW c, Chooses(c, S),
         NEW it, NEW v, it[{}] = v[{}], StepsAlike(it, v, c, S)
  PROVE  it[S] = v[S]
<1> DEFINE T == {n \in Nat : \A s \in SUBSET S : Cardinality(s) = n => it[s] = v[s]}
<1>1. \A s \in SUBSET S : IsFiniteSet(s)
  BY FS_Subset
<1>2. 0 \in T
  <2>1. \A s \in SUBSET S : Cardinality(s) = 0 => s = {}
    BY <1>1, FS_EmptySet
  <2> QED BY <2>1
<1>3. ASSUME NEW n \in Nat, n \in T PROVE n + 1 \in T
  <2> SUFFICES ASSUME NEW s \in SUBSET S, Cardinality(s) = n + 1 PROVE it[s] = v[s]
    OBVIOUS
  <2>1. IsFiniteSet(s)
    BY <1>1
  <2>2. s # {}
    BY <2>1, FS_EmptySet
  <2>3. c[s] \in s
    BY <2>2 DEF Chooses
  <2>4. Cardinality(s \ {c[s]}) = n
    <3>1. Cardinality(s \ {c[s]}) = Cardinality(s) - 1
      BY <2>1, <2>3, FS_RemoveElement
    <3> QED BY <3>1
  <2>5. s \ {c[s]} \in SUBSET S
    OBVIOUS
  <2>6. it[s \ {c[s]}] = v[s \ {c[s]}]
    BY <1>3, <2>4, <2>5
  <2> QED BY <2>2, <2>6 DEF StepsAlike
<1>4. Nat \subseteq T
  <2> HIDE DEF T
  <2> QED BY <1>2, <1>3, SetInduction
<1>5. Cardinality(S) \in Nat
  BY FS_CardinalityType
<1> QED BY <1>4, <1>5

(* The sizes of two sets without a common element add up. *)
LEMMA DisjointSizes ==
  ASSUME NEW A, IsFiniteSet(A), NEW B, IsFiniteSet(B), A \cap B = {}
  PROVE  IsFiniteSet(A \cup B) /\ Cardinality(A \cup B) = Cardinality(A) + Cardinality(B)
         /\ Cardinality(A) \in Nat /\ Cardinality(B) \in Nat
<1>1. Cardinality(A) \in Nat /\ Cardinality(B) \in Nat
  BY FS_CardinalityType
<1>2. IsFiniteSet(A \cup B) /\ Cardinality(A \cup B) = Cardinality(A) + Cardinality(B) - Cardinality(A \cap B)
  BY FS_Union
<1>3. Cardinality(A \cap B) = 0
  BY FS_EmptySet
<1> QED BY <1>1, <1>2, <1>3

\* The union of the sets U[x] for x in s.
Joined(U, s) == UNION {U[x] : x \in s}

(* How the size of a union of disjoint sets grows. *)
LEMMA JoinedStep ==
  ASSUME NEW S, NEW U, Family(U, S),
         NEW s \in SUBSET S, NEW y \in s, IsFiniteSet(Joined(U, s \ {y}))
  PROVE  /\ IsFiniteSet(Joined(U, s))
         /\ Cardinality(Joined(U, s)) = Cardinality(Joined(U, s \ {y})) + Cardinality(U[y])
<1>1. Joined(U, s) = Joined(U, s \ {y}) \cup U[y]
  BY DEF Joined
<1>2. Joined(U, s \ {y}) \cap U[y] = {}
  BY DEF Joined, Family
<1>3. IsFiniteSet(U[y])
  BY DEF Family
<1> DEFINE A == Joined(U, s \ {y})
           B == U[y]
<1> HIDE DEF A, B
<1>4. IsFiniteSet(A) /\ IsFiniteSet(B) /\ A \cap B = {}
  BY <1>2, <1>3 DEF A, B
<1>5. IsFiniteSet(A \cup B) /\ Cardinality(A \cup B) = Cardinality(A) + Cardinality(B)
  BY <1>4, DisjointSizes
<1> QED BY <1>1, <1>5 DEF A, B

(* A union of finitely many finite sets is finite. *)
LEMMA JoinedFinite ==
  ASSUME NEW S, IsFiniteSet(S), NEW U, \A x \in S : IsFiniteSet(U[x])
  PROVE  IsFiniteSet(Joined(U, S))
<1> DEFINE it == [s \in SUBSET S |-> IsFiniteSet(Joined(U, s))]
           v == [s \in SUBSET S |-> TRUE]
           c == [s \in SUBSET S |-> CHOOSE x \in s : TRUE]
<1>1. Chooses(c, S)
  BY DEF Chooses
<1>2. it[{}] = v[{}]
  <2>1. Joined(U, {}) = {}
    BY DEF Joined
  <2>2. IsFiniteSet(Joined(U, {})) = TRUE
    BY <2>1, FS_EmptySet
  <2> QED BY <2>2
<1>3. ASSUME NEW s \in SUBSET S, s # {}, it[s \ {c[s]}] = v[s \ {c[s]}] PROVE it[s] = v[s]
  <2> DEFINE y == c[s]
  <2>1. y \in s
    BY <1>1, <1>3 DEF Chooses
  <2> HIDE DEF y
  <2>2. s \ {y} \in SUBSET S
    OBVIOUS
  <2>3. IsFiniteSet(Joined(U, s \ {y}))
    <3>1. it[s \ {y}] = v[s \ {y}]
      BY <1>3 DEF y
    <3> QED BY <3>1, <2>2
  <2>4. Joined(U, s) = Joined(U, s \ {y}) \cup U[y]
    BY <2>1 DEF Joined
  <2>5. IsFiniteSet(U[y])
    BY <2>1
  <2>6. IsFiniteSet(Joined(U, s))
    BY <2>3, <2>4, <2>5, FS_Union
  <2> QED BY <2>6
<1>4. it[S] = v[S]
  <2>1. StepsAlike(it, v, c, S)
    BY <1>3 DEF StepsAlike
  <2> HIDE DEF it, v, c
  <2> QED BY <1>1, <1>2, <2>1, SubsetInduction
<1> QED BY <1>4

\* base and the size of the union, for every part of S.
Size(U, S, base) == [t \in SUBSET S |-> base + Cardinality(Joined(U, t))]

\* v grows like the union.
Grows(v, U, S, base) ==
  /\ v[{}] = base
  /\ \A t \in SUBSET S : /\ v[t] \in Nat
                         /\ IsFiniteSet(Joined(U, t)) /\ Cardinality(Joined(U, t)) \in Nat
                         /\ \A y \in t : v[t] = v[t \ {y}] + Cardinality(U[y])

(* The size of a union grows with every set. *)
LEMMA SizeFact ==
  ASSUME NEW S, IsFiniteSet(S), NEW U, Family(U, S), NEW base \in Nat
  PROVE  Grows(Size(U, S, base), U, S, base)
<1> DEFINE v == Size(U, S, base)
<1>1. ASSUME NEW t \in SUBSET S PROVE IsFiniteSet(Joined(U, t)) /\ Cardinality(Joined(U, t)) \in Nat
  <2>1. IsFiniteSet(t) /\ \A x \in t : IsFiniteSet(U[x])
    BY FS_Subset DEF Family
  <2>2. IsFiniteSet(Joined(U, t))
    BY <2>1, JoinedFinite
  <2> QED BY <2>2, FS_CardinalityType
<1>2. \A t \in SUBSET S : v[t] = base + Cardinality(Joined(U, t))
  BY DEF Size
<1> HIDE DEF v
<1>3. v[{}] = base
  <2>1. Joined(U, {}) = {}
    BY DEF Joined
  <2>2. Cardinality(Joined(U, {})) = 0
    BY <2>1, FS_EmptySet
  <2> QED BY <1>2, <2>2
<1>4. ASSUME NEW t \in SUBSET S, NEW y \in t PROVE v[t] = v[t \ {y}] + Cardinality(U[y])
  <2>1. t \ {y} \in SUBSET S
    OBVIOUS
  <2>2. IsFiniteSet(Joined(U, t \ {y})) /\ Cardinality(Joined(U, t \ {y})) \in Nat
    BY <1>1, <2>1
  <2>3. Cardinality(Joined(U, t)) = Cardinality(Joined(U, t \ {y})) + Cardinality(U[y])
    BY <2>2, JoinedStep
  <2>4. Cardinality(U[y]) \in Nat
    BY FS_CardinalityType DEF Family
  <2> QED BY <1>2, <2>1, <2>2, <2>3, <2>4
<1>5. \A t \in SUBSET S : v[t] \in Nat
  BY <1>1, <1>2
<1>6. Grows(v, U, S, base)
  BY <1>1, <1>3, <1>4, <1>5 DEF Grows
<1> QED BY <1>6 DEF v

\* it adds the size of U[x] for each x that c takes.
Sums(it, c, U, S) ==
  \A s \in SUBSET S : s # {} /\ it[s \ {c[s]}] \in Nat =>
    it[s] = it[s \ {c[s]}] + Cardinality(U[c[s]])

(* A sum over a finite set: the size of a union, when each term is the size of *)
(* one of the disjoint sets in it.                                             *)
LEMMA SumFact ==
  ASSUME NEW S, IsFiniteSet(S), NEW c, Chooses(c, S), NEW U, Family(U, S),
         NEW base \in Nat, NEW it, it[{}] = base, Sums(it, c, U, S)
  PROVE  it[S] = base + Cardinality(Joined(U, S))
<1> DEFINE v == Size(U, S, base)
<1>1. Grows(v, U, S, base)
  BY SizeFact
<1>2. v[S] = base + Cardinality(Joined(U, S))
  BY DEF Size
<1> HIDE DEF v
<1>3. ASSUME NEW s \in SUBSET S, s # {}, it[s \ {c[s]}] = v[s \ {c[s]}] PROVE it[s] = v[s]
  <2>1. c[s] \in s /\ s \ {c[s]} \in SUBSET S
    BY <1>3 DEF Chooses
  <2>2. it[s] = it[s \ {c[s]}] + Cardinality(U[c[s]])
    BY <1>1, <1>3, <2>1 DEF Sums, Grows
  <2> QED BY <1>1, <1>3, <2>1, <2>2 DEF Grows
<1>4. StepsAlike(it, v, c, S)
  BY <1>3 DEF StepsAlike
<1> QED BY <1>1, <1>2, <1>4, SubsetInduction DEF Grows

(* The size of a block. *)
LEMMA BlockSize ==
  ASSUME NEW b \in Block
  PROVE  IsFiniteSet(Units(b)) /\ Cardinality(Units(b)) = b[2]
<1>1. b[1] \in Nat /\ b[2] \in Nat
  BY DEF Block
<1>2. Units(b) = b[1] .. b[1] + b[2] - 1
  BY DEF Units
<1>3. b[1] \in Int /\ b[1] + b[2] - 1 \in Int
  BY <1>1
<1>4. IsFiniteSet(b[1] .. b[1] + b[2] - 1)
      /\ Cardinality(b[1] .. b[1] + b[2] - 1)
           = IF b[1] > b[1] + b[2] - 1 THEN 0 ELSE (b[1] + b[2] - 1) - b[1] + 1
  BY <1>3, FS_Interval
<1> QED BY <1>1, <1>2, <1>4

\* The units of the entries of a bucket.
InBucket(s) == Joined([k \in DOMAIN s |-> Units(s[k])], DOMAIN s)

\* The blocks of a sequence do not overlap.
SeqApart(s) ==
  s \in Seq(Block) /\ \A k, l \in DOMAIN s : k # l => Units(s[k]) \cap Units(s[l]) = {}

(* The inner sum of free: what is in a bucket. *)
LEMMA BucketSum ==
  ASSUME NEW s, SeqApart(s), NEW sum \in Nat
  PROVE  /\ FoldLeft(LAMBDA n, b : n + b[2], sum, s) = sum + Cardinality(InBucket(s))
         /\ IsFiniteSet(InBucket(s)) /\ Cardinality(InBucket(s)) \in Nat
<1> DEFINE D == DOMAIN s
           U == [k \in D |-> Units(s[k])]
           c == [t \in SUBSET D |-> Max(t)]
           Good(w) == w = [t \in SUBSET D |-> IF t = {} THEN sum ELSE w[t \ {Max(t)}] + s[Max(t)][2]]
           it == CHOOSE w : Good(w)
           v == Size(U, D, sum)
<1>1. FoldLeft(LAMBDA n, b : n + b[2], sum, s) = it[D]
  BY Zenon DEF FoldLeft, MapThenFoldSet
<1>2. PICK N \in Nat : D = 1 .. N
  BY DEF SeqApart
<1>3. IsFiniteSet(D)
  BY <1>2, FS_Interval
<1>4. Chooses(c, D)
  <2> SUFFICES ASSUME NEW t \in SUBSET D, t # {} PROVE Max(t) \in t
    BY DEF Chooses
  <2>1. t \subseteq 0 .. N
    BY <1>2
  <2> QED BY <2>1, MaxFact
<1>5. \A k \in D : s[k] \in Block /\ U[k] = Units(s[k])
  BY DEF SeqApart
<1>6. \A k \in D : IsFiniteSet(U[k]) /\ Cardinality(U[k]) = s[k][2]
  BY <1>5, BlockSize
<1>7. Family(U, D)
  BY <1>5, <1>6 DEF Family, SeqApart
<1>8. InBucket(s) = Joined(U, D)
  BY DEF InBucket
<1> HIDE DEF U, D
<1>9. Grows(v, U, D, sum)
  BY <1>3, <1>7, SizeFact
<1>10. Good(v)
  <2>1. v = [t \in SUBSET D |-> v[t]]
    BY DEF Size
  <2>2. ASSUME NEW t \in SUBSET D
        PROVE  v[t] = IF t = {} THEN sum ELSE v[t \ {Max(t)}] + s[Max(t)][2]
    <3> HIDE DEF v
    <3>1. CASE t = {}
      BY <1>9, <3>1 DEF Grows
    <3>2. CASE t # {}
      <4>1. Max(t) \in t /\ Max(t) \in D
        BY <1>4, <3>2 DEF Chooses
      <4> QED BY <1>6, <1>9, <3>2, <4>1 DEF Grows
    <3> QED BY <3>1, <3>2
  <2> HIDE DEF v
  <2> QED BY <2>1, <2>2
<1> HIDE DEF v
<1>11. Good(it)
  BY <1>10
<1>12. it[{}] = sum /\ Sums(it, c, U, D)
  <2> HIDE DEF it
  <2>1. \A t \in SUBSET D : it[t] = IF t = {} THEN sum ELSE it[t \ {Max(t)}] + s[Max(t)][2]
    BY <1>11
  <2>2. it[{}] = sum
    BY <2>1
  <2>3. ASSUME NEW t \in SUBSET D, t # {} PROVE it[t] = it[t \ {c[t]}] + Cardinality(U[c[t]])
    <3>1. c[t] = Max(t) /\ c[t] \in D
      BY <1>4, <2>3 DEF Chooses
    <3>2. Cardinality(U[c[t]]) = s[c[t]][2]
      BY <1>6, <3>1
    <3> QED BY <2>1, <2>3, <3>1, <3>2
  <2> QED BY <2>2, <2>3 DEF Sums
<1> HIDE DEF it, c
<1>13. it[D] = sum + Cardinality(Joined(U, D))
  BY <1>3, <1>4, <1>7, <1>12, SumFact
<1>14. IsFiniteSet(Joined(U, D)) /\ Cardinality(Joined(U, D)) \in Nat
  BY <1>9 DEF Grows
<1> QED BY <1>1, <1>8, <1>13, <1>14

(* free of a list is the number of units that its entries cover. *)
LEMMA FreeBytesFact ==
  ASSUME NEW list, ListOK(list), Apart(Entries(list))
  PROVE  /\ FreeBytes(list) = Cardinality(Covered(Entries(list)))
         /\ IsFiniteSet(Covered(Entries(list)))
<1> DEFINE h == list.heads
           G(sum, s) == FoldLeft(LAMBDA n, b : n + b[2], sum, s)
           U == [i \in Buckets |-> InBucket(h[i])]
           c == [t \in SUBSET Buckets |-> CHOOSE i \in t : TRUE]
           Good(w) == w = [t \in SUBSET Buckets |->
                             IF t = {} THEN 0 ELSE LET i == CHOOSE i \in t : TRUE IN G(w[t \ {i}], h[i])]
           it == CHOOSE w : Good(w)
           v == Size(U, Buckets, 0)
<1>1. DOMAIN h = Buckets
  BY DEF ListOK
<1>2. FreeBytes(list) = it[Buckets]
  <2> DEFINE it2 == CHOOSE w : w = [t \in SUBSET DOMAIN h |->
                       IF t = {} THEN 0 ELSE LET i == CHOOSE i \in t : TRUE IN G(w[t \ {i}], h[i])]
  <2>1. FreeBytes(list) = it2[DOMAIN h]
    BY Zenon DEF FreeBytes, FoldFunction, FoldFunctionOnSet, MapThenFoldSet
  <2> HIDE DEF h, G
  <2> QED BY <2>1, <1>1, Zenon
<1>3. IsFiniteSet(Buckets)
  <2>1. RegionLog + 1 \in Int
    BY RegionsAssumption
  <2> QED BY <2>1, FS_Interval DEF Buckets
<1>4. Chooses(c, Buckets)
  BY DEF Chooses
<1>5. \A i \in Buckets : SeqApart(h[i])
  <2> SUFFICES ASSUME NEW i \in Buckets PROVE SeqApart(h[i])
    OBVIOUS
  <2>1. h[i] \in Seq(Block)
    BY DEF ListOK
  <2>2. ASSUME NEW k \in DOMAIN h[i], NEW l \in DOMAIN h[i], k # l
        PROVE  Units(h[i][k]) \cap Units(h[i][l]) = {}
    <3>1. h[i][k] # h[i][l]
      BY <2>2 DEF ListOK
    <3>2. h[i][k] \in Entries(list) /\ h[i][l] \in Entries(list)
      BY EntryFact
    <3> QED BY <3>1, <3>2 DEF Apart
  <2> QED BY <2>1, <2>2 DEF SeqApart
<1>6. ASSUME NEW i \in Buckets, NEW sum \in Nat
      PROVE  G(sum, h[i]) = sum + Cardinality(InBucket(h[i])) /\ IsFiniteSet(InBucket(h[i]))
             /\ Cardinality(InBucket(h[i])) \in Nat
  BY <1>5, BucketSum
<1>7. \A i \in Buckets : U[i] = InBucket(h[i]) /\ IsFiniteSet(U[i]) /\ Cardinality(U[i]) \in Nat
  <2> TAKE i \in Buckets
  <2>1. 0 \in Nat
    OBVIOUS
  <2> QED BY <1>6, <2>1
<1>8. \A i \in Buckets : \A u : u \in InBucket(h[i]) <=> \E k \in DOMAIN h[i] : u \in Units(h[i][k])
  BY DEF InBucket, Joined
<1>9. Family(U, Buckets)
  <2> SUFFICES ASSUME NEW i \in Buckets, NEW j \in Buckets, i # j PROVE U[i] \cap U[j] = {}
    BY <1>7 DEF Family
  <2> SUFFICES ASSUME NEW u, u \in InBucket(h[i]), u \in InBucket(h[j]) PROVE FALSE
    BY <1>7
  <2>1. PICK k \in DOMAIN h[i] : u \in Units(h[i][k])
    BY <1>8
  <2>2. PICK l \in DOMAIN h[j] : u \in Units(h[j][l])
    BY <1>8
  <2>3. h[i][k] \in Entries(list) /\ h[j][l] \in Entries(list)
    BY EntryFact
  <2>4. h[i][k] # h[j][l]
    <3>1. bucket_index_for_size(h[i][k][2]) = i /\ bucket_index_for_size(h[j][l][2]) = j
      BY DEF ListOK
    <3> QED BY <3>1
  <2> QED BY <2>1, <2>2, <2>3, <2>4 DEF Apart
<1>10. Joined(U, Buckets) = Covered(Entries(list))
  <2>1. ASSUME NEW u PROVE u \in Joined(U, Buckets) <=> u \in Covered(Entries(list))
    <3>1. u \in Joined(U, Buckets) <=> \E i \in Buckets : u \in InBucket(h[i])
      BY <1>7 DEF Joined
    <3>2. u \in Covered(Entries(list)) <=> \E b \in Entries(list) : u \in Units(b)
      BY DEF Covered
    <3>3. (\E i \in Buckets : u \in InBucket(h[i])) <=> \E i \in Buckets : \E k \in DOMAIN h[i] : u \in Units(h[i][k])
      BY <1>8
    <3>4. (\E b \in Entries(list) : u \in Units(b)) <=> \E i \in Buckets : \E k \in DOMAIN h[i] : u \in Units(h[i][k])
      BY EntryFact
    <3> QED BY <3>1, <3>2, <3>3, <3>4
  <2> QED BY <2>1
<1> HIDE DEF U, G
<1>11. Grows(v, U, Buckets, 0)
  <2>1. 0 \in Nat
    OBVIOUS
  <2> QED BY <1>3, <1>9, <2>1, SizeFact
<1>12. Good(v)
  <2>1. v = [t \in SUBSET Buckets |-> v[t]]
    BY DEF Size
  <2>2. ASSUME NEW t \in SUBSET Buckets
        PROVE  v[t] = IF t = {} THEN 0 ELSE LET i == CHOOSE i \in t : TRUE IN G(v[t \ {i}], h[i])
    <3> HIDE DEF v
    <3>1. CASE t = {}
      BY <1>11, <3>1 DEF Grows
    <3>2. CASE t # {}
      <4> DEFINE y == CHOOSE i \in t : TRUE
      <4>1. y \in t
        BY <3>2
      <4> HIDE DEF y
      <4>2. t \ {y} \in SUBSET Buckets /\ y \in Buckets
        BY <4>1
      <4>3. G(v[t \ {y}], h[y]) = v[t \ {y}] + Cardinality(U[y])
        BY <1>6, <1>7, <1>11, <4>2 DEF Grows
      <4>4. v[t] = G(v[t \ {y}], h[y])
        BY <1>11, <4>1, <4>3 DEF Grows
      <4> QED BY <3>2, <4>4 DEF y
    <3> QED BY <3>1, <3>2
  <2> HIDE DEF v
  <2> QED BY <2>1, <2>2
<1> HIDE DEF v
<1>13. Good(it)
  BY <1>12
<1>14. it[{}] = 0 /\ Sums(it, c, U, Buckets)
  <2> HIDE DEF it
  <2>1. \A t \in SUBSET Buckets :
          it[t] = IF t = {} THEN 0 ELSE LET i == CHOOSE i \in t : TRUE IN G(it[t \ {i}], h[i])
    BY <1>13
  <2>2. it[{}] = 0
    BY <2>1
  <2>3. ASSUME NEW t \in SUBSET Buckets, t # {}, it[t \ {c[t]}] \in Nat
        PROVE  it[t] = it[t \ {c[t]}] + Cardinality(U[c[t]])
    <3>1. c[t] = (CHOOSE i \in t : TRUE) /\ c[t] \in Buckets
      BY <1>4, <2>3 DEF Chooses
    <3>2. it[t] = G(it[t \ {c[t]}], h[c[t]])
      BY <2>1, <2>3, <3>1
    <3> HIDE DEF c
    <3> QED BY <1>6, <1>7, <2>3, <3>1, <3>2
  <2> QED BY <2>2, <2>3 DEF Sums
<1> HIDE DEF it, c
<1>15. it[Buckets] = 0 + Cardinality(Joined(U, Buckets))
  <2>1. 0 \in Nat
    OBVIOUS
  <2> QED BY <2>1, <1>3, <1>4, <1>9, <1>14, SumFact
<1>16. IsFiniteSet(Joined(U, Buckets)) /\ Cardinality(Joined(U, Buckets)) \in Nat
  BY <1>11 DEF Grows
<1> QED BY <1>2, <1>10, <1>15, <1>16

\* What an allocation may find in region g at index r.
FreeUnits(g, r) == IF g.typ \in Unused THEN Units(Whole(r)) ELSE Covered(Entries(g.list))

\* What it may find in the regions of the set.
Pool(f) == UNION {FreeUnits(f.region[r], r) : r \in f.bits}

(* A region offers as many units as it says. *)
LEMMA CapacityFact ==
  ASSUME NEW r \in Indices, NEW X, NEW S, NEW g, RegionOK(g, r, X, S)
  PROVE  /\ IsFiniteSet(FreeUnits(g, r)) /\ AllocCapacity(g) \in Nat
         /\ AllocCapacity(g) = Cardinality(FreeUnits(g, r))
         /\ g.typ # "Trash" => Free(g) = AllocCapacity(g)
         /\ \A u \in FreeUnits(g, r) : u \in Nat /\ RegionOf(u) = r
<1>1. g.typ \in Unused <=> g.typ = "Trash" \/ IsEmpty(g)
  BY DEF Unused, IsEmpty
<1>2. CASE g.typ \in Unused
  <2>1. FreeUnits(g, r) = Units(Whole(r)) /\ AllocCapacity(g) = RegionSize
        /\ (g.typ # "Trash" => Free(g) = RegionSize)
    BY <1>1, <1>2 DEF FreeUnits, AllocCapacity, Free
  <2>2. Whole(r) \in Block /\ Whole(r)[2] = RegionSize
    BY WholeFact DEF Sized, Whole
  <2>3. IsFiniteSet(Units(Whole(r))) /\ Cardinality(Units(Whole(r))) = RegionSize
    BY <2>2, BlockSize
  <2>4. \A u \in Units(Whole(r)) : u \in Nat /\ RegionOf(u) = r
    BY WholeFact DEF BlockIn
  <2> QED BY <2>1, <2>3, <2>4, Powers
<1>3. CASE g.typ \notin Unused
  <2>1. FreeUnits(g, r) = Covered(Entries(g.list)) /\ AllocCapacity(g) = FreeBytes(g.list)
        /\ Free(g) = FreeBytes(g.list)
    BY <1>1, <1>3 DEF FreeUnits, AllocCapacity, Free
  <2>2. /\ FreeBytes(g.list) = Cardinality(Covered(Entries(g.list)))
        /\ IsFiniteSet(Covered(Entries(g.list)))
    BY FreeBytesFact DEF RegionOK
  <2>3. \A u \in Covered(Entries(g.list)) : u \in Nat /\ RegionOf(u) = r
    BY DEF RegionOK, BlockIn, Covered
  <2>4. Cardinality(Covered(Entries(g.list))) \in Nat
    BY <2>2, FS_CardinalityType
  <2> QED BY <2>1, <2>2, <2>3, <2>4
<1> QED BY <1>2, <1>3

(* The pool is finite, and a unit is in it when its region is open and has it. *)
LEMMA PoolFact ==
  ASSUME NEW f, NEW X, AllRight(f, X)
  PROVE  /\ IsFiniteSet(Pool(f)) /\ Cardinality(Pool(f)) \in Nat
         /\ \A u : u \in Pool(f) <=>
              RegionOf(u) \in f.bits /\ u \in FreeUnits(f.region[RegionOf(u)], RegionOf(u))
<1> DEFINE U == [r \in f.bits |-> FreeUnits(f.region[r], r)]
<1>1. IsFiniteSet(Indices)
  <2>1. NumRegions - 1 \in Int
    BY RegionsAssumption
  <2> QED BY <2>1, FS_Interval DEF Indices
<1>2. IsFiniteSet(f.bits) /\ \A r \in f.bits : r \in Indices
  BY <1>1, FS_Subset DEF AllRight
<1>3. \A r \in f.bits : IsFiniteSet(U[r]) /\ \A u \in U[r] : u \in Nat /\ RegionOf(u) = r
  BY <1>2, CapacityFact DEF AllRight
<1>4. Pool(f) = Joined(U, f.bits)
  BY DEF Pool, Joined
<1>5. IsFiniteSet(Pool(f))
  <2> HIDE DEF U
  <2>1. IsFiniteSet(Joined(U, f.bits))
    BY <1>2, <1>3, JoinedFinite
  <2> QED BY <2>1, <1>4
<1>6. \A u : u \in Pool(f) <=> \E r \in f.bits : u \in FreeUnits(f.region[r], r)
  BY DEF Pool
<1>7. \A u : u \in Pool(f) <=>
              RegionOf(u) \in f.bits /\ u \in FreeUnits(f.region[RegionOf(u)], RegionOf(u))
  BY <1>3, <1>6
<1> QED BY <1>5, <1>7, FS_CardinalityType

(* Two disjoint parts of a finite set are together not larger than it. *)
LEMMA PartsFact ==
  ASSUME NEW P, IsFiniteSet(P), NEW A, A \subseteq P, NEW Q, Q \subseteq P, A \cap Q = {}
  PROVE  /\ Cardinality(Q) + Cardinality(A) <= Cardinality(P)
         /\ Cardinality(Q) \in Nat /\ Cardinality(A) \in Nat /\ Cardinality(P) \in Nat
<1>1. IsFiniteSet(A) /\ IsFiniteSet(Q)
  BY FS_Subset
<1>2. IsFiniteSet(A \cup Q) /\ Cardinality(A \cup Q) = Cardinality(A) + Cardinality(Q)
      /\ Cardinality(A) \in Nat /\ Cardinality(Q) \in Nat
  BY <1>1, DisjointSizes
<1>3. A \cup Q \in SUBSET P
  OBVIOUS
<1>4. Cardinality(A \cup Q) <= Cardinality(P) /\ Cardinality(P) \in Nat
  BY <1>3, FS_Subset, FS_CardinalityType
<1> QED BY <1>2, <1>4

(* The bounds move inwards, but not over a free region. *)
LEMMA BoundsFact ==
  ASSUME NEW b, b.left \in 0 .. NumRegions, b.right \in Indices,
         NEW free, free \subseteq Indices, free \subseteq b.left .. b.right
  PROVE  LET c == AdjustBounds(b, free)
         IN c.left \in 0 .. NumRegions /\ c.right \in Indices /\ free \subseteq c.left .. c.right
<1> DEFINE A == {NumRegions} \cup {i \in free : i >= b.left}
           B == {0} \cup {i \in free : i <= b.right}
<1>0. NumRegions \in Nat /\ NumRegions >= 1 /\ \A i \in free : i \in 0 .. NumRegions - 1
  BY RegionsAssumption DEF Indices
<1>1. A \subseteq Nat /\ A # {} /\ A \subseteq 0 .. NumRegions
  <2>1. \A i \in A : i \in 0 .. NumRegions
    BY <1>0
  <2>2. NumRegions \in A
    OBVIOUS
  <2> HIDE DEF A
  <2> QED BY <2>1, <2>2
<1>2. B \subseteq 0 .. NumRegions - 1 /\ B # {} /\ NumRegions - 1 \in Nat
  <2>1. \A i \in B : i \in 0 .. NumRegions - 1
    BY <1>0
  <2>2. 0 \in B
    OBVIOUS
  <2> HIDE DEF B
  <2> QED BY <1>0, <2>1, <2>2
<1>3. \A i \in free : i \in A /\ i \in B
  OBVIOUS
<1>4. AdjustBounds(b, free) = [left |-> Min(A), right |-> Max(B)]
  BY DEF AdjustBounds
<1> HIDE DEF A, B
<1>5. Min(A) \in A /\ \A k \in A : Min(A) <= k
  BY <1>1, MinFact
<1>6. Max(B) \in B /\ \A k \in B : k <= Max(B)
  BY <1>2, MaxFact
<1>7. Min(A) \in 0 .. NumRegions /\ Max(B) \in 0 .. NumRegions - 1
  BY <1>1, <1>2, <1>5, <1>6
<1>8. \A i \in free : i \in Min(A) .. Max(B)
  BY <1>0, <1>3, <1>5, <1>6, <1>7
<1> QED BY <1>4, <1>7, <1>8 DEF Indices

-----------------------------------------------------------------------------
(*****************************************************************************)
(* The accounts: requests, retired and rebuilt regions, given back buffers.  *)
(*****************************************************************************)

\* The regions that have memory.
Having(f) == {r \in Indices : f.region[r].typ # "EmptyUncommited"}

\* What a region given to requests may change: the bounds, the count of committed
\* regions, and what is used and what is in the pool together.
Accounted(f, limit) ==
  /\ f.bounds.left \in 0 .. NumRegions /\ f.bounds.right \in Indices
  /\ f.bits \subseteq f.bounds.left .. f.bounds.right
  /\ f.committed = Cardinality(Having(f)) /\ f.committed \in Nat \ {0}
  /\ f.used \in Nat /\ f.used + Cardinality(Pool(f)) <= limit

\* With it, every open region has something to give.
Tidy(f, limit) ==
  Accounted(f, limit) /\ \A r \in f.bits : AllocCapacity(f.region[r]) # 0

(* What leaves the pool and is used is accounted for. *)
LEMMA SpendFact ==
  ASSUME NEW f, NEW X, AllRight(f, X), NEW limit \in Nat,
         f.used \in Nat, f.used + Cardinality(Pool(f)) <= limit,
         NEW g, NEW A, A \subseteq Pool(f), Pool(g) \subseteq Pool(f), A \cap Pool(g) = {},
         g.used = f.used + Cardinality(A)
  PROVE  g.used \in Nat /\ g.used + Cardinality(Pool(g)) <= limit
<1>1. IsFiniteSet(Pool(f))
  BY PoolFact
<1>2. /\ Cardinality(Pool(g)) + Cardinality(A) <= Cardinality(Pool(f))
      /\ Cardinality(Pool(g)) \in Nat /\ Cardinality(A) \in Nat /\ Cardinality(Pool(f)) \in Nat
  BY <1>1, PartsFact
<1> DEFINE p == Cardinality(Pool(f))
           q == Cardinality(Pool(g))
           a == Cardinality(A)
           u == f.used
<1>3. q + a <= p /\ q \in Nat /\ a \in Nat /\ p \in Nat /\ u \in Nat /\ u + p <= limit
  BY <1>2
<1>4. g.used = u + a
  OBVIOUS
<1> HIDE DEF p, q, a, u
<1>5. u + a \in Nat /\ (u + a) + q <= limit
  BY <1>3
<1> QED BY <1>4, <1>5 DEF q

(* The pool shrinks with the regions in it. *)
LEMMA SmallerPool ==
  ASSUME NEW f, NEW g, g.bits \subseteq f.bits,
         \A r \in g.bits : FreeUnits(g.region[r], r) \subseteq FreeUnits(f.region[r], r)
  PROVE  Pool(g) \subseteq Pool(f)
BY DEF Pool

(* Nothing is used. *)
LEMMA NothingUsed ==
  ASSUME NEW f, NEW X, AllRight(f, X), NEW limit \in Nat,
         f.used \in Nat, f.used + Cardinality(Pool(f)) <= limit,
         NEW g, Pool(g) \subseteq Pool(f), g.used = f.used
  PROVE  g.used + Cardinality(Pool(g)) <= limit
<1>1. Cardinality({}) = 0
  BY FS_EmptySet
<1>2. g.used = f.used + Cardinality({})
  BY <1>1
<1>3. {} \subseteq Pool(f) /\ {} \cap Pool(g) = {}
  OBVIOUS
<1> QED BY <1>2, <1>3, SpendFact

(* try_recycle_trashed: trash is as good as an empty region. *)
LEMMA RecycleTidy ==
  ASSUME NEW f, NEW X, AllRight(f, X), NEW r \in f.bits, NEW limit \in Nat, Tidy(f, limit)
  PROVE  Tidy(Recycle(f, r), limit)
<1> DEFINE g == Recycle(f, r)
<1>0. r \in Indices /\ f.bits \subseteq Indices
  BY DEF AllRight
<1>1. CASE f.region[r].typ # "Trash"
  BY <1>1 DEF Recycle
<1>2. CASE f.region[r].typ = "Trash"
  <2> DEFINE o == f.region[r]
             e == Recycled(o)
             st == {a \in f.starts : RegionOf(a) # r}
             h == [f EXCEPT !.region[r] = e]
  <2>1. o = [typ |-> o.typ, list |-> o.list, sweep |-> o.sweep, large |-> o.large]
    BY <1>0 DEF AllRight, RegionOK
  <2>2. e.typ = "EmptyCommited"
    <3> HIDE DEF o
    <3> DEFINE k == [o EXCEPT !.list = EmptyList]
    <3>1. k = [typ |-> o.typ, list |-> EmptyList, sweep |-> o.sweep, large |-> o.large]
      BY <2>1
    <3>2. e = [k EXCEPT !.typ = "EmptyCommited"]
      BY DEF Recycled
    <3> HIDE DEF k
    <3> QED BY <3>1, <3>2
  <2>3. g = [h EXCEPT !.starts = st]
    BY <1>2 DEF Recycle
  <2> HIDE DEF e, st, o
  <2>4. h = [region |-> [f.region EXCEPT ![r] = e], bits |-> f.bits, bounds |-> f.bounds, used |-> f.used,
             starts |-> f.starts, committed |-> f.committed]
    BY DEF AllRight, IsRec
  <2> HIDE DEF h, g
  <2>5. /\ g.region = [f.region EXCEPT ![r] = e] /\ g.bits = f.bits /\ g.bounds = f.bounds
        /\ g.used = f.used /\ g.committed = f.committed
    BY <2>3, <2>4
  <2>6. /\ g.region[r] = e
        /\ \A q \in Indices : q # r => g.region[q] = f.region[q]
    <3>1. f.region = [q \in Indices |-> f.region[q]]
      BY DEF AllRight
    <3> QED BY <3>1, <2>5, <1>0
  <2>7. Having(g) = Having(f)
    BY <1>0, <1>2, <2>2, <2>6 DEF Having
  <2>8. \A q \in f.bits : FreeUnits(g.region[q], q) = FreeUnits(f.region[q], q)
    BY <1>0, <1>2, <2>2, <2>6 DEF FreeUnits, Unused
  <2>9. Pool(g) \subseteq Pool(f)
    BY <2>5, <2>8, SmallerPool
  <2>10. \A q \in g.bits : AllocCapacity(g.region[q]) # 0
    <3>1. AllocCapacity(e) = RegionSize
      BY <2>2 DEF AllocCapacity, Free, IsEmpty
    <3> QED BY <1>0, <2>5, <2>6, <3>1, Powers DEF Tidy
  <2>11. g.used + Cardinality(Pool(g)) <= limit
    BY <2>5, <2>9, NothingUsed DEF Tidy, Accounted
  <2>12. Accounted(g, limit)
    BY <2>5, <2>7, <2>11 DEF Tidy, Accounted
  <2> QED BY <2>10, <2>12 DEF Tidy, g
<1> QED BY <1>1, <1>2

(* What HeapRegion::allocate hands out was free in the region, and what is free *)
(* in it afterwards is not handed out.                                          *)
LEMMA ServeUnits ==
  ASSUME NEW r \in Indices, NEW X, NEW S, NEW g, RegionOK(g, r, X, S), g.typ \in Open \ {"Trash"},
         NEW size \in Nat, 1 <= size
  PROVE  LET res == RegionAllocate(g, r, size)
             given == IF res.block = NoBlock THEN {} ELSE Units(res.block)
         IN /\ res.g.typ = "Regular"
            /\ FreeUnits(res.g, r) \subseteq FreeUnits(g, r)
            /\ given \subseteq FreeUnits(g, r) /\ given \cap FreeUnits(res.g, r) = {}
            /\ Cardinality(given) = IF res.block = NoBlock THEN 0 ELSE size
<1> DEFINE res == RegionAllocate(g, r, size)
           given == IF res.block = NoBlock THEN {} ELSE Units(res.block)
           Y == {u \in Nat : RegionOf(u) = r /\ u \notin FreeUnits(g, r)}
<1>1. RegionOK(g, r, Y, S)
  <2>1. \A u \in Y : RegionOf(u) = r /\ u \notin FreeUnits(g, r) /\ u \in Nat
    OBVIOUS
  <2>2. \A b \in Entries(g.list) : Units(b) \cap Y = {}
    <3>1. CASE g.typ \in Unused
      <4>1. Y = {}
        <5>1. \A u \in Nat : RegionOf(u) = r => u \in Units(Whole(r))
          <6> TAKE u \in Nat
          <6>1. r \in Nat /\ Bottom(r) \in Nat /\ RegionSize \in Nat
            BY Powers, RegionsAssumption DEF Indices, Bottom
          <6>2. RegionOf(u) = r <=> Bottom(r) <= u /\ u < Bottom(r) + RegionSize
            BY <6>1, RegionOfFact
          <6>3. Units(Whole(r)) = Bottom(r) .. Bottom(r) + RegionSize - 1
            BY DEF Units, Whole
          <6> QED BY <6>1, <6>2, <6>3
        <5> QED BY <2>1, <3>1, <5>1 DEF FreeUnits
      <4> QED BY <4>1
    <3>2. CASE g.typ \notin Unused
      BY <2>1, <3>2 DEF FreeUnits, Covered
    <3> QED BY <3>1, <3>2
  <2>3. g.typ \in Unused => \A u \in Y : RegionOf(u) # r
    <3> SUFFICES ASSUME g.typ \in Unused, NEW u \in Y PROVE FALSE
      OBVIOUS
    <3>1. r \in Nat /\ Bottom(r) \in Nat /\ RegionSize \in Nat
      BY Powers, RegionsAssumption DEF Indices, Bottom
    <3>2. RegionOf(u) = r <=> Bottom(r) <= u /\ u < Bottom(r) + RegionSize
      BY <2>1, <3>1, RegionOfFact
    <3>3. Units(Whole(r)) = Bottom(r) .. Bottom(r) + RegionSize - 1
      BY DEF Units, Whole
    <3>4. u \in Units(Whole(r))
      BY <2>1, <3>1, <3>2, <3>3
    <3> QED BY <2>1, <3>4 DEF FreeUnits
  <2> HIDE DEF Y
  <2> QED BY <2>2, <2>3 DEF RegionOK
<1>2. Serves(g, res, r, size, Y, S)
  <2> HIDE DEF Y
  <2> QED BY <1>1, RegionAllocateFact
<1>3. \A u \in Nat : RegionOf(u) = r => u \in Y \/ u \in FreeUnits(g, r)
  OBVIOUS
<1> HIDE DEF res, Y
<1>4. res.g.typ = "Regular" /\ FreeUnits(res.g, r) = Covered(Entries(res.g.list))
  BY <1>2 DEF Serves, FreeUnits, Unused
<1>5. CASE res.block = NoBlock
  <2>1. RegionOK(res.g, r, Y, S)
    BY <1>2, <1>5 DEF Serves
  <2>2. \A u \in FreeUnits(res.g, r) : u \in Nat /\ RegionOf(u) = r /\ u \notin Y
    BY <2>1, <1>4 DEF RegionOK, BlockIn, Covered
  <2>3. Cardinality({}) = 0
    BY FS_EmptySet
  <2> QED BY <1>3, <1>4, <1>5, <2>2, <2>3 DEF res
<1>6. CASE res.block # NoBlock
  <2>1. /\ Sized(res.block) /\ res.block[2] = size /\ BlockIn(res.block, r) /\ Units(res.block) \cap Y = {}
        /\ RegionOK(res.g, r, Y \cup Units(res.block), S)
    BY <1>2, <1>6 DEF Serves
  <2>2. \A u \in FreeUnits(res.g, r) :
          u \in Nat /\ RegionOf(u) = r /\ u \notin Y /\ u \notin Units(res.block)
    BY <2>1, <1>4 DEF RegionOK, BlockIn, Covered
  <2>3. Cardinality(Units(res.block)) = size
    BY <2>1, BlockSize DEF Sized
  <2>4. \A u \in Units(res.block) : u \in FreeUnits(g, r)
    BY <2>1, <1>3 DEF BlockIn
  <2>5. given = Units(res.block)
    BY <1>6
  <2> HIDE DEF given
  <2>6. FreeUnits(res.g, r) \subseteq FreeUnits(g, r) /\ given \subseteq FreeUnits(g, r)
        /\ given \cap FreeUnits(res.g, r) = {} /\ Cardinality(given) = size
    BY <1>3, <2>2, <2>3, <2>4, <2>5
  <2> QED BY <1>4, <1>6, <2>6 DEF res, given
<1> QED BY <1>5, <1>6

(* A region that is asked for memory, whether it has any or not. *)
LEMMA TriedTidy ==
  ASSUME NEW f, NEW X, AllRight(f, X), NEW r \in f.bits, f.region[r].typ \in Open \ {"Trash"},
         NEW limit \in Nat, Tidy(f, limit), NEW req, Request(req), NEW g, IsTried(f, g, r, req)
  PROVE  /\ Accounted(g, limit) /\ g.bits = f.bits /\ g.region[r].typ # "Trash"
         /\ \A q \in f.bits : q # r => AllocCapacity(g.region[q]) # 0
<1> DEFINE size == AskFor(f, r, req)
           res == Answer(f, r, size)
           given == IF res.block = NoBlock THEN {} ELSE Units(res.block)
<1>0. r \in Indices /\ f.bits \subseteq Indices /\ RegionOK(f.region[r], r, X, f.starts)
  BY DEF AllRight
<1>1. size \in Nat
  <2>1. ListOK(f.region[r].list)
    BY <1>0 DEF RegionOK
  <2> QED BY <2>1, AskFact
<1>2. /\ g.region = [f.region EXCEPT ![r] = res.g] /\ g.bits = f.bits /\ g.bounds = f.bounds
      /\ g.used = IF res.block # NoBlock THEN f.used + size ELSE f.used
      /\ g.committed = IF size > 0 THEN Commit(f, r) ELSE f.committed
  BY DEF IsTried
<1>3. g.region[r] = res.g /\ \A q \in Indices : q # r => g.region[q] = f.region[q]
  <2>1. f.region = [q \in Indices |-> f.region[q]]
    BY DEF AllRight
  <2> QED BY <2>1, <1>0, <1>2
<1> HIDE DEF size
<1>4. /\ FreeUnits(res.g, r) \subseteq FreeUnits(f.region[r], r)
      /\ given \subseteq FreeUnits(f.region[r], r) /\ given \cap FreeUnits(res.g, r) = {}
      /\ Cardinality(given) = IF res.block = NoBlock THEN 0 ELSE size
      /\ size > 0 => res.g.typ = "Regular"
      /\ size = 0 => res.g = f.region[r]
  <2>1. CASE size > 0
    <3>1. res = RegionAllocate(f.region[r], r, size)
      BY <2>1 DEF Answer
    <3>2. 1 <= size
      BY <2>1, <1>1
    <3> HIDE DEF res
    <3> QED BY <1>0, <1>1, <2>1, <3>1, <3>2, ServeUnits
  <2>2. CASE size = 0
    <3>1. res = [g |-> f.region[r], block |-> NoBlock]
      BY <2>2 DEF Answer
    <3>2. Cardinality({}) = 0
      BY FS_EmptySet
    <3> QED BY <2>2, <3>1, <3>2
  <2> QED BY <1>1, <2>1, <2>2
<1> HIDE DEF res, given
<1>5. g.region[r].typ # "Trash"
  <2>1. "Regular" # "Trash"
    OBVIOUS
  <2> QED BY <1>1, <1>3, <1>4
<1>6. Pool(g) \subseteq Pool(f)
  <2>1. \A q \in g.bits : FreeUnits(g.region[q], q) \subseteq FreeUnits(f.region[q], q)
    BY <1>0, <1>2, <1>3, <1>4
  <2> QED BY <1>2, <2>1, SmallerPool
<1>7. given \subseteq Pool(f)
  BY <1>4 DEF Pool
<1>8. given \cap Pool(g) = {}
  <2> SUFFICES ASSUME NEW u \in given, NEW q \in g.bits, u \in FreeUnits(g.region[q], q) PROVE FALSE
    BY DEF Pool
  <2>1. u \in FreeUnits(f.region[r], r) /\ RegionOf(u) = r
    BY <1>0, <1>4, CapacityFact
  <2>2. q # r
    BY <1>3, <1>4
  <2>3. q \in Indices /\ u \in FreeUnits(f.region[q], q)
    BY <1>0, <1>2, <1>3, <2>2
  <2>4. RegionOf(u) = q
    BY <2>3, CapacityFact DEF AllRight
  <2> QED BY <2>1, <2>2, <2>4
<1>9. g.used = f.used + Cardinality(given)
  BY <1>2, <1>4 DEF Tidy, Accounted
<1>10. g.used \in Nat /\ g.used + Cardinality(Pool(g)) <= limit
  BY <1>6, <1>7, <1>8, <1>9, SpendFact DEF Tidy, Accounted
<1>11. g.committed = Cardinality(Having(g))
  <2>1. f.committed = Cardinality(Having(f))
    BY DEF Tidy, Accounted
  <2>2. CASE size = 0
    <3>1. Having(g) = Having(f)
      BY <2>2, <1>3, <1>4 DEF Having
    <3> QED BY <2>1, <2>2, <3>1, <1>2
  <2>3. CASE size > 0
    <3>1. Having(g) = Having(f) \cup {r}
      BY <2>3, <1>0, <1>3, <1>4 DEF Having
    <3>2. r \in Having(f) <=> f.region[r].typ # "EmptyUncommited"
      BY <1>0 DEF Having
    <3>3. IsFiniteSet(Having(f))
      <4>1. NumRegions - 1 \in Int /\ 0 \in Int
        BY RegionsAssumption
      <4>2. IsFiniteSet(Indices)
        BY <4>1, FS_Interval DEF Indices
      <4>3. Having(f) \in SUBSET Indices
        BY DEF Having
      <4> QED BY <4>2, <4>3, FS_Subset
    <3>4. Cardinality(Having(f) \cup {r}) = IF r \in Having(f) THEN Cardinality(Having(f)) ELSE Cardinality(Having(f)) + 1
      BY <3>3, FS_AddElement
    <3> QED BY <2>1, <2>3, <3>1, <3>2, <3>4, <1>2 DEF Commit
  <2> QED BY <1>1, <2>2, <2>3
<1>12. g.committed \in Nat \ {0}
  <2>1. f.committed \in Nat \ {0}
    BY DEF Tidy, Accounted
  <2> QED BY <2>1, <1>2 DEF Commit
<1>13. \A q \in f.bits : q # r => AllocCapacity(g.region[q]) # 0
  BY <1>0, <1>3 DEF Tidy
<1> QED BY <1>2, <1>5, <1>10, <1>11, <1>12, <1>13 DEF Accounted, Tidy

(* A region that is retired: what is left in it counts as used. *)
LEMMA RetireTidy ==
  ASSUME NEW f, NEW X, AllRight(f, X), NEW r \in f.bits, f.region[r].typ # "Trash",
         NEW limit \in Nat, Accounted(f, limit), \A q \in f.bits : q # r => AllocCapacity(f.region[q]) # 0
  PROVE  Tidy(RetireRegion(f, r), limit)
<1> DEFINE g == RetireRegion(f, r)
           free == f.bits \ {r}
           bds == IF r \in {f.bounds.left, f.bounds.right} THEN AdjustBounds(f.bounds, free) ELSE f.bounds
           us == f.used + Free(f.region[r])
           A == FreeUnits(f.region[r], r)
<1>0. r \in Indices /\ f.bits \subseteq Indices /\ RegionOK(f.region[r], r, X, f.starts)
  BY DEF AllRight
<1>1. g = [region |-> f.region, bits |-> free, bounds |-> bds, used |-> us, starts |-> f.starts, committed |-> f.committed]
  <2> DEFINE h == [f EXCEPT !.used = us]
             h2 == [h EXCEPT !.bits = free]
  <2>1. g = [h2 EXCEPT !.bounds = bds]
    BY DEF RetireRegion
  <2> HIDE DEF us, free, bds, g
  <2>2. h = [region |-> f.region, bits |-> f.bits, bounds |-> f.bounds, used |-> us, starts |-> f.starts, committed |-> f.committed]
    BY DEF AllRight, IsRec
  <2> HIDE DEF h
  <2>3. h2 = [region |-> f.region, bits |-> free, bounds |-> f.bounds, used |-> us, starts |-> f.starts, committed |-> f.committed]
    BY <2>2
  <2> HIDE DEF h2
  <2> QED BY <2>1, <2>3
<1> HIDE DEF bds, us, g
<1>2. /\ g.region = f.region /\ g.bits = free /\ g.bounds = bds /\ g.used = us /\ g.committed = f.committed
  BY <1>1
<1>3. f.bounds.left \in 0 .. NumRegions /\ f.bounds.right \in Indices /\ f.bits \subseteq f.bounds.left .. f.bounds.right
  BY DEF Accounted
<1>4. bds.left \in 0 .. NumRegions /\ bds.right \in Indices /\ free \subseteq bds.left .. bds.right
  <2>1. CASE r \in {f.bounds.left, f.bounds.right}
    <3>1. bds = AdjustBounds(f.bounds, free)
      BY <2>1 DEF bds
    <3>2. free \subseteq Indices /\ free \subseteq f.bounds.left .. f.bounds.right
      BY <1>0, <1>3
    <3> HIDE DEF free
    <3> QED BY <1>3, <3>1, <3>2, BoundsFact
  <2>2. CASE r \notin {f.bounds.left, f.bounds.right}
    BY <1>3, <2>2 DEF bds
  <2> QED BY <2>1, <2>2
<1>5. /\ Free(f.region[r]) = Cardinality(A)
      /\ \A u \in A : RegionOf(u) = r
  <2>1. /\ AllocCapacity(f.region[r]) = Cardinality(FreeUnits(f.region[r], r))
        /\ f.region[r].typ # "Trash" => Free(f.region[r]) = AllocCapacity(f.region[r])
        /\ \A u \in FreeUnits(f.region[r], r) : u \in Nat /\ RegionOf(u) = r
    BY <1>0, CapacityFact
  <2> QED BY <2>1
<1>6. A \subseteq Pool(f)
  BY DEF Pool
<1> HIDE DEF A
<1>7. Pool(g) \subseteq Pool(f)
  BY <1>2, SmallerPool
<1>8. A \cap Pool(g) = {}
  <2> SUFFICES ASSUME NEW u \in A, NEW q \in free, u \in FreeUnits(f.region[q], q) PROVE FALSE
    BY <1>2 DEF Pool
  <2>1. q \in Indices /\ q # r
    BY <1>0
  <2>2. RegionOf(u) = q
    BY <2>1, CapacityFact DEF AllRight
  <2> QED BY <1>5, <2>1, <2>2
<1>9. g.used = f.used + Cardinality(A)
  BY <1>2, <1>5 DEF us
<1>10. g.used \in Nat /\ g.used + Cardinality(Pool(g)) <= limit
  BY <1>6, <1>7, <1>8, <1>9, SpendFact DEF Accounted
<1>11. Having(g) = Having(f)
  BY <1>2 DEF Having
<1> QED BY <1>2, <1>4, <1>10, <1>11 DEF Tidy, Accounted, g

(* What an attempt leaves behind is in order, before the region is retired too. *)
LEMMA TriedRight ==
  ASSUME NEW f0, NEW X, AllRight(f0, X), NEW r \in f0.bits, NEW req, Request(req),
         NEW g, IsRec(g), g.bits = f0.bits,
         NEW h, h.region = g.region, h.starts = g.starts, NEW b, Served(f0, [f |-> h, block |-> b], req, X)
  PROVE  \E Y : AllRight(g, Y)
<1>1. \E Y : AllRight(h, Y)
  BY DEF Served
<1>2. PICK Y : AllRight(h, Y)
  BY <1>1
<1>3. \A q \in f0.bits : q \in Indices /\ g.region[q].typ \in Open /\ ~g.region[q].sweep
  <2> TAKE q \in f0.bits
  <2>1. q \in Indices /\ f0.region[q].typ \in Open /\ ~f0.region[q].sweep
    BY DEF AllRight
  <2>2. Kept(f0, h)
    BY DEF Served
  <2>3. h.region[q].sweep = f0.region[q].sweep
    BY <2>1, <2>2 DEF Kept
  <2>4. h.region[q].typ \in Open
    BY <2>1, <2>2 DEF Kept, Open, Unused
  <2> QED BY <2>1, <2>3, <2>4
<1>4. AllRight(g, Y)
  BY <1>2, <1>3 DEF AllRight
<1> QED BY <1>4

(* try_allocate_in keeps the accounts. *)
LEMMA TryTidy ==
  ASSUME NEW f0, NEW X, AllRight(f0, X), NEW r \in f0.bits, NEW req, Request(req),
         NEW limit \in Nat, Tidy(f0, limit)
  PROVE  Tidy(TryAllocateIn(f0, r, req).f, limit)
<1> DEFINE f == Recycle(f0, r)
           g == Tried(f, r, req)
           res == Answer(f, r, AskFor(f, r, req))
           done == res.block = NoBlock \/ AllocCapacity(g.region[r]) = 0
           h == IF done THEN RetireRegion(g, r) ELSE g
           acc == TryAllocateIn(f0, r, req)
<1>1. AllRight(f, X) /\ f.bits = f0.bits /\ f.region[r].typ \in Open \ {"Trash"}
  BY RecycleFact
<1>2. Tidy(f, limit)
  BY RecycleTidy
<1>3. acc = [f |-> h, block |-> res.block]
  <2>1. acc = [f |-> IF done THEN RetireRegion(g, r) ELSE g, block |-> res.block]
    BY TryParts
  <2> HIDE DEF acc, g, res, done
  <2> QED BY <2>1
<1> HIDE DEF f, res
<1>4. IsTried(f, g, r, req)
  <2>1. IsRec(f)
    BY <1>1 DEF AllRight
  <2> QED BY <2>1, TriedFact
<1> HIDE DEF g, acc
<1>5. /\ Accounted(g, limit) /\ g.bits = f.bits /\ g.region[r].typ # "Trash"
      /\ \A q \in f.bits : q # r => AllocCapacity(g.region[q]) # 0
  BY <1>1, <1>2, <1>4, TriedTidy
<1>6. CASE done
  <2>1. IsRec(g)
    BY <1>4 DEF IsTried
  <2>2. h = RetireRegion(g, r)
    BY <1>6
  <2> HIDE DEF h, done
  <2>3. h.region = g.region /\ h.starts = g.starts
    BY <2>1, <2>2, RetireFact
  <2>4. Served(f0, acc, req, X)
    BY TryFact DEF acc
  <2>5. Served(f0, [f |-> h, block |-> res.block], req, X)
    BY <1>3, <2>4
  <2>6. PICK Y : AllRight(g, Y)
    <3>1. g.bits = f0.bits
      BY <1>1, <1>5
    <3> QED BY <2>1, <2>3, <2>5, <3>1, TriedRight
  <2>7. r \in g.bits
    BY <1>1, <1>5
  <2>8. Tidy(h, limit)
    BY <1>5, <2>2, <2>6, <2>7, RetireTidy
  <2> QED BY <1>3, <2>8 DEF acc
<1>7. CASE ~done
  <2>1. acc.f = g
    BY <1>3, <1>7
  <2>2. \A q \in g.bits : AllocCapacity(g.region[q]) # 0
    <3> TAKE q \in g.bits
    <3>1. CASE q = r
      BY <1>7, <3>1
    <3>2. CASE q # r
      BY <1>5, <3>2
    <3> QED BY <3>1, <3>2
  <2> QED BY <1>5, <2>1, <2>2 DEF Tidy, acc
<1> QED BY <1>6, <1>7

(* allocate_single keeps them too. *)
LEMMA SingleTidy ==
  ASSUME NEW f, NEW X, AllRight(f, X), NEW req, Request(req), NEW limit \in Nat, Tidy(f, limit)
  PROVE  Tidy(AllocateSingle(f, req).f, limit)
<1>1. PICK walk : IsWalk(walk, f, req) /\ AllocateSingle(f, req) = walk[NumRegions]
  BY WalkFact
<1> DEFINE Good(acc) == Served(f, acc, req, X) /\ Tidy(acc.f, limit)
<1>2. Good([f |-> f, block |-> NoBlock])
  BY DEF Served, Kept
<1>3. ASSUME NEW acc, NEW r, Good(acc) PROVE Good(Visit(f, req, acc, r))
  <2> DEFINE stop == acc.block # NoBlock \/ r \notin (f.bounds.left .. f.bounds.right) \cap acc.f.bits
  <2>1. Served(f, Visit(f, req, acc, r), req, X)
    BY <1>3, VisitFact
  <2>2. CASE stop
    BY <1>3, <2>1, <2>2 DEF Visit
  <2>3. CASE ~stop
    <3>1. Visit(f, req, acc, r) = TryAllocateIn(acc.f, r, req)
      BY <2>3 DEF Visit
    <3>2. AllRight(acc.f, X)
      BY <1>3, <2>3 DEF Served
    <3>3. Tidy(TryAllocateIn(acc.f, r, req).f, limit)
      BY <1>3, <2>3, <3>2, TryTidy
    <3> QED BY <2>1, <3>1, <3>3
  <2> QED BY <2>2, <2>3
<1> DEFINE T == {i \in Nat : i <= NumRegions => Good(walk[i])}
<1>4. 0 \in T
  <2> HIDE DEF Good
  <2> QED BY <1>1, <1>2 DEF IsWalk
<1>5. ASSUME NEW i \in Nat, i \in T PROVE i + 1 \in T
  <2> HIDE DEF Good
  <2> SUFFICES ASSUME i + 1 <= NumRegions PROVE Good(walk[i + 1])
    OBVIOUS
  <2>1. Good(walk[i])
    BY <1>5, RegionsAssumption
  <2>2. i + 1 \in 1 .. NumRegions /\ (i + 1) - 1 = i
    BY RegionsAssumption
  <2>3. walk[i + 1] = Visit(f, req, walk[i], i)
    BY <1>1, <2>2 DEF IsWalk
  <2> QED BY <2>1, <2>3, <1>3
<1>6. Nat \subseteq T
  <2> HIDE DEF T
  <2> QED BY <1>4, <1>5, SetInduction
<1>7. NumRegions \in T
  BY <1>6, RegionsAssumption
<1> QED BY <1>1, <1>7, RegionsAssumption

(* allocate_contiguous takes regions out of the pool and counts their memory. *)
LEMMA ContiguousTidy ==
  ASSUME NEW f0, NEW X, AllRight(f0, X), NEW size \in Nat, size >= 1, NEW limit \in Nat, Tidy(f0, limit)
  PROVE  Tidy(AllocateContiguous(f0, size).f, limit)
<1> DEFINE n == RequiredRegions(size)
           res == AllocateContiguous(f0, size)
           g == res.f
<1>1. \/ res.block = NoBlock /\ res.f = f0
      \/ \E beg \in Nat :
           /\ res.block = <<Bottom(beg), size>> /\ IsTaken(f0, res.f, beg, size)
           /\ \A r \in beg .. beg + n - 1 : r \in Indices /\ r \in f0.bits /\ f0.region[r].typ \in Unused
  BY ContiguousParts
<1> HIDE DEF res
<1>2. CASE res.f = f0
  BY <1>2 DEF res
<1>3. ASSUME NEW beg \in Nat, IsTaken(f0, res.f, beg, size),
             \A r \in beg .. beg + n - 1 : r \in Indices /\ r \in f0.bits /\ f0.region[r].typ \in Unused
      PROVE  Tidy(res.f, limit)
  <2> DEFINE span == beg .. beg + n - 1
             fresh == {r \in span : f0.region[r].typ = "EmptyUncommited"}
  <2>1. /\ \A r \in Indices \ span : g.region[r] = f0.region[r]
        /\ g.bits = f0.bits \ span /\ g.used = f0.used
        /\ g.bounds = IF beg = f0.bounds.left \/ beg + n - 1 = f0.bounds.right
                      THEN AdjustBounds(f0.bounds, g.bits) ELSE f0.bounds
        /\ g.committed = f0.committed + Cardinality(fresh)
    BY <1>3 DEF IsTaken
  <2>2. \A r \in span : g.region[r].typ # "EmptyUncommited"
    <3> TAKE r \in span
    <3> DEFINE o == f0.region[r]
               l == IF r = beg THEN size ELSE 0
               t == IF r = beg THEN "HumongousStart" ELSE "HumongousCont"
    <3>2. r \in Indices
      BY <1>3
    <3>3. o = [typ |-> o.typ, list |-> o.list, sweep |-> o.sweep, large |-> o.large]
      BY <3>2 DEF AllRight, RegionOK
    <3>4. g.region[r] = [o EXCEPT !.list = EmptyList, !.large = l, !.typ = t]
      BY <1>3, <3>2 DEF IsTaken
    <3>5. t # "EmptyUncommited"
      OBVIOUS
    <3> HIDE DEF o, l, t, g, span
    <3>6. g.region[r] = [typ |-> t, list |-> EmptyList, sweep |-> o.sweep, large |-> l]
      BY <3>3, <3>4, HumongousExcept
    <3> QED BY <3>5, <3>6
  <2> HIDE DEF n, g
  <2>3. span \subseteq Indices /\ f0.bits \subseteq Indices
    BY <1>3 DEF AllRight, n
  <2>4. Having(g) = Having(f0) \cup fresh /\ Having(f0) \cap fresh = {}
    BY <2>1, <2>2, <2>3 DEF Having
  <2>5. g.committed = Cardinality(Having(g)) /\ g.committed \in Nat \ {0}
    <3>1. IsFiniteSet(Indices)
      <4>1. NumRegions - 1 \in Int /\ 0 \in Int
        BY RegionsAssumption
      <4> QED BY <4>1, FS_Interval DEF Indices
    <3>2. Having(f0) \in SUBSET Indices /\ fresh \in SUBSET Indices
      BY <2>3 DEF Having
    <3> HIDE DEF fresh
    <3>3. IsFiniteSet(Having(f0)) /\ IsFiniteSet(fresh)
      BY <3>1, <3>2, FS_Subset
    <3>4. Cardinality(Having(f0) \cup fresh) = Cardinality(Having(f0)) + Cardinality(fresh)
      BY <2>4, <3>3, DisjointSizes
    <3>5. f0.committed = Cardinality(Having(f0)) /\ f0.committed \in Nat \ {0}
      BY DEF Tidy, Accounted
    <3>6. Cardinality(fresh) \in Nat
      BY <3>3, FS_CardinalityType
    <3>7. g.committed = f0.committed + Cardinality(fresh)
      BY <2>1 DEF fresh
    <3>8. Cardinality(Having(g)) = Cardinality(Having(f0)) + Cardinality(fresh)
      BY <2>4, <3>4
    <3> QED BY <3>5, <3>6, <3>7, <3>8
  <2>6. \A r \in g.bits : r \in f0.bits /\ g.region[r] = f0.region[r]
    BY <2>1, <2>3
  <2>7. Pool(g) \subseteq Pool(f0)
    BY <2>1, <2>6, SmallerPool
  <2>8. g.used \in Nat /\ g.used + Cardinality(Pool(g)) <= limit
    BY <2>1, <2>7, NothingUsed DEF Tidy, Accounted
  <2>9. g.bounds.left \in 0 .. NumRegions /\ g.bounds.right \in Indices /\ g.bits \subseteq g.bounds.left .. g.bounds.right
    <3>1. /\ f0.bounds.left \in 0 .. NumRegions /\ f0.bounds.right \in Indices
          /\ g.bits \subseteq f0.bounds.left .. f0.bounds.right /\ g.bits \subseteq Indices
      BY <2>1, <2>3 DEF Tidy, Accounted
    <3>2. CASE g.bounds = f0.bounds
      BY <3>1, <3>2
    <3>3. CASE g.bounds = AdjustBounds(f0.bounds, g.bits)
      BY <3>1, <3>3, BoundsFact
    <3> QED BY <2>1, <3>2, <3>3
  <2>10. \A r \in g.bits : AllocCapacity(g.region[r]) # 0
    BY <2>6 DEF Tidy
  <2> QED BY <2>5, <2>8, <2>9, <2>10 DEF Tidy, Accounted, g
<1> QED BY <1>1, <1>2, <1>3 DEF res

(* The sum over the buffers that are given back is the size of a union. *)
LEMMA ReturnedSum ==
  ASSUME NEW D, IsFiniteSet(D), NEW U, Family(U, D),
         \A m \in D : Cardinality(U[m]) = Room(m)
  PROVE  FoldSet(LAMBDA m, n : n + Room(m), 0, D) = Cardinality(Joined(U, D))
<1> DEFINE c == [t \in SUBSET D |-> CHOOSE m \in t : TRUE]
           Good(w) == w = [t \in SUBSET D |->
                             IF t = {} THEN 0 ELSE LET m == CHOOSE m \in t : TRUE IN w[t \ {m}] + Room(m)]
           it == CHOOSE w : Good(w)
           v == Size(U, D, 0)
<1>1. FoldSet(LAMBDA m, n : n + Room(m), 0, D) = it[D]
  BY Zenon DEF FoldSet, MapThenFoldSet
<1>2. 0 \in Nat
  OBVIOUS
<1>3. Chooses(c, D)
  BY DEF Chooses
<1>4. Grows(v, U, D, 0)
  BY <1>2, SizeFact
<1>5. Good(v)
  <2>1. v = [t \in SUBSET D |-> v[t]]
    BY DEF Size
  <2>2. ASSUME NEW t \in SUBSET D
        PROVE  v[t] = IF t = {} THEN 0 ELSE LET m == CHOOSE m \in t : TRUE IN v[t \ {m}] + Room(m)
    <3> HIDE DEF v
    <3>1. CASE t = {}
      BY <1>4, <3>1 DEF Grows
    <3>2. CASE t # {}
      <4> DEFINE y == CHOOSE m \in t : TRUE
      <4>1. y \in t
        BY <3>2
      <4> HIDE DEF y
      <4>2. v[t] = v[t \ {y}] + Room(y)
        BY <1>4, <4>1 DEF Grows
      <4> QED BY <3>2, <4>2 DEF y
    <3> QED BY <3>1, <3>2
  <2> HIDE DEF v
  <2> QED BY <2>1, <2>2
<1> HIDE DEF v
<1>6. Good(it)
  BY <1>5
<1>7. it[{}] = 0 /\ Sums(it, c, U, D)
  <2> HIDE DEF it
  <2>1. \A t \in SUBSET D :
          it[t] = IF t = {} THEN 0 ELSE LET m == CHOOSE m \in t : TRUE IN it[t \ {m}] + Room(m)
    BY <1>6
  <2>2. it[{}] = 0
    BY <2>1
  <2>3. ASSUME NEW t \in SUBSET D, t # {} PROVE it[t] = it[t \ {c[t]}] + Cardinality(U[c[t]])
    <3>1. c[t] = (CHOOSE m \in t : TRUE) /\ c[t] \in D
      BY <1>3, <2>3 DEF Chooses
    <3>2. it[t] = it[t \ {c[t]}] + Room(c[t])
      BY <2>1, <2>3, <3>1
    <3> QED BY <3>1, <3>2
  <2> QED BY <2>2, <2>3 DEF Sums
<1> HIDE DEF it, c
<1>8. it[D] = 0 + Cardinality(Joined(U, D))
  BY <1>2, <1>3, <1>7, SumFact
<1>9. Cardinality(Joined(U, D)) \in Nat
  BY <1>4 DEF Grows
<1>10. it[D] = Cardinality(Joined(U, D))
  BY <1>8, <1>9
<1> QED BY <1>1, <1>10, Zenon

(* What buffers give back is counted, even what they do not own. *)
LEMMA ReturnedNat ==
  ASSUME TlabsOK, NEW ms, ms \subseteq Mutators, returned \in Nat
  PROVE  Returned(ms) \in Nat /\ returned <= Returned(ms)
<1> DEFINE D == ms \cap Holding
           U == [m \in D |-> {m} \X (1 .. Room(m))]
<1>1. IsFiniteSet(D) /\ D \subseteq Mutators
  BY RegionsAssumption, FS_Subset
<1> HIDE DEF D
<1>2. \A m \in D : IsFiniteSet(U[m]) /\ Cardinality(U[m]) = Room(m)
  <2> TAKE m \in D
  <2>1. Room(m) \in Nat
    BY <1>1, RoomFact
  <2> DEFINE n == Room(m)
  <2>2. IsFiniteSet(1 .. n) /\ Cardinality(1 .. n) = n
    <3>1. 1 \in Int /\ n \in Int /\ n \in Nat
      BY <2>1
    <3> HIDE DEF n
    <3>2. IsFiniteSet(1 .. n) /\ Cardinality(1 .. n) = IF 1 > n THEN 0 ELSE n - 1 + 1
      BY <3>1, FS_Interval
    <3> QED BY <3>1, <3>2
  <2>3. IsFiniteSet({m}) /\ Cardinality({m}) = 1
    BY FS_Singleton
  <2>4. IsFiniteSet({m} \X (1 .. n)) /\ Cardinality({m} \X (1 .. n)) = Cardinality({m}) * Cardinality(1 .. n)
    BY <2>2, <2>3, FS_Product
  <2>5. Cardinality({m} \X (1 .. n)) = n
    BY <2>1, <2>2, <2>3, <2>4
  <2>6. U[m] = {m} \X (1 .. n)
    OBVIOUS
  <2> QED BY <2>4, <2>5, <2>6
<1>3. \A m, k \in D : m # k => U[m] \cap U[k] = {}
  OBVIOUS
<1>4. Family(U, D)
  BY <1>2, <1>3 DEF Family
<1> HIDE DEF U
<1>5. FoldSet(LAMBDA m, n : n + Room(m), 0, D) = Cardinality(Joined(U, D))
  BY <1>1, <1>2, <1>4, ReturnedSum
<1>6. Cardinality(Joined(U, D)) \in Nat
  <2>1. 0 \in Nat /\ D \in SUBSET D
    OBVIOUS
  <2> QED BY <2>1, <1>1, <1>4, SizeFact DEF Grows
<1>7. Returned(ms) = returned + Cardinality(Joined(U, D))
  <2>1. Returned(ms) = returned + FoldSet(LAMBDA m, n : n + Room(m), 0, D)
    BY DEF Returned, D
  <2> QED BY <1>5, <2>1, Zenon
<1> QED BY <1>6, <1>7

(* capacity after a rebuild: the units in all regions that are opened. *)
LEMMA CapacitySum ==
  ASSUME NEW f, NEW X, AllRight(f, X)
  PROVE  Capacity(f) = Cardinality(Pool(Rebuilt(f))) /\ Capacity(f) \in Nat
<1> DEFINE D == {r \in Indices : /\ IsAllocAllowed(f.region[r]) \/ f.region[r].typ = "Trash"
                                 /\ AllocCapacity(f.region[r]) # 0}
           U == [r \in D |-> FreeUnits(f.region[r], r)]
           c == [t \in SUBSET D |-> CHOOSE r \in t : TRUE]
           Good(w) == w = [t \in SUBSET D |->
                             IF t = {} THEN 0
                             ELSE LET r == CHOOSE r \in t : TRUE IN w[t \ {r}] + AllocCapacity(f.region[r])]
           it == CHOOSE w : Good(w)
           v == Size(U, D, 0)
<1>1. Rebuilt(f).bits = D /\ Rebuilt(f).region = f.region
  <2> DEFINE bds == AdjustBounds(FullRange, D)
             h == [f EXCEPT !.bits = D]
             h2 == [h EXCEPT !.used = 0]
  <2>1. Rebuilt(f) = [h2 EXCEPT !.bounds = bds]
    BY DEF Rebuilt
  <2> HIDE DEF D, bds
  <2>2. h = [region |-> f.region, bits |-> D, bounds |-> f.bounds, used |-> f.used, starts |-> f.starts, committed |-> f.committed]
    BY DEF AllRight, IsRec
  <2> HIDE DEF h
  <2>3. h2 = [region |-> f.region, bits |-> D, bounds |-> f.bounds, used |-> 0, starts |-> f.starts, committed |-> f.committed]
    BY <2>2
  <2> HIDE DEF h2
  <2> QED BY <2>1, <2>3
<1>2. Capacity(f) = it[D]
  <2> HIDE DEF D
  <2>1. Capacity(f) = FoldFunctionOnSet(LAMBDA g, sum : sum + AllocCapacity(g), 0, f.region, D)
    BY <1>1 DEF Capacity
  <2> QED BY <2>1, Zenon DEF FoldFunctionOnSet, MapThenFoldSet
<1>3. IsFiniteSet(D) /\ D \subseteq Indices /\ 0 \in Nat
  <2>1. NumRegions - 1 \in Int /\ 0 \in Int
    BY RegionsAssumption
  <2>2. IsFiniteSet(Indices)
    BY <2>1, FS_Interval DEF Indices
  <2>3. D \in SUBSET Indices
    OBVIOUS
  <2> QED BY <2>2, <2>3, FS_Subset
<1> HIDE DEF D
<1>4. Chooses(c, D)
  BY DEF Chooses
<1>5. \A r \in D : /\ IsFiniteSet(U[r]) /\ Cardinality(U[r]) = AllocCapacity(f.region[r])
                   /\ \A u \in U[r] : RegionOf(u) = r
  <2> TAKE r \in D
  <2>1. RegionOK(f.region[r], r, X, f.starts) /\ r \in Indices
    BY <1>3 DEF AllRight
  <2>2. U[r] = FreeUnits(f.region[r], r)
    OBVIOUS
  <2> HIDE DEF U
  <2> QED BY <2>1, <2>2, CapacityFact
<1>6. Family(U, D)
  <2> HIDE DEF U
  <2>1. \A r, q \in D : r # q => U[r] \cap U[q] = {}
    BY <1>5
  <2> QED BY <1>5, <2>1 DEF Family
<1>7. Joined(U, D) = Pool(Rebuilt(f))
  BY <1>1 DEF Joined, Pool
<1> HIDE DEF U
<1>8. Grows(v, U, D, 0)
  BY <1>3, <1>6, SizeFact
<1>9. Good(v)
  <2>1. v = [t \in SUBSET D |-> v[t]]
    BY DEF Size
  <2>2. ASSUME NEW t \in SUBSET D
        PROVE  v[t] = IF t = {} THEN 0
                      ELSE LET r == CHOOSE r \in t : TRUE IN v[t \ {r}] + AllocCapacity(f.region[r])
    <3> HIDE DEF v
    <3>1. CASE t = {}
      BY <1>8, <3>1 DEF Grows
    <3>2. CASE t # {}
      <4> DEFINE y == CHOOSE r \in t : TRUE
      <4>1. y \in t
        BY <3>2
      <4> HIDE DEF y
      <4>2. v[t] = v[t \ {y}] + AllocCapacity(f.region[y])
        BY <1>5, <1>8, <4>1 DEF Grows
      <4> QED BY <3>2, <4>2 DEF y
    <3> QED BY <3>1, <3>2
  <2> HIDE DEF v
  <2> QED BY <2>1, <2>2
<1> HIDE DEF v
<1>10. Good(it)
  BY <1>9
<1>11. it[{}] = 0 /\ Sums(it, c, U, D)
  <2> HIDE DEF it
  <2>1. \A t \in SUBSET D :
          it[t] = IF t = {} THEN 0
                  ELSE LET r == CHOOSE r \in t : TRUE IN it[t \ {r}] + AllocCapacity(f.region[r])
    BY <1>10
  <2>2. it[{}] = 0
    BY <2>1
  <2>3. ASSUME NEW t \in SUBSET D, t # {} PROVE it[t] = it[t \ {c[t]}] + Cardinality(U[c[t]])
    <3>1. c[t] = (CHOOSE r \in t : TRUE) /\ c[t] \in D
      BY <1>4, <2>3 DEF Chooses
    <3>2. it[t] = it[t \ {c[t]}] + AllocCapacity(f.region[c[t]])
      BY <2>1, <2>3, <3>1
    <3> QED BY <1>5, <3>1, <3>2
  <2> QED BY <2>2, <2>3 DEF Sums
<1> HIDE DEF it, c
<1>12. it[D] = 0 + Cardinality(Joined(U, D))
  BY <1>3, <1>4, <1>6, <1>11, SumFact
<1>13. Cardinality(Joined(U, D)) \in Nat
  BY <1>8 DEF Grows
<1> QED BY <1>2, <1>7, <1>12, <1>13

(* rebuild begins new accounts. *)
LEMMA RebuildTidy ==
  ASSUME NEW f, NEW X, AllRight(f, X), NEW limit, Tidy(f, limit)
  PROVE  Tidy(Rebuilt(f), Capacity(f)) /\ IsRec(Rebuilt(f))
<1> DEFINE D == {r \in Indices : /\ IsAllocAllowed(f.region[r]) \/ f.region[r].typ = "Trash"
                                 /\ AllocCapacity(f.region[r]) # 0}
           g == Rebuilt(f)
           bds == AdjustBounds(FullRange, D)
           h == [f EXCEPT !.bits = D]
           h2 == [h EXCEPT !.used = 0]
<1>0. D \subseteq Indices /\ \A r \in D : AllocCapacity(f.region[r]) # 0
  OBVIOUS
<1>1. g = [h2 EXCEPT !.bounds = bds]
  BY DEF Rebuilt
<1> HIDE DEF D, bds, g
<1>2. h = [region |-> f.region, bits |-> D, bounds |-> f.bounds, used |-> f.used, starts |-> f.starts, committed |-> f.committed]
  BY DEF AllRight, IsRec
<1> HIDE DEF h
<1>3. h2 = [region |-> f.region, bits |-> D, bounds |-> f.bounds, used |-> 0, starts |-> f.starts, committed |-> f.committed]
  BY <1>2
<1> HIDE DEF h2
<1>4. g = [region |-> f.region, bits |-> D, bounds |-> bds, used |-> 0, starts |-> f.starts, committed |-> f.committed]
  BY <1>1, <1>3
<1>5. /\ g.region = f.region /\ g.bits = D /\ g.bounds = bds /\ g.used = 0 /\ g.committed = f.committed /\ IsRec(g)
  BY <1>4 DEF IsRec
<1>6. bds.left \in 0 .. NumRegions /\ bds.right \in Indices /\ D \subseteq bds.left .. bds.right
  <2>1. FullRange.left \in 0 .. NumRegions /\ FullRange.right \in Indices
        /\ D \subseteq FullRange.left .. FullRange.right
    BY <1>0, RegionsAssumption DEF FullRange, Indices
  <2> QED BY <1>0, <2>1, BoundsFact DEF bds
<1>7. Having(g) = Having(f)
  BY <1>5 DEF Having
<1>8. Capacity(f) = Cardinality(Pool(g)) /\ Capacity(f) \in Nat
  BY CapacitySum DEF g
<1>9. g.used \in Nat /\ g.used + Cardinality(Pool(g)) <= Capacity(f)
  BY <1>5, <1>8
<1>10. Accounted(g, Capacity(f))
  BY <1>5, <1>6, <1>7, <1>9 DEF Accounted, Tidy
<1>11. Tidy(g, Capacity(f))
  BY <1>0, <1>5, <1>10 DEF Tidy
<1> QED BY <1>5, <1>11 DEF g

(* What a region that gets the rests of buffers offers then. *)
LEMMA GivenUnits ==
  ASSUME SoundInv, NEW ms, ms \subseteq Mutators, NEW r \in Indices
  PROVE  /\ GivenBack(ms)[r].typ = region[r].typ
         /\ FreeUnits(region[r], r) \subseteq FreeUnits(GivenBack(ms)[r], r)
         /\ FreeUnits(GivenBack(ms)[r], r) \subseteq FreeUnits(region[r], r) \cup Covered(RestsAt(ms, r))
<1> DEFINE o == region[r]
           g == GivenBack(ms)[r]
           l == AddAll(o.list, RestsAt(ms, r))
<1>1. RegionOK(o, r, Covered(Pieces(objs, Rests)), starts)
  BY FFact DEF SoundInv, InOrder, AllRight
<1>2. g = [o EXCEPT !.list = l]
  BY DEF GivenBack, RestsAt
<1>3. Entries(l) = Entries(o.list) \cup RestsAt(ms, r)
  <2>1. ListOK(o.list)
    BY <1>1 DEF RegionOK
  <2>2. IsFiniteSet(RestsAt(ms, r)) /\ \A b \in RestsAt(ms, r) : Sized(b)
    BY RestsAtFact DEF SoundInv
  <2> QED BY <2>1, <2>2, AddAllFact
<1> HIDE DEF l, g
<1>4. o = [typ |-> o.typ, list |-> o.list, sweep |-> o.sweep, large |-> o.large]
  BY <1>1 DEF RegionOK
<1> HIDE DEF o
<1>5. g = [typ |-> o.typ, list |-> l, sweep |-> o.sweep, large |-> o.large]
  BY <1>2, <1>4, ListExcept
<1>6. g.typ = o.typ /\ g.list = l
  BY <1>5
<1>7. Covered(Entries(l)) = Covered(Entries(o.list)) \cup Covered(RestsAt(ms, r))
  BY <1>3 DEF Covered
<1>8. FreeUnits(o, r) \subseteq FreeUnits(g, r)
      /\ FreeUnits(g, r) \subseteq FreeUnits(o, r) \cup Covered(RestsAt(ms, r))
  BY <1>6, <1>7 DEF FreeUnits
<1> QED BY <1>6, <1>8 DEF o, g

(* The size of a union is at most the sum of the sizes. *)
LEMMA UnionSize ==
  ASSUME NEW A, IsFiniteSet(A), NEW B, IsFiniteSet(B), NEW C, C \subseteq A \cup B
  PROVE  /\ Cardinality(C) <= Cardinality(A) + Cardinality(B)
         /\ Cardinality(C) \in Nat /\ Cardinality(A) \in Nat /\ Cardinality(B) \in Nat
<1>1. /\ IsFiniteSet(A \cup B)
      /\ Cardinality(A \cup B) = Cardinality(A) + Cardinality(B) - Cardinality(A \cap B)
  BY FS_Union
<1>2. IsFiniteSet(A \cap B)
  BY FS_Intersection
<1>3. C \in SUBSET (A \cup B)
  OBVIOUS
<1>4. IsFiniteSet(C) /\ Cardinality(C) <= Cardinality(A \cup B)
  BY <1>1, <1>3, FS_Subset
<1>5. /\ Cardinality(A) \in Nat /\ Cardinality(B) \in Nat /\ Cardinality(A \cap B) \in Nat
      /\ Cardinality(A \cup B) \in Nat /\ Cardinality(C) \in Nat
  BY <1>1, <1>2, <1>4, FS_CardinalityType
<1> QED BY <1>1, <1>4, <1>5

(* Buffers that are given back are accounted for. *)
LEMMA GivenTidy ==
  ASSUME SoundInv, NEW ms, ms \subseteq Mutators, ms \cap Holding \subseteq Held,
         capacity \in Nat, returned \in Nat, Tidy(F, capacity + returned),
         NEW g, IsRec(g), g.region = GivenBack(ms), g.bits = bits, g.starts = starts,
         g.bounds = bounds, g.used = used, g.committed = committed
  PROVE  Tidy(g, capacity + Returned(ms))
<1> DEFINE D == ms \cap Holding
           U == [m \in D |-> Units(Rest(m))]
           J == Joined(U, D)
           Q == [m \in Held \ ms |-> Rest(m)]
           X == Covered(Pieces(objs, Rests))
<1>1. IsFiniteSet(D) /\ D \subseteq Mutators /\ D \subseteq Held /\ D \subseteq Holding
  BY RegionsAssumption, FS_Subset
<1>2. AllRight(F, X) /\ TlabsOK /\ PiecesApart(objs, Rests)
  BY DEF SoundInv, InOrder
<1>3. \E Y : AllRight(g, Y)
  <2>1. DOMAIN Q = Held \ ms /\ \A m \in Held \ ms : Q[m] = Rest(m)
    OBVIOUS
  <2> HIDE DEF Q
  <2>2. InOrder(g, objs, Q)
    BY <2>1, GivenFact
  <2> QED BY <2>2 DEF InOrder
<1> HIDE DEF X, D
<1>4. \A m \in D : IsFiniteSet(U[m]) /\ Cardinality(U[m]) = Room(m)
  <2> TAKE m \in D
  <2>1. Sized(Rest(m))
    BY <1>1, <1>2, HomeFact
  <2>2. Rest(m) \in Block /\ Rest(m)[2] = Room(m)
    BY <2>1 DEF Sized, Rest
  <2> QED BY <2>2, BlockSize
<1>5. \A m, k \in D : m # k => U[m] \cap U[k] = {}
  <2> TAKE m, k \in D
  <2>1. m \in DOMAIN Rests /\ k \in DOMAIN Rests /\ Rests[m] = Rest(m) /\ Rests[k] = Rest(k)
    BY <1>1 DEF Rests
  <2> QED BY <1>2, <2>1 DEF PiecesApart
<1>6. \A r \in Indices : Covered(RestsAt(ms, r)) \subseteq J
  BY DEF Covered, RestsAt, Joined, D
<1> HIDE DEF U
<1>7. Family(U, D)
  BY <1>4, <1>5 DEF Family
<1>8. Returned(ms) = returned + Cardinality(J) /\ IsFiniteSet(J) /\ Cardinality(J) \in Nat
  <2>1. FoldSet(LAMBDA m, n : n + Room(m), 0, D) = Cardinality(J)
    BY <1>1, <1>4, <1>7, ReturnedSum
  <2>2. Returned(ms) = returned + FoldSet(LAMBDA m, n : n + Room(m), 0, D)
    BY DEF Returned, D
  <2>3. Returned(ms) = returned + Cardinality(J)
    BY <2>1, <2>2, Zenon
  <2>4. IsFiniteSet(J)
    BY <1>1, <1>4, JoinedFinite
  <2> QED BY <2>3, <2>4, FS_CardinalityType
<1> HIDE DEF J
<1>9. F.bits = bits /\ F.region = region /\ F.bounds = bounds /\ F.used = used /\ F.committed = committed
  BY FFact
<1>10. \A r \in Indices : /\ g.region[r].typ = F.region[r].typ
                          /\ FreeUnits(F.region[r], r) \subseteq FreeUnits(g.region[r], r)
                          /\ FreeUnits(g.region[r], r) \subseteq FreeUnits(F.region[r], r) \cup J
  <2> TAKE r \in Indices
  <2>1. /\ GivenBack(ms)[r].typ = region[r].typ
        /\ FreeUnits(region[r], r) \subseteq FreeUnits(GivenBack(ms)[r], r)
        /\ FreeUnits(GivenBack(ms)[r], r) \subseteq FreeUnits(region[r], r) \cup Covered(RestsAt(ms, r))
    BY GivenUnits
  <2> QED BY <2>1, <1>6, <1>9
<1>11. bits \subseteq Indices
  BY <1>2, <1>9 DEF AllRight
<1>12. Pool(g) \subseteq Pool(F) \cup J
  BY <1>9, <1>10, <1>11 DEF Pool
<1>13. g.used + Cardinality(Pool(g)) <= capacity + Returned(ms)
  <2>1. IsFiniteSet(Pool(F))
    BY <1>2, PoolFact
  <2>2. /\ Cardinality(Pool(g)) <= Cardinality(Pool(F)) + Cardinality(J)
        /\ Cardinality(Pool(g)) \in Nat /\ Cardinality(Pool(F)) \in Nat
    BY <1>8, <1>12, <2>1, UnionSize
  <2> DEFINE p == Cardinality(Pool(g))
             q == Cardinality(Pool(F))
             j == Cardinality(J)
  <2>3. used + q <= capacity + returned /\ used \in Nat
    BY <1>9 DEF Tidy, Accounted
  <2>4. p <= q + j /\ p \in Nat /\ q \in Nat /\ j \in Nat /\ Returned(ms) = returned + j
    BY <1>8, <2>2
  <2> HIDE DEF p, q, j
  <2>5. used + p <= capacity + Returned(ms)
    BY <2>3, <2>4
  <2> QED BY <2>5 DEF p
<1>14. \A r \in bits : AllocCapacity(g.region[r]) # 0
  <2> TAKE r \in bits
  <2>1. r \in Indices
    BY <1>11
  <2>2. RegionOK(F.region[r], r, X, F.starts) /\ \E Y : RegionOK(g.region[r], r, Y, g.starts)
    BY <1>2, <1>3, <2>1 DEF AllRight
  <2> DEFINE A == FreeUnits(F.region[r], r)
             B == FreeUnits(g.region[r], r)
  <2>3. AllocCapacity(F.region[r]) = Cardinality(A)
    BY <2>1, <2>2, CapacityFact
  <2>4. AllocCapacity(g.region[r]) = Cardinality(B) /\ IsFiniteSet(B)
    BY <2>1, <2>2, CapacityFact
  <2>5. A \in SUBSET B
    BY <1>10, <2>1
  <2>6. AllocCapacity(F.region[r]) # 0
    BY <1>9 DEF Tidy
  <2> HIDE DEF A, B
  <2>7. Cardinality(A) <= Cardinality(B) /\ Cardinality(A) \in Nat /\ Cardinality(B) \in Nat
    BY <2>4, <2>5, FS_Subset, FS_CardinalityType
  <2> QED BY <2>3, <2>4, <2>6, <2>7
<1>15. Having(g) = Having(F)
  BY <1>10 DEF Having
<1>16. Accounted(g, capacity + Returned(ms))
  BY <1>9, <1>13, <1>15 DEF Accounted, Tidy
<1> QED BY <1>14, <1>16 DEF Tidy

-----------------------------------------------------------------------------
(*****************************************************************************)
(* The accounts in the steps of threads, collector and controller.           *)
(*****************************************************************************)

\* While nothing has gone wrong, the accounts are kept.
AccountInv == FreeSetOK /\ (fault = "none" => Tidy(F, capacity + returned))

\* What the fields that no operation on the free set changes hold.
FieldsOK ==
  /\ capacity \in Nat /\ returned \in Nat
  /\ \A m \in Mutators : want[m] \in {0} \cup Sizes
  /\ phase \in {"idle", "sweep"} /\ elastic \in BOOLEAN

AccountsKept ==
  RegionInv /\ fault = "none" /\ FieldsOK /\ Tidy(F, capacity + returned)

(* There are finitely many regions. *)
LEMMA IndicesFact ==
  /\ IsFiniteSet(Indices) /\ Cardinality(Indices) = NumRegions
  /\ \A S \in SUBSET Indices : IsFiniteSet(S) /\ Cardinality(S) \in 0 .. NumRegions
<1>1. NumRegions - 1 \in Int /\ 0 \in Int /\ NumRegions \in Nat
  BY RegionsAssumption
<1>2. IsFiniteSet(Indices) /\ Cardinality(Indices) = NumRegions
  <2>1. /\ IsFiniteSet(0 .. NumRegions - 1)
        /\ Cardinality(0 .. NumRegions - 1) = IF 0 > NumRegions - 1 THEN 0 ELSE (NumRegions - 1) - 0 + 1
    BY <1>1, FS_Interval
  <2>2. Cardinality(0 .. NumRegions - 1) = NumRegions
    BY <2>1, RegionsAssumption
  <2> QED BY <2>1, <2>2 DEF Indices
<1>3. ASSUME NEW S \in SUBSET Indices PROVE IsFiniteSet(S) /\ Cardinality(S) \in 0 .. NumRegions
  <2>1. IsFiniteSet(S) /\ Cardinality(S) <= Cardinality(Indices)
    BY <1>2, FS_Subset
  <2>2. Cardinality(S) \in Nat
    BY <2>1, FS_CardinalityType
  <2> QED BY <1>1, <1>2, <2>1, <2>2
<1> QED BY <1>2, <1>3

(* The lists of sound regions can be searched. *)
LEMMA ListsFindable ==
  ASSUME SoundInv
  PROVE  /\ FreeListFindable
         /\ \A r \in Indices : /\ region[r].typ \in States /\ region[r].sweep \in BOOLEAN
                               /\ region[r].large \in Nat /\ Entries(region[r].list) \subseteq Block
<1>1. \A r \in Indices : RegionOK(region[r], r, Covered(Pieces(objs, Rests)), starts)
  BY FFact DEF SoundInv, InOrder, AllRight
<1>2. FreeListFindable
  <2> SUFFICES ASSUME NEW r \in Indices, NEW i \in Buckets, NEW b \in Range(region[r].list.heads[i])
               PROVE  i <= region[r].list.biggest /\ bucket_index_for_size(b[2]) = i
    BY DEF FreeListFindable
  <2>1. PICK k \in DOMAIN region[r].list.heads[i] : b = region[r].list.heads[i][k]
    BY DEF Range
  <2>2. ListOK(region[r].list)
    BY <1>1 DEF RegionOK
  <2> QED BY <2>1, <2>2 DEF ListOK
<1>3. \A r \in Indices : Entries(region[r].list) \subseteq Block
  <2> SUFFICES ASSUME NEW r \in Indices, NEW b \in Entries(region[r].list) PROVE b \in Block
    OBVIOUS
  <2>1. ListOK(region[r].list)
    BY <1>1 DEF RegionOK
  <2> QED BY <2>1, EntrySized DEF Sized
<1> QED BY <1>1, <1>2, <1>3 DEF RegionOK

(* While nothing has gone wrong, the accounts say all there is to say. *)
LEMMA AccountFact ==
  AccountsKept => AccountInv
<1> SUFFICES ASSUME RegionInv, fault = "none", FieldsOK, Tidy(F, capacity + returned)
             PROVE  AccountInv
  BY DEF AccountsKept
<1>0. SoundInv
  BY DEF RegionInv
<1>1. /\ F.region = region /\ F.bits = bits /\ F.bounds = bounds /\ F.used = used /\ F.committed = committed
      /\ F.starts = starts
  BY FFact
<1>2. /\ InOrder(F, objs, Rests) /\ TlabsOK /\ WantsOK /\ candidate \in Indices \cup {NoRegion}
      /\ AllRight(F, Covered(Pieces(objs, Rests)))
  BY <1>0 DEF SoundInv, InOrder
<1>3. /\ bounds.left \in 0 .. NumRegions /\ bounds.right \in Indices /\ bits \subseteq bounds.left .. bounds.right
      /\ committed = Cardinality(Having(F)) /\ used \in Nat
      /\ used + Cardinality(Pool(F)) <= capacity + returned
      /\ \A r \in bits : AllocCapacity(region[r]) # 0
  BY <1>1 DEF Tidy, Accounted
<1>4. committed \in 0 .. NumRegions
  <2>1. Having(F) \in SUBSET Indices
    BY DEF Having
  <2> QED BY <1>3, <2>1, IndicesFact
<1>5. used <= capacity + returned
  <2>1. Cardinality(Pool(F)) \in Nat
    BY <1>2, PoolFact
  <2> DEFINE p == Cardinality(Pool(F))
  <2>2. p \in Nat /\ used \in Nat /\ used + p <= capacity + returned /\ capacity \in Nat /\ returned \in Nat
    BY <1>3, <2>1 DEF FieldsOK
  <2> HIDE DEF p
  <2> QED BY <2>2
<1>6. TypeOK
  <2>1. \A r \in Indices : /\ region[r].typ \in States /\ region[r].sweep \in BOOLEAN
                           /\ region[r].large \in Nat /\ Entries(region[r].list) \subseteq Block
    BY <1>0, ListsFindable
  <2>2. bits \subseteq Indices /\ starts \subseteq Nat
    BY <1>1, <1>2 DEF AllRight
  <2>3. {capacity, used, returned} \subseteq Nat /\ phase \in {"idle", "sweep"} /\ elastic \in BOOLEAN
    BY <1>3 DEF FieldsOK
  <2>4. \A m \in Mutators : tlab[m].top <= tlab[m].end /\ want[m] \in {0} \cup Sizes
    BY <1>2 DEF TlabsOK, FieldsOK
  <2>5. pc \in [Mutators -> {"run", "refill", "shared", "exiting", "done"}]
    BY <1>2 DEF WantsOK
  <2>6. objs \subseteq Block
    <3> SUFFICES ASSUME NEW o \in objs PROVE o \in Block
      OBVIOUS
    <3>1. o = <<o[1], o[2]>> /\ o[1] \in Nat /\ o[2] \in Sizes
      BY <1>2 DEF InOrder, ObjOK
    <3>2. o[2] \in Nat
      BY <3>1, RegionsAssumption
    <3> QED BY <3>1, <3>2 DEF Block
  <2> QED BY <1>2, <1>3, <1>4, <2>1, <2>2, <2>3, <2>4, <2>5, <2>6 DEF TypeOK
<1>7. FreeListFindable
  BY <1>0, ListsFindable
<1>8. BoundsCover
  BY <1>3 DEF BoundsCover
<1>9. OpenRegionsUsable
  <2>1. \A r \in bits : ~region[r].sweep
    BY <1>1, <1>2 DEF AllRight
  <2> QED BY <1>3, <2>1 DEF OpenRegionsUsable
<1>10. UsedBounded
  BY <1>5 DEF UsedBounded
<1>11. CommitCount
  BY <1>1, <1>3 DEF CommitCount, Having
<1>12. FreeSetOK
  BY <1>6, <1>7, <1>8, <1>9, <1>10, <1>11 DEF FreeSetOK
<1> QED BY <1>12 DEF AccountInv

(* The same of the next state. *)
LEMMA AccountNext ==
  AccountsKept' => AccountInv'
BY AccountFact, PTL

(* The end of a step that goes right. *)
LEMMA KeptStep ==
  ASSUME RegionInv', fault' = "none", FieldsOK', NEW f, F' = f, NEW n, capacity' + returned' = n, Tidy(f, n)
  PROVE  AccountInv'
<1>1. AccountsKept'
  BY DEF AccountsKept
<1> QED BY <1>1, AccountNext

(* What the steps begin with. *)
LEMMA AccountsBefore ==
  ASSUME RegionInv, AccountInv, fault = "none"
  PROVE  /\ SoundInv /\ FieldsOK /\ Tidy(F, capacity + returned)
         /\ capacity \in Nat /\ returned \in Nat /\ capacity + returned \in Nat
<1>1. TypeOK
  BY DEF AccountInv, FreeSetOK
<1>2. FieldsOK
  BY <1>1 DEF TypeOK, FieldsOK
<1> QED BY <1>2 DEF RegionInv, AccountInv, FieldsOK

(* The accounts do not look at start bits. *)
LEMMA SameAccounts ==
  ASSUME NEW f, NEW g, g.region = f.region, g.bits = f.bits, g.bounds = f.bounds, g.used = f.used,
         g.committed = f.committed, NEW limit, Tidy(f, limit)
  PROVE  Tidy(g, limit)
<1>1. Pool(g) = Pool(f) /\ Having(g) = Having(f)
  BY DEF Pool, Having
<1> QED BY <1>1 DEF Tidy, Accounted

(* A bit more in the record of the free set. *)
LEMMA StartsTidy ==
  ASSUME NEW f, IsRec(f), NEW s, NEW limit, Tidy(f, limit)
  PROVE  LET g == [f EXCEPT !.starts = s] IN IsRec(g) /\ Tidy(g, limit)
<1> DEFINE g == [f EXCEPT !.starts = s]
<1>1. g = [region |-> f.region, bits |-> f.bits, bounds |-> f.bounds, used |-> f.used,
           starts |-> s, committed |-> f.committed]
  BY DEF IsRec
<1> HIDE DEF g
<1>2. /\ g.region = f.region /\ g.bits = f.bits /\ g.bounds = f.bounds /\ g.used = f.used
      /\ g.committed = f.committed /\ IsRec(g)
  BY <1>1 DEF IsRec
<1> QED BY <1>2, SameAccounts DEF g

(* tlab.allocate *)
LEMMA AllocateInTlabAccounts ==
  ASSUME RegionInv, AccountInv, fault = "none", RegionInv',
         NEW m \in Mutators, NEW size \in Sizes, AllocateInTlab(m, size)
  PROVE  AccountInv'
<1>1. FieldsOK /\ Tidy(F, capacity + returned)
  BY AccountsBefore
<1>2. UNCHANGED <<region, bits, bounds, capacity, used, committed, returned, want, phase, elastic, fault>>
  BY DEF AllocateInTlab
<1> DEFINE g == F'
<1>3. /\ g.region = F.region /\ g.bits = F.bits /\ g.bounds = F.bounds /\ g.used = F.used
      /\ g.committed = F.committed
  BY <1>2 DEF F
<1>4. F' = g
  OBVIOUS
<1> HIDE DEF g
<1>5. Tidy(g, capacity + returned)
  BY <1>1, <1>3, SameAccounts
<1>6. FieldsOK' /\ capacity' + returned' = capacity + returned
  BY <1>1, <1>2 DEF FieldsOK
<1> QED BY <1>2, <1>4, <1>5, <1>6, KeptStep

(* A request for a buffer. *)
LEMMA TlabTidy ==
  ASSUME SoundInv, NEW limit \in Nat, Tidy(F, limit)
  PROVE  LET res == Allocate(F, TlabRequest) IN IsRec(res.f) /\ Tidy(res.f, limit)
<1> DEFINE res == Allocate(F, TlabRequest)
<1>1. TlabSize \in 1 .. RegionSize /\ MinTlabSize \in Nat \ {0} /\ RegionSize \in Nat
  BY RegionsAssumption, Powers
<1>2. TlabRequest.lab = TRUE /\ TlabRequest.size = TlabSize /\ TlabRequest.min = MinTlabSize
  BY DEF TlabRequest
<1>3. Request(TlabRequest)
  BY <1>1, <1>2 DEF Request
<1>4. res = AllocateSingle(F, TlabRequest)
  BY <1>1, <1>2 DEF Allocate
<1>5. AllRight(F, Covered(Pieces(objs, Rests)))
  BY DEF SoundInv, InOrder
<1>6. Tidy(res.f, limit)
  BY <1>3, <1>4, <1>5, SingleTidy
<1>7. Served(F, res, TlabRequest, Covered(Pieces(objs, Rests)))
  BY TlabServed
<1> HIDE DEF res
<1>8. IsRec(res.f)
  BY <1>7 DEF Served, AllRight
<1> QED BY <1>6, <1>8 DEF res

(* A request for an object. *)
LEMMA SharedTidy ==
  ASSUME SoundInv, NEW n \in Sizes, NEW limit \in Nat, Tidy(F, limit)
  PROVE  LET res == Allocate(F, [lab |-> FALSE, size |-> n, min |-> n])
         IN IsRec(res.f) /\ Tidy(res.f, limit)
<1> DEFINE req == [lab |-> FALSE, size |-> n, min |-> n]
           res == Allocate(F, req)
<1>1. n \in Nat /\ n >= 1 /\ RegionSize \in Nat
  BY RegionsAssumption, Powers
<1>2. req.lab = FALSE /\ req.size = n /\ req.min = n
  OBVIOUS
<1>3. AllRight(F, Covered(Pieces(objs, Rests)))
  BY DEF SoundInv, InOrder
<1>4. SharedOutcome(res, n)
  BY SharedFact
<1> HIDE DEF req
<1>5. Tidy(res.f, limit)
  <2>1. CASE n <= RegionSize
    <3>0. req.lab \in BOOLEAN
      BY <1>2
    <3>1. Request(req)
      BY <1>1, <1>2, <2>1, <3>0 DEF Request
    <3>2. res = AllocateSingle(F, req)
      BY <1>1, <1>2, <2>1 DEF Allocate
    <3> QED BY <1>3, <3>1, <3>2, SingleTidy
  <2>2. CASE ~(n <= RegionSize)
    <3>1. n > RegionSize
      BY <1>1, <2>2
    <3>2. res = AllocateContiguous(F, n)
      BY <1>2, <3>1 DEF Allocate
    <3> QED BY <1>1, <1>3, <3>2, ContiguousTidy
  <2> QED BY <2>1, <2>2
<1> HIDE DEF res
<1>6. IsRec(res.f)
  BY <1>4 DEF SharedOutcome, InOrder, AllRight
<1> QED BY <1>5, <1>6 DEF res, req

(* alloc_inside_tlab_slow *)
LEMMA RefillAccounts ==
  ASSUME RegionInv, AccountInv, fault = "none", RegionInv', NEW m \in Mutators, Refill(m)
  PROVE  AccountInv'
<1> DEFINE res == Allocate(F, TlabRequest)
           b == res.block
           h == [res.f EXCEPT !.starts = @ \cup {b[1]}]
<1>1. /\ SoundInv /\ FieldsOK /\ Tidy(F, capacity + returned)
      /\ capacity \in Nat /\ returned \in Nat /\ capacity + returned \in Nat
  BY AccountsBefore
<1>2. IsRec(res.f) /\ Tidy(res.f, capacity + returned)
  BY <1>1, TlabTidy
<1>3. UNCHANGED <<capacity, returned, phase, elastic>>
  BY DEF Refill
<1>4. CASE StoreF(res.f) /\ UNCHANGED <<want, fault>>
  <2>1. F' = res.f
    BY <1>2, <1>4, StoreFact
  <2>2. FieldsOK' /\ capacity' + returned' = capacity + returned /\ fault' = "none"
    BY <1>1, <1>3, <1>4 DEF FieldsOK
  <2> HIDE DEF res
  <2> QED BY <1>2, <2>1, <2>2, KeptStep
<1>5. CASE StoreF(h) /\ want' = [want EXCEPT ![m] = 0] /\ UNCHANGED fault
  <2> DEFINE f == res.f
  <2>1. IsRec(h) /\ Tidy(h, capacity + returned)
    <3>1. h = [f EXCEPT !.starts = f.starts \cup {b[1]}]
      OBVIOUS
    <3>2. IsRec(f) /\ Tidy(f, capacity + returned)
      BY <1>2
    <3> HIDE DEF f, b, h, res
    <3> QED BY <3>1, <3>2, StartsTidy
  <2> HIDE DEF h
  <2>2. F' = h
    BY <1>5, <2>1, StoreFact
  <2>3. \A k \in Mutators : want'[k] \in {0} \cup Sizes
    <3>1. want \in [Mutators -> Nat]
      BY <1>1 DEF SoundInv, WantsOK
    <3> QED BY <3>1, <1>1, <1>5 DEF FieldsOK
  <2>4. FieldsOK' /\ capacity' + returned' = capacity + returned /\ fault' = "none"
    BY <1>1, <1>3, <1>5, <2>3 DEF FieldsOK
  <2> QED BY <2>1, <2>2, <2>4, KeptStep
<1>6. CASE fault' = "overrun" /\ UNCHANGED <<region, bits, bounds, used, starts, committed, tlab, objs, want, pc>>
  <2>1. FreeSetOK
    BY DEF AccountInv
  <2>2. UNCHANGED candidate
    BY DEF Refill
  <2>3. TypeOK'
    BY <1>3, <1>6, <2>1, <2>2 DEF FreeSetOK, TypeOK
  <2>4. FreeListFindable' /\ UsedBounded'
    BY <1>3, <1>6, <2>1 DEF FreeSetOK, FreeListFindable, UsedBounded
  <2> QED BY <1>6, <2>3, <2>4 DEF AccountInv, FreeSetOK, BoundsCover, OpenRegionsUsable, CommitCount
<1> QED BY <1>4, <1>5, <1>6 DEF Refill, TlabRequest

(* allocate_outside_tlab *)
LEMMA AllocateSharedAccounts ==
  ASSUME RegionInv, AccountInv, fault = "none", RegionInv', NEW m \in Mutators, AllocateShared(m)
  PROVE  AccountInv'
<1> DEFINE res == Allocate(F, [lab |-> FALSE, size |-> want[m], min |-> want[m]])
<1>1. /\ SoundInv /\ FieldsOK /\ Tidy(F, capacity + returned)
      /\ capacity \in Nat /\ returned \in Nat /\ capacity + returned \in Nat
  BY AccountsBefore
<1>2. /\ pc[m] = "shared" /\ StoreF(res.f) /\ want' = [want EXCEPT ![m] = 0]
      /\ UNCHANGED <<capacity, returned, phase, elastic, fault>>
  BY DEF AllocateShared
<1>3. want \in [Mutators -> Nat] /\ want[m] \in Sizes
  BY <1>1, <1>2 DEF SoundInv, WantsOK
<1>4. IsRec(res.f) /\ Tidy(res.f, capacity + returned)
  BY <1>1, <1>3, SharedTidy
<1> HIDE DEF res
<1>5. F' = res.f
  BY <1>2, <1>4, StoreFact
<1>6. FieldsOK' /\ capacity' + returned' = capacity + returned
  BY <1>1, <1>2, <1>3 DEF FieldsOK
<1> QED BY <1>2, <1>4, <1>5, <1>6, KeptStep

(* Buffers of threads that own them are given back, and nothing else changes. *)
LEMMA RetireAccounts ==
  ASSUME RegionInv, AccountInv, fault = "none", RegionInv', fault' = "none",
         NEW ms, ms \subseteq Mutators, ms \cap Holding \subseteq Held,
         region' = GivenBack(ms), returned' = Returned(ms),
         \A k \in Mutators : want'[k] \in {0} \cup Sizes,
         UNCHANGED <<bits, bounds, capacity, used, starts, committed, phase, elastic>>
  PROVE  AccountInv'
<1> DEFINE g == F'
<1>1. /\ SoundInv /\ FieldsOK /\ Tidy(F, capacity + returned) /\ capacity \in Nat /\ returned \in Nat
  BY AccountsBefore
<1>2. /\ IsRec(g) /\ g.region = GivenBack(ms) /\ g.bits = bits /\ g.starts = starts
      /\ g.bounds = bounds /\ g.used = used /\ g.committed = committed
  BY DEF F, IsRec
<1>3. F' = g
  OBVIOUS
<1> HIDE DEF g
<1>4. Tidy(g, capacity + Returned(ms))
  BY <1>1, <1>2, GivenTidy
<1>5. Returned(ms) \in Nat
  BY <1>1, ReturnedNat DEF SoundInv
<1>6. FieldsOK' /\ capacity' + returned' = capacity + Returned(ms)
  BY <1>1, <1>5 DEF FieldsOK
<1> QED BY <1>3, <1>4, <1>6, KeptStep

(* Nothing the accounts look at changes. *)
LEMMA QuietAccounts ==
  ASSUME RegionInv, AccountInv, fault = "none", RegionInv', fault' = "none",
         UNCHANGED <<region, bits, bounds, capacity, used, returned, starts, committed, elastic>>,
         \A k \in Mutators : want'[k] \in {0} \cup Sizes, phase' \in {"idle", "sweep"}
  PROVE  AccountInv'
<1>1. SoundInv /\ FieldsOK /\ Tidy(F, capacity + returned)
  BY AccountsBefore
<1>2. F' = F
  BY DEF F
<1>3. FieldsOK' /\ capacity' + returned' = capacity + returned
  BY <1>1 DEF FieldsOK
<1> QED BY <1>1, <1>2, <1>3, KeptStep

(* allocate_slow *)
LEMMA AllocateSlowAccounts ==
  ASSUME RegionInv, AccountInv, fault = "none", RegionInv',
         NEW m \in Mutators, NEW size \in Sizes, AllocateSlow(m, size)
  PROVE  AccountInv'
<1>1. SoundInv /\ FieldsOK
  BY AccountsBefore
<1>2. /\ MayAllocate(m) /\ want' = [want EXCEPT ![m] = size]
      /\ UNCHANGED <<bits, bounds, capacity, used, starts, committed, phase, elastic, fault>>
  BY DEF AllocateSlow
<1>3. \A k \in Mutators : want'[k] \in {0} \cup Sizes
  <2>1. want \in [Mutators -> Nat]
    BY <1>1 DEF SoundInv, WantsOK
  <2> QED BY <1>1, <1>2, <2>1 DEF FieldsOK
<1>4. CASE UNCHANGED <<region, returned, tlab>>
  BY <1>1, <1>2, <1>3, <1>4, QuietAccounts DEF FieldsOK
<1>5. CASE Retire({m})
  <2>1. {m} \subseteq Mutators /\ {m} \cap Holding \subseteq Held
    BY <1>2 DEF MayAllocate, Held
  <2>2. region' = GivenBack({m}) /\ returned' = Returned({m})
    BY <1>5 DEF Retire
  <2> QED BY <1>2, <1>3, <2>1, <2>2, RetireAccounts
<1> QED BY <1>4, <1>5 DEF AllocateSlow

(* The end of a thread, and the epilogue of main_thread. *)
LEMMA ExitAccounts ==
  ASSUME RegionInv, AccountInv, fault = "none", RegionInv',
         NEW m \in Mutators, ExitThread(m) \/ MainGivesBack(m) \/ MainClears(m)
  PROVE  AccountInv'
<1>1. SoundInv /\ FieldsOK
  BY AccountsBefore
<1>2. CASE MainClears(m)
  <2>1. /\ UNCHANGED <<region, bits, bounds, capacity, used, returned, starts, committed, elastic>>
        /\ UNCHANGED <<want, phase, fault>>
    BY <1>2 DEF MainClears, freeset
  <2> QED BY <1>1, <2>1, QuietAccounts DEF FieldsOK
<1>3. CASE ExitThread(m) \/ MainGivesBack(m)
  <2>1. /\ pc[m] = "run" /\ region' = GivenBack({m}) /\ returned' = Returned({m})
        /\ UNCHANGED <<bits, bounds, capacity, used, starts, committed, phase, elastic>>
        /\ UNCHANGED <<want, fault>>
    BY <1>3 DEF ExitThread, MainGivesBack, Retire
  <2>2. {m} \subseteq Mutators /\ {m} \cap Holding \subseteq Held
    BY <2>1 DEF Held
  <2>3. \A k \in Mutators : want'[k] \in {0} \cup Sizes
    BY <1>1, <2>1 DEF FieldsOK
  <2> QED BY <2>1, <2>2, <2>3, RetireAccounts
<1> QED BY <1>2, <1>3

(* Whatever is given back, however often, can be found. *)
LEMMA GivenLists ==
  ASSUME SoundInv, NEW ms, ms \subseteq Mutators, NEW r \in Indices
  PROVE  LET g == GivenBack(ms)[r]
         IN /\ Findable(g.list) /\ Entries(g.list) \subseteq Block
            /\ g.typ = region[r].typ /\ g.sweep = region[r].sweep /\ g.large = region[r].large
            /\ g.typ \in States /\ g.sweep \in BOOLEAN /\ g.large \in Nat
<1> DEFINE o == region[r]
           g == GivenBack(ms)[r]
           l == AddAll(o.list, RestsAt(ms, r))
<1>1. RegionOK(o, r, Covered(Pieces(objs, Rests)), starts)
  BY FFact DEF SoundInv, InOrder, AllRight
<1>2. /\ o = [typ |-> o.typ, list |-> o.list, sweep |-> o.sweep, large |-> o.large]
      /\ o.typ \in States /\ o.sweep \in BOOLEAN /\ o.large \in Nat /\ ListOK(o.list)
  BY <1>1 DEF RegionOK
<1>3. g = [o EXCEPT !.list = l]
  BY DEF GivenBack, RestsAt
<1>4. IsFiniteSet(RestsAt(ms, r)) /\ \A b \in RestsAt(ms, r) : Sized(b)
  BY RestsAtFact DEF SoundInv
<1>5. Entries(l) = Entries(o.list) \cup RestsAt(ms, r) /\ Findable(l)
  BY <1>2, <1>4, AddAllFact
<1>6. Entries(l) \subseteq Block
  BY <1>2, <1>4, <1>5, EntrySized DEF Sized
<1> HIDE DEF o, l, g
<1>7. g = [typ |-> o.typ, list |-> l, sweep |-> o.sweep, large |-> o.large]
  BY <1>2, <1>3, ListExcept
<1>8. g.typ = o.typ /\ g.list = l /\ g.sweep = o.sweep /\ g.large = o.large
  BY <1>7
<1> QED BY <1>2, <1>5, <1>6, <1>8 DEF o, g

(* A pause that retires a buffer a second time. *)
LEMMA TwiceAccounts ==
  ASSUME RegionInv, AccountInv, fault = "none", fault' = "retiredTwice",
         \A r \in Indices : LET g == GivenBack(Mutators)[r]
                            IN /\ region'[r].list = g.list /\ region'[r].typ = g.typ
                               /\ region'[r].large = g.large /\ region'[r].sweep \in BOOLEAN,
         bits' \subseteq bits, returned' = Returned(Mutators), tlab' = Cleared(Mutators),
         objs' \subseteq objs, phase' \in {"idle", "sweep"},
         UNCHANGED <<bounds, capacity, used, starts, committed, want, pc, candidate, elastic>>
  PROVE  AccountInv'
<1>1. SoundInv /\ FieldsOK /\ TlabsOK /\ capacity \in Nat /\ returned \in Nat
  BY AccountsBefore DEF SoundInv
<1>2. FreeSetOK
  BY DEF AccountInv
<1>3. \A r \in Indices :
        /\ Findable(region'[r].list) /\ Entries(region'[r].list) \subseteq Block
        /\ region'[r].typ \in States /\ region'[r].sweep \in BOOLEAN /\ region'[r].large \in Nat
  BY <1>1, GivenLists
<1>4. Returned(Mutators) \in Nat /\ returned <= Returned(Mutators)
  BY <1>1, ReturnedNat
<1>5. \A m \in Mutators : tlab'[m].top <= tlab'[m].end
  BY <1>1, ClearedFact DEF TlabsOK
<1>6. TypeOK'
  BY <1>2, <1>3, <1>4, <1>5 DEF FreeSetOK, TypeOK
<1>7. FreeListFindable'
  BY <1>3 DEF FreeListFindable, Findable
<1>8. UsedBounded'
  <2>1. used <= capacity + returned /\ used \in Nat
    BY <1>2 DEF FreeSetOK, UsedBounded, TypeOK
  <2>2. used <= capacity + Returned(Mutators)
    BY <1>1, <1>4, <2>1
  <2> QED BY <2>2 DEF UsedBounded
<1> QED BY <1>6, <1>7, <1>8 DEF AccountInv, FreeSetOK, BoundsCover, OpenRegionsUsable, CommitCount

(* Regions that are not open, and what open ones say beside their state and list, *)
(* do not count.                                                                  *)
LEMMA ElsewhereTidy ==
  ASSUME NEW f, NEW X, AllRight(f, X), NEW limit \in Nat, Tidy(f, limit),
         NEW g, g.bits \subseteq f.bits, g.bounds = f.bounds, g.used = f.used, g.committed = f.committed,
         \A r \in g.bits : g.region[r].typ = f.region[r].typ /\ g.region[r].list = f.region[r].list,
         Having(g) = Having(f)
  PROVE  Tidy(g, limit)
<1>1. \A r \in g.bits : /\ FreeUnits(g.region[r], r) = FreeUnits(f.region[r], r)
                        /\ AllocCapacity(g.region[r]) = AllocCapacity(f.region[r])
  BY DEF FreeUnits, AllocCapacity, Free, IsEmpty
<1>2. Pool(g) \subseteq Pool(f)
  BY <1>1, SmallerPool
<1>3. g.used + Cardinality(Pool(g)) <= limit
  BY <1>2, NothingUsed DEF Tidy, Accounted
<1>4. \A r \in g.bits : AllocCapacity(g.region[r]) # 0
  BY <1>1 DEF Tidy
<1>5. g.bits \subseteq g.bounds.left .. g.bounds.right
  BY DEF Tidy, Accounted
<1> QED BY <1>3, <1>4, <1>5 DEF Tidy, Accounted

(* The pause that begins a marking. *)
LEMMA InitMarkAccounts ==
  ASSUME RegionInv, AccountInv, fault = "none", RegionInv', InitMark
  PROVE  AccountInv'
<1>1. /\ region' = GivenBack(Mutators) /\ returned' = Returned(Mutators) /\ tlab' = Cleared(Mutators)
      /\ fault' = (IF \E m \in Holding : pc[m] = "exiting" THEN "retiredTwice" ELSE fault)
      /\ UNCHANGED <<bits, bounds, capacity, used, starts, committed, phase, elastic>>
      /\ UNCHANGED <<want, pc, objs, candidate>>
  BY DEF InitMark, RetireAll, Retire
<1>2. SoundInv /\ FieldsOK
  BY AccountsBefore
<1>3. CASE \E m \in Holding : pc[m] = "exiting"
  <2>1. \A r \in Indices : LET g == GivenBack(Mutators)[r]
                           IN /\ region'[r].list = g.list /\ region'[r].typ = g.typ
                              /\ region'[r].large = g.large /\ region'[r].sweep \in BOOLEAN
    BY <1>1, <1>2, GivenLists
  <2>2. fault' = "retiredTwice" /\ bits' \subseteq bits /\ objs' \subseteq objs /\ phase' \in {"idle", "sweep"}
    BY <1>1, <1>2, <1>3 DEF FieldsOK
  <2> QED BY <1>1, <2>1, <2>2, TwiceAccounts
<1>4. CASE ~\E m \in Holding : pc[m] = "exiting"
  <2>1. Mutators \cap Holding \subseteq Held /\ fault' = "none"
    BY <1>1, <1>4 DEF Held
  <2>2. \A k \in Mutators : want'[k] \in {0} \cup Sizes
    BY <1>1, <1>2 DEF FieldsOK
  <2> QED BY <1>1, <2>1, <2>2, RetireAccounts
<1> QED BY <1>3, <1>4

(* What PrepareUnswept leaves as it is. *)
LEMMA PreparedKeeps ==
  ASSUME NEW regs, \A r \in Indices : regs[r] = [typ |-> regs[r].typ, list |-> regs[r].list,
                                                 sweep |-> regs[r].sweep, large |-> regs[r].large],
         \A r \in Indices : regs[r].sweep \in BOOLEAN, PrepareUnswept(regs)
  PROVE  \A r \in Indices : /\ region'[r].list = regs[r].list /\ region'[r].typ = regs[r].typ
                            /\ region'[r].large = regs[r].large /\ region'[r].sweep \in BOOLEAN
<1> TAKE r \in Indices
<1> DEFINE g == regs[r]
           w == g.sweep \/ ToSweep(g)
<1>1. region'[r] = [g EXCEPT !.sweep = w]
  BY DEF PrepareUnswept
<1>2. g = [typ |-> g.typ, list |-> g.list, sweep |-> g.sweep, large |-> g.large]
  OBVIOUS
<1>3. w \in BOOLEAN
  OBVIOUS
<1> HIDE DEF g, w
<1>4. region'[r] = [typ |-> g.typ, list |-> g.list, sweep |-> w, large |-> g.large]
  BY <1>1, <1>2, SweepExcept
<1>5. region'[r].typ = g.typ /\ region'[r].list = g.list /\ region'[r].large = g.large
  BY <1>4
<1>6. region'[r].sweep = w
  BY <1>4
<1>7. region'[r].sweep \in BOOLEAN
  BY <1>3, <1>6, Zenon
<1> QED BY <1>5, <1>7 DEF g

(* Final Mark *)
LEMMA FinalMarkAccounts ==
  ASSUME RegionInv, AccountInv, fault = "none", RegionInv', NEW live \in SUBSET objs, FinalMark(live)
  PROVE  AccountInv'
<1> DEFINE regs == GivenBack(Mutators)
<1>1. /\ PrepareUnswept(regs) /\ returned' = Returned(Mutators) /\ tlab' = Cleared(Mutators)
      /\ fault' = (IF \E m \in Holding : pc[m] = "exiting" THEN "retiredTwice" ELSE fault)
      /\ objs' \subseteq objs /\ phase' \in {"idle", "sweep"}
      /\ UNCHANGED <<bounds, capacity, used, starts, committed, elastic>>
      /\ UNCHANGED <<want, pc, candidate>>
  BY DEF FinalMark
<1>2. /\ SoundInv /\ FieldsOK /\ Tidy(F, capacity + returned)
      /\ capacity \in Nat /\ returned \in Nat /\ TlabsOK
  BY AccountsBefore DEF SoundInv
<1>3. \A r \in Indices : /\ region'[r].list = regs[r].list /\ region'[r].typ = regs[r].typ
                         /\ region'[r].large = regs[r].large /\ region'[r].sweep \in BOOLEAN
  <2>1. \A r \in Indices : regs[r].sweep \in BOOLEAN
    BY <1>2, GivenLists
  <2>2. \A r \in Indices : regs[r] = [typ |-> regs[r].typ, list |-> regs[r].list,
                                      sweep |-> regs[r].sweep, large |-> regs[r].large]
    BY <1>2, GivenRecord
  <2> HIDE DEF regs
  <2> QED BY <1>1, <2>1, <2>2, PreparedKeeps
<1>4. bits' \subseteq bits
  BY <1>1 DEF PrepareUnswept
<1>5. CASE \E m \in Holding : pc[m] = "exiting"
  <2>1. fault' = "retiredTwice"
    BY <1>1, <1>5
  <2> QED BY <1>1, <1>3, <1>4, <2>1, TwiceAccounts
<1>6. CASE ~\E m \in Holding : pc[m] = "exiting"
  <2> DEFINE f == [region |-> regs, bits |-> bits, bounds |-> bounds, used |-> used,
                   starts |-> starts, committed |-> committed]
             none == [m \in {} |-> NoBlock]
             limit == capacity + Returned(Mutators)
             g == F'
  <2>1. /\ IsRec(f) /\ f.region = regs /\ f.bits = bits /\ f.starts = starts
        /\ f.bounds = bounds /\ f.used = used /\ f.committed = committed
    BY DEF IsRec
  <2>2. Mutators \cap Holding \subseteq Held /\ Held \ Mutators = {}
    BY <1>6 DEF Held, Holding
  <2>3. DOMAIN none = Held \ Mutators /\ \A m \in Held \ Mutators : none[m] = Rest(m)
    BY <2>2
  <2>4. /\ g.region = region' /\ g.bits = bits' /\ g.bounds = bounds /\ g.used = used
        /\ g.committed = committed
    BY <1>1 DEF F
  <2>5. F' = g
    OBVIOUS
  <2> HIDE DEF f, none, g
  <2>6. InOrder(f, objs, none)
    BY <1>2, <2>1, <2>2, <2>3, GivenFact
  <2>7. AllRight(f, Covered(Pieces(objs, none))) /\ bits \subseteq Indices
    BY <2>1, <2>6 DEF InOrder, AllRight
  <2>8. Tidy(f, limit)
    BY <1>2, <2>1, <2>2, GivenTidy
  <2>9. limit \in Nat /\ Returned(Mutators) \in Nat
    BY <1>2, ReturnedNat
  <2>10. Having(g) = Having(f)
    BY <1>3, <2>1, <2>4 DEF Having
  <2>11. \A r \in g.bits : g.region[r].typ = f.region[r].typ /\ g.region[r].list = f.region[r].list
    BY <1>3, <1>4, <2>1, <2>4, <2>7
  <2>12. Tidy(g, limit)
    <3> HIDE DEF limit
    <3> QED BY <1>4, <2>1, <2>4, <2>7, <2>8, <2>9, <2>10, <2>11, ElsewhereTidy
  <2>13. FieldsOK' /\ capacity' + returned' = limit
    BY <1>1, <1>2, <2>9 DEF FieldsOK
  <2>14. fault' = "none"
    BY <1>1, <1>6
  <2> QED BY <2>5, <2>12, <2>13, <2>14, KeptStep
<1> QED BY <1>5, <1>6

(* A region that is swept is not open. *)
LEMMA SweepAccounts ==
  ASSUME RegionInv, AccountInv, fault = "none", RegionInv', NEW r \in Indices, SweepRegion(r)
  PROVE  AccountInv'
<1> DEFINE g == F'
           X == Covered(Pieces(objs, Rests))
<1>1. /\ region[r].sweep /\ (SweepRegular(r) \/ SweepHumongous(r))
      /\ UNCHANGED <<bits, bounds, capacity, used, committed, returned, want, phase, elastic, fault>>
  BY DEF SweepRegion
<1>2. /\ SoundInv /\ FieldsOK /\ Tidy(F, capacity + returned)
      /\ capacity + returned \in Nat
  BY AccountsBefore
<1>3. InOrder(F, objs, Rests) /\ AllRight(F, X)
  BY <1>2 DEF SoundInv, InOrder
<1>4. F.region = region /\ F.starts = starts /\ F.bits = bits /\ F.bounds = bounds /\ F.used = used
      /\ F.committed = committed
  BY FFact
<1>5. /\ g.region = region' /\ g.bits = F.bits /\ g.bounds = F.bounds /\ g.used = F.used
      /\ g.committed = F.committed
  BY <1>1, <1>4 DEF F
<1>6. F' = g
  OBVIOUS
<1> HIDE DEF g, X
<1>7. r \notin bits /\ bits \subseteq Indices /\ \A q \in bits : region[q].typ \in Open
  BY <1>1, <1>3, <1>4 DEF AllRight
<1>8. /\ \A q \in bits : region'[q].typ = region[q].typ /\ region'[q].list = region[q].list
      /\ \A q \in Indices : region'[q].typ # "EmptyUncommited" <=> region[q].typ # "EmptyUncommited"
  <2>1. CASE SweepRegular(r)
    <3> DEFINE t == IF \E o \in objs : InRegion(o, r) THEN "Regular" ELSE "Trash"
    <3>1. /\ region[r].typ = "Regular"
          /\ region' = [region EXCEPT ![r] = [typ |-> t, list |-> SweptList(r), sweep |-> FALSE, large |-> 0]]
      BY <2>1 DEF SweepRegular
    <3>2. t \in {"Regular", "Trash"}
      OBVIOUS
    <3> HIDE DEF t
    <3>3. region = [q \in Indices |-> region[q]]
      BY <1>3, <1>4 DEF AllRight
    <3>4. region'[r].typ = t /\ \A q \in Indices : q # r => region'[q] = region[q]
      BY <3>1, <3>3
    <3> QED BY <1>7, <3>1, <3>2, <3>4
  <2>2. CASE SweepHumongous(r)
    <3> DEFINE live == \E o \in objs : o[1] = Bottom(r)
    <3>1. /\ region[r].typ = "HumongousStart"
          /\ region' = [i \in Indices |->
               [region[i] EXCEPT
                  !.typ = IF ~live /\ i \in TrashSpan(r) THEN "Trash" ELSE @,
                  !.sweep = IF i = r THEN FALSE ELSE @]]
      BY <2>2 DEF SweepHumongous
    <3>2. \A i \in TrashSpan(r) : i \in Indices /\ region[i].typ \in {"HumongousStart", "HumongousCont"}
      <4>1. TrashSpan(r) = Span(r, F)
        BY <1>4 DEF TrashSpan, Span
      <4> QED BY <1>3, <1>4, <3>1, <4>1 DEF InOrder, Shape, SpansOK
    <3>3. \A i \in Indices :
            /\ region'[i].typ = IF ~live /\ i \in TrashSpan(r) THEN "Trash" ELSE region[i].typ
            /\ region'[i].list = region[i].list
      <4> TAKE i \in Indices
      <4> DEFINE o == region[i]
                 t == IF ~live /\ i \in TrashSpan(r) THEN "Trash" ELSE o.typ
                 w == IF i = r THEN FALSE ELSE o.sweep
                 h == [o EXCEPT !.typ = t]
      <4>1. o = [typ |-> o.typ, list |-> o.list, sweep |-> o.sweep, large |-> o.large]
        BY <1>3, <1>4 DEF AllRight, RegionOK
      <4>2. region'[i] = [h EXCEPT !.sweep = w]
        BY <3>1
      <4> HIDE DEF o, t, w
      <4>3. h = [typ |-> t, list |-> o.list, sweep |-> o.sweep, large |-> o.large]
        BY <4>1
      <4> HIDE DEF h
      <4>4. region'[i] = [typ |-> t, list |-> o.list, sweep |-> w, large |-> o.large]
        BY <4>2, <4>3
      <4>5. region'[i].typ = t /\ region'[i].list = o.list
        BY <4>4
      <4> QED BY <4>5 DEF t, o
    <3> HIDE DEF live
    <3>4. \A i \in TrashSpan(r) : i \notin bits
      BY <1>7, <3>2 DEF Open
    <3> QED BY <1>7, <3>2, <3>3, <3>4
  <2> QED BY <1>1, <2>1, <2>2
<1>9. Having(g) = Having(F)
  BY <1>4, <1>5, <1>8 DEF Having
<1>10. Tidy(g, capacity + returned)
  <2> DEFINE limit == capacity + returned
  <2>1. limit \in Nat /\ Tidy(F, limit)
    BY <1>2
  <2> HIDE DEF limit
  <2>2. \A q \in g.bits : g.region[q].typ = F.region[q].typ /\ g.region[q].list = F.region[q].list
    BY <1>4, <1>5, <1>8
  <2>3. Tidy(g, limit)
    BY <1>3, <1>5, <1>9, <2>1, <2>2, ElsewhereTidy
  <2> QED BY <2>3 DEF limit
<1>11. FieldsOK' /\ capacity' + returned' = capacity + returned
  BY <1>1, <1>2 DEF FieldsOK
<1> QED BY <1>1, <1>6, <1>10, <1>11, KeptStep

(* The sweep is cut short, or a region is looked at. *)
LEMMA NothingAccounts ==
  ASSUME RegionInv, AccountInv, fault = "none", RegionInv',
         CancelSweep \/ \E r \in Indices : UncommitLook(r)
  PROVE  AccountInv'
<1>1. /\ UNCHANGED <<region, bits, bounds, capacity, used, returned, starts, committed, elastic>>
      /\ UNCHANGED <<want, fault>> /\ (phase' = "idle" \/ phase' = phase)
  BY DEF CancelSweep, UncommitLook, freeset
<1>2. FieldsOK
  BY AccountsBefore
<1>3. (\A k \in Mutators : want'[k] \in {0} \cup Sizes) /\ phase' \in {"idle", "sweep"}
  BY <1>1, <1>2 DEF FieldsOK
<1> QED BY <1>1, <1>3, QuietAccounts

(* The end of a sweep. *)
LEMMA FinishSweepAccounts ==
  ASSUME RegionInv, AccountInv, fault = "none", RegionInv', FinishSweep
  PROVE  AccountInv'
<1> DEFINE g == Rebuilt(F)
           n == Capacity(F)
<1>1. /\ StoreF(g) /\ capacity' = n /\ returned' = 0 /\ phase' = "idle"
      /\ UNCHANGED <<want, elastic, fault>>
  BY DEF FinishSweep
<1>2. SoundInv /\ FieldsOK /\ Tidy(F, capacity + returned)
  BY AccountsBefore
<1>3. AllRight(F, Covered(Pieces(objs, Rests)))
  BY <1>2 DEF SoundInv, InOrder
<1>4. Tidy(g, n) /\ IsRec(g)
  BY <1>2, <1>3, RebuildTidy
<1>5. n \in Nat
  BY <1>3, CapacitySum
<1> HIDE DEF g, n
<1>6. F' = g
  BY <1>1, <1>4, StoreFact
<1>7. FieldsOK' /\ capacity' + returned' = n
  BY <1>1, <1>2, <1>5 DEF FieldsOK
<1> QED BY <1>1, <1>4, <1>6, <1>7, KeptStep

(* What do_decommit makes of the regions. *)
LEMMA DecommitParts ==
  ASSUME SoundInv, candidate \in Indices,
         region' = [region EXCEPT ![candidate].typ = "EmptyUncommited", ![candidate].list = EmptyList]
  PROVE  /\ region'[candidate].typ = "EmptyUncommited" /\ region'[candidate].list = EmptyList
         /\ region'[candidate].sweep = region[candidate].sweep
         /\ region'[candidate].large = region[candidate].large
         /\ \A q \in Indices : q # candidate => region'[q] = region[q]
<1> DEFINE r == candidate
           o == region[r]
           h == [region EXCEPT ![r].typ = "EmptyUncommited"]
<1>1. /\ region = [q \in Indices |-> region[q]]
      /\ o = [typ |-> o.typ, list |-> o.list, sweep |-> o.sweep, large |-> o.large]
  BY FFact DEF SoundInv, InOrder, AllRight, RegionOK
<1>2. region' = [h EXCEPT ![r].list = EmptyList]
  OBVIOUS
<1>3. h[r] = [o EXCEPT !.typ = "EmptyUncommited"] /\ h = [q \in Indices |-> h[q]]
      /\ \A q \in Indices : q # r => h[q] = region[q]
  BY <1>1
<1>4. h[r] = [typ |-> "EmptyUncommited", list |-> o.list, sweep |-> o.sweep, large |-> o.large]
  <2> HIDE DEF h, o
  <2> QED BY <1>1, <1>3
<1> HIDE DEF h
<1>5. region'[r] = [h[r] EXCEPT !.list = EmptyList] /\ \A q \in Indices : q # r => region'[q] = h[q]
  BY <1>2, <1>3
<1>6. region'[r] = [typ |-> "EmptyUncommited", list |-> EmptyList, sweep |-> o.sweep, large |-> o.large]
  <2> HIDE DEF o
  <2> QED BY <1>4, <1>5
<1>7. /\ region'[r].typ = "EmptyUncommited" /\ region'[r].list = EmptyList
      /\ region'[r].sweep = o.sweep /\ region'[r].large = o.large
  <2> DEFINE g == region'[r]
  <2>1. g = [typ |-> "EmptyUncommited", list |-> EmptyList, sweep |-> o.sweep, large |-> o.large]
    BY <1>6
  <2> HIDE DEF o, g
  <2>2. g.typ = "EmptyUncommited" /\ g.list = EmptyList /\ g.large = o.large
    BY <2>1
  <2>3. g.sweep = o.sweep
    BY <2>1
  <2> QED BY <2>2, <2>3 DEF g
<1> QED BY <1>3, <1>5, <1>7

(* An empty region is returned to the system. *)
LEMMA ReturnTidy ==
  ASSUME SoundInv, NEW limit \in Nat, Tidy(F, limit), NEW r \in Indices, region[r].typ = "EmptyCommited",
         NEW g, g.bits = F.bits, g.bounds = F.bounds, g.used = F.used,
         g.committed = F.committed - 1, F.committed > 1,
         g.region[r].typ = "EmptyUncommited", \A q \in Indices : q # r => g.region[q] = region[q]
  PROVE  Tidy(g, limit)
<1> DEFINE X == Covered(Pieces(objs, Rests))
<1>1. AllRight(F, X) /\ F.region = region
  BY FFact DEF SoundInv, InOrder
<1>2. \A q \in Indices : /\ FreeUnits(g.region[q], q) = FreeUnits(F.region[q], q)
                         /\ AllocCapacity(g.region[q]) = AllocCapacity(F.region[q])
  <2> TAKE q \in Indices
  <2>1. CASE q = r
    <3>1. g.region[q].typ = "EmptyUncommited" /\ F.region[q].typ = "EmptyCommited"
      BY <1>1, <2>1
    <3> QED BY <3>1 DEF FreeUnits, Unused, AllocCapacity, Free, IsEmpty
  <2>2. CASE q # r
    BY <1>1, <2>2
  <2> QED BY <2>1, <2>2
<1>3. F.bits \subseteq Indices
  BY <1>1 DEF AllRight
<1>4. Pool(g) \subseteq Pool(F)
  BY <1>2, <1>3, SmallerPool
<1>5. g.used + Cardinality(Pool(g)) <= limit
  BY <1>1, <1>4, NothingUsed DEF Tidy, Accounted
<1>6. g.committed = Cardinality(Having(g)) /\ g.committed \in Nat \ {0}
  <2>1. Having(g) = Having(F) \ {r} /\ r \in Having(F) /\ Having(F) \in SUBSET Indices
    BY <1>1 DEF Having
  <2>2. IsFiniteSet(Having(F))
    BY <2>1, IndicesFact
  <2>3. Cardinality(Having(F) \ {r}) = Cardinality(Having(F)) - 1
    BY <2>1, <2>2, FS_RemoveElement
  <2>4. F.committed = Cardinality(Having(F)) /\ F.committed \in Nat
    BY DEF Tidy, Accounted
  <2> QED BY <2>1, <2>3, <2>4
<1>7. \A q \in g.bits : AllocCapacity(g.region[q]) # 0
  BY <1>2, <1>3 DEF Tidy
<1>8. g.bits \subseteq g.bounds.left .. g.bounds.right
  BY DEF Tidy, Accounted
<1> QED BY <1>5, <1>6, <1>7, <1>8 DEF Tidy, Accounted

(* entry_uncommit, with the lock. *)
LEMMA UncommitAccounts ==
  ASSUME RegionInv, AccountInv, fault = "none", RegionInv', UncommitLocked
  PROVE  AccountInv'
<1> DEFINE r == candidate
           stay == region[r].typ = "EmptyCommited" /\ committed < MinRegions + 1
           limit == capacity + returned
           g == F'
<1>1. /\ candidate' = NoRegion /\ candidate # NoRegion
      /\ UNCHANGED <<bits, bounds, capacity, used, starts, returned, phase, elastic>>
      /\ UNCHANGED <<tlab, want, pc, objs>>
      /\ fault' = (IF ~stay /\ region[r].typ # "EmptyCommited" THEN "decommitted" ELSE fault)
      /\ stay => UNCHANGED <<region, committed>>
      /\ ~stay => region' = [region EXCEPT ![r].typ = "EmptyUncommited", ![r].list = EmptyList]
      /\ ~stay => committed' = committed - 1
  BY DEF UncommitLocked
<1>2. /\ SoundInv /\ FieldsOK /\ Tidy(F, limit) /\ limit \in Nat
  BY AccountsBefore
<1>3. candidate \in Indices
  BY <1>1, <1>2 DEF SoundInv
<1>4. /\ F.region = region /\ F.bits = bits /\ F.bounds = bounds /\ F.used = used
      /\ F.committed = committed
  BY FFact
<1>5. committed \in Nat \ {0} /\ committed \in 0 .. NumRegions /\ MinRegions \in Nat \ {0}
      /\ NumRegions \in Nat
  <2>1. committed \in Nat \ {0}
    BY <1>2, <1>4 DEF Tidy, Accounted
  <2>2. committed \in 0 .. NumRegions
    BY DEF AccountInv, FreeSetOK, TypeOK
  <2> QED BY <2>1, <2>2, RegionsAssumption
<1>6. FieldsOK' /\ capacity' + returned' = limit
  BY <1>1, <1>2 DEF FieldsOK
<1>7. CASE stay
  <2>1. fault' = "none"
    BY <1>1, <1>7
  <2>2. UNCHANGED <<region, bits, bounds, capacity, used, returned, starts, committed, elastic>>
    BY <1>1, <1>7
  <2>3. (\A k \in Mutators : want'[k] \in {0} \cup Sizes) /\ phase' \in {"idle", "sweep"}
    BY <1>6 DEF FieldsOK
  <2> QED BY <2>1, <2>2, <2>3, QuietAccounts
<1>8. CASE ~stay /\ region[r].typ = "EmptyCommited"
  <2>1. /\ g.region = region' /\ g.bits = F.bits /\ g.bounds = F.bounds /\ g.used = F.used
        /\ g.committed = F.committed - 1 /\ F.committed > 1
    <3>1. /\ g.region = region' /\ g.bits = bits' /\ g.bounds = bounds' /\ g.used = used'
          /\ g.committed = committed'
      BY DEF F
    <3> HIDE DEF g
    <3>2. committed > 1
      BY <1>5, <1>8
    <3> QED BY <1>1, <1>4, <1>8, <3>1, <3>2
  <2>2. F' = g /\ fault' = "none"
    BY <1>1, <1>8
  <2> HIDE DEF g, limit
  <2>3. g.region[r].typ = "EmptyUncommited" /\ \A q \in Indices : q # r => g.region[q] = region[q]
    BY <1>1, <1>2, <1>3, <1>8, <2>1, DecommitParts
  <2>4. Tidy(g, limit)
    BY <1>2, <1>3, <1>8, <2>1, <2>3, ReturnTidy
  <2> QED BY <1>6, <2>2, <2>4, KeptStep
<1>9. CASE ~stay /\ region[r].typ # "EmptyCommited"
  <2>1. fault' = "decommitted" /\ committed' = committed - 1
    BY <1>1, <1>9
  <2>2. FreeSetOK
    BY DEF AccountInv
  <2>3. /\ region'[r].typ = "EmptyUncommited" /\ region'[r].list = EmptyList
        /\ region'[r].sweep = region[r].sweep /\ region'[r].large = region[r].large
        /\ \A q \in Indices : q # r => region'[q] = region[q]
    BY <1>1, <1>2, <1>3, <1>9, DecommitParts
  <2> HIDE DEF r, stay, limit
  <2>4. \A q \in Indices :
          /\ region'[q].typ \in States /\ region'[q].sweep \in BOOLEAN
          /\ region'[q].large \in Nat /\ Entries(region'[q].list) \subseteq Block
    <3> TAKE q \in Indices
    <3>1. /\ region[q].typ \in States /\ region[q].sweep \in BOOLEAN
          /\ region[q].large \in Nat /\ Entries(region[q].list) \subseteq Block
      BY <2>2 DEF FreeSetOK, TypeOK
    <3>2. "EmptyUncommited" \in States
      BY DEF States
    <3> QED BY <3>1, <3>2, <2>3, EmptyListFact
  <2>5. committed' \in 0 .. NumRegions
    BY <1>5, <2>1
  <2>6. TypeOK'
    <3>1. NoRegion \in Indices \cup {NoRegion}
      OBVIOUS
    <3> QED BY <1>1, <2>1, <2>2, <2>4, <2>5, <3>1 DEF FreeSetOK, TypeOK
  <2>7. FreeListFindable'
    <3> SUFFICES ASSUME NEW q \in Indices, NEW i \in Buckets, NEW b \in Range(region'[q].list.heads[i])
                 PROVE  i <= region'[q].list.biggest /\ bucket_index_for_size(b[2]) = i
      BY DEF FreeListFindable
    <3>1. CASE q = r
      <4>1. Range(EmptyList.heads[i]) = {}
        <5>1. EmptyList.heads[i] = <<>>
          BY DEF EmptyList
        <5> QED BY <5>1 DEF Range
      <4> QED BY <3>1, <4>1, <2>3
    <3>2. CASE q # r
      BY <3>2, <2>2, <2>3 DEF FreeSetOK, FreeListFindable
    <3> QED BY <3>1, <3>2
  <2>8. UsedBounded'
    BY <1>1, <2>2 DEF FreeSetOK, UsedBounded
  <2> QED BY <2>1, <2>6, <2>7, <2>8 DEF AccountInv, FreeSetOK, BoundsCover, OpenRegionsUsable, CommitCount
<1> QED BY <1>7, <1>8, <1>9

(* At the beginning all memory is free. *)
LEMMA InitAccounts ==
  ASSUME Init
  PROVE  AccountInv
<1> DEFINE X == Covered(Pieces(objs, Rests))
           n == NumRegions * RegionSize
<1>1. RegionInv /\ fault = "none"
  BY InitSound DEF Init
<1>2. SoundInv /\ AllRight(F, X)
  BY <1>1 DEF RegionInv, SoundInv, InOrder
<1>3. /\ F.region = region /\ F.bits = Indices /\ F.bounds = FullRange /\ F.used = 0
      /\ F.committed = InitialRegions
  BY FFact DEF Init
<1>4. capacity = n /\ returned = 0 /\ n \in Nat
  BY RegionsAssumption, Powers DEF Init
<1>5. FieldsOK
  <2>1. want = [m \in Mutators |-> 0] /\ phase = "idle" /\ elastic \in BOOLEAN
    BY DEF Init
  <2> QED BY <1>4, <2>1 DEF FieldsOK
<1>6. \A r \in Indices :
        /\ region[r].typ = IF r < InitialRegions THEN "EmptyCommited" ELSE "EmptyUncommited"
        /\ IsEmpty(region[r])
  <2> TAKE r \in Indices
  <2> DEFINE t == IF r < InitialRegions THEN "EmptyCommited" ELSE "EmptyUncommited"
  <2>1. region[r] = [typ |-> t, list |-> EmptyList, sweep |-> FALSE, large |-> 0]
    BY DEF Init
  <2>2. t \in {"EmptyCommited", "EmptyUncommited"}
    OBVIOUS
  <2> HIDE DEF t
  <2>3. region[r].typ = t
    BY <2>1
  <2> QED BY <2>2, <2>3 DEF IsEmpty, t
<1>7. Cardinality(Pool(F)) <= n
  <2>1. \A u \in Pool(F) : u \in 0 .. n - 1
    <3> SUFFICES ASSUME NEW u \in Pool(F) PROVE u \in 0 .. n - 1
      OBVIOUS
    <3>1. PICK r \in Indices : u \in FreeUnits(F.region[r], r)
      BY <1>3 DEF Pool
    <3>2. u \in Nat /\ RegionOf(u) = r
      BY <1>2, <3>1, CapacityFact DEF AllRight
    <3> QED BY <3>2, AddressFact
  <2> HIDE DEF n
  <2>2. n - 1 \in Int /\ 0 \in Int
    BY <1>4
  <2>3. IsFiniteSet(0 .. n - 1) /\ Cardinality(0 .. n - 1) = IF 0 > n - 1 THEN 0 ELSE (n - 1) - 0 + 1
    BY <2>2, FS_Interval
  <2>4. Cardinality(0 .. n - 1) = n
    BY <1>4, <2>3
  <2>5. Pool(F) \in SUBSET (0 .. n - 1)
    BY <2>1
  <2> QED BY <2>3, <2>4, <2>5, FS_Subset
<1>8. F.used + Cardinality(Pool(F)) <= capacity + returned
  <2>1. Cardinality(Pool(F)) \in Nat
    BY <1>2, PoolFact
  <2> DEFINE p == Cardinality(Pool(F))
  <2>2. p \in Nat /\ p <= n
    BY <1>7, <2>1
  <2> HIDE DEF p, n
  <2>3. 0 + p <= n + 0
    BY <1>4, <2>2
  <2> QED BY <1>3, <1>4, <2>3 DEF p
<1>9. F.committed = Cardinality(Having(F)) /\ F.committed \in Nat \ {0}
  <2>1. InitialRegions \in 1 .. NumRegions /\ NumRegions \in Nat
    BY RegionsAssumption
  <2>2. Having(F) = 0 .. InitialRegions - 1
    <3>1. \A r \in Indices : r \in Having(F) <=> r < InitialRegions
      BY <1>3, <1>6 DEF Having
    <3>2. Having(F) \subseteq Indices
      BY DEF Having
    <3>3. \A r \in 0 .. InitialRegions - 1 : r \in Indices /\ r < InitialRegions
      BY <2>1 DEF Indices
    <3>4. \A r \in Indices : r < InitialRegions => r \in 0 .. InitialRegions - 1
      BY <2>1 DEF Indices
    <3> QED BY <3>1, <3>2, <3>3, <3>4
  <2>3. Cardinality(0 .. InitialRegions - 1) = IF 0 > InitialRegions - 1 THEN 0 ELSE (InitialRegions - 1) - 0 + 1
    BY <2>1, FS_Interval
  <2> QED BY <1>3, <2>1, <2>2, <2>3
<1>10. /\ F.bounds.left \in 0 .. NumRegions /\ F.bounds.right \in Indices
       /\ F.bits \subseteq F.bounds.left .. F.bounds.right
  BY <1>3, RegionsAssumption DEF FullRange, Indices
<1>11. \A r \in F.bits : AllocCapacity(F.region[r]) # 0
  <2> TAKE r \in F.bits
  <2>1. IsEmpty(F.region[r])
    BY <1>3, <1>6
  <2>2. AllocCapacity(F.region[r]) = RegionSize
    BY <2>1 DEF AllocCapacity, Free
  <2> QED BY <2>2, Powers
<1>12. Tidy(F, capacity + returned)
  BY <1>3, <1>8, <1>9, <1>10, <1>11 DEF Tidy, Accounted
<1> QED BY <1>1, <1>5, <1>12, AccountFact DEF AccountsKept

(* Every step keeps the accounts. *)
LEMMA StepAccounts ==
  ASSUME RegionInv, AccountInv, RegionInv', [Next]_vars
  PROVE  AccountInv'
<1>1. CASE UNCHANGED vars
  <2>1. UNCHANGED <<region, bits, bounds, capacity, used, returned, starts, committed, tlab, want, pc>>
        /\ UNCHANGED <<objs, phase, candidate, elastic, fault>>
    BY <1>1 DEF vars, freeset
  <2>2. F' = F
    BY <2>1 DEF F
  <2>3. FreeSetOK'
    BY <2>1 DEF AccountInv, FreeSetOK, TypeOK, FreeListFindable, BoundsCover, OpenRegionsUsable,
                UsedBounded, CommitCount
  <2> QED BY <2>1, <2>2, <2>3 DEF AccountInv
<1>2. ASSUME Next PROVE AccountInv'
  <2>1. fault = "none"
    BY <1>2 DEF Next
  <2>2. ASSUME NEW m \in Mutators, Mutator(m) PROVE AccountInv'
    <3>1. ASSUME NEW size \in Sizes, AllocateInTlab(m, size) PROVE AccountInv'
      BY <2>1, <3>1, AllocateInTlabAccounts
    <3>2. ASSUME NEW size \in Sizes, AllocateSlow(m, size) PROVE AccountInv'
      BY <2>1, <3>2, AllocateSlowAccounts
    <3>3. CASE Refill(m)
      BY <2>1, <3>3, RefillAccounts
    <3>4. CASE AllocateShared(m)
      BY <2>1, <3>4, AllocateSharedAccounts
    <3>5. CASE ExitThread(m) \/ MainGivesBack(m) \/ MainClears(m)
      BY <2>1, <3>5, ExitAccounts
    <3> QED BY <2>2, <3>1, <3>2, <3>3, <3>4, <3>5 DEF Mutator
  <2>3. CASE InitMark
    BY <2>1, <2>3, InitMarkAccounts
  <2>4. ASSUME NEW live \in SUBSET objs, FinalMark(live) PROVE AccountInv'
    BY <2>1, <2>4, FinalMarkAccounts
  <2>5. ASSUME NEW r \in Indices, SweepRegion(r) PROVE AccountInv'
    BY <2>1, <2>5, SweepAccounts
  <2>6. ASSUME CancelSweep \/ \E r \in Indices : UncommitLook(r) PROVE AccountInv'
    BY <2>1, <2>6, NothingAccounts
  <2>7. CASE FinishSweep
    BY <2>1, <2>7, FinishSweepAccounts
  <2>8. CASE UncommitLocked
    BY <2>1, <2>8, UncommitAccounts
  <2> QED BY <1>2, <2>2, <2>3, <2>4, <2>5, <2>6, <2>7, <2>8 DEF Next, Collector
<1> QED BY <1>1, <1>2

-----------------------------------------------------------------------------
(*****************************************************************************)
(* The theorems.                                                             *)
(*****************************************************************************)

(* The invariant behind the theorems below. *)
THEOREM RegionsInvariant == Spec => []RegionInv
<1>1. Init => RegionInv
  BY InitSound
<1>2. RegionInv /\ [Next]_vars => RegionInv'
  BY StepSound
<1> QED BY <1>1, <1>2, PTL DEF Spec

(* Free memory is free. *)
THEOREM FreeMemoryStaysFree == Spec => []FreeIsFree
<1>1. RegionInv => FreeIsFree
  <2> SUFFICES ASSUME RegionInv, NEW r \in Indices
               PROVE LET free == Covered(Entries(region[r].list))
                         all == Units(<<Bottom(r), RegionSize>>)
                     IN /\ free \subseteq all
                        /\ fault = "none" =>
                             /\ EntriesApart(region[r].list)
                             /\ free \cap Covered(Owned) = {}
                             /\ region[r].typ \in {"Trash", "EmptyCommited", "EmptyUncommited"} =>
                                  all \cap Covered(Owned) = {}
    BY DEF FreeIsFree
  <2> DEFINE list == region[r].list
             free == Covered(Entries(list))
             all == Units(<<Bottom(r), RegionSize>>)
             X == Covered(Pieces(objs, Rests))
  <2>1. Owned = Pieces(objs, Rests)
    BY DEF Owned, Pieces, Rests, Held
  <2>2. \A u \in free : \E b \in Entries(list) : u \in Units(b)
    BY DEF Covered
  <2>3. \A b \in Entries(list) : BlockIn(b, r)
    BY DEF RegionInv, ListsInside
  <2>4. free \subseteq all
    <3> SUFFICES ASSUME NEW u \in free PROVE u \in all
      OBVIOUS
    <3>1. u \in Nat /\ RegionOf(u) = r
      BY <2>2, <2>3 DEF BlockIn
    <3>2. r \in Nat /\ Bottom(r) \in Nat /\ RegionSize \in Nat
      BY Powers, RegionsAssumption DEF Indices, Bottom
    <3>3. Bottom(r) <= u /\ u < Bottom(r) + RegionSize
      BY <3>1, <3>2, RegionOfFact
    <3>4. Units(<<Bottom(r), RegionSize>>) = Bottom(r) .. Bottom(r) + RegionSize - 1
      BY DEF Units
    <3> QED BY <3>1, <3>2, <3>3, <3>4
  <2>5. ASSUME fault = "none"
        PROVE  /\ EntriesApart(list) /\ free \cap X = {}
               /\ region[r].typ \in {"Trash", "EmptyCommited", "EmptyUncommited"} => all \cap X = {}
    <3>1. RegionOK(region[r], r, X, starts)
      BY <2>5, FFact DEF RegionInv, SoundInv, InOrder, AllRight
    <3>2. free \cap X = {}
      BY <2>2, <3>1 DEF RegionOK
    <3>3. EntriesApart(list)
      <4> SUFFICES ASSUME NEW i \in Buckets, NEW j \in Buckets, NEW k \in DOMAIN list.heads[i],
                          NEW l \in DOMAIN list.heads[j],
                          Units(list.heads[i][k]) \cap Units(list.heads[j][l]) # {}
                   PROVE  i = j /\ k = l
        BY DEF EntriesApart
      <4>1. list.heads[i][k] \in Entries(list) /\ list.heads[j][l] \in Entries(list)
        BY EntryFact
      <4>2. list.heads[i][k] = list.heads[j][l]
        BY <3>1, <4>1 DEF RegionOK, Apart
      <4>3. ListOK(list)
        BY <3>1 DEF RegionOK
      <4>4. i = j
        BY <4>2, <4>3 DEF ListOK
      <4>5. k = l
        BY <4>2, <4>3, <4>4 DEF ListOK
      <4> QED BY <4>4, <4>5
    <3>4. region[r].typ \in {"Trash", "EmptyCommited", "EmptyUncommited"} => all \cap X = {}
      <4>1. \A u \in all : RegionOf(u) = r
        BY WholeFact DEF Whole, BlockIn
      <4> QED BY <3>1, <4>1 DEF RegionOK, Unused
    <3> QED BY <3>2, <3>3, <3>4
  <2> QED BY <2>1, <2>4, <2>5
<1> QED BY <1>1, RegionsInvariant, PTL

(* Objects are whole. *)
THEOREM ObjectsStayWhole == Spec => []ObjectsWhole
<1>1. RegionInv => ObjectsWhole
  <2> SUFFICES ASSUME RegionInv PROVE ObjectsWhole
    OBVIOUS
  <2>1. fault = "none" => InOrder(F, objs, Rests) /\ F.region = region /\ F.starts = starts
    BY FFact DEF RegionInv, SoundInv
  <2>2. HumongousWhole
    <3> SUFFICES ASSUME fault = "none", NEW r \in Indices, region[r].typ = "HumongousCont"
                 PROVE  \E s \in 0 .. r - 1 :
                          region[s].typ = "HumongousStart" /\ s + RequiredRegions(region[s].large) > r
      BY DEF HumongousWhole
    <3>1. PICK s \in 0 .. r - 1 : region[s].typ = "HumongousStart" /\ r \in Span(s, F)
      BY <2>1 DEF InOrder, Shape, ContsOK
    <3>2. s \in Indices
      BY RegionsAssumption DEF Indices
    <3>3. RequiredRegions(region[s].large) \in Nat
      <4>1. region[s].large \in Nat \ {0}
        BY <2>1, <3>1, <3>2 DEF InOrder, Shape, SpansOK
      <4> QED BY <4>1, RequiredFact
    <3>4. r <= s + RequiredRegions(region[s].large) - 1
      BY <2>1, <3>1 DEF Span
    <3> DEFINE n == RequiredRegions(region[s].large)
    <3>5. n \in Nat /\ r \in Nat /\ s \in Nat /\ r <= s + n - 1
      BY <3>3, <3>4, <3>2 DEF Indices
    <3> HIDE DEF n
    <3>6. s + n > r
      BY <3>5
    <3> QED BY <3>1, <3>6 DEF n
  <2>3. StartBitsExact
    <3> SUFFICES ASSUME fault = "none", NEW o \in objs, o[2] <= RegionSize
                 PROVE  starts \cap Units(o) = {o[1]}
      BY DEF StartBitsExact
    <3>1. ObjOK(o, F)
      BY <2>1 DEF InOrder
    <3>2. ~LargeOK(o, F)
      <4>1. o[2] \in Nat /\ RegionSize \in Nat
        BY <3>1, RegionsAssumption, Powers DEF ObjOK
      <4> QED BY <4>1 DEF LargeOK
    <3> QED BY <2>1, <3>1, <3>2 DEF ObjOK, SmallOK
  <2>4. FixedTlabFits
    BY DEF RegionInv, FixedTlabFits
  <2> QED BY <2>2, <2>3, <2>4 DEF ObjectsWhole
<1> QED BY <1>1, RegionsInvariant, PTL

(* The allocator implements Memory. *)
THEOREM AllocatorIsMemory == Spec => MemorySpec
<1>1. Init => M!Init
  BY DEF Init, M!Init
<1>2. RegionInv /\ [Next]_vars => [M!Next]_objs
  BY StepSound
<1> QED BY <1>1, <1>2, RegionsInvariant, PTL DEF Spec, MemorySpec, M!Spec

(* The free set is right: free memory can be found, open regions are usable and *)
(* between the bounds, used and committed sizes agree with the regions.         *)
THEOREM FreeSetStaysRight == Spec => []FreeSetOK
<1>1. Init => AccountInv
  BY InitAccounts
<1>2. RegionInv /\ RegionInv' /\ AccountInv /\ [Next]_vars => AccountInv'
  BY StepAccounts
<1>3. AccountInv => FreeSetOK
  BY DEF AccountInv
<1> QED BY <1>1, <1>2, <1>3, RegionsInvariant, PTL DEF Spec
=============================================================================
