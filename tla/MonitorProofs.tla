--------------------------- MODULE MonitorProofs ----------------------------
(***************************************************************************)
(* Proofs about module Monitor.                                            *)
(***************************************************************************)
EXTENDS Monitor, SequenceTheorems, FiniteSetTheorems, TLAPS

-----------------------------------------------------------------------------
(***************************************************************************)
(* Queues without repetition: what Append, Tail, \o and Without do to the  *)
(* set of threads that stand in one.                                       *)
(***************************************************************************)
LEMMA AppendQueue ==
  ASSUME NEW S, NEW q \in Seq(S), NEW t \in S
  PROVE  /\ Append(q, t) \in Seq(S) /\ Append(q, t) # <<>>
         /\ Range(Append(q, t)) = Range(q) \cup {t}
         /\ IsInjective(q) /\ t \notin Range(q) => IsInjective(Append(q, t))
<1> DEFINE r == Append(q, t)
<1>1. /\ r \in Seq(S) /\ r # <<>> /\ Len(r) = Len(q) + 1 /\ Len(q) \in Nat
      /\ DOMAIN r = 1 .. Len(q) + 1 /\ DOMAIN q = 1 .. Len(q)
      /\ \A i \in 1 .. Len(q) : r[i] = q[i]
      /\ r[Len(q) + 1] = t
  BY AppendProperties, LenProperties
<1> HIDE DEF r
<1>2. Range(r) = Range(q) \cup {t}
  BY <1>1 DEF Range
<1>3. ASSUME IsInjective(q), t \notin Range(q) PROVE IsInjective(r)
  BY <1>1, <1>3 DEF IsInjective, Range
<1> QED BY <1>1, <1>2, <1>3 DEF r

(* Leaving at the head of a queue. *)
LEMMA TailQueue ==
  ASSUME NEW S, NEW q \in Seq(S), q # <<>>
  PROVE  /\ Head(q) \in S /\ Head(q) \in Range(q)
         /\ Tail(q) \in Seq(S) /\ (Tail(q) # <<>> <=> Len(q) > 1)
         /\ IsInjective(q) => IsInjective(Tail(q)) /\ Range(Tail(q)) = Range(q) \ {Head(q)}
<1> DEFINE r == Tail(q)
<1>1. /\ Head(q) \in S /\ r \in Seq(S) /\ Len(r) = Len(q) - 1
      /\ \A i \in 1 .. Len(r) : r[i] = q[i + 1]
  BY HeadTailProperties
<1>2. /\ Len(q) \in Nat /\ Len(q) # 0 /\ Len(r) \in Nat
      /\ DOMAIN q = 1 .. Len(q) /\ DOMAIN r = 1 .. Len(r)
  BY <1>1, LenProperties, EmptySeq
<1>3. r = <<>> <=> Len(r) = 0
  BY <1>1, EmptySeq
<1>4. Head(q) = q[1]
  OBVIOUS
<1> HIDE DEF r
<1>5. Head(q) \in Range(q)
  BY <1>2, <1>4 DEF Range
<1>6. ASSUME IsInjective(q) PROVE IsInjective(r)
  <2> SUFFICES ASSUME NEW i \in 1 .. Len(r), NEW j \in 1 .. Len(r), r[i] = r[j] PROVE i = j
    BY <1>2 DEF IsInjective
  <2>1. i + 1 \in 1 .. Len(q) /\ j + 1 \in 1 .. Len(q) BY <1>1, <1>2
  <2>2. q[i + 1] = q[j + 1] BY <1>1
  <2>3. i + 1 = j + 1 BY <2>1, <2>2, <1>2, <1>6 DEF IsInjective
  <2> QED BY <2>3
<1>7. ASSUME IsInjective(q) PROVE Range(r) = Range(q) \ {Head(q)}
  <2>1. ASSUME NEW x \in Range(r) PROVE x \in Range(q) \ {Head(q)}
    <3>1. PICK i \in 1 .. Len(r) : x = r[i] BY <2>1, <1>2 DEF Range
    <3>2. x = q[i + 1] /\ i + 1 \in 1 .. Len(q) /\ i + 1 # 1 BY <3>1, <1>1, <1>2
    <3> QED BY <3>2, <1>2, <1>4, <1>7 DEF Range, IsInjective
  <2>2. ASSUME NEW x \in Range(q), x # Head(q) PROVE x \in Range(r)
    <3>1. PICK i \in 1 .. Len(q) : x = q[i] BY <2>2, <1>2 DEF Range
    <3>2. i - 1 \in 1 .. Len(r) BY <3>1, <2>2, <1>1, <1>2, <1>4
    <3>3. r[i - 1] = x BY <3>1, <3>2, <1>1, <1>2
    <3> QED BY <3>2, <3>3, <1>2 DEF Range
  <2> QED BY <2>1, <2>2
<1> QED BY <1>1, <1>2, <1>3, <1>5, <1>6, <1>7 DEF r

(* Moving the waiters of the condition variable to the mutex's queue. *)
LEMMA ConcatQueue ==
  ASSUME NEW S, NEW p \in Seq(S), NEW q \in Seq(S)
  PROVE  /\ p \o q \in Seq(S) /\ (p \o q = <<>> <=> p = <<>> /\ q = <<>>)
         /\ Range(p \o q) = Range(p) \cup Range(q)
         /\ IsInjective(p) /\ IsInjective(q) /\ Range(p) \cap Range(q) = {} => IsInjective(p \o q)
<1> DEFINE r == p \o q
<1>1. /\ r \in Seq(S) /\ Len(r) = Len(p) + Len(q) /\ (r = <<>> <=> p = <<>> /\ q = <<>>)
      /\ Len(p) \in Nat /\ Len(q) \in Nat
      /\ DOMAIN r = 1 .. Len(p) + Len(q) /\ DOMAIN p = 1 .. Len(p) /\ DOMAIN q = 1 .. Len(q)
  BY ConcatProperties, ConcatEqualIffEmpty, LenProperties
<1>2. \A i \in 1 .. Len(p) + Len(q) : r[i] = IF i <= Len(p) THEN p[i] ELSE q[i - Len(p)]
  BY ConcatProperties
<1> HIDE DEF r
<1>3. \A i \in 1 .. Len(p) : r[i] = p[i]
  BY <1>1, <1>2
<1>4. \A i \in 1 .. Len(q) : r[i + Len(p)] = q[i] /\ i + Len(p) \in 1 .. Len(p) + Len(q)
  <2> SUFFICES ASSUME NEW i \in 1 .. Len(q)
               PROVE  r[i + Len(p)] = q[i] /\ i + Len(p) \in 1 .. Len(p) + Len(q)
    OBVIOUS
  <2>1. /\ i + Len(p) \in 1 .. Len(p) + Len(q) /\ ~(i + Len(p) <= Len(p))
        /\ (i + Len(p)) - Len(p) = i
    BY <1>1
  <2> QED BY <2>1, <1>2
<1>5. Range(r) = Range(p) \cup Range(q)
  <2>1. Range(r) \subseteq Range(p) \cup Range(q)
    <3> SUFFICES ASSUME NEW i \in 1 .. Len(p) + Len(q) PROVE r[i] \in Range(p) \cup Range(q)
      BY <1>1 DEF Range
    <3>1. CASE i <= Len(p)
      <4>1. i \in 1 .. Len(p) BY <3>1, <1>1
      <4> QED BY <4>1, <1>1, <1>3 DEF Range
    <3>2. CASE i > Len(p)
      <4>1. i - Len(p) \in 1 .. Len(q) /\ (i - Len(p)) + Len(p) = i BY <3>2, <1>1
      <4>2. r[i] = q[i - Len(p)] BY <4>1, <1>4
      <4> QED BY <4>1, <4>2, <1>1 DEF Range
    <3> QED BY <3>1, <3>2, <1>1
  <2>2. Range(p) \subseteq Range(r)
    BY <1>1, <1>3 DEF Range
  <2>3. Range(q) \subseteq Range(r)
    BY <1>1, <1>4 DEF Range
  <2> QED BY <2>1, <2>2, <2>3
<1>6. ASSUME IsInjective(p), IsInjective(q), Range(p) \cap Range(q) = {} PROVE IsInjective(r)
  <2> SUFFICES ASSUME NEW i \in 1 .. Len(p) + Len(q), NEW j \in 1 .. Len(p) + Len(q), r[i] = r[j]
               PROVE  i = j
    BY <1>1 DEF IsInjective
  <2>1. ASSUME NEW n \in 1 .. Len(p) + Len(q), ~(n <= Len(p))
        PROVE  n - Len(p) \in 1 .. Len(q) /\ r[n] = q[n - Len(p)] /\ r[n] \in Range(q)
    <3>1. n - Len(p) \in 1 .. Len(q) /\ r[n] = q[n - Len(p)] BY <2>1, <1>1, <1>2
    <3> QED BY <3>1, <1>1 DEF Range
  <2>2. ASSUME NEW n \in 1 .. Len(p) + Len(q), n <= Len(p)
        PROVE  n \in 1 .. Len(p) /\ r[n] = p[n] /\ r[n] \in Range(p)
    <3>1. n \in 1 .. Len(p) /\ r[n] = p[n] BY <2>2, <1>1, <1>2
    <3> QED BY <3>1, <1>1 DEF Range
  <2>3. CASE i <= Len(p) /\ j <= Len(p)
    BY <2>2, <2>3, <1>1, <1>6 DEF IsInjective
  <2>4. CASE ~(i <= Len(p)) /\ ~(j <= Len(p))
    <3>1. i - Len(p) = j - Len(p) BY <2>1, <2>4, <1>1, <1>6 DEF IsInjective
    <3> QED BY <3>1, <1>1
  <2>5. CASE i <= Len(p) /\ ~(j <= Len(p))
    BY <2>1, <2>2, <2>5, <1>6
  <2>6. CASE ~(i <= Len(p)) /\ j <= Len(p)
    BY <2>1, <2>2, <2>6, <1>6
  <2> QED BY <2>3, <2>4, <2>5, <2>6
<1> QED BY <1>1, <1>5, <1>6 DEF r

(* Leaving a queue on a timeout, wherever one stands. *)
LEMMA WithoutQueue ==
  ASSUME NEW S, NEW q \in Seq(S), NEW t, IsInjective(q)
  PROVE  /\ Without(q, t) \in Seq(S) /\ IsInjective(Without(q, t))
         /\ Range(Without(q, t)) = Range(q) \ {t}
         /\ Without(q, t) = <<>> <=> q = <<>> \/ (t \in Range(q) /\ Len(q) = 1)
<1>0. Len(q) \in Nat /\ DOMAIN q = 1 .. Len(q) /\ \A i \in 1 .. Len(q) : q[i] \in S
  BY LenProperties
<1>1. CASE t \notin Range(q)
  BY <1>1 DEF Without
<1>2. CASE t \in Range(q)
  <2> DEFINE k == CHOOSE i \in DOMAIN q : q[i] = t
             a == SubSeq(q, 1, k - 1)
             b == SubSeq(q, k + 1, Len(q))
  <2>1. k \in 1 .. Len(q) /\ q[k] = t
    BY <1>0, <1>2 DEF Range
  <2>2. Without(q, t) = a \o b
    BY <1>2 DEF Without, RemoveAt
  <2> HIDE DEF k
  <2>3. /\ a \in Seq(S) /\ Len(a) = k - 1
        /\ \A i \in 1 .. k - 1 : a[i] = q[i]
    <3>1. \A i \in 1 .. k - 1 : q[i] \in S BY <1>0, <2>1
    <3>2. /\ a \in Seq(S) /\ Len(a) = IF 1 <= k - 1 THEN (k - 1) - 1 + 1 ELSE 0
          /\ \A i \in 1 .. (k - 1) - 1 + 1 : a[i] = q[1 + i - 1]
      BY <3>1, <2>1, <1>0, SubSeqProperties
    <3> QED BY <3>2, <2>1, <1>0
  <2>4. /\ b \in Seq(S) /\ Len(b) = Len(q) - k
        /\ \A i \in 1 .. Len(q) - k : b[i] = q[k + i]
    <3>1. \A i \in k + 1 .. Len(q) : q[i] \in S BY <1>0, <2>1
    <3>2. /\ b \in Seq(S) /\ Len(b) = IF k + 1 <= Len(q) THEN Len(q) - (k + 1) + 1 ELSE 0
          /\ \A i \in 1 .. Len(q) - (k + 1) + 1 : b[i] = q[(k + 1) + i - 1]
      BY <3>1, <2>1, <1>0, SubSeqProperties
    <3>3. Len(b) = Len(q) - k
      <4> HIDE DEF b
      <4>1. CASE k + 1 <= Len(q) BY <4>1, <3>2, <2>1, <1>0
      <4>2. CASE k = Len(q) BY <4>2, <3>2, <2>1, <1>0
      <4>3. k \in 1 .. Len(q) /\ Len(q) \in Nat BY <2>1, <1>0
      <4>4. k + 1 <= Len(q) \/ k = Len(q) BY <4>3
      <4> QED BY <4>1, <4>2, <4>4
    <3>4. ASSUME NEW i \in 1 .. Len(q) - k PROVE b[i] = q[k + i]
      <4>1. Len(q) - (k + 1) + 1 = Len(q) - k /\ (k + 1) + i - 1 = k + i
        BY <2>1, <1>0
      <4> QED BY <4>1, <3>2
    <3> QED BY <3>2, <3>3, <3>4
  <2> HIDE DEF a, b
  <2>5. DOMAIN a = 1 .. k - 1 /\ DOMAIN b = 1 .. Len(q) - k
    BY <2>3, <2>4, LenProperties
  <2>6. Range(a) = {q[i] : i \in 1 .. k - 1}
    BY <2>3, <2>5 DEF Range
  <2>7. Range(b) = {q[i] : i \in k + 1 .. Len(q)}
    <3>1. ASSUME NEW x \in Range(b) PROVE x \in {q[i] : i \in k + 1 .. Len(q)}
      <4>1. PICK i \in 1 .. Len(q) - k : x = b[i] BY <2>5 DEF Range
      <4> QED BY <4>1, <2>4, <2>1, <1>0
    <3>2. ASSUME NEW i \in k + 1 .. Len(q) PROVE q[i] \in Range(b)
      <4>1. i - k \in 1 .. Len(q) - k /\ k + (i - k) = i BY <2>1, <1>0
      <4> QED BY <4>1, <2>4, <2>5 DEF Range
    <3> QED BY <3>1, <3>2
  <2>8. IsInjective(a) /\ IsInjective(b)
    <3>1. \A i, j \in 1 .. Len(q) : q[i] = q[j] => i = j
      BY <1>0 DEF IsInjective
    <3>2. ASSUME NEW i \in 1 .. k - 1 PROVE i \in 1 .. Len(q) BY <2>1, <1>0
    <3>3. IsInjective(a) BY <2>3, <2>5, <3>1, <3>2 DEF IsInjective
    <3>4. ASSUME NEW i \in 1 .. Len(q) - k PROVE k + i \in 1 .. Len(q) BY <2>1, <1>0
    <3>5. ASSUME NEW i \in 1 .. Len(q) - k, NEW j \in 1 .. Len(q) - k, b[i] = b[j] PROVE i = j
      <4>1. k + i = k + j BY <2>4, <3>1, <3>4, <3>5
      <4> QED BY <4>1, <2>1
    <3> QED BY <2>5, <3>3, <3>5 DEF IsInjective
  <2>9. Range(a) \cap Range(b) = {}
    BY <2>1, <2>6, <2>7, <1>0 DEF IsInjective
  <2>10. Range(a) \cup Range(b) = Range(q) \ {t}
    <3>1. ASSUME NEW i \in 1 .. Len(q) PROVE i \in 1 .. k - 1 \/ i = k \/ i \in k + 1 .. Len(q)
      BY <2>1, <1>0
    <3>2. ASSUME NEW i \in 1 .. Len(q), q[i] = t PROVE i = k
      BY <2>1, <3>2, <1>0 DEF IsInjective
    <3>3. ASSUME NEW i \in 1 .. k - 1 PROVE i \in 1 .. Len(q) /\ i # k
      BY <2>1, <1>0
    <3>4. ASSUME NEW i \in k + 1 .. Len(q) PROVE i \in 1 .. Len(q) /\ i # k
      BY <2>1, <1>0
    <3>5. Range(q) \ {t} \subseteq Range(a) \cup Range(b)
      BY <2>1, <2>6, <2>7, <3>1, <1>0 DEF Range
    <3>6. Range(a) \cup Range(b) \subseteq Range(q) \ {t}
      BY <2>6, <2>7, <3>2, <3>3, <3>4, <1>0 DEF Range
    <3> QED BY <3>5, <3>6
  <2>11. a \o b = <<>> <=> Len(q) = 1
    <3>1. a \o b = <<>> <=> a = <<>> /\ b = <<>>
      BY <2>3, <2>4, ConcatQueue
    <3>2. (a = <<>> <=> Len(a) = 0) /\ (b = <<>> <=> Len(b) = 0)
      BY <2>3, <2>4, EmptySeq
    <3>3. Len(q) = 1 <=> k - 1 = 0 /\ Len(q) - k = 0
      <4>1. k \in 1 .. Len(q) /\ Len(q) \in Nat BY <2>1, <1>0
      <4> QED BY <4>1
    <3> QED BY <2>3, <2>4, <3>1, <3>2, <3>3
  <2>12. q # <<>>
    BY <2>1, EmptySeq
  <2> QED BY <1>2, <2>2, <2>3, <2>4, <2>8, <2>9, <2>10, <2>11, <2>12, ConcatQueue
<1> QED BY <1>1, <1>2

-----------------------------------------------------------------------------
(***************************************************************************)
(* The inductive invariant.  A thread on its way to sleep still has the    *)
(* mutex, so nobody can have given it a token; and the threads of the two  *)
(* queues, all different, are those that sleep without a token.            *)
(***************************************************************************)
TypeInv == TypeOK /\ locks \in [Threads -> Nat]

OwnersInv ==
  \/ Owners = {} /\ LOCKED \notin state
  \/ LOCKED \in state /\ \E t \in Threads : Owners = {t}

HolderInv ==
  \A t \in Threads : pc[t] \in {"wait_unlock", "wait_unlock_slow"} => token[t] = "none"

StandingInv ==
  /\ IsInjective(queue["mutex"]) /\ IsInjective(queue["cv"])
  /\ Range(queue["mutex"]) \cap Range(queue["cv"]) = {}
  /\ Range(queue["mutex"]) \cup Range(queue["cv"]) = {t \in Threads : Queued(t)}

LeavingInv ==
  \A t \in Threads :
    /\ pc[t] \in {"unlock", "unlock_slow", "unlock_slow_fair"} => ~cv
    /\ pc[t] = "notify_one" => after[t] # "unlock"

MonitorInv ==
  /\ TypeInv /\ OwnersInv /\ HolderInv /\ StandingInv
  /\ SleepersKnown /\ WaitersKnown /\ LeavingInv

(* The inductive invariant holds initially. *)
LEMMA InitMonitor == Init => MonitorInv
<1> SUFFICES ASSUME Init PROVE MonitorInv
  OBVIOUS
<1> USE DEF Init
<1>1. TypeInv
  <2>1. cv \in BOOLEAN /\ ready \in BOOLEAN /\ state \subseteq {LOCKED, PARKED}
    OBVIOUS
  <2>2. queue \in [{"mutex", "cv"} -> Seq(Threads)]
    <3>1. <<>> \in Seq(Threads) BY EmptySeq
    <3> QED BY <3>1
  <2>3. /\ token \in [Threads -> {"none", "NORMAL", "HANDOFF"}] /\ pc \in [Threads -> Labels]
        /\ after \in [Threads -> {"idle", "drop", "unlock"}] /\ locks \in [Threads -> Nat]
        /\ wait \in [Threads -> {"no", "once", "timed", "while"}]
        /\ seen \in [Threads -> SUBSET {LOCKED, PARKED}]
    BY DEF Labels
  <2>4. \A t \in Threads : ~Unparked(t) /\ locks[t] \in 0 .. MaxLocks[t]
    BY MonitorAssumption DEF Unparked
  <2> QED BY <2>1, <2>2, <2>3, <2>4 DEF TypeInv, TypeOK
<1>2. Owners = {} /\ LOCKED \notin state
  BY DEF Owners, Holds
<1>3. queue["mutex"] = <<>> /\ queue["cv"] = <<>>
  OBVIOUS
<1>4. StandingInv
  <2>1. DOMAIN <<>> = {} OBVIOUS
  <2>2. Range(<<>>) = {} /\ IsInjective(<<>>) BY <2>1 DEF Range, IsInjective
  <2>3. {t \in Threads : Queued(t)} = {} BY DEF Queued
  <2> QED BY <1>3, <2>2, <2>3 DEF StandingInv
<1>5. SleepersKnown /\ WaitersKnown /\ HolderInv /\ LeavingInv
  BY <1>3 DEF SleepersKnown, WaitersKnown, HolderInv, LeavingInv
<1> QED BY <1>1, <1>2, <1>4, <1>5 DEF MonitorInv, OwnersInv

\* unpark_one takes the first sleeper from the queue and gives it its token.
LEMMA UnparkOneType ==
  ASSUME TypeInv, NEW fair \in BOOLEAN, UnparkOne(fair)
  PROVE  /\ state' \subseteq {LOCKED, PARKED}
         /\ queue' \in [{"mutex", "cv"} -> Seq(Threads)]
         /\ queue'["cv"] = queue["cv"]
         /\ \/ /\ queue["mutex"] = <<>> /\ queue' = queue /\ token' = token /\ state' = {}
            \/ /\ queue["mutex"] # <<>> /\ Head(queue["mutex"]) \in Threads
               /\ queue'["mutex"] = Tail(queue["mutex"])
               /\ token' = [token EXCEPT ![Head(queue["mutex"])] =
                              IF fair THEN "HANDOFF" ELSE "NORMAL"]
               /\ ~fair => state' = IF Len(queue["mutex"]) > 1 THEN {PARKED} ELSE {}
               /\ fair => state' = IF Len(queue["mutex"]) > 1 THEN state ELSE {LOCKED}
<1>1. queue \in [{"mutex", "cv"} -> Seq(Threads)] /\ state \subseteq {LOCKED, PARKED}
  BY DEF TypeInv, TypeOK
<1>2. CASE queue["mutex"] = <<>>
  BY <1>1, <1>2 DEF UnparkOne
<1>3. CASE queue["mutex"] # <<>>
  <2>1. Head(queue["mutex"]) \in Threads /\ Tail(queue["mutex"]) \in Seq(Threads)
    BY <1>1, <1>3, TailQueue
  <2>2. queue' = [queue EXCEPT !["mutex"] = Tail(queue["mutex"])]
    BY <1>3 DEF UnparkOne
  <2>3. token' = [token EXCEPT ![Head(queue["mutex"])] = IF fair THEN "HANDOFF" ELSE "NORMAL"]
    BY <1>3 DEF UnparkOne
  <2>4. /\ ~fair => state' = IF Len(queue["mutex"]) > 1 THEN {PARKED} ELSE {}
        /\ fair => state' = IF Len(queue["mutex"]) > 1 THEN state ELSE {LOCKED}
    BY <1>3 DEF UnparkOne
  <2>5. state' \subseteq {LOCKED, PARKED}
    BY <1>1, <2>4
  <2> QED BY <1>1, <1>3, <2>1, <2>2, <2>3, <2>4, <2>5
<1> QED BY <1>2, <1>3


\* The fast paths of lock and unlock.
LEMMA CallLockCases ==
  ASSUME NEW t \in Threads, CallLock(t)
  PROVE  \/ state = {} /\ state' = {LOCKED} /\ pc' = [pc EXCEPT ![t] = "held"]
         \/ state # {} /\ state' = state /\ pc' = [pc EXCEPT ![t] = "load"]
BY DEF CallLock, Goto

(* unlock either drops the mutex at once or enters unlock_slow. *)
LEMMA CallUnlockCases ==
  ASSUME NEW t \in Threads, NEW label, NEW slow, CallUnlock(t, label, slow)
  PROVE  \/ state = {LOCKED} /\ state' = {} /\ pc' = [pc EXCEPT ![t] = label]
         \/ state # {LOCKED} /\ state' = state /\ pc' = [pc EXCEPT ![t] = slow]
BY DEF CallUnlock, Goto

\* The first of a queue sleeps without a token.
LEMMA QueueHead ==
  ASSUME TypeInv, StandingInv, NEW a \in {"mutex", "cv"}, queue[a] # <<>>
  PROVE  /\ Head(queue[a]) \in Threads /\ Head(queue[a]) \in Range(queue[a])
         /\ Queued(Head(queue[a]))
<1>1. queue[a] \in Seq(Threads) BY DEF TypeInv, TypeOK
<1>2. Head(queue[a]) \in Threads /\ Head(queue[a]) \in Range(queue[a])
  BY <1>1, TailQueue
<1> QED BY <1>2 DEF StandingInv

\* A step of any thread keeps the types.
LEMMA TypeNext ==
  ASSUME TypeInv, HolderInv, StandingInv, NEW t \in Threads, Chooses(t) \/ Proceeds(t)
  PROVE  TypeInv'
<1> USE MonitorAssumption
<1> USE DEF TypeInv, TypeOK, Goto, Unparked, Labels, Return
<1>1. CASE Load(t)
  BY <1>1 DEF Load
<1>2. CASE Grab(t)
  BY <1>2 DEF Grab
<1>3. CASE SetParked(t)
  BY <1>3 DEF SetParked
<1>4. CASE ParkReturns(t)
  BY <1>4 DEF ParkReturns
<1>5. CASE WaitWhileReturns(t)
  BY <1>5 DEF WaitWhileReturns
<1>6. CASE Awake(t)
  BY <1>6 DEF Awake, EndOfWait
<1>7. CASE NotifyAll(t)
  BY <1>7 DEF NotifyAll
<1>8. CASE MakeReady(t)
  BY <1>8 DEF MakeReady
<1>9. CASE Drop(t)
  BY <1>9 DEF Drop
<1>10. CASE Lock(t)
  <2>1. CASE state = {} /\ state' = {LOCKED} /\ pc' = [pc EXCEPT ![t] = "held"]
    BY <1>10, <2>1 DEF Lock
  <2>2. CASE state # {} /\ state' = state /\ pc' = [pc EXCEPT ![t] = "load"]
    BY <1>10, <2>2 DEF Lock
  <2> QED BY <1>10, <2>1, <2>2, CallLockCases DEF Lock
<1>11. CASE Relock(t)
  <2>1. CASE state = {} /\ state' = {LOCKED} /\ pc' = [pc EXCEPT ![t] = "held"]
    BY <1>11, <2>1 DEF Relock
  <2>2. CASE state # {} /\ state' = state /\ pc' = [pc EXCEPT ![t] = "load"]
    BY <1>11, <2>2 DEF Relock
  <2> QED BY <1>11, <2>1, <2>2, CallLockCases DEF Relock
<1>12. CASE TryLock(t)
  <2>1. CASE LOCKED \in state
    BY <1>12, <2>1 DEF TryLock
  <2>2. CASE LOCKED \notin state
    <3>1. state' \subseteq {LOCKED, PARKED} BY <1>12, <2>2 DEF TryLock
    <3>2. /\ pc' = [pc EXCEPT ![t] = "held"] /\ locks' = [locks EXCEPT ![t] = @ + 1]
          /\ pc[t] = "idle" /\ locks[t] < MaxLocks[t]
          /\ UNCHANGED <<cv, queue, token, seen, after, wait, ready>>
      BY <1>12, <2>2 DEF TryLock
    <3> QED BY <3>1, <3>2
  <2> QED BY <2>1, <2>2
<1>13. CASE Unlock(t)
  <2>1. PICK slow \in {"unlock_slow", "unlock_slow_fair"} : CallUnlock(t, "idle", slow)
    BY <1>13 DEF Unlock
  <2>2. CASE state' = {} /\ pc' = [pc EXCEPT ![t] = "idle"]
    BY <1>13, <2>2 DEF Unlock
  <2>3. CASE state' = state /\ pc' = [pc EXCEPT ![t] = slow]
    BY <1>13, <2>3 DEF Unlock
  <2> QED BY <2>1, <2>2, <2>3, CallUnlockCases
<1>14. CASE BeforeSleep(t)
  <2>1. CASE state' = {} /\ pc' = [pc EXCEPT ![t] = "asleep"]
    BY <1>14, <2>1 DEF BeforeSleep
  <2>2. CASE state' = state /\ pc' = [pc EXCEPT ![t] = "wait_unlock_slow"]
    BY <1>14, <2>2 DEF BeforeSleep
  <2> QED BY <1>14, <2>1, <2>2, CallUnlockCases DEF BeforeSleep
<1>15. CASE NotifyOne(t)
  <2>1. CASE pc[t] = "held"
    BY <1>15, <2>1 DEF NotifyOne
  <2>2. CASE pc[t] = "idle"
    BY <1>15, <2>2 DEF NotifyOne
  <2> QED BY <1>15, <2>1, <2>2 DEF NotifyOne
<1>16. ASSUME NEW fair \in BOOLEAN, UnparkOne(fair), NEW label, Goto(t, label),
              \/ label \in {"idle", "relock"} /\ ~Queued(t) /\ pc[t] # "asleep" /\ token[t] = "none"
              \/ label = "asleep"
       PROVE  /\ token' \in [Threads -> {"none", "NORMAL", "HANDOFF"}]
              /\ pc' \in [Threads -> Labels]
              /\ \A u \in Threads : token'[u] # "none" =>
                   pc'[u] \in {"parked", "wait_unlock", "wait_unlock_slow", "asleep"}
  <2>1. pc' = [pc EXCEPT ![t] = label] /\ label \in Labels BY <1>16
  <2>2. CASE token' = token
    BY <2>1, <2>2, <1>16
  <2>3. CASE queue["mutex"] # <<>> /\ token' = [token EXCEPT ![Head(queue["mutex"])] =
                                                  IF fair THEN "HANDOFF" ELSE "NORMAL"]
    <3>1. Head(queue["mutex"]) \in Threads /\ Queued(Head(queue["mutex"]))
      BY <2>3, QueueHead
    <3>2. PICK k \in {"HANDOFF", "NORMAL"} : token' = [token EXCEPT ![Head(queue["mutex"])] = k]
      BY <2>3
    <3> QED BY <2>1, <3>1, <3>2, <1>16 DEF Queued
  <2> QED BY <2>2, <2>3, <1>16, UnparkOneType
<1>17. CASE UnlockSlow(t)
  <2>1. PICK fair \in BOOLEAN : UnparkOne(fair) BY <1>17 DEF UnlockSlow
  <2>2. ~Queued(t) /\ pc[t] # "asleep" /\ token[t] = "none" BY <1>17 DEF UnlockSlow, Queued
  <2>3. /\ token' \in [Threads -> {"none", "NORMAL", "HANDOFF"}] /\ pc' \in [Threads -> Labels]
        /\ \A u \in Threads : token'[u] # "none" =>
             pc'[u] \in {"parked", "wait_unlock", "wait_unlock_slow", "asleep"}
    BY <1>16, <1>17, <2>1, <2>2 DEF UnlockSlow
  <2>4. state' \subseteq {LOCKED, PARKED} /\ queue' \in [{"mutex", "cv"} -> Seq(Threads)]
    BY <2>1, UnparkOneType
  <2> QED BY <1>17, <2>3, <2>4 DEF UnlockSlow
<1>18. CASE BeforeSleepSlow(t)
  <2>1. PICK fair \in BOOLEAN : UnparkOne(fair) BY <1>18 DEF BeforeSleepSlow
  <2>3. /\ token' \in [Threads -> {"none", "NORMAL", "HANDOFF"}] /\ pc' \in [Threads -> Labels]
        /\ \A u \in Threads : token'[u] # "none" =>
             pc'[u] \in {"parked", "wait_unlock", "wait_unlock_slow", "asleep"}
    BY <1>16, <1>18, <2>1 DEF BeforeSleepSlow
  <2>4. state' \subseteq {LOCKED, PARKED} /\ queue' \in [{"mutex", "cv"} -> Seq(Threads)]
    BY <2>1, UnparkOneType
  <2> QED BY <1>18, <2>3, <2>4 DEF BeforeSleepSlow
<1>19. CASE Bump(t)
  <2>2. ~Queued(t) /\ pc[t] # "asleep" /\ token[t] = "none" BY <1>19 DEF Bump, Queued
  <2>3. /\ token' \in [Threads -> {"none", "NORMAL", "HANDOFF"}] /\ pc' \in [Threads -> Labels]
        /\ \A u \in Threads : token'[u] # "none" =>
             pc'[u] \in {"parked", "wait_unlock", "wait_unlock_slow", "asleep"}
    BY <1>16, <1>19, <2>2 DEF Bump
  <2>4. state' \subseteq {LOCKED, PARKED} /\ queue' \in [{"mutex", "cv"} -> Seq(Threads)]
    BY <1>19, UnparkOneType DEF Bump
  <2>5. locks' \in [Threads -> Nat] /\ \A u \in Threads : locks'[u] \in 0 .. MaxLocks[u]
    BY <1>19 DEF Bump
  <2> QED BY <1>19, <2>3, <2>4, <2>5 DEF Bump
<1>20. CASE Park(t)
  <2>1. \A a \in {"mutex", "cv"} : Append(queue[a], t) \in Seq(Threads) BY AppendQueue
  <2>2. CASE queue' = [queue EXCEPT !["mutex"] = Append(@, t)] /\ pc' = [pc EXCEPT ![t] = "parked"]
    <3>1. queue' \in [{"mutex", "cv"} -> Seq(Threads)] BY <2>1, <2>2
    <3>2. pc[t] = "park" /\ UNCHANGED <<state, cv, token, seen, after, wait, locks, ready>>
      BY <1>20 DEF Park
    <3> QED BY <2>2, <3>1, <3>2
  <2>3. CASE queue' = queue /\ pc' = [pc EXCEPT ![t] = "load"]
    BY <1>20, <2>3 DEF Park
  <2> QED BY <1>20, <2>2, <2>3 DEF Park
<1>21. CASE Wait(t)
  <2>1. \A a \in {"mutex", "cv"} : Append(queue[a], t) \in Seq(Threads) BY AppendQueue
  <2> QED BY <1>21, <2>1 DEF Wait, MayWait, EnterWait
<1>22. CASE WaitWhile(t)
  <2>1. \A a \in {"mutex", "cv"} : Append(queue[a], t) \in Seq(Threads) BY AppendQueue
  <2> QED BY <1>22, <2>1 DEF WaitWhile
<1>23. CASE Timeout(t)
  <2>1. \A a \in {"mutex", "cv"} : Without(queue[a], t) \in Seq(Threads)
    BY WithoutQueue DEF StandingInv
  <2>2. queue' \in [{"mutex", "cv"} -> Seq(Threads)]
    BY <1>23, <2>1 DEF Timeout
  <2>3. cv' \in BOOLEAN
    BY <1>23 DEF Timeout, TimeoutState
  <2>4. PICK k \in {"no", "once", "timed", "while"} : wait' = [wait EXCEPT ![t] = k]
    BY <1>23 DEF Timeout, EndOfWait
  <2> QED BY <1>23, <2>2, <2>3, <2>4 DEF Timeout
<1>24. ASSUME NEW u \in Threads, Queued(u), token' = [token EXCEPT ![u] = "NORMAL"],
              pc' = [pc EXCEPT ![t] = after[t]], pc[t] \in {"notify_one", "notify_all"}
       PROVE  /\ token' \in [Threads -> {"none", "NORMAL", "HANDOFF"}]
              /\ pc' \in [Threads -> Labels]
              /\ \A v \in Threads : token'[v] # "none" =>
                   pc'[v] \in {"parked", "wait_unlock", "wait_unlock_slow", "asleep"}
  BY <1>24 DEF Queued
<1>25. ASSUME token' = token, pc' = [pc EXCEPT ![t] = after[t]],
              pc[t] \in {"notify_one", "notify_all"}
       PROVE  /\ token' \in [Threads -> {"none", "NORMAL", "HANDOFF"}]
              /\ pc' \in [Threads -> Labels]
              /\ \A v \in Threads : token'[v] # "none" =>
                   pc'[v] \in {"parked", "wait_unlock", "wait_unlock_slow", "asleep"}
  BY <1>25
<1>26. CASE NotifyOneSlow(t)
  <2> DEFINE q == queue["cv"]
  <2>1. /\ pc[t] = "notify_one" /\ pc' = [pc EXCEPT ![t] = after[t]]
        /\ UNCHANGED <<seen, after, wait, locks, ready>>
    BY <1>26 DEF NotifyOneSlow
  <2>2. CASE UNCHANGED <<state, cv, queue, token>>
    BY <2>1, <2>2
  <2>3. CASE /\ q # <<>> /\ LOCKED \in state /\ state' = state \cup {PARKED}
             /\ queue' = [queue EXCEPT !["mutex"] = Append(@, Head(q)), !["cv"] = Tail(q)]
             /\ UNCHANGED token /\ cv' = (Len(q) > 1)
    <3>1. Head(q) \in Threads /\ Tail(q) \in Seq(Threads) BY <2>3, TailQueue
    <3>2. Append(queue["mutex"], Head(q)) \in Seq(Threads) BY <3>1, AppendQueue
    <3>3. queue' \in [{"mutex", "cv"} -> Seq(Threads)] BY <2>3, <3>1, <3>2
    <3>4. state' \subseteq {LOCKED, PARKED} /\ cv' \in BOOLEAN BY <2>3
    <3> QED BY <2>1, <2>3, <3>3, <3>4, <1>25
  <2>4. CASE /\ q # <<>> /\ LOCKED \notin state /\ UNCHANGED state /\ cv' = (Len(q) > 1)
             /\ queue' = [queue EXCEPT !["cv"] = Tail(q)]
             /\ token' = [token EXCEPT ![Head(q)] = "NORMAL"]
    <3>1. Head(q) \in Threads /\ Tail(q) \in Seq(Threads) BY <2>4, TailQueue
    <3>2. queue' \in [{"mutex", "cv"} -> Seq(Threads)] /\ cv' \in BOOLEAN BY <2>4, <3>1
    <3>3. Queued(Head(q)) BY <2>4, QueueHead
    <3>4. /\ token' \in [Threads -> {"none", "NORMAL", "HANDOFF"}] /\ pc' \in [Threads -> Labels]
          /\ \A v \in Threads : token'[v] # "none" =>
               pc'[v] \in {"parked", "wait_unlock", "wait_unlock_slow", "asleep"}
      BY <2>1, <2>4, <3>1, <3>3, <1>24
    <3> QED BY <2>1, <2>4, <3>2, <3>4
  <2> QED BY <2>2, <2>3, <2>4, <1>26 DEF NotifyOneSlow
<1>27. CASE NotifyAllSlow(t)
  <2> DEFINE q == queue["cv"]
  <2>1. /\ pc[t] = "notify_all" /\ pc' = [pc EXCEPT ![t] = after[t]]
        /\ UNCHANGED <<seen, after, wait, locks, ready>>
    BY <1>27 DEF NotifyAllSlow
  <2>2. CASE UNCHANGED <<state, cv, queue, token>>
    BY <2>1, <2>2
  <2>3. <<>> \in Seq(Threads) BY EmptySeq
  <2>4. CASE /\ q # <<>> /\ cv' = FALSE /\ state' = state \cup {PARKED}
             /\ queue' = [queue EXCEPT !["mutex"] = @ \o q, !["cv"] = <<>>] /\ UNCHANGED token
    <3>1. queue["mutex"] \o q \in Seq(Threads) BY ConcatQueue
    <3>2. queue' \in [{"mutex", "cv"} -> Seq(Threads)] BY <2>3, <2>4, <3>1
    <3>3. state' \subseteq {LOCKED, PARKED} /\ cv' \in BOOLEAN BY <2>4
    <3> QED BY <2>1, <2>4, <3>2, <3>3, <1>25
  <2>5. CASE /\ q # <<>> /\ cv' = FALSE
             /\ queue' = [queue EXCEPT !["mutex"] = @ \o Tail(q), !["cv"] = <<>>]
             /\ token' = [token EXCEPT ![Head(q)] = "NORMAL"]
             /\ state' = IF Len(q) > 1 THEN state \cup {PARKED} ELSE state
    <3>1. Head(q) \in Threads /\ Tail(q) \in Seq(Threads) BY <2>5, TailQueue
    <3>2. queue["mutex"] \o Tail(q) \in Seq(Threads) BY <3>1, ConcatQueue
    <3>3. queue' \in [{"mutex", "cv"} -> Seq(Threads)] BY <2>3, <2>5, <3>2
    <3>4. state' \subseteq {LOCKED, PARKED} /\ cv' \in BOOLEAN BY <2>5
    <3>5. Queued(Head(q)) BY <2>5, QueueHead
    <3>6. /\ token' \in [Threads -> {"none", "NORMAL", "HANDOFF"}] /\ pc' \in [Threads -> Labels]
          /\ \A v \in Threads : token'[v] # "none" =>
               pc'[v] \in {"parked", "wait_unlock", "wait_unlock_slow", "asleep"}
      BY <2>1, <2>5, <3>1, <3>5, <1>24
    <3> QED BY <2>1, <2>5, <3>3, <3>4, <3>6
  <2> QED BY <2>2, <2>4, <2>5, <1>27 DEF NotifyAllSlow
<1> QED
  BY <1>1, <1>2, <1>3, <1>4, <1>5, <1>6, <1>7, <1>8, <1>9, <1>10, <1>11, <1>12, <1>13, <1>14,
     <1>15, <1>17, <1>18, <1>19, <1>20, <1>21, <1>22, <1>23, <1>26, <1>27
     DEF Chooses, Proceeds

-----------------------------------------------------------------------------
(***************************************************************************)
(* The owner of the mutex.                                                 *)
(***************************************************************************)
\* What a step of thread t does with the ownership: nothing, or it takes the
\* free mutex, or gives it up, or hands it over.
OwnerStep(t) ==
  \/ Owners' = Owners /\ (LOCKED \in state' <=> LOCKED \in state)
  \/ Owners = {} /\ Owners' = {t} /\ LOCKED \in state'
  \/ Owners = {t} /\ Owners' = {} /\ LOCKED \notin state'
  \/ Owners = {t} /\ LOCKED \in state' /\ \E u \in Threads : Owners' = {u}

(* How the owners follow from what the moving thread holds. *)
LEMMA OwnerCases ==
  ASSUME OwnersInv, NEW t \in Threads,
         \A u \in Threads : u # t => (Holds(u)' <=> Holds(u))
  PROVE  /\ (Holds(t)' <=> Holds(t)) => Owners' = Owners
         /\ LOCKED \notin state => Owners = {} /\ ~Holds(t)
         /\ LOCKED \notin state /\ Holds(t)' => Owners' = {t}
         /\ Holds(t) => Owners = {t} /\ LOCKED \in state
         /\ Holds(t) /\ ~Holds(t)' => Owners' = {}
BY DEF OwnersInv, Owners

\* unlock_slow and bump: the lock goes to the first sleeper, or to nobody.
LEMMA UnparkOwner ==
  ASSUME TypeInv, OwnersInv, HolderInv, StandingInv, NEW t \in Threads, Holds(t),
         token[t] = "none", NEW label \in {"idle", "relock", "asleep"}, Goto(t, label),
         NEW fair \in BOOLEAN, UnparkOne(fair), UNCHANGED after
  PROVE  OwnerStep(t)
<1>1. Owners = {t} /\ LOCKED \in state
  BY DEF OwnersInv, Owners
<1>2. pc' = [pc EXCEPT ![t] = label] /\ pc \in [Threads -> Labels]
  BY DEF Goto, TypeInv, TypeOK
<1>3. /\ token \in [Threads -> {"none", "NORMAL", "HANDOFF"}]
      /\ token' \in [Threads -> {"none", "NORMAL", "HANDOFF"}]
  <2>1. token \in [Threads -> {"none", "NORMAL", "HANDOFF"}] BY DEF TypeInv, TypeOK
  <2> QED BY <2>1, UnparkOneType
<1>4. \A u \in Threads : u # t => ~Holds(u)
  BY <1>1 DEF Owners
<1>5. \A u \in Threads : Holds(u)' <=> token'[u] = "HANDOFF"
  BY <1>2, <1>4 DEF Holds
<1>6. \A u \in Threads : token[u] # "HANDOFF"
  BY <1>4 DEF Holds
<1>7. CASE token' = token /\ state' = {}
  <2>1. Owners' = {} BY <1>5, <1>6, <1>7 DEF Owners
  <2> QED BY <1>1, <1>7, <2>1 DEF OwnerStep
<1>8. CASE /\ queue["mutex"] # <<>> /\ Head(queue["mutex"]) \in Threads
           /\ token' = [token EXCEPT ![Head(queue["mutex"])] = IF fair THEN "HANDOFF" ELSE "NORMAL"]
           /\ ~fair => state' = IF Len(queue["mutex"]) > 1 THEN {PARKED} ELSE {}
           /\ fair => state' = IF Len(queue["mutex"]) > 1 THEN state ELSE {LOCKED}
  <2>1. CASE fair
    <3>1. Owners' = {Head(queue["mutex"])} BY <1>3, <1>5, <1>6, <1>8, <2>1 DEF Owners
    <3>2. LOCKED \in state' BY <1>1, <1>8, <2>1
    <3> QED BY <1>1, <1>8, <3>1, <3>2 DEF OwnerStep
  <2>2. CASE ~fair
    <3>1. Owners' = {} BY <1>3, <1>5, <1>6, <1>8, <2>2 DEF Owners
    <3>2. LOCKED \notin state' BY <1>8, <2>2 DEF LOCKED, PARKED
    <3> QED BY <1>1, <3>1, <3>2 DEF OwnerStep
  <2> QED BY <2>1, <2>2
<1> QED BY <1>7, <1>8, UnparkOneType

(* Every step moves the ownership as the abstract lock does, or leaves it. *)
LEMMA OwnerNext ==
  ASSUME TypeInv, OwnersInv, HolderInv, StandingInv, NEW t \in Threads, Chooses(t) \/ Proceeds(t)
  PROVE  OwnerStep(t)
<1> DEFINE Same == \A u \in Threads : u # t => (Holds(u)' <=> Holds(u))
<1>0. /\ pc \in [Threads -> Labels] /\ after \in [Threads -> {"idle", "drop", "unlock"}]
      /\ token \in [Threads -> {"none", "NORMAL", "HANDOFF"}]
      /\ \A u \in Threads : token[u] # "none" =>
           pc[u] \in {"parked", "wait_unlock", "wait_unlock_slow", "asleep"}
  BY DEF TypeInv, TypeOK, Unparked
<1>1. CASE Load(t)
  <2>1. Same BY <1>1, <1>0 DEF Load, Goto, Holds
  <2>2. Holds(t)' <=> Holds(t) BY <1>1, <1>0 DEF Load, Goto, Holds
  <2>3. LOCKED \in state' <=> LOCKED \in state BY <1>1 DEF Load, LOCKED, PARKED
  <2> QED BY <2>1, <2>2, <2>3, OwnerCases DEF OwnerStep
<1>2. CASE SetParked(t)
  <2>1. Same BY <1>2, <1>0 DEF SetParked, Goto, Holds
  <2>2. Holds(t)' <=> Holds(t) BY <1>2, <1>0 DEF SetParked, Goto, Holds
  <2>3. LOCKED \in state' <=> LOCKED \in state BY <1>2 DEF SetParked, LOCKED, PARKED
  <2> QED BY <2>1, <2>2, <2>3, OwnerCases DEF OwnerStep
<1>3. CASE ParkReturns(t)
  <2>1. Same BY <1>3, <1>0 DEF ParkReturns, Goto, Holds
  <2>2. Holds(t)' <=> Holds(t) BY <1>3, <1>0 DEF ParkReturns, Goto, Holds
  <2>3. LOCKED \in state' <=> LOCKED \in state BY <1>3 DEF ParkReturns, LOCKED, PARKED
  <2> QED BY <2>1, <2>2, <2>3, OwnerCases DEF OwnerStep
<1>4. CASE WaitWhileReturns(t)
  <2>1. Same BY <1>4, <1>0 DEF WaitWhileReturns, Goto, Holds
  <2>2. Holds(t)' <=> Holds(t) BY <1>4, <1>0 DEF WaitWhileReturns, Goto, Holds
  <2>3. LOCKED \in state' <=> LOCKED \in state BY <1>4 DEF WaitWhileReturns, LOCKED, PARKED
  <2> QED BY <2>1, <2>2, <2>3, OwnerCases DEF OwnerStep
<1>5. CASE NotifyOne(t)
  <2>1. Same BY <1>5, <1>0 DEF NotifyOne, Goto, Holds
  <2>2. Holds(t)' <=> Holds(t) BY <1>5, <1>0 DEF NotifyOne, Goto, Holds
  <2>3. LOCKED \in state' <=> LOCKED \in state BY <1>5 DEF NotifyOne, LOCKED, PARKED
  <2> QED BY <2>1, <2>2, <2>3, OwnerCases DEF OwnerStep
<1>6. CASE NotifyAll(t)
  <2>1. Same BY <1>6, <1>0 DEF NotifyAll, Goto, Holds
  <2>2. Holds(t)' <=> Holds(t) BY <1>6, <1>0 DEF NotifyAll, Goto, Holds
  <2>3. LOCKED \in state' <=> LOCKED \in state BY <1>6 DEF NotifyAll, LOCKED, PARKED
  <2> QED BY <2>1, <2>2, <2>3, OwnerCases DEF OwnerStep
<1>7. CASE MakeReady(t)
  <2>1. Same BY <1>7, <1>0 DEF MakeReady, Goto, Holds
  <2>2. Holds(t)' <=> Holds(t) BY <1>7, <1>0 DEF MakeReady, Goto, Holds
  <2>3. LOCKED \in state' <=> LOCKED \in state BY <1>7 DEF MakeReady, LOCKED, PARKED
  <2> QED BY <2>1, <2>2, <2>3, OwnerCases DEF OwnerStep
<1>8. CASE Drop(t)
  <2>1. Same BY <1>8, <1>0 DEF Drop, Goto, Holds
  <2>2. Holds(t)' <=> Holds(t) BY <1>8, <1>0 DEF Drop, Goto, Holds
  <2>3. LOCKED \in state' <=> LOCKED \in state BY <1>8 DEF Drop, LOCKED, PARKED
  <2> QED BY <2>1, <2>2, <2>3, OwnerCases DEF OwnerStep
<1>9. CASE Park(t)
  <2>1. Same BY <1>9, <1>0 DEF Park, Goto, Holds
  <2>2. Holds(t)' <=> Holds(t) BY <1>9, <1>0 DEF Park, Goto, Holds
  <2>3. LOCKED \in state' <=> LOCKED \in state BY <1>9 DEF Park, LOCKED, PARKED
  <2> QED BY <2>1, <2>2, <2>3, OwnerCases DEF OwnerStep
<1>10. CASE WaitWhile(t)
  <2>1. Same BY <1>10, <1>0 DEF WaitWhile, Goto, Holds
  <2>2. Holds(t)' <=> Holds(t) BY <1>10, <1>0 DEF WaitWhile, Goto, Holds
  <2>3. LOCKED \in state' <=> LOCKED \in state BY <1>10 DEF WaitWhile, LOCKED, PARKED
  <2> QED BY <2>1, <2>2, <2>3, OwnerCases DEF OwnerStep
<1>11. CASE Wait(t)
  <2>1. Same BY <1>11, <1>0 DEF Wait, Goto, MayWait, EnterWait, Holds
  <2>2. Holds(t)' <=> Holds(t) BY <1>11, <1>0 DEF Wait, Goto, MayWait, EnterWait, Holds
  <2>3. LOCKED \in state' <=> LOCKED \in state
    BY <1>11 DEF Wait, MayWait, EnterWait, LOCKED, PARKED
  <2> QED BY <2>1, <2>2, <2>3, OwnerCases DEF OwnerStep
<1>12. CASE Awake(t)
  <2>1. Same BY <1>12, <1>0 DEF Awake, Goto, Holds
  <2>2. Holds(t)' <=> Holds(t) BY <1>12, <1>0 DEF Awake, Goto, Holds
  <2>3. LOCKED \in state' <=> LOCKED \in state BY <1>12 DEF Awake, LOCKED, PARKED
  <2> QED BY <2>1, <2>2, <2>3, OwnerCases DEF OwnerStep
<1>13. CASE Timeout(t)
  <2>1. Same BY <1>13, <1>0 DEF Timeout, Goto, Holds
  <2>2. Holds(t)' <=> Holds(t) BY <1>13, <1>0 DEF Timeout, Goto, Holds
  <2>3. LOCKED \in state' <=> LOCKED \in state BY <1>13 DEF Timeout, LOCKED, PARKED
  <2> QED BY <2>1, <2>2, <2>3, OwnerCases DEF OwnerStep
<1>14. CASE Lock(t)
  <2>1. CASE state = {} /\ state' = {LOCKED} /\ pc' = [pc EXCEPT ![t] = "held"]
    <3>1. Same BY <1>14, <2>1, <1>0 DEF Lock, Holds
    <3>2. Holds(t)' BY <2>1, <1>0 DEF Holds
    <3> QED BY <2>1, <3>1, <3>2, OwnerCases DEF OwnerStep
  <2>2. CASE state' = state /\ pc' = [pc EXCEPT ![t] = "load"]
    <3>1. Same BY <1>14, <2>2, <1>0 DEF Lock, Holds
    <3>2. Holds(t)' <=> Holds(t) BY <1>14, <2>2, <1>0 DEF Lock, Holds
    <3> QED BY <2>2, <3>1, <3>2, OwnerCases DEF OwnerStep
  <2> QED BY <1>14, <2>1, <2>2, CallLockCases DEF Lock
<1>15. CASE Relock(t)
  <2>1. CASE state = {} /\ state' = {LOCKED} /\ pc' = [pc EXCEPT ![t] = "held"]
    <3>1. Same BY <1>15, <2>1, <1>0 DEF Relock, Holds
    <3>2. Holds(t)' BY <2>1, <1>0 DEF Holds
    <3> QED BY <2>1, <3>1, <3>2, OwnerCases DEF OwnerStep
  <2>2. CASE state' = state /\ pc' = [pc EXCEPT ![t] = "load"]
    <3>1. Same BY <1>15, <2>2, <1>0 DEF Relock, Holds
    <3>2. Holds(t)' <=> Holds(t) BY <1>15, <2>2, <1>0 DEF Relock, Holds
    <3> QED BY <2>2, <3>1, <3>2, OwnerCases DEF OwnerStep
  <2> QED BY <1>15, <2>1, <2>2, CallLockCases DEF Relock
<1>16. CASE Grab(t)
  <2>1. CASE LOCKED \notin state /\ state' = state \cup {LOCKED} /\ pc' = [pc EXCEPT ![t] = "held"]
    <3>1. Same BY <1>16, <2>1, <1>0 DEF Grab, Holds
    <3>2. Holds(t)' BY <2>1, <1>0 DEF Holds
    <3> QED BY <2>1, <3>1, <3>2, OwnerCases DEF OwnerStep
  <2>2. CASE UNCHANGED <<state, pc>>
    <3>1. \A u \in Threads : Holds(u)' <=> Holds(u) BY <1>16, <2>2, <1>0 DEF Grab, Holds
    <3> QED BY <2>2, <3>1, OwnerCases DEF OwnerStep
  <2> QED BY <1>16, <2>1, <2>2 DEF Grab, Goto
<1>17. CASE TryLock(t)
  <2>1. CASE LOCKED \notin state /\ state' = state \cup {LOCKED} /\ pc' = [pc EXCEPT ![t] = "held"]
    <3>1. Same BY <1>17, <2>1, <1>0 DEF TryLock, Holds
    <3>2. Holds(t)' BY <2>1, <1>0 DEF Holds
    <3> QED BY <2>1, <3>1, <3>2, OwnerCases DEF OwnerStep
  <2>2. CASE UNCHANGED <<state, pc>>
    <3>1. \A u \in Threads : Holds(u)' <=> Holds(u) BY <1>17, <2>2, <1>0 DEF TryLock, Holds
    <3> QED BY <2>2, <3>1, OwnerCases DEF OwnerStep
  <2> QED BY <1>17, <2>1, <2>2 DEF TryLock, Goto
<1>18. CASE Unlock(t)
  <2>1. PICK slow \in {"unlock_slow", "unlock_slow_fair"} : CallUnlock(t, "idle", slow)
    BY <1>18 DEF Unlock
  <2>2. Holds(t) BY <1>18 DEF Unlock, Holds
  <2>3. token[t] = "none" BY <1>18, <1>0 DEF Unlock, HolderInv
  <2>4. CASE state = {LOCKED} /\ state' = {} /\ pc' = [pc EXCEPT ![t] = "idle"]
    <3>1. Same BY <1>18, <2>4, <1>0 DEF Unlock, Holds
    <3>2. ~Holds(t)' BY <1>18, <2>3, <2>4, <1>0 DEF Unlock, Holds
    <3> QED BY <2>2, <2>4, <3>1, <3>2, OwnerCases DEF OwnerStep
  <2>5. CASE state' = state /\ pc' = [pc EXCEPT ![t] = slow]
    <3>1. Same BY <1>18, <2>5, <1>0 DEF Unlock, Holds
    <3>2. Holds(t)' BY <2>5, <1>0, <2>1 DEF Holds
    <3> QED BY <2>2, <2>5, <3>1, <3>2, OwnerCases DEF OwnerStep
  <2> QED BY <1>18, <2>1, <2>4, <2>5, CallUnlockCases DEF Unlock
<1>19. CASE BeforeSleep(t)
  <2>1. CallUnlock(t, "asleep", "wait_unlock_slow")
    BY <1>19 DEF BeforeSleep
  <2>2. Holds(t) BY <1>19 DEF BeforeSleep, Holds
  <2>3. token[t] = "none" BY <1>19, <1>0 DEF BeforeSleep, HolderInv
  <2>4. CASE state = {LOCKED} /\ state' = {} /\ pc' = [pc EXCEPT ![t] = "asleep"]
    <3>1. Same BY <1>19, <2>4, <1>0 DEF BeforeSleep, Holds
    <3>2. ~Holds(t)' BY <1>19, <2>3, <2>4, <1>0 DEF BeforeSleep, Holds
    <3> QED BY <2>2, <2>4, <3>1, <3>2, OwnerCases DEF OwnerStep
  <2>5. CASE state' = state /\ pc' = [pc EXCEPT ![t] = "wait_unlock_slow"]
    <3>1. Same BY <1>19, <2>5, <1>0 DEF BeforeSleep, Holds
    <3>2. Holds(t)' BY <2>5, <1>0 DEF Holds
    <3> QED BY <2>2, <2>5, <3>1, <3>2, OwnerCases DEF OwnerStep
  <2> QED BY <1>19, <2>1, <2>4, <2>5, CallUnlockCases DEF BeforeSleep
<1>20. CASE UnlockSlow(t)
  <2>1. Holds(t) BY <1>20 DEF UnlockSlow, Holds
  <2>2. token[t] = "none" BY <1>20, <1>0 DEF UnlockSlow, HolderInv
  <2> QED BY <1>20, <2>1, <2>2, UnparkOwner DEF UnlockSlow
<1>21. CASE BeforeSleepSlow(t)
  <2>1. Holds(t) BY <1>21 DEF BeforeSleepSlow, Holds
  <2>2. token[t] = "none" BY <1>21, <1>0 DEF BeforeSleepSlow, HolderInv
  <2> QED BY <1>21, <2>1, <2>2, UnparkOwner DEF BeforeSleepSlow
<1>22. CASE Bump(t)
  <2>1. Holds(t) BY <1>22 DEF Bump, Holds
  <2>2. token[t] = "none" BY <1>22, <1>0 DEF Bump, HolderInv
  <2> QED BY <1>22, <2>1, <2>2, UnparkOwner DEF Bump
<1>23. CASE NotifyOneSlow(t)
  <2> DEFINE q == queue["cv"]
  <2>1. /\ pc' = [pc EXCEPT ![t] = after[t]] /\ after' = after
        /\ pc[t] \in {"notify_one", "notify_all"} /\ token[t] = "none"
    BY <1>23, <1>0 DEF NotifyOneSlow, Return, Goto
  <2>2. LOCKED \in state' <=> LOCKED \in state
    BY <1>23 DEF NotifyOneSlow, LOCKED, PARKED
  <2>3. CASE token' = token
    <3>1. \A u \in Threads : Holds(u)' <=> Holds(u) BY <2>1, <2>3, <1>0 DEF Holds
    <3> QED BY <2>2, <3>1, OwnerCases DEF OwnerStep
  <2>4. CASE /\ q # <<>> /\ LOCKED \notin state
             /\ token' = [token EXCEPT ![Head(q)] = "NORMAL"]
    <3>1. \A u \in Threads : ~Holds(u) BY <2>4 DEF OwnersInv, Owners
    <3>2. \A u \in Threads : Holds(u)' <=> Holds(u) BY <2>1, <2>4, <3>1, <1>0 DEF Holds
    <3> QED BY <2>2, <3>2, OwnerCases DEF OwnerStep
  <2> QED BY <1>23, <2>3, <2>4 DEF NotifyOneSlow
<1>24. CASE NotifyAllSlow(t)
  <2> DEFINE q == queue["cv"]
  <2>1. /\ pc' = [pc EXCEPT ![t] = after[t]] /\ after' = after
        /\ pc[t] \in {"notify_one", "notify_all"} /\ token[t] = "none"
    BY <1>24, <1>0 DEF NotifyAllSlow, Return, Goto
  <2>2. LOCKED \in state' <=> LOCKED \in state
    BY <1>24 DEF NotifyAllSlow, LOCKED, PARKED
  <2>3. CASE token' = token
    <3>1. \A u \in Threads : Holds(u)' <=> Holds(u) BY <2>1, <2>3, <1>0 DEF Holds
    <3> QED BY <2>2, <3>1, OwnerCases DEF OwnerStep
  <2>4. CASE /\ q # <<>> /\ LOCKED \notin state
             /\ token' = [token EXCEPT ![Head(q)] = "NORMAL"]
    <3>1. \A u \in Threads : ~Holds(u) BY <2>4 DEF OwnersInv, Owners
    <3>2. \A u \in Threads : Holds(u)' <=> Holds(u) BY <2>1, <2>4, <3>1, <1>0 DEF Holds
    <3> QED BY <2>2, <3>2, OwnerCases DEF OwnerStep
  <2> QED BY <1>24, <2>3, <2>4 DEF NotifyAllSlow
<1> QED
  BY <1>1, <1>2, <1>3, <1>4, <1>5, <1>6, <1>7, <1>8, <1>9, <1>10, <1>11, <1>12, <1>13, <1>14,
     <1>15, <1>16, <1>17, <1>18, <1>19, <1>20, <1>21, <1>22, <1>23, <1>24
     DEF Chooses, Proceeds



\* Nobody gives a token to a thread that is about to give the mutex up.
LEMMA HolderNext ==
  ASSUME TypeInv, OwnersInv, HolderInv, StandingInv, NEW t \in Threads, Chooses(t) \/ Proceeds(t)
  PROVE  HolderInv'
<1>0. /\ pc \in [Threads -> Labels] /\ after \in [Threads -> {"idle", "drop", "unlock"}]
      /\ token \in [Threads -> {"none", "NORMAL", "HANDOFF"}]
      /\ queue \in [{"mutex", "cv"} -> Seq(Threads)]
      /\ \A u \in Threads : token[u] # "none" =>
           pc[u] \in {"parked", "wait_unlock", "wait_unlock_slow", "asleep"}
  BY DEF TypeInv, TypeOK, Unparked
<1>1. CASE Load(t)
  BY <1>1, <1>0 DEF Load, Goto, HolderInv
<1>2. CASE SetParked(t)
  BY <1>2, <1>0 DEF SetParked, Goto, HolderInv
<1>3. CASE ParkReturns(t)
  BY <1>3, <1>0 DEF ParkReturns, Goto, HolderInv
<1>4. CASE WaitWhileReturns(t)
  BY <1>4, <1>0 DEF WaitWhileReturns, Goto, HolderInv
<1>5. CASE NotifyOne(t)
  BY <1>5, <1>0 DEF NotifyOne, Goto, HolderInv
<1>6. CASE NotifyAll(t)
  BY <1>6, <1>0 DEF NotifyAll, Goto, HolderInv
<1>7. CASE MakeReady(t)
  BY <1>7, <1>0 DEF MakeReady, Goto, HolderInv
<1>8. CASE Drop(t)
  BY <1>8, <1>0 DEF Drop, Goto, HolderInv
<1>9. CASE Park(t)
  BY <1>9, <1>0 DEF Park, Goto, HolderInv
<1>10. CASE WaitWhile(t)
  BY <1>10, <1>0 DEF WaitWhile, Goto, HolderInv
<1>11. CASE Wait(t)
  BY <1>11, <1>0 DEF Wait, Goto, HolderInv, MayWait, EnterWait
<1>12. CASE Awake(t)
  BY <1>12, <1>0 DEF Awake, Goto, HolderInv
<1>13. CASE Timeout(t)
  BY <1>13, <1>0 DEF Timeout, Goto, HolderInv
<1>14. CASE Grab(t)
  BY <1>14, <1>0 DEF Grab, Goto, HolderInv
<1>15. CASE TryLock(t)
  BY <1>15, <1>0 DEF TryLock, Goto, HolderInv
<1>16. CASE Lock(t)
  BY <1>16, <1>0, CallLockCases DEF Lock, HolderInv
<1>17. CASE Relock(t)
  BY <1>17, <1>0, CallLockCases DEF Relock, HolderInv
<1>18. CASE Unlock(t)
  <2>1. PICK slow \in {"unlock_slow", "unlock_slow_fair"} : CallUnlock(t, "idle", slow)
    BY <1>18 DEF Unlock
  <2> QED BY <1>18, <2>1, <1>0, CallUnlockCases DEF Unlock, HolderInv
<1>19. CASE BeforeSleep(t)
  BY <1>19, <1>0, CallUnlockCases DEF BeforeSleep, HolderInv
<1>20. CASE UnlockSlow(t)
  <2>1. Holds(t) BY <1>20 DEF UnlockSlow, Holds
  <2>2. \A u \in Threads : u # t => ~Holds(u) BY <2>1 DEF OwnersInv, Owners
  <2>3. \A u \in Threads : u # t => pc[u] \notin {"wait_unlock", "wait_unlock_slow"}
    BY <2>2 DEF Holds
  <2> QED BY <1>20, <2>3, <1>0 DEF UnlockSlow, Goto, HolderInv
<1>21. CASE BeforeSleepSlow(t)
  <2>1. Holds(t) BY <1>21 DEF BeforeSleepSlow, Holds
  <2>2. \A u \in Threads : u # t => ~Holds(u) BY <2>1 DEF OwnersInv, Owners
  <2>3. \A u \in Threads : u # t => pc[u] \notin {"wait_unlock", "wait_unlock_slow"}
    BY <2>2 DEF Holds
  <2> QED BY <1>21, <2>3, <1>0 DEF BeforeSleepSlow, Goto, HolderInv
<1>22. CASE Bump(t)
  <2>1. Holds(t) BY <1>22 DEF Bump, Holds
  <2>2. \A u \in Threads : u # t => ~Holds(u) BY <2>1 DEF OwnersInv, Owners
  <2>3. \A u \in Threads : u # t => pc[u] \notin {"wait_unlock", "wait_unlock_slow"}
    BY <2>2 DEF Holds
  <2> QED BY <1>22, <2>3, <1>0 DEF Bump, Goto, HolderInv
<1>23. CASE NotifyOneSlow(t)
  <2>1. pc' = [pc EXCEPT ![t] = after[t]]
    BY <1>23 DEF NotifyOneSlow, Return, Goto
  <2>2. CASE token' = token
    BY <2>1, <2>2, <1>0 DEF HolderInv
  <2>3. CASE LOCKED \notin state
    <3>1. \A u \in Threads : ~Holds(u) BY <2>3 DEF OwnersInv, Owners
    <3>2. \A u \in Threads : pc[u] \notin {"wait_unlock", "wait_unlock_slow"} BY <3>1 DEF Holds
    <3> QED BY <2>1, <3>2, <1>0 DEF HolderInv
  <2> QED BY <1>23, <2>2, <2>3 DEF NotifyOneSlow
<1>24. CASE NotifyAllSlow(t)
  <2>1. pc' = [pc EXCEPT ![t] = after[t]]
    BY <1>24 DEF NotifyAllSlow, Return, Goto
  <2>2. CASE token' = token
    BY <2>1, <2>2, <1>0 DEF HolderInv
  <2>3. CASE LOCKED \notin state
    <3>1. \A u \in Threads : ~Holds(u) BY <2>3 DEF OwnersInv, Owners
    <3>2. \A u \in Threads : pc[u] \notin {"wait_unlock", "wait_unlock_slow"} BY <3>1 DEF Holds
    <3> QED BY <2>1, <3>2, <1>0 DEF HolderInv
  <2> QED BY <1>24, <2>2, <2>3 DEF NotifyAllSlow
<1> QED
  BY <1>1, <1>2, <1>3, <1>4, <1>5, <1>6, <1>7, <1>8, <1>9, <1>10, <1>11, <1>12, <1>13, <1>14,
     <1>15, <1>16, <1>17, <1>18, <1>19, <1>20, <1>21, <1>22, <1>23, <1>24
     DEF Chooses, Proceeds

-----------------------------------------------------------------------------
(***************************************************************************)
(* The queues.                                                             *)
(***************************************************************************)
LEMMA StandingSame ==
  ASSUME StandingInv, UNCHANGED queue, \A u \in Threads : Queued(u)' <=> Queued(u)
  PROVE  StandingInv'
BY DEF StandingInv

\* A thread that does not stand in a queue enters one.
LEMMA StandingEnter ==
  ASSUME TypeInv, StandingInv, NEW t \in Threads, ~Queued(t), NEW a \in {"mutex", "cv"},
         queue' = [queue EXCEPT ![a] = Append(@, t)], Queued(t)',
         \A u \in Threads : u # t => (Queued(u)' <=> Queued(u))
  PROVE  StandingInv'
<1>1. queue \in [{"mutex", "cv"} -> Seq(Threads)] BY DEF TypeInv, TypeOK
<1>2. t \notin Range(queue["mutex"]) \cup Range(queue["cv"]) BY DEF StandingInv
<1>3. /\ Range(Append(queue[a], t)) = Range(queue[a]) \cup {t}
      /\ IsInjective(Append(queue[a], t))
  BY <1>1, <1>2, AppendQueue DEF StandingInv
<1>4. {u \in Threads : Queued(u)}' = {u \in Threads : Queued(u)} \cup {t}
  OBVIOUS
<1>5. CASE a = "mutex"
  <2>1. queue'["mutex"] = Append(queue["mutex"], t) /\ queue'["cv"] = queue["cv"] BY <1>1, <1>5
  <2> QED BY <1>2, <1>3, <1>4, <1>5, <2>1 DEF StandingInv
<1>6. CASE a = "cv"
  <2>1. queue'["cv"] = Append(queue["cv"], t) /\ queue'["mutex"] = queue["mutex"] BY <1>1, <1>6
  <2> QED BY <1>2, <1>3, <1>4, <1>6, <2>1 DEF StandingInv
<1> QED BY <1>5, <1>6

\* The first of the mutex's queue leaves it with a token.
LEMMA StandingUnpark ==
  ASSUME TypeInv, StandingInv, NEW t \in Threads, NEW label \in Labels, Goto(t, label),
         NEW fair \in BOOLEAN, UnparkOne(fair),
         \/ ~Queued(t) /\ label \in {"idle", "relock"}
         \/ Queued(t) /\ label = "asleep"
  PROVE  StandingInv'
<1> DEFINE q == queue["mutex"]
<1>0. /\ queue \in [{"mutex", "cv"} -> Seq(Threads)] /\ pc \in [Threads -> Labels]
      /\ token \in [Threads -> {"none", "NORMAL", "HANDOFF"}] /\ pc' = [pc EXCEPT ![t] = label]
  BY DEF TypeInv, TypeOK, Goto
<1>1. CASE queue' = queue /\ token' = token
  <2>1. \A u \in Threads : Queued(u)' <=> Queued(u) BY <1>0, <1>1 DEF Queued, Unparked
  <2> QED BY <1>1, <2>1, StandingSame
<1>2. CASE /\ q # <<>> /\ queue'["mutex"] = Tail(q) /\ queue'["cv"] = queue["cv"]
           /\ token' = [token EXCEPT ![Head(q)] = IF fair THEN "HANDOFF" ELSE "NORMAL"]
  <2>1. Head(q) \in Threads /\ Queued(Head(q)) /\ Head(q) \in Range(q) BY <1>2, QueueHead
  <2>2. IsInjective(Tail(q)) /\ Range(Tail(q)) = Range(q) \ {Head(q)}
    BY <1>0, <1>2, TailQueue DEF StandingInv
  <2>3. PICK k \in {"HANDOFF", "NORMAL"} : token' = [token EXCEPT ![Head(q)] = k] BY <1>2
  <2>4. \A u \in Threads : Queued(u)' <=> Queued(u) /\ u # Head(q)
    BY <1>0, <2>1, <2>3 DEF Queued, Unparked
  <2>5. {u \in Threads : Queued(u)}' = {u \in Threads : Queued(u)} \ {Head(q)} BY <2>4
  <2> QED BY <1>2, <2>1, <2>2, <2>5 DEF StandingInv
<1> QED BY <1>1, <1>2, UnparkOneType

(* Every step keeps who stands in which queue. *)
LEMMA StandingNext ==
  ASSUME TypeInv, OwnersInv, HolderInv, StandingInv, NEW t \in Threads, Chooses(t) \/ Proceeds(t)
  PROVE  StandingInv'
<1>0. /\ pc \in [Threads -> Labels] /\ after \in [Threads -> {"idle", "drop", "unlock"}]
      /\ token \in [Threads -> {"none", "NORMAL", "HANDOFF"}]
      /\ queue \in [{"mutex", "cv"} -> Seq(Threads)]
      /\ \A u \in Threads : token[u] # "none" =>
           pc[u] \in {"parked", "wait_unlock", "wait_unlock_slow", "asleep"}
  BY DEF TypeInv, TypeOK, Unparked
<1>1. CASE Load(t)
  <2>1. \A u \in Threads : Queued(u)' <=> Queued(u) BY <1>1, <1>0 DEF Load, Goto, Queued, Unparked
  <2> QED BY <1>1, <2>1, StandingSame DEF Load
<1>2. CASE SetParked(t)
  <2>1. \A u \in Threads : Queued(u)' <=> Queued(u)
    BY <1>2, <1>0 DEF SetParked, Goto, Queued, Unparked
  <2> QED BY <1>2, <2>1, StandingSame DEF SetParked
<1>3. CASE ParkReturns(t)
  <2>1. \A u \in Threads : Queued(u)' <=> Queued(u)
    BY <1>3, <1>0 DEF ParkReturns, Goto, Queued, Unparked
  <2> QED BY <1>3, <2>1, StandingSame DEF ParkReturns
<1>4. CASE WaitWhileReturns(t)
  <2>1. \A u \in Threads : Queued(u)' <=> Queued(u)
    BY <1>4, <1>0 DEF WaitWhileReturns, Goto, Queued, Unparked
  <2> QED BY <1>4, <2>1, StandingSame DEF WaitWhileReturns
<1>5. CASE NotifyOne(t)
  <2>1. \A u \in Threads : Queued(u)' <=> Queued(u)
    BY <1>5, <1>0 DEF NotifyOne, Goto, Queued, Unparked
  <2> QED BY <1>5, <2>1, StandingSame DEF NotifyOne
<1>6. CASE NotifyAll(t)
  <2>1. \A u \in Threads : Queued(u)' <=> Queued(u)
    BY <1>6, <1>0 DEF NotifyAll, Goto, Queued, Unparked
  <2> QED BY <1>6, <2>1, StandingSame DEF NotifyAll
<1>7. CASE MakeReady(t)
  <2>1. \A u \in Threads : Queued(u)' <=> Queued(u)
    BY <1>7, <1>0 DEF MakeReady, Goto, Queued, Unparked
  <2> QED BY <1>7, <2>1, StandingSame DEF MakeReady
<1>8. CASE Drop(t)
  <2>1. \A u \in Threads : Queued(u)' <=> Queued(u) BY <1>8, <1>0 DEF Drop, Goto, Queued, Unparked
  <2> QED BY <1>8, <2>1, StandingSame DEF Drop
<1>9. CASE Awake(t)
  <2>1. \A u \in Threads : Queued(u)' <=> Queued(u)
    BY <1>9, <1>0 DEF Awake, Goto, Queued, Unparked
  <2> QED BY <1>9, <2>1, StandingSame DEF Awake
<1>10. CASE Grab(t)
  <2>1. \A u \in Threads : Queued(u)' <=> Queued(u)
    BY <1>10, <1>0 DEF Grab, Goto, Queued, Unparked
  <2> QED BY <1>10, <2>1, StandingSame DEF Grab
<1>11. CASE TryLock(t)
  <2>1. \A u \in Threads : Queued(u)' <=> Queued(u)
    BY <1>11, <1>0 DEF TryLock, Goto, Queued, Unparked
  <2> QED BY <1>11, <2>1, StandingSame DEF TryLock
<1>12. CASE Lock(t)
  <2>1. \A u \in Threads : Queued(u)' <=> Queued(u)
    BY <1>12, <1>0, CallLockCases DEF Lock, Queued, Unparked
  <2> QED BY <1>12, <2>1, StandingSame DEF Lock
<1>13. CASE Relock(t)
  <2>1. \A u \in Threads : Queued(u)' <=> Queued(u)
    BY <1>13, <1>0, CallLockCases DEF Relock, Queued, Unparked
  <2> QED BY <1>13, <2>1, StandingSame DEF Relock
<1>14. CASE Unlock(t)
  <2>1. PICK slow \in {"unlock_slow", "unlock_slow_fair"} : CallUnlock(t, "idle", slow)
    BY <1>14 DEF Unlock
  <2>2. \A u \in Threads : Queued(u)' <=> Queued(u)
    BY <1>14, <2>1, <1>0, CallUnlockCases DEF Unlock, Queued, Unparked
  <2> QED BY <1>14, <2>2, StandingSame DEF Unlock
<1>15. CASE BeforeSleep(t)
  <2>1. \A u \in Threads : Queued(u)' <=> Queued(u)
    BY <1>15, <1>0, CallUnlockCases DEF BeforeSleep, Queued, Unparked
  <2> QED BY <1>15, <2>1, StandingSame DEF BeforeSleep
<1>16. CASE UnlockSlow(t)
  <2>1. ~Queued(t) BY <1>16, <1>0 DEF UnlockSlow, Queued, Unparked, HolderInv
  <2>2. "idle" \in Labels BY DEF Labels
  <2> QED BY <1>16, <2>1, <2>2, StandingUnpark DEF UnlockSlow
<1>17. CASE Bump(t)
  <2>1. ~Queued(t) BY <1>17, <1>0 DEF Bump, Queued, Unparked, HolderInv
  <2>2. "relock" \in Labels BY DEF Labels
  <2> QED BY <1>17, <2>1, <2>2, StandingUnpark DEF Bump
<1>18. CASE BeforeSleepSlow(t)
  <2>1. Queued(t) BY <1>18, <1>0 DEF BeforeSleepSlow, Queued, Unparked, HolderInv
  <2>2. "asleep" \in Labels BY DEF Labels
  <2> QED BY <1>18, <2>1, <2>2, StandingUnpark DEF BeforeSleepSlow
<1>19. CASE Park(t)
  <2>1. CASE queue' = [queue EXCEPT !["mutex"] = Append(@, t)] /\ pc' = [pc EXCEPT ![t] = "parked"]
    <3>1. ~Queued(t) /\ Queued(t)' BY <1>19, <2>1, <1>0 DEF Park, Queued, Unparked
    <3>2. \A u \in Threads : u # t => (Queued(u)' <=> Queued(u))
      BY <1>19, <2>1, <1>0 DEF Park, Queued, Unparked
    <3> QED BY <2>1, <3>1, <3>2, StandingEnter
  <2>2. CASE queue' = queue /\ pc' = [pc EXCEPT ![t] = "load"]
    <3>1. \A u \in Threads : Queued(u)' <=> Queued(u)
      BY <1>19, <2>2, <1>0 DEF Park, Queued, Unparked
    <3> QED BY <2>2, <3>1, StandingSame
  <2> QED BY <1>19, <2>1, <2>2 DEF Park, Goto
<1>20. CASE Wait(t)
  <2>1. queue' = [queue EXCEPT !["cv"] = Append(@, t)] /\ pc' = [pc EXCEPT ![t] = "wait_unlock"]
    BY <1>20 DEF Wait, Goto, MayWait, EnterWait
  <2>2. ~Queued(t) /\ Queued(t)'
    BY <1>20, <2>1, <1>0 DEF Wait, Queued, Unparked, MayWait, EnterWait
  <2>3. \A u \in Threads : u # t => (Queued(u)' <=> Queued(u))
    BY <1>20, <2>1, <1>0 DEF Wait, Queued, Unparked
  <2> QED BY <2>1, <2>2, <2>3, StandingEnter
<1>21. CASE WaitWhile(t)
  <2>1. queue' = [queue EXCEPT !["cv"] = Append(@, t)] /\ pc' = [pc EXCEPT ![t] = "wait_unlock"]
    BY <1>21 DEF WaitWhile, Goto
  <2>2. ~Queued(t) /\ Queued(t)' BY <1>21, <2>1, <1>0 DEF WaitWhile, Queued, Unparked
  <2>3. \A u \in Threads : u # t => (Queued(u)' <=> Queued(u))
    BY <1>21, <2>1, <1>0 DEF WaitWhile, Queued, Unparked
  <2> QED BY <2>1, <2>2, <2>3, StandingEnter
<1>22. CASE Timeout(t)
  <2> DEFINE m == queue["mutex"]
             c == queue["cv"]
  <2>1. queue'["mutex"] = Without(m, t) /\ queue'["cv"] = Without(c, t)
    BY <1>22 DEF Timeout
  <2>2. /\ IsInjective(Without(m, t)) /\ Range(Without(m, t)) = Range(m) \ {t}
        /\ IsInjective(Without(c, t)) /\ Range(Without(c, t)) = Range(c) \ {t}
    BY <1>0, WithoutQueue DEF StandingInv
  <2>3. \A u \in Threads : Queued(u)' <=> Queued(u) /\ u # t
    BY <1>22, <1>0 DEF Timeout, Goto, Queued, Unparked
  <2>4. {u \in Threads : Queued(u)}' = {u \in Threads : Queued(u)} \ {t} BY <2>3
  <2> QED BY <2>1, <2>2, <2>4 DEF StandingInv
<1>23. CASE NotifyOneSlow(t)
  <2> DEFINE m == queue["mutex"]
             c == queue["cv"]
  <2>1. /\ pc[t] = "notify_one" /\ pc' = [pc EXCEPT ![t] = after[t]]
    BY <1>23 DEF NotifyOneSlow, Return, Goto
  <2>2. CASE UNCHANGED <<queue, token>>
    <3>1. \A u \in Threads : Queued(u)' <=> Queued(u) BY <2>1, <2>2, <1>0 DEF Queued, Unparked
    <3> QED BY <2>2, <3>1, StandingSame
  <2>3. ASSUME c # <<>>
        PROVE  /\ Head(c) \in Threads /\ Head(c) \in Range(c) /\ Queued(Head(c))
               /\ IsInjective(Tail(c)) /\ Range(Tail(c)) = Range(c) \ {Head(c)}
    BY <2>3, <1>0, QueueHead, TailQueue DEF StandingInv
  <2>4. CASE /\ c # <<>> /\ token' = token
             /\ queue' = [queue EXCEPT !["mutex"] = Append(@, Head(c)), !["cv"] = Tail(c)]
    <3>1. queue'["mutex"] = Append(m, Head(c)) /\ queue'["cv"] = Tail(c) BY <2>4, <1>0
    <3>2. Head(c) \notin Range(m) BY <2>3, <2>4 DEF StandingInv
    <3>3. Range(Append(m, Head(c))) = Range(m) \cup {Head(c)} /\ IsInjective(Append(m, Head(c)))
      BY <2>3, <2>4, <3>2, <1>0, AppendQueue DEF StandingInv
    <3>4. \A u \in Threads : Queued(u)' <=> Queued(u) BY <2>1, <2>4, <1>0 DEF Queued, Unparked
    <3>5. {u \in Threads : Queued(u)}' = {u \in Threads : Queued(u)} BY <3>4
    <3>6. Range(queue'["mutex"]) \cap Range(queue'["cv"]) = {}
      BY <2>3, <2>4, <3>1, <3>2, <3>3 DEF StandingInv
    <3>7. Range(queue'["mutex"]) \cup Range(queue'["cv"]) = Range(m) \cup Range(c)
      BY <2>3, <2>4, <3>1, <3>3
    <3>8. IsInjective(queue'["mutex"]) /\ IsInjective(queue'["cv"])
      BY <2>3, <2>4, <3>1, <3>3
    <3> QED BY <3>5, <3>6, <3>7, <3>8 DEF StandingInv
  <2>5. CASE /\ c # <<>> /\ queue' = [queue EXCEPT !["cv"] = Tail(c)]
             /\ token' = [token EXCEPT ![Head(c)] = "NORMAL"]
    <3>1. queue'["mutex"] = m /\ queue'["cv"] = Tail(c) BY <2>5, <1>0
    <3>2. \A u \in Threads : Queued(u)' <=> Queued(u) /\ u # Head(c)
      BY <2>1, <2>3, <2>5, <1>0 DEF Queued, Unparked
    <3>3. {u \in Threads : Queued(u)}' = {u \in Threads : Queued(u)} \ {Head(c)} BY <3>2
    <3> QED BY <2>3, <2>5, <3>1, <3>3 DEF StandingInv
  <2> QED BY <1>23, <2>2, <2>4, <2>5 DEF NotifyOneSlow
<1>24. CASE NotifyAllSlow(t)
  <2> DEFINE m == queue["mutex"]
             c == queue["cv"]
  <2>1. /\ pc[t] = "notify_all" /\ pc' = [pc EXCEPT ![t] = after[t]]
    BY <1>24 DEF NotifyAllSlow, Return, Goto
  <2>2. CASE UNCHANGED <<queue, token>>
    <3>1. \A u \in Threads : Queued(u)' <=> Queued(u) BY <2>1, <2>2, <1>0 DEF Queued, Unparked
    <3> QED BY <2>2, <3>1, StandingSame
  <2>3. Range(<<>>) = {} /\ IsInjective(<<>>)
    BY DEF Range, IsInjective
  <2>4. CASE token' = token /\ queue' = [queue EXCEPT !["mutex"] = @ \o c, !["cv"] = <<>>]
    <3>1. queue'["mutex"] = m \o c /\ queue'["cv"] = <<>> BY <2>4, <1>0
    <3>2. Range(m \o c) = Range(m) \cup Range(c) /\ IsInjective(m \o c)
      BY <1>0, ConcatQueue DEF StandingInv
    <3>3. \A u \in Threads : Queued(u)' <=> Queued(u) BY <2>1, <2>4, <1>0 DEF Queued, Unparked
    <3>4. {u \in Threads : Queued(u)}' = {u \in Threads : Queued(u)} BY <3>3
    <3> QED BY <2>3, <3>1, <3>2, <3>4 DEF StandingInv
  <2>5. CASE /\ c # <<>> /\ queue' = [queue EXCEPT !["mutex"] = @ \o Tail(c), !["cv"] = <<>>]
             /\ token' = [token EXCEPT ![Head(c)] = "NORMAL"]
    <3>1. queue'["mutex"] = m \o Tail(c) /\ queue'["cv"] = <<>> BY <2>5, <1>0
    <3>2. /\ Head(c) \in Threads /\ Head(c) \in Range(c) /\ Queued(Head(c)) /\ Tail(c) \in Seq(Threads)
          /\ IsInjective(Tail(c)) /\ Range(Tail(c)) = Range(c) \ {Head(c)}
      BY <2>5, <1>0, QueueHead, TailQueue DEF StandingInv
    <3>3. Range(m) \cap Range(Tail(c)) = {}
      <4>1. Range(m) \cap Range(c) = {} BY DEF StandingInv
      <4> QED BY <4>1, <3>2
    <3>4. Range(m \o Tail(c)) = Range(m) \cup Range(Tail(c)) /\ IsInjective(m \o Tail(c))
      <4>1. IsInjective(m) /\ m \in Seq(Threads) BY <1>0 DEF StandingInv
      <4> DEFINE r == Tail(c)
      <4>2. IsInjective(r) /\ r \in Seq(Threads) /\ Range(m) \cap Range(r) = {} BY <3>2, <3>3
      <4> HIDE DEF m, r
      <4>3. Range(m \o r) = Range(m) \cup Range(r) /\ IsInjective(m \o r)
        BY <4>1, <4>2, ConcatQueue
      <4> QED BY <4>3 DEF m, r
    <3>5. \A u \in Threads : Queued(u)' <=> Queued(u) /\ u # Head(c)
      BY <2>1, <3>2, <2>5, <1>0 DEF Queued, Unparked
    <3>6. {u \in Threads : Queued(u)}' = {u \in Threads : Queued(u)} \ {Head(c)} BY <3>5
    <3>7. Head(c) \notin Range(m) BY <3>2 DEF StandingInv
    <3> QED BY <2>3, <3>1, <3>2, <3>4, <3>6, <3>7 DEF StandingInv
  <2> QED BY <1>24, <2>2, <2>4, <2>5 DEF NotifyAllSlow
<1> QED
  BY <1>1, <1>2, <1>3, <1>4, <1>5, <1>6, <1>7, <1>8, <1>9, <1>10, <1>11, <1>12, <1>13, <1>14,
     <1>15, <1>16, <1>17, <1>18, <1>19, <1>20, <1>21, <1>22, <1>23, <1>24
     DEF Chooses, Proceeds


-----------------------------------------------------------------------------
(***************************************************************************)
(* No lost wakeup.                                                         *)
(***************************************************************************)
\* A step of t that leaves the mutex's queue and the parked bit alone.
LEMMA SleepersKeep ==
  ASSUME SleepersKnown, NEW t \in Threads,
         queue'["mutex"] # <<>> => queue["mutex"] # <<>>,
         PARKED \in state => PARKED \in state',
         \A u \in Threads : u # t /\ OnTheWay(u) => OnTheWay(u)',
         LOCKED \in state \/ OnTheWay(t) => LOCKED \in state' \/ OnTheWay(t)'
  PROVE  SleepersKnown'
BY DEF SleepersKnown

\* unlock_slow clears the parked bit with the last sleeper only, and leaves a
\* thread awake that will come back to the mutex, or its new owner.
LEMMA SleepersUnpark ==
  ASSUME TypeInv, SleepersKnown, LOCKED \in state, NEW fair \in BOOLEAN, UnparkOne(fair)
  PROVE  SleepersKnown'
<1> DEFINE q == queue["mutex"]
<1>0. token \in [Threads -> {"none", "NORMAL", "HANDOFF"}] /\ q \in Seq(Threads)
  BY DEF TypeInv, TypeOK
<1>1. CASE q = <<>> /\ queue' = queue
  BY <1>1 DEF SleepersKnown
<1>2. CASE /\ q # <<>> /\ Head(q) \in Threads /\ queue'["mutex"] = Tail(q)
           /\ token' = [token EXCEPT ![Head(q)] = IF fair THEN "HANDOFF" ELSE "NORMAL"]
           /\ ~fair => state' = IF Len(q) > 1 THEN {PARKED} ELSE {}
           /\ fair => state' = IF Len(q) > 1 THEN state ELSE {LOCKED}
  <2> SUFFICES ASSUME queue'["mutex"] # <<>>
               PROVE  PARKED \in state' /\ (LOCKED \in state' \/ \E t \in Threads : OnTheWay(t)')
    BY DEF SleepersKnown
  <2>1. Len(q) > 1 BY <1>0, <1>2, TailQueue
  <2>2. CASE fair
    BY <1>2, <2>1, <2>2 DEF SleepersKnown
  <2>3. CASE ~fair
    <3>1. PARKED \in state' BY <1>2, <2>1, <2>3
    <3>2. PICK h \in Threads : token' = [token EXCEPT ![h] = "NORMAL"] BY <1>2, <2>3
    <3>3. OnTheWay(h)' BY <1>0, <3>2 DEF OnTheWay
    <3> QED BY <3>1, <3>3
  <2> QED BY <2>2, <2>3
<1> QED BY <1>1, <1>2, UnparkOneType

(* Every step keeps the sleepers of the mutex known to it. *)
LEMMA SleepersNext ==
  ASSUME TypeInv, OwnersInv, HolderInv, StandingInv, SleepersKnown,
         NEW t \in Threads, Chooses(t) \/ Proceeds(t)
  PROVE  SleepersKnown'
<1>0. /\ pc \in [Threads -> Labels] /\ after \in [Threads -> {"idle", "drop", "unlock"}]
      /\ token \in [Threads -> {"none", "NORMAL", "HANDOFF"}]
      /\ queue \in [{"mutex", "cv"} -> Seq(Threads)]
      /\ \A u \in Threads : token[u] # "none" =>
           pc[u] \in {"parked", "wait_unlock", "wait_unlock_slow", "asleep"}
  BY DEF TypeInv, TypeOK, Unparked
<1>1. CASE Load(t)
  <2>1. queue'["mutex"] = queue["mutex"] /\ (PARKED \in state => PARKED \in state')
    BY <1>1, <1>0 DEF Load
  <2>2. \A u \in Threads : u # t /\ OnTheWay(u) => OnTheWay(u)'
    BY <1>1, <1>0 DEF Load, Goto, OnTheWay
  <2>3. LOCKED \in state \/ OnTheWay(t) => LOCKED \in state' \/ OnTheWay(t)'
    BY <1>1, <1>0 DEF Load, Goto, OnTheWay
  <2> QED BY <2>1, <2>2, <2>3, SleepersKeep
<1>2. CASE SetParked(t)
  <2>1. queue'["mutex"] = queue["mutex"] /\ (PARKED \in state => PARKED \in state')
    BY <1>2, <1>0 DEF SetParked
  <2>2. \A u \in Threads : u # t /\ OnTheWay(u) => OnTheWay(u)'
    BY <1>2, <1>0 DEF SetParked, Goto, OnTheWay
  <2>3. LOCKED \in state \/ OnTheWay(t) => LOCKED \in state' \/ OnTheWay(t)'
    BY <1>2, <1>0 DEF SetParked, Goto, OnTheWay
  <2> QED BY <2>1, <2>2, <2>3, SleepersKeep
<1>3. CASE ParkReturns(t)
  <2>1. queue'["mutex"] = queue["mutex"] /\ (PARKED \in state => PARKED \in state')
    BY <1>3, <1>0 DEF ParkReturns
  <2>2. \A u \in Threads : u # t /\ OnTheWay(u) => OnTheWay(u)'
    BY <1>3, <1>0 DEF ParkReturns, Goto, OnTheWay
  <2>3. LOCKED \in state \/ OnTheWay(t) => LOCKED \in state' \/ OnTheWay(t)'
    BY <1>3, <1>0 DEF ParkReturns, Goto, OnTheWay
  <2> QED BY <2>1, <2>2, <2>3, SleepersKeep
<1>4. CASE WaitWhileReturns(t)
  <2>1. queue'["mutex"] = queue["mutex"] /\ (PARKED \in state => PARKED \in state')
    BY <1>4, <1>0 DEF WaitWhileReturns
  <2>2. \A u \in Threads : u # t /\ OnTheWay(u) => OnTheWay(u)'
    BY <1>4, <1>0 DEF WaitWhileReturns, Goto, OnTheWay
  <2>3. LOCKED \in state \/ OnTheWay(t) => LOCKED \in state' \/ OnTheWay(t)'
    BY <1>4, <1>0 DEF WaitWhileReturns, Goto, OnTheWay
  <2> QED BY <2>1, <2>2, <2>3, SleepersKeep
<1>5. CASE NotifyOne(t)
  <2>1. queue'["mutex"] = queue["mutex"] /\ (PARKED \in state => PARKED \in state')
    BY <1>5, <1>0 DEF NotifyOne
  <2>2. \A u \in Threads : u # t /\ OnTheWay(u) => OnTheWay(u)'
    BY <1>5, <1>0 DEF NotifyOne, Goto, OnTheWay
  <2>3. LOCKED \in state \/ OnTheWay(t) => LOCKED \in state' \/ OnTheWay(t)'
    BY <1>5, <1>0 DEF NotifyOne, Goto, OnTheWay
  <2> QED BY <2>1, <2>2, <2>3, SleepersKeep
<1>6. CASE NotifyAll(t)
  <2>1. queue'["mutex"] = queue["mutex"] /\ (PARKED \in state => PARKED \in state')
    BY <1>6, <1>0 DEF NotifyAll
  <2>2. \A u \in Threads : u # t /\ OnTheWay(u) => OnTheWay(u)'
    BY <1>6, <1>0 DEF NotifyAll, Goto, OnTheWay
  <2>3. LOCKED \in state \/ OnTheWay(t) => LOCKED \in state' \/ OnTheWay(t)'
    BY <1>6, <1>0 DEF NotifyAll, Goto, OnTheWay
  <2> QED BY <2>1, <2>2, <2>3, SleepersKeep
<1>7. CASE MakeReady(t)
  <2>1. queue'["mutex"] = queue["mutex"] /\ (PARKED \in state => PARKED \in state')
    BY <1>7, <1>0 DEF MakeReady
  <2>2. \A u \in Threads : u # t /\ OnTheWay(u) => OnTheWay(u)'
    BY <1>7, <1>0 DEF MakeReady, Goto, OnTheWay
  <2>3. LOCKED \in state \/ OnTheWay(t) => LOCKED \in state' \/ OnTheWay(t)'
    BY <1>7, <1>0 DEF MakeReady, Goto, OnTheWay
  <2> QED BY <2>1, <2>2, <2>3, SleepersKeep
<1>8. CASE Drop(t)
  <2>1. queue'["mutex"] = queue["mutex"] /\ (PARKED \in state => PARKED \in state')
    BY <1>8, <1>0 DEF Drop
  <2>2. \A u \in Threads : u # t /\ OnTheWay(u) => OnTheWay(u)'
    BY <1>8, <1>0 DEF Drop, Goto, OnTheWay
  <2>3. LOCKED \in state \/ OnTheWay(t) => LOCKED \in state' \/ OnTheWay(t)'
    BY <1>8, <1>0 DEF Drop, Goto, OnTheWay
  <2> QED BY <2>1, <2>2, <2>3, SleepersKeep
<1>9. CASE WaitWhile(t)
  <2>1. queue'["mutex"] = queue["mutex"] /\ (PARKED \in state => PARKED \in state')
    BY <1>9, <1>0 DEF WaitWhile
  <2>2. \A u \in Threads : u # t /\ OnTheWay(u) => OnTheWay(u)'
    BY <1>9, <1>0 DEF WaitWhile, Goto, OnTheWay
  <2>3. LOCKED \in state \/ OnTheWay(t) => LOCKED \in state' \/ OnTheWay(t)'
    BY <1>9, <1>0 DEF WaitWhile, Goto, OnTheWay
  <2> QED BY <2>1, <2>2, <2>3, SleepersKeep
<1>10. CASE Wait(t)
  <2>1. queue'["mutex"] = queue["mutex"] /\ (PARKED \in state => PARKED \in state')
    BY <1>10, <1>0 DEF Wait, MayWait, EnterWait
  <2>2. \A u \in Threads : u # t /\ OnTheWay(u) => OnTheWay(u)'
    BY <1>10, <1>0 DEF Wait, Goto, OnTheWay, MayWait, EnterWait
  <2>3. LOCKED \in state \/ OnTheWay(t) => LOCKED \in state' \/ OnTheWay(t)'
    BY <1>10, <1>0 DEF Wait, Goto, OnTheWay, MayWait, EnterWait
  <2> QED BY <2>1, <2>2, <2>3, SleepersKeep
<1>11. CASE Awake(t)
  <2>1. queue'["mutex"] = queue["mutex"] /\ (PARKED \in state => PARKED \in state')
    BY <1>11, <1>0 DEF Awake
  <2>2. \A u \in Threads : u # t /\ OnTheWay(u) => OnTheWay(u)'
    BY <1>11, <1>0 DEF Awake, Goto, OnTheWay
  <2>3. LOCKED \in state \/ OnTheWay(t) => LOCKED \in state' \/ OnTheWay(t)'
    BY <1>11, <1>0 DEF Awake, Goto, OnTheWay
  <2> QED BY <2>1, <2>2, <2>3, SleepersKeep
<1>12. CASE Grab(t)
  <2>1. queue'["mutex"] = queue["mutex"] /\ (PARKED \in state => PARKED \in state')
    BY <1>12, <1>0 DEF Grab
  <2>2. \A u \in Threads : u # t /\ OnTheWay(u) => OnTheWay(u)'
    BY <1>12, <1>0 DEF Grab, Goto, OnTheWay
  <2>3. LOCKED \in state \/ OnTheWay(t) => LOCKED \in state' \/ OnTheWay(t)'
    BY <1>12, <1>0 DEF Grab, Goto, OnTheWay
  <2> QED BY <2>1, <2>2, <2>3, SleepersKeep
<1>13. CASE TryLock(t)
  <2>1. queue'["mutex"] = queue["mutex"] /\ (PARKED \in state => PARKED \in state')
    BY <1>13, <1>0 DEF TryLock
  <2>2. \A u \in Threads : u # t /\ OnTheWay(u) => OnTheWay(u)'
    BY <1>13, <1>0 DEF TryLock, Goto, OnTheWay
  <2>3. LOCKED \in state \/ OnTheWay(t) => LOCKED \in state' \/ OnTheWay(t)'
    BY <1>13, <1>0 DEF TryLock, Goto, OnTheWay
  <2> QED BY <2>1, <2>2, <2>3, SleepersKeep
<1>14. CASE Lock(t)
  <2>1. CASE state = {}
    BY <1>14, <2>1 DEF Lock, SleepersKnown
  <2>2. CASE state' = state /\ pc' = [pc EXCEPT ![t] = "load"]
    <3>1. \A u \in Threads : u # t /\ OnTheWay(u) => OnTheWay(u)'
      BY <1>14, <2>2, <1>0 DEF Lock, OnTheWay
    <3>2. OnTheWay(t)' BY <2>2, <1>0 DEF OnTheWay
    <3> QED BY <1>14, <2>2, <3>1, <3>2, SleepersKeep DEF Lock
  <2> QED BY <1>14, <2>1, <2>2, CallLockCases DEF Lock
<1>15. CASE Relock(t)
  <2>1. CASE state = {}
    BY <1>15, <2>1 DEF Relock, SleepersKnown
  <2>2. CASE state' = state /\ pc' = [pc EXCEPT ![t] = "load"]
    <3>1. \A u \in Threads : u # t /\ OnTheWay(u) => OnTheWay(u)'
      BY <1>15, <2>2, <1>0 DEF Relock, OnTheWay
    <3>2. OnTheWay(t)' BY <2>2, <1>0 DEF OnTheWay
    <3> QED BY <1>15, <2>2, <3>1, <3>2, SleepersKeep DEF Relock
  <2> QED BY <1>15, <2>1, <2>2, CallLockCases DEF Relock
<1>16. CASE Unlock(t)
  <2>1. PICK slow \in {"unlock_slow", "unlock_slow_fair"} : CallUnlock(t, "idle", slow)
    BY <1>16 DEF Unlock
  <2>2. CASE state = {LOCKED}
    BY <1>16, <2>2 DEF Unlock, SleepersKnown, LOCKED, PARKED
  <2>3. CASE state' = state /\ pc' = [pc EXCEPT ![t] = slow]
    <3>1. \A u \in Threads : u # t /\ OnTheWay(u) => OnTheWay(u)'
      BY <1>16, <2>3, <1>0 DEF Unlock, OnTheWay
    <3>2. Holds(t) BY <1>16 DEF Unlock, Holds
    <3>3. LOCKED \in state' BY <2>3, <3>2 DEF OwnersInv, Owners
    <3> QED BY <1>16, <2>3, <3>1, <3>3, SleepersKeep DEF Unlock
  <2> QED BY <2>1, <2>2, <2>3, CallUnlockCases
<1>17. CASE BeforeSleep(t)
  <2>1. CallUnlock(t, "asleep", "wait_unlock_slow")
    BY <1>17 DEF BeforeSleep
  <2>2. CASE state = {LOCKED}
    BY <1>17, <2>2 DEF BeforeSleep, SleepersKnown, LOCKED, PARKED
  <2>3. CASE state' = state /\ pc' = [pc EXCEPT ![t] = "wait_unlock_slow"]
    <3>1. \A u \in Threads : u # t /\ OnTheWay(u) => OnTheWay(u)'
      BY <1>17, <2>3, <1>0 DEF BeforeSleep, OnTheWay
    <3>2. Holds(t) BY <1>17 DEF BeforeSleep, Holds
    <3>3. LOCKED \in state' BY <2>3, <3>2 DEF OwnersInv, Owners
    <3> QED BY <1>17, <2>3, <3>1, <3>3, SleepersKeep DEF BeforeSleep
  <2> QED BY <2>1, <2>2, <2>3, CallUnlockCases
<1>18. CASE UnlockSlow(t)
  <2>1. Holds(t) BY <1>18 DEF UnlockSlow, Holds
  <2>2. LOCKED \in state BY <2>1 DEF OwnersInv, Owners
  <2> QED BY <1>18, <2>2, SleepersUnpark DEF UnlockSlow
<1>19. CASE BeforeSleepSlow(t)
  <2>1. Holds(t) BY <1>19 DEF BeforeSleepSlow, Holds
  <2>2. LOCKED \in state BY <2>1 DEF OwnersInv, Owners
  <2> QED BY <1>19, <2>2, SleepersUnpark DEF BeforeSleepSlow
<1>20. CASE Bump(t)
  <2>1. Holds(t) BY <1>20 DEF Bump, Holds
  <2>2. LOCKED \in state BY <2>1 DEF OwnersInv, Owners
  <2> QED BY <1>20, <2>2, SleepersUnpark DEF Bump
<1>21. CASE Park(t)
  <2>1. CASE state = {LOCKED, PARKED} /\ state' = state
    BY <2>1 DEF SleepersKnown
  <2>2. CASE queue' = queue /\ pc' = [pc EXCEPT ![t] = "load"] /\ state' = state
    <3>1. \A u \in Threads : u # t /\ OnTheWay(u) => OnTheWay(u)'
      BY <1>21, <2>2, <1>0 DEF Park, OnTheWay
    <3>2. OnTheWay(t)' BY <2>2, <1>0 DEF OnTheWay
    <3> QED BY <2>2, <3>1, <3>2, SleepersKeep
  <2> QED BY <1>21, <2>1, <2>2 DEF Park, Goto
<1>22. CASE Timeout(t)
  <2>1. queue'["mutex"] = Without(queue["mutex"], t) /\ state' = state
    BY <1>22 DEF Timeout
  <2>2. queue'["mutex"] # <<>> => queue["mutex"] # <<>>
    BY <2>1, <1>0, WithoutQueue DEF StandingInv
  <2>3. \A u \in Threads : u # t /\ OnTheWay(u) => OnTheWay(u)'
    BY <1>22, <1>0 DEF Timeout, Goto, OnTheWay
  <2>4. OnTheWay(t)' BY <1>22, <1>0 DEF Timeout, Goto, OnTheWay
  <2> QED BY <2>1, <2>2, <2>3, <2>4, SleepersKeep
<1>23. CASE NotifyOneSlow(t)
  <2> DEFINE c == queue["cv"]
  <2>1. pc' = [pc EXCEPT ![t] = after[t]] /\ pc[t] = "notify_one" /\ token[t] = "none"
    BY <1>23, <1>0 DEF NotifyOneSlow, Return, Goto
  <2>2. CASE LOCKED \in state /\ state' = state \cup {PARKED}
    BY <2>2 DEF SleepersKnown
  <2>3. CASE queue'["mutex"] = queue["mutex"] /\ state' = state
             /\ (token' = token \/ (Head(c) \in Threads /\ token' = [token EXCEPT ![Head(c)] = "NORMAL"]))
    <3>1. \A u \in Threads : OnTheWay(u) => OnTheWay(u)' BY <2>1, <2>3, <1>0 DEF OnTheWay
    <3> QED BY <2>3, <3>1, SleepersKeep
  <2>4. c # <<>> => Head(c) \in Threads BY <1>0, TailQueue
  <2> QED BY <1>23, <2>2, <2>3, <2>4, <1>0 DEF NotifyOneSlow
<1>24. CASE NotifyAllSlow(t)
  <2> DEFINE m == queue["mutex"]
             c == queue["cv"]
  <2>1. pc' = [pc EXCEPT ![t] = after[t]] /\ pc[t] = "notify_all" /\ token[t] = "none"
    BY <1>24, <1>0 DEF NotifyAllSlow, Return, Goto
  <2>2. CASE LOCKED \in state /\ state' = state \cup {PARKED}
    BY <2>2 DEF SleepersKnown
  <2>3. CASE UNCHANGED <<queue, state, token>>
    <3>1. \A u \in Threads : OnTheWay(u) => OnTheWay(u)' BY <2>1, <2>3, <1>0 DEF OnTheWay
    <3> QED BY <2>3, <3>1, SleepersKeep
  <2>4. CASE /\ c # <<>> /\ queue' = [queue EXCEPT !["mutex"] = @ \o Tail(c), !["cv"] = <<>>]
             /\ token' = [token EXCEPT ![Head(c)] = "NORMAL"]
             /\ state' = IF Len(c) > 1 THEN state \cup {PARKED} ELSE state
    <3>1. /\ Head(c) \in Threads /\ Tail(c) \in Seq(Threads) /\ (Tail(c) # <<>> <=> Len(c) > 1)
      BY <2>4, <1>0, TailQueue
    <3>2. \E h \in Threads : OnTheWay(h)'
      <4>1. PICK h \in Threads : token' = [token EXCEPT ![h] = "NORMAL"] BY <2>4, <3>1
      <4>2. OnTheWay(h)' BY <1>0, <4>1 DEF OnTheWay
      <4> QED BY <4>2
    <3>3. queue'["mutex"] = m \o Tail(c) BY <2>4, <1>0
    <3>4. ASSUME queue'["mutex"] # <<>> PROVE PARKED \in state'
      <4>1. m # <<>> \/ Tail(c) # <<>> BY <3>1, <3>3, <3>4, <1>0, ConcatQueue
      <4> QED BY <2>4, <3>1, <4>1 DEF SleepersKnown
    <3> QED BY <3>1, <3>2, <3>4 DEF SleepersKnown
  <2> QED BY <1>24, <2>2, <2>3, <2>4 DEF NotifyAllSlow
<1> QED
  BY <1>1, <1>2, <1>3, <1>4, <1>5, <1>6, <1>7, <1>8, <1>9, <1>10, <1>11, <1>12, <1>13, <1>14,
     <1>15, <1>16, <1>17, <1>18, <1>19, <1>20, <1>21, <1>22, <1>23, <1>24
     DEF Chooses, Proceeds

(* Every step keeps the waiters of the condition variable known to it. *)
LEMMA WaitersNext ==
  ASSUME TypeInv, StandingInv, WaitersKnown, NEW t \in Threads, Chooses(t) \/ Proceeds(t)
  PROVE  WaitersKnown'
<1>0. /\ pc \in [Threads -> Labels] /\ after \in [Threads -> {"idle", "drop", "unlock"}]
      /\ token \in [Threads -> {"none", "NORMAL", "HANDOFF"}]
      /\ queue \in [{"mutex", "cv"} -> Seq(Threads)]
      /\ \A u \in Threads : token[u] # "none" =>
           pc[u] \in {"parked", "wait_unlock", "wait_unlock_slow", "asleep"}
  BY DEF TypeInv, TypeOK, Unparked
<1>1. CASE Load(t)
  BY <1>1, <1>0 DEF Load, WaitersKnown
<1>2. CASE SetParked(t)
  BY <1>2, <1>0 DEF SetParked, WaitersKnown
<1>3. CASE ParkReturns(t)
  BY <1>3, <1>0 DEF ParkReturns, WaitersKnown
<1>4. CASE WaitWhileReturns(t)
  BY <1>4, <1>0 DEF WaitWhileReturns, WaitersKnown
<1>5. CASE NotifyOne(t)
  BY <1>5, <1>0 DEF NotifyOne, WaitersKnown
<1>6. CASE NotifyAll(t)
  BY <1>6, <1>0 DEF NotifyAll, WaitersKnown
<1>7. CASE MakeReady(t)
  BY <1>7, <1>0 DEF MakeReady, WaitersKnown
<1>8. CASE Drop(t)
  BY <1>8, <1>0 DEF Drop, WaitersKnown
<1>9. CASE Awake(t)
  BY <1>9, <1>0 DEF Awake, WaitersKnown
<1>10. CASE Grab(t)
  BY <1>10, <1>0 DEF Grab, WaitersKnown
<1>11. CASE TryLock(t)
  BY <1>11, <1>0 DEF TryLock, WaitersKnown
<1>12. CASE Lock(t)
  BY <1>12, <1>0 DEF Lock, WaitersKnown
<1>13. CASE Relock(t)
  BY <1>13, <1>0 DEF Relock, WaitersKnown
<1>14. CASE Unlock(t)
  BY <1>14, <1>0 DEF Unlock, WaitersKnown
<1>15. CASE BeforeSleep(t)
  BY <1>15, <1>0 DEF BeforeSleep, WaitersKnown
<1>16. CASE Park(t)
  BY <1>16, <1>0 DEF Park, WaitersKnown
<1>17. CASE UnlockSlow(t)
  BY <1>17, UnparkOneType DEF UnlockSlow, WaitersKnown
<1>18. CASE BeforeSleepSlow(t)
  BY <1>18, UnparkOneType DEF BeforeSleepSlow, WaitersKnown
<1>19. CASE Bump(t)
  BY <1>19, UnparkOneType DEF Bump, WaitersKnown
<1>20. CASE Wait(t)
  <2>1. cv' = TRUE /\ queue' = [queue EXCEPT !["cv"] = Append(@, t)] BY <1>20 DEF Wait, EnterWait
  <2>2. queue'["cv"] = Append(queue["cv"], t) BY <2>1, <1>0
  <2> QED BY <2>1, <2>2, <1>0, AppendQueue DEF WaitersKnown
<1>21. CASE WaitWhile(t)
  <2>1. cv' = TRUE /\ queue' = [queue EXCEPT !["cv"] = Append(@, t)] BY <1>21 DEF WaitWhile
  <2>2. queue'["cv"] = Append(queue["cv"], t) BY <2>1, <1>0
  <2> QED BY <2>1, <2>2, <1>0, AppendQueue DEF WaitersKnown
<1>22. CASE Timeout(t)
  <2> DEFINE c == queue["cv"]
  <2>1. queue'["cv"] = Without(c, t) /\ cv' = TimeoutState(t) BY <1>22 DEF Timeout
  <2>2. Without(c, t) = <<>> <=> c = <<>> \/ (t \in Range(c) /\ Len(c) = 1)
    BY <1>0, WithoutQueue DEF StandingInv
  <2> QED BY <2>1, <2>2 DEF TimeoutState, WaitersKnown
<1>23. CASE NotifyOneSlow(t)
  <2> DEFINE c == queue["cv"]
  <2>1. CASE UNCHANGED <<queue, cv>>
    BY <2>1 DEF WaitersKnown
  <2>2. CASE c # <<>> /\ cv' = (Len(c) > 1) /\ queue'["cv"] = Tail(c)
    <3>1. Tail(c) # <<>> <=> Len(c) > 1 BY <2>2, <1>0, TailQueue
    <3> QED BY <2>2, <3>1 DEF WaitersKnown
  <2> QED BY <1>23, <2>1, <2>2, <1>0 DEF NotifyOneSlow
<1>24. CASE NotifyAllSlow(t)
  <2>1. CASE UNCHANGED <<queue, cv>>
    BY <2>1 DEF WaitersKnown
  <2>2. CASE cv' = FALSE /\ queue'["cv"] = <<>>
    BY <2>2 DEF WaitersKnown
  <2> QED BY <1>24, <2>1, <2>2, <1>0 DEF NotifyAllSlow
<1> QED
  BY <1>1, <1>2, <1>3, <1>4, <1>5, <1>6, <1>7, <1>8, <1>9, <1>10, <1>11, <1>12, <1>13, <1>14,
     <1>15, <1>16, <1>17, <1>18, <1>19, <1>20, <1>21, <1>22, <1>23, <1>24
     DEF Chooses, Proceeds

(* Whoever leaves has notified everybody, and nobody can have begun to wait since. *)
LEMMA LeavingNext ==
  ASSUME TypeInv, OwnersInv, LeavingInv, NEW t \in Threads, Chooses(t) \/ Proceeds(t)
  PROVE  LeavingInv'
<1>0. /\ pc \in [Threads -> Labels] /\ after \in [Threads -> {"idle", "drop", "unlock"}]
      /\ cv \in BOOLEAN
  BY DEF TypeInv, TypeOK
<1> USE <1>0 DEF LeavingInv
<1>1. CASE Load(t)
  BY <1>1 DEF Load, Goto
<1>2. CASE SetParked(t)
  BY <1>2 DEF SetParked, Goto
<1>3. CASE ParkReturns(t)
  BY <1>3 DEF ParkReturns, Goto
<1>4. CASE WaitWhileReturns(t)
  BY <1>4 DEF WaitWhileReturns, Goto
<1>5. CASE NotifyOne(t)
  BY <1>5 DEF NotifyOne, Goto
<1>6. CASE NotifyAll(t)
  BY <1>6 DEF NotifyAll, Goto
<1>7. CASE MakeReady(t)
  BY <1>7 DEF MakeReady, Goto
<1>8. CASE Drop(t)
  BY <1>8 DEF Drop, Goto
<1>9. CASE Park(t)
  BY <1>9 DEF Park, Goto
<1>10. CASE Awake(t)
  BY <1>10 DEF Awake, Goto
<1>11. CASE Grab(t)
  BY <1>11 DEF Grab, Goto
<1>12. CASE TryLock(t)
  BY <1>12 DEF TryLock, Goto
<1>13. CASE Lock(t)
  BY <1>13, CallLockCases DEF Lock
<1>14. CASE Relock(t)
  BY <1>14, CallLockCases DEF Relock
<1>15. CASE Unlock(t)
  <2>1. PICK slow \in {"unlock_slow", "unlock_slow_fair"} : CallUnlock(t, "idle", slow)
    BY <1>15 DEF Unlock
  <2> QED BY <1>15, <2>1, CallUnlockCases DEF Unlock
<1>16. CASE BeforeSleep(t)
  BY <1>16, CallUnlockCases DEF BeforeSleep
<1>17. CASE UnlockSlow(t)
  BY <1>17 DEF UnlockSlow, Goto
<1>18. CASE BeforeSleepSlow(t)
  BY <1>18 DEF BeforeSleepSlow, Goto
<1>19. CASE Bump(t)
  BY <1>19 DEF Bump, Goto
<1>20. CASE Wait(t) \/ WaitWhile(t)
  <2>1. Holds(t) BY <1>20 DEF Wait, MayWait, WaitWhile, Holds
  <2>2. \A u \in Threads : u # t => ~Holds(u) BY <2>1 DEF OwnersInv, Owners
  <2>3. \A u \in Threads :
          u # t => pc[u] \notin {"unlock", "unlock_slow", "unlock_slow_fair"}
    BY <2>2 DEF Holds
  <2>4. pc' = [pc EXCEPT ![t] = "wait_unlock"] /\ after' = after
    BY <1>20 DEF Wait, EnterWait, WaitWhile, Goto
  <2> QED BY <2>3, <2>4
<1>21. CASE Timeout(t)
  <2>1. pc' = [pc EXCEPT ![t] = "relock"] /\ after' = after /\ (cv' => cv)
    BY <1>21 DEF Timeout, TimeoutState, Goto
  <2> QED BY <2>1
<1>22. CASE NotifyOneSlow(t)
  <2>1. /\ pc[t] = "notify_one" /\ pc' = [pc EXCEPT ![t] = after[t]] /\ after' = after
        /\ (cv' => cv)
    BY <1>22 DEF NotifyOneSlow, Return, Goto
  <2> QED BY <2>1
<1>23. CASE NotifyAllSlow(t)
  <2>1. pc' = [pc EXCEPT ![t] = after[t]] /\ after' = after
    BY <1>23 DEF NotifyAllSlow, Return, Goto
  <2>2. CASE ~cv /\ cv' = cv
    BY <2>1, <2>2
  <2>3. CASE cv' = FALSE
    BY <2>1, <2>3
  <2> QED BY <1>23, <2>2, <2>3 DEF NotifyAllSlow
<1> QED
  BY <1>1, <1>2, <1>3, <1>4, <1>5, <1>6, <1>7, <1>8, <1>9, <1>10, <1>11, <1>12, <1>13, <1>14,
     <1>15, <1>16, <1>17, <1>18, <1>19, <1>20, <1>21, <1>22, <1>23
     DEF Chooses, Proceeds

-----------------------------------------------------------------------------
(***************************************************************************)
(* The theorems.                                                           *)
(***************************************************************************)
LEMMA NextMonitor == MonitorInv /\ [Next]_vars => MonitorInv'
<1> SUFFICES ASSUME MonitorInv, [Next]_vars PROVE MonitorInv'
  OBVIOUS
<1> USE DEF MonitorInv
<1>1. CASE UNCHANGED vars
  <2>1. TypeInv' BY <1>1 DEF vars, TypeInv, TypeOK, Unparked
  <2>2. OwnersInv' /\ HolderInv' BY <1>1 DEF vars, OwnersInv, Owners, Holds, HolderInv
  <2>3. StandingInv' BY <1>1 DEF vars, StandingInv, Queued, Unparked
  <2>4. SleepersKnown' /\ WaitersKnown' /\ LeavingInv'
    BY <1>1 DEF vars, SleepersKnown, OnTheWay, WaitersKnown, LeavingInv
  <2> QED BY <2>1, <2>2, <2>3, <2>4
<1>2. CASE Next
  <2>1. PICK t \in Threads : Chooses(t) \/ Proceeds(t) BY <1>2 DEF Next
  <2>2. TypeInv' BY <2>1, TypeNext
  <2>3. OwnersInv'
    <3>1. OwnerStep(t) BY <2>1, OwnerNext
    <3> QED BY <3>1 DEF OwnerStep, OwnersInv
  <2>4. HolderInv' BY <2>1, HolderNext
  <2>5. StandingInv' BY <2>1, StandingNext
  <2>6. SleepersKnown' BY <2>1, SleepersNext
  <2>7. WaitersKnown' BY <2>1, WaitersNext
  <2>8. LeavingInv' BY <2>1, LeavingNext
  <2> QED BY <2>2, <2>3, <2>4, <2>5, <2>6, <2>7, <2>8
<1> QED BY <1>1, <1>2

\* One place for each thread that sleeps without a token, none for the others.
LEMMA StandingInOneQueue == TypeInv /\ StandingInv => InOneQueue
<1> SUFFICES ASSUME TypeInv, StandingInv, NEW t \in Threads
             PROVE  Cardinality(Places(t)) = IF Queued(t) THEN 1 ELSE 0
  BY DEF InOneQueue
<1> DEFINE m == queue["mutex"]
           c == queue["cv"]
<1>1. IsInjective(m) /\ IsInjective(c) /\ Range(m) \cap Range(c) = {}
  BY DEF StandingInv
<1>2. Queued(t) <=> t \in Range(m) \/ t \in Range(c)
  BY DEF StandingInv
<1>3. Places(t) = {<<"mutex", i>> : i \in {j \in DOMAIN m : m[j] = t}}
                  \cup {<<"cv", i>> : i \in {j \in DOMAIN c : c[j] = t}}
  BY DEF Places
<1> HIDE DEF m, c
<1>4. CASE t \in Range(m)
  <2>1. PICK i \in DOMAIN m : m[i] = t BY <1>4 DEF Range
  <2>2. {j \in DOMAIN m : m[j] = t} = {i} BY <1>1, <2>1 DEF IsInjective
  <2>3. {j \in DOMAIN c : c[j] = t} = {} BY <1>1, <1>4 DEF Range
  <2>4. Places(t) = {<<"mutex", i>>} BY <1>3, <2>2, <2>3
  <2> QED BY <1>2, <1>4, <2>4, FS_Singleton
<1>5. CASE t \in Range(c)
  <2>1. PICK i \in DOMAIN c : c[i] = t BY <1>5 DEF Range
  <2>2. {j \in DOMAIN c : c[j] = t} = {i} BY <1>1, <2>1 DEF IsInjective
  <2>3. {j \in DOMAIN m : m[j] = t} = {} BY <1>1, <1>5 DEF Range
  <2>4. Places(t) = {<<"cv", i>>} BY <1>3, <2>2, <2>3
  <2> QED BY <1>2, <1>5, <2>4, FS_Singleton
<1>6. CASE t \notin Range(m) /\ t \notin Range(c)
  <2>1. {j \in DOMAIN m : m[j] = t} = {} /\ {j \in DOMAIN c : c[j] = t} = {} BY <1>6 DEF Range
  <2>2. Places(t) = {} BY <1>3, <2>1
  <2> QED BY <1>2, <1>6, <2>2, FS_EmptySet
<1> QED BY <1>4, <1>5, <1>6

(***************************************************************************)
(* The mutex has one owner or is free, its word and the condition          *)
(* variable's never forget a sleeper, and a thread sleeps in one place     *)
(* until it gets a token, whatever barging, handing over, requeueing and   *)
(* timeouts do, for any number of threads.                                 *)
(***************************************************************************)
THEOREM SleepersNeverForgotten == Spec => []QueuesOK
<1>1. Init => MonitorInv BY InitMonitor
<1>2. MonitorInv /\ [Next]_vars => MonitorInv' BY NextMonitor
<1>3. MonitorInv => QueuesOK
  <2> SUFFICES ASSUME MonitorInv PROVE QueuesOK
    OBVIOUS
  <2>1. HeldByOne BY DEF MonitorInv, HeldByOne, OwnersInv, Owners
  <2>2. InOneQueue BY StandingInOneQueue DEF MonitorInv
  <2> QED BY <2>1, <2>2 DEF MonitorInv, QueuesOK, TypeInv
<1> QED BY <1>1, <1>2, <1>3, PTL DEF Spec

-----------------------------------------------------------------------------
(***************************************************************************)
(* The monitor of Mesa.                                                    *)
(***************************************************************************)
\* A step of thread t leaves what the others hold, ask and wait for.
Others(t) ==
  \A u \in Threads : u # t =>
    /\ pc'[u] = pc[u] /\ after'[u] = after[u] /\ token'[u] = token[u] /\ wait'[u] = wait[u]
    /\ Waits(u)' <=> Waits(u)

\* What such a step does is what it does to t.
LEMMA OnlyOwnPlace ==
  ASSUME TypeInv, NEW t \in Threads, Others(t)
  PROVE  /\ Owners' = IF Holds(t)' THEN Owners \cup {t} ELSE Owners \ {t}
         /\ Askers' = IF Asks(t)' THEN Askers \cup {t} ELSE Askers \ {t}
         /\ Waiters' = IF Waits(t)' THEN Waiters \cup {t} ELSE Waiters \ {t}
         /\ Timed' = IF Waits(t)' /\ wait'[t] = "timed" THEN Timed \cup {t} ELSE Timed \ {t}
         /\ Entering' = IF pc'[t] \in {"wait_unlock", "wait_unlock_slow"}
                        THEN Entering \cup {t} ELSE Entering \ {t}
         /\ Notifying' = [Notifying EXCEPT ![t] = Notification(t)']
<1>1. \A u \in Threads : u # t => (Holds(u)' <=> Holds(u))
  BY DEF Others, Holds
<1>2. \A u \in Threads : u # t => (Asks(u)' <=> Asks(u))
  BY <1>1 DEF Others, Asks
<1>3. \A u \in Threads : u # t => Notification(u)' = Notification(u)
  BY DEF Others, Notification
<1>4. Owners' = IF Holds(t)' THEN Owners \cup {t} ELSE Owners \ {t}
  BY <1>1 DEF Owners
<1>5. Askers' = IF Asks(t)' THEN Askers \cup {t} ELSE Askers \ {t}
  BY <1>2 DEF Askers
<1>6. Waiters' = IF Waits(t)' THEN Waiters \cup {t} ELSE Waiters \ {t}
  BY DEF Waiters, Others
<1>7. Timed' = IF Waits(t)' /\ wait'[t] = "timed" THEN Timed \cup {t} ELSE Timed \ {t}
  BY DEF Timed, Waiters, Others
<1>8. Entering' = IF pc'[t] \in {"wait_unlock", "wait_unlock_slow"}
                  THEN Entering \cup {t} ELSE Entering \ {t}
  BY DEF Entering, Others
<1>9. Notifying' = [Notifying EXCEPT ![t] = Notification(t)']
  BY <1>3 DEF Notifying
<1> QED BY <1>4, <1>5, <1>6, <1>7, <1>8, <1>9

\* A step that only changes where in its work t is.
Stays(t) ==
  /\ Others(t)
  /\ Holds(t)' <=> Holds(t)
  /\ Asks(t)' <=> Asks(t)
  /\ Waits(t)' <=> Waits(t)
  /\ Waits(t) => wait'[t] = wait[t]
  /\ t \in Entering' <=> t \in Entering
  /\ Notification(t)' = Notification(t)

LEMMA StaysStutters ==
  ASSUME TypeInv, NEW t \in Threads, Stays(t)
  PROVE  UNCHANGED M!vars
<1>1. Owners' = Owners /\ Askers' = Askers /\ Waiters' = Waiters
  BY OnlyOwnPlace DEF Stays, Owners, Askers, Waiters
<1>2. Timed' = Timed
  BY OnlyOwnPlace DEF Stays, Timed, Waiters
<1>3. Entering' = Entering
  BY OnlyOwnPlace DEF Stays, Entering
<1>4. Notifying' = Notifying
  BY OnlyOwnPlace DEF Stays, Notifying
<1> QED BY <1>1, <1>2, <1>3, <1>4 DEF M!vars

\* Where t is, for the monitor of Mesa.
LEMMA PlaceOf ==
  ASSUME TypeInv, OwnersInv, StandingInv, NEW t \in Threads
  PROVE  /\ t \in Owners <=> Holds(t)
         /\ t \in Askers <=> Asks(t)
         /\ t \in Waiters <=> Waits(t)
         /\ t \in Entering <=> pc[t] \in {"wait_unlock", "wait_unlock_slow"}
         /\ t \in Timed <=> Waits(t) /\ wait[t] = "timed"
         /\ Notifying[t] = Notification(t)
         /\ Holds(t) => Owners = {t}
         /\ LOCKED \notin state => Owners = {}
         /\ Waits(t) => Queued(t)
         /\ pc[t] \notin {"parked", "wait_unlock", "wait_unlock_slow", "asleep"} => token[t] = "none"
         /\ Timed \subseteq Waiters
BY DEF Owners, Askers, Waiters, Timed, Entering, Notifying, OwnersInv, StandingInv, Waits,
       TypeInv, TypeOK, Unparked

\* unlock_slow passes the mutex to the thread that slept longest, who asks for it.
LEMMA UnparkPassesOn ==
  ASSUME TypeInv, OwnersInv, HolderInv, StandingInv, NEW t \in Threads, Holds(t),
         token[t] = "none", NEW label \in {"idle", "relock", "asleep"}, Goto(t, label),
         pc[t] \notin {"parked", "asleep", "notify_one", "notify_all"},
         Queued(t) => label = "asleep",
         NEW fair \in BOOLEAN, UnparkOne(fair), UNCHANGED <<after, wait>>
  PROVE  /\ M!PassOn(Askers \cup {u \in {t} : label # "idle" /\ ~Waits(u)})
         /\ UNCHANGED <<Waiters, Timed, Notifying>>
         /\ Entering' = Entering \ {t}
<1> DEFINE A == Askers \cup {u \in {t} : label # "idle" /\ ~Waits(u)}
           h == Head(queue["mutex"])
<1>1. Owners = {t} /\ \A u \in Threads : u # t => ~Holds(u)
  BY DEF OwnersInv, Owners
<1>2. pc' = [pc EXCEPT ![t] = label] /\ pc \in [Threads -> Labels]
  BY DEF Goto, TypeInv, TypeOK
<1>3. /\ token \in [Threads -> {"none", "NORMAL", "HANDOFF"}]
      /\ token' \in [Threads -> {"none", "NORMAL", "HANDOFF"}]
      /\ queue \in [{"mutex", "cv"} -> Seq(Threads)]
      /\ queue'["cv"] = queue["cv"]
  <2>1. token \in [Threads -> {"none", "NORMAL", "HANDOFF"}] BY DEF TypeInv, TypeOK
  <2>2. queue \in [{"mutex", "cv"} -> Seq(Threads)] BY DEF TypeInv, TypeOK
  <2> QED BY <2>1, <2>2, UnparkOneType
<1>4. \A u \in Threads : Waits(u)' <=> Waits(u)
  BY <1>3 DEF Waits
<1>5. \A u \in Threads : Holds(u)' <=> token'[u] = "HANDOFF"
  BY <1>1, <1>2 DEF Holds
<1>6. \A u \in Threads : token[u] # "HANDOFF"
  BY <1>1 DEF Holds
<1>7. \A u \in Threads : u \in Askers' <=> u \in A /\ token'[u] # "HANDOFF"
  <2> SUFFICES ASSUME NEW u \in Threads PROVE Asks(u)' <=> u \in A /\ token'[u] # "HANDOFF"
    BY DEF Askers
  <2>1. CASE u # t
    <3>1. u \in A <=> Asks(u) BY <2>1 DEF Askers
    <3>2. pc'[u] = pc[u] /\ ~Holds(u) BY <1>1, <1>2, <2>1
    <3> QED BY <3>1, <3>2, <1>4, <1>5 DEF Asks
  <2>2. CASE u = t
    <3>1. ~Asks(t) BY DEF Asks
    <3>2. u \in A <=> label # "idle" /\ ~Waits(t) BY <2>2, <3>1 DEF Askers
    <3>3. pc'[t] = label BY <1>2
    <3> QED BY <2>2, <3>2, <3>3, <1>4, <1>5 DEF Asks
  <2> QED BY <2>1, <2>2
<1>8. M!PassOn(A)
  <2>0. A \subseteq Threads /\ Askers' \subseteq Threads /\ Owners' \subseteq Threads
    BY DEF Askers, Owners
  <2>1. CASE \A u \in Threads : token'[u] # "HANDOFF"
    <3>1. Owners' = {} BY <1>5, <2>1 DEF Owners
    <3>2. Askers' = A BY <1>7, <2>0, <2>1
    <3> QED BY <3>1, <3>2 DEF M!PassOn
  <2>2. CASE fair /\ queue["mutex"] # <<>>
    <3>1. /\ h \in Threads /\ token' = [token EXCEPT ![h] = "HANDOFF"]
      BY <2>2, UnparkOneType
    <3>2. \A u \in Threads : token'[u] = "HANDOFF" <=> u = h
      BY <3>1, <1>3, <1>6
    <3>3. Owners' = {h} BY <1>5, <3>1, <3>2 DEF Owners
    <3>4. Askers' = A \ {h} BY <1>7, <2>0, <3>2
    <3>5. h \in Range(queue["mutex"]) BY <2>2, <1>3, TailQueue
    <3>6. Queued(h) /\ ~Waits(h) BY <3>1, <3>5 DEF StandingInv, Waits
    <3>7. h \in A
      <4>1. CASE h = t BY <4>1, <3>6
      <4>2. CASE h # t
        <5>1. ~Holds(h) BY <1>1, <3>1, <4>2
        <5>2. pc[h] \in {"parked", "asleep"} BY <5>1, <3>6 DEF Queued, Holds
        <5> QED BY <5>1, <5>2, <3>1, <3>6 DEF Asks, Askers
      <4> QED BY <4>1, <4>2
    <3> QED BY <3>3, <3>4, <3>7 DEF M!PassOn
  <2>3. CASE ~fair \/ queue["mutex"] = <<>>
    <3>1. \/ token' = token
          \/ h \in Threads /\ token' = [token EXCEPT ![h] = "NORMAL"]
      BY <2>3, UnparkOneType
    <3>2. \A u \in Threads : token'[u] # "HANDOFF" BY <3>1, <1>3, <1>6
    <3> QED BY <3>2, <2>1
  <2> QED BY <2>2, <2>3
<1>9. Waiters' = Waiters
  BY <1>4 DEF Waiters
<1>10. Timed' = Timed
  BY <1>9 DEF Timed
<1>11. Notifying' = Notifying
  <2>1. \A u \in Threads : Notification(u)' = Notification(u) BY <1>2 DEF Notification
  <2> QED BY <2>1 DEF Notifying
<1>12. Entering' = Entering \ {t}
  BY <1>2 DEF Entering
<1> QED BY <1>8, <1>9, <1>10, <1>11, <1>12

\* A notification takes the threads of W from the waiters.
LEMMA NotificationWakes ==
  ASSUME TypeInv, OwnersInv, StandingInv, NEW t \in Threads,
         pc[t] \in {"notify_one", "notify_all"}, Return(t), UNCHANGED <<after, wait>>,
         NEW W \in SUBSET Waiters, Range(queue'["cv"]) = Range(queue["cv"]) \ W,
         \A u \in Threads : token'[u] = token[u] \/ (u \in W /\ token'[u] = "NORMAL")
  PROVE  M!Wake(W) /\ Notifying' = [Notifying EXCEPT ![t] = "no"]
<1>1. /\ pc \in [Threads -> Labels] /\ pc' = [pc EXCEPT ![t] = after[t]]
      /\ after[t] \in {"idle", "drop", "unlock"} /\ token[t] = "none" /\ ~Queued(t)
  BY DEF Return, Goto, TypeInv, TypeOK, Unparked, Queued
<1>2. \A u \in W : u \in Threads /\ Waits(u) /\ Queued(u)
  BY DEF Waiters, Waits, StandingInv
<1>3. t \notin W
  BY <1>1, <1>2
<1>4. \A u \in Threads : Waits(u)' <=> Waits(u) /\ u \notin W
  BY DEF Waits
<1>5. \A u \in Threads : Holds(u)' <=> Holds(u)
  <2> SUFFICES ASSUME NEW u \in Threads PROVE Holds(u)' <=> Holds(u)
    OBVIOUS
  <2>1. token'[u] = "HANDOFF" <=> token[u] = "HANDOFF"
    BY <1>2 DEF Queued, Unparked
  <2>2. CASE u = t BY <2>1, <2>2, <1>1 DEF Holds
  <2>3. CASE u # t BY <2>1, <2>3, <1>1 DEF Holds
  <2> QED BY <2>2, <2>3
<1>6. Owners' = Owners
  BY <1>5 DEF Owners
<1>7. Waiters' = Waiters \ W
  BY <1>4 DEF Waiters
<1>8. Timed' = Timed \ W
  BY <1>7 DEF Timed
<1>9. Entering' = Entering
  BY <1>1 DEF Entering
<1>10. Askers' = Askers \cup (W \ Owners)
  <2>1. ASSUME NEW u \in Threads PROVE Asks(u)' <=> Asks(u) \/ (u \in W /\ ~Holds(u))
    <3>1. CASE u = t
      BY <3>1, <1>1, <1>3 DEF Asks
    <3>2. CASE u # t /\ u \notin W
      BY <3>2, <1>1, <1>4, <1>5 DEF Asks
    <3>3. CASE u # t /\ u \in W
      <4>1. pc'[u] = pc[u] BY <1>1, <3>3
      <4>2. Holds(u) \/ pc[u] \in {"parked", "asleep"}
        BY <1>2, <3>3 DEF Queued, Holds
      <4> QED BY <4>1, <4>2, <3>3, <1>2, <1>4, <1>5 DEF Asks
    <3> QED BY <3>1, <3>2, <3>3
  <2> QED BY <2>1, <1>2 DEF Askers, Owners
<1>11. Notifying' = [Notifying EXCEPT ![t] = "no"]
  <2>1. Notification(t)' = "no" BY <1>1 DEF Notification
  <2>2. \A u \in Threads : u # t => Notification(u)' = Notification(u) BY <1>1 DEF Notification
  <2> QED BY <2>1, <2>2 DEF Notifying
<1> QED BY <1>6, <1>7, <1>8, <1>9, <1>10, <1>11 DEF M!Wake

(* Every step is a step of the monitor of Mesa, or leaves it as it is. *)
LEMMA MesaNext ==
  ASSUME MonitorInv, NEW t \in Threads, Chooses(t) \/ Proceeds(t)
  PROVE  M!Next \/ UNCHANGED M!vars
<1> USE DEF MonitorInv
<1>0. /\ pc \in [Threads -> Labels] /\ after \in [Threads -> {"idle", "drop", "unlock"}]
      /\ token \in [Threads -> {"none", "NORMAL", "HANDOFF"}]
      /\ wait \in [Threads -> {"no", "once", "timed", "while"}]
      /\ queue \in [{"mutex", "cv"} -> Seq(Threads)]
      /\ \A u \in Threads : token[u] # "none" =>
           pc[u] \in {"parked", "wait_unlock", "wait_unlock_slow", "asleep"}
  BY DEF TypeInv, TypeOK, Unparked
\* Steps inside a call.
<1>1. CASE Load(t)
  <2>1. Others(t) BY <1>1, <1>0 DEF Load, Goto, Others, Waits
  <2>2. Stays(t)
    BY <1>1, <1>0, <2>1 DEF Load, Goto, Stays, Holds, Asks, Waits, Entering, Notification
  <2> QED BY <2>2, StaysStutters
<1>2. CASE SetParked(t)
  <2>1. Others(t) BY <1>2, <1>0 DEF SetParked, Goto, Others, Waits
  <2>2. Stays(t)
    BY <1>2, <1>0, <2>1 DEF SetParked, Goto, Stays, Holds, Asks, Waits, Entering, Notification
  <2> QED BY <2>2, StaysStutters
<1>3. CASE Park(t)
  <2>1. Waits(t)' <=> Waits(t) BY <1>3, <1>0 DEF Park, Waits
  <2>2. Others(t) BY <1>3, <1>0 DEF Park, Goto, Others, Waits
  <2>3. Stays(t)
    BY <1>3, <1>0, <2>1, <2>2 DEF Park, Goto, Stays, Holds, Asks, Entering, Notification
  <2> QED BY <2>3, StaysStutters
<1>4. CASE ParkReturns(t)
  <2>1. Others(t) BY <1>4, <1>0 DEF ParkReturns, Goto, Others, Waits
  <2>2. Stays(t)
    BY <1>4, <1>0, <2>1
       DEF ParkReturns, Unparked, Goto, Stays, Holds, Asks, Waits, Entering, Notification
  <2> QED BY <2>2, StaysStutters
<1>5. CASE MakeReady(t)
  <2>1. Others(t) BY <1>5, <1>0 DEF MakeReady, Goto, Others, Waits
  <2>2. Stays(t)
    BY <1>5, <1>0, <2>1 DEF MakeReady, Goto, Stays, Holds, Asks, Waits, Entering, Notification
  <2> QED BY <2>2, StaysStutters
<1>6. CASE WaitWhileReturns(t)
  <2>1. Others(t) BY <1>6, <1>0 DEF WaitWhileReturns, Others, Waits
  <2>2. ~Waits(t) BY <1>6, PlaceOf DEF WaitWhileReturns, Queued
  <2>3. Stays(t)
    BY <1>6, <1>0, <2>1, <2>2
       DEF WaitWhileReturns, Stays, Holds, Asks, Waits, Entering, Notification
  <2> QED BY <2>3, StaysStutters
<1>7. CASE Awake(t)
  <2>1. Others(t) BY <1>7, <1>0 DEF Awake, EndOfWait, Goto, Others, Waits
  <2>2. ~Waits(t) BY <1>7, PlaceOf DEF Awake, Queued
  <2>3. Stays(t)
    BY <1>7, <1>0, <2>1, <2>2
       DEF Awake, Unparked, EndOfWait, Goto, Stays, Holds, Asks, Waits, Entering, Notification
  <2> QED BY <2>3, StaysStutters
\* Taking the mutex, or joining those who ask for it.
<1> DEFINE Takes == /\ Others(t) /\ LOCKED \notin state
                    /\ ~Waits(t) /\ pc[t] \in {"idle", "slow", "relock"}
                    /\ pc' = [pc EXCEPT ![t] = "held"] /\ UNCHANGED <<queue, token, wait, after>>
<1>8. ASSUME Takes PROVE M!Acquire(t)
  <2>1. Owners = {} /\ Notifying[t] = "no" /\ t \notin Waiters
    BY <1>8, PlaceOf DEF Notification
  <2>2. Holds(t)' /\ ~Asks(t)' /\ ~Waits(t)' /\ Notification(t)' = "no"
    BY <1>8, <1>0 DEF Holds, Asks, Waits, Notification
  <2>3. t \notin Entering /\ pc'[t] = "held"
    BY <1>8, <1>0 DEF Entering
  <2>4. Owners' = {t} /\ Askers' = Askers \ {t} /\ UNCHANGED <<Waiters, Timed, Entering>>
    BY <1>8, <2>1, <2>2, <2>3, OnlyOwnPlace DEF Timed
  <2>5. Notifying' = Notifying
    BY <1>8, <2>1, <2>2, OnlyOwnPlace DEF Notifying
  <2> QED BY <2>1, <2>4, <2>5 DEF M!Acquire
<1> HIDE DEF Takes
<1>9. CASE Grab(t)
  <2>1. Others(t) /\ ~Waits(t) BY <1>9, <1>0, PlaceOf DEF Grab, Goto, Others, Waits, Queued
  <2>2. CASE pc' = pc
    <3>1. Stays(t)
      BY <1>9, <2>1, <2>2 DEF Grab, Stays, Holds, Asks, Waits, Entering, Notification
    <3> QED BY <3>1, StaysStutters
  <2>3. CASE state = seen[t] /\ Goto(t, "held")
    <3>1. Takes BY <1>9, <2>1, <2>3 DEF Grab, Goto, Takes
    <3> QED BY <3>1, <1>8 DEF M!Next
  <2> QED BY <1>9, <2>2, <2>3 DEF Grab
<1>10. CASE TryLock(t)
  <2>1. Others(t) /\ ~Waits(t) BY <1>10, <1>0, PlaceOf DEF TryLock, Goto, Others, Waits, Queued
  <2>2. CASE pc' = pc
    <3>1. Stays(t)
      BY <1>10, <2>1, <2>2 DEF TryLock, Stays, Holds, Asks, Waits, Entering, Notification
    <3> QED BY <3>1, StaysStutters
  <2>3. CASE LOCKED \notin state /\ Goto(t, "held")
    <3>1. Takes BY <1>10, <2>1, <2>3 DEF TryLock, Goto, Takes
    <3> QED BY <3>1, <1>8 DEF M!Next
  <2> QED BY <1>10, <2>2, <2>3 DEF TryLock
<1>11. CASE Lock(t)
  <2>1. /\ pc[t] = "idle" /\ UNCHANGED <<queue, token, wait, after>>
        /\ \/ state = {} /\ pc' = [pc EXCEPT ![t] = "held"]
           \/ pc' = [pc EXCEPT ![t] = "load"]
    BY <1>11, CallLockCases DEF Lock
  <2>2. Others(t) /\ ~Waits(t) BY <2>1, <1>0, PlaceOf DEF Others, Waits, Queued
  <2>3. CASE state = {} /\ pc' = [pc EXCEPT ![t] = "held"]
    <3>1. Takes BY <2>1, <2>2, <2>3 DEF Takes
    <3> QED BY <3>1, <1>8 DEF M!Next
  <2>4. CASE pc' = [pc EXCEPT ![t] = "load"]
    <3>1. /\ t \notin Owners \cup Askers \cup Waiters /\ Notifying[t] = "no"
          /\ t \notin Timed /\ t \notin Entering
      BY <2>1, <2>2, <1>0, PlaceOf DEF Holds, Asks, Notification
    <3>2. ~Holds(t)' /\ Asks(t)' /\ ~Waits(t)' /\ Notification(t)' = "no" /\ pc'[t] = "load"
      BY <2>1, <2>2, <2>4, <1>0 DEF Holds, Asks, Waits, Notification
    <3>3. Askers' = Askers \cup {t} /\ UNCHANGED <<Owners, Waiters, Timed, Entering>>
      BY <2>2, <3>1, <3>2, OnlyOwnPlace
    <3>4. Notifying' = Notifying
      BY <2>2, <3>1, <3>2, OnlyOwnPlace DEF Notifying
    <3>5. M!Ask(t) BY <3>1, <3>3, <3>4 DEF M!Ask
    <3> QED BY <3>5 DEF M!Next
  <2> QED BY <2>1, <2>3, <2>4
<1>12. CASE Relock(t)
  <2>1. /\ pc[t] = "relock" /\ UNCHANGED <<queue, token, wait, after>>
        /\ \/ state = {} /\ pc' = [pc EXCEPT ![t] = "held"]
           \/ pc' = [pc EXCEPT ![t] = "load"]
    BY <1>12, CallLockCases DEF Relock
  <2>2. Others(t) /\ ~Waits(t) BY <2>1, <1>0, PlaceOf DEF Others, Waits, Queued
  <2>3. CASE state = {} /\ pc' = [pc EXCEPT ![t] = "held"]
    <3>1. Takes BY <2>1, <2>2, <2>3 DEF Takes
    <3> QED BY <3>1, <1>8 DEF M!Next
  <2>4. CASE pc' = [pc EXCEPT ![t] = "load"]
    <3>1. Stays(t)
      BY <2>1, <2>2, <2>4, <1>0 DEF Stays, Holds, Asks, Waits, Entering, Notification
    <3> QED BY <3>1, StaysStutters
  <2> QED BY <2>1, <2>3, <2>4
\* Giving the mutex up.
<1>13. ASSUME Holds(t), pc[t] \in {"unlock", "unlock_slow", "unlock_slow_fair"}
       PROVE  M!Works(t) /\ Waiters = {} /\ token[t] = "none" /\ ~Queued(t) /\ t \notin Entering
  <2>1. ~cv BY <1>13 DEF LeavingInv
  <2>2. queue["cv"] = <<>> BY <2>1 DEF WaitersKnown
  <2>3. Waiters = {}
    <3>1. Range(<<>>) = {} BY DEF Range
    <3> QED BY <2>2, <3>1 DEF Waiters, Waits
  <2>4. Owners = {t} /\ t \notin Entering /\ Notifying[t] = "no" /\ token[t] = "none"
    BY <1>13, PlaceOf DEF Notification
  <2> QED BY <1>13, <2>3, <2>4 DEF M!Works, Queued
<1>14. CASE Unlock(t)
  <2>1. PICK slow \in {"unlock_slow", "unlock_slow_fair"} : CallUnlock(t, "idle", slow)
    BY <1>14 DEF Unlock
  <2>2. /\ pc[t] = "unlock" /\ Holds(t) /\ UNCHANGED <<queue, token, wait, after>>
        /\ \/ pc' = [pc EXCEPT ![t] = "idle"]
           \/ pc' = [pc EXCEPT ![t] = slow]
    BY <1>14, <2>1, CallUnlockCases DEF Unlock, Holds
  <2>3. Others(t) /\ ~Waits(t) BY <2>2, <1>0, <1>13, PlaceOf DEF Others, Waits
  <2>4. CASE pc' = [pc EXCEPT ![t] = "idle"]
    <3>1. Owners = {t} /\ t \notin Askers \cup Waiters \cup Timed \cup Entering
      BY <2>2, <2>3, PlaceOf DEF Asks
    <3>2. ~Holds(t)' /\ ~Asks(t)' /\ ~Waits(t)' /\ Notification(t)' = "no" /\ pc'[t] = "idle"
      BY <2>2, <2>3, <2>4, <1>0, <1>13 DEF Holds, Asks, Waits, Notification
    <3>3. Owners' = {} /\ UNCHANGED <<Askers, Waiters, Timed, Entering>>
      BY <2>3, <3>1, <3>2, OnlyOwnPlace
    <3>4. Notifying' = Notifying
      BY <2>2, <2>3, <3>2, <1>13, OnlyOwnPlace DEF Notifying, M!Works
    <3>5. M!Leave(t) BY <2>2, <3>3, <3>4, <1>13 DEF M!Leave, M!PassOn
    <3> QED BY <3>5 DEF M!Next
  <2>5. CASE pc' = [pc EXCEPT ![t] = slow]
    <3>1. Stays(t)
      BY <2>2, <2>3, <2>5, <1>0 DEF Stays, Holds, Asks, Waits, Entering, Notification
    <3> QED BY <3>1, StaysStutters
  <2> QED BY <2>2, <2>4, <2>5
<1>15. CASE UnlockSlow(t)
  <2>1. PICK fair \in BOOLEAN : UnparkOne(fair) BY <1>15 DEF UnlockSlow
  <2>2. Holds(t) BY <1>15 DEF UnlockSlow, Holds
  <2>3. Askers \cup {u \in {t} : "idle" # "idle" /\ ~Waits(u)} = Askers OBVIOUS
  <2>4. M!PassOn(Askers) /\ UNCHANGED <<Waiters, Timed, Notifying>> /\ Entering' = Entering \ {t}
    BY <1>15, <2>1, <2>2, <2>3, <1>13, UnparkPassesOn DEF UnlockSlow
  <2>5. M!Leave(t) BY <1>15, <2>2, <2>4, <1>13 DEF UnlockSlow, M!Leave
  <2> QED BY <2>5 DEF M!Next
<1>16. CASE Bump(t)
  <2>1. /\ pc[t] = "held" /\ UnparkOne(TRUE) /\ Goto(t, "relock") /\ UNCHANGED <<after, wait>>
    BY <1>16 DEF Bump
  <2>2. Holds(t) /\ token[t] = "none" /\ ~Queued(t) /\ ~Waits(t)
    BY <2>1, PlaceOf DEF Holds, Queued
  <2>3. M!Works(t) /\ t \notin Entering
    BY <2>1, <2>2, PlaceOf DEF M!Works, Notification
  <2>4. {u \in {t} : "relock" # "idle" /\ ~Waits(u)} = {t} BY <2>2
  <2>5. /\ M!PassOn(Askers \cup {t}) /\ UNCHANGED <<Waiters, Timed, Notifying>>
        /\ Entering' = Entering \ {t}
    BY <2>1, <2>2, <2>4, UnparkPassesOn
  <2>6. M!Bump(t) BY <2>3, <2>5 DEF M!Bump
  <2> QED BY <2>6 DEF M!Next
\* Waiting.
<1>17. ASSUME pc[t] = "held", ~Queued(t), pc' = [pc EXCEPT ![t] = "wait_unlock"],
              queue' = [queue EXCEPT !["cv"] = Append(@, t)],
              NEW kind \in {"once", "timed", "while"}, wait' = [wait EXCEPT ![t] = kind],
              UNCHANGED <<token, after>>
       PROVE  M!Wait(t)
  <2>1. Holds(t) /\ token[t] = "none" /\ ~Waits(t) BY <1>17, PlaceOf DEF Holds
  <2>2. M!Works(t) /\ t \notin Askers \cup Waiters \cup Timed
    BY <1>17, <2>1, PlaceOf DEF M!Works, Asks, Notification
  <2>3. Range(queue'["cv"]) = Range(queue["cv"]) \cup {t} BY <1>17, <1>0, AppendQueue
  <2>4. Others(t) BY <1>17, <2>3, <1>0 DEF Others, Waits
  <2>5. /\ Waits(t)' /\ Holds(t)' /\ ~Asks(t)' /\ Notification(t)' = "no"
        /\ pc'[t] = "wait_unlock" /\ wait'[t] = kind
    BY <1>17, <2>3, <1>0 DEF Waits, Holds, Asks, Notification
  <2>6. /\ Waiters' = Waiters \cup {t} /\ Entering' = Entering \cup {t}
        /\ Timed' \in {Timed, Timed \cup {t}} /\ Owners' = Owners /\ Askers' = Askers
    BY <2>2, <2>4, <2>5, OnlyOwnPlace DEF M!Works
  <2>7. Notifying' = Notifying
    BY <2>2, <2>4, <2>5, OnlyOwnPlace DEF Notifying, M!Works
  <2> QED BY <2>2, <2>6, <2>7 DEF M!Wait
<1>18. CASE Wait(t)
  <2>1. PICK kind \in {"once", "timed"} : wait' = [wait EXCEPT ![t] = kind] BY <1>18 DEF Wait
  <2>2. M!Wait(t) BY <1>18, <2>1, <1>17 DEF Wait, MayWait, EnterWait, Goto, Queued
  <2> QED BY <2>2 DEF M!Next
<1>19. CASE WaitWhile(t)
  <2>1. M!Wait(t) BY <1>19, <1>17 DEF WaitWhile, Goto, Queued
  <2> QED BY <2>1 DEF M!Next
<1>20. ASSUME pc[t] \in {"wait_unlock", "wait_unlock_slow"}
       PROVE  Holds(t) /\ Owners = {t} /\ t \in Entering /\ token[t] = "none"
  BY <1>20, PlaceOf DEF Holds, HolderInv
<1>21. {u \in {t} : "asleep" # "idle" /\ ~Waits(u)} = {t} \ Waiters
  BY DEF Waiters
<1>22. CASE BeforeSleep(t)
  <2>1. /\ pc[t] = "wait_unlock" /\ UNCHANGED <<queue, token, wait, after>>
        /\ \/ pc' = [pc EXCEPT ![t] = "asleep"]
           \/ pc' = [pc EXCEPT ![t] = "wait_unlock_slow"]
    BY <1>22, CallUnlockCases DEF BeforeSleep
  <2>2. Others(t) BY <2>1, <1>0 DEF Others, Waits
  <2>3. CASE pc' = [pc EXCEPT ![t] = "asleep"]
    <3>1. /\ ~Holds(t)' /\ (Asks(t)' <=> ~Waits(t)) /\ (Waits(t)' <=> Waits(t))
          /\ Notification(t)' = "no" /\ Notification(t) = "no" /\ pc'[t] = "asleep"
      BY <2>1, <2>3, <1>0, <1>20 DEF Holds, Asks, Waits, Notification
    <3>2. t \notin Askers BY <2>1, <1>20, PlaceOf DEF Asks
    <3>3. Owners' = {} /\ Askers' = Askers \cup ({t} \ Waiters) /\ Entering' = Entering \ {t}
      BY <2>1, <2>2, <3>1, <3>2, <1>20, OnlyOwnPlace, PlaceOf
    <3>4. Waiters' = Waiters BY <2>1 DEF Waiters, Waits
    <3>5. Timed' = Timed BY <2>1, <3>4 DEF Timed
    <3>6. Notifying' = Notifying BY <2>2, <3>1, OnlyOwnPlace DEF Notifying
    <3>7. M!FallAsleep(t)
      BY <2>1, <1>20, <3>3, <3>4, <3>5, <3>6 DEF M!FallAsleep, M!PassOn
    <3> QED BY <3>7 DEF M!Next
  <2>4. CASE pc' = [pc EXCEPT ![t] = "wait_unlock_slow"]
    <3>1. Stays(t)
      BY <2>1, <2>2, <2>4, <1>0 DEF Stays, Holds, Asks, Waits, Entering, Notification
    <3> QED BY <3>1, StaysStutters
  <2> QED BY <2>1, <2>3, <2>4
<1>23. CASE BeforeSleepSlow(t)
  <2>1. PICK fair \in BOOLEAN : UnparkOne(fair) BY <1>23 DEF BeforeSleepSlow
  <2>2. pc[t] = "wait_unlock_slow" /\ Goto(t, "asleep") /\ UNCHANGED <<after, wait>>
    BY <1>23 DEF BeforeSleepSlow
  <2>3. /\ M!PassOn(Askers \cup ({t} \ Waiters)) /\ UNCHANGED <<Waiters, Timed, Notifying>>
        /\ Entering' = Entering \ {t}
    BY <2>1, <2>2, <1>20, <1>21, UnparkPassesOn
  <2>4. M!FallAsleep(t) BY <2>2, <2>3, <1>20 DEF M!FallAsleep
  <2> QED BY <2>4 DEF M!Next
<1>24. CASE Timeout(t)
  <2>1. /\ pc[t] = "asleep" /\ wait[t] = "timed" /\ ~Unparked(t) /\ UNCHANGED <<token, after>>
        /\ pc' = [pc EXCEPT ![t] = "relock"] /\ wait' = [wait EXCEPT ![t] = "no"]
        /\ queue'["cv"] = Without(queue["cv"], t)
    BY <1>24, <1>0 DEF Timeout, EndOfWait, Goto
  <2>2. Range(queue'["cv"]) = Range(queue["cv"]) \ {t}
    BY <2>1, <1>0, WithoutQueue DEF StandingInv
  <2>3. Others(t) BY <2>1, <2>2, <1>0 DEF Others, Waits
  <2>4. /\ ~Waits(t)' /\ ~Holds(t) /\ ~Holds(t)' /\ Asks(t)' /\ pc'[t] = "relock"
        /\ Notification(t) = "no" /\ Notification(t)' = "no"
    BY <2>1, <2>2, <1>0 DEF Waits, Holds, Asks, Notification, Unparked
  <2>5. CASE Waits(t)
    <3>1. t \in Timed \ Entering /\ t \notin Owners
      BY <2>1, <2>4, <2>5, PlaceOf
    <3>2. /\ Owners' = Owners /\ Askers' = Askers \cup ({t} \ Owners) /\ Waiters' = Waiters \ {t}
          /\ Timed' = Timed \ {t} /\ Entering' = Entering
      BY <2>3, <2>4, <3>1, OnlyOwnPlace
    <3>3. Notifying' = Notifying BY <2>3, <2>4, OnlyOwnPlace DEF Notifying
    <3>4. M!TimeOut(t) BY <3>1, <3>2, <3>3 DEF M!TimeOut, M!Wake
    <3> QED BY <3>4 DEF M!Next
  <2>6. CASE ~Waits(t)
    <3>1. Asks(t) /\ t \notin Entering BY <2>1, <2>4, <2>6 DEF Asks, Entering
    <3>2. Stays(t) BY <2>3, <2>4, <2>6, <3>1 DEF Stays, Entering
    <3> QED BY <3>2, StaysStutters
  <2> QED BY <2>5, <2>6
\* Notifying.
<1>25. ASSUME pc[t] \in {"held", "drop", "idle"},
              NEW to \in {"notify_one", "notify_all"}, pc' = [pc EXCEPT ![t] = to],
              after'[t] = "idle" <=> pc[t] = "idle",
              \A u \in Threads : u # t => after'[u] = after[u],
              UNCHANGED <<queue, token, wait>>
       PROVE  M!CallNotify(t)
  <2>1. Others(t) BY <1>25, <1>0 DEF Others, Waits
  <2>2. ~Waits(t) /\ ~Asks(t) /\ Notification(t) = "no" /\ token[t] = "none"
    BY <1>25, PlaceOf DEF Queued, Asks, Notification
  <2>3. /\ ~Waits(t)' /\ ~Asks(t)' /\ (Holds(t)' <=> Holds(t)) /\ pc'[t] = to
        /\ Notification(t)' \in {"one", "all"}
    BY <1>25, <2>2, <1>0 DEF Waits, Asks, Holds, Notification
  <2>4. t \notin Askers \cup Waiters \cup Entering \cup Timed /\ Notifying[t] = "no"
    BY <1>25, <2>2, PlaceOf
  <2>5. UNCHANGED <<Owners, Askers, Waiters, Timed, Entering>>
    BY <2>1, <2>3, <2>4, OnlyOwnPlace, PlaceOf
  <2>6. \E kind \in {"one", "all"} : Notifying' = [Notifying EXCEPT ![t] = kind]
    BY <2>1, <2>3, OnlyOwnPlace
  <2> QED BY <2>4, <2>5, <2>6 DEF M!CallNotify
<1>26. CASE NotifyOne(t)
  <2>1. M!CallNotify(t) BY <1>26, <1>0, <1>25 DEF NotifyOne, Goto
  <2> QED BY <2>1 DEF M!Next
<1>27. CASE NotifyAll(t)
  <2>1. M!CallNotify(t) BY <1>27, <1>0, <1>25 DEF NotifyAll, Goto
  <2> QED BY <2>1 DEF M!Next
<1>28. CASE Drop(t)
  <2>1. /\ pc[t] \in {"held", "drop"} /\ after' = [after EXCEPT ![t] = "unlock"]
        /\ UNCHANGED <<queue, token, wait>>
        /\ \/ pc' = [pc EXCEPT ![t] = "notify_all"]
           \/ pc' = [pc EXCEPT ![t] = "unlock"]
    BY <1>28 DEF Drop, Goto
  <2>2. CASE pc' = [pc EXCEPT ![t] = "notify_all"]
    <3>1. M!CallNotify(t) BY <2>1, <2>2, <1>0, <1>25
    <3> QED BY <3>1 DEF M!Next
  <2>3. CASE pc' = [pc EXCEPT ![t] = "unlock"]
    <3>1. Others(t) BY <2>1, <2>3, <1>0 DEF Others, Waits
    <3>2. Stays(t)
      BY <2>1, <2>3, <3>1, <1>0 DEF Stays, Holds, Asks, Waits, Entering, Notification
    <3> QED BY <3>2, StaysStutters
  <2> QED BY <2>1, <2>2, <2>3
<1>29. ASSUME pc[t] \in {"notify_one", "notify_all"}, ~cv, Return(t),
              UNCHANGED <<queue, token, after, wait>>
       PROVE  M!Notify(t)
  <2>1. queue["cv"] = <<>> BY <1>29 DEF WaitersKnown
  <2>2. Waiters = {}
    <3>1. Range(<<>>) = {} BY DEF Range
    <3> QED BY <2>1, <3>1 DEF Waiters, Waits
  <2>3. M!Wake({}) /\ Notifying' = [Notifying EXCEPT ![t] = "no"]
    <3>1. {} \in SUBSET Waiters /\ Range(queue'["cv"]) = Range(queue["cv"]) \ {} BY <1>29
    <3> QED BY <1>29, <3>1, NotificationWakes
  <2>4. Notifying[t] # "no" BY <1>29, PlaceOf DEF Notification
  <2> QED BY <2>2, <2>3, <2>4 DEF M!Notify
<1>30. CASE NotifyOneSlow(t)
  <2> DEFINE c == queue["cv"]
  <2>0. pc[t] = "notify_one" /\ Return(t) /\ UNCHANGED <<after, wait>> BY <1>30 DEF NotifyOneSlow
  <2>1. CASE ~cv /\ UNCHANGED <<queue, token>>
    <3>1. M!Notify(t) BY <2>0, <2>1, <1>29
    <3> QED BY <3>1 DEF M!Next
  <2>2. CASE /\ c # <<>> /\ queue'["cv"] = Tail(c)
             /\ token' = token \/ token' = [token EXCEPT ![Head(c)] = "NORMAL"]
    <3>1. /\ Head(c) \in Threads /\ Head(c) \in Range(c)
          /\ Range(queue'["cv"]) = Range(c) \ {Head(c)}
      BY <2>2, <1>0, TailQueue DEF StandingInv
    <3>2. Head(c) \in Waiters BY <3>1 DEF Waiters, Waits
    <3>3. \A u \in Threads : token'[u] = token[u] \/ (u \in {Head(c)} /\ token'[u] = "NORMAL")
      BY <2>2, <3>1, <1>0
    <3>4. {Head(c)} \in SUBSET Waiters BY <3>2
    <3>5. M!Wake({Head(c)}) /\ Notifying' = [Notifying EXCEPT ![t] = "no"]
      BY <2>0, <3>1, <3>3, <3>4, NotificationWakes
    <3>6. Notifying[t] = "one" BY <2>0, PlaceOf DEF Notification
    <3>7. M!Notify(t) BY <3>2, <3>5, <3>6 DEF M!Notify
    <3> QED BY <3>7 DEF M!Next
  <2> QED BY <1>30, <1>0, <2>1, <2>2 DEF NotifyOneSlow
<1>31. CASE NotifyAllSlow(t)
  <2> DEFINE c == queue["cv"]
  <2>0. pc[t] = "notify_all" /\ Return(t) /\ UNCHANGED <<after, wait>> BY <1>31 DEF NotifyAllSlow
  <2>1. CASE ~cv /\ UNCHANGED <<queue, token>>
    <3>1. M!Notify(t) BY <2>0, <2>1, <1>29
    <3> QED BY <3>1 DEF M!Next
  <2>2. CASE /\ c # <<>> /\ queue'["cv"] = <<>>
             /\ token' = token \/ token' = [token EXCEPT ![Head(c)] = "NORMAL"]
    <3>1. Head(c) \in Threads /\ Head(c) \in Range(c) BY <2>2, <1>0, TailQueue
    <3>2. Head(c) \in Waiters /\ Waiters = Range(c)
      <4>1. Range(c) \subseteq Threads BY DEF StandingInv
      <4> QED BY <3>1, <4>1 DEF Waiters, Waits
    <3>3. Range(queue'["cv"]) = Range(c) \ Waiters
      <4>1. Range(<<>>) = {} BY DEF Range
      <4> QED BY <2>2, <3>2, <4>1
    <3>4. \A u \in Threads : token'[u] = token[u] \/ (u \in Waiters /\ token'[u] = "NORMAL")
      BY <2>2, <3>1, <3>2, <1>0
    <3>5. M!Wake(Waiters) /\ Notifying' = [Notifying EXCEPT ![t] = "no"]
      <4>1. Waiters \in SUBSET Waiters OBVIOUS
      <4> QED BY <2>0, <3>3, <3>4, <4>1, NotificationWakes
    <3>6. Notifying[t] = "all" BY <2>0, PlaceOf DEF Notification
    <3>7. M!Notify(t) BY <3>5, <3>6 DEF M!Notify
    <3> QED BY <3>7 DEF M!Next
  <2> QED BY <1>31, <1>0, <2>1, <2>2 DEF NotifyAllSlow
<1> QED
  BY <1>1, <1>2, <1>3, <1>4, <1>5, <1>6, <1>7, <1>9, <1>10, <1>11, <1>12, <1>14, <1>15, <1>16,
     <1>18, <1>19, <1>22, <1>23, <1>24, <1>26, <1>27, <1>28, <1>30, <1>31
     DEF Chooses, Proceeds

(***************************************************************************)
(* The Monitor implements Mesa, for any number of threads: the mutex goes  *)
(* from its owner to nobody or to one who asks for it, a plain wait ends   *)
(* by a notification only, notify_one takes one waiter and notify_all      *)
(* every one, and a thread that leaves leaves no waiter behind, whatever   *)
(* barging, handing over, requeueing and timeouts do.                      *)
(***************************************************************************)
THEOREM MonitorIsMesa == Spec => MesaSpec
<1>1. Init => M!Init
  <2> SUFFICES ASSUME Init PROVE M!Init
    OBVIOUS
  <2>1. \A t \in Threads : ~Holds(t) /\ ~Asks(t) /\ Notification(t) = "no"
    BY DEF Init, Holds, Asks, Notification
  <2>2. \A t \in Threads : ~Waits(t)
    <3>1. queue["cv"] = <<>> /\ Range(<<>>) = {} BY DEF Init, Range
    <3> QED BY <3>1 DEF Waits
  <2>3. Owners = {} /\ Askers = {} /\ Waiters = {} /\ Entering = {}
    BY <2>1, <2>2 DEF Init, Owners, Askers, Waiters, Entering
  <2>4. Timed = {} BY <2>3 DEF Timed
  <2>5. Notifying = [t \in Threads |-> "no"] BY <2>1 DEF Notifying
  <2> QED BY <2>3, <2>4, <2>5 DEF M!Init
<1>2. MonitorInv /\ [Next]_vars => [M!Next]_(M!vars)
  <2> SUFFICES ASSUME MonitorInv, [Next]_vars PROVE M!Next \/ UNCHANGED M!vars
    OBVIOUS
  <2>1. CASE UNCHANGED vars
    <3>1. \A t \in Threads :
            /\ (Holds(t)' <=> Holds(t)) /\ (Asks(t)' <=> Asks(t)) /\ (Waits(t)' <=> Waits(t))
            /\ Notification(t)' = Notification(t)
      BY <2>1 DEF vars, Holds, Asks, Waits, Notification
    <3>2. UNCHANGED <<Owners, Askers, Waiters, Entering, Notifying>>
      BY <2>1, <3>1 DEF vars, Owners, Askers, Waiters, Entering, Notifying
    <3>3. Timed' = Timed BY <2>1, <3>2 DEF vars, Timed
    <3> QED BY <3>2, <3>3 DEF M!vars
  <2>2. CASE Next
    <3>1. PICK t \in Threads : Chooses(t) \/ Proceeds(t) BY <2>2 DEF Next
    <3> QED BY <3>1, MesaNext
  <2> QED BY <2>1, <2>2
<1>3. Init => MonitorInv BY InitMonitor
<1>4. MonitorInv /\ [Next]_vars => MonitorInv' BY NextMonitor
<1> QED BY <1>1, <1>2, <1>3, <1>4, PTL DEF Spec, MesaSpec, M!Spec
=============================================================================
