-------------------------------- MODULE Mesa --------------------------------
(***************************************************************************)
(* What a monitor promises its threads: the mutex goes from its owner to   *)
(* nobody or to a thread that asks for it; a thread that waits gets it     *)
(* only once a notification or its deadline took it from the waiters,      *)
(* and asks for it from then on; a notification of one takes one waiter if *)
(* there is one, one of all takes every waiter, and whoever leaves for     *)
(* good leaves no waiter behind.                                           *)
(***************************************************************************)
CONSTANT Threads

VARIABLES
  owner,     \* the set of at most one thread that has the mutex
  asking,    \* threads that will not go on without it
  waiting,   \* threads waiting for the condition
  timed,     \* those of them with a deadline
  entering,  \* owners that wait, or did, and have not given the mutex up yet
  notifying  \* the notification a thread is about to carry out: "no", "one" or "all"

vars == <<owner, asking, waiting, timed, entering, notifying>>

Init ==
  /\ owner = {} /\ asking = {} /\ waiting = {} /\ timed = {} /\ entering = {}
  /\ notifying = [t \in Threads |-> "no"]

\* The owner, in the middle of nothing.
Works(t) == owner = {t} /\ t \notin entering /\ notifying[t] = "no"

Ask(t) ==
  /\ t \notin owner \cup asking \cup waiting /\ notifying[t] = "no"
  /\ asking' = asking \cup {t}
  /\ UNCHANGED <<owner, waiting, timed, entering, notifying>>

\* The mutex is free for anybody, whoever else asks.
Acquire(t) ==
  /\ owner = {} /\ t \notin waiting /\ notifying[t] = "no"
  /\ owner' = {t}
  /\ asking' = asking \ {t}
  /\ UNCHANGED <<waiting, timed, entering, notifying>>

\* The mutex becomes free or goes straight to one of those who ask.
PassOn(askers) ==
  \E heir \in {{}} \cup {{u} : u \in askers} : owner' = heir /\ asking' = askers \ heir

Leave(t) ==
  /\ Works(t) /\ waiting = {}
  /\ PassOn(asking)
  /\ UNCHANGED <<waiting, timed, entering, notifying>>

\* Letting another thread go first.
Bump(t) ==
  /\ Works(t)
  /\ PassOn(asking \cup {t})
  /\ UNCHANGED <<waiting, timed, entering, notifying>>

-----------------------------------------------------------------------------
\* The owner is a waiter before the mutex is free.
Wait(t) ==
  /\ Works(t)
  /\ waiting' = waiting \cup {t}
  /\ timed' \in {timed, timed \cup {t}}
  /\ entering' = entering \cup {t}
  /\ UNCHANGED <<owner, asking, notifying>>

\* If it was notified by then, it asks at once.
FallAsleep(t) ==
  /\ owner = {t} /\ t \in entering
  /\ PassOn(asking \cup ({t} \ waiting))
  /\ entering' = entering \ {t}
  /\ UNCHANGED <<waiting, timed, notifying>>

\* The threads of W need wait no longer, and those without the mutex ask for it.
Wake(W) ==
  /\ waiting' = waiting \ W /\ timed' = timed \ W
  /\ asking' = asking \cup (W \ owner)
  /\ UNCHANGED <<owner, entering>>

TimeOut(t) ==
  /\ t \in timed \ entering
  /\ Wake({t})
  /\ UNCHANGED notifying

\* With or without the mutex.
CallNotify(t) ==
  /\ t \notin asking \cup waiting \cup entering /\ notifying[t] = "no"
  /\ \E kind \in {"one", "all"} : notifying' = [notifying EXCEPT ![t] = kind]
  /\ UNCHANGED <<owner, asking, waiting, timed, entering>>

Notify(t) ==
  /\ \/ waiting = {} /\ Wake({})
     \/ notifying[t] = "one" /\ \E w \in waiting : Wake({w})
     \/ notifying[t] = "all" /\ Wake(waiting)
  /\ notifying[t] # "no" /\ notifying' = [notifying EXCEPT ![t] = "no"]

Next ==
  \E t \in Threads :
    \/ Ask(t) \/ Acquire(t) \/ Leave(t) \/ Bump(t)
    \/ Wait(t) \/ FallAsleep(t) \/ TimeOut(t) \/ CallNotify(t) \/ Notify(t)

Spec == Init /\ [][Next]_vars
=============================================================================
