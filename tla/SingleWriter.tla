---------------------------- MODULE SingleWriter ----------------------------
(***************************************************************************)
(* The RCU-like synchronizer of sync/single_writer.rs.  Readers bracket    *)
(* their accesses by enter and exit; one writer at a time calls            *)
(* synchronize, which waits for the sections that were open when it began. *)
(* The polarity (bit 0) of `enter` names the exit counter a section uses.  *)
(* What a reader does inside its section is the business of the module     *)
(* that extends this one.  Atomics are sequentially consistent.            *)
(***************************************************************************)
EXTENDS Naturals

CONSTANTS
    Readers      \* threads that enter critical sections

VARIABLES
    enter,       \* SingleWriterSynchronizer::enter
    exit,        \* SingleWriterSynchronizer::exit, by polarity
    waitingFor,  \* SingleWriterSynchronizer::waiting_for
    wakeup,      \* count of the wakeup semaphore
    section,     \* per reader: where it is and its enter (or exit) value
    writer,      \* the writer inside synchronize, and its locals value and old
    sectionsLeft \* critical sections the run may still open: a bound

syncVars == <<enter, exit, waitingFor, wakeup, section, writer, sectionsLeft>>

Out == [at |-> "out", val |-> 0]
NoWriter == [at |-> "none", value |-> 0, old |-> 0]

SyncInit ==
    /\ enter = 0
    /\ exit = [p \in 0 .. 1 |-> 0]
    /\ waitingFor = 1
    /\ wakeup = 0
    /\ section = [r \in Readers |-> Out]
    /\ writer = NoWriter

-----------------------------------------------------------------------------
(* Readers *)

(* CriticalSection::new *)
Enter(r) ==
    /\ section[r].at = "out"
    /\ sectionsLeft > 0
    /\ sectionsLeft' = sectionsLeft - 1
    /\ enter' = enter + 2
    /\ section' = [section EXCEPT ![r] = [at |-> "in", val |-> enter + 2]]
    /\ UNCHANGED <<exit, waitingFor, wakeup, writer>>

(* The exit counter of the section's polarity. *)
Exit(r) ==
    LET p == section[r].val % 2 IN
    /\ section[r].at = "in"
    /\ exit' = [exit EXCEPT ![p] = @ + 2]
    /\ section' = [section EXCEPT ![r] = [at |-> "leaving", val |-> exit[p] + 2]]
    /\ UNCHANGED <<enter, waitingFor, wakeup, writer, sectionsLeft>>

(* The last section the writer waits for wakes it. *)
ExitSignal(r) ==
    /\ section[r].at = "leaving"
    /\ wakeup' = IF section[r].val = waitingFor THEN wakeup + 1 ELSE wakeup
    /\ section' = [section EXCEPT ![r] = Out]
    /\ UNCHANGED <<enter, exit, waitingFor, writer, sectionsLeft>>

-----------------------------------------------------------------------------
(* The writer *)

(* Prepares the exit counter that is not in use. *)
SyncStore ==
    LET p == (writer.value + 1) % 2 IN
    /\ writer.at = "store"
    /\ exit' = [exit EXCEPT ![p] = writer.value + 1]
    /\ writer' = [at |-> "cas", value |-> writer.value + 1, old |-> writer.value]
    /\ UNCHANGED <<enter, waitingFor, wakeup, section, sectionsLeft>>

(* Flips the polarity, unless a reader entered meanwhile. *)
SyncFlip ==
    /\ writer.at = "cas"
    /\ IF enter = writer.old
       THEN /\ enter' = writer.value
            /\ writer' = [writer EXCEPT !.at = "announce"]
       ELSE /\ writer' = [at |-> "store", value |-> enter, old |-> 0]
            /\ UNCHANGED enter
    /\ UNCHANGED <<exit, waitingFor, wakeup, section, sectionsLeft>>

SyncAnnounce ==
    /\ writer.at = "announce"
    /\ waitingFor' = writer.old
    /\ writer' = [writer EXCEPT !.at = "check"]
    /\ UNCHANGED <<enter, exit, wakeup, section, sectionsLeft>>

(* synchronize that forgets the sections open when it began. *)
BugSyncCheck ==
    /\ writer.at = "check"
    /\ writer' = [writer EXCEPT !.at = "drain"]
    /\ UNCHANGED <<enter, exit, waitingFor, wakeup, section, sectionsLeft>>

(* Have all the sections of the old polarity been left? *)
SyncCheck ==
    /\ writer.at = "check"
    /\ writer' = [writer EXCEPT !.at =
                    IF exit[writer.old % 2] = writer.old THEN "drain" ELSE "wait"]
    /\ UNCHANGED <<enter, exit, waitingFor, wakeup, section, sectionsLeft>>

SyncWait ==
    /\ writer.at = "wait"
    /\ wakeup > 0
    /\ wakeup' = wakeup - 1
    /\ writer' = [writer EXCEPT !.at = "check"]
    /\ UNCHANGED <<enter, exit, waitingFor, section, sectionsLeft>>

(* Late signals are thrown away. *)
SyncDrain ==
    /\ writer.at = "drain"
    /\ wakeup' = 0
    /\ writer' = [NoWriter EXCEPT !.at = "done"]
    /\ UNCHANGED <<enter, exit, waitingFor, section, sectionsLeft>>

SyncStep == SyncStore \/ SyncFlip \/ SyncAnnounce \/ SyncCheck \/ SyncWait \/ SyncDrain

=============================================================================
