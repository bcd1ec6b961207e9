------------------------- MODULE PreemptionController -------------------------
(***************************************************************************)
(* The preemption controller (qos/preemption.rs): urgent senders pause the *)
(* transfers they may preempt and resume them later, each with the list    *)
(* pause_transfers_below returned to it; an operator may resume everything.*)
(* The loops hold the lock of the map for reading, so two of them overlap, *)
(* and the flag of a transfer is read and written in two steps.            *)
(***************************************************************************)
EXTENDS Integers, FiniteSets

CONSTANTS
    Transfers,        \* identities of transfers, each registered once
    Urgent,           \* senders whose class preempts
    Operator,         \* the caller of resume_all
    Preemptable,      \* [Urgent -> SUBSET Transfers]: can_be_preempted_by
    Nothing,          \* no transfer
    CountModulus,     \* the modulus of paused_count, 2^64 in the code
    MaxPreemptions    \* bound on calls of pause_transfers_below

ASSUME PreemptionAssumption ==
    /\ Operator \notin Urgent
    /\ Preemptable \in [Urgent -> SUBSET Transfers]
    /\ Nothing \notin Transfers
    /\ CountModulus \in Nat \ {0}
    /\ MaxPreemptions \in Nat

VARIABLES
    transfer,      \* [Transfers -> {"new", "active", "gone"}]
    isPaused,      \* [Transfers -> BOOLEAN]
    pausedCount,   \* paused_count
    call,          \* [Callers -> what the caller is doing]
    todo,          \* [Callers -> transfers its loop has not visited]
    at,            \* [Callers -> the transfer whose flag it has read, or Nothing]
    saw,           \* [Callers -> BOOLEAN]: what it read
    taken,         \* [Urgent -> SUBSET Transfers]: the list it was returned
    preemptions    \* 0 .. MaxPreemptions

Callers == Urgent \cup {Operator}

preemptionVars == <<transfer, isPaused, pausedCount, call, todo, at, saw, taken, preemptions>>

Active == {t \in Transfers : transfer[t] = "active"}

\* No loop holds the lock of the map.
Unlocked == \A c \in Callers : call[c] \in {"idle", "holding"}

PreemptionInit ==
    /\ transfer = [t \in Transfers |-> "new"]
    /\ isPaused = [t \in Transfers |-> FALSE]
    /\ pausedCount = 0
    /\ call = [c \in Callers |-> "idle"]
    /\ todo = [c \in Callers |-> {}]
    /\ at = [c \in Callers |-> Nothing]
    /\ saw = [c \in Callers |-> FALSE]
    /\ taken = [u \in Urgent |-> {}]
    /\ preemptions = 0

RegisterTransfer(t) ==
    /\ Unlocked
    /\ transfer[t] = "new"
    /\ transfer' = [transfer EXCEPT ![t] = "active"]
    /\ UNCHANGED <<isPaused, pausedCount, call, todo, at, saw, taken, preemptions>>

UnregisterTransfer(t) ==
    /\ Unlocked
    /\ t \in Active
    /\ transfer' = [transfer EXCEPT ![t] = "gone"]
    /\ pausedCount' = (pausedCount - (IF isPaused[t] THEN 1 ELSE 0)) % CountModulus
    /\ UNCHANGED <<isPaused, call, todo, at, saw, taken, preemptions>>

\* cleanup_completed: forgets the transfers that are complete, paused or not.
CleanupCompleted(complete) ==
    /\ Unlocked
    /\ complete # {}
    /\ transfer' = [t \in Transfers |-> IF t \in complete THEN "gone" ELSE transfer[t]]
    /\ UNCHANGED <<isPaused, pausedCount, call, todo, at, saw, taken, preemptions>>

\* A caller takes the lock for reading and starts its loop.
Begin(c, from, to, over) ==
    /\ call[c] = from
    /\ call' = [call EXCEPT ![c] = to]
    /\ todo' = [todo EXCEPT ![c] = over]
    /\ UNCHANGED <<transfer, isPaused, pausedCount, at, saw, taken>>

PauseTransfersBelow(u) ==
    /\ preemptions < MaxPreemptions
    /\ preemptions' = preemptions + 1
    /\ Begin(u, "idle", "pausing", Active \cap Preemptable[u])

ResumeTransfers(u) == Begin(u, "holding", "resuming", Active \cap taken[u]) /\ UNCHANGED preemptions

ResumeAll == Begin(Operator, "idle", "clearing", Active) /\ UNCHANGED preemptions

\* The loop reads the flag of the next transfer.
ReadFlag(c) ==
    /\ at[c] = Nothing
    /\ \E t \in todo[c] :
          /\ at' = [at EXCEPT ![c] = t]
          /\ saw' = [saw EXCEPT ![c] = isPaused[t]]
          /\ todo' = [todo EXCEPT ![c] = @ \ {t}]
    /\ UNCHANGED <<transfer, isPaused, pausedCount, call, taken, preemptions>>

\* A mutation of Pause: it pauses again, and lists only what it found running.
PauseOnlyListingNew(u) ==
    /\ call[u] = "pausing"
    /\ at[u] # Nothing
    /\ isPaused' = [isPaused EXCEPT ![at[u]] = TRUE]
    /\ taken' = [taken EXCEPT ![u] = IF saw[u] THEN @ ELSE @ \cup {at[u]}]
    /\ pausedCount' = (pausedCount + 1) % CountModulus
    /\ at' = [at EXCEPT ![u] = Nothing]
    /\ UNCHANGED <<transfer, call, todo, saw, preemptions>>

\* pause stores the flag when it read that the transfer runs; the transfer is
\* listed and counted in any case.
Pause(u) ==
    /\ call[u] = "pausing"
    /\ at[u] # Nothing
    /\ isPaused' = [isPaused EXCEPT ![at[u]] = @ \/ ~saw[u]]
    /\ taken' = [taken EXCEPT ![u] = @ \cup {at[u]}]
    /\ pausedCount' = (pausedCount + 1) % CountModulus
    /\ at' = [at EXCEPT ![u] = Nothing]
    /\ UNCHANGED <<transfer, call, todo, saw, preemptions>>

\* resume, when the flag was read as set; resume_all does not count down.
Resume(c) ==
    /\ call[c] \in {"resuming", "clearing"}
    /\ at[c] # Nothing
    /\ isPaused' = [isPaused EXCEPT ![at[c]] = @ /\ ~saw[c]]
    /\ pausedCount' = IF call[c] = "resuming" /\ saw[c] THEN (pausedCount - 1) % CountModulus ELSE pausedCount
    /\ at' = [at EXCEPT ![c] = Nothing]
    /\ UNCHANGED <<transfer, call, todo, saw, taken, preemptions>>

\* The loop is over and the lock released.
Return(c) ==
    /\ todo[c] = {} /\ at[c] = Nothing
    /\ \/ /\ call[c] = "pausing"
          /\ call' = [call EXCEPT ![c] = "holding"]
          /\ UNCHANGED <<pausedCount, taken>>
       \/ /\ call[c] = "resuming"
          /\ call' = [call EXCEPT ![c] = "idle"]
          /\ taken' = [taken EXCEPT ![c] = {}]
          /\ UNCHANGED pausedCount
       \/ /\ call[c] = "clearing"
          /\ call' = [call EXCEPT ![c] = "idle"]
          /\ pausedCount' = 0
          /\ UNCHANGED taken
    /\ UNCHANGED <<transfer, isPaused, todo, at, saw, preemptions>>

PreemptionNext ==
    \/ \E t \in Transfers : RegisterTransfer(t) \/ UnregisterTransfer(t)
    \/ \E complete \in SUBSET Active : CleanupCompleted(complete)
    \/ \E u \in Urgent : PauseTransfersBelow(u) \/ ResumeTransfers(u) \/ Pause(u)
    \/ \E c \in Callers : ReadFlag(c) \/ Resume(c) \/ Return(c)
    \/ ResumeAll

PreemptionSpec == PreemptionInit /\ [][PreemptionNext]_preemptionVars

PreemptionTypeOK ==
    /\ transfer \in [Transfers -> {"new", "active", "gone"}]
    /\ isPaused \in [Transfers -> BOOLEAN]
    /\ pausedCount \in 0 .. CountModulus - 1
    /\ call \in [Callers -> {"idle", "pausing", "holding", "resuming", "clearing"}]
    /\ todo \in [Callers -> SUBSET Transfers]
    /\ at \in [Callers -> Transfers \cup {Nothing}]
    /\ saw \in [Callers -> BOOLEAN]
    /\ taken \in [Urgent -> SUBSET Transfers]
    /\ preemptions \in 0 .. MaxPreemptions

\* When every urgent sender has resumed the transfers of its list, no transfer
\* is left paused, however the pauses and resumptions of several senders and of
\* the operator interleaved on the same transfer (pause_transfers_below returns
\* also what another sender paused, so whoever stored the flag can clear it).
QuietMeansResumed ==
    (\A u \in Urgent : call[u] = "idle") => \A t \in Active : ~isPaused[t]
=============================================================================
