----------------------------- MODULE DocumentSync -----------------------------
(***************************************************************************)
(* How the sync coordinators of connected nodes exchange one document      *)
(* (storage/automerge_sync.rs): delta messages with a sync state per peer, *)
(* state snapshots and batches.  Its deletion is DeletionSync's subject.   *)
(*                                                                         *)
(* A document is the set of its changes, which is what its heads stand     *)
(* for.  Every message goes over a stream of its own and is handled in a   *)
(* task of its own, so messages overtake each other; they are lost only    *)
(* with the connection.  The handlers are atomic here: the interleavings   *)
(* inside one are the subject of AutomergeStore.                           *)
(***************************************************************************)
EXTENDS Naturals, FiniteSets

CONSTANTS
    Nodes,      \* nodes, all connected with each other
    Changes,    \* changes the applications may make, each once
    Slots,      \* 1 .. k: the messages that can be in flight at a time
    Unknown,    \* a sync state knows nothing of the peer's heads
    NoMsg,      \* an unused slot
    MaxSyncEvents   \* bound on writes, broken connections and failed receptions

ASSUME SyncAssumption ==
    /\ Slots \subseteq Nat
    /\ MaxSyncEvents \in Nat

VARIABLES
    mode,       \* "delta" or "snapshot": the sync mode of the collection
    doc,        \* [Nodes -> SUBSET Changes]: the stored document
    stored,     \* [Nodes -> BOOLEAN]: the store has the document
    peerState,  \* [Nodes -> [Nodes -> SyncState]]: peer_states of the document
    pending,    \* [Nodes -> [Nodes -> SyncState or Unknown]]: of an initiate that has
                \*   sent its message and not yet stored the state
    net,        \* [Slots -> Message or NoMsg]: document messages in flight
    toClear,    \* SUBSET (Nodes \X Nodes): accept tasks of broken connections that
                \*   have still to clear the peer's sync state
    written,    \* SUBSET Changes: history, the changes made
    faults,     \* Nat: connections broken and receptions failed so far
    dropped,    \* BOOLEAN: history, a node failed to apply a message
    overtaken   \* BOOLEAN: history, a state was cleared between a send and its StoreState

docVars == <<doc, stored, written>>
syncVars == <<mode, docVars, peerState, pending, net, toClear, faults, dropped, overtaken>>

Peers(n) == Nodes \ {n}

-----------------------------------------------------------------------------
(***************************************************************************)
(* Automerge's sync protocol, as the coordinator uses it: the state kept   *)
(* per peer, generate_sync_message and receive_sync_message.               *)
(***************************************************************************)

NewState ==
    [theirs |-> Unknown, last |-> {}, sent |-> {}, inFlight |-> FALSE, responded |-> FALSE]

\* Changes the peer is not known to have and has not been sent.
ChangesToSend(d, s) == IF s.theirs = Unknown THEN {} ELSE d \ (s.theirs \cup s.sent)

\* generate_sync_message returns None.
NothingToSend(d, s) ==
    /\ s.responded
    /\ s.last = d
    /\ s.inFlight \/ (s.theirs = d /\ ChangesToSend(d, s) = {})

\* The state after generate_sync_message returned a message.
Generated(d, s) ==
    [theirs |-> s.theirs, last |-> d, sent |-> s.sent \cup ChangesToSend(d, s),
     inFlight |-> TRUE, responded |-> TRUE]

\* The state after receive_sync_message, with document d before it.
Received(d, s, heads, changes) ==
    [theirs |-> heads,
     last |-> IF heads = {} THEN {} ELSE IF changes = {} /\ heads = d THEN heads ELSE s.last,
     sent |-> IF heads = {} THEN {} ELSE s.sent \ heads,
     inFlight |-> FALSE,
     responded |-> s.responded]

\* Sync converged: a fresh state (its shared heads only shorten messages).
Converged(s) == NewState

-----------------------------------------------------------------------------

SyncInit ==
    /\ mode \in {"delta", "snapshot"}
    /\ doc = [n \in Nodes |-> {}]
    /\ stored = [n \in Nodes |-> FALSE]
    /\ peerState = [n \in Nodes |-> [m \in Nodes |-> NewState]]
    /\ pending = [n \in Nodes |-> [m \in Nodes |-> Unknown]]
    /\ net = [i \in Slots |-> NoMsg]
    /\ toClear = {}
    /\ written = {}
    /\ faults = 0
    /\ dropped = FALSE
    /\ overtaken = FALSE

WithinBound == Cardinality(written) + faults < MaxSyncEvents

\* The application changes the document, or makes it.
WriteDoc(n, c) ==
    /\ WithinBound
    /\ c \notin written
    /\ doc' = [doc EXCEPT ![n] = @ \cup {c}]
    /\ stored' = [stored EXCEPT ![n] = TRUE]
    /\ written' = written \cup {c}
    /\ UNCHANGED <<mode, peerState, pending, net, toClear, faults, dropped, overtaken>>

\* A stream with the message; the slot is the first free one.
Free(i, slots) == slots[i] = NoMsg /\ \A j \in Slots : j < i => slots[j] # NoMsg

Delta(n, m, d, s) ==
    [from |-> n, to |-> m, kind |-> "delta", heads |-> d, changes |-> ChangesToSend(d, s)]

Snapshot(n, m, d) ==
    [from |-> n, to |-> m, kind |-> "snapshot", heads |-> d, changes |-> d]

-----------------------------------------------------------------------------
\* Sending documents.

\* initiate_sync_inner up to the end of the send: a copy of the sync state is
\* used for the message and stored only when the send has returned.
\* (Without a message to send, or with the send refused or failed, the call
\* changes nothing.)
InitiateFrom(n, m, s) ==
    /\ stored[n]
    /\ pending[n][m] = Unknown
    /\ \E i \in Slots :
          /\ Free(i, net)
          /\ \/ /\ mode = "snapshot"
                /\ net' = [net EXCEPT ![i] = Snapshot(n, m, doc[n])]
                /\ UNCHANGED pending
             \/ /\ mode = "delta"
                /\ ~NothingToSend(doc[n], s)
                /\ net' = [net EXCEPT ![i] = Delta(n, m, doc[n], s)]
                /\ pending' = [pending EXCEPT ![n][m] = Generated(doc[n], s)]

Initiate(n, m) ==
    /\ InitiateFrom(n, m, peerState[n][m])
    /\ UNCHANGED <<mode, docVars, peerState, toClear, faults, dropped, overtaken>>

\* update_sync_state after the send.
StoreState(n, m) ==
    /\ pending[n][m] # Unknown
    /\ peerState' = [peerState EXCEPT ![n][m] = pending[n][m]]
    /\ pending' = [pending EXCEPT ![n][m] = Unknown]
    /\ UNCHANGED <<mode, docVars, net, toClear, faults, dropped, overtaken>>

\* sync_document_with_all_peers: the document's states are cleared, then every
\* peer is synced with; this is the first of them.
SyncWithAll(n, m) ==
    /\ InitiateFrom(n, m, NewState)
    /\ peerState' = [peerState EXCEPT ![n] = [k \in Nodes |-> NewState]]
    /\ UNCHANGED <<mode, docVars, toClear, faults, dropped, overtaken>>

\* sync_documents_batch: the document's states are cleared and the message is
\* made from a state of its own, which is not stored.
SendBatch(n, m) ==
    /\ stored[n]
    /\ peerState' = [peerState EXCEPT ![n] = [k \in Nodes |-> NewState]]
    /\ \E i \in Slots :
          /\ Free(i, net)
          /\ net' = [net EXCEPT ![i] = IF mode = "snapshot" THEN Snapshot(n, m, doc[n])
                                       ELSE Delta(n, m, doc[n], NewState)]
    /\ UNCHANGED <<mode, docVars, pending, toClear, faults, dropped, overtaken>>

-----------------------------------------------------------------------------
\* Receiving documents.

\* receive_sync_message: merge, store, answer on a stream of its own.
ReceiveDelta(i) ==
    LET msg == net[i]
        n == msg.to
        m == msg.from
        merged == doc[n] \cup msg.changes
        s == Received(doc[n], peerState[n][m], msg.heads, msg.changes)
    IN  /\ msg # NoMsg
        /\ msg.kind = "delta"
        /\ doc' = [doc EXCEPT ![n] = merged]
        /\ stored' = [stored EXCEPT ![n] = TRUE]
        /\ \/ /\ NothingToSend(merged, s)
              /\ peerState' = [peerState EXCEPT ![n][m] = Converged(s)]
              /\ net' = [net EXCEPT ![i] = NoMsg]
           \/ /\ ~NothingToSend(merged, s)
              /\ peerState' = [peerState EXCEPT ![n][m] = Generated(merged, s)]
              /\ net' = [net EXCEPT ![i] = Delta(n, m, merged, s)]
        /\ UNCHANGED <<mode, pending, toClear, written, faults, dropped, overtaken>>

\* A mutation: the snapshot replaces the document.
ReceiveSnapshotReplaces(i) ==
    LET msg == net[i]
        n == msg.to
    IN  /\ msg # NoMsg
        /\ msg.kind = "snapshot"
        /\ doc' = [doc EXCEPT ![n] = msg.changes]
        /\ stored' = [stored EXCEPT ![n] = TRUE]
        /\ net' = [net EXCEPT ![i] = NoMsg]
        /\ UNCHANGED <<mode, peerState, pending, toClear, written, faults, dropped, overtaken>>

\* apply_state_snapshot: merge and store.
ReceiveSnapshot(i) ==
    LET msg == net[i]
        n == msg.to
    IN  /\ msg # NoMsg
        /\ msg.kind = "snapshot"
        /\ doc' = [doc EXCEPT ![n] = @ \cup msg.changes]
        /\ stored' = [stored EXCEPT ![n] = TRUE]
        /\ net' = [net EXCEPT ![i] = NoMsg]
        /\ UNCHANGED <<mode, peerState, pending, toClear, written, faults, dropped, overtaken>>

\* The handler returns an error before it has changed anything (the stream
\* breaks off, the store fails): the message is gone, the connection is not.
ReceiveFails(i) ==
    /\ WithinBound
    /\ net[i] # NoMsg
    /\ net' = [net EXCEPT ![i] = NoMsg]
    /\ faults' = faults + 1
    /\ dropped' = TRUE
    /\ UNCHANGED <<mode, docVars, peerState, pending, toClear, overtaken>>

-----------------------------------------------------------------------------
\* Connections.

\* The connection of n and m breaks and is made again; what was in flight on
\* it is lost.  The accept task of each end will clear the peer's states.
BreakConnection(n, m) ==
    /\ WithinBound
    /\ faults' = faults + 1
    /\ net' = [i \in Slots |-> IF net[i] # NoMsg /\ {net[i].from, net[i].to} = {n, m}
                               THEN NoMsg ELSE net[i]]
    /\ toClear' = toClear \cup {<<n, m>>, <<m, n>>}
    /\ UNCHANGED <<mode, docVars, peerState, pending, dropped, overtaken>>

\* A mutation: the sync states outlive the connection.
ClearPeerStateNot(n, m) ==
    /\ <<n, m>> \in toClear
    /\ toClear' = toClear \ {<<n, m>>}
    /\ UNCHANGED <<mode, docVars, peerState, pending, net, faults, dropped, overtaken>>

\* clear_peer_sync_state at the end of the accept task.
ClearPeerState(n, m) ==
    /\ <<n, m>> \in toClear
    /\ toClear' = toClear \ {<<n, m>>}
    /\ peerState' = [peerState EXCEPT ![n][m] = NewState]
    /\ overtaken' = (overtaken \/ pending[n][m] # Unknown)
    /\ UNCHANGED <<mode, docVars, pending, net, faults, dropped>>

-----------------------------------------------------------------------------

SyncNext ==
    \/ \E n \in Nodes :
          \/ \E c \in Changes : WriteDoc(n, c)
          \/ \E m \in Peers(n) :
                \/ Initiate(n, m) \/ StoreState(n, m) \/ SyncWithAll(n, m) \/ SendBatch(n, m)
                \/ BreakConnection(n, m) \/ ClearPeerState(n, m)
    \/ \E i \in Slots :
          ReceiveDelta(i) \/ ReceiveSnapshot(i) \/ ReceiveFails(i)

SyncSpec == SyncInit /\ [][SyncNext]_syncVars

\* The polling task of every node syncs with every peer again and again, what
\* is sent is received, and tasks that have begun go on.
SyncFairness ==
    /\ \A n \in Nodes : \A m \in Peers(n) :
          /\ SF_syncVars(Initiate(n, m))
          /\ WF_syncVars(StoreState(n, m)) /\ WF_syncVars(ClearPeerState(n, m))
    /\ \A i \in Slots : WF_syncVars((ReceiveDelta(i) \/ ReceiveSnapshot(i)))

SyncFairSpec == SyncSpec /\ SyncFairness

-----------------------------------------------------------------------------

Message ==
    [from : Nodes, to : Nodes, kind : {"delta", "snapshot"},
     heads : SUBSET Changes, changes : SUBSET Changes]

SyncState ==
    [theirs : SUBSET Changes \cup {Unknown}, last : SUBSET Changes, sent : SUBSET Changes,
     inFlight : BOOLEAN, responded : BOOLEAN]

SyncTypeOK ==
    /\ mode \in {"delta", "snapshot"}
    /\ doc \in [Nodes -> SUBSET Changes]
    /\ stored \in [Nodes -> BOOLEAN]
    /\ peerState \in [Nodes -> [Nodes -> SyncState]]
    /\ pending \in [Nodes -> [Nodes -> SyncState \cup {Unknown}]]
    /\ net \in [Slots -> Message \cup {NoMsg}]
    /\ toClear \subseteq Nodes \X Nodes
    /\ written \subseteq Changes
    /\ faults \in 0 .. MaxSyncEvents
    /\ dropped \in BOOLEAN
    /\ overtaken \in BOOLEAN

\* The coordinators implement the replicated document: whatever is in flight,
\* lost, overtaken, batched or dropped, a node stores only changes somebody
\* made, and never loses one.
Replicas == INSTANCE ReplicatedDocument WITH replica <- doc
Replicates == Replicas!ReplicaSpec

\* The nodes end up with the same document when writing has stopped, although
\* an initiate stores an older sync state over a newer one (StoreState) and an
\* accept task clears the state of a connection that is already replaced
\* (ClearPeerState); unless a reception failed, or a state was stored again
\* after it had been cleared.
Converges ==
    <>[](\A n, m \in Nodes : doc[n] = doc[m]) \/ <>(dropped \/ overtaken)

\* "Without this, reconnecting peers may fail to sync because the stale sync
\* state thinks "I already sent those changes" even though the peer never
\* received them": with clear_peer_sync_state the nodes do end up with the same
\* document after a connection was lost.
ConvergesAfterReconnect == <>[](\A n, m \in Nodes : doc[n] = doc[m]) \/ <>dropped
=============================================================================
