--------------------------- MODULE MeshConnections ---------------------------
(***************************************************************************)
(* MeshSyncTransport (storage/mesh_sync_transport.rs) at the two ends of a *)
(* pair of formation peers, with the three tasks that use it: the handler  *)
(* of incoming connections, the node's sync polling task, and the senders  *)
(* of the sync coordinator, which go through get_or_connect.               *)
(*                                                                         *)
(* A QUIC connection is an identity in Conns.  Each end has its own view   *)
(* of it: it is in open[n] while close_reason() is none at n, and an end   *)
(* that closes it, loses it or drops its last handle is noticed by the     *)
(* other end later.                                                        *)
(***************************************************************************)
EXTENDS Naturals, FiniteSets

CONSTANTS
    Endpoints,      \* the two endpoints
    PollConns,  \* identities of connections the polling task dials
    SendConns,  \* identities of connections get_or_connect dials
    NoConn,     \* no connection
    MaxBreaks   \* bound on the breaks, rejections and restarts of a behaviour

ASSUME MeshAssumption ==
    /\ \E a, b \in Endpoints : a # b /\ Endpoints = {a, b}
    /\ NoConn \notin PollConns \cup SendConns
    /\ PollConns \cap SendConns = {}
    /\ MaxBreaks \in Nat

\* An identity is used again once nobody remembers the connection.
Conns == PollConns \cup SendConns

VARIABLES
    connections,  \* [Endpoints -> Conns \cup {NoConn}]: the map's entry for the peer
    open,         \* [Endpoints -> SUBSET Conns]: connections the end sees as open
    incoming,     \* [Endpoints -> SUBSET Conns]: in SyncProtocolHandler::accept
    accepting,    \* [Endpoints -> SUBSET Conns]: connections with an accept task
    pollConn,     \* [Endpoints -> PollConns \cup {NoConn}]: what the poll is dialling
    senderConn,   \* [Endpoints -> SendConns \cup {NoConn}]: what get_or_connect is dialling
    breaks        \* 0 .. MaxBreaks: breaks so far

meshVars == <<connections, open, incoming, accepting, pollConn, senderConn, breaks>>

Peer(n) == CHOOSE m \in Endpoints : m # n

\* The connection of the map's entry, if it is not closed.
HasOpen(n) == connections[n] \in open[n]

\* Some part of node n still has a handle of c.
Held(n, c) ==
    \/ c \in incoming[n] \cup accepting[n]
    \/ c \in {connections[n], pollConn[n], senderConn[n]}

Forgotten(c) == \A n \in Endpoints : c \notin open[n] /\ ~Held(n, c)

\* Identities are interchangeable: a new connection takes a fixed unused one.
Fresh(c, ids) == Forgotten(c) /\ c = CHOOSE d \in ids : Forgotten(d)

MeshInit ==
    /\ connections = [n \in Endpoints |-> NoConn]
    /\ open = [n \in Endpoints |-> {}]
    /\ incoming = [n \in Endpoints |-> {}]
    /\ accepting = [n \in Endpoints |-> {}]
    /\ pollConn = [n \in Endpoints |-> NoConn]
    /\ senderConn = [n \in Endpoints |-> NoConn]
    /\ breaks = 0

-----------------------------------------------------------------------------
\* The transport's operations on the map.

insert_connection(n, c) == connections' = [connections EXCEPT ![n] = c]

remove_connection(n) == connections' = [connections EXCEPT ![n] = NoConn]

\* start_sync_connection stores the connection and spawns its accept task.
start_sync_connection(n, c) ==
    /\ insert_connection(n, c)
    /\ accepting' = [accepting EXCEPT ![n] = @ \cup {c}]

\* Endpoint::connect: the handshake is done and the peer's router has handed
\* the connection to SyncProtocolHandler::accept.
Connect(n, c) ==
    /\ open' = [m \in Endpoints |-> open[m] \cup {c}]
    /\ incoming' = [incoming EXCEPT ![Peer(n)] = @ \cup {c}]

-----------------------------------------------------------------------------
\* SyncProtocolHandler::accept.

\* The certificate and the response to the challenge are valid.  The dialling
\* end reads the verdict before or after the connection is started here.
AcceptIncoming(n, c) ==
    /\ c \in incoming[n] \cap open[n]
    /\ incoming' = [incoming EXCEPT ![n] = @ \ {c}]
    /\ start_sync_connection(n, c)
    /\ UNCHANGED <<open, pollConn, senderConn, breaks>>

\* No valid certificate, or the authentication failed: the handler closes the
\* connection.  With the connection open that is a fault of the peer.
RejectIncoming(n, c) ==
    /\ c \in incoming[n]
    /\ c \in open[n] => breaks < MaxBreaks
    /\ breaks' = IF c \in open[n] THEN breaks + 1 ELSE breaks
    /\ incoming' = [incoming EXCEPT ![n] = @ \ {c}]
    /\ open' = [open EXCEPT ![n] = @ \ {c}]
    /\ UNCHANGED <<connections, accepting, pollConn, senderConn>>

-----------------------------------------------------------------------------
\* The sync polling task of the node.

\* A mutation: connected_peers only reads the map.
connected_peersKeepsClosed(n) == UNCHANGED connections

\* connected_peers forgets a closed connection.
connected_peers(n) ==
    IF HasOpen(n) THEN UNCHANGED connections ELSE remove_connection(n)

\* A tick that finds an entry, open or not, does not dial and goes on to
\* connected_peers.
PollTick(n) ==
    /\ pollConn[n] = NoConn
    /\ connections[n] # NoConn
    /\ connected_peers(n)
    /\ UNCHANGED <<open, incoming, accepting, pollConn, senderConn, breaks>>

\* A tick that finds none calls connect_and_authenticate.
PollDial(n) ==
    /\ pollConn[n] = NoConn
    /\ connections[n] = NoConn
    /\ \E c \in PollConns :
          /\ Fresh(c, PollConns)
          /\ Connect(n, c)
          /\ pollConn' = [pollConn EXCEPT ![n] = c]
    /\ UNCHANGED <<connections, accepting, senderConn, breaks>>

\* connect_and_authenticate returned: the connection is stored and started, or
\* it failed and connected_peers finds what there is.
PollConnected(n) ==
    /\ pollConn[n] # NoConn
    /\ \/ /\ pollConn[n] \in open[n]
          /\ start_sync_connection(n, pollConn[n])
       \/ /\ pollConn[n] \notin open[n]
          /\ connected_peers(n)
          /\ UNCHANGED accepting
    /\ pollConn' = [pollConn EXCEPT ![n] = NoConn]
    /\ UNCHANGED <<open, incoming, senderConn, breaks>>

-----------------------------------------------------------------------------
\* get_or_connect, called to send a message, a response, a batch or a heartbeat.

\* There is no open connection in the map: a closed one is removed, a new one
\* is dialled.  (With an open one the call returns it and changes nothing.)
SenderDial(n) ==
    /\ senderConn[n] = NoConn
    /\ ~HasOpen(n)
    /\ remove_connection(n)
    /\ \E c \in SendConns :
          /\ Fresh(c, SendConns)
          /\ Connect(n, c)
          /\ senderConn' = [senderConn EXCEPT ![n] = c]
    /\ UNCHANGED <<accepting, pollConn, breaks>>

\* connect_and_authenticate returned: the connection is stored, but nobody
\* starts an accept task for it.
SenderConnected(n) ==
    /\ senderConn[n] # NoConn
    /\ \/ /\ senderConn[n] \in open[n]
          /\ insert_connection(n, senderConn[n])
       \/ /\ senderConn[n] \notin open[n]
          /\ UNCHANGED connections
    /\ senderConn' = [senderConn EXCEPT ![n] = NoConn]
    /\ UNCHANGED <<open, incoming, accepting, pollConn, breaks>>

-----------------------------------------------------------------------------
\* Connections that end.

\* The end finds the connection lost (idle timeout, transport error).
Break(n, c) ==
    /\ breaks < MaxBreaks
    /\ c \in open[n]
    /\ open' = [open EXCEPT ![n] = @ \ {c}]
    /\ breaks' = breaks + 1
    /\ UNCHANGED <<connections, incoming, accepting, pollConn, senderConn>>

\* The other end closed, lost or dropped the connection, and it shows here.
PeerClosed(n, c) ==
    /\ c \in open[n]
    /\ c \notin open[Peer(n)] \/ ~Held(Peer(n), c)
    /\ open' = [open EXCEPT ![n] = @ \ {c}]
    /\ UNCHANGED <<connections, incoming, accepting, pollConn, senderConn, breaks>>

\* A mutation: the accept task leaves the map alone.
AcceptTaskEndsQuietly(n, c) ==
    /\ c \in accepting[n] \ open[n]
    /\ accepting' = [accepting EXCEPT ![n] = @ \ {c}]
    /\ UNCHANGED <<connections, open, incoming, pollConn, senderConn, breaks>>

\* accept_bi fails and the accept task ends: it removes the entry of the peer,
\* whichever connection that holds by now (and forgets the peer's sync state).
AcceptTaskEnds(n, c) ==
    /\ c \in accepting[n] \ open[n]
    /\ accepting' = [accepting EXCEPT ![n] = @ \ {c}]
    /\ remove_connection(n)
    /\ UNCHANGED <<open, incoming, pollConn, senderConn, breaks>>

\* The node restarts with an empty map.
Restart(n) ==
    /\ breaks < MaxBreaks
    /\ breaks' = breaks + 1
    /\ remove_connection(n)
    /\ open' = [open EXCEPT ![n] = {}]
    /\ incoming' = [incoming EXCEPT ![n] = {}]
    /\ accepting' = [accepting EXCEPT ![n] = {}]
    /\ pollConn' = [pollConn EXCEPT ![n] = NoConn]
    /\ senderConn' = [senderConn EXCEPT ![n] = NoConn]

-----------------------------------------------------------------------------

MeshNext ==
    \E n \in Endpoints :
        \/ PollTick(n) \/ PollDial(n) \/ PollConnected(n)
        \/ SenderDial(n) \/ SenderConnected(n)
        \/ \E c \in Conns :
              \/ AcceptIncoming(n, c) \/ RejectIncoming(n, c)
              \/ Break(n, c) \/ PeerClosed(n, c) \/ AcceptTaskEnds(n, c)
        \/ Restart(n)

MeshSpec == MeshInit /\ [][MeshNext]_meshVars

\* What the code's tasks do of themselves: the poll ticks and its calls return,
\* sends that dial return, incoming connections are handled.
PollStep(n) == PollTick(n) \/ PollDial(n) \/ PollConnected(n)
IncomingStep(n, c) == AcceptIncoming(n, c) \/ (c \notin open[n] /\ RejectIncoming(n, c))

MeshTypeOK ==
    /\ connections \in [Endpoints -> Conns \cup {NoConn}]
    /\ open \in [Endpoints -> SUBSET Conns]
    /\ incoming \in [Endpoints -> SUBSET Conns]
    /\ accepting \in [Endpoints -> SUBSET Conns]
    /\ pollConn \in [Endpoints -> PollConns \cup {NoConn}]
    /\ senderConn \in [Endpoints -> SendConns \cup {NoConn}]
    /\ breaks \in 0 .. MaxBreaks

-----------------------------------------------------------------------------

\* The only connection in the map without an accept task is one that
\* get_or_connect dialled from this end: the accept task of a connection that
\* is replaced, and the one that ends for another connection, never leave an
\* entry behind that is not served (start_sync_connection, AcceptTaskEnds).
EntryIsServed ==
    \A n \in Endpoints :
        connections[n] \in accepting[n] \cup SendConns \cup {NoConn}

\* The bound on identities is reached.
OutOfIdentities == \A c \in PollConns : ~Forgotten(c)

\* Once connections stop failing, both ends settle on an entry that is open at
\* both ends, although an ending accept task removes the entry of a newer
\* connection and the poll does not dial a peer with a closed entry
\* (AcceptTaskEnds, PollTick).
Reconnects ==
    \/ <>[](\A n \in Endpoints : connections[n] \in open[n] \cap open[Peer(n)])
    \/ <>OutOfIdentities
=============================================================================
