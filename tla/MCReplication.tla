---------------------------- MODULE MCReplication ----------------------------
(***************************************************************************)
(* The connections of two nodes and the sync of a document between two     *)
(* nodes, for TLC, side by side: a behaviour is one of either.             *)
(***************************************************************************)
EXTENDS MeshConnections, DocumentSync

VARIABLE mechanism   \* the mechanism that runs; the other rests

replicationVars == <<mechanism, meshVars, syncVars>>

Init ==
    /\ mechanism \in {"connections", "documents"}
    /\ MeshInit /\ SyncInit
    /\ mechanism # "documents" => mode = "delta"

Next ==
    /\ UNCHANGED mechanism
    /\ \/ mechanism = "connections" /\ MeshNext /\ UNCHANGED syncVars
       \/ mechanism = "documents" /\ SyncNext /\ UNCHANGED meshVars

\* The polling task ticks, a call that is under way returns, incoming
\* connections are handled, and a lost connection shows at both ends.
MeshRuns ==
    \A n \in Endpoints :
        /\ WF_meshVars(mechanism = "connections" /\ PollStep(n))
        /\ WF_meshVars(mechanism = "connections" /\ SenderConnected(n))
        /\ \A c \in Conns :
              /\ WF_meshVars(mechanism = "connections" /\ IncomingStep(n, c))
              /\ WF_meshVars(mechanism = "connections" /\ PeerClosed(n, c))
              /\ WF_meshVars(mechanism = "connections" /\ AcceptTaskEnds(n, c))

\* The polling task of every node syncs with every peer again and again, what
\* is sent is received, and tasks that have begun go on.
SyncRuns ==
    /\ \A n \in Nodes : \A m \in Peers(n) :
          /\ SF_syncVars(mechanism = "documents" /\ Initiate(n, m))
          /\ WF_syncVars(mechanism = "documents" /\ StoreState(n, m))
          /\ WF_syncVars(mechanism = "documents" /\ ClearPeerState(n, m))
    /\ \A i \in Slots : WF_syncVars(mechanism = "documents" /\ (ReceiveDelta(i) \/ ReceiveSnapshot(i)))

Spec == Init /\ [][Next]_replicationVars /\ MeshRuns /\ SyncRuns

\* Where the connections run, both ends settle on one that is open at both ends
\* once connections stop failing (MeshConnections!Reconnects).
MeshReconnects == Reconnects \/ <>(mechanism # "connections")
=============================================================================
