-------------------------- MODULE ReplicatedDocument --------------------------
(***************************************************************************)
(* What a mesh of nodes promises about one replicated document: a replica  *)
(* is a set of changes, every change in it was written by some node, and   *)
(* a replica never loses one.                                              *)
(***************************************************************************)

CONSTANTS Nodes, Changes

VARIABLES
    written,   \* SUBSET Changes: the changes written so far, anywhere
    replica    \* [Nodes -> SUBSET Changes]: the document at each node

replicaVars == <<written, replica>>

ReplicaInit ==
    /\ written = {}
    /\ replica = [n \in Nodes |-> {}]

\* The application at node n changes the document.
Write(n, c) ==
    /\ c \notin written
    /\ written' = written \cup {c}
    /\ replica' = [replica EXCEPT ![n] = @ \cup {c}]

\* Node n learns changes that were written.
Learn(n, S) ==
    /\ S \subseteq written
    /\ replica' = [replica EXCEPT ![n] = @ \cup S]
    /\ UNCHANGED written

ReplicaNext ==
    \E n \in Nodes : \/ \E c \in Changes : Write(n, c)
                     \/ \E S \in SUBSET Changes : Learn(n, S)

ReplicaSpec == ReplicaInit /\ [][ReplicaNext]_replicaVars
=============================================================================
