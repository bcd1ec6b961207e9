----------------------------- MODULE PeerDiscovery -----------------------------
(***************************************************************************)
(* How a node learns of its peers: the polling task of KubernetesDiscovery *)
(* (discovery/kubernetes.rs) compares what it lists with what it knew and  *)
(* sends the difference as events through a bounded channel, and the       *)
(* PeerConnector (peer_connector.rs) applies them to the blob store's      *)
(* peers, the address lookup and the formation's members.  The cluster and *)
(* the certificates change under way.                                      *)
(***************************************************************************)
EXTENDS Naturals, Sequences

CONSTANTS
    Hosts,          \* node ids, one of them the node's own
    Self,           \* in Hosts
    Addresses,      \* what a host is reached at
    Absent,         \* the address of a host that is not listed
    ChannelSize,    \* capacity of the channel of events
    MaxChanges      \* bound on changes of the cluster and of the certificates

ASSUME DiscoveryAssumption ==
    /\ Self \in Hosts
    /\ Absent \notin Addresses
    /\ ChannelSize \in Nat \ {0}
    /\ MaxChanges \in Nat

VARIABLES
    cluster,      \* [Hosts -> address]: external, the ready endpoints of the service
    certified,    \* hosts with a certificate that validates now
    discovered,   \* [Hosts -> address]: discovered, guarded by its lock
    listed,       \* [Hosts -> address]: current_peers of the poll under way
    unsent,       \* hosts whose difference the poll has not sent yet
    polling,      \* BOOLEAN: the poll holds the lock of discovered
    eventQueue,   \* the channel
    known,        \* known_peers of the blob store
    lookup,       \* [Hosts -> SUBSET Addresses]: memory_lookup
    formation,    \* FormationPeerSet
    refused,      \* history: hosts met without a certificate since they were found
    changes

discoveryVars == <<cluster, certified, discovered, listed, unsent, polling, eventQueue,
                   known, lookup, formation, refused, changes>>
pollVars == <<discovered, listed, unsent, polling>>
irohVars == <<known, lookup, formation, refused>>

PeerEvent == [kind : {"PeerFound", "PeerUpdated", "PeerLost"}, host : Hosts, address : Addresses \cup {Absent}]

Listed(at) == {h \in Hosts : at[h] # Absent}

DiscoveryInit ==
    /\ cluster \in [Hosts -> Addresses \cup {Absent}]
    /\ certified \in SUBSET Hosts
    /\ discovered = [h \in Hosts |-> Absent]
    /\ listed = discovered /\ unsent = {} /\ polling = FALSE
    /\ eventQueue = <<>>
    /\ known = {} /\ formation = {} /\ refused = {}
    /\ lookup = [h \in Hosts |-> {}]
    /\ changes = 0

\* A host comes, goes or moves (external).
ClusterChanges(h, address) ==
    /\ changes < MaxChanges /\ changes' = changes + 1
    /\ cluster[h] # address
    /\ cluster' = [cluster EXCEPT ![h] = address]
    /\ UNCHANGED <<certified, pollVars, eventQueue, irohVars>>

\* A certificate of a host arrives, or expires.
CertificateChanges(h) ==
    /\ changes < MaxChanges /\ changes' = changes + 1
    /\ certified' = IF h \in certified THEN certified \ {h} ELSE certified \cup {h}
    /\ UNCHANGED <<cluster, pollVars, eventQueue, irohVars>>

\* The poll lists the endpoints and takes the lock; a list that fails changes
\* nothing.
Poll ==
    /\ ~polling
    /\ cluster # discovered
    /\ polling' = TRUE
    /\ listed' = cluster
    /\ unsent' = {h \in Hosts : cluster[h] # discovered[h]}
    /\ UNCHANGED <<cluster, certified, discovered, eventQueue, irohVars, changes>>

EventOf(h) ==
    IF listed[h] = Absent THEN [kind |-> "PeerLost", host |-> h, address |-> Absent]
    ELSE IF discovered[h] = Absent THEN [kind |-> "PeerFound", host |-> h, address |-> listed[h]]
    ELSE [kind |-> "PeerUpdated", host |-> h, address |-> listed[h]]

\* events_tx.send waits while the channel is full.  Found and updated peers go
\* before the lost ones.
SendEvent(h) ==
    /\ polling /\ h \in unsent
    /\ Len(eventQueue) < ChannelSize
    /\ listed[h] = Absent => unsent \cap Listed(listed) = {}
    /\ eventQueue' = Append(eventQueue, EventOf(h))
    /\ unsent' = unsent \ {h}
    /\ UNCHANGED <<cluster, certified, discovered, listed, polling, irohVars, changes>>

\* The poll stores what it listed, releases the lock and sleeps.
PollEnds ==
    /\ polling /\ unsent = {}
    /\ polling' = FALSE
    /\ discovered' = listed
    /\ UNCHANGED <<cluster, certified, listed, unsent, eventQueue, irohVars, changes>>

Receive(kind) == eventQueue # <<>> /\ Head(eventQueue).kind = kind /\ eventQueue' = Tail(eventQueue)
Subject == Head(eventQueue).host
Address == Head(eventQueue).address

\* What the connector does to a host it lets go.
Forget(h) ==
    /\ known' = known \ {h}
    /\ lookup' = [lookup EXCEPT ![h] = {}]
    /\ formation' = formation \ {h}

\* PeerFound: the node itself and hosts without a valid certificate are skipped.
PeerFound ==
    /\ Receive("PeerFound")
    /\ IF Subject = Self \/ Subject \notin certified
       THEN UNCHANGED <<known, lookup, formation>>
       ELSE /\ known' = known \cup {Subject}
            /\ lookup' = [lookup EXCEPT ![Subject] = @ \cup {Address}]
            /\ formation' = formation \cup {Subject}
    /\ refused' = IF Subject \in certified THEN refused \ {Subject} ELSE refused \cup {Subject}
    /\ UNCHANGED <<cluster, certified, pollVars, changes>>

\* A mutation of PeerLost: the blob store keeps the peer.
PeerLostOfFormation ==
    /\ Receive("PeerLost")
    /\ lookup' = [lookup EXCEPT ![Subject] = {}]
    /\ formation' = formation \ {Subject}
    /\ UNCHANGED <<cluster, certified, pollVars, known, refused, changes>>

PeerLost ==
    /\ Receive("PeerLost")
    /\ Forget(Subject)
    /\ UNCHANGED <<cluster, certified, pollVars, refused, changes>>

\* PeerUpdated: a host whose certificate no longer validates is let go, and the
\* addresses of the others replaced; a host that was refused is not added.
PeerUpdated ==
    /\ Receive("PeerUpdated")
    /\ \/ Subject = Self /\ UNCHANGED irohVars
       \/ /\ Subject \notin {Self} \cup certified
          /\ Forget(Subject)
          /\ refused' = refused \cup {Subject}
       \/ /\ Subject # Self /\ Subject \in certified
          /\ lookup' = [lookup EXCEPT ![Subject] = {Address}]
          /\ UNCHANGED <<known, formation, refused>>
    /\ UNCHANGED <<cluster, certified, pollVars, changes>>

DiscoveryNext ==
    \/ \E h \in Hosts : \/ \E address \in Addresses \cup {Absent} : ClusterChanges(h, address)
                        \/ CertificateChanges(h)
                        \/ SendEvent(h)
    \/ Poll \/ PollEnds
    \/ PeerFound \/ PeerLost \/ PeerUpdated

DiscoverySpec == DiscoveryInit /\ [][DiscoveryNext]_discoveryVars

DiscoveryTypeOK ==
    /\ {cluster, discovered, listed} \subseteq [Hosts -> Addresses \cup {Absent}]
    /\ {certified, unsent, known, formation, refused} \subseteq SUBSET Hosts
    /\ polling \in BOOLEAN
    /\ eventQueue \in Seq(PeerEvent) /\ Len(eventQueue) <= ChannelSize
    /\ lookup \in [Hosts -> SUBSET Addresses]
    /\ changes \in 0 .. MaxChanges

\* Once the poll has ended and its events are handled, the blob store, the
\* formation and the address lookup agree with what was discovered: the same
\* peers, each at its one present address, and all of those that never lacked a
\* certificate when an event about them was handled.  Events of several polls
\* wait in the channel meanwhile, and hosts come back and move before the events
\* about them are handled.
DrainedMeansAgreed ==
    (~polling /\ eventQueue = <<>>) =>
        /\ known = formation
        /\ formation \subseteq Listed(discovered) \ {Self}
        /\ Listed(discovered) \ (refused \cup {Self}) \subseteq formation
        /\ \A h \in formation : lookup[h] = {discovered[h]}
=============================================================================
