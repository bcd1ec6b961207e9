-------------------------- MODULE PartitionDetection --------------------------
(***************************************************************************)
(* The partition detector of one node (storage/partition_detection.rs) and *)
(* the heartbeat rounds of the sync coordinator that feed it               *)
(* (storage/automerge_sync.rs): send_heartbeats_to_all_peers, the incoming *)
(* heartbeats and check_partition_timeouts.                                *)
(***************************************************************************)
EXTENDS Naturals

CONSTANTS
    Watched,          \* the peers
    MissThreshold,    \* PartitionConfig.failure_threshold
    Interval,         \* PartitionConfig.heartbeat_interval, in ticks
    Timeout,          \* PartitionConfig.heartbeat_timeout, in ticks
    MaxFlips          \* bound on the peers' deaths, returns, disconnections and removals

ASSUME PartitionAssumption ==
    /\ MissThreshold \in Nat \ {0}
    /\ Interval \in Nat
    /\ Timeout \in Nat
    /\ Interval <= Timeout
    /\ MaxFlips \in Nat

VARIABLES
    heartbeats,   \* SUBSET Watched: the peers registered
    hbState,     \* [Watched -> PeerPartitionState]
    silence,      \* [Watched -> 0 .. Timeout + 1]: ticks since last_heartbeat, saturating
    failures,     \* [Watched -> 0 .. MissThreshold]: consecutive_failures, saturating
    detected,     \* SUBSET Watched: partition_detected_at is Some
    linked,       \* SUBSET Watched: connected_peers of the transport
    alive,        \* SUBSET Watched: the peers that send and accept heartbeats
    flips         \* 0 .. MaxFlips

partitionVars == <<heartbeats, hbState, silence, failures, detected, linked, alive, flips>>

PeerPartitionState == {"Connected", "Partitioned", "Recovering"}
IsPartitioned(p) == hbState[p] = "Partitioned"

PartitionInit ==
    /\ heartbeats = {}
    /\ hbState = [p \in Watched |-> "Connected"]
    /\ silence = [p \in Watched |-> 0]
    /\ failures = [p \in Watched |-> 0]
    /\ detected = {}
    /\ linked = Watched
    /\ alive = Watched
    /\ flips = 0

\* register_peer, which leaves a peer that is registered alone, and
\* record_failure after it if the heartbeat could not be sent.
HeartbeatTo(p, sent) ==
    LET known == p \in heartbeats
        count == IF known THEN failures[p] ELSE 0
        failed == IF sent THEN count
                  ELSE IF count < MissThreshold THEN count + 1 ELSE count
        before == IF known THEN hbState[p] ELSE "Connected"
        detects == ~sent /\ failed >= MissThreshold /\ before # "Partitioned"
    IN  /\ p \in linked
        /\ sent = (p \in alive)
        /\ heartbeats' = heartbeats \cup {p}
        /\ failures' = [failures EXCEPT ![p] = failed]
        /\ hbState' = [hbState EXCEPT ![p] = IF detects THEN "Partitioned" ELSE before]
        /\ detected' = IF detects THEN detected \cup {p} ELSE detected
        /\ silence' = [silence EXCEPT ![p] = IF known THEN @ ELSE 0]
        /\ UNCHANGED <<linked, alive, flips>>

\* A mutation of HeartbeatFrom: the count of failures is not reset.
HeartbeatFromKeepingFailures(p) ==
    /\ p \in alive \cap heartbeats
    /\ silence' = [silence EXCEPT ![p] = 0]
    /\ hbState' = [hbState EXCEPT ![p] = IF IsPartitioned(p) THEN "Recovering" ELSE "Connected"]
    /\ detected' = detected \ {p}
    /\ UNCHANGED <<heartbeats, failures, linked, alive, flips>>

\* handle_incoming_heartbeat and handle_incoming_heartbeat_stream: record_success,
\* for a registered peer.
HeartbeatFrom(p) ==
    /\ p \in alive
    /\ p \in heartbeats
    /\ silence' = [silence EXCEPT ![p] = 0]
    /\ failures' = [failures EXCEPT ![p] = 0]
    /\ \/ /\ IsPartitioned(p)
          /\ hbState' = [hbState EXCEPT ![p] = "Recovering"]
          /\ detected' = detected \ {p}
       \/ /\ ~IsPartitioned(p)
          /\ hbState' = [hbState EXCEPT ![p] = "Connected"]
          /\ UNCHANGED detected
    /\ UNCHANGED <<heartbeats, linked, alive, flips>>

\* A mutation of CheckTimeouts: peers that are Recovering are passed over.
CheckTimeoutsOfConnected ==
    LET timedOut == {p \in heartbeats : hbState[p] = "Connected" /\ silence[p] > Timeout}
    IN  /\ timedOut # {}
        /\ hbState' = [p \in Watched |-> IF p \in timedOut THEN "Partitioned" ELSE hbState[p]]
        /\ detected' = detected \cup timedOut
        /\ UNCHANGED <<heartbeats, silence, failures, linked, alive, flips>>

\* check_timeouts, for all registered peers.
CheckTimeouts ==
    LET timedOut == {p \in heartbeats : ~IsPartitioned(p) /\ silence[p] > Timeout}
    IN  /\ timedOut # {}
        /\ hbState' = [p \in Watched |-> IF p \in timedOut THEN "Partitioned" ELSE hbState[p]]
        /\ detected' = detected \cup timedOut
        /\ UNCHANGED <<heartbeats, silence, failures, linked, alive, flips>>

UnregisterPeer(p) ==
    /\ p \in heartbeats
    /\ flips < MaxFlips
    /\ flips' = flips + 1
    /\ heartbeats' = heartbeats \ {p}
    /\ hbState' = [hbState EXCEPT ![p] = "Connected"]
    /\ silence' = [silence EXCEPT ![p] = 0]
    /\ failures' = [failures EXCEPT ![p] = 0]
    /\ detected' = detected \ {p}
    /\ UNCHANGED <<linked, alive>>

\* The peer falls silent or returns, with or without its connection.
PeerFlips(p) ==
    /\ flips < MaxFlips
    /\ flips' = flips + 1
    /\ \/ alive' = alive \ {p} /\ linked' \in {linked, linked \ {p}}
       \/ alive' = alive \cup {p} /\ linked' = linked \cup {p}
    /\ UNCHANGED <<heartbeats, hbState, silence, failures, detected>>

\* Time passes.  A peer that is alive sends its heartbeat every Interval.
PartitionTick ==
    /\ \A p \in heartbeats \cap alive : silence[p] < Interval
    /\ silence' = [p \in Watched |->
                     IF p \in heartbeats /\ silence[p] <= Timeout THEN silence[p] + 1 ELSE silence[p]]
    /\ UNCHANGED <<heartbeats, hbState, failures, detected, linked, alive, flips>>

PartitionNext ==
    \/ \E p \in Watched :
          \/ \E sent \in BOOLEAN : HeartbeatTo(p, sent)
          \/ HeartbeatFrom(p) \/ UnregisterPeer(p) \/ PeerFlips(p)
    \/ CheckTimeouts
    \/ PartitionTick

PartitionSpec == PartitionInit /\ [][PartitionNext]_partitionVars

PartitionTypeOK ==
    /\ heartbeats \subseteq Watched
    /\ hbState \in [Watched -> PeerPartitionState]
    /\ silence \in [Watched -> 0 .. Timeout + 1]
    /\ failures \in [Watched -> 0 .. MissThreshold]
    /\ detected \subseteq heartbeats
    /\ linked \subseteq Watched
    /\ alive \subseteq Watched
    /\ flips \in 0 .. MaxFlips

\* A peer is held partitioned exactly while partition_detected_at is set, it is
\* so whenever its failures have reached the threshold, and it is never so
\* without a cause that still stands: failures at the threshold or silence past
\* the timeout, however failures, late heartbeats and timeouts interleave
\* (HeartbeatTo, HeartbeatFrom, CheckTimeouts).
PartitionHasCause ==
    \A p \in heartbeats :
        /\ IsPartitioned(p) <=> p \in detected
        /\ failures[p] >= MissThreshold => IsPartitioned(p)
        /\ IsPartitioned(p) => failures[p] >= MissThreshold \/ silence[p] > Timeout

\* A registered peer that stays silent is found partitioned even if its
\* connection is gone and no failure is recorded any more, and one that is
\* alive again is Connected in the end, through Recovering (CheckTimeouts,
\* HeartbeatFrom).
DetectsAndRecovers ==
    \A p \in Watched :
        p \in heartbeats
            ~> (p \in heartbeats => hbState[p] = IF p \in alive THEN "Connected" ELSE "Partitioned")
=============================================================================
