---------------------------- MODULE BeaconPresence ----------------------------
(***************************************************************************)
(* How a node knows that it is cut off from the levels above it: nodes     *)
(* broadcast beacons through a shared storage (beacon/broadcaster.rs), its *)
(* BeaconObserver keeps the nearby ones (beacon/observer.rs), every        *)
(* evaluation of its TopologyBuilder hands them to the PartitionDetector   *)
(* (topology/builder.rs, topology/partition.rs), and the detector's        *)
(* handler enters and leaves autonomous operation                          *)
(* (topology/autonomous.rs).  The storage is external: it hands out the    *)
(* changes in order, and removes the beacon of a node that fell silent.    *)
(* The BeaconJanitor (beacon/janitor.rs) cleans a map of its own: the      *)
(* observer gives nobody access to the one it keeps.                       *)
(***************************************************************************)
EXTENDS Naturals, Sequences, FiniteSets

CONSTANTS
    Leaders,          \* nodes of higher levels
    MinAttempts,      \* min_detection_attempts
    MinLeaders,       \* min_higher_level_beacons
    MaxStream,        \* bound on changes under way to the observer
    MaxMoves          \* bound on starts, stops and moves

ASSUME PresenceAssumption ==
    /\ {MinAttempts, MinLeaders, MaxStream} \subseteq Nat \ {0}
    /\ MaxMoves \in Nat

VARIABLES
    beaconing,    \* nodes whose broadcaster runs
    close,        \* nodes in the observer's cell or next to it
    held,         \* beacons in the storage
    stream,       \* changes under way to the observer
    observing,    \* the observer's running flag
    nearby,       \* nearby_beacons
    snapshot,     \* the beacons the evaluation under way has read
    evaluating,   \* BOOLEAN
    attempts,     \* detection_attempts, saturating at MinAttempts
    waits,        \* BOOLEAN: the backoff since the last attempt is not over
    partitioned,  \* PartitionDetector.partitioned
    autonomous,   \* AutonomousState
    blind,        \* history: attempts since a check last saw enough leaders, saturating
    missed,       \* history: beacons removed unobserved since they were last seen
    moves

presenceVars == <<beaconing, close, held, stream, observing, nearby, snapshot, evaluating,
                  attempts, waits, partitioned, autonomous, blind, missed, moves>>
viewVars == <<observing, nearby>>
detectorVars == <<snapshot, evaluating, attempts, waits, partitioned, autonomous, blind>>

PresenceInit ==
    /\ beaconing = {} /\ close = Leaders /\ held = {}
    /\ stream = <<>>
    /\ observing = FALSE /\ nearby = {}
    /\ snapshot = {} /\ evaluating = FALSE
    /\ attempts = 0 /\ waits = FALSE
    /\ partitioned = FALSE /\ autonomous = FALSE
    /\ blind = 0 /\ missed = {}
    /\ moves = 0

Moves == moves < MaxMoves /\ moves' = moves + 1

\* start and stop of a broadcaster, and the end of its node.
StartBroadcaster(n) ==
    /\ Moves /\ n \notin beaconing
    /\ beaconing' = beaconing \cup {n}
    /\ UNCHANGED <<close, held, stream, viewVars, detectorVars, missed>>

StopBroadcaster(n) ==
    /\ Moves /\ n \in beaconing
    /\ beaconing' = beaconing \ {n}
    /\ UNCHANGED <<close, held, stream, viewVars, detectorVars, missed>>

\* update_position: the next beacon carries the new cell.
UpdatePosition(n) ==
    /\ Moves
    /\ close' = IF n \in close THEN close \ {n} ELSE close \cup {n}
    /\ UNCHANGED <<beaconing, held, stream, viewVars, detectorVars, missed>>

Publish(change) == stream' = IF observing THEN Append(stream, change) ELSE stream

\* A tick of a broadcaster: save_beacon, which the observer's subscription shows.
Broadcast(n) ==
    /\ n \in beaconing
    /\ Len(stream) < MaxStream
    /\ held' = held \cup {n}
    /\ Publish([kind |-> "Updated", node |-> n, close |-> n \in close])
    /\ UNCHANGED <<beaconing, close, viewVars, detectorVars, missed, moves>>

\* The storage drops the beacon of a node that fell silent (external).
StorageExpires(n) ==
    /\ n \in held \ beaconing
    /\ Len(stream) < MaxStream
    /\ held' = held \ {n}
    /\ Publish([kind |-> "Removed", node |-> n, close |-> FALSE])
    /\ missed' = IF observing THEN missed ELSE missed \cup {n}
    /\ UNCHANGED <<beaconing, close, viewVars, detectorVars, moves>>

\* The observer subscribes: it is shown what changes from now on.
StartObserver ==
    /\ Moves /\ ~observing
    /\ observing' = TRUE
    /\ UNCHANGED <<beaconing, close, held, stream, nearby, detectorVars, missed>>

StopObserver ==
    /\ Moves /\ observing
    /\ observing' = FALSE
    /\ stream' = <<>>
    /\ missed' = missed \cup {stream[i].node : i \in {j \in DOMAIN stream : stream[j].kind = "Removed"}}
    /\ UNCHANGED <<beaconing, close, held, nearby, detectorVars>>

\* A mutation of Observe: removals are ignored.
ObserveArrivals ==
    /\ stream # <<>>
    /\ stream' = Tail(stream)
    /\ nearby' = IF Head(stream).close THEN nearby \cup {Head(stream).node} ELSE nearby
    /\ missed' = missed \ {Head(stream).node}
    /\ UNCHANGED <<beaconing, close, held, observing, detectorVars, moves>>

\* One change reaches the observer.  A beacon that is not close is passed over,
\* and an older one of the same node kept.
Observe ==
    /\ stream # <<>>
    /\ stream' = Tail(stream)
    /\ LET change == Head(stream)
       IN  /\ nearby' = IF change.kind = "Removed" THEN nearby \ {change.node}
                        ELSE IF change.close THEN nearby \cup {change.node} ELSE nearby
           /\ missed' = missed \ {change.node}
    /\ UNCHANGED <<beaconing, close, held, observing, detectorVars, moves>>

\* The builder's evaluation reads the nearby beacons ...
EvaluateReads ==
    /\ ~evaluating
    /\ evaluating' = TRUE
    /\ snapshot' = nearby
    /\ UNCHANGED <<beaconing, close, held, stream, viewVars, attempts, waits, partitioned, autonomous,
                   blind, missed, moves>>

HasConnectivity == Cardinality(snapshot) >= MinLeaders

\* reset_detection_state, and on_partition_healed where there was a partition.
Reset ==
    /\ attempts' = 0 /\ waits' = FALSE
    /\ partitioned' = FALSE
    /\ autonomous' = (autonomous /\ ~partitioned)

\* A mutation of Reconnected: only a partition that was declared is reset.
ReconnectedIfPartitioned ==
    /\ IF partitioned THEN Reset ELSE UNCHANGED <<attempts, waits, partitioned, autonomous>>
    /\ blind' = 0

\* check_partition with enough leaders in sight.
Reconnected == Reset /\ blind' = 0

\* check_partition without: an attempt, unless the backoff is not over, and a
\* partition when there are enough of them.
Attempt ==
    IF waits THEN UNCHANGED <<attempts, waits, partitioned, autonomous, blind>>
    ELSE /\ attempts' = IF attempts < MinAttempts THEN attempts + 1 ELSE attempts
         /\ blind' = IF blind < MinAttempts THEN blind + 1 ELSE blind
         /\ waits' = TRUE
         /\ partitioned' = (partitioned \/ attempts' >= MinAttempts)
         /\ autonomous' = (autonomous \/ attempts' >= MinAttempts)

\* ... and checks for a partition, after its other work.
CheckPartition ==
    /\ evaluating
    /\ evaluating' = FALSE
    /\ snapshot' = {}
    /\ IF HasConnectivity THEN Reconnected ELSE Attempt
    /\ UNCHANGED <<beaconing, close, held, stream, viewVars, missed, moves>>

BackoffEnds ==
    /\ waits
    /\ waits' = FALSE
    /\ UNCHANGED <<beaconing, close, held, stream, viewVars, snapshot, evaluating, attempts,
                   partitioned, autonomous, blind, missed, moves>>

PresenceNext ==
    \/ \E n \in Leaders : \/ StartBroadcaster(n) \/ StopBroadcaster(n) \/ UpdatePosition(n)
                          \/ Broadcast(n) \/ StorageExpires(n)
    \/ StartObserver \/ StopObserver \/ Observe
    \/ EvaluateReads \/ CheckPartition \/ BackoffEnds

PresenceSpec == PresenceInit /\ [][PresenceNext]_presenceVars

PresenceTypeOK ==
    /\ {beaconing, close, held, nearby, snapshot, missed} \subseteq SUBSET Leaders
    /\ Len(stream) <= MaxStream
    /\ {observing, evaluating, waits, partitioned, autonomous} \subseteq BOOLEAN
    /\ {attempts, blind} \subseteq 0 .. MinAttempts
    /\ moves \in 0 .. MaxMoves

\* The node is autonomous exactly while the detector holds it partitioned, and
\* then min_detection_attempts attempts have failed since a check last saw
\* enough leaders: attempts of an earlier, shorter absence are not counted, and
\* a leader that comes and goes between two checks changes nothing.
AutonomyHasCause ==
    /\ autonomous <=> partitioned
    /\ autonomous => blind >= MinAttempts

\* A node that enough leaders go on sending beacons to ends its autonomous
\* operation for good, and one that no leader reaches any more enters it for
\* good, unless the removal of a beacon escaped its observer.
AutonomyFollowsReach ==
    /\ <>[](observing /\ Cardinality(beaconing \cap close) >= MinLeaders) => <>[]~autonomous
    /\ <>[](observing /\ beaconing = {} /\ missed = {}) => <>[]autonomous
=============================================================================
