------------------------------- MODULE MCUpkeep -------------------------------
(***************************************************************************)
(* What keeps a node in step with its peers, for TLC, side by side: the    *)
(* spread of a deletion over a chain of three nodes, the partition         *)
(* detector, the garbage collector, and the beacons that end or begin      *)
(* autonomous operation.  A behaviour is one of any of them.               *)
(***************************************************************************)
EXTENDS DeletionSync, PartitionDetection, GarbageCollector, BeaconPresence

CONSTANTS left, middle, right   \* the nodes of the chain

OneWay == {<<left, middle>>}
Chain == {<<left, middle>>, <<middle, left>>, <<middle, right>>, <<right, middle>>}

VARIABLE upkeep   \* the mechanism that runs; the others rest

upkeepVars == <<upkeep, deletionVars, partitionVars, gcVars, presenceVars>>

UpkeepInit ==
    /\ upkeep \in {"deletion", "partitions", "gc", "presence"}
    /\ DeletionInit /\ PartitionInit /\ GcInit /\ PresenceInit
    /\ upkeep # "gc" => Entombed = {}

UpkeepNext ==
    /\ UNCHANGED upkeep
    /\ \/ upkeep = "deletion" /\ DeletionNext /\ UNCHANGED <<partitionVars, gcVars, presenceVars>>
       \/ upkeep = "partitions" /\ PartitionNext /\ UNCHANGED <<deletionVars, gcVars, presenceVars>>
       \/ upkeep = "gc" /\ GcNext /\ UNCHANGED <<deletionVars, partitionVars, presenceVars>>
       \/ upkeep = "presence" /\ PresenceNext /\ UNCHANGED <<deletionVars, partitionVars, gcVars>>

\* The polling task sends the tombstones again and again, and what is sent is
\* received.
DeletionRuns ==
    \A l \in Links :
        /\ WF_deletionVars(upkeep = "deletion" /\ SendTombstones(l[1], l[2]))
        /\ WF_deletionVars(upkeep = "deletion" /\
              \E kind \in {"single", "batch"}, d \in Deletions : ReceiveTombstone(l[1], l[2], kind, d))

\* Time passes, the node looks for timeouts, and peers that are alive send
\* their heartbeats.
PartitionRuns ==
    /\ WF_partitionVars(upkeep = "partitions" /\ CheckTimeouts)
    /\ WF_partitionVars(upkeep = "partitions" /\ PartitionTick)
    /\ \A p \in Watched : WF_partitionVars(upkeep = "partitions" /\ HeartbeatFrom(p))

\* Time passes and the tasks of the collector go on.
GcRuns ==
    /\ WF_gcVars(upkeep = "gc" /\ GcTick)
    /\ \A t \in GcTasks : WF_gcVars(upkeep = "gc" /\ TaskStep(t))

\* The observer and the builder go on, and the broadcasters and the storage
\* get their turns although beacons come and go.
PresenceRuns ==
    /\ WF_presenceVars(upkeep = "presence" /\ Observe)
    /\ WF_presenceVars(upkeep = "presence" /\ EvaluateReads)
    /\ WF_presenceVars(upkeep = "presence" /\ CheckPartition)
    /\ WF_presenceVars(upkeep = "presence" /\ BackoffEnds)
    /\ \A n \in Leaders :
          /\ SF_presenceVars(upkeep = "presence" /\ Broadcast(n))
          /\ SF_presenceVars(upkeep = "presence" /\ StorageExpires(n))

UpkeepSpec ==
    /\ UpkeepInit
    /\ [][UpkeepNext]_upkeepVars
    /\ DeletionRuns /\ PartitionRuns /\ GcRuns /\ PresenceRuns
=============================================================================
