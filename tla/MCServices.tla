------------------------------ MODULE MCServices ------------------------------
(***************************************************************************)
(* The services of a node that share no state in the code, for TLC, side   *)
(* by side: the topology manager, the firmware sender, the router, the     *)
(* preemption controller, storage eviction, peer discovery, the blob       *)
(* store, the streaming transfer, the in-memory document store, the        *)
(* heartbeat monitor and the merge of discovery strategies.  A behaviour   *)
(* is one of any of them.                                                  *)
(***************************************************************************)
EXTENDS TopologyManager, OtaSender, SelectiveRouter, PreemptionController,
        StorageEviction, PeerDiscovery, BlobStore, StreamingTransfer, InMemoryBackend,
        HealthMonitor, HybridDiscovery

CONSTANTS hq, east, west, leaf   \* the nodes of the hierarchy

\* Headquarters, two leaders below it and below one of them a node.  The leaders are
\* lateral peers, and see the node as one; it has heard of neither yet.
Tree == [n \in {hq, east, west, leaf} |-> IF n = leaf THEN east ELSE IF n = hq THEN NoParent ELSE hq]
Beside == [n \in {hq, east, west, leaf} |-> IF n \in {east, west} THEN {east, west, leaf} \ {n} ELSE {}]

\* Both urgent senders preempt every transfer.
Lower == [u \in Urgent |-> Transfers]

VARIABLE service   \* the service that runs; the others rest

serviceVars ==
    <<service, topologyVars, otaVars, routerVars, preemptionVars, evictionVars,
      discoveryVars, blobVars, transferVars, inMemoryVars, healthVars, hybridVars>>

ServicesInit ==
    /\ service \in {"topology", "firmware", "routing", "preemption",
                   "eviction", "discovery", "blobs", "streaming", "memory",
                   "health", "hybrid"}
    /\ TopologyInit
    /\ OtaInit
    /\ RouterInit
    /\ PreemptionInit
    /\ EvictionInit
    /\ DiscoveryInit
    /\ BlobInit
    /\ StreamingInit
    /\ InMemoryInit
    /\ HealthInit
    /\ HybridInit
    /\ service # "discovery" => Listed(cluster) = {} /\ certified = {}
    /\ service # "streaming" => checksDigest

ServicesNext ==
    /\ UNCHANGED service
    /\ \/ /\ service = "topology"
          /\ TopologyNext
          /\ UNCHANGED <<otaVars, routerVars, preemptionVars, evictionVars, discoveryVars,
                         blobVars, transferVars, inMemoryVars, healthVars, hybridVars>>
       \/ /\ service = "firmware"
          /\ OtaNext
          /\ UNCHANGED <<topologyVars, routerVars, preemptionVars, evictionVars, discoveryVars,
                         blobVars, transferVars, inMemoryVars, healthVars, hybridVars>>
       \/ /\ service = "routing"
          /\ RouterNext
          /\ UNCHANGED <<topologyVars, otaVars, preemptionVars, evictionVars, discoveryVars,
                         blobVars, transferVars, inMemoryVars, healthVars, hybridVars>>
       \/ /\ service = "preemption"
          /\ PreemptionNext
          /\ UNCHANGED <<topologyVars, otaVars, routerVars, evictionVars, discoveryVars,
                         blobVars, transferVars, inMemoryVars, healthVars, hybridVars>>
       \/ /\ service = "eviction"
          /\ EvictionNext
          /\ UNCHANGED <<topologyVars, otaVars, routerVars, preemptionVars, discoveryVars,
                         blobVars, transferVars, inMemoryVars, healthVars, hybridVars>>
       \/ /\ service = "discovery"
          /\ DiscoveryNext
          /\ UNCHANGED <<topologyVars, otaVars, routerVars, preemptionVars, evictionVars,
                         blobVars, transferVars, inMemoryVars, healthVars, hybridVars>>
       \/ /\ service = "blobs"
          /\ BlobNext
          /\ UNCHANGED <<topologyVars, otaVars, routerVars, preemptionVars, evictionVars,
                         discoveryVars, transferVars, inMemoryVars, healthVars, hybridVars>>
       \/ /\ service = "streaming"
          /\ StreamingNext
          /\ UNCHANGED <<topologyVars, otaVars, routerVars, preemptionVars, evictionVars,
                         discoveryVars, blobVars, inMemoryVars, healthVars, hybridVars>>
       \/ /\ service = "memory"
          /\ InMemoryNext
          /\ UNCHANGED <<topologyVars, otaVars, routerVars, preemptionVars, evictionVars,
                         discoveryVars, blobVars, transferVars, healthVars, hybridVars>>
       \/ /\ service = "health"
          /\ HealthNext
          /\ UNCHANGED <<topologyVars, otaVars, routerVars, preemptionVars, evictionVars,
                         discoveryVars, blobVars, transferVars, inMemoryVars, hybridVars>>
       \/ /\ service = "hybrid"
          /\ HybridNext
          /\ UNCHANGED <<topologyVars, otaVars, routerVars, preemptionVars, evictionVars,
                         discoveryVars, blobVars, transferVars, inMemoryVars, healthVars>>

ServicesSpec == ServicesInit /\ [][ServicesNext]_serviceVars
=============================================================================
