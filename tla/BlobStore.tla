------------------------------- MODULE BlobStore -------------------------------
(***************************************************************************)
(* The blob store of a node (storage/iroh_blob_store.rs):                  *)
(* IrohBlobStore keeps content in an in-memory store, exports it to files  *)
(* and keeps metadata in sidecar files and a cache; NetworkedIrohBlobStore *)
(* adds the peers it downloads from and the index of who has what.         *)
(* Fetches, deletions and changes of the peers interleave, and the process *)
(* may restart, which loses what is in memory and keeps the files.         *)
(***************************************************************************)
EXTENDS Naturals, FiniteSets

CONSTANTS
    Blobs,
    Providers,      \* peers that may be asked for blobs
    Fetchers,       \* tasks that call fetch_blob, once each
    NoBlob,
    MaxBlobEvents   \* bound on calls that change blobs or peers, and restarts

ASSUME BlobAssumption == NoBlob \notin Blobs /\ MaxBlobEvents \in Nat

VARIABLES
    mem,          \* content of the MemStore
    file,         \* [Blobs -> {"none", "partial", "whole"}]: exported files
    sidecar,      \* blobs with a metadata file
    cached,       \* token_cache
    known_peers,
    index,        \* SUBSET (Providers \X Blobs): blob_peer_index
    removing,     \* peers out of known_peers that are still to leave the index
    stage,        \* [Fetchers -> where the fetch is]
    wanted,       \* [Fetchers -> Blobs \cup {NoBlob}]
    indexedLeft,  \* [Fetchers -> indexed peers still to try]
    othersLeft,   \* [Fetchers -> other peers still to try]
    tried,        \* [Fetchers -> peers that were tried]
    throughout,   \* history: [Fetchers -> peers known since the call began]
    blobEvents

localVars == <<mem, file, sidecar, cached>>
peerVars == <<known_peers, index, removing>>
fetchVars == <<stage, wanted, indexedLeft, othersLeft, tried, throughout>>
blobVars == <<localVars, peerVars, fetchVars, blobEvents>>

blob_exists_locally(b) == file[b] # "none" \/ b \in cached \/ b \in sidecar

BlobInit ==
    /\ mem = {} /\ sidecar = {} /\ cached = {}
    /\ file = [b \in Blobs |-> "none"]
    /\ known_peers = {} /\ index = {} /\ removing = {}
    /\ stage = [t \in Fetchers |-> "idle"]
    /\ wanted = [t \in Fetchers |-> NoBlob]
    /\ indexedLeft = [t \in Fetchers |-> {}]
    /\ othersLeft = [t \in Fetchers |-> {}]
    /\ tried = [t \in Fetchers |-> {}]
    /\ throughout = [t \in Fetchers |-> {}]
    /\ blobEvents = 0

CountBlobEvent == blobEvents < MaxBlobEvents /\ blobEvents' = blobEvents + 1

\* create_blob, create_blob_from_stream and create_blob_from_bytes: the content,
\* then the sidecar and the cache unless writing the sidecar fails.
CreateBlob(b) ==
    /\ CountBlobEvent
    /\ mem' = mem \cup {b}
    /\ \/ sidecar' = sidecar \cup {b} /\ cached' = cached \cup {b}
       \/ UNCHANGED <<sidecar, cached>>
    /\ UNCHANGED <<file, peerVars, fetchVars>>

\* delete_blob leaves the content in the MemStore.
DeleteBlob(b) ==
    /\ CountBlobEvent
    /\ file' = [file EXCEPT ![b] = "none"]
    /\ sidecar' = sidecar \ {b}
    /\ cached' = cached \ {b}
    /\ UNCHANGED <<mem, peerVars, fetchVars>>

AddPeer(p) ==
    /\ CountBlobEvent
    /\ known_peers' = known_peers \cup {p}
    /\ UNCHANGED <<localVars, index, removing, fetchVars>>

\* remove_peer: known_peers, and the index once its lock is free.
RemovePeer(p) ==
    /\ CountBlobEvent
    /\ p \notin removing
    /\ known_peers' = known_peers \ {p}
    /\ removing' = removing \cup {p}
    /\ throughout' = [t \in Fetchers |-> throughout[t] \ {p}]
    /\ UNCHANGED <<localVars, index, stage, wanted, indexedLeft, othersLeft, tried>>

RemoveFromIndex(p) ==
    /\ p \in removing
    /\ removing' = removing \ {p}
    /\ index' = {e \in index : e[1] # p}
    /\ UNCHANGED <<localVars, known_peers, fetchVars, blobEvents>>

AdvertiseBlob(p, b) ==
    /\ CountBlobEvent
    /\ index' = index \cup {<<p, b>>}
    /\ UNCHANGED <<localVars, known_peers, removing, fetchVars>>

Stage(t, s) == stage' = [stage EXCEPT ![t] = s]

\* fetch_blob: an exported file is returned as it is, content of the MemStore
\* exported, and the peers of the index are read otherwise.
FetchBlob(t, b) ==
    /\ stage[t] = "idle"
    /\ wanted' = [wanted EXCEPT ![t] = b]
    /\ throughout' = [throughout EXCEPT ![t] = known_peers]
    /\ Stage(t, IF file[b] # "none" THEN "done" ELSE IF b \in mem THEN "exportLocal" ELSE "peers")
    /\ indexedLeft' = [indexedLeft EXCEPT
                          ![t] = IF stage'[t] = "peers" THEN {p \in Providers : <<p, b>> \in index} ELSE {}]
    /\ UNCHANGED <<localVars, peerVars, othersLeft, tried, blobEvents>>

\* A mutation of OrderPeers: where the index knows someone, only the index counts.
OrderPeersByIndex(t) ==
    /\ stage[t] = "peers"
    /\ Stage(t, IF known_peers = {} THEN "failed" ELSE "trying")
    /\ othersLeft' = [othersLeft EXCEPT ![t] = IF indexedLeft[t] = {} THEN known_peers ELSE {}]
    /\ UNCHANGED <<localVars, peerVars, wanted, indexedLeft, tried, throughout, blobEvents>>

\* The known peers that the index did not name come after those it named.
OrderPeers(t) ==
    /\ stage[t] = "peers"
    /\ Stage(t, IF known_peers = {} THEN "failed" ELSE "trying")
    /\ othersLeft' = [othersLeft EXCEPT ![t] = known_peers \ indexedLeft[t]]
    /\ UNCHANGED <<localVars, peerVars, wanted, indexedLeft, tried, throughout, blobEvents>>

\* A download from the next peer (external): it ends with the content in the
\* MemStore, or fails or times out and the next peer is next.
TryPeer(t, p) ==
    /\ stage[t] = "trying"
    /\ p \in IF indexedLeft[t] # {} THEN indexedLeft[t] ELSE othersLeft[t]
    /\ indexedLeft' = [indexedLeft EXCEPT ![t] = @ \ {p}]
    /\ othersLeft' = [othersLeft EXCEPT ![t] = @ \ {p}]
    /\ tried' = [tried EXCEPT ![t] = @ \cup {p}]
    /\ \/ /\ mem' = mem \cup {wanted[t]}
          /\ index' = index \cup {<<p, wanted[t]>>}
          /\ Stage(t, "exportFetched")
       \/ UNCHANGED <<mem, index, stage>>
    /\ UNCHANGED <<file, sidecar, cached, known_peers, removing, wanted, throughout, blobEvents>>

AllPeersFailed(t) ==
    /\ stage[t] = "trying"
    /\ indexedLeft[t] = {} /\ othersLeft[t] = {}
    /\ Stage(t, "failed")
    /\ UNCHANGED <<localVars, peerVars, wanted, indexedLeft, othersLeft, tried, throughout, blobEvents>>

\* What a fetch goes on with after its export.
Exported(t) == IF stage[t] \in {"exportLocal", "readLocal", "writeLocal"} THEN "done" ELSE "metadata"

\* export_blob: an existing file is taken as it is; otherwise the content is
\* read, and then the file is created and written.
ExportBlob(t) ==
    /\ stage[t] \in {"exportLocal", "exportFetched"}
    /\ Stage(t, IF file[wanted[t]] # "none" THEN Exported(t)
                ELSE IF stage[t] = "exportLocal" THEN "readLocal" ELSE "readFetched")
    /\ UNCHANGED <<localVars, peerVars, wanted, indexedLeft, othersLeft, tried, throughout, blobEvents>>

CreateFile(t) ==
    /\ stage[t] \in {"readLocal", "readFetched"}
    /\ Stage(t, IF stage[t] = "readLocal" THEN "writeLocal" ELSE "writeFetched")
    /\ file' = [file EXCEPT ![wanted[t]] = "partial"]
    /\ UNCHANGED <<mem, sidecar, cached, peerVars, wanted, indexedLeft, othersLeft, tried, throughout, blobEvents>>

\* The write ends: the file is whole unless it was deleted meanwhile or another
\* task is writing it too.
WriteEnds(t) ==
    /\ stage[t] \in {"writeLocal", "writeFetched"}
    /\ Stage(t, Exported(t))
    /\ LET alone == \A u \in Fetchers \ {t} :
                        ~(stage[u] \in {"writeLocal", "writeFetched"} /\ wanted[u] = wanted[t])
       IN  file' = [file EXCEPT ![wanted[t]] = IF @ = "partial" /\ alone THEN "whole" ELSE @]
    /\ UNCHANGED <<mem, sidecar, cached, peerVars, wanted, indexedLeft, othersLeft, tried, throughout, blobEvents>>

SaveFetched(t) ==
    /\ stage[t] = "metadata"
    /\ Stage(t, "done")
    /\ sidecar' = sidecar \cup {wanted[t]}
    /\ cached' = cached \cup {wanted[t]}
    /\ UNCHANGED <<mem, file, peerVars, wanted, indexedLeft, othersLeft, tried, throughout, blobEvents>>

\* The process ends, at any point, and a new one opens the same directory.
RestartStore ==
    /\ CountBlobEvent
    /\ mem' = {} /\ cached' = {} /\ known_peers' = {} /\ index' = {} /\ removing' = {}
    /\ stage' = [t \in Fetchers |-> IF stage[t] = "idle" THEN "idle" ELSE "gone"]
    /\ indexedLeft' = [t \in Fetchers |-> {}]
    /\ othersLeft' = [t \in Fetchers |-> {}]
    /\ tried' = [t \in Fetchers |-> {}]
    /\ throughout' = [t \in Fetchers |-> {}]
    /\ UNCHANGED <<file, sidecar, wanted>>

BlobNext ==
    \/ \E b \in Blobs : CreateBlob(b) \/ DeleteBlob(b)
    \/ \E p \in Providers : \/ AddPeer(p) \/ RemovePeer(p) \/ RemoveFromIndex(p)
                            \/ \E b \in Blobs : AdvertiseBlob(p, b)
    \/ \E t \in Fetchers : \/ \E b \in Blobs : FetchBlob(t, b)
                           \/ OrderPeers(t) \/ \E p \in Providers : TryPeer(t, p)
                           \/ AllPeersFailed(t) \/ ExportBlob(t) \/ CreateFile(t) \/ WriteEnds(t) \/ SaveFetched(t)
    \/ RestartStore

BlobSpec == BlobInit /\ [][BlobNext]_blobVars

BlobTypeOK ==
    /\ {mem, sidecar, cached} \subseteq SUBSET Blobs
    /\ file \in [Blobs -> {"none", "partial", "whole"}]
    /\ {known_peers, removing} \subseteq SUBSET Providers
    /\ index \subseteq Providers \X Blobs
    /\ stage \in [Fetchers -> {"idle", "peers", "trying", "exportLocal", "exportFetched", "readLocal",
                               "readFetched", "writeLocal", "writeFetched", "metadata", "done", "failed", "gone"}]
    /\ wanted \in [Fetchers -> Blobs \cup {NoBlob}]
    /\ {indexedLeft, othersLeft, tried, throughout} \subseteq [Fetchers -> SUBSET Providers]
    /\ blobEvents \in 0 .. MaxBlobEvents

\* A fetch gives up only when it asked every peer that was known from its
\* beginning to its end, although the index it reads first is neither complete
\* nor in step with known_peers: peers are advertised without being known, and
\* removed from one before the other.
FailedMeansAllTried ==
    \A t \in Fetchers : stage[t] = "failed" => throughout[t] \subseteq tried[t]
=============================================================================
