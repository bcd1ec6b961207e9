--------------------------- MODULE ServiceProofs ----------------------------
(***************************************************************************)
(* Proofs about the services that run several tasks on shared state: the   *)
(* retry tasks of the topology manager, the firmware sender, storage       *)
(* eviction, the networked blob store and the propagation of deletions.    *)
(* Each invariant the runs check is a conjunct or a consequence of an      *)
(* inductive one stated here.                                              *)
(***************************************************************************)
EXTENDS TopologyManager, OtaSender, StorageEviction, BlobStore, DeletionSync, TLAPS

-----------------------------------------------------------------------------
(* Retry tasks.                                                            *)

\* What a task has read is below the limit too: it is what it writes back.
RetryInv ==
    /\ retry \in [Laterals \cup {Nobody} -> Int]
    /\ taskSeen \in [RetryTasks -> Int]
    /\ RetryBelowMax
    /\ \A t \in RetryTasks : taskSeen[t] < MaxRetries

\* No retry task of TopologyManager, however many share a retry state, brings
\* the attempts to max_retries: the branch of the retry task that would take a
\* lock it holds is dead code.
THEOREM RetriesBounded == TopologySpec => []RetryBelowMax
<1>1. TopologyInit => RetryInv
  BY TopologyAssumption DEF TopologyInit, RetryInv, RetryBelowMax
<1>2. RetryInv /\ [TopologyNext]_topologyVars => RetryInv'
  <2> SUFFICES ASSUME RetryInv, [TopologyNext]_topologyVars PROVE RetryInv'
    OBVIOUS
  <2> USE TopologyAssumption DEF RetryInv, RetryBelowMax
  <2>1. ASSUME NEW p, SpawnRetry(p) PROVE RetryInv'
    BY <2>1 DEF SpawnRetry, RetryKey
  <2>2. CASE PeerSelected
    BY <2>2 DEF PeerSelected, taskVars
  <2>3. ASSUME NEW ok \in BOOLEAN, ParentDialled(ok) PROVE RetryInv'
    BY <2>1, <2>3 DEF ParentDialled, taskVars
  <2>4. ASSUME NEW ok \in BOOLEAN, LateralDialled(ok) PROVE RetryInv'
    <3>1. CASE ok = TRUE
      BY <2>4, <3>1 DEF LateralDialled, LateralConnected, taskVars
    <3>2. CASE ok = FALSE
      <4>1. SpawnRetry(dialled)
        BY <2>4, <3>2 DEF LateralDialled
      <4> QED
        BY <2>1, <4>1
    <3> QED
      BY <3>1, <3>2
  <2>5. CASE LateralPeerLost
    <3>1. PICK p : retry' = [retry EXCEPT ![p] = -1]
      BY <2>5, Zenon DEF LateralPeerLost
    <3>2. taskSeen' = taskSeen
      BY <2>5 DEF LateralPeerLost, taskVars
    <3>3. /\ retry' \in [Laterals \cup {Nobody} -> Int]
          /\ \A k \in Laterals \cup {Nobody} : retry'[k] \in {retry[k], -1}
      <4>1. retry \in [Laterals \cup {Nobody} -> Int] /\ -1 \in Int
        OBVIOUS
      <4> HIDE DEF RetryInv, RetryBelowMax
      <4>2. CASE p \in Laterals \cup {Nobody}
        BY <3>1, <4>1, <4>2
      <4>3. CASE p \notin Laterals \cup {Nobody}
        BY <3>1, <4>1, <4>3
      <4> QED
        BY <4>2, <4>3
    <3> QED
      BY <3>2, <3>3
  <2>6. ASSUME NEW t \in RetryTasks, ReadRetry(t) PROVE RetryInv'
    BY <2>6 DEF ReadRetry, TaskEnds, RetryKey
  <2>7. ASSUME NEW t \in RetryTasks, RetryConnected(t) PROVE RetryInv'
    BY <2>7 DEF RetryConnected, TaskEnds, LateralConnected
  <2>8. ASSUME NEW t \in RetryTasks, RetryFailed(t) PROVE RetryInv'
    BY <2>8 DEF RetryFailed, TaskEnds, RetryKey
  <2>9. CASE UNCHANGED <<retry, taskSeen>>
    BY <2>9
  <2> QED
    BY <2>2, <2>3, <2>4, <2>5, <2>6, <2>7, <2>8, <2>9
       DEF TopologyNext, topologyVars, taskVars, Evaluate, ReevaluatePeer, SelectedPeerLost,
           LateralPeerDiscovered, SendTelemetry, StopTopology
<1> QED
  BY <1>1, <1>2, PTL DEF TopologySpec, RetryInv

-----------------------------------------------------------------------------
(* Firmware.                                                               *)

\* A positive result is only ever of a session whose image is whole, and no
\* chunk beyond the image is sent.
OtaInv ==
    /\ session \in Sessions \cup {0}
    /\ flashed \in [Sessions -> 0 .. TotalChunks]
    /\ acked \in Nat
    /\ joined \subseteq Sessions
    /\ device \in Sessions \cup {0}
    /\ \A e \in data : e[2] < TotalChunks
    /\ \A s \in Sessions : <<s, TRUE>> \in results => flashed[s] = TotalChunks
    /\ AckedIsWritten

\* The firmware sender counts no chunk that the device has not written, and
\* takes no session for finished whose image is not whole, whatever UDP does to
\* the acknowledgements and results.
THEOREM AckedWritten == OtaSpec => []AckedIsWritten
<1>1. OtaInit => OtaInv
  BY OtaAssumption DEF OtaInit, OtaInv, AckedIsWritten
<1>2. OtaInv /\ [OtaNext]_otaVars => OtaInv'
  <2> SUFFICES ASSUME OtaInv, [OtaNext]_otaVars PROVE OtaInv'
    OBVIOUS
  <2>1. /\ session \in Sessions \cup {0} /\ acked \in Nat /\ TotalChunks \in Nat
        /\ \A s \in Sessions : flashed[s] \in Nat /\ flashed[s] <= TotalChunks
    BY OtaAssumption DEF OtaInv
  <2>2. /\ session # 0 => acked <= flashed[session]
        /\ session # 0 /\ otaState \in {"WaitingResult", "Complete"} => flashed[session] = TotalChunks
    BY DEF OtaInv, AckedIsWritten
  \* The sender leaves alone what the device is and what was sent to it.
  <2>3. ASSUME session' \in Sessions \cup {0}, acked' \in Nat,
               UNCHANGED <<data, results, joined, flashed, device>>,
               session' # 0 => acked' <= flashed[session'],
               session' # 0 /\ otaState' \in {"WaitingResult", "Complete"} => flashed[session'] = TotalChunks
        PROVE  OtaInv'
    BY <2>3 DEF OtaInv, AckedIsWritten
  <2>4. ASSUME NEW s \in Sessions, OfferToPeer(s) PROVE OtaInv'
    BY <2>1, <2>3, <2>4 DEF OfferToPeer, toDevice, deviceVars
  <2>5. ASSUME NEW s \in Sessions, NEW k \in 0 .. TotalChunks, HandleAccept(s, k) PROVE OtaInv'
    <3>1. s \in Sessions /\ k <= flashed[s]
      BY <2>5 DEF HandleAccept, accepts, OtaInv
    <3> QED
      BY <2>1, <2>3, <2>5, <3>1 DEF HandleAccept, Transfer, toDevice, deviceVars
  <2>6. ASSUME NEW s \in Sessions, NEW k \in 0 .. TotalChunks, HandleAck(s, k) PROVE OtaInv'
    <3>1. s \in Sessions /\ k < flashed[s]
      BY <2>6 DEF HandleAck, acks, OtaInv
    <3>2. CASE k + 1 >= TotalChunks
      BY <2>1, <2>3, <2>6, <3>1, <3>2 DEF HandleAck, AwaitResult, toDevice, deviceVars
    <3>3. CASE ~(k + 1 >= TotalChunks)
      BY <2>1, <2>3, <2>6, <3>1, <3>3 DEF HandleAck, Transfer, toDevice, deviceVars
    <3> QED
      BY <3>2, <3>3
  <2>7. ASSUME NEW s \in Sessions, NEW ok \in BOOLEAN, HandleResult(s, ok) PROVE OtaInv'
    <3>1. CASE ok = TRUE
      <4>1. flashed[s] = TotalChunks
        BY <2>7, <3>1 DEF HandleResult, OtaInv
      <4> QED
        BY <2>1, <2>2, <2>3, <2>7, <4>1, <3>1 DEF HandleResult, toDevice, deviceVars
    <3>2. CASE ok = FALSE
      BY <2>1, <2>2, <2>3, <2>7, <3>2 DEF HandleResult, Fail, toDevice, deviceVars
    <3> QED
      BY <3>1, <3>2
  <2>8. ASSUME NEW s \in Sessions, HandleAbort(s) PROVE OtaInv'
    BY <2>1, <2>2, <2>3, <2>8 DEF HandleAbort, Fail, toDevice, deviceVars
  <2>9. ASSUME NEW k \in 0 .. TotalChunks, SendNow(k) PROVE OtaInv'
    <3>1. \A e \in data' : e[2] < TotalChunks
      BY <2>9 DEF SendNow, OtaInv
    <3>2. UNCHANGED <<session, otaState, acked, results, joined, flashed, device>>
      BY <2>9 DEF SendNow, deviceVars
    <3> QED
      BY <3>1, <3>2 DEF OtaInv, AckedIsWritten
  <2>10. CASE TickTimedOut \/ TickGivesUp \/ TickReadsOffered \/ TickStoresOffered
    BY <2>1, <2>2, <2>3, <2>10
       DEF TickTimedOut, TickGivesUp, TickReadsOffered, TickStoresOffered, Fail, toDevice, deviceVars
  <2>11. CASE TickResends
    BY <2>1, <2>2, <2>3, <2>11 DEF TickResends, Transfer, AwaitResult, toDevice, deviceVars
  <2>12. ASSUME NEW s \in Sessions, DeviceAccepts(s) PROVE OtaInv'
    BY <2>12 DEF DeviceAccepts, senderVars, toDevice, OtaInv, AckedIsWritten
  <2>13. ASSUME NEW k \in 0 .. TotalChunks, DeviceWrites(k) PROVE OtaInv'
    <3>1. k < TotalChunks
      BY <2>13 DEF DeviceWrites, OtaInv
    <3>2. flashed \in [Sessions -> 0 .. TotalChunks]
      BY DEF OtaInv
    <3>3. flashed' \in [Sessions -> 0 .. TotalChunks]
      <4>1. flashed' = [flashed EXCEPT ![device] = k + 1] /\ k + 1 \in 0 .. TotalChunks
        BY <2>13, <2>1, <3>1 DEF DeviceWrites
      <4> QED
        BY <3>2, <4>1
    <3>4. \A s \in Sessions : flashed[s] <= flashed'[s] /\ flashed'[s] <= TotalChunks
      BY <2>13, <2>1, <3>1, <3>2 DEF DeviceWrites
    <3>5. \A s \in Sessions : flashed[s] = TotalChunks => flashed'[s] = TotalChunks
      BY <2>13, <2>1, <3>1, <3>2 DEF DeviceWrites
    <3>6. AckedIsWritten'
      BY <2>13, <2>1, <2>2, <3>3, <3>4, <3>5 DEF DeviceWrites, senderVars, AckedIsWritten
    <3> QED
      BY <2>13, <3>3, <3>5, <3>6 DEF DeviceWrites, senderVars, toDevice, OtaInv
  <2>14. ASSUME NEW ok \in BOOLEAN, DeviceResult(ok) PROVE OtaInv'
    <3>1. ASSUME NEW s \in Sessions, <<s, TRUE>> \in results' PROVE flashed[s] = TotalChunks
      BY <2>14, <3>1 DEF DeviceResult, OtaInv
    <3> QED
      BY <2>14, <3>1 DEF DeviceResult, senderVars, toDevice, OtaInv, AckedIsWritten
  <2>15. CASE DeviceLeaves
    BY <2>15 DEF DeviceLeaves, senderVars, toDevice, OtaInv, AckedIsWritten
  <2>16. CASE UNCHANGED otaVars
    BY <2>16 DEF otaVars, senderVars, toDevice, deviceVars, OtaInv, AckedIsWritten
  <2> QED
    BY <2>4, <2>5, <2>6, <2>7, <2>8, <2>9, <2>10, <2>11, <2>12, <2>13, <2>14, <2>15, <2>16 DEF OtaNext
<1> QED
  BY <1>1, <1>2, PTL DEF OtaSpec, OtaInv

-----------------------------------------------------------------------------
(* Eviction.                                                               *)

\* What is shielded is protected, and no cycle is past its check with it.
EvictionInv ==
    /\ shielded \subseteq protected_docs
    /\ shielded \subseteq Stock
    /\ evicting \in [Cycles -> Stock \cup {NoDocument}]
    /\ \A c \in Cycles : evicting[c] \notin shielded
    /\ candidates \in [Cycles -> SUBSET Stock]
    /\ tracked \subseteq Stock
    /\ ProtectedSurvives

\* No cycle, of the service or of an operator, evicts a protected document
\* unless it had passed the check of execute_eviction_cycle before
\* mark_protected was called.
THEOREM ProtectedStays == EvictionSpec => []ProtectedSurvives
<1>1. EvictionInit => EvictionInv
  BY EvictionAssumption DEF EvictionInit, EvictionInv, ProtectedSurvives
<1>2. EvictionInv /\ [EvictionNext]_evictionVars => EvictionInv'
  <2> SUFFICES ASSUME EvictionInv, [EvictionNext]_evictionVars PROVE EvictionInv'
    OBVIOUS
  <2> USE EvictionAssumption DEF EvictionInv, ProtectedSurvives, trackVars, cycleVars
  <2>1. ASSUME NEW d \in Stock, PutDocument(d) \/ RegisterDocument(d) \/ UnregisterDocument(d)
        PROVE  EvictionInv'
    BY <2>1 DEF PutDocument, RegisterDocument, UnregisterDocument
  <2>2. ASSUME NEW d \in Stock, MarkProtected(d) PROVE EvictionInv'
    BY <2>2 DEF MarkProtected
  <2>3. ASSUME NEW d \in Stock, FlagProtected(d) \/ UnmarkProtected(d) \/ UnflagProtected(d)
        PROVE  EvictionInv'
    BY <2>3 DEF FlagProtected, UnmarkProtected, UnflagProtected
  <2>4. ASSUME NEW c \in Cycles, NEW n, Select(c, n) PROVE EvictionInv'
    BY <2>4 DEF Select, Eligible
  <2>5. ASSUME NEW c \in Cycles, CheckCandidate(c) PROVE EvictionInv'
    <3>1. PICK d \in candidates[c] :
             /\ candidates' = [candidates EXCEPT ![c] = @ \ {d}]
             /\ evicting' = [evicting EXCEPT ![c] = IF d \in protected_docs THEN NoDocument ELSE d]
      BY <2>5 DEF CheckCandidate
    <3>2. UNCHANGED <<inStore, tracked, protected_docs, shielded>>
      BY <2>5 DEF CheckCandidate
    <3>3. CASE d \in protected_docs
      BY <3>1, <3>2, <3>3
    <3>4. CASE d \notin protected_docs
      BY <3>1, <3>2, <3>4
    <3> QED
      BY <3>3, <3>4
  <2>6. ASSUME NEW c \in Cycles, EvictionCallback(c) PROVE EvictionInv'
    BY <2>6 DEF EvictionCallback
  <2>7. ASSUME NEW c \in Cycles, UntrackEvicted(c) PROVE EvictionInv'
    <3>1. candidates' \in [Cycles -> SUBSET Stock]
      <4>1. CASE needed[c] = 1
        BY <2>7, <4>1 DEF UntrackEvicted
      <4>2. CASE needed[c] # 1
        BY <2>7, <4>2 DEF UntrackEvicted
      <4> QED
        BY <4>1, <4>2
    <3> QED
      BY <2>7, <3>1 DEF UntrackEvicted
  <2>8. ASSUME NEW c \in Cycles, CycleStops(c) PROVE EvictionInv'
    BY <2>8 DEF CycleStops
  <2>9. CASE UNCHANGED evictionVars
    BY <2>9 DEF evictionVars
  <2> QED
    BY <2>1, <2>2, <2>3, <2>4, <2>5, <2>6, <2>7, <2>8, <2>9
       DEF EvictionNext, RunEvictionCycle, ForceEviction
<1> QED
  BY <1>1, <1>2, PTL DEF EvictionSpec, EvictionInv

-----------------------------------------------------------------------------
(* Blobs.                                                                  *)

\* A peer known all along is still to be read, still to be tried, or tried.
FetchInv ==
    /\ stage = [t \in Fetchers |-> stage[t]]
    /\ indexedLeft \in [Fetchers -> SUBSET Providers]
    /\ othersLeft \in [Fetchers -> SUBSET Providers]
    /\ tried \in [Fetchers -> SUBSET Providers]
    /\ throughout \in [Fetchers -> SUBSET Providers]
    /\ known_peers \subseteq Providers
    /\ \A t \in Fetchers :
          /\ stage[t] = "peers" => throughout[t] \subseteq known_peers
          /\ stage[t] = "trying" => throughout[t] \subseteq tried[t] \cup indexedLeft[t] \cup othersLeft[t]
    /\ FailedMeansAllTried

\* fetch_blob of NetworkedIrohBlobStore fails only after every peer that was
\* known throughout the call was tried.
THEOREM FailedTriedAll == BlobSpec => []FailedMeansAllTried
<1>1. BlobInit => FetchInv
  BY DEF BlobInit, FetchInv, FailedMeansAllTried
<1>2. FetchInv /\ [BlobNext]_blobVars => FetchInv'
  <2> SUFFICES ASSUME FetchInv, [BlobNext]_blobVars PROVE FetchInv'
    OBVIOUS
  <2> USE DEF FetchInv, FailedMeansAllTried, localVars, peerVars, fetchVars
  <2>1. ASSUME NEW b \in Blobs, CreateBlob(b) \/ DeleteBlob(b) PROVE FetchInv'
    BY <2>1 DEF CreateBlob, DeleteBlob
  <2>2. ASSUME NEW p \in Providers, AddPeer(p) PROVE FetchInv'
    BY <2>2 DEF AddPeer
  <2>3. ASSUME NEW p \in Providers, RemovePeer(p) PROVE FetchInv'
    BY <2>3 DEF RemovePeer
  <2>4. ASSUME NEW p \in Providers, RemoveFromIndex(p) \/ \E b \in Blobs : AdvertiseBlob(p, b)
        PROVE  FetchInv'
    BY <2>4 DEF RemoveFromIndex, AdvertiseBlob
  <2>5. ASSUME NEW t \in Fetchers, NEW b \in Blobs, FetchBlob(t, b) PROVE FetchInv'
    BY <2>5 DEF FetchBlob, Stage
  <2>6. ASSUME NEW t \in Fetchers, OrderPeers(t) PROVE FetchInv'
    BY <2>6 DEF OrderPeers, Stage
  <2>7. ASSUME NEW t \in Fetchers, NEW p \in Providers, TryPeer(t, p) PROVE FetchInv'
    BY <2>7 DEF TryPeer, Stage
  <2>8. ASSUME NEW t \in Fetchers, AllPeersFailed(t) PROVE FetchInv'
    BY <2>8 DEF AllPeersFailed, Stage
  <2>9. ASSUME NEW t \in Fetchers, ExportBlob(t) \/ CreateFile(t) \/ WriteEnds(t) \/ SaveFetched(t)
        PROVE  FetchInv'
    BY <2>9 DEF ExportBlob, CreateFile, WriteEnds, SaveFetched, Stage, Exported
  <2>10. CASE RestartStore
    BY <2>10 DEF RestartStore
  <2>11. CASE UNCHANGED blobVars
    BY <2>11 DEF blobVars
  <2> QED
    BY <2>1, <2>2, <2>3, <2>4, <2>5, <2>6, <2>7, <2>8, <2>9, <2>10, <2>11 DEF BlobNext
<1> QED
  BY <1>1, <1>2, PTL DEF BlobSpec, FetchInv

-----------------------------------------------------------------------------
(* A node that has buried the document holds a tombstone and no document    *)
(* until the tombstone is collected.                                        *)
BuriedUntilGc ==
    /\ present \in [Places -> BOOLEAN]
    /\ tombstone \in [Places -> Deletions \cup {NoDeletion}]
    /\ buried \in [Places -> BOOLEAN]
    /\ collected \in [Places -> BOOLEAN]
    /\ \A n \in Places : buried[n] /\ ~collected[n] => HasTombstone(n) /\ ~present[n]

\* Nothing has been buried yet.
LEMMA BuriedInit == DeletionInit => BuriedUntilGc
BY DEF DeletionInit, BuriedUntilGc

\* Applying a tombstone buries the document.
LEMMA BuryBuries ==
    ASSUME BuriedUntilGc, NEW n \in Places, NEW d \in Deletions, Bury(n, d)
    PROVE  BuriedUntilGc'
BY DeletionAssumption DEF BuriedUntilGc, Bury, HasTombstone

\* No message, write or collection brings a buried document back.
LEMMA BuriedStep == BuriedUntilGc /\ [DeletionNext]_deletionVars => BuriedUntilGc'
<1> SUFFICES ASSUME BuriedUntilGc, [DeletionNext]_deletionVars PROVE BuriedUntilGc'
  OBVIOUS
<1>1. ASSUME NEW n \in Places, NEW d \in Deletions, Delete(n, d) PROVE BuriedUntilGc'
  BY <1>1, BuryBuries DEF Delete
<1>2. ASSUME NEW n \in Places, NEW m \in Places, NEW kind, NEW d \in Deletions,
             ReceiveTombstone(n, m, kind, d)
      PROVE  BuriedUntilGc'
  <2>1. CASE Bury(n, d)
    BY <2>1, BuryBuries
  <2>2. CASE UNCHANGED <<present, tombstone, buried, collected>>
    BY <2>2 DEF BuriedUntilGc, HasTombstone
  <2> QED BY <1>2, <2>1, <2>2 DEF ReceiveTombstone
<1>3. ASSUME NEW n \in Places, WriteAgain(n) PROVE BuriedUntilGc'
  BY <1>3 DEF WriteAgain, BuriedUntilGc, HasTombstone
<1>4. ASSUME NEW n \in Places, NEW m \in Places, ReceiveDoc(n, m) PROVE BuriedUntilGc'
  BY <1>4 DEF ReceiveDoc, BuriedUntilGc, HasTombstone
<1>5. ASSUME NEW n \in Places, GcRemove(n) PROVE BuriedUntilGc'
  BY <1>5 DEF GcRemove, BuriedUntilGc, HasTombstone
<1>6. CASE UNCHANGED <<present, tombstone, buried, collected>>
  BY <1>6 DEF BuriedUntilGc, HasTombstone
<1>7. ASSUME NEW n \in Places, NEW m \in Places,
             GcScan(n) \/ SendTombstones(n, m) \/ SendDoc(n, m) \/ LoseMail(n, m)
      PROVE  UNCHANGED <<present, tombstone, buried, collected>>
  BY <1>7 DEF GcScan, SendTombstones, SendDoc, LoseMail
<1>8. ASSUME DeletionTick \/ UNCHANGED deletionVars
      PROVE  UNCHANGED <<present, tombstone, buried, collected>>
  BY <1>8 DEF DeletionTick, deletionVars
<1>9. ASSUME NEW l \in Links PROVE l[1] \in Places /\ l[2] \in Places
  BY DeletionAssumption
<1> QED
  BY <1>1, <1>2, <1>3, <1>4, <1>5, <1>6, <1>7, <1>8, <1>9, DeletionAssumption DEF DeletionNext

(* On any mesh, with any number of deletions and losses: a deleted document *)
(* that was not written again is back only where its tombstone was          *)
(* collected (receive_sync_message, apply_state_snapshot,                   *)
(* collect_tombstones).                                                     *)
THEOREM DeletedStaysDeleted == DeletionSpec => []NoResurrectionBeforeGc
<1>1. BuriedUntilGc => NoResurrectionBeforeGc
  BY DEF BuriedUntilGc, NoResurrectionBeforeGc
<1> QED BY <1>1, BuriedInit, BuriedStep, PTL DEF DeletionSpec
=============================================================================
