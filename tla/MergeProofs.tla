---------------------------- MODULE MergeProofs -----------------------------
(***************************************************************************)
(* Proofs about the two parts that merge what several sources tell.        *)
(* DocumentSync, for any nodes, changes, messages in flight and faults:    *)
(* the sync coordinators implement ReplicatedDocument. HybridDiscovery,    *)
(* for any strategies and peers: once every event is merged and forwarded, *)
(* the combined map and the consumer agree with what the strategies see,   *)
(* where no two tasks raced.                                               *)
(***************************************************************************)
EXTENDS DocumentSync, HybridDiscovery, SequenceTheorems, TLAPS

-----------------------------------------------------------------------------
(* Replicas of a document.                                                 *)

(* What a node stores and what travels to it are changes somebody made.     *)
WrittenOnly ==
    /\ doc \in [Nodes -> SUBSET Changes]
    /\ written \subseteq Changes
    /\ \A n \in Nodes : doc[n] \subseteq written
    /\ DOMAIN net = Slots
    /\ \A i \in Slots : net[i] # NoMsg => {net[i].from, net[i].to} \subseteq Nodes /\ net[i].changes \subseteq written

-----------------------------------------------------------------------------
(* A message is about what its sender stores: a delta leaves out what the   *)
(* peer is known to have, a snapshot is everything.                         *)
LEMMA DeltaCarries ==
    ASSUME NEW n \in Nodes, NEW m \in Nodes, NEW d, NEW s
    PROVE  Delta(n, m, d, s).from = n /\ Delta(n, m, d, s).to = m /\ Delta(n, m, d, s).changes \subseteq d
BY DEF Delta, ChangesToSend

\* A snapshot carries only what its sender stores.
LEMMA SnapshotCarries ==
    ASSUME NEW n \in Nodes, NEW m \in Nodes, NEW d
    PROVE  Snapshot(n, m, d).from = n /\ Snapshot(n, m, d).to = m /\ Snapshot(n, m, d).changes \subseteq d
BY DEF Snapshot

(* A slot that takes a message of a node, or is emptied, keeps the          *)
(* invariant when the documents only grow within what was written.          *)
LEMMA SlotWritten ==
    ASSUME WrittenOnly, NEW i \in Slots, NEW msg,
           net' = [net EXCEPT ![i] = msg],
           msg # NoMsg => {msg.from, msg.to} \subseteq Nodes /\ msg.changes \subseteq written,
           written' = written,
           doc' \in [Nodes -> SUBSET Changes],
           \A n \in Nodes : doc'[n] \subseteq written
    PROVE  WrittenOnly'
BY DEF WrittenOnly

\* A message that is received or lost leaves its slot.
LEMMA SlotEmptied ==
    ASSUME WrittenOnly, NEW i \in Slots,
           net' = [net EXCEPT ![i] = NoMsg],
           written' = written,
           doc' \in [Nodes -> SUBSET Changes],
           \A n \in Nodes : doc'[n] \subseteq written
    PROVE  WrittenOnly'
BY DEF WrittenOnly

\* Nothing has been written yet.
LEMMA WrittenInit == SyncInit => WrittenOnly
BY DEF SyncInit, WrittenOnly

(* Initiating, from the stored state or from a fresh one, sends changes of  *)
(* the sender's document.                                                   *)
LEMMA InitiateWritten ==
    ASSUME WrittenOnly, NEW n \in Nodes, NEW m \in Nodes, NEW s,
           InitiateFrom(n, m, s), UNCHANGED docVars
    PROVE  WrittenOnly'
<1>1. PICK i \in Slots : \/ net' = [net EXCEPT ![i] = Snapshot(n, m, doc[n])]
                         \/ net' = [net EXCEPT ![i] = Delta(n, m, doc[n], s)]
  BY DEF InitiateFrom
<1>2. doc[n] \subseteq written /\ written' = written /\ doc' = doc
  BY DEF WrittenOnly, docVars
<1>3. CASE net' = [net EXCEPT ![i] = Snapshot(n, m, doc[n])]
  BY <1>2, <1>3, SnapshotCarries, SlotWritten DEF WrittenOnly
<1>4. CASE net' = [net EXCEPT ![i] = Delta(n, m, doc[n], s)]
  BY <1>2, <1>4, DeltaCarries, SlotWritten DEF WrittenOnly
<1> QED BY <1>1, <1>3, <1>4

\* Every step stores and sends only changes that were written.
LEMMA WrittenStep == WrittenOnly /\ [SyncNext]_syncVars => WrittenOnly'
<1> SUFFICES ASSUME WrittenOnly, [SyncNext]_syncVars PROVE WrittenOnly'
  OBVIOUS
<1>1. ASSUME NEW n \in Nodes, NEW c \in Changes, WriteDoc(n, c) PROVE WrittenOnly'
  BY <1>1 DEF WriteDoc, WrittenOnly
<1>2. ASSUME NEW n \in Nodes, NEW m \in Peers(n), Initiate(n, m) \/ SyncWithAll(n, m)
      PROVE  WrittenOnly'
  BY <1>2, InitiateWritten DEF Initiate, SyncWithAll, Peers
<1>3. ASSUME NEW n \in Nodes, NEW m \in Peers(n), StoreState(n, m) \/ ClearPeerState(n, m)
      PROVE  WrittenOnly'
  BY <1>3 DEF StoreState, ClearPeerState, WrittenOnly, docVars
<1>4. ASSUME NEW n \in Nodes, NEW m \in Peers(n), SendBatch(n, m) PROVE WrittenOnly'
  <2> DEFINE sending == IF mode = "snapshot" THEN Snapshot(n, m, doc[n])
                        ELSE Delta(n, m, doc[n], NewState)
  <2>1. PICK i \in Slots : net' = [net EXCEPT ![i] = sending]
    BY <1>4 DEF SendBatch
  <2>2. doc[n] \subseteq written /\ written' = written /\ doc' = doc /\ m \in Nodes
    BY <1>4 DEF SendBatch, WrittenOnly, docVars, Peers
  <2>3. {sending.from, sending.to} \subseteq Nodes /\ sending.changes \subseteq written
    BY <2>2, SnapshotCarries, DeltaCarries
  <2> HIDE DEF sending
  <2> QED BY <2>1, <2>2, <2>3, SlotWritten DEF WrittenOnly
<1>5. ASSUME NEW n \in Nodes, NEW m \in Peers(n), BreakConnection(n, m) PROVE WrittenOnly'
  <2>1. /\ written' = written /\ doc' = doc /\ DOMAIN net' = Slots
        /\ \A i \in Slots : net'[i] = NoMsg \/ net'[i] = net[i]
    BY <1>5 DEF BreakConnection, docVars
  <2> QED BY <2>1 DEF WrittenOnly
<1>6. ASSUME NEW i \in Slots, ReceiveDelta(i) PROVE WrittenOnly'
  <2> DEFINE n == net[i].to
             m == net[i].from
             merged == doc[n] \cup net[i].changes
             s == Received(doc[n], peerState[n][m], net[i].heads, net[i].changes)
  <2>1. n \in Nodes /\ m \in Nodes /\ net[i].changes \subseteq written /\ merged \subseteq written
    BY <1>6 DEF ReceiveDelta, WrittenOnly
  <2>2. /\ doc' = [doc EXCEPT ![n] = merged] /\ written' = written
        /\ \/ net' = [net EXCEPT ![i] = NoMsg]
           \/ net' = [net EXCEPT ![i] = Delta(n, m, merged, s)]
    BY <1>6 DEF ReceiveDelta
  <2>3. doc' \in [Nodes -> SUBSET Changes] /\ \A k \in Nodes : doc'[k] \subseteq written
    BY <2>1, <2>2 DEF WrittenOnly
  <2> HIDE DEF n, m, merged, s
  <2>4. CASE net' = [net EXCEPT ![i] = NoMsg]
    BY <2>2, <2>3, <2>4, SlotEmptied
  <2>5. CASE net' = [net EXCEPT ![i] = Delta(n, m, merged, s)]
    <3>1. LET sending == Delta(n, m, merged, s)
          IN  {sending.from, sending.to} \subseteq Nodes /\ sending.changes \subseteq written
      BY <2>1, DeltaCarries
    <3> QED BY <2>2, <2>3, <2>5, <3>1, SlotWritten
  <2> QED BY <2>2, <2>4, <2>5
<1>7. ASSUME NEW i \in Slots, ReceiveSnapshot(i) PROVE WrittenOnly'
  <2>1. doc' \in [Nodes -> SUBSET Changes] /\ \A k \in Nodes : doc'[k] \subseteq written
    BY <1>7 DEF ReceiveSnapshot, WrittenOnly
  <2> QED BY <1>7, <2>1, SlotEmptied DEF ReceiveSnapshot
<1>8. ASSUME NEW i \in Slots, ReceiveFails(i) PROVE WrittenOnly'
  BY <1>8, SlotEmptied DEF ReceiveFails, docVars, WrittenOnly
<1>9. CASE UNCHANGED syncVars
  BY <1>9 DEF syncVars, docVars, WrittenOnly
<1> QED BY <1>1, <1>2, <1>3, <1>4, <1>5, <1>6, <1>7, <1>8, <1>9 DEF SyncNext

(* A step of the coordinators is a write, a node learning changes that were *)
(* made, or nothing at all to the replicas.                                 *)
LEMMA StepImplements ==
    WrittenOnly /\ [SyncNext]_syncVars => [Replicas!ReplicaNext]_(Replicas!replicaVars)
<1> SUFFICES ASSUME WrittenOnly, [SyncNext]_syncVars, ~ UNCHANGED <<written, doc>>
             PROVE  Replicas!ReplicaNext
  BY DEF Replicas!replicaVars
<1>1. ASSUME NEW n \in Nodes, NEW c \in Changes, WriteDoc(n, c) PROVE Replicas!ReplicaNext
  <2>1. Replicas!Write(n, c)
    BY <1>1 DEF WriteDoc, Replicas!Write
  <2> QED BY <2>1 DEF Replicas!ReplicaNext
<1>2. ASSUME NEW i \in Slots, ReceiveDelta(i) PROVE Replicas!ReplicaNext
  <2>1. /\ net[i].to \in Nodes /\ net[i].changes \in SUBSET Changes
        /\ Replicas!Learn(net[i].to, net[i].changes)
    BY <1>2 DEF ReceiveDelta, WrittenOnly, Replicas!Learn
  <2> QED BY <2>1 DEF Replicas!ReplicaNext
<1>3. ASSUME NEW i \in Slots, ReceiveSnapshot(i) PROVE Replicas!ReplicaNext
  <2>1. /\ net[i].to \in Nodes /\ net[i].changes \in SUBSET Changes
        /\ Replicas!Learn(net[i].to, net[i].changes)
    BY <1>3 DEF ReceiveSnapshot, WrittenOnly, Replicas!Learn
  <2> QED BY <2>1 DEF Replicas!ReplicaNext
<1>4. ASSUME NEW n \in Nodes, NEW m \in Peers(n),
             \/ Initiate(n, m) \/ StoreState(n, m) \/ SyncWithAll(n, m) \/ SendBatch(n, m)
             \/ BreakConnection(n, m) \/ ClearPeerState(n, m)
      PROVE  FALSE
  BY <1>4 DEF Initiate, StoreState, SyncWithAll, SendBatch, BreakConnection, ClearPeerState, docVars
<1>5. ASSUME NEW i \in Slots, ReceiveFails(i) PROVE FALSE
  BY <1>5 DEF ReceiveFails, docVars
<1>6. CASE UNCHANGED syncVars
  BY <1>6 DEF syncVars, docVars
<1> QED BY <1>1, <1>2, <1>3, <1>4, <1>5, <1>6 DEF SyncNext

(* The coordinators implement the replicated document: whatever is in       *)
(* flight, lost, overtaken, batched or dropped, a node stores only changes  *)
(* somebody made, and never loses one (initiate_sync_inner,                 *)
(* receive_sync_message, apply_state_snapshot, the batches).                *)
THEOREM SyncImplementsReplicas == SyncSpec => Replicates
<1>1. SyncInit => Replicas!ReplicaInit
  BY DEF SyncInit, Replicas!ReplicaInit
<1> QED
  BY <1>1, WrittenInit, WrittenStep, StepImplements, PTL
  DEF SyncSpec, Replicates, Replicas!ReplicaSpec

-----------------------------------------------------------------------------
(* The merge of the discovery strategies.                                  *)

Lost(p) == [kind |-> "lost", peer |-> p]

\* The loss of p by s is on its way to the task of s.
LossWaits(s, p) == \E j \in 1 .. Len(feed[s]) : feed[s][j] = Lost(p)

\* What s found and the task has not merged yet, s still sees or its loss follows.
FoundIsSeen(s) ==
    \A i \in 1 .. Len(feed[s]) : feed[s][i].kind = "found" =>
        \/ feed[s][i].peer \in sees[s]
        \/ \E j \in i + 1 .. Len(feed[s]) : feed[s][j] = Lost(feed[s][i].peer)

\* The task of s has yet to forward that it added or removed p.
Holds(s, p) == handing[s] # NoneInHand /\ handing[s].peer = p /\ handing[s].kind # "updated"

\* One task at most has a change of p in hand, it is the last one, and without
\* one the consumer knows what the map says.
InHandIsLast(p) ==
    /\ \A s, t \in Strategies : Holds(s, p) /\ Holds(t, p) => s = t
    /\ \A s \in Strategies : Holds(s, p) => (handing[s].kind = "found" <=> p \in combined)
    /\ (\A s \in Strategies : ~Holds(s, p)) => (p \in announced <=> p \in combined)

HybridInv ==
    /\ HybridTypeOK
    /\ \A s \in Strategies : FoundIsSeen(s)
    /\ \A p \in combined : \E s \in Strategies : p \in sees[s] \/ LossWaits(s, p)
    /\ \A p \in Sighted \ raced : InHandIsLast(p)

\* Every step keeps the types.
LEMMA HybridTypeStep == HybridTypeOK /\ [HybridNext]_hybridVars => HybridTypeOK'
<1> SUFFICES ASSUME HybridTypeOK, [HybridNext]_hybridVars PROVE HybridTypeOK'
  OBVIOUS
<1> USE DEF HybridTypeOK
<1>1. CASE StartAll
  BY <1>1 DEF StartAll
<1>2. ASSUME NEW before \in SUBSET Strategies, NEW failing \in Strategies, StartAllFails(before, failing)
      PROVE  HybridTypeOK'
  BY <1>2 DEF StartAllFails
<1>3. CASE StopAll
  BY <1>3 DEF StopAll
<1>4. ASSUME NEW s \in Strategies, NEW kind \in {"found", "lost", "updated"}, NEW p \in Sighted,
             Sight(s, kind, p)
      PROVE  HybridTypeOK'
  <2>1. [kind |-> kind, peer |-> p] \in Sighting
    BY DEF Sighting
  <2>2. Append(feed[s], [kind |-> kind, peer |-> p]) \in Seq(Sighting)
    BY <2>1, AppendProperties
  <2> QED
    BY <1>4, <2>2, HybridAssumption DEF Sight
<1>5. ASSUME NEW s \in Strategies, NEW kind, Receives(s, kind)
      PROVE  feed' \in [Strategies -> Seq(Sighting)] /\ Head(feed[s]) \in Sighting /\ Head(feed[s]).peer \in Sighted
  <2>1. Tail(feed[s]) \in Seq(Sighting) /\ Head(feed[s]) \in Sighting
    BY <1>5, HeadTailProperties DEF Receives
  <2> QED
    BY <1>5, <2>1 DEF Receives, Sighting
<1>6. \A p \in Sighted : \A kind \in {"found", "lost", "updated"} : [kind |-> kind, peer |-> p] \in Sighting
  BY DEF Sighting
<1>7. ASSUME NEW s \in Strategies, MergeFound(s) PROVE HybridTypeOK'
  <2> DEFINE p == Head(feed[s]).peer
             kind == IF p \in combined THEN "updated" ELSE "found"
  <2>1. Receives(s, "found")
    BY <1>7 DEF MergeFound
  <2>2. feed' \in [Strategies -> Seq(Sighting)] /\ p \in Sighted
    BY <1>5, <2>1
  <2>3. /\ combined' = combined \cup {p} /\ raced' \in {raced, raced \cup {p}}
        /\ handing' = [handing EXCEPT ![s] = [kind |-> kind, peer |-> p]]
        /\ UNCHANGED <<started, active, subscribed, sees, announced, sightings>>
    BY <1>7 DEF MergeFound, Races
  <2>4. kind \in {"found", "lost", "updated"}
    OBVIOUS
  <2> HIDE DEF p, kind
  <2> QED
    BY <1>6, <2>2, <2>3, <2>4
<1>8. ASSUME NEW s \in Strategies, MergeLost(s) PROVE HybridTypeOK'
  <2> DEFINE p == Head(feed[s]).peer
  <2>1. Receives(s, "lost")
    BY <1>8 DEF MergeLost
  <2>2. feed' \in [Strategies -> Seq(Sighting)] /\ p \in Sighted
    BY <1>5, <2>1
  <2>3. /\ combined' = combined \ {p} /\ raced' \in {raced, raced \cup {p}}
        /\ handing' \in {handing, [handing EXCEPT ![s] = [kind |-> "lost", peer |-> p]]}
        /\ UNCHANGED <<started, active, subscribed, sees, announced, sightings>>
    BY <1>8 DEF MergeLost, Races
  <2> HIDE DEF p
  <2> QED
    BY <1>6, <2>2, <2>3
<1>9. ASSUME NEW s \in Strategies, MergeUpdated(s) PROVE HybridTypeOK'
  <2>1. Receives(s, "updated")
    BY <1>9 DEF MergeUpdated
  <2> QED
    BY <1>5, <1>6, <1>9, <2>1 DEF MergeUpdated
<1>10. ASSUME NEW s \in Strategies, Forward(s) PROVE HybridTypeOK'
  <2>1. handing[s] \in Sighting
    BY <1>10 DEF Forward
  <2>2. handing[s].peer \in Sighted /\ handing[s].kind \in {"found", "lost", "updated"}
    BY <2>1 DEF Sighting
  <2>3. announced' \in {announced, announced \cup {handing[s].peer}, announced \ {handing[s].peer}}
    BY <1>10, <2>2 DEF Forward
  <2> QED
    BY <1>10, <2>2, <2>3 DEF Forward
<1>11. CASE UNCHANGED hybridVars
  BY <1>11 DEF hybridVars
<1> QED
  BY <1>1, <1>2, <1>3, <1>4, <1>7, <1>8, <1>9, <1>10, <1>11 DEF HybridNext

\* An event added to the end of a feed follows all that is in it.
LEMMA SightKeeps ==
    ASSUME HybridInv, NEW s \in Strategies, NEW kind \in {"found", "lost", "updated"},
           NEW p \in Sighted, Sight(s, kind, p)
    PROVE  /\ \A t \in Strategies : FoundIsSeen(t)'
           /\ \A q : (\E t \in Strategies : q \in sees[t] \/ LossWaits(t, q))
                        => \E t \in Strategies : q \in sees'[t] \/ LossWaits(t, q)'
<1> DEFINE e == [kind |-> kind, peer |-> p]
<1>1. /\ sees' = [sees EXCEPT ![s] = IF kind = "lost" THEN @ \ {p} ELSE @ \cup {p}]
      /\ feed' = [feed EXCEPT ![s] = Append(@, e)]
      /\ sees \in [Strategies -> SUBSET Sighted] /\ feed \in [Strategies -> Seq(Sighting)]
      /\ e \in Sighting /\ e.kind = kind /\ e.peer = p /\ (kind = "lost" => e = Lost(p))
  BY DEF Sight, HybridInv, HybridTypeOK, Sighting, Lost
<1> HIDE DEF e
<1>2. /\ Len(feed'[s]) = Len(feed[s]) + 1 /\ Len(feed[s]) \in Nat
      /\ \A i \in 1 .. Len(feed[s]) : feed'[s][i] = feed[s][i]
      /\ feed'[s][Len(feed[s]) + 1] = e
  BY <1>1, AppendProperties
<1>3. \A t \in Strategies : t # s => feed'[t] = feed[t] /\ sees'[t] = sees[t]
  BY <1>1
<1>4. sees'[s] = IF kind = "lost" THEN sees[s] \ {p} ELSE sees[s] \cup {p}
  BY <1>1
<1>5. ASSUME NEW t \in Strategies PROVE FoundIsSeen(t)'
  <2>1. CASE t # s
    BY <1>3, <2>1 DEF HybridInv, FoundIsSeen
  <2>2. CASE t = s
    <3> SUFFICES ASSUME NEW i \in 1 .. Len(feed'[s]), feed'[s][i].kind = "found"
                 PROVE  \/ feed'[s][i].peer \in sees'[s]
                        \/ \E j \in i + 1 .. Len(feed'[s]) : feed'[s][j] = Lost(feed'[s][i].peer)
      BY <2>2 DEF FoundIsSeen
    <3>1. CASE i = Len(feed[s]) + 1
      BY <1>1, <1>2, <1>4, <3>1
    <3>2. CASE i # Len(feed[s]) + 1
      <4>1. i \in 1 .. Len(feed[s]) /\ feed'[s][i] = feed[s][i]
        BY <1>2, <3>2
      <4>2. CASE \E j \in i + 1 .. Len(feed[s]) : feed[s][j] = Lost(feed[s][i].peer)
        BY <1>2, <4>1, <4>2
      <4>3. CASE feed[s][i].peer \in sees[s]
        <5>1. CASE kind = "lost" /\ feed[s][i].peer = p
          <6>1. Len(feed[s]) + 1 \in i + 1 .. Len(feed'[s])
            BY <1>2, <4>1
          <6> QED
            BY <1>1, <1>2, <4>1, <5>1, <6>1
        <5>2. CASE ~(kind = "lost" /\ feed[s][i].peer = p)
          BY <1>4, <4>1, <4>3, <5>2
        <5> QED
          BY <5>1, <5>2
      <4> QED
        BY <4>1, <4>2, <4>3 DEF HybridInv, FoundIsSeen
    <3> QED
      BY <3>1, <3>2
  <2> QED
    BY <2>1, <2>2
<1>6. ASSUME NEW q, NEW t \in Strategies, q \in sees[t] \/ LossWaits(t, q)
      PROVE  q \in sees'[t] \/ LossWaits(t, q)'
  <2>1. CASE t # s
    BY <1>3, <1>6, <2>1 DEF LossWaits
  <2>2. CASE t = s /\ LossWaits(s, q)
    BY <1>2, <2>2 DEF LossWaits
  <2>3. CASE t = s /\ q \in sees[s]
    <3>1. CASE kind = "lost" /\ q = p
      <4>1. Len(feed[s]) + 1 \in 1 .. Len(feed'[s])
        BY <1>2
      <4> QED
        BY <1>1, <1>2, <2>3, <3>1, <4>1 DEF LossWaits
    <3>2. CASE ~(kind = "lost" /\ q = p)
      BY <1>4, <2>3, <3>2
    <3> QED
      BY <3>1, <3>2
  <2> QED
    BY <1>6, <2>1, <2>2, <2>3
<1> QED
  BY <1>5, <1>6

\* A task that takes an event leaves those that follow it.
LEMMA ReceivesKeeps ==
    ASSUME HybridInv, NEW s \in Strategies, NEW kind, Receives(s, kind), sees' = sees,
           NEW p, p = Head(feed[s]).peer
    PROVE  /\ \A t \in Strategies : FoundIsSeen(t)'
           /\ \A q : Head(feed[s]) # Lost(q) =>
                 \A t \in Strategies : q \in sees[t] \/ LossWaits(t, q) => q \in sees'[t] \/ LossWaits(t, q)'
           /\ Head(feed[s]) \in Sighting
           /\ kind = "found" => p \in sees'[s] \/ LossWaits(s, p)'
<1>1. /\ feed' = [feed EXCEPT ![s] = Tail(@)] /\ feed[s] # << >>
      /\ feed \in [Strategies -> Seq(Sighting)]
  BY DEF Receives, HybridInv, HybridTypeOK
<1>2. /\ Head(feed[s]) \in Sighting /\ Len(feed'[s]) = Len(feed[s]) - 1 /\ Len(feed[s]) \in Nat
      /\ \A i \in 1 .. Len(feed'[s]) : feed'[s][i] = feed[s][i + 1]
      /\ Head(feed[s]) = feed[s][1] /\ Len(feed[s]) >= 1
  BY <1>1, HeadTailProperties
<1>3. \A t \in Strategies : t # s => feed'[t] = feed[t]
  BY <1>1
<1>4. ASSUME NEW j \in 2 .. Len(feed[s]) PROVE j - 1 \in 1 .. Len(feed'[s]) /\ feed'[s][j - 1] = feed[s][j]
  <2>1. j - 1 \in 1 .. Len(feed'[s]) /\ (j - 1) + 1 = j
    BY <1>2
  <2> QED
    BY <1>2, <2>1
<1>5. ASSUME NEW t \in Strategies PROVE FoundIsSeen(t)'
  <2>1. CASE t # s
    BY <1>3, <2>1 DEF HybridInv, FoundIsSeen
  <2>2. CASE t = s
    <3> SUFFICES ASSUME NEW i \in 1 .. Len(feed'[s]), feed'[s][i].kind = "found"
                 PROVE  \/ feed'[s][i].peer \in sees[s]
                        \/ \E j \in i + 1 .. Len(feed'[s]) : feed'[s][j] = Lost(feed'[s][i].peer)
      BY <2>2 DEF FoundIsSeen
    <3>1. i + 1 \in 1 .. Len(feed[s]) /\ feed'[s][i] = feed[s][i + 1]
      BY <1>2
    <3>2. \/ feed[s][i + 1].peer \in sees[s]
          \/ \E j \in (i + 1) + 1 .. Len(feed[s]) : feed[s][j] = Lost(feed[s][i + 1].peer)
      BY <3>1 DEF HybridInv, FoundIsSeen
    <3>3. ASSUME NEW j \in (i + 1) + 1 .. Len(feed[s]) PROVE j \in 2 .. Len(feed[s]) /\ j - 1 \in i + 1 .. Len(feed'[s])
      BY <1>2
    <3> QED
      BY <1>4, <3>1, <3>2, <3>3
  <2> QED
    BY <2>1, <2>2
<1>6. ASSUME NEW q, Head(feed[s]) # Lost(q), NEW t \in Strategies, LossWaits(t, q)
      PROVE  LossWaits(t, q)'
  <2>1. CASE t # s
    BY <1>3, <1>6, <2>1 DEF LossWaits
  <2>2. CASE t = s
    <3>1. PICK j \in 1 .. Len(feed[s]) : feed[s][j] = Lost(q)
      BY <1>6, <2>2 DEF LossWaits
    <3>2. j \in 2 .. Len(feed[s])
      BY <1>2, <1>6, <3>1
    <3> QED
      BY <1>4, <2>2, <3>1, <3>2 DEF LossWaits
  <2> QED
    BY <2>1, <2>2
<1>7. ASSUME kind = "found" PROVE p \in sees[s] \/ LossWaits(s, p)'
  <2>1. 1 \in 1 .. Len(feed[s]) /\ feed[s][1].kind = "found" /\ feed[s][1].peer = p
    BY <1>2, <1>7 DEF Receives
  <2>2. p \in sees[s] \/ \E j \in 1 + 1 .. Len(feed[s]) : feed[s][j] = Lost(p)
    BY <2>1 DEF HybridInv, FoundIsSeen
  <2>3. ASSUME NEW j \in 1 + 1 .. Len(feed[s]), feed[s][j] = Lost(p)
        PROVE  LossWaits(s, p)'
    <3>1. j \in 2 .. Len(feed[s])
      OBVIOUS
    <3> QED
      BY <1>4, <2>3, <3>1 DEF LossWaits
  <2> QED
    BY <2>2, <2>3
<1> QED
  BY <1>2, <1>5, <1>6, <1>7

\* Only the task s has something else in hand than before, and only about p.
HandsOnly(s, p) ==
    \A t \in Strategies, q \in Sighted :
        t # s \/ q # p => /\ Holds(t, q)' <=> Holds(t, q)
                          /\ Holds(t, q) => handing'[t].kind = handing[t].kind

\* A task that puts an event of p into its empty hand leaves the others.
LEMMA HandEffect ==
    ASSUME HybridTypeOK, NEW s \in Strategies, handing[s] = NoneInHand, NEW p \in Sighted,
           NEW kind \in {"found", "lost", "updated"},
           handing' = [handing EXCEPT ![s] = [kind |-> kind, peer |-> p]]
    PROVE  /\ HandsOnly(s, p)
           /\ ~Holds(s, p)
           /\ Holds(s, p)' <=> kind # "updated"
           /\ handing'[s].kind = kind
<1> DEFINE e == [kind |-> kind, peer |-> p]
<1>1. e \in Sighting /\ e.kind = kind /\ e.peer = p
  BY DEF Sighting
<1> HIDE DEF e
<1>2. handing'[s] = e /\ \A t \in Strategies : t # s => handing'[t] = handing[t]
  BY DEF HybridTypeOK, e
<1>3. e # NoneInHand
  BY <1>1, HybridAssumption
<1> QED
  BY <1>1, <1>2, <1>3 DEF HandsOnly, Holds

\* What a step is not about stays as it was for the consumer.
LEMMA InHandFrame ==
    ASSUME NEW s \in Strategies, NEW p \in Sighted, HandsOnly(s, p), NEW q \in Sighted, q # p,
           q \in combined' <=> q \in combined, q \in announced' <=> q \in announced,
           InHandIsLast(q)
    PROVE  InHandIsLast(q)'
  BY DEF HandsOnly, InHandIsLast

\* Strategies, merging and forwarding keep the invariant.
LEMMA HybridInvStep == HybridInv /\ [HybridNext]_hybridVars => HybridInv'
<1> SUFFICES ASSUME HybridInv, [HybridNext]_hybridVars PROVE HybridInv'
  OBVIOUS
<1>0. HybridTypeOK /\ HybridTypeOK'
  BY HybridTypeStep DEF HybridInv
<1>1. ASSUME UNCHANGED <<sees, feed, combined, handing, announced, raced>> PROVE HybridInv'
  BY <1>0, <1>1 DEF HybridInv, FoundIsSeen, LossWaits, InHandIsLast, Holds
<1>2. CASE StartAll
  BY <1>1, <1>2 DEF StartAll
<1>3. ASSUME NEW before \in SUBSET Strategies, NEW failing \in Strategies, StartAllFails(before, failing)
      PROVE  HybridInv'
  BY <1>1, <1>3 DEF StartAllFails
<1>4. CASE StopAll
  BY <1>1, <1>4 DEF StopAll
<1>5. ASSUME NEW s \in Strategies, NEW kind \in {"found", "lost", "updated"}, NEW p \in Sighted,
             Sight(s, kind, p)
      PROVE  HybridInv'
  <2>1. UNCHANGED <<combined, handing, announced, raced>>
    BY <1>5 DEF Sight
  <2>2. \A q \in Sighted \ raced' : InHandIsLast(q)'
    BY <2>1 DEF HybridInv, InHandIsLast, Holds
  <2>3. /\ \A t \in Strategies : FoundIsSeen(t)'
        /\ \A q \in combined' : \E t \in Strategies : q \in sees'[t] \/ LossWaits(t, q)'
    BY <1>5, <2>1, SightKeeps DEF HybridInv
  <2> QED
    BY <1>0, <2>2, <2>3 DEF HybridInv
<1>6. ASSUME NEW s \in Strategies, MergeFound(s) PROVE HybridInv'
  <2>0. PICK p : p = Head(feed[s]).peer
    OBVIOUS
  <2>1. Receives(s, "found") /\ Head(feed[s]).kind = "found" /\ handing[s] = NoneInHand
    BY <1>6 DEF MergeFound, Receives
  <2>2. /\ combined' = combined \cup {p}
        /\ handing' = [handing EXCEPT ![s] = [kind |-> IF p \in combined THEN "updated" ELSE "found", peer |-> p]]
        /\ raced' = IF p \notin combined /\ ChangeInHand(p) THEN raced \cup {p} ELSE raced
        /\ sees' = sees /\ announced' = announced
    BY <1>6, <2>0 DEF MergeFound, Races
  <2>3. /\ \A t \in Strategies : FoundIsSeen(t)'
        /\ \A q : Head(feed[s]) # Lost(q) =>
              \A t \in Strategies : q \in sees[t] \/ LossWaits(t, q) => q \in sees'[t] \/ LossWaits(t, q)'
        /\ p \in sees'[s] \/ LossWaits(s, p)'
        /\ p \in Sighted
    <3>1. Head(feed[s]) \in Sighting /\ (p \in sees'[s] \/ LossWaits(s, p)')
      BY <2>0, <2>1, <2>2, ReceivesKeeps
    <3>2. p \in Sighted
      BY <2>0, <3>1 DEF Sighting
    <3>3. /\ \A t \in Strategies : FoundIsSeen(t)'
          /\ \A q : Head(feed[s]) # Lost(q) =>
                \A t \in Strategies : q \in sees[t] \/ LossWaits(t, q) => q \in sees'[t] \/ LossWaits(t, q)'
      BY <2>0, <2>1, <2>2, ReceivesKeeps
    <3> QED
      BY <3>1, <3>2, <3>3
  <2>4. \A q : Head(feed[s]) # Lost(q)
    BY <2>1 DEF Lost
  <2>5. ASSUME NEW q \in combined' PROVE \E t \in Strategies : q \in sees'[t] \/ LossWaits(t, q)'
    <3>1. CASE q = p
      BY <2>3, <3>1
    <3>2. CASE q # p
      <4>1. PICK t \in Strategies : q \in sees[t] \/ LossWaits(t, q)
        BY <2>2, <3>2 DEF HybridInv
      <4> QED
        BY <2>3, <2>4, <4>1
    <3> QED
      BY <3>1, <3>2
  <2>6. /\ HandsOnly(s, p) /\ ~Holds(s, p)
        /\ Holds(s, p)' <=> p \notin combined
        /\ p \notin combined => handing'[s].kind = "found"
    <3>1. CASE p \in combined
      BY <1>0, <2>1, <2>2, <2>3, <3>1, HandEffect
    <3>2. CASE p \notin combined
      BY <1>0, <2>1, <2>2, <2>3, <3>2, HandEffect
    <3> QED
      BY <3>1, <3>2
  <2>7. ASSUME NEW q \in Sighted \ raced' PROVE InHandIsLast(q)'
    <3>1. InHandIsLast(q) /\ q \in Sighted
      BY <2>2 DEF HybridInv
    <3>2. CASE q # p
      BY <2>2, <2>3, <2>6, <3>1, <3>2, InHandFrame
    <3>3. CASE q = p
      <4>1. \A t \in Strategies : t # s => /\ Holds(t, p)' <=> Holds(t, p)
                                           /\ Holds(t, p) => handing'[t].kind = handing[t].kind
        BY <2>3, <2>6 DEF HandsOnly
      <4>2. CASE p \in combined
        <5>1. \A t \in Strategies : /\ Holds(t, p)' <=> Holds(t, p)
                                    /\ Holds(t, p) => handing'[t].kind = handing[t].kind
          BY <2>6, <4>1, <4>2
        <5> QED
          BY <2>2, <3>1, <3>3, <4>2, <5>1 DEF InHandIsLast
      <4>3. CASE p \notin combined
        <5>1. \A t \in Strategies : ~Holds(t, p)
          BY <2>2, <3>3, <4>3 DEF ChangeInHand, Holds
        <5> QED
          BY <2>2, <2>6, <3>3, <4>1, <4>3, <5>1 DEF InHandIsLast
      <4> QED
        BY <4>2, <4>3
    <3> QED
      BY <3>2, <3>3
  <2> QED
    BY <1>0, <2>3, <2>5, <2>7 DEF HybridInv
<1>7. ASSUME NEW s \in Strategies, MergeLost(s) PROVE HybridInv'
  <2>0. PICK p : p = Head(feed[s]).peer
    OBVIOUS
  <2>1. Receives(s, "lost") /\ Head(feed[s]).kind = "lost" /\ handing[s] = NoneInHand
    BY <1>7 DEF MergeLost, Receives
  <2>2. /\ combined' = combined \ {p}
        /\ p \in combined => /\ handing' = [handing EXCEPT ![s] = [kind |-> "lost", peer |-> p]]
                             /\ raced' = IF ChangeInHand(p) THEN raced \cup {p} ELSE raced
        /\ p \notin combined => handing' = handing /\ raced' = raced
        /\ sees' = sees /\ announced' = announced
    BY <1>7, <2>0 DEF MergeLost, Races
  <2>3. /\ \A t \in Strategies : FoundIsSeen(t)'
        /\ \A q : Head(feed[s]) # Lost(q) =>
              \A t \in Strategies : q \in sees[t] \/ LossWaits(t, q) => q \in sees'[t] \/ LossWaits(t, q)'
        /\ Head(feed[s]) \in Sighting
    BY <2>0, <2>1, <2>2, ReceivesKeeps
  <2>4. p \in Sighted /\ \A q : q # p => Head(feed[s]) # Lost(q)
    BY <2>0, <2>3 DEF Sighting, Lost
  <2>5. ASSUME NEW q \in combined' PROVE \E t \in Strategies : q \in sees'[t] \/ LossWaits(t, q)'
    <3>1. q \in combined /\ q # p
      BY <2>2
    <3>2. PICK t \in Strategies : q \in sees[t] \/ LossWaits(t, q)
      BY <3>1 DEF HybridInv
    <3> QED
      BY <2>3, <2>4, <3>1, <3>2
  <2>6. ASSUME NEW q \in Sighted \ raced' PROVE InHandIsLast(q)'
    <3>1. CASE p \notin combined
      <4>1. UNCHANGED <<combined, handing, announced, raced>>
        BY <2>2, <3>1
      <4>2. InHandIsLast(q)
        BY <4>1 DEF HybridInv
      <4> QED
        BY <4>1, <4>2 DEF InHandIsLast, Holds
    <3>2. CASE p \in combined
      <4>0. InHandIsLast(q) /\ q \in Sighted
        BY <2>2, <3>2 DEF HybridInv
      <4>1. HandsOnly(s, p) /\ Holds(s, p)' /\ handing'[s].kind = "lost"
        BY <1>0, <2>1, <2>2, <2>4, <3>2, HandEffect
      <4>2. CASE q # p
        BY <2>2, <2>4, <4>0, <4>1, <4>2, InHandFrame
      <4>3. CASE q = p
        <5>1. \A t \in Strategies : ~Holds(t, p)
          BY <2>2, <3>2, <4>3 DEF ChangeInHand, Holds
        <5>2. \A t \in Strategies : t # s => ~Holds(t, p)'
          BY <2>4, <4>1, <5>1 DEF HandsOnly
        <5> QED
          BY <2>2, <4>1, <4>3, <5>2 DEF InHandIsLast
      <4> QED
        BY <4>2, <4>3
    <3> QED
      BY <3>1, <3>2
  <2> QED
    BY <1>0, <2>3, <2>5, <2>6 DEF HybridInv
<1>8. ASSUME NEW s \in Strategies, MergeUpdated(s) PROVE HybridInv'
  <2>0. PICK p : p = Head(feed[s]).peer
    OBVIOUS
  <2>1. Receives(s, "updated") /\ Head(feed[s]).kind = "updated" /\ handing[s] = NoneInHand
    BY <1>8 DEF MergeUpdated, Receives
  <2>2. /\ handing' = IF p \in combined THEN [handing EXCEPT ![s] = [kind |-> "updated", peer |-> p]] ELSE handing
        /\ UNCHANGED <<sees, combined, announced, raced>>
    BY <1>8, <2>0 DEF MergeUpdated
  <2>3. /\ \A t \in Strategies : FoundIsSeen(t)'
        /\ \A q : Head(feed[s]) # Lost(q) =>
              \A t \in Strategies : q \in sees[t] \/ LossWaits(t, q) => q \in sees'[t] \/ LossWaits(t, q)'
        /\ Head(feed[s]) \in Sighting
    BY <2>0, <2>1, <2>2, ReceivesKeeps
  <2>4. p \in Sighted /\ \A q : Head(feed[s]) # Lost(q)
    BY <2>0, <2>1, <2>3 DEF Sighting, Lost
  <2>5. ASSUME NEW q \in combined' PROVE \E t \in Strategies : q \in sees'[t] \/ LossWaits(t, q)'
    <3>1. PICK t \in Strategies : q \in sees[t] \/ LossWaits(t, q)
      BY <2>2 DEF HybridInv
    <3> QED
      BY <2>3, <2>4, <3>1
  <2>6. \A t \in Strategies, q \in Sighted : /\ Holds(t, q)' <=> Holds(t, q)
                                             /\ Holds(t, q) => handing'[t].kind = handing[t].kind
    <3>1. CASE p \in combined
      <4>1. HandsOnly(s, p) /\ ~Holds(s, p) /\ ~Holds(s, p)'
        BY <1>0, <2>1, <2>2, <2>4, <3>1, HandEffect
      <4> QED
        BY <4>1 DEF HandsOnly
    <3>2. CASE p \notin combined
      BY <2>2, <3>2 DEF Holds
    <3> QED
      BY <3>1, <3>2
  <2>7. \A q \in Sighted \ raced' : InHandIsLast(q)'
    BY <2>2, <2>6 DEF HybridInv, InHandIsLast
  <2> QED
    BY <1>0, <2>3, <2>5, <2>7 DEF HybridInv
<1>9. ASSUME NEW s \in Strategies, Forward(s) PROVE HybridInv'
  <2>0. PICK p, kind : p = handing[s].peer /\ kind = handing[s].kind
    OBVIOUS
  <2>1. /\ handing[s] # NoneInHand /\ handing' = [handing EXCEPT ![s] = NoneInHand]
        /\ UNCHANGED <<sees, feed, combined, raced>>
    BY <1>9 DEF Forward
  <2>2. p \in Sighted /\ kind \in {"found", "lost", "updated"}
    BY <1>0, <2>0, <2>1 DEF HybridTypeOK, Sighting
  <2>3. /\ kind = "found" => announced' = announced \cup {p}
        /\ kind = "lost" => announced' = announced \ {p}
        /\ kind = "updated" => announced' = announced
    BY <1>9, <2>0, <2>2 DEF Forward
  <2>4. /\ \A t \in Strategies : FoundIsSeen(t)'
        /\ \A q \in combined' : \E t \in Strategies : q \in sees'[t] \/ LossWaits(t, q)'
    BY <2>1 DEF HybridInv, FoundIsSeen, LossWaits
  <2>5. /\ \A q : ~Holds(s, q)'
        /\ \A t \in Strategies : t # s => handing'[t] = handing[t]
        /\ \A q : Holds(s, q) <=> (q = p /\ kind # "updated")
    BY <1>0, <2>0, <2>1 DEF HybridTypeOK, Holds
  <2>6. \A t \in Strategies : \A q : t # s => (Holds(t, q)' <=> Holds(t, q))
    BY <2>5 DEF Holds
  <2>7. ASSUME NEW q \in Sighted \ raced' PROVE InHandIsLast(q)'
    <3>1. InHandIsLast(q)
      BY <2>1 DEF HybridInv
    <3>2. CASE Holds(s, q)
      <4>1. \A t \in Strategies : ~Holds(t, q)'
        BY <2>5, <2>6, <3>1, <3>2 DEF InHandIsLast
      <4>2. q = p /\ kind # "updated" /\ (kind = "found" <=> q \in combined)
        BY <2>0, <2>5, <3>1, <3>2 DEF InHandIsLast
      <4>3. q \in announced' <=> q \in combined'
        BY <2>1, <2>2, <2>3, <4>2
      <4> QED
        BY <4>1, <4>3 DEF InHandIsLast
    <3>3. CASE ~Holds(s, q)
      <4>1. \A t \in Strategies : Holds(t, q)' <=> Holds(t, q)
        BY <2>5, <2>6, <3>3
      <4>2. \A t \in Strategies : Holds(t, q) => handing'[t].kind = handing[t].kind
        BY <2>5, <3>3
      <4>3. q \in announced' <=> q \in announced
        BY <2>2, <2>3, <2>5, <3>3
      <4> QED
        BY <2>1, <3>1, <4>1, <4>2, <4>3 DEF InHandIsLast
    <3> QED
      BY <3>2, <3>3
  <2> QED
    BY <1>0, <2>4, <2>7 DEF HybridInv
<1>10. CASE UNCHANGED hybridVars
  BY <1>1, <1>10 DEF hybridVars
<1> QED
  BY <1>2, <1>3, <1>4, <1>5, <1>6, <1>7, <1>8, <1>9, <1>10 DEF HybridNext

\* The strategies have seen nothing yet.
LEMMA HybridInvInit == HybridInit => HybridInv
<1> SUFFICES ASSUME HybridInit PROVE HybridInv
  OBVIOUS
<1> USE DEF HybridInit
<1>1. HybridTypeOK
  <2>1. << >> \in Seq(Sighting)
    BY EmptySeq
  <2>2. 0 \in 0 .. MaxSightings
    BY HybridAssumption
  <2>3. feed \in [Strategies -> Seq(Sighting)]
    BY <2>1
  <2>4. sees \in [Strategies -> SUBSET Sighted] /\ handing \in [Strategies -> Sighting \cup {NoneInHand}]
    OBVIOUS
  <2> QED
    BY <2>2, <2>3, <2>4 DEF HybridTypeOK
<1> QED
  BY <1>1, SMTT(30) DEF HybridInv, FoundIsSeen, InHandIsLast, Holds

\* When the tasks of the strategies, any number of them, have merged and
\* forwarded everything, no peer that all lost is left in the combined map, and
\* the consumer has been told of exactly its peers, the raced ones aside.
THEOREM MergedPeersAreSeen == HybridSpec => []MergedMeansSeen
<1>1. HybridInv => MergedMeansSeen
  <2> SUFFICES ASSUME HybridInv, \A s \in Strategies : feed[s] = << >> /\ handing[s] = NoneInHand
               PROVE  /\ \A p \in combined : \E s \in Strategies : p \in sees[s]
                      /\ \A p \in Sighted \ raced : p \in announced <=> p \in combined
    BY DEF MergedMeansSeen
  <2>1. \A s \in Strategies : \A p : ~LossWaits(s, p) /\ ~Holds(s, p)
    BY DEF LossWaits, Holds
  <2> QED
    BY <2>1 DEF HybridInv, InHandIsLast
<1> QED
  BY <1>1, HybridInvInit, HybridInvStep, PTL DEF HybridSpec

\* Merged discovery keeps its types: a task has one change in hand at most (start_all).
THEOREM HybridTypeCorrect == HybridSpec => []HybridTypeOK
<1>1. HybridInv => HybridTypeOK
  BY DEF HybridInv
<1> QED
  BY <1>1, HybridInvInit, HybridInvStep, PTL DEF HybridSpec
=============================================================================
