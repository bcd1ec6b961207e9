--------------------------- MODULE TransferProofs ---------------------------
(***************************************************************************)
(* Proofs about what arrives: the target of a streaming transfer, the copy *)
(* that an observer of the in-memory store keeps, and the resumption of    *)
(* transfers that were paused for more urgent ones.                        *)
(***************************************************************************)
EXTENDS StreamingTransfer, InMemoryBackend, PreemptionController, SequenceTheorems, TLAPS

-----------------------------------------------------------------------------
(* Streaming transfers.                                                    *)

\* A target cut or filled up to n units has n, those it had unchanged.
LEMMA PadFacts ==
    ASSUME NEW s \in Seq(Nat), NEW n \in Nat
    PROVE  /\ PadTo(n, s) \in Seq(Nat)
           /\ Len(PadTo(n, s)) = n
           /\ \A i \in 1 .. n : i <= Len(s) => PadTo(n, s)[i] = s[i]
<1>1. \A i \in 1 .. n : (IF i <= Len(s) THEN s[i] ELSE 0) \in Nat
  OBVIOUS
<1> QED
  BY <1>1 DEF PadTo

\* t is the a units of s and the units after them up to b.
Appended(s, a, b, t) ==
    /\ t \in Seq(Nat) /\ Len(t) = b
    /\ \A i \in 1 .. a : t[i] = s[i]
    /\ \A i \in a + 1 .. b : t[i] = i

\* Writing the units after the last up to b appends them.
LEMMA AppendFacts ==
    ASSUME NEW s \in Seq(Nat), NEW b \in Nat, NEW a \in Nat, a = Len(s), a <= b
    PROVE  Appended(s, a, b, s \o Units(a, b))
<1> DEFINE t == s \o Units(a, b)
<1>1. Units(a, b) \in Seq(Nat) /\ Len(Units(a, b)) = b - a
  BY DEF Units
<1>2. \A i \in 1 .. b - a : Units(a, b)[i] = a + i
  BY DEF Units
<1>3. /\ t \in Seq(Nat) /\ Len(t) = Len(s) + Len(Units(a, b))
      /\ \A i \in 1 .. Len(s) + Len(Units(a, b)) :
            t[i] = IF i <= Len(s) THEN s[i] ELSE Units(a, b)[i - Len(s)]
  BY <1>1, ConcatProperties
<1> HIDE DEF t
<1>4. t \in Seq(Nat) /\ Len(t) = b
  BY <1>1, <1>3
<1>5. ASSUME NEW i \in 1 .. a PROVE t[i] = s[i]
  <2>1. i \in 1 .. Len(s) + Len(Units(a, b)) /\ i <= Len(s)
    BY <1>1
  <2> QED
    BY <1>3, <2>1
<1>6. ASSUME NEW i \in a + 1 .. b PROVE t[i] = i
  <2>1. i \in 1 .. Len(s) + Len(Units(a, b)) /\ ~(i <= Len(s)) /\ i - Len(s) \in 1 .. b - a
    BY <1>1
  <2>2. t[i] = Units(a, b)[i - Len(s)]
    BY <1>3, <2>1
  <2>3. Units(a, b)[i - Len(s)] = a + (i - Len(s))
    BY <1>2, <2>1
  <2> QED
    BY <2>2, <2>3
<1> QED
  <2>1. Appended(s, a, b, t)
    BY <1>4, <1>5, <1>6 DEF Appended
  <2> QED
    BY <2>1 DEF t

\* The first n units of the target are those of the blob.
HoldsBlob(n, t) == Len(t) >= n /\ \A i \in 1 .. n : t[i] = i

\* Up to the checkpoint's offset the target holds the blob, unless a crash undid
\* what a saved checkpoint counted.
StreamingInv ==
    /\ offset \in Nat /\ hashed \in Nat /\ inHand \in Nat /\ durable \in Nat
    /\ saved[1] \in Nat /\ saved[1] <= offset /\ offset <= BlobUnits
    /\ target \in Seq(Nat) /\ durable <= Len(target)
    /\ leg \in {"skipping", "reading", "writing", "ok"} => Len(target) = offset
    /\ leg = "reading" => hashed = offset
    /\ leg = "writing" => hashed = offset + inHand /\ hashed <= BlobUnits
    /\ leg = "ok" /\ checksDigest => offset = BlobUnits
    /\ sawLoss \/ HoldsBlob(offset, target)

\* stream_transfer never returns Ok with its digest verified over a target that
\* is not the blob, for blobs, chunks and checkpoint intervals of any size.
THEOREM VerifiedExact == StreamingSpec => []VerifiedMeansExact
<1>0. BlobUnits \in Nat /\ ChunkUnits \in Nat
  BY StreamingAssumption
<1>1. StreamingInit => StreamingInv
  BY <1>0 DEF StreamingInit, StreamingInv, HoldsBlob
<1>2. StreamingInv /\ [StreamingNext]_transferVars => StreamingInv'
  <2> SUFFICES ASSUME StreamingInv, [StreamingNext]_transferVars PROVE StreamingInv'
    OBVIOUS
  <2>1. CASE StreamTransfer
    <3>1. /\ target' \in Seq(Nat) /\ Len(target') = offset
          /\ \A i \in 1 .. offset : i <= Len(target) => target'[i] = target[i]
      BY <2>1, PadFacts DEF StreamTransfer, StreamingInv
    <3>2. durable' \in Nat /\ durable' <= offset
      BY <2>1 DEF StreamTransfer, StreamingInv
    <3>3. leg' = "skipping" /\ hashed' = 0 /\ inHand' = 0 /\ UNCHANGED <<offset, saved, sawLoss, checksDigest>>
      BY <2>1 DEF StreamTransfer
    <3>4. sawLoss \/ HoldsBlob(offset, target')
      <4>1. ASSUME HoldsBlob(offset, target) PROVE HoldsBlob(offset, target')
        <5>1. offset \in Nat /\ Len(target) \in Nat
          BY DEF StreamingInv
        <5> QED
          BY <3>1, <4>1, <5>1 DEF HoldsBlob
      <4> QED
        BY <4>1 DEF StreamingInv
    <3> QED
      BY <3>1, <3>2, <3>3, <3>4 DEF StreamingInv
  <2>2. CASE SkipEnds \/ ReadFails \/ Persisted \/ SourceEnds
    BY <2>2 DEF SkipEnds, ReadFails, Persisted, SourceEnds, StreamingInv
  <2>3. ASSUME NEW n \in 1 .. ChunkUnits, SkipRead(n) \/ ReadChunk(n) PROVE StreamingInv'
    <3>1. n \in Nat
      BY <1>0
    <3>2. CASE SkipRead(n)
      BY <3>1, <3>2 DEF SkipRead, StreamingInv
    <3>3. CASE ReadChunk(n)
      BY <3>1, <3>3 DEF ReadChunk, StreamingInv
    <3> QED
      BY <2>3, <3>2, <3>3
  <2>4. CASE WriteChunk
    <3>1. target \in Seq(Nat) /\ offset \in Nat /\ hashed \in Nat /\ offset <= hashed
      BY <2>4 DEF WriteChunk, StreamingInv
    <3>2. Len(target) = offset /\ hashed - inHand = offset /\ offset + inHand = hashed
      BY <2>4 DEF WriteChunk, StreamingInv
    <3>3. target' = target \o Units(offset, hashed) /\ offset' = hashed
      BY <2>4, <3>2 DEF WriteChunk
    <3>4. /\ target' \in Seq(Nat) /\ Len(target') = hashed
          /\ \A i \in 1 .. offset : target'[i] = target[i]
          /\ \A i \in offset + 1 .. hashed : target'[i] = i
      <4>1. Appended(target, offset, hashed, target \o Units(offset, hashed))
        BY <3>1, <3>2, AppendFacts
      <4> QED
        BY <3>3, <4>1 DEF Appended
    <3>5. ASSUME HoldsBlob(offset, target) PROVE HoldsBlob(hashed, target')
      BY <3>1, <3>4, <3>5 DEF HoldsBlob
    <3>6. hashed' = hashed /\ inHand' = 0 /\ hashed <= BlobUnits /\ UNCHANGED <<durable, sawLoss, checksDigest>>
      BY <2>4 DEF WriteChunk, StreamingInv
    <3>7. saved'[1] \in Nat /\ saved'[1] <= hashed
      <4>1. saved' = saved \/ saved' = <<offset', chunks'>>
        BY <2>4 DEF WriteChunk
      <4> QED
        BY <3>1, <3>3, <4>1 DEF StreamingInv
    <3>8. leg' \in {"reading", "error"}
      BY <2>4 DEF WriteChunk
    <3> QED
      BY <3>1, <3>2, <3>3, <3>4, <3>5, <3>6, <3>7, <3>8 DEF StreamingInv
  <2>5. ASSUME NEW n \in 0 .. ChunkUnits, WriteFails(n) PROVE StreamingInv'
    <3>1. n \in Nat /\ target \in Seq(Nat) /\ offset \in Nat /\ hashed - inHand = offset /\ Len(target) = offset
      BY <1>0, <2>5 DEF WriteFails, StreamingInv
    <3>2. target' = target \o Units(offset, offset + n)
      BY <2>5, <3>1 DEF WriteFails
    <3>3. /\ target' \in Seq(Nat) /\ Len(target') = offset + n
          /\ \A i \in 1 .. offset : target'[i] = target[i]
      <4>1. offset + n \in Nat /\ offset <= offset + n
        BY <3>1
      <4>2. Appended(target, offset, offset + n, target \o Units(offset, offset + n))
        BY <3>1, <4>1, AppendFacts
      <4> QED
        BY <3>2, <4>2 DEF Appended
    <3>4. ASSUME HoldsBlob(offset, target) PROVE HoldsBlob(offset, target')
      BY <3>1, <3>3, <3>4 DEF HoldsBlob
    <3>5. leg' = "error" /\ UNCHANGED <<checksDigest, offset, saved, hashed, inHand, durable, sawLoss>>
      BY <2>5 DEF WriteFails
    <3> QED
      BY <3>1, <3>3, <3>4, <3>5 DEF StreamingInv
  <2>6. CASE Crash
    <3>1. PICK kept \in durable .. Len(target) :
             /\ target' = SubSeq(target, 1, kept)
             /\ durable' = kept
             /\ sawLoss' <=> (sawLoss \/ kept < saved[1])
      BY <2>6 DEF Crash
    <3>2. kept \in Nat /\ kept <= Len(target) /\ \A i \in 1 .. kept : target[i] \in Nat
      BY <3>1 DEF StreamingInv
    <3>3. target' \in Seq(Nat) /\ Len(target') = kept /\ \A i \in 1 .. kept : target'[i] = target[i]
      BY <3>1, <3>2, SubSeqProperties
    <3>4. leg' = "error" /\ offset' = saved[1] /\ UNCHANGED <<saved, hashed, inHand>>
      BY <2>6 DEF Crash
    <3>5. ASSUME HoldsBlob(offset, target), ~(kept < saved[1]) PROVE HoldsBlob(saved[1], target')
      <4>1. offset \in Nat /\ saved[1] \in Nat /\ saved[1] <= offset
        BY DEF StreamingInv
      <4> QED
        BY <3>2, <3>3, <3>5, <4>1 DEF HoldsBlob
    <3>6. sawLoss' \/ HoldsBlob(saved[1], target')
      BY <3>1, <3>5 DEF StreamingInv
    <3>7. saved[1] \in Nat /\ saved[1] <= BlobUnits /\ durable' \in Nat /\ durable' <= Len(target')
      BY <1>0, <3>1, <3>2, <3>3 DEF StreamingInv
    <3> QED
      BY <3>3, <3>4, <3>6, <3>7 DEF StreamingInv
  <2>7. CASE UNCHANGED transferVars
    BY <2>7 DEF transferVars, StreamingInv
  <2> QED
    BY <2>1, <2>2, <2>3, <2>4, <2>5, <2>6, <2>7 DEF StreamingNext
<1>3. StreamingInv => VerifiedMeansExact
  BY <1>0 DEF StreamingInv, VerifiedMeansExact, Units, HoldsBlob
<1> QED
  BY <1>1, <1>2, <1>3, PTL DEF StreamingSpec

-----------------------------------------------------------------------------
(* Observers of the in-memory store.                                       *)

Values == Nat \cup {Missing}
Changes == Seq(Ids \X Values)

\* A channel s with the change <<d, v>> in it, and none of d after it.
LastOf(s, d, v) ==
    \E i \in 1 .. Len(s) : /\ s[i] = <<d, v>>
                           /\ \A j \in i + 1 .. Len(s) : s[j][1] # d

\* A channel s without changes of d.
NoneOf(s, d) == \A j \in 1 .. Len(s) : s[j][1] # d

\* The last change of d that is on its way to m is what a query returns; where
\* none is, the copy is.
InStep(m, d) ==
    \/ LastOf(inbox[m], d, Query[d])
    \/ NoneOf(inbox[m], d) /\ (phase[m] = "mirroring" => copy[m][d] = Query[d])

MirrorShape ==
    /\ docs \in [Ids -> Values]
    /\ writes \in Nat
    /\ phase = [m \in Mirrors |-> phase[m]]
    /\ inbox \in [Mirrors -> Changes]
    /\ copy \in [Mirrors -> [Ids -> Values]]
    /\ \A m \in Mirrors : phase[m] = "off" => inbox[m] = <<>>

MirrorInv ==
    /\ MirrorShape
    /\ cleared \/ \A m \in Mirrors, d \in Ids : InStep(m, d)

\* What a change appended to a channel does to its last changes.
LEMMA AppendedChange ==
    ASSUME NEW s \in Changes, NEW d \in Ids, NEW v \in Values
    PROVE  /\ Append(s, <<d, v>>) \in Changes
           /\ LastOf(Append(s, <<d, v>>), d, v)
           /\ \A e \in Ids, w \in Values : e # d =>
                 /\ LastOf(s, e, w) => LastOf(Append(s, <<d, v>>), e, w)
                 /\ NoneOf(s, e) => NoneOf(Append(s, <<d, v>>), e)
<1> DEFINE t == Append(s, <<d, v>>)
<1>1. /\ t \in Changes /\ Len(t) = Len(s) + 1 /\ Len(s) \in Nat
      /\ \A i \in 1 .. Len(s) : t[i] = s[i]
      /\ t[Len(s) + 1] = <<d, v>>
  BY DEF Changes
<1> HIDE DEF t
<1>2. LastOf(t, d, v)
  BY <1>1 DEF LastOf
<1>3. ASSUME NEW e \in Ids, NEW w \in Values, e # d, LastOf(s, e, w) PROVE LastOf(t, e, w)
  <2>1. PICK i \in 1 .. Len(s) : s[i] = <<e, w>> /\ \A j \in i + 1 .. Len(s) : s[j][1] # e
    BY <1>3 DEF LastOf
  <2>2. i \in 1 .. Len(t) /\ t[i] = <<e, w>>
    BY <1>1, <2>1
  <2>3. ASSUME NEW j \in i + 1 .. Len(t) PROVE t[j][1] # e
    <3>1. CASE j = Len(s) + 1
      BY <1>1, <1>3, <3>1
    <3>2. CASE j # Len(s) + 1
      BY <1>1, <2>1, <3>2
    <3> QED
      BY <3>1, <3>2
  <2> QED
    BY <2>2, <2>3 DEF LastOf
<1>4. ASSUME NEW e \in Ids, e # d, NoneOf(s, e) PROVE NoneOf(t, e)
  BY <1>1, <1>4 DEF NoneOf
<1> QED
  BY <1>1, <1>2, <1>3, <1>4 DEF t

\* What taking the first change off a channel does.
LEMMA TakenChange ==
    ASSUME NEW s \in Changes, s # <<>>, NEW d \in Ids
    PROVE  /\ Tail(s) \in Changes /\ Head(s) \in Ids \X Values
           /\ NoneOf(s, d) => NoneOf(Tail(s), d) /\ Head(s)[1] # d
           /\ \A v \in Values : LastOf(s, d, v) =>
                 \/ LastOf(Tail(s), d, v)
                 \/ NoneOf(Tail(s), d) /\ Head(s) = <<d, v>>
<1> DEFINE t == Tail(s)
<1>1. /\ t \in Changes /\ Head(s) \in Ids \X Values /\ Len(s) \in Nat \ {0}
      /\ Len(t) = Len(s) - 1 /\ Head(s) = s[1]
      /\ \A i \in 1 .. Len(t) : t[i] = s[i + 1]
  BY HeadTailProperties DEF Changes
<1> HIDE DEF t
<1>2. ASSUME NoneOf(s, d) PROVE NoneOf(t, d) /\ Head(s)[1] # d
  BY <1>1, <1>2 DEF NoneOf
<1>3. ASSUME NEW v \in Values, LastOf(s, d, v)
      PROVE  LastOf(t, d, v) \/ (NoneOf(t, d) /\ Head(s) = <<d, v>>)
  <2>1. PICK i \in 1 .. Len(s) : s[i] = <<d, v>> /\ \A j \in i + 1 .. Len(s) : s[j][1] # d
    BY <1>3 DEF LastOf
  <2>2. CASE i = 1
    BY <1>1, <2>1, <2>2 DEF NoneOf
  <2>3. CASE i # 1
    <3>1. i - 1 \in 1 .. Len(t) /\ t[i - 1] = <<d, v>>
      BY <1>1, <2>1, <2>3
    <3>2. ASSUME NEW j \in (i - 1) + 1 .. Len(t) PROVE t[j][1] # d
      <4>1. j \in 1 .. Len(t) /\ j + 1 \in i + 1 .. Len(s)
        BY <1>1, <2>3
      <4> QED
        BY <1>1, <2>1, <4>1
    <3> QED
      BY <3>1, <3>2 DEF LastOf
  <2> QED
    BY <2>2, <2>3
<1> QED
  BY <1>1, <1>2, <1>3 DEF t

\* A write that notifies: the observers are sent what a query now returns.
LEMMA NotifiedInStep ==
    ASSUME MirrorInv, NEW d \in Ids, NEW v \in Values, notify_observers(d, v),
           Query'[d] = v, \A e \in Ids : e # d => Query'[e] = Query[e],
           UNCHANGED <<phase, copy, cleared>>, docs' \in [Ids -> Values], writes' \in Nat
    PROVE  MirrorInv'
<1>1. \A e \in Ids : Query[e] \in Values
  BY DEF MirrorInv, MirrorShape, Query, Values
<1>2. ASSUME NEW m \in Mirrors
      PROVE  /\ inbox'[m] \in Changes
             /\ phase[m] = "off" => inbox'[m] = inbox[m]
             /\ phase[m] # "off" => inbox'[m] = Append(inbox[m], <<d, v>>)
  BY AppendedChange DEF notify_observers, MirrorInv, MirrorShape
<1>3. inbox' \in [Mirrors -> Changes]
  BY <1>2 DEF notify_observers
<1>4. MirrorShape'
  BY <1>2, <1>3 DEF MirrorInv, MirrorShape
<1>5. ASSUME ~cleared, NEW m \in Mirrors, NEW e \in Ids PROVE InStep(m, e)'
  <2>1. InStep(m, e) /\ inbox[m] \in Changes
    BY <1>5 DEF MirrorInv, MirrorShape
  <2>2. CASE phase[m] = "off"
    <3>1. NoneOf(inbox'[m], e)
      BY <1>2, <2>2 DEF MirrorInv, MirrorShape, NoneOf
    <3> QED
      BY <2>2, <3>1 DEF InStep
  <2>3. CASE phase[m] # "off" /\ e = d
    <3>1. LastOf(inbox'[m], e, v)
      BY <1>2, <2>1, <2>3, AppendedChange
    <3> QED
      BY <2>3, <3>1 DEF InStep
  <2>4. CASE phase[m] # "off" /\ e # d
    <3>1. /\ LastOf(inbox[m], e, Query[e]) => LastOf(inbox'[m], e, Query[e])
          /\ NoneOf(inbox[m], e) => NoneOf(inbox'[m], e)
      <4>1. inbox'[m] = Append(inbox[m], <<d, v>>) /\ Query[e] \in Values
        BY <1>1, <1>2, <2>4
      <4>2. \A w \in Values :
               /\ LastOf(inbox[m], e, w) => LastOf(Append(inbox[m], <<d, v>>), e, w)
               /\ NoneOf(inbox[m], e) => NoneOf(Append(inbox[m], <<d, v>>), e)
        BY <2>1, <2>4, AppendedChange
      <4> QED
        BY <4>1, <4>2
    <3> QED
      BY <2>1, <2>4, <3>1 DEF InStep
  <2> QED
    BY <2>2, <2>3, <2>4
<1> QED
  BY <1>4, <1>5 DEF MirrorInv

\* A step that changes nothing a query returns, and sends nothing.
LEMMA QuietInStep ==
    ASSUME MirrorInv, UNCHANGED <<phase, inbox, copy>>, docs' \in [Ids -> Values], writes' \in Nat,
           cleared' \/ (cleared' = cleared /\ \A e \in Ids : Query'[e] = Query[e])
    PROVE  MirrorInv'
<1>1. MirrorShape'
  BY DEF MirrorInv, MirrorShape
<1>2. ASSUME ~cleared', NEW m \in Mirrors, NEW e \in Ids PROVE InStep(m, e)'
  <2>1. InStep(m, e)
    BY <1>2 DEF MirrorInv
  <2> QED
    BY <1>2, <2>1 DEF InStep
<1> QED
  BY <1>1, <1>2 DEF MirrorInv

\* A caller of observe that then queries loses no change of InMemoryBackend but
\* those of clear_collection, for any number of writers, documents and observers.
THEOREM MirrorsCatchUp == InMemorySpec => []MirrorCatchesUp
<1> USE InMemoryAssumption
<1>1. InMemoryInit => MirrorInv
  BY DEF InMemoryInit, MirrorInv, MirrorShape, InStep, NoneOf, Changes, Values
<1>2. MirrorInv /\ [InMemoryNext]_inMemoryVars => MirrorInv'
  <2> SUFFICES ASSUME MirrorInv, [InMemoryNext]_inMemoryVars PROVE MirrorInv'
    OBVIOUS
  <2>0. docs \in [Ids -> Values] /\ writes \in Nat /\ Missing \in Values
    BY DEF MirrorInv, MirrorShape, Values
  <2>1. ASSUME NEW d \in Ids, Upsert(d) PROVE MirrorInv'
    <3>1. writes' \in Nat /\ writes' \in Values /\ docs' \in [Ids -> Values]
      BY <2>0, <2>1 DEF Upsert, CountWrite, Values
    <3>2. Query'[d] = writes' /\ \A e \in Ids : e # d => Query'[e] = Query[e]
      BY <2>0, <2>1 DEF Upsert, Query
    <3> QED
      BY <2>1, <3>1, <3>2, NotifiedInStep DEF Upsert
  <2>2. ASSUME NEW d \in Ids, RemoveDoc(d), writes' \in Nat PROVE MirrorInv'
    <3>1. docs' \in [Ids -> Values]
      BY <2>0, <2>2 DEF RemoveDoc
    <3>2. Query'[d] = Missing /\ \A e \in Ids : e # d => Query'[e] = Query[e]
      BY <2>0, <2>2 DEF RemoveDoc, Query
    <3>3. CASE docs[d] = Missing
      <4>1. Query[d] = Missing
        BY <3>3 DEF Query
      <4> QED
        BY <2>2, <3>1, <3>2, <3>3, <4>1, QuietInStep DEF RemoveDoc
    <3>4. CASE docs[d] # Missing
      BY <2>0, <2>2, <3>1, <3>2, <3>4, NotifiedInStep DEF RemoveDoc
    <3> QED
      BY <3>3, <3>4
  <2>3. ASSUME NEW d \in Ids, SoftDelete(d), writes' \in Nat PROVE MirrorInv'
    <3>1. docs' = docs
      BY <2>3 DEF SoftDelete
    <3>2. CASE docs[d] = Missing
      <4>1. softDeleted' = softDeleted /\ UNCHANGED <<phase, inbox, copy, cleared>>
        BY <2>3, <3>2 DEF SoftDelete
      <4>2. \A e \in Ids : Query'[e] = Query[e]
        BY <3>1, <4>1 DEF Query
      <4> QED
        BY <2>0, <2>3, <3>1, <4>1, <4>2, QuietInStep
    <3>3. CASE docs[d] # Missing
      <4>1. softDeleted' = softDeleted \cup {d} /\ notify_observers(d, Missing) /\ UNCHANGED <<phase, copy, cleared>>
        BY <2>3, <3>3 DEF SoftDelete
      <4>2. Query'[d] = Missing /\ \A e \in Ids : e # d => Query'[e] = Query[e]
        BY <3>1, <4>1 DEF Query
      <4> QED
        BY <2>0, <2>3, <3>1, <4>1, <4>2, NotifiedInStep
    <3> QED
      BY <3>2, <3>3
  <2>4. CountWrite => writes' \in Nat
    BY <2>0 DEF CountWrite
  <2>5. ASSUME NEW d \in Ids, RemoveDocument(d) \/ ApplyTombstone(d) PROVE MirrorInv'
    BY <2>2, <2>4, <2>5 DEF RemoveDocument, ApplyTombstone
  <2>6. ASSUME NEW d \in Ids, Delete(d) PROVE MirrorInv'
    <3>1. SoftDelete(d) \/ RemoveDoc(d) \/ UNCHANGED <<storeVars, mirrorVars, cleared>>
      BY <2>6 DEF Delete
    <3>2. writes' \in Nat
      BY <2>4, <2>6 DEF Delete
    <3>3. CASE UNCHANGED <<storeVars, mirrorVars, cleared>>
      <4>1. UNCHANGED <<docs, softDeleted, phase, inbox, copy, cleared>>
        BY <3>3 DEF storeVars, mirrorVars
      <4>2. \A e \in Ids : Query'[e] = Query[e]
        BY <4>1 DEF Query
      <4> QED
        BY <2>0, <3>2, <4>1, <4>2, QuietInStep
    <3> QED
      BY <2>2, <2>3, <3>1, <3>2, <3>3
  <2>7. CASE UNCHANGED <<docs, softDeleted, phase, inbox, copy, writes, cleared>>
    <3>1. \A e \in Ids : Query'[e] = Query[e]
      BY <2>7 DEF Query
    <3> QED
      BY <2>0, <2>7, <3>1, QuietInStep
  <2>8. CASE ClearCollection
    <3>1. docs' \in [Ids -> Values] /\ cleared' /\ UNCHANGED <<phase, inbox, copy>>
      BY <2>0, <2>8 DEF ClearCollection, mirrorVars
    <3>2. writes' \in Nat
      BY <2>4, <2>8 DEF ClearCollection
    <3> QED
      BY <3>1, <3>2, QuietInStep
  <2>9. ASSUME NEW m \in Mirrors, Observe(m) PROVE MirrorInv'
    <3>1. /\ UNCHANGED <<docs, softDeleted, inbox, copy, writes, cleared>>
          /\ phase' = [x \in Mirrors |-> phase'[x]]
          /\ \A x \in Mirrors : x # m => phase'[x] = phase[x]
          /\ phase[m] = "off" /\ phase'[m] = "observing"
      BY <2>9 DEF Observe, storeVars, MirrorInv, MirrorShape
    <3>2. MirrorShape'
      BY <3>1 DEF MirrorInv, MirrorShape
    <3>3. ASSUME ~cleared, NEW x \in Mirrors, NEW e \in Ids PROVE InStep(x, e)'
      <4>1. InStep(x, e) /\ Query' = Query /\ (phase'[x] = "mirroring" => phase[x] = "mirroring")
        BY <3>1, <3>3 DEF MirrorInv, Query
      <4> QED
        BY <3>1, <4>1 DEF InStep
    <3> QED
      BY <3>1, <3>2, <3>3 DEF MirrorInv
  <2>10. ASSUME NEW m \in Mirrors, QueryAll(m) PROVE MirrorInv'
    <3>1. UNCHANGED <<docs, softDeleted, inbox, writes, cleared>>
      BY <2>10 DEF QueryAll, storeVars
    <3>2. Query \in [Ids -> Values] /\ Query' = Query
      BY <2>0, <3>1 DEF Query
    <3>3. /\ phase' = [x \in Mirrors |-> phase'[x]] /\ phase'[m] = "mirroring"
          /\ \A x \in Mirrors : x # m => phase'[x] = phase[x]
      BY <2>10 DEF QueryAll, MirrorInv, MirrorShape
    <3>4. /\ copy' \in [Mirrors -> [Ids -> Values]] /\ copy'[m] = Query
          /\ \A x \in Mirrors : x # m => copy'[x] = copy[x]
      BY <2>10, <3>2 DEF QueryAll, MirrorInv, MirrorShape
    <3>5. MirrorShape'
      BY <3>1, <3>3, <3>4 DEF MirrorInv, MirrorShape
    <3>6. ASSUME ~cleared, NEW x \in Mirrors, NEW e \in Ids PROVE InStep(x, e)'
      <4>1. InStep(x, e)
        BY <3>6 DEF MirrorInv
      <4>2. phase'[x] = "mirroring" => copy'[x][e] = Query[e] \/ (phase[x] = "mirroring" /\ copy'[x] = copy[x])
        BY <3>3, <3>4
      <4> QED
        BY <3>1, <3>2, <4>1, <4>2 DEF InStep
    <3> QED
      BY <3>1, <3>5, <3>6 DEF MirrorInv
  <2>11. ASSUME NEW m \in Mirrors, ApplyChange(m) PROVE MirrorInv'
    <3> DEFINE h == Head(inbox[m])
    <3>1. UNCHANGED <<docs, softDeleted, phase, writes, cleared>> /\ phase[m] = "mirroring"
      BY <2>11 DEF ApplyChange, storeVars
    <3>2. inbox[m] \in Changes /\ inbox[m] # <<>>
      BY <2>11 DEF ApplyChange, MirrorInv, MirrorShape
    <3>3. h \in Ids \X Values /\ Tail(inbox[m]) \in Changes
      BY <3>2, HeadTailProperties DEF Changes
    <3>4. /\ inbox' = [inbox EXCEPT ![m] = Tail(inbox[m])]
          /\ copy' = [copy EXCEPT ![m] = [copy[m] EXCEPT ![h[1]] = h[2]]]
      BY <2>11 DEF ApplyChange
    <3> HIDE DEF h
    <3>5. inbox' \in [Mirrors -> Changes] /\ copy' \in [Mirrors -> [Ids -> Values]]
      BY <3>3, <3>4 DEF MirrorInv, MirrorShape
    <3>6. MirrorShape'
      BY <3>1, <3>4, <3>5 DEF MirrorInv, MirrorShape
    <3>7. ASSUME ~cleared, NEW x \in Mirrors, NEW e \in Ids PROVE InStep(x, e)'
      <4>1. InStep(x, e) /\ Query' = Query /\ Query[e] \in Values
        BY <2>0, <3>1, <3>7 DEF MirrorInv, Query
      <4>2. CASE x # m
        <5>1. inbox'[x] = inbox[x] /\ copy'[x] = copy[x]
          BY <3>4, <4>2 DEF MirrorInv, MirrorShape
        <5> QED
          BY <3>1, <4>1, <5>1 DEF InStep
      <4>3. CASE x = m
        <5>1. inbox'[m] = Tail(inbox[m])
          BY <3>4 DEF MirrorInv, MirrorShape
        <5>2. copy'[m][e] = IF h[1] = e THEN h[2] ELSE copy[m][e]
          BY <3>3, <3>4 DEF MirrorInv, MirrorShape
        <5>3. CASE LastOf(inbox[m], e, Query[e])
          <6>1. \/ LastOf(Tail(inbox[m]), e, Query[e])
                \/ NoneOf(Tail(inbox[m]), e) /\ h = <<e, Query[e]>>
            BY <3>2, <4>1, <5>3, TakenChange, SMTT(30) DEF h
          <6> QED
            BY <4>1, <4>3, <5>1, <5>2, <6>1, SMTT(30) DEF InStep
        <5>4. CASE NoneOf(inbox[m], e) /\ copy[m][e] = Query[e]
          <6>1. NoneOf(Tail(inbox[m]), e) /\ h[1] # e
            BY <3>2, <5>4, TakenChange DEF h
          <6> QED
            BY <4>1, <4>3, <5>1, <5>2, <5>4, <6>1 DEF InStep
        <5> QED
          BY <3>1, <4>1, <4>3, <5>3, <5>4 DEF InStep
      <4> QED
        BY <4>2, <4>3
    <3> QED
      BY <3>1, <3>6, <3>7 DEF MirrorInv
  <2> QED
    BY <2>1, <2>5, <2>6, <2>7, <2>8, <2>9, <2>10, <2>11
       DEF InMemoryNext, InsertTombstone, SetDeletionPolicy, inMemoryVars, storeVars, mirrorVars
<1>3. MirrorInv => MirrorCatchesUp
  <2> SUFFICES ASSUME MirrorInv, NEW m \in Mirrors, phase[m] = "mirroring", inbox[m] = <<>>, ~cleared
               PROVE  copy[m] = Query
    BY DEF MirrorCatchesUp
  <2>1. \A d \in Ids : copy[m][d] = Query[d]
    BY DEF MirrorInv, InStep, LastOf
  <2>2. copy[m] \in [Ids -> Values]
    BY DEF MirrorInv, MirrorShape
  <2> QED
    BY <2>1, <2>2 DEF Query
<1> QED
  BY <1>1, <1>2, <1>3, PTL DEF InMemorySpec

-----------------------------------------------------------------------------
(* Preemption.                                                             *)

\* Someone who will still clear the flag: a sender that has listed the transfer
\* and not begun to resume, or one that resumes and has it before it, unread or
\* read as paused.
Owes(u, t) ==
    \/ call[u] \in {"pausing", "holding"} /\ t \in taken[u]
    \/ call[u] = "resuming" /\ (t \in todo[u] \/ (at[u] = t /\ saw[u]))

\* The types, and that loops visit only transfers that are or were registered.
PreemptionShape ==
    /\ transfer = [t \in Transfers |-> transfer[t]]
    /\ isPaused \in [Transfers -> BOOLEAN]
    /\ call = [c \in Callers |-> call[c]]
    /\ todo \in [Callers -> SUBSET Transfers]
    /\ at \in [Callers -> Transfers \cup {Nothing}]
    /\ saw \in [Callers -> BOOLEAN]
    /\ taken \in [Urgent -> SUBSET Transfers]
    /\ \A c \in Callers : \A t \in todo[c] : transfer[t] # "new"
    /\ \A c \in Callers : at[c] # Nothing => transfer[at[c]] # "new"
    /\ \A t \in Transfers : transfer[t] = "new" => ~isPaused[t]

PreemptionInv ==
    /\ PreemptionShape
    /\ \A t \in Active : isPaused[t] => \E u \in Urgent : Owes(u, t)

\* However pause_transfers_below, resume_transfers and resume_all of several
\* callers overlap, nothing stays paused once all senders have resumed what
\* they were returned.
THEOREM QuietResumed == PreemptionSpec => []QuietMeansResumed
<1>1. PreemptionInit => PreemptionInv
  BY DEF PreemptionInit, PreemptionInv, PreemptionShape, Active
<1>2. PreemptionInv /\ [PreemptionNext]_preemptionVars => PreemptionInv'
  <2> SUFFICES ASSUME PreemptionInv, [PreemptionNext]_preemptionVars PROVE PreemptionInv'
    OBVIOUS
  <2> USE PreemptionAssumption DEF PreemptionInv, Active, Callers
  <2>1. ASSUME NEW t \in Transfers, RegisterTransfer(t) PROVE PreemptionInv'
    <3>1. PreemptionShape'
      BY <2>1 DEF PreemptionShape, RegisterTransfer
    <3>2. ASSUME NEW x \in Active', isPaused'[x] PROVE \E w \in Urgent : Owes(w, x)'
      BY <2>1, <3>2 DEF PreemptionShape, Owes, RegisterTransfer
    <3> QED
      BY <3>1, <3>2
  <2>2. ASSUME NEW t \in Transfers, UnregisterTransfer(t) PROVE PreemptionInv'
    <3>1. PreemptionShape'
      BY <2>2 DEF PreemptionShape, UnregisterTransfer
    <3>2. ASSUME NEW x \in Active', isPaused'[x] PROVE \E w \in Urgent : Owes(w, x)'
      BY <2>2, <3>2 DEF PreemptionShape, Owes, UnregisterTransfer
    <3> QED
      BY <3>1, <3>2
  <2>3. ASSUME NEW complete \in SUBSET Active, CleanupCompleted(complete) PROVE PreemptionInv'
    <3>1. PreemptionShape'
      BY <2>3 DEF PreemptionShape, CleanupCompleted
    <3>2. ASSUME NEW x \in Active', isPaused'[x] PROVE \E w \in Urgent : Owes(w, x)'
      BY <2>3, <3>2 DEF PreemptionShape, Owes, CleanupCompleted
    <3> QED
      BY <3>1, <3>2
  <2>4. ASSUME NEW u \in Urgent, PauseTransfersBelow(u) PROVE PreemptionInv'
    <3>1. PreemptionShape'
      BY <2>4 DEF PreemptionShape, PauseTransfersBelow, Begin
    <3>2. ASSUME NEW x \in Active', isPaused'[x] PROVE \E w \in Urgent : Owes(w, x)'
      BY <2>4, <3>2 DEF PreemptionShape, Owes, PauseTransfersBelow, Begin
    <3> QED
      BY <3>1, <3>2
  <2>5. ASSUME NEW u \in Urgent, ResumeTransfers(u) PROVE PreemptionInv'
    <3>1. PreemptionShape'
      BY <2>5 DEF PreemptionShape, ResumeTransfers, Begin
    <3>2. ASSUME NEW x \in Active', isPaused'[x] PROVE \E w \in Urgent : Owes(w, x)'
      BY <2>5, <3>2 DEF PreemptionShape, Owes, ResumeTransfers, Begin
    <3> QED
      BY <3>1, <3>2
  <2>6. CASE ResumeAll
    <3>1. PreemptionShape'
      BY <2>6 DEF PreemptionShape, ResumeAll, Begin
    <3>2. ASSUME NEW x \in Active', isPaused'[x] PROVE \E w \in Urgent : Owes(w, x)'
      BY <2>6, <3>2 DEF PreemptionShape, Owes, ResumeAll, Begin
    <3> QED
      BY <3>1, <3>2
  <2>7. ASSUME NEW u \in Urgent, Pause(u) PROVE PreemptionInv'
    <3>1. PreemptionShape'
      BY <2>7, ZenonT(60) DEF PreemptionShape, Pause
    <3>2. ASSUME NEW x \in Active', isPaused'[x] PROVE \E w \in Urgent : Owes(w, x)'
      <4>1. /\ at[u] \in Transfers /\ x \in Active
            /\ x # at[u] => isPaused[x]
        BY <2>7, <3>2 DEF PreemptionShape, Pause
      <4>2. /\ call[u] = "pausing" /\ at[u] \in taken'[u]
            /\ UNCHANGED <<call, todo, saw>>
            /\ \A w \in Urgent : taken[w] \subseteq taken'[w]
            /\ \A w \in Urgent : w # u => at'[w] = at[w]
        BY <2>7 DEF PreemptionShape, Pause
      <4>3. CASE x = at[u]
        BY <4>2, <4>3 DEF Owes
      <4>4. CASE x # at[u]
        <5>1. PICK w \in Urgent : Owes(w, x)
          BY <4>1, <4>4
        <5>2. Owes(w, x)'
          BY <4>2, <5>1 DEF Owes
        <5> QED
          BY <5>2
      <4> QED
        BY <4>3, <4>4
    <3> QED
      BY <3>1, <3>2
  <2>8. ASSUME NEW c \in Callers, ReadFlag(c) PROVE PreemptionInv'
    <3>1. PreemptionShape'
      <4>1. PICK t \in todo[c] :
               /\ at' = [at EXCEPT ![c] = t]
               /\ saw' = [saw EXCEPT ![c] = isPaused[t]]
               /\ todo' = [todo EXCEPT ![c] = @ \ {t}]
        BY <2>8 DEF ReadFlag
      <4>2. t \in Transfers /\ isPaused[t] \in BOOLEAN /\ transfer[t] # "new"
        BY DEF PreemptionShape
      <4>3. saw' \in [Callers -> BOOLEAN]
        BY <4>1, <4>2 DEF PreemptionShape
      <4>4. UNCHANGED <<transfer, isPaused, call, taken>>
        BY <2>8 DEF ReadFlag
      <4>5. /\ at' \in [Callers -> Transfers \cup {Nothing}]
            /\ todo' \in [Callers -> SUBSET Transfers]
            /\ \A d \in Callers : todo'[d] \subseteq todo[d] /\ at'[d] \in {at[d], t}
        BY <4>1, <4>2 DEF PreemptionShape
      <4> QED
        BY <4>2, <4>3, <4>4, <4>5 DEF PreemptionShape
    <3>2. ASSUME NEW x \in Active', isPaused'[x] PROVE \E w \in Urgent : Owes(w, x)'
      <4>1. PICK t \in todo[c] :
               /\ at' = [at EXCEPT ![c] = t]
               /\ saw' = [saw EXCEPT ![c] = isPaused[t]]
               /\ todo' = [todo EXCEPT ![c] = @ \ {t}]
        BY <2>8 DEF ReadFlag
      <4>2. /\ isPaused[x] /\ x \in Active /\ x # Nothing /\ at[c] = Nothing
            /\ UNCHANGED <<call, taken>>
        BY <2>8, <3>2 DEF ReadFlag
      <4>3. /\ at'[c] = t /\ saw'[c] = isPaused[t] /\ todo'[c] = todo[c] \ {t}
            /\ \A w \in Urgent : w # c => at'[w] = at[w] /\ saw'[w] = saw[w] /\ todo'[w] = todo[w]
        BY <4>1 DEF PreemptionShape
      <4>4. PICK w \in Urgent : Owes(w, x)
        BY <4>2
      <4>5. Owes(w, x)'
        BY <4>2, <4>3, <4>4 DEF Owes
      <4> QED
        BY <4>5
    <3> QED
      BY <3>1, <3>2
  <2>9. ASSUME NEW c \in Callers, Resume(c) PROVE PreemptionInv'
    <3>1. PreemptionShape'
      BY <2>9 DEF PreemptionShape, Resume
    <3>2. ASSUME NEW x \in Active', isPaused'[x] PROVE \E w \in Urgent : Owes(w, x)'
      <4>1. isPaused[x] /\ x \in Active /\ ~(at[c] = x /\ saw[c])
        BY <2>9, <3>2 DEF PreemptionShape, Resume
      <4>2. PICK w \in Urgent : Owes(w, x)
        BY <4>1
      <4>3. /\ UNCHANGED <<call, todo, saw, taken>>
            /\ w # c => at'[w] = at[w]
        BY <2>9 DEF PreemptionShape, Resume
      <4>4. Owes(w, x)'
        BY <4>1, <4>2, <4>3 DEF Owes
      <4> QED
        BY <4>4
    <3> QED
      BY <3>1, <3>2
  <2>10. ASSUME NEW c \in Callers, Return(c) PROVE PreemptionInv'
    <3>1. PreemptionShape'
      <4>1. /\ call' = [d \in Callers |-> call'[d]]
            /\ taken' \in [Urgent -> SUBSET Transfers]
        BY <2>10 DEF PreemptionShape, Return
      <4> QED
        BY <2>10, <4>1 DEF PreemptionShape, Return
    <3>2. ASSUME NEW x \in Active', isPaused'[x] PROVE \E w \in Urgent : Owes(w, x)'
      <4>1. isPaused[x] /\ x \in Active /\ x # Nothing /\ UNCHANGED <<todo, at, saw>>
        BY <2>10, <3>2 DEF Return
      <4>2. PICK w \in Urgent : Owes(w, x)
        BY <4>1
      <4>3. CASE w # c
        <5>1. call'[w] = call[w] /\ taken'[w] = taken[w]
          BY <2>10, <4>3 DEF PreemptionShape, Return
        <5> QED
          BY <4>1, <4>2, <5>1 DEF Owes
      <4>4. CASE w = c
        <5>1. call[w] = "pausing" /\ call'[w] = "holding" /\ taken' = taken
          BY <2>10, <4>1, <4>2, <4>4 DEF PreemptionShape, Return, Owes
        <5> QED
          BY <4>2, <5>1 DEF Owes
      <4> QED
        BY <4>3, <4>4
    <3> QED
      BY <3>1, <3>2
  <2>11. CASE UNCHANGED preemptionVars
    BY <2>11 DEF preemptionVars, PreemptionShape, Owes
  <2> QED
    BY <2>1, <2>2, <2>3, <2>4, <2>5, <2>6, <2>7, <2>8, <2>9, <2>10, <2>11 DEF PreemptionNext
<1>3. PreemptionInv => QuietMeansResumed
  BY DEF PreemptionInv, QuietMeansResumed, Owes
<1> QED
  BY <1>1, <1>2, <1>3, PTL DEF PreemptionSpec
=============================================================================
