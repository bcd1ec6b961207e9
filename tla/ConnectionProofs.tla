-------------------------- MODULE ConnectionProofs --------------------------
(***************************************************************************)
(* Proofs about how a node learns of its peers and keeps a channel to      *)
(* them. PeerDiscovery, for any hosts, addresses, channel capacity and     *)
(* number of changes: once the poll and the connector rest, what the       *)
(* connector keeps agrees with what was discovered. SyncChannel, for any   *)
(* number of senders and channel objects and any limit on reconnection     *)
(* attempts: what the manager hands out as connected has a stream, and a   *)
(* close nothing was underway against is final.                            *)
(***************************************************************************)
EXTENDS PeerDiscovery, SyncChannel, SequenceTheorems, TLAPS

-----------------------------------------------------------------------------
(* The events of discovery and the connector that applies them.            *)

\* The address of h that the events sent so far tell of.
Told(h) == IF polling /\ h \notin unsent THEN listed[h] ELSE discovered[h]

\* The places of the events about h in a queue q.
About(q, h) == {i \in 1 .. Len(q) : q[i].host = h}

\* i is the first place, the last place, the place before j of an event about h.
First(q, h, i) == i \in About(q, h) /\ \A k \in About(q, h) : i <= k
Last(q, h, i) == i \in About(q, h) /\ \A k \in About(q, h) : k <= i
Before(q, h, i, j) ==
    i \in About(q, h) /\ j \in About(q, h) /\ i < j /\ \A k \in About(q, h) : k <= i \/ j <= k

\* The connector has nothing of h; it has h, or did once refuse it.
Gone(h) == h \notin formation /\ lookup[h] = {}
HeldOrRefused(h) == h \in formation \/ h \in refused

\* A host is only found after it was lost, and only updated before.
InOrder(q, h) ==
    \A i, j \in 1 .. Len(q) : Before(q, h, i, j) =>
        /\ q[j].kind = "PeerFound" => q[i].kind = "PeerLost"
        /\ q[j].kind = "PeerUpdated" => q[i].kind # "PeerLost"

\* The next event about h fits what the connector has of it.
NextFits(h) ==
    \A i \in 1 .. Len(eventQueue) : First(eventQueue, h, i) =>
        /\ eventQueue[i].kind = "PeerFound" => Gone(h)
        /\ eventQueue[i].kind = "PeerUpdated" => HeldOrRefused(h)

\* Without an event under way the connector has what the events told.
Settled(h) ==
    About(eventQueue, h) = {} =>
        IF Told(h) = Absent THEN Gone(h)
        ELSE HeldOrRefused(h) /\ (h \in formation => lookup[h] = {Told(h)})

HostInv(h) ==
    /\ \A i \in 1 .. Len(eventQueue) : Last(eventQueue, h, i) => eventQueue[i].address = Told(h)
    /\ InOrder(eventQueue, h)
    /\ NextFits(h)
    /\ Settled(h)

\* A lost host is an absent one.
EventsAreSound ==
    \A i \in 1 .. Len(eventQueue) :
        eventQueue[i].kind = "PeerLost" <=> eventQueue[i].address = Absent

DiscoveryInv ==
    /\ DiscoveryTypeOK
    /\ known = formation /\ Self \notin formation
    /\ ~polling => unsent = {}
    /\ \A h \in unsent : listed[h] # discovered[h]
    /\ EventsAreSound
    /\ \A h \in Hosts \ {Self} : HostInv(h)

\* r has the events of q about h, at the same places.
SameAbout(q, r, h) == About(r, h) = About(q, h)

\* r is q with an event about h at its end.
Continued(q, r, h) ==
    /\ About(r, h) # {}
    /\ \A i : Last(r, h, i) => i = Len(r)
    /\ \A i : First(r, h, i) => \/ i \in 1 .. Len(q) /\ First(q, h, i)
                                \/ i = Len(r) /\ About(q, h) = {}
    /\ \A i, j : Before(r, h, i, j) =>
          \/ i \in 1 .. Len(q) /\ j \in 1 .. Len(q) /\ Before(q, h, i, j)
          \/ i \in 1 .. Len(q) /\ j = Len(r) /\ Last(q, h, i)

\* What an event e put at the end of a queue does to the events about h.
LEMMA EventAppended ==
    ASSUME NEW q \in Seq(PeerEvent), NEW e \in PeerEvent, NEW r, r = Append(q, e), NEW h
    PROVE  /\ Len(r) = Len(q) + 1 /\ Len(q) \in Nat
           /\ \A i \in 1 .. Len(q) : r[i] = q[i]
           /\ r[Len(r)] = e
           /\ e.host # h => SameAbout(q, r, h)
           /\ e.host = h => Continued(q, r, h)
<1>1. Len(r) = Len(q) + 1 /\ Len(q) \in Nat /\ \A i \in 1 .. Len(q) : r[i] = q[i]
  BY AppendProperties
<1>2. r[Len(r)] = e
  BY <1>1, AppendProperties
<1>3. \A i : i \in 1 .. Len(r) <=> i \in 1 .. Len(q) \/ i = Len(r)
  BY <1>1
<1>4. \A i : i \in About(r, h) <=> i \in About(q, h) \/ (i = Len(r) /\ e.host = h)
  BY <1>1, <1>2, <1>3 DEF About
<1>5. ASSUME e.host # h PROVE SameAbout(q, r, h)
  BY <1>4, <1>5 DEF SameAbout
<1>6. \A i \in About(q, h) : i \in 1 .. Len(q) /\ i \in Nat /\ i < Len(r)
  BY <1>1 DEF About
<1>7. ASSUME e.host = h PROVE Continued(q, r, h)
  <2>1. Len(r) \in About(r, h)
    BY <1>4, <1>7
  <2>2. ASSUME NEW i, Last(r, h, i) PROVE i = Len(r)
    BY <1>1, <1>4, <1>6, <2>1, <2>2 DEF Last
  <2>3. ASSUME NEW i, First(r, h, i)
        PROVE  (i \in 1 .. Len(q) /\ First(q, h, i)) \/ (i = Len(r) /\ About(q, h) = {})
    <3>1. CASE i = Len(r)
      BY <1>1, <1>4, <1>6, <2>3, <3>1 DEF First
    <3>2. CASE i # Len(r)
      BY <1>4, <1>6, <2>3, <3>2 DEF First
    <3> QED
      BY <3>1, <3>2
  <2>4. ASSUME NEW i, NEW j, Before(r, h, i, j)
        PROVE  \/ i \in 1 .. Len(q) /\ j \in 1 .. Len(q) /\ Before(q, h, i, j)
               \/ i \in 1 .. Len(q) /\ j = Len(r) /\ Last(q, h, i)
    <3>0. i \in About(r, h) /\ j \in About(r, h) /\ i < j /\ \A k \in About(r, h) : k <= i \/ j <= k
      BY <2>4 DEF Before
    <3>1. CASE i = Len(r)
      BY <1>1, <1>4, <1>6, <3>0, <3>1
    <3>2. CASE i # Len(r) /\ j = Len(r)
      <4>1. i \in About(q, h)
        BY <1>4, <3>0, <3>2
      <4>2. ASSUME NEW k \in About(q, h) PROVE k <= i
        BY <1>1, <1>4, <1>6, <3>0, <3>2
      <4> QED
        BY <1>6, <3>2, <4>1, <4>2 DEF Last
    <3>3. CASE i # Len(r) /\ j # Len(r)
      BY <1>4, <1>6, <3>0, <3>3 DEF Before
    <3> QED
      BY <3>1, <3>2, <3>3
  <2> QED
    BY <2>1, <2>2, <2>3, <2>4 DEF Continued
<1> QED
  BY <1>1, <1>2, <1>5, <1>7

\* r is q without its first event: what that means for the events about h.
Advanced(q, r, h) ==
    /\ \A i : Last(r, h, i) => Last(q, h, i + 1)
    /\ \A i, j : Before(r, h, i, j) => Before(q, h, i + 1, j + 1)
    /\ q[1].host # h => /\ \A i : First(r, h, i) => First(q, h, i + 1)
                        /\ About(r, h) = {} => About(q, h) = {}
    /\ q[1].host = h => /\ First(q, h, 1)
                        /\ \A i : First(r, h, i) => Before(q, h, 1, i + 1)
                        /\ About(r, h) = {} => Last(q, h, 1)

\* What taking the first event off a queue does.
LEMMA EventTaken ==
    ASSUME NEW q \in Seq(PeerEvent), q # << >>, NEW r, r = Tail(q), NEW h
    PROVE  /\ q[1] = Head(q) /\ q[1] \in PeerEvent /\ Len(q) \in Nat /\ Len(r) = Len(q) - 1
           /\ 1 \in 1 .. Len(q) /\ r \in Seq(PeerEvent)
           /\ \A i \in 1 .. Len(r) : i + 1 \in 1 .. Len(q) /\ r[i] = q[i + 1]
           /\ Advanced(q, r, h)
<1>1. /\ q[1] = Head(q) /\ q[1] \in PeerEvent /\ Len(q) \in Nat /\ Len(r) = Len(q) - 1 /\ r \in Seq(PeerEvent)
      /\ 1 \in 1 .. Len(q)
      /\ \A i \in 1 .. Len(r) : r[i] = q[i + 1]
  BY HeadTailProperties
<1>2. \A i \in 1 .. Len(r) : i + 1 \in 1 .. Len(q) /\ r[i] = q[i + 1] /\ i \in Nat
  BY <1>1
<1>3. \A i \in About(r, h) : i \in Nat /\ i + 1 \in About(q, h) /\ 1 < i + 1
  BY <1>2 DEF About
<1>4. ASSUME NEW k \in About(q, h) PROVE (k = 1 /\ q[1].host = h) \/ (k \in Nat /\ k - 1 \in About(r, h))
  <2>1. CASE k = 1
    BY <2>1 DEF About
  <2>2. CASE k # 1
    <3>1. k \in 1 .. Len(q) /\ q[k].host = h
      BY DEF About
    <3>2. k - 1 \in 1 .. Len(r) /\ (k - 1) + 1 = k
      BY <1>1, <2>2, <3>1
    <3> QED
      BY <1>2, <3>1, <3>2 DEF About
  <2> QED
    BY <2>1, <2>2
<1>5. \A k \in About(q, h) : k \in Nat /\ k >= 1
  BY <1>1 DEF About
<1>6. ASSUME NEW i, Last(r, h, i) PROVE Last(q, h, i + 1)
  <2>1. i \in Nat /\ i + 1 \in About(q, h) /\ \A k \in About(r, h) : k <= i
    BY <1>3, <1>6 DEF Last
  <2>2. ASSUME NEW k \in About(q, h) PROVE k <= i + 1
    BY <1>4, <1>5, <2>1
  <2> QED
    BY <2>1, <2>2 DEF Last
<1>7. ASSUME NEW i, NEW j, Before(r, h, i, j) PROVE Before(q, h, i + 1, j + 1)
  <2>1. /\ i \in Nat /\ j \in Nat /\ i + 1 \in About(q, h) /\ j + 1 \in About(q, h) /\ i < j
        /\ \A k \in About(r, h) : k <= i \/ j <= k
    BY <1>3, <1>7 DEF Before
  <2>2. ASSUME NEW k \in About(q, h) PROVE k <= i + 1 \/ j + 1 <= k
    <3>1. CASE k = 1
      BY <2>1, <3>1
    <3>2. CASE k \in Nat /\ k - 1 \in About(r, h)
      <4>1. k - 1 <= i \/ j <= k - 1
        BY <2>1, <3>2
      <4> QED
        BY <2>1, <3>2, <4>1
    <3> QED
      BY <1>4, <3>1, <3>2
  <2>3. i + 1 < j + 1
    BY <2>1
  <2> QED
    BY <2>1, <2>2, <2>3 DEF Before
<1>8. ASSUME q[1].host # h PROVE /\ \A i : First(r, h, i) => First(q, h, i + 1)
                                 /\ About(r, h) = {} => About(q, h) = {}
  <2>1. ASSUME NEW i, First(r, h, i) PROVE First(q, h, i + 1)
    <3>1. i \in Nat /\ i + 1 \in About(q, h) /\ \A k \in About(r, h) : i <= k
      BY <1>3, <2>1 DEF First
    <3>2. ASSUME NEW k \in About(q, h) PROVE i + 1 <= k
      <4>1. k \in Nat /\ k - 1 \in About(r, h)
        BY <1>4, <1>8
      <4>2. i <= k - 1
        BY <3>1, <4>1
      <4> QED
        BY <3>1, <4>1, <4>2
    <3> QED
      BY <3>1, <3>2 DEF First
  <2> QED
    BY <1>4, <1>8, <2>1
<1>9. ASSUME q[1].host = h PROVE /\ First(q, h, 1)
                                 /\ \A i : First(r, h, i) => Before(q, h, 1, i + 1)
                                 /\ About(r, h) = {} => Last(q, h, 1)
  <2>1. 1 \in About(q, h) /\ First(q, h, 1)
    BY <1>1, <1>5, <1>9 DEF About, First
  <2>2. ASSUME NEW i, First(r, h, i) PROVE Before(q, h, 1, i + 1)
    <3>1. i \in Nat /\ i + 1 \in About(q, h) /\ 1 < i + 1 /\ \A k \in About(r, h) : i <= k
      BY <1>3, <2>2 DEF First
    <3>2. ASSUME NEW k \in About(q, h) PROVE k <= 1 \/ i + 1 <= k
      <4>1. CASE k \in Nat /\ k - 1 \in About(r, h)
        <5>1. i <= k - 1
          BY <3>1, <4>1
        <5> QED
          BY <3>1, <4>1, <5>1
      <4>2. CASE k = 1
        BY <4>2
      <4> QED
        BY <1>4, <4>1, <4>2
    <3> QED
      BY <2>1, <3>1, <3>2 DEF Before
  <2>3. ASSUME About(r, h) = {} PROVE Last(q, h, 1)
    BY <1>4, <2>1, <2>3 DEF Last
  <2> QED
    BY <2>1, <2>2, <2>3
<1>10. Advanced(q, r, h)
  BY <1>6, <1>7, <1>8, <1>9 DEF Advanced
<1> QED
  BY <1>1, <1>2, <1>10

\* A step that leaves the queue and what the connector has of h.
LEMMA HostFrame ==
    ASSUME NEW h, eventQueue' = eventQueue, Told(h)' = Told(h), Gone(h)' <=> Gone(h),
           HeldOrRefused(h)' <=> HeldOrRefused(h), h \in formation' <=> h \in formation,
           lookup'[h] = lookup[h], HostInv(h)
    PROVE  HostInv(h)'
  BY DEF HostInv, NextFits, Settled

\* An event that is sent tells of an address, and continues what the others tell.
LEMMA SentKeeps ==
    ASSUME eventQueue \in Seq(PeerEvent), EventsAreSound, NEW h, HostInv(h), NEW e \in PeerEvent,
           eventQueue' = Append(eventQueue, e), Gone(h)' <=> Gone(h), HeldOrRefused(h)' <=> HeldOrRefused(h),
           h \in formation' <=> h \in formation, lookup'[h] = lookup[h],
           e.host # h => Told(h)' = Told(h),
           e.host = h => /\ e.address = Told(h)'
                         /\ e.kind = "PeerFound" => Told(h) = Absent
                         /\ e.kind = "PeerUpdated" => Told(h) # Absent
    PROVE  HostInv(h)'
<1>0. PICK q, r : q = eventQueue /\ r = eventQueue'
  OBVIOUS
<1>1. /\ Len(r) = Len(q) + 1 /\ Len(q) \in Nat
      /\ \A i \in 1 .. Len(q) : r[i] = q[i]
      /\ r[Len(r)] = e
      /\ e.host # h => SameAbout(q, r, h)
      /\ e.host = h => Continued(q, r, h)
  <2>1. q \in Seq(PeerEvent) /\ r = Append(q, e)
    BY <1>0
  <2>2. Len(r) = Len(q) + 1 /\ Len(q) \in Nat /\ \A i \in 1 .. Len(q) : r[i] = q[i]
    BY ONLY <2>1, e \in PeerEvent, EventAppended
  <2>3. r[Len(r)] = e
    BY ONLY <2>1, e \in PeerEvent, EventAppended
  <2>4. e.host # h => SameAbout(q, r, h)
    BY ONLY <2>1, e \in PeerEvent, EventAppended, Zenon
  <2>5. e.host = h => Continued(q, r, h)
    BY ONLY <2>1, e \in PeerEvent, EventAppended, Zenon
  <2> QED
    BY <2>2, <2>3, <2>4, <2>5
<1>2. CASE e.host # h
  <2>1. About(r, h) = About(q, h)
    BY <1>1, <1>2 DEF SameAbout
  <2>2. \A i \in About(q, h) : i \in 1 .. Len(q) /\ r[i] = q[i]
    BY <1>1 DEF About
  <2>3. \A i \in 1 .. Len(r) : Last(r, h, i) => r[i].address = Told(h)'
    BY <1>0, <1>2, <2>1, <2>2 DEF HostInv, Last
  <2>4. InOrder(r, h)
    BY <1>0, <2>1, <2>2 DEF HostInv, InOrder, Before
  <2>5. \A i \in 1 .. Len(r) : First(r, h, i) =>
           /\ r[i].kind = "PeerFound" => Gone(h)'
           /\ r[i].kind = "PeerUpdated" => HeldOrRefused(h)'
    BY <1>0, <2>1, <2>2 DEF HostInv, NextFits, First
  <2>6. Settled(h)'
    BY <1>0, <1>2, <2>1 DEF HostInv, Settled
  <2> QED
    BY <1>0, <2>3, <2>4, <2>5, <2>6 DEF HostInv, NextFits
<1>3. CASE e.host = h
  <2>1. /\ About(r, h) # {}
        /\ \A i : Last(r, h, i) => i = Len(r)
        /\ \A i : First(r, h, i) => \/ i \in 1 .. Len(q) /\ First(q, h, i)
                                    \/ i = Len(r) /\ About(q, h) = {}
        /\ \A i, j : Before(r, h, i, j) =>
              \/ i \in 1 .. Len(q) /\ j \in 1 .. Len(q) /\ Before(q, h, i, j)
              \/ i \in 1 .. Len(q) /\ j = Len(r) /\ Last(q, h, i)
    BY <1>1, <1>3 DEF Continued
  <2>2. \A i \in 1 .. Len(r) : Last(r, h, i) => r[i].address = Told(h)'
    BY <1>1, <1>3, <2>1
  <2>3. ASSUME NEW i, NEW j, Before(r, h, i, j)
        PROVE  /\ r[j].kind = "PeerFound" => r[i].kind = "PeerLost"
               /\ r[j].kind = "PeerUpdated" => r[i].kind # "PeerLost"
    <3>1. CASE i \in 1 .. Len(q) /\ j \in 1 .. Len(q) /\ Before(q, h, i, j)
      BY <1>0, <1>1, <3>1 DEF HostInv, InOrder
    <3>2. CASE i \in 1 .. Len(q) /\ j = Len(r) /\ Last(q, h, i)
      <4>1. q[i].address = Told(h) /\ (q[i].kind = "PeerLost" <=> q[i].address = Absent)
        BY <1>0, <3>2 DEF HostInv, EventsAreSound
      <4> QED
        BY <1>1, <1>3, <3>2, <4>1
    <3> QED
      BY <2>1, <2>3, <3>1, <3>2
  <2>4. \A i \in 1 .. Len(r) : First(r, h, i) =>
           /\ r[i].kind = "PeerFound" => Gone(h)'
           /\ r[i].kind = "PeerUpdated" => HeldOrRefused(h)'
    BY <1>0, <1>1, <1>3, <2>1 DEF HostInv, NextFits, Settled
  <2>5. Settled(h)'
    BY <1>0, <2>1 DEF Settled
  <2> QED
    <3>1. InOrder(eventQueue, h)'
      BY <1>0, <2>3 DEF InOrder
    <3>2. NextFits(h)'
      BY <1>0, <2>4 DEF NextFits
    <3> QED
      BY <1>0, <2>2, <2>5, <3>1, <3>2 DEF HostInv
<1> QED
  BY <1>2, <1>3

\* An event that is handled leaves the connector with what it told.
LEMMA HandledKeeps ==
    ASSUME eventQueue \in Seq(PeerEvent), EventsAreSound, NEW h, HostInv(h), eventQueue # << >>,
           eventQueue' = Tail(eventQueue), Told(h)' = Told(h), NEW e, e = Head(eventQueue),
           e.host # h => /\ Gone(h)' <=> Gone(h)
                         /\ HeldOrRefused(h)' <=> HeldOrRefused(h)
                         /\ h \in formation' <=> h \in formation
                         /\ lookup'[h] = lookup[h],
           e.host = h => IF e.kind = "PeerLost" THEN Gone(h)'
                         ELSE HeldOrRefused(h)' /\ (h \in formation' => lookup'[h] = {e.address})
    PROVE  HostInv(h)'
<1>0. PICK q, r : q = eventQueue /\ r = eventQueue'
  OBVIOUS
<1>1. q \in Seq(PeerEvent) /\ q # << >> /\ r = Tail(q)
  BY <1>0
<1>2. /\ q[1] = e /\ 1 \in 1 .. Len(q)
      /\ \A i \in 1 .. Len(r) : i + 1 \in 1 .. Len(q) /\ r[i] = q[i + 1]
  BY <1>0, <1>1, EventTaken
<1>3. Advanced(q, r, h)
  BY ONLY <1>1, EventTaken
<1>4. \A i \in 1 .. Len(r) : Last(r, h, i) => r[i].address = Told(h)'
  BY <1>0, <1>2, <1>3 DEF HostInv, Advanced
<1>5. InOrder(r, h)
  <2>1. InOrder(q, h)
    BY <1>0 DEF HostInv
  <2>2. ASSUME NEW i \in 1 .. Len(r), NEW j \in 1 .. Len(r), Before(r, h, i, j)
        PROVE  /\ r[j].kind = "PeerFound" => r[i].kind = "PeerLost"
               /\ r[j].kind = "PeerUpdated" => r[i].kind # "PeerLost"
    <3>1. Before(q, h, i + 1, j + 1)
      BY <1>3, <2>2 DEF Advanced
    <3> QED
      BY <1>2, <2>1, <3>1 DEF InOrder
  <2> QED
    BY <2>2 DEF InOrder
<1>6. ASSUME NEW i \in 1 .. Len(r), First(r, h, i)
      PROVE  /\ r[i].kind = "PeerFound" => Gone(h)'
             /\ r[i].kind = "PeerUpdated" => HeldOrRefused(h)'
  <2>1. CASE e.host # h
    BY <1>0, <1>2, <1>3, <1>6, <2>1 DEF HostInv, NextFits, Advanced
  <2>2. CASE e.host = h
    <3>1. /\ r[i].kind = "PeerFound" => e.kind = "PeerLost"
          /\ r[i].kind = "PeerUpdated" => e.kind # "PeerLost"
      BY <1>0, <1>2, <1>3, <1>6, <2>2 DEF HostInv, InOrder, Advanced
    <3> QED
      BY <2>2, <3>1
  <2> QED
    BY <2>1, <2>2
<1>7. Settled(h)'
  <2>1. CASE e.host # h
    BY <1>0, <1>2, <1>3, <2>1 DEF HostInv, Settled, Advanced
  <2>2. CASE e.host = h
    <3> SUFFICES ASSUME About(r, h) = {}
                 PROVE  IF Told(h) = Absent THEN Gone(h)'
                        ELSE HeldOrRefused(h)' /\ (h \in formation' => lookup'[h] = {Told(h)})
      BY <1>0 DEF Settled
    <3>1. e.address = Told(h) /\ (e.kind = "PeerLost" <=> e.address = Absent)
      BY <1>0, <1>2, <1>3, <2>2 DEF HostInv, EventsAreSound, Advanced
    <3> QED
      BY <2>2, <3>1
  <2> QED
    BY <2>1, <2>2
<1> QED
  BY <1>0, <1>4, <1>5, <1>6, <1>7 DEF HostInv, NextFits

\* Nothing is discovered, nothing under way.
LEMMA DiscoveryInvInit == DiscoveryInit => DiscoveryInv
<1> SUFFICES ASSUME DiscoveryInit PROVE DiscoveryInv
  OBVIOUS
<1> USE DEF DiscoveryInit
<1>1. eventQueue = << >> /\ eventQueue \in Seq(PeerEvent) /\ Len(eventQueue) = 0
  BY EmptySeq
<1>2. DiscoveryTypeOK
  <2>1. discovered \in [Hosts -> Addresses \cup {Absent}] /\ lookup \in [Hosts -> SUBSET Addresses]
    OBVIOUS
  <2>2. 0 \in 0 .. MaxChanges /\ 0 <= ChannelSize
    BY DiscoveryAssumption
  <2> QED
    BY <1>1, <2>1, <2>2 DEF DiscoveryTypeOK
<1>3. \A h \in Hosts : Told(h) = Absent /\ Gone(h)
  BY DEF Told, Gone
<1>4. \A i : i \notin 1 .. Len(eventQueue)
  BY <1>1
<1>5. \A h \in Hosts : HostInv(h)
  BY <1>3, <1>4 DEF HostInv, InOrder, NextFits, Settled
<1> QED
  BY <1>2, <1>4, <1>5 DEF DiscoveryInv, EventsAreSound

\* What the connector does with the event at the head of the queue.
LEMMA HandlerEffect ==
    ASSUME DiscoveryInv, PeerFound \/ PeerLost \/ PeerUpdated, NEW e, e = Head(eventQueue)
    PROVE  /\ eventQueue # << >> /\ eventQueue' = Tail(eventQueue)
           /\ UNCHANGED <<cluster, certified, discovered, listed, unsent, polling, changes>>
           /\ e \in PeerEvent
           /\ known' = formation' /\ Self \notin formation' /\ formation' \subseteq Hosts
           /\ refused' \subseteq Hosts
           /\ lookup' \in [Hosts -> SUBSET Addresses]
           /\ \A h \in Hosts : h # e.host => /\ h \in formation' <=> h \in formation
                                             /\ h \in refused' <=> h \in refused
                                             /\ lookup'[h] = lookup[h]
           /\ e.host # Self => IF e.kind = "PeerLost" THEN Gone(e.host)'
                               ELSE HeldOrRefused(e.host)' /\ (e.host \in formation' => lookup'[e.host] = {e.address})
<1>1. /\ eventQueue # << >> /\ eventQueue' = Tail(eventQueue)
      /\ UNCHANGED <<cluster, certified, discovered, listed, unsent, polling, changes>>
  BY DEF PeerFound, PeerLost, PeerUpdated, Receive, pollVars
<1>2. /\ known = formation /\ Self \notin formation /\ formation \subseteq Hosts /\ refused \subseteq Hosts
      /\ lookup \in [Hosts -> SUBSET Addresses] /\ eventQueue \in Seq(PeerEvent)
  BY DEF DiscoveryInv, DiscoveryTypeOK
<1>3. /\ e \in PeerEvent /\ 1 \in 1 .. Len(eventQueue) /\ eventQueue[1] = e
      /\ First(eventQueue, e.host, 1)
  BY <1>1, <1>2, EventTaken DEF Advanced
<1>4. PICK h \in Hosts, a \in Addresses \cup {Absent} : h = e.host /\ a = e.address
  BY <1>3 DEF PeerEvent
<1>5. e.kind # "PeerLost" => a \in Addresses
  BY <1>3, <1>4 DEF DiscoveryInv, EventsAreSound
<1>6. h # Self => /\ e.kind = "PeerFound" => Gone(h)
                  /\ e.kind = "PeerUpdated" => HeldOrRefused(h)
  BY <1>3, <1>4 DEF DiscoveryInv, HostInv, NextFits
<1>7. Subject = h /\ Address = a
  BY <1>4 DEF Subject, Address
<1> DEFINE
  Effect == /\ known' = formation' /\ Self \notin formation' /\ formation' \subseteq Hosts
            /\ refused' \subseteq Hosts
            /\ lookup' \in [Hosts -> SUBSET Addresses]
            /\ \A g \in Hosts : g # h => /\ g \in formation' <=> g \in formation
                                         /\ g \in refused' <=> g \in refused
                                         /\ lookup'[g] = lookup[g]
            /\ h # Self => IF e.kind = "PeerLost" THEN Gone(h)'
                           ELSE HeldOrRefused(h)' /\ (h \in formation' => lookup'[h] = {a})
<1>8. ASSUME PeerFound PROVE Effect
  <2>1. e.kind = "PeerFound"
    BY <1>8 DEF PeerFound, Receive
  <2>2. refused' = IF h \in certified THEN refused \ {h} ELSE refused \cup {h}
    BY <1>7, <1>8 DEF PeerFound
  <2>3. CASE h = Self \/ h \notin certified
    <3>1. UNCHANGED <<known, lookup, formation>>
      BY <1>7, <1>8, <2>3 DEF PeerFound
    <3> QED
      BY <1>2, <1>6, <2>1, <2>2, <2>3, <3>1 DEF Gone, HeldOrRefused
  <2>4. CASE h # Self /\ h \in certified
    <3>1. /\ known' = known \cup {h} /\ formation' = formation \cup {h}
          /\ lookup' = [lookup EXCEPT ![h] = lookup[h] \cup {a}]
      BY <1>7, <1>8, <2>4 DEF PeerFound
    <3>2. lookup[h] = {} /\ a \in Addresses
      BY <1>5, <1>6, <2>1, <2>4 DEF Gone
    <3>3. lookup' \in [Hosts -> SUBSET Addresses] /\ lookup'[h] = {a}
      BY <1>2, <3>1, <3>2
    <3>4. \A g \in Hosts : g # h => lookup'[g] = lookup[g]
      BY <1>2, <3>1
    <3> QED
      BY <1>2, <2>1, <2>2, <2>4, <3>1, <3>3, <3>4 DEF HeldOrRefused
  <2> QED
    BY <2>3, <2>4
<1>9. ASSUME Forget(h)
      PROVE  /\ known' = formation' /\ Self \notin formation' /\ formation' \subseteq Hosts
             /\ lookup' \in [Hosts -> SUBSET Addresses]
             /\ \A g \in Hosts : g # h => (g \in formation' <=> g \in formation) /\ lookup'[g] = lookup[g]
             /\ Gone(h)'
  BY <1>2, <1>9 DEF Forget, Gone
<1>10. ASSUME PeerLost PROVE Effect
  <2>1. e.kind = "PeerLost" /\ Forget(h) /\ refused' = refused
    BY <1>7, <1>10 DEF PeerLost, Receive
  <2> QED
    BY <1>2, <1>9, <2>1
<1>11. ASSUME PeerUpdated PROVE Effect
  <2>1. e.kind = "PeerUpdated"
    BY <1>11 DEF PeerUpdated, Receive
  <2>2. CASE h = Self /\ UNCHANGED irohVars
    BY <1>2, <2>2 DEF irohVars
  <2>3. CASE h # Self /\ Forget(h) /\ refused' = refused \cup {h}
    <3>1. HeldOrRefused(h)' /\ h \notin formation'
      BY <1>9, <2>3 DEF HeldOrRefused, Gone
    <3>2. refused' \subseteq Hosts /\ \A g \in Hosts : g # h => (g \in refused' <=> g \in refused)
      BY <1>2, <2>3
    <3> QED
      BY <1>9, <2>1, <2>3, <3>1, <3>2
  <2>4. CASE h # Self /\ lookup' = [lookup EXCEPT ![h] = {a}] /\ UNCHANGED <<known, formation, refused>>
    <3>1. a \in Addresses /\ HeldOrRefused(h)
      BY <1>5, <1>6, <2>1, <2>4
    <3>2. lookup' \in [Hosts -> SUBSET Addresses] /\ lookup'[h] = {a}
      BY <1>2, <2>4, <3>1
    <3>3. \A g \in Hosts : g # h => lookup'[g] = lookup[g]
      BY <1>2, <2>4
    <3> QED
      BY <1>2, <2>1, <2>4, <3>1, <3>2, <3>3 DEF HeldOrRefused
  <2> QED
    BY <1>7, <1>11, <2>2, <2>3, <2>4 DEF PeerUpdated
<1>12. Effect
  BY <1>8, <1>10, <1>11
<1> QED
  BY <1>1, <1>3, <1>4, <1>12

\* A step that leaves the queue, what the events tell and what the connector has.
LEMMA PollKeeps ==
    ASSUME DiscoveryInv, DiscoveryTypeOK', UNCHANGED <<eventQueue, known, lookup, formation, refused>>,
           ~polling' => unsent' = {}, \A h \in unsent' : listed'[h] # discovered'[h],
           \A h \in Hosts : Told(h)' = Told(h)
    PROVE  DiscoveryInv'
<1>1. ASSUME NEW h \in Hosts \ {Self} PROVE HostInv(h)'
  <2>1. HostInv(h) /\ Told(h)' = Told(h)
    BY DEF DiscoveryInv
  <2>2. (Gone(h)' <=> Gone(h)) /\ (HeldOrRefused(h)' <=> HeldOrRefused(h))
    BY DEF Gone, HeldOrRefused
  <2> QED
    BY <2>1, <2>2, HostFrame
<1>2. EventsAreSound'
  BY DEF DiscoveryInv, EventsAreSound
<1> QED
  BY <1>1, <1>2 DEF DiscoveryInv

\* The cluster, the poll and the connector keep the invariant.
LEMMA DiscoveryInvStep == DiscoveryInv /\ [DiscoveryNext]_discoveryVars => DiscoveryInv'
<1> SUFFICES ASSUME DiscoveryInv, [DiscoveryNext]_discoveryVars PROVE DiscoveryInv'
  OBVIOUS
<1>0. DiscoveryTypeOK /\ (~polling => unsent = {}) /\ \A h \in unsent : listed[h] # discovered[h]
  BY DEF DiscoveryInv
<1> USE DEF DiscoveryTypeOK
<1>1. ASSUME NEW h \in Hosts, NEW address \in Addresses \cup {Absent}, ClusterChanges(h, address)
      PROVE  DiscoveryInv'
  <2>1. DiscoveryTypeOK'
    BY <1>0, <1>1, DiscoveryAssumption DEF ClusterChanges, pollVars, irohVars
  <2>2. UNCHANGED <<pollVars, eventQueue, irohVars>>
    BY <1>1 DEF ClusterChanges
  <2> QED
    BY <1>0, <2>1, <2>2, PollKeeps DEF pollVars, irohVars, Told
<1>2. ASSUME NEW h \in Hosts, CertificateChanges(h) PROVE DiscoveryInv'
  <2>1. DiscoveryTypeOK'
    BY <1>0, <1>2, DiscoveryAssumption DEF CertificateChanges, pollVars, irohVars
  <2>2. UNCHANGED <<pollVars, eventQueue, irohVars>>
    BY <1>2 DEF CertificateChanges
  <2> QED
    BY <1>0, <2>1, <2>2, PollKeeps DEF pollVars, irohVars, Told
<1>3. CASE Poll
  <2>1. DiscoveryTypeOK'
    BY <1>0, <1>3 DEF Poll, irohVars
  <2>2. /\ UNCHANGED <<eventQueue, known, lookup, formation, refused, discovered>>
        /\ ~polling /\ polling' /\ listed' = cluster /\ unsent' = {h \in Hosts : cluster[h] # discovered[h]}
    BY <1>3 DEF Poll, irohVars
  <2>3. \A h \in Hosts : Told(h)' = Told(h)
    BY <2>2 DEF Told
  <2> QED
    BY <2>1, <2>2, <2>3, PollKeeps
<1>4. CASE PollEnds
  <2>1. DiscoveryTypeOK'
    BY <1>0, <1>4 DEF PollEnds, irohVars
  <2>2. /\ UNCHANGED <<eventQueue, known, lookup, formation, refused, listed, unsent>>
        /\ polling /\ ~polling' /\ unsent = {} /\ discovered' = listed
    BY <1>4 DEF PollEnds, irohVars
  <2>3. \A h \in Hosts : Told(h)' = Told(h)
    BY <2>2 DEF Told
  <2> QED
    BY <2>1, <2>2, <2>3, PollKeeps
<1>5. ASSUME NEW h \in Hosts, SendEvent(h) PROVE DiscoveryInv'
  <2>0. PICK e : e = EventOf(h)
    OBVIOUS
  <2>1. /\ polling /\ h \in unsent /\ Len(eventQueue) < ChannelSize
        /\ eventQueue' = Append(eventQueue, e) /\ unsent' = unsent \ {h}
        /\ UNCHANGED <<cluster, certified, discovered, listed, polling, known, lookup, formation, refused, changes>>
    BY <1>5, <2>0 DEF SendEvent, irohVars
  <2>2. /\ e \in PeerEvent /\ e.host = h /\ e.address = listed[h]
        /\ e.kind = "PeerLost" <=> e.address = Absent
        /\ e.kind = "PeerFound" => discovered[h] = Absent
        /\ e.kind = "PeerUpdated" => discovered[h] # Absent
    BY <1>0, <2>0, DiscoveryAssumption DEF EventOf, PeerEvent
  <2>3. /\ eventQueue' \in Seq(PeerEvent) /\ Len(eventQueue') = Len(eventQueue) + 1 /\ Len(eventQueue) \in Nat
        /\ \A i \in 1 .. Len(eventQueue) : eventQueue'[i] = eventQueue[i]
        /\ eventQueue'[Len(eventQueue) + 1] = e
    BY <1>0, <2>1, <2>2, AppendProperties
  <2>4. DiscoveryTypeOK'
    BY <1>0, <2>1, <2>3, DiscoveryAssumption
  <2>5. EventsAreSound'
    <3>1. \A i \in 1 .. Len(eventQueue') : i \in 1 .. Len(eventQueue) \/ i = Len(eventQueue) + 1
      BY <2>3
    <3> QED
      BY <2>2, <2>3, <3>1 DEF DiscoveryInv, EventsAreSound
  <2>6. ASSUME NEW g \in Hosts \ {Self} PROVE HostInv(g)'
    <3>1. HostInv(g) /\ EventsAreSound /\ eventQueue \in Seq(PeerEvent)
      BY <1>0 DEF DiscoveryInv
    <3>2. (Gone(g)' <=> Gone(g)) /\ (HeldOrRefused(g)' <=> HeldOrRefused(g))
      BY <2>1 DEF Gone, HeldOrRefused
    <3>3. /\ g # h => Told(g)' = Told(g)
          /\ g = h => Told(g)' = listed[h] /\ Told(g) = discovered[h]
      BY <2>1 DEF Told
    <3>4. g \in formation' <=> g \in formation
      BY <2>1
    <3>5. lookup'[g] = lookup[g]
      BY <2>1
    <3> QED
      BY <2>1, <2>2, <3>1, <3>2, <3>3, <3>4, <3>5, SentKeeps
  <2> QED
    BY <1>0, <2>1, <2>4, <2>5, <2>6 DEF DiscoveryInv
<1>6. CASE PeerFound \/ PeerLost \/ PeerUpdated
  <2>0. PICK e : e = Head(eventQueue)
    OBVIOUS
  <2>1. /\ eventQueue # << >> /\ eventQueue' = Tail(eventQueue)
        /\ UNCHANGED <<cluster, certified, discovered, listed, unsent, polling, changes>>
        /\ e \in PeerEvent
        /\ known' = formation' /\ Self \notin formation' /\ formation' \subseteq Hosts
        /\ refused' \subseteq Hosts
        /\ lookup' \in [Hosts -> SUBSET Addresses]
    BY <1>6, <2>0, HandlerEffect
  <2>2. /\ \A g \in Hosts : g # e.host => /\ g \in formation' <=> g \in formation
                                          /\ g \in refused' <=> g \in refused
                                          /\ lookup'[g] = lookup[g]
        /\ e.host # Self => IF e.kind = "PeerLost" THEN Gone(e.host)'
                            ELSE HeldOrRefused(e.host)' /\ (e.host \in formation' => lookup'[e.host] = {e.address})
    BY <1>6, <2>0, HandlerEffect
  <2>3. /\ eventQueue' \in Seq(PeerEvent) /\ Len(eventQueue') = Len(eventQueue) - 1 /\ Len(eventQueue) \in Nat
        /\ \A i \in 1 .. Len(eventQueue') : i + 1 \in 1 .. Len(eventQueue) /\ eventQueue'[i] = eventQueue[i + 1]
    BY <1>0, <2>1, EventTaken
  <2>4. DiscoveryTypeOK'
    BY <1>0, <2>1, <2>3, DiscoveryAssumption
  <2>5. EventsAreSound'
    <3>1. EventsAreSound
      BY DEF DiscoveryInv
    <3> QED
      BY <2>3, <3>1 DEF EventsAreSound
  <2>6. ASSUME NEW g \in Hosts \ {Self} PROVE HostInv(g)'
    <3>1. HostInv(g) /\ EventsAreSound /\ eventQueue \in Seq(PeerEvent)
      BY <1>0 DEF DiscoveryInv
    <3>2. Told(g)' = Told(g)
      BY <2>1 DEF Told
    <3>3. e.host # g => (Gone(g)' <=> Gone(g)) /\ (HeldOrRefused(g)' <=> HeldOrRefused(g))
      BY <2>2 DEF Gone, HeldOrRefused
    <3> QED
      BY <2>0, <2>1, <2>2, <3>1, <3>2, <3>3, HandledKeeps
  <2> QED
    BY <1>0, <2>1, <2>4, <2>5, <2>6 DEF DiscoveryInv
<1>7. CASE UNCHANGED discoveryVars
  <2>1. DiscoveryTypeOK' /\ UNCHANGED <<pollVars, eventQueue, irohVars>>
    BY <1>0, <1>7 DEF discoveryVars, pollVars, irohVars
  <2> QED
    BY <1>0, <2>1, PollKeeps DEF pollVars, irohVars, Told
<1> QED
  BY <1>1, <1>2, <1>3, <1>4, <1>5, <1>6, <1>7 DEF DiscoveryNext

\* Once the poll and the connector rest, the blob store, the formation and the
\* address lookup agree with what was discovered, for any number of hosts and
\* addresses, any capacity of the channel and any changes of the cluster and the
\* certificates under way.
THEOREM DrainedPeersAgree == DiscoverySpec => []DrainedMeansAgreed
<1>1. DiscoveryInv => DrainedMeansAgreed
  <2> SUFFICES ASSUME DiscoveryInv, ~polling, eventQueue = << >>
               PROVE  /\ known = formation
                      /\ formation \subseteq Listed(discovered) \ {Self}
                      /\ Listed(discovered) \ (refused \cup {Self}) \subseteq formation
                      /\ \A h \in formation : lookup[h] = {discovered[h]}
    BY DEF DrainedMeansAgreed
  <2>1. known = formation /\ Self \notin formation /\ formation \subseteq Hosts
    BY DEF DiscoveryInv, DiscoveryTypeOK
  <2>2. \A h \in Hosts : About(eventQueue, h) = {} /\ Told(h) = discovered[h]
    BY DEF About, Told
  <2>3. \A h \in Hosts \ {Self} :
           IF discovered[h] = Absent THEN Gone(h)
           ELSE HeldOrRefused(h) /\ (h \in formation => lookup[h] = {discovered[h]})
    BY <2>2 DEF DiscoveryInv, HostInv, Settled
  <2> QED
    BY <2>1, <2>3 DEF Listed, Gone, HeldOrRefused
<1> QED
  BY <1>1, DiscoveryInvInit, DiscoveryInvStep, PTL DEF DiscoverySpec

\* Discovery keeps its types; its channel never holds more than its capacity (start).
THEOREM DiscoveryTypeCorrect == DiscoverySpec => []DiscoveryTypeOK
<1>1. DiscoveryInv => DiscoveryTypeOK
  BY DEF DiscoveryInv
<1> QED
  BY <1>1, DiscoveryInvInit, DiscoveryInvStep, PTL DEF DiscoverySpec

-----------------------------------------------------------------------------
(* The channels.                                                           *)

(* A sender holds a channel exactly between get_channel and its return.     *)
Holding == \A t \in Senders : chan[t] = NoChannel <=> send_pc[t] \in {"idle", "connect"}

(* The map holds no channel that is being closed; a channel that is about   *)
(* to be mapped is known to its creator only.                               *)
MappedNotClosing ==
    /\ mapped # NoChannel => closing[mapped] = "no"
    /\ \A t \in Senders : send_pc[t] = "insert" =>
          /\ mapped # chan[t]
          /\ closing[chan[t]] = "no"
          /\ \A u \in Senders \ {t} : chan[u] # chan[t]

(* Only the last step of close takes a channel's stream.                    *)
StreamUntilDone ==
    \A c \in Channels :
        (mapped = c \/ \E t \in Senders : chan[t] = c) /\ closing[c] # "done" => send[c] # "none"

ManagerInv == Holding /\ MappedNotClosing /\ StreamUntilDone

(* After the first step of a close that was not raced nobody can bring the  *)
(* channel back: no reconnect is past its check, and no receiver is left    *)
(* that could mark the channel once its handle has been aborted.            *)
CleanlyClosed(c) ==
    /\ state[c] = "Closed"
    /\ \/ receiver[c] = "gone"
       \/ receiver[c] = "running" /\ recv_task[c] /\ closing[c] = "abort"
    /\ \A t \in Senders : chan[t] = c =>
          send_pc[t] \notin {"reconnect", "count", "open", "install", "connected"}
    /\ closing[c] = "done" => send[c] = "none"

CleanInv ==
    \A c \in Channels :
        closing[c] \in {"abort", "take", "done"} /\ ~ raced[c] => CleanlyClosed(c)

-----------------------------------------------------------------------------
(* The channels start out closed and without a stream.                      *)
LEMMA ChannelTypeInit == ChannelInit => ChannelTypeOK
BY ChannelAssumption DEF ChannelInit, ChannelTypeOK, SendPCs

(* What a step of a sender that touches no channel leaves well typed.       *)
LEMMA GotoType ==
    ASSUME ChannelTypeOK, NEW t \in Senders, NEW l \in SendPCs, NEW c \in Channels \cup {NoChannel},
           SendGoto(t, l) \/ GotoWith(t, l, c)
    PROVE  send_pc' \in [Senders -> SendPCs] /\ chan' \in [Senders -> Channels \cup {NoChannel}]
BY DEF ChannelTypeOK, SendGoto, GotoWith

(* Every step of senders, receivers, remove_channel and close keeps the     *)
(* types, the bound of the attempts included.                               *)
LEMMA ChannelTypeStep == ChannelTypeOK /\ [ChannelNext]_channelVars => ChannelTypeOK'
<1> SUFFICES ASSUME ChannelTypeOK, [ChannelNext]_channelVars PROVE ChannelTypeOK'
  OBVIOUS
<1> USE DEF ChannelTypeOK
<1>1. ASSUME NEW t \in Senders,
             \/ StartSend(t) \/ ConnectFails(t) \/ Insert(t) \/ CheckState(t)
             \/ OpenFails(t) \/ OpenOk(t) \/ BeginWrite(t) \/ EndWrite(t)
      PROVE  ChannelTypeOK'
  <2>1. /\ UNCHANGED <<channelHealth, send, tasks, close>>
        /\ mapped' \in Channels \cup {NoChannel}
    BY <1>1 DEF StartSend, GetConnected, GetMissing, ConnectFails, Insert, CheckState,
                OpenFails, OpenOk, BeginWrite, EndWrite
  <2>2. \E l \in SendPCs, c \in Channels \cup {NoChannel} : SendGoto(t, l) \/ GotoWith(t, l, c)
    BY <1>1 DEF StartSend, GetConnected, GetMissing, ConnectFails, Insert, CheckState,
                OpenFails, OpenOk, BeginWrite, EndWrite, SendEnds, SendPCs
  <2> QED BY <2>1, <2>2, GotoType DEF channelHealth, tasks, close
<1>2. ASSUME NEW t \in Senders, ConnectOk(t) PROVE ChannelTypeOK'
  BY <1>2, ChannelAssumption DEF ConnectOk, GotoWith, SendPCs
<1>3. ASSUME NEW t \in Senders, 
             \/ ReconnectMark(t) \/ GiveUp(t) \/ InstallStream(t) \/ MarkConnected(t)
      PROVE  ChannelTypeOK'
  BY <1>3
  DEF ReconnectMark, GiveUp, InstallStream, MarkConnected, SendGoto, GotoWith, SendEnds, SendPCs,
      channelHealth, tasks, close
<1>4. ASSUME NEW t \in Senders, ReconnectCount(t) \/ ResetAttempts(t) PROVE ChannelTypeOK'
  BY <1>4, ChannelAssumption
  DEF ReconnectCount, ResetAttempts, SendGoto, SendPCs, channelHealth, tasks, close
<1>5. ASSUME NEW c \in Channels, StoreHandle(c) PROVE ChannelTypeOK'
  BY <1>5 DEF StoreHandle, channelHealth, tasks, close, senders
<1>6. ASSUME NEW c \in Channels, StreamBreaks(c) \/ ReceiverMarks(c) \/ CloseAbort(c) \/ CloseTake(c)
      PROVE  ChannelTypeOK'
  BY <1>6
  DEF StreamBreaks, ReceiverMarks, CloseAbort, CloseTake, channelHealth, tasks, close, senders
<1>7. ASSUME NEW c \in Channels, ReceiverEnds(c) \/ CloseMark(c) PROVE ChannelTypeOK'
  <2>1. (raced[c] \/ closing[c] = "abort") \in BOOLEAN /\ Underway(c) \in BOOLEAN
    BY DEF Underway
  <2>2. raced' \in [Channels -> BOOLEAN]
    BY <1>7, <2>1, Zenon DEF ReceiverEnds, CloseMark
  <2> QED BY <1>7, <2>2 DEF ReceiverEnds, CloseMark, channelHealth, tasks, close, senders
<1>8. ASSUME RemoveChannel PROVE ChannelTypeOK'
  BY <1>8 DEF RemoveChannel, channelHealth, tasks, close, senders
<1>9. ASSUME UNCHANGED channelVars PROVE ChannelTypeOK'
  BY <1>9 DEF channelVars, channelHealth, tasks, close, senders
<1> QED
  BY <1>1, <1>2, <1>3, <1>4, <1>5, <1>6, <1>7, <1>8, <1>9
  DEF ChannelNext, SendProceeds, Background, Close

(* Type correctness of the channels, their tasks and their senders; the     *)
(* count of attempts never passes MAX_RECONNECT_ATTEMPTS.                   *)
THEOREM ChannelTypeCorrect == ChannelSpec => []ChannelTypeOK
BY ChannelTypeInit, ChannelTypeStep, PTL DEF ChannelSpec

-----------------------------------------------------------------------------
(* Nothing is mapped or held at first.                                      *)
LEMMA ManagerInit == ChannelInit => ManagerInv
BY ChannelAssumption DEF ChannelInit, ManagerInv, Holding, MappedNotClosing, StreamUntilDone, NoChannel

(* Each step keeps the map apart from the channels that are being closed.   *)
LEMMA ManagerStep == ChannelTypeOK /\ ManagerInv /\ [ChannelNext]_channelVars => ManagerInv'
<1> SUFFICES ASSUME ChannelTypeOK, ManagerInv, [ChannelNext]_channelVars PROVE ManagerInv'
  OBVIOUS
<1> USE DEF ManagerInv, Holding, MappedNotClosing, StreamUntilDone
<1>0. /\ mapped \in Channels \cup {NoChannel} /\ NoChannel \notin Channels
      /\ send \in [Channels -> {"none", "open", "broken"}]
      /\ closing \in [Channels -> {"no", "mark", "abort", "take", "done"}]
      /\ send_pc \in [Senders -> SendPCs] /\ chan \in [Senders -> Channels \cup {NoChannel}]
  BY ChannelAssumption DEF ChannelTypeOK, NoChannel
<1>1. ASSUME NEW t \in Senders, GetConnected(t) PROVE ManagerInv'
  BY <1>0, <1>1 DEF GetConnected, At, GotoWith, close
<1>2. ASSUME NEW t \in Senders, GetMissing(t) PROVE ManagerInv'
  BY <1>0, <1>2 DEF GetMissing, At, SendGoto, close
<1>3. ASSUME NEW t \in Senders, ConnectOk(t) PROVE ManagerInv'
  <2>1. PICK c \in Channels :
           /\ Unreferenced(c)
           /\ GotoWith(t, "insert", c)
           /\ send' = [send EXCEPT ![c] = "open"]
           /\ closing' = [closing EXCEPT ![c] = "no"]
    BY <1>3, Zenon DEF ConnectOk
  <2>2. UNCHANGED mapped /\ At(t, "connect")
    BY <1>3 DEF ConnectOk
  <2>3. Holding'
    BY <1>0, <2>1, <2>2 DEF GotoWith
  <2>4. MappedNotClosing'
    BY <1>0, <2>1, <2>2 DEF GotoWith, Unreferenced, At
  <2>5. StreamUntilDone'
    BY <1>0, <2>1, <2>2 DEF GotoWith, Unreferenced
  <2> QED BY <2>3, <2>4, <2>5
<1>4. ASSUME NEW t \in Senders, Insert(t) PROVE ManagerInv'
  BY <1>0, <1>4 DEF Insert, At, SendGoto, close
<1>5. ASSUME NEW t \in Senders, NEW l \in SendPCs \ {"insert", "idle", "connect"},
             send_pc[t] \notin {"insert", "idle", "connect"}, SendGoto(t, l),
             UNCHANGED <<mapped, closing>>,
             send' = send \/ send' = [send EXCEPT ![chan[t]] = "open"]
      PROVE  ManagerInv'
  BY <1>0, <1>5 DEF SendGoto
<1>6. ASSUME NEW t \in Senders, SendEnds(t), send_pc[t] # "insert", UNCHANGED <<mapped, send, closing>>
      PROVE  ManagerInv'
  BY <1>0, <1>6 DEF SendEnds, GotoWith
<1>7. ASSUME NEW t \in Senders, ConnectFails(t) \/ GiveUp(t) \/ OpenFails(t) \/ EndWrite(t)
      PROVE  ManagerInv'
  BY <1>6, <1>7 DEF ConnectFails, GiveUp, OpenFails, EndWrite, At, close
<1>8. ASSUME NEW t \in Senders, CheckState(t) \/ BeginWrite(t) PROVE ManagerInv'
  BY <1>5, <1>6, <1>8 DEF CheckState, BeginWrite, At, SendPCs, close
<1>9. ASSUME NEW t \in Senders,
             \/ ReconnectMark(t) \/ ReconnectCount(t) \/ OpenOk(t)
             \/ InstallStream(t) \/ MarkConnected(t) \/ ResetAttempts(t)
      PROVE  ManagerInv'
  BY <1>5, <1>9 DEF ReconnectMark, ReconnectCount, OpenOk, InstallStream, MarkConnected,
                    ResetAttempts, At, SendPCs, close
<1>10. ASSUME UNCHANGED <<mapped, send, closing, send_pc, chan>> PROVE ManagerInv'
  BY <1>10
<1>11. ASSUME NEW c \in Channels, StoreHandle(c) \/ ReceiverEnds(c) \/ ReceiverMarks(c)
       PROVE  ManagerInv'
  BY <1>10, <1>11 DEF StoreHandle, ReceiverEnds, ReceiverMarks, close, senders
<1>12. ASSUME NEW c \in Channels, StreamBreaks(c) PROVE ManagerInv'
  BY <1>0, <1>12 DEF StreamBreaks, close, senders
<1>13. ASSUME NEW c \in Channels, Close(c) PROVE ManagerInv'
  <2>1. CASE CloseMark(c)
    BY <1>0, <2>1 DEF CloseMark, senders
  <2>2. CASE CloseAbort(c)
    BY <1>0, <2>2 DEF CloseAbort, senders
  <2>3. CASE CloseTake(c)
    BY <1>0, <2>3 DEF CloseTake, senders
  <2> QED
    BY <1>13, <2>1, <2>2, <2>3, Zenon DEF Close
<1>14. ASSUME RemoveChannel PROVE ManagerInv'
  BY <1>0, <1>14 DEF RemoveChannel, senders
<1>15. ASSUME UNCHANGED channelVars PROVE ManagerInv'
  BY <1>10, <1>15 DEF channelVars, close, senders
<1> QED
  BY <1>1, <1>2, <1>3, <1>4, <1>7, <1>8, <1>9, <1>11, <1>12, <1>13, <1>14, <1>15
  DEF ChannelNext, StartSend, SendProceeds, Background

(* What get_channel hands out as connected has a send stream, for any       *)
(* number of senders racing with remove_channel, shutdown and reconnects.   *)
THEOREM MappedHasStream == ChannelSpec => []MappedChannelHasStream
<1>1. ChannelTypeOK /\ ManagerInv => MappedChannelHasStream
  BY DEF ChannelTypeOK, ManagerInv, MappedNotClosing, StreamUntilDone, MappedChannelHasStream
<1> QED BY <1>1, ChannelTypeCorrect, ManagerInit, ManagerStep, PTL DEF ChannelSpec

-----------------------------------------------------------------------------
(* No channel is being closed at first.                                     *)
LEMMA CleanInit == ChannelInit => CleanInv
BY DEF ChannelInit, CleanInv

(* Each step of the channel's users keeps a cleanly closed channel closed.  *)
LEMMA CleanStep == ChannelTypeOK /\ ManagerInv /\ CleanInv /\ [ChannelNext]_channelVars => CleanInv'
<1> SUFFICES ASSUME ChannelTypeOK, ManagerInv, CleanInv, [ChannelNext]_channelVars PROVE CleanInv'
  OBVIOUS
<1> USE DEF CleanInv, CleanlyClosed
<1>0. /\ mapped \in Channels \cup {NoChannel} /\ NoChannel \notin Channels
      /\ state \in [Channels -> {"Connected", "Reconnecting", "Closed"}]
      /\ send \in [Channels -> {"none", "open", "broken"}]
      /\ receiver \in [Channels -> {"running", "ended", "gone"}]
      /\ recv_task \in [Channels -> BOOLEAN]
      /\ closing \in [Channels -> {"no", "mark", "abort", "take", "done"}]
      /\ raced \in [Channels -> BOOLEAN]
      /\ send_pc \in [Senders -> SendPCs] /\ chan \in [Senders -> Channels \cup {NoChannel}]
  BY ChannelAssumption DEF ChannelTypeOK, NoChannel
<1>h. \A t \in Senders : send_pc[t] \notin {"idle", "connect"} => chan[t] \in Channels
  BY <1>0 DEF ManagerInv, Holding
<1>1. ASSUME NEW t \in Senders, GetConnected(t) \/ GetMissing(t) PROVE CleanInv'
  BY <1>0, <1>1 DEF GetConnected, GetMissing, SendGoto, GotoWith, channelHealth, tasks, close
<1>2. ASSUME NEW t \in Senders, ConnectOk(t) PROVE CleanInv'
  BY <1>0, <1>2 DEF ConnectOk, GotoWith
<1>3. ASSUME NEW t \in Senders,
             \/ ConnectFails(t) \/ Insert(t) \/ OpenFails(t) \/ BeginWrite(t) \/ EndWrite(t)
      PROVE  CleanInv'
  <2>1. /\ UNCHANGED <<state, send, receiver, recv_task, closing, raced>>
        /\ \E l \in {"idle", "check", "writing"} : SendGoto(t, l) \/ GotoWith(t, l, NoChannel)
    BY <1>3, Zenon
    DEF ConnectFails, Insert, OpenFails, BeginWrite, EndWrite, SendEnds, channelHealth, tasks, close
  <2> QED
    BY <1>0, <2>1 DEF SendGoto, GotoWith
<1>4. ASSUME NEW t \in Senders, CheckState(t) PROVE CleanInv'
  BY <1>0, <1>h, <1>4 DEF CheckState, At, SendGoto, GotoWith, SendEnds, channelHealth, tasks, close
<1>5. ASSUME NEW t \in Senders,
             \/ ReconnectMark(t) \/ ReconnectCount(t) \/ OpenOk(t)
             \/ InstallStream(t) \/ MarkConnected(t)
      PROVE  CleanInv'
  <2>1. /\ send_pc[t] \in {"reconnect", "count", "open", "install", "connected"}
        /\ chan[t] \in Channels
        /\ \E l \in SendPCs : SendGoto(t, l)
        /\ UNCHANGED <<tasks, close>>
        /\ \A c \in Channels \ {chan[t]} : state'[c] = state[c] /\ send'[c] = send[c]
    BY <1>0, <1>h, <1>5
    DEF ReconnectMark, ReconnectCount, OpenOk, InstallStream, MarkConnected, At, SendPCs, channelHealth
  <2>2. ~(closing[chan[t]] \in {"abort", "take", "done"} /\ ~ raced[chan[t]])
    BY <2>1
  <2>3. /\ chan' = chan /\ UNCHANGED <<receiver, recv_task, closing, raced>>
        /\ \A u \in Senders \ {t} : send_pc'[u] = send_pc[u]
    BY <1>0, <2>1 DEF SendGoto, tasks, close
  <2>4. ASSUME NEW c \in Channels, closing'[c] \in {"abort", "take", "done"}, ~ raced'[c]
        PROVE  c # chan[t] /\ state'[c] = state[c] /\ send'[c] = send[c]
    BY <2>1, <2>2, <2>3, <2>4
  <2> SUFFICES ASSUME NEW c \in Channels, closing'[c] \in {"abort", "take", "done"}, ~ raced'[c]
               PROVE  CleanlyClosed(c)'
    BY Zenon DEF CleanInv
  <2>5. CleanlyClosed(c) /\ c # chan[t] /\ state'[c] = state[c] /\ send'[c] = send[c]
    BY <2>3, <2>4, Zenon
  <2> QED BY <2>3, <2>5, Zenon
<1>6. ASSUME NEW t \in Senders, GiveUp(t) PROVE CleanInv'
  BY <1>0, <1>h, <1>6 DEF GiveUp, At, SendEnds, GotoWith, tasks, close
<1>7. ASSUME NEW t \in Senders, ResetAttempts(t) PROVE CleanInv'
  BY <1>0, <1>7 DEF ResetAttempts, SendGoto, tasks, close
<1>8. ASSUME NEW c \in Channels, StoreHandle(c) \/ StreamBreaks(c) PROVE CleanInv'
  BY <1>0, <1>8 DEF StoreHandle, StreamBreaks, channelHealth, tasks, close, senders
<1>9. ASSUME NEW c \in Channels, ReceiverEnds(c) PROVE CleanInv'
  BY <1>0, <1>9 DEF ReceiverEnds, channelHealth, senders
<1>10. ASSUME NEW c \in Channels, ReceiverMarks(c) PROVE CleanInv'
  BY <1>0, <1>10 DEF ReceiverMarks, close, senders
<1>11. ASSUME NEW c \in Channels, CloseMark(c) PROVE CleanInv'
  BY <1>0, <1>11 DEF CloseMark, Underway, tasks, senders
<1>12. ASSUME NEW c \in Channels, CloseAbort(c) PROVE CleanInv'
  BY <1>0, <1>12 DEF CloseAbort, channelHealth, senders
<1>13. ASSUME NEW c \in Channels, CloseTake(c) PROVE CleanInv'
  BY <1>0, <1>13 DEF CloseTake, channelHealth, tasks, senders
<1>14. ASSUME RemoveChannel PROVE CleanInv'
  BY <1>0, <1>14 DEF RemoveChannel, channelHealth, tasks, senders
<1>15. ASSUME UNCHANGED channelVars PROVE CleanInv'
  BY <1>15 DEF channelVars, channelHealth, tasks, close, senders
<1> QED
  BY <1>1, <1>2, <1>3, <1>4, <1>5, <1>6, <1>7, <1>8, <1>9, <1>10, <1>11, <1>12, <1>13,
     <1>14, <1>15
  DEF ChannelNext, StartSend, SendProceeds, Background, Close

(* A close() with nothing underway on the channel leaves it closed and      *)
(* without a stream for good, whoever still holds a reference to it.        *)
THEOREM CleanCloseFinal == ChannelSpec => []CleanCloseIsFinal
<1>1. CleanInv => CleanCloseIsFinal
  BY DEF CleanInv, CleanlyClosed, CleanCloseIsFinal
<1>2. ChannelInit => ChannelTypeOK /\ ManagerInv /\ CleanInv
  BY ChannelTypeInit, ManagerInit, CleanInit
<1>3. ChannelTypeOK /\ ManagerInv /\ CleanInv /\ [ChannelNext]_channelVars => (ChannelTypeOK /\ ManagerInv /\ CleanInv)'
  BY ChannelTypeStep, ManagerStep, CleanStep
<1> QED BY <1>1, <1>2, <1>3, PTL DEF ChannelSpec
=============================================================================
