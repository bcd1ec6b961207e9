---------------------------- MODULE RouterProofs ----------------------------
(***************************************************************************)
(* Proofs about SelectiveRouter, for any hierarchy of the four levels, any *)
(* lateral links, number of packets, hop limit and size of the caches: a   *)
(* node consumes a packet once unless its router forgot it, what is quiet  *)
(* and lost no copy has arrived, and the caches keep to their size.        *)
(***************************************************************************)
EXTENDS SelectiveRouter, SequenceTheorems, TLAPS

-----------------------------------------------------------------------------
(* Routed packets.                                                         *)

\* The level each node has, which the one it selected is above.
Level ==
    CHOOSE level \in [Routers -> HierarchyLevel] :
        \A n \in Routers : Parent[n] # NoParent => level[n] < level[Parent[n]]

Headers ==
    [source : Routers \cup {NoParent}, direction : Directions, dest : Routers \cup {Anyone}]

Copies == [id : Packets, from : Routers, to : Routers, hops : 0 .. MaxHops - 1]

\* The caches have their types, and not more stale entries than entries.
CacheShape ==
    /\ seen \in [Routers -> Seq(Packets)]
    /\ stale \in [Routers -> Nat]
    /\ \A n \in Routers : stale[n] <= Len(seen[n])
    /\ forgotten \in [Routers -> SUBSET Packets]

\* So has the rest; a packet that was sent has a source.
RouterShape ==
    /\ sent \subseteq Packets
    /\ header \in [Packets -> Headers]
    /\ \A p \in sent : header[p].source \in Routers
    /\ flying \subseteq Copies
    /\ CacheShape
    /\ consumed \in [Routers -> [Packets -> 0 .. 2]]

\* The router of n has recorded p at some time.
Recorded(n, p) == p \in Range(seen[n]) \/ p \in forgotten[n]

\* p is in the cache of n and not stale, or forgotten.
KeptOrForgotten(n, p) == IsDuplicate(n, p) \/ p \in forgotten[n]

\* The router of a node that consumed p knows p, unless it forgot it.
ConsumedIsKept ==
    \A n \in Routers, p \in Packets : consumed[n][p] > 0 => KeptOrForgotten(n, p)

\* A packet that was not sent is neither in flight nor recorded.
UnsentIsNowhere ==
    \A p \in Packets \ sent :
        /\ \A c \in flying : c.id # p
        /\ \A n \in Routers : ~Recorded(n, p)

\* A packet that climbs is in one place, above everybody that recorded it.
ClimbsAlone(p) ==
    /\ \A c, d \in flying : c.id = p /\ d.id = p => c = d
    /\ \A c \in flying : c.id = p =>
          /\ Level[header[p].source] < Level[c.to]
          /\ \A m \in Routers : Recorded(m, p) => Level[m] < Level[c.to]

\* A packet that descends reaches a node once, from the node above it, which
\* recorded it or sent it.
DescendsOnce(p) ==
    /\ \A c, d \in flying : c.id = p /\ d.id = p /\ c.to = d.to => c = d
    /\ \A c \in flying : c.id = p =>
          /\ ~Recorded(c.to, p)
          /\ Parent[c.to] = c.from
          /\ c.from = header[p].source \/ Recorded(c.from, p)
    /\ \A m \in Routers : Recorded(m, p) =>
          /\ Level[m] < Level[header[p].source]
          /\ Parent[m] \in Routers
          /\ Parent[m] = header[p].source \/ Recorded(Parent[m], p)

\* path leads j steps up.
LeadsUp(path, j) ==
    /\ path \in [0 .. j -> Routers]
    /\ \A i \in 0 .. j - 1 : Parent[path[i]] = path[i + 1]

\* On the way up from its source, p has been consumed or a copy is on its way.
OnItsWayUp(p) ==
    \A j \in 1 .. MaxHops : \A path \in [0 .. j -> Routers] :
        LeadsUp(path, j) /\ path[0] = header[p].source =>
            \/ consumed[path[j]][p] > 0
            \/ \E c \in flying : \E i \in 1 .. j : c.id = p /\ c.to = path[i] /\ c.hops = i - 1

\* So on the way down to its destination, with hops enough left.
OnItsWayDown(p) ==
    \A j \in 1 .. MaxHops : \A path \in [0 .. j -> Routers] :
        LeadsUp(path, j) /\ path[0] = header[p].dest /\ path[j] = header[p].source =>
            \/ consumed[header[p].dest][p] > 0
            \/ \E c \in flying : \E i \in 0 .. j - 1 : c.id = p /\ c.to = path[i] /\ c.hops < j - i

\* What holds of a packet that was sent.
Underway(p) ==
    /\ header[p].direction = "Upward" => ClimbsAlone(p) /\ (p \in lostCopies \/ OnItsWayUp(p))
    /\ header[p].direction = "Downward" =>
          DescendsOnce(p) /\ (p \in lostCopies \/ header[p].dest = Anyone \/ OnItsWayDown(p))

RouterInv ==
    /\ RouterShape
    /\ ConsumedIsKept /\ ConsumedOnce
    /\ UnsentIsNowhere
    /\ \A p \in sent : Underway(p)

\* A node is below the one it selected.
LEMMA LevelFacts ==
    /\ Level \in [Routers -> HierarchyLevel]
    /\ \A n \in Routers : Level[n] \in Nat
    /\ \A n \in Routers : Parent[n] # NoParent => Level[n] < Level[Parent[n]]
<1>1. /\ Level \in [Routers -> HierarchyLevel]
      /\ \A n \in Routers : Parent[n] # NoParent => Level[n] < Level[Parent[n]]
  BY LevelAssumption DEF Level
<1> QED
  BY <1>1 DEF HierarchyLevel

\* What is left of a sequence without its first k elements.
LEMMA SuffixFacts ==
    ASSUME NEW s \in Seq(Packets), NEW k \in Nat, k <= Len(s)
    PROVE  /\ SubSeq(s, k + 1, Len(s)) \in Seq(Packets)
           /\ Len(SubSeq(s, k + 1, Len(s))) = Len(s) - k
           /\ \A i \in 1 .. Len(s) - k : SubSeq(s, k + 1, Len(s))[i] = s[k + i]
  BY SubSeqProperties

\* It holds the elements after the first k.
LEMMA SuffixRange ==
    ASSUME NEW s \in Seq(Packets), NEW k \in Nat, k <= Len(s), NEW p
    PROVE  p \in Range(SubSeq(s, k + 1, Len(s))) <=> \E i \in k + 1 .. Len(s) : s[i] = p
<1> DEFINE t == SubSeq(s, k + 1, Len(s))
<1>1. t \in Seq(Packets) /\ Len(t) = Len(s) - k /\ \A i \in 1 .. Len(s) - k : t[i] = s[k + i]
  BY SuffixFacts
<1>2. Range(t) = {t[i] : i \in 1 .. Len(t)}
  BY <1>1, RangeEquality
<1> HIDE DEF t
<1>3. ASSUME NEW i \in k + 1 .. Len(s) PROVE s[i] \in Range(t)
  <2>1. i - k \in 1 .. Len(s) - k /\ k + (i - k) = i
    OBVIOUS
  <2>2. t[i - k] = s[i]
    BY <1>1, <2>1
  <2> QED
    BY <1>1, <1>2, <2>1, <2>2
<1>4. ASSUME p \in Range(t) PROVE \E i \in k + 1 .. Len(s) : s[i] = p
  <2>1. PICK i \in 1 .. Len(s) - k : t[i] = p
    BY <1>1, <1>2, <1>4
  <2>2. k + i \in k + 1 .. Len(s) /\ s[k + i] = p
    BY <1>1, <2>1
  <2> QED
    BY <2>2
<1>5. p \in Range(t) <=> \E i \in k + 1 .. Len(s) : s[i] = p
  BY <1>3, <1>4
<1> QED
  BY <1>5 DEF t

\* Taking an entry out of its place moves those after it up by one.
LEMMA RemoveFacts ==
    ASSUME NEW s \in Seq(Packets), NEW k \in 1 .. Len(s)
    PROVE  /\ WithoutAt(s, k) \in Seq(Packets)
           /\ Len(WithoutAt(s, k)) = Len(s) - 1
           /\ \A i \in 1 .. Len(s) - 1 : WithoutAt(s, k)[i] = IF i < k THEN s[i] ELSE s[i + 1]
<1> DEFINE a == SubSeq(s, 1, k - 1)
           b == SubSeq(s, k + 1, Len(s))
           t == WithoutAt(s, k)
<1>1. a \in Seq(Packets) /\ Len(a) = k - 1 /\ \A i \in 1 .. k - 1 : a[i] = s[i]
  BY SubSeqProperties
<1>2. b \in Seq(Packets) /\ Len(b) = Len(s) - k /\ \A i \in 1 .. Len(s) - k : b[i] = s[k + i]
  BY SuffixFacts
<1> HIDE DEF a, b
<1>3. /\ t \in Seq(Packets)
      /\ Len(t) = Len(a) + Len(b)
      /\ \A i \in 1 .. Len(a) + Len(b) : t[i] = IF i <= Len(a) THEN a[i] ELSE b[i - Len(a)]
  <2>1. t = a \o b
    BY Zenon DEF WithoutAt, a, b
  <2>2. /\ a \o b \in Seq(Packets)
        /\ Len(a \o b) = Len(a) + Len(b)
        /\ \A i \in 1 .. Len(a) + Len(b) :
              (a \o b)[i] = IF i <= Len(a) THEN a[i] ELSE b[i - Len(a)]
    BY <1>1, <1>2, ConcatProperties
  <2> QED
    BY <2>1, <2>2, Zenon
<1> HIDE DEF t
<1>4. t \in Seq(Packets) /\ Len(t) = Len(s) - 1
  BY <1>1, <1>2, <1>3
<1>5. ASSUME NEW i \in 1 .. Len(s) - 1 PROVE t[i] = IF i < k THEN s[i] ELSE s[i + 1]
  <2>1. CASE i < k
    <3>1. i \in 1 .. Len(a) + Len(b) /\ i <= Len(a) /\ i \in 1 .. k - 1
      BY <1>1, <1>2, <2>1
    <3>2. t[i] = a[i]
      BY <1>3, <3>1
    <3> QED
      BY <1>1, <2>1, <3>1, <3>2
  <2>2. CASE ~(i < k)
    <3>1. i \in 1 .. Len(a) + Len(b) /\ ~(i <= Len(a)) /\ i - (k - 1) \in 1 .. Len(s) - k
      BY <1>1, <1>2, <2>2
    <3>2. t[i] = b[i - (k - 1)]
      BY <1>1, <1>3, <3>1
    <3>3. b[i - (k - 1)] = s[k + (i - (k - 1))]
      BY <1>2, <3>1
    <3> QED
      BY <2>2, <3>2, <3>3
  <2> QED
    BY <2>1, <2>2
<1> QED
  BY <1>4, <1>5 DEF t

\* t, with l stale entries, is s, with k of them, after p is recorded: p is its
\* last entry, nothing else is new, and what was not stale in s is not stale in
\* t, or not in it.
RecordsIn(s, k, p, t, l) ==
    /\ t \in Seq(Packets) /\ l \in Nat /\ l < Len(t) /\ t[Len(t)] = p
    /\ \A i \in 1 .. Len(t) - 1 : \E j \in 1 .. Len(s) : s[j] = t[i]
    /\ \A j \in k + 1 .. Len(s) :
          \/ \E i \in l + 1 .. Len(t) : t[i] = s[j]
          \/ \A i \in 1 .. Len(t) : t[i] # s[j]

\* So a router records a packet that is not a duplicate.
LEMMA RememberFacts ==
    ASSUME NEW n, NEW p \in Packets, seen[n] \in Seq(Packets), stale[n] \in Nat,
           stale[n] <= Len(seen[n]), ~IsDuplicate(n, p)
    PROVE  RecordsIn(seen[n], stale[n], p, Remember(n, p), StaleAfter(n, p))
<1> DEFINE s == seen[n]
           l == Live(n)
           room == IF ~Full(n) THEN s ELSE IF Len(l) < MaxEntries THEN l ELSE Tail(l)
           w == Without(room, p)
           cache == Remember(n, p)
           k == StaleAfter(n, p)
<1>0. Len(s) \in Nat
  OBVIOUS
<1>1. /\ l \in Seq(Packets)
      /\ Len(l) = Len(s) - stale[n]
      /\ \A i \in 1 .. Len(s) - stale[n] : l[i] = s[stale[n] + i]
      /\ \A i \in stale[n] + 1 .. Len(s) : s[i] # p
  BY SuffixFacts, SuffixRange DEF IsDuplicate, Live
<1>2. cache = Append(w, p)
  BY DEF Remember
<1>3. SUFFICES /\ w \in Seq(Packets)
               /\ k \in Nat /\ k <= Len(w)
               /\ \A i \in 1 .. Len(w) : \E j \in 1 .. Len(s) : s[j] = w[i]
               /\ \/ k = 0
                  \/ \A j \in stale[n] + 1 .. Len(s) : \E i \in k + 1 .. Len(w) : w[i] = s[j]
  <2> HIDE DEF w, cache, k
  <2>1. /\ cache \in Seq(Packets) /\ Len(cache) = Len(w) + 1 /\ Len(w) \in Nat
        /\ \A i \in 1 .. Len(w) : cache[i] = w[i]
        /\ cache[Len(w) + 1] = p
    BY <1>2, <1>3, AppendProperties
  <2>2. k \in Nat /\ k < Len(cache) /\ cache[Len(cache)] = p
    BY <1>3, <2>1
  <2>3. \A i \in 1 .. Len(cache) - 1 : \E j \in 1 .. Len(seen[n]) : seen[n][j] = cache[i]
    BY <1>3, <2>1
  <2>4. ASSUME NEW j \in stale[n] + 1 .. Len(s)
        PROVE  \/ \E i \in k + 1 .. Len(cache) : cache[i] = seen[n][j]
               \/ \A i \in 1 .. Len(cache) : cache[i] # seen[n][j]
    <3>1. CASE k = 0
      BY <3>1
    <3>2. CASE \E i \in k + 1 .. Len(w) : w[i] = s[j]
      BY <1>3, <2>1, <3>2
    <3> QED
      BY <1>3, <3>1, <3>2
  <2> QED
    BY <2>1, <2>2, <2>3, <2>4 DEF RecordsIn, cache, k
<1> HIDE DEF cache
<1>4. CASE Full(n)
  <2>1. room \in Seq(Packets) /\ \A i \in 1 .. Len(room) : \E j \in stale[n] + 1 .. Len(s) : s[j] = room[i]
    <3>1. \A i \in 1 .. Len(l) : stale[n] + i \in stale[n] + 1 .. Len(s) /\ s[stale[n] + i] = l[i]
      BY <1>0, <1>1
    <3>2. CASE Len(l) < MaxEntries
      BY <1>1, <1>4, <3>1, <3>2
    <3>3. CASE ~(Len(l) < MaxEntries)
      <4>1. room = Tail(l)
        BY <1>4, <3>3
      <4>2. l # << >>
        BY <1>1, <3>3, RouterAssumption
      <4>3. /\ Tail(l) \in Seq(Packets) /\ Len(Tail(l)) = Len(l) - 1
            /\ \A i \in 1 .. Len(Tail(l)) : Tail(l)[i] = l[i + 1]
        BY <1>1, <4>2, HeadTailProperties
      <4> HIDE DEF l, room
      <4>4. \A i \in 1 .. Len(Tail(l)) : i + 1 \in 1 .. Len(l)
        BY <1>0, <1>1, <4>3
      <4> QED
        BY <3>1, <4>1, <4>3, <4>4
    <3> QED
      BY <3>2, <3>3
  <2>2. w = room
    <3> HIDE DEF room, l
    <3>1. Range(room) = {room[i] : i \in 1 .. Len(room)}
      BY <2>1, RangeEquality
    <3>2. p \notin Range(room)
      BY <1>1, <2>1, <3>1
    <3> QED
      BY <3>2 DEF Without
  <2>3. k = 0
    BY <1>4 DEF StaleAfter
  <2> HIDE DEF room, w
  <2> QED
    BY <1>0, <2>1, <2>2, <2>3
<1>5. CASE ~Full(n)
  <2>1. room = s
    BY <1>5
  <2>2. Range(s) = {s[i] : i \in 1 .. Len(s)}
    BY RangeEquality
  <2>3. CASE p \notin Range(s)
    <3>1. w = s /\ k = stale[n]
      BY <1>5, <2>1, <2>3 DEF Without, StaleAfter
    <3> HIDE DEF room, w
    <3> QED
      BY <1>0, <3>1
  <2>4. CASE p \in Range(s)
    <3> DEFINE e == CHOOSE i \in DOMAIN s : s[i] = p
    <3>1. e \in 1 .. Len(s) /\ s[e] = p
      BY <2>2, <2>4
    <3>2. w = WithoutAt(s, e) /\ k = stale[n] - 1
      BY <1>5, <2>1, <2>4 DEF Without, StaleAfter
    <3> HIDE DEF room, w, e
    <3>3. e <= stale[n]
      BY <1>1, <3>1
    <3>4. /\ w \in Seq(Packets) /\ Len(w) = Len(s) - 1
          /\ \A i \in 1 .. Len(s) - 1 : w[i] = IF i < e THEN s[i] ELSE s[i + 1]
      BY <3>1, <3>2, RemoveFacts
    <3>5. ASSUME NEW i \in 1 .. Len(w) PROVE \E j \in 1 .. Len(s) : s[j] = w[i]
      <4>1. i \in 1 .. Len(s) /\ i + 1 \in 1 .. Len(s) /\ i \in 1 .. Len(s) - 1
        BY <1>0, <3>4
      <4> QED
        BY <3>4, <4>1
    <3>6. ASSUME NEW j \in stale[n] + 1 .. Len(s) PROVE \E i \in k + 1 .. Len(w) : w[i] = s[j]
      <4>1. j - 1 \in k + 1 .. Len(w) /\ j - 1 \in 1 .. Len(s) - 1 /\ ~(j - 1 < e)
        BY <1>0, <3>1, <3>2, <3>3, <3>4
      <4>2. w[j - 1] = s[j]
        BY <3>4, <4>1
      <4> QED
        BY <4>1, <4>2
    <3> QED
      BY <1>0, <3>1, <3>2, <3>3, <3>4, <3>5, <3>6
  <2> QED
    BY <2>3, <2>4
<1> QED
  BY <1>4, <1>5

\* Routing a packet records it, and nothing else, and keeps what was kept.
LEMMA RouteRecords ==
    ASSUME CacheShape, NEW c \in Copies, Route(c)
    PROVE  /\ CacheShape'
           /\ \A m \in Routers, q \in Packets :
                 /\ Recorded(m, q)' <=> Recorded(m, q) \/ (m = c.to /\ q = c.id)
                 /\ KeptOrForgotten(m, q) => KeptOrForgotten(m, q)'
                 /\ q \in forgotten[m] => q \in forgotten'[m]
           /\ IsDuplicate(c.to, c.id)'
<1> DEFINE n == c.to
           p == c.id
           cache == Remember(n, p)
           k == StaleAfter(n, p)
<1>0. n \in Routers /\ p \in Packets
  BY DEF Copies
<1>1. /\ seen' = [seen EXCEPT ![n] = IF IsDuplicate(n, p) THEN seen[n] ELSE cache]
      /\ stale' = [stale EXCEPT ![n] = IF IsDuplicate(n, p) THEN @ ELSE k]
      /\ forgotten' = [forgotten EXCEPT ![n] =
            @ \cup (Range(seen[n]) \ Range(IF IsDuplicate(n, p) THEN seen[n] ELSE cache))]
  BY DEF Route
<1> HIDE DEF n, p, cache, k
<1>2. seen[n] \in Seq(Packets) /\ stale[n] \in Nat /\ stale[n] <= Len(seen[n])
  BY <1>0 DEF CacheShape
<1>3. Range(seen[n]) = {seen[n][i] : i \in 1 .. Len(seen[n])}
  BY <1>2, RangeEquality
<1>4. CASE IsDuplicate(n, p)
  <2>1. seen' = seen /\ stale' = stale /\ forgotten' = forgotten
    BY <1>0, <1>1, <1>4 DEF CacheShape
  <2>2. p \in Range(seen[n])
    <3>1. PICK i \in stale[n] + 1 .. Len(seen[n]) : seen[n][i] = p
      BY <1>2, <1>4, SuffixRange DEF IsDuplicate, Live
    <3>2. i \in 1 .. Len(seen[n])
      BY <1>2
    <3> QED
      BY <1>3, <3>1, <3>2
  <2> QED
    BY <1>4, <2>1, <2>2 DEF n, p, CacheShape, Recorded, KeptOrForgotten, IsDuplicate, Live
<1>5. CASE ~IsDuplicate(n, p)
  <2>1. /\ cache \in Seq(Packets)
        /\ k \in Nat /\ k < Len(cache) /\ cache[Len(cache)] = p
        /\ \A i \in 1 .. Len(cache) - 1 : \E j \in 1 .. Len(seen[n]) : seen[n][j] = cache[i]
        /\ \A j \in stale[n] + 1 .. Len(seen[n]) :
              \/ \E i \in k + 1 .. Len(cache) : cache[i] = seen[n][j]
              \/ \A i \in 1 .. Len(cache) : cache[i] # seen[n][j]
    <3>1. RecordsIn(seen[n], stale[n], p, cache, k)
      BY <1>0, <1>2, <1>5, RememberFacts DEF cache, k
    <3> QED
      BY <3>1 DEF RecordsIn
  <2>2. Range(cache) = {cache[i] : i \in 1 .. Len(cache)}
    BY <2>1, RangeEquality
  <2>3. /\ seen' = [seen EXCEPT ![n] = cache]
        /\ stale' = [stale EXCEPT ![n] = k]
        /\ forgotten' = [forgotten EXCEPT ![n] = @ \cup (Range(seen[n]) \ Range(cache))]
    BY <1>1, <1>5
  <2>4. CacheShape'
    <3>1. Range(seen[n]) \subseteq Packets
      BY <1>2, RangeOfSeq
    <3>2. /\ seen' \in [Routers -> Seq(Packets)]
          /\ stale' \in [Routers -> Nat]
          /\ forgotten' \in [Routers -> SUBSET Packets]
      BY <1>0, <2>1, <2>3, <3>1 DEF CacheShape
    <3>3. \A m \in Routers : stale'[m] <= Len(seen'[m])
      BY <1>0, <2>1, <2>3 DEF CacheShape
    <3> QED
      BY <3>2, <3>3 DEF CacheShape
  <2>5. p \in Range(cache) /\ Range(cache) \subseteq Range(seen[n]) \cup {p}
    <3>1. Len(cache) \in 1 .. Len(cache) /\ \A i \in 1 .. Len(cache) : i = Len(cache) \/ i \in 1 .. Len(cache) - 1
      BY <2>1
    <3>2. p \in Range(cache)
      BY <2>1, <2>2, <3>1
    <3>3. ASSUME NEW i \in 1 .. Len(cache) PROVE cache[i] \in Range(seen[n]) \cup {p}
      BY <1>3, <2>1, <3>1
    <3> QED
      BY <2>2, <3>2, <3>3
  <2>6. seen'[n] = cache /\ stale'[n] = k /\ forgotten'[n] = forgotten[n] \cup (Range(seen[n]) \ Range(cache))
    BY <1>0, <2>3 DEF CacheShape
  <2>7. \A m \in Routers : m # n => seen'[m] = seen[m] /\ stale'[m] = stale[m] /\ forgotten'[m] = forgotten[m]
    BY <2>3 DEF CacheShape
  <2>8. ASSUME NEW m \in Routers, NEW q \in Packets
        PROVE  Recorded(m, q)' <=> Recorded(m, q) \/ (m = n /\ q = p)
    <3>1. CASE m = n
      BY <2>5, <2>6, <3>1 DEF Recorded
    <3>2. CASE m # n
      BY <2>7, <3>2 DEF Recorded
    <3> QED
      BY <3>1, <3>2
  <2>9. \A q : IsDuplicate(n, q)' <=> \E i \in k + 1 .. Len(cache) : cache[i] = q
    <3>1. \A q : IsDuplicate(n, q)' <=> q \in Range(SubSeq(cache, k + 1, Len(cache)))
      BY <2>6 DEF IsDuplicate, Live
    <3> QED
      BY <2>1, <3>1, SuffixRange
  <2>10. IsDuplicate(n, p)'
    <3>1. Len(cache) \in k + 1 .. Len(cache)
      BY <2>1
    <3> QED
      BY <2>1, <2>9, <3>1
  <2>11. ASSUME NEW m \in Routers, NEW q \in Packets, KeptOrForgotten(m, q)
         PROVE  KeptOrForgotten(m, q)'
    <3>1. CASE m # n
      BY <2>7, <2>11, <3>1 DEF KeptOrForgotten, IsDuplicate, Live
    <3>2. CASE m = n /\ q \in forgotten[n]
      BY <2>6, <3>2 DEF KeptOrForgotten
    <3>3. CASE m = n /\ IsDuplicate(n, q)
      <4>1. PICK j \in stale[n] + 1 .. Len(seen[n]) : seen[n][j] = q
        BY <1>2, <3>3, SuffixRange DEF IsDuplicate, Live
      <4>2. CASE \E i \in k + 1 .. Len(cache) : cache[i] = q
        BY <2>9, <3>3, <4>2 DEF KeptOrForgotten
      <4>3. CASE \A i \in 1 .. Len(cache) : cache[i] # q
        <5>1. j \in 1 .. Len(seen[n])
          BY <1>2
        <5>2. q \in Range(seen[n]) \ Range(cache)
          BY <1>3, <2>2, <4>1, <4>3, <5>1
        <5> QED
          BY <2>6, <3>3, <5>2 DEF KeptOrForgotten
      <4> QED
        BY <2>1, <4>1, <4>2, <4>3
    <3> QED
      BY <2>11, <3>1, <3>2, <3>3 DEF KeptOrForgotten
  <2> QED
    BY <2>4, <2>6, <2>7, <2>8, <2>10, <2>11 DEF n, p
<1> QED
  BY <1>4, <1>5

\* An entry that expires and a cache that is cleared leave what was recorded at
\* least forgotten.
LEMMA UpsetRecords ==
    ASSUME CacheShape, NEW n \in Routers, EntryExpires(n) \/ ClearDedupCache(n)
    PROVE  /\ CacheShape'
           /\ \A m \in Routers, q \in Packets :
                 /\ Recorded(m, q)' <=> Recorded(m, q)
                 /\ KeptOrForgotten(m, q) => KeptOrForgotten(m, q)'
                 /\ q \in forgotten[m] => q \in forgotten'[m]
<1>1. seen[n] \in Seq(Packets) /\ stale[n] \in Nat /\ stale[n] <= Len(seen[n])
  BY DEF CacheShape
<1>2. Range(seen[n]) = {seen[n][i] : i \in 1 .. Len(seen[n])} /\ Range(seen[n]) \subseteq Packets
  BY <1>1, RangeEquality, RangeOfSeq
<1>3. CASE EntryExpires(n)
  <2> DEFINE e == seen[n][stale[n] + 1]
  <2>1. /\ stale[n] < Len(seen[n]) /\ seen' = seen
        /\ stale' = [stale EXCEPT ![n] = @ + 1]
        /\ forgotten' = [forgotten EXCEPT ![n] = @ \cup {e}]
    BY <1>3 DEF EntryExpires
  <2>2. e \in Range(seen[n]) /\ e \in Packets
    <3>1. stale[n] + 1 \in 1 .. Len(seen[n])
      BY <1>1, <2>1
    <3> QED
      BY <1>2, <3>1
  <2> HIDE DEF e
  <2>3. CacheShape'
    BY <1>1, <2>1, <2>2 DEF CacheShape
  <2>4. \A m \in Routers, q \in Packets : Recorded(m, q)' <=> Recorded(m, q)
    BY <2>1, <2>2 DEF CacheShape, Recorded
  <2>5. ASSUME NEW m \in Routers, NEW q \in Packets, KeptOrForgotten(m, q)
        PROVE  KeptOrForgotten(m, q)'
    <3>1. CASE m # n
      BY <2>1, <2>5, <3>1 DEF CacheShape, KeptOrForgotten, IsDuplicate, Live
    <3>2. CASE m = n /\ (q \in forgotten[n] \/ q = e)
      BY <2>1, <3>2 DEF CacheShape, KeptOrForgotten
    <3>3. CASE m = n /\ IsDuplicate(n, q) /\ q # e
      <4>1. PICK j \in stale[n] + 1 .. Len(seen[n]) : seen[n][j] = q
        BY <1>1, <3>3, SuffixRange DEF IsDuplicate, Live
      <4>2. j \in (stale[n] + 1) + 1 .. Len(seen[n])
        BY <1>1, <3>3, <4>1 DEF e
      <4>3. stale[n] + 1 \in Nat /\ stale[n] + 1 <= Len(seen[n])
        BY <1>1, <2>1
      <4>4. q \in Range(SubSeq(seen[n], (stale[n] + 1) + 1, Len(seen[n])))
        BY <1>1, <4>1, <4>2, <4>3, SuffixRange
      <4>5. stale'[n] = stale[n] + 1
        BY <2>1 DEF CacheShape
      <4> QED
        BY <2>1, <3>3, <4>4, <4>5 DEF KeptOrForgotten, IsDuplicate, Live
    <3> QED
      BY <2>5, <3>1, <3>2, <3>3 DEF KeptOrForgotten
  <2>6. \A m \in Routers, q \in Packets : q \in forgotten[m] => q \in forgotten'[m]
    BY <2>1 DEF CacheShape
  <2> QED
    BY <2>3, <2>4, <2>5, <2>6
<1>4. CASE ClearDedupCache(n)
  <2>1. /\ seen' = [seen EXCEPT ![n] = <<>>]
        /\ stale' = [stale EXCEPT ![n] = 0]
        /\ forgotten' = [forgotten EXCEPT ![n] = @ \cup Range(seen[n])]
    BY <1>4 DEF ClearDedupCache
  <2>2. CacheShape'
    BY <1>2, <2>1 DEF CacheShape
  <2>3. Range(<<>>) = {}
    BY DEF Range
  <2>4. ASSUME NEW m \in Routers, NEW q \in Packets
        PROVE  Recorded(m, q)' <=> Recorded(m, q)
    BY <2>1, <2>3 DEF CacheShape, Recorded
  <2>5. ASSUME NEW m \in Routers, NEW q \in Packets, KeptOrForgotten(m, q)
        PROVE  KeptOrForgotten(m, q)'
    <3>1. CASE m # n
      BY <2>1, <2>5, <3>1 DEF CacheShape, KeptOrForgotten, IsDuplicate, Live
    <3>2. CASE m = n /\ q \in forgotten[n]
      BY <2>1, <3>2 DEF CacheShape, KeptOrForgotten
    <3>3. CASE m = n /\ IsDuplicate(n, q)
      <4>1. PICK j \in stale[n] + 1 .. Len(seen[n]) : seen[n][j] = q
        BY <1>1, <3>3, SuffixRange DEF IsDuplicate, Live
      <4>2. j \in 1 .. Len(seen[n])
        BY <1>1
      <4>3. q \in Range(seen[n])
        BY <1>2, <4>1, <4>2
      <4> QED
        BY <2>1, <3>3, <4>3 DEF CacheShape, KeptOrForgotten
    <3> QED
      BY <2>5, <3>1, <3>2, <3>3 DEF KeptOrForgotten
  <2>6. \A m \in Routers, q \in Packets : q \in forgotten[m] => q \in forgotten'[m]
    BY <2>1 DEF CacheShape
  <2> QED
    BY <2>2, <2>4, <2>5, <2>6
<1> QED
  BY <1>3, <1>4

\* A duplicate is recorded.
LEMMA DuplicateIsRecorded ==
    ASSUME CacheShape, NEW n \in Routers, NEW p, IsDuplicate(n, p)
    PROVE  Recorded(n, p)
<1>1. seen[n] \in Seq(Packets) /\ stale[n] \in Nat /\ stale[n] <= Len(seen[n])
  BY DEF CacheShape
<1>2. PICK i \in stale[n] + 1 .. Len(seen[n]) : seen[n][i] = p
  BY <1>1, SuffixRange DEF IsDuplicate, Live
<1>3. i \in 1 .. Len(seen[n])
  BY <1>1
<1>4. Range(seen[n]) = {seen[n][j] : j \in 1 .. Len(seen[n])}
  BY <1>1, RangeEquality
<1> QED
  BY <1>2, <1>3, <1>4 DEF Recorded

\* A packet that a step is not about stays under way.
LEMMA UnderwayFrame ==
    ASSUME NEW p, Underway(p), header'[p] = header[p],
           header[p].source \in Routers,
           \A c : c.id = p => (c \in flying' <=> c \in flying),
           flying \subseteq Copies, flying' \subseteq Copies,
           \A m \in Routers : Recorded(m, p)' <=> Recorded(m, p),
           \A m \in Routers : consumed'[m][p] = consumed[m][p],
           p \in lostCopies => p \in lostCopies'
    PROVE  Underway(p)'
<1>1. \A c \in flying : c.to \in Routers /\ c.from \in Routers
  BY DEF Copies
<1>2. ClimbsAlone(p) => ClimbsAlone(p)'
  BY <1>1 DEF ClimbsAlone
<1>3. DescendsOnce(p) => DescendsOnce(p)'
  BY <1>1 DEF DescendsOnce
<1>4. OnItsWayUp(p) => OnItsWayUp(p)'
  <2> SUFFICES ASSUME OnItsWayUp(p), NEW j \in 1 .. MaxHops, NEW path \in [0 .. j -> Routers],
                      LeadsUp(path, j), path[0] = header[p].source
               PROVE  \/ consumed'[path[j]][p] > 0
                      \/ \E c \in flying' : \E i \in 1 .. j :
                            c.id = p /\ c.to = path[i] /\ c.hops = i - 1
    BY DEF OnItsWayUp, LeadsUp
  <2>1. path[j] \in Routers
    BY RouterAssumption
  <2>2. \/ consumed[path[j]][p] > 0
        \/ \E c \in flying : \E i \in 1 .. j : c.id = p /\ c.to = path[i] /\ c.hops = i - 1
    BY DEF OnItsWayUp
  <2> QED
    BY <2>1, <2>2
<1>5. OnItsWayDown(p) => (header[p].dest = Anyone \/ OnItsWayDown(p)')
  <2> SUFFICES ASSUME OnItsWayDown(p), NEW j \in 1 .. MaxHops, NEW path \in [0 .. j -> Routers],
                      LeadsUp(path, j), path[0] = header[p].dest, path[j] = header[p].source
               PROVE  \/ consumed'[header[p].dest][p] > 0
                      \/ \E c \in flying' : \E i \in 0 .. j - 1 :
                            c.id = p /\ c.to = path[i] /\ c.hops < j - i
    BY ZenonT(60) DEF OnItsWayDown, LeadsUp
  <2>1. header[p].dest \in Routers
    BY RouterAssumption
  <2>2. \/ consumed[header[p].dest][p] > 0
        \/ \E c \in flying : \E i \in 0 .. j - 1 : c.id = p /\ c.to = path[i] /\ c.hops < j - i
    BY DEF OnItsWayDown
  <2> QED
    BY <2>1, <2>2
<1> QED
  BY <1>2, <1>3, <1>4, <1>5 DEF Underway

\* A packet that climbs is routed by a node that has not seen it, which consumes
\* it and passes it on up.
LEMMA RouteUp ==
    ASSUME RouterShape, NEW c \in flying, Route(c), c.id \in sent,
           header[c.id].direction = "Upward", Underway(c.id)
    PROVE  Underway(c.id)'
<1> DEFINE p == c.id
           n == c.to
           h == header[p]
           up == [id |-> p, from |-> n, to |-> Parent[n], hops |-> c.hops + 1]
           goes == Parent[n] # NoParent /\ c.hops + 1 < MaxHops
<1>1. /\ c \in Copies /\ p \in Packets /\ n \in Routers /\ c.hops \in Nat /\ c.hops < MaxHops
      /\ CacheShape /\ flying \subseteq Copies /\ h \in Headers /\ h.source \in Routers
      /\ consumed \in [Routers -> [Packets -> 0 .. 2]] /\ MaxHops \in Nat
  BY RouterAssumption DEF RouterShape, Copies
<1>2. ClimbsAlone(p) /\ (p \in lostCopies \/ OnItsWayUp(p))
  BY DEF Underway
<1>3. ~Recorded(n, p) /\ h.source # n
  BY <1>1, <1>2, LevelFacts DEF ClimbsAlone
<1>4. ~IsDuplicate(n, p) /\ ~(c.hops >= MaxHops) /\ h.source # n
  BY <1>1, <1>3, DuplicateIsRecorded
<1>5. should_consume(h, n) /\ (should_forward(h, n) <=> Parent[n] # NoParent)
  BY DEF should_consume, should_forward
<1>6. next_hops(h, n) = {Parent[n]} \ {NoParent}
  BY DEF next_hops
<1>7. /\ consumed' = IF consumed[n][p] < 2 THEN [consumed EXCEPT ![n][p] = @ + 1] ELSE consumed
      /\ flying' = (flying \ {c}) \cup
            (IF should_forward(h, n) /\ c.hops + 1 < MaxHops
             THEN {[id |-> p, from |-> n, to |-> m, hops |-> c.hops + 1] : m \in next_hops(h, n)}
             ELSE {})
      /\ header' = header /\ lostCopies' = lostCopies
  BY <1>4, <1>5 DEF Route
<1>8. flying' = (flying \ {c}) \cup (IF goes THEN {up} ELSE {})
  BY <1>5, <1>6, <1>7
<1>9. consumed'[n][p] > 0 /\ \A m \in Routers : consumed[m][p] > 0 => consumed'[m][p] > 0
  BY <1>1, <1>7
<1>10. \A m \in Routers : Recorded(m, p)' <=> Recorded(m, p) \/ m = n
  BY <1>1, RouteRecords
<1>11. \A d \in flying : d.id = p => d = c
  BY <1>2 DEF ClimbsAlone
<1>12. goes => Parent[n] \in Routers /\ Level[n] < Level[Parent[n]]
  BY <1>1, LevelFacts, RouterAssumption
<1> HIDE DEF p, n, h, goes
<1>13. ClimbsAlone(p)'
  <2>1. \A d \in flying' : d.id = p => goes /\ d = up
    BY <1>8, <1>11
  <2>2. ASSUME goes
        PROVE  /\ Level[h.source] < Level[Parent[n]]
               /\ \A m \in Routers : Recorded(m, p)' => Level[m] < Level[Parent[n]]
    <3>1. /\ Level[h.source] < Level[n]
          /\ \A m \in Routers : Recorded(m, p) => Level[m] < Level[n]
      BY <1>2 DEF ClimbsAlone, p, n, h
    <3>2. /\ Level[n] \in Nat /\ Level[Parent[n]] \in Nat /\ Level[h.source] \in Nat
          /\ \A m \in Routers : Level[m] \in Nat
      BY <1>1, <1>12, <2>2, LevelFacts
    <3> QED
      BY <1>10, <1>12, <2>2, <3>1, <3>2
  <2>3. up.to = Parent[n] /\ header'[p] = h
    BY <1>7 DEF h
  <2> QED
    BY <2>1, <2>2, <2>3 DEF ClimbsAlone
<1>14. ASSUME p \notin lostCopies PROVE OnItsWayUp(p)'
  <2> SUFFICES ASSUME NEW j \in 1 .. MaxHops, NEW path \in [0 .. j -> Routers],
                      LeadsUp(path, j), path[0] = h.source
               PROVE  \/ consumed'[path[j]][p] > 0
                      \/ \E d \in flying' : \E i \in 1 .. j :
                            d.id = p /\ d.to = path[i] /\ d.hops = i - 1
    BY <1>7 DEF OnItsWayUp, LeadsUp, h
  <2>1. path[j] \in Routers
    BY <1>1
  <2>2. CASE consumed[path[j]][p] > 0
    BY <1>9, <2>1, <2>2
  <2>3. ASSUME NEW i \in 1 .. j, n = path[i], c.hops = i - 1
        PROVE  \/ consumed'[path[j]][p] > 0
               \/ \E d \in flying' : \E k \in 1 .. j :
                     d.id = p /\ d.to = path[k] /\ d.hops = k - 1
    <3>1. CASE i = j
      BY <1>9, <2>3, <3>1
    <3>2. CASE i # j
      <4>1. i \in 0 .. j - 1 /\ i + 1 \in 1 .. j /\ i + 1 \in 0 .. j /\ i < MaxHops
        BY <1>1, <3>2
      <4>2. Parent[n] = path[i + 1] /\ path[i + 1] \in Routers
        BY <2>3, <4>1 DEF LeadsUp
      <4>3. goes /\ up.id = p /\ up.to = path[i + 1] /\ up.hops = (i + 1) - 1
        BY <2>3, <4>1, <4>2, RouterAssumption DEF goes
      <4>4. up \in flying'
        BY <1>8, <4>3
      <4> QED
        BY <4>1, <4>3, <4>4
    <3> QED
      BY <3>1, <3>2
  <2>4. CASE \E d \in flying : \E i \in 1 .. j : d.id = p /\ d.to = path[i] /\ d.hops = i - 1
    <3>1. PICK d \in flying, i \in 1 .. j : d.id = p /\ d.to = path[i] /\ d.hops = i - 1
      BY <2>4
    <3>2. d = c
      BY <1>11, <3>1
    <3> QED
      BY <2>3, <3>1, <3>2 DEF n
  <2> QED
    BY <1>2, <1>14, <2>2, <2>4 DEF OnItsWayUp, h
<1> QED
  <2>1. header'[p].direction = "Upward" /\ lostCopies' = lostCopies
    BY <1>7 DEF p
  <2>2. Underway(p)'
    BY <1>13, <1>14, <2>1 DEF Underway
  <2> QED
    BY <2>2 DEF p

\* A packet that descends is routed by a node that has not seen it, which
\* consumes it if it is the destination and else passes it on down.
LEMMA RouteDown ==
    ASSUME RouterShape, NEW c \in flying, Route(c), c.id \in sent,
           header[c.id].direction = "Downward", Underway(c.id)
    PROVE  Underway(c.id)'
<1> DEFINE p == c.id
           n == c.to
           h == header[p]
           down(m) == [id |-> p, from |-> n, to |-> m, hops |-> c.hops + 1]
           goes == Linked(n) # {} /\ c.hops + 1 < MaxHops
           below == IF h.dest \in Linked(n) THEN {h.dest} ELSE Linked(n)
<1>1. /\ c \in Copies /\ p \in Packets /\ n \in Routers /\ c.hops \in Nat /\ c.hops < MaxHops
      /\ c.from \in Routers
      /\ CacheShape /\ flying \subseteq Copies /\ h \in Headers /\ h.source \in Routers
      /\ consumed \in [Routers -> [Packets -> 0 .. 2]] /\ MaxHops \in Nat
  BY RouterAssumption DEF RouterShape, Copies
<1>2. DescendsOnce(p) /\ (p \in lostCopies \/ h.dest = Anyone \/ OnItsWayDown(p))
  BY DEF Underway
<1>3. /\ ~Recorded(n, p) /\ Parent[n] = c.from
      /\ c.from = h.source \/ Recorded(c.from, p)
      /\ Level[n] < Level[h.source]
  <2>1. ~Recorded(n, p) /\ Parent[n] = c.from /\ (c.from = h.source \/ Recorded(c.from, p))
    BY <1>2 DEF DescendsOnce
  <2>2. Level[n] < Level[c.from] /\ Level[n] \in Nat /\ Level[c.from] \in Nat /\ Level[h.source] \in Nat
    BY <1>1, <2>1, LevelFacts, RouterAssumption
  <2>3. Recorded(c.from, p) => Level[c.from] < Level[h.source]
    BY <1>1, <1>2 DEF DescendsOnce
  <2> QED
    BY <2>1, <2>2, <2>3
<1>4. ~IsDuplicate(n, p) /\ ~(c.hops >= MaxHops) /\ h.source # n
  BY <1>1, <1>3, DuplicateIsRecorded, LevelFacts
<1>5. (h.dest = n => should_consume(h, n)) /\ (should_forward(h, n) <=> Linked(n) # {})
  BY DEF should_consume, should_forward
<1>6. next_hops(h, n) = below
  BY DEF next_hops
<1>7. /\ consumed' = IF should_consume(h, n) /\ consumed[n][p] < 2
                     THEN [consumed EXCEPT ![n][p] = @ + 1] ELSE consumed
      /\ flying' = (flying \ {c}) \cup
            (IF should_forward(h, n) /\ c.hops + 1 < MaxHops
             THEN {[id |-> p, from |-> n, to |-> m, hops |-> c.hops + 1] : m \in next_hops(h, n)}
             ELSE {})
      /\ header' = header /\ lostCopies' = lostCopies
  BY <1>4 DEF Route
<1>8. flying' = (flying \ {c}) \cup (IF goes THEN {down(m) : m \in below} ELSE {})
  BY <1>5, <1>6, <1>7
<1>9. /\ h.dest = n => consumed'[n][p] > 0
      /\ \A m \in Routers : consumed[m][p] > 0 => consumed'[m][p] > 0
  <2>1. CASE should_consume(h, n) /\ consumed[n][p] < 2
    <3>1. consumed' = [consumed EXCEPT ![n][p] = @ + 1]
      BY <1>7, <2>1, Zenon
    <3> QED
      BY <1>1, <3>1
  <2>2. CASE ~(should_consume(h, n) /\ consumed[n][p] < 2)
    <3>1. consumed' = consumed
      BY <1>7, <2>2, Zenon
    <3>2. h.dest = n => consumed[n][p] = 2
      BY <1>1, <1>5, <2>2
    <3> QED
      BY <1>1, <3>1, <3>2
  <2> QED
    BY <2>1, <2>2
<1>10. \A m \in Routers : Recorded(m, p)' <=> Recorded(m, p) \/ m = n
  BY <1>1, RouteRecords
<1>11. below \subseteq Linked(n)
  OBVIOUS
<1>12. \A m \in Linked(n) : m \in Routers /\ Parent[m] = n /\ ~Recorded(m, p) /\ m # n
  <2> SUFFICES ASSUME NEW m \in Linked(n) PROVE ~Recorded(m, p) /\ m # n
    BY DEF Linked
  <2>1. m \in Routers /\ Parent[m] = n
    BY DEF Linked
  <2>2. Level[m] < Level[n] /\ Level[m] \in Nat /\ Level[n] \in Nat
    BY <1>1, <2>1, LevelFacts, RouterAssumption
  <2>3. ~Recorded(m, p)
    BY <1>2, <1>3, <1>4, <2>1 DEF DescendsOnce
  <2> QED
    BY <2>2, <2>3
<1> HIDE DEF p, n, h, goes, below
<1>13. DescendsOnce(p)'
  <2>1. ASSUME NEW d \in flying' PROVE (d \in flying /\ d # c) \/ \E m \in Linked(n) : d = down(m)
    BY <1>8, <1>11
  <2>2. \A d \in flying : d.id = p => Parent[d.to] = d.from /\ d.from # n /\ ~Recorded(d.to, p)
    BY <1>2, <1>3, <1>4 DEF DescendsOnce, h
  <2>3. \A d, e \in flying' : d.id = p /\ e.id = p /\ d.to = e.to => d = e
    <3> SUFFICES ASSUME NEW d \in flying', NEW e \in flying', d.id = p, e.id = p, d.to = e.to
                 PROVE  d = e
      OBVIOUS
    <3>1. CASE d \in flying /\ e \in flying
      BY <1>2, <3>1 DEF DescendsOnce
    <3>2. CASE d \in flying /\ e \notin flying
      <4>1. PICK m \in Linked(n) : e = down(m)
        BY <2>1, <3>2
      <4> QED
        BY <1>12, <2>2, <3>2, <4>1
    <3>3. CASE d \notin flying /\ e \in flying
      <4>1. PICK m \in Linked(n) : d = down(m)
        BY <2>1, <3>3
      <4> QED
        BY <1>12, <2>2, <3>3, <4>1
    <3>4. CASE d \notin flying /\ e \notin flying
      <4>1. PICK m \in Linked(n) : d = down(m)
        BY <2>1, <3>4
      <4>2. PICK l \in Linked(n) : e = down(l)
        BY <2>1, <3>4
      <4> QED
        BY <4>1, <4>2
    <3> QED
      BY <3>1, <3>2, <3>3, <3>4
  <2>4. ASSUME NEW d \in flying', d.id = p
        PROVE  /\ ~Recorded(d.to, p)'
               /\ Parent[d.to] = d.from
               /\ d.from = h.source \/ Recorded(d.from, p)'
    <3>1. CASE d \in flying /\ d # c
      <4>1. d.to \in Routers /\ d.from \in Routers
        BY <1>1, <3>1 DEF Copies
      <4>2. d.to # n
        BY <1>2, <2>4, <3>1 DEF DescendsOnce, n, p
      <4>3. d.from = h.source \/ Recorded(d.from, p)
        BY <1>2, <2>4, <3>1 DEF DescendsOnce, h
      <4> QED
        BY <1>10, <2>2, <2>4, <3>1, <4>1, <4>2, <4>3
    <3>2. ASSUME NEW m \in Linked(n), d = down(m)
          PROVE  /\ ~Recorded(d.to, p)'
                 /\ Parent[d.to] = d.from
                 /\ d.from = h.source \/ Recorded(d.from, p)'
      <4>1. d.to = m /\ d.from = n
        BY <3>2
      <4> QED
        BY <1>1, <1>10, <1>12, <4>1
    <3> QED
      BY <2>1, <3>1, <3>2
  <2>5. ASSUME NEW m \in Routers, Recorded(m, p)'
        PROVE  /\ Level[m] < Level[h.source]
               /\ Parent[m] \in Routers
               /\ Parent[m] = h.source \/ Recorded(Parent[m], p)'
    <3>1. CASE Recorded(m, p)
      BY <1>2, <1>10, <3>1 DEF DescendsOnce, h
    <3>2. CASE m = n
      BY <1>1, <1>3, <1>10, <3>2
    <3> QED
      BY <1>10, <2>5, <3>1, <3>2
  <2>6. header'[p] = h
    BY <1>7 DEF h
  <2> QED
    BY <2>3, <2>4, <2>5, <2>6 DEF DescendsOnce
<1>14. ASSUME p \notin lostCopies, h.dest # Anyone PROVE OnItsWayDown(p)'
  <2> SUFFICES ASSUME NEW j \in 1 .. MaxHops, NEW path \in [0 .. j -> Routers],
                      LeadsUp(path, j), path[0] = h.dest, path[j] = h.source
               PROVE  \/ consumed'[h.dest][p] > 0
                      \/ \E d \in flying' : \E i \in 0 .. j - 1 :
                            d.id = p /\ d.to = path[i] /\ d.hops < j - i
    BY <1>7 DEF OnItsWayDown, LeadsUp, h
  <2>1. path[0] \in Routers
    BY <1>1
  <2>2. CASE consumed[h.dest][p] > 0
    BY <1>9, <2>1, <2>2
  <2>3. ASSUME NEW i \in 0 .. j - 1, n = path[i], c.hops < j - i
        PROVE  \/ consumed'[h.dest][p] > 0
               \/ \E d \in flying' : \E k \in 0 .. j - 1 :
                     d.id = p /\ d.to = path[k] /\ d.hops < j - k
    <3>1. CASE i = 0
      BY <1>9, <2>3, <3>1
    <3>2. CASE i # 0
      <4>1. /\ i - 1 \in 0 .. j - 1 /\ (i - 1) + 1 = i /\ i - 1 \in 0 .. j /\ 0 \in 0 .. j - 1
            /\ c.hops + 1 < MaxHops /\ c.hops + 1 < j - (i - 1) /\ c.hops + 1 < j - 0
        BY <1>1, <2>3, <3>2
      <4>2. path[i - 1] \in Linked(n)
        BY <2>3, <4>1 DEF LeadsUp, Linked
      <4>3. goes
        BY <4>1, <4>2 DEF goes
      <4>4. CASE h.dest \in Linked(n)
        <5>1. down(h.dest) \in flying'
          BY <1>8, <4>3, <4>4 DEF below
        <5> QED
          BY <4>1, <5>1
      <4>5. CASE h.dest \notin Linked(n)
        <5>1. down(path[i - 1]) \in flying'
          BY <1>8, <4>2, <4>3, <4>5 DEF below
        <5> QED
          BY <4>1, <5>1
      <4> QED
        BY <4>4, <4>5
    <3> QED
      BY <3>1, <3>2
  <2>4. CASE \E d \in flying : \E i \in 0 .. j - 1 : d.id = p /\ d.to = path[i] /\ d.hops < j - i
    <3>1. PICK d \in flying, i \in 0 .. j - 1 : d.id = p /\ d.to = path[i] /\ d.hops < j - i
      BY <2>4
    <3>2. CASE d = c
      BY <2>3, <3>1, <3>2 DEF n
    <3>3. CASE d # c
      <4>1. d \in flying'
        BY <1>8, <3>3
      <4> QED
        BY <3>1, <4>1
    <3> QED
      BY <3>2, <3>3
  <2> QED
    BY <1>2, <1>14, <2>2, <2>4 DEF OnItsWayDown, h
<1> QED
  <2>1. header' = header /\ header[p].direction = "Downward" /\ lostCopies' = lostCopies
    BY <1>7 DEF p
  <2>2. Underway(p)'
    BY <1>13, <1>14, <2>1 DEF Underway, h
  <2> QED
    BY <2>2 DEF p

\* A packet that is sent starts its way in every direction it can take.
LEMMA OriginateStarts ==
    ASSUME RouterShape, UnsentIsNowhere,
           NEW p \in Packets, NEW n \in Routers, NEW d \in Directions,
           NEW dest \in Routers \cup {Anyone}, Originate(p, n, d, dest)
    PROVE  Underway(p)'
<1> DEFINE h == [source |-> n, direction |-> d, dest |-> dest]
           copy(m) == [id |-> p, from |-> n, to |-> m, hops |-> 0]
<1>1. /\ p \notin sent /\ header' = [header EXCEPT ![p] = h]
      /\ flying' = flying \cup {copy(m) : m \in next_hops(h, n)}
      /\ seen' = seen /\ forgotten' = forgotten /\ consumed' = consumed
  BY DEF Originate
<1>2. header'[p] = h /\ h.source = n /\ h.direction = d /\ h.dest = dest
  BY <1>1 DEF RouterShape
<1>3. /\ \A c \in flying : c.id # p
      /\ \A m \in Routers : ~Recorded(m, p)'
  BY <1>1 DEF UnsentIsNowhere, Recorded
<1>4. \A c \in flying' : c.id = p => \E m \in next_hops(h, n) : c = copy(m)
  BY <1>1, <1>3
<1>5. \A m \in next_hops(h, n) : copy(m) \in flying'
  BY <1>1
<1>6. MaxHops \in Nat /\ \A m : copy(m).id = p /\ copy(m).from = n /\ copy(m).to = m /\ copy(m).hops = 0
  BY RouterAssumption
<1>7. CASE d = "Upward"
  <2>1. next_hops(h, n) = {Parent[n]} \ {NoParent}
    BY <1>7 DEF next_hops
  <2> HIDE DEF h, copy
  <2>2. ClimbsAlone(p)'
    <3>1. \A c \in flying' : c.id = p => c = copy(Parent[n]) /\ Parent[n] # NoParent
      BY <1>4, <2>1
    <3>2. Parent[n] # NoParent => Level[n] < Level[Parent[n]]
      BY LevelFacts
    <3> QED
      BY <1>2, <1>3, <1>6, <3>1, <3>2 DEF ClimbsAlone
  <2>3. OnItsWayUp(p)'
    <3> SUFFICES ASSUME NEW j \in 1 .. MaxHops, NEW path \in [0 .. j -> Routers],
                        LeadsUp(path, j), path[0] = n
                 PROVE  \E c \in flying' : \E i \in 1 .. j :
                            c.id = p /\ c.to = path[i] /\ c.hops = i - 1
      BY <1>2 DEF OnItsWayUp, LeadsUp
    <3>1. 0 \in 0 .. j - 1 /\ 1 \in 1 .. j /\ 1 \in 0 .. j /\ 0 + 1 = 1 /\ 1 - 1 = 0
      BY <1>6
    <3>2. Parent[n] = path[1] /\ path[1] \in Routers
      BY <3>1 DEF LeadsUp
    <3>3. copy(path[1]) \in flying'
      BY <1>5, <2>1, <3>2, RouterAssumption
    <3> QED
      BY <1>6, <3>1, <3>3
  <2> QED
    BY <1>2, <1>7, <2>2, <2>3 DEF Underway
<1>8. CASE d = "Downward"
  <2>1. next_hops(h, n) = IF dest \in Linked(n) THEN {dest} ELSE Linked(n)
    BY <1>8 DEF next_hops
  <2> HIDE DEF h, copy
  <2>2. DescendsOnce(p)'
    <3>1. \A m \in next_hops(h, n) : m \in Routers /\ Parent[m] = n
      BY <2>1 DEF Linked
    <3> QED
      BY <1>2, <1>3, <1>4, <1>6, <3>1 DEF DescendsOnce
  <2>3. OnItsWayDown(p)'
    <3> SUFFICES ASSUME NEW j \in 1 .. MaxHops, NEW path \in [0 .. j -> Routers],
                        LeadsUp(path, j), path[0] = dest, path[j] = n
                 PROVE  \E c \in flying' : \E i \in 0 .. j - 1 :
                            c.id = p /\ c.to = path[i] /\ c.hops < j - i
      BY <1>2 DEF OnItsWayDown, LeadsUp
    <3>1. /\ j - 1 \in 0 .. j - 1 /\ (j - 1) + 1 = j /\ 0 \in 0 .. j - 1 /\ 0 < j - 0 /\ 0 < j - (j - 1)
          /\ j - 1 \in 0 .. j
      BY <1>6
    <3>2. path[j - 1] \in Linked(n)
      BY <3>1 DEF LeadsUp, Linked
    <3>3. CASE dest \in Linked(n)
      <4>1. copy(dest) \in flying'
        BY <1>5, <2>1, <3>3
      <4> QED
        BY <1>6, <3>1, <4>1
    <3>4. CASE dest \notin Linked(n)
      <4>1. copy(path[j - 1]) \in flying'
        BY <1>5, <2>1, <3>2, <3>4
      <4> QED
        BY <1>6, <3>1, <4>1
    <3> QED
      BY <3>3, <3>4
  <2> QED
    BY <1>2, <1>8, <2>2, <2>3 DEF Underway
<1>9. CASE d = "Lateral"
  BY <1>2, <1>9 DEF Underway
<1> QED
  BY <1>7, <1>8, <1>9 DEF Directions

\* A lost copy leaves the others where they are.
LEMMA LoseCopyKeeps ==
    ASSUME RouterShape, NEW c \in flying, LoseCopy(c), c.id \in sent, Underway(c.id)
    PROVE  Underway(c.id)'
<1> DEFINE p == c.id
<1>1. /\ flying' = flying \ {c} /\ lostCopies' = lostCopies \cup {p}
      /\ header' = header /\ seen' = seen /\ forgotten' = forgotten
  BY DEF LoseCopy
<1>2. \A m : Recorded(m, p)' <=> Recorded(m, p)
  BY <1>1 DEF Recorded
<1> HIDE DEF p
<1>3. ClimbsAlone(p) => ClimbsAlone(p)'
  BY <1>1, <1>2 DEF ClimbsAlone
<1>4. DescendsOnce(p) => DescendsOnce(p)'
  BY <1>1, <1>2 DEF DescendsOnce
<1>5. Underway(p)'
  BY <1>1, <1>3, <1>4 DEF Underway, p
<1> QED
  BY <1>5 DEF p

\* Every step keeps the types of the router's state.
LEMMA RouterShapeStep == RouterShape /\ [RouterNext]_routerVars => RouterShape'
<1> SUFFICES ASSUME RouterShape, [RouterNext]_routerVars PROVE RouterShape'
  OBVIOUS
<1> USE RouterAssumption
<1>0. \A h \in Headers, n \in Routers : next_hops(h, n) \subseteq Routers
  BY DEF next_hops, Linked, Headers
<1>1. ASSUME NEW p \in Packets, NEW n \in Routers, NEW d \in Directions,
             NEW dest \in Routers \cup {Anyone}, Originate(p, n, d, dest)
      PROVE  RouterShape'
  <2> DEFINE h == [source |-> n, direction |-> d, dest |-> dest]
  <2>1. h \in Headers /\ h.source = n
    BY DEF Headers
  <2>2. /\ sent' = sent \cup {p} /\ header' = [header EXCEPT ![p] = h]
        /\ flying' = flying \cup {[id |-> p, from |-> n, to |-> m, hops |-> 0] : m \in next_hops(h, n)}
        /\ UNCHANGED <<seen, stale, consumed, forgotten>>
    BY <1>1 DEF Originate
  <2> HIDE DEF h
  <2>3. flying' \subseteq Copies
    <3>1. 0 \in 0 .. MaxHops - 1
      OBVIOUS
    <3>2. next_hops(h, n) \subseteq Routers
      BY <1>0, <2>1
    <3> QED
      BY <2>2, <3>1, <3>2 DEF RouterShape, Copies
  <2>4. /\ sent' \subseteq Packets /\ header' \in [Packets -> Headers]
        /\ \A q \in sent' : header'[q].source \in Routers
    BY <2>1, <2>2 DEF RouterShape
  <2>5. CacheShape' /\ consumed' \in [Routers -> [Packets -> 0 .. 2]]
    BY <2>2 DEF RouterShape, CacheShape
  <2> QED
    BY <2>3, <2>4, <2>5 DEF RouterShape
<1>2. ASSUME NEW c \in flying, Route(c) PROVE RouterShape'
  <2>1. c \in Copies /\ CacheShape /\ c.id \in Packets /\ c.to \in Routers /\ c.hops \in Nat
    BY DEF RouterShape, Copies
  <2>2. CacheShape'
    BY <1>2, <2>1, RouteRecords
  <2>3. /\ sent' = sent /\ header' = header
        /\ consumed' \in {consumed, [consumed EXCEPT ![c.to][c.id] = @ + 1]}
        /\ consumed' # consumed => consumed[c.to][c.id] < 2
    BY <1>2 DEF Route
  <2>4. consumed' \in [Routers -> [Packets -> 0 .. 2]]
    BY <2>1, <2>3 DEF RouterShape
  <2>5. ASSUME NEW e \in flying' PROVE e \in Copies
    <3>1. \/ e \in flying
          \/ /\ c.hops + 1 < MaxHops
             /\ \E m \in next_hops(header[c.id], c.to) :
                   e = [id |-> c.id, from |-> c.to, to |-> m, hops |-> c.hops + 1]
      BY <1>2 DEF Route
    <3>2. next_hops(header[c.id], c.to) \subseteq Routers
      BY <1>0, <2>1 DEF RouterShape
    <3>3. c.hops + 1 < MaxHops => c.hops + 1 \in 0 .. MaxHops - 1
      BY <2>1
    <3> QED
      BY <2>1, <3>1, <3>2, <3>3 DEF Copies, RouterShape
  <2> QED
    BY <2>2, <2>3, <2>4, <2>5 DEF RouterShape
<1>3. ASSUME NEW c \in flying, LoseCopy(c) PROVE RouterShape'
  BY <1>3 DEF LoseCopy, RouterShape, CacheShape
<1>4. ASSUME NEW n \in Routers, EntryExpires(n) \/ ClearDedupCache(n) PROVE RouterShape'
  <2>1. CacheShape'
    BY <1>4, UpsetRecords DEF RouterShape
  <2>2. UNCHANGED <<sent, header, flying, consumed>>
    BY <1>4 DEF EntryExpires, ClearDedupCache
  <2> QED
    BY <2>1, <2>2 DEF RouterShape
<1>5. CASE UNCHANGED routerVars
  BY <1>5 DEF routerVars, RouterShape, CacheShape
<1> QED
  BY <1>1, <1>2, <1>3, <1>4, <1>5 DEF RouterNext

\* Nothing has been sent yet.
LEMMA RouterInvInit == RouterInit => RouterInv
<1> SUFFICES ASSUME RouterInit PROVE RouterInv
  OBVIOUS
<1> USE DEF RouterInit
<1>1. RouterShape
  BY DEF RouterShape, CacheShape, NoHeader, Headers, Directions
<1>2. ConsumedIsKept /\ ConsumedOnce
  BY DEF ConsumedIsKept, ConsumedOnce
<1>3. UnsentIsNowhere
  <2>1. Range(<<>>) = {}
    BY DEF Range
  <2> QED
    BY <2>1 DEF UnsentIsNowhere, Recorded
<1> QED
  BY <1>1, <1>2, <1>3 DEF RouterInv

\* Each step of a router, of the caches and of the network keeps the invariant.
LEMMA RouterInvStep == RouterInv /\ [RouterNext]_routerVars => RouterInv'
<1> SUFFICES ASSUME RouterInv, [RouterNext]_routerVars PROVE RouterInv'
  OBVIOUS
<1>0. RouterShape' /\ RouterShape
  BY RouterShapeStep DEF RouterInv
<1>1. ASSUME NEW p \in Packets, NEW n \in Routers, NEW d \in Directions,
             NEW dest \in Routers \cup {Anyone}, Originate(p, n, d, dest)
      PROVE  RouterInv'
  <2> DEFINE h == [source |-> n, direction |-> d, dest |-> dest]
  <2>1. /\ sent' = sent \cup {p} /\ header' = [header EXCEPT ![p] = h]
        /\ flying' = flying \cup {[id |-> p, from |-> n, to |-> m, hops |-> 0] : m \in next_hops(h, n)}
        /\ UNCHANGED <<seen, stale, consumed, forgotten, lostCopies>> /\ p \notin sent
    BY <1>1 DEF Originate
  <2>2. \A m, q : /\ Recorded(m, q)' <=> Recorded(m, q)
                  /\ KeptOrForgotten(m, q)' <=> KeptOrForgotten(m, q)
    BY <2>1 DEF Recorded, KeptOrForgotten, IsDuplicate, Live
  <2> HIDE DEF h
  <2>3. ConsumedIsKept' /\ ConsumedOnce'
    BY <2>1, <2>2 DEF RouterInv, ConsumedIsKept, ConsumedOnce
  <2>4. \A c : c.id # p => (c \in flying' <=> c \in flying)
    BY <2>1
  <2>5. UnsentIsNowhere'
    <3> SUFFICES ASSUME NEW q \in Packets \ sent'
                 PROVE  (\A c \in flying' : c.id # q) /\ \A m \in Routers : ~Recorded(m, q)'
      BY DEF UnsentIsNowhere
    <3>1. q \notin sent /\ q # p
      BY <2>1
    <3> QED
      BY <2>2, <2>4, <3>1 DEF RouterInv, UnsentIsNowhere
  <2>6. ASSUME NEW q \in sent' PROVE Underway(q)'
    <3>1. CASE q = p
      BY <1>0, <1>1, <3>1, OriginateStarts DEF RouterInv
    <3>2. CASE q # p
      <4>1. /\ q \in sent /\ q \in Packets /\ Underway(q) /\ header'[q] = header[q]
            /\ header[q].source \in Routers
        BY <1>0, <2>1, <3>2 DEF RouterInv, RouterShape
      <4>2. \A c : c.id = q => (c \in flying' <=> c \in flying)
        BY <2>4, <3>2
      <4>3. flying \subseteq Copies /\ flying' \subseteq Copies
        BY <1>0 DEF RouterShape
      <4> QED
        BY <2>1, <2>2, <4>1, <4>2, <4>3, UnderwayFrame
    <3> QED
      BY <3>1, <3>2
  <2> QED
    BY <1>0, <2>3, <2>5, <2>6 DEF RouterInv
<1>2. ASSUME NEW c \in flying, Route(c) PROVE RouterInv'
  <2> DEFINE p == c.id
             n == c.to
  <2>1. /\ c \in Copies /\ CacheShape /\ p \in Packets /\ n \in Routers /\ p \in sent
        /\ flying \subseteq Copies /\ flying' \subseteq Copies
    BY <1>0 DEF RouterInv, RouterShape, Copies, UnsentIsNowhere
  <2>2. /\ \A m \in Routers, q \in Packets :
              /\ Recorded(m, q)' <=> Recorded(m, q) \/ (m = n /\ q = p)
              /\ KeptOrForgotten(m, q) => KeptOrForgotten(m, q)'
              /\ q \in forgotten[m] => q \in forgotten'[m]
        /\ IsDuplicate(n, p)'
    BY <1>2, <2>1, RouteRecords
  <2>3. /\ sent' = sent /\ header' = header /\ lostCopies' = lostCopies
        /\ \/ consumed' = consumed
           \/ /\ consumed' = [consumed EXCEPT ![n][p] = @ + 1]
              /\ ~IsDuplicate(n, p)
        /\ \A e : e \in flying' /\ e \notin flying => e.id = p
        /\ \A e : e \in flying /\ e \notin flying' => e = c
    <3>1. sent' = sent /\ header' = header /\ lostCopies' = lostCopies
      BY <1>2 DEF Route
    <3>2. \/ consumed' = consumed
          \/ /\ consumed' = [consumed EXCEPT ![n][p] = @ + 1]
             /\ ~IsDuplicate(n, p)
      <4>1. consumed' = IF /\ ~(IsDuplicate(n, p) \/ c.hops >= MaxHops \/ header[p].source = n)
                           /\ should_consume(header[p], n) /\ consumed[n][p] < 2
                        THEN [consumed EXCEPT ![n][p] = @ + 1] ELSE consumed
        BY <1>2, Zenon DEF Route
      <4> QED
        BY <4>1, Zenon
    <3>3. /\ \A e : e \in flying' /\ e \notin flying => e.id = p
          /\ \A e : e \in flying /\ e \notin flying' => e = c
      <4> DEFINE on == /\ ~(IsDuplicate(n, p) \/ c.hops >= MaxHops \/ header[p].source = n)
                       /\ should_forward(header[p], n) /\ c.hops + 1 < MaxHops
                 copies == {[id |-> p, from |-> n, to |-> m, hops |-> c.hops + 1] : m \in next_hops(header[p], n)}
      <4>1. flying' = (flying \ {c}) \cup (IF on THEN copies ELSE {})
        BY <1>2, Zenon DEF Route
      <4>2. \A e \in copies : e.id = p
        OBVIOUS
      <4> HIDE DEF on, copies
      <4> QED
        BY <4>1, <4>2
    <3> QED
      BY <3>1, <3>2, <3>3
  <2> HIDE DEF p, n
  <2>4. \A m \in Routers, q \in Packets : (m # n \/ q # p) => consumed'[m][q] = consumed[m][q]
    BY <1>0, <2>1, <2>3 DEF RouterShape
  <2>5. ConsumedIsKept'
    <3> SUFFICES ASSUME NEW m \in Routers, NEW q \in Packets, consumed'[m][q] > 0
                 PROVE  KeptOrForgotten(m, q)'
      BY DEF ConsumedIsKept
    <3>1. CASE m = n /\ q = p
      BY <2>2, <3>1 DEF KeptOrForgotten
    <3>2. CASE m # n \/ q # p
      BY <2>2, <2>4, <3>2 DEF RouterInv, ConsumedIsKept
    <3> QED
      BY <3>1, <3>2
  <2>6. ConsumedOnce'
    <3> SUFFICES ASSUME NEW m \in Routers, NEW q \in Packets, consumed'[m][q] = 2
                 PROVE  q \in forgotten'[m]
      BY DEF ConsumedOnce
    <3>1. CASE consumed[m][q] = 2
      BY <2>2, <3>1 DEF RouterInv, ConsumedOnce
    <3>2. CASE consumed[m][q] # 2
      <4>1. m = n /\ q = p /\ consumed' # consumed
        BY <2>4, <3>2
      <4>2. consumed' = [consumed EXCEPT ![n][p] = @ + 1] /\ ~IsDuplicate(n, p)
        BY <2>3, <4>1
      <4>3. consumed[n][p] > 0
        BY <1>0, <2>1, <4>1, <4>2 DEF RouterShape
      <4>4. p \in forgotten[n]
        BY <2>1, <4>2, <4>3 DEF RouterInv, ConsumedIsKept, KeptOrForgotten
      <4> QED
        BY <2>2, <4>1, <4>4
    <3> QED
      BY <3>1, <3>2
  <2>7. UnsentIsNowhere'
    <3> SUFFICES ASSUME NEW q \in Packets \ sent'
                 PROVE  (\A e \in flying' : e.id # q) /\ \A m \in Routers : ~Recorded(m, q)'
      BY DEF UnsentIsNowhere
    <3>1. q \notin sent /\ q # p
      BY <2>1, <2>3
    <3> QED
      BY <2>2, <2>3, <3>1 DEF RouterInv, UnsentIsNowhere
  <2>8. ASSUME NEW q \in sent' PROVE Underway(q)'
    <3>1. CASE q = p
      <4>1. CASE header[p].direction = "Upward"
        BY <1>0, <1>2, <2>1, <3>1, <4>1, RouteUp DEF RouterInv, p
      <4>2. CASE header[p].direction = "Downward"
        BY <1>0, <1>2, <2>1, <3>1, <4>2, RouteDown DEF RouterInv, p
      <4>3. CASE header[p].direction \notin {"Upward", "Downward"}
        BY <2>3, <3>1, <4>3 DEF Underway
      <4> QED
        BY <4>1, <4>2, <4>3
    <3>2. CASE q # p
      <4>1. q \in Packets /\ Underway(q) /\ header'[q] = header[q] /\ header[q].source \in Routers
        BY <1>0, <2>3 DEF RouterInv, RouterShape
      <4>2. \A e : e.id = q => (e \in flying' <=> e \in flying)
        BY <2>3, <3>2 DEF p
      <4>3. \A m \in Routers : (Recorded(m, q)' <=> Recorded(m, q)) /\ consumed'[m][q] = consumed[m][q]
        BY <2>2, <2>4, <3>2, <4>1
      <4> QED
        BY <2>1, <2>3, <4>1, <4>2, <4>3, UnderwayFrame
    <3> QED
      BY <3>1, <3>2
  <2> QED
    BY <1>0, <2>5, <2>6, <2>7, <2>8 DEF RouterInv
<1>3. ASSUME NEW c \in flying, LoseCopy(c) PROVE RouterInv'
  <2>1. /\ flying' = flying \ {c} /\ lostCopies' = lostCopies \cup {c.id}
        /\ UNCHANGED <<sent, header, seen, stale, consumed, forgotten>>
    BY <1>3 DEF LoseCopy
  <2>2. \A m, q : /\ Recorded(m, q)' <=> Recorded(m, q)
                  /\ KeptOrForgotten(m, q)' <=> KeptOrForgotten(m, q)
    BY <2>1 DEF Recorded, KeptOrForgotten, IsDuplicate, Live
  <2>3. ConsumedIsKept' /\ ConsumedOnce' /\ UnsentIsNowhere'
    BY <2>1, <2>2 DEF RouterInv, ConsumedIsKept, ConsumedOnce, UnsentIsNowhere
  <2>4. ASSUME NEW q \in sent' PROVE Underway(q)'
    <3>1. q \in sent /\ q \in Packets /\ Underway(q) /\ header[q].source \in Routers
      BY <1>0, <2>1 DEF RouterInv, RouterShape
    <3>2. CASE q = c.id
      BY <1>0, <1>3, <3>1, <3>2, LoseCopyKeeps
    <3>3. CASE q # c.id
      <4>1. \A e : e.id = q => (e \in flying' <=> e \in flying)
        BY <2>1, <3>3
      <4>2. flying \subseteq Copies /\ flying' \subseteq Copies
        BY <1>0 DEF RouterShape
      <4> QED
        BY <2>1, <2>2, <3>1, <4>1, <4>2, UnderwayFrame
    <3> QED
      BY <3>2, <3>3
  <2> QED
    BY <1>0, <2>3, <2>4 DEF RouterInv
<1>4. ASSUME NEW n \in Routers, EntryExpires(n) \/ ClearDedupCache(n) PROVE RouterInv'
  <2>1. UNCHANGED <<sent, header, flying, consumed, lostCopies>>
    BY <1>4 DEF EntryExpires, ClearDedupCache
  <2>2. \A m \in Routers, q \in Packets :
              /\ Recorded(m, q)' <=> Recorded(m, q)
              /\ KeptOrForgotten(m, q) => KeptOrForgotten(m, q)'
              /\ q \in forgotten[m] => q \in forgotten'[m]
    BY <1>0, <1>4, UpsetRecords DEF RouterShape
  <2>3. ConsumedIsKept' /\ ConsumedOnce' /\ UnsentIsNowhere'
    BY <2>1, <2>2 DEF RouterInv, ConsumedIsKept, ConsumedOnce, UnsentIsNowhere
  <2>4. ASSUME NEW q \in sent' PROVE Underway(q)'
    <3>1. q \in sent /\ q \in Packets /\ Underway(q) /\ header[q].source \in Routers
      BY <1>0, <2>1 DEF RouterInv, RouterShape
    <3>2. flying \subseteq Copies /\ flying' \subseteq Copies
      BY <1>0 DEF RouterShape
    <3> QED
      BY <2>1, <2>2, <3>1, <3>2, UnderwayFrame
  <2> QED
    BY <1>0, <2>3, <2>4 DEF RouterInv
<1>5. CASE UNCHANGED routerVars
  <2>1. UNCHANGED <<sent, header, flying, seen, stale, consumed, forgotten, lostCopies>>
    BY <1>5 DEF routerVars
  <2>2. \A m, q : /\ Recorded(m, q)' <=> Recorded(m, q)
                  /\ KeptOrForgotten(m, q)' <=> KeptOrForgotten(m, q)
    BY <2>1 DEF Recorded, KeptOrForgotten, IsDuplicate, Live
  <2>3. ConsumedIsKept' /\ ConsumedOnce' /\ UnsentIsNowhere'
    BY <2>1, <2>2 DEF RouterInv, ConsumedIsKept, ConsumedOnce, UnsentIsNowhere
  <2>4. ASSUME NEW q \in sent' PROVE Underway(q)'
    <3>1. q \in sent /\ q \in Packets /\ Underway(q) /\ header[q].source \in Routers
      BY <1>0, <2>1 DEF RouterInv, RouterShape
    <3>2. flying \subseteq Copies /\ flying' \subseteq Copies
      BY <1>0 DEF RouterShape
    <3> QED
      BY <2>1, <2>2, <3>1, <3>2, UnderwayFrame
  <2> QED
    BY <1>0, <2>3, <2>4 DEF RouterInv
<1> QED
  BY <1>1, <1>2, <1>3, <1>4, <1>5 DEF RouterNext

\* The invariant holds throughout.
LEMMA RouterInvariant == RouterSpec => []RouterInv
<1> QED
  BY RouterInvInit, RouterInvStep, PTL DEF RouterSpec

\* No router lets a node consume a packet twice unless it has forgotten it,
\* whatever the topology beside the hierarchy and the size of the caches.
THEOREM ConsumedOnceUnlessForgotten == RouterSpec => []ConsumedOnce
<1>1. RouterInv => ConsumedOnce
  BY DEF RouterInv
<1> QED
  BY <1>1, RouterInvariant, PTL

\* Of a packet of which no copy was lost and none is in flight, every node above
\* the source within the hop limit has consumed the telemetry and the destination
\* below the source the command, in every hierarchy.
THEOREM QuietPacketsAreDelivered == RouterSpec => []QuietMeansDelivered
<1>1. RouterInv => QuietMeansDelivered
  <2> SUFFICES ASSUME RouterInv, NEW p \in sent \ lostCopies, \A c \in flying : c.id # p
               PROVE  /\ header[p].direction = "Upward" =>
                            \A n \in Above(header[p].source, MaxHops) : consumed[n][p] > 0
                      /\ header[p].direction = "Downward" /\ header[p].dest # Anyone =>
                            (header[p].source \in Above(header[p].dest, MaxHops)
                                => consumed[header[p].dest][p] > 0)
    BY DEF QuietMeansDelivered
  <2>1. Underway(p)
    BY DEF RouterInv
  <2>2. ASSUME header[p].direction = "Upward", NEW n \in Above(header[p].source, MaxHops)
        PROVE  consumed[n][p] > 0
    <3>1. PICK j \in 1 .. MaxHops : \E path \in [0 .. j -> Routers] :
             path[0] = header[p].source /\ path[j] = n /\ \A i \in 0 .. j - 1 : Parent[path[i]] = path[i + 1]
      BY <2>2 DEF Above
    <3>2. PICK path \in [0 .. j -> Routers] :
             path[0] = header[p].source /\ path[j] = n /\ \A i \in 0 .. j - 1 : Parent[path[i]] = path[i + 1]
      BY <3>1
    <3>3. LeadsUp(path, j)
      BY <3>2 DEF LeadsUp
    <3> QED
      BY <2>1, <2>2, <3>2, <3>3 DEF Underway, OnItsWayUp
  <2>3. ASSUME header[p].direction = "Downward", header[p].dest # Anyone,
               header[p].source \in Above(header[p].dest, MaxHops)
        PROVE  consumed[header[p].dest][p] > 0
    <3>1. PICK j \in 1 .. MaxHops : \E path \in [0 .. j -> Routers] :
             /\ path[0] = header[p].dest /\ path[j] = header[p].source
             /\ \A i \in 0 .. j - 1 : Parent[path[i]] = path[i + 1]
      BY <2>3 DEF Above
    <3>2. PICK path \in [0 .. j -> Routers] :
             /\ path[0] = header[p].dest /\ path[j] = header[p].source
             /\ \A i \in 0 .. j - 1 : Parent[path[i]] = path[i + 1]
      BY <3>1
    <3>3. LeadsUp(path, j)
      BY <3>2 DEF LeadsUp
    <3> QED
      BY <2>1, <2>3, <3>2, <3>3 DEF Underway, OnItsWayDown
  <2> QED
    BY <2>2, <2>3
<1> QED
  BY <1>1, RouterInvariant, PTL

\* is_duplicate makes room for the packet it records.
LEMMA RememberBounded ==
    ASSUME NEW n, NEW p \in Packets, seen[n] \in Seq(Packets), stale[n] \in Nat,
           stale[n] <= Len(seen[n]), Len(seen[n]) <= MaxEntries
    PROVE  Len(Remember(n, p)) <= MaxEntries
<1> DEFINE l == Live(n)
           room == IF ~Full(n) THEN seen[n] ELSE IF Len(l) < MaxEntries THEN l ELSE Tail(l)
           w == Without(room, p)
<1>1. l \in Seq(Packets) /\ Len(l) = Len(seen[n]) - stale[n]
  BY SuffixFacts DEF Live
<1>2. room \in Seq(Packets) /\ Len(room) < MaxEntries
  <2> USE RouterAssumption
  <2>1. CASE ~Full(n)
    BY <2>1 DEF Full
  <2>2. CASE Full(n) /\ Len(l) < MaxEntries
    BY <1>1, <2>2
  <2>3. CASE Full(n) /\ ~(Len(l) < MaxEntries)
    <3>1. room = Tail(l)
      BY <2>3
    <3>2. Len(l) <= MaxEntries /\ Len(l) \in Nat /\ l # << >>
      BY <1>1, <2>3
    <3> HIDE DEF l, room
    <3>3. Tail(l) \in Seq(Packets) /\ Len(Tail(l)) = Len(l) - 1
      BY <1>1, <3>2, HeadTailProperties
    <3> QED
      BY <3>1, <3>2, <3>3
  <2> QED
    BY <2>1, <2>2, <2>3
<1> HIDE DEF room, l
<1>3. w \in Seq(Packets) /\ Len(w) <= Len(room)
  <2>1. CASE p \notin Range(room)
    BY <1>2, <2>1 DEF Without
  <2>2. CASE p \in Range(room)
    <3> DEFINE e == CHOOSE i \in DOMAIN room : room[i] = p
    <3>1. e \in 1 .. Len(room)
      BY <1>2, <2>2, RangeEquality
    <3>2. w = WithoutAt(room, e)
      BY <2>2 DEF Without
    <3> HIDE DEF e, w
    <3> QED
      BY <1>2, <3>1, <3>2, RemoveFacts
  <2> QED
    BY <2>1, <2>2
<1>4. Remember(n, p) = Append(w, p)
  BY DEF Remember, room, l
<1> HIDE DEF w
<1>5. Len(Append(w, p)) = Len(w) + 1 /\ Len(w) \in Nat /\ Len(room) \in Nat
  BY <1>2, <1>3, AppendProperties
<1> QED
  BY <1>2, <1>3, <1>4, <1>5, RouterAssumption

\* The cache of a router never holds more than max_entries, stale ones included.
THEOREM CachesKeepTheirSize == RouterSpec => []RouterTypeOK
<1> DEFINE Bounded == \A n \in Routers : Len(seen[n]) <= MaxEntries
<1>1. RouterInit => Bounded
  <2>1. Len(<< >>) <= MaxEntries
    BY RouterAssumption, EmptySeq
  <2> QED
    BY <2>1 DEF RouterInit
<1>2. RouterInv /\ Bounded /\ [RouterNext]_routerVars => Bounded'
  <2> SUFFICES ASSUME RouterInv, Bounded, [RouterNext]_routerVars, NEW m \in Routers
               PROVE  Len(seen'[m]) <= MaxEntries
    OBVIOUS
  <2>0. CacheShape /\ flying \subseteq Copies
    BY DEF RouterInv, RouterShape
  <2>1. ASSUME NEW p \in Packets, NEW n \in Routers, NEW d \in Directions,
               NEW dest \in Routers \cup {Anyone}, Originate(p, n, d, dest)
        PROVE  Len(seen'[m]) <= MaxEntries
    BY <2>1 DEF Originate
  <2>2. ASSUME NEW c \in flying, Route(c) PROVE Len(seen'[m]) <= MaxEntries
    <3>1. c.id \in Packets /\ c.to \in Routers
      BY <2>0 DEF Copies
    <3>2. seen' = [seen EXCEPT ![c.to] = IF IsDuplicate(c.to, c.id) THEN seen[c.to] ELSE Remember(c.to, c.id)]
      BY <2>2 DEF Route
    <3>3. Len(Remember(c.to, c.id)) <= MaxEntries
      BY <2>0, <3>1, RememberBounded DEF CacheShape
    <3> QED
      BY <2>0, <3>1, <3>2, <3>3 DEF CacheShape
  <2>3. ASSUME NEW c \in flying, LoseCopy(c) PROVE Len(seen'[m]) <= MaxEntries
    BY <2>3 DEF LoseCopy
  <2>4. ASSUME NEW n \in Routers, EntryExpires(n) PROVE Len(seen'[m]) <= MaxEntries
    BY <2>4 DEF EntryExpires
  <2>5. ASSUME NEW n \in Routers, ClearDedupCache(n) PROVE Len(seen'[m]) <= MaxEntries
    <3>1. Len(<< >>) <= MaxEntries
      BY RouterAssumption, EmptySeq
    <3>2. seen' = [seen EXCEPT ![n] = << >>]
      BY <2>5 DEF ClearDedupCache
    <3> QED
      BY <2>0, <3>1, <3>2 DEF CacheShape
  <2>6. CASE UNCHANGED routerVars
    BY <2>6 DEF routerVars
  <2> QED
    BY <2>1, <2>2, <2>3, <2>4, <2>5, <2>6 DEF RouterNext
<1>3. RouterInv /\ Bounded => RouterTypeOK
  <2> SUFFICES ASSUME RouterInv, Bounded PROVE RouterTypeOK
    OBVIOUS
  <2>1. sent \subseteq Packets /\ flying \subseteq Copies /\ CacheShape
        /\ consumed \in [Routers -> [Packets -> 0 .. 2]]
    BY DEF RouterInv, RouterShape
  <2>2. \A n \in Routers : Len(seen[n]) <= MaxEntries /\ stale[n] \in 0 .. Len(seen[n])
    BY <2>1 DEF CacheShape
  <2> QED
    BY <2>1, <2>2 DEF RouterTypeOK, Copies
<1> QED
  BY <1>1, <1>2, <1>3, RouterInvariant, PTL DEF RouterSpec
=============================================================================
