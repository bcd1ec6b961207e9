--------------------------- MODULE SelectiveRouter ---------------------------
(***************************************************************************)
(* The routers of the nodes of a hierarchy (routing/router.rs) and the     *)
(* packets they pass on to each other (routing/packet.rs): the consume and *)
(* forward rules of the three directions, the hop limit, and the           *)
(* deduplication cache, whose entries expire and are evicted.  The         *)
(* topology stands still.                                                  *)
(***************************************************************************)
EXTENDS Naturals, Sequences, Functions

CONSTANTS
    Routers,      \* the nodes
    Parent,       \* [Routers -> Routers \cup {NoParent}]: selected_peer
    NoParent,
    Side,         \* [Routers -> SUBSET Routers]: lateral_peers
    Leaders,      \* SUBSET Routers: the nodes with role Leader
    Packets,      \* packet ids
    Anyone,       \* no destination
    MaxHops,      \* max_hops
    MaxEntries,   \* max_entries of the deduplication cache
    MaxRouterUpsets   \* bound on expiries, cleared caches and lost copies, together

ASSUME RouterAssumption ==
    /\ Parent \in [Routers -> Routers \cup {NoParent}]
    /\ Side \in [Routers -> SUBSET Routers]
    /\ NoParent \notin Routers /\ Anyone \notin Routers
    /\ MaxHops \in Nat \ {0} /\ MaxEntries \in Nat \ {0}
    /\ MaxRouterUpsets \in Nat

HierarchyLevel == 0 .. 3   \* Platform, Squad, Platoon, Company

\* The peer a node selects is of a higher level than its own (PeerSelector).
ASSUME LevelAssumption ==
    \E level \in [Routers -> HierarchyLevel] :
        \A n \in Routers : Parent[n] # NoParent => level[n] < level[Parent[n]]

Directions == {"Upward", "Downward", "Lateral"}

VARIABLES
    sent,       \* SUBSET Packets
    header,     \* [Packets -> [source, direction, dest]] of the packets sent
    flying,     \* SUBSET [id, from, to, hops]: the copies in flight
    seen,       \* [Routers -> Seq(Packets)]: seen_packets, the oldest first
    stale,      \* [Routers -> Nat]: how many of the oldest are past their ttl
    consumed,   \* [Routers -> [Packets -> 0 .. 2]]: times consumed, saturating
    forgotten,  \* [Routers -> SUBSET Packets]: history, an entry expired or was removed
    lostCopies, \* SUBSET Packets: history, the transport lost a copy
    routerUpsets   \* 0 .. MaxRouterUpsets

routerVars == <<sent, header, flying, seen, stale, consumed, forgotten, lostCopies, routerUpsets>>

Linked(n) == {m \in Routers : Parent[m] = n}

NoHeader == [source |-> NoParent, direction |-> "Upward", dest |-> Anyone]

RouterInit ==
    /\ sent = {}
    /\ header = [p \in Packets |-> NoHeader]
    /\ flying = {}
    /\ seen = [n \in Routers |-> <<>>]
    /\ stale = [n \in Routers |-> 0]
    /\ consumed = [n \in Routers |-> [p \in Packets |-> 0]]
    /\ forgotten = [n \in Routers |-> {}]
    /\ lostCopies = {}
    /\ routerUpsets = 0

-----------------------------------------------------------------------------
\* The rules, for a packet with header h at node n.

should_consume(h, n) ==
    \/ h.direction = "Upward"
    \/ h.direction = "Downward" /\ (h.dest = n \/ n \in Leaders)
    \/ h.direction = "Lateral" /\ (h.dest = n \/ (h.dest = Anyone /\ n \in Leaders))

should_forward(h, n) ==
    \/ h.direction = "Upward" /\ Parent[n] # NoParent
    \/ h.direction = "Downward" /\ Linked(n) # {}
    \/ /\ h.direction = "Lateral"
       /\ h.dest \in Side[n] \/ (h.dest = Anyone /\ n \in Leaders /\ Side[n] # {})

\* A mutation of next_hops: what is addressed to somebody else goes nowhere.
next_hopsKnown(h, n) ==
    LET known == IF h.direction = "Downward" THEN Linked(n) ELSE Side[n]
    IN  IF h.direction = "Upward" THEN {Parent[n]} \ {NoParent}
        ELSE IF h.dest = Anyone THEN known ELSE {h.dest} \cap known

next_hops(h, n) ==
    LET known == IF h.direction = "Downward" THEN Linked(n) ELSE Side[n]
    IN  IF h.direction = "Upward" THEN {Parent[n]} \ {NoParent}
        ELSE IF h.dest \in known THEN {h.dest} ELSE known

-----------------------------------------------------------------------------
\* A node sends a packet of its own.
Originate(p, n, d, dest) ==
    LET h == [source |-> n, direction |-> d, dest |-> dest]
    IN  /\ p \notin sent
        /\ d = "Upward" => dest = Anyone
        /\ sent' = sent \cup {p}
        /\ header' = [header EXCEPT ![p] = h]
        /\ flying' = flying \cup
              {[id |-> p, from |-> n, to |-> m, hops |-> 0] : m \in next_hops(h, n)}
        /\ UNCHANGED <<seen, stale, consumed, forgotten, lostCopies, routerUpsets>>

\* The entries of the cache that are not past their ttl.
Live(n) == SubSeq(seen[n], stale[n] + 1, Len(seen[n]))

IsDuplicate(n, p) == p \in Range(Live(n))

\* A mutation of Remember: a full cache takes no entry.
RememberIfRoom(n, p) == IF Len(seen[n]) >= MaxEntries THEN seen[n] ELSE Append(seen[n], p)

Full(n) == Len(seen[n]) >= MaxEntries

\* An entry that is replaced is out of its place.
WithoutAt(s, i) == SubSeq(s, 1, i - 1) \o SubSeq(s, i + 1, Len(s))
Without(s, p) ==
    IF p \in Range(s) THEN WithoutAt(s, CHOOSE i \in DOMAIN s : s[i] = p) ELSE s

\* is_duplicate, for a packet that is none: make room, then insert it.
Remember(n, p) ==
    LET room == IF ~Full(n) THEN seen[n]
                ELSE IF Len(Live(n)) < MaxEntries THEN Live(n) ELSE Tail(Live(n))
    IN  Append(Without(room, p), p)

\* Making room takes every stale entry away, else at most the one replaced.
StaleAfter(n, p) ==
    IF Full(n) THEN 0 ELSE IF p \in Range(seen[n]) THEN stale[n] - 1 ELSE stale[n]

\* route and, unless the packet is dropped, the consumer and the transport: a
\* packet is recorded as seen before its hops and its source are looked at.
Route(c) ==
    LET p == c.id
        n == c.to
        h == header[p]
        dropped == IsDuplicate(n, p) \/ c.hops >= MaxHops \/ h.source = n
        cache == IF IsDuplicate(n, p) THEN seen[n] ELSE Remember(n, p)
        hops == c.hops + 1
    IN  /\ c \in flying
        /\ seen' = [seen EXCEPT ![n] = cache]
        /\ stale' = [stale EXCEPT ![n] = IF IsDuplicate(n, p) THEN @ ELSE StaleAfter(n, p)]
        /\ forgotten' = [forgotten EXCEPT ![n] = @ \cup (Range(seen[n]) \ Range(cache))]
        /\ consumed' = IF ~dropped /\ should_consume(h, n) /\ consumed[n][p] < 2
                       THEN [consumed EXCEPT ![n][p] = @ + 1] ELSE consumed
        /\ flying' = (flying \ {c}) \cup
              (IF ~dropped /\ should_forward(h, n) /\ hops < MaxHops
               THEN {[id |-> p, from |-> n, to |-> m, hops |-> hops] : m \in next_hops(h, n)}
               ELSE {})
        /\ UNCHANGED <<sent, header, lostCopies, routerUpsets>>

Upset == routerUpsets < MaxRouterUpsets /\ routerUpsets' = routerUpsets + 1

\* The ttl of an entry passes; the oldest entry is the first.
EntryExpires(n) ==
    /\ Upset
    /\ stale[n] < Len(seen[n])
    /\ stale' = [stale EXCEPT ![n] = @ + 1]
    /\ forgotten' = [forgotten EXCEPT ![n] = @ \cup {seen[n][stale[n] + 1]}]
    /\ UNCHANGED <<sent, header, flying, seen, consumed, lostCopies>>

ClearDedupCache(n) ==
    /\ Upset
    /\ seen[n] # <<>>
    /\ seen' = [seen EXCEPT ![n] = <<>>]
    /\ stale' = [stale EXCEPT ![n] = 0]
    /\ forgotten' = [forgotten EXCEPT ![n] = @ \cup Range(seen[n])]
    /\ UNCHANGED <<sent, header, flying, consumed, lostCopies>>

LoseCopy(c) ==
    /\ Upset
    /\ c \in flying
    /\ flying' = flying \ {c}
    /\ lostCopies' = lostCopies \cup {c.id}
    /\ UNCHANGED <<sent, header, seen, stale, consumed, forgotten>>

RouterNext ==
    \/ \E p \in Packets, n \in Routers, d \in Directions, dest \in Routers \cup {Anyone} :
          Originate(p, n, d, dest)
    \/ \E c \in flying : Route(c) \/ LoseCopy(c)
    \/ \E n \in Routers : EntryExpires(n) \/ ClearDedupCache(n)

RouterSpec == RouterInit /\ [][RouterNext]_routerVars

-----------------------------------------------------------------------------
RouterTypeOK ==
    /\ sent \subseteq Packets
    /\ flying \subseteq [id : Packets, from : Routers, to : Routers, hops : 0 .. MaxHops - 1]
    /\ \A n \in Routers : Len(seen[n]) <= MaxEntries /\ stale[n] \in 0 .. Len(seen[n])
    /\ consumed \in [Routers -> [Packets -> 0 .. 2]]

\* No node consumes a packet twice as long as its router has not forgotten it,
\* although a broadcast comes back along every lateral link and the cache makes
\* room by expiry and by age (is_duplicate).
ConsumedOnce ==
    \A n \in Routers, p \in Packets : consumed[n][p] = 2 => p \in forgotten[n]

\* The nodes above n, at most k steps up.
Above(n, k) ==
    {m \in Routers :
        \E j \in 1 .. k : \E path \in [0 .. j -> Routers] :
            path[0] = n /\ path[j] = m /\ \A i \in 0 .. j - 1 : Parent[path[i]] = path[i + 1]}

\* When nothing of a packet is in flight any more and no copy was lost, it has
\* been consumed where it had to be: telemetry by every node above its source
\* within the hop limit, a command by its destination below its source, however
\* the caches forgot what they had seen on the way (route, next_hops).
QuietMeansDelivered ==
    \A p \in sent \ lostCopies :
        (\A c \in flying : c.id # p) =>
            LET h == header[p]
            IN  /\ h.direction = "Upward" =>
                      \A n \in Above(h.source, MaxHops) : consumed[n][p] > 0
                /\ h.direction = "Downward" /\ h.dest # Anyone =>
                      (h.source \in Above(h.dest, MaxHops) => consumed[h.dest][p] > 0)
=============================================================================
