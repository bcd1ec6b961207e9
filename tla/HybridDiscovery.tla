--------------------------- MODULE HybridDiscovery ---------------------------
(***************************************************************************)
(* The merge of several discovery strategies into one view of the peers.   *)
(* Each strategy sends its events through a channel of its own to a task   *)
(* of its own.  The tasks share the combined map: each takes its lock,     *)
(* changes the map, drops the lock and only then forwards what it did, so  *)
(* the events of two tasks may be forwarded in the other order.            *)
(*                                                                         *)
(* The strategies are external.  The channel to the consumer keeps order,  *)
(* so the consumer is modelled by what the events forwarded so far say.    *)
(***************************************************************************)
EXTENDS Naturals, Sequences

CONSTANTS
    Strategies,    \* names of the strategies added
    Sighted,       \* peers they may see
    NoneInHand,    \* a task with nothing to forward
    MaxSightings   \* bound: events of the strategies together

Sighting == [kind : {"found", "lost", "updated"}, peer : Sighted]

ASSUME HybridAssumption == MaxSightings \in Nat /\ NoneInHand \notin Sighting

VARIABLES
    started,    \* HybridDiscovery::started
    active,     \* strategies that are started
    subscribed, \* strategies whose event stream was taken, by a task that forwards it
    sees,       \* what each strategy sees at present
    feed,       \* its channel
    combined,   \* keys of combined_peers
    handing,    \* event each task is about to forward
    announced,  \* peers present by the events forwarded
    raced,      \* history: peers changed by a task while another had a change of them in hand
    sightings   \* events sent by the strategies, for the bound

hybridVars == <<started, active, subscribed, sees, feed, combined, handing, announced, raced, sightings>>

HybridTypeOK ==
    /\ started \in BOOLEAN
    /\ active \subseteq Strategies
    /\ subscribed \subseteq Strategies
    /\ sees \in [Strategies -> SUBSET Sighted]
    /\ feed \in [Strategies -> Seq(Sighting)]
    /\ combined \subseteq Sighted
    /\ handing \in [Strategies -> Sighting \cup {NoneInHand}]
    /\ announced \subseteq Sighted
    /\ raced \subseteq Sighted
    /\ sightings \in 0..MaxSightings

HybridInit ==
    /\ started = FALSE
    /\ active = {}
    /\ subscribed = {}
    /\ sees = [s \in Strategies |-> {}]
    /\ feed = [s \in Strategies |-> << >>]
    /\ combined = {}
    /\ handing = [s \in Strategies |-> NoneInHand]
    /\ announced = {}
    /\ raced = {}
    /\ sightings = 0

\* start_all when every strategy starts and still has its event stream.
StartAll ==
    /\ ~started
    /\ subscribed = {}
    /\ started' = TRUE
    /\ active' = Strategies
    /\ subscribed' = Strategies
    /\ UNCHANGED <<sees, feed, combined, handing, announced, raced, sightings>>

\* start_all returns at the first strategy that fails: the ones before it run and are
\* forwarded, started stays false.  A strategy whose stream was taken by an earlier call
\* is started and then fails; any other fails to start.
StartAllFails(before, failing) ==
    /\ ~started
    /\ before \cap subscribed = {}
    /\ failing \notin before
    /\ active' = active \cup before \cup (subscribed \cap {failing})
    /\ subscribed' = subscribed \cup before
    /\ UNCHANGED <<started, sees, feed, combined, handing, announced, raced, sightings>>

\* The tasks stay: they wait for events of streams that are still open.
StopAll ==
    /\ started
    /\ started' = FALSE
    /\ active' = {}
    /\ UNCHANGED <<subscribed, sees, feed, combined, handing, announced, raced, sightings>>

\* A strategy finds a peer (again, after a restart), sees it change, or loses it.
Sight(s, kind, p) ==
    /\ s \in active
    /\ sightings < MaxSightings
    /\ kind # "found" => p \in sees[s]
    /\ sees' = [sees EXCEPT ![s] = IF kind = "lost" THEN @ \ {p} ELSE @ \cup {p}]
    /\ feed' = [feed EXCEPT ![s] = Append(@, [kind |-> kind, peer |-> p])]
    /\ sightings' = sightings + 1
    /\ UNCHANGED <<started, active, subscribed, combined, handing, announced, raced>>

\* A task may take the next event of its strategy.
Receives(s, kind) ==
    /\ s \in subscribed
    /\ handing[s] = NoneInHand
    /\ feed[s] # << >>
    /\ Head(feed[s]).kind = kind
    /\ feed' = [feed EXCEPT ![s] = Tail(@)]

\* Another task has yet to forward that it added or removed the peer.
ChangeInHand(p) ==
    \E s \in Strategies : handing[s] # NoneInHand /\ handing[s].peer = p /\ handing[s].kind # "updated"

Races(p) == raced' = IF ChangeInHand(p) THEN raced \cup {p} ELSE raced

MergeFound(s) ==
    LET p == Head(feed[s]).peer IN
    /\ Receives(s, "found")
    /\ combined' = combined \cup {p}
    /\ handing' = [handing EXCEPT ![s] = [kind |-> IF p \in combined THEN "updated" ELSE "found", peer |-> p]]
    /\ IF p \in combined THEN UNCHANGED raced ELSE Races(p)
    /\ UNCHANGED <<started, active, subscribed, sees, announced, sightings>>

\* A MergeLost that forgets to remove the peer.
MergeLost_KeepsPeer(s) ==
    LET p == Head(feed[s]).peer IN
    /\ Receives(s, "lost")
    /\ IF p \in combined
       THEN handing' = [handing EXCEPT ![s] = [kind |-> "lost", peer |-> p]] /\ Races(p)
       ELSE UNCHANGED <<handing, raced>>
    /\ UNCHANGED <<started, active, subscribed, sees, combined, announced, sightings>>

\* The peer goes even if another strategy still sees it.
MergeLost(s) ==
    LET p == Head(feed[s]).peer IN
    /\ Receives(s, "lost")
    /\ combined' = combined \ {p}
    /\ IF p \in combined
       THEN handing' = [handing EXCEPT ![s] = [kind |-> "lost", peer |-> p]] /\ Races(p)
       ELSE UNCHANGED <<handing, raced>>
    /\ UNCHANGED <<started, active, subscribed, sees, announced, sightings>>

MergeUpdated(s) ==
    LET p == Head(feed[s]).peer IN
    /\ Receives(s, "updated")
    /\ handing' = IF p \in combined
                 THEN [handing EXCEPT ![s] = [kind |-> "updated", peer |-> p]]
                 ELSE handing
    /\ UNCHANGED <<started, active, subscribed, sees, combined, announced, raced, sightings>>

Forward(s) ==
    /\ handing[s] # NoneInHand
    /\ handing' = [handing EXCEPT ![s] = NoneInHand]
    /\ announced' = CASE handing[s].kind = "found" -> announced \cup {handing[s].peer}
                      [] handing[s].kind = "lost" -> announced \ {handing[s].peer}
                      [] handing[s].kind = "updated" -> announced
    /\ UNCHANGED <<started, active, subscribed, sees, feed, combined, raced, sightings>>

HybridNext ==
    \/ StartAll
    \/ \E before \in SUBSET Strategies, failing \in Strategies : StartAllFails(before, failing)
    \/ StopAll
    \/ \E s \in Strategies, kind \in {"found", "lost", "updated"}, p \in Sighted : Sight(s, kind, p)
    \/ \E s \in Strategies : MergeFound(s)
    \/ \E s \in Strategies : MergeLost(s)
    \/ \E s \in Strategies : MergeUpdated(s)
    \/ \E s \in Strategies : Forward(s)

HybridSpec == HybridInit /\ [][HybridNext]_hybridVars

(***************************************************************************)
(* Once every event is merged and forwarded, the combined map holds no     *)
(* peer that all strategies lost, and the consumer has been told of        *)
(* exactly the peers in it, except for a peer that one task changed while  *)
(* another had yet to forward its own change of it: only there do the      *)
(* sends after the dropped lock leave the consumer wrong.                  *)
(***************************************************************************)
MergedMeansSeen ==
    (\A s \in Strategies : feed[s] = << >> /\ handing[s] = NoneInHand) =>
        /\ \A p \in combined : \E s \in Strategies : p \in sees[s]
        /\ \A p \in Sighted \ raced : p \in announced <=> p \in combined
=============================================================================
