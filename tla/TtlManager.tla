----------------------------- MODULE TtlManager -----------------------------
(***************************************************************************)
(* Expiry of documents (src/storage/ttl_manager.rs): tasks that store a    *)
(* document and then schedule its expiry (AutomergeStore::put_with_ttl),   *)
(* the background cleanup, calls of cleanup_expired, the extension of all  *)
(* TTLs while the node has no peers, and restarts, which keep the          *)
(* documents and lose the schedule.                                        *)
(*                                                                         *)
(* An entry of the expiry map is the time it has left; 0 is expired.       *)
(***************************************************************************)
EXTENDS Naturals, FiniteSets

CONSTANTS
    Keys, Writers,
    Ttl,          \* TtlConfig::get_collection_ttl, in ticks
    Factor,       \* online_ttl / offline_ttl of the offline policy
    TtlHorizon,   \* times left are told apart up to here
    Keep          \* n of EvictionStrategy::KeepLastN, 0 for the others

ASSUME TtlAssumption ==
    /\ Ttl \in Nat \ {0} /\ Factor \in Nat \ {0} /\ Keep \in Nat
    /\ TtlHorizon \in Nat /\ TtlHorizon >= Ttl

VARIABLES
    docs,        \* keys of the documents in the store
    expiry_map,  \* of each key, the times left of its entries
    swept,       \* keys the background task has still to delete
    ordered,     \* keys a call of cleanup_expired has still to delete
    cleanup,     \* whether the background task runs
    online,      \* whether a peer is connected
    storing,     \* keys a writer has stored and not scheduled yet
    lease,       \* history: what is left of the TTL since the last put
    refreshed,   \* history: an older entry was outstanding at the last put
    lost         \* history: an entry was dropped and its document not deleted

history == <<lease, refreshed, lost>>
vars == <<docs, expiry_map, swept, ordered, cleanup, online, storing, history>>

TypeOK ==
    /\ docs \subseteq Keys /\ swept \subseteq Keys /\ ordered \subseteq Keys
    /\ expiry_map \in [Keys -> SUBSET (0 .. TtlHorizon)]
    /\ cleanup \in BOOLEAN /\ online \in BOOLEAN
    /\ storing \in [Writers -> SUBSET Keys]
    /\ lease \in [Keys -> 0 .. Ttl]
    /\ refreshed \subseteq Keys /\ lost \subseteq Keys

Init ==
    /\ docs = {} /\ swept = {} /\ ordered = {}
    /\ expiry_map = [k \in Keys |-> {}]
    /\ cleanup = TRUE /\ online = TRUE
    /\ storing = [w \in Writers |-> {}]
    /\ lease = [k \in Keys |-> 0]
    /\ refreshed = {} /\ lost = {}

-----------------------------------------------------------------------------
(* put_with_ttl: the document first ...                                     *)
Put(w, k) ==
    /\ storing[w] = {}
    /\ storing' = [storing EXCEPT ![w] = {k}]
    /\ docs' = docs \cup {k}
    /\ lease' = [lease EXCEPT ![k] = Ttl]
    /\ refreshed' = IF expiry_map[k] # {} \/ k \in swept \cup ordered
                    THEN refreshed \cup {k} ELSE refreshed \ {k}
    /\ lost' = lost \ {k}
    /\ UNCHANGED <<expiry_map, swept, ordered, cleanup, online>>

(* ... then set_ttl, which adds an entry beside those the key has.          *)
set_ttl(w, k) ==
    /\ k \in storing[w]
    /\ storing' = [storing EXCEPT ![w] = {}]
    /\ expiry_map' = [expiry_map EXCEPT ![k] = @ \cup {Ttl}]
    /\ UNCHANGED <<docs, swept, ordered, cleanup, online, history>>

Expired == {k \in Keys : 0 \in expiry_map[k]}
Unexpired == [k \in Keys |-> expiry_map[k] \ {0}]

(* A sweep that also takes the first entry that is not due.                 *)
SweepEarly ==
    /\ cleanup /\ swept = {}
    /\ swept' = {k \in Keys : expiry_map[k] \cap {0, 1} # {}}
    /\ swept' # {}
    /\ expiry_map' = [k \in Keys |-> expiry_map[k] \ {0, 1}]
    /\ UNCHANGED <<docs, ordered, cleanup, online, storing, history>>

(* A sweep that clears the map instead of retaining what is not due.        *)
SweepClears ==
    /\ cleanup /\ swept = {}
    /\ Expired # {}
    /\ swept' = Expired
    /\ expiry_map' = [k \in Keys |-> {}]
    /\ UNCHANGED <<docs, ordered, cleanup, online, storing, history>>

(* A sweep that looks at the last entry of the map instead of the first.    *)
SweepWhenAllDue ==
    /\ cleanup /\ swept = {}
    /\ Expired # {} /\ \A k \in Keys : expiry_map[k] \subseteq {0}
    /\ swept' = Expired
    /\ expiry_map' = Unexpired
    /\ UNCHANGED <<docs, ordered, cleanup, online, storing, history>>

(* The background task: everything due leaves the map under its lock ...    *)
Sweep ==
    /\ cleanup /\ swept = {}
    /\ Expired # {}
    /\ swept' = Expired
    /\ expiry_map' = Unexpired
    /\ UNCHANGED <<docs, ordered, cleanup, online, storing, history>>

(* ... and is deleted one by one without it; an error is logged.            *)
DeleteSwept(k) ==
    /\ k \in swept
    /\ swept' = swept \ {k}
    /\ docs' = docs \ {k}
    /\ UNCHANGED <<expiry_map, ordered, cleanup, online, storing, history>>

DeleteSweptFails(k) ==
    /\ k \in swept
    /\ swept' = swept \ {k}
    /\ lost' = lost \cup {k}
    /\ UNCHANGED <<docs, expiry_map, ordered, cleanup, online, storing, lease, refreshed>>

(* cleanup_expired: the same under the eviction strategy, which leaves at   *)
(* most Keep of the documents.                                              *)
cleanup_expired ==
    /\ ordered = {}
    /\ Expired # {}
    /\ expiry_map' = Unexpired
    /\ \E kept \in SUBSET Expired :
          /\ Cardinality(kept) <= Keep
          /\ ordered' = Expired \ kept
          /\ lost' = lost \cup kept
    /\ UNCHANGED <<docs, swept, cleanup, online, storing, lease, refreshed>>

DeleteOrdered(k) ==
    /\ k \in ordered
    /\ ordered' = ordered \ {k}
    /\ docs' = docs \ {k}
    /\ UNCHANGED <<expiry_map, swept, cleanup, online, storing, history>>

(* An error ends the call: the keys that are left are not deleted.          *)
DeleteOrderedFails ==
    /\ ordered # {}
    /\ ordered' = {}
    /\ lost' = lost \cup ordered
    /\ UNCHANGED <<docs, expiry_map, swept, cleanup, online, storing, lease, refreshed>>

-----------------------------------------------------------------------------
Extended(r) == IF r * Factor > TtlHorizon THEN TtlHorizon ELSE r * Factor

(* extend_ttls_for_offline: entries that are due and not swept yet are      *)
(* dropped with the old map.                                                *)
extend_ttls_for_offline ==
    /\ ~ online
    /\ Factor > 1
    /\ expiry_map' = [k \in Keys |-> {Extended(r) : r \in expiry_map[k] \ {0}}]
    /\ lost' = lost \cup Expired
    /\ UNCHANGED <<docs, swept, ordered, cleanup, online, storing, lease, refreshed>>

Connectivity ==
    /\ online' = ~ online
    /\ UNCHANGED <<docs, expiry_map, swept, ordered, cleanup, storing, history>>

(* stop_background_cleanup: the task ends at its next await, not between    *)
(* two deletions.                                                           *)
stop_background_cleanup ==
    /\ cleanup /\ swept = {}
    /\ cleanup' = FALSE
    /\ UNCHANGED <<docs, expiry_map, swept, ordered, online, storing, history>>

(* The process ends, or crashes, and starts again: the documents are on     *)
(* disk, the map is not.                                                    *)
Restart ==
    /\ expiry_map' = [k \in Keys |-> {}]
    /\ swept' = {} /\ ordered' = {}
    /\ storing' = [w \in Writers |-> {}]
    /\ cleanup' = TRUE /\ online' = FALSE
    /\ lost' = lost \cup docs
    /\ UNCHANGED <<docs, lease, refreshed>>

Later(r) == IF r = 0 THEN 0 ELSE r - 1

Tick ==
    /\ expiry_map' = [k \in Keys |-> {Later(r) : r \in expiry_map[k]}]
    /\ lease' = [k \in Keys |-> Later(lease[k])]
    /\ UNCHANGED <<docs, swept, ordered, cleanup, online, storing, refreshed, lost>>

-----------------------------------------------------------------------------
Write == \E w \in Writers, k \in Keys : Put(w, k)
Schedule == \E w \in Writers, k \in Keys : set_ttl(w, k)
DeleteExpired == \E k \in Keys : DeleteSwept(k) \/ DeleteSweptFails(k)

Next ==
    \/ Write \/ Schedule
    \/ Sweep \/ DeleteExpired
    \/ cleanup_expired \/ DeleteOrderedFails \/ \E k \in Keys : DeleteOrdered(k)
    \/ extend_ttls_for_offline \/ Connectivity \/ stop_background_cleanup \/ Restart
    \/ Tick

Spec == Init /\ [][Next]_vars

(***************************************************************************)
(* Fairness: time passes, a call that has stored a document goes on, the   *)
(* background task ticks and works off what it took, and a call of         *)
(* cleanup_expired ends.  Nothing is assumed about who calls, connects,    *)
(* fails or restarts.                                                      *)
(***************************************************************************)
Fairness ==
    /\ WF_vars(Tick) /\ WF_vars(Schedule) /\ WF_vars(Sweep) /\ WF_vars(DeleteExpired)
    /\ WF_vars(\E k \in Keys : DeleteOrdered(k))

FairSpec == Spec /\ Fairness

-----------------------------------------------------------------------------
(* The schedule loses nothing unnoticed: a stored document has an entry, or *)
(* is about to get one, or is about to be deleted, unless one of the ways   *)
(* in which the code drops an entry has happened to it (set_ttl, the sweep, *)
(* the extension and their overlaps).                                       *)
Tracked ==
    \A k \in docs \ lost :
        \/ expiry_map[k] # {}
        \/ k \in swept \cup ordered
        \/ \E w \in Writers : k \in storing[w]

(* A document whose key had no older entry outstanding is not about to be   *)
(* deleted before its TTL is over, however puts, sweeps and extensions      *)
(* overlap (the two-step put_with_ttl and the unlocked deletions).          *)
NotExpiredEarly ==
    \A k \in docs \ refreshed : lease[k] > 0 => k \notin swept \cup ordered

(* A document is deleted in the end once the node stays online with its     *)
(* cleanup running, unless its entry was dropped.                           *)
Expires ==
    <>[](online /\ cleanup) => \A k \in Keys : [](k \in docs => <>(k \notin docs \/ k \in lost))

(* "ttl - Time until expiration": the background task takes no document     *)
(* for deletion before the TTL of its last put is over.                     *)
TtlRespected == [][\A k \in docs : lease[k] > 0 => k \notin swept' \ swept]_vars
=============================================================================
