---------------------------- MODULE InMemoryBackend ----------------------------
(***************************************************************************)
(* The document store of the in-memory backend (sync/in_memory.rs) for one *)
(* collection: writers change documents under the write lock, which they   *)
(* hold while they notify the observers.  A mirror (external: a caller of  *)
(* the store) observes, queries, and then applies the changes it is sent.  *)
(***************************************************************************)
EXTENDS Naturals, Sequences

CONSTANTS
    Ids,          \* ids of documents
    Mirrors,      \* callers that keep a copy of the collection
    Missing,      \* a document that is not there
    MaxWrites     \* bound on changes

ASSUME InMemoryAssumption == Missing \notin Nat /\ MaxWrites \in Nat

VARIABLES
    docs,         \* [Ids -> Nat \cup {Missing}]: the version of each document
    softDeleted,  \* documents with _deleted set
    tombstones,   \* ids with a tombstone
    burying,      \* ids removed by delete or apply_tombstone, tombstone to come
    policy,       \* DeletionPolicy of the collection
    phase,        \* [Mirrors -> {"off", "observing", "mirroring"}]
    inbox,        \* [Mirrors -> Seq of changes]: the observer's channel
    copy,         \* [Mirrors -> [Ids -> Nat \cup {Missing}]]
    writes,
    cleared       \* history: clear_collection was called

storeVars == <<docs, softDeleted, tombstones, burying, policy>>
mirrorVars == <<phase, inbox, copy>>
inMemoryVars == <<storeVars, mirrorVars, writes, cleared>>

Policies == {"Immutable", "SoftDelete", "Tombstone", "ImplicitTTL"}
DefaultPolicy == "SoftDelete"

\* What query returns, soft-deleted documents left out.
Query == [d \in Ids |-> IF d \in softDeleted THEN Missing ELSE docs[d]]

InMemoryInit ==
    /\ docs = [d \in Ids |-> Missing]
    /\ softDeleted = {} /\ tombstones = {} /\ burying = {}
    /\ policy = DefaultPolicy
    /\ phase = [m \in Mirrors |-> "off"]
    /\ inbox = [m \in Mirrors |-> <<>>]
    /\ copy = [m \in Mirrors |-> [d \in Ids |-> Missing]]
    /\ writes = 0
    /\ cleared = FALSE

CountWrite == writes < MaxWrites /\ writes' = writes + 1

\* notify_observers: every observer of the collection is sent the change.
notify_observers(d, value) ==
    inbox' = [m \in Mirrors |-> IF phase[m] = "off" THEN inbox[m] ELSE Append(inbox[m], <<d, value>>)]

\* An upsert, of a document without the _deleted mark.
Upsert(d) ==
    /\ CountWrite
    /\ docs' = [docs EXCEPT ![d] = writes']
    /\ softDeleted' = softDeleted \ {d}
    /\ notify_observers(d, writes')
    /\ UNCHANGED <<tombstones, burying, policy, phase, copy, cleared>>

\* remove: a notification only where there was a document.
RemoveDoc(d) ==
    /\ docs' = [docs EXCEPT ![d] = Missing]
    /\ softDeleted' = softDeleted \ {d}
    /\ IF docs[d] = Missing THEN UNCHANGED inbox ELSE notify_observers(d, Missing)
    /\ UNCHANGED <<tombstones, policy, phase, copy, cleared>>

RemoveDocument(d) == CountWrite /\ RemoveDoc(d) /\ UNCHANGED burying

\* A mutation of SoftDelete: the mark is set and nobody told.
SoftDeleteQuietly(d) ==
    /\ softDeleted' = IF docs[d] = Missing THEN softDeleted ELSE softDeleted \cup {d}
    /\ UNCHANGED <<docs, tombstones, burying, policy, mirrorVars, cleared>>

SoftDelete(d) ==
    /\ softDeleted' = IF docs[d] = Missing THEN softDeleted ELSE softDeleted \cup {d}
    /\ IF docs[d] = Missing THEN UNCHANGED inbox ELSE notify_observers(d, Missing)
    /\ UNCHANGED <<docs, tombstones, burying, policy, phase, copy, cleared>>

\* delete, by the policy of the collection, or by the default one where the
\* policies are being written: a soft delete, a removal with a tombstone to come,
\* or nothing.
Delete(d) ==
    /\ CountWrite
    /\ \E p \in {policy, DefaultPolicy} :
          \/ p = "SoftDelete" /\ SoftDelete(d)
          \/ p = "Tombstone" /\ RemoveDoc(d) /\ burying' = burying \cup {d}
          \/ p \in {"Immutable", "ImplicitTTL"} /\ UNCHANGED <<storeVars, mirrorVars, cleared>>

\* apply_tombstone, of a deletion elsewhere.
ApplyTombstone(d) == CountWrite /\ RemoveDoc(d) /\ burying' = burying \cup {d}

InsertTombstone(d) ==
    /\ d \in burying
    /\ burying' = burying \ {d}
    /\ tombstones' = tombstones \cup {d}
    /\ UNCHANGED <<docs, softDeleted, policy, mirrorVars, writes, cleared>>

SetDeletionPolicy(p) ==
    /\ policy' = p
    /\ UNCHANGED <<docs, softDeleted, tombstones, burying, mirrorVars, writes, cleared>>

\* clear_collection notifies nobody.
ClearCollection ==
    /\ CountWrite
    /\ docs' = [d \in Ids |-> Missing]
    /\ softDeleted' = {}
    /\ cleared' = TRUE
    /\ UNCHANGED <<tombstones, burying, policy, mirrorVars>>

Observe(m) ==
    /\ phase[m] = "off"
    /\ phase' = [phase EXCEPT ![m] = "observing"]
    /\ UNCHANGED <<storeVars, inbox, copy, writes, cleared>>

QueryAll(m) ==
    /\ phase[m] = "observing"
    /\ phase' = [phase EXCEPT ![m] = "mirroring"]
    /\ copy' = [copy EXCEPT ![m] = Query]
    /\ UNCHANGED <<storeVars, inbox, writes, cleared>>

ApplyChange(m) ==
    /\ phase[m] = "mirroring" /\ inbox[m] # <<>>
    /\ inbox' = [inbox EXCEPT ![m] = Tail(@)]
    /\ copy' = [copy EXCEPT ![m][Head(inbox[m])[1]] = Head(inbox[m])[2]]
    /\ UNCHANGED <<storeVars, phase, writes, cleared>>

InMemoryNext ==
    \/ \E d \in Ids : Upsert(d) \/ RemoveDocument(d) \/ Delete(d) \/ ApplyTombstone(d) \/ InsertTombstone(d)
    \/ \E p \in Policies : SetDeletionPolicy(p)
    \/ ClearCollection
    \/ \E m \in Mirrors : Observe(m) \/ QueryAll(m) \/ ApplyChange(m)

InMemorySpec == InMemoryInit /\ [][InMemoryNext]_inMemoryVars

InMemoryTypeOK ==
    /\ docs \in [Ids -> 1 .. MaxWrites \cup {Missing}]
    /\ {softDeleted, tombstones, burying} \subseteq SUBSET Ids
    /\ policy \in Policies
    /\ phase \in [Mirrors -> {"off", "observing", "mirroring"}]
    /\ copy \in [Mirrors -> [Ids -> 1 .. MaxWrites \cup {Missing}]]
    /\ writes \in 0 .. MaxWrites
    /\ cleared \in BOOLEAN

\* A caller that observes before it queries holds what a query would return
\* whenever its channel is empty, although changes made between the two reach it
\* twice, in the copy and as a change that is older than the copy: no change of
\* a document is missed and the last one sent is the last one made.
\* clear_collection, which tells nobody, is excepted.
MirrorCatchesUp ==
    \A m \in Mirrors :
        phase[m] = "mirroring" /\ inbox[m] = <<>> /\ ~cleared => copy[m] = Query
=============================================================================
