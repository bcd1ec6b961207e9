--------------------------- MODULE AutomergeStore ---------------------------
(***************************************************************************)
(* One document of the store of src/storage/automerge_store.rs, with the   *)
(* callers that read and write it concurrently: a redb table (durable), an *)
(* LRU cache in front of it, the tombstone table, and the striped document *)
(* lock that only compact and the two sync receivers take.                 *)
(*                                                                         *)
(* A CRDT document is the set of changes it holds; merging is union.  A    *)
(* step is one redb transaction, one cache access under its lock, or one   *)
(* lock acquisition, so that threads interleave where they can in the code.*)
(***************************************************************************)
EXTENDS Naturals, FiniteSets

CONSTANTS
    Threads,        \* tasks that call the store
    RemoteChanges,  \* changes that arrive in sync messages
    LocalChanges,   \* changes the application makes
    Ops,            \* operations the instance lets threads run
    Faults          \* what else happens: "evict", "crash", "io"

LockedOps == {"merge", "compact"}
UnlockedOps == {"get", "upsert", "delete", "tombstone"}
Changes == RemoteChanges \cup LocalChanges

ASSUME StoreAssumption ==
    /\ Ops \subseteq LockedOps \cup UnlockedOps
    /\ Faults \subseteq {"evict", "crash", "io"}
    /\ RemoteChanges \cap LocalChanges = {}

NoDoc == [doc |-> FALSE, changes |-> {}]
Doc(cs) == [doc |-> TRUE, changes |-> cs]
Documents == {NoDoc} \cup {Doc(cs) : cs \in SUBSET Changes}

VARIABLES
    db,         \* DOCUMENTS_TABLE entry of the document
    cache,      \* LruCache entry of the document
    tombstone,  \* TOMBSTONES_TABLE has an entry for the document
    lock,       \* holders of doc_locks[stripe]: none or one
    pc, op,     \* where each thread is, in which operation
    arg,        \* changes the operation brings
    seen,       \* what its get returned
    stored,     \* history: changes committed since the document was last removed
    durable,    \* history: changes ever committed to redb
    disturbed   \* history: an unlocked operation has overlapped another one, or a
                \* receiver has gone on after a read error

locals == <<pc, op, arg, seen>>
vars == <<db, cache, tombstone, lock, locals, stored, durable, disturbed>>

PCs == {"idle", "guard", "lock", "get", "read", "fill", "commit", "cache",
        "remove", "pop", "check", "mark"}

TypeOK ==
    /\ db \in Documents
    /\ cache \in Documents
    /\ tombstone \in BOOLEAN
    /\ lock \in {{}} \cup {{t} : t \in Threads}
    /\ pc \in [Threads -> PCs]
    /\ op \in [Threads -> LockedOps \cup UnlockedOps]
    /\ arg \in [Threads -> SUBSET Changes]
    /\ seen \in [Threads -> Documents]
    /\ stored \in SUBSET Changes
    /\ durable \in SUBSET Changes
    /\ disturbed \in BOOLEAN

Init ==
    /\ db = NoDoc
    /\ cache = NoDoc
    /\ tombstone = FALSE
    /\ lock = {}
    /\ pc = [t \in Threads |-> "idle"]
    /\ op = [t \in Threads |-> "get"]
    /\ arg = [t \in Threads |-> {}]
    /\ seen = [t \in Threads |-> NoDoc]
    /\ stored = {}
    /\ durable = {}
    /\ disturbed = FALSE

-----------------------------------------------------------------------------
Goto(t, l) == pc' = [pc EXCEPT ![t] = l]

(* The operation returns: its locals are gone and so is its lock guard.     *)
Return(t) ==
    /\ Goto(t, "idle")
    /\ op' = [op EXCEPT ![t] = "get"]
    /\ arg' = [arg EXCEPT ![t] = {}]
    /\ seen' = [seen EXCEPT ![t] = NoDoc]
    /\ lock' = lock \ {t}

(* Thread t enters operation o at step l, bringing the changes cs.          *)
Enter(t, o, l, cs) ==
    /\ pc[t] = "idle"
    /\ o \in Ops
    /\ Goto(t, l)
    /\ op' = [op EXCEPT ![t] = o]
    /\ arg' = [arg EXCEPT ![t] = cs]
    /\ disturbed' = (disturbed \/ \E u \in Threads \ {t} :
          pc[u] # "idle" /\ (o \in UnlockedOps \/ op[u] \in UnlockedOps))
    /\ UNCHANGED <<db, cache, tombstone, lock, seen, stored, durable>>

(* receive_sync_message and apply_state_snapshot.                           *)
StartMerge(t, cs) == Enter(t, "merge", "guard", cs)
(* compact                                                                  *)
StartCompact(t) == Enter(t, "compact", "lock", {})
(* Collection::get and the other plain readers                              *)
StartGet(t) == Enter(t, "get", "get", {})
(* AutomergeCollection::upsert and TypedCollection::upsert                  *)
StartUpsert(t, c) == Enter(t, "upsert", "get", {c})
(* delete, hard_delete (garbage collection) and the TTL janitor             *)
StartDelete(t) == Enter(t, "delete", "remove", {})
(* apply_tombstone                                                          *)
StartTombstone(t) == Enter(t, "tombstone", "check", {})

(* A receiver that forgets the tombstone guard.                             *)
GuardIgnored(t) ==
    /\ pc[t] = "guard"
    /\ Goto(t, "lock") /\ UNCHANGED <<lock, op, arg, seen>>
    /\ UNCHANGED <<db, cache, tombstone, stored, durable, disturbed>>

(* The tombstone guard of the sync receivers, before the lock is taken.     *)
Guard(t) ==
    /\ pc[t] = "guard"
    /\ IF tombstone
       THEN Return(t)
       ELSE Goto(t, "lock") /\ UNCHANGED <<lock, op, arg, seen>>
    /\ UNCHANGED <<db, cache, tombstone, stored, durable, disturbed>>

(* A receiver that forgets the lock.                                        *)
lock_doc_forgotten(t) ==
    /\ pc[t] = "lock"
    /\ Goto(t, "get")
    /\ UNCHANGED <<db, cache, tombstone, lock, op, arg, seen, stored, durable, disturbed>>

(* lock_doc                                                                 *)
lock_doc(t) ==
    /\ pc[t] = "lock"
    /\ lock = {}
    /\ lock' = {t}
    /\ Goto(t, "get")
    /\ UNCHANGED <<db, cache, tombstone, op, arg, seen, stored, durable, disturbed>>

(* What follows the return of AutomergeStore::get with the value v.         *)
AfterGet(t, v) ==
    \/ /\ op[t] \in {"merge", "upsert"} \/ (op[t] = "compact" /\ v.doc)
       /\ Goto(t, "commit")
       /\ seen' = [seen EXCEPT ![t] = v]
       /\ UNCHANGED <<lock, op, arg>>
    \/ /\ op[t] = "tombstone" /\ v.doc
       /\ Goto(t, "remove")
       /\ UNCHANGED <<lock, op, arg, seen>>
    \/ /\ op[t] = "get" \/ (op[t] \in {"compact", "tombstone"} /\ ~ v.doc)
       /\ Return(t)

(* AutomergeStore::get: a cache hit ...                                     *)
CacheHit(t) ==
    /\ pc[t] = "get"
    /\ cache.doc
    /\ AfterGet(t, cache)
    /\ UNCHANGED <<db, cache, tombstone, stored, durable, disturbed>>

(* ... or a miss, then a read transaction ...                               *)
CacheMiss(t) ==
    /\ pc[t] = "get"
    /\ ~ cache.doc
    /\ Goto(t, "read")
    /\ UNCHANGED <<db, cache, tombstone, lock, op, arg, seen, stored, durable, disturbed>>

ReadAbsent(t) ==
    /\ pc[t] = "read"
    /\ ~ db.doc
    /\ AfterGet(t, NoDoc)
    /\ UNCHANGED <<db, cache, tombstone, stored, durable, disturbed>>

ReadDocument(t) ==
    /\ pc[t] = "read"
    /\ db.doc
    /\ seen' = [seen EXCEPT ![t] = db]
    /\ Goto(t, "fill")
    /\ UNCHANGED <<db, cache, tombstone, lock, op, arg, stored, durable, disturbed>>

(* ... whose result is put into the cache.                                  *)
FillCache(t) ==
    /\ pc[t] = "fill"
    /\ cache' = seen[t]
    /\ AfterGet(t, seen[t])
    /\ UNCHANGED <<db, tombstone, stored, durable, disturbed>>

(* The document put_inner is called with.                                   *)
Merged(t) == Doc(seen[t].changes \cup arg[t])

(* A put that leaves the old entry in the cache.                            *)
CachePutForgotten(t) ==
    /\ pc[t] = "cache"
    /\ Return(t)
    /\ UNCHANGED <<db, cache, tombstone, stored, durable, disturbed>>

(* A put that fills the cache and has not committed.                        *)
CommitNotDurable(t) ==
    /\ pc[t] = "commit"
    /\ cache' = Merged(t)
    /\ stored' = stored \cup arg[t]
    /\ Goto(t, "cache")
    /\ UNCHANGED <<db, tombstone, lock, op, arg, seen, durable, disturbed>>

(* put_inner: the write transaction, then the cache.                        *)
Commit(t) ==
    /\ pc[t] = "commit"
    /\ db' = Merged(t)
    /\ stored' = stored \cup arg[t]
    /\ durable' = durable \cup Merged(t).changes
    /\ Goto(t, "cache")
    /\ UNCHANGED <<cache, tombstone, lock, op, arg, seen, disturbed>>

CachePut(t) ==
    /\ pc[t] = "cache"
    /\ cache' = Merged(t)
    /\ Return(t)
    /\ UNCHANGED <<db, tombstone, stored, durable, disturbed>>

(* AutomergeStore::delete: the write transaction, then the cache.           *)
Remove(t) ==
    /\ pc[t] = "remove"
    /\ db' = NoDoc
    /\ stored' = {}
    /\ Goto(t, "pop")
    /\ UNCHANGED <<cache, tombstone, lock, op, arg, seen, durable, disturbed>>

CachePop(t) ==
    /\ pc[t] = "pop"
    /\ cache' = NoDoc
    /\ Return(t)
    /\ UNCHANGED <<db, tombstone, stored, durable, disturbed>>

(* apply_tombstone: skip a known one; otherwise store it, then look for the *)
(* document and delete it.                                                  *)
TombstoneKnown(t) ==
    /\ pc[t] = "check"
    /\ tombstone
    /\ Return(t)
    /\ UNCHANGED <<db, cache, tombstone, stored, durable, disturbed>>

TombstoneNew(t) ==
    /\ pc[t] = "check"
    /\ ~ tombstone
    /\ Goto(t, "mark")
    /\ UNCHANGED <<db, cache, tombstone, lock, op, arg, seen, stored, durable, disturbed>>

PutTombstone(t) ==
    /\ pc[t] = "mark"
    /\ tombstone' = TRUE
    /\ Goto(t, "get")
    /\ UNCHANGED <<db, cache, lock, op, arg, seen, stored, durable, disturbed>>

-----------------------------------------------------------------------------
(* A transaction fails: nothing is written and the operation returns.       *)
IoFails(t) ==
    /\ "io" \in Faults
    /\ pc[t] \in {"read", "commit", "remove", "check", "mark"}
    /\ Return(t)
    /\ UNCHANGED <<db, cache, tombstone, stored, durable, disturbed>>

(* The guard takes a failed has_tombstone for "no tombstone".               *)
GuardReadFails(t) ==
    /\ "io" \in Faults
    /\ pc[t] = "guard"
    /\ Goto(t, "lock")
    /\ disturbed' = TRUE
    /\ UNCHANGED <<db, cache, tombstone, lock, op, arg, seen, stored, durable>>

(* apply_state_snapshot takes a failed get for "no document".               *)
SnapshotReadFails(t) ==
    /\ "io" \in Faults
    /\ pc[t] = "read"
    /\ op[t] = "merge"
    /\ seen' = [seen EXCEPT ![t] = NoDoc]
    /\ Goto(t, "commit")
    /\ disturbed' = TRUE
    /\ UNCHANGED <<db, cache, tombstone, lock, op, arg, stored, durable>>

(* The LRU drops the entry to make room for another document.               *)
Evict ==
    /\ "evict" \in Faults
    /\ cache.doc
    /\ cache' = NoDoc
    /\ UNCHANGED <<db, tombstone, lock, locals, stored, durable, disturbed>>

(* The process dies and opens the database again.                           *)
Crash ==
    /\ "crash" \in Faults
    /\ cache' = NoDoc
    /\ lock' = {}
    /\ pc' = [t \in Threads |-> "idle"]
    /\ op' = [t \in Threads |-> "get"]
    /\ arg' = [t \in Threads |-> {}]
    /\ seen' = [t \in Threads |-> NoDoc]
    /\ UNCHANGED <<db, tombstone, stored, durable, disturbed>>

Start(t) ==
    \/ \E cs \in (SUBSET RemoteChanges) \ {{}} : StartMerge(t, cs)
    \/ StartCompact(t)
    \/ StartGet(t)
    \/ \E c \in LocalChanges : StartUpsert(t, c)
    \/ StartDelete(t)
    \/ StartTombstone(t)

Proceed(t) ==
    \/ Guard(t) \/ lock_doc(t)
    \/ CacheHit(t) \/ CacheMiss(t) \/ ReadAbsent(t) \/ ReadDocument(t) \/ FillCache(t)
    \/ Commit(t) \/ CachePut(t) \/ Remove(t) \/ CachePop(t)
    \/ TombstoneKnown(t) \/ TombstoneNew(t) \/ PutTombstone(t)
    \/ IoFails(t) \/ GuardReadFails(t) \/ SnapshotReadFails(t)

Next ==
    \/ \E t \in Threads : Start(t) \/ Proceed(t)
    \/ Evict
    \/ Crash

Spec == Init /\ [][Next]_vars

-----------------------------------------------------------------------------
(* Nothing is visible before it is durable: a change a reader can find in   *)
(* the cache, or has been handed, was committed to redb first, whatever the *)
(* interleaving and wherever the process crashes (put_inner's order).       *)
DurableBeforeVisible ==
    /\ cache.changes \subseteq durable
    /\ \A t \in Threads : pc[t] \in {"fill", "commit"} => seen[t].changes \subseteq durable

(* A committed change stays in the document until it is removed, through    *)
(* evictions, crashes, failed transactions and any number of merges and     *)
(* compactions that overlap (the document lock, Issue #74), as long as no   *)
(* operation that does not take the lock overlaps another and no receiver   *)
(* goes on after a read error.                                              *)
LockedWritesKeepChanges == ~ disturbed => stored \subseteq db.changes

(* Outside the two-step writes the cache holds nothing but the table's      *)
(* value, under the same condition.                                         *)
CacheCoherent ==
    (~ disturbed /\ \A t \in Threads : pc[t] \notin {"cache", "pop"})
        => cache \in {NoDoc, db}

(* No step brings a synced change into a tombstoned document, under the     *)
(* same condition (the tombstone guard of the sync receivers, ADR-034).     *)
TombstoneKeepsSyncOut ==
    [][(~ disturbed' /\ tombstone) =>
          db'.changes \cap RemoteChanges \subseteq db.changes]_vars

(* The document lock keeps committed changes whoever writes: lock_doc's     *)
(* comment says it serializes read-modify-write operations "to prevent      *)
(* concurrent modifications from silently dropping changes".                *)
CommittedChangesKept == stored \subseteq db.changes

(* The tombstone guard "prevents resurrection of documents deleted in this  *)
(* partition": when everyone is done, a tombstoned document is gone.        *)
TombstonePreventsResurrection ==
    (tombstone /\ \A t \in Threads : pc[t] = "idle") => ~ db.doc
=============================================================================
