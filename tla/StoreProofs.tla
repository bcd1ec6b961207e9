---------------------------- MODULE StoreProofs -----------------------------
(***************************************************************************)
(* Proofs about what a node stores. AutomergeStore, for any number of      *)
(* threads and changes: what is visible is durable, and the lock and the   *)
(* tombstone guard keep what they are for. GarbageCollector, for any keys, *)
(* tasks and batch sizes: no tombstone is removed that must stay.          *)
(***************************************************************************)
EXTENDS AutomergeStore, GarbageCollector, WellFoundedInduction, TLAPS

-----------------------------------------------------------------------------
(* What is needed of the representation of documents.                       *)
LEMMA DocumentFacts ==
    /\ NoDoc \in Documents /\ NoDoc.changes = {} /\ NoDoc.doc = FALSE
    /\ \A cs \in SUBSET Changes :
          Doc(cs) \in Documents /\ Doc(cs).changes = cs /\ Doc(cs).doc = TRUE
    /\ \A d \in Documents : d.changes \in SUBSET Changes /\ d.doc \in BOOLEAN
    /\ \A d \in Documents : ~ d.doc => d = NoDoc
<1>1. NoDoc \in Documents /\ NoDoc.changes = {} /\ NoDoc.doc = FALSE
  BY DEF NoDoc, Documents
<1>2. ASSUME NEW cs \in SUBSET Changes
      PROVE  Doc(cs) \in Documents /\ Doc(cs).changes = cs /\ Doc(cs).doc = TRUE
  BY DEF Doc, Documents
<1>3. ASSUME NEW d \in Documents
      PROVE  d.changes \in SUBSET Changes /\ d.doc \in BOOLEAN /\ (~ d.doc => d = NoDoc)
  <2>1. CASE d = NoDoc
    BY <2>1, <1>1
  <2>2. CASE \E cs \in SUBSET Changes : d = Doc(cs)
    BY <2>2, <1>2
  <2> QED BY <2>1, <2>2 DEF Documents
<1> QED BY <1>1, <1>2, <1>3

(* The document a put stores is a document.                                 *)
LEMMA MergedFacts ==
    ASSUME TypeOK, NEW t \in Threads
    PROVE  /\ Merged(t) \in Documents
           /\ Merged(t).changes = seen[t].changes \cup arg[t]
           /\ Merged(t).doc
<1>1. seen[t].changes \cup arg[t] \in SUBSET Changes
  BY DocumentFacts DEF TypeOK
<1> QED BY <1>1, DocumentFacts DEF Merged

(* Returning keeps the locals and the lock well typed.                      *)
LEMMA ReturnTyped ==
    ASSUME TypeOK, NEW t \in Threads, Return(t)
    PROVE  /\ pc' \in [Threads -> PCs]
           /\ op' \in [Threads -> LockedOps \cup UnlockedOps]
           /\ arg' \in [Threads -> SUBSET Changes]
           /\ seen' \in [Threads -> Documents]
           /\ lock' \in {{}} \cup {{u} : u \in Threads}
<1>1. lock' = {} \/ lock' = lock
  BY DEF TypeOK, Return
<1>2. lock' \in {{}} \cup {{u} : u \in Threads}
  BY <1>1 DEF TypeOK
<1> QED BY <1>2, DocumentFacts DEF TypeOK, Return, Goto, PCs, UnlockedOps

(* So does what follows a get.                                              *)
LEMMA AfterGetTyped ==
    ASSUME TypeOK, NEW t \in Threads, NEW v \in Documents, AfterGet(t, v)
    PROVE  /\ pc' \in [Threads -> PCs]
           /\ op' \in [Threads -> LockedOps \cup UnlockedOps]
           /\ arg' \in [Threads -> SUBSET Changes]
           /\ seen' \in [Threads -> Documents]
           /\ lock' \in {{}} \cup {{u} : u \in Threads}
<1>1. CASE Return(t)
  BY <1>1, ReturnTyped
<1>2. CASE Goto(t, "commit") /\ seen' = [seen EXCEPT ![t] = v] /\ UNCHANGED <<lock, op, arg>>
  BY <1>2 DEF TypeOK, Goto, PCs
<1>3. CASE Goto(t, "remove") /\ UNCHANGED <<lock, op, arg, seen>>
  BY <1>3 DEF TypeOK, Goto, PCs
<1> QED BY <1>1, <1>2, <1>3 DEF AfterGet

(* How each operation begins: its first step and the changes it brings.     *)
Entry(o, l, cs) ==
    \/ o = "merge" /\ l = "guard" /\ cs \subseteq RemoteChanges
    \/ o = "compact" /\ l = "lock" /\ cs = {}
    \/ o = "get" /\ l = "get" /\ cs = {}
    \/ o = "upsert" /\ l = "get" /\ cs \subseteq LocalChanges
    \/ o = "delete" /\ l = "remove" /\ cs = {}
    \/ o = "tombstone" /\ l = "check" /\ cs = {}

\* Where an operation begins.
LEMMA StartEnters ==
    ASSUME NEW t \in Threads, Start(t)
    PROVE  \E o \in LockedOps \cup UnlockedOps, l \in PCs, cs \in SUBSET Changes :
               Enter(t, o, l, cs) /\ Entry(o, l, cs)
<1>1. CASE \E cs \in (SUBSET RemoteChanges) \ {{}} : StartMerge(t, cs)
  BY <1>1 DEF StartMerge, LockedOps, PCs, Changes, Entry
<1>2. CASE StartCompact(t) \/ StartGet(t) \/ StartDelete(t) \/ StartTombstone(t)
  BY <1>2 DEF StartCompact, StartGet, StartDelete, StartTombstone,
              LockedOps, UnlockedOps, PCs, Entry
<1>3. CASE \E c \in LocalChanges : StartUpsert(t, c)
  BY <1>3 DEF StartUpsert, UnlockedOps, PCs, Changes, Entry
<1> QED BY <1>1, <1>2, <1>3 DEF Start

(* Every state is well typed.                                               *)
LEMMA TypeInit == Init => TypeOK
BY DocumentFacts, ZenonT(60) DEF Init, TypeOK, PCs, UnlockedOps

\* Every step keeps the types.
LEMMA TypeStep == TypeOK /\ [Next]_vars => TypeOK'
<1> SUFFICES ASSUME TypeOK, [Next]_vars PROVE TypeOK'
  OBVIOUS
<1> USE DocumentFacts
<1>1. ASSUME NEW t \in Threads, Start(t) PROVE TypeOK'
  <2>1. PICK o \in LockedOps \cup UnlockedOps, l \in PCs, cs \in SUBSET Changes :
            Enter(t, o, l, cs)
    BY <1>1, StartEnters
  <2>2. disturbed' \in BOOLEAN
    BY <2>1 DEF Enter
  <2> QED BY <2>1, <2>2 DEF Enter, Goto, TypeOK
<1>2. ASSUME NEW t \in Threads, Guard(t) PROVE TypeOK'
  BY <1>2, ReturnTyped DEF Guard, Goto, TypeOK, PCs
<1>3. ASSUME NEW t \in Threads, lock_doc(t) PROVE TypeOK'
  BY <1>3 DEF lock_doc, Goto, TypeOK, PCs
<1>4. ASSUME NEW t \in Threads, CacheHit(t) PROVE TypeOK'
  <2>1. cache \in Documents
    BY DEF TypeOK
  <2> QED BY <1>4, <2>1, AfterGetTyped DEF CacheHit, TypeOK
<1>5. ASSUME NEW t \in Threads, CacheMiss(t) PROVE TypeOK'
  BY <1>5 DEF CacheMiss, Goto, TypeOK, PCs
<1>6. ASSUME NEW t \in Threads, ReadAbsent(t) PROVE TypeOK'
  BY <1>6, AfterGetTyped DEF ReadAbsent, TypeOK
<1>7. ASSUME NEW t \in Threads, ReadDocument(t) PROVE TypeOK'
  BY <1>7 DEF ReadDocument, Goto, TypeOK, PCs
<1>8. ASSUME NEW t \in Threads, FillCache(t) PROVE TypeOK'
  <2>1. seen[t] \in Documents
    BY DEF TypeOK
  <2> QED BY <1>8, <2>1, AfterGetTyped DEF FillCache, TypeOK
<1>9. ASSUME NEW t \in Threads, Commit(t) PROVE TypeOK'
  <2>1. Merged(t) \in Documents /\ Merged(t).changes \in SUBSET Changes
    BY MergedFacts
  <2> QED BY <1>9, <2>1 DEF Commit, Goto, TypeOK, PCs
<1>10. ASSUME NEW t \in Threads, CachePut(t) PROVE TypeOK'
  BY <1>10, MergedFacts, ReturnTyped DEF CachePut, TypeOK
<1>11. ASSUME NEW t \in Threads, Remove(t) PROVE TypeOK'
  BY <1>11 DEF Remove, Goto, TypeOK, PCs
<1>12. ASSUME NEW t \in Threads, CachePop(t) PROVE TypeOK'
  BY <1>12, ReturnTyped DEF CachePop, TypeOK
<1>13. ASSUME NEW t \in Threads, TombstoneKnown(t) PROVE TypeOK'
  BY <1>13, ReturnTyped DEF TombstoneKnown, TypeOK
<1>14. ASSUME NEW t \in Threads, TombstoneNew(t) \/ PutTombstone(t) PROVE TypeOK'
  BY <1>14, ZenonT(60) DEF TombstoneNew, PutTombstone, Goto, TypeOK, PCs
<1>15. CASE Evict
  BY <1>15 DEF Evict, TypeOK, locals
<1>16. CASE Crash
  BY <1>16 DEF Crash, TypeOK, PCs, UnlockedOps
<1>17. CASE UNCHANGED vars
  BY <1>17 DEF vars, locals, TypeOK
<1>18. ASSUME NEW t \in Threads, IoFails(t) PROVE TypeOK'
  BY <1>18, ReturnTyped DEF IoFails, TypeOK
<1>19. ASSUME NEW t \in Threads, GuardReadFails(t) PROVE TypeOK'
  <2>1. disturbed' \in BOOLEAN
    BY <1>19 DEF GuardReadFails
  <2> QED BY <1>19, <2>1 DEF GuardReadFails, Goto, TypeOK, PCs
<1>20. ASSUME NEW t \in Threads, SnapshotReadFails(t) PROVE TypeOK'
  <2>1. disturbed' \in BOOLEAN
    BY <1>20 DEF SnapshotReadFails
  <2> QED BY <1>20, <2>1 DEF SnapshotReadFails, Goto, TypeOK, PCs
<1> QED
  BY <1>1, <1>2, <1>3, <1>4, <1>5, <1>6, <1>7, <1>8, <1>9, <1>10, <1>11, <1>12,
     <1>13, <1>14, <1>15, <1>16, <1>17, <1>18, <1>19, <1>20
     DEF Next, Proceed

(* Every variable keeps its type in every operation; the lock never has two *)
(* holders (lock_doc).                                                      *)
THEOREM TypeCorrect == Spec => []TypeOK
BY TypeInit, TypeStep, PTL DEF Spec

-----------------------------------------------------------------------------
(* Inductive strengthening of DurableBeforeVisible: the table itself, every *)
(* value a thread has read, and the argument of a put that has committed    *)
(* hold only changes that were committed.                                   *)
DurableInv ==
    /\ db.changes \subseteq durable
    /\ cache.changes \subseteq durable
    /\ \A t \in Threads : seen[t].changes \subseteq durable
    /\ \A t \in Threads : pc[t] = "cache" => arg[t] \subseteq durable

\* Returning keeps what is visible durable,
LEMMA DurableReturn ==
    ASSUME TypeOK, DurableInv, NEW t \in Threads, Return(t), durable' = durable
    PROVE  /\ \A u \in Threads : seen'[u].changes \subseteq durable'
           /\ \A u \in Threads : pc'[u] = "cache" => arg'[u] \subseteq durable'
BY DocumentFacts DEF TypeOK, DurableInv, Return, Goto

\* and so does what follows a get.
LEMMA DurableAfterGet ==
    ASSUME TypeOK, DurableInv, NEW t \in Threads, NEW v, v.changes \subseteq durable,
           AfterGet(t, v), durable' = durable
    PROVE  /\ \A u \in Threads : seen'[u].changes \subseteq durable'
           /\ \A u \in Threads : pc'[u] = "cache" => arg'[u] \subseteq durable'
<1>1. CASE Return(t)
  BY <1>1, DurableReturn
<1>2. CASE Goto(t, "commit") /\ seen' = [seen EXCEPT ![t] = v] /\ UNCHANGED <<lock, op, arg>>
  BY <1>2 DEF TypeOK, DurableInv, Goto
<1>3. CASE Goto(t, "remove") /\ UNCHANGED <<lock, op, arg, seen>>
  BY <1>3 DEF TypeOK, DurableInv, Goto
<1> QED BY <1>1, <1>2, <1>3 DEF AfterGet

\* Every step keeps what is visible durable.
LEMMA DurableStep == TypeOK /\ DurableInv /\ [Next]_vars => DurableInv'
<1> SUFFICES ASSUME TypeOK, DurableInv, [Next]_vars PROVE DurableInv'
  OBVIOUS
<1>1. ASSUME NEW t \in Threads, Start(t) PROVE DurableInv'
  <2>1. PICK o, l, cs : Enter(t, o, l, cs) /\ l # "cache"
    BY <1>1, StartEnters DEF Entry
  <2> QED BY <2>1 DEF Enter, Goto, TypeOK, DurableInv
<1>2. ASSUME NEW t \in Threads, Guard(t) PROVE DurableInv'
  BY <1>2, DurableReturn DEF Guard, Goto, TypeOK, DurableInv
<1>3. ASSUME NEW t \in Threads, lock_doc(t) PROVE DurableInv'
  BY <1>3 DEF lock_doc, Goto, TypeOK, DurableInv
<1>4. ASSUME NEW t \in Threads, CacheHit(t) PROVE DurableInv'
  BY <1>4, DurableAfterGet DEF CacheHit, DurableInv
<1>5. ASSUME NEW t \in Threads, CacheMiss(t) PROVE DurableInv'
  BY <1>5 DEF CacheMiss, Goto, TypeOK, DurableInv
<1>6. ASSUME NEW t \in Threads, ReadAbsent(t) PROVE DurableInv'
  BY <1>6, DurableAfterGet, DocumentFacts DEF ReadAbsent, DurableInv
<1>7. ASSUME NEW t \in Threads, ReadDocument(t) PROVE DurableInv'
  BY <1>7 DEF ReadDocument, Goto, TypeOK, DurableInv
<1>8. ASSUME NEW t \in Threads, FillCache(t) PROVE DurableInv'
  BY <1>8, DurableAfterGet DEF FillCache, DurableInv
<1>9. ASSUME NEW t \in Threads, Commit(t) PROVE DurableInv'
  BY <1>9, MergedFacts DEF Commit, Goto, TypeOK, DurableInv
<1>10. ASSUME NEW t \in Threads, CachePut(t) PROVE DurableInv'
  BY <1>10, MergedFacts, DurableReturn DEF CachePut, DurableInv
<1>11. ASSUME NEW t \in Threads, Remove(t) PROVE DurableInv'
  BY <1>11, DocumentFacts DEF Remove, Goto, TypeOK, DurableInv
<1>12. ASSUME NEW t \in Threads, CachePop(t) PROVE DurableInv'
  BY <1>12, DocumentFacts, DurableReturn DEF CachePop, DurableInv
<1>13. ASSUME NEW t \in Threads, TombstoneKnown(t) PROVE DurableInv'
  BY <1>13, DurableReturn DEF TombstoneKnown, DurableInv
<1>14. ASSUME NEW t \in Threads, TombstoneNew(t) \/ PutTombstone(t) PROVE DurableInv'
  BY <1>14 DEF TombstoneNew, PutTombstone, Goto, TypeOK, DurableInv
<1>15. CASE Evict
  BY <1>15, DocumentFacts DEF Evict, DurableInv, locals
<1>16. CASE Crash
  BY <1>16, DocumentFacts DEF Crash, DurableInv
<1>17. CASE UNCHANGED vars
  BY <1>17 DEF vars, locals, DurableInv
<1>18. ASSUME NEW t \in Threads, IoFails(t) PROVE DurableInv'
  BY <1>18, DurableReturn DEF IoFails, DurableInv
<1>19. ASSUME NEW t \in Threads, GuardReadFails(t) \/ SnapshotReadFails(t)
       PROVE  DurableInv'
  BY <1>19, DocumentFacts DEF GuardReadFails, SnapshotReadFails, Goto, TypeOK, DurableInv
<1> QED
  BY <1>1, <1>2, <1>3, <1>4, <1>5, <1>6, <1>7, <1>8, <1>9, <1>10, <1>11, <1>12,
     <1>13, <1>14, <1>15, <1>16, <1>17, <1>18, <1>19 DEF Next, Proceed

(* No reader is ever handed a change that a crash could take back           *)
(* (put_inner commits before it fills the cache).                           *)
THEOREM DurableFirst == Spec => []DurableBeforeVisible
<1>1. Init => DurableInv
  BY DocumentFacts DEF Init, DurableInv
<1>2. DurableInv => DurableBeforeVisible
  BY DEF DurableInv, DurableBeforeVisible
<1> QED BY <1>1, <1>2, TypeCorrect, DurableStep, PTL DEF Spec

-----------------------------------------------------------------------------
(* Which steps belong to which operation, and what each operation brings.   *)
StepOf ==
    \A t \in Threads :
        /\ pc[t] \in {"guard", "lock"} => op[t] \in LockedOps
        /\ pc[t] = "guard" => op[t] = "merge"
        /\ pc[t] \in {"remove", "pop", "check", "mark"} => op[t] \in UnlockedOps
        /\ pc[t] \in {"commit", "cache"} => op[t] \in {"merge", "compact", "upsert"}
        /\ op[t] \in {"compact"} => arg[t] = {}
        /\ op[t] = "upsert" => arg[t] \subseteq LocalChanges

(* A locked operation that is past lock_doc holds the lock.                 *)
LockHeld ==
    \A t \in Threads :
        op[t] \in LockedOps /\ pc[t] \in {"get", "read", "fill", "commit", "cache"}
            => lock = {t}

(* Two operations in progress are both locked ones, unless disturbed.       *)
Apart ==
    \A t, u \in Threads :
        t # u /\ pc[t] # "idle" /\ pc[u] # "idle" => op[t] \in LockedOps

(* A merge past the tombstone guard: there is no tombstone.                 *)
GuardStillTrue ==
    \A t \in Threads :
        op[t] = "merge" /\ pc[t] \notin {"idle", "guard"} => ~ tombstone

(* What a thread between its get and its put knows is what the table holds. *)
Fresh ==
    \A t \in Threads :
        /\ pc[t] = "fill" => seen[t] = db
        /\ pc[t] = "commit" => seen[t].changes = db.changes
        /\ pc[t] = "cache" => db = Merged(t)

Quiet == \A t \in Threads : pc[t] \notin {"cache", "pop"}

(* The inductive invariant behind the lock: everything above, and the two   *)
(* promises themselves, as long as no unlocked operation has overlapped.    *)
Undisturbed ==
    /\ Apart
    /\ GuardStillTrue
    /\ Fresh
    /\ stored \subseteq db.changes
    /\ Quiet => cache \in {NoDoc, db}

LockInv == StepOf /\ LockHeld /\ (~ disturbed => Undisturbed)

InSection(t) == pc[t] \notin {"idle", "guard", "lock"}

(* One thread at a time between its first store access and its last.        *)
LEMMA Alone ==
    ASSUME TypeOK, LockInv, ~ disturbed, NEW t \in Threads, NEW u \in Threads,
           InSection(t), InSection(u)
    PROVE  t = u
<1> SUFFICES ASSUME t # u PROVE FALSE
  OBVIOUS
<1>1. op[t] \in LockedOps /\ op[u] \in LockedOps
  BY DEF LockInv, Undisturbed, Apart, InSection
<1>2. pc[t] \in {"get", "read", "fill", "commit", "cache"}
  BY <1>1 DEF TypeOK, PCs, InSection, LockInv, StepOf, LockedOps, UnlockedOps
<1>3. pc[u] \in {"get", "read", "fill", "commit", "cache"}
  BY <1>1 DEF TypeOK, PCs, InSection, LockInv, StepOf, LockedOps, UnlockedOps
<1> QED BY <1>1, <1>2, <1>3 DEF LockInv, LockHeld

(* Returning and what follows a get keep StepOf and LockHeld.               *)
LEMMA DisciplineReturn ==
    ASSUME TypeOK, StepOf, LockHeld, NEW t \in Threads, Return(t)
    PROVE  StepOf' /\ LockHeld'
<1>1. StepOf'
  BY DEF TypeOK, StepOf, Return, Goto, LockedOps, UnlockedOps
<1>2. LockHeld'
  BY DEF TypeOK, LockHeld, Return, Goto
<1> QED BY <1>1, <1>2

\* What follows a get keeps to the discipline of the lock.
LEMMA DisciplineAfterGet ==
    ASSUME TypeOK, StepOf, LockHeld, NEW t \in Threads, NEW v, AfterGet(t, v),
           pc[t] \in {"get", "read", "fill"}
    PROVE  StepOf' /\ LockHeld'
<1>1. CASE Return(t)
  BY <1>1, DisciplineReturn
<1>2. CASE /\ op[t] \in {"merge", "upsert"} \/ (op[t] = "compact" /\ v.doc)
           /\ Goto(t, "commit") /\ UNCHANGED <<lock, op, arg>>
  BY <1>2 DEF TypeOK, StepOf, LockHeld, Goto, LockedOps, UnlockedOps
<1>3. CASE /\ op[t] = "tombstone"
           /\ Goto(t, "remove") /\ UNCHANGED <<lock, op, arg, seen>>
  BY <1>3 DEF TypeOK, StepOf, LockHeld, Goto, LockedOps, UnlockedOps
<1> QED BY <1>1, <1>2, <1>3 DEF AfterGet

\* Every step keeps to the discipline of the lock.
LEMMA DisciplineStep ==
    TypeOK /\ StepOf /\ LockHeld /\ [Next]_vars => StepOf' /\ LockHeld'
<1> SUFFICES ASSUME TypeOK, StepOf, LockHeld, [Next]_vars PROVE StepOf' /\ LockHeld'
  OBVIOUS
<1>1. ASSUME NEW t \in Threads, Start(t) PROVE StepOf' /\ LockHeld'
  <2>1. PICK o, l, cs : Enter(t, o, l, cs) /\ Entry(o, l, cs)
    BY <1>1, StartEnters
  <2>2. StepOf'
    BY <2>1 DEF Enter, Entry, Goto, TypeOK, StepOf, LockedOps, UnlockedOps
  <2>3. LockHeld'
    BY <2>1 DEF Enter, Entry, Goto, TypeOK, LockHeld, LockedOps
  <2> QED BY <2>2, <2>3
<1>2. ASSUME NEW t \in Threads, Guard(t) PROVE StepOf' /\ LockHeld'
  BY <1>2, DisciplineReturn
     DEF Guard, Goto, TypeOK, StepOf, LockHeld, LockedOps, UnlockedOps
<1>3. ASSUME NEW t \in Threads, lock_doc(t) PROVE StepOf' /\ LockHeld'
  BY <1>3 DEF lock_doc, Goto, TypeOK, StepOf, LockHeld, LockedOps, UnlockedOps
<1>4. ASSUME NEW t \in Threads, CacheHit(t) PROVE StepOf' /\ LockHeld'
  BY <1>4, DisciplineAfterGet DEF CacheHit
<1>5. ASSUME NEW t \in Threads, CacheMiss(t) PROVE StepOf' /\ LockHeld'
  BY <1>5 DEF CacheMiss, Goto, TypeOK, StepOf, LockHeld
<1>6. ASSUME NEW t \in Threads, ReadAbsent(t) PROVE StepOf' /\ LockHeld'
  BY <1>6, DisciplineAfterGet DEF ReadAbsent
<1>7. ASSUME NEW t \in Threads, ReadDocument(t) PROVE StepOf' /\ LockHeld'
  BY <1>7 DEF ReadDocument, Goto, TypeOK, StepOf, LockHeld
<1>8. ASSUME NEW t \in Threads, FillCache(t) PROVE StepOf' /\ LockHeld'
  BY <1>8, DisciplineAfterGet DEF FillCache
<1>9. ASSUME NEW t \in Threads, Commit(t) PROVE StepOf' /\ LockHeld'
  BY <1>9 DEF Commit, Goto, TypeOK, StepOf, LockHeld
<1>10. ASSUME NEW t \in Threads, CachePut(t) \/ CachePop(t) \/ TombstoneKnown(t)
       PROVE  StepOf' /\ LockHeld'
  BY <1>10, DisciplineReturn DEF CachePut, CachePop, TombstoneKnown
<1>11. ASSUME NEW t \in Threads, Remove(t) PROVE StepOf' /\ LockHeld'
  BY <1>11 DEF Remove, Goto, TypeOK, StepOf, LockHeld
<1>12. ASSUME NEW t \in Threads, TombstoneNew(t) \/ PutTombstone(t)
       PROVE  StepOf' /\ LockHeld'
  <2>1. op[t] \in UnlockedOps
    BY <1>12 DEF TombstoneNew, PutTombstone, StepOf
  <2> QED BY <1>12, <2>1 DEF TombstoneNew, PutTombstone, Goto, TypeOK, StepOf, LockHeld,
                             LockedOps, UnlockedOps
<1>13. CASE Evict \/ UNCHANGED vars
  BY <1>13 DEF Evict, vars, locals, StepOf, LockHeld
<1>14. CASE Crash
  BY <1>14 DEF Crash, StepOf, LockHeld, UnlockedOps
<1>15. ASSUME NEW t \in Threads, IoFails(t) PROVE StepOf' /\ LockHeld'
  BY <1>15, DisciplineReturn DEF IoFails
<1>16. ASSUME NEW t \in Threads, GuardReadFails(t) \/ SnapshotReadFails(t)
       PROVE  StepOf' /\ LockHeld'
  BY <1>16 DEF GuardReadFails, SnapshotReadFails, Goto, TypeOK, StepOf, LockHeld, LockedOps,
               UnlockedOps
<1> QED
  BY <1>1, <1>2, <1>3, <1>4, <1>5, <1>6, <1>7, <1>8, <1>9, <1>10, <1>11, <1>12,
     <1>13, <1>14, <1>15, <1>16 DEF Next, Proceed

(* Thread t returns, or goes on after its get; the rest of the state and    *)
(* the other threads stay as they are, and the cache is what the table says.*)
LEMMA UndisturbedReturn ==
    ASSUME TypeOK, LockInv, ~ disturbed, NEW t \in Threads, Return(t),
           UNCHANGED <<db, tombstone, stored>>, Quiet' => cache' \in {NoDoc, db}
    PROVE  Undisturbed'
<1>1. Apart'
  BY DEF TypeOK, LockInv, Undisturbed, Apart, Return, Goto
<1>2. GuardStillTrue'
  BY DEF TypeOK, LockInv, Undisturbed, GuardStillTrue, Return, Goto
<1>3. Fresh'
  BY DEF TypeOK, LockInv, Undisturbed, Fresh, Return, Goto, Merged
<1> QED BY <1>1, <1>2, <1>3 DEF LockInv, Undisturbed

\* What follows a get leaves an undisturbed document so.
LEMMA UndisturbedAfterGet ==
    ASSUME TypeOK, LockInv, ~ disturbed, NEW t \in Threads, NEW v, AfterGet(t, v),
           pc[t] \in {"get", "read", "fill"}, v.changes = db.changes,
           UNCHANGED <<db, tombstone, stored>>, cache' \in {NoDoc, db}
    PROVE  Undisturbed'
<1>1. CASE Return(t)
  BY <1>1, UndisturbedReturn
<1>2. CASE /\ Goto(t, "commit") /\ seen' = [seen EXCEPT ![t] = v]
           /\ UNCHANGED <<lock, op, arg>>
  <2>1. Apart' /\ GuardStillTrue'
    BY <1>2 DEF TypeOK, LockInv, Undisturbed, Apart, GuardStillTrue, Goto
  <2>2. Fresh'
    BY <1>2 DEF TypeOK, LockInv, Undisturbed, Fresh, Goto, Merged
  <2> QED BY <2>1, <2>2 DEF LockInv, Undisturbed
<1>3. CASE Goto(t, "remove") /\ UNCHANGED <<lock, op, arg, seen>>
  <2>1. Apart' /\ GuardStillTrue'
    BY <1>3 DEF TypeOK, LockInv, Undisturbed, Apart, GuardStillTrue, Goto
  <2>2. Fresh'
    BY <1>3 DEF TypeOK, LockInv, Undisturbed, Fresh, Goto, Merged
  <2> QED BY <2>1, <2>2 DEF LockInv, Undisturbed
<1> QED BY <1>1, <1>2, <1>3 DEF AfterGet

(* Thread t moves on without touching the store.                            *)
LEMMA UndisturbedMove ==
    ASSUME TypeOK, LockInv, ~ disturbed, NEW t \in Threads, pc[t] # "idle",
           NEW l, Goto(t, l), l \notin {"fill", "commit", "cache", "pop"},
           pc[t] \notin {"cache", "pop"},
           op[t] = "merge" => ~ tombstone,
           UNCHANGED <<op, arg, seen, db, cache, tombstone, stored>>
    PROVE  Undisturbed'
<1>1. Apart'
  BY DEF TypeOK, LockInv, Undisturbed, Apart, Goto
<1>2. GuardStillTrue'
  BY DEF TypeOK, LockInv, Undisturbed, GuardStillTrue, Goto
<1>3. Fresh'
  BY DEF TypeOK, LockInv, Undisturbed, Fresh, Goto, Merged
<1>4. Quiet' => Quiet
  BY DEF TypeOK, Quiet, Goto
<1> QED BY <1>1, <1>2, <1>3, <1>4 DEF LockInv, Undisturbed

\* So does every step that does not disturb it.
LEMMA UndisturbedStep ==
    TypeOK /\ LockInv /\ [Next]_vars /\ ~ disturbed' => Undisturbed'
<1> SUFFICES ASSUME TypeOK, LockInv, [Next]_vars, ~ disturbed' PROVE Undisturbed'
  OBVIOUS
<1>a. ~ disturbed
  <2>1. ASSUME NEW t \in Threads, Start(t) PROVE ~ disturbed
    BY <2>1, StartEnters DEF Enter
  <2>2. ASSUME NEW t \in Threads, Proceed(t) PROVE disturbed' = disturbed \/ disturbed'
    BY <2>2 DEF IoFails, GuardReadFails, SnapshotReadFails, Proceed, Guard, lock_doc, CacheHit, CacheMiss, ReadAbsent, ReadDocument,
          FillCache, Commit, CachePut, Remove, CachePop, TombstoneKnown, TombstoneNew,
          PutTombstone
  <2> QED BY <2>1, <2>2 DEF Next, Evict, Crash, vars
<1>b. Undisturbed
  BY <1>a DEF LockInv
<1>c. ASSUME NEW t \in Threads, InSection(t), NEW u \in Threads, u # t
      PROVE  ~ InSection(u)
  BY <1>a, <1>c, Alone
<1>d. ASSUME NEW t \in Threads, InSection(t), pc[t] \notin {"cache", "pop"}
      PROVE  cache \in {NoDoc, db}
  BY <1>b, <1>c, <1>d DEF Undisturbed, Quiet, InSection
<1>1. ASSUME NEW t \in Threads, Start(t) PROVE Undisturbed'
  <2>1. PICK o, l, cs : Enter(t, o, l, cs) /\ Entry(o, l, cs)
    BY <1>1, StartEnters
  <2>0. \A u \in Threads \ {t} : pc[u] # "idle" => o \in LockedOps /\ op[u] \in LockedOps
    BY <2>1, StoreAssumption DEF Enter, TypeOK
  <2>2. Apart'
    BY <1>b, <2>0, <2>1 DEF Enter, Goto, TypeOK, Undisturbed, Apart
  <2>3. GuardStillTrue'
    BY <1>b, <2>1 DEF Enter, Entry, Goto, TypeOK, Undisturbed, GuardStillTrue
  <2>4. Fresh'
    BY <1>b, <2>1 DEF Enter, Entry, Goto, TypeOK, Undisturbed, Fresh, Merged
  <2>5. Quiet' => Quiet
    BY <2>1 DEF Enter, Goto, TypeOK, Quiet
  <2> QED BY <1>b, <2>1, <2>2, <2>3, <2>4, <2>5 DEF Enter, Undisturbed
<1>2. ASSUME NEW t \in Threads, Guard(t) PROVE Undisturbed'
  <2>1. CASE tombstone
    <3>1. Return(t) /\ (Quiet' => Quiet)
      BY <1>2, <2>1 DEF Guard, Return, Goto, TypeOK, Quiet
    <3> QED BY <1>a, <1>b, <1>2, <3>1, UndisturbedReturn DEF Guard, Undisturbed
  <2>2. CASE ~ tombstone
    BY <1>a, <1>2, <2>2, UndisturbedMove DEF Guard
  <2> QED BY <2>1, <2>2
<1>3. ASSUME NEW t \in Threads, lock_doc(t) PROVE Undisturbed'
  BY <1>a, <1>b, <1>3, UndisturbedMove DEF lock_doc, Undisturbed, GuardStillTrue
<1>4. ASSUME NEW t \in Threads, CacheHit(t) PROVE Undisturbed'
  <2>1. cache = db
    BY <1>d, <1>4, DocumentFacts DEF CacheHit, InSection
  <2> QED BY <1>a, <1>4, <2>1, UndisturbedAfterGet DEF CacheHit
<1>5. ASSUME NEW t \in Threads, CacheMiss(t) PROVE Undisturbed'
  BY <1>a, <1>b, <1>5, UndisturbedMove DEF CacheMiss, Undisturbed, GuardStillTrue
<1>6. ASSUME NEW t \in Threads, ReadAbsent(t) PROVE Undisturbed'
  <2>1. db = NoDoc /\ cache \in {NoDoc, db}
    BY <1>d, <1>6, DocumentFacts DEF ReadAbsent, InSection, TypeOK
  <2> QED BY <1>a, <1>6, <2>1, UndisturbedAfterGet DEF ReadAbsent
<1>7. ASSUME NEW t \in Threads, ReadDocument(t) PROVE Undisturbed'
  <2>1. Apart' /\ GuardStillTrue'
    BY <1>b, <1>7 DEF ReadDocument, Goto, TypeOK, Undisturbed, Apart, GuardStillTrue
  <2>2. Fresh'
    BY <1>b, <1>7 DEF ReadDocument, Goto, TypeOK, Undisturbed, Fresh, Merged
  <2>3. cache' \in {NoDoc, db'}
    BY <1>d, <1>7 DEF ReadDocument, InSection
  <2> QED BY <1>b, <1>7, <2>1, <2>2, <2>3 DEF ReadDocument, Undisturbed
<1>8. ASSUME NEW t \in Threads, FillCache(t) PROVE Undisturbed'
  <2>1. seen[t] = db
    BY <1>b, <1>8 DEF FillCache, Undisturbed, Fresh
  <2> QED BY <1>a, <1>8, <2>1, UndisturbedAfterGet DEF FillCache
<1>9. ASSUME NEW t \in Threads, Commit(t) PROVE Undisturbed'
  <2>1. Apart' /\ GuardStillTrue'
    BY <1>b, <1>9 DEF Commit, Goto, TypeOK, Undisturbed, Apart, GuardStillTrue
  <2>2. \A u \in Threads \ {t} : pc'[u] \in {"idle", "guard", "lock"}
    BY <1>c, <1>9 DEF Commit, Goto, TypeOK, InSection
  <2>3. pc'[t] = "cache" /\ db' = Merged(t)'
    BY <1>9 DEF Commit, Goto, TypeOK, Merged
  <2>4. Fresh'
    BY <2>2, <2>3 DEF Fresh
  <2>5. stored' \subseteq db'.changes
    BY <1>b, <1>9, MergedFacts DEF Commit, Undisturbed, Fresh
  <2>6. ~ Quiet'
    BY <2>3 DEF Quiet
  <2> QED BY <2>1, <2>4, <2>5, <2>6 DEF Undisturbed
<1>10. ASSUME NEW t \in Threads, CachePut(t) PROVE Undisturbed'
  <2>1. db = Merged(t)
    BY <1>b, <1>10 DEF CachePut, Undisturbed, Fresh
  <2> QED BY <1>a, <1>10, <2>1, UndisturbedReturn DEF CachePut
<1>11. ASSUME NEW t \in Threads, Remove(t) PROVE Undisturbed'
  <2>1. Apart' /\ GuardStillTrue'
    BY <1>b, <1>11 DEF Remove, Goto, TypeOK, Undisturbed, Apart, GuardStillTrue
  <2>2. \A u \in Threads \ {t} : pc'[u] \in {"idle", "guard", "lock"}
    BY <1>c, <1>11 DEF Remove, Goto, TypeOK, InSection
  <2>3. pc'[t] = "pop"
    BY <1>11 DEF Remove, Goto, TypeOK
  <2>4. Fresh' /\ ~ Quiet'
    BY <2>2, <2>3 DEF Fresh, Quiet
  <2>5. stored' \subseteq db'.changes
    BY <1>11 DEF Remove
  <2> QED BY <2>1, <2>4, <2>5 DEF Undisturbed
<1>12. ASSUME NEW t \in Threads, CachePop(t) PROVE Undisturbed'
  BY <1>a, <1>12, UndisturbedReturn DEF CachePop
<1>13. ASSUME NEW t \in Threads, TombstoneKnown(t) PROVE Undisturbed'
  <2>1. cache \in {NoDoc, db}
    BY <1>d, <1>13 DEF TombstoneKnown, InSection
  <2> QED BY <1>a, <1>13, <2>1, UndisturbedReturn DEF TombstoneKnown
<1>14. ASSUME NEW t \in Threads, TombstoneNew(t) PROVE Undisturbed'
  BY <1>a, <1>14, UndisturbedMove DEF TombstoneNew
<1>15. ASSUME NEW t \in Threads, PutTombstone(t) PROVE Undisturbed'
  <2>1. op[t] \in UnlockedOps
    BY <1>15 DEF PutTombstone, LockInv, StepOf
  <2>2. Apart'
    BY <1>b, <1>15 DEF PutTombstone, Goto, TypeOK, Undisturbed, Apart
  <2>3. GuardStillTrue'
    BY <1>b, <1>15, <2>1 DEF PutTombstone, Goto, TypeOK, Undisturbed, Apart,
                            GuardStillTrue, LockedOps, UnlockedOps
  <2>4. Fresh'
    BY <1>b, <1>15 DEF PutTombstone, Goto, TypeOK, Undisturbed, Fresh, Merged
  <2>5. Quiet' => Quiet
    BY <1>15 DEF PutTombstone, Goto, TypeOK, Quiet
  <2> QED BY <1>b, <1>15, <2>2, <2>3, <2>4, <2>5 DEF PutTombstone, Undisturbed
<1>16. CASE Evict
  BY <1>b, <1>16 DEF Evict, locals, Undisturbed, Apart, GuardStillTrue, Fresh, Quiet, Merged
<1>17. CASE Crash
  BY <1>b, <1>17 DEF Crash, Undisturbed, Apart, GuardStillTrue, Fresh
<1>18. CASE UNCHANGED vars
  BY <1>b, <1>18 DEF vars, locals, Undisturbed, Apart, GuardStillTrue, Fresh, Quiet, Merged
<1>19. ASSUME NEW t \in Threads, IoFails(t) PROVE Undisturbed'
  <2>1. cache \in {NoDoc, db}
    BY <1>d, <1>19 DEF IoFails, InSection
  <2> QED BY <1>a, <1>19, <2>1, UndisturbedReturn DEF IoFails
<1>20. ASSUME NEW t \in Threads, GuardReadFails(t) \/ SnapshotReadFails(t) PROVE FALSE
  BY <1>20 DEF GuardReadFails, SnapshotReadFails
<1> QED
  BY <1>1, <1>2, <1>3, <1>4, <1>5, <1>6, <1>7, <1>8, <1>9, <1>10, <1>11, <1>12,
     <1>13, <1>14, <1>15, <1>16, <1>17, <1>18, <1>19, <1>20 DEF Next, Proceed

\* The invariant of the lock holds throughout.
LEMMA LockInvariant == Spec => []LockInv
<1>1. Init => LockInv
  BY DEF Init, LockInv, StepOf, LockHeld, Undisturbed, Apart, GuardStillTrue, Fresh,
         UnlockedOps
<1>2. TypeOK /\ LockInv /\ [Next]_vars => LockInv'
  BY DisciplineStep, UndisturbedStep DEF LockInv
<1> QED BY <1>1, <1>2, TypeCorrect, PTL DEF Spec

(* Overlapping merges and compactions never lose a committed change.        *)
THEOREM LockKeepsChanges == Spec => []LockedWritesKeepChanges
<1>1. LockInv => LockedWritesKeepChanges
  BY DEF LockInv, Undisturbed, LockedWritesKeepChanges
<1> QED BY <1>1, LockInvariant, PTL

(* The cache agrees with the table whenever nobody is between the two.      *)
THEOREM LockKeepsCacheCoherent == Spec => []CacheCoherent
<1>1. LockInv => CacheCoherent
  BY DEF LockInv, Undisturbed, CacheCoherent, Quiet
<1> QED BY <1>1, LockInvariant, PTL

(* Only a put and a delete write the table.                                 *)
LEMMA TableWrites ==
    ASSUME [Next]_vars
    PROVE  \/ UNCHANGED db
           \/ \E t \in Threads : Commit(t) \/ Remove(t)
<1>1. ASSUME NEW t \in Threads, Start(t) PROVE UNCHANGED db
  BY <1>1, StartEnters DEF Enter
<1>2. ASSUME NEW t \in Threads, Proceed(t), ~ Commit(t), ~ Remove(t) PROVE UNCHANGED db
  BY <1>2 DEF Proceed, Guard, lock_doc, CacheHit, CacheMiss, ReadAbsent, ReadDocument,
        FillCache, CachePut, CachePop, TombstoneKnown, TombstoneNew, PutTombstone,
        IoFails, GuardReadFails, SnapshotReadFails
<1> QED BY <1>1, <1>2 DEF Next, Evict, Crash, vars

(* No synced change enters a tombstoned document unless an operation        *)
(* without the lock has overlapped another (the guards of                   *)
(* receive_sync_message and apply_state_snapshot).                          *)
THEOREM GuardKeepsSyncOut == Spec => TombstoneKeepsSyncOut
<1> DEFINE Out == (~ disturbed' /\ tombstone) =>
                      db'.changes \cap RemoteChanges \subseteq db.changes
<1>1. ASSUME TypeOK, LockInv, [Next]_vars PROVE Out
  <2> SUFFICES ASSUME ~ disturbed', tombstone
               PROVE  db'.changes \cap RemoteChanges \subseteq db.changes
    OBVIOUS
  <2>1. CASE UNCHANGED db
    BY <2>1
  <2>2. ASSUME NEW t \in Threads, Remove(t)
        PROVE  db'.changes \cap RemoteChanges \subseteq db.changes
    BY <2>2, DocumentFacts DEF Remove
  <2>3. ASSUME NEW t \in Threads, Commit(t)
        PROVE  db'.changes \cap RemoteChanges \subseteq db.changes
    <3>1. Undisturbed
      BY <1>1, <2>3 DEF Commit, LockInv
    <3>2. op[t] \in {"compact", "upsert"}
      BY <1>1, <2>3, <3>1 DEF Commit, LockInv, StepOf, Undisturbed, GuardStillTrue
    <3>3. arg[t] \cap RemoteChanges = {}
      BY <1>1, <3>2, StoreAssumption DEF LockInv, StepOf
    <3>4. seen[t].changes = db.changes
      BY <2>3, <3>1 DEF Commit, Undisturbed, Fresh
    <3> QED BY <1>1, <2>3, <3>3, <3>4, MergedFacts DEF Commit
  <2> QED BY <1>1, <2>1, <2>2, <2>3, TableWrites
<1>2. TypeOK /\ LockInv /\ [Next]_vars => [Out]_vars
  BY <1>1
<1>3. [][Out]_vars => TombstoneKeepsSyncOut
  BY DEF TombstoneKeepsSyncOut
<1> QED BY <1>2, <1>3, TypeCorrect, LockInvariant, PTL DEF Spec

-----------------------------------------------------------------------------
(* The garbage collector.                                                  *)

\* A set of natural numbers that is not empty has a least element.
LEMMA LeastNatural ==
    ASSUME NEW S \in SUBSET Nat, S # {}
    PROVE  \E k \in S : \A j \in S : k <= j
<1>1. IsWellFoundedOn(OpToRel(<, Nat), Nat)
  BY NatLessThanWellFounded
<1>2. PICK k \in S : \A j \in S : ~(<<j, k>> \in OpToRel(<, Nat))
  BY <1>1, WFMin
<1>3. ASSUME NEW j \in S PROVE k <= j
  <2>1. ~(<<j, k>> \in OpToRel(<, Nat))
    BY <1>2
  <2>2. ~(j < k)
    BY <2>1 DEF OpToRel
  <2> QED
    BY <2>2
<1> QED
  BY <1>3

\* The collector whose flag is set has a task that runs or waits for its tick,
\* however often it was stopped and started again (start_periodic_gc, stop).
RunningHasTask ==
    running => \E t \in GcTasks : task[t] \in {"waiting", "tombstones"}

\* What GcTypeOK needs to be inductive, and what the tasks hold on to: a document
\* only expires in a counted event, a task has tombstones to remove only during a
\* run, all of them of collections with the Tombstone policy, and while the flag
\* is set some task is there to notice a tick.
GcInv ==
    /\ GcTypeOK
    /\ dueDocs <= gcEvents
    /\ \A t \in GcTasks : due[t] \subseteq Expiring
    /\ \A t \in GcTasks : task[t] # "tombstones" => due[t] = {}
    /\ RunningHasTask

\* No run removes the tombstone of a collection whose policy is not Tombstone, and
\* a tombstone is removed at the step of a task in a run only (run_gc).
OnlyExpiringCollected ==
    [][\A k \in GcKeys : tombAge[k] # NoTombstone /\ tombAge'[k] = NoTombstone
          => k \in Expiring /\ \E t \in GcTasks : task[t] = "tombstones" /\ k \in due[t]]_gcVars

\* The key TaskRemove takes is one of the keys due.
LEMMA RemoveTakesDue ==
    ASSUME GcInv, NEW t \in GcTasks, TaskRemove(t)
    PROVE  \E k \in due[t] : /\ tombAge' = [tombAge EXCEPT ![k] = NoTombstone]
                             /\ due' = [due EXCEPT ![t] = @ \ {k}]
<1>1. due[t] \in SUBSET Nat /\ due[t] # {}
  BY GcAssumption DEF GcInv, GcTypeOK, TaskRemove
<1>2. \E k \in due[t] : \A j \in due[t] : k <= j
  BY <1>1, LeastNatural
<1>3. (CHOOSE k \in due[t] : \A j \in due[t] : k <= j) \in due[t]
  BY <1>2
<1> QED
  BY <1>3 DEF TaskRemove

\* The invariant holds at the start.
LEMMA GcStart == GcInit => GcInv
<1> SUFFICES ASSUME GcInit PROVE GcInv
  OBVIOUS
<1>1. GcTtl \in Nat /\ MaxGcEvents \in Nat
  BY GcAssumption
<1>2. tombAge \in [GcKeys -> (0 .. GcTtl + 1) \cup {NoTombstone}]
  BY <1>1 DEF GcInit
<1>3. dueDocs \in 0 .. MaxGcEvents /\ gcEvents \in 0 .. MaxGcEvents /\ dueDocs <= gcEvents
  BY <1>1 DEF GcInit
<1>4. /\ task \in [GcTasks -> {"unborn", "waiting", "tombstones", "ended"}]
      /\ due \in [GcTasks -> SUBSET GcKeys]
      /\ \A t \in GcTasks : due[t] = {}
  BY DEF GcInit
<1>5. running \in BOOLEAN /\ ~running
  BY DEF GcInit
<1> QED
  BY <1>2, <1>3, <1>4, <1>5 DEF GcInv, GcTypeOK, RunningHasTask

\* Every step preserves the invariant.
LEMMA GcStep == GcInv /\ [GcNext]_gcVars => GcInv'
<1> SUFFICES ASSUME GcInv, [GcNext]_gcVars PROVE GcInv'
  OBVIOUS
<1> USE GcAssumption DEF RunningHasTask
<1>1. ASSUME NEW k \in GcKeys, Entomb(k) PROVE GcInv'
  BY <1>1 DEF GcInv, GcTypeOK, Entomb, Counted
<1>2. ASSUME NEW t \in GcTasks, StartPeriodicGc(t) PROVE GcInv'
  <2>1. due[t] = {} /\ task' = [task EXCEPT ![t] = "waiting"]
    BY <1>2 DEF GcInv, GcTypeOK, StartPeriodicGc
  <2>2. task'[t] = "waiting"
    BY <2>1 DEF GcInv, GcTypeOK
  <2>3. GcTypeOK'
    BY <1>2 DEF GcInv, GcTypeOK, StartPeriodicGc
  <2>4. \A u \in GcTasks : task'[u] # "tombstones" => due'[u] = {}
    BY <1>2, <2>1 DEF GcInv, GcTypeOK, StartPeriodicGc
  <2> QED
    BY <1>2, <2>2, <2>3, <2>4 DEF GcInv, StartPeriodicGc
<1>3. ASSUME NEW t \in GcTasks, TaskTick(t) PROVE GcInv'
  <2>1. {k \in Batch : Expired(k)} \subseteq Expiring
    BY DEF Expired
  <2>2. CASE ~running
    BY <1>3, <2>2 DEF GcInv, GcTypeOK, TaskTick
  <2>3. CASE running
    <3>1. PICK batch \in SUBSET Expiring : due' = [due EXCEPT ![t] = batch]
      BY <1>3, <2>1, <2>3 DEF TaskTick
    <3>2. task' = [task EXCEPT ![t] = "tombstones"]
      BY <1>3, <2>3 DEF TaskTick
    <3>3. UNCHANGED <<tombAge, dueDocs, running, gcEvents>>
      BY <1>3 DEF TaskTick
    <3>4. GcTypeOK'
      BY <3>1, <3>2, <3>3 DEF GcInv, GcTypeOK
    <3>5. \A u \in GcTasks : due'[u] \subseteq Expiring
      BY <3>1 DEF GcInv, GcTypeOK
    <3>6. \A u \in GcTasks : task'[u] # "tombstones" => due'[u] = {}
      BY <3>1, <3>2 DEF GcInv, GcTypeOK
    <3>7. task'[t] = "tombstones"
      BY <3>2 DEF GcInv, GcTypeOK
    <3> QED
      BY <3>3, <3>4, <3>5, <3>6, <3>7 DEF GcInv
  <2> QED
    BY <2>2, <2>3
<1>4. ASSUME NEW t \in GcTasks, TaskRemove(t) PROVE GcInv'
  <2>1. PICK k \in due[t] : /\ tombAge' = [tombAge EXCEPT ![k] = NoTombstone]
                            /\ due' = [due EXCEPT ![t] = @ \ {k}]
    BY <1>4, RemoveTakesDue
  <2>2. UNCHANGED <<dueDocs, running, task, gcEvents>>
    BY <1>4 DEF TaskRemove
  <2>3. GcTypeOK'
    BY <2>1, <2>2 DEF GcInv, GcTypeOK
  <2> QED
    BY <2>1, <2>2, <2>3 DEF GcInv, GcTypeOK
<1>5. ASSUME NEW t \in GcTasks, TaskError(t) PROVE GcInv'
  BY <1>5 DEF GcInv, GcTypeOK, TaskError, Counted
<1>6. ASSUME NEW t \in GcTasks, TaskDocuments(t) PROVE GcInv'
  <2>1. dueDocs' \in 0 .. dueDocs
    BY <1>6 DEF GcInv, GcTypeOK, TaskDocuments
  <2>2. GcTypeOK' /\ dueDocs' <= gcEvents'
    BY <1>6, <2>1 DEF GcInv, GcTypeOK, TaskDocuments
  <2>3. \A u \in GcTasks : task'[u] # "tombstones" => due'[u] = {}
    BY <1>6 DEF GcInv, GcTypeOK, TaskDocuments
  <2>4. RunningHasTask'
    BY <1>6 DEF GcInv, GcTypeOK, TaskDocuments
  <2> QED
    BY <1>6, <2>2, <2>3, <2>4 DEF GcInv, TaskDocuments
<1>7. ASSUME DocumentExpires PROVE GcInv'
  BY <1>7 DEF GcInv, GcTypeOK, DocumentExpires, Counted
<1>8. ASSUME GcTick PROVE GcInv'
  <2>1. tombAge' \in [GcKeys -> (0 .. GcTtl + 1) \cup {NoTombstone}]
    BY <1>8 DEF GcInv, GcTypeOK, GcTick, Entombed
  <2> QED
    BY <1>8, <2>1 DEF GcInv, GcTypeOK, GcTick
<1>9. ASSUME StopGc PROVE GcInv'
  <2>1. running' \in BOOLEAN /\ ~running' /\ UNCHANGED <<tombAge, dueDocs, task, due>>
    BY <1>9 DEF StopGc
  <2>2. gcEvents' \in 0 .. MaxGcEvents /\ dueDocs <= gcEvents'
    BY <1>9 DEF StopGc, Counted, GcInv, GcTypeOK
  <2> QED
    BY <2>1, <2>2 DEF GcInv, GcTypeOK
<1>10. ASSUME UNCHANGED gcVars PROVE GcInv'
  BY <1>10 DEF GcInv, GcTypeOK, gcVars
<1> QED
  BY <1>1, <1>2, <1>3, <1>4, <1>5, <1>6, <1>7, <1>8, <1>9, <1>10 DEF GcNext, TaskStep

\* A tombstone is only removed by a task that has it due.
LEMMA RemovalStep ==
    ASSUME GcInv, [GcNext]_gcVars, NEW k \in GcKeys,
           tombAge[k] # NoTombstone, tombAge'[k] = NoTombstone
    PROVE  k \in Expiring /\ \E t \in GcTasks : task[t] = "tombstones" /\ k \in due[t]
<1> USE GcAssumption
<1>1. ASSUME NEW j \in GcKeys, Entomb(j) PROVE FALSE
  BY <1>1 DEF GcInv, GcTypeOK, Entomb
<1>2. ASSUME GcTick PROVE FALSE
  BY <1>2 DEF GcInv, GcTypeOK, GcTick, Entombed
<1>3. ASSUME NEW t \in GcTasks, TaskRemove(t)
      PROVE  k \in Expiring /\ task[t] = "tombstones" /\ k \in due[t]
  <2>1. PICK j \in due[t] : tombAge' = [tombAge EXCEPT ![j] = NoTombstone]
    BY <1>3, RemoveTakesDue
  <2>2. k = j
    BY <2>1 DEF GcInv, GcTypeOK
  <2> QED
    BY <1>3, <2>2 DEF GcInv, TaskRemove
<1>4. ASSUME UNCHANGED tombAge PROVE FALSE
  BY <1>4
<1> QED
  BY <1>1, <1>2, <1>3, <1>4
     DEF GcNext, TaskStep, StartPeriodicGc, TaskTick, TaskError, TaskDocuments,
         DocumentExpires, StopGc, gcVars

\* The inductive invariant always holds.
LEMMA GcAlways == GcSpec => []GcInv
  BY GcStart, GcStep, PTL DEF GcSpec

\* The collector keeps its types: no age, count or batch leaves its range (run_gc).
THEOREM GcTypeCorrect == GcSpec => []GcTypeOK
<1>1. GcInv => GcTypeOK
  BY DEF GcInv
<1> QED
  BY <1>1, GcAlways, PTL

\* While the flag is set a task is alive (start_periodic_gc, stop).
THEOREM RunningCollectorHasTask == GcSpec => []RunningHasTask
<1>1. GcInv => RunningHasTask
  BY DEF GcInv
<1> QED
  BY <1>1, GcAlways, PTL

\* Runs of any number of tasks, interleaved with deletions, remove tombstones of
\* collections with the Tombstone policy and no others (run_gc).
THEOREM OtherTombstonesStay == GcSpec => OnlyExpiringCollected
<1>1. GcInv /\ [GcNext]_gcVars
      => [\A k \in GcKeys : tombAge[k] # NoTombstone /\ tombAge'[k] = NoTombstone
            => k \in Expiring /\ \E t \in GcTasks : task[t] = "tombstones" /\ k \in due[t]]_gcVars
  BY RemovalStep
<1> QED
  BY <1>1, GcAlways, PTL DEF GcSpec, OnlyExpiringCollected
=============================================================================
