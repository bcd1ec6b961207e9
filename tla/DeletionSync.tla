----------------------------- MODULE DeletionSync -----------------------------
(***************************************************************************)
(* How the deletion of one document spreads over a mesh and how its        *)
(* tombstone is forgotten: the tombstone handlers of the sync coordinator  *)
(* (storage/automerge_sync.rs), the tombstone guard of its receivers, and  *)
(* the tombstone collection of each node (qos/garbage_collection.rs).      *)
(* Tombstones travel to all peers, as for SystemWide and Bidirectional     *)
(* deletions and, without a SyncRouter, for every deletion.                *)
(***************************************************************************)
EXTENDS Naturals, FiniteSets

CONSTANTS
    Places,       \* nodes
    Links,        \* SUBSET (Places \X Places): connections, both directions of each
    DocLinks,     \* SUBSET Links: those on which the document is being synced
    Deletions,    \* 1 .. k: the deletions the applications may make
    NoDeletion,   \* no tombstone
    TombstoneTtl, \* age, in ticks, a tombstone has to exceed to be collected
    MaxUpsets     \* bound on broken connections and local rewrites, together

ASSUME DeletionAssumption ==
    /\ Links \subseteq Places \X Places
    /\ \A l \in Links : l[1] # l[2] /\ <<l[2], l[1]>> \in Links
    /\ DocLinks \subseteq Links
    /\ NoDeletion \notin Deletions
    /\ TombstoneTtl \in Nat
    /\ MaxUpsets \in Nat

VARIABLES
    present,    \* [Places -> BOOLEAN]: the store has the document
    tombstone,  \* [Places -> Deletions \cup {NoDeletion}]: the deletion of the stored tombstone
    age,        \* [Deletions -> 0 .. TombstoneTtl + 1]: ticks since deleted_at, saturating
    made,       \* SUBSET Deletions: the deletions made
    tombMail,   \* SUBSET (Places \X Places \X {"single", "batch"} \X Deletions)
    docMail,    \* SUBSET (Places \X Places): sync messages of the document
    gcFound,    \* [Places -> Deletions \cup {NoDeletion}]: an expired tombstone in the
                \*   collector's snapshot, about to be removed
    upsets,     \* 0 .. MaxUpsets
    buried,     \* [Places -> BOOLEAN]: history, deleted here and not written here since
    collected   \* [Places -> BOOLEAN]: history, the tombstone of that deletion was collected

deletionVars ==
    <<present, tombstone, age, made, tombMail, docMail, gcFound, upsets, buried, collected>>

Neighbours(n) == {m \in Places : <<n, m>> \in Links}
HasTombstone(n) == tombstone[n] # NoDeletion

DeletionInit ==
    /\ present = [n \in Places |-> TRUE]
    /\ tombstone = [n \in Places |-> NoDeletion]
    /\ age = [d \in Deletions |-> 0]
    /\ made = {}
    /\ tombMail = {}
    /\ docMail = {}
    /\ gcFound = [n \in Places |-> NoDeletion]
    /\ upsets = 0
    /\ buried = [n \in Places |-> FALSE]
    /\ collected = [n \in Places |-> FALSE]

\* put_tombstone, which replaces a tombstone that is there, and delete.
Bury(n, d) ==
    /\ tombstone' = [tombstone EXCEPT ![n] = d]
    /\ present' = [present EXCEPT ![n] = FALSE]
    /\ buried' = [buried EXCEPT ![n] = TRUE]
    /\ collected' = [collected EXCEPT ![n] = FALSE]

SingleTo(n, targets, d) == {n} \X targets \X {"single"} \X {d}

\* The application deletes the document; propagate_tombstone_to_all.
Delete(n, d) ==
    /\ d \notin made
    /\ present[n]
    /\ Bury(n, d)
    /\ made' = made \cup {d}
    /\ tombMail' = tombMail \cup SingleTo(n, Neighbours(n), d)
    /\ UNCHANGED <<age, docMail, gcFound, upsets>>

\* The application writes the document again; the store does not look at the
\* tombstone, which stays.
WriteAgain(n) ==
    /\ ~present[n]
    /\ upsets < MaxUpsets
    /\ upsets' = upsets + 1
    /\ present' = [present EXCEPT ![n] = TRUE]
    /\ buried' = [buried EXCEPT ![n] = FALSE]
    /\ UNCHANGED <<tombstone, age, made, tombMail, docMail, gcFound, collected>>

\* send_tombstones_to_peer, by the polling task.
SendTombstones(n, m) ==
    /\ HasTombstone(n)
    /\ tombMail' = tombMail \cup {<<n, m, "batch", tombstone[n]>>}
    /\ UNCHANGED <<present, tombstone, age, made, docMail, gcFound, upsets, buried, collected>>

\* A mutation of ReceiveTombstone: the tombstones of a batch are only read.
ReceiveTombstoneIgnoringBatches(n, m, kind, d) ==
    /\ <<m, n, kind, d>> \in tombMail
    /\ IF kind = "single" /\ ~HasTombstone(n)
       THEN /\ Bury(n, d)
            /\ tombMail' = (tombMail \ {<<m, n, kind, d>>}) \cup SingleTo(n, Neighbours(n) \ {m}, d)
       ELSE /\ tombMail' = tombMail \ {<<m, n, kind, d>>}
            /\ UNCHANGED <<present, tombstone, buried, collected>>
    /\ UNCHANGED <<age, made, docMail, gcFound, upsets>>

\* handle_incoming_tombstone, and handle_incoming_tombstone_batch for each of
\* its tombstones.  apply_tombstone does nothing where there is a tombstone; a
\* single tombstone that was applied is passed on, one of a batch is not.
ReceiveTombstone(n, m, kind, d) ==
    LET arrived == <<m, n, kind, d>>
        rest == tombMail \ {arrived}
    IN  /\ arrived \in tombMail
        /\ \/ /\ HasTombstone(n)
              /\ tombMail' = rest
              /\ UNCHANGED <<present, tombstone, buried, collected>>
           \/ /\ ~HasTombstone(n)
              /\ Bury(n, d)
              /\ tombMail' = IF kind = "single" THEN rest \cup SingleTo(n, Neighbours(n) \ {m}, d)
                             ELSE rest
        /\ UNCHANGED <<age, made, docMail, gcFound, upsets>>

\* The document is synced to a peer.
SendDoc(n, m) ==
    /\ present[n]
    /\ docMail' = docMail \cup {<<n, m>>}
    /\ UNCHANGED <<present, tombstone, age, made, tombMail, gcFound, upsets, buried, collected>>

\* A mutation of ReceiveDoc: no look at the tombstone.
ReceiveDocUnguarded(n, m) ==
    /\ <<m, n>> \in docMail
    /\ docMail' = docMail \ {<<m, n>>}
    /\ present' = [present EXCEPT ![n] = TRUE]
    /\ UNCHANGED <<tombstone, age, made, tombMail, gcFound, upsets, buried, collected>>

\* receive_sync_message and apply_state_snapshot: ignored under a tombstone.
ReceiveDoc(n, m) ==
    /\ <<m, n>> \in docMail
    /\ docMail' = docMail \ {<<m, n>>}
    /\ present' = [present EXCEPT ![n] = @ \/ ~HasTombstone(n)]
    /\ UNCHANGED <<tombstone, age, made, tombMail, gcFound, upsets, buried, collected>>

\* A connection breaks and what is in flight on it is lost.
LoseMail(n, m) ==
    /\ upsets < MaxUpsets
    /\ upsets' = upsets + 1
    /\ tombMail' = {t \in tombMail : {t[1], t[2]} # {n, m}}
    /\ docMail' = {t \in docMail : {t[1], t[2]} # {n, m}}
    /\ UNCHANGED <<present, tombstone, age, made, gcFound, buried, collected>>

\* collect_tombstones reads all tombstones and finds this one expired ...
GcScan(n) ==
    /\ gcFound[n] = NoDeletion
    /\ HasTombstone(n)
    /\ age[tombstone[n]] > TombstoneTtl
    /\ gcFound' = [gcFound EXCEPT ![n] = tombstone[n]]
    /\ UNCHANGED <<present, tombstone, age, made, tombMail, docMail, upsets, buried, collected>>

\* ... and removes, by key, the tombstone that is there by now.
GcRemove(n) ==
    /\ gcFound[n] # NoDeletion
    /\ tombstone' = [tombstone EXCEPT ![n] = NoDeletion]
    /\ collected' = [collected EXCEPT ![n] = TRUE]
    /\ gcFound' = [gcFound EXCEPT ![n] = NoDeletion]
    /\ UNCHANGED <<present, age, made, tombMail, docMail, upsets, buried>>

DeletionTick ==
    /\ \E d \in made : age[d] <= TombstoneTtl
    /\ age' = [d \in Deletions |-> IF d \in made /\ age[d] <= TombstoneTtl THEN age[d] + 1 ELSE age[d]]
    /\ UNCHANGED <<present, tombstone, made, tombMail, docMail, gcFound, upsets, buried, collected>>

DeletionNext ==
    \/ \E n \in Places :
          \/ \E d \in Deletions : Delete(n, d)
          \/ WriteAgain(n) \/ GcScan(n) \/ GcRemove(n)
    \/ \E l \in Links :
          \/ SendTombstones(l[1], l[2]) \/ ReceiveDoc(l[1], l[2]) \/ LoseMail(l[1], l[2])
          \/ \E kind \in {"single", "batch"}, d \in Deletions : ReceiveTombstone(l[1], l[2], kind, d)
    \/ \E l \in DocLinks : SendDoc(l[1], l[2])
    \/ DeletionTick

DeletionSpec == DeletionInit /\ [][DeletionNext]_deletionVars

DeletionTypeOK ==
    /\ present \in [Places -> BOOLEAN]
    /\ tombstone \in [Places -> Deletions \cup {NoDeletion}]
    /\ age \in [Deletions -> 0 .. TombstoneTtl + 1]
    /\ made \subseteq Deletions
    /\ tombMail \subseteq Places \X Places \X {"single", "batch"} \X Deletions
    /\ docMail \subseteq Places \X Places
    /\ gcFound \in [Places -> Deletions \cup {NoDeletion}]
    /\ upsets \in 0 .. MaxUpsets
    /\ buried \in [Places -> BOOLEAN]
    /\ collected \in [Places -> BOOLEAN]

\* A document that was deleted at a node and is back there without having been
\* written there came back only because its tombstone was collected: late and
\* overtaken sync messages do not bring it back before (ReceiveDoc, GcRemove).
NoResurrectionBeforeGc ==
    \A n \in Places : present[n] /\ buried[n] => collected[n]

\* A deletion reaches every node, unless a tombstone is collected first,
\* although those that come in batches are not passed on at once and those in
\* flight are lost with a connection (ReceiveTombstone, LoseMail).
DeletionSpreads ==
    (\E n \in Places : HasTombstone(n))
        ~> (\A n \in Places : HasTombstone(n)) \/ (\E n \in Places : collected[n])
=============================================================================
