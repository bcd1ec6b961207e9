--------------------------- MODULE GarbageCollector ---------------------------
(***************************************************************************)
(* The garbage collector (qos/garbage_collection.rs): start_periodic_gc,   *)
(* stop and the runs of run_gc against a GcStore that others write to.     *)
(* A run reads all tombstones, keeps the first tombstone_batch_size of     *)
(* them, and removes those that are expired one by one; then it hard-      *)
(* deletes expired documents of the ImplicitTTL collections.               *)
(***************************************************************************)
EXTENDS Naturals, FiniteSets

CONSTANTS
    GcKeys,       \* 1 .. n: the keys, in the order get_all_tombstones returns them
    Expiring,     \* SUBSET GcKeys: those of collections with the Tombstone policy
    BatchSize,    \* tombstone_batch_size
    DocBatch,     \* document_batch_size
    GcTtl,        \* tombstone_ttl, in ticks
    GcTasks,      \* identities of the tasks start_periodic_gc spawns
    NoTombstone,  \* the age of a tombstone that is not there
    MaxGcEvents   \* bound on deletions, stops, store errors and expiring documents

ASSUME GcAssumption ==
    /\ GcKeys \subseteq Nat
    /\ Expiring \subseteq GcKeys
    /\ {BatchSize, DocBatch, GcTtl, MaxGcEvents} \subseteq Nat
    /\ NoTombstone \notin Nat

VARIABLES
    tombAge,   \* [GcKeys -> 0 .. GcTtl + 1 \cup {NoTombstone}]: age of the tombstone, saturating
    dueDocs,   \* expired documents of the ImplicitTTL collections
    running,   \* the flag of the collector
    task,      \* [GcTasks -> {"unborn", "waiting", "tombstones", "ended"}]
    due,       \* [GcTasks -> SUBSET GcKeys]: expired tombstones of the batch, still to be removed
    gcEvents   \* 0 .. MaxGcEvents

gcVars == <<tombAge, dueDocs, running, task, due, gcEvents>>

Entombed == {k \in GcKeys : tombAge[k] # NoTombstone}
Expired(k) == k \in Entombed \cap Expiring /\ tombAge[k] > GcTtl

\* A mutation of Batch: one tombstone less.
BatchOneLess == {k \in Entombed : Cardinality({j \in Entombed : j < k}) + 1 < BatchSize}

\* tombstones.iter().take(tombstone_batch_size).
Batch == {k \in Entombed : Cardinality({j \in Entombed : j < k}) < BatchSize}

GcInit ==
    /\ tombAge \in [GcKeys -> {0, NoTombstone}]
    /\ dueDocs = 0
    /\ running = FALSE
    /\ task = [t \in GcTasks |-> "unborn"]
    /\ due = [t \in GcTasks |-> {}]
    /\ gcEvents = 0

Counted == gcEvents < MaxGcEvents /\ gcEvents' = gcEvents + 1

\* A deletion puts a tombstone, replacing one that is there.
Entomb(k) ==
    /\ Counted
    /\ tombAge' = [tombAge EXCEPT ![k] = 0]
    /\ UNCHANGED <<dueDocs, running, task, due>>

DocumentExpires ==
    /\ Counted
    /\ dueDocs' = dueDocs + 1
    /\ UNCHANGED <<tombAge, running, task, due>>

GcTick ==
    /\ \E k \in Entombed : tombAge[k] <= GcTtl
    /\ tombAge' = [k \in GcKeys |->
                     IF k \in Entombed /\ tombAge[k] <= GcTtl THEN tombAge[k] + 1 ELSE tombAge[k]]
    /\ UNCHANGED <<dueDocs, running, task, due, gcEvents>>

\* start_periodic_gc: sets the flag, whatever it is, and spawns a task.
StartPeriodicGc(t) ==
    /\ task[t] = "unborn"
    /\ running' = TRUE
    /\ task' = [task EXCEPT ![t] = "waiting"]
    /\ UNCHANGED <<tombAge, dueDocs, due, gcEvents>>

StopGc ==
    /\ running
    /\ Counted
    /\ running' = FALSE
    /\ UNCHANGED <<tombAge, dueDocs, task, due>>

\* A mutation of TaskTick: a tick without the flag is skipped.
TaskTickSkipping(t) ==
    /\ task[t] = "waiting"
    /\ running
    /\ task' = [task EXCEPT ![t] = "tombstones"]
    /\ due' = [due EXCEPT ![t] = {k \in Batch : Expired(k)}]
    /\ UNCHANGED <<tombAge, dueDocs, running, gcEvents>>

\* The ticker of a task fires: the loop ends, or run_gc reads the tombstones.
TaskTick(t) ==
    /\ task[t] = "waiting"
    /\ \/ /\ ~running
          /\ task' = [task EXCEPT ![t] = "ended"]
          /\ UNCHANGED due
       \/ /\ running
          /\ task' = [task EXCEPT ![t] = "tombstones"]
          /\ due' = [due EXCEPT ![t] = {k \in Batch : Expired(k)}]
    /\ UNCHANGED <<tombAge, dueDocs, running, gcEvents>>

\* remove_tombstone, by key, of the next expired tombstone of the batch.
TaskRemove(t) ==
    /\ task[t] = "tombstones"
    /\ due[t] # {}
    /\ LET k == CHOOSE k \in due[t] : \A j \in due[t] : k <= j
       IN  /\ tombAge' = [tombAge EXCEPT ![k] = NoTombstone]
           /\ due' = [due EXCEPT ![t] = @ \ {k}]
    /\ UNCHANGED <<dueDocs, running, task, gcEvents>>

\* The store reports an error, which ends the collection of tombstones.
TaskError(t) ==
    /\ task[t] = "tombstones"
    /\ due[t] # {}
    /\ Counted
    /\ due' = [due EXCEPT ![t] = {}]
    /\ UNCHANGED <<tombAge, dueDocs, running, task>>

\* collect_expired_documents, some of whose hard deletions may fail, then the
\* test of the loop.
TaskDocuments(t) ==
    /\ task[t] = "tombstones"
    /\ due[t] = {}
    /\ \E gone \in 0 .. (IF dueDocs < DocBatch THEN dueDocs ELSE DocBatch) : dueDocs' = dueDocs - gone
    /\ task' = [task EXCEPT ![t] = IF running THEN "waiting" ELSE "ended"]
    /\ UNCHANGED <<tombAge, running, due, gcEvents>>

TaskStep(t) == TaskTick(t) \/ TaskRemove(t) \/ TaskDocuments(t)

GcNext ==
    \/ \E k \in GcKeys : Entomb(k)
    \/ \E t \in GcTasks : StartPeriodicGc(t) \/ TaskStep(t) \/ TaskError(t)
    \/ DocumentExpires \/ GcTick \/ StopGc

GcSpec == GcInit /\ [][GcNext]_gcVars

GcTypeOK ==
    /\ tombAge \in [GcKeys -> (0 .. GcTtl + 1) \cup {NoTombstone}]
    /\ dueDocs \in 0 .. MaxGcEvents
    /\ running \in BOOLEAN
    /\ task \in [GcTasks -> {"unborn", "waiting", "tombstones", "ended"}]
    /\ due \in [GcTasks -> SUBSET GcKeys]
    /\ gcEvents \in 0 .. MaxGcEvents

\* Expired tombstones are all collected in the end although a run only looks at
\* the first batch, as long as tombstones of other policies, which are never
\* collected, leave room in it; unless the collector is stopped (Batch, TaskTick).
ExpiredAreCollected ==
    running /\ Cardinality(GcKeys \ Expiring) < BatchSize
        ~> (~running \/ \A k \in GcKeys : ~Expired(k))

\* Once the collector is stopped for good every task ends, those of earlier
\* starts too, even when it was stopped and started between two ticks of a task
\* or started twice (TaskTick, TaskDocuments).
StopEndsTasks ==
    <>[](~running) => <>[](\A t \in GcTasks : task[t] \in {"unborn", "ended"})
=============================================================================
