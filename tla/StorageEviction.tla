---------------------------- MODULE StorageEviction ----------------------------
(***************************************************************************)
(* Eviction under storage pressure: the service (qos/eviction_service.rs), *)
(* its controller (qos/eviction.rs) and the tracking of documents          *)
(* (qos/storage.rs).  The service's task and an operator's force_eviction  *)
(* may run cycles at the same time, while documents are put and registered *)
(* and the operator protects them.  Sizes are counted in documents, and    *)
(* which of the eligible documents the retention policies and the scores   *)
(* pick is left open.  The service sets no compression callback, so a      *)
(* cycle compresses nothing.                                               *)
(***************************************************************************)
EXTENDS Naturals, FiniteSets

CONSTANTS
    Stock,         \* keys of documents
    Critical,      \* SUBSET Stock: those of QoSClass::Critical collections
    Cycles,        \* the tasks that run cycles: the service's and the operator's
    Service,       \* the service's, in Cycles
    NoDocument,
    Threshold,     \* documents at which the pressure reaches the threshold
    Target,        \* documents at the target pressure
    MaxPuts        \* bound on puts and registrations

ASSUME EvictionAssumption ==
    /\ Critical \subseteq Stock
    /\ Service \in Cycles
    /\ NoDocument \notin Stock
    /\ {Threshold, Target, MaxPuts} \subseteq Nat

VARIABLES
    inStore,         \* documents of the AutomergeStore
    tracked,         \* keys of QoSAwareStorage.documents
    flagged,         \* tracked documents with StoredDocument.protected
    protected_docs,  \* EvictionController.protected_docs
    marking,         \* documents between the two writes of mark_protected
    unmarking,       \* documents between the two writes of unmark_protected
    candidates,      \* [Cycles -> SUBSET Stock]: candidates still to visit
    evicting,        \* [Cycles -> the document past the check, or NoDocument]
    deleted,         \* [Cycles -> BOOLEAN]: it is out of the store, still tracked
    needed,          \* [Cycles -> documents still to be freed]
    shielded,        \* history: documents that were stored and past no check
                     \* when their protection began, which lasts
    puts

evictionVars == <<inStore, tracked, flagged, protected_docs, marking, unmarking,
                  candidates, evicting, deleted, needed, shielded, puts>>
cycleVars == <<candidates, evicting, deleted, needed>>
trackVars == <<tracked, flagged>>

EvictionInit ==
    /\ inStore = {} /\ tracked = {} /\ flagged = {}
    /\ protected_docs = {} /\ marking = {} /\ unmarking = {}
    /\ candidates = [c \in Cycles |-> {}]
    /\ evicting = [c \in Cycles |-> NoDocument]
    /\ deleted = [c \in Cycles |-> FALSE]
    /\ needed = [c \in Cycles |-> 0]
    /\ shielded = {}
    /\ puts = 0

CountPut == puts < MaxPuts /\ puts' = puts + 1

PutDocument(d) ==
    /\ CountPut
    /\ inStore' = inStore \cup {d}
    /\ UNCHANGED <<trackVars, protected_docs, marking, unmarking, cycleVars, shielded>>

\* register_document: a new StoredDocument, which is not protected, replaces
\* the one that may be there.
RegisterDocument(d) ==
    /\ CountPut
    /\ d \in inStore
    /\ tracked' = tracked \cup {d}
    /\ flagged' = flagged \ {d}
    /\ UNCHANGED <<inStore, protected_docs, marking, unmarking, cycleVars, shielded>>

UnregisterDocument(d) ==
    /\ d \in tracked
    /\ tracked' = tracked \ {d}
    /\ flagged' = flagged \ {d}
    /\ UNCHANGED <<inStore, protected_docs, marking, unmarking, cycleVars, shielded, puts>>

\* mark_protected inserts into protected_docs, then flags the tracked document.
MarkProtected(d) ==
    /\ d \notin marking \cup unmarking
    /\ protected_docs' = protected_docs \cup {d}
    /\ marking' = marking \cup {d}
    /\ shielded' = IF d \in inStore /\ \A c \in Cycles : evicting[c] # d
                   THEN shielded \cup {d} ELSE shielded
    /\ UNCHANGED <<inStore, trackVars, unmarking, cycleVars, puts>>

FlagProtected(d) ==
    /\ d \in marking
    /\ marking' = marking \ {d}
    /\ flagged' = IF d \in tracked THEN flagged \cup {d} ELSE flagged
    /\ UNCHANGED <<inStore, tracked, protected_docs, unmarking, cycleVars, shielded, puts>>

UnmarkProtected(d) ==
    /\ d \in protected_docs \ (marking \cup unmarking)
    /\ protected_docs' = protected_docs \ {d}
    /\ unmarking' = unmarking \cup {d}
    /\ shielded' = shielded \ {d}
    /\ UNCHANGED <<inStore, trackVars, marking, cycleVars, puts>>

UnflagProtected(d) ==
    /\ d \in unmarking
    /\ unmarking' = unmarking \ {d}
    /\ flagged' = flagged \ {d}
    /\ UNCHANGED <<inStore, tracked, protected_docs, marking, cycleVars, shielded, puts>>

Eligible == tracked \ (Critical \cup flagged)

Resting(c) == candidates[c] = {} /\ evicting[c] = NoDocument

\* The candidates of get_eviction_candidates: of those the retention policies
\* let go, the first by score that free the bytes needed.
Select(c, n) ==
    /\ Resting(c)
    /\ \E S \in SUBSET Eligible :
          /\ S # {} /\ Cardinality(S) <= n
          /\ candidates' = [candidates EXCEPT ![c] = S]
    /\ needed' = [needed EXCEPT ![c] = n]
    /\ UNCHANGED <<inStore, trackVars, protected_docs, marking, unmarking, evicting, deleted, shielded, puts>>

\* The service's tick: should_evict and run_eviction_cycle.
RunEvictionCycle ==
    /\ Cardinality(tracked) >= Threshold
    /\ Cardinality(tracked) > Target
    /\ Select(Service, Cardinality(tracked) - Target)

ForceEviction(c) == \E n \in 1 .. Cardinality(Stock) : Select(c, n)

\* A mutation of CheckCandidate: the flags of QoSAwareStorage are believed.
CheckCandidateUnguarded(c) ==
    /\ evicting[c] = NoDocument
    /\ \E d \in candidates[c] :
          /\ candidates' = [candidates EXCEPT ![c] = @ \ {d}]
          /\ evicting' = [evicting EXCEPT ![c] = d]
    /\ UNCHANGED <<inStore, trackVars, protected_docs, marking, unmarking, deleted, needed, shielded, puts>>

\* The next candidate: skipped when the operator protects it.
CheckCandidate(c) ==
    /\ evicting[c] = NoDocument
    /\ \E d \in candidates[c] :
          /\ candidates' = [candidates EXCEPT ![c] = @ \ {d}]
          /\ evicting' = [evicting EXCEPT ![c] = IF d \in protected_docs THEN NoDocument ELSE d]
    /\ UNCHANGED <<inStore, trackVars, protected_docs, marking, unmarking, deleted, needed, shielded, puts>>

\* The eviction callback deletes the document, or fails and the cycle goes on.
EvictionCallback(c) ==
    /\ evicting[c] # NoDocument /\ ~deleted[c]
    /\ \/ /\ inStore' = inStore \ {evicting[c]}
          /\ deleted' = [deleted EXCEPT ![c] = TRUE]
          /\ UNCHANGED evicting
       \/ /\ evicting' = [evicting EXCEPT ![c] = NoDocument]
          /\ UNCHANGED <<inStore, deleted>>
    /\ UNCHANGED <<trackVars, protected_docs, marking, unmarking, candidates, needed, shielded, puts>>

\* unregister_document; the cycle ends when enough is freed.
UntrackEvicted(c) ==
    /\ deleted[c]
    /\ tracked' = tracked \ {evicting[c]}
    /\ flagged' = flagged \ {evicting[c]}
    /\ needed' = [needed EXCEPT ![c] = @ - 1]
    /\ candidates' = [candidates EXCEPT ![c] = IF needed[c] = 1 THEN {} ELSE @]
    /\ evicting' = [evicting EXCEPT ![c] = NoDocument]
    /\ deleted' = [deleted EXCEPT ![c] = FALSE]
    /\ UNCHANGED <<inStore, protected_docs, marking, unmarking, shielded, puts>>

\* The limits of a cycle, or the end of its candidates.
CycleStops(c) ==
    /\ evicting[c] = NoDocument /\ candidates[c] # {}
    /\ candidates' = [candidates EXCEPT ![c] = {}]
    /\ UNCHANGED <<inStore, trackVars, protected_docs, marking, unmarking, evicting, deleted, needed, shielded, puts>>

EvictionNext ==
    \/ \E d \in Stock : \/ PutDocument(d) \/ RegisterDocument(d) \/ UnregisterDocument(d)
                        \/ MarkProtected(d) \/ FlagProtected(d)
                        \/ UnmarkProtected(d) \/ UnflagProtected(d)
    \/ RunEvictionCycle
    \/ \E c \in Cycles \ {Service} : ForceEviction(c)
    \/ \E c \in Cycles : CheckCandidate(c) \/ EvictionCallback(c) \/ UntrackEvicted(c) \/ CycleStops(c)

EvictionSpec == EvictionInit /\ [][EvictionNext]_evictionVars

EvictionTypeOK ==
    /\ {inStore, tracked, flagged, protected_docs, marking, unmarking, shielded} \subseteq SUBSET Stock
    /\ candidates \in [Cycles -> SUBSET Stock]
    /\ evicting \in [Cycles -> Stock \cup {NoDocument}]
    /\ deleted \in [Cycles -> BOOLEAN]
    /\ needed \in [Cycles -> Nat]
    /\ puts \in 0 .. MaxPuts

\* A document the operator protects stays in the store, unless a cycle was past
\* its check when the protection began: although registering it again clears
\* the flag that keeps it out of get_eviction_candidates, although cycles hold
\* lists of candidates from before, and whatever the service and the operator
\* run at the same time (mark_protected: "Protected documents will never be
\* evicted by automatic cycles").
ProtectedSurvives == shielded \subseteq inStore
=============================================================================
