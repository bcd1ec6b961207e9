---------------------------- MODULE SyncInitiate ----------------------------
(***************************************************************************)
(* The outgoing half of AutomergeSyncCoordinator                           *)
(* (src/storage/automerge_sync.rs): concurrent tasks that run              *)
(* initiate_sync or sync_documents_batch towards peers, each guarded by    *)
(* the circuit breaker (SyncErrors) and, for initiate_sync, by the flow    *)
(* controller (FlowControl).  Every step is one lock acquisition of the    *)
(* code or the awaited send between them; other tasks run in between.      *)
(***************************************************************************)
EXTENDS SyncErrors, FlowControl

CONSTANTS Tasks       \* concurrent callers of the coordinator

VARIABLES
    pc,          \* where the task is in its call
    op,          \* "one" (initiate_sync) or "batch" (sync_documents_batch)
    target,      \* peer_id of the call
    docs,        \* doc_keys of the call
    open_sends   \* history: sends each task began to the peer while its circuit
                 \* has been open, since it last opened or half-opened

calls == <<pc, op, target, docs>>
vars == <<health, flow, calls, open_sends>>

PCs == {"idle", "rate", "cooldown", "build", "send", "ok", "record", "failed"}

TypeOK ==
    /\ HealthTypeOK
    /\ FlowTypeOK
    /\ pc \in [Tasks -> PCs]
    /\ op \in [Tasks -> {"one", "batch"}]
    /\ target \in [Tasks -> Peers]
    /\ docs \in [Tasks -> SUBSET Docs]
    /\ open_sends \in [Peers -> [Tasks -> 0 .. 2]]

Init ==
    /\ HealthInit
    /\ FlowInit
    /\ pc = [t \in Tasks |-> "idle"]
    /\ op = [t \in Tasks |-> "one"]
    /\ target \in [Tasks -> Peers]
    /\ docs = [t \in Tasks |-> {}]
    /\ open_sends = [p \in Peers |-> [t \in Tasks |-> 0]]

Goto(t, l) == pc' = [pc EXCEPT ![t] = l]

(* The call returns: its locals are gone.                                   *)
Return(t) ==
    /\ Goto(t, "idle")
    /\ op' = [op EXCEPT ![t] = "one"]
    /\ docs' = [docs EXCEPT ![t] = {}]
    /\ UNCHANGED target

Call(t, o, p, ds) ==
    /\ op' = [op EXCEPT ![t] = o]
    /\ target' = [target EXCEPT ![t] = p]
    /\ docs' = [docs EXCEPT ![t] = ds]

(* A send that begins although the circuit is open by then.                 *)
CountSend(t) ==
    open_sends' = [open_sends EXCEPT ![target[t]][t] =
        IF is_circuit_open(target[t]) THEN Capped(@, 2) ELSE @]

-----------------------------------------------------------------------------
(* A sync that does not ask the breaker.                                    *)
StartSyncUnguarded(t, p, d) ==
    /\ pc[t] = "idle"
    /\ Call(t, "one", p, {d})
    /\ Goto(t, "rate")
    /\ UNCHANGED <<health, flow, open_sends>>

(* initiate_sync: refused at once when the circuit is open.                 *)
StartSync(t, p, d) ==
    /\ pc[t] = "idle"
    /\ ~ is_circuit_open(p)
    /\ Call(t, "one", p, {d})
    /\ Goto(t, "rate")
    /\ UNCHANGED <<health, flow, open_sends>>

(* check_sync_allowed, first lock: the token of the peer's bucket.          *)
TakeToken(t) ==
    /\ pc[t] = "rate"
    /\ try_acquire_ok(target[t])
    /\ Goto(t, "cooldown")
    /\ UNCHANGED <<health, op, target, docs, open_sends>>

RateLimited(t) ==
    /\ pc[t] = "rate"
    /\ try_acquire_limited(target[t])
    /\ Return(t)
    /\ UNCHANGED <<health, open_sends>>

(* check_sync_allowed, second lock: the cooldown.  The token stays spent.   *)
CooldownPassed(t) ==
    /\ pc[t] = "cooldown"
    /\ \A d \in docs[t] : ~ in_cooldown(target[t], d)
    /\ Goto(t, "send")
    /\ CountSend(t)
    /\ UNCHANGED <<health, flow, op, target, docs>>

CooldownActive(t) ==
    /\ pc[t] = "cooldown"
    /\ \E d \in docs[t] : in_cooldown(target[t], d)
    /\ Return(t)
    /\ UNCHANGED <<health, flow, open_sends>>

(* sync_documents_batch asks the breaker and not the flow controller.       *)
StartBatch(t, p, ds) ==
    /\ pc[t] = "idle"
    /\ ~ is_circuit_open(p)
    /\ Call(t, "batch", p, ds)
    /\ Goto(t, "build")
    /\ UNCHANGED <<health, flow, open_sends>>

(* create_batch_for_documents, then the send; or nothing to send.           *)
SendBatch(t) ==
    /\ pc[t] = "build"
    /\ Goto(t, "send")
    /\ CountSend(t)
    /\ UNCHANGED <<health, flow, op, target, docs>>

BatchEmpty(t) ==
    /\ pc[t] = "build"
    /\ Return(t)
    /\ UNCHANGED <<health, flow, open_sends>>

(* The awaited send returns Ok or Err.                                      *)
SendReturns(t) ==
    /\ pc[t] = "send"
    /\ \E l \in {"ok", "failed"} : Goto(t, l)
    /\ UNCHANGED <<health, flow, op, target, docs, open_sends>>

RecordSuccess(t) ==
    /\ pc[t] = "ok"
    /\ record_success(target[t])
    /\ Goto(t, "record")
    /\ UNCHANGED <<flow, op, target, docs, open_sends>>

RecordSync(t) ==
    /\ pc[t] = "record"
    /\ record_sync(target[t], docs[t])
    /\ Return(t)
    /\ UNCHANGED <<health, open_sends>>

(* The error kinds the two callers derive from the error's text.            *)
ErrorKinds(o) == IF o = "one" THEN SyncErrorKinds ELSE SyncErrorKinds \ {"Document"}

HandleError(t, e) ==
    /\ pc[t] = "failed"
    /\ e \in ErrorKinds(op[t])
    /\ handle_error(target[t], e)
    /\ Return(t)
    /\ open_sends' = [open_sends EXCEPT ![target[t]] =
          IF circuit_state'[target[t]] = circuit_state[target[t]]
          THEN @ ELSE [u \in Tasks |-> 0]]
    /\ UNCHANGED flow

(* Operator call; nothing in the crate makes it.                            *)
ResetPeer(p) ==
    /\ reset_peer(p)
    /\ open_sends' = [open_sends EXCEPT ![p] = [u \in Tasks |-> 0]]
    /\ UNCHANGED <<flow, calls>>

Tick ==
    /\ AgeCircuits
    /\ AgeFlow
    /\ UNCHANGED <<calls, open_sends>>

Start(t) ==
    \E p \in Peers :
        \/ \E d \in Docs : StartSync(t, p, d)
        \/ \E ds \in (SUBSET Docs) \ {{}} : StartBatch(t, p, ds)

Proceed(t) ==
    \/ TakeToken(t)
    \/ RateLimited(t)
    \/ CooldownPassed(t)
    \/ CooldownActive(t)
    \/ SendBatch(t)
    \/ BatchEmpty(t)
    \/ SendReturns(t)
    \/ RecordSuccess(t)
    \/ RecordSync(t)
    \/ \E e \in SyncErrorKinds : HandleError(t, e)

Next ==
    \/ \E t \in Tasks : Start(t) \/ Proceed(t)
    \/ \E p \in Peers : ResetPeer(p)
    \/ Tick

Spec == Init /\ [][Next]_vars

(***************************************************************************)
(* Fairness: a task that is in a call goes on (tokio polls it, and a send  *)
(* ends because QUIC times out), callers keep asking for syncs (the change *)
(* notifications and the periodic sync do), a batch is not empty for ever  *)
(* (callers name documents that just changed), and time passes.            *)
(***************************************************************************)
Fairness ==
    /\ \A t \in Tasks : WF_vars(Start(t)) /\ WF_vars(Proceed(t)) /\ SF_vars(SendBatch(t))
    /\ WF_vars(Tick)

FairSpec == Spec /\ Fairness

-----------------------------------------------------------------------------
(* A circuit that lets syncs through has seen fewer consecutive failures    *)
(* than the threshold: no path (a late success, a reset, a close from       *)
(* half-open) leaves it closed with the count reached (handle_error,        *)
(* record_success).                                                         *)
ClosedBelowThreshold ==
    \A p \in Peers :
        circuit_state[p] = "Closed" => consecutive_failures[p] < FailureThreshold

(* circuit_opened_at is set exactly while the circuit is not closed; an     *)
(* open circuit without a stamp could never half-open (sync_errors.rs 404). *)
StampedUnlessClosed ==
    \A p \in Peers : opened_ago[p] = NotOpened <=> circuit_state[p] = "Closed"

(* handle_error answers CircuitBreakerOpen exactly when it leaves the       *)
(* circuit open, and the answer stays true until the next one.              *)
VerdictMatchesCircuit ==
    \A p \in Peers : verdict[p] # "None" =>
        (verdict[p] = "CircuitBreakerOpen" <=> circuit_state[p] = "Open")

(* However checks, opens and sends interleave, a task begins at most one    *)
(* send to a peer while its circuit stays open: the one whose check passed  *)
(* before the circuit opened (initiate_sync 745, sync_documents_batch 1828).*)
OneSendPerOpening ==
    \A p \in Peers, t \in Tasks : open_sends[p][t] <= 1

ClosedByProbes ==
    \A p \in Peers :
        circuit_state[p] # "Closed" /\ circuit_state'[p] = "Closed" =>
            probes'[p] = SuccessThreshold \/ ResetPeer(p)

(* A circuit closes only after SuccessThreshold successes recorded while it *)
(* was half-open with no failure among them, or by reset_peer: successes    *)
(* counted before or while it was open never add up to a close.             *)
CloseNeedsProbes == [][ClosedByProbes]_vars

(* A half-open circuit does not stay half-open: syncs keep getting past the *)
(* token bucket and the cooldown and decide it, closed or open again.       *)
HalfOpenResolves ==
    \A p \in Peers : circuit_state[p] = "HalfOpen" ~> circuit_state[p] # "HalfOpen"

(* What open_timeout promises: an open circuit is tried again after it      *)
(* (sync_errors.rs 237).                                                    *)
OpenIsTriedAgain ==
    \A p \in Peers : circuit_state[p] = "Open" ~> circuit_state[p] # "Open"
=============================================================================
