------------------------- MODULE SyncCallProofs -------------------------
(***************************************************************************)
(* Proofs about the calls that synchronize with a peer and the connections *)
(* they go over. SyncInitiate, for any sets of peers, documents and tasks  *)
(* and any thresholds, timeouts and bucket sizes: the circuit breaker is   *)
(* consistent and lets one send through per opening and caller.            *)
(* MeshConnections, for any connections and breaks: the map of connections *)
(* holds none that nobody serves, those of get_or_connect aside.           *)
(***************************************************************************)
EXTENDS SyncInitiate, MeshConnections, TLAPS

-----------------------------------------------------------------------------
\* Counting up to a cap stays within it and above zero.
LEMMA CappedFacts ==
    ASSUME NEW cap \in Nat, NEW n \in 0 .. cap
    PROVE  /\ Capped(n, cap) \in 0 .. cap
           /\ cap > 0 => Capped(n, cap) > 0
           /\ Capped(n, cap) >= n
BY DEF Capped

\* The first send is counted as one.
LEMMA CappedOnce == Capped(0, 2) = 1
BY DEF Capped

\* The marker of a circuit that has not opened is no age.
LEMMA NotOpenedFacts ==
    /\ NotOpened \in Nat
    /\ 0 \in 0 .. NotOpened /\ 0 # NotOpened
    /\ \A n \in 0 .. NotOpened : n < OpenTimeout => n + 1 \in 0 .. NotOpened /\ n + 1 # NotOpened
BY ThresholdAssumption DEF NotOpened

(* The breaker's operations keep the health records well typed.             *)
LEMMA record_failure_typed ==
    ASSUME HealthTypeOK, NEW p \in Peers, record_failure(p)
    PROVE  /\ consecutive_failures' \in [Peers -> 0 .. FailureThreshold]
           /\ consecutive_successes' \in [Peers -> 0 .. SuccessThreshold]
           /\ consecutive_failures'[p] >= 1
<1>1. /\ consecutive_failures \in [Peers -> 0 .. FailureThreshold]
      /\ consecutive_successes \in [Peers -> 0 .. SuccessThreshold]
      /\ FailureThreshold \in Nat \ {0} /\ SuccessThreshold \in Nat
  BY ThresholdAssumption DEF HealthTypeOK
<1>2. Capped(consecutive_failures[p], FailureThreshold) \in 1 .. FailureThreshold
  BY <1>1, CappedFacts
<1> QED
  BY <1>1, <1>2 DEF record_failure

\* handle_error keeps the types.
LEMMA handle_error_typed ==
    ASSUME HealthTypeOK, NEW p \in Peers, NEW e, handle_error(p, e)
    PROVE  HealthTypeOK'
<1>1. /\ consecutive_failures' \in [Peers -> 0 .. FailureThreshold]
      /\ consecutive_successes' \in [Peers -> 0 .. SuccessThreshold]
  BY record_failure_typed DEF handle_error
<1>2. retry_attempt[p] \in 0 .. MaxAttempts /\ Capped(retry_attempt[p], MaxAttempts) \in 0 .. MaxAttempts
  BY ThresholdAssumption, CappedFacts DEF HealthTypeOK
<1>3. 0 \in 0 .. MaxAttempts /\ 0 \in 0 .. SuccessThreshold
  BY ThresholdAssumption
<1>4. CASE StayOpen(p)
  BY <1>1, <1>2, <1>4 DEF HealthTypeOK, StayOpen, Verdicts
<1>5. CASE GoHalfOpen(p)
  BY <1>1, <1>3, <1>5 DEF HealthTypeOK, GoHalfOpen, Verdicts, CircuitStates
<1>6. CASE OpenCircuit(p)
  BY <1>1, <1>2, <1>6, NotOpenedFacts DEF HealthTypeOK, OpenCircuit, Verdicts, CircuitStates
<1>7. CASE StayClosed(p, e)
  BY <1>1, <1>2, <1>7 DEF HealthTypeOK, StayClosed, Verdicts
<1> QED BY <1>4, <1>5, <1>6, <1>7 DEF handle_error, Reopen, Trip

\* record_success keeps the types.
LEMMA record_success_typed ==
    ASSUME HealthTypeOK, NEW p \in Peers, record_success(p)
    PROVE  HealthTypeOK'
<1>1. /\ Capped(consecutive_successes[p], SuccessThreshold) \in 0 .. SuccessThreshold
      /\ Capped(probes[p], SuccessThreshold) \in 0 .. SuccessThreshold
      /\ 0 \in 0 .. MaxAttempts /\ 0 \in 0 .. FailureThreshold
      /\ NotOpened \in 0 .. NotOpened
  BY ThresholdAssumption, CappedFacts, NotOpenedFacts DEF HealthTypeOK
<1>2. /\ circuit_state' \in [Peers -> CircuitStates]
      /\ opened_ago' \in [Peers -> 0 .. NotOpened]
  BY <1>1 DEF HealthTypeOK, record_success, CloseCircuit, KeepCircuit, CircuitStates
<1> QED BY <1>1, <1>2 DEF HealthTypeOK, record_success

\* reset_peer keeps the types.
LEMMA reset_peer_typed ==
    ASSUME HealthTypeOK, NEW p \in Peers, reset_peer(p)
    PROVE  HealthTypeOK'
<1>1. /\ 0 \in 0 .. MaxAttempts /\ 0 \in 0 .. FailureThreshold /\ 0 \in 0 .. SuccessThreshold
      /\ NotOpened \in 0 .. NotOpened
  BY ThresholdAssumption, NotOpenedFacts
<1> QED BY <1>1 DEF HealthTypeOK, reset_peer, CircuitStates, Verdicts

\* So does the passing of time.
LEMMA AgeCircuitsTyped == HealthTypeOK /\ AgeCircuits => HealthTypeOK'
BY NotOpenedFacts DEF HealthTypeOK, AgeCircuits

(* So do the flow controller's.                                             *)
LEMMA HorizonFacts ==
    /\ RefillHorizon \in Nat
    /\ NoBucket = RefillHorizon + 1
    /\ NeverSynced \in Nat
BY FlowAssumption DEF RefillHorizon, NoBucket, NeverSynced

\* A refilled bucket is not fuller than its capacity.
LEMMA RefilledTyped ==
    ASSUME FlowTypeOK, NEW p \in Peers
    PROVE  Refilled(p) \in 0 .. Capacity /\ RefillAge(p) \in 0 .. NoBucket
<1>1. refill_ago[p] \in Nat /\ tokens[p] \in Nat
  BY HorizonFacts, FlowAssumption DEF FlowTypeOK
<1>2. Periods(p) \in Nat
  BY <1>1, FlowAssumption DEF Periods
<1>3. Periods(p) * TokensPerRefill \in Nat
  BY <1>2, FlowAssumption
<1>4. Refilled(p) \in 0 .. Capacity
  BY <1>1, <1>3, FlowAssumption DEF Refilled
<1>5. RefillAge(p) \in 0 .. NoBucket
  BY HorizonFacts DEF RefillAge, FlowTypeOK
<1> QED BY <1>4, <1>5

\* Taking a token and recording a sync keep the types.
LEMMA FlowTyped ==
    ASSUME FlowTypeOK, NEW p \in Peers, NEW ds,
           try_acquire_ok(p) \/ try_acquire_limited(p) \/ record_sync(p, ds)
    PROVE  FlowTypeOK'
<1>1. CASE try_acquire_ok(p)
  <2>1. Refilled(p) - 1 \in 0 .. Capacity
    BY <1>1, RefilledTyped, FlowAssumption DEF try_acquire_ok
  <2> QED BY <1>1, <2>1, RefilledTyped DEF FlowTypeOK, try_acquire_ok
<1>2. CASE try_acquire_limited(p)
  BY <1>2, RefilledTyped DEF FlowTypeOK, try_acquire_limited
<1>3. CASE record_sync(p, ds)
  <2>1. 0 \in 0 .. NeverSynced
    BY HorizonFacts
  <2> QED BY <1>3, <2>1 DEF FlowTypeOK, record_sync
<1> QED BY <1>1, <1>2, <1>3

\* So does the passing of time.
LEMMA AgeFlowTyped == FlowTypeOK /\ AgeFlow => FlowTypeOK'
<1> SUFFICES ASSUME FlowTypeOK, AgeFlow PROVE FlowTypeOK'
  OBVIOUS
<1>1. refill_ago' \in [Peers -> 0 .. NoBucket]
  BY HorizonFacts DEF FlowTypeOK, AgeFlow
<1>2. synced_ago' \in [Peers \X Docs -> 0 .. NeverSynced]
  BY HorizonFacts DEF FlowTypeOK, AgeFlow
<1> QED BY <1>1, <1>2 DEF FlowTypeOK, AgeFlow

-----------------------------------------------------------------------------
CallsTypeOK ==
    /\ pc \in [Tasks -> PCs]
    /\ op \in [Tasks -> {"one", "batch"}]
    /\ target \in [Tasks -> Peers]
    /\ docs \in [Tasks -> SUBSET Docs]

SendsTypeOK == open_sends \in [Peers -> [Tasks -> 0 .. 2]]

\* A task that returns is idle.
LEMMA ReturnTyped ==
    ASSUME CallsTypeOK, NEW t \in Tasks, Return(t)
    PROVE  CallsTypeOK'
BY DEF CallsTypeOK, Return, Goto, PCs

\* Counting a send keeps the count in its range.
LEMMA CountSendTyped ==
    ASSUME CallsTypeOK, SendsTypeOK, NEW t \in Tasks, CountSend(t)
    PROVE  SendsTypeOK'
<1>1. target[t] \in Peers /\ open_sends[target[t]] \in [Tasks -> 0 .. 2]
  BY DEF CallsTypeOK, SendsTypeOK
<1>2. Capped(open_sends[target[t]][t], 2) \in 0 .. 2
  BY <1>1, CappedFacts
<1> QED BY <1>1, <1>2 DEF CountSend, SendsTypeOK

\* Every step of a call, of a reset and of the clock keeps the types.
LEMMA TypeStep == TypeOK /\ [Next]_vars => TypeOK'
<1> SUFFICES ASSUME HealthTypeOK, FlowTypeOK, CallsTypeOK, SendsTypeOK, [Next]_vars
             PROVE  HealthTypeOK' /\ FlowTypeOK' /\ CallsTypeOK' /\ SendsTypeOK'
  BY DEF TypeOK, CallsTypeOK, SendsTypeOK
<1> DEFINE Goal == HealthTypeOK' /\ FlowTypeOK' /\ CallsTypeOK' /\ SendsTypeOK'
<1>h. ASSUME UNCHANGED health PROVE HealthTypeOK'
  BY <1>h DEF health, HealthTypeOK
<1>f. ASSUME UNCHANGED flow PROVE FlowTypeOK'
  BY <1>f DEF flow, FlowTypeOK
<1>s. ASSUME UNCHANGED open_sends PROVE SendsTypeOK'
  BY <1>s DEF SendsTypeOK
<1>t. ASSUME NEW t \in Tasks PROVE target[t] \in Peers
  BY DEF CallsTypeOK
<1>1. ASSUME NEW t \in Tasks, NEW p \in Peers, NEW d \in Docs, StartSync(t, p, d) PROVE Goal
  BY <1>1, <1>h, <1>f, <1>s DEF StartSync, Call, Goto, CallsTypeOK, PCs
<1>2. ASSUME NEW t \in Tasks, NEW p \in Peers, NEW ds \in SUBSET Docs, StartBatch(t, p, ds)
      PROVE  Goal
  BY <1>2, <1>h, <1>f, <1>s DEF StartBatch, Call, Goto, CallsTypeOK, PCs
<1>3. ASSUME NEW t \in Tasks, TakeToken(t) PROVE Goal
  <2>1. CallsTypeOK'
    BY <1>3 DEF TakeToken, Goto, CallsTypeOK, PCs
  <2> QED BY <1>3, <1>t, <1>h, <1>s, <2>1, FlowTyped DEF TakeToken
<1>4. ASSUME NEW t \in Tasks, RateLimited(t) PROVE Goal
  BY <1>4, <1>t, <1>h, <1>s, FlowTyped, ReturnTyped DEF RateLimited
<1>5. ASSUME NEW t \in Tasks, CooldownPassed(t) \/ SendBatch(t) PROVE Goal
  <2>1. CallsTypeOK'
    BY <1>5 DEF CooldownPassed, SendBatch, Goto, CallsTypeOK, PCs
  <2> QED BY <1>5, <1>h, <1>f, <2>1, CountSendTyped DEF CooldownPassed, SendBatch
<1>6. ASSUME NEW t \in Tasks, CooldownActive(t) \/ BatchEmpty(t) PROVE Goal
  BY <1>6, <1>h, <1>f, <1>s, ReturnTyped DEF CooldownActive, BatchEmpty
<1>7. ASSUME NEW t \in Tasks, SendReturns(t) PROVE Goal
  BY <1>7, <1>h, <1>f, <1>s DEF SendReturns, Goto, CallsTypeOK, PCs
<1>8. ASSUME NEW t \in Tasks, RecordSuccess(t) PROVE Goal
  <2>1. CallsTypeOK'
    BY <1>8 DEF RecordSuccess, Goto, CallsTypeOK, PCs
  <2> QED BY <1>8, <1>t, <1>f, <1>s, <2>1, record_success_typed DEF RecordSuccess
<1>9. ASSUME NEW t \in Tasks, RecordSync(t) PROVE Goal
  BY <1>9, <1>t, <1>h, <1>s, FlowTyped, ReturnTyped DEF RecordSync
<1>10. ASSUME NEW t \in Tasks, NEW e \in SyncErrorKinds, HandleError(t, e) PROVE Goal
  <2>1. SendsTypeOK'
    BY <1>10, <1>t DEF HandleError, SendsTypeOK
  <2> QED BY <1>10, <1>t, <1>f, <2>1, handle_error_typed, ReturnTyped DEF HandleError
<1>11. ASSUME NEW p \in Peers, ResetPeer(p) PROVE Goal
  <2>1. SendsTypeOK' /\ CallsTypeOK'
    BY <1>11 DEF ResetPeer, SendsTypeOK, CallsTypeOK, calls
  <2> QED BY <1>11, <1>f, <2>1, reset_peer_typed DEF ResetPeer
<1>12. CASE Tick
  <2>1. SendsTypeOK' /\ CallsTypeOK'
    BY <1>12 DEF Tick, SendsTypeOK, CallsTypeOK, calls
  <2> QED BY <1>12, <2>1, AgeCircuitsTyped, AgeFlowTyped DEF Tick
<1>13. CASE UNCHANGED vars
  <2>1. CallsTypeOK'
    BY <1>13 DEF vars, calls, CallsTypeOK
  <2> QED BY <1>13, <1>h, <1>f, <1>s, <2>1 DEF vars
<1> QED
  BY <1>1, <1>2, <1>3, <1>4, <1>5, <1>6, <1>7, <1>8, <1>9, <1>10, <1>11, <1>12, <1>13
  DEF Next, Start, Proceed

(* Every state is well typed: counters stay within the thresholds they are  *)
(* compared with, and a bucket never holds more tokens than its capacity.   *)
THEOREM TypeCorrect == Spec => []TypeOK
<1>1. Init => TypeOK
  <2>1. Init => HealthTypeOK
    BY ThresholdAssumption, NotOpenedFacts
       DEF Init, HealthInit, HealthTypeOK, CircuitStates, Verdicts
  <2>2. Init => FlowTypeOK
    BY FlowAssumption, HorizonFacts DEF Init, FlowInit, FlowTypeOK
  <2> QED BY <2>1, <2>2 DEF Init, TypeOK, PCs
<1> QED BY <1>1, TypeStep, PTL DEF Spec

-----------------------------------------------------------------------------
(* While half-open, the successes the breaker counts are exactly the probes.*)
HalfOpenCounts ==
    \A p \in Peers :
        circuit_state[p] = "HalfOpen" => consecutive_successes[p] = probes[p]

(* The inductive invariant of the breaker.                                  *)
BreakerInv ==
    /\ ClosedBelowThreshold
    /\ StampedUnlessClosed
    /\ VerdictMatchesCircuit
    /\ HalfOpenCounts

\* handle_error keeps the record of a circuit consistent,
LEMMA handle_error_keeps ==
    ASSUME HealthTypeOK, BreakerInv, NEW p \in Peers, NEW e, handle_error(p, e)
    PROVE  BreakerInv'
<1> USE DEF BreakerInv, ClosedBelowThreshold, StampedUnlessClosed, VerdictMatchesCircuit,
            HalfOpenCounts
<1>1. /\ \A q \in Peers \ {p} : consecutive_failures'[q] = consecutive_failures[q]
      /\ \A q \in Peers \ {p} : consecutive_successes'[q] = consecutive_successes[q]
      /\ consecutive_successes'[p] = 0
  BY ThresholdAssumption DEF handle_error, record_failure, HealthTypeOK
<1>2. CASE StayOpen(p)
  BY <1>1, <1>2 DEF StayOpen, HealthTypeOK
<1>3. CASE GoHalfOpen(p)
  BY <1>1, <1>3 DEF GoHalfOpen, HealthTypeOK
<1>4. CASE OpenCircuit(p)
  BY <1>1, <1>4, NotOpenedFacts DEF OpenCircuit, HealthTypeOK
<1>5. CASE StayClosed(p, e)
  BY <1>1, <1>5 DEF StayClosed, HealthTypeOK
<1> QED BY <1>2, <1>3, <1>4, <1>5 DEF handle_error, Reopen, Trip

\* so does record_success,
LEMMA record_success_keeps ==
    ASSUME HealthTypeOK, BreakerInv, NEW p \in Peers, record_success(p)
    PROVE  BreakerInv'
<1> USE DEF BreakerInv, ClosedBelowThreshold, StampedUnlessClosed, VerdictMatchesCircuit,
            HalfOpenCounts
<1>1. CASE CloseCircuit(p)
  BY <1>1, ThresholdAssumption DEF record_success, CloseCircuit, HealthTypeOK
<1>2. CASE KeepCircuit(p)
  BY <1>2, ThresholdAssumption DEF record_success, KeepCircuit, HealthTypeOK
<1> QED BY <1>1, <1>2 DEF record_success

\* so does reset_peer,
LEMMA reset_peer_keeps ==
    ASSUME HealthTypeOK, BreakerInv, NEW p \in Peers, reset_peer(p)
    PROVE  BreakerInv'
BY ThresholdAssumption DEF reset_peer, HealthTypeOK, BreakerInv, ClosedBelowThreshold,
   StampedUnlessClosed, VerdictMatchesCircuit, HalfOpenCounts

\* and so does the passing of time.
LEMMA AgeCircuitsKeeps == HealthTypeOK /\ BreakerInv /\ AgeCircuits => BreakerInv'
<1> SUFFICES ASSUME HealthTypeOK, BreakerInv, AgeCircuits PROVE BreakerInv'
  OBVIOUS
<1>1. \A p \in Peers : opened_ago'[p] = NotOpened <=> opened_ago[p] = NotOpened
  BY ThresholdAssumption DEF AgeCircuits, HealthTypeOK, NotOpened
<1> QED BY <1>1 DEF AgeCircuits, BreakerInv, ClosedBelowThreshold, StampedUnlessClosed,
                    VerdictMatchesCircuit, HalfOpenCounts

(* Which steps touch the health records.                                    *)
LEMMA HealthSteps ==
    ASSUME TypeOK, [Next]_vars
    PROVE  \/ UNCHANGED health
           \/ \E p \in Peers : \E e \in SyncErrorKinds : handle_error(p, e)
           \/ \E p \in Peers : record_success(p)
           \/ \E p \in Peers : ResetPeer(p)
           \/ AgeCircuits
<1>1. ASSUME NEW t \in Tasks PROVE target[t] \in Peers
  BY DEF TypeOK
<1>2. ASSUME NEW t \in Tasks, Start(t) PROVE UNCHANGED health
  BY <1>2 DEF Start, StartSync, StartBatch
<1>3. ASSUME NEW t \in Tasks, Proceed(t)
      PROVE  \/ UNCHANGED health
             \/ \E e \in SyncErrorKinds : handle_error(target[t], e)
             \/ record_success(target[t])
  BY <1>3 DEF Proceed, TakeToken, RateLimited, CooldownPassed, CooldownActive, SendBatch,
       BatchEmpty, SendReturns, RecordSuccess, RecordSync, HandleError
<1> QED BY <1>1, <1>2, <1>3 DEF Next, Tick, vars

\* The records of all circuits are consistent throughout.
LEMMA BreakerInvariant == Spec => []BreakerInv
<1>1. Init => BreakerInv
  BY ThresholdAssumption DEF Init, HealthInit, BreakerInv, ClosedBelowThreshold,
     StampedUnlessClosed, VerdictMatchesCircuit, HalfOpenCounts
<1>2. TypeOK /\ BreakerInv /\ [Next]_vars => BreakerInv'
  <2> SUFFICES ASSUME TypeOK, BreakerInv, [Next]_vars PROVE BreakerInv'
    OBVIOUS
  <2>1. CASE UNCHANGED health
    BY <2>1 DEF health, BreakerInv, ClosedBelowThreshold, StampedUnlessClosed,
       VerdictMatchesCircuit, HalfOpenCounts
  <2>2. HealthTypeOK
    BY DEF TypeOK
  <2> QED BY <2>1, <2>2, HealthSteps, handle_error_keeps, record_success_keeps,
             reset_peer_keeps, AgeCircuitsKeeps DEF ResetPeer
<1> QED BY <1>1, <1>2, TypeCorrect, PTL DEF Spec

(* The breaker's three state invariants, for every configuration.           *)
THEOREM BreakerCorrect ==
    Spec => [](ClosedBelowThreshold /\ StampedUnlessClosed /\ VerdictMatchesCircuit)
<1>1. BreakerInv => ClosedBelowThreshold /\ StampedUnlessClosed /\ VerdictMatchesCircuit
  BY DEF BreakerInv
<1> QED BY <1>1, BreakerInvariant, PTL

(* A circuit that is not closed has the time it opened: handle_error never  *)
(* finds it open without a circuit_opened_at to measure the timeout from,   *)
(* which would leave it open for ever.                                      *)
THEOREM OpenCircuitsStamped == Spec => []StampedUnlessClosed
<1> QED BY BreakerCorrect, PTL

(* What handle_error last answered agrees with the circuit it leaves.       *)
THEOREM VerdictsAgree == Spec => []VerdictMatchesCircuit
<1> QED BY BreakerCorrect, PTL

(* Successes counted before or while the circuit was open never close it:   *)
(* only SuccessThreshold probes of a half-open circuit do, or reset_peer.   *)
THEOREM ClosingNeedsProbes == Spec => CloseNeedsProbes
<1>1. ASSUME TypeOK, BreakerInv, [Next]_vars PROVE ClosedByProbes
  <2> SUFFICES ASSUME NEW p \in Peers,
                      circuit_state[p] # "Closed", circuit_state'[p] = "Closed"
               PROVE  probes'[p] = SuccessThreshold \/ ResetPeer(p)
    BY DEF ClosedByProbes
  <2>0. HealthTypeOK
    BY <1>1 DEF TypeOK
  <2>1. ASSUME NEW q \in Peers, NEW e, handle_error(q, e) PROVE FALSE
    BY <2>0, <2>1 DEF handle_error, StayOpen, GoHalfOpen, Reopen, Trip, OpenCircuit,
       StayClosed, HealthTypeOK
  <2>2. ASSUME NEW q \in Peers, record_success(q) PROVE probes'[p] = SuccessThreshold
    <3>1. q = p /\ CloseCircuit(p)
      BY <2>0, <2>2 DEF record_success, CloseCircuit, KeepCircuit, HealthTypeOK
    <3>2. consecutive_successes[p] = probes[p]
      BY <1>1, <3>1 DEF CloseCircuit, BreakerInv, HalfOpenCounts
    <3>3. probes'[p] = consecutive_successes'[p]
      BY <2>0, <2>2, <3>1, <3>2 DEF record_success, CloseCircuit, HealthTypeOK
    <3>4. HealthTypeOK'
      BY <2>0, <2>2, record_success_typed
    <3> QED BY <3>1, <3>3, <3>4, ThresholdAssumption DEF CloseCircuit, HealthTypeOK
  <2>3. ASSUME NEW q \in Peers, ResetPeer(q) PROVE ResetPeer(p)
    BY <2>0, <2>3 DEF ResetPeer, reset_peer, HealthTypeOK
  <2>4. ~ UNCHANGED health /\ ~ AgeCircuits
    BY DEF health, AgeCircuits
  <2> QED BY <1>1, <2>1, <2>2, <2>3, <2>4, HealthSteps
<1>2. TypeOK /\ BreakerInv /\ [Next]_vars => [ClosedByProbes]_vars
  BY <1>1
<1> QED BY <1>2, TypeCorrect, BreakerInvariant, PTL DEF Spec, CloseNeedsProbes

-----------------------------------------------------------------------------
(* Strengthening of OneSendPerOpening: the history is empty unless the      *)
(* circuit is open, and a task that has spent its send is not on the way to *)
(* another one.                                                             *)
Approaching(t, p) == pc[t] \in {"rate", "cooldown", "build"} /\ target[t] = p

SendInv ==
    \A p \in Peers, t \in Tasks :
        /\ circuit_state[p] # "Open" => open_sends[p][t] = 0
        /\ open_sends[p][t] <= 1
        /\ Approaching(t, p) => open_sends[p][t] = 0

\* A task that sends under an open circuit has not passed a check since.
LEMMA SendStep == TypeOK /\ SendInv /\ [Next]_vars => SendInv'
<1> SUFFICES ASSUME TypeOK, SendInv, [Next]_vars PROVE SendInv'
  OBVIOUS
<1> USE DEF SendInv, Approaching
<1>0. /\ pc \in [Tasks -> PCs] /\ target \in [Tasks -> Peers]
      /\ open_sends \in [Peers -> [Tasks -> 0 .. 2]]
      /\ circuit_state \in [Peers -> CircuitStates]
  BY DEF TypeOK, HealthTypeOK
<1>1. ASSUME NEW t \in Tasks, Start(t) PROVE SendInv'
  <2>1. PICK p \in Peers, l \in PCs : /\ circuit_state[p] # "Open"
                                      /\ Goto(t, l)
                                      /\ target' = [target EXCEPT ![t] = p]
                                      /\ UNCHANGED <<health, open_sends>>
    BY <1>1 DEF Start, StartSync, StartBatch, Call, is_circuit_open, PCs
  <2> QED BY <1>0, <2>1 DEF Goto, health
<1>2. ASSUME NEW t \in Tasks, NEW l, Goto(t, l), target' = target,
             l \in {"rate", "cooldown", "build"} => pc[t] \in {"rate", "cooldown", "build"},
             UNCHANGED <<circuit_state, open_sends>>
      PROVE  SendInv'
  BY <1>0, <1>2 DEF Goto
<1>3. ASSUME NEW t \in Tasks, CooldownPassed(t) \/ SendBatch(t) PROVE SendInv'
  <2>1. /\ pc[t] \in {"cooldown", "build"}
        /\ Goto(t, "send") /\ CountSend(t)
        /\ UNCHANGED <<target, circuit_state>>
    BY <1>3 DEF CooldownPassed, SendBatch, health
  <2>2. open_sends[target[t]][t] = 0
    BY <1>0, <2>1
  <2> QED BY <1>0, <2>1, <2>2, CappedOnce DEF CountSend, Goto, is_circuit_open
<1>4. ASSUME NEW t \in Tasks, RecordSuccess(t) PROVE SendInv'
  <2>1. \A p \in Peers : circuit_state'[p] # "Open" => circuit_state[p] # "Open"
    BY <1>0, <1>4 DEF RecordSuccess, record_success, CloseCircuit, KeepCircuit
  <2> QED BY <1>0, <1>4, <2>1 DEF RecordSuccess, Goto
<1>5. ASSUME NEW t \in Tasks, NEW e, HandleError(t, e) PROVE SendInv'
  <2> DEFINE p == target[t]
  <2>1. \A q \in Peers \ {p} : circuit_state'[q] = circuit_state[q]
    BY <1>0, <1>5 DEF HandleError, handle_error, StayOpen, GoHalfOpen, Reopen, Trip,
       OpenCircuit, StayClosed
  <2>2. \A q \in Peers, u \in Tasks :
            open_sends'[q][u] = IF q = p /\ circuit_state'[p] # circuit_state[p]
                                THEN 0 ELSE open_sends[q][u]
    BY <1>0, <1>5 DEF HandleError
  <2>3. /\ target' = target
        /\ \A u \in Tasks : pc'[u] = IF u = t THEN "idle" ELSE pc[u]
    BY <1>0, <1>5 DEF HandleError, Return, Goto
  <2> SUFFICES ASSUME NEW q \in Peers, NEW u \in Tasks
               PROVE  /\ circuit_state'[q] # "Open" => open_sends'[q][u] = 0
                      /\ open_sends'[q][u] <= 1
                      /\ Approaching(u, q)' => open_sends'[q][u] = 0
    BY Zenon DEF SendInv
  <2>4. /\ circuit_state[q] # "Open" => open_sends[q][u] = 0
        /\ open_sends[q][u] <= 1
        /\ Approaching(u, q) => open_sends[q][u] = 0
    BY Zenon DEF SendInv
  <2>5. Approaching(u, q)' => Approaching(u, q)
    BY <2>3 DEF Approaching
  <2>6. p \in Peers
    BY <1>0
  <2> HIDE DEF p, SendInv, Approaching
  <2>7. \/ open_sends'[q][u] = 0
        \/ open_sends'[q][u] = open_sends[q][u] /\ circuit_state'[q] = circuit_state[q]
    BY <2>1, <2>2, <2>6, Zenon
  <2>8. CASE open_sends'[q][u] = 0
    BY <2>8
  <2>9. CASE open_sends'[q][u] = open_sends[q][u] /\ circuit_state'[q] = circuit_state[q]
    BY <2>4, <2>5, <2>9, Zenon
  <2> QED BY <2>7, <2>8, <2>9, Zenon
<1>6. ASSUME NEW p \in Peers, ResetPeer(p) PROVE SendInv'
  BY <1>0, <1>6 DEF ResetPeer, reset_peer, calls
<1>7. ASSUME NEW t \in Tasks, TakeToken(t) \/ RateLimited(t) \/ CooldownActive(t)
                 \/ BatchEmpty(t) \/ SendReturns(t) \/ RecordSync(t)
      PROVE  SendInv'
  <2>1. PICK l : /\ Goto(t, l) /\ target' = target
                 /\ l \in {"rate", "cooldown", "build"} =>
                        pc[t] \in {"rate", "cooldown", "build"}
                 /\ UNCHANGED <<circuit_state, open_sends>>
    BY <1>7 DEF TakeToken, RateLimited, CooldownActive, BatchEmpty, SendReturns,
       RecordSync, Return, health
  <2> QED BY <1>2, <2>1
<1>8. CASE Tick \/ UNCHANGED vars
  BY <1>8 DEF Tick, AgeCircuits, vars, calls, health
<1> QED BY <1>1, <1>3, <1>4, <1>5, <1>6, <1>7, <1>8 DEF Next, Proceed

(* However many tasks run and however checks, opens and sends interleave, a *)
(* task begins at most one send to a peer while its circuit stays open.     *)
THEOREM AtMostOneSendPerOpening == Spec => []OneSendPerOpening
<1>1. Init => SendInv
  BY DEF Init, HealthInit, SendInv, Approaching
<1>2. SendInv => OneSendPerOpening
  BY DEF SendInv, OneSendPerOpening
<1> QED BY <1>1, <1>2, SendStep, TypeCorrect, PTL DEF Spec

-----------------------------------------------------------------------------
(* The map of connections.                                                 *)

(* What EntryIsServed needs of the types.                                   *)
MeshShape ==
    /\ connections \in [Endpoints -> Conns \cup {NoConn}]
    /\ accepting \in [Endpoints -> SUBSET Conns]
    /\ pollConn \in [Endpoints -> PollConns \cup {NoConn}]
    /\ senderConn \in [Endpoints -> SendConns \cup {NoConn}]

\* No connection is in a map yet.
LEMMA ServedInit == MeshInit => MeshShape /\ EntryIsServed
BY DEF MeshInit, MeshShape, EntryIsServed

(* Each step, by the ends of the map's life: what is stored and started, is *)
(* stored unstarted, is removed, and what leaves map and tasks alone.       *)
LEMMA ServedStep == MeshShape /\ EntryIsServed /\ [MeshNext]_meshVars => (MeshShape /\ EntryIsServed)'
<1> SUFFICES ASSUME MeshShape, EntryIsServed, [MeshNext]_meshVars PROVE (MeshShape /\ EntryIsServed)'
  OBVIOUS
<1> USE DEF MeshShape, EntryIsServed, Conns, insert_connection, remove_connection
<1>1. ASSUME NEW n \in Endpoints, PollTick(n) PROVE (MeshShape /\ EntryIsServed)'
  BY <1>1 DEF PollTick, connected_peers
<1>2. ASSUME NEW n \in Endpoints, PollDial(n) PROVE (MeshShape /\ EntryIsServed)'
  BY <1>2 DEF PollDial
<1>3. ASSUME NEW n \in Endpoints, PollConnected(n) PROVE (MeshShape /\ EntryIsServed)'
  BY <1>3 DEF PollConnected, start_sync_connection, connected_peers
<1>4. ASSUME NEW n \in Endpoints, SenderDial(n) PROVE (MeshShape /\ EntryIsServed)'
  BY <1>4 DEF SenderDial
<1>5. ASSUME NEW n \in Endpoints, SenderConnected(n) PROVE (MeshShape /\ EntryIsServed)'
  BY <1>5 DEF SenderConnected
<1>6. ASSUME NEW n \in Endpoints, NEW c \in Conns, AcceptIncoming(n, c)
      PROVE  (MeshShape /\ EntryIsServed)'
  BY <1>6 DEF AcceptIncoming, start_sync_connection
<1>7. ASSUME NEW n \in Endpoints, NEW c \in Conns,
             RejectIncoming(n, c) \/ Break(n, c) \/ PeerClosed(n, c)
      PROVE  (MeshShape /\ EntryIsServed)'
  BY <1>7 DEF RejectIncoming, Break, PeerClosed
<1>8. ASSUME NEW n \in Endpoints, NEW c \in Conns, AcceptTaskEnds(n, c)
      PROVE  (MeshShape /\ EntryIsServed)'
  BY <1>8 DEF AcceptTaskEnds
<1>9. ASSUME NEW n \in Endpoints, Restart(n) PROVE (MeshShape /\ EntryIsServed)'
  BY <1>9 DEF Restart
<1>10. CASE UNCHANGED meshVars
  BY <1>10 DEF meshVars
<1> QED BY <1>1, <1>2, <1>3, <1>4, <1>5, <1>6, <1>7, <1>8, <1>9, <1>10 DEF MeshNext

(* Of any connections, any number of breaks and restarts: the only entry of *)
(* the map without an accept task is one get_or_connect dialled.            *)
THEOREM EntriesServed == MeshSpec => []EntryIsServed
BY ServedInit, ServedStep, PTL DEF MeshSpec
=============================================================================
