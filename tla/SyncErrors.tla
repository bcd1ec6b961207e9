----------------------------- MODULE SyncErrors -----------------------------
(***************************************************************************)
(* The sync error handler of src/storage/sync_errors.rs: one health record *)
(* per peer with a circuit breaker and a retry counter, updated under one  *)
(* write lock, so that every operation is a single step.                   *)
(*                                                                         *)
(* Time is kept as ages, which saturate where the code stops telling them  *)
(* apart; the counters saturate at the threshold they are compared with.   *)
(***************************************************************************)
EXTENDS Naturals, SyncNames

CONSTANTS
    FailureThreshold,  \* CircuitBreakerConfig.failure_threshold
    SuccessThreshold,  \* CircuitBreakerConfig.success_threshold
    OpenTimeout,       \* CircuitBreakerConfig.open_timeout, in ticks
    MaxAttempts        \* RetryPolicy.max_attempts of the default policy

ASSUME ThresholdAssumption ==
    /\ FailureThreshold \in Nat \ {0}
    /\ SuccessThreshold \in Nat \ {0}
    /\ OpenTimeout \in Nat
    /\ MaxAttempts \in Nat

VARIABLES
    circuit_state,          \* CircuitState of the peer
    consecutive_failures,   \* saturates at FailureThreshold
    consecutive_successes,  \* saturates at SuccessThreshold
    retry_attempt,          \* saturates at MaxAttempts
    opened_ago,             \* age of circuit_opened_at, or NotOpened for None
    verdict,                \* what handle_error last returned for the peer
    probes                  \* history: successes since the circuit went half-open

health == <<circuit_state, consecutive_failures, consecutive_successes,
            retry_attempt, opened_ago, verdict, probes>>

CircuitStates == {"Closed", "Open", "HalfOpen"}
Verdicts == {"None", "Retry", "GiveUp", "CircuitBreakerOpen"}
NotOpened == OpenTimeout + 1
Capped(n, cap) == IF n < cap THEN n + 1 ELSE cap

(* SyncError and its severity; the retry policy that handle_error picks.   *)
SyncErrorKinds == {"Network", "Protocol", "Document"}

Severity(e) ==
    CASE e = "Network"  -> "Recoverable"
      [] e = "Protocol" -> "Severe"
      [] e = "Document" -> "Fatal"

IsRetryable(e) == Severity(e) \in {"Transient", "Recoverable"}
ShouldRetry(attempt) == attempt < MaxAttempts

HealthTypeOK ==
    /\ circuit_state \in [Peers -> CircuitStates]
    /\ consecutive_failures \in [Peers -> 0 .. FailureThreshold]
    /\ consecutive_successes \in [Peers -> 0 .. SuccessThreshold]
    /\ retry_attempt \in [Peers -> 0 .. MaxAttempts]
    /\ opened_ago \in [Peers -> 0 .. NotOpened]
    /\ verdict \in [Peers -> Verdicts]
    /\ probes \in [Peers -> 0 .. SuccessThreshold]

HealthInit ==
    /\ circuit_state = [p \in Peers |-> "Closed"]
    /\ consecutive_failures = [p \in Peers |-> 0]
    /\ consecutive_successes = [p \in Peers |-> 0]
    /\ retry_attempt = [p \in Peers |-> 0]
    /\ opened_ago = [p \in Peers |-> NotOpened]
    /\ verdict = [p \in Peers |-> "None"]
    /\ probes = [p \in Peers |-> 0]

-----------------------------------------------------------------------------
is_circuit_open(p) == circuit_state[p] = "Open"

(* A failure that does not end a run of successes.                          *)
record_failure_keeps_successes(p) ==
    /\ consecutive_failures' =
          [consecutive_failures EXCEPT ![p] = Capped(@, FailureThreshold)]
    /\ UNCHANGED consecutive_successes

(* PeerHealthTracker.record_failure, the first thing handle_error does.     *)
record_failure(p) ==
    /\ consecutive_failures' =
          [consecutive_failures EXCEPT ![p] = Capped(@, FailureThreshold)]
    /\ consecutive_successes' = [consecutive_successes EXCEPT ![p] = 0]

(* The circuit opens (or opens again): circuit_opened_at = now.             *)
OpenCircuit(p) ==
    /\ circuit_state' = [circuit_state EXCEPT ![p] = "Open"]
    /\ opened_ago' = [opened_ago EXCEPT ![p] = 0]
    /\ retry_attempt' = [retry_attempt EXCEPT ![p] = Capped(@, MaxAttempts)]
    /\ verdict' = [verdict EXCEPT ![p] = "CircuitBreakerOpen"]
    /\ UNCHANGED probes

(* Open, and the timeout has not passed since it opened (or no stamp says). *)
StayOpen(p) ==
    /\ circuit_state[p] = "Open"
    /\ opened_ago[p] < OpenTimeout \/ opened_ago[p] = NotOpened
    /\ retry_attempt' = [retry_attempt EXCEPT ![p] = Capped(@, MaxAttempts)]
    /\ verdict' = [verdict EXCEPT ![p] = "CircuitBreakerOpen"]
    /\ UNCHANGED <<circuit_state, opened_ago, probes>>

(* Open, and the timeout has passed: the failure itself half-opens it.      *)
GoHalfOpen(p) ==
    /\ circuit_state[p] = "Open"
    /\ opened_ago[p] # NotOpened /\ opened_ago[p] >= OpenTimeout
    /\ circuit_state' = [circuit_state EXCEPT ![p] = "HalfOpen"]
    /\ retry_attempt' = [retry_attempt EXCEPT ![p] = 0]
    /\ verdict' = [verdict EXCEPT ![p] = "Retry"]
    /\ probes' = [probes EXCEPT ![p] = 0]
    /\ UNCHANGED opened_ago

(* A failure while half-open (consecutive_failures >= 1 after counting it). *)
Reopen(p) ==
    /\ circuit_state[p] = "HalfOpen"
    /\ consecutive_failures'[p] >= 1
    /\ OpenCircuit(p)

(* A circuit that opens without its time.                                   *)
TripWithoutStamp(p) ==
    /\ circuit_state[p] = "Closed"
    /\ consecutive_failures'[p] >= FailureThreshold
    /\ circuit_state' = [circuit_state EXCEPT ![p] = "Open"]
    /\ retry_attempt' = [retry_attempt EXCEPT ![p] = Capped(@, MaxAttempts)]
    /\ verdict' = [verdict EXCEPT ![p] = "CircuitBreakerOpen"]
    /\ UNCHANGED <<opened_ago, probes>>

(* The failure that reaches the threshold.                                  *)
Trip(p) ==
    /\ circuit_state[p] = "Closed"
    /\ consecutive_failures'[p] >= FailureThreshold
    /\ OpenCircuit(p)

(* A closed circuit that any failure may leave closed.                      *)
StayClosedAtThreshold(p, e) ==
    /\ circuit_state[p] = "Closed"
    /\ retry_attempt' = [retry_attempt EXCEPT ![p] = Capped(@, MaxAttempts)]
    /\ verdict' = [verdict EXCEPT ![p] = "Retry"]
    /\ UNCHANGED <<circuit_state, opened_ago, probes>>

(* Below the threshold: retry or give up, by retryability and attempts.     *)
StayClosed(p, e) ==
    /\ circuit_state[p] = "Closed"
    /\ consecutive_failures'[p] < FailureThreshold
    /\ retry_attempt' = [retry_attempt EXCEPT ![p] = Capped(@, MaxAttempts)]
    /\ verdict' = [verdict EXCEPT ![p] =
          IF IsRetryable(e) /\ ShouldRetry(retry_attempt'[p])
          THEN "Retry" ELSE "GiveUp"]
    /\ UNCHANGED <<circuit_state, opened_ago, probes>>

handle_error(p, e) ==
    /\ record_failure(p)
    /\ \/ StayOpen(p)
       \/ GoHalfOpen(p)
       \/ Reopen(p)
       \/ Trip(p)
       \/ StayClosed(p, e)

-----------------------------------------------------------------------------
(* A success that closes the circuit whatever its state.                    *)
CloseOnAnySuccess(p) ==
    /\ circuit_state[p] # "Closed"
    /\ circuit_state' = [circuit_state EXCEPT ![p] = "Closed"]
    /\ opened_ago' = [opened_ago EXCEPT ![p] = NotOpened]

(* record_success; two disjuncts: the one that closes a half-open circuit,  *)
(* and every other.                                                         *)
CloseCircuit(p) ==
    /\ circuit_state[p] = "HalfOpen"
    /\ consecutive_successes'[p] >= SuccessThreshold
    /\ circuit_state' = [circuit_state EXCEPT ![p] = "Closed"]
    /\ opened_ago' = [opened_ago EXCEPT ![p] = NotOpened]

KeepCircuit(p) ==
    /\ circuit_state[p] # "HalfOpen" \/ consecutive_successes'[p] < SuccessThreshold
    /\ UNCHANGED <<circuit_state, opened_ago>>

record_success(p) ==
    /\ retry_attempt' = [retry_attempt EXCEPT ![p] = 0]
    /\ consecutive_failures' = [consecutive_failures EXCEPT ![p] = 0]
    /\ consecutive_successes' =
          [consecutive_successes EXCEPT ![p] = Capped(@, SuccessThreshold)]
    /\ probes' = [probes EXCEPT ![p] =
          IF circuit_state[p] = "HalfOpen" THEN Capped(@, SuccessThreshold) ELSE @]
    /\ CloseCircuit(p) \/ KeepCircuit(p)
    /\ UNCHANGED verdict

(* reset_peer: the record returns to its default.                           *)
reset_peer(p) ==
    /\ circuit_state' = [circuit_state EXCEPT ![p] = "Closed"]
    /\ consecutive_failures' = [consecutive_failures EXCEPT ![p] = 0]
    /\ consecutive_successes' = [consecutive_successes EXCEPT ![p] = 0]
    /\ retry_attempt' = [retry_attempt EXCEPT ![p] = 0]
    /\ opened_ago' = [opened_ago EXCEPT ![p] = NotOpened]
    /\ verdict' = [verdict EXCEPT ![p] = "None"]
    /\ probes' = [probes EXCEPT ![p] = 0]

(* One tick of the clock for the stamps of the breaker.                     *)
AgeCircuits ==
    /\ opened_ago' = [p \in Peers |->
          IF opened_ago[p] < OpenTimeout THEN opened_ago[p] + 1 ELSE opened_ago[p]]
    /\ UNCHANGED <<circuit_state, consecutive_failures, consecutive_successes,
                   retry_attempt, verdict, probes>>

=============================================================================
