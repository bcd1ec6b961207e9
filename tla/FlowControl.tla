---------------------------- MODULE FlowControl -----------------------------
(***************************************************************************)
(* The flow controller of src/storage/flow_control.rs: a token bucket per  *)
(* peer and a cooldown per (peer, document).  The two checks take two      *)
(* different locks, so they are two operators; each is one step.           *)
(*                                                                         *)
(* A bucket is created, full, by the first check for its peer.             *)
(***************************************************************************)
EXTENDS Naturals, SyncNames

CONSTANTS
    Capacity,         \* max_messages_per_second: capacity of a bucket
    TokensPerRefill,  \* tokens_per_refill
    RefillInterval,   \* refill_interval, in ticks
    Cooldown          \* sync_cooldown, in ticks

ASSUME FlowAssumption ==
    /\ Capacity \in Nat \ {0}
    /\ TokensPerRefill \in Nat \ {0}
    /\ RefillInterval \in Nat \ {0}
    /\ Cooldown \in Nat

VARIABLES
    tokens,      \* TokenBucket.tokens of the peer
    refill_ago,  \* age of TokenBucket.last_refill, saturates at RefillHorizon,
                 \* or NoBucket
    synced_ago   \* age of SyncCooldownTracker.last_sync[<<peer, doc>>], or NeverSynced

flow == <<tokens, refill_ago, synced_ago>>

(* After Capacity whole intervals a refill fills any bucket.                *)
RefillHorizon == Capacity * RefillInterval
NoBucket == RefillHorizon + 1
(* Older than every cooldown: the entry is absent, or cleanup may drop it.  *)
NeverSynced == Cooldown

FlowTypeOK ==
    /\ tokens \in [Peers -> 0 .. Capacity]
    /\ refill_ago \in [Peers -> 0 .. NoBucket]
    /\ synced_ago \in [Peers \X Docs -> 0 .. NeverSynced]

FlowInit ==
    /\ tokens = [p \in Peers |-> Capacity]
    /\ refill_ago = [p \in Peers |-> NoBucket]
    /\ synced_ago = [k \in Peers \X Docs |-> NeverSynced]

-----------------------------------------------------------------------------
(* TokenBucket.refill: whole intervals only, and the rest is discarded.     *)
Periods(p) == refill_ago[p] \div RefillInterval

Refilled(p) ==
    LET n == tokens[p] + Periods(p) * TokensPerRefill
    IN  IF n < Capacity THEN n ELSE Capacity  \* a new bucket starts full

(* A last_refill that every attempt moves.                                  *)
RefillAgeAlwaysReset(p) == 0

RefillAge(p) == IF refill_ago[p] < RefillInterval THEN refill_ago[p] ELSE 0

(* TokenBucket.try_acquire, in its two outcomes.                            *)
try_acquire_ok(p) ==
    /\ Refilled(p) > 0
    /\ tokens' = [tokens EXCEPT ![p] = Refilled(p) - 1]
    /\ refill_ago' = [refill_ago EXCEPT ![p] = RefillAge(p)]
    /\ UNCHANGED synced_ago

try_acquire_limited(p) ==
    /\ Refilled(p) = 0
    /\ refill_ago' = [refill_ago EXCEPT ![p] = RefillAge(p)]
    /\ UNCHANGED <<tokens, synced_ago>>

(* SyncCooldownTracker.check_cooldown.                                      *)
in_cooldown(p, d) == synced_ago[<<p, d>>] < Cooldown

(* record_sync for every document of a successful send.                     *)
record_sync(p, ds) ==
    /\ synced_ago' = [k \in Peers \X Docs |->
          IF k[1] = p /\ k[2] \in ds THEN 0 ELSE synced_ago[k]]
    /\ UNCHANGED <<tokens, refill_ago>>

(* One tick of the clock for the stamps of the flow controller.             *)
AgeFlow ==
    /\ refill_ago' = [p \in Peers |->
          IF refill_ago[p] < RefillHorizon THEN refill_ago[p] + 1 ELSE refill_ago[p]]
    /\ synced_ago' = [k \in Peers \X Docs |->
          IF synced_ago[k] < NeverSynced THEN synced_ago[k] + 1 ELSE synced_ago[k]]
    /\ UNCHANGED tokens

=============================================================================
