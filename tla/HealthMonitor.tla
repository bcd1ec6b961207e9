---------------------------- MODULE HealthMonitor ----------------------------
(***************************************************************************)
(* The heartbeat monitor of the transports.  A caller asks which peers are *)
(* due for a ping, sends and records the pings one by one, passes on the   *)
(* pongs as they arrive and checks for timeouts; each call takes the lock  *)
(* of the health map, so the calls interleave.  Pongs may be late,         *)
(* repeated, lost, or answer a ping of an earlier monitoring of the peer   *)
(* (sequence numbers start at 0 each time).                                *)
(*                                                                         *)
(* Time counts in ticks.  The round-trip average is abstracted to whether  *)
(* it is above its threshold; the notifications of degraded peers, which   *)
(* feed nothing back, are left out.                                        *)
(***************************************************************************)
EXTENDS Integers

CONSTANTS
    Contacts,          \* peers that may be monitored
    PingInterval,      \* HeartbeatConfig::interval, in ticks
    SuspectThreshold,  \* missed pings before a peer is Suspect
    DeadThreshold,     \* missed pings before a peer is Dead
    LossThreshold,     \* loss in percent above which a peer is Degraded
    MaxPings           \* bound: pings of one monitoring

ASSUME HealthAssumption ==
    /\ PingInterval \in Nat \ {0}
    /\ SuspectThreshold \in Nat \ {0}
    /\ DeadThreshold \in Nat \ {0}
    /\ LossThreshold \in 0..100
    /\ MaxPings \in Nat

VARIABLES
    monitored,  \* keys of the health map
    standing,   \* PeerHealthState::state
    unheard,    \* missed_heartbeats
    pings,      \* pings_sent, which is also next_seq
    pongs,      \* pongs_received
    slow,       \* smoothed_rtt_ms is above degraded_rtt_threshold_ms
    pending,    \* sequence number of pending_ping, or NoPing
    pingAge,    \* ticks since the pending ping was sent; 0 without one
    quiet,      \* ticks since last_response, up to Horizon
    due,        \* peers the caller was told to ping and has not pinged yet
    answerable  \* pings ever sent: a pong of each may arrive at any time

healthVars == <<monitored, standing, unheard, pings, pongs, slow, pending, pingAge, quiet, due, answerable>>

NoPing == -1

\* Time since the last response is told apart up to what makes a peer Dead, the age
\* of a ping up to what makes it due again.
Horizon == DeadThreshold * PingInterval
OldPing == 2 * PingInterval + 1

HealthTypeOK ==
    /\ monitored \subseteq Contacts
    /\ standing \in [Contacts -> {"Healthy", "Degraded", "Suspect", "Dead"}]
    /\ unheard \in [Contacts -> Nat]
    /\ pings \in [Contacts -> 0..MaxPings]
    /\ pongs \in [Contacts -> Nat]
    /\ slow \in [Contacts -> BOOLEAN]
    /\ pending \in [Contacts -> Nat \cup {NoPing}]
    /\ pingAge \in [Contacts -> 0..OldPing]
    /\ quiet \in [Contacts -> 0..Horizon]
    /\ due \subseteq Contacts
    /\ answerable \subseteq Contacts \X Nat

HealthInit ==
    /\ monitored = {}
    /\ standing = [p \in Contacts |-> "Healthy"]
    /\ unheard = [p \in Contacts |-> 0]
    /\ pings = [p \in Contacts |-> 0]
    /\ pongs = [p \in Contacts |-> 0]
    /\ slow = [p \in Contacts |-> FALSE]
    /\ pending = [p \in Contacts |-> NoPing]
    /\ pingAge = [p \in Contacts |-> 0]
    /\ quiet = [p \in Contacts |-> 0]
    /\ due = {}
    /\ answerable = {}

\* packet_loss_percent() > threshold, the percentage rounded half up.
Lossy(sent, received) ==
    /\ sent # 0
    /\ 200 * (sent - received) >= (2 * LossThreshold + 1) * sent

evaluate_state(misses, isSlow, sent, received) ==
    IF misses >= DeadThreshold THEN "Dead"
    ELSE IF misses >= SuspectThreshold THEN "Suspect"
    ELSE IF isSlow \/ Lossy(sent, received) THEN "Degraded"
    ELSE "Healthy"

\* A peer already monitored keeps its state (or_insert_with).
StartMonitoring(p) ==
    /\ p \notin monitored
    /\ monitored' = monitored \cup {p}
    /\ standing' = [standing EXCEPT ![p] = "Healthy"]
    /\ unheard' = [unheard EXCEPT ![p] = 0]
    /\ pings' = [pings EXCEPT ![p] = 0]
    /\ pongs' = [pongs EXCEPT ![p] = 0]
    /\ slow' = [slow EXCEPT ![p] = FALSE]
    /\ pending' = [pending EXCEPT ![p] = NoPing]
    /\ pingAge' = [pingAge EXCEPT ![p] = 0]
    /\ quiet' = [quiet EXCEPT ![p] = 0]
    /\ UNCHANGED <<due, answerable>>

\* What is left of the removed entry is never read: StartMonitoring makes a new one.
StopMonitoring(p) ==
    /\ p \in monitored
    /\ monitored' = monitored \ {p}
    /\ UNCHANGED <<standing, unheard, pings, pongs, slow, pending, pingAge, quiet, due, answerable>>

Clear ==
    /\ monitored' = {}
    /\ UNCHANGED <<standing, unheard, pings, pongs, slow, pending, pingAge, quiet, due, answerable>>

peers_needing_ping ==
    {p \in monitored :
        /\ standing[p] # "Dead"
        /\ IF pending[p] # NoPing
           THEN pingAge[p] > 2 * PingInterval
           ELSE quiet[p] >= PingInterval}

\* The caller takes the list and releases the lock.
AskDue ==
    /\ due = {}
    /\ due' = peers_needing_ping
    /\ UNCHANGED <<monitored, standing, unheard, pings, pongs, slow, pending, pingAge, quiet, answerable>>

\* The caller pings a peer of its list, which may be stale by now.
RecordPingSent(p) ==
    /\ p \in due
    /\ due' = due \ {p}
    /\ IF p \in monitored
       THEN /\ pings[p] < MaxPings
            /\ pending' = [pending EXCEPT ![p] = pings[p]]
            /\ pingAge' = [pingAge EXCEPT ![p] = 0]
            /\ pings' = [pings EXCEPT ![p] = @ + 1]
            /\ answerable' = answerable \cup {<<p, pings[p]>>}
       ELSE UNCHANGED <<pending, pingAge, pings, answerable>>
    /\ UNCHANGED <<monitored, standing, unheard, pongs, slow, quiet>>

\* Any pong takes the pending ping; only the one that matches it counts.
RecordPongReceived(p, seq) ==
    /\ <<p, seq>> \in answerable
    /\ p \in monitored
    /\ pending[p] # NoPing
    /\ pending' = [pending EXCEPT ![p] = NoPing]
    /\ pingAge' = [pingAge EXCEPT ![p] = 0]
    /\ \/ /\ seq = pending[p]
          /\ \E isSlow \in BOOLEAN :
                /\ slow' = [slow EXCEPT ![p] = isSlow]
                /\ standing' = [standing EXCEPT ![p] = evaluate_state(0, isSlow, pings[p], pongs[p] + 1)]
          /\ pongs' = [pongs EXCEPT ![p] = @ + 1]
          /\ quiet' = [quiet EXCEPT ![p] = 0]
          /\ unheard' = [unheard EXCEPT ![p] = 0]
       \/ /\ seq # pending[p]
          /\ UNCHANGED <<slow, standing, pongs, quiet, unheard>>
    /\ UNCHANGED <<monitored, pings, due, answerable>>

TimedOut(p) == p \in monitored /\ pending[p] # NoPing /\ pingAge[p] >= PingInterval

\* check_timeouts that does not clear the ping it counted.
check_timeoutsCountingTwice ==
    /\ unheard' = [p \in Contacts |-> IF TimedOut(p) THEN unheard[p] + 1 ELSE unheard[p]]
    /\ standing' = [p \in Contacts |->
                      IF p \in monitored
                      THEN evaluate_state(unheard'[p], slow[p], pings[p], pongs[p])
                      ELSE standing[p]]
    /\ UNCHANGED <<monitored, pings, pongs, slow, pending, pingAge, quiet, due, answerable>>

check_timeouts ==
    /\ unheard' = [p \in Contacts |-> IF TimedOut(p) THEN unheard[p] + 1 ELSE unheard[p]]
    /\ pending' = [p \in Contacts |-> IF TimedOut(p) THEN NoPing ELSE pending[p]]
    /\ pingAge' = [p \in Contacts |-> IF TimedOut(p) THEN 0 ELSE pingAge[p]]
    /\ standing' = [p \in Contacts |->
                      IF p \in monitored
                      THEN evaluate_state(unheard'[p], slow[p], pings[p], pongs[p])
                      ELSE standing[p]]
    /\ UNCHANGED <<monitored, pings, pongs, slow, quiet, due, answerable>>

\* The clock.
HealthTick ==
    /\ pingAge' = [p \in Contacts |->
                     IF pending[p] # NoPing /\ pingAge[p] < OldPing THEN pingAge[p] + 1 ELSE pingAge[p]]
    /\ quiet' = [p \in Contacts |-> IF quiet[p] < Horizon THEN quiet[p] + 1 ELSE quiet[p]]
    /\ UNCHANGED <<monitored, standing, unheard, pings, pongs, slow, pending, due, answerable>>

HealthNext ==
    \/ \E p \in Contacts : StartMonitoring(p)
    \/ \E p \in Contacts : StopMonitoring(p)
    \/ Clear
    \/ AskDue
    \/ \E p \in Contacts : RecordPingSent(p)
    \/ \E p \in Contacts, seq \in 0..MaxPings : RecordPongReceived(p, seq)
    \/ check_timeouts
    \/ HealthTick

HealthSpec == HealthInit /\ [][HealthNext]_healthVars

(***************************************************************************)
(* No peer is written off early.  A Dead peer has given no matching answer *)
(* for dead_threshold whole intervals, a Suspect one for suspect_threshold *)
(* ("10s with default interval", "20s with default interval" in            *)
(* HeartbeatConfig::default), whatever pongs came late, twice or for       *)
(* another ping, and however the caller's list of due peers aged.          *)
(***************************************************************************)
VerdictMeansSilence ==
    \A p \in monitored :
        /\ standing[p] = "Dead" => quiet[p] >= DeadThreshold * PingInterval
        /\ standing[p] = "Suspect" => quiet[p] >= SuspectThreshold * PingInterval
=============================================================================
