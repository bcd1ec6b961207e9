----------------------------- MODULE UpkeepProofs -----------------------------
(***************************************************************************)
(* Proofs about the judgements a node makes from the passing of time, for  *)
(* any peers, documents, thresholds, timeouts and durations: a peer is     *)
(* given up only after its share of silence (HealthMonitor), the schedule  *)
(* of expiries loses nothing unnoticed and a document without an older     *)
(* entry is not deleted before its time (TtlManager), a peer is held       *)
(* partitioned for a cause that stands (PartitionDetection), and a node is *)
(* autonomous for one (BeaconPresence).                                    *)
(***************************************************************************)
EXTENDS HealthMonitor, TtlManager, PartitionDetection, BeaconPresence, TLAPS

-----------------------------------------------------------------------------
(* The heartbeat monitor.                                                  *)

(* Every missed ping, and the one pending, took its own share of the       *)
(* silence, and a verdict is never older than the count it was made from.  *)
SilenceCovers(p) ==
    /\ pending[p] = NoPing => pingAge[p] = 0
    /\ standing[p] = "Dead" => unheard[p] >= DeadThreshold
    /\ standing[p] = "Suspect" => unheard[p] >= SuspectThreshold /\ unheard[p] < DeadThreshold
    /\ quiet[p] = Horizon \/ unheard[p] * PingInterval + pingAge[p] <= quiet[p]

HealthInv == HealthTypeOK /\ \A p \in monitored : SilenceCovers(p)

\* A product grows with its first factor,
LEMMA ProductGrows ==
    ASSUME NEW a \in Nat, NEW b \in Nat, NEW c \in Nat, a <= b
    PROVE  a * c \in Nat /\ b * c \in Nat /\ a * c <= b * c
<1>1. PICK d \in Nat : b = a + d
  <2>1. b - a \in Nat /\ b = a + (b - a)
    OBVIOUS
  <2> QED
    BY <2>1
<1>2. b * c = a * c + d * c
  BY <1>1
<1>3. a * c \in Nat /\ d * c \in Nat
  BY <1>1
<1> QED
  BY <1>2, <1>3

\* by the second one a step.
LEMMA ProductStep ==
    ASSUME NEW a \in Nat, NEW c \in Nat
    PROVE  a * c \in Nat /\ (a + 1) * c = a * c + c
OBVIOUS

\* Ages are natural numbers.
LEMMA HorizonNat == Horizon \in Nat /\ OldPing \in Nat
BY HealthAssumption, ProductStep DEF Horizon, OldPing

\* What evaluate_state says of a count of misses.
LEMMA VerdictCounts ==
    ASSUME NEW m \in Nat, NEW isSlow \in BOOLEAN, NEW sent, NEW received
    PROVE  LET v == evaluate_state(m, isSlow, sent, received) IN
           /\ v \in {"Healthy", "Degraded", "Suspect", "Dead"}
           /\ v = "Dead" => m >= DeadThreshold
           /\ v = "Suspect" => m >= SuspectThreshold /\ m < DeadThreshold
BY HealthAssumption DEF evaluate_state

\* Pings, pongs, checks and the clock keep the silence covered.
LEMMA HealthStep == HealthInv /\ [HealthNext]_healthVars => HealthInv'
<1> SUFFICES ASSUME HealthInv, [HealthNext]_healthVars
             PROVE  HealthInv'
  OBVIOUS
<1> USE HealthAssumption, HorizonNat
<1>1. ASSUME NEW q \in Contacts, StartMonitoring(q)
      PROVE  HealthInv'
  <2>1. HealthTypeOK'
    BY <1>1 DEF HealthInv, HealthTypeOK, StartMonitoring
  <2>2. ASSUME NEW p \in monitored'
        PROVE  SilenceCovers(p)'
    <3>1. CASE p = q
      BY <1>1, <3>1 DEF HealthInv, HealthTypeOK, StartMonitoring, SilenceCovers, Horizon
    <3>2. CASE p # q
      <4>1. p \in monitored /\ p \in Contacts /\ SilenceCovers(p)
        BY <1>1, <2>2, <3>2 DEF HealthInv, HealthTypeOK, StartMonitoring
      <4> QED
        BY <1>1, <3>2, <4>1 DEF HealthInv, HealthTypeOK, StartMonitoring, SilenceCovers, Horizon
    <3> QED
      BY <3>1, <3>2
  <2> QED
    BY <2>1, <2>2 DEF HealthInv
<1>2. ASSUME NEW q \in Contacts, StopMonitoring(q)
      PROVE  HealthInv'
  BY <1>2 DEF HealthInv, HealthTypeOK, StopMonitoring, SilenceCovers, Horizon
<1>3. CASE AskDue
  BY <1>3 DEF HealthInv, HealthTypeOK, AskDue, peers_needing_ping, SilenceCovers, Horizon
<1>4. ASSUME NEW q \in Contacts, RecordPingSent(q)
      PROVE  HealthInv'
  <2>1. HealthTypeOK'
    BY <1>4 DEF HealthInv, HealthTypeOK, RecordPingSent
  <2>2. ASSUME NEW p \in monitored'
        PROVE  SilenceCovers(p)'
    <3>1. p \in monitored /\ p \in Contacts /\ SilenceCovers(p)
      BY <1>4, <2>2 DEF HealthInv, HealthTypeOK, RecordPingSent
    <3>2. unheard[p] * PingInterval \in Nat
      BY <3>1, ProductStep DEF HealthInv, HealthTypeOK
    <3>3. CASE p = q
      BY <1>4, <3>1, <3>2, <3>3 DEF HealthInv, HealthTypeOK, RecordPingSent, SilenceCovers, NoPing, Horizon
    <3>4. CASE p # q
      BY <1>4, <3>1, <3>4 DEF HealthInv, HealthTypeOK, RecordPingSent, SilenceCovers, Horizon
    <3> QED
      BY <3>3, <3>4
  <2> QED
    BY <2>1, <2>2 DEF HealthInv
<1>5. ASSUME NEW q \in Contacts, NEW seq \in 0..MaxPings, RecordPongReceived(q, seq)
      PROVE  HealthInv'
  <2>1. HealthTypeOK'
    <3>1. CASE seq = pending[q]
      <4>1. PICK isSlow \in BOOLEAN :
               /\ slow' = [slow EXCEPT ![q] = isSlow]
               /\ standing' = [standing EXCEPT ![q] = evaluate_state(0, isSlow, pings[q], pongs[q] + 1)]
        BY <1>5, <3>1 DEF RecordPongReceived
      <4>2. evaluate_state(0, isSlow, pings[q], pongs[q] + 1) \in {"Healthy", "Degraded", "Suspect", "Dead"}
        BY VerdictCounts
      <4> QED
        BY <1>5, <3>1, <4>1, <4>2 DEF HealthInv, HealthTypeOK, RecordPongReceived
    <3>2. CASE seq # pending[q]
      BY <1>5, <3>2 DEF HealthInv, HealthTypeOK, RecordPongReceived
    <3> QED
      BY <3>1, <3>2
  <2>2. ASSUME NEW p \in monitored'
        PROVE  SilenceCovers(p)'
    <3>1. p \in monitored /\ p \in Contacts /\ SilenceCovers(p)
      BY <1>5, <2>2 DEF HealthInv, HealthTypeOK, RecordPongReceived
    <3>2. unheard[p] * PingInterval \in Nat
      BY <3>1, ProductStep DEF HealthInv, HealthTypeOK
    <3>3. CASE p = q /\ seq = pending[q]
      BY <1>5, <3>1, <3>3, VerdictCounts DEF HealthInv, HealthTypeOK, RecordPongReceived, SilenceCovers, Horizon
    <3>4. CASE p = q /\ seq # pending[q]
      BY <1>5, <3>1, <3>2, <3>4 DEF HealthInv, HealthTypeOK, RecordPongReceived, SilenceCovers, Horizon
    <3>5. CASE p # q
      BY <1>5, <3>1, <3>5 DEF HealthInv, HealthTypeOK, RecordPongReceived, SilenceCovers, Horizon
    <3> QED
      BY <3>3, <3>4, <3>5
  <2> QED
    BY <2>1, <2>2 DEF HealthInv
<1>6. CASE check_timeouts
  <2>1. HealthTypeOK'
    <3>1. unheard' \in [Contacts -> Nat]
      BY <1>6 DEF HealthInv, HealthTypeOK, check_timeouts
    <3>2. standing' \in [Contacts -> {"Healthy", "Degraded", "Suspect", "Dead"}]
      BY <1>6, <3>1, VerdictCounts DEF HealthInv, HealthTypeOK, check_timeouts
    <3> QED
      BY <1>6, <3>1, <3>2 DEF HealthInv, HealthTypeOK, check_timeouts
  <2>2. ASSUME NEW p \in monitored'
        PROVE  SilenceCovers(p)'
    <3>1. p \in monitored /\ p \in Contacts /\ SilenceCovers(p)
      BY <1>6, <2>2 DEF HealthInv, HealthTypeOK, check_timeouts
    <3>2. unheard[p] \in Nat /\ unheard'[p] \in Nat /\ slow[p] \in BOOLEAN
      BY <2>1, <3>1 DEF HealthInv, HealthTypeOK
    <3>3. standing'[p] = evaluate_state(unheard'[p], slow[p], pings[p], pongs[p])
      BY <1>6, <3>1 DEF check_timeouts
    <3>4. /\ standing'[p] = "Dead" => unheard'[p] >= DeadThreshold
          /\ standing'[p] = "Suspect" => unheard'[p] >= SuspectThreshold /\ unheard'[p] < DeadThreshold
      <4> DEFINE verdict == evaluate_state(unheard'[p], slow[p], pings[p], pongs[p])
      <4>1. /\ verdict = "Dead" => unheard'[p] >= DeadThreshold
            /\ verdict = "Suspect" => unheard'[p] >= SuspectThreshold /\ unheard'[p] < DeadThreshold
        BY <3>2, HealthAssumption DEF evaluate_state
      <4> HIDE DEF verdict
      <4>2. standing'[p] = verdict
        BY <3>3 DEF verdict
      <4> QED
        BY <4>1, <4>2
    <3>5. pending'[p] = NoPing => pingAge'[p] = 0
      BY <1>6, <3>1 DEF check_timeouts, SilenceCovers
    <3>6. quiet'[p] = Horizon \/ unheard'[p] * PingInterval + pingAge'[p] <= quiet'[p]
      <4>1. (unheard[p] + 1) * PingInterval = unheard[p] * PingInterval + PingInterval
            /\ unheard[p] * PingInterval \in Nat
        BY <3>2, ProductStep
      <4>2. CASE TimedOut(p)
        <5>1. unheard'[p] = unheard[p] + 1 /\ pingAge'[p] = 0 /\ quiet'[p] = quiet[p] /\ pingAge[p] >= PingInterval
          BY <1>6, <3>1, <4>2 DEF check_timeouts, TimedOut
        <5>2. pingAge[p] \in Nat /\ quiet[p] \in Nat
          BY <3>1 DEF HealthInv, HealthTypeOK
        <5> QED
          BY <3>1, <4>1, <5>1, <5>2 DEF SilenceCovers
      <4>3. CASE ~TimedOut(p)
        BY <1>6, <3>1, <4>3 DEF check_timeouts, SilenceCovers
      <4> QED
        BY <4>2, <4>3
    <3> QED
      BY <3>4, <3>5, <3>6 DEF SilenceCovers, Horizon
  <2> QED
    BY <2>1, <2>2 DEF HealthInv
<1>7. CASE HealthTick
  <2>1. HealthTypeOK'
    BY <1>7 DEF HealthInv, HealthTypeOK, HealthTick
  <2>2. ASSUME NEW p \in monitored'
        PROVE  SilenceCovers(p)'
    <3>1. p \in monitored /\ p \in Contacts /\ SilenceCovers(p)
      BY <1>7, <2>2 DEF HealthInv, HealthTypeOK, HealthTick
    <3>2. unheard[p] * PingInterval \in Nat
      BY <3>1, ProductStep DEF HealthInv, HealthTypeOK
    <3>3. quiet[p] \in 0..Horizon /\ pingAge[p] \in Nat
      BY <3>1 DEF HealthInv, HealthTypeOK
    <3>4. quiet'[p] = IF quiet[p] < Horizon THEN quiet[p] + 1 ELSE quiet[p]
      BY <1>7, <3>1 DEF HealthTick
    <3>5. pingAge'[p] = pingAge[p] \/ (pending[p] # NoPing /\ pingAge'[p] = pingAge[p] + 1)
      BY <1>7, <3>1 DEF HealthTick
    <3>6. unheard' = unheard /\ standing' = standing /\ pending' = pending
      BY <1>7 DEF HealthTick
    <3>7. quiet'[p] = Horizon \/ unheard'[p] * PingInterval + pingAge'[p] <= quiet'[p]
      <4>1. PICK owed \in Nat : owed = unheard[p] * PingInterval
        BY <3>2
      <4>2. unheard'[p] * PingInterval = owed
        BY <3>6, <4>1
      <4>3. quiet[p] = Horizon \/ owed + pingAge[p] <= quiet[p]
        BY <3>1, <4>1 DEF SilenceCovers
      <4>4. quiet'[p] = Horizon \/ owed + pingAge'[p] <= quiet'[p]
        BY <3>3, <3>4, <3>5, <4>3
      <4> QED
        BY <4>2, <4>4
    <3> QED
      BY <3>1, <3>3, <3>5, <3>6, <3>7 DEF SilenceCovers, Horizon
  <2> QED
    BY <2>1, <2>2 DEF HealthInv
<1>8. CASE UNCHANGED healthVars
  BY <1>8 DEF HealthInv, HealthTypeOK, SilenceCovers, healthVars, Horizon
<1>9. CASE Clear
  BY <1>9 DEF HealthInv, HealthTypeOK, Clear
<1> QED
  BY <1>1, <1>2, <1>3, <1>4, <1>5, <1>6, <1>7, <1>8, <1>9 DEF HealthNext

(* No peer is Dead or Suspect before its share of silence has passed, for  *)
(* any thresholds and interval: health.rs counts a ping as missed only     *)
(* after a whole interval of its own and never twice.                      *)
THEOREM VerdictsNeedSilence == HealthSpec => []VerdictMeansSilence
<1>1. HealthInit => HealthInv
  BY HealthAssumption, HorizonNat DEF HealthInit, HealthInv, HealthTypeOK
<1>2. HealthInv => VerdictMeansSilence
  <2> SUFFICES ASSUME HealthInv, NEW p \in monitored
               PROVE  /\ standing[p] = "Dead" => quiet[p] >= DeadThreshold * PingInterval
                      /\ standing[p] = "Suspect" => quiet[p] >= SuspectThreshold * PingInterval
    BY DEF VerdictMeansSilence
  <2>1. SilenceCovers(p) /\ unheard[p] \in Nat /\ quiet[p] \in Nat /\ pingAge[p] \in Nat
    BY HealthAssumption, HorizonNat DEF HealthInv, HealthTypeOK
  <2>2. CASE standing[p] = "Dead"
    <3>1. DeadThreshold * PingInterval <= unheard[p] * PingInterval
          /\ DeadThreshold * PingInterval \in Nat /\ unheard[p] * PingInterval \in Nat
      BY <2>1, <2>2, HealthAssumption, ProductGrows DEF SilenceCovers
    <3> QED
      BY <2>1, <2>2, <3>1 DEF SilenceCovers, Horizon
  <2>3. CASE standing[p] = "Suspect"
    <3>1. unheard[p] >= SuspectThreshold /\ SuspectThreshold <= DeadThreshold
      BY <2>1, <2>3, HealthAssumption DEF SilenceCovers
    <3>2. SuspectThreshold * PingInterval <= unheard[p] * PingInterval
          /\ SuspectThreshold * PingInterval \in Nat /\ unheard[p] * PingInterval \in Nat
      BY <2>1, <3>1, HealthAssumption, ProductGrows
    <3>3. SuspectThreshold * PingInterval <= DeadThreshold * PingInterval
          /\ DeadThreshold * PingInterval \in Nat
      BY <3>1, HealthAssumption, ProductGrows
    <3> QED
      BY <2>1, <2>3, <3>2, <3>3 DEF SilenceCovers, Horizon
  <2> QED
    BY <2>2, <2>3
<1> QED
  BY <1>1, <1>2, HealthStep, PTL DEF HealthSpec

-----------------------------------------------------------------------------
(* The documents with a time to live.                                      *)

(* A writer has at most one document stored and not scheduled.              *)
OneAtATime == \A w \in Writers : \A k \in storing[w] : storing[w] = {k}

(* Entries of a document that was not refreshed outlast its lease.          *)
EntriesOutlast ==
    \A k \in docs \ refreshed : lease[k] > 0 =>
        /\ k \notin swept \cup ordered
        /\ \A r \in expiry_map[k] : r >= lease[k]

-----------------------------------------------------------------------------
(* An extension stays within the horizon and makes no entry due or earlier  *)
(* than a lease it covers.                                                  *)
LEMMA ExtendedRange ==
    ASSUME NEW r \in 0 .. TtlHorizon
    PROVE  /\ Extended(r) \in 0 .. TtlHorizon
           /\ \A l \in 0 .. Ttl : r >= l => Extended(r) >= l
<1>1. r * Factor \in Nat /\ r * Factor >= r
  <2>1. Factor \in Nat /\ Factor >= 1 /\ r \in Nat
    BY TtlAssumption
  <2>2. r * Factor = r * (Factor - 1) + r /\ r * (Factor - 1) \in Nat
    BY <2>1
  <2> QED BY <2>2, <2>1
<1> QED BY <1>1, TtlAssumption DEF Extended

(* A tick keeps entries in range and ahead of the leases they cover.        *)
LEMMA LaterRange ==
    ASSUME NEW n \in Nat, NEW r \in 0 .. n
    PROVE  /\ Later(r) \in 0 .. n
           /\ \A l \in Nat : r >= l => Later(r) >= Later(l)
BY DEF Later

(* The store and the schedule start out empty.                              *)
LEMMA TtlTypeInit == Init => TypeOK /\ OneAtATime
BY TtlAssumption DEF Init, TypeOK, OneAtATime

(* Every call, the cleanup, the extension and a restart keep the types.     *)
LEMMA TtlTypeStep == TypeOK /\ OneAtATime /\ [Next]_vars => TypeOK' /\ OneAtATime'
<1> SUFFICES ASSUME TypeOK, OneAtATime, [Next]_vars PROVE TypeOK' /\ OneAtATime'
  OBVIOUS
<1> USE DEF TypeOK, OneAtATime
<1>1. ASSUME NEW w \in Writers, NEW k \in Keys, Put(w, k) PROVE TypeOK' /\ OneAtATime'
  BY <1>1, TtlAssumption DEF Put
<1>2. ASSUME NEW w \in Writers, NEW k \in Keys, set_ttl(w, k) PROVE TypeOK' /\ OneAtATime'
  BY <1>2, TtlAssumption DEF set_ttl, history
<1>3. ASSUME Sweep PROVE TypeOK' /\ OneAtATime'
  BY <1>3 DEF Sweep, Expired, Unexpired, history
<1>4. ASSUME NEW k \in Keys, DeleteSwept(k) \/ DeleteSweptFails(k) \/ DeleteOrdered(k)
      PROVE  TypeOK' /\ OneAtATime'
  BY <1>4 DEF DeleteSwept, DeleteSweptFails, DeleteOrdered, history
<1>5. ASSUME cleanup_expired PROVE TypeOK' /\ OneAtATime'
  BY <1>5 DEF cleanup_expired, Expired, Unexpired
<1>6. ASSUME DeleteOrderedFails PROVE TypeOK' /\ OneAtATime'
  BY <1>6 DEF DeleteOrderedFails
<1>7. ASSUME extend_ttls_for_offline PROVE TypeOK' /\ OneAtATime'
  BY <1>7, ExtendedRange DEF extend_ttls_for_offline, Expired
<1>8. ASSUME Connectivity \/ stop_background_cleanup PROVE TypeOK' /\ OneAtATime'
  <2>1. (~ online) \in BOOLEAN
    OBVIOUS
  <2> QED BY <1>8, <2>1 DEF Connectivity, stop_background_cleanup, history
<1>9. ASSUME Restart PROVE TypeOK' /\ OneAtATime'
  BY <1>9 DEF Restart
<1>10. ASSUME Tick PROVE TypeOK' /\ OneAtATime'
  <2>1. \A k \in Keys : Later(lease[k]) \in 0 .. Ttl
    BY LaterRange, TtlAssumption
  <2>2. \A k \in Keys : \A r \in expiry_map[k] : Later(r) \in 0 .. TtlHorizon
    BY LaterRange, TtlAssumption
  <2>3. expiry_map' \in [Keys -> SUBSET (0 .. TtlHorizon)] /\ lease' \in [Keys -> 0 .. Ttl]
    BY <1>10, <2>1, <2>2 DEF Tick
  <2> QED BY <1>10, <2>3 DEF Tick
<1>11. ASSUME UNCHANGED vars PROVE TypeOK' /\ OneAtATime'
  BY <1>11 DEF vars, history
<1> QED
  BY <1>1, <1>2, <1>3, <1>4, <1>5, <1>6, <1>7, <1>8, <1>9, <1>10, <1>11
  DEF Next, Write, Schedule, DeleteExpired

(* Type correctness: entries stay within the horizon, leases within the TTL.*)
THEOREM TtlTypeCorrect == Spec => []TypeOK
BY TtlTypeInit, TtlTypeStep, PTL DEF Spec

-----------------------------------------------------------------------------
(* Each step that takes an entry from the map deletes the document, is      *)
(* about to, or is noted as having lost it.                                 *)
LEMMA TrackedStep == TypeOK /\ OneAtATime /\ Tracked /\ [Next]_vars => Tracked'
<1> SUFFICES ASSUME TypeOK, OneAtATime, Tracked, [Next]_vars PROVE Tracked'
  OBVIOUS
<1> USE DEF TypeOK, Tracked
<1>1. ASSUME NEW w \in Writers, NEW k \in Keys, Put(w, k) PROVE Tracked'
  BY <1>1 DEF Put
<1>2. ASSUME NEW w \in Writers, NEW k \in Keys, set_ttl(w, k) PROVE Tracked'
  BY <1>2 DEF set_ttl, OneAtATime, history
<1>3. ASSUME Sweep PROVE Tracked'
  BY <1>3 DEF Sweep, Expired, Unexpired, history
<1>4. ASSUME NEW k \in Keys, DeleteSwept(k) \/ DeleteSweptFails(k) \/ DeleteOrdered(k)
      PROVE  Tracked'
  BY <1>4 DEF DeleteSwept, DeleteSweptFails, DeleteOrdered, history
<1>5. ASSUME cleanup_expired PROVE Tracked'
  BY <1>5 DEF cleanup_expired, Expired, Unexpired
<1>6. ASSUME DeleteOrderedFails PROVE Tracked'
  BY <1>6 DEF DeleteOrderedFails
<1>7. ASSUME extend_ttls_for_offline PROVE Tracked'
  BY <1>7, SMTT(30) DEF extend_ttls_for_offline, Expired
<1>8. ASSUME Connectivity \/ stop_background_cleanup PROVE Tracked'
  BY <1>8 DEF Connectivity, stop_background_cleanup, history
<1>9. ASSUME Restart PROVE Tracked'
  BY <1>9 DEF Restart
<1>10. ASSUME Tick PROVE Tracked'
  <2>1. ASSUME NEW k \in Keys, expiry_map[k] # {} PROVE expiry_map'[k] # {}
    <3>1. PICK r \in expiry_map[k] : TRUE
      BY <2>1
    <3>2. Later(r) \in expiry_map'[k]
      BY <1>10, <3>1 DEF Tick
    <3> QED BY <3>2
  <2> QED BY <1>10, <2>1 DEF Tick
<1>11. ASSUME UNCHANGED vars PROVE Tracked'
  BY <1>11 DEF vars, history
<1> QED
  BY <1>1, <1>2, <1>3, <1>4, <1>5, <1>6, <1>7, <1>8, <1>9, <1>10, <1>11
  DEF Next, Write, Schedule, DeleteExpired

(* No document drops out of the schedule unnoticed, for any number of       *)
(* writers and documents (set_ttl, the sweeps and the extension).           *)
THEOREM NothingForgotten == Spec => []Tracked
<1>1. Init => Tracked
  BY DEF Init, Tracked
<1> QED BY <1>1, TtlTypeInit, TtlTypeStep, TrackedStep, PTL DEF Spec

-----------------------------------------------------------------------------
(* Each step keeps the entries of a document that was not refreshed behind  *)
(* its lease.                                                               *)
LEMMA OutlastStep == TypeOK /\ EntriesOutlast /\ [Next]_vars => EntriesOutlast'
<1> SUFFICES ASSUME TypeOK, EntriesOutlast, [Next]_vars PROVE EntriesOutlast'
  OBVIOUS
<1> USE TtlAssumption DEF TypeOK, EntriesOutlast
<1>1. ASSUME NEW w \in Writers, NEW k \in Keys, Put(w, k) PROVE EntriesOutlast'
  BY <1>1 DEF Put
<1>2. ASSUME NEW w \in Writers, NEW k \in Keys, set_ttl(w, k) PROVE EntriesOutlast'
  BY <1>2 DEF set_ttl, history
<1>3. ASSUME Sweep PROVE EntriesOutlast'
  BY <1>3 DEF Sweep, Expired, Unexpired, history
<1>4. ASSUME NEW k \in Keys, DeleteSwept(k) \/ DeleteSweptFails(k) \/ DeleteOrdered(k)
      PROVE  EntriesOutlast'
  BY <1>4 DEF DeleteSwept, DeleteSweptFails, DeleteOrdered, history
<1>5. ASSUME cleanup_expired PROVE EntriesOutlast'
  BY <1>5 DEF cleanup_expired, Expired, Unexpired
<1>6. ASSUME DeleteOrderedFails PROVE EntriesOutlast'
  BY <1>6 DEF DeleteOrderedFails
<1>7. ASSUME extend_ttls_for_offline PROVE EntriesOutlast'
  BY <1>7, ExtendedRange DEF extend_ttls_for_offline
<1>8. ASSUME Connectivity \/ stop_background_cleanup PROVE EntriesOutlast'
  BY <1>8 DEF Connectivity, stop_background_cleanup, history
<1>9. ASSUME Restart PROVE EntriesOutlast'
  BY <1>9 DEF Restart
<1>10. ASSUME Tick PROVE EntriesOutlast'
  BY <1>10 DEF Tick, Later
<1>11. ASSUME UNCHANGED vars PROVE EntriesOutlast'
  BY <1>11 DEF vars, history
<1> QED
  BY <1>1, <1>2, <1>3, <1>4, <1>5, <1>6, <1>7, <1>8, <1>9, <1>10, <1>11
  DEF Next, Write, Schedule, DeleteExpired

(* A document stored under a key without an outstanding entry is not taken  *)
(* for deletion before its TTL is over, whatever overlaps put_with_ttl.     *)
THEOREM NoneExpiresEarly == Spec => []NotExpiredEarly
<1>1. Init => EntriesOutlast
  BY DEF Init, EntriesOutlast
<1>2. EntriesOutlast => NotExpiredEarly
  BY DEF EntriesOutlast, NotExpiredEarly
<1> QED BY <1>1, <1>2, TtlTypeInit, TtlTypeStep, OutlastStep, PTL DEF Spec


-----------------------------------------------------------------------------
PartitionInv == PartitionTypeOK /\ PartitionHasCause

\* No peer is held partitioned yet.
LEMMA PartitionInvInit == PartitionInit => PartitionInv
BY PartitionAssumption DEF PartitionInit, PartitionInv, PartitionTypeOK, PartitionHasCause, PeerPartitionState

\* Heartbeats, failures and checks keep the cause of a partition.
LEMMA PartitionInvStep == PartitionInv /\ [PartitionNext]_partitionVars => PartitionInv'
<1> SUFFICES ASSUME PartitionInv, [PartitionNext]_partitionVars PROVE PartitionInv'
  OBVIOUS
<1> USE PartitionAssumption
        DEF PartitionInv, PartitionTypeOK, PartitionHasCause, PeerPartitionState, IsPartitioned
<1>1. ASSUME NEW p \in Watched, NEW sent \in BOOLEAN, HeartbeatTo(p, sent) PROVE PartitionInv'
  BY <1>1 DEF HeartbeatTo
<1>2. ASSUME NEW p \in Watched, HeartbeatFrom(p) PROVE PartitionInv'
  BY <1>2 DEF HeartbeatFrom
<1>3. ASSUME NEW p \in Watched, UnregisterPeer(p) PROVE PartitionInv'
  BY <1>3 DEF UnregisterPeer
<1>4. ASSUME NEW p \in Watched, PeerFlips(p) PROVE PartitionInv'
  BY <1>4 DEF PeerFlips
<1>5. CASE CheckTimeouts
  BY <1>5 DEF CheckTimeouts
<1>6. CASE PartitionTick
  BY <1>6 DEF PartitionTick
<1>7. CASE UNCHANGED partitionVars
  BY <1>7 DEF partitionVars
<1> QED BY <1>1, <1>2, <1>3, <1>4, <1>5, <1>6, <1>7 DEF PartitionNext

(* For any peers, thresholds and timeouts: a peer is held partitioned       *)
(* exactly for a cause that still stands (record_success, record_failure,   *)
(* check_timeouts).                                                         *)
THEOREM PartitionsHaveCause == PartitionSpec => [](PartitionTypeOK /\ PartitionHasCause)
BY PartitionInvInit, PartitionInvStep, PTL DEF PartitionSpec, PartitionInv

-----------------------------------------------------------------------------
(* The attempts the detector counts are the failed checks since the last    *)
(* good one, and it holds the node partitioned once there are enough.       *)
AttemptsCount ==
    /\ attempts \in Nat /\ blind = attempts
    /\ autonomous <=> partitioned
    /\ partitioned => attempts >= MinAttempts

\* No attempt has been made yet.
LEMMA AttemptsInit == PresenceInit => AttemptsCount
BY DEF PresenceInit, AttemptsCount

\* Checks count the attempts that failed in a row.
LEMMA AttemptsStep == AttemptsCount /\ [PresenceNext]_presenceVars => AttemptsCount'
<1> SUFFICES ASSUME AttemptsCount, [PresenceNext]_presenceVars PROVE AttemptsCount'
  OBVIOUS
<1> USE PresenceAssumption
<1>1. CASE CheckPartition
  <2>1. CASE HasConnectivity
    <3>1. attempts' = 0 /\ blind' = 0
      BY <1>1, <2>1 DEF CheckPartition, Reconnected, Reset
    <3>2. ~partitioned' /\ ~autonomous'
      <4>1. partitioned' = FALSE /\ autonomous' = (autonomous /\ ~partitioned)
        BY <1>1, <2>1 DEF CheckPartition, Reconnected, Reset
      <4> QED BY <4>1, Zenon DEF AttemptsCount
    <3> QED BY <3>1, <3>2 DEF AttemptsCount
  <2>2. CASE ~HasConnectivity /\ waits
    <3>1. UNCHANGED <<attempts, blind, partitioned, autonomous>>
      BY <1>1, <2>2 DEF CheckPartition, Attempt
    <3> QED BY <3>1 DEF AttemptsCount
  <2>3. CASE ~HasConnectivity /\ ~waits
    <3> DEFINE enough == attempts' >= MinAttempts
    <3>1. /\ attempts' \in Nat /\ blind' = attempts'
          /\ attempts >= MinAttempts => enough
      BY <1>1, <2>3 DEF CheckPartition, Attempt, AttemptsCount
    <3>2. partitioned' = (partitioned \/ enough) /\ autonomous' = (autonomous \/ enough)
      BY <1>1, <2>3, Zenon DEF CheckPartition, Attempt
    <3>3. partitioned => enough
      BY <3>1 DEF AttemptsCount
    <3> HIDE DEF enough
    <3>4. (autonomous' <=> partitioned') /\ (partitioned' => enough)
      BY <3>2, <3>3, Zenon DEF AttemptsCount
    <3> QED BY <3>1, <3>4 DEF AttemptsCount, enough
  <2> QED BY <2>1, <2>2, <2>3
<1>2. CASE UNCHANGED <<attempts, blind, partitioned, autonomous>>
  BY <1>2 DEF AttemptsCount
<1>3. ASSUME NEW n \in Leaders,
             \/ StartBroadcaster(n) \/ StopBroadcaster(n) \/ UpdatePosition(n)
             \/ Broadcast(n) \/ StorageExpires(n)
      PROVE  UNCHANGED <<attempts, blind, partitioned, autonomous>>
  BY <1>3 DEF StartBroadcaster, StopBroadcaster, UpdatePosition, Broadcast, StorageExpires, detectorVars
<1>4. ASSUME StartObserver \/ StopObserver \/ Observe \/ EvaluateReads \/ BackoffEnds
      PROVE  UNCHANGED <<attempts, blind, partitioned, autonomous>>
  BY <1>4 DEF StartObserver, StopObserver, Observe, EvaluateReads, BackoffEnds, detectorVars
<1>5. CASE UNCHANGED presenceVars
  BY <1>2, <1>5 DEF presenceVars
<1> QED BY <1>1, <1>2, <1>3, <1>4, <1>5 DEF PresenceNext

(* For any thresholds: a node is autonomous exactly while it is held        *)
(* partitioned, and then min_detection_attempts checks in a row have failed *)
(* (check_partition, on_partition_detected, on_partition_healed).           *)
THEOREM AutonomyJustified == PresenceSpec => []AutonomyHasCause
<1>1. AttemptsCount => AutonomyHasCause
  BY DEF AttemptsCount, AutonomyHasCause
<1> QED BY <1>1, AttemptsInit, AttemptsStep, PTL DEF PresenceSpec
=============================================================================
