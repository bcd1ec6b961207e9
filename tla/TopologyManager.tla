--------------------------- MODULE TopologyManager ---------------------------
(***************************************************************************)
(* The topology of one node: the evaluations of the TopologyBuilder        *)
(* (topology/builder.rs), the event loop of the TopologyManager and the    *)
(* retry tasks it spawns (topology/manager.rs).  Retry tasks for parents   *)
(* share one retry state, those for a lateral peer the state of the peer.  *)
(* Which beacons are near, which peer scores best and which timeouts and   *)
(* cooldowns have passed are free choices at every evaluation.             *)
(***************************************************************************)
EXTENDS Integers, Sequences, FiniteSets

CONSTANTS
    Parents,       \* peers of a higher level, which may be selected
    Laterals,      \* peers of the same level
    Nobody,        \* no peer; also the key of the parents' retry state
    RetryTasks,    \* identities of the retry tasks
    MaxRetries,    \* max_retries
    MaxLateral,    \* max_lateral_connections
    MaxBuffer,     \* max_telemetry_buffer_size
    MaxQueue,      \* bound on the events in the channel
    MaxTopologyEvents \* bound on evaluations

ASSUME TopologyAssumption ==
    /\ {MaxRetries, MaxLateral, MaxBuffer, MaxQueue, MaxTopologyEvents} \subseteq Nat
    /\ MaxRetries > 0
    /\ Nobody \notin Parents \cup Laterals

VARIABLES
    builderPeer,  \* Parents \cup {Nobody}: selected_peer of the builder's state
    builderSees,  \* SUBSET Laterals: its lateral_peers
    events,       \* sequence of events <<name, peer, old peer>> in the channel
    loop,         \* "idle", "connecting" or, for PeerChanged, "changing": the event loop;
                  \*   "ended", and "stopped" with all of the topology management
    dialled,      \* the peer the loop is connecting to
    selected,     \* selected_peer_id of the manager
    lateral,      \* SUBSET Laterals: lateral_connections
    up,           \* peers the transport is connected to
    retry,        \* [Laterals \cup {Nobody} -> -1 .. MaxRetries]: attempts of the retry
                  \*   state, -1 for None
    taskPeer,     \* [RetryTasks -> peer or Nobody]: what the task connects to
    taskSeen,     \* [RetryTasks -> -1 .. MaxRetries]: the attempts it read, -1 before
    buffer,       \* 0 .. MaxBuffer: telemetry packets buffered
    evaluations   \* 0 .. MaxTopologyEvents

builderVars == <<builderPeer, builderSees, evaluations>>
taskVars == <<taskPeer, taskSeen>>
topologyVars ==
    <<builderVars, events, loop, dialled, selected, lateral, up, retry, taskVars, buffer>>

RetryKey(p) == IF p \in Laterals THEN p ELSE Nobody

TopologyInit ==
    /\ builderPeer = Nobody
    /\ builderSees = {}
    /\ events = <<>>
    /\ loop = "idle"
    /\ dialled = Nobody
    /\ selected = Nobody
    /\ lateral = {}
    /\ up = {}
    /\ retry = [k \in Laterals \cup {Nobody} |-> -1]
    /\ taskPeer = [t \in RetryTasks |-> Nobody]
    /\ taskSeen = [t \in RetryTasks |-> -1]
    /\ buffer = 0
    /\ evaluations = 0

-----------------------------------------------------------------------------
\* The builder.

\* update_selected_peer.
SelectionEvent(old, p) ==
    IF old = Nobody THEN <<"PeerSelected", p, Nobody>> ELSE <<"PeerChanged", p, old>>

\* The event about the lateral peer of a round, if there is one.
LateralEvents(kind, peers) ==
    IF peers = {} THEN <<>> ELSE << <<kind, CHOOSE q \in peers : TRUE, Nobody>> >>

\* One round of the builder's task.  check_peer_status: a selected peer whose
\* beacon is gone for too long is lost, and another is selected at once if one
\* is near.  update_lateral_peers: a lateral peer is found, or one that is gone
\* for too long is lost, one in a round.
Evaluate(lost, p, found, gone) ==
    /\ loop # "stopped"
    /\ evaluations < MaxTopologyEvents
    /\ Len(events) < MaxQueue
    /\ lost => builderPeer # Nobody /\ p # builderPeer
    /\ ~lost /\ builderPeer # Nobody => p = builderPeer
    /\ found \cap builderSees = {} /\ gone \subseteq builderSees
    /\ Cardinality(found \cup gone) <= 1
    /\ builderPeer' = p
    /\ builderSees' = (builderSees \cup found) \ gone
    /\ events' = events
          \o (IF lost THEN << <<"PeerLost", builderPeer, Nobody>> >> ELSE <<>>)
          \o (IF p \notin {Nobody, builderPeer} THEN <<SelectionEvent(Nobody, p)>> ELSE <<>>)
          \o LateralEvents("LateralPeerDiscovered", found)
          \o LateralEvents("LateralPeerLost", gone)
    /\ evaluations' = evaluations + 1
    /\ UNCHANGED <<loop, dialled, selected, lateral, up, retry, taskVars, buffer>>

\* reevaluate_peer: the best candidate replaces the selected peer if there is
\* none, or if the cooldown has passed and it scores clearly better.
Reevaluated(p, rest) ==
    /\ p = builderPeer \/ p # Nobody
    /\ builderPeer' = p
    /\ events' = IF p = builderPeer THEN rest ELSE Append(rest, SelectionEvent(builderPeer, p))

\* reevaluate_peer, called by the application.
ReevaluatePeer(p) ==
    /\ evaluations < MaxTopologyEvents
    /\ Len(events) < MaxQueue
    /\ p # builderPeer
    /\ Reevaluated(p, events)
    /\ evaluations' = evaluations + 1
    /\ UNCHANGED <<builderSees, loop, dialled, selected, lateral, up, retry, taskVars, buffer>>

-----------------------------------------------------------------------------
\* The event loop.

Idle == loop = "idle" /\ events # <<>>
Event(name) == Idle /\ Head(events)[1] = name

\* A retry state with no attempts and a task, at the first backoff.
SpawnRetry(p) ==
    \E t \in RetryTasks :
        /\ taskPeer[t] = Nobody
        /\ retry' = [retry EXCEPT ![RetryKey(p)] = 0]
        /\ taskPeer' = [taskPeer EXCEPT ![t] = p]
        /\ taskSeen' = [taskSeen EXCEPT ![t] = -1]

\* PeerSelected, and PeerChanged: the retry state is cleared, the old peer is
\* disconnected.  The loop then waits for the connection.
PeerSelected ==
    /\ Event("PeerSelected") \/ Event("PeerChanged")
    /\ LET e == Head(events)
       IN  /\ up' = up \ {e[3]}
           /\ retry' = IF e[1] = "PeerChanged" THEN [retry EXCEPT ![Nobody] = -1] ELSE retry
           /\ dialled' = e[2]
           /\ loop' = IF e[1] = "PeerChanged" THEN "changing" ELSE "connecting"
    /\ events' = Tail(events)
    /\ UNCHANGED <<builderVars, selected, lateral, taskVars, buffer>>

\* A parent was reached, by the loop or by a retry task: flush_buffer drains
\* the telemetry and sends it, whether or not each packet gets through.
ParentConnected(p) ==
    /\ selected' = p
    /\ up' = up \cup {p}
    /\ buffer' = 0

\* connect returned.  PeerChanged has cleared the retry state before it dialled
\* and does not do so again.
ParentDialled(ok) ==
    /\ loop \in {"connecting", "changing"} /\ dialled \in Parents
    /\ loop' = "idle" /\ dialled' = Nobody
    /\ \/ /\ ok
          /\ ParentConnected(dialled)
          /\ retry' = IF loop = "changing" THEN retry ELSE [retry EXCEPT ![Nobody] = -1]
          /\ UNCHANGED taskVars
       \/ /\ ~ok
          /\ SpawnRetry(dialled)
          /\ UNCHANGED <<selected, up, buffer>>
    /\ UNCHANGED <<builderVars, events, lateral>>

SelectedPeerLost(p) ==
    /\ Event("PeerLost")
    /\ selected' = Nobody
    /\ up' = up \ {Head(events)[2]}
    /\ Reevaluated(p, Tail(events))
    /\ UNCHANGED <<builderSees, evaluations, loop, dialled, lateral, retry, taskVars, buffer>>

\* LateralPeerDiscovered.  At the limit the handler returns, and with it the
\* event loop.
LateralPeerDiscovered ==
    /\ Event("LateralPeerDiscovered")
    /\ \/ /\ Cardinality(lateral) >= MaxLateral
          /\ loop' = "ended"
          /\ UNCHANGED dialled
       \/ /\ Cardinality(lateral) < MaxLateral
          /\ loop' = "connecting"
          /\ dialled' = Head(events)[2]
    /\ events' = Tail(events)
    /\ UNCHANGED <<builderVars, selected, lateral, up, retry, taskVars, buffer>>

\* A lateral peer was reached, by the loop or by a retry task.
LateralConnected(p) ==
    /\ lateral' = lateral \cup {p}
    /\ up' = up \cup {p}
    /\ retry' = [retry EXCEPT ![p] = -1]

LateralDialled(ok) ==
    /\ loop = "connecting" /\ dialled \in Laterals
    /\ loop' = "idle" /\ dialled' = Nobody
    /\ \/ ok /\ LateralConnected(dialled) /\ UNCHANGED taskVars
       \/ ~ok /\ SpawnRetry(dialled) /\ UNCHANGED <<lateral, up>>
    /\ UNCHANGED <<builderVars, events, selected, buffer>>

LateralPeerLost ==
    /\ Event("LateralPeerLost")
    /\ LET p == Head(events)[2]
       IN  /\ retry' = [retry EXCEPT ![p] = -1]
           /\ lateral' = lateral \ {p}
           /\ up' = IF p \in lateral THEN up \ {p} ELSE up
    /\ events' = Tail(events)
    /\ UNCHANGED <<builderVars, loop, dialled, selected, taskVars, buffer>>

-----------------------------------------------------------------------------
\* Retry tasks.

TaskEnds(t) ==
    /\ taskPeer' = [taskPeer EXCEPT ![t] = Nobody]
    /\ taskSeen' = [taskSeen EXCEPT ![t] = -1]

\* The task reads the attempts and sleeps; without a retry state it ends.
ReadRetry(t) ==
    LET attempts == retry[RetryKey(taskPeer[t])]
    IN  /\ taskPeer[t] # Nobody /\ taskSeen[t] = -1
        /\ \/ attempts = -1 /\ TaskEnds(t)
           \/ /\ attempts # -1
              /\ taskSeen' = [taskSeen EXCEPT ![t] = attempts]
              /\ UNCHANGED taskPeer
        /\ UNCHANGED <<builderVars, events, loop, dialled, selected, lateral, up, retry, buffer>>

\* connect returned: it does not look again whether the retry is still wanted.
RetryConnected(t) ==
    LET p == taskPeer[t]
    IN  /\ p # Nobody /\ taskSeen[t] # -1
        /\ \/ /\ p \in Parents
              /\ ParentConnected(p)
              /\ retry' = [retry EXCEPT ![Nobody] = -1]
              /\ UNCHANGED lateral
           \/ /\ p \in Laterals
              /\ LateralConnected(p)
              /\ UNCHANGED <<selected, buffer>>
        /\ TaskEnds(t)
        /\ UNCHANGED <<builderVars, events, loop, dialled>>

\* A mutation of RetryFailed: the task gives up one attempt too late.
RetryFailedOnceMore(t) ==
    LET next == taskSeen[t] + 1
        key == RetryKey(taskPeer[t])
    IN  /\ taskPeer[t] # Nobody /\ taskSeen[t] # -1
        /\ \/ /\ next > MaxRetries
              /\ retry' = [retry EXCEPT ![key] = -1]
              /\ TaskEnds(t)
           \/ /\ next <= MaxRetries
              /\ retry' = [retry EXCEPT ![key] = next]
              /\ taskSeen' = [taskSeen EXCEPT ![t] = -1]
              /\ UNCHANGED taskPeer
        /\ UNCHANGED <<builderVars, events, loop, dialled, selected, lateral, up, buffer>>

\* connect failed: the next attempt is scheduled, or the task gives up.
RetryFailed(t) ==
    LET next == taskSeen[t] + 1
        key == RetryKey(taskPeer[t])
    IN  /\ taskPeer[t] # Nobody /\ taskSeen[t] # -1
        /\ \/ /\ next >= MaxRetries
              /\ retry' = [retry EXCEPT ![key] = -1]
              /\ TaskEnds(t)
           \/ /\ next < MaxRetries
              /\ retry' = [retry EXCEPT ![key] = next]
              /\ taskSeen' = [taskSeen EXCEPT ![t] = -1]
              /\ UNCHANGED taskPeer
        /\ UNCHANGED <<builderVars, events, loop, dialled, selected, lateral, up, buffer>>

\* send_telemetry, which drops the oldest packet of a full buffer.
SendTelemetry ==
    /\ buffer < MaxBuffer
    /\ buffer' = buffer + 1
    /\ UNCHANGED <<builderVars, events, loop, dialled, selected, lateral, up, retry, taskVars>>

\* stop aborts the event loop, where it waits, and the builder's task, and
\* disconnects; retry tasks and their states stay.
StopTopology ==
    /\ loop # "stopped"
    /\ loop' = "stopped" /\ dialled' = Nobody
    /\ events' = <<>>
    /\ selected' = Nobody /\ lateral' = {} /\ up' = {}
    /\ UNCHANGED <<builderVars, retry, taskVars, buffer>>

-----------------------------------------------------------------------------

TopologyNext ==
    \/ \E lost \in BOOLEAN, p \in Parents \cup {Nobody}, found, gone \in SUBSET Laterals :
          Evaluate(lost, p, found, gone)
    \/ \E p \in Parents \cup {Nobody} : ReevaluatePeer(p) \/ SelectedPeerLost(p)
    \/ PeerSelected \/ LateralPeerDiscovered \/ LateralPeerLost
    \/ \E ok \in BOOLEAN : ParentDialled(ok) \/ LateralDialled(ok)
    \/ \E t \in RetryTasks : ReadRetry(t) \/ RetryConnected(t) \/ RetryFailed(t)
    \/ SendTelemetry \/ StopTopology

TopologySpec == TopologyInit /\ [][TopologyNext]_topologyVars

TopologyTypeOK ==
    /\ builderPeer \in Parents \cup {Nobody}
    /\ builderSees \subseteq Laterals
    /\ loop \in {"idle", "connecting", "changing", "ended", "stopped"}
    /\ dialled \in Parents \cup Laterals \cup {Nobody}
    /\ selected \in Parents \cup {Nobody}
    /\ lateral \subseteq Laterals
    /\ up \subseteq Parents \cup Laterals
    /\ retry \in [Laterals \cup {Nobody} -> -1 .. MaxRetries]
    /\ taskPeer \in [RetryTasks -> Parents \cup Laterals \cup {Nobody}]
    /\ taskSeen \in [RetryTasks -> -1 .. MaxRetries]
    /\ buffer \in 0 .. MaxBuffer
    /\ evaluations \in 0 .. MaxTopologyEvents

\* No retry state ever holds max_retries attempts, whichever tasks share it and
\* in whatever order they read and write it: the branch in which a retry task
\* takes the write lock while it still holds the read lock of the same state,
\* and would wait for itself, is never entered (ReadRetry, RetryFailed).
RetryBelowMax ==
    \A k \in Laterals \cup {Nobody} : retry[k] < MaxRetries
=============================================================================
