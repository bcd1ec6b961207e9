----------------------------- MODULE SyncChannel -----------------------------
(***************************************************************************)
(* The persistent sync channels to one peer (src/storage/sync_channel.rs): *)
(* the manager's map entry, the channels it has created, tasks that send   *)
(* batches through send_to_peer, the receiver task of each channel, and    *)
(* close.  A step is one access to shared state or one awaited operation.  *)
(*                                                                         *)
(* Channels are objects behind an Arc: the identity of one that nothing    *)
(* refers to any more may be used again.                                   *)
(***************************************************************************)
EXTENDS Naturals

CONSTANTS
    Channels,               \* identities of channel objects
    Senders,                \* tasks that call send_to_peer
    MAX_RECONNECT_ATTEMPTS

ASSUME ChannelAssumption ==
    /\ Channels \subseteq Nat \ {0}
    /\ MAX_RECONNECT_ATTEMPTS \in Nat

NoChannel == 0

VARIABLES
    mapped,              \* SyncChannelManager.channels[peer], or NoChannel
    state, send,         \* of each channel: its state and its send stream
    receiver,            \* its receiver task; "ended" is past its loop
    recv_task,           \* whether the handle of that task has been stored
    reconnect_attempts,  \* saturating at the maximum
    closing,             \* where close() is
    raced,               \* history: something was underway on the channel when
                         \* close() began, or its receiver ended meanwhile
    send_pc, chan             \* each sender's position, and the channel it holds

channelHealth == <<state, reconnect_attempts>>
tasks == <<receiver, recv_task>>
close == <<closing, raced>>
senders == <<send_pc, chan>>
channelVars == <<mapped, channelHealth, send, tasks, close, senders>>

SendPCs == {"idle", "connect", "insert", "check", "reconnect", "count", "giveup",
        "open", "install", "connected", "reset", "write", "writing"}

ChannelTypeOK ==
    /\ mapped \in Channels \cup {NoChannel}
    /\ state \in [Channels -> {"Connected", "Reconnecting", "Closed"}]
    /\ send \in [Channels -> {"none", "open", "broken"}]
    /\ receiver \in [Channels -> {"running", "ended", "gone"}]
    /\ recv_task \in [Channels -> BOOLEAN]
    /\ reconnect_attempts \in [Channels -> 0 .. MAX_RECONNECT_ATTEMPTS]
    /\ closing \in [Channels -> {"no", "mark", "abort", "take", "done"}]
    /\ raced \in [Channels -> BOOLEAN]
    /\ send_pc \in [Senders -> SendPCs]
    /\ chan \in [Senders -> Channels \cup {NoChannel}]

ChannelInit ==
    /\ mapped = NoChannel
    /\ state = [c \in Channels |-> "Closed"]
    /\ send = [c \in Channels |-> "none"]
    /\ receiver = [c \in Channels |-> "gone"]
    /\ recv_task = [c \in Channels |-> FALSE]
    /\ reconnect_attempts = [c \in Channels |-> 0]
    /\ closing = [c \in Channels |-> "no"]
    /\ raced = [c \in Channels |-> FALSE]
    /\ send_pc = [t \in Senders |-> "idle"]
    /\ chan = [t \in Senders |-> NoChannel]

-----------------------------------------------------------------------------
At(t, l) == send_pc[t] = l
SendGoto(t, l) == send_pc' = [send_pc EXCEPT ![t] = l] /\ UNCHANGED chan
GotoWith(t, l, c) == send_pc' = [send_pc EXCEPT ![t] = l] /\ chan' = [chan EXCEPT ![t] = c]
SendEnds(t) == GotoWith(t, "idle", NoChannel)

(* Nothing refers to the object: not the map, no sender, no task of its     *)
(* own, no close().                                                         *)
Unreferenced(c) ==
    /\ mapped # c
    /\ \A t \in Senders : chan[t] # c
    /\ receiver[c] = "gone"
    /\ closing[c] \in {"no", "done"}

(* The async mutex around the send stream is held while a batch is written. *)
SendMutexFree(c) == \A t \in Senders : ~ (At(t, "writing") /\ chan[t] = c)

(* get_channel: the mapped channel when it is connected ...                 *)
GetConnected(t) ==
    /\ At(t, "idle")
    /\ mapped # NoChannel
    /\ state[mapped] = "Connected"
    /\ GotoWith(t, "check", mapped)
    /\ UNCHANGED <<mapped, channelHealth, send, tasks, close>>

(* ... otherwise a new one; the map's lock is not held meanwhile.           *)
GetMissing(t) ==
    /\ At(t, "idle")
    /\ mapped # NoChannel => state[mapped] # "Connected"
    /\ SendGoto(t, "connect")
    /\ UNCHANGED <<mapped, channelHealth, send, tasks, close>>

(* SyncChannel::connect and spawn_receiver.                                 *)
ConnectOk(t) ==
    /\ At(t, "connect")
    /\ \E c \in Channels :
          /\ Unreferenced(c)
          /\ GotoWith(t, "insert", c)
          /\ state' = [state EXCEPT ![c] = "Connected"]
          /\ send' = [send EXCEPT ![c] = "open"]
          /\ receiver' = [receiver EXCEPT ![c] = "running"]
          /\ recv_task' = [recv_task EXCEPT ![c] = FALSE]
          /\ reconnect_attempts' = [reconnect_attempts EXCEPT ![c] = 0]
          /\ closing' = [closing EXCEPT ![c] = "no"]
          /\ raced' = [raced EXCEPT ![c] = FALSE]
    /\ UNCHANGED mapped

ConnectFails(t) ==
    /\ At(t, "connect")
    /\ SendEnds(t)
    /\ UNCHANGED <<mapped, channelHealth, send, tasks, close>>

(* The new channel replaces whatever the map holds by now.                  *)
Insert(t) ==
    /\ At(t, "insert")
    /\ mapped' = chan[t]
    /\ SendGoto(t, "check")
    /\ UNCHANGED <<channelHealth, send, tasks, close>>

(* The spawned task that stores the receiver's handle (the handle of a task *)
(* that is gone has no effect).                                             *)
StoreHandle(c) ==
    /\ receiver[c] # "gone"
    /\ ~ recv_task[c]
    /\ recv_task' = [recv_task EXCEPT ![c] = TRUE]
    /\ UNCHANGED <<mapped, channelHealth, send, receiver, close, senders>>

-----------------------------------------------------------------------------
(* send: the state is read and released.                                    *)
CheckState(t) ==
    /\ At(t, "check")
    /\ \/ state[chan[t]] = "Closed" /\ SendEnds(t)
       \/ state[chan[t]] = "Reconnecting" /\ SendGoto(t, "reconnect")
       \/ state[chan[t]] = "Connected" /\ SendGoto(t, "write")
    /\ UNCHANGED <<mapped, channelHealth, send, tasks, close>>

(* reconnect                                                                *)
ReconnectMark(t) ==
    /\ At(t, "reconnect")
    /\ state' = [state EXCEPT ![chan[t]] = "Reconnecting"]
    /\ SendGoto(t, "count")
    /\ UNCHANGED <<mapped, reconnect_attempts, send, tasks, close>>

ReconnectCount(t) ==
    /\ At(t, "count")
    /\ IF reconnect_attempts[chan[t]] >= MAX_RECONNECT_ATTEMPTS
       THEN SendGoto(t, "giveup") /\ UNCHANGED reconnect_attempts
       ELSE /\ SendGoto(t, "open")
            /\ reconnect_attempts' = [reconnect_attempts EXCEPT ![chan[t]] = @ + 1]
    /\ UNCHANGED <<mapped, state, send, tasks, close>>

GiveUp(t) ==
    /\ At(t, "giveup")
    /\ state' = [state EXCEPT ![chan[t]] = "Closed"]
    /\ SendEnds(t)
    /\ UNCHANGED <<mapped, reconnect_attempts, send, tasks, close>>

(* get_or_connect and open_bi fail: the channel stays Reconnecting.         *)
OpenFails(t) ==
    /\ At(t, "open")
    /\ SendEnds(t)
    /\ UNCHANGED <<mapped, channelHealth, send, tasks, close>>

OpenOk(t) ==
    /\ At(t, "open")
    /\ SendGoto(t, "install")
    /\ UNCHANGED <<mapped, channelHealth, send, tasks, close>>

InstallStream(t) ==
    /\ At(t, "install")
    /\ SendMutexFree(chan[t])
    /\ send' = [send EXCEPT ![chan[t]] = "open"]
    /\ SendGoto(t, "connected")
    /\ UNCHANGED <<mapped, channelHealth, tasks, close>>

MarkConnected(t) ==
    /\ At(t, "connected")
    /\ state' = [state EXCEPT ![chan[t]] = "Connected"]
    /\ SendGoto(t, "reset")
    /\ UNCHANGED <<mapped, reconnect_attempts, send, tasks, close>>

ResetAttempts(t) ==
    /\ At(t, "reset")
    /\ reconnect_attempts' = [reconnect_attempts EXCEPT ![chan[t]] = 0]
    /\ SendGoto(t, "write")
    /\ UNCHANGED <<mapped, state, send, tasks, close>>

(* A send that waits for a stream instead of failing without one.           *)
BeginWriteWaits(t) ==
    /\ At(t, "write")
    /\ SendMutexFree(chan[t])
    /\ IF send[chan[t]] = "none" THEN UNCHANGED senders ELSE SendGoto(t, "writing")
    /\ UNCHANGED <<mapped, channelHealth, send, tasks, close>>

(* The mutex is taken; there may be no stream any more.                     *)
BeginWrite(t) ==
    /\ At(t, "write")
    /\ SendMutexFree(chan[t])
    /\ IF send[chan[t]] = "none" THEN SendEnds(t) ELSE SendGoto(t, "writing")
    /\ UNCHANGED <<mapped, channelHealth, send, tasks, close>>

(* The writes end, well or (on a broken stream) not; an error is returned   *)
(* and the state of the channel stays what it is.                           *)
EndWrite(t) ==
    /\ At(t, "writing")
    /\ SendEnds(t)
    /\ UNCHANGED <<mapped, channelHealth, send, tasks, close>>

-----------------------------------------------------------------------------
(* The stream dies under the channel.                                       *)
StreamBreaks(c) ==
    /\ send[c] = "open"
    /\ send' = [send EXCEPT ![c] = "broken"]
    /\ UNCHANGED <<mapped, channelHealth, tasks, close, senders>>

(* receive_loop returns: an error, or nothing read for RECV_TIMEOUT ...     *)
ReceiverEnds(c) ==
    /\ receiver[c] = "running"
    /\ receiver' = [receiver EXCEPT ![c] = "ended"]
    /\ raced' = [raced EXCEPT ![c] = @ \/ closing[c] = "abort"]
    /\ UNCHANGED <<mapped, channelHealth, send, recv_task, closing, senders>>

(* ... and the task marks the channel before it is gone.                    *)
ReceiverMarks(c) ==
    /\ receiver[c] = "ended"
    /\ receiver' = [receiver EXCEPT ![c] = "gone"]
    /\ state' = [state EXCEPT ![c] = "Reconnecting"]
    /\ UNCHANGED <<mapped, reconnect_attempts, send, recv_task, close, senders>>

(* A remove_channel that closes first and leaves the entry in the map.      *)
RemoveChannelLate ==
    /\ mapped # NoChannel
    /\ closing[mapped] = "no"
    /\ closing' = [closing EXCEPT ![mapped] = "mark"]
    /\ UNCHANGED <<mapped, channelHealth, send, tasks, raced, senders>>

(* remove_channel and shutdown: out of the map first, then close.           *)
RemoveChannel ==
    /\ mapped # NoChannel
    /\ mapped' = NoChannel
    /\ closing' = [closing EXCEPT ![mapped] = "mark"]
    /\ UNCHANGED <<channelHealth, send, tasks, raced, senders>>

Underway(c) ==
    \/ receiver[c] = "ended"
    \/ receiver[c] = "running" /\ ~ recv_task[c]
    \/ \E t \in Senders :
          /\ chan[t] = c
          /\ send_pc[t] \in {"reconnect", "count", "open", "install", "connected"}

(* close: the state, then the receiver task, then the stream.               *)
CloseMark(c) ==
    /\ closing[c] = "mark"
    /\ state' = [state EXCEPT ![c] = "Closed"]
    /\ closing' = [closing EXCEPT ![c] = "abort"]
    /\ raced' = [raced EXCEPT ![c] = Underway(c)]
    /\ UNCHANGED <<mapped, reconnect_attempts, send, tasks, senders>>

(* A close that forgets the receiver.                                       *)
CloseWithoutAbort(c) ==
    /\ closing[c] = "abort"
    /\ closing' = [closing EXCEPT ![c] = "take"]
    /\ UNCHANGED <<mapped, channelHealth, send, tasks, raced, senders>>

(* Aborting does not stop a task that has left its last await.              *)
CloseAbort(c) ==
    /\ closing[c] = "abort"
    /\ closing' = [closing EXCEPT ![c] = "take"]
    /\ receiver' = [receiver EXCEPT ![c] = IF recv_task[c] /\ @ = "running" THEN "gone" ELSE @]
    /\ UNCHANGED <<mapped, channelHealth, send, recv_task, raced, senders>>

CloseTake(c) ==
    /\ closing[c] = "take"
    /\ SendMutexFree(c)
    /\ send' = [send EXCEPT ![c] = "none"]
    /\ closing' = [closing EXCEPT ![c] = "done"]
    /\ UNCHANGED <<mapped, channelHealth, tasks, raced, senders>>

Close(c) == CloseMark(c) \/ CloseAbort(c) \/ CloseTake(c)

-----------------------------------------------------------------------------
StartSend(t) == GetConnected(t) \/ GetMissing(t)

SendProceeds(t) ==
    \/ ConnectOk(t) \/ ConnectFails(t) \/ Insert(t)
    \/ CheckState(t)
    \/ ReconnectMark(t) \/ ReconnectCount(t) \/ GiveUp(t)
    \/ OpenOk(t) \/ OpenFails(t) \/ InstallStream(t) \/ MarkConnected(t) \/ ResetAttempts(t)
    \/ BeginWrite(t) \/ EndWrite(t)

Background(c) == StoreHandle(c) \/ ReceiverEnds(c) \/ ReceiverMarks(c) \/ Close(c)

ChannelNext ==
    \/ \E t \in Senders : StartSend(t) \/ SendProceeds(t)
    \/ \E c \in Channels : Background(c) \/ StreamBreaks(c)
    \/ RemoveChannel

ChannelSpec == ChannelInit /\ [][ChannelNext]_channelVars

(***************************************************************************)
(* Fairness: the runtime polls every task; tokio's mutex is first come,    *)
(* first served; the receiver's read ends at the latest at its timeout;    *)
(* callers keep sending.                                                   *)
(***************************************************************************)
ChannelFairness ==
    /\ \A t \in Senders :
          /\ WF_channelVars(StartSend(t)) /\ WF_channelVars(SendProceeds(t))
          /\ SF_channelVars(InstallStream(t)) /\ SF_channelVars(BeginWrite(t))
    /\ \A c \in Channels : WF_channelVars(Background(c))

ChannelFairSpec == ChannelSpec /\ ChannelFairness

(* In addition, a peer that is asked again and again is reached in the end. *)
ReachableSpec ==
    ChannelFairSpec /\ \A t \in Senders : SF_channelVars(ConnectOk(t)) /\ SF_channelVars(OpenOk(t))

-----------------------------------------------------------------------------
(* What the manager hands out as connected can be written to: the mapped    *)
(* channel has a send stream.  It holds because remove_channel unmaps       *)
(* before it closes and reconnect installs before it marks.                 *)
MappedChannelHasStream ==
    mapped # NoChannel /\ state[mapped] = "Connected" => send[mapped] # "none"

(* A close that nothing was underway against is final: whoever still holds  *)
(* the channel finds it closed and without a stream (close, and send's      *)
(* check of the state).                                                     *)
CleanCloseIsFinal ==
    \A c \in Channels :
        closing[c] = "done" /\ ~ raced[c] =>
            state[c] = "Closed" /\ send[c] = "none"

(* Every send_to_peer returns, whatever reconnects, closes and other        *)
(* senders do on its channel: nobody waits for the send mutex for ever.     *)
EverySendReturns == \A t \in Senders : send_pc[t] # "idle" ~> send_pc[t] = "idle"

(* "Maintains a single bidirectional QUIC stream ... with automatic         *)
(* reconnection on failure": a mapped channel whose stream broke gets a new *)
(* one, or is replaced.                                                     *)
ReconnectsOnFailure ==
    \A c \in Channels :
        mapped = c /\ send[c] = "broken" ~> ~ (mapped = c /\ send[c] = "broken")
=============================================================================
