----------------------------- MODULE MCSyncCalls -----------------------------
(***************************************************************************)
(* What a call that syncs with a peer goes through, for TLC, side by side: *)
(* the circuit breaker and the flow control before a sync, with one peer,  *)
(* one document and two tasks, and the persistent channel its batch is     *)
(* sent on, with two senders.  A behaviour is one of either.               *)
(***************************************************************************)
EXTENDS SyncInitiate, SyncChannel

VARIABLE part   \* the part that runs; the other rests

callVars == <<part, vars, channelVars>>

CallsInit ==
    /\ part \in {"initiate", "channel"}
    /\ Init /\ ChannelInit

CallsNext ==
    /\ UNCHANGED part
    /\ \/ part = "initiate" /\ Next /\ UNCHANGED channelVars
       \/ part = "channel" /\ ChannelNext /\ UNCHANGED vars

\* SyncInitiate!Fairness and SyncChannel!ChannelFairness, of the part that runs.
CallsRun ==
    /\ \A t \in Tasks :
          /\ WF_vars(part = "initiate" /\ Start(t))
          /\ WF_vars(part = "initiate" /\ Proceed(t))
          /\ SF_vars(part = "initiate" /\ SendBatch(t))
    /\ WF_vars(part = "initiate" /\ Tick)
    /\ \A t \in Senders :
          /\ WF_channelVars(part = "channel" /\ StartSend(t))
          /\ WF_channelVars(part = "channel" /\ SendProceeds(t))
          /\ SF_channelVars(part = "channel" /\ InstallStream(t))
          /\ SF_channelVars(part = "channel" /\ BeginWrite(t))
    /\ \A c \in Channels : WF_channelVars(part = "channel" /\ Background(c))

CallsSpec == CallsInit /\ [][CallsNext]_callVars /\ CallsRun
=============================================================================
