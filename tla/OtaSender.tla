------------------------------ MODULE OtaSender ------------------------------
(***************************************************************************)
(* The firmware sender for one Lite peer (transport/lite_ota.rs): the      *)
(* offers, the stop-and-wait transfer of chunks and the retransmissions of *)
(* tick, against a device (outside the repository) that writes chunks in   *)
(* order and acknowledges each.  They talk over UDP: what was sent may     *)
(* arrive never, late or many times, so the messages are sets that grow.   *)
(***************************************************************************)
EXTENDS Naturals

CONSTANTS
    Sessions,      \* 1 .. k: the session ids, in the order they are taken
    TotalChunks,   \* chunks of every firmware
    MaxOtaRetries  \* MAX_RETRIES_PER_CHUNK

ASSUME OtaAssumption ==
    /\ Sessions \subseteq Nat \ {0}
    /\ TotalChunks \in Nat \ {0}
    /\ MaxOtaRetries \in Nat

VARIABLES
    session,     \* the session of the peer in the map, 0 if there is none
    otaState,    \* its OtaSenderState
    chunk,       \* current_chunk of Transferring
    otaRetries,  \* retries of the state
    acked,       \* chunks_acked
    overdue,     \* SESSION_TIMEOUT has passed since started_at
    sendNow,     \* chunks handlers and ticks have still to send; TotalChunks is OtaComplete
    offerAgain,  \* a tick is sending the offer again: the new retries; 0 if none
    data,        \* SUBSET (Sessions \X chunks): the chunks sent
    completes,   \* SUBSET Sessions: the OtaComplete messages sent
    results,     \* SUBSET (Sessions \X BOOLEAN): the results the device has sent
    joined, left,   \* SUBSET Sessions: the device has accepted, and aborted, the session
    flashed,     \* [Sessions -> 0 .. TotalChunks]: chunks the device has written
    device       \* the session the device is in, 0 if none

senderVars == <<session, otaState, chunk, otaRetries, acked, overdue, sendNow, offerAgain>>
toDevice == <<data, completes>>
deviceVars == <<results, joined, left, flashed, device>>
otaVars == <<senderVars, toDevice, deviceVars>>

\* What else was sent, by now, and may arrive: the offer of every session so far,
\* the acceptance at every chunk the device could have resumed from, and the
\* acknowledgement of every chunk it has written.
offers == {s \in Sessions : s <= session}
accepts == {a \in joined \X (0 .. TotalChunks) : a[2] <= flashed[a[1]]}
acks == {a \in joined \X (0 .. TotalChunks - 1) : a[2] < flashed[a[1]]}

OtaStates == {"None", "Offered", "Transferring", "WaitingResult", "Complete", "Failed"}

OtaInit ==
    /\ session = 0 /\ otaState = "None" /\ chunk = 0 /\ otaRetries = 0 /\ acked = 0
    /\ overdue = FALSE /\ sendNow = {} /\ offerAgain = 0
    /\ data = {} /\ completes = {} /\ results = {} /\ joined = {} /\ left = {}
    /\ flashed = [s \in Sessions |-> 0]
    /\ device = 0

-----------------------------------------------------------------------------
\* offer_to_peer replaces the session of the peer, whatever its state.
OfferToPeer(s) ==
    /\ s \in Sessions /\ s > session /\ \A r \in Sessions : r < s => r <= session
    /\ session' = s
    /\ otaState' = "Offered"
    /\ otaRetries' = 0
    /\ chunk' = 0
    /\ acked' = 0
    /\ overdue' = FALSE
    /\ UNCHANGED <<sendNow, offerAgain, toDevice, deviceVars>>

\* The states of the session; the handlers enter them from any state.
Transfer(k, retries) ==
    otaState' = "Transferring" /\ chunk' = k /\ otaRetries' = retries

AwaitResult(retries) ==
    otaState' = "WaitingResult" /\ otaRetries' = retries /\ UNCHANGED chunk

Fail == otaState' = "Failed" /\ UNCHANGED <<chunk, otaRetries>>

HandleAccept(s, k) ==
    /\ <<s, k>> \in accepts
    /\ s = session
    /\ acked' = k
    /\ Transfer(k, 0)
    /\ sendNow' = IF k < TotalChunks THEN sendNow \cup {k} ELSE sendNow
    /\ UNCHANGED <<session, overdue, offerAgain, toDevice, deviceVars>>

\* A mutation of HandleAck: the acknowledged session is not compared.
HandleAckOfAnySession(s, k) ==
    /\ <<s, k>> \in acks
    /\ session # 0
    /\ acked' = k + 1
    /\ IF k + 1 >= TotalChunks THEN AwaitResult(0) ELSE Transfer(k + 1, 0)
    /\ sendNow' = sendNow \cup {k + 1}
    /\ UNCHANGED <<session, overdue, offerAgain, toDevice, deviceVars>>

\* handle_ack, which does not look at the state or at the current chunk.
HandleAck(s, k) ==
    /\ <<s, k>> \in acks
    /\ s = session
    /\ acked' = k + 1
    /\ IF k + 1 >= TotalChunks THEN AwaitResult(0) ELSE Transfer(k + 1, 0)
    /\ sendNow' = sendNow \cup {k + 1}
    /\ UNCHANGED <<session, overdue, offerAgain, toDevice, deviceVars>>

HandleResult(s, ok) ==
    /\ <<s, ok>> \in results
    /\ s = session
    /\ IF ok THEN otaState' = "Complete" /\ UNCHANGED <<chunk, otaRetries>> ELSE Fail
    /\ UNCHANGED <<session, acked, overdue, sendNow, offerAgain, toDevice, deviceVars>>

HandleAbort(s) ==
    /\ s \in left
    /\ s = session
    /\ Fail
    /\ UNCHANGED <<session, acked, overdue, sendNow, offerAgain, toDevice, deviceVars>>

-----------------------------------------------------------------------------
\* send_chunk and send_complete, after the lock was released: the message
\* carries the id of the session that is in the map by now.
SendNow(k) ==
    /\ k \in sendNow
    /\ sendNow' = sendNow \ {k}
    /\ \/ k < TotalChunks /\ data' = data \cup {<<session, k>>} /\ UNCHANGED completes
       \/ k = TotalChunks /\ completes' = completes \cup {session} /\ UNCHANGED data
    /\ UNCHANGED <<session, otaState, chunk, otaRetries, acked, overdue, offerAgain,
                   deviceVars>>

\* tick: the session has timed out, in whatever state it is.
TickTimedOut ==
    /\ session # 0 /\ offerAgain = 0
    /\ overdue' = TRUE
    /\ Fail
    /\ UNCHANGED <<session, acked, sendNow, offerAgain, toDevice, deviceVars>>

\* tick: CHUNK_TIMEOUT has passed and the retries are used up ...
TickGivesUp ==
    /\ ~overdue /\ offerAgain = 0
    /\ otaState \in {"Offered", "Transferring", "WaitingResult"}
    /\ otaRetries >= MaxOtaRetries
    /\ Fail
    /\ UNCHANGED <<session, acked, overdue, sendNow, offerAgain, toDevice, deviceVars>>

\* ... or are not: a chunk or OtaComplete is sent again ...
TickResends ==
    /\ ~overdue /\ offerAgain = 0
    /\ otaRetries < MaxOtaRetries
    /\ \/ /\ otaState = "Transferring"
          /\ Transfer(chunk, otaRetries + 1)
          /\ sendNow' = IF chunk < TotalChunks THEN sendNow \cup {chunk} ELSE sendNow
       \/ /\ otaState = "WaitingResult"
          /\ AwaitResult(otaRetries + 1)
          /\ sendNow' = sendNow \cup {TotalChunks}
    /\ UNCHANGED <<session, acked, overdue, offerAgain, toDevice, deviceVars>>

\* ... or the offer is: the tick reads the state, sends, and stores Offered over
\* whatever state there is by then.
TickReadsOffered ==
    /\ ~overdue /\ offerAgain = 0
    /\ otaState = "Offered"
    /\ otaRetries < MaxOtaRetries
    /\ offerAgain' = otaRetries + 1
    /\ UNCHANGED <<session, otaState, chunk, otaRetries, acked, overdue, sendNow,
                   toDevice, deviceVars>>

TickStoresOffered ==
    /\ offerAgain # 0
    /\ otaState' = "Offered"
    /\ otaRetries' = offerAgain
    /\ offerAgain' = 0
    /\ UNCHANGED <<session, chunk, acked, overdue, sendNow, toDevice, deviceVars>>

-----------------------------------------------------------------------------
\* The device.

\* It joins a newer session and answers the offer of its own again, each time
\* with the chunk it wants next.
DeviceAccepts(s) ==
    /\ s \in offers
    /\ s > device
    /\ device' = s
    /\ joined' = joined \cup {s}
    /\ UNCHANGED <<senderVars, toDevice, results, left, flashed>>

\* It writes the chunk it wants next, and acknowledges again what it has.
DeviceWrites(k) ==
    /\ <<device, k>> \in data
    /\ k = flashed[device]
    /\ flashed' = [flashed EXCEPT ![device] = k + 1]
    /\ UNCHANGED <<senderVars, toDevice, results, joined, left, device>>

\* The hash may still not match.
DeviceResult(ok) ==
    /\ device \in completes
    /\ ok => flashed[device] = TotalChunks
    /\ results' = results \cup {<<device, ok>>}
    /\ UNCHANGED <<senderVars, toDevice, joined, left, flashed, device>>

\* It gives up, or is told to by an OtaAbort.
DeviceLeaves ==
    /\ device # 0
    /\ device' = 0
    /\ left' = left \cup {device}
    /\ UNCHANGED <<senderVars, toDevice, results, joined, flashed>>

-----------------------------------------------------------------------------
OtaNext ==
    \/ \E s \in Sessions :
          \/ OfferToPeer(s) \/ HandleAbort(s) \/ DeviceAccepts(s)
          \/ \E k \in 0 .. TotalChunks : HandleAccept(s, k) \/ HandleAck(s, k)
          \/ \E ok \in BOOLEAN : HandleResult(s, ok)
    \/ \E k \in 0 .. TotalChunks : SendNow(k) \/ DeviceWrites(k)
    \/ \E ok \in BOOLEAN : DeviceResult(ok)
    \/ TickTimedOut \/ TickGivesUp \/ TickResends \/ TickReadsOffered \/ TickStoresOffered
    \/ DeviceLeaves

OtaSpec == OtaInit /\ [][OtaNext]_otaVars

OtaTypeOK ==
    /\ session \in Sessions \cup {0}
    /\ otaState \in OtaStates
    /\ chunk \in 0 .. TotalChunks
    /\ otaRetries \in 0 .. MaxOtaRetries
    /\ acked \in 0 .. TotalChunks
    /\ overdue \in BOOLEAN
    /\ sendNow \subseteq 0 .. TotalChunks
    /\ offerAgain \in 0 .. MaxOtaRetries
    /\ data \subseteq Sessions \X (0 .. TotalChunks - 1)
    /\ completes \subseteq Sessions
    /\ results \subseteq Sessions \X BOOLEAN
    /\ joined \subseteq Sessions
    /\ left \subseteq Sessions
    /\ flashed \in [Sessions -> 0 .. TotalChunks]
    /\ device \in Sessions \cup {0}

\* The sender never believes more of the device than is true of it: the chunks
\* it counts as acknowledged are written, it sends OtaComplete of itself only
\* to a device with the whole image, and a session is Complete only then, with
\* acknowledgements late or repeated, of older sessions too, and the tick and
\* the handlers overtaking each other (HandleAccept, HandleAck, HandleResult).
AckedIsWritten ==
    session # 0 =>
        /\ acked <= flashed[session]
        /\ otaState \in {"WaitingResult", "Complete"} => flashed[session] = TotalChunks
=============================================================================
