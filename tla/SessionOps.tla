----------------------------- MODULE SessionOps -----------------------------
(***************************************************************************)
(* The methods of Session (session.py) and of the negotiation half of      *)
(* PeerConnection (transport/peer_connection.py), as operators on the      *)
(* record of one session object.  Each operator is the synchronous stretch *)
(* of Python between two awaits: asyncio runs it without interruption.     *)
(*                                                                         *)
(* Abstracted data: an SDP is not represented (the fields local_set and    *)
(* remote_set say which descriptions the peer connection holds), an ICE    *)
(* candidate is a member of Candidates, a signalling message is its kind.  *)
(***************************************************************************)
EXTENDS Integers, Sequences

CONSTANT Candidates     \* ICE candidates a remote peer may trickle

-----------------------------------------------------------------------------
(* The SessionError codes these modules name (errors.py). *)
NONE == 0
ICE == 5
FAILED_TO_CREATE_ANSWER == 11
WAITING_FOR_RESPONSE == 14
WAITING_FOR_ACCEPT == 15
UNICAST_MESSAGE_DELIVERY_FAILED == 19
DATA_CHANNEL_CLOSED == 32
GENERIC_FAILURE == 35

SessionState == {"IDLE", "OFFER_SENT", "ANSWER_SENT", "NEGOTIATING",
                 "CONNECTED", "CLOSED"}

(* The states in which a session waits for its peer. *)
Waiting == {"OFFER_SENT", "ANSWER_SENT", "NEGOTIATING"}

MessageKinds == {"CONNECTREQUEST", "CONNECTRESPONSE", "CANDIDATEADD"}

(* timeout holds the error the armed timer will close with; no timer: *)
NoTimer == 0

Sessions ==
    [state : SessionState, is_dialer : BOOLEAN,
     timeout : {NoTimer, WAITING_FOR_RESPONSE, WAITING_FOR_ACCEPT},
     error : Int,                    \* last error given to on_close
     opens : Nat, closes : Nat,      \* on_open and on_close calls so far
     sent : Seq(MessageKinds),       \* what went through send_signal
     pc : {"new", "failed", "closed"},   \* RTCPeerConnection.connectionState
     local_set : BOOLEAN, remote_set : BOOLEAN,
     pending : Seq(Candidates),      \* _pending_remote_candidates
     added : SUBSET Candidates,      \* given to addIceCandidate
     reliable_open : BOOLEAN, unreliable_open : BOOLEAN,
     channels_open_fired : BOOLEAN]

NewSession(dialer) ==
    [state |-> "IDLE", is_dialer |-> dialer, timeout |-> NoTimer,
     error |-> NONE, opens |-> 0, closes |-> 0, sent |-> <<>>, pc |-> "new",
     local_set |-> FALSE, remote_set |-> FALSE, pending |-> <<>>, added |-> {},
     reliable_open |-> FALSE, unreliable_open |-> FALSE,
     channels_open_fired |-> FALSE]

-----------------------------------------------------------------------------
(* Timeouts and close. *)

(* _arm_timeout replaces whatever timer is armed. *)
ArmTimeout(s, err) == [s EXCEPT !.timeout = err]

CancelTimeout(s) == [s EXCEPT !.timeout = NoTimer]

(* close: idempotent on CLOSED; no call site sets notify_remote.  The       *)
(* transport teardown it schedules is the later event PcClosed.             *)
Close(s, err) ==
    IF s.state = "CLOSED" THEN s
    ELSE [CancelTimeout(s) EXCEPT !.state = "CLOSED", !.error = err,
                                  !.closes = @ + 1]

(* Seeded fault: both timeouts report the same code. *)
TimeoutExpiresOneCode(s) == Close(s, WAITING_FOR_RESPONSE)

(* The timer fires. *)
TimeoutExpires(s) == Close(s, s.timeout)

-----------------------------------------------------------------------------
(* Entry points, from the await that suspends them to their end. *)

(* start: after create_offer returned.  The state is not looked at again. *)
StartResumed(s) ==
    ArmTimeout([s EXCEPT !.local_set = TRUE, !.state = "OFFER_SENT",
                         !.sent = @ \o <<"CONNECTREQUEST", "CANDIDATEADD">>],
               WAITING_FOR_RESPONSE)

(* offer: the same for signalling out of band; nothing is sent. *)
OfferResumed(s) ==
    ArmTimeout([s EXCEPT !.local_set = TRUE, !.state = "OFFER_SENT"],
               WAITING_FOR_RESPONSE)

(* Seeded fault: the answer goes out and no timer is armed. *)
RequestResumedUnguarded(s) ==
    [s EXCEPT !.local_set = TRUE, !.state = "ANSWER_SENT",
              !.sent = @ \o <<"CONNECTRESPONSE", "CANDIDATEADD">>]

(* _handle_request: after create_answer returned. *)
RequestResumed(s) ==
    ArmTimeout([s EXCEPT !.local_set = TRUE, !.state = "ANSWER_SENT",
                         !.sent = @ \o <<"CONNECTRESPONSE", "CANDIDATEADD">>],
               WAITING_FOR_ACCEPT)

(* Seeded fault: a host that answered waits without a timer. *)
AnswerResumedUnguarded(s) == [s EXCEPT !.local_set = TRUE, !.state = "ANSWER_SENT"]

(* answer: the same for signalling out of band. *)
AnswerResumed(s) ==
    ArmTimeout([s EXCEPT !.local_set = TRUE, !.state = "ANSWER_SENT"],
               WAITING_FOR_ACCEPT)

(* Seeded fault: the timer is armed with a code that is no timeout. *)
ResponseReceivedWrongCode(s) ==
    ArmTimeout([s EXCEPT !.state = "NEGOTIATING"], ICE)

(* _handle_response and accept_answer, up to the await of set_remote_answer. *)
ResponseReceived(s) ==
    ArmTimeout([s EXCEPT !.state = "NEGOTIATING"], WAITING_FOR_ACCEPT)

(* _handle_connect_error: error 19 does not close a listener's session. *)
HandleConnectError(s, err) ==
    IF ~s.is_dialer /\ err = UNICAST_MESSAGE_DELIVERY_FAILED THEN s
    ELSE Close(s, err)

-----------------------------------------------------------------------------
(* Remote candidates. *)

(* Seeded fault: the flag is not looked at, so a late candidate is parked. *)
AddRemoteCandidateParked(s, c) == [s EXCEPT !.pending = Append(@, c)]

(* add_remote_candidate: buffered until the remote description is set. *)
AddRemoteCandidate(s, c) ==
    IF s.remote_set THEN [s EXCEPT !.added = @ \cup {c}]
    ELSE [s EXCEPT !.pending = Append(@, c)]

(* _flush_remote_candidates, which iterates over the live list by index and *)
(* awaits addIceCandidate for each element: the call for index i + 1 ...    *)
FlushOne(s, i) == [s EXCEPT !.added = @ \cup {s.pending[i + 1]}]

(* ... and the clear() at the end of the loop. *)
FlushDone(s) == [s EXCEPT !.pending = <<>>]

(* setRemoteDescription returned and the flush sets the flag. *)
RemoteDescriptionSet(s) == [s EXCEPT !.remote_set = TRUE]

-----------------------------------------------------------------------------
(* Transport callbacks. *)

(* Seeded fault: the negotiation timer keeps running. *)
HandleChannelsOpenTimerLeft(s) ==
    IF s.state \in {"CONNECTED", "CLOSED"} THEN s
    ELSE [s EXCEPT !.state = "CONNECTED", !.opens = @ + 1]

(* Seeded fault: CLOSED is not among the states that return early. *)
HandleChannelsOpenReopens(s) ==
    IF s.state = "CONNECTED" THEN s
    ELSE [CancelTimeout(s) EXCEPT !.state = "CONNECTED", !.opens = @ + 1]

HandleChannelsOpen(s) ==
    IF s.state \in {"CONNECTED", "CLOSED"} THEN s
    ELSE [CancelTimeout(s) EXCEPT !.state = "CONNECTED", !.opens = @ + 1]

(* _handle_channel_open: a channel opens once, and the second of the two    *)
(* fires on_channels_open.                                                  *)
BothOpen(s) == s.reliable_open /\ s.unreliable_open

(* Seeded fault: the reliable channel alone counts as open. *)
FireChannelsOpenEarly(s) ==
    IF s.reliable_open /\ ~s.channels_open_fired
    THEN HandleChannelsOpen([s EXCEPT !.channels_open_fired = TRUE])
    ELSE s

FireChannelsOpen(s) ==
    IF BothOpen(s) /\ ~s.channels_open_fired
    THEN HandleChannelsOpen([s EXCEPT !.channels_open_fired = TRUE])
    ELSE s

HandleChannelOpen(s, reliable) ==
    IF reliable
    THEN IF s.reliable_open THEN s
         ELSE FireChannelsOpen([s EXCEPT !.reliable_open = TRUE])
    ELSE IF s.unreliable_open THEN s
         ELSE FireChannelsOpen([s EXCEPT !.unreliable_open = TRUE])

(* Seeded fault: the two error codes of a failed transport are not told apart. *)
HandleConnectionStateOneCode(s, st) ==
    IF s.state = "CLOSED" THEN s
    ELSE IF st = "failed" \/ s.state = "CONNECTED" THEN Close(s, ICE) ELSE s

(* Seeded fault: a peer connection that closed is not looked at. *)
HandleConnectionStateFailedOnly(s, st) ==
    IF st = "failed" THEN Close(s, IF s.state = "CONNECTED" THEN DATA_CHANNEL_CLOSED ELSE ICE)
    ELSE s

(* _handle_connection_state, called with the new connectionState. *)
HandleConnectionState(s, st) ==
    IF s.state = "CLOSED" THEN s
    ELSE IF st = "failed"
         THEN Close(s, IF s.state = "CONNECTED" THEN DATA_CHANNEL_CLOSED ELSE ICE)
         ELSE IF s.state = "CONNECTED" THEN Close(s, DATA_CHANNEL_CLOSED) ELSE s

(* The peer connection changes to st and reports it. *)
PcChanges(s, st) == HandleConnectionState([s EXCEPT !.pc = st], st)

(* Channels open, and ICE or DTLS fail, only between two descriptions. *)
Negotiated(s) == s.pc = "new" /\ s.local_set /\ s.remote_set
=============================================================================
