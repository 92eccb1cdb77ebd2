------------------------------- MODULE Session -------------------------------
(***************************************************************************)
(* One Session object with its PeerConnection, and the coroutines running  *)
(* on it.  A coroutine suspends at each await of an aiortc call; while it  *)
(* is suspended the event loop runs timers, transport callbacks and the    *)
(* coroutines of other signalling messages on the same object.             *)
(*                                                                         *)
(* entry is the coroutine the session was created for: start and request   *)
(* over LAN signalling, offer and answer over HTTP signalling.             *)
(***************************************************************************)
EXTENDS SessionOps

CONSTANTS Coros,       \* names of coroutines that may be suspended at once
          Entries,     \* the entry points a session may be created for
          Errors       \* codes a CONNECTERROR or a caller's close may carry

Lan == {"start", "request"}
Http == {"offer", "answer"}
Dialer == {"start", "offer"}

ASSUME SessionAssumption ==
    /\ Coros # {}
    /\ Entries \subseteq Lan \cup Http
    /\ Errors \subseteq Int

VARIABLES entry,     \* the coroutine the session was created for
          session,   \* the Session record
          coros,     \* suspended coroutines
          heard      \* candidates that reached the session before it closed

vars == <<entry, session, coros, heard>>

(* A coroutine: the method it runs, the await it is suspended at, and the  *)
(* position of its loop over the pending candidates.                       *)
CoroType == [run : Lan \cup Http \cup {"response", "none"},
             at : {"set_remote", "flush", "set_local", "none"}, i : Nat]
NoCoro == [run |-> "none", at |-> "none", i |-> 0]
Coro(run, at) == [run |-> run, at |-> at, i |-> 0]

Idle(k) == coros[k] = NoCoro
Quiet == \A k \in Coros : Idle(k)

(* create_offer suspends in setLocalDescription, the other three methods    *)
(* first in setRemoteDescription.                                           *)
FirstAwait(run) == IF run \in Dialer THEN "set_local" ELSE "set_remote"

Init ==
    /\ entry \in Entries
    /\ session = NewSession(entry \in Dialer)
    /\ \E k \in Coros : coros = [j \in Coros |->
            IF j = k THEN Coro(entry, FirstAwait(entry)) ELSE NoCoro]
    /\ heard = {}

-----------------------------------------------------------------------------
(* Inbound signalling: Session.handle_signal over LAN, which returns at once *)
(* on a CLOSED session.                                                      *)

(* Nobody can use a dialer's random connection id before its CONNECTREQUEST  *)
(* was sent.                                                                 *)
Announced == session.is_dialer => session.sent # <<>>

(* A further copy of the CONNECTREQUEST: state is still IDLE while the first *)
(* one is being answered.                                                    *)
RecvRequest(k) ==
    /\ entry = "request" /\ session.state = "IDLE" /\ Idle(k)
    /\ coros' = [coros EXCEPT ![k] = Coro("request", "set_remote")]
    /\ UNCHANGED <<entry, session, heard>>

RecvResponse(k) ==
    /\ entry = "start" /\ session.state = "OFFER_SENT" /\ Idle(k)
    /\ session' = ResponseReceived(session)
    /\ coros' = [coros EXCEPT ![k] = Coro("response", "set_remote")]
    /\ UNCHANGED <<entry, heard>>

RecvCandidate(c) ==
    /\ entry \in Lan /\ Announced /\ session.state # "CLOSED" /\ c \notin heard
    /\ session' = AddRemoteCandidate(session, c)
    /\ heard' = heard \cup {c}
    /\ UNCHANGED <<entry, coros>>

RecvError(err) ==
    /\ entry \in Lan /\ Announced /\ session.state # "CLOSED"
    /\ session' = HandleConnectError(session, err)
    /\ UNCHANGED <<entry, coros, heard>>

(* accept_answer: connect_http feeds the answer of the POST back.            *)
AcceptAnswer(k) ==
    /\ entry = "offer" /\ session.state = "OFFER_SENT" /\ Idle(k)
    /\ session' = ResponseReceived(session)
    /\ coros' = [coros EXCEPT ![k] = Coro("response", "set_remote")]
    /\ UNCHANGED <<entry, heard>>

-----------------------------------------------------------------------------
(* Suspended coroutines resume when the aiortc call they await returns. *)

(* The coroutine after its flush: the answering ones go on to createAnswer   *)
(* and setLocalDescription, the others return.                               *)
AfterFlush(run) ==
    IF run \in {"request", "answer"} THEN Coro(run, "set_local") ELSE NoCoro

(* One iteration of the flush loop, for session record s at position i. *)
FlushFrom(k, s, i) ==
    IF i < Len(s.pending)
    THEN /\ session' = FlushOne(s, i)
         /\ coros' = [coros EXCEPT ![k] = [@ EXCEPT !.at = "flush", !.i = i + 1]]
    ELSE /\ session' = FlushDone(s)
         /\ coros' = [coros EXCEPT ![k] = AfterFlush(@.run)]

ResumeSetRemote(k) ==
    /\ coros[k].at = "set_remote"
    /\ FlushFrom(k, RemoteDescriptionSet(session), 0)
    /\ UNCHANGED <<entry, heard>>

ResumeFlush(k) ==
    /\ coros[k].at = "flush"
    /\ FlushFrom(k, session, coros[k].i)
    /\ UNCHANGED <<entry, heard>>

ResumeSetLocal(k) ==
    /\ coros[k].at = "set_local"
    /\ session' = CASE coros[k].run = "start"   -> StartResumed(session)
                    [] coros[k].run = "offer"   -> OfferResumed(session)
                    [] coros[k].run = "request" -> RequestResumed(session)
                    [] coros[k].run = "answer"  -> AnswerResumed(session)
    /\ coros' = [coros EXCEPT ![k] = NoCoro]
    /\ UNCHANGED <<entry, heard>>

(* Seeded fault: connect_http and _answer_offer let the exception go too. *)
RaiseUnhandled(k) ==
    /\ coros[k].at \in {"set_remote", "set_local"}
    /\ coros' = [coros EXCEPT ![k] = NoCoro]
    /\ UNCHANGED <<entry, session, heard>>

(* The aiortc call raises (a description it cannot use, a peer connection   *)
(* closed meanwhile).  Over LAN nobody handles the exception of the task;   *)
(* connect_http and HttpServer._answer_offer close the session.             *)
Raise(k) ==
    /\ coros[k].at \in {"set_remote", "set_local"}
    /\ session' = IF entry \in Lan THEN session
                  ELSE Close(session, IF entry = "answer" THEN FAILED_TO_CREATE_ANSWER
                                                          ELSE GENERIC_FAILURE)
    /\ coros' = [coros EXCEPT ![k] = NoCoro]
    /\ UNCHANGED <<entry, heard>>

-----------------------------------------------------------------------------
(* Timer, transport events and the application. *)

Timeout ==
    /\ session.timeout # NoTimer
    /\ session' = TimeoutExpires(session)
    /\ UNCHANGED <<entry, coros, heard>>

ChannelOpens(reliable) ==
    /\ Negotiated(session)
    /\ session' = HandleChannelOpen(session, reliable)
    /\ UNCHANGED <<entry, coros, heard>>

ConnectionStateChange(st) ==
    /\ Negotiated(session)
    /\ session' = PcChanges(session, st)
    /\ UNCHANGED <<entry, coros, heard>>

(* The task scheduled by close() closes the peer connection. *)
PcClosed ==
    /\ session.closes > 0 /\ session.pc # "closed"
    /\ session' = PcChanges(session, "closed")
    /\ UNCHANGED <<entry, coros, heard>>

(* close / aclose by the owner.  A LAN endpoint may close at any moment; the *)
(* HTTP callers are the coroutine itself, so they close only between calls.  *)
AppClose(err) ==
    /\ session.state # "CLOSED"
    /\ entry \in Http => Quiet
    /\ session' = Close(session, err)
    /\ UNCHANGED <<entry, coros, heard>>

Resume(k) == ResumeSetRemote(k) \/ ResumeFlush(k) \/ ResumeSetLocal(k) \/ Raise(k)

Next ==
    \/ \E k \in Coros : \/ RecvRequest(k) \/ RecvResponse(k) \/ AcceptAnswer(k)
                        \/ Resume(k)
    \/ \E c \in Candidates : RecvCandidate(c)
    \/ \E err \in Errors : RecvError(err) \/ AppClose(err)
    \/ Timeout
    \/ \E reliable \in BOOLEAN : ChannelOpens(reliable)
    \/ \E st \in {"failed", "closed"} : ConnectionStateChange(st)
    \/ PcClosed

Spec == Init /\ [][Next]_vars

(* Fairness: asyncio runs an expired timer and resumes a coroutine whose     *)
(* await is done, and every aiortc call awaited here returns or raises.      *)
(* Nothing is assumed of the peer, the network or the application.           *)
FairSpec == Spec /\ WF_vars(Timeout) /\ \A k \in Coros : WF_vars(Resume(k))

-----------------------------------------------------------------------------
(* Properties. *)

(* Every variable keeps the shape the constructor of Session gives it. *)
TypeOK ==
    /\ entry \in Entries
    /\ session \in Sessions
    /\ coros \in [Coros -> CoroType]
    /\ heard \in SUBSET Candidates

(* Session._arm_timeout / _cancel_timeout: exactly the states in which a      *)
(* session waits for its peer have a timer, with the error of SPEC.md 9.4 for *)
(* that state, whatever overlapping coroutines, early closes and late         *)
(* resumptions did before.                                                    *)
TimerGuardsWait ==
    session.timeout = CASE session.state = "OFFER_SENT" -> WAITING_FOR_RESPONSE
                        [] session.state \in {"ANSWER_SENT", "NEGOTIATING"} ->
                                WAITING_FOR_ACCEPT
                        [] OTHER -> NoTimer

(* PeerConnection._flush_remote_candidates: every trickled candidate the      *)
(* session accepted was given to addIceCandidate or is still buffered, and    *)
(* the buffer is only non-empty before the remote description is set or while *)
(* a flush is under way -- also when two answers flush the same list.         *)
NoCandidateLost ==
    /\ heard = session.added \cup {session.pending[j] : j \in 1..Len(session.pending)}
    /\ (session.remote_set /\ \A k \in Coros : coros[k].at # "flush")
            => session.pending = <<>>

(* PeerConnection._handle_channel_open: CONNECTED is only reached with both   *)
(* data channels open, so Session.send never parks a fragment in _pending_*,  *)
(* and on_open is called at most once.                                        *)
ConnectedOnBothChannels ==
    /\ session.state = "CONNECTED" => BothOpen(session) /\ session.opens = 1
    /\ session.opens <= 1

(* Session.close against _handle_channels_open: an application that saw       *)
(* on_open is not told afterwards that the negotiation timed out or that ICE  *)
(* never connected (Errors holds none of these codes in the runs).            *)
OpenedNeverTimesOut ==
    (session.opens = 1 /\ session.state = "CLOSED") =>
        session.error \notin {WAITING_FOR_RESPONSE, WAITING_FOR_ACCEPT, ICE}

(* SPEC.md 9.1 and 9.2 ("Closed --> [*]"): a closed session stays closed.     *)
ClosedIsFinal == [][session.state = "CLOSED" => session'.state = "CLOSED"]_vars

(* Session._arm_timeout: no wait for the peer lasts forever.                  *)
WaitEnds == session.state \in Waiting ~> session.state \in {"CONNECTED", "CLOSED"}

(* session.py, "enforces the negotiation timeout": every attempt ends in an   *)
(* open connection or is closed, whatever the peer and aiortc do.             *)
Settles == session.state \in Waiting \cup {"IDLE"}
                ~> session.state \in {"CONNECTED", "CLOSED"}

(* The negotiation diagrams of SPEC.md 9.1 and 9.2, as implemented by the     *)
(* session's state, its two callbacks and the error it reports.               *)
Diagram == INSTANCE Lifecycle WITH
    state <- session.state, error <- session.error,
    opens <- session.opens, closes <- session.closes
FollowsDiagram == Diagram!Spec
=============================================================================
