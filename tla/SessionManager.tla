--------------------------- MODULE SessionManager ---------------------------
(***************************************************************************)
(* SessionManager (session_manager.py) and the parts of Transport          *)
(* (transport_api.py) that drive it: the map from connection ids to        *)
(* Session objects, the candidates buffered for ids that have no session   *)
(* yet, one coroutine per datagram, and the shutdown.  Sessions are the    *)
(* records of SessionOps; a Slot is the identity of a Python object, so a  *)
(* closed session and its successor under the same id are told apart.      *)
(***************************************************************************)
EXTENDS SessionOps, FiniteSets

CONSTANTS Ids,          \* connection ids
          Slots,        \* Session objects that may be created
          Coros,        \* coroutines that may be suspended at once
          Errors,       \* codes a CONNECTERROR may carry
          MaxPending,   \* _MAX_PENDING_CANDIDATES
          MaxParked,    \* bound: candidates that signals park in one peer connection
          NoSlot        \* no session

ASSUME ManagerAssumption ==
    /\ NoSlot \notin Slots
    /\ MaxPending \in Nat /\ MaxParked \in Nat
    /\ Errors \subseteq Int

VARIABLES sessions,    \* the Session objects
          cid,         \* their connection_id; {} marks an object not created
          registry,    \* _sessions
          waiting,     \* _pending_candidates
          coros,       \* suspended coroutines of connect and handle_signal
          arrived,     \* candidates that arrived and were taken in, per id
          raised,      \* history: objects whose creating coroutine raised
          shutdown     \* progress of Transport.aclose

vars == <<sessions, cid, registry, waiting, coros, arrived, raised, shutdown>>

(* create is the handle_signal that made its session and flushes the buffer *)
(* at the end; request, a later copy of the same CONNECTREQUEST.  todo is   *)
(* what _flush_pending_candidates has still to hand over.                   *)
NoCoro == [run |-> "none", at |-> "none", slot |-> NoSlot, i |-> 0, todo |-> <<>>]
Coro(run, at, slot) == [run |-> run, at |-> at, slot |-> slot, i |-> 0, todo |-> <<>>]

Runs == {"start", "create", "request", "response"}
CoroType ==
    [run : Runs \cup {"none"}, slot : Slots \cup {NoSlot},
     at : {"set_remote", "flush", "set_local", "deliver", "none"},
     i : Nat, todo : Seq(Candidates)]

Registered == {registry[id] : id \in Ids} \ {NoSlot}

Init ==
    /\ sessions = [t \in Slots |-> NewSession(FALSE)]
    /\ cid = [t \in Slots |-> {}]
    /\ registry = [id \in Ids |-> NoSlot]
    /\ waiting = [id \in Ids |-> <<>>]
    /\ coros = [k \in Coros |-> NoCoro]
    /\ arrived = [id \in Ids |-> {}]
    /\ raised = {}
    /\ shutdown = [phase |-> "open", left |-> {}, now |-> NoSlot]

(* The socket delivers until LanTransport.close, which follows the close of *)
(* the manager.                                                             *)
Receiving == shutdown.phase # "off"

-----------------------------------------------------------------------------
(* Session object t becomes s.  When the step called its on_close, then     *)
(* _handle_session_close dropped whatever is registered under its id.       *)

(* Seeded fault: on_close is not wired to the registry. *)
UnregisteredNever(t) == registry

Unregistered(t) == [id \in Ids |-> IF id \in cid[t] THEN NoSlot ELSE registry[id]]


Update(t, s) ==
    /\ sessions' = [sessions EXCEPT ![t] = s]
    /\ registry' = IF s.closes = sessions[t].closes THEN registry ELSE Unregistered(t)

(* Seeded fault: the new session is answered and the buffer is not flushed. *)
FirstRunNoFlush(dialer) == IF dialer THEN "start" ELSE "request"

(* What the coroutine that creates a session runs: Session.start, or the    *)
(* request and the flush of the candidates that came before it.             *)
FirstRun(dialer) == IF dialer THEN "start" ELSE "create"

(* _create_session, for coroutine k that then suspends at its first await. *)
CreateSession(k, t, id, dialer) ==
    /\ cid[t] = {} /\ coros[k] = NoCoro
    /\ sessions' = [sessions EXCEPT ![t] = NewSession(dialer)]
    /\ cid' = [cid EXCEPT ![t] = {id}]
    /\ registry' = [registry EXCEPT ![id] = t]
    /\ coros' = [coros EXCEPT ![k] =
            Coro(FirstRun(dialer), IF dialer THEN "set_local" ELSE "set_remote", t)]

(* connect: new_connection_id draws an id nobody has used. *)
Connect(k, t, id) ==
    /\ arrived[id] = {} /\ \A u \in Slots : id \notin cid[u]
    /\ CreateSession(k, t, id, TRUE)
    /\ UNCHANGED <<waiting, arrived, raised, shutdown>>

-----------------------------------------------------------------------------
(* handle_signal, by message. *)

(* Nobody can use the random id of an outgoing session before its           *)
(* CONNECTREQUEST was sent.                                                 *)
Announced(id) ==
    registry[id] # NoSlot =>
        (sessions[registry[id]].is_dialer => sessions[registry[id]].sent # <<>>)

(* CONNECTREQUEST for an id without a session: a peer's own id, never one   *)
(* that connect drew here.                                                  *)
RecvNewRequest(k, t, id) ==
    /\ Receiving /\ registry[id] = NoSlot
    /\ \A u \in Slots : id \in cid[u] => ~sessions[u].is_dialer
    /\ CreateSession(k, t, id, FALSE)
    /\ UNCHANGED <<waiting, arrived, raised, shutdown>>

(* CONNECTREQUEST for a session that is still being answered. *)
RecvRequestAgain(k, id) ==
    /\ Receiving /\ registry[id] # NoSlot /\ coros[k] = NoCoro
    /\ ~sessions[registry[id]].is_dialer /\ sessions[registry[id]].state = "IDLE"
    /\ coros' = [coros EXCEPT ![k] = Coro("request", "set_remote", registry[id])]
    /\ UNCHANGED <<sessions, cid, registry, waiting, arrived, raised, shutdown>>

RecvResponse(k, id) ==
    /\ Receiving /\ registry[id] # NoSlot /\ coros[k] = NoCoro
    /\ sessions[registry[id]].is_dialer /\ sessions[registry[id]].state = "OFFER_SENT"
    /\ Update(registry[id], ResponseReceived(sessions[registry[id]]))
    /\ coros' = [coros EXCEPT ![k] = Coro("response", "set_remote", registry[id])]
    /\ UNCHANGED <<cid, waiting, arrived, raised, shutdown>>

(* Seeded fault: the cap is off by one. *)
RoomOver(id) == Len(waiting[id]) <= MaxPending

(* _buffer_pending_candidate drops what exceeds the cap. *)
Room(id) == Len(waiting[id]) < MaxPending
BufferPendingCandidate(id, c) ==
    waiting' = IF Room(id) THEN [waiting EXCEPT ![id] = Append(@, c)] ELSE waiting

(* A candidate, new or repeated, is buffered here or handed to the session. *)
(* When its text is malformed or addIceCandidate raises, then the task dies *)
(* and nothing has changed.                                                 *)
RecvCandidate(id, c) ==
    /\ Receiving /\ Announced(id)
    /\ arrived' = [arrived EXCEPT ![id] = @ \cup {c}]
    /\ \/ /\ registry[id] = NoSlot
          /\ BufferPendingCandidate(id, c)
          /\ UNCHANGED <<sessions, registry>>
       \/ /\ registry[id] # NoSlot /\ Len(sessions[registry[id]].pending) < MaxParked
          /\ Update(registry[id], AddRemoteCandidate(sessions[registry[id]], c))
          /\ UNCHANGED waiting
    /\ UNCHANGED <<cid, coros, raised, shutdown>>

RecvError(id, err) ==
    /\ Receiving /\ Announced(id) /\ registry[id] # NoSlot
    /\ Update(registry[id], HandleConnectError(sessions[registry[id]], err))
    /\ UNCHANGED <<cid, waiting, coros, arrived, raised, shutdown>>

-----------------------------------------------------------------------------
(* Coroutines resume. *)

Busy(k) == coros[k] # NoCoro
Of(k) == sessions[coros[k].slot]

AfterFlush(c) ==
    IF c.run = "response" THEN NoCoro ELSE [c EXCEPT !.at = "set_local", !.i = 0]

FlushFrom(k, s, i) ==
    /\ IF i < Len(s.pending)
       THEN /\ Update(coros[k].slot, FlushOne(s, i))
            /\ coros' = [coros EXCEPT ![k] = [@ EXCEPT !.at = "flush", !.i = i + 1]]
       ELSE /\ Update(coros[k].slot, FlushDone(s))
            /\ coros' = [coros EXCEPT ![k] = AfterFlush(@)]
    /\ UNCHANGED <<cid, waiting, arrived, raised, shutdown>>

ResumeSetRemote(k) ==
    /\ coros[k].at = "set_remote"
    /\ FlushFrom(k, RemoteDescriptionSet(Of(k)), 0)

ResumeFlush(k) ==
    /\ coros[k].at = "flush"
    /\ FlushFrom(k, Of(k), coros[k].i)

(* _flush_pending_candidates hands the candidates of the popped list over   *)
(* one by one; a CLOSED session ignores them.  At a malformed one the loop  *)
(* raises and the rest of the list is lost.                                 *)
DeliverFrom(k, s, todo) ==
    \/ /\ todo = <<>>
       /\ Update(coros[k].slot, s)
       /\ coros' = [coros EXCEPT ![k] = NoCoro]
       /\ UNCHANGED raised
    \/ /\ todo # <<>>
       /\ Update(coros[k].slot,
                 IF s.state = "CLOSED" THEN s ELSE AddRemoteCandidate(s, Head(todo)))
       /\ coros' = [coros EXCEPT ![k] = [@ EXCEPT !.at = "deliver", !.todo = Tail(todo)]]
       /\ UNCHANGED raised
    \/ /\ todo # <<>> /\ s.state # "CLOSED"
       /\ Update(coros[k].slot, s)
       /\ coros' = [coros EXCEPT ![k] = NoCoro]
       /\ raised' = raised \cup {coros[k].slot}

ResumeSetLocal(k) ==
    /\ coros[k].at = "set_local"
    /\ \/ /\ coros[k].run = "create"
          /\ LET id == CHOOSE d \in Ids : d \in cid[coros[k].slot]
             IN  /\ DeliverFrom(k, RequestResumed(Of(k)), waiting[id])
                 /\ waiting' = [waiting EXCEPT ![id] = <<>>]
       \/ /\ coros[k].run # "create"
          /\ Update(coros[k].slot, IF coros[k].run = "start" THEN StartResumed(Of(k))
                                   ELSE RequestResumed(Of(k)))
          /\ coros' = [coros EXCEPT ![k] = NoCoro]
          /\ UNCHANGED <<waiting, raised>>
    /\ UNCHANGED <<cid, arrived, shutdown>>

ResumeDeliver(k) ==
    /\ coros[k].at = "deliver"
    /\ DeliverFrom(k, Of(k), coros[k].todo)
    /\ UNCHANGED <<cid, waiting, arrived, shutdown>>

(* The aiortc call a coroutine awaits raises (a description or a candidate  *)
(* it cannot use, a closed peer connection, an ICE failure), which it may   *)
(* do for one coroutine and not for the next, and the task dies with the    *)
(* exception.                                                               *)
Creators(k) == IF coros[k].run \in {"start", "create"} THEN {coros[k].slot} ELSE {}
Raise(k) ==
    /\ Busy(k)
    /\ coros' = [coros EXCEPT ![k] = NoCoro]
    /\ raised' = raised \cup Creators(k)
    /\ UNCHANGED <<sessions, cid, registry, waiting, arrived, shutdown>>

(* It goes on, or dies. *)
Proceed(k) ==
    ResumeSetRemote(k) \/ ResumeFlush(k) \/ ResumeSetLocal(k) \/ ResumeDeliver(k)
Resume(k) == Proceed(k) \/ Raise(k)

-----------------------------------------------------------------------------
(* Timers and transport events, on any Session object. *)

SessionEvent(t, s) ==
    /\ Update(t, s)
    /\ UNCHANGED <<cid, waiting, coros, arrived, raised, shutdown>>

Timeout(t) == sessions[t].timeout # NoTimer /\ SessionEvent(t, TimeoutExpires(sessions[t]))

ChannelsOpen(t) ==
    /\ Negotiated(sessions[t]) /\ ~sessions[t].channels_open_fired
    /\ SessionEvent(t, HandleChannelOpen(HandleChannelOpen(sessions[t], TRUE), FALSE))

ConnectionFails(t) ==
    Negotiated(sessions[t]) /\ SessionEvent(t, PcChanges(sessions[t], "failed"))

PcClosed(t) ==
    /\ sessions[t].closes > 0 /\ sessions[t].pc # "closed"
    /\ SessionEvent(t, PcChanges(sessions[t], "closed"))

-----------------------------------------------------------------------------
(* Transport.aclose: SessionManager.aclose, then LanTransport.close. *)

(* Seeded fault: the loop awaits the teardown of a session nobody closed. *)
ClosedByLoopNever(t) == sessions[t]

ClosedByLoop(t) == Close(sessions[t], NONE)

(* One iteration: close a session of the snapshot (in any order) and await  *)
(* its teardown; after the last one, clear().                               *)
AcloseLoop(left) ==
    IF left = {}
    THEN /\ registry' = [id \in Ids |-> NoSlot]
         /\ shutdown' = [phase |-> "closed", left |-> {}, now |-> NoSlot]
         /\ UNCHANGED sessions
    ELSE \E t \in left :
            /\ Update(t, ClosedByLoop(t))
            /\ shutdown' = [phase |-> "closing", left |-> left \ {t}, now |-> t]

AcloseBegin ==
    /\ shutdown.phase = "open"
    /\ AcloseLoop(Registered)
    /\ UNCHANGED <<cid, waiting, coros, arrived, raised>>

AcloseNext ==
    /\ shutdown.phase = "closing" /\ sessions[shutdown.now].pc = "closed"
    /\ AcloseLoop(shutdown.left)
    /\ UNCHANGED <<cid, waiting, coros, arrived, raised>>

LanClose ==
    /\ shutdown.phase = "closed"
    /\ shutdown' = [shutdown EXCEPT !.phase = "off"]
    /\ UNCHANGED <<sessions, cid, registry, waiting, coros, arrived, raised>>

-----------------------------------------------------------------------------
Next ==
    \/ \E k \in Coros, id \in Ids :
          \/ \E t \in Slots : Connect(k, t, id) \/ RecvNewRequest(k, t, id)
          \/ RecvRequestAgain(k, id) \/ RecvResponse(k, id)
    \/ \E id \in Ids : \/ \E c \in Candidates : RecvCandidate(id, c)
                       \/ \E err \in Errors : RecvError(id, err)
    \/ \E k \in Coros : Resume(k)
    \/ \E t \in Slots : Timeout(t) \/ ChannelsOpen(t) \/ ConnectionFails(t) \/ PcClosed(t)
    \/ AcloseBegin \/ AcloseNext \/ LanClose

Spec == Init /\ [][Next]_vars

-----------------------------------------------------------------------------
(* Properties. *)

(* Every variable keeps the shape SessionManager.__init__ gives it. *)
TypeOK ==
    /\ sessions \in [Slots -> Sessions]
    /\ cid \in [Slots -> {{}} \cup {{id} : id \in Ids}]
    /\ registry \in [Ids -> Slots \cup {NoSlot}]
    /\ waiting \in [Ids -> Seq(Candidates)]
    /\ \A id \in Ids : Len(waiting[id]) <= MaxPending
    /\ coros \in [Coros -> CoroType]
    /\ arrived \in [Ids -> SUBSET Candidates]
    /\ raised \subseteq Slots
    /\ shutdown \in [phase : {"open", "closing", "closed", "off"},
                     left : SUBSET Slots, now : Slots \cup {NoSlot}]

(* _create_session / _handle_session_close: handle_signal never routes a      *)
(* message to a closed session or to one of another id, however closes,       *)
(* late timers and re-used ids interleave.                                    *)
RegisteredIsLive ==
    \A id \in Ids : registry[id] # NoSlot =>
        cid[registry[id]] = {id} /\ sessions[registry[id]].state # "CLOSED"

(* Early candidates still in the buffer although the session of their id has  *)
(* answered and the coroutine that created it is through: nothing would ever  *)
(* look for them.                                                             *)
Stranded(id) ==
    /\ registry[id] # NoSlot
    /\ sessions[registry[id]].state # "IDLE"
    /\ \A k \in Coros : coros[k].run = "create" => coros[k].slot # registry[id]
    /\ waiting[id] # <<>>

(* _flush_pending_candidates: candidates are stranded in the manager's buffer *)
(* only if the coroutine that created the session raised; copies of the       *)
(* request, closes and exceptions of other coroutines never strand one.       *)
NoCandidateStranded ==
    \A id \in Ids : Stranded(id) => registry[id] \in raised

(* _handle_session_close pops by connection id, not by object: until aclose   *)
(* empties the registry, a live session leaves it, where handle_signal looks  *)
(* for it, only by closing itself, or by the second close of an older object  *)
(* of its id that had come back to life after the first.                      *)
Revived(t) == sessions[t].closes > 0 /\ sessions[t].state # "CLOSED"

(* api.py, _Endpoint.aclose: "Closing the transport closes every live         *)
(* session": when SessionManager.aclose empties the registry and returns,     *)
(* no session in it is still open.                                            *)
AcloseClosesAll ==
    [][(shutdown.phase # "closed" /\ shutdown'.phase = "closed") =>
            \A t \in Registered : sessions'[t].state = "CLOSED"]_vars
=============================================================================
