------------------------------- MODULE Server -------------------------------
(***************************************************************************)
(* Server and HttpServer (api.py): the connections they accept, one        *)
(* handler task each, and their shutdown.  Sessions are reduced to what    *)
(* the servers see of them: created, open, closed, transport torn down.    *)
(*                                                                         *)
(* kind = "lan": CONNECTREQUESTs create sessions, _incoming and the accept *)
(* loop hand them to handlers.  kind = "http": POSTs create them and       *)
(* _handle_open starts the handler at once.                                *)
(***************************************************************************)
EXTENDS Integers, Sequences, FiniteSets

CONSTANT Conns        \* connections that clients may attempt

VARIABLES kind,
          request,    \* the POST of a connection, in _answer_offer
          session,    \* its session
          down,       \* sessions whose transport is torn down
          conns,      \* HttpServer._conns / the manager's _sessions
          incoming,   \* _Endpoint._incoming
          task,       \* the handler task of a connection
          cancel,     \* tasks with a cancellation not yet delivered
          tasks,      \* _handler_tasks
          accepting,  \* the accept task is not cancelled
          aclose      \* progress of aclose

vars == <<kind, request, session, down, conns, incoming, task, cancel, tasks, accepting,
          aclose>>

handlers == <<incoming, task, cancel, tasks, accepting>>
plane == <<request, session, down, conns>>

Init ==
    /\ kind \in {"lan", "http"}
    /\ request = [c \in Conns |-> "none"]
    /\ session = [c \in Conns |-> "none"]
    /\ down = {} /\ conns = {} /\ incoming = <<>>
    /\ task = [c \in Conns |-> "none"]
    /\ cancel = {} /\ tasks = {} /\ accepting = (kind = "lan")
    /\ aclose = [phase |-> "open", left |-> {}, now |-> {}]

-----------------------------------------------------------------------------
(* Sessions come and go. *)

(* A CONNECTREQUEST creates a session; the socket is open until aclose has   *)
(* closed the sessions.                                                      *)
ConnectRequest(c) ==
    /\ kind = "lan" /\ aclose.phase # "closed" /\ session[c] = "none"
    /\ session' = [session EXCEPT ![c] = "negotiating"]
    /\ conns' = conns \cup {c}
    /\ UNCHANGED <<kind, request, down, handlers, aclose>>

(* A POST reaches _answer_offer, which awaits validate_offer. *)
Post(c) ==
    /\ kind = "http" /\ aclose.phase = "open" /\ request[c] = "none"
    /\ request' = [request EXCEPT ![c] = "validating"]
    /\ UNCHANGED <<kind, session, down, conns, handlers, aclose>>

(* validate_offer, or the identity in the offer, is rejected. *)
Reject(c) ==
    /\ request[c] = "validating"
    /\ request' = [request EXCEPT ![c] = "done"]
    /\ UNCHANGED <<kind, session, down, conns, handlers, aclose>>

(* The session is made and registered; _answer_offer awaits its answer. *)
MakeHttpSession(c) ==
    /\ request[c] = "validating"
    /\ request' = [request EXCEPT ![c] = "answering"]
    /\ session' = [session EXCEPT ![c] = "negotiating"]
    /\ conns' = conns \cup {c}
    /\ UNCHANGED <<kind, down, handlers, aclose>>

Answered(c) ==
    /\ request[c] = "answering"
    /\ request' = [request EXCEPT ![c] = "done"]
    /\ UNCHANGED <<kind, session, down, conns, handlers, aclose>>

(* answer raises: the session is taken out and closed, and the exception    *)
(* goes on when the transport is torn down.                                 *)
AnswerRaises(c) ==
    /\ request[c] = "answering"
    /\ request' = [request EXCEPT ![c] = "raising"]
    /\ conns' = conns \ {c}
    /\ session' = [session EXCEPT ![c] = "CLOSED"]
    /\ UNCHANGED <<kind, down, handlers, aclose>>

AnswerRaised(c) ==
    /\ request[c] = "raising" /\ c \in down
    /\ request' = [request EXCEPT ![c] = "done"]
    /\ UNCHANGED <<kind, session, down, conns, handlers, aclose>>

(* Both channels are open.  _on_session_open queues the connection for the  *)
(* accept loop, HttpServer._handle_open creates the handler task.           *)
SessionOpens(c) ==
    /\ session[c] = "negotiating" /\ request[c] \in {"none", "done"}
    /\ session' = [session EXCEPT ![c] = "CONNECTED"]
    /\ IF kind = "lan"
       THEN incoming' = Append(incoming, c) /\ UNCHANGED <<task, tasks>>
       ELSE /\ task' = [task EXCEPT ![c] = "created"] /\ tasks' = tasks \cup {c}
            /\ UNCHANGED incoming
    /\ UNCHANGED <<kind, request, down, conns, cancel, accepting, aclose>>

(* Session.close with the on_close of the manager or of _handle_close. *)
CloseSession(c) ==
    /\ session' = [session EXCEPT ![c] = "CLOSED"]
    /\ conns' = IF session[c] = "CLOSED" THEN conns ELSE conns \ {c}

(* The peer, ICE or the negotiation timer end the session. *)
SessionFails(c) ==
    /\ session[c] \in {"negotiating", "CONNECTED"} /\ request[c] \in {"none", "done"}
    /\ CloseSession(c)
    /\ UNCHANGED <<kind, request, down, handlers, aclose>>

(* The task of Session.close is through. *)
TornDown(c) ==
    /\ session[c] = "CLOSED" /\ c \notin down
    /\ down' = down \cup {c}
    /\ UNCHANGED <<kind, request, session, conns, handlers, aclose>>

-----------------------------------------------------------------------------
(* Handlers. *)

(* Seeded fault: the loop awaits the handler instead of making a task of it. *)
AtIncomingIdle == accepting /\ tasks = {}

(* The loop is suspended in _incoming.get(). *)
AtIncoming == accepting

(* _accept_loop: one turn. *)
Accept ==
    /\ AtIncoming /\ incoming # <<>>
    /\ incoming' = Tail(incoming)
    /\ task' = [task EXCEPT ![Head(incoming)] = "created"]
    /\ tasks' = tasks \cup {Head(incoming)}
    /\ UNCHANGED <<kind, plane, cancel, accepting, aclose>>

(* _run_handler begins. *)
HandlerStarts(c) ==
    /\ task[c] = "created" /\ c \notin cancel
    /\ task' = [task EXCEPT ![c] = "running"]
    /\ UNCHANGED <<kind, plane, incoming, cancel, tasks, accepting, aclose>>

(* The task is over and its done callback runs. *)
TaskDone(c) ==
    /\ task' = [task EXCEPT ![c] = "done"]
    /\ tasks' = tasks \ {c}
    /\ cancel' = cancel \ {c}
    /\ UNCHANGED <<kind, plane, incoming, accepting, aclose>>

(* Seeded fault: no finally, the connection is left to the handler. *)
HandlerEndsOpen(c) == task[c] = "running" /\ TaskDone(c)

(* The handler returns, raises, or is cancelled: the finally clause closes   *)
(* the connection and awaits the teardown.                                   *)
HandlerEnds(c) ==
    /\ task[c] = "running"
    /\ CloseSession(c)
    /\ task' = [task EXCEPT ![c] = "finally"]
    /\ cancel' = cancel \ {c}
    /\ UNCHANGED <<kind, request, down, incoming, tasks, accepting, aclose>>

(* The connection is closed, or a cancellation interrupts the wait for it.  *)
FinallyEnds(c) == task[c] = "finally" /\ (c \in down \/ c \in cancel) /\ TaskDone(c)

(* A task that is cancelled before it began ends without running anything.  *)
NeverStarts(c) == task[c] = "created" /\ c \in cancel /\ TaskDone(c)

-----------------------------------------------------------------------------
(* aclose. *)

(* The loop over the sessions that are registered at its beginning; after   *)
(* it, the table is cleared and phase follows.                              *)
CloseSessions(left, phase) ==
    IF left = {}
    THEN /\ aclose' = [phase |-> phase, left |-> {}, now |-> {}]
         /\ conns' = {} /\ UNCHANGED session
    ELSE \E c \in left :
            /\ CloseSession(c)
            /\ aclose' = [phase |-> "sessions", left |-> left \ {c}, now |-> {c}]

(* Server.aclose cancels the accept loop and the handlers, then closes the  *)
(* endpoint.                                                                *)
ServerAclose ==
    /\ kind = "lan" /\ aclose.phase = "open"
    /\ accepting' = FALSE
    /\ cancel' = tasks
    /\ CloseSessions(conns, "closed")
    /\ UNCHANGED <<kind, request, down, incoming, task, tasks>>

(* Seeded fault: the sessions are closed before the signalling endpoint is. *)
HttpAcloseEarly ==
    /\ kind = "http" /\ aclose.phase = "open"
    /\ CloseSessions(conns, "gather")
    /\ UNCHANGED <<kind, request, down, handlers>>

(* Seeded fault: HttpServer waits for its handlers without cancelling them. *)
CancelledNever(closed) == cancel

(* HttpServer.aclose cancels the handlers once the sessions are closed. *)
Cancelled(closed) == IF closed THEN tasks ELSE cancel

(* HttpServer.aclose first closes the signalling endpoint ...               *)
HttpAclose ==
    /\ kind = "http" /\ aclose.phase = "open"
    /\ aclose' = [aclose EXCEPT !.phase = "signaling"]
    /\ UNCHANGED <<kind, plane, handlers>>

(* ... whose cleanup (external: aiohttp) returns when no request is being   *)
(* handled; then the sessions.                                              *)
SignalingClosed ==
    /\ aclose.phase = "signaling"
    /\ \A c \in Conns : request[c] \in {"none", "done"}
    /\ CloseSessions(conns, "gather")
    /\ cancel' = Cancelled(conns = {})
    /\ UNCHANGED <<kind, request, down, incoming, task, tasks, accepting>>

(* The session closed last is torn down. *)
SessionsNext ==
    /\ aclose.phase = "sessions" /\ aclose.now \subseteq down
    /\ CloseSessions(aclose.left, IF kind = "lan" THEN "closed" ELSE "gather")
    /\ cancel' = Cancelled(kind = "http" /\ aclose.left = {})
    /\ UNCHANGED <<kind, request, down, incoming, task, tasks, accepting>>

(* HttpServer.aclose awaits all handlers. *)
Gathered ==
    /\ aclose.phase = "gather" /\ tasks = {}
    /\ aclose' = [aclose EXCEPT !.phase = "closed"]
    /\ UNCHANGED <<kind, plane, handlers>>

-----------------------------------------------------------------------------
AcloseStep == SignalingClosed \/ SessionsNext \/ Gathered
RequestEnds(c) == Reject(c) \/ MakeHttpSession(c) \/ Answered(c) \/ AnswerRaises(c)
                      \/ AnswerRaised(c)
TaskStep(c) == HandlerStarts(c) \/ FinallyEnds(c) \/ NeverStarts(c)

Next ==
    \/ \E c \in Conns :
          \/ ConnectRequest(c) \/ Post(c) \/ RequestEnds(c)
          \/ SessionOpens(c) \/ SessionFails(c) \/ TornDown(c)
          \/ TaskStep(c) \/ HandlerEnds(c)
    \/ Accept
    \/ ServerAclose \/ HttpAclose \/ AcloseStep

Spec == Init /\ [][Next]_vars

(* Ready tasks run, teardowns and requests end, and a handler that is       *)
(* cancelled ends.  Handlers may run for ever otherwise, and nobody need    *)
(* call aclose.                                                             *)
FairSpec ==
    /\ Spec /\ WF_vars(Accept) /\ WF_vars(AcloseStep)
    /\ \A c \in Conns :
          /\ WF_vars(RequestEnds(c)) /\ WF_vars(TornDown(c)) /\ WF_vars(TaskStep(c))
          /\ WF_vars(c \in cancel /\ HandlerEnds(c))

-----------------------------------------------------------------------------
(* Properties. *)

(* _run_handler, "finally: await conn.close()": a connection whose handler    *)
(* task is over is closed, or the shutdown that cancelled the task before it  *)
(* began has the connection on its list.                                      *)
HandledIsClosed ==
    \A c \in Conns : task[c] = "done" => session[c] = "CLOSED" \/ c \in aclose.left

(* HttpServer.aclose and Server.aclose: when a server's aclose is through, no *)
(* connection that a handler was created for is open; an HttpServer has no    *)
(* open session and no running handler at all, whatever was being validated   *)
(* or answered, or opened, while it was shutting down.                        *)
ShutdownLeavesNothing ==
    aclose.phase = "closed" =>
        \A c \in Conns :
            /\ (kind = "http" \/ task[c] # "none") => session[c] \in {"none", "CLOSED"}
            /\ kind = "http" => task[c] \in {"none", "done"}

(* _accept_loop and _handle_open: an open connection gets its handler, unless *)
(* the server is shut down first.                                             *)
EveryoneServed ==
    \A c \in Conns : session[c] = "CONNECTED" ~>
        task[c] \in {"running", "finally", "done"} \/ aclose.phase # "open"

(* aclose returns although sessions and handlers end by themselves while it   *)
(* waits for them.                                                            *)
AcloseEnds == aclose.phase # "open" ~> aclose.phase = "closed"
=============================================================================
