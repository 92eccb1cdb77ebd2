---------------------------- MODULE ServerProofs ----------------------------
(* What Server and HttpServer leave behind, for any number of connections. *)
EXTENDS Server, TLAPS

Live == {"negotiating", "CONNECTED"}
Handled == {"CONNECTED", "CLOSED"}
Idle == {"none", "done"}
Serving == aclose.phase \in {"open", "signaling"}

TypeInv ==
    /\ kind \in {"lan", "http"}
    /\ request \in [Conns -> Idle \cup {"validating", "answering", "raising"}]
    /\ session \in [Conns -> Live \cup {"none", "CLOSED"}]
    /\ task \in [Conns -> Idle \cup {"created", "running", "finally"}]
    /\ incoming \in Seq(Conns)
    /\ conns \subseteq Conns /\ tasks \subseteq Conns /\ cancel \subseteq Conns
    /\ aclose \in [phase : {"open", "signaling", "sessions", "gather", "closed"},
                   left : SUBSET Conns, now : SUBSET Conns]
    /\ accepting \in BOOLEAN

(* A task belongs to a session that opened, and so does what is queued for  *)
(* the accept loop.                                                         *)
TaskInv ==
    /\ \A c \in Conns : c \in tasks <=> task[c] \notin Idle
    /\ \A c \in Conns : task[c] # "none" => session[c] \in Handled
    /\ \A c \in Conns : task[c] = "finally" => session[c] = "CLOSED"
    /\ kind = "http" => incoming = <<>>
    /\ \A i \in 1..Len(incoming) : session[incoming[i]] \in Handled

(* The POST of a connection, and which of the two servers has one. *)
RequestInv ==
    /\ \A c \in Conns : (kind = "http" /\ request[c] = "none") \/ request[c] = "validating"
                         => session[c] = "none"
    /\ \A c \in Conns : request[c] = "answering" => session[c] = "negotiating"
    /\ kind = "lan" => \A c \in Conns : request[c] = "none"
    /\ ~Serving => \A c \in Conns : request[c] \in Idle

(* A session that is live is known to the server: it is registered, or on    *)
(* the list of the shutdown.  Over LAN this holds of handled sessions only,  *)
(* since requests keep arriving during the shutdown.                         *)
KnownInv ==
    /\ Serving => \A c \in Conns : session[c] \in Live => c \in conns
    /\ ~Serving => \A c \in Conns :
          (kind = "http" \/ task[c] # "none") => session[c] \notin Live \/ c \in aclose.left
    /\ aclose.phase # "sessions" => aclose.left = {}
    /\ \A c \in conns \cup aclose.left : session[c] # "none"

(* Who is cancelled, and when. *)
CancelInv ==
    /\ \A c \in cancel : session[c] = "CLOSED" \/ c \in aclose.left
    /\ accepting <=> (kind = "lan" /\ aclose.phase = "open")
    /\ kind = "lan" => aclose.phase \notin {"signaling", "gather"}
    /\ (kind = "http" /\ aclose.phase = "closed") => \A c \in Conns : task[c] \in Idle

ServerInv ==
    /\ TypeInv /\ TaskInv /\ RequestInv /\ KnownInv /\ CancelInv /\ HandledIsClosed

-----------------------------------------------------------------------------
(* Steps of one connection. *)

(* The steps of a POST and of its answer, and a CONNECTREQUEST, keep the    *)
(* invariant.                                                               *)
LEMMA RequestsKeep ==
    ASSUME ServerInv, NEW c \in Conns,
           \/ ConnectRequest(c) \/ Post(c) \/ Reject(c) \/ MakeHttpSession(c)
           \/ Answered(c) \/ AnswerRaises(c) \/ AnswerRaised(c)
    PROVE  ServerInv'
<1>. USE DEF ServerInv, TypeInv, TaskInv, RequestInv, KnownInv, CancelInv, HandledIsClosed,
             Serving, Live, Handled, Idle
<1>1. CASE ConnectRequest(c)
  <2>1. TypeInv'
    BY <1>1 DEF ConnectRequest, handlers
  <2>2. TaskInv'
    BY <1>1 DEF ConnectRequest, handlers
  <2>3. RequestInv'
    BY <1>1 DEF ConnectRequest, handlers
  <2>4. KnownInv'
    BY <1>1 DEF ConnectRequest, handlers
  <2>5. CancelInv'
    BY <1>1 DEF ConnectRequest, handlers
  <2>6. HandledIsClosed'
    BY <1>1 DEF ConnectRequest, handlers
  <2>. QED  BY <2>1, <2>2, <2>3, <2>4, <2>5, <2>6 DEF ServerInv
<1>2. CASE Post(c)
  <2>1. TypeInv'
    BY <1>2 DEF Post, handlers
  <2>2. TaskInv'
    BY <1>2 DEF Post, handlers
  <2>3. RequestInv'
    BY <1>2 DEF Post, handlers
  <2>4. KnownInv'
    BY <1>2 DEF Post, handlers
  <2>5. CancelInv'
    BY <1>2 DEF Post, handlers
  <2>6. HandledIsClosed'
    BY <1>2 DEF Post, handlers
  <2>. QED  BY <2>1, <2>2, <2>3, <2>4, <2>5, <2>6 DEF ServerInv
<1>3. CASE Reject(c)
  <2>1. TypeInv'
    BY <1>3 DEF Reject, handlers
  <2>2. TaskInv'
    BY <1>3 DEF Reject, handlers
  <2>3. RequestInv'
    BY <1>3 DEF Reject, handlers
  <2>4. KnownInv'
    BY <1>3 DEF Reject, handlers
  <2>5. CancelInv'
    BY <1>3 DEF Reject, handlers
  <2>6. HandledIsClosed'
    BY <1>3 DEF Reject, handlers
  <2>. QED  BY <2>1, <2>2, <2>3, <2>4, <2>5, <2>6 DEF ServerInv
<1>4. CASE MakeHttpSession(c)
  <2>1. TypeInv'
    BY <1>4 DEF MakeHttpSession, handlers
  <2>2. TaskInv'
    BY <1>4 DEF MakeHttpSession, handlers
  <2>3. RequestInv'
    BY <1>4 DEF MakeHttpSession, handlers
  <2>4. KnownInv'
    BY <1>4 DEF MakeHttpSession, handlers
  <2>5. CancelInv'
    BY <1>4 DEF MakeHttpSession, handlers
  <2>6. HandledIsClosed'
    BY <1>4 DEF MakeHttpSession, handlers
  <2>. QED  BY <2>1, <2>2, <2>3, <2>4, <2>5, <2>6 DEF ServerInv
<1>5. CASE Answered(c)
  <2>1. TypeInv'
    BY <1>5 DEF Answered, handlers
  <2>2. TaskInv'
    BY <1>5 DEF Answered, handlers
  <2>3. RequestInv'
    BY <1>5 DEF Answered, handlers
  <2>4. KnownInv'
    BY <1>5 DEF Answered, handlers
  <2>5. CancelInv'
    BY <1>5 DEF Answered, handlers
  <2>6. HandledIsClosed'
    BY <1>5 DEF Answered, handlers
  <2>. QED  BY <2>1, <2>2, <2>3, <2>4, <2>5, <2>6 DEF ServerInv
<1>6. CASE AnswerRaises(c)
  <2>1. TypeInv'
    BY <1>6 DEF AnswerRaises, handlers
  <2>2. TaskInv'
    BY <1>6 DEF AnswerRaises, handlers
  <2>3. RequestInv'
    BY <1>6 DEF AnswerRaises, handlers
  <2>4. KnownInv'
    BY <1>6 DEF AnswerRaises, handlers
  <2>5. CancelInv'
    BY <1>6 DEF AnswerRaises, handlers
  <2>6. HandledIsClosed'
    BY <1>6 DEF AnswerRaises, handlers
  <2>. QED  BY <2>1, <2>2, <2>3, <2>4, <2>5, <2>6 DEF ServerInv
<1>7. CASE AnswerRaised(c)
  <2>1. TypeInv'
    BY <1>7 DEF AnswerRaised, handlers
  <2>2. TaskInv'
    BY <1>7 DEF AnswerRaised, handlers
  <2>3. RequestInv'
    BY <1>7 DEF AnswerRaised, handlers
  <2>4. KnownInv'
    BY <1>7 DEF AnswerRaised, handlers
  <2>5. CancelInv'
    BY <1>7 DEF AnswerRaised, handlers
  <2>6. HandledIsClosed'
    BY <1>7 DEF AnswerRaised, handlers
  <2>. QED  BY <2>1, <2>2, <2>3, <2>4, <2>5, <2>6 DEF ServerInv
<1>. QED  BY <1>1, <1>2, <1>3, <1>4, <1>5, <1>6, <1>7

(* So do the events of a session.                                           *)
LEMMA SessionsKeep ==
    ASSUME ServerInv, NEW c \in Conns,
           SessionOpens(c) \/ SessionFails(c) \/ TornDown(c)
    PROVE  ServerInv'
<1>. USE DEF ServerInv, TypeInv, TaskInv, RequestInv, KnownInv, CancelInv, HandledIsClosed,
             Serving, Live, Handled, Idle
<1>1. CASE SessionOpens(c)
  <2>1. TypeInv'
    BY <1>1 DEF SessionOpens
  <2>2. TaskInv'
    <3>1. CASE kind = "lan"
      <4>1. /\ incoming' = Append(incoming, c) /\ incoming \in Seq(Conns)
            /\ session' = [session EXCEPT ![c] = "CONNECTED"]
            /\ session \in [Conns -> Live \cup {"none", "CLOSED"}]
            /\ \A i \in 1..Len(incoming) : session[incoming[i]] \in Handled
        BY <1>1, <3>1 DEF SessionOpens
      <4>2. \A i \in 1..Len(incoming') : session'[incoming'[i]] \in Handled
        BY ONLY <4>1, c \in Conns DEF Live, Handled
      <4>. QED  BY <1>1, <3>1, <4>2 DEF SessionOpens
    <3>2. CASE kind = "http"
      BY <1>1, <3>2 DEF SessionOpens
    <3>. QED  BY <3>1, <3>2
  <2>3. RequestInv'
    BY <1>1 DEF SessionOpens
  <2>4. KnownInv'
    BY <1>1 DEF SessionOpens
  <2>5. CancelInv'
    BY <1>1 DEF SessionOpens
  <2>6. HandledIsClosed'
    BY <1>1 DEF SessionOpens
  <2>. QED  BY <2>1, <2>2, <2>3, <2>4, <2>5, <2>6 DEF ServerInv
<1>2. CASE SessionFails(c)
  <2>1. TypeInv'
    BY <1>2 DEF SessionFails, CloseSession, handlers
  <2>2. TaskInv'
    BY <1>2 DEF SessionFails, CloseSession, handlers
  <2>3. RequestInv'
    BY <1>2 DEF SessionFails, CloseSession, handlers
  <2>4. KnownInv'
    BY <1>2 DEF SessionFails, CloseSession, handlers
  <2>5. CancelInv'
    BY <1>2 DEF SessionFails, CloseSession, handlers
  <2>6. HandledIsClosed'
    BY <1>2 DEF SessionFails, CloseSession, handlers
  <2>. QED  BY <2>1, <2>2, <2>3, <2>4, <2>5, <2>6 DEF ServerInv
<1>3. CASE TornDown(c)
  <2>1. TypeInv'
    BY <1>3 DEF TornDown, handlers
  <2>2. TaskInv'
    BY <1>3 DEF TornDown, handlers
  <2>3. RequestInv'
    BY <1>3 DEF TornDown, handlers
  <2>4. KnownInv'
    BY <1>3 DEF TornDown, handlers
  <2>5. CancelInv'
    BY <1>3 DEF TornDown, handlers
  <2>6. HandledIsClosed'
    BY <1>3 DEF TornDown, handlers
  <2>. QED  BY <2>1, <2>2, <2>3, <2>4, <2>5, <2>6 DEF ServerInv
<1>. QED  BY <1>1, <1>2, <1>3

(* So do the steps of a handler task.                                       *)
LEMMA TasksKeep ==
    ASSUME ServerInv, NEW c \in Conns,
           HandlerStarts(c) \/ HandlerEnds(c) \/ FinallyEnds(c) \/ NeverStarts(c)
    PROVE  ServerInv'
<1>. USE DEF ServerInv, TypeInv, TaskInv, RequestInv, KnownInv, CancelInv, HandledIsClosed,
             Serving, Live, Handled, Idle
<1>1. CASE HandlerStarts(c)
  <2>1. TypeInv'
    BY <1>1 DEF HandlerStarts, plane
  <2>2. TaskInv'
    BY <1>1 DEF HandlerStarts, plane
  <2>3. RequestInv'
    BY <1>1 DEF HandlerStarts, plane
  <2>4. KnownInv'
    BY <1>1 DEF HandlerStarts, plane
  <2>5. CancelInv'
    BY <1>1 DEF HandlerStarts, plane
  <2>6. HandledIsClosed'
    BY <1>1 DEF HandlerStarts, plane
  <2>. QED  BY <2>1, <2>2, <2>3, <2>4, <2>5, <2>6 DEF ServerInv
<1>2. CASE HandlerEnds(c)
  <2>1. TypeInv'
    BY <1>2 DEF HandlerEnds, CloseSession
  <2>2. TaskInv'
    BY <1>2 DEF HandlerEnds, CloseSession
  <2>3. RequestInv'
    BY <1>2 DEF HandlerEnds, CloseSession
  <2>4. KnownInv'
    BY <1>2 DEF HandlerEnds, CloseSession
  <2>5. CancelInv'
    BY <1>2 DEF HandlerEnds, CloseSession
  <2>6. HandledIsClosed'
    BY <1>2 DEF HandlerEnds, CloseSession
  <2>. QED  BY <2>1, <2>2, <2>3, <2>4, <2>5, <2>6 DEF ServerInv
<1>3. CASE FinallyEnds(c)
  <2>1. TypeInv'
    BY <1>3 DEF FinallyEnds, TaskDone, plane
  <2>2. TaskInv'
    BY <1>3 DEF FinallyEnds, TaskDone, plane
  <2>3. RequestInv'
    BY <1>3 DEF FinallyEnds, TaskDone, plane
  <2>4. KnownInv'
    BY <1>3 DEF FinallyEnds, TaskDone, plane
  <2>5. CancelInv'
    BY <1>3 DEF FinallyEnds, TaskDone, plane
  <2>6. HandledIsClosed'
    BY <1>3 DEF FinallyEnds, TaskDone, plane
  <2>. QED  BY <2>1, <2>2, <2>3, <2>4, <2>5, <2>6 DEF ServerInv
<1>4. CASE NeverStarts(c)
  <2>1. TypeInv'
    BY <1>4 DEF NeverStarts, TaskDone, plane
  <2>2. TaskInv'
    BY <1>4 DEF NeverStarts, TaskDone, plane
  <2>3. RequestInv'
    BY <1>4 DEF NeverStarts, TaskDone, plane
  <2>4. KnownInv'
    BY <1>4 DEF NeverStarts, TaskDone, plane
  <2>5. CancelInv'
    BY <1>4 DEF NeverStarts, TaskDone, plane
  <2>6. HandledIsClosed'
    BY <1>4 DEF NeverStarts, TaskDone, plane
  <2>. QED  BY <2>1, <2>2, <2>3, <2>4, <2>5, <2>6 DEF ServerInv
<1>. QED  BY <1>1, <1>2, <1>3, <1>4

-----------------------------------------------------------------------------
(* The accept loop and the shutdown. *)

(* The accept loop makes a task for a session that opened.                  *)
LEMMA AcceptKeeps ==
    ASSUME ServerInv, Accept PROVE ServerInv'
<1>. USE DEF ServerInv, TypeInv, TaskInv, RequestInv, KnownInv, CancelInv, HandledIsClosed,
             Serving, Live, Handled, Idle
<1>0. Head(incoming) \in Conns /\ Tail(incoming) \in Seq(Conns) /\ kind = "lan"
      /\ session[Head(incoming)] \in Handled /\ Len(Tail(incoming)) = Len(incoming) - 1
      /\ \A i \in 1..Len(Tail(incoming)) : Tail(incoming)[i] = incoming[i + 1]
  BY DEF Accept, AtIncoming
<1>1. TypeInv'
  BY <1>0 DEF Accept, AtIncoming, plane
<1>2. TaskInv'
  BY <1>0 DEF Accept, AtIncoming, plane
<1>3. RequestInv'
  BY <1>0 DEF Accept, AtIncoming, plane
<1>4. KnownInv'
  BY <1>0 DEF Accept, AtIncoming, plane
<1>5. CancelInv'
  BY <1>0 DEF Accept, AtIncoming, plane
<1>6. HandledIsClosed'
  BY <1>0 DEF Accept, AtIncoming, plane
<1>. QED  BY <1>1, <1>2, <1>3, <1>4, <1>5, <1>6 DEF ServerInv

(* Server.aclose cancels the tasks of sessions that it closes.              *)
LEMMA ServerAcloseKeeps ==
    ASSUME ServerInv, ServerAclose PROVE ServerInv'
<1>. USE DEF ServerInv, TypeInv, TaskInv, RequestInv, KnownInv, CancelInv, HandledIsClosed,
             Serving, Live, Handled, Idle
<1>1. TypeInv'
  <2>0. /\ accepting' = FALSE /\ cancel' = tasks
        /\ UNCHANGED <<kind, request, incoming, task, tasks>>
    BY DEF ServerAclose
  <2>1. CASE conns = {}
    <3>1. /\ aclose' = [phase |-> "closed", left |-> {}, now |-> {}]
          /\ conns' = {} /\ session' = session
      BY <2>1 DEF ServerAclose, CloseSessions
    <3>. QED  BY <2>0, <3>1
  <2>2. CASE conns # {}
    <3>1. PICK c \in conns :
             /\ CloseSession(c)
             /\ aclose' = [phase |-> "sessions", left |-> conns \ {c}, now |-> {c}]
      BY <2>2 DEF ServerAclose, CloseSessions
    <3>2. session' \in [Conns -> Live \cup {"none", "CLOSED"}] /\ conns' \subseteq Conns
      BY <3>1 DEF CloseSession
    <3>3. aclose' \in [phase : {"open", "signaling", "sessions", "gather", "closed"},
                       left : SUBSET Conns, now : SUBSET Conns]
      <4>. conns \subseteq Conns
        OBVIOUS
      <4>. QED  BY <3>1
    <3>. QED  BY <2>0, <3>2, <3>3
  <2>. QED  BY <2>1, <2>2
<1>2. TaskInv'
  BY DEF ServerAclose, CloseSessions, CloseSession
<1>3. RequestInv'
  BY DEF ServerAclose, CloseSessions, CloseSession
<1>4. KnownInv'
  BY DEF ServerAclose, CloseSessions, CloseSession
<1>5. CancelInv'
  BY DEF ServerAclose, CloseSessions, CloseSession
<1>6. HandledIsClosed'
  BY DEF ServerAclose, CloseSessions, CloseSession
<1>. QED  BY <1>1, <1>2, <1>3, <1>4, <1>5, <1>6 DEF ServerInv

(* HttpServer.aclose begins.                                                *)
LEMMA HttpAcloseKeeps ==
    ASSUME ServerInv, HttpAclose PROVE ServerInv'
<1>. USE DEF ServerInv, TypeInv, TaskInv, RequestInv, KnownInv, CancelInv, HandledIsClosed,
             Serving, Live, Handled, Idle
<1>1. TypeInv'
  BY DEF HttpAclose, plane, handlers
<1>2. TaskInv'
  BY DEF HttpAclose, plane, handlers
<1>3. RequestInv'
  BY DEF HttpAclose, plane, handlers
<1>4. KnownInv'
  BY DEF HttpAclose, plane, handlers
<1>5. CancelInv'
  BY DEF HttpAclose, plane, handlers
<1>6. HandledIsClosed'
  BY DEF HttpAclose, plane, handlers
<1>. QED  BY <1>1, <1>2, <1>3, <1>4, <1>5, <1>6 DEF ServerInv

(* No offer is being answered any more: what is live is registered, so it is*)
(* on the list that the loop works off.                                     *)
LEMMA SignalingClosedKeeps ==
    ASSUME ServerInv, SignalingClosed PROVE ServerInv'
<1>. USE DEF ServerInv, TypeInv, TaskInv, RequestInv, KnownInv, CancelInv, HandledIsClosed,
             Serving, Live, Handled, Idle
<1>1. TypeInv'
  BY DEF SignalingClosed, CloseSessions, CloseSession, Cancelled
<1>2. TaskInv'
  BY DEF SignalingClosed, CloseSessions, CloseSession, Cancelled
<1>3. RequestInv'
  BY DEF SignalingClosed, CloseSessions, CloseSession, Cancelled
<1>4. KnownInv'
  BY DEF SignalingClosed, CloseSessions, CloseSession, Cancelled
<1>5. CancelInv'
  BY DEF SignalingClosed, CloseSessions, CloseSession, Cancelled
<1>6. HandledIsClosed'
  BY DEF SignalingClosed, CloseSessions, CloseSession, Cancelled
<1>. QED  BY <1>1, <1>2, <1>3, <1>4, <1>5, <1>6 DEF ServerInv

(* The loop goes on with the next session of the list.                      *)
LEMMA SessionsNextKeeps ==
    ASSUME ServerInv, SessionsNext PROVE ServerInv'
<1>. USE DEF ServerInv, TypeInv, TaskInv, RequestInv, KnownInv, CancelInv, HandledIsClosed,
             Serving, Live, Handled, Idle
<1>1. TypeInv'
  BY DEF SessionsNext, CloseSessions, CloseSession, Cancelled
<1>2. TaskInv'
  BY DEF SessionsNext, CloseSessions, CloseSession, Cancelled
<1>3. RequestInv'
  BY DEF SessionsNext, CloseSessions, CloseSession, Cancelled
<1>4. KnownInv'
  BY DEF SessionsNext, CloseSessions, CloseSession, Cancelled
<1>5. CancelInv'
  BY DEF SessionsNext, CloseSessions, CloseSession, Cancelled
<1>6. HandledIsClosed'
  BY DEF SessionsNext, CloseSessions, CloseSession, Cancelled
<1>. QED  BY <1>1, <1>2, <1>3, <1>4, <1>5, <1>6 DEF ServerInv

(* All handlers of an HttpServer have ended.                                *)
LEMMA GatheredKeeps ==
    ASSUME ServerInv, Gathered PROVE ServerInv'
<1>. USE DEF ServerInv, TypeInv, TaskInv, RequestInv, KnownInv, CancelInv, HandledIsClosed,
             Serving, Live, Handled, Idle
<1>1. TypeInv'
  BY DEF Gathered, plane, handlers
<1>2. TaskInv'
  BY DEF Gathered, plane, handlers
<1>3. RequestInv'
  BY DEF Gathered, plane, handlers
<1>4. KnownInv'
  BY DEF Gathered, plane, handlers
<1>5. CancelInv'
  BY DEF Gathered, plane, handlers
<1>6. HandledIsClosed'
  BY DEF Gathered, plane, handlers
<1>. QED  BY <1>1, <1>2, <1>3, <1>4, <1>5, <1>6 DEF ServerInv

-----------------------------------------------------------------------------
(* A server begins with no connection. *)
LEMMA ServerInvInit == Init => ServerInv
<1>. SUFFICES ASSUME Init PROVE ServerInv
  OBVIOUS
<1>1. TypeInv /\ TaskInv
  BY DEF Init, TypeInv, TaskInv, Live, Handled, Idle
<1>2. RequestInv /\ KnownInv
  BY DEF Init, RequestInv, KnownInv, Serving, Live, Idle
<1>3. CancelInv /\ HandledIsClosed
  BY DEF Init, CancelInv, HandledIsClosed, Idle
<1>. QED  BY <1>1, <1>2, <1>3 DEF ServerInv

(* Every step of the two servers keeps the invariant. *)
LEMMA ServerInvNext == ServerInv /\ [Next]_vars => ServerInv'
<1>. SUFFICES ASSUME ServerInv, [Next]_vars PROVE ServerInv'
  OBVIOUS
<1>1. CASE UNCHANGED vars
  BY <1>1 DEF vars, ServerInv, TypeInv, TaskInv, RequestInv, KnownInv, CancelInv,
              HandledIsClosed, Serving
<1>2. CASE Next
  BY <1>2, RequestsKeep, SessionsKeep, TasksKeep, AcceptKeeps, ServerAcloseKeeps,
     HttpAcloseKeeps, SignalingClosedKeeps, SessionsNextKeeps, GatheredKeeps
     DEF Next, RequestEnds, TaskStep, AcloseStep
<1>. QED  BY <1>1, <1>2

(* The invariant always holds. *)
LEMMA ServerInvAlways == Spec => []ServerInv
  BY ServerInvInit, ServerInvNext, PTL DEF Spec

(* _run_handler's finally clause and the shutdown together: whatever is      *)
(* cancelled, and whenever, a connection whose handler task is over is       *)
(* closed or on the list of aclose.                                          *)
THEOREM HandlersCloseTheirs == Spec => []HandledIsClosed
<1>1. ServerInv => HandledIsClosed
  BY DEF ServerInv
<1>. QED  BY <1>1, ServerInvAlways, PTL

(* aclose of both servers, with any number of connections at any stage:      *)
(* nothing that was handled is left open, and an HttpServer has no live      *)
(* session and no running handler.                                           *)
THEOREM ShutdownIsComplete == Spec => []ShutdownLeavesNothing
<1>1. ServerInv => ShutdownLeavesNothing
  BY DEF ServerInv, TypeInv, TaskInv, KnownInv, CancelInv, ShutdownLeavesNothing, Serving,
         Live, Handled, Idle
<1>. QED  BY <1>1, ServerInvAlways, PTL
=============================================================================
