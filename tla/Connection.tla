----------------------------- MODULE Connection -----------------------------
(***************************************************************************)
(* A Connection of the public API (api.py) between the session underneath  *)
(* and the application above: the receive queue with its close sentinel,   *)
(* the _connected future that connect() awaits, the _closed event, and the *)
(* endpoint's map and packet buffer.  The session is reduced to what it    *)
(* promises (Lifecycle): it opens at most once, closes once, and packets   *)
(* may arrive from the opening of its first channel to the end of the      *)
(* transport teardown, which close() only starts.                          *)
(*                                                                         *)
(* path: how the session was made.  lan_dial = connect(), lan_accept = a   *)
(* Server's, http_dial = connect_http(), http_accept = an HttpServer's.    *)
(***************************************************************************)
EXTENDS Integers, Sequences

CONSTANTS Paths,
          Readers,               \* tasks that call recv()
          Known,                 \* error codes in the SessionError enum
          Unknown,               \* other codes a CONNECTERROR may carry
          Timed,                 \* whether connect() is given a timeout
          MAX_PENDING_PACKETS,   \* _MAX_PENDING_PACKETS
          MaxArrivals            \* bound on the packets the peer sends

AllPaths == {"lan_dial", "lan_accept", "http_dial", "http_accept"}

ASSUME ConnectionAssumption ==
    /\ Paths \subseteq AllPaths
    /\ Known \subseteq Nat \ {0} /\ Unknown \subseteq Nat \ {0}
    /\ Known \cap Unknown = {}
    /\ Timed \in BOOLEAN
    /\ MAX_PENDING_PACKETS \in Nat /\ MaxArrivals \in Nat

VARIABLES path,
          state,        \* of the session
          pc,           \* whether the transport still delivers
          registered,   \* the Connection is in _Endpoint._conns
          parked,       \* _Endpoint._pending_packets for this id
          queue,        \* _recv_queue; CLOSED is the sentinel
          connected,    \* the _connected future
          closed,       \* the _closed event
          dial,         \* the coroutine of connect() / connect_http()
          handed,       \* the application has the Connection
          reader,       \* what each task does
          arrived,      \* packets that arrived: 1, 2, ...
          dropped,      \* of these, the ones the full buffer dropped
          got,          \* packets that recv() returned
          raised        \* some recv() has raised ConnectionClosed

vars == <<path, state, pc, registered, parked, queue, connected, closed, dial, handed,
          reader, arrived, dropped, got, raised>>

CLOSED == 0

Lan == path \in {"lan_dial", "lan_accept"}

Init ==
    /\ path \in Paths
    /\ state = "NEGOTIATING" /\ pc = "up"
    /\ registered = (path = "lan_dial")
    /\ parked = <<>> /\ queue = <<>>
    /\ connected = "pending" /\ closed = FALSE
    /\ dial = IF path \in {"lan_dial", "http_dial"} THEN "waiting" ELSE "none"
    /\ handed = FALSE
    /\ reader = [r \in Readers |-> "idle"]
    /\ arrived = 0 /\ dropped = {} /\ got = <<>> /\ raised = FALSE

application == <<handed, reader, got, raised>>
packets == <<arrived, dropped>>

-----------------------------------------------------------------------------
(* Callbacks of the session. *)

(* Seeded fault: a full buffer drops its oldest packet to make room. *)
ParkedEvicting(n) ==
    IF Len(parked) < MAX_PENDING_PACKETS THEN Append(parked, n) ELSE Append(Tail(parked), n)

(* The buffer of _Endpoint for a Connection that is not there yet; when it  *)
(* is full, the new packet is dropped.                                      *)
Parked(n) == IF Len(parked) < MAX_PENDING_PACKETS THEN Append(parked, n) ELSE parked

(* _Endpoint._on_packet; over HTTP the packet always goes to the Connection. *)
OnPacket(n) ==
    IF ~Lan \/ registered
    THEN queue' = Append(queue, n) /\ UNCHANGED <<parked, dropped>>
    ELSE /\ parked' = Parked(n)
         /\ dropped' = IF Len(parked) < MAX_PENDING_PACKETS THEN dropped ELSE dropped \cup {n}
         /\ UNCHANGED queue

PacketArrives ==
    /\ pc = "up" /\ arrived < MaxArrivals
    /\ arrived' = arrived + 1
    /\ OnPacket(arrived + 1)
    /\ UNCHANGED <<path, state, pc, registered, connected, closed, dial, application>>

(* _mark_connected *)
MarkConnected == connected' = IF connected = "pending" THEN "result" ELSE connected

(* _on_session_open: an incoming session gets its Connection only now, and   *)
(* _register moves the packets that came early; http sessions have theirs.   *)
SessionOpens ==
    /\ state = "NEGOTIATING"
    /\ state' = "CONNECTED"
    /\ IF Lan /\ ~registered
       THEN registered' = TRUE /\ queue' = queue \o parked /\ parked' = <<>>
       ELSE UNCHANGED <<registered, queue, parked>>
    /\ MarkConnected
    /\ UNCHANGED <<path, pc, closed, dial, application, packets>>

(* Seeded fault: _mark_closed wakes connect() and forgets recv(). *)
EndedNever == queue

Ended == Append(queue, CLOSED)

(* Seeded fault: _mark_closed wakes recv() and forgets connect(). *)
FailedNever == connected

Failed == IF connected = "pending" THEN "exception" ELSE connected

(* _mark_closed: ConnectionFailed(error) reads error.name, so a bare integer *)
(* raises before the queue and the event are touched.                        *)
MarkClosed(err) ==
    IF connected = "pending" /\ err \in Unknown
    THEN UNCHANGED <<connected, queue, closed>>
    ELSE /\ connected' = Failed
         /\ queue' = Ended
         /\ closed' = TRUE

(* Seeded fault: _on_session_close looks the Connection up and keeps it. *)
CloseSessionKeeps(err) ==
    /\ state' = "CLOSED"
    /\ IF state # "CLOSED" /\ (Lan => registered) THEN MarkClosed(err)
       ELSE UNCHANGED <<connected, queue, closed>>
    /\ UNCHANGED registered

(* Session.close, with _on_session_close over LAN and Connection._mark_closed *)
(* or HttpServer._handle_close over HTTP.                                     *)
CloseSession(err) ==
    /\ state' = "CLOSED"
    /\ registered' = FALSE
    /\ IF state # "CLOSED" /\ (Lan => registered) THEN MarkClosed(err)
       ELSE UNCHANGED <<connected, queue, closed>>

(* Timeout, ICE failure, CONNECTERROR or loss of the transport. *)
SessionCloses(err) ==
    /\ state # "CLOSED"
    /\ err \in Unknown => Lan
    /\ CloseSession(err)
    /\ UNCHANGED <<path, pc, parked, dial, application, packets>>

(* The teardown that close() scheduled is through: no packet arrives now. *)
TransportDown ==
    /\ state = "CLOSED" /\ pc = "up"
    /\ pc' = "down"
    /\ UNCHANGED <<path, state, registered, parked, queue, connected, closed, dial,
                   application, packets>>

-----------------------------------------------------------------------------
(* connect(), awaiting _connected. *)

DialReturns ==
    /\ dial = "waiting" /\ connected = "result"
    /\ dial' = "returned" /\ handed' = TRUE
    /\ UNCHANGED <<path, state, pc, registered, parked, queue, connected, closed, reader,
                   got, raised, packets>>

(* wait_for expires and cancels the future; the coroutine runs later. *)
DialExpires ==
    /\ Timed /\ dial = "waiting" /\ connected = "pending"
    /\ connected' = "cancelled"
    /\ UNCHANGED <<path, state, pc, registered, parked, queue, closed, dial, application,
                   packets>>

(* Seeded fault: connect() raises without closing what it opened. *)
CleanupNever == UNCHANGED <<state, registered, connected, queue, closed>>

(* The except clause closes the endpoint or the session. *)
Cleanup ==
    IF state = "CLOSED" THEN UNCHANGED <<state, registered, connected, queue, closed>>
    ELSE \E err \in Known : CloseSession(err)

DialRaises ==
    /\ dial = "waiting" /\ connected \in {"exception", "cancelled"}
    /\ dial' = "raised"
    /\ Cleanup
    /\ UNCHANGED <<path, pc, parked, application, packets>>

-----------------------------------------------------------------------------
(* The application. *)

(* Server._accept_loop or HttpServer._handle_open start the handler. *)
Accept ==
    /\ path \in {"lan_accept", "http_accept"} /\ connected = "result" /\ ~handed
    /\ handed' = TRUE
    /\ UNCHANGED <<path, state, pc, registered, parked, queue, connected, closed, dial,
                   reader, got, raised, packets>>

(* Connection.close *)
AppClose ==
    /\ handed /\ state # "CLOSED"
    /\ \E err \in Known : CloseSession(err)
    /\ UNCHANGED <<path, pc, parked, dial, application, packets>>

RecvCalled(r) ==
    /\ handed /\ reader[r] = "idle"
    /\ reader' = [reader EXCEPT ![r] = "waiting"]
    /\ UNCHANGED <<path, state, pc, registered, parked, queue, connected, closed, dial,
                   handed, got, raised, packets>>

RecvReturns(r) ==
    /\ reader[r] = "waiting" /\ queue # <<>> /\ Head(queue) # CLOSED
    /\ got' = Append(got, Head(queue)) /\ queue' = Tail(queue)
    /\ reader' = [reader EXCEPT ![r] = "idle"]
    /\ UNCHANGED <<path, state, pc, registered, parked, connected, closed, dial, handed,
                   raised, packets>>

(* Seeded fault: the sentinel is not put back. *)
PutBackNever == Tail(queue)

PutBack == Append(Tail(queue), CLOSED)

RecvRaises(r) ==
    /\ reader[r] = "waiting" /\ queue # <<>> /\ Head(queue) = CLOSED
    /\ queue' = PutBack
    /\ raised' = TRUE
    /\ reader' = [reader EXCEPT ![r] = "idle"]
    /\ UNCHANGED <<path, state, pc, registered, parked, connected, closed, dial, handed,
                   got, packets>>

Recv(r) == RecvReturns(r) \/ RecvRaises(r)

Next ==
    \/ PacketArrives \/ SessionOpens \/ TransportDown
    \/ \E err \in Known \cup Unknown : SessionCloses(err)
    \/ DialReturns \/ DialExpires \/ DialRaises
    \/ Accept \/ AppClose
    \/ \E r \in Readers : RecvCalled(r) \/ Recv(r)

Spec == Init /\ [][Next]_vars

(* The session's own timer ends every negotiation (Session, WaitEnds); a     *)
(* done future resumes connect(), and asyncio.Queue wakes a waiting recv().  *)
FairSpec ==
    /\ Spec
    /\ WF_vars(state = "NEGOTIATING"
                  /\ (SessionOpens \/ \E err \in Known \cup Unknown : SessionCloses(err)))
    /\ WF_vars(DialReturns \/ DialRaises)
    /\ \A r \in Readers : WF_vars(Recv(r))

-----------------------------------------------------------------------------
(* Properties. *)

(* _Endpoint._on_packet and _register: up to the close, what recv() returned, *)
(* what is queued and what is parked, one behind the other, are the packets   *)
(* that arrived, each once and in order, except those that met a full buffer; *)
(* the buffer keeps its limit, also for a session that closes before it opens.*)
Ordered(all) == \A i, j \in 1..Len(all) : i < j => all[i] < all[j]
PacketsInOrder ==
    /\ Len(parked) <= MAX_PENDING_PACKETS
    /\ state # "CLOSED" =>
        LET all == got \o queue \o parked
        IN  Ordered(all) /\ {all[i] : i \in 1..Len(all)} = (1..arrived) \ dropped

(* _mark_closed: an application that holds the Connection of a closed session *)
(* can tell: the event is set and the sentinel is in the queue for good.      *)
ClosedIsSeen ==
    (handed /\ state = "CLOSED") =>
        closed /\ \E j \in 1..Len(queue) : queue[j] = CLOSED

(* connect(), "except BaseException": a connect() that raised left no session *)
(* behind, also when the session opened while the timeout was being raised.   *)
FailedDialIsClosed == dial = "raised" => state = "CLOSED"

(* Connection.recv, "sticky: subsequent recv() also raises", for connections  *)
(* of a LAN endpoint: _on_session_close takes the Connection out of _conns    *)
(* before the sentinel is queued, so nothing that arrives during the teardown *)
(* gets behind it.                                                            *)
StickyOverLan == [][(Lan /\ raised) => got' = got]_vars

(* _await_connected: "timeout=None blocks until the session opens (or raises  *)
(* ConnectionFailed if it closes first)".                                     *)
DialEnds == dial = "waiting" ~> dial \in {"returned", "raised"}

(* recv, "sticky": every task that waits in recv() gets a packet or the       *)
(* exception once the connection is closed.                                   *)
ReadersWake ==
    \A r \in Readers : (state = "CLOSED" /\ reader[r] = "waiting") ~> reader[r] = "idle"
=============================================================================
