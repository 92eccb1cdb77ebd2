---------------------------- MODULE SessionProofs ----------------------------
(***************************************************************************)
(* What Session.tla checks on small instances, proved for every set of     *)
(* coroutines, candidates, entry points and error codes.                   *)
(***************************************************************************)
EXTENDS Session, OperatorProofs

-----------------------------------------------------------------------------
(* Type correctness. *)

(* _flush_remote_candidates: an iteration keeps the types. *)
LEMMA FlushType ==
    ASSUME TypeOK, NEW k \in Coros, NEW s \in Sessions, NEW i \in Nat, FlushFrom(k, s, i)
    PROVE  session' \in Sessions /\ coros' \in [Coros -> CoroType]
<1>1. coros \in [Coros -> CoroType] /\ coros[k] \in CoroType
    BY DEF TypeOK
<1>2. CASE i < Len(s.pending)
  <2>1. session' \in Sessions
    BY <1>2, CandidateType DEF FlushFrom
  <2>2. [coros[k] EXCEPT !.at = "flush", !.i = i + 1] \in CoroType
    <3>1. ASSUME NEW n \in Nat  PROVE [coros[k] EXCEPT !.at = "flush", !.i = n] \in CoroType
      BY <1>1 DEF CoroType
    <3>2. i + 1 \in Nat
      OBVIOUS
    <3>. QED  BY <3>1, <3>2, Zenon
  <2>3. coros' = [coros EXCEPT ![k] = [coros[k] EXCEPT !.at = "flush", !.i = i + 1]]
    BY <1>2 DEF FlushFrom
  <2>. QED  BY <1>1, <2>1, <2>2, <2>3
<1>3. CASE ~(i < Len(s.pending))
  <2>1. session' \in Sessions
    BY <1>3, CandidateType DEF FlushFrom
  <2>2. AfterFlush(coros[k].run) \in CoroType
    BY DEF AfterFlush, Coro, NoCoro, CoroType, Lan, Http
  <2>3. coros' = [coros EXCEPT ![k] = AfterFlush(coros[k].run)]
    BY <1>3 DEF FlushFrom
  <2>. QED  BY <1>1, <2>1, <2>2, <2>3
<1>. QED  BY <1>2, <1>3

(* Only the four entry points suspend in setLocalDescription, so that the     *)
(* resumption of a coroutine is always one of the four (create_offer and      *)
(* create_answer are called from nowhere else).                               *)
CoroShape ==
    \A k \in Coros : coros[k].at = "set_local" => coros[k].run \in Lan \cup Http

(* The state in which the constructor and the first await leave a session. *)
LEMMA InitType == Init => TypeOK
<1>. SUFFICES ASSUME Init PROVE TypeOK
    OBVIOUS
<1>1. session \in Sessions
  <2>1. <<>> \in Seq(MessageKinds) /\ <<>> \in Seq(Candidates)
    OBVIOUS
  <2>2. (entry \in Dialer) \in BOOLEAN
    OBVIOUS
  <2>. QED  BY <2>1, <2>2 DEF Init, NewSession, Sessions, SessionState, NoTimer, NONE
<1>2. coros \in [Coros -> CoroType]
  <2>1. Coro(entry, FirstAwait(entry)) \in CoroType /\ NoCoro \in CoroType
    BY SessionAssumption DEF Init, Coro, NoCoro, FirstAwait, CoroType
  <2>. QED  BY <2>1 DEF Init
<1>. QED  BY <1>1, <1>2 DEF Init, TypeOK

(* Every step of Next keeps the types, one step of the proof per action. *)
LEMMA NextType == TypeOK /\ CoroShape /\ [Next]_vars => TypeOK'
<1>. SUFFICES ASSUME TypeOK, CoroShape, [Next]_vars PROVE TypeOK'
    OBVIOUS
<1>. /\ entry \in Entries /\ session \in Sessions /\ heard \in SUBSET Candidates
     /\ coros \in [Coros -> CoroType]
    BY DEF TypeOK
<1>0. /\ NoCoro \in CoroType
      /\ Coro("request", "set_remote") \in CoroType
      /\ Coro("response", "set_remote") \in CoroType
    BY DEF NoCoro, Coro, CoroType, Lan
<1>1. ASSUME NEW k \in Coros, RecvRequest(k)  PROVE TypeOK'
    BY <1>0, <1>1 DEF RecvRequest, TypeOK
<1>2. ASSUME NEW k \in Coros, RecvResponse(k) \/ AcceptAnswer(k)  PROVE TypeOK'
    BY <1>0, <1>2, EntryType DEF RecvResponse, AcceptAnswer, TypeOK
<1>3. ASSUME NEW c \in Candidates, RecvCandidate(c)  PROVE TypeOK'
    BY <1>3, CandidateType DEF RecvCandidate, TypeOK
<1>4. ASSUME NEW err \in Errors, RecvError(err) \/ AppClose(err)  PROVE TypeOK'
    BY <1>4, CloseType, SessionAssumption DEF RecvError, AppClose, HandleConnectError, TypeOK
<1>5. ASSUME NEW k \in Coros, ResumeSetRemote(k)  PROVE TypeOK'
  <2>1. RemoteDescriptionSet(session) \in Sessions
    BY CandidateType
  <2>2. FlushFrom(k, RemoteDescriptionSet(session), 0)
    BY <1>5 DEF ResumeSetRemote
  <2>3. session' \in Sessions /\ coros' \in [Coros -> CoroType]
    BY <2>1, <2>2, FlushType
  <2>. QED  BY <1>5, <2>3 DEF ResumeSetRemote, TypeOK
<1>6. ASSUME NEW k \in Coros, ResumeFlush(k)  PROVE TypeOK'
  <2>1. coros[k].i \in Nat
    BY DEF CoroType
  <2>2. session' \in Sessions /\ coros' \in [Coros -> CoroType]
    BY <1>6, <2>1, FlushType DEF ResumeFlush
  <2>. QED  BY <1>6, <2>2 DEF ResumeFlush, TypeOK
<1>7. ASSUME NEW k \in Coros, ResumeSetLocal(k)  PROVE TypeOK'
  <2>1. session' \in Sessions
    BY <1>7, EntryType DEF ResumeSetLocal, CoroShape, Lan, Http
  <2>. QED  BY <1>0, <1>7, <2>1 DEF ResumeSetLocal, TypeOK
<1>8. ASSUME NEW k \in Coros, Raise(k)  PROVE TypeOK'
  <2>1. FAILED_TO_CREATE_ANSWER \in Int /\ GENERIC_FAILURE \in Int
    BY DEF FAILED_TO_CREATE_ANSWER, GENERIC_FAILURE
  <2>2. session' \in Sessions
    BY <1>8, <2>1, CloseType DEF Raise
  <2>. QED  BY <1>0, <1>8, <2>2 DEF Raise, TypeOK
<1>9. CASE Timeout
  <2>1. session.timeout \in Int
    BY DEF Sessions, NoTimer, WAITING_FOR_RESPONSE, WAITING_FOR_ACCEPT
  <2>. QED  BY <1>9, <2>1, CloseType DEF Timeout, TimeoutExpires, TypeOK
<1>10. ASSUME NEW r \in BOOLEAN, ChannelOpens(r)  PROVE TypeOK'
    BY <1>10, CallbackType DEF ChannelOpens, TypeOK
<1>11. ASSUME NEW st \in {"failed", "closed"}, ConnectionStateChange(st)  PROVE TypeOK'
    BY <1>11, CallbackType DEF ConnectionStateChange, TypeOK
<1>12. CASE PcClosed
    BY <1>12, CallbackType DEF PcClosed, TypeOK
<1>13. CASE UNCHANGED vars
    BY <1>13 DEF vars, TypeOK
<1>. QED
    BY <1>1, <1>2, <1>3, <1>4, <1>5, <1>6, <1>7, <1>8, <1>9, <1>10, <1>11, <1>12, <1>13
       DEF Next, Resume

(* The coroutines keep their shape: a flush goes on to setLocalDescription    *)
(* only in _handle_request and answer.                                        *)
LEMMA NextShape == TypeOK /\ CoroShape /\ [Next]_vars => CoroShape'
<1>. SUFFICES ASSUME TypeOK, CoroShape, [Next]_vars PROVE CoroShape'
    OBVIOUS
<1>. coros \in [Coros -> CoroType]
    BY DEF TypeOK
<1>1. ASSUME NEW k \in Coros, NEW c, coros' = [coros EXCEPT ![k] = c],
             c.at = "set_local" => c.run \in Lan \cup Http
      PROVE  CoroShape'
  <2>. SUFFICES ASSUME NEW j \in Coros
                PROVE  coros'[j].at = "set_local" => coros'[j].run \in Lan \cup Http
    BY DEF CoroShape
  <2>1. coros'[j] = IF j = k THEN c ELSE coros[j]
    BY <1>1
  <2>. QED  BY <1>1, <2>1 DEF CoroShape
<1>2. ASSUME NEW k \in Coros, NEW s, NEW i, FlushFrom(k, s, i)  PROVE CoroShape'
  <2>1. CASE coros' = [coros EXCEPT ![k] = [coros[k] EXCEPT !.at = "flush", !.i = i + 1]]
    <3>1. [coros[k] EXCEPT !.at = "flush", !.i = i + 1].at # "set_local"
      BY DEF CoroType
    <3>. QED  BY <1>1, <2>1, <3>1
  <2>2. CASE coros' = [coros EXCEPT ![k] = AfterFlush(coros[k].run)]
    <3>1. AfterFlush(coros[k].run).at = "set_local"
            => AfterFlush(coros[k].run).run \in Lan \cup Http
      BY DEF AfterFlush, Coro, NoCoro, Lan, Http
    <3>. QED  BY <1>1, <2>2, <3>1
  <2>. QED  BY <1>2, <2>1, <2>2 DEF FlushFrom
<1>3. ASSUME NEW k \in Coros, ResumeSetRemote(k) \/ ResumeFlush(k)  PROVE CoroShape'
    BY <1>2, <1>3 DEF ResumeSetRemote, ResumeFlush
<1>4. ASSUME NEW k \in Coros,
             \/ RecvRequest(k) \/ RecvResponse(k) \/ AcceptAnswer(k)
             \/ ResumeSetLocal(k) \/ Raise(k)
      PROVE  CoroShape'
    BY <1>1, <1>4 DEF RecvRequest, RecvResponse, AcceptAnswer, ResumeSetLocal, Raise,
                      Coro, NoCoro
<1>5. ASSUME UNCHANGED coros  PROVE CoroShape'
    BY <1>5 DEF CoroShape
<1>. QED
    BY <1>3, <1>4, <1>5
       DEF Next, Resume, RecvCandidate, RecvError, AppClose, Timeout, ChannelOpens,
           ConnectionStateChange, PcClosed, vars

(* Whatever coroutines, callbacks and timers interleave, the state of a       *)
(* Session keeps its types (session.py, Session.__init__).                    *)
THEOREM TypeCorrect == Spec => []TypeOK
<1>1. Init => TypeOK /\ CoroShape
    BY InitType, SessionAssumption DEF Init, CoroShape, Coro, NoCoro
<1>2. (TypeOK /\ CoroShape) /\ [Next]_vars => (TypeOK /\ CoroShape)'
    BY NextType, NextShape
<1>. QED  BY <1>1, <1>2, PTL DEF Spec

-----------------------------------------------------------------------------
(* What a step does to the session record, whichever coroutine or callback    *)
(* takes it: the invariants below are about the record alone.                 *)
RecordStep ==
    \/ session' = session
    \/ \E err \in Int : session' = Close(session, err)
    \/ session' = StartResumed(session) \/ session' = OfferResumed(session)
    \/ session' = RequestResumed(session) \/ session' = AnswerResumed(session)
    \/ session' = ResponseReceived(session)
    \/ \E c \in Candidates : session' = AddRemoteCandidate(session, c)
    \/ Flushes(session, session') \/ Flushes(RemoteDescriptionSet(session), session')
    \/ \E r \in BOOLEAN : session' = HandleChannelOpen(session, r)
    \/ \E st \in {"failed", "closed"} : session' = PcChanges(session, st)

(* Every action of Session.tla changes the record in one of these ways. *)
LEMMA StepIsRecordStep == TypeOK /\ CoroShape /\ [Next]_vars => RecordStep
<1>. SUFFICES ASSUME TypeOK, CoroShape, [Next]_vars PROVE RecordStep
    OBVIOUS
<1>. session \in Sessions /\ coros \in [Coros -> CoroType]
    BY DEF TypeOK
<1>1. ASSUME NEW err \in Int, session' = Close(session, err)  PROVE RecordStep
    BY <1>1 DEF RecordStep
<1>2. ASSUME session' = session  PROVE RecordStep
    BY <1>2 DEF RecordStep
<1>3. ASSUME NEW k \in Coros, NEW s, NEW i \in Nat, FlushFrom(k, s, i)  PROVE Flushes(s, session')
    BY <1>3 DEF FlushFrom, Flushes
<1>4. ASSUME NEW k \in Coros, RecvRequest(k) \/ RecvResponse(k) \/ AcceptAnswer(k)
      PROVE  RecordStep
    BY <1>4 DEF RecvRequest, RecvResponse, AcceptAnswer, RecordStep
<1>5. ASSUME NEW c \in Candidates, RecvCandidate(c)  PROVE RecordStep
    BY <1>5 DEF RecvCandidate, RecordStep
<1>6. ASSUME NEW err \in Errors, RecvError(err) \/ AppClose(err)  PROVE RecordStep
  <2>1. err \in Int
    BY SessionAssumption
  <2>. QED  BY <1>1, <1>2, <1>6, <2>1 DEF RecvError, AppClose, HandleConnectError
<1>7. ASSUME NEW k \in Coros, ResumeSetRemote(k)  PROVE RecordStep
    BY <1>3, <1>7 DEF ResumeSetRemote, RecordStep
<1>8. ASSUME NEW k \in Coros, ResumeFlush(k)  PROVE RecordStep
  <2>1. coros[k].i \in Nat
    BY DEF CoroType
  <2>. QED  BY <1>3, <1>8, <2>1 DEF ResumeFlush, RecordStep
<1>9. ASSUME NEW k \in Coros, ResumeSetLocal(k)  PROVE RecordStep
    BY <1>9 DEF ResumeSetLocal, CoroShape, Lan, Http, RecordStep
<1>10. ASSUME NEW k \in Coros, Raise(k)  PROVE RecordStep
  <2>1. FAILED_TO_CREATE_ANSWER \in Int /\ GENERIC_FAILURE \in Int
    BY DEF FAILED_TO_CREATE_ANSWER, GENERIC_FAILURE
  <2>. QED  BY <1>1, <1>2, <1>10, <2>1 DEF Raise
<1>11. CASE Timeout
  <2>1. session.timeout \in Int
    BY DEF Sessions, NoTimer, WAITING_FOR_RESPONSE, WAITING_FOR_ACCEPT
  <2>. QED  BY <1>1, <1>11, <2>1 DEF Timeout, TimeoutExpires
<1>12. ASSUME NEW r \in BOOLEAN, ChannelOpens(r)  PROVE RecordStep
    BY <1>12 DEF ChannelOpens, RecordStep
<1>13. ASSUME NEW st \in {"failed", "closed"}, ConnectionStateChange(st)  PROVE RecordStep
    BY <1>13 DEF ConnectionStateChange, RecordStep
<1>14. CASE PcClosed
    BY <1>14 DEF PcClosed, RecordStep
<1>15. CASE UNCHANGED vars
    BY <1>2, <1>15 DEF vars
<1>. QED
    BY <1>4, <1>5, <1>6, <1>7, <1>8, <1>9, <1>10, <1>11, <1>12, <1>13, <1>14, <1>15
       DEF Next, Resume

-----------------------------------------------------------------------------
(* The negotiation timer and the two data channels. *)

(* RecordOK is inductive. *)
LEMMA RecordInvariant == Spec => []RecordOK(session)
<1>1. Init => RecordOK(session)
    BY DEF Init, NewSession, RecordOK, TimerOK, ChannelsOK
<1>2. TypeOK /\ CoroShape /\ RecordOK(session) /\ [Next]_vars => RecordOK(session)'
  <2>. SUFFICES ASSUME TypeOK, RecordOK(session), RecordStep  PROVE RecordOK(session')
    BY StepIsRecordStep
  <2>. session \in Sessions
    BY DEF TypeOK
  <2>1. RecordOK(RemoteDescriptionSet(session)) /\ RemoteDescriptionSet(session) \in Sessions
    BY CandidateOK, CandidateType
  <2>2. Flushes(session, session') \/ Flushes(RemoteDescriptionSet(session), session')
            => RecordOK(session')
    BY <2>1, CandidateOK
  <2>. QED  BY <2>2, CloseOK, EntryOK, CandidateOK, ChannelOK, PcOK DEF RecordStep
<1>3. Init => TypeOK /\ CoroShape
    BY InitType, SessionAssumption DEF Init, CoroShape, Coro, NoCoro
<1>4. (TypeOK /\ CoroShape) /\ [Next]_vars => (TypeOK /\ CoroShape)'
    BY NextType, NextShape
<1>. QED  BY <1>1, <1>2, <1>3, <1>4, PTL DEF Spec

(* SPEC.md 9.4 for every interleaving: a session has a timer exactly while it *)
(* waits for its peer, with the error of that wait -- so no late resumption   *)
(* or early close of session.py leaves a wait unguarded or a timer behind.    *)
THEOREM TimerAlwaysGuards == Spec => []TimerGuardsWait
<1>1. TypeOK /\ RecordOK(session) => TimerGuardsWait
    BY DEF TypeOK, RecordOK, TimerOK, TimerGuardsWait, Sessions, SessionState
<1>. QED  BY <1>1, TypeCorrect, RecordInvariant, PTL

(* CONNECTED means that both data channels are open, and on_open is called at *)
(* most once in the life of a session (_handle_channel_open).                 *)
THEOREM ConnectedIsOpen == Spec => []ConnectedOnBothChannels
<1>1. TypeOK /\ RecordOK(session) => ConnectedOnBothChannels
    BY DEF TypeOK, RecordOK, ChannelsOK, ConnectedOnBothChannels, BothOpen, Sessions
<1>. QED  BY <1>1, TypeCorrect, RecordInvariant, PTL

-----------------------------------------------------------------------------
(* Remote candidates. *)

(* The candidates in a buffer. *)
Buffered(q) == {q[j] : j \in 1..Len(q)}

(* list.append adds one candidate to the buffer. *)
LEMMA BufferedAppend ==
    ASSUME NEW q \in Seq(Candidates), NEW c \in Candidates
    PROVE  Buffered(Append(q, c)) = Buffered(q) \cup {c}
<1>1. /\ Len(Append(q, c)) = Len(q) + 1 /\ Len(q) \in Nat
      /\ Append(q, c)[Len(q) + 1] = c
      /\ \A j \in 1..Len(q) : Append(q, c)[j] = q[j]
    OBVIOUS
<1>2. ASSUME NEW x \in Buffered(Append(q, c))  PROVE x \in Buffered(q) \cup {c}
  <2>1. PICK j \in 1..Len(q) + 1 : x = Append(q, c)[j]
    BY <1>1, <1>2 DEF Buffered
  <2>2. CASE j \in 1..Len(q)
    BY <1>1, <2>1, <2>2 DEF Buffered
  <2>3. CASE j = Len(q) + 1
    BY <1>1, <2>1, <2>3
  <2>. QED  BY <1>1, <2>1, <2>2, <2>3
<1>3. ASSUME NEW x \in Buffered(q)  PROVE x \in Buffered(Append(q, c))
  <2>1. PICK j \in 1..Len(q) : x = q[j]
    BY <1>3 DEF Buffered
  <2>2. j \in 1..Len(q) + 1 /\ x = Append(q, c)[j]
    BY <1>1, <2>1
  <2>. QED  BY <1>1, <2>2 DEF Buffered
<1>4. c \in Buffered(Append(q, c))
  <2>1. Len(q) + 1 \in 1..Len(q) + 1
    BY <1>1
  <2>. QED  BY <1>1, <2>1 DEF Buffered
<1>. QED  BY <1>2, <1>3, <1>4

Flushing(k) == coros[k].at = "flush"

(* The candidates before a flush's position are with aiortc already.  Nothing *)
(* enters the buffer once the remote description is set, so the clear() of    *)
(* one flush cannot take a candidate that another one still has to hand over. *)
CandidateInv ==
    /\ heard = session.added \cup Buffered(session.pending)
    /\ \A k \in Coros : Flushing(k) =>
          /\ session.remote_set
          /\ \A j \in 1..Len(session.pending) :
                j <= coros[k].i => session.pending[j] \in session.added
    /\ (session.remote_set /\ \A k \in Coros : ~Flushing(k)) => session.pending = <<>>

SameCandidates(s, t) ==
    t.pending = s.pending /\ t.added = s.added /\ t.remote_set = s.remote_set

(* Only the candidate operators touch the buffer. *)
LEMMA OthersKeepCandidates ==
    ASSUME NEW s \in Sessions
    PROVE  /\ \A err \in Int : SameCandidates(s, Close(s, err))
           /\ SameCandidates(s, StartResumed(s)) /\ SameCandidates(s, OfferResumed(s))
           /\ SameCandidates(s, RequestResumed(s)) /\ SameCandidates(s, AnswerResumed(s))
           /\ SameCandidates(s, ResponseReceived(s))
           /\ \A r \in BOOLEAN : SameCandidates(s, HandleChannelOpen(s, r))
           /\ \A st \in {"failed", "closed"} : SameCandidates(s, PcChanges(s, st))
<1>1. ASSUME NEW t \in Sessions, NEW err \in Int  PROVE SameCandidates(t, Close(t, err))
    BY DEF SameCandidates, Close, CancelTimeout, Sessions
<1>2. /\ SameCandidates(s, StartResumed(s)) /\ SameCandidates(s, OfferResumed(s))
      /\ SameCandidates(s, RequestResumed(s)) /\ SameCandidates(s, AnswerResumed(s))
      /\ SameCandidates(s, ResponseReceived(s))
    BY DEF SameCandidates, StartResumed, OfferResumed, RequestResumed, AnswerResumed,
           ResponseReceived, ArmTimeout, Sessions
<1>3. ASSUME NEW r \in BOOLEAN  PROVE SameCandidates(s, HandleChannelOpen(s, r))
    BY DEF SameCandidates, HandleChannelOpen, FireChannelsOpen, HandleChannelsOpen,
           CancelTimeout, Sessions
<1>4. ASSUME NEW st \in {"failed", "closed"}  PROVE SameCandidates(s, PcChanges(s, st))
  <2>1. /\ [s EXCEPT !.pc = st] \in Sessions
        /\ SameCandidates(s, [s EXCEPT !.pc = st])
    BY DEF Sessions, SameCandidates
  <2>2. DATA_CHANNEL_CLOSED \in Int /\ ICE \in Int
    BY DEF DATA_CHANNEL_CLOSED, ICE
  <2>. QED  BY <1>1, <2>1, <2>2 DEF PcChanges, HandleConnectionState, SameCandidates
<1>. QED  BY <1>1, <1>2, <1>3, <1>4

(* A step that leaves the buffer and the flushing coroutines alone. *)
LEMMA CandidatesKept ==
    ASSUME CandidateInv, heard' = heard, SameCandidates(session, session'),
           \A k \in Coros : Flushing(k) \/ Flushing(k)' => coros'[k] = coros[k]
    PROVE  CandidateInv'
BY DEF CandidateInv, SameCandidates, Flushing

(* An iteration of the flush loop, for a coroutine at position i. *)
LEMMA FlushKeepsCandidates ==
    ASSUME TypeOK, CandidateInv, heard' = heard,
           NEW k \in Coros, NEW s \in Sessions, NEW i \in Nat, FlushFrom(k, s, i),
           s.remote_set, s.pending = session.pending, s.added = session.added,
           \A j \in 1..Len(s.pending) : j <= i => s.pending[j] \in s.added
    PROVE  CandidateInv'
<1>. coros \in [Coros -> CoroType] /\ session \in Sessions
    BY DEF TypeOK
<1>. s.pending \in Seq(Candidates) /\ Len(s.pending) \in Nat
    BY DEF Sessions
<1>1. CASE i < Len(s.pending)
  <2>1. session' = FlushOne(s, i) /\ s.pending[i + 1] \in Buffered(s.pending)
    BY <1>1 DEF FlushFrom, Buffered
  <2>2. /\ session'.pending = s.pending /\ session'.remote_set
        /\ session'.added = s.added \cup {s.pending[i + 1]}
    BY <2>1 DEF FlushOne, Sessions
  <2>3. coros' = [coros EXCEPT ![k] = [coros[k] EXCEPT !.at = "flush", !.i = i + 1]]
    BY <1>1 DEF FlushFrom
  <2>4. /\ coros'[k].at = "flush" /\ coros'[k].i = i + 1
        /\ \A j \in Coros : j # k => coros'[j] = coros[j]
    BY <2>3 DEF CoroType
  <2>5. heard' = session'.added \cup Buffered(session'.pending)
    BY <2>1, <2>2 DEF CandidateInv
  <2>6. ASSUME NEW m \in Coros, coros'[m].at = "flush",
               NEW j \in 1..Len(session'.pending), j <= coros'[m].i
        PROVE  session'.pending[j] \in session'.added
    <3>1. CASE m = k
      BY <2>2, <2>4, <2>6, <3>1
    <3>2. CASE m # k
      BY <2>2, <2>4, <2>6, <3>2 DEF CandidateInv, Flushing
    <3>. QED  BY <3>1, <3>2
  <2>. QED  BY <2>2, <2>4, <2>5, <2>6 DEF CandidateInv, Flushing
<1>2. CASE ~(i < Len(s.pending))
  <2>1. session' = FlushDone(s)
    BY <1>2 DEF FlushFrom
  <2>2. session'.pending = <<>> /\ session'.remote_set /\ session'.added = s.added
    BY <2>1 DEF FlushDone, Sessions
  <2>3. Buffered(s.pending) \subseteq s.added /\ Buffered(<<>>) = {}
    BY <1>2 DEF Buffered
  <2>. QED  BY <2>2, <2>3 DEF CandidateInv
<1>. QED  BY <1>1, <1>2

(* CandidateInv is inductive. *)
LEMMA NextCandidates == TypeOK /\ CoroShape /\ CandidateInv /\ [Next]_vars => CandidateInv'
<1>. SUFFICES ASSUME TypeOK, CoroShape, CandidateInv, [Next]_vars PROVE CandidateInv'
    OBVIOUS
<1>. coros \in [Coros -> CoroType] /\ session \in Sessions
    BY DEF TypeOK
<1>1. ASSUME NEW k \in Coros, NEW c, coros' = [coros EXCEPT ![k] = c],
             c.at # "flush", ~Flushing(k), heard' = heard, SameCandidates(session, session')
      PROVE  CandidateInv'
  <2>1. \A j \in Coros : coros'[j] = IF j = k THEN c ELSE coros[j]
    BY <1>1
  <2>2. \A j \in Coros : Flushing(j) \/ Flushing(j)' => coros'[j] = coros[j]
    BY <1>1, <2>1 DEF Flushing
  <2>. QED  BY <1>1, <2>2, CandidatesKept
<1>2. ASSUME coros' = coros, heard' = heard, SameCandidates(session, session')
      PROVE  CandidateInv'
    BY <1>2, CandidatesKept
<1>3. SameCandidates(session, session)
    BY DEF SameCandidates
<1>4. ASSUME NEW k \in Coros, RecvRequest(k) \/ RecvResponse(k) \/ AcceptAnswer(k)
      PROVE  CandidateInv'
  <2>1. ~Flushing(k)
    BY <1>4 DEF RecvRequest, RecvResponse, AcceptAnswer, Idle, NoCoro, Flushing
  <2>2. /\ Coro("request", "set_remote").at # "flush"
        /\ Coro("response", "set_remote").at # "flush"
    BY DEF Coro
  <2>. QED
    BY <1>1, <1>3, <1>4, <2>1, <2>2, OthersKeepCandidates
       DEF RecvRequest, RecvResponse, AcceptAnswer
<1>5. ASSUME NEW c \in Candidates, RecvCandidate(c)  PROVE CandidateInv'
  <2>0. session.pending \in Seq(Candidates) /\ session.remote_set \in BOOLEAN
    BY DEF Sessions
  <2>1. CASE session.remote_set
    <3>1. /\ session'.added = session.added \cup {c} /\ session'.pending = session.pending
          /\ session'.remote_set /\ heard' = heard \cup {c} /\ coros' = coros
      BY <1>5, <2>1 DEF RecvCandidate, AddRemoteCandidate, Sessions
    <3>. QED  BY <2>1, <3>1 DEF CandidateInv, Flushing
  <2>2. CASE ~session.remote_set
    <3>1. /\ session'.added = session.added
          /\ session'.pending = Append(session.pending, c)
          /\ ~session'.remote_set /\ heard' = heard \cup {c} /\ coros' = coros
      BY <1>5, <2>2 DEF RecvCandidate, AddRemoteCandidate, Sessions
    <3>2. \A k \in Coros : ~Flushing(k)
      BY <2>2 DEF CandidateInv
    <3>. QED  BY <2>0, <3>1, <3>2, BufferedAppend DEF CandidateInv, Flushing
  <2>. QED  BY <2>1, <2>2
<1>6. ASSUME NEW err \in Errors, RecvError(err) \/ AppClose(err)  PROVE CandidateInv'
  <2>1. err \in Int
    BY SessionAssumption
  <2>. QED
    BY <1>2, <1>3, <1>6, <2>1, OthersKeepCandidates DEF RecvError, AppClose, HandleConnectError
<1>7. ASSUME NEW k \in Coros, ResumeSetRemote(k)  PROVE CandidateInv'
  <2>1. /\ RemoteDescriptionSet(session) \in Sessions
        /\ RemoteDescriptionSet(session).remote_set
        /\ RemoteDescriptionSet(session).pending = session.pending
        /\ RemoteDescriptionSet(session).added = session.added
    BY CandidateType DEF RemoteDescriptionSet, Sessions
  <2>2. \A j \in 1..Len(session.pending) : ~(j <= 0)
    OBVIOUS
  <2>. QED  BY <1>7, <2>1, <2>2, FlushKeepsCandidates DEF ResumeSetRemote
<1>8. ASSUME NEW k \in Coros, ResumeFlush(k)  PROVE CandidateInv'
  <2>1. coros[k].i \in Nat /\ Flushing(k)
    BY <1>8 DEF CoroType, ResumeFlush, Flushing
  <2>. QED  BY <1>8, <2>1, FlushKeepsCandidates DEF ResumeFlush, CandidateInv
<1>9. ASSUME NEW k \in Coros, ResumeSetLocal(k) \/ Raise(k)  PROVE CandidateInv'
  <2>1. ~Flushing(k) /\ NoCoro.at # "flush"
    BY <1>9 DEF ResumeSetLocal, Raise, Flushing, NoCoro
  <2>2. FAILED_TO_CREATE_ANSWER \in Int /\ GENERIC_FAILURE \in Int
    BY DEF FAILED_TO_CREATE_ANSWER, GENERIC_FAILURE
  <2>3. SameCandidates(session, session')
    BY <1>3, <1>9, <2>2, OthersKeepCandidates DEF ResumeSetLocal, Raise, CoroShape, Lan, Http
  <2>. QED  BY <1>1, <1>9, <2>1, <2>3 DEF ResumeSetLocal, Raise
<1>10. CASE Timeout
  <2>1. session.timeout \in Int
    BY DEF Sessions, NoTimer, WAITING_FOR_RESPONSE, WAITING_FOR_ACCEPT
  <2>. QED  BY <1>2, <1>10, <2>1, OthersKeepCandidates DEF Timeout, TimeoutExpires
<1>11. ASSUME NEW r \in BOOLEAN, ChannelOpens(r)  PROVE CandidateInv'
    BY <1>2, <1>11, OthersKeepCandidates DEF ChannelOpens
<1>12. ASSUME NEW st \in {"failed", "closed"}, ConnectionStateChange(st)  PROVE CandidateInv'
    BY <1>2, <1>12, OthersKeepCandidates DEF ConnectionStateChange
<1>13. CASE PcClosed
    BY <1>2, <1>13, OthersKeepCandidates DEF PcClosed
<1>14. CASE UNCHANGED vars
    BY <1>2, <1>3, <1>14 DEF vars
<1>. QED
    BY <1>4, <1>5, <1>6, <1>7, <1>8, <1>9, <1>10, <1>11, <1>12, <1>13, <1>14
       DEF Next, Resume

(* add_remote_candidate and _flush_remote_candidates lose no trickled         *)
(* candidate, however many answers flush the same buffer at once, and leave   *)
(* none in it when the last flush is through.                                 *)
THEOREM CandidatesReachIce == Spec => []NoCandidateLost
<1>1. Init => CandidateInv
    BY DEF Init, NewSession, CandidateInv, Buffered, Flushing, Coro, NoCoro, FirstAwait
<1>2. CandidateInv => NoCandidateLost
    BY DEF CandidateInv, NoCandidateLost, Buffered, Flushing
<1>3. Init => TypeOK /\ CoroShape
    BY InitType, SessionAssumption DEF Init, CoroShape, Coro, NoCoro
<1>4. (TypeOK /\ CoroShape) /\ [Next]_vars => (TypeOK /\ CoroShape)'
    BY NextType, NextShape
<1>. QED  BY <1>1, <1>2, <1>3, <1>4, NextCandidates, PTL DEF Spec

-----------------------------------------------------------------------------
(***************************************************************************)
(* Sessions that are signalled over HTTP (connect_http and HttpServer)     *)
(* implement the negotiation diagrams of SPEC.md 9: the entry point is     *)
(* awaited by the only code that may close the session before it returns,  *)
(* so it never resumes on a closed session.  LAN sessions lack this        *)
(* property; see the run that refutes ClosedIsFinal for them.              *)
(***************************************************************************)

(* connect_http and _answer_offer create all sessions. *)
HttpOnly == Entries \subseteq Http

(* Their owners close with codes that are not the session's own. *)
OwnCodes == {ICE, WAITING_FOR_RESPONSE, WAITING_FOR_ACCEPT, DATA_CHANNEL_CLOSED}
OwnersUseOtherCodes == Errors \cap OwnCodes = {}

(* Why no entry point resumes late: while offer() or answer() is suspended,   *)
(* no other coroutine runs, no timer is armed, and without a local            *)
(* description nothing is negotiated.                                         *)
EntryRunsAlone ==
    \A k \in Coros : coros[k].run \in Http =>
        /\ session.state = "IDLE"
        /\ coros[k].run = entry
        /\ entry = "offer" => coros[k].at = "set_local"
        /\ \A j \in Coros : j # k => coros[j].run = "none"

CorosOfHttp ==
    \A k \in Coros :
        /\ coros[k].run \in Http \cup {"response", "none"}
        /\ coros[k].run = "none" => coros[k].at = "none"
        /\ coros[k].run = "response" =>
              /\ entry = "offer" /\ coros[k].at # "set_local"
              /\ session.state \notin {"IDLE", "OFFER_SENT"}

Descriptions ==
    /\ session.state = "IDLE" => ~session.local_set
    /\ entry = "offer" /\ session.state \in {"IDLE", "OFFER_SENT"} => ~session.remote_set
    /\ entry = "answer" => session.state \notin {"OFFER_SENT", "NEGOTIATING"}
    /\ session.opens = 1 => session.state \in {"CONNECTED", "CLOSED"}

HttpInv == entry \in Http /\ EntryRunsAlone /\ CorosOfHttp /\ Descriptions

(* The invariants of the general proofs, and this one. *)
Inv == TypeOK /\ RecordOK(session) /\ HttpInv

-----------------------------------------------------------------------------
(* What the steps of an HTTP session are. *)
HttpStep ==
    \/ UNCHANGED <<session, coros>>
    \/ \E k \in Coros :       \* the entry point or accept_answer advances
          \/ session.state = "OFFER_SENT" /\ Idle(k)
                /\ session' = ResponseReceived(session)
                /\ coros' = [coros EXCEPT ![k] = Coro("response", "set_remote")]
          \/ ResumeSetRemote(k) \/ ResumeFlush(k) \/ ResumeSetLocal(k) \/ Raise(k)
    \/ /\ UNCHANGED coros     \* close, timer and callbacks
       /\ \/ \E err \in Errors : Quiet /\ session' = Close(session, err)
          \/ session.timeout # NoTimer /\ session' = TimeoutExpires(session)
          \/ Negotiated(session) /\ \E r \in BOOLEAN : session' = HandleChannelOpen(session, r)
          \/ Negotiated(session) /\ session' = PcChanges(session, "failed")
          \/ session' = PcChanges(session, "closed")

(* Over HTTP no signalling message reaches the session. *)
LEMMA HttpSteps == entry \in Http /\ [Next]_vars => HttpStep /\ entry' = entry
<1>. SUFFICES ASSUME entry \in Http, [Next]_vars PROVE HttpStep /\ entry' = entry
    OBVIOUS
<1>1. entry \notin Lan /\ entry # "request" /\ entry # "start"
    BY DEF Http, Lan
<1>. QED
    BY <1>1 DEF Next, vars, Resume, RecvRequest, RecvResponse, RecvCandidate, RecvError,
                AcceptAnswer, AppClose, Timeout, ChannelOpens, ConnectionStateChange, PcClosed,
                ResumeSetRemote, ResumeFlush, ResumeSetLocal, Raise, HttpStep

-----------------------------------------------------------------------------
(* What the operators do to the fields the diagram is about. *)
SamePromise(s, t) ==
    t.state = s.state /\ t.error = s.error /\ t.opens = s.opens /\ t.closes = s.closes

SameDescriptions(s, t) == t.local_set = s.local_set /\ t.remote_set = s.remote_set

Closes(s, t, err) ==
    /\ s.state # "CLOSED" /\ t.state = "CLOSED" /\ t.error = err
    /\ t.opens = s.opens /\ t.closes = s.closes + 1

(* Session.close closes once. *)
LEMMA CloseFacts ==
    ASSUME NEW s \in Sessions, NEW err \in Int
    PROVE  /\ SameDescriptions(s, Close(s, err))
           /\ s.state = "CLOSED" => SamePromise(s, Close(s, err))
           /\ s.state # "CLOSED" => Closes(s, Close(s, err), err)
BY DEF SameDescriptions, SamePromise, Closes, Close, CancelTimeout, Sessions

(* The second channel to open, and only that, enters CONNECTED. *)
LEMMA ChannelFacts ==
    ASSUME NEW s \in Sessions, NEW r \in BOOLEAN
    PROVE  LET t == HandleChannelOpen(s, r)
           IN  /\ SameDescriptions(s, t)
               /\ \/ SamePromise(s, t)
                  \/ /\ s.state \notin {"CONNECTED", "CLOSED"} /\ t.state = "CONNECTED"
                     /\ t.opens = s.opens + 1 /\ t.error = s.error /\ t.closes = s.closes
BY DEF SameDescriptions, SamePromise, HandleChannelOpen, FireChannelsOpen,
       HandleChannelsOpen, CancelTimeout, Sessions

(* A connection that fails reports ICE before CONNECTED and the loss of the   *)
(* channels after it.                                                         *)
LEMMA PcFacts ==
    ASSUME NEW s \in Sessions, NEW st \in {"failed", "closed"}
    PROVE  LET t == PcChanges(s, st)
           IN  /\ SameDescriptions(s, t)
               /\ \/ SamePromise(s, t)
                  \/ s.state = "CONNECTED" /\ Closes(s, t, DATA_CHANNEL_CLOSED)
                  \/ st = "failed" /\ s.state # "CONNECTED" /\ Closes(s, t, ICE)
<1>1. /\ [s EXCEPT !.pc = st] \in Sessions
      /\ SameDescriptions(s, [s EXCEPT !.pc = st]) /\ SamePromise(s, [s EXCEPT !.pc = st])
    BY DEF Sessions, SameDescriptions, SamePromise
<1>2. DATA_CHANNEL_CLOSED \in Int /\ ICE \in Int
    BY DEF DATA_CHANNEL_CLOSED, ICE
<1>. DEFINE u == [s EXCEPT !.pc = st]
<1>3. PcChanges(s, st) = HandleConnectionState(u, st)
    BY DEF PcChanges
<1>. HIDE DEF u
<1>4. u.state = s.state /\ u.closes = s.closes /\ u.opens = s.opens /\ u \in Sessions
    BY <1>1 DEF SamePromise, u
<1>5. ASSUME NEW err \in Int, PcChanges(s, st) = Close(u, err), s.state # "CLOSED"
      PROVE  Closes(s, PcChanges(s, st), err) /\ SameDescriptions(s, PcChanges(s, st))
  <2>1. Closes(u, Close(u, err), err) /\ SameDescriptions(u, Close(u, err))
    BY <1>4, <1>5, CloseFacts
  <2>2. SameDescriptions(s, u)
    BY <1>1 DEF u
  <2>. QED  BY <1>4, <1>5, <2>1, <2>2 DEF Closes, SameDescriptions
<1>6. ASSUME PcChanges(s, st) = u
      PROVE  SamePromise(s, PcChanges(s, st)) /\ SameDescriptions(s, PcChanges(s, st))
    BY <1>1, <1>6 DEF u
<1>7. CASE s.state = "CLOSED"
    BY <1>3, <1>4, <1>6, <1>7 DEF HandleConnectionState
<1>8. CASE s.state # "CLOSED" /\ st = "failed"
    BY <1>2, <1>3, <1>4, <1>5, <1>8 DEF HandleConnectionState
<1>9. CASE s.state # "CLOSED" /\ st = "closed"
    BY <1>2, <1>3, <1>4, <1>5, <1>6, <1>9 DEF HandleConnectionState
<1>. QED  BY <1>7, <1>8, <1>9

(* The close of the peer connection itself ends only an open session. *)
LEMMA ClosedFacts ==
    ASSUME NEW s \in Sessions
    PROVE  LET t == PcChanges(s, "closed")
           IN  /\ SameDescriptions(s, t)
               /\ \/ SamePromise(s, t)
                  \/ /\ s.state = "CONNECTED" /\ t.state = "CLOSED"
                     /\ Closes(s, t, DATA_CHANNEL_CLOSED)
<1>. DEFINE t(st) == PcChanges(s, st)
<1>1. \A st \in {"failed", "closed"} :
         /\ SameDescriptions(s, t(st))
         /\ \/ SamePromise(s, t(st))
            \/ s.state = "CONNECTED" /\ Closes(s, t(st), DATA_CHANNEL_CLOSED)
            \/ st = "failed" /\ s.state # "CONNECTED" /\ Closes(s, t(st), ICE)
    BY PcFacts
<1>. HIDE DEF t
<1>2. /\ SameDescriptions(s, t("closed"))
      /\ \/ SamePromise(s, t("closed"))
         \/ s.state = "CONNECTED" /\ Closes(s, t("closed"), DATA_CHANNEL_CLOSED)
    BY <1>1
<1>3. Closes(s, t("closed"), DATA_CHANNEL_CLOSED) => t("closed").state = "CLOSED"
    BY DEF Closes
<1>. QED  BY <1>2, <1>3 DEF t

(* offer, answer and accept_answer. *)
LEMMA EntryFacts ==
    ASSUME NEW s \in Sessions
    PROVE  /\ OfferResumed(s).state = "OFFER_SENT" /\ AnswerResumed(s).state = "ANSWER_SENT"
           /\ ResponseReceived(s).state = "NEGOTIATING"
           /\ OfferResumed(s).remote_set = s.remote_set
           /\ SameDescriptions(s, ResponseReceived(s))
           /\ \A t \in {OfferResumed(s), AnswerResumed(s), ResponseReceived(s)} :
                 t.error = s.error /\ t.opens = s.opens /\ t.closes = s.closes
BY DEF OfferResumed, AnswerResumed, ResponseReceived, ArmTimeout, SameDescriptions, Sessions

(* Setting the remote description and flushing promise nothing new. *)
LEMMA FlushFacts ==
    ASSUME NEW k \in Coros, NEW s \in Sessions, NEW i, FlushFrom(k, s, i)
    PROVE  SamePromise(s, session') /\ SameDescriptions(s, session')
BY DEF FlushFrom, FlushOne, FlushDone, SamePromise, SameDescriptions, Sessions

(* The flag that the flush sets is no part of the promise. *)
LEMMA SetRemoteFacts ==
    ASSUME NEW s \in Sessions
    PROVE  /\ RemoteDescriptionSet(s) \in Sessions
           /\ SamePromise(s, RemoteDescriptionSet(s))
           /\ RemoteDescriptionSet(s).local_set = s.local_set
BY CandidateType DEF RemoteDescriptionSet, SamePromise, Sessions

-----------------------------------------------------------------------------
(* The invariant. *)

(* Session.__init__ and the first await of offer or answer. *)
LEMMA HttpInit == ASSUME HttpOnly PROVE Init => HttpInv
<1>. SUFFICES ASSUME Init PROVE HttpInv
    OBVIOUS
<1>0. entry \in Http
    BY DEF Init, HttpOnly
<1>1. PICK k \in Coros : coros = [j \in Coros |->
            IF j = k THEN Coro(entry, FirstAwait(entry)) ELSE NoCoro]
    BY DEF Init
<1>2. \A j \in Coros : coros[j] = IF j = k THEN Coro(entry, FirstAwait(entry)) ELSE NoCoro
    BY <1>1
<1>3. session.state = "IDLE" /\ ~session.local_set /\ ~session.remote_set /\ session.opens = 0
    BY DEF Init, NewSession
<1>4. EntryRunsAlone
    BY <1>0, <1>2, <1>3 DEF EntryRunsAlone, Coro, NoCoro, FirstAwait, Dialer, Http
<1>5. CorosOfHttp
    BY <1>0, <1>2, <1>3 DEF CorosOfHttp, Coro, NoCoro, Http
<1>. QED  BY <1>0, <1>3, <1>4, <1>5 DEF HttpInv, Descriptions

(* The three ways in which a step changes the coroutines. *)
LEMMA CoroutineMoves ==
    ASSUME TypeOK, HttpInv, entry' = entry, NEW k \in Coros, NEW c, coros' = [coros EXCEPT ![k] = c]
    PROVE  /\ (c.run = "none" /\ c.at = "none" /\ (coros[k].run \in Http \/ session'.state = session.state))
                => EntryRunsAlone' /\ CorosOfHttp'
           /\ (c.run = coros[k].run /\ session'.state = session.state
                  /\ (c.run = "none" => c.at = "none")
                  /\ (c.run = "response" => c.at # "set_local")
                  /\ (c.run = "offer" => c.at = "set_local"))
                => EntryRunsAlone' /\ CorosOfHttp'
<1>1. \A j \in Coros : coros'[j] = IF j = k THEN c ELSE coros[j]
    BY DEF TypeOK
<1>2. ASSUME c.run = "none", c.at = "none", coros[k].run \in Http
      PROVE  EntryRunsAlone' /\ CorosOfHttp'
  <2>1. \A j \in Coros : coros'[j].run = "none" /\ coros'[j].at = "none"
    BY <1>1, <1>2 DEF HttpInv, EntryRunsAlone, CorosOfHttp
  <2>. QED  BY <2>1 DEF EntryRunsAlone, CorosOfHttp, Http
<1>3. ASSUME c.run = "none", c.at = "none", session'.state = session.state
      PROVE  EntryRunsAlone' /\ CorosOfHttp'
    BY <1>1, <1>3 DEF HttpInv, EntryRunsAlone, CorosOfHttp, Http
<1>4. ASSUME c.run = coros[k].run, session'.state = session.state, c.run = "none" => c.at = "none",
             c.run = "response" => c.at # "set_local", c.run = "offer" => c.at = "set_local"
      PROVE  EntryRunsAlone' /\ CorosOfHttp'
    BY <1>1, <1>4 DEF HttpInv, EntryRunsAlone, CorosOfHttp, Http
<1>. QED  BY <1>2, <1>3, <1>4

(* HttpInv is inductive. *)
LEMMA HttpNext == Inv /\ [Next]_vars => HttpInv'
<1>. SUFFICES ASSUME Inv, [Next]_vars PROVE HttpInv'
    OBVIOUS
<1>. /\ TypeOK /\ RecordOK(session) /\ HttpInv /\ session \in Sessions
     /\ coros \in [Coros -> CoroType] /\ entry \in Http
    BY DEF Inv, TypeOK, HttpInv
<1>. HttpStep /\ entry' = entry
    BY HttpSteps
<1>1. ASSUME coros' = coros, SamePromise(session, session'), SameDescriptions(session, session')
      PROVE  HttpInv'
    BY <1>1 DEF HttpInv, EntryRunsAlone, CorosOfHttp, Descriptions, SamePromise,
                SameDescriptions
<1>2. ASSUME coros' = coros, SameDescriptions(session, session'),
             session'.state = "CLOSED" \/ session'.state = "CONNECTED",
             \A k \in Coros : coros[k].run \notin Http
      PROVE  HttpInv'
    BY <1>2 DEF HttpInv, EntryRunsAlone, CorosOfHttp, Descriptions, SameDescriptions
<1>3. ASSUME session.state # "IDLE"  PROVE \A k \in Coros : coros[k].run \notin Http
    BY <1>3 DEF HttpInv, EntryRunsAlone
<1>4. CASE UNCHANGED <<session, coros>>
    BY <1>1, <1>4 DEF SamePromise, SameDescriptions
<1>5. ASSUME NEW k \in Coros, session.state = "OFFER_SENT", Idle(k),
             session' = ResponseReceived(session),
             coros' = [coros EXCEPT ![k] = Coro("response", "set_remote")]
      PROVE  HttpInv'
  <2>1. \A j \in Coros : coros'[j] = IF j = k THEN Coro("response", "set_remote") ELSE coros[j]
    BY <1>5
  <2>2. entry = "offer" /\ session'.state = "NEGOTIATING" /\ session'.opens = session.opens
    BY <1>5, EntryFacts DEF HttpInv, Descriptions, Http
  <2>3. SameDescriptions(session, session')
    BY <1>5, EntryFacts
  <2>4. EntryRunsAlone' /\ CorosOfHttp'
    BY <1>3, <1>5, <2>1, <2>2 DEF HttpInv, EntryRunsAlone, CorosOfHttp, Coro, Http
  <2>5. Descriptions'
    BY <1>5, <2>2 DEF HttpInv, Descriptions
  <2>. QED  BY <2>4, <2>5 DEF HttpInv
<1>6. ASSUME NEW k \in Coros, NEW s \in Sessions, NEW i \in Nat, FlushFrom(k, s, i),
             coros[k].at \in {"set_remote", "flush"},
             SamePromise(session, s), s.local_set = session.local_set,
             entry = "offer" /\ session.state \in {"IDLE", "OFFER_SENT"}
                => s.remote_set = session.remote_set
      PROVE  HttpInv'
  <2>1. SamePromise(s, session') /\ SameDescriptions(s, session')
    BY <1>6, FlushFacts
  <2>2. Descriptions' /\ session'.state = session.state
    BY <1>6, <2>1 DEF HttpInv, Descriptions, SamePromise, SameDescriptions
  <2>3. coros[k].run \notin {"offer", "none"}
    BY <1>6 DEF HttpInv, EntryRunsAlone, CorosOfHttp, Http
  <2>4. CASE coros' = [coros EXCEPT ![k] = [coros[k] EXCEPT !.at = "flush", !.i = i + 1]]
    <3>1. /\ [coros[k] EXCEPT !.at = "flush", !.i = i + 1].run = coros[k].run
          /\ [coros[k] EXCEPT !.at = "flush", !.i = i + 1].at = "flush"
      BY DEF CoroType
    <3>. QED  BY <2>2, <2>3, <2>4, <3>1, CoroutineMoves DEF HttpInv
  <2>5. CASE coros' = [coros EXCEPT ![k] = AfterFlush(coros[k].run)]
    <3>1. CASE coros[k].run = "answer"
      <4>1. /\ AfterFlush(coros[k].run).run = coros[k].run
            /\ AfterFlush(coros[k].run).at = "set_local"
        BY <3>1 DEF AfterFlush, Coro
      <4>. QED  BY <2>2, <2>5, <3>1, <4>1, CoroutineMoves DEF HttpInv
    <3>2. CASE coros[k].run = "response"
      <4>1. AfterFlush(coros[k].run).run = "none" /\ AfterFlush(coros[k].run).at = "none"
        BY <3>2 DEF AfterFlush, NoCoro
      <4>. QED  BY <2>2, <2>5, <4>1, CoroutineMoves DEF HttpInv
    <3>. QED  BY <2>3, <3>1, <3>2 DEF HttpInv, CorosOfHttp, Http
  <2>. QED  BY <1>6, <2>4, <2>5 DEF FlushFrom
<1>7. ASSUME NEW k \in Coros, ResumeSetRemote(k)  PROVE HttpInv'
  <2>1. /\ RemoteDescriptionSet(session) \in Sessions
        /\ SamePromise(session, RemoteDescriptionSet(session))
        /\ RemoteDescriptionSet(session).local_set = session.local_set
    BY SetRemoteFacts
  <2>2. ~(entry = "offer" /\ session.state \in {"IDLE", "OFFER_SENT"})
    BY <1>7 DEF ResumeSetRemote, HttpInv, EntryRunsAlone, CorosOfHttp, Http
  <2>. QED  BY <1>6, <1>7, <2>1, <2>2 DEF ResumeSetRemote
<1>8. ASSUME NEW k \in Coros, ResumeFlush(k)  PROVE HttpInv'
  <2>1. coros[k].i \in Nat /\ SamePromise(session, session)
    BY DEF CoroType, SamePromise
  <2>. QED  BY <1>6, <1>8, <2>1 DEF ResumeFlush
<1>9. ASSUME NEW k \in Coros, ResumeSetLocal(k)  PROVE HttpInv'
  <2>1. /\ coros[k].run \in Http /\ coros[k].run = entry /\ session.state = "IDLE"
        /\ NoCoro.run = "none" /\ NoCoro.at = "none"
    BY <1>9 DEF ResumeSetLocal, HttpInv, EntryRunsAlone, CorosOfHttp, NoCoro
  <2>2. EntryRunsAlone' /\ CorosOfHttp'
    BY <1>9, <2>1, CoroutineMoves DEF ResumeSetLocal
  <2>3. CASE entry = "offer"
    <3>1. session' = OfferResumed(session)
      BY <1>9, <2>1, <2>3 DEF ResumeSetLocal
    <3>2. Descriptions'
      BY <2>1, <2>3, <3>1, EntryFacts DEF HttpInv, Descriptions
    <3>. QED  BY <2>2, <3>2 DEF HttpInv
  <2>4. CASE entry = "answer"
    <3>1. session' = AnswerResumed(session)
      BY <1>9, <2>1, <2>4 DEF ResumeSetLocal
    <3>2. Descriptions'
      BY <2>1, <2>4, <3>1, EntryFacts DEF HttpInv, Descriptions
    <3>. QED  BY <2>2, <3>2 DEF HttpInv
  <2>. QED  BY <2>3, <2>4 DEF Http
<1>10. ASSUME NEW k \in Coros, Raise(k)  PROVE HttpInv'
  <2>1. FAILED_TO_CREATE_ANSWER \in Int /\ GENERIC_FAILURE \in Int /\ entry \notin Lan
    BY DEF FAILED_TO_CREATE_ANSWER, GENERIC_FAILURE, Http, Lan
  <2>2. PICK err \in Int : session' = Close(session, err)
    BY <1>10, <2>1 DEF Raise
  <2>3. session'.state = "CLOSED" /\ SameDescriptions(session, session')
    BY <2>2, CloseFacts DEF SamePromise, Closes
  <2>4. \A j \in Coros : coros'[j] = IF j = k THEN NoCoro ELSE coros[j]
    BY <1>10 DEF Raise
  <2>5. coros[k].run # "none"
    BY <1>10 DEF Raise, HttpInv, CorosOfHttp
  <2>6. EntryRunsAlone'
    BY <1>3, <2>4, <2>5 DEF EntryRunsAlone, HttpInv, NoCoro, Http
  <2>7. CorosOfHttp'
    BY <2>3, <2>4 DEF CorosOfHttp, HttpInv, NoCoro
  <2>8. Descriptions'
    BY <2>3 DEF Descriptions
  <2>. QED  BY <2>6, <2>7, <2>8 DEF HttpInv
<1>11. ASSUME NEW err \in Errors, Quiet, session' = Close(session, err), coros' = coros
       PROVE  HttpInv'
  <2>1. err \in Int /\ \A k \in Coros : coros[k].run \notin Http
    BY <1>11, SessionAssumption DEF Quiet, Idle, NoCoro, Http
  <2>. QED  BY <1>2, <1>11, <2>1, CloseFacts DEF SamePromise, Closes
<1>12. ASSUME session.timeout # NoTimer, session' = TimeoutExpires(session), coros' = coros
       PROVE  HttpInv'
  <2>1. session.timeout \in Int
    BY DEF Sessions, NoTimer, WAITING_FOR_RESPONSE, WAITING_FOR_ACCEPT
  <2>2. session.state # "IDLE"
    BY <1>12 DEF RecordOK, TimerOK
  <2>. QED  BY <1>2, <1>3, <1>12, <2>1, <2>2, CloseFacts DEF TimeoutExpires, SamePromise, Closes
<1>13. ASSUME NEW r \in BOOLEAN, Negotiated(session), session' = HandleChannelOpen(session, r),
              coros' = coros
       PROVE  HttpInv'
  <2>1. session.state # "IDLE"
    BY <1>13 DEF Negotiated, HttpInv, Descriptions
  <2>. QED  BY <1>1, <1>2, <1>3, <1>13, <2>1, ChannelFacts
<1>14. ASSUME Negotiated(session), session' = PcChanges(session, "failed"), coros' = coros
       PROVE  HttpInv'
  <2>1. session.state # "IDLE"
    BY <1>14 DEF Negotiated, HttpInv, Descriptions
  <2>. QED  BY <1>1, <1>2, <1>3, <1>14, <2>1, PcFacts DEF Closes
<1>15. ASSUME session' = PcChanges(session, "closed"), coros' = coros  PROVE HttpInv'
  <2>1. CASE SamePromise(session, session') /\ SameDescriptions(session, session')
    BY <1>1, <1>15, <2>1
  <2>2. CASE /\ SameDescriptions(session, session') /\ session.state = "CONNECTED"
             /\ session'.state = "CLOSED"
    BY <1>2, <1>3, <1>15, <2>2
  <2>. QED  BY <1>15, <2>1, <2>2, ClosedFacts
<1>. QED
    BY <1>4, <1>5, <1>7, <1>8, <1>9, <1>10, <1>11, <1>12, <1>13, <1>14, <1>15 DEF HttpStep

(* All three hold always. *)
LEMMA HttpInvariant == ASSUME HttpOnly PROVE Spec => []Inv
<1>1. Init => HttpInv
    BY HttpInit
<1>2. TypeOK /\ RecordOK(session) /\ HttpInv /\ [Next]_vars => HttpInv'
    BY HttpNext DEF Inv
<1>3. TypeOK /\ RecordOK(session) /\ HttpInv => Inv
    BY DEF Inv
<1>. QED  BY <1>1, <1>2, <1>3, TypeCorrect, RecordInvariant, PTL DEF Spec

-----------------------------------------------------------------------------
(* What a step can do to the state and to the two callbacks. *)
SameCallbacks(s, t) == t.error = s.error /\ t.opens = s.opens /\ t.closes = s.closes

Outcome ==
    \/ SamePromise(session, session')
    \/ /\ session.state = "IDLE" /\ session'.state \in {"OFFER_SENT", "ANSWER_SENT"}
       /\ SameCallbacks(session, session')
    \/ /\ session.state = "OFFER_SENT" /\ session'.state = "NEGOTIATING"
       /\ SameCallbacks(session, session')
    \/ /\ session.state \in {"NEGOTIATING", "ANSWER_SENT"} /\ session'.state = "CONNECTED"
       /\ session'.opens = session.opens + 1
       /\ session'.error = session.error /\ session'.closes = session.closes
    \/ \E err \in Int : /\ Closes(session, session', err)
                        /\ err \in Errors \/ Diagram!Allowed(err)

(* Every step of an HTTP session has one of these outcomes. *)
LEMMA HttpOutcome == Inv /\ [Next]_vars => Outcome
<1>. SUFFICES ASSUME Inv, [Next]_vars PROVE Outcome
    OBVIOUS
<1>. /\ TypeOK /\ RecordOK(session) /\ HttpInv /\ session \in Sessions
     /\ coros \in [Coros -> CoroType] /\ entry \in Http
    BY DEF Inv, TypeOK, HttpInv
<1>. HttpStep
    BY HttpSteps
<1>1. ASSUME NEW err \in Int, session' = Close(session, err),
             err \in Errors \/ Diagram!Allowed(err)
      PROVE  Outcome
    BY <1>1, CloseFacts DEF Outcome
<1>2. ASSUME Negotiated(session), session.state \notin {"CONNECTED", "CLOSED"}
      PROVE  session.state \in {"NEGOTIATING", "ANSWER_SENT"}
    BY <1>2 DEF Negotiated, HttpInv, Descriptions, Http, Sessions, SessionState
<1>3. CASE UNCHANGED <<session, coros>>
    BY <1>3 DEF Outcome, SamePromise
<1>4. ASSUME session.state = "OFFER_SENT", session' = ResponseReceived(session)
      PROVE  Outcome
    BY <1>4, EntryFacts DEF Outcome, SameCallbacks
<1>5. ASSUME NEW k \in Coros, ResumeSetRemote(k)  PROVE Outcome
  <2>1. /\ RemoteDescriptionSet(session) \in Sessions
        /\ SamePromise(session, RemoteDescriptionSet(session))
    BY SetRemoteFacts
  <2>2. FlushFrom(k, RemoteDescriptionSet(session), 0)
    BY <1>5 DEF ResumeSetRemote
  <2>3. SamePromise(RemoteDescriptionSet(session), session')
    BY <2>1, <2>2, FlushFacts
  <2>. QED  BY <2>1, <2>3 DEF Outcome, SamePromise
<1>6. ASSUME NEW k \in Coros, ResumeFlush(k)  PROVE Outcome
  <2>1. FlushFrom(k, session, coros[k].i)
    BY <1>6 DEF ResumeFlush
  <2>. QED  BY <2>1, FlushFacts DEF Outcome
<1>7. ASSUME NEW k \in Coros, ResumeSetLocal(k)  PROVE Outcome
  <2>1. coros[k].run \in Http /\ session.state = "IDLE"
    BY <1>7 DEF ResumeSetLocal, HttpInv, EntryRunsAlone, CorosOfHttp
  <2>2. session' \in {OfferResumed(session), AnswerResumed(session)}
    BY <1>7, <2>1 DEF ResumeSetLocal, Http
  <2>. QED  BY <2>1, <2>2, EntryFacts DEF Outcome, SameCallbacks
<1>8. ASSUME NEW k \in Coros, Raise(k)  PROVE Outcome
  <2>1. PICK err \in {FAILED_TO_CREATE_ANSWER, GENERIC_FAILURE} : session' = Close(session, err)
    BY <1>8 DEF Raise, Http, Lan
  <2>2. err \in Int /\ Diagram!Allowed(err)
    BY DEF Diagram!Allowed, FAILED_TO_CREATE_ANSWER, GENERIC_FAILURE
  <2>. QED  BY <1>1, <2>1, <2>2
<1>9. ASSUME NEW err \in Errors, session' = Close(session, err)  PROVE Outcome
  <2>1. err \in Int
    BY SessionAssumption
  <2>. QED  BY <1>1, <1>9, <2>1
<1>10. ASSUME session.timeout # NoTimer, session' = TimeoutExpires(session)  PROVE Outcome
  <2>1. session.timeout \in Int /\ Diagram!Allowed(session.timeout)
    BY <1>10 DEF RecordOK, TimerOK, Sessions, SessionState, NoTimer,
                 WAITING_FOR_RESPONSE, WAITING_FOR_ACCEPT, Diagram!Allowed
  <2>. QED  BY <1>1, <1>10, <2>1 DEF TimeoutExpires
<1>11. ASSUME NEW r \in BOOLEAN, Negotiated(session), session' = HandleChannelOpen(session, r)
       PROVE  Outcome
  <2>1. CASE SamePromise(session, session')
    BY <2>1 DEF Outcome
  <2>2. CASE /\ session.state \notin {"CONNECTED", "CLOSED"} /\ session'.state = "CONNECTED"
             /\ session'.opens = session.opens + 1
             /\ session'.error = session.error /\ session'.closes = session.closes
    BY <1>2, <1>11, <2>2 DEF Outcome
  <2>. QED  BY <1>11, <2>1, <2>2, ChannelFacts
<1>12. ASSUME session.state = "CONNECTED", Closes(session, session', DATA_CHANNEL_CLOSED)
       PROVE  Outcome
  <2>1. DATA_CHANNEL_CLOSED \in Int /\ Diagram!Allowed(DATA_CHANNEL_CLOSED)
    BY <1>12 DEF DATA_CHANNEL_CLOSED, Diagram!Allowed
  <2>. QED  BY <1>12, <2>1 DEF Outcome
<1>13. ASSUME Negotiated(session), session.state # "CONNECTED", Closes(session, session', ICE)
       PROVE  Outcome
  <2>1. session.state \in {"NEGOTIATING", "ANSWER_SENT"}
    BY <1>2, <1>13 DEF Closes
  <2>2. ICE \in Int /\ Diagram!Allowed(ICE)
    BY <2>1 DEF ICE, Diagram!Allowed
  <2>. QED  BY <1>13, <2>2 DEF Outcome
<1>14. ASSUME Negotiated(session), session' = PcChanges(session, "failed")  PROVE Outcome
  <2>1. CASE SamePromise(session, session')
    BY <2>1 DEF Outcome
  <2>. QED  BY <1>12, <1>13, <1>14, <2>1, PcFacts
<1>15. ASSUME session' = PcChanges(session, "closed")  PROVE Outcome
  <2>1. CASE SamePromise(session, session')
    BY <2>1 DEF Outcome
  <2>. QED  BY <1>12, <1>15, <2>1, ClosedFacts
<1>. QED
    BY <1>3, <1>4, <1>5, <1>6, <1>7, <1>8, <1>9, <1>10, <1>11, <1>14, <1>15 DEF HttpStep

-----------------------------------------------------------------------------
(* SPEC.md 9.1 and 9.2 for HTTP sessions: nothing leaves CLOSED.  The guards  *)
(* of Session.offer and answer need no second look at the state, because      *)
(* connect_http and HttpServer._answer_offer close only between their awaits. *)
THEOREM HttpClosedIsFinal == ASSUME HttpOnly PROVE Spec => ClosedIsFinal
<1>1. Inv /\ [Next]_vars =>
        [session.state = "CLOSED" => session'.state = "CLOSED"]_vars
  <2>. SUFFICES ASSUME Outcome, session.state = "CLOSED"
                PROVE  session'.state = "CLOSED"
    BY HttpOutcome
  <2>. QED  BY DEF Outcome, SamePromise, Closes
<1>. QED  BY <1>1, HttpInvariant, PTL DEF Spec, ClosedIsFinal

(* An HTTP session implements the negotiation diagrams with their callbacks   *)
(* and error codes, provided its owner closes it with codes of its own.       *)
THEOREM HttpFollowsDiagram ==
    ASSUME HttpOnly, OwnersUseOtherCodes PROVE Spec => FollowsDiagram
<1>1. Init => Diagram!Init
    BY DEF Init, NewSession, NONE, Diagram!Init
<1>2. Inv /\ [Next]_vars => [Diagram!Next]_(Diagram!vars)
  <2>. SUFFICES ASSUME Inv, Outcome PROVE [Diagram!Next]_(Diagram!vars)
    BY HttpOutcome
  <2>1. CASE SamePromise(session, session')
    BY <2>1 DEF SamePromise, Diagram!vars
  <2>2. ASSUME NEW err \in Int, Closes(session, session', err),
               err \in Errors \/ Diagram!Allowed(err)
        PROVE  Diagram!Closed
    <3>1. Diagram!Allowed(err)
      BY <2>2 DEF OwnersUseOtherCodes, OwnCodes, ICE, WAITING_FOR_RESPONSE,
                  WAITING_FOR_ACCEPT, DATA_CHANNEL_CLOSED, Diagram!Allowed
    <3>. QED  BY <2>2, <3>1 DEF Closes, Diagram!Closed
  <2>. QED  BY <2>1, <2>2 DEF Outcome, SameCallbacks, Diagram!Next, Diagram!Offer,
                              Diagram!Answered, Diagram!Connected
<1>. QED  BY <1>1, <1>2, HttpInvariant, PTL DEF Spec, FollowsDiagram, Diagram!Spec

(* An application whose on_open was called is never told that its HTTP        *)
(* negotiation timed out or that ICE failed (_handle_connection_state picks   *)
(* the code by the state, and the timer is gone by then).                     *)
THEOREM HttpOpenedNeverTimesOut ==
    ASSUME HttpOnly, OwnersUseOtherCodes PROVE Spec => []OpenedNeverTimesOut
<1>1. Init => OpenedNeverTimesOut
    BY DEF Init, NewSession, OpenedNeverTimesOut
<1>2. Inv /\ OpenedNeverTimesOut /\ [Next]_vars => OpenedNeverTimesOut'
  <2>. SUFFICES ASSUME Inv, OpenedNeverTimesOut, Outcome PROVE OpenedNeverTimesOut'
    BY HttpOutcome
  <2>1. ASSUME NEW err \in Int, Closes(session, session', err),
               err \in Errors \/ Diagram!Allowed(err)
        PROVE  OpenedNeverTimesOut'
    BY <2>1 DEF Inv, HttpInv, Descriptions, Closes, OpenedNeverTimesOut, Diagram!Allowed,
                OwnersUseOtherCodes, OwnCodes, ICE, WAITING_FOR_RESPONSE, WAITING_FOR_ACCEPT
  <2>2. CASE SamePromise(session, session')
    BY <2>2 DEF SamePromise, OpenedNeverTimesOut
  <2>. QED  BY <2>1, <2>2 DEF Outcome, OpenedNeverTimesOut
<1>. QED  BY <1>1, <1>2, HttpInvariant, PTL DEF Spec
=============================================================================
