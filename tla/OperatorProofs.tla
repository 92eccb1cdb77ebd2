--------------------------- MODULE OperatorProofs ---------------------------
(***************************************************************************)
(* Facts about the operators that the component modules share: the methods *)
(* of Session and PeerConnection on a session record (SessionOps), texts   *)
(* as sequences of lines or digits, the ids of NetworkId, the SDP          *)
(* rewriting of Sdp and the assertions of Identity.                        *)
(***************************************************************************)
EXTENDS SessionOps, Identity, NetworkId, SequenceTheorems, WellFoundedInduction, TLAPS

-----------------------------------------------------------------------------
(* Types of the operators on session records. *)

(* Session._cancel_timeout and close return a session whatever the error. *)
LEMMA CloseType ==
    ASSUME NEW s \in Sessions, NEW err \in Int
    PROVE  CancelTimeout(s) \in Sessions /\ Close(s, err) \in Sessions
<1>1. CancelTimeout(s) \in Sessions
    BY DEF CancelTimeout, Sessions, NoTimer
<1>2. ASSUME NEW t \in Sessions, NEW n \in Nat
      PROVE  [t EXCEPT !.state = "CLOSED", !.error = err, !.closes = n] \in Sessions
    BY DEF Sessions, SessionState
<1>3. CancelTimeout(s).closes + 1 \in Nat
    BY <1>1 DEF Sessions
<1>4. Close(s, err) \in Sessions
    BY <1>1, <1>2, <1>3 DEF Close
<1>. QED  BY <1>1, <1>4

(* The entry points of Session, resumed after their last await. *)
LEMMA EntryType ==
    ASSUME NEW s \in Sessions
    PROVE  /\ StartResumed(s) \in Sessions /\ OfferResumed(s) \in Sessions
           /\ RequestResumed(s) \in Sessions /\ AnswerResumed(s) \in Sessions
           /\ ResponseReceived(s) \in Sessions
<1>1. StartResumed(s) \in Sessions
  <2>1. s.sent \o <<"CONNECTREQUEST", "CANDIDATEADD">> \in Seq(MessageKinds)
    BY DEF Sessions, MessageKinds
  <2>. QED  BY <2>1 DEF StartResumed, ArmTimeout, Sessions, SessionState, WAITING_FOR_RESPONSE
<1>2. RequestResumed(s) \in Sessions
  <2>1. s.sent \o <<"CONNECTRESPONSE", "CANDIDATEADD">> \in Seq(MessageKinds)
    BY DEF Sessions, MessageKinds
  <2>. QED  BY <2>1 DEF RequestResumed, ArmTimeout, Sessions, SessionState, WAITING_FOR_ACCEPT
<1>3. OfferResumed(s) \in Sessions /\ AnswerResumed(s) \in Sessions
    BY DEF OfferResumed, AnswerResumed, ArmTimeout, Sessions, SessionState,
           WAITING_FOR_RESPONSE, WAITING_FOR_ACCEPT
<1>4. ResponseReceived(s) \in Sessions
    BY DEF ResponseReceived, ArmTimeout, Sessions, SessionState, WAITING_FOR_ACCEPT
<1>. QED  BY <1>1, <1>2, <1>3, <1>4

(* Buffering and flushing of remote candidates. *)
LEMMA CandidateType ==
    ASSUME NEW s \in Sessions
    PROVE  /\ \A c \in Candidates : AddRemoteCandidate(s, c) \in Sessions
           /\ \A i \in Nat : i < Len(s.pending) => FlushOne(s, i) \in Sessions
           /\ FlushDone(s) \in Sessions /\ RemoteDescriptionSet(s) \in Sessions
<1>1. ASSUME NEW c \in Candidates  PROVE AddRemoteCandidate(s, c) \in Sessions
  <2>1. Append(s.pending, c) \in Seq(Candidates) /\ s.added \cup {c} \in SUBSET Candidates
    BY DEF Sessions
  <2>. QED  BY <2>1 DEF AddRemoteCandidate, Sessions
<1>2. ASSUME NEW i \in Nat, i < Len(s.pending)  PROVE FlushOne(s, i) \in Sessions
  <2>1. s.pending[i + 1] \in Candidates
    BY <1>2 DEF Sessions
  <2>2. s.added \cup {s.pending[i + 1]} \in SUBSET Candidates
    BY <2>1 DEF Sessions
  <2>. QED  BY <2>2 DEF FlushOne, Sessions
<1>3. FlushDone(s) \in Sessions
  <2>1. <<>> \in Seq(Candidates)
    OBVIOUS
  <2>. QED  BY <2>1 DEF FlushDone, Sessions
<1>4. RemoteDescriptionSet(s) \in Sessions
    BY DEF RemoteDescriptionSet, Sessions
<1>. QED  BY <1>1, <1>2, <1>3, <1>4

(* The callbacks of the peer connection. *)
LEMMA CallbackType ==
    ASSUME NEW s \in Sessions
    PROVE  /\ HandleChannelsOpen(s) \in Sessions
           /\ \A r \in BOOLEAN : HandleChannelOpen(s, r) \in Sessions
           /\ \A st \in {"failed", "closed"} : PcChanges(s, st) \in Sessions
<1>1. ASSUME NEW t \in Sessions  PROVE HandleChannelsOpen(t) \in Sessions
  <2>1. CancelTimeout(t) \in Sessions
    BY CloseType DEF NONE
  <2>2. ASSUME NEW u \in Sessions, NEW n \in Nat
        PROVE  [u EXCEPT !.state = "CONNECTED", !.opens = n] \in Sessions
    BY DEF Sessions, SessionState
  <2>3. CancelTimeout(t).opens + 1 \in Nat
    BY <2>1 DEF Sessions
  <2>. QED  BY <2>1, <2>2, <2>3 DEF HandleChannelsOpen
<1>2. ASSUME NEW t \in Sessions  PROVE FireChannelsOpen(t) \in Sessions
  <2>1. [t EXCEPT !.channels_open_fired = TRUE] \in Sessions
    BY DEF Sessions
  <2>. QED  BY <1>1, <2>1 DEF FireChannelsOpen
<1>3. ASSUME NEW r \in BOOLEAN  PROVE HandleChannelOpen(s, r) \in Sessions
  <2>1. /\ [s EXCEPT !.reliable_open = TRUE] \in Sessions
        /\ [s EXCEPT !.unreliable_open = TRUE] \in Sessions
    BY DEF Sessions
  <2>. QED  BY <1>2, <2>1 DEF HandleChannelOpen
<1>4. ASSUME NEW st \in {"failed", "closed"}  PROVE PcChanges(s, st) \in Sessions
  <2>1. [s EXCEPT !.pc = st] \in Sessions
    BY DEF Sessions
  <2>2. DATA_CHANNEL_CLOSED \in Int /\ ICE \in Int
    BY DEF DATA_CHANNEL_CLOSED, ICE
  <2>. QED  BY <2>1, <2>2, CloseType DEF PcChanges, HandleConnectionState
<1>. QED  BY <1>1, <1>3, <1>4

-----------------------------------------------------------------------------
(* What one method may do to a session. *)

(* A session never changes its role; it becomes CLOSED only together with a   *)
(* call of on_close, and its peer connection closes only after one.           *)
Succeeds(s, t) ==
    /\ t \in Sessions /\ t.is_dialer = s.is_dialer /\ t.closes >= s.closes
    /\ t.state = "CLOSED" => s.state = "CLOSED" \/ t.closes > s.closes
    /\ t.pc = "closed" => s.pc = "closed" \/ s.closes > 0

LEMMA SucceedsItself ==
    ASSUME NEW s \in Sessions
    PROVE  Succeeds(s, s)
BY DEF Succeeds, Sessions

LEMMA SucceedsTransitive ==
    ASSUME NEW s \in Sessions, NEW t, NEW u, Succeeds(s, t), Succeeds(t, u),
           u.pc = "closed" => t.pc = "closed"
    PROVE  Succeeds(s, u)
<1>1. s.closes \in Nat /\ t.closes \in Nat /\ u.closes \in Nat
  BY DEF Succeeds, Sessions
<1>. QED  BY <1>1 DEF Succeeds

(* close reports once; on a closed session it does nothing. *)
LEMMA CloseSucceeds ==
    ASSUME NEW s \in Sessions, NEW err \in Int
    PROVE  /\ Succeeds(s, Close(s, err))
           /\ Close(s, err).state = "CLOSED" /\ Close(s, err).remote_set = s.remote_set
<1>1. Close(s, err) \in Sessions
  BY CloseType
<1>2. CASE s.state = "CLOSED"
  BY <1>2, SucceedsItself DEF Close
<1>3. CASE s.state # "CLOSED"
  <2>. DEFINE t == Close(s, err)
  <2>1. /\ t.is_dialer = s.is_dialer /\ t.closes = s.closes + 1 /\ t.pc = s.pc
        /\ t.state = "CLOSED" /\ t.remote_set = s.remote_set
    BY <1>3 DEF Close, CancelTimeout, Sessions
  <2>2. s.closes \in Nat
    BY DEF Sessions
  <2>. HIDE DEF t
  <2>. QED  BY <1>1, <2>1, <2>2 DEF Succeeds, t
<1>. QED  BY <1>2, <1>3

(* The methods that neither close the session nor report anything. *)
LEMMA QuietSucceeds ==
    ASSUME NEW s \in Sessions, NEW t \in Sessions, t.is_dialer = s.is_dialer,
           t.closes = s.closes, t.pc = s.pc, t.state = "CLOSED" => s.state = "CLOSED"
    PROVE  Succeeds(s, t)
BY DEF Succeeds, Sessions

LEMMA EntrySucceeds ==
    ASSUME NEW s \in Sessions
    PROVE  /\ Succeeds(s, StartResumed(s)) /\ Succeeds(s, RequestResumed(s))
           /\ Succeeds(s, ResponseReceived(s))
           /\ StartResumed(s).pc = s.pc /\ RequestResumed(s).pc = s.pc
           /\ StartResumed(s).state # "CLOSED" /\ RequestResumed(s).state # "CLOSED"
<1>1. ASSUME NEW t \in {StartResumed(s), RequestResumed(s), ResponseReceived(s)}
      PROVE  t.is_dialer = s.is_dialer /\ t.closes = s.closes /\ t.pc = s.pc /\ t.state # "CLOSED"
  <2>1. CASE t = StartResumed(s)
    BY <2>1 DEF StartResumed, ArmTimeout, Sessions
  <2>2. CASE t = RequestResumed(s)
    BY <2>2 DEF RequestResumed, ArmTimeout, Sessions
  <2>3. CASE t = ResponseReceived(s)
    BY <2>3 DEF ResponseReceived, ArmTimeout, Sessions
  <2>. QED  BY <2>1, <2>2, <2>3
<1>. QED  BY <1>1, EntryType, QuietSucceeds

LEMMA CandidateSucceeds ==
    ASSUME NEW s \in Sessions
    PROVE  /\ \A c \in Candidates : /\ Succeeds(s, AddRemoteCandidate(s, c))
                                    /\ AddRemoteCandidate(s, c).pc = s.pc
                                    /\ AddRemoteCandidate(s, c).state = s.state
                                    /\ AddRemoteCandidate(s, c).remote_set = s.remote_set
           /\ \A i \in Nat : i < Len(s.pending) => /\ Succeeds(s, FlushOne(s, i))
                                                   /\ FlushOne(s, i).pc = s.pc
           /\ Succeeds(s, FlushDone(s)) /\ FlushDone(s).pc = s.pc
           /\ Succeeds(s, RemoteDescriptionSet(s))
<1>1. ASSUME NEW c \in Candidates
      PROVE  LET t == AddRemoteCandidate(s, c)
             IN  /\ t.is_dialer = s.is_dialer /\ t.closes = s.closes /\ t.pc = s.pc
                 /\ t.state = s.state /\ t.remote_set = s.remote_set
  BY DEF AddRemoteCandidate, Sessions
<1>2. ASSUME NEW i
      PROVE  LET t == FlushOne(s, i)
             IN  /\ t.is_dialer = s.is_dialer /\ t.closes = s.closes /\ t.pc = s.pc
                 /\ t.state = s.state
  BY DEF FlushOne, Sessions
<1>3. LET t == FlushDone(s)
      IN  /\ t.is_dialer = s.is_dialer /\ t.closes = s.closes /\ t.pc = s.pc
          /\ t.state = s.state
  BY DEF FlushDone, Sessions
<1>4. LET t == RemoteDescriptionSet(s)
      IN  /\ t.is_dialer = s.is_dialer /\ t.closes = s.closes /\ t.pc = s.pc
          /\ t.state = s.state
  BY DEF RemoteDescriptionSet, Sessions
<1>. QED  BY <1>1, <1>2, <1>3, <1>4, CandidateType, QuietSucceeds

LEMMA ChannelSucceeds ==
    ASSUME NEW s \in Sessions, NEW r \in BOOLEAN
    PROVE  Succeeds(s, HandleChannelOpen(s, r)) /\ HandleChannelOpen(s, r).pc = s.pc
<1>1. ASSUME NEW u \in Sessions
      PROVE  LET t == HandleChannelsOpen(u)
             IN  /\ t.is_dialer = u.is_dialer /\ t.closes = u.closes /\ t.pc = u.pc
                 /\ t.state = "CLOSED" => u.state = "CLOSED"
  BY DEF HandleChannelsOpen, CancelTimeout, Sessions
<1>2. ASSUME NEW u \in Sessions
      PROVE  LET t == FireChannelsOpen(u)
             IN  /\ t.is_dialer = u.is_dialer /\ t.closes = u.closes /\ t.pc = u.pc
                 /\ t.state = "CLOSED" => u.state = "CLOSED"
  <2>. DEFINE v == [u EXCEPT !.channels_open_fired = TRUE]
  <2>1. /\ v \in Sessions /\ v.is_dialer = u.is_dialer /\ v.closes = u.closes /\ v.pc = u.pc
        /\ v.state = u.state
    BY DEF Sessions
  <2>2. FireChannelsOpen(u) = HandleChannelsOpen(v) \/ FireChannelsOpen(u) = u
    BY DEF FireChannelsOpen
  <2>. HIDE DEF v
  <2>. QED  BY <1>1, <2>1, <2>2
<1>3. LET t == HandleChannelOpen(s, r)
      IN  /\ t.is_dialer = s.is_dialer /\ t.closes = s.closes /\ t.pc = s.pc
          /\ t.state = "CLOSED" => s.state = "CLOSED"
  <2>. DEFINE v == [s EXCEPT !.reliable_open = TRUE]
              w == [s EXCEPT !.unreliable_open = TRUE]
  <2>1. /\ v \in Sessions /\ v.is_dialer = s.is_dialer /\ v.closes = s.closes /\ v.pc = s.pc
        /\ v.state = s.state
    BY DEF Sessions
  <2>2. /\ w \in Sessions /\ w.is_dialer = s.is_dialer /\ w.closes = s.closes /\ w.pc = s.pc
        /\ w.state = s.state
    BY DEF Sessions
  <2>3. HandleChannelOpen(s, r) \in {s, FireChannelsOpen(v), FireChannelsOpen(w)}
    BY DEF HandleChannelOpen
  <2>. HIDE DEF v, w
  <2>. QED  BY <1>2, <2>1, <2>2, <2>3
<1>. QED  BY <1>3, CallbackType, QuietSucceeds

LEMMA PcSucceeds ==
    ASSUME NEW s \in Sessions, NEW st \in {"failed", "closed"}, st = "closed" => s.closes > 0
    PROVE  /\ Succeeds(s, PcChanges(s, st)) /\ PcChanges(s, st).remote_set = s.remote_set
           /\ s.state = "IDLE" => PcChanges(s, st).state \in {"IDLE", "CLOSED"}
           /\ s.state = "CLOSED" => PcChanges(s, st).state = "CLOSED"
<1>. DEFINE u == [s EXCEPT !.pc = st]
<1>1. /\ u \in Sessions /\ u.is_dialer = s.is_dialer /\ u.closes = s.closes /\ u.pc = st
      /\ u.state = s.state /\ u.remote_set = s.remote_set
  BY DEF Sessions
<1>2. DATA_CHANNEL_CLOSED \in Int /\ ICE \in Int
  BY DEF DATA_CHANNEL_CLOSED, ICE
<1>3. PcChanges(s, st) = HandleConnectionState(u, st)
  BY DEF PcChanges
<1>. HIDE DEF u
<1>4. \/ PcChanges(s, st) = u \/ PcChanges(s, st) = Close(u, DATA_CHANNEL_CLOSED)
      \/ PcChanges(s, st) = Close(u, ICE)
  BY <1>3 DEF HandleConnectionState
<1>5. Succeeds(s, u)
  BY <1>1 DEF Succeeds, Sessions
<1>6. ASSUME NEW err \in Int
      PROVE  /\ Close(u, err).pc = u.pc /\ Succeeds(u, Close(u, err))
             /\ Close(u, err).state = "CLOSED" /\ Close(u, err).remote_set = u.remote_set
  <2>1. Close(u, err).pc = u.pc
    BY <1>1 DEF Close, CancelTimeout, Sessions
  <2>. QED  BY <1>1, <2>1, CloseSucceeds
<1>7. CASE PcChanges(s, st) = u
  BY <1>1, <1>5, <1>7
<1>8. ASSUME NEW err \in Int, PcChanges(s, st) = Close(u, err)
      PROVE  /\ Succeeds(s, PcChanges(s, st)) /\ PcChanges(s, st).remote_set = s.remote_set
             /\ PcChanges(s, st).state = "CLOSED"
  BY <1>1, <1>5, <1>6, <1>8, SucceedsTransitive
<1>. QED  BY <1>2, <1>4, <1>7, <1>8

-----------------------------------------------------------------------------
(* The negotiation timer and the two data channels of a record. *)

(* What the flush of the buffered candidates makes of a session. *)
Flushes(s, t) == t = FlushDone(s) \/ \E i \in Nat : t = FlushOne(s, i)

(* TimerGuardsWait and ConnectedOnBothChannels, of a record. *)
TimerOK(s) ==
    /\ s.state = "OFFER_SENT" => s.timeout = WAITING_FOR_RESPONSE
    /\ s.state \in {"ANSWER_SENT", "NEGOTIATING"} => s.timeout = WAITING_FOR_ACCEPT
    /\ s.state \in {"IDLE", "CONNECTED", "CLOSED"} => s.timeout = NoTimer

(* on_open was called only if on_channels_open fired, which it does once,     *)
(* with both channels open: what makes the second conjunct inductive.         *)
ChannelsOK(s) ==
    /\ s.channels_open_fired => s.reliable_open /\ s.unreliable_open
    /\ ~s.channels_open_fired => s.opens = 0
    /\ s.opens \in {0, 1}
    /\ s.state = "CONNECTED" => s.opens = 1

RecordOK(s) == TimerOK(s) /\ ChannelsOK(s)

(* Session.close keeps the record in order. *)
LEMMA CloseOK ==
    ASSUME NEW s \in Sessions, RecordOK(s), NEW err \in Int
    PROVE  RecordOK(Close(s, err))
BY DEF RecordOK, TimerOK, ChannelsOK, Close, CancelTimeout, Sessions, SessionState

(* The entry points of a session arm the timer of the state they enter. *)
LEMMA EntryOK ==
    ASSUME NEW s \in Sessions, RecordOK(s)
    PROVE  /\ RecordOK(StartResumed(s)) /\ RecordOK(OfferResumed(s))
           /\ RecordOK(RequestResumed(s)) /\ RecordOK(AnswerResumed(s))
           /\ RecordOK(ResponseReceived(s))
BY DEF RecordOK, TimerOK, ChannelsOK, StartResumed, OfferResumed, RequestResumed,
       AnswerResumed, ResponseReceived, ArmTimeout, Sessions, SessionState

(* Candidates touch neither the timer nor the channels. *)
LEMMA CandidateOK ==
    ASSUME NEW s \in Sessions, RecordOK(s)
    PROVE  /\ \A c \in Candidates : RecordOK(AddRemoteCandidate(s, c))
           /\ RecordOK(RemoteDescriptionSet(s))
           /\ \A t : Flushes(s, t) => RecordOK(t)
BY DEF RecordOK, TimerOK, ChannelsOK, AddRemoteCandidate, RemoteDescriptionSet, Flushes,
       FlushOne, FlushDone, Sessions

(* The second channel to open fires on_open, and no channel does so again. *)
LEMMA ChannelOK ==
    ASSUME NEW s \in Sessions, RecordOK(s), NEW r \in BOOLEAN
    PROVE  RecordOK(HandleChannelOpen(s, r))
<1>1. ASSUME NEW t \in Sessions, RecordOK(t)  PROVE RecordOK(FireChannelsOpen(t))
    BY <1>1 DEF RecordOK, TimerOK, ChannelsOK, FireChannelsOpen, BothOpen,
                HandleChannelsOpen, CancelTimeout, Sessions, SessionState
<1>2. /\ [s EXCEPT !.reliable_open = TRUE] \in Sessions
      /\ [s EXCEPT !.unreliable_open = TRUE] \in Sessions
    BY DEF Sessions
<1>3. /\ RecordOK([s EXCEPT !.reliable_open = TRUE])
      /\ RecordOK([s EXCEPT !.unreliable_open = TRUE])
    BY DEF RecordOK, TimerOK, ChannelsOK, Sessions
<1>. QED  BY <1>1, <1>2, <1>3 DEF HandleChannelOpen

(* A change of the connection state closes the session or leaves it alone. *)
LEMMA PcOK ==
    ASSUME NEW s \in Sessions, RecordOK(s), NEW st \in {"failed", "closed"}
    PROVE  RecordOK(PcChanges(s, st))
<1>1. [s EXCEPT !.pc = st] \in Sessions
    BY DEF Sessions
<1>2. RecordOK([s EXCEPT !.pc = st])
    BY DEF RecordOK, TimerOK, ChannelsOK, Sessions
<1>3. DATA_CHANNEL_CLOSED \in Int /\ ICE \in Int
    BY DEF DATA_CHANNEL_CLOSED, ICE
<1>. QED  BY <1>1, <1>2, <1>3, CloseOK DEF PcChanges, HandleConnectionState

-----------------------------------------------------------------------------
(* Induction over the naturals, with a set in the place of the predicate. *)
LEMMA SetInduction ==
    ASSUME NEW S, 0 \in S, \A n \in Nat : n \in S => n + 1 \in S
    PROVE  Nat \subseteq S
<1>. SUFFICES ASSUME ~(Nat \subseteq S) PROVE FALSE
  OBVIOUS
<1>1. IsWellFoundedOn(OpToRel(<, Nat), Nat)
  BY NatLessThanWellFounded
<1>. DEFINE T == Nat \ S
<1>2. PICK x \in T : \A y \in T : <<y, x>> \notin OpToRel(<, Nat)
  <2>1. T \subseteq Nat /\ T # {}
    OBVIOUS
  <2>. HIDE DEF T
  <2>. QED  BY <1>1, <2>1, WFMin
<1>3. \A y \in T : ~(y < x)
  BY <1>2 DEF OpToRel
<1>. QED  BY <1>3

-----------------------------------------------------------------------------
(* FlattenSeq. *)

(* f[k] is the concatenation of the first k elements of p. *)
Joins(p, N, f) == f[0] = <<>> /\ \A k \in 1..N : f[k] = f[k - 1] \o p[k]

(* The function that FlattenSeq defines by recursion. *)
IsFlatten(p, N, f) == f = [i \in 1..N |-> IF i = 1 THEN p[i] ELSE f[i - 1] \o p[i]]

LEMMA FlattenExists ==
    ASSUME NEW p, NEW N \in Nat
    PROVE  \E f : IsFlatten(p, N, f)
<1>. DEFINE S == {n \in Nat : \E f : IsFlatten(p, n, f)}
<1>1. 0 \in S
  <2>1. <<>> = [i \in 1..0 |-> IF i = 1 THEN p[i] ELSE <<>>[i - 1] \o p[i]]
    OBVIOUS
  <2>. QED  BY <2>1 DEF IsFlatten
<1>2. ASSUME NEW n \in Nat, n \in S PROVE n + 1 \in S
  <2>1. PICK f : IsFlatten(p, n, f)
    BY <1>2
  <2>. DEFINE g == [m \in 1..n+1 |-> IF m = n + 1 THEN IF m = 1 THEN p[m] ELSE f[n] \o p[m]
                                     ELSE f[m]]
  <2>2. \A m \in 1..n+1 : g[m] = IF m = 1 THEN p[m] ELSE g[m - 1] \o p[m]
    <3>0. \A m \in 1..n : f[m] = IF m = 1 THEN p[m] ELSE f[m - 1] \o p[m]
      BY <2>1 DEF IsFlatten
    <3>. TAKE m \in 1..n+1
    <3>1. CASE m = 1
      BY <3>0, <3>1
    <3>2. CASE m # 1
      <4>1. m - 1 \in 1..n /\ m - 1 # n + 1 /\ m - 1 \in 1..n+1
        BY <3>2
      <4>2. g[m - 1] = f[m - 1]
        BY <4>1
      <4>3. CASE m = n + 1
        <5>1. m - 1 = n
          BY <4>3
        <5>. QED  BY <3>2, <4>2, <4>3, <5>1
      <4>4. CASE m # n + 1
        <5>1. m \in 1..n
          BY <4>4
        <5>. QED  BY <3>0, <3>2, <4>2, <4>4, <5>1
      <4>. QED  BY <4>3, <4>4
    <3>. QED  BY <3>1, <3>2
  <2>3. g = [m \in 1..n+1 |-> IF m = 1 THEN p[m] ELSE g[m - 1] \o p[m]]
    BY <2>2
  <2>4. IsFlatten(p, n + 1, g)
    BY <2>3 DEF IsFlatten
  <2>. HIDE DEF g
  <2>. QED  BY <2>4
<1>. HIDE DEF S
<1>3. Nat \subseteq S
  BY <1>1, <1>2, SetInduction
<1>. QED  BY <1>3 DEF S

(* FlattenSeq joins its elements one after the other. *)
LEMMA FlattenJoins ==
    ASSUME NEW T, NEW p \in Seq(Seq(T))
    PROVE  \E f \in [0..Len(p) -> Seq(T)] : Joins(p, Len(p), f) /\ FlattenSeq(p) = f[Len(p)]
<1>. DEFINE N == Len(p)
            g == CHOOSE f : IsFlatten(p, N, f)
            f == [k \in 0..N |-> IF k = 0 THEN <<>> ELSE g[k]]
<1>0. N \in Nat /\ \A k \in 1..N : p[k] \in Seq(T)
  OBVIOUS
<1>1. IsFlatten(p, N, g)
  BY <1>0, FlattenExists, Zenon
<1>2. N # 0 => FlattenSeq(p) = g[N]
  BY DEF FlattenSeq, IsFlatten
<1>3. N = 0 => FlattenSeq(p) = <<>>
  BY DEF FlattenSeq
<1>. HIDE DEF N, g
<1>4. \A k \in 1..N : g[k] = IF k = 1 THEN p[k] ELSE g[k - 1] \o p[k]
  BY <1>1 DEF IsFlatten
<1>5. <<>> \in Seq(T) /\ \A s \in Seq(T) : <<>> \o s = s
  BY EmptySeq, ConcatEmptySeq
<1>6. \A k \in 1..N : f[k] = f[k - 1] \o p[k]
  <2>. TAKE k \in 1..N
  <2>1. CASE k = 1
    BY <1>0, <1>4, <1>5, <2>1
  <2>2. CASE k # 1
    <3>1. k - 1 \in 0..N /\ k - 1 # 0
      BY <1>0, <2>2
    <3>2. f[k] = g[k] /\ f[k - 1] = g[k - 1]
      BY <1>0, <3>1
    <3>. QED  BY <1>4, <2>2, <3>2
  <2>. QED  BY <2>1, <2>2
<1>7. f[0] = <<>>
  BY <1>0
<1>8. FlattenSeq(p) = f[N]
  BY <1>0, <1>2, <1>3
<1>9. f \in [0..N -> Seq(T)]
  <2>. DEFINE S == {k \in Nat : k <= N => f[k] \in Seq(T)}
  <2>1. 0 \in S
    BY <1>5, <1>7
  <2>2. ASSUME NEW k \in Nat, k \in S PROVE k + 1 \in S
    <3>. SUFFICES ASSUME k + 1 <= N PROVE f[k + 1] \in Seq(T)
      OBVIOUS
    <3>1. f[k] \in Seq(T) /\ k + 1 \in 1..N /\ (k + 1) - 1 = k
      BY <1>0, <2>2
    <3>2. f[k + 1] = f[k] \o p[k + 1] /\ p[k + 1] \in Seq(T)
      BY <1>0, <1>6, <3>1
    <3>. HIDE DEF f
    <3>. QED  BY <3>1, <3>2, ConcatProperties
  <2>3. Nat \subseteq S
    <3>. HIDE DEF S
    <3>. QED  BY <2>1, <2>2, SetInduction
  <2>4. \A k \in 0..N : f[k] \in Seq(T)
    <3>. TAKE k \in 0..N
    <3>1. k \in Nat /\ k <= N
      BY <1>0
    <3>2. k \in S
      <4>. HIDE DEF S
      <4>. QED  BY <2>3, <3>1
    <3>. QED  BY <3>1, <3>2
  <2>. QED  BY <2>4
<1>. HIDE DEF f
<1>. QED  BY <1>6, <1>7, <1>8, <1>9 DEF Joins, N

(* Whatever joins them is FlattenSeq. *)
LEMMA FlattenIs ==
    ASSUME NEW T, NEW p \in Seq(Seq(T)), NEW f, Joins(p, Len(p), f)
    PROVE  FlattenSeq(p) = f[Len(p)] /\ FlattenSeq(p) \in Seq(T)
<1>. DEFINE N == Len(p)
<1>0. N \in Nat
  OBVIOUS
<1>1. PICK g \in [0..N -> Seq(T)] : Joins(p, N, g) /\ FlattenSeq(p) = g[N]
  BY FlattenJoins
<1>2. Joins(p, N, f)
  OBVIOUS
<1>. DEFINE S == {k \in Nat : k <= N => f[k] = g[k]}
<1>. HIDE DEF N
<1>3. 0 \in S
  BY <1>1, <1>2 DEF Joins
<1>4. ASSUME NEW k \in Nat, k \in S PROVE k + 1 \in S
  <2>. SUFFICES ASSUME k + 1 <= N PROVE f[k + 1] = g[k + 1]
    OBVIOUS
  <2>1. f[k] = g[k] /\ k + 1 \in 1..N /\ (k + 1) - 1 = k
    BY <1>0, <1>4
  <2>. QED  BY <1>1, <1>2, <2>1 DEF Joins
<1>5. Nat \subseteq S
  <2>. HIDE DEF S
  <2>. QED  BY <1>3, <1>4, SetInduction
<1>6. f[N] = g[N] /\ g[N] \in Seq(T)
  BY <1>0, <1>1, <1>5
<1>. QED  BY <1>1, <1>6 DEF N

LEMMA FlattenConcat ==
    ASSUME NEW T, NEW p \in Seq(Seq(T)), NEW q \in Seq(Seq(T))
    PROVE  FlattenSeq(p \o q) = FlattenSeq(p) \o FlattenSeq(q)
<1>. DEFINE N == Len(p)
            M == Len(q)
            r == p \o q
<1>1. /\ N \in Nat /\ M \in Nat /\ r \in Seq(Seq(T)) /\ Len(r) = N + M
      /\ \A k \in 1..N : r[k] = p[k]
      /\ \A k \in 1..M : r[N + k] = q[k] /\ q[k] \in Seq(T)
  <2>1. r \in Seq(Seq(T)) /\ Len(r) = N + M
    BY ConcatProperties
  <2>2. \A k \in 1..N : r[k] = p[k]
    BY ConcatProperties
  <2>3. \A k \in 1..M : r[N + k] = q[k] /\ q[k] \in Seq(T)
    BY ConcatProperties
  <2>. QED  BY <2>1, <2>2, <2>3
<1>2. PICK f \in [0..N -> Seq(T)] : Joins(p, N, f) /\ FlattenSeq(p) = f[N]
  BY FlattenJoins
<1>3. PICK g \in [0..M -> Seq(T)] : Joins(q, M, g) /\ FlattenSeq(q) = g[M]
  BY FlattenJoins
<1>. DEFINE h == [k \in 0..(N + M) |-> IF k <= N THEN f[k] ELSE f[N] \o g[k - N]]
<1>. HIDE DEF N, M, r
<1>4. h[0] = <<>>
  BY <1>1, <1>2 DEF Joins
<1>5. ASSUME NEW k \in 1..(N + M) PROVE h[k] = h[k - 1] \o r[k]
  <2>1. CASE k <= N
    <3>1. k \in 1..N /\ k - 1 \in 0..(N + M) /\ k \in 0..(N + M) /\ k - 1 <= N
      BY <1>1, <2>1
    <3>. QED  BY <1>1, <1>2, <2>1, <3>1 DEF Joins
  <2>2. CASE k > N
    <3>. DEFINE j == k - N
    <3>1. j \in 1..M /\ k = N + j /\ j - 1 \in 0..M /\ k \in 0..(N + M) /\ k - 1 \in 0..(N + M)
          /\ (k - 1) - N = j - 1 /\ ~(k <= N) /\ j \in 0..M /\ N \in 0..N
      BY <1>1, <2>2
    <3>2. h[k] = f[N] \o g[j]
      BY <3>1
    <3>3. h[k - 1] = f[N] \o g[j - 1]
      <4>1. CASE j = 1
        <5>1. k - 1 = N /\ j - 1 = 0
          BY <1>1, <3>1, <4>1
        <5>2. h[k - 1] = f[N] /\ g[j - 1] = <<>>
          BY <1>1, <1>3, <5>1 DEF Joins
        <5>3. f[N] \in Seq(T)
          BY <1>2, <3>1
        <5>. QED  BY <5>2, <5>3, ConcatEmptySeq
      <4>2. CASE j # 1
        <5>1. ~(k - 1 <= N)
          BY <1>1, <3>1, <4>2
        <5>. QED  BY <3>1, <5>1
      <4>. QED  BY <4>1, <4>2
    <3>. HIDE DEF j, h
    <3>4. g[j] = g[j - 1] \o q[j] /\ r[k] = q[j] /\ q[j] \in Seq(T)
      BY <1>1, <1>3, <3>1 DEF Joins
    <3>5. f[N] \in Seq(T) /\ g[j - 1] \in Seq(T)
      BY <1>2, <1>3, <3>1
    <3>. DEFINE a == f[N]
                b == g[j - 1]
                c == q[j]
    <3>6. a \in Seq(T) /\ b \in Seq(T) /\ c \in Seq(T)
      BY <3>4, <3>5
    <3>7. h[k] = a \o (b \o c) /\ h[k - 1] \o r[k] = (a \o b) \o c
      BY <3>2, <3>3, <3>4
    <3>. HIDE DEF a, b, c
    <3>8. (a \o b) \o c = a \o (b \o c)
      BY <3>6, ConcatAssociative
    <3>. QED  BY <3>7, <3>8
  <2>3. k <= N \/ k > N
    BY <1>1
  <2>. QED  BY <2>1, <2>2, <2>3
<1>6. h[N + M] = f[N] \o g[M]
  <2>1. CASE M = 0
    <3>1. h[N + M] = f[N] /\ g[M] = <<>> /\ f[N] \in Seq(T)
      BY <1>1, <1>2, <1>3, <2>1 DEF Joins
    <3>. QED  BY <3>1, ConcatEmptySeq
  <2>2. CASE M # 0
    <3>1. ~(N + M <= N) /\ N + M \in 0..(N + M) /\ (N + M) - N = M
      BY <1>1, <2>2
    <3>. QED  BY <3>1
  <2>. QED  BY <2>1, <2>2
<1>. HIDE DEF h
<1>7. Joins(r, Len(r), h)
  BY <1>1, <1>4, <1>5 DEF Joins
<1>8. FlattenSeq(r) = h[N + M]
  BY <1>1, <1>7, FlattenIs
<1>. QED  BY <1>2, <1>3, <1>6, <1>8 DEF r

-----------------------------------------------------------------------------
(* Rewriting line by line: each line l becomes the lines g[l]. *)

Rewrites(g, L) == g \in [L -> Seq(L)]
Parts(s, g) == [i \in DOMAIN s |-> g[s[i]]]
FlatMap(s, g) == FlattenSeq(Parts(s, g))

LEMMA FlatMapParts ==
    ASSUME NEW L, NEW s \in Seq(L), NEW g, Rewrites(g, L)
    PROVE  /\ Parts(s, g) \in Seq(Seq(L)) /\ Len(Parts(s, g)) = Len(s)
           /\ \A i \in 1..Len(s) : Parts(s, g)[i] = g[s[i]] /\ s[i] \in L
<1>. DEFINE p == Parts(s, g)
<1>1. Len(s) \in Nat /\ DOMAIN s = 1..Len(s) /\ \A i \in 1..Len(s) : s[i] \in L
  BY LenProperties
<1>2. p = [i \in 1..Len(s) |-> g[s[i]]]
  BY <1>1 DEF Parts
<1>3. p \in Seq(Seq(L)) /\ Len(p) = Len(s)
  <2>1. \A i \in 1..Len(s) : p[i] \in Seq(L)
    BY <1>1, <1>2 DEF Rewrites
  <2>. HIDE DEF p
  <2>. QED  BY <1>1, <1>2, <2>1, IsASeq
<1>. QED  BY <1>1, <1>2, <1>3

LEMMA FlatMapType ==
    ASSUME NEW L, NEW s \in Seq(L), NEW g, Rewrites(g, L)
    PROVE  FlatMap(s, g) \in Seq(L)
<1>. DEFINE p == Parts(s, g)
<1>1. p \in Seq(Seq(L))
  BY FlatMapParts
<1>. HIDE DEF p
<1>2. PICK f \in [0..Len(p) -> Seq(L)] : FlattenSeq(p) = f[Len(p)]
  BY <1>1, FlattenJoins
<1>3. Len(p) \in 0..Len(p)
  BY <1>1
<1>. QED  BY <1>2, <1>3 DEF p, FlatMap

LEMMA FlatMapConcat ==
    ASSUME NEW L, NEW s \in Seq(L), NEW t \in Seq(L), NEW g, Rewrites(g, L)
    PROVE  FlatMap(s \o t, g) = FlatMap(s, g) \o FlatMap(t, g)
<1>0. \A w \in Seq(L) : /\ Parts(w, g) \in Seq(Seq(L)) /\ Len(Parts(w, g)) = Len(w)
                        /\ \A i \in 1..Len(w) : Parts(w, g)[i] = g[w[i]]
  BY FlatMapParts
<1>. DEFINE u == s \o t
            p == Parts(s, g)
            q == Parts(t, g)
            r == Parts(u, g)
<1>1. /\ u \in Seq(L) /\ Len(u) = Len(s) + Len(t)
      /\ \A i \in 1..Len(u) : u[i] = IF i <= Len(s) THEN s[i] ELSE t[i - Len(s)]
  BY ConcatProperties
<1>2. /\ p \in Seq(Seq(L)) /\ Len(p) = Len(s) /\ \A i \in 1..Len(s) : p[i] = g[s[i]]
      /\ q \in Seq(Seq(L)) /\ Len(q) = Len(t) /\ \A i \in 1..Len(t) : q[i] = g[t[i]]
  <2>1. p \in Seq(Seq(L)) /\ Len(p) = Len(s) /\ \A i \in 1..Len(s) : p[i] = g[s[i]]
    BY <1>0
  <2>2. q \in Seq(Seq(L)) /\ Len(q) = Len(t) /\ \A i \in 1..Len(t) : q[i] = g[t[i]]
    BY <1>0
  <2>. QED  BY <2>1, <2>2
<1>3. r \in Seq(Seq(L)) /\ Len(r) = Len(u) /\ \A i \in 1..Len(u) : r[i] = g[u[i]]
  <2>. HIDE DEF u
  <2>. QED  BY <1>0, <1>1
<1>4. Len(s) \in Nat /\ Len(t) \in Nat
  OBVIOUS
<1>5. FlatMap(u, g) = FlattenSeq(r) /\ FlatMap(s, g) = FlattenSeq(p) /\ FlatMap(t, g) = FlattenSeq(q)
  BY DEF FlatMap
<1>. HIDE DEF u, p, q, r
<1>6. r = p \o q
  <2>. DEFINE v == p \o q
  <2>1. /\ v \in Seq(Seq(L)) /\ Len(v) = Len(p) + Len(q)
        /\ \A i \in 1..Len(v) : v[i] = IF i <= Len(p) THEN p[i] ELSE q[i - Len(p)]
    <3>. DEFINE W == Seq(L)
    <3>1. p \in Seq(W) /\ q \in Seq(W)
      BY <1>2
    <3>. HIDE DEF W
    <3>2. /\ v \in Seq(W) /\ Len(v) = Len(p) + Len(q)
          /\ \A i \in 1..Len(v) : v[i] = IF i <= Len(p) THEN p[i] ELSE q[i - Len(p)]
      BY <3>1, ConcatProperties
    <3>. QED  BY <3>2 DEF W
  <2>. HIDE DEF v
  <2>2. Len(v) = Len(r)
    BY <1>1, <1>2, <1>3, <2>1
  <2>3. ASSUME NEW i \in 1..Len(r) PROVE v[i] = r[i]
    <3>1. r[i] = g[IF i <= Len(s) THEN s[i] ELSE t[i - Len(s)]]
      BY <1>1, <1>3
    <3>2. i <= Len(s) => i \in 1..Len(s)
      BY <1>4
    <3>3. ~(i <= Len(s)) => i - Len(s) \in 1..Len(t)
      BY <1>1, <1>3, <1>4
    <3>. QED  BY <1>2, <2>1, <2>2, <3>1, <3>2, <3>3
  <2>4. v = r
    BY <1>3, <2>1, <2>2, <2>3, SeqEqual
  <2>. QED  BY <2>4 DEF v
<1>7. FlattenSeq(p \o q) = FlattenSeq(p) \o FlattenSeq(q)
  BY <1>2, FlattenConcat
<1>. QED  BY <1>5, <1>6, <1>7 DEF u

LEMMA FlatMapEmpty == \A g : FlatMap(<<>>, g) = <<>>
<1>. TAKE g
<1>1. [i \in DOMAIN <<>> |-> g[<<>>[i]]] = <<>> /\ Len(<<>>) = 0
  OBVIOUS
<1>. QED  BY <1>1 DEF FlatMap, FlattenSeq, Parts

LEMMA FlatMapSingle ==
    ASSUME NEW L, NEW l \in L, NEW g, Rewrites(g, L)
    PROVE  FlatMap(<<l>>, g) = g[l]
<1>1. FlatMap(<<l>>, g) = g[l]
  <2>. DEFINE f == [k \in 0..1 |-> IF k = 0 THEN <<>> ELSE g[l]]
              s == <<l>>
              p == Parts(s, g)
  <2>1. s \in Seq(L) /\ Len(s) = 1 /\ s[1] = l /\ g[l] \in Seq(L)
    BY DEF Rewrites
  <2>. HIDE DEF s
  <2>2. p \in Seq(Seq(L)) /\ Len(p) = 1 /\ p[1] = g[l]
    <3>1. p \in Seq(Seq(L)) /\ Len(p) = Len(s) /\ \A i \in 1..Len(s) : p[i] = g[s[i]]
      BY <2>1, FlatMapParts
    <3>. QED  BY <2>1, <3>1
  <2>. HIDE DEF p
  <2>3. f[0] = <<>> /\ f[1] = g[l] /\ <<>> \o g[l] = g[l]
    BY <2>1, ConcatEmptySeq
  <2>. HIDE DEF f
  <2>4. Joins(p, Len(p), f)
    <3>1. \A k \in 1..1 : k = 1 /\ k - 1 = 0
      OBVIOUS
    <3>. QED  BY <2>2, <2>3, <3>1 DEF Joins
  <2>5. FlattenSeq(p) = f[1]
    BY <2>2, <2>4, FlattenIs
  <2>. QED  BY <2>3, <2>5 DEF FlatMap, p, s
<1>. QED  BY <1>1

(* One rewriting after the other is one rewriting. *)
LEMMA FlatMapTwice ==
    ASSUME NEW L, NEW s \in Seq(L), NEW g, Rewrites(g, L),
           NEW h, Rewrites(h, L), NEW k, Rewrites(k, L),
           \A l \in L : k[l] = FlatMap(g[l], h)
    PROVE  FlatMap(FlatMap(s, g), h) = FlatMap(s, k)
<1>0. \A a, b \in Seq(L) : FlatMap(a \o b, h) = FlatMap(a, h) \o FlatMap(b, h)
  BY ONLY FlatMapConcat, Rewrites(h, L)
<1>. DEFINE N == Len(s)
            p == Parts(s, g)
            q == Parts(s, k)
<1>1. /\ p \in Seq(Seq(L)) /\ Len(p) = N
      /\ \A i \in 1..N : p[i] = g[s[i]] /\ s[i] \in L
  BY FlatMapParts
<1>2. q \in Seq(Seq(L)) /\ Len(q) = N /\ \A i \in 1..N : q[i] = k[s[i]]
  BY FlatMapParts
<1>3. N \in Nat
  OBVIOUS
<1>4. FlatMap(s, g) = FlattenSeq(p) /\ FlatMap(s, k) = FlattenSeq(q)
  BY DEF FlatMap
<1>. HIDE DEF N, p, q
<1>5. PICK f \in [0..N -> Seq(L)] : Joins(p, N, f) /\ FlattenSeq(p) = f[N]
  BY <1>1, FlattenJoins
<1>. DEFINE e == [j \in 0..N |-> FlatMap(f[j], h)]
<1>6. e[0] = <<>> /\ e[N] = FlatMap(FlattenSeq(p), h)
  BY <1>3, <1>5, FlatMapEmpty DEF Joins
<1>7. ASSUME NEW j \in 1..N PROVE e[j] = e[j - 1] \o q[j]
  <2>1. j \in 0..N /\ j - 1 \in 0..N
    BY <1>3
  <2>2. f[j] = f[j - 1] \o p[j] /\ f[j - 1] \in Seq(L)
    BY <1>5, <2>1 DEF Joins
  <2>3. p[j] \in Seq(L)
    BY <1>1 DEF Rewrites
  <2>4. FlatMap(f[j - 1] \o p[j], h) = FlatMap(f[j - 1], h) \o FlatMap(p[j], h)
    <3>. DEFINE a == f[j - 1]
                b == p[j]
    <3>1. a \in Seq(L) /\ b \in Seq(L)
      BY <2>2, <2>3
    <3>. HIDE DEF a, b
    <3>2. FlatMap(a \o b, h) = FlatMap(a, h) \o FlatMap(b, h)
      BY <1>0, <3>1
    <3>. QED  BY <3>2 DEF a, b
  <2>5. FlatMap(p[j], h) = q[j]
    BY <1>1, <1>2
  <2>. QED  BY <2>1, <2>2, <2>4, <2>5
<1>. HIDE DEF e
<1>8. Joins(q, Len(q), e)
  BY <1>2, <1>6, <1>7 DEF Joins
<1>9. FlattenSeq(q) = e[N]
  BY <1>2, <1>8, FlattenIs
<1>. QED  BY <1>4, <1>6, <1>9

(* Nothing changes if every line stays what it is. *)
LEMMA FlatMapSame ==
    ASSUME NEW L, NEW s \in Seq(L), NEW g, Rewrites(g, L),
           \A i \in 1..Len(s) : g[s[i]] = <<s[i]>>
    PROVE  FlatMap(s, g) = s
<1>0. \A i \in 1..Len(s) : g[s[i]] = <<s[i]>>
  OBVIOUS
<1>. DEFINE N == Len(s)
            p == Parts(s, g)
            f == [k \in 0..N |-> SubSeq(s, 1, k)]
<1>1. p \in Seq(Seq(L)) /\ Len(p) = N /\ \A i \in 1..N : p[i] = g[s[i]] /\ s[i] \in L
  BY FlatMapParts
<1>2. N \in Nat /\ FlatMap(s, g) = FlattenSeq(p)
  BY DEF FlatMap
<1>. HIDE DEF p
<1>3. f[0] = <<>>
  BY <1>2, SubSeqEmpty
<1>4. f[N] = s
  BY <1>2, SubSeqFull
<1>5. ASSUME NEW k \in 1..N PROVE f[k] = f[k - 1] \o p[k]
  <2>1. k \in 0..N /\ k - 1 \in 0..N /\ p[k] = <<s[k]>>
    <3>1. k \in 0..N /\ k - 1 \in 0..N
      BY <1>2
    <3>2. g[s[k]] = <<s[k]>>
      BY <1>0
    <3>. QED  BY <1>1, <3>1, <3>2
  <2>2. SubSeq(s, 1, k) = SubSeq(s, 1, k - 1) \o <<s[k]>>
    <3>1. /\ SubSeq(s, 1, k) \in Seq(L) /\ Len(SubSeq(s, 1, k)) = k
          /\ \A i \in 1..k : SubSeq(s, 1, k)[i] = s[i]
      BY <1>1, <1>2, SubSeqProperties
    <3>. DEFINE a == SubSeq(s, 1, k - 1)
                b == a \o <<s[k]>>
    <3>2. a \in Seq(L) /\ Len(a) = k - 1 /\ \A i \in 1..(k - 1) : a[i] = s[i]
      BY <1>1, <1>2, SubSeqProperties
    <3>3. <<s[k]>> \in Seq(L)
      BY <1>1
    <3>. HIDE DEF a
    <3>4. /\ b \in Seq(L) /\ Len(b) = k /\ \A i \in 1..k : b[i] = s[i]
      BY <3>2, <3>3, ConcatProperties
    <3>. HIDE DEF b
    <3>5. SubSeq(s, 1, k) = b
      BY <3>1, <3>4, SeqEqual
    <3>. QED  BY <3>5 DEF a, b
  <2>. QED  BY <2>1, <2>2
<1>. HIDE DEF f
<1>6. Joins(p, Len(p), f)
  BY <1>1, <1>3, <1>5 DEF Joins
<1>. QED  BY <1>1, <1>2, <1>4, <1>6, FlattenIs

(* The first line, if it stays. *)
LEMMA FlatMapHead ==
    ASSUME NEW L, NEW s \in Seq(L), NEW g, Rewrites(g, L), s # <<>>,
           NEW x \in L, g[s[1]] = <<x>>
    PROVE  FlatMap(s, g) # <<>> /\ Head(FlatMap(s, g)) = x /\ FlatMap(s, g)[1] = x
<1>0. \A a, b \in Seq(L) : FlatMap(a \o b, g) = FlatMap(a, g) \o FlatMap(b, g)
  BY FlatMapConcat
<1>. DEFINE a == <<s[1]>>
            b == Tail(s)
            c == FlatMap(b, g)
<1>1. s[1] \in L /\ a \in Seq(L) /\ b \in Seq(L)
  OBVIOUS
<1>2. s = a \o b
  <2>1. Len(s) \in Nat /\ Len(s) >= 1 /\ Len(b) = Len(s) - 1
    OBVIOUS
  <2>2. \A i \in 1..Len(b) : b[i] = s[i + 1]
    BY HeadTailProperties
  <2>. DEFINE d == a \o b
  <2>3. /\ d \in Seq(L) /\ Len(d) = 1 + Len(b)
        /\ \A i \in 1..(1 + Len(b)) : d[i] = IF i <= 1 THEN s[1] ELSE b[i - 1]
    BY <1>1, ConcatProperties
  <2>. HIDE DEF d, b
  <2>4. \A i \in 1..Len(s) : s[i] = d[i]
    BY <2>1, <2>2, <2>3
  <2>5. s = d
    BY <2>1, <2>3, <2>4, SeqEqual
  <2>. QED  BY <2>5 DEF d
<1>3. FlatMap(a, g) = <<x>> /\ c \in Seq(L)
  BY <1>1, FlatMapSingle, FlatMapType
<1>. HIDE DEF a, b
<1>4. FlatMap(s, g) = <<x>> \o c
  BY <1>0, <1>1, <1>2, <1>3
<1>. HIDE DEF c
<1>5. /\ <<x>> \o c \in Seq(L) /\ Len(<<x>> \o c) = 1 + Len(c)
      /\ (<<x>> \o c)[1] = x
  BY <1>3, ConcatProperties
<1>. QED  BY <1>3, <1>4, <1>5

(* The lines of the result. *)
LEMMA FlatMapElements ==
    ASSUME NEW L, NEW s \in Seq(L), NEW g, Rewrites(g, L), NEW x
    PROVE  (\E j \in 1..Len(FlatMap(s, g)) : FlatMap(s, g)[j] = x)
             <=> \E i \in 1..Len(s) : \E j \in 1..Len(g[s[i]]) : g[s[i]][j] = x
<1>. DEFINE N == Len(s)
            p == Parts(s, g)
            In(t) == \E j \in 1..Len(t) : t[j] = x
<1>1. p \in Seq(Seq(L)) /\ Len(p) = N /\ \A i \in 1..N : p[i] = g[s[i]] /\ p[i] \in Seq(L)
  <2>1. p \in Seq(Seq(L)) /\ Len(p) = N /\ \A i \in 1..N : p[i] = g[s[i]] /\ s[i] \in L
    BY FlatMapParts
  <2>. QED  BY <2>1 DEF Rewrites
<1>2. N \in Nat /\ FlatMap(s, g) = FlattenSeq(p)
  BY DEF FlatMap
<1>. HIDE DEF p
<1>3. PICK f \in [0..N -> Seq(L)] : Joins(p, N, f) /\ FlattenSeq(p) = f[N]
  BY <1>1, FlattenJoins
<1>4. ASSUME NEW a \in Seq(L), NEW b \in Seq(L)
      PROVE  In(a \o b) <=> In(a) \/ In(b)
  <2>. DEFINE c == a \o b
  <2>1. /\ Len(a) \in Nat /\ Len(b) \in Nat /\ Len(c) = Len(a) + Len(b)
        /\ \A i \in 1..(Len(a) + Len(b)) : c[i] = IF i <= Len(a) THEN a[i] ELSE b[i - Len(a)]
    BY ConcatProperties
  <2>. HIDE DEF c
  <2>2. In(a) => In(c)
    BY <2>1
  <2>3. ASSUME NEW j \in 1..Len(b), b[j] = x PROVE In(c)
    <3>1. Len(a) + j \in 1..Len(c) /\ ~(Len(a) + j <= Len(a)) /\ (Len(a) + j) - Len(a) = j
      BY <2>1
    <3>2. c[Len(a) + j] = b[j]
      BY <2>1, <3>1
    <3>. QED  BY <2>3, <3>1, <3>2
  <2>4. ASSUME NEW j \in 1..Len(c), c[j] = x PROVE In(a) \/ In(b)
    <3>1. CASE j <= Len(a)
      BY <2>1, <2>4, <3>1
    <3>2. CASE ~(j <= Len(a))
      <4>1. j - Len(a) \in 1..Len(b) /\ c[j] = b[j - Len(a)]
        BY <2>1, <3>2
      <4>. QED  BY <2>4, <4>1
    <3>. QED  BY <3>1, <3>2
  <2>. QED  BY <2>2, <2>3, <2>4 DEF c
<1>. DEFINE S == {k \in Nat : k <= N => (In(f[k]) <=> \E i \in 1..k : In(p[i]))}
<1>. HIDE DEF N
<1>5. 0 \in S
  <2>1. f[0] = <<>>
    BY <1>3 DEF Joins
  <2>. QED  BY <2>1
<1>6. ASSUME NEW k \in Nat, k \in S PROVE k + 1 \in S
  <2>. SUFFICES ASSUME k + 1 <= N PROVE In(f[k + 1]) <=> \E i \in 1..(k + 1) : In(p[i])
    OBVIOUS
  <2>1. k \in 0..N /\ k + 1 \in 1..N /\ (k + 1) - 1 = k
    BY <1>2
  <2>2. f[k + 1] = f[k] \o p[k + 1] /\ f[k] \in Seq(L) /\ p[k + 1] \in Seq(L)
    BY <1>1, <1>3, <2>1 DEF Joins
  <2>. HIDE DEF In
  <2>3. In(f[k + 1]) <=> In(f[k]) \/ In(p[k + 1])
    BY <1>4, <2>2
  <2>4. In(f[k]) <=> \E i \in 1..k : In(p[i])
    BY <1>6, <2>1
  <2>. QED  BY <2>3, <2>4
<1>7. Nat \subseteq S
  <2>. HIDE DEF S
  <2>. QED  BY <1>5, <1>6, SetInduction
<1>8. N \in S
  <2>. HIDE DEF S
  <2>. QED  BY <1>2, <1>7
<1>9. In(f[N]) <=> \E i \in 1..N : In(p[i])
  BY <1>2, <1>8
<1>10. f[N] = FlatMap(s, g) /\ \A i \in 1..N : p[i] = g[s[i]]
  BY <1>1, <1>2, <1>3
<1>. QED  BY <1>9, <1>10 DEF N

-----------------------------------------------------------------------------
(* Decimal numbers. *)

(* f[k] is the number that the first k digits make. *)
Counts(t, N, f) == f[0] = 0 /\ \A k \in 1..N : f[k] = 10 * f[k - 1] + t[k][2]
IsValue(t, N, f) == f = [i \in 0..N |-> IF i = 0 THEN 0 ELSE 10 * f[i - 1] + t[i][2]]

LEMMA ValueExists ==
    ASSUME NEW t, NEW N \in Nat
    PROVE  \E f : IsValue(t, N, f)
<1>. DEFINE S == {n \in Nat : \E f : IsValue(t, n, f)}
<1>1. 0 \in S
  <2>1. [i \in 0..0 |-> 0]
          = [i \in 0..0 |-> IF i = 0 THEN 0 ELSE 10 * [j \in 0..0 |-> 0][i - 1] + t[i][2]]
    OBVIOUS
  <2>. QED  BY <2>1 DEF IsValue
<1>2. ASSUME NEW n \in Nat, n \in S PROVE n + 1 \in S
  <2>1. PICK f : IsValue(t, n, f)
    BY <1>2
  <2>. DEFINE g == [m \in 0..n+1 |-> IF m = n + 1 THEN 10 * f[n] + t[n + 1][2] ELSE f[m]]
  <2>2. \A m \in 0..n+1 : g[m] = IF m = 0 THEN 0 ELSE 10 * g[m - 1] + t[m][2]
    <3>0. \A m \in 0..n : f[m] = IF m = 0 THEN 0 ELSE 10 * f[m - 1] + t[m][2]
      BY <2>1 DEF IsValue
    <3>. TAKE m \in 0..n+1
    <3>1. CASE m = n + 1
      <4>1. m # 0 /\ m - 1 = n /\ n # n + 1 /\ n \in 0..n+1
        BY <3>1
      <4>2. g[m - 1] = f[n]
        BY <4>1
      <4>. QED  BY <3>1, <4>1, <4>2
    <3>2. CASE m # n + 1
      <4>1. m \in 0..n /\ (m # 0 => m - 1 \in 0..n)
        BY <3>2
      <4>2. g[m] = f[m] /\ (m # 0 => g[m - 1] = f[m - 1])
        BY <3>2, <4>1
      <4>. QED  BY <3>0, <4>1, <4>2
    <3>. QED  BY <3>1, <3>2
  <2>3. g = [m \in 0..n+1 |-> IF m = 0 THEN 0 ELSE 10 * g[m - 1] + t[m][2]]
    BY <2>2
  <2>4. IsValue(t, n + 1, g)
    BY <2>3 DEF IsValue
  <2>. HIDE DEF g
  <2>. QED  BY <2>4
<1>. HIDE DEF S
<1>3. Nat \subseteq S
  BY <1>1, <1>2, SetInduction
<1>. QED  BY <1>3 DEF S

LEMMA IntOfIs ==
    ASSUME NEW t, Len(t) \in Nat, NEW f, Counts(t, Len(t), f)
    PROVE  IntOf(t) = f[Len(t)]
<1>. DEFINE N == Len(t)
            g == CHOOSE h : IsValue(t, N, h)
<1>1. IsValue(t, N, g)
  BY ValueExists, Zenon
<1>2. IntOf(t) = g[N]
  BY DEF IntOf, IsValue
<1>3. N \in Nat /\ Counts(t, N, f)
  OBVIOUS
<1>. HIDE DEF g, N
<1>. DEFINE S == {k \in Nat : k <= N => f[k] = g[k]}
<1>4. \A k \in 0..N : g[k] = IF k = 0 THEN 0 ELSE 10 * g[k - 1] + t[k][2]
  BY <1>1 DEF IsValue
<1>5. 0 \in S
  BY <1>3, <1>4 DEF Counts
<1>6. ASSUME NEW k \in Nat, k \in S PROVE k + 1 \in S
  <2>. SUFFICES ASSUME k + 1 <= N PROVE f[k + 1] = g[k + 1]
    OBVIOUS
  <2>1. f[k] = g[k] /\ k + 1 \in 1..N /\ k + 1 \in 0..N /\ (k + 1) - 1 = k /\ k + 1 # 0
    BY <1>3, <1>6
  <2>2. f[k + 1] = 10 * f[k] + t[k + 1][2]
    BY <1>3, <2>1 DEF Counts
  <2>3. g[k + 1] = 10 * g[k] + t[k + 1][2]
    BY <1>4, <2>1
  <2>. QED  BY <2>1, <2>2, <2>3
<1>7. Nat \subseteq S
  <2>. HIDE DEF S
  <2>. QED  BY <1>5, <1>6, SetInduction
<1>8. f[N] = g[N]
  BY <1>3, <1>7
<1>. QED  BY <1>2, <1>8 DEF N

(* The digits of a text. *)
Digits(base) == {Digit(d) : d \in 0..(base - 1)}

LEMMA DigitOf ==
    ASSUME NEW base \in Nat, NEW u \in Digits(base)
    PROVE  u[1] = "digit" /\ u[2] \in Nat /\ u[2] < base /\ u = Digit(u[2])
BY DEF Digits, Digit

(* int() of one digit, and of a text with one more digit. *)
LEMMA IntOfDigit ==
    ASSUME NEW u \in Digits(10)
    PROVE  IntOf(<<u>>) = u[2]
<1>. DEFINE f == [k \in 0..1 |-> IF k = 0 THEN 0 ELSE u[2]]
            t == <<u>>
<1>1. u[2] \in Nat /\ Len(t) = 1 /\ t[1] = u
  BY DigitOf
<1>2. f[0] = 0 /\ f[1] = u[2]
  OBVIOUS
<1>. HIDE DEF f, t
<1>3. Counts(t, Len(t), f)
  <2>1. \A k \in 1..1 : k = 1 /\ k - 1 = 0
    OBVIOUS
  <2>2. u[2] = 10 * 0 + u[2]
    BY <1>1
  <2>. QED  BY <1>1, <1>2, <2>1, <2>2 DEF Counts
<1>. QED  BY <1>1, <1>2, <1>3, IntOfIs DEF t

LEMMA IntOfType ==
    ASSUME NEW t \in Seq(Digits(10))
    PROVE  IntOf(t) \in Nat /\ \E f \in [0..Len(t) -> Nat] : Counts(t, Len(t), f) /\ IntOf(t) = f[Len(t)]
<1>. DEFINE N == Len(t)
<1>0. N \in Nat /\ \A k \in 1..N : t[k] \in Digits(10)
  OBVIOUS
<1>1. PICK g : IsValue(t, N, g)
  BY <1>0, ValueExists
<1>2. /\ DOMAIN g = 0..N /\ g[0] = 0 /\ g = [k \in 0..N |-> g[k]]
      /\ \A k \in 1..N : g[k] = 10 * g[k - 1] + t[k][2]
  <2>1. \A k \in 0..N : g[k] = IF k = 0 THEN 0 ELSE 10 * g[k - 1] + t[k][2]
    BY <1>1 DEF IsValue
  <2>2. \A k \in 1..N : k \in 0..N /\ k # 0
    BY <1>0
  <2>3. DOMAIN g = 0..N /\ g = [k \in 0..N |-> g[k]]
    BY <1>1 DEF IsValue
  <2>4. g[0] = 0
    BY <1>0, <2>1
  <2>5. \A k \in 1..N : g[k] = 10 * g[k - 1] + t[k][2]
    BY <2>1, <2>2
  <2>. QED  BY <2>3, <2>4, <2>5
<1>. HIDE DEF N
<1>. DEFINE S == {k \in Nat : k <= N => g[k] \in Nat}
<1>3. 0 \in S
  BY <1>2
<1>4. ASSUME NEW k \in Nat, k \in S PROVE k + 1 \in S
  <2>. SUFFICES ASSUME k + 1 <= N PROVE g[k + 1] \in Nat
    OBVIOUS
  <2>1. g[k] \in Nat /\ k + 1 \in 1..N /\ (k + 1) - 1 = k
    BY <1>0, <1>4
  <2>2. g[k + 1] = 10 * g[k] + t[k + 1][2] /\ t[k + 1][2] \in Nat
    BY <1>0, <1>2, <2>1, DigitOf
  <2>. QED  BY <2>1, <2>2
<1>5. Nat \subseteq S
  <2>. HIDE DEF S
  <2>. QED  BY <1>3, <1>4, SetInduction
<1>6. \A k \in 0..N : g[k] \in Nat
  BY <1>0, <1>5
<1>7. g \in [0..N -> Nat]
  BY <1>2, <1>6
<1>8. Counts(t, N, g)
  BY <1>2 DEF Counts
<1>9. IntOf(t) = g[N] /\ g[N] \in Nat
  BY <1>0, <1>6, <1>8, IntOfIs DEF N
<1>. QED  BY <1>7, <1>8, <1>9 DEF N

LEMMA IntOfAppend ==
    ASSUME NEW t \in Seq(Digits(10)), NEW u \in Digits(10)
    PROVE  IntOf(Append(t, u)) = 10 * IntOf(t) + u[2]
<1>. DEFINE N == Len(t)
            v == Append(t, u)
<1>1. N \in Nat /\ Len(v) = N + 1 /\ v[N + 1] = u /\ \A k \in 1..N : v[k] = t[k]
  BY AppendProperties
<1>2. PICK g \in [0..N -> Nat] : Counts(t, N, g) /\ IntOf(t) = g[N]
  BY IntOfType
<1>. HIDE DEF N, v
<1>. DEFINE f == [k \in 0..(N + 1) |-> IF k = N + 1 THEN 10 * g[N] + u[2] ELSE g[k]]
<1>3. f[0] = 0 /\ f[N + 1] = 10 * g[N] + u[2] /\ f[N] = g[N]
  BY <1>1, <1>2 DEF Counts
<1>4. ASSUME NEW k \in 1..(N + 1) PROVE f[k] = 10 * f[k - 1] + v[k][2]
  <2>1. CASE k = N + 1
    <3>1. k - 1 = N
      BY <1>1, <2>1
    <3>. QED  BY <1>1, <1>3, <2>1, <3>1
  <2>2. CASE k # N + 1
    <3>1. k \in 1..N /\ k - 1 \in 0..(N + 1) /\ k - 1 # N + 1 /\ k \in 0..(N + 1)
      BY <1>1, <2>2
    <3>2. f[k] = g[k] /\ f[k - 1] = g[k - 1]
      BY <2>2, <3>1
    <3>. QED  BY <1>1, <1>2, <3>1, <3>2 DEF Counts
  <2>. QED  BY <2>1, <2>2
<1>. HIDE DEF f
<1>5. Counts(v, Len(v), f) /\ Len(v) \in Nat
  BY <1>1, <1>3, <1>4 DEF Counts
<1>. QED  BY <1>1, <1>2, <1>3, <1>5, IntOfIs DEF v

(* f is str() for the numbers up to N. *)
IsDecimalUpto(N, f) ==
    f = [n \in 0..N |-> IF n < 10 THEN <<Digit(n)>>
                        ELSE Append(f[n \div 10], Digit(n % 10))]

LEMMA TenFacts ==
    ASSUME NEW n \in Nat, ~(n < 10)
    PROVE  /\ n \div 10 \in Nat /\ n \div 10 < n /\ n % 10 \in 0..9
           /\ n = 10 * (n \div 10) + (n % 10)
<1>1. n \div 10 \in Nat
  OBVIOUS
<1>2. n % 10 \in 0..9
  OBVIOUS
<1>3. n = 10 * (n \div 10) + (n % 10)
  OBVIOUS
<1>4. n \div 10 < n
  OBVIOUS
<1>. QED  BY <1>1, <1>2, <1>3, <1>4

LEMMA DecimalUptoExists == \A N \in Nat : \E f : IsDecimalUpto(N, f)
<1>. DEFINE S == {n \in Nat : \E f : IsDecimalUpto(n, f)}
<1>1. 0 \in S
  <2>. DEFINE f == [n \in 0..0 |-> <<Digit(n)>>]
  <2>1. \A n \in 0..0 : n < 10
    OBVIOUS
  <2>2. f = [n \in 0..0 |-> IF n < 10 THEN <<Digit(n)>>
                            ELSE Append(f[n \div 10], Digit(n % 10))]
    BY <2>1
  <2>. HIDE DEF f
  <2>. QED  BY <2>2 DEF IsDecimalUpto
<1>2. ASSUME NEW n \in Nat, n \in S PROVE n + 1 \in S
  <2>1. PICK f : IsDecimalUpto(n, f)
    BY <1>2
  <2>. DEFINE N == n + 1
              last == IF N < 10 THEN <<Digit(N)>> ELSE Append(f[N \div 10], Digit(N % 10))
              g == [m \in 0..N |-> IF m = N THEN last ELSE f[m]]
  <2>2. \A m \in 0..n : f[m] = IF m < 10 THEN <<Digit(m)>>
                                ELSE Append(f[m \div 10], Digit(m % 10))
    BY <2>1 DEF IsDecimalUpto
  <2>3. N \in Nat /\ \A m \in 0..N : m = N \/ m \in 0..n
    OBVIOUS
  <2>4. \A m \in 0..n : m \in 0..N /\ m # N
    OBVIOUS
  <2>5. \A m \in 0..N : ~(m < 10) => m \div 10 \in 0..n
    <3>. TAKE m \in 0..N
    <3>. HAVE ~(m < 10)
    <3>1. m \in Nat /\ m <= n + 1
      OBVIOUS
    <3>2. m \div 10 \in Nat /\ m \div 10 < m
      BY <3>1, TenFacts
    <3>. DEFINE d == m \div 10
    <3>3. d \in Nat /\ d < m
      BY <3>2
    <3>. HIDE DEF d
    <3>4. d \in 0..n
      BY <3>1, <3>3
    <3>. QED  BY <3>4 DEF d
  <2>. HIDE DEF N, last
  <2>6. \A m \in 0..n : g[m] = f[m]
    BY <2>4
  <2>7. g[N] = last
    BY <2>3
  <2>. HIDE DEF g
  <2>8. \A m \in 0..N : g[m] = IF m < 10 THEN <<Digit(m)>>
                                ELSE Append(g[m \div 10], Digit(m % 10))
    <3>. TAKE m \in 0..N
    <3>1. ~(m < 10) => g[m \div 10] = f[m \div 10]
      BY <2>5, <2>6
    <3>2. CASE m = N
      BY <2>7, <3>1, <3>2 DEF last
    <3>3. CASE m \in 0..n
      BY <2>2, <2>6, <3>1, <3>3
    <3>. QED  BY <2>3, <3>2, <3>3
  <2>9. g = [m \in 0..N |-> IF m < 10 THEN <<Digit(m)>>
                            ELSE Append(g[m \div 10], Digit(m % 10))]
    <3>1. g = [m \in 0..N |-> g[m]]
      BY DEF g
    <3>. QED  BY <2>8, <3>1
  <2>10. IsDecimalUpto(N, g)
    BY <2>9 DEF IsDecimalUpto
  <2>. QED  BY <2>3, <2>10 DEF N
<1>. HIDE DEF S
<1>3. Nat \subseteq S
  BY <1>1, <1>2, SetInduction
<1>. QED  BY <1>3 DEF S

LEMMA DecimalUptoAgree ==
    ASSUME NEW N \in Nat, NEW M \in Nat, NEW f, IsDecimalUpto(N, f), NEW g, IsDecimalUpto(M, g)
    PROVE  \A n \in Nat : n <= N /\ n <= M => f[n] = g[n]
<1>1. /\ \A n \in 0..N : f[n] = IF n < 10 THEN <<Digit(n)>>
                                 ELSE Append(f[n \div 10], Digit(n % 10))
      /\ \A n \in 0..M : g[n] = IF n < 10 THEN <<Digit(n)>>
                                 ELSE Append(g[n \div 10], Digit(n % 10))
  <2>1. \A n \in 0..N : f[n] = IF n < 10 THEN <<Digit(n)>>
                                 ELSE Append(f[n \div 10], Digit(n % 10))
    BY DEF IsDecimalUpto
  <2>2. \A n \in 0..M : g[n] = IF n < 10 THEN <<Digit(n)>>
                                 ELSE Append(g[n \div 10], Digit(n % 10))
    BY DEF IsDecimalUpto
  <2>. QED  BY <2>1, <2>2
<1>. DEFINE S == {k \in Nat : \A n \in 0..k : n <= N /\ n <= M => f[n] = g[n]}
<1>2. ASSUME NEW n \in Nat, n <= N, n <= M, \A m \in Nat : m < n => f[m] = g[m]
      PROVE  f[n] = g[n]
  <2>1. n \in 0..N /\ n \in 0..M
    BY <1>2
  <2>2. CASE n < 10
    <3>1. f[n] = <<Digit(n)>>
      BY <1>1, <2>1, <2>2
    <3>2. g[n] = <<Digit(n)>>
      BY <1>1, <2>1, <2>2
    <3>. QED  BY <3>1, <3>2
  <2>3. CASE ~(n < 10)
    <3>1. f[n \div 10] = g[n \div 10]
      BY <1>2, <2>3, TenFacts
    <3>. QED  BY <1>1, <2>1, <2>3, <3>1
  <2>. QED  BY <2>2, <2>3
<1>3. 0 \in S
  <2>1. \A n \in 0..0 : n = 0
    OBVIOUS
  <2>2. 0 \in 0..N /\ 0 \in 0..M /\ 0 < 10
    OBVIOUS
  <2>3. f[0] = g[0]
    <3>1. f[0] = <<Digit(0)>>
      BY <1>1, <2>2
    <3>2. g[0] = <<Digit(0)>>
      BY <1>1, <2>2
    <3>. QED  BY <3>1, <3>2
  <2>. QED  BY <2>1, <2>3
<1>4. ASSUME NEW k \in Nat, k \in S PROVE k + 1 \in S
  <2>. SUFFICES ASSUME NEW n \in 0..(k + 1), n <= N, n <= M PROVE f[n] = g[n]
    OBVIOUS
  <2>1. \A m \in Nat : m < n => f[m] = g[m]
    <3>. TAKE m \in Nat
    <3>. HAVE m < n
    <3>1. m \in 0..k /\ m <= N /\ m <= M
      OBVIOUS
    <3>. QED  BY <1>4, <3>1
  <2>2. n \in Nat
    OBVIOUS
  <2>. QED  BY <1>2, <2>1, <2>2
<1>5. Nat \subseteq S
  <2>. HIDE DEF S
  <2>. QED  BY <1>3, <1>4, SetInduction
<1>. QED
  <2>. TAKE n \in Nat
  <2>1. n \in S /\ n \in 0..n
    <3>. HIDE DEF S
    <3>. QED  BY <1>5
  <2>. QED  BY <2>1

(* The recursion of Decimal is well founded. *)
LEMMA DecimalIs ==
    \A n \in Nat : Decimal[n] = IF n < 10 THEN <<Digit(n)>>
                                ELSE Append(Decimal[n \div 10], Digit(n % 10))
<1>. DEFINE F(n) == CHOOSE f : IsDecimalUpto(n, f)
            g == [n \in Nat |-> F(n)[n]]
            IsDec(f) == f = [n \in Nat |-> IF n < 10 THEN <<Digit(n)>>
                                           ELSE Append(f[n \div 10], Digit(n % 10))]
<1>1. \A n \in Nat : IsDecimalUpto(n, F(n))
  BY DecimalUptoExists, Zenon
<1>. HIDE DEF F
<1>2. \A n \in Nat : F(n)[n] = IF n < 10 THEN <<Digit(n)>>
                                ELSE Append(F(n)[n \div 10], Digit(n % 10))
  <2>. TAKE n \in Nat
  <2>1. n \in 0..n
    OBVIOUS
  <2>2. \A m \in 0..n : F(n)[m] = IF m < 10 THEN <<Digit(m)>>
                                   ELSE Append(F(n)[m \div 10], Digit(m % 10))
    BY <1>1 DEF IsDecimalUpto
  <2>. QED  BY <2>1, <2>2
<1>3. \A n \in Nat : ~(n < 10) => F(n)[n \div 10] = F(n \div 10)[n \div 10]
  <2>. TAKE n \in Nat
  <2>. HAVE ~(n < 10)
  <2>. DEFINE d == n \div 10
  <2>1. d \in Nat /\ d < n
    BY TenFacts
  <2>. HIDE DEF d
  <2>2. IsDecimalUpto(n, F(n)) /\ IsDecimalUpto(d, F(d)) /\ d <= n /\ d <= d
    BY <1>1, <2>1
  <2>3. F(n)[d] = F(d)[d]
    BY <2>1, <2>2, DecimalUptoAgree
  <2>. QED  BY <2>3 DEF d
<1>4. \A n \in Nat : g[n] = IF n < 10 THEN <<Digit(n)>>
                             ELSE Append(g[n \div 10], Digit(n % 10))
  <2>. TAKE n \in Nat
  <2>1. CASE n < 10
    BY <1>2, <2>1
  <2>2. CASE ~(n < 10)
    <3>1. n \div 10 \in Nat
      BY <2>2, TenFacts
    <3>2. g[n \div 10] = F(n \div 10)[n \div 10] /\ g[n] = F(n)[n]
      BY <3>1
    <3>. QED  BY <1>2, <1>3, <2>2, <3>2
  <2>. QED  BY <2>1, <2>2
<1>5. IsDec(g)
  BY <1>4
<1>. HIDE DEF g
<1>6. Decimal = CHOOSE f : IsDec(f)
  BY DEF Decimal
<1>7. IsDec(Decimal)
  <2>. HIDE DEF IsDec
  <2>. QED  BY <1>5, <1>6, Zenon
<1>. QED  BY <1>7

(* str() of a number has decimal digits only, and int() reads them. *)
LEMMA DecimalReads ==
    ASSUME NEW n \in Nat
    PROVE  Decimal[n] \in Seq(Digits(10)) /\ Decimal[n] # <<>> /\ IntOf(Decimal[n]) = n
<1>. DEFINE Reads(m) == Decimal[m] \in Seq(Digits(10)) /\ Decimal[m] # <<>> /\ IntOf(Decimal[m]) = m
            S == {k \in Nat : \A m \in 0..k : Reads(m)}
<1>1. \A d \in 0..9 : Digit(d) \in Digits(10) /\ Digit(d)[2] = d
  BY DEF Digit, Digits
<1>2. ASSUME NEW m \in Nat, m < 10 PROVE Reads(m)
  <2>1. Decimal[m] = <<Digit(m)>> /\ Digit(m) \in Digits(10) /\ Digit(m)[2] = m
    <3>1. m \in 0..9
      BY <1>2
    <3>2. Decimal[m] = <<Digit(m)>>
      BY <1>2, DecimalIs
    <3>. QED  BY <1>1, <3>1, <3>2
  <2>. QED  BY <2>1, IntOfDigit
<1>3. ASSUME NEW m \in Nat, ~(m < 10), Reads(m \div 10) PROVE Reads(m)
  <2>. DEFINE d == m \div 10
              r == m % 10
  <2>1. Decimal[m] = Append(Decimal[d], Digit(r)) /\ r \in 0..9 /\ m = 10 * d + r
    BY <1>3, DecimalIs, TenFacts
  <2>2. Decimal[d] \in Seq(Digits(10)) /\ IntOf(Decimal[d]) = d
    BY <1>3
  <2>. HIDE DEF d, r
  <2>3. Digit(r) \in Digits(10) /\ Digit(r)[2] = r
    BY <1>1, <2>1
  <2>4. Append(Decimal[d], Digit(r)) \in Seq(Digits(10)) /\ Append(Decimal[d], Digit(r)) # <<>>
    BY <2>2, <2>3, AppendProperties
  <2>5. IntOf(Append(Decimal[d], Digit(r))) = 10 * IntOf(Decimal[d]) + Digit(r)[2]
    BY <2>2, <2>3, IntOfAppend
  <2>. QED  BY <2>1, <2>2, <2>3, <2>4, <2>5
<1>. HIDE DEF Reads
<1>4. 0 \in S
  <2>1. \A m \in 0..0 : m \in Nat /\ m < 10
    OBVIOUS
  <2>. QED  BY <1>2, <2>1
<1>5. ASSUME NEW k \in Nat, k \in S PROVE k + 1 \in S
  <2>. SUFFICES ASSUME NEW m \in 0..(k + 1) PROVE Reads(m)
    OBVIOUS
  <2>1. CASE m < 10
    BY <1>2, <2>1
  <2>2. CASE ~(m < 10)
    <3>. DEFINE d == m \div 10
    <3>1. m \in Nat /\ m <= k + 1
      OBVIOUS
    <3>2. d \in Nat /\ d < m
      BY <2>2, <3>1, TenFacts
    <3>. HIDE DEF d
    <3>3. d \in 0..k
      BY <3>1, <3>2
    <3>4. Reads(d)
      BY <1>5, <3>3
    <3>. QED  BY <1>3, <2>2, <3>1, <3>4 DEF d
  <2>. QED  BY <2>1, <2>2
<1>6. Nat \subseteq S
  <2>. HIDE DEF S
  <2>. QED  BY <1>4, <1>5, SetInduction
<1>7. Reads(n)
  <2>1. n \in S /\ n \in 0..n
    <3>. HIDE DEF S
    <3>. QED  BY <1>6
  <2>. QED  BY <2>1
<1>. QED  BY <1>7 DEF Reads

-----------------------------------------------------------------------------
(* Inserting a line. *)

Splits(L, s, k, x, t, a, b) ==
    /\ a \in Seq(L) /\ b \in Seq(L) /\ Len(a) = k - 1
    /\ s = a \o b /\ t = (a \o <<x>>) \o b

LEMMA InsertAtIs ==
    ASSUME NEW L, NEW s \in Seq(L), NEW x \in L, NEW k \in 1..(Len(s) + 1)
    PROVE  \E a, b : Splits(L, s, k, x, InsertAt(s, k, x), a, b)
<1>. DEFINE a == SubSeq(s, 1, k - 1)
            b == SubSeq(s, k, Len(s))
<1>1. Len(s) \in Nat /\ \A i \in 1..Len(s) : s[i] \in L
  OBVIOUS
<1>2. a \in Seq(L) /\ Len(a) = k - 1
  BY <1>1, SubSeqProperties
<1>3. b \in Seq(L)
  <2>1. \A i \in k..Len(s) : s[i] \in L
    BY <1>1
  <2>. QED  BY <1>1, <2>1, SubSeqProperties
<1>4. a \o b = s
  <2>1. /\ 1 \in 1..(Len(s) + 1) /\ k - 1 \in (1 - 1)..Len(s)
        /\ Len(s) \in (k - 1)..Len(s) /\ (k - 1) + 1 = k
    BY <1>1
  <2>2. SubSeq(s, 1, k - 1) \o SubSeq(s, (k - 1) + 1, Len(s)) = SubSeq(s, 1, Len(s))
    BY <2>1, ConcatAdjacentSubSeq
  <2>3. SubSeq(s, 1, Len(s)) = s
    BY SubSeqFull
  <2>. QED  BY <2>1, <2>2, <2>3
<1>5. InsertAt(s, k, x) = (a \o <<x>>) \o b
  BY DEF InsertAt
<1>. HIDE DEF a, b
<1>6. Splits(L, s, k, x, InsertAt(s, k, x), a, b)
  BY <1>2, <1>3, <1>4, <1>5 DEF Splits
<1>. QED  BY <1>6

(* A rewriting that drops the line does not see it. *)
LEMMA InsertedAndDropped ==
    ASSUME NEW L, NEW s \in Seq(L), NEW x \in L, NEW k \in 1..(Len(s) + 1),
           NEW g, Rewrites(g, L), g[x] = <<>>
    PROVE  FlatMap(InsertAt(s, k, x), g) = FlatMap(s, g)
<1>0. \A u, v \in Seq(L) : FlatMap(u \o v, g) = FlatMap(u, g) \o FlatMap(v, g)
  BY ONLY FlatMapConcat, Rewrites(g, L)
<1>9. PICK a, b : Splits(L, s, k, x, InsertAt(s, k, x), a, b)
  BY InsertAtIs
<1>1. a \in Seq(L) /\ b \in Seq(L) /\ s = a \o b /\ InsertAt(s, k, x) = (a \o <<x>>) \o b
  BY <1>9 DEF Splits
<1>. DEFINE one == <<x>>
            c == a \o one
<1>2. one \in Seq(L) /\ c \in Seq(L)
  BY <1>1
<1>3. FlatMap(one, g) = <<>>
  <2>. QED  BY ONLY FlatMapSingle, Rewrites(g, L), x \in L, g[x] = <<>> DEF one
<1>4. FlatMap(c \o b, g) = (FlatMap(a, g) \o <<>>) \o FlatMap(b, g)
  <2>. HIDE DEF one
  <2>1. FlatMap(c, g) = FlatMap(a, g) \o <<>>
    BY <1>0, <1>1, <1>2, <1>3
  <2>. HIDE DEF c
  <2>. QED  BY <1>0, <1>1, <1>2, <2>1
<1>5. FlatMap(a, g) \in Seq(L)
  BY <1>1, FlatMapType
<1>6. FlatMap(a, g) \o <<>> = FlatMap(a, g)
  BY <1>5, ConcatEmptySeq
<1>. QED  BY <1>0, <1>1, <1>4, <1>6

(* The lines with one inserted. *)
LEMMA InsertedElements ==
    ASSUME NEW L, NEW s \in Seq(L), NEW x \in L, NEW k \in 1..(Len(s) + 1)
    PROVE  LET t == InsertAt(s, k, x)
           IN  /\ t \in Seq(L) /\ Len(t) = Len(s) + 1
               /\ \A i \in 1..Len(t) : t[i] = IF i < k THEN s[i] ELSE IF i = k THEN x ELSE s[i - 1]
<1>. DEFINE t == InsertAt(s, k, x)
<1>9. PICK a, b : Splits(L, s, k, x, t, a, b)
  BY InsertAtIs
<1>1. a \in Seq(L) /\ b \in Seq(L) /\ s = a \o b /\ Len(a) = k - 1 /\ t = (a \o <<x>>) \o b
  BY <1>9 DEF Splits
<1>. DEFINE c == a \o <<x>>
<1>2. /\ c \in Seq(L) /\ Len(c) = k
      /\ \A i \in 1..k : c[i] = IF i < k THEN a[i] ELSE x
  <2>1. <<x>> \in Seq(L) /\ Len(<<x>>) = 1 /\ <<x>>[1] = x
    OBVIOUS
  <2>2. /\ c \in Seq(L) /\ Len(c) = Len(a) + 1
        /\ \A i \in 1..(Len(a) + 1) : c[i] = IF i <= Len(a) THEN a[i] ELSE <<x>>[i - Len(a)]
    BY <1>1, <2>1, ConcatProperties
  <2>. HIDE DEF c
  <2>3. \A i \in 1..k : i < k => i <= Len(a) /\ i \in 1..(Len(a) + 1)
    BY <1>1
  <2>4. k \in 1..(Len(a) + 1) /\ ~(k <= Len(a)) /\ k - Len(a) = 1
    BY <1>1
  <2>5. c[k] = x
    BY <2>1, <2>2, <2>4
  <2>6. \A i \in 1..k : ~(i < k) => i = k
    OBVIOUS
  <2>. QED  BY <1>1, <2>2, <2>3, <2>4, <2>5, <2>6
<1>3. t = c \o b
  BY <1>1
<1>. HIDE DEF c, t
<1>4. /\ t \in Seq(L) /\ Len(t) = k + Len(b) /\ Len(b) \in Nat
      /\ \A i \in 1..(k + Len(b)) : t[i] = IF i <= k THEN c[i] ELSE b[i - k]
  <2>1. c \in Seq(L) /\ b \in Seq(L) /\ Len(c) = k
    BY <1>1, <1>2
  <2>2. /\ c \o b \in Seq(L) /\ Len(c \o b) = Len(c) + Len(b)
        /\ \A i \in 1..(Len(c) + Len(b)) : (c \o b)[i] = IF i <= Len(c) THEN c[i] ELSE b[i - Len(c)]
    BY ONLY <2>1, ConcatProperties
  <2>. QED  BY <2>1, <2>2, <1>3
<1>5. /\ Len(s) = (k - 1) + Len(b)
      /\ \A i \in 1..Len(s) : s[i] = IF i <= k - 1 THEN a[i] ELSE b[i - (k - 1)]
  BY <1>1, ConcatProperties
<1>6. Len(t) = Len(s) + 1
  BY <1>4, <1>5
<1>7. ASSUME NEW i \in 1..Len(t)
      PROVE  t[i] = IF i < k THEN s[i] ELSE IF i = k THEN x ELSE s[i - 1]
  <2>1. CASE i < k
    <3>1. i \in 1..Len(s) /\ i <= k - 1 /\ i \in 1..k /\ i <= k
      BY <1>4, <1>5, <2>1
    <3>. QED  BY <1>2, <1>4, <1>5, <2>1, <3>1
  <2>2. CASE i = k
    BY <1>2, <1>4, <2>2
  <2>3. CASE i > k
    <3>1. i - 1 \in 1..Len(s) /\ ~(i - 1 <= k - 1) /\ (i - 1) - (k - 1) = i - k /\ ~(i <= k)
      BY <1>4, <1>5, <2>3
    <3>2. t[i] = b[i - k]
      BY <1>4, <3>1
    <3>3. s[i - 1] = b[i - k]
      BY <1>5, <3>1
    <3>. QED  BY <2>3, <3>2, <3>3
  <2>. QED  BY <2>1, <2>2, <2>3
<1>. QED  BY <1>4, <1>6, <1>7 DEF t

-----------------------------------------------------------------------------
(* NetworkID. *)

LEMMA ParseU64Reads ==
    ASSUME NEW n \in 0..U64_MAX
    PROVE  ParseU64(Decimal[n]) = {n} /\ IsDecimal(Decimal[n])
<1>1. n \in Nat /\ n <= U64_MAX
  BY NetworkIdAssumption
<1>2. Decimal[n] \in Seq(Digits(10)) /\ Decimal[n] # <<>> /\ IntOf(Decimal[n]) = n
  BY <1>1, DecimalReads
<1>3. IsDecimal(Decimal[n])
  <2>. DEFINE t == Decimal[n]
  <2>1. t \in Seq(Digits(10)) /\ t # <<>>
    BY <1>2
  <2>. HIDE DEF t
  <2>2. \A i \in DOMAIN t : t[i] \in Digits(10)
    BY <2>1
  <2>3. IsDecimal(t)
    BY <2>1, <2>2, DigitOf DEF IsDecimal
  <2>. QED  BY <2>3 DEF t
<1>. QED  BY <1>1, <1>2, <1>3 DEF ParseU64

LEMMA ParseUuidReads ==
    ASSUME NEW hex \in [1..UuidLen -> {Digit(d) : d \in 0..15}]
    PROVE  LET text == InsertAt(hex, UuidLen, Hyphen)
           IN  ParseUuid(text) = {hex} /\ ParseU64(text) = {} /\ text # <<>>
<1>. DEFINE L == Digits(16) \cup {Hyphen}
            g == [u \in L |-> IF u = Hyphen THEN <<>> ELSE <<u>>]
            text == InsertAt(hex, UuidLen, Hyphen)
<1>1. /\ UuidLen \in Nat /\ UuidLen >= 1 /\ Digits(16) = {Digit(d) : d \in 0..15}
      /\ \A u \in Digits(16) : u[1] = "digit" /\ u # Hyphen
  <2>1. Digits(16) = {Digit(d) : d \in 0..15}
    BY DEF Digits
  <2>2. ASSUME NEW u \in Digits(16) PROVE u[1] = "digit" /\ u # Hyphen
    <3>1. u[1] = "digit" /\ Hyphen[1] = "hyphen"
      BY DigitOf DEF Hyphen
    <3>. QED  BY <3>1
  <2>. QED  BY <2>1, <2>2, NetworkIdAssumption
<1>2. hex \in Seq(L) /\ Len(hex) = UuidLen /\ \A i \in 1..UuidLen : hex[i] \in Digits(16)
  <2>1. \A i \in 1..UuidLen : hex[i] \in Digits(16) /\ hex[i] \in L
    BY <1>1
  <2>. HIDE DEF L
  <2>2. hex \in [1..UuidLen -> L]
    BY <2>1
  <2>. QED  BY <1>1, <2>1, <2>2
<1>3. Hyphen \in L /\ Rewrites(g, L) /\ g[Hyphen] = <<>>
  <2>1. ASSUME NEW u \in L
        PROVE  (IF u = Hyphen THEN <<>> ELSE <<u>>) \in Seq(L)
    <3>. HIDE DEF L
    <3>. QED  OBVIOUS
  <2>2. Hyphen \in L
    OBVIOUS
  <2>. HIDE DEF L
  <2>. QED  BY <2>1, <2>2 DEF Rewrites
<1>4. UuidLen \in 1..(Len(hex) + 1)
  BY <1>1, <1>2
<1>5. /\ text \in Seq(L) /\ Len(text) = UuidLen + 1 /\ text[UuidLen] = Hyphen
  <2>. HIDE DEF L
  <2>1. /\ text \in Seq(L) /\ Len(text) = Len(hex) + 1
        /\ \A i \in 1..Len(text) : text[i] = IF i < UuidLen THEN hex[i]
                                              ELSE IF i = UuidLen THEN Hyphen ELSE hex[i - 1]
    BY <1>2, <1>3, <1>4, InsertedElements
  <2>. HIDE DEF text
  <2>. QED  BY <1>1, <1>2, <2>1
<1>6. FlatMap(hex, g) = hex
  <2>1. \A i \in 1..Len(hex) : g[hex[i]] = <<hex[i]>>
    BY <1>1, <1>2
  <2>. HIDE DEF L, g
  <2>. QED  BY <1>2, <1>3, <2>1, FlatMapSame
<1>7. FlatMap(text, g) = hex
  <2>. HIDE DEF L, g
  <2>. QED  BY <1>2, <1>3, <1>4, <1>6, InsertedAndDropped
<1>8. FlatMap(text, g) = FlattenSeq([i \in DOMAIN text |->
                            IF text[i] = Hyphen THEN <<>> ELSE <<text[i]>>])
  <2>. HIDE DEF text
  <2>1. \A i \in DOMAIN text : text[i] \in L
    <3>. HIDE DEF L
    <3>. QED  BY <1>5
  <2>2. Parts(text, g) = [i \in DOMAIN text |-> IF text[i] = Hyphen THEN <<>> ELSE <<text[i]>>]
    BY <2>1 DEF Parts
  <2>. QED  BY <2>2 DEF FlatMap
<1>9. ParseUuid(text) = {hex}
  <2>. HIDE DEF L, g, text
  <2>1. \A i \in DOMAIN hex : hex[i][1] = "digit"
    BY <1>1, <1>2
  <2>. QED  BY <1>2, <1>7, <1>8, <2>1 DEF ParseUuid
<1>10. ParseU64(text) = {}
  <2>1. Hyphen[1] # "digit"
    BY DEF Hyphen
  <2>. HIDE DEF L, g, text
  <2>2. UuidLen \in DOMAIN text
    BY <1>1, <1>5
  <2>. QED  BY <1>5, <2>1, <2>2 DEF ParseU64, IsDecimal
<1>11. text # <<>>
  <2>. HIDE DEF L, g, text
  <2>. QED  BY <1>1, <1>5
<1>. QED  BY <1>9, <1>10, <1>11

(* NetworkID.parse reads what __str__ writes; only no id has an empty text. *)
THEOREM IdRoundTrip ==
    ASSUME NEW id \in NetworkIds
    PROVE  /\ IdText(id) # <<>> <=> id # Unset
           /\ id # Unset => ParseId(IdText(id)) = id
<1>1. CASE id = Unset
  BY <1>1 DEF IdText, Unset
<1>2. ASSUME NEW n \in 0..U64_MAX, id = P2P(n)
      PROVE  IdText(id) # <<>> /\ id # Unset /\ ParseId(IdText(id)) = id
  <2>1. IdText(id) = Decimal[n] /\ id # Unset
    BY <1>2 DEF IdText, P2P, Unset
  <2>2. ParseU64(Decimal[n]) = {n} /\ Decimal[n] # <<>>
    BY ParseU64Reads DEF IsDecimal
  <2>. QED  BY <1>2, <2>1, <2>2 DEF ParseId
<1>3. ASSUME NEW hex \in [1..UuidLen -> {Digit(d) : d \in 0..15}], id = Realms(hex)
      PROVE  IdText(id) # <<>> /\ id # Unset /\ ParseId(IdText(id)) = id
  <2>. DEFINE text == InsertAt(hex, UuidLen, Hyphen)
  <2>1. IdText(id) = text /\ id # Unset
    BY <1>3 DEF IdText, Realms, Unset
  <2>2. ParseUuid(text) = {hex} /\ ParseU64(text) = {} /\ text # <<>>
    BY ParseUuidReads
  <2>. HIDE DEF text
  <2>. QED  BY <1>3, <2>1, <2>2 DEF ParseId
<1>. QED  BY <1>1, <1>2, <1>3 DEF NetworkIds

-----------------------------------------------------------------------------
(* The lines of an SDP that belong to a set. *)

Filter(L, K) == [l \in L |-> IF l \in K THEN <<l>> ELSE <<>>]
Text(s) == s \in Seq(ToSet(s))
OfKind(L, kinds) == {l \in L : l[1] \in kinds}

LEMMA TextFacts ==
    ASSUME NEW L, NEW s \in Seq(L)
    PROVE  Text(s) /\ ToSet(s) \subseteq L
<1>1. DOMAIN s = 1..Len(s) /\ Len(s) \in Nat /\ \A i \in 1..Len(s) : s[i] \in L
  OBVIOUS
<1>2. s \in [1..Len(s) -> ToSet(s)]
  BY <1>1 DEF ToSet
<1>3. s \in Seq(ToSet(s))
  BY <1>1, <1>2
<1>4. ToSet(s) \subseteq L
  BY <1>1 DEF ToSet
<1>. QED  BY <1>3, <1>4 DEF Text

(* FlatMapElements, of the sets of lines. *)
LEMMA FlatMapLines ==
    ASSUME NEW L, NEW s \in Seq(L), NEW g, Rewrites(g, L), NEW x
    PROVE  x \in ToSet(FlatMap(s, g)) <=> \E l \in ToSet(s) : x \in ToSet(g[l])
<1>. DEFINE t == FlatMap(s, g)
            In(u) == \E j \in 1..Len(u) : u[j] = x
<1>1. In(t) <=> \E i \in 1..Len(s) : In(g[s[i]])
  BY FlatMapElements
<1>2. t \in Seq(L)
  BY FlatMapType
<1>. HIDE DEF t
<1>3. \A u \in Seq(L) : x \in ToSet(u) <=> In(u)
  BY DEF ToSet
<1>4. \A l \in L : g[l] \in Seq(L)
  BY DEF Rewrites
<1>5. (\E i \in 1..Len(s) : In(g[s[i]])) <=> \E l \in ToSet(s) : In(g[l])
  <2>. HIDE DEF In
  <2>. QED  BY DEF ToSet
<1>6. ToSet(s) \subseteq L
  BY DEF ToSet
<1>. HIDE DEF In
<1>7. x \in ToSet(t) <=> \E l \in ToSet(s) : x \in ToSet(g[l])
  BY <1>1, <1>2, <1>3, <1>4, <1>5, <1>6
<1>. QED  BY <1>7 DEF t

LEMMA FilterRewrites ==
    ASSUME NEW L, NEW K
    PROVE  Rewrites(Filter(L, K), L)
<1>1. ASSUME NEW l \in L PROVE (IF l \in K THEN <<l>> ELSE <<>>) \in Seq(L)
  OBVIOUS
<1>. QED  BY <1>1 DEF Filter, Rewrites

LEMMA KeepIs ==
    ASSUME NEW L, NEW s \in Seq(L), NEW K, NEW I,
           \A i \in DOMAIN s : i \in I <=> s[i] \in K
    PROVE  Keep(s, I) = FlatMap(s, Filter(L, K))
<1>1. \A i \in DOMAIN s : s[i] \in L
  OBVIOUS
<1>2. \A i \in DOMAIN s : Filter(L, K)[s[i]] = IF i \in I THEN <<s[i]>> ELSE <<>>
  BY <1>1 DEF Filter
<1>3. Parts(s, Filter(L, K)) = [i \in DOMAIN s |-> IF i \in I THEN <<s[i]>> ELSE <<>>]
  BY <1>2 DEF Parts
<1>. QED  BY <1>3 DEF Keep, FlatMap

LEMMA FilterElements ==
    ASSUME NEW L, NEW s \in Seq(L), NEW K
    PROVE  /\ FlatMap(s, Filter(L, K)) \in Seq(L)
           /\ ToSet(FlatMap(s, Filter(L, K))) = ToSet(s) \cap K
<1>. DEFINE g == Filter(L, K)
            t == FlatMap(s, g)
<1>1. Rewrites(g, L)
  BY FilterRewrites
<1>2. t \in Seq(L)
  <2>. HIDE DEF g
  <2>. QED  BY <1>1, FlatMapType
<1>3. \A x : (\E j \in 1..Len(t) : t[j] = x)
               <=> \E i \in 1..Len(s) : \E j \in 1..Len(g[s[i]]) : g[s[i]][j] = x
  <2>. HIDE DEF g
  <2>. QED  BY <1>1, FlatMapElements
<1>4. ASSUME NEW i \in 1..Len(s), NEW x
      PROVE  (\E j \in 1..Len(g[s[i]]) : g[s[i]][j] = x) <=> (s[i] = x /\ x \in K)
  <2>1. s[i] \in L
    OBVIOUS
  <2>2. CASE s[i] \in K
    <3>1. g[s[i]] = <<s[i]>>
      BY <2>1, <2>2 DEF Filter
    <3>. QED  BY <2>2, <3>1
  <2>3. CASE s[i] \notin K
    <3>1. g[s[i]] = <<>>
      BY <2>1, <2>3 DEF Filter
    <3>. QED  BY <2>3, <3>1
  <2>. QED  BY <2>2, <2>3
<1>5. \A x : (\E j \in 1..Len(t) : t[j] = x) <=> (x \in K /\ \E i \in 1..Len(s) : s[i] = x)
  <2>. HIDE DEF t, g
  <2>. QED  BY <1>3, <1>4
<1>. HIDE DEF t, g
<1>6. DOMAIN t = 1..Len(t) /\ DOMAIN s = 1..Len(s)
  BY <1>2
<1>7. \A x : x \in ToSet(t) <=> x \in ToSet(s) \cap K
  BY <1>5, <1>6 DEF ToSet
<1>. QED  BY <1>2, <1>7 DEF t, g

LEMMA OnlyIs ==
    ASSUME NEW L, NEW s \in Seq(L), NEW kind
    PROVE  Only(s, kind) = FlatMap(s, Filter(L, OfKind(L, {kind})))
<1>1. \A i \in DOMAIN s : s[i] \in L
  OBVIOUS
<1>2. \A i \in DOMAIN s : i \in {j \in DOMAIN s : s[j][1] = kind} <=> s[i] \in OfKind(L, {kind})
  BY <1>1 DEF OfKind
<1>. QED  BY <1>2, KeepIs DEF Only

LEMMA WithoutIs ==
    ASSUME NEW L, NEW s \in Seq(L), NEW kinds
    PROVE  Without(s, kinds) = FlatMap(s, Filter(L, L \ OfKind(L, kinds)))
<1>1. \A i \in DOMAIN s : s[i] \in L
  OBVIOUS
<1>2. \A i \in DOMAIN s : i \in {j \in DOMAIN s : s[j][1] \notin kinds}
                            <=> s[i] \in L \ OfKind(L, kinds)
  BY <1>1 DEF OfKind
<1>. QED  BY <1>2, KeepIs DEF Without

LEMMA HasLines ==
    ASSUME NEW s, NEW kind
    PROVE  Has(s, kind) <=> \E l \in ToSet(s) : l[1] = kind
BY DEF Has, ToSet

(* What _parse_answer accepts, and a description without an assertion. *)
Body(s) == Text(s) /\ s # <<>> /\ s[1] = <<"v">>
Plain(s) == Body(s) /\ ~Has(s, "identity")

LEMMA StripFacts ==
    ASSUME NEW s, Text(s)
    PROVE  /\ Text(StripIdentity(s)) /\ ToSet(StripIdentity(s)) \subseteq ToSet(s)
           /\ ~Has(StripIdentity(s), "identity")
           /\ ~Has(s, "identity") => StripIdentity(s) = s
           /\ Body(s) => Plain(StripIdentity(s))
<1>. DEFINE L == ToSet(s)
            K == L \ OfKind(L, {"identity"})
            g == Filter(L, K)
            t == StripIdentity(s)
<1>1. s \in Seq(L)
  BY DEF Text
<1>2. t = FlatMap(s, g)
  <2>. HIDE DEF L
  <2>. QED  BY <1>1, WithoutIs DEF StripIdentity
<1>3. t \in Seq(L) /\ ToSet(t) = L \cap K
  <2>1. FlatMap(s, g) \in Seq(L) /\ ToSet(FlatMap(s, g)) = ToSet(s) \cap K
    <3>. HIDE DEF L, K
    <3>. QED  BY <1>1, FilterElements
  <2>. HIDE DEF t, g, K
  <2>. QED  BY <1>2, <2>1
<1>4. Text(t) /\ ToSet(t) \subseteq L
  <2>. HIDE DEF t, L
  <2>. QED  BY <1>3, TextFacts
<1>5. ~Has(t, "identity")
  <2>. HIDE DEF t, L
  <2>. QED  BY <1>3, HasLines DEF OfKind
<1>6. Rewrites(g, L)
  <2>. HIDE DEF L, K
  <2>. QED  BY FilterRewrites
<1>7. ASSUME ~Has(s, "identity") PROVE t = s
  <2>1. \A i \in 1..Len(s) : s[i] \in L
    <3>. HIDE DEF L
    <3>. QED  BY <1>1
  <2>2. \A l \in L : l[1] # "identity"
    BY <1>7, HasLines
  <2>3. \A l \in L : g[l] = <<l>>
    <3>. HIDE DEF L
    <3>. QED  BY <2>2 DEF OfKind, Filter
  <2>4. FlatMap(s, g) = s
    <3>. HIDE DEF L, g
    <3>. QED  BY <1>1, <1>6, <2>1, <2>3, FlatMapSame
  <2>. QED  BY <1>2, <2>4
<1>8. ASSUME Body(s) PROVE Plain(t)
  <2>1. s # <<>> /\ s[1] = <<"v">>
    BY <1>8 DEF Body
  <2>2. s[1] \in L
    <3>. HIDE DEF L
    <3>. QED  BY <1>1, <2>1
  <2>3. g[s[1]] = <<s[1]>>
    <3>1. s[1][1] # "identity"
      BY <2>1
    <3>. HIDE DEF L
    <3>. QED  BY <2>2, <3>1 DEF Filter, OfKind
  <2>4. FlatMap(s, g) # <<>> /\ FlatMap(s, g)[1] = s[1]
    <3>. HIDE DEF L, g
    <3>. QED  BY <1>1, <1>6, <2>1, <2>2, <2>3, FlatMapHead
  <2>. HIDE DEF t, g
  <2>. QED  BY <1>2, <1>4, <1>5, <2>1, <2>4 DEF Plain, Body
<1>. QED  BY <1>4, <1>5, <1>7, <1>8

(* extract_identity returns the envelope of a line of the text. *)
LEMMA ExtractFacts ==
    ASSUME NEW s, Text(s)
    PROVE  /\ ~Has(s, "identity") => ExtractIdentity(s) = {}
           /\ Has(s, "identity") => \E l \in ToSet(s) : /\ l[1] = "identity"
                                                       /\ ExtractIdentity(s) = {l[2]}
<1>. DEFINE L == ToSet(s)
            K == OfKind(L, {"identity"})
            t == Only(s, "identity")
<1>1. s \in Seq(L)
  BY DEF Text
<1>2. t \in Seq(L) /\ ToSet(t) = L \cap K
  <2>1. t = FlatMap(s, Filter(L, K))
    <3>. HIDE DEF L
    <3>. QED  BY <1>1, OnlyIs
  <2>2. FlatMap(s, Filter(L, K)) \in Seq(L) /\ ToSet(FlatMap(s, Filter(L, K))) = ToSet(s) \cap K
    <3>. HIDE DEF L, K
    <3>. QED  BY <1>1, FilterElements
  <2>. HIDE DEF t, K
  <2>. QED  BY <2>1, <2>2
<1>3. ASSUME Has(s, "identity")
      PROVE  Last(t) \in L /\ Last(t)[1] = "identity"
  <2>1. PICK l \in L : l[1] = "identity"
    BY <1>3, HasLines
  <2>. HIDE DEF t, L
  <2>2. l \in ToSet(t)
    BY <1>2, <2>1 DEF OfKind
  <2>3. t # <<>> /\ Len(t) \in DOMAIN t
    BY <1>2, <2>2 DEF ToSet
  <2>4. Last(t) \in ToSet(t)
    BY <2>3 DEF Last, ToSet
  <2>. QED  BY <1>2, <2>4 DEF OfKind
<1>. QED  BY <1>3 DEF ExtractIdentity

-----------------------------------------------------------------------------
(* insert_identity. *)

LEMMA FirstIndex ==
    ASSUME NEW I, I \subseteq Nat, I # {}
    PROVE  Min(I) \in I /\ \A y \in I : Min(I) =< y
<1>1. IsWellFoundedOn(OpToRel(<, Nat), Nat)
  BY NatLessThanWellFounded
<1>2. PICK x \in I : \A y \in I : <<y, x>> \notin OpToRel(<, Nat)
  BY <1>1, WFMin
<1>3. \A y \in I : x =< y
  <2>1. \A y \in I : y \in Nat /\ x \in Nat
    OBVIOUS
  <2>2. \A y \in I : ~(y < x)
    BY <1>2, <2>1 DEF OpToRel
  <2>. QED  BY <2>1, <2>2
<1>. QED  BY <1>3 DEF Min

(* The place of the assertion is in the text, and not the first one. *)
LEMMA PlaceOfIdentity ==
    ASSUME NEW s, Body(s), NEW e
    PROVE  \E k \in 2..(Len(s) + 1) : InsertIdentity(s, e) = InsertAt(s, k, <<"identity", e>>)
<1>. DEFINE I == {i \in 1..Len(s) : s[i][1] = "m"}
            m == IF I # {} THEN Min(I) ELSE 0
            k == IF m = 0 THEN Len(s) + 1 ELSE m
<1>1. s \in Seq(ToSet(s)) /\ s # <<>> /\ s[1] = <<"v">>
  BY DEF Body, Text
<1>2. Len(s) \in Nat /\ Len(s) >= 1 /\ s[1][1] = "v"
  BY <1>1
<1>3. InsertIdentity(s, e) = InsertAt(s, k, <<"identity", e>>)
  BY DEF InsertIdentity, SelectInSeq
<1>4. k \in 2..(Len(s) + 1)
  <2>1. I \subseteq 2..Len(s) /\ I \subseteq Nat
    <3>1. 1 \notin I
      BY <1>2
    <3>. QED  BY <1>2, <3>1
  <2>2. I # {} => Min(I) \in I
    <3>. HIDE DEF I
    <3>. QED  BY <2>1, FirstIndex
  <2>. HIDE DEF I
  <2>3. CASE I = {}
    BY <1>2, <2>3
  <2>4. CASE I # {}
    <3>1. m \in 2..Len(s)
      BY <2>1, <2>2, <2>4
    <3>. HIDE DEF m
    <3>. QED  BY <1>2, <3>1
  <2>. QED  BY <2>3, <2>4
<1>. HIDE DEF k
<1>. QED  BY <1>3, <1>4

(* The lines of the identity kind all carry the envelope e. *)
Sealed(s, e) == Has(s, "identity") /\ \A l \in ToSet(s) : l[1] = "identity" => l[2] = e

LEMMA InsertFacts ==
    ASSUME NEW s, Plain(s), NEW e
    PROVE  /\ Body(InsertIdentity(s, e)) /\ Sealed(InsertIdentity(s, e), e)
           /\ StripIdentity(InsertIdentity(s, e)) = s
<1>. DEFINE x == <<"identity", e>>
            L == ToSet(s) \cup {x}
            K == L \ OfKind(L, {"identity"})
            g == Filter(L, K)
<1>1. Body(s) /\ s \in Seq(ToSet(s)) /\ s # <<>> /\ s[1] = <<"v">> /\ ~Has(s, "identity")
  BY DEF Plain, Body, Text
<1>2. PICK k \in 2..(Len(s) + 1) : InsertIdentity(s, e) = InsertAt(s, k, x)
  BY <1>1, PlaceOfIdentity
<1>. DEFINE t == InsertAt(s, k, x)
<1>3. s \in Seq(L) /\ x \in L /\ Len(s) \in Nat /\ Len(s) >= 1 /\ k \in 1..(Len(s) + 1)
  <2>1. Len(s) \in Nat /\ \A i \in 1..Len(s) : s[i] \in ToSet(s)
    BY <1>1
  <2>2. s \in [1..Len(s) -> L]
    BY <1>1, <2>1
  <2>3. Len(s) >= 1
    BY <1>1
  <2>. HIDE DEF L
  <2>4. s \in Seq(L)
    BY <2>1, <2>2
  <2>. QED  BY <2>1, <2>3, <2>4 DEF L
<1>4. \A l \in ToSet(s) : l[1] # "identity"
  BY <1>1, HasLines
<1>5. x[1] = "identity" /\ x[2] = e
  OBVIOUS
<1>. HIDE DEF x
<1>6. /\ t \in Seq(L) /\ Len(t) = Len(s) + 1
      /\ \A i \in 1..Len(t) : t[i] = IF i < k THEN s[i] ELSE IF i = k THEN x ELSE s[i - 1]
  <2>. HIDE DEF L
  <2>. QED  BY <1>3, InsertedElements
<1>. HIDE DEF t
<1>7. Text(t) /\ ToSet(t) \subseteq L
  <2>. HIDE DEF L
  <2>. QED  BY <1>6, TextFacts
<1>8. t # <<>> /\ t[1] = <<"v">> /\ k \in DOMAIN t /\ t[k] = x
  <2>1. DOMAIN t = 1..Len(t)
    <3>. HIDE DEF L
    <3>. QED  BY <1>6
  <2>2. 1 \in 1..Len(t) /\ 1 < k /\ k \in 1..Len(t) /\ ~(k < k)
    BY <1>2, <1>3, <1>6
  <2>3. t[1] = s[1]
    BY <1>6, <2>2
  <2>4. t[k] = x
    BY <1>6, <2>2
  <2>5. t # <<>>
    BY <2>1, <2>2
  <2>. QED  BY <1>1, <2>1, <2>2, <2>3, <2>4, <2>5
<1>9. Body(t)
  BY <1>7, <1>8 DEF Body
<1>10. Sealed(t, e)
  <2>1. Has(t, "identity")
    BY <1>5, <1>8 DEF Has
  <2>2. \A l \in ToSet(t) : l[1] = "identity" => l = x
    BY <1>4, <1>7
  <2>. QED  BY <1>5, <2>1, <2>2 DEF Sealed
<1>11. StripIdentity(t) = s
  <2>1. Rewrites(g, L)
    <3>. HIDE DEF L, K
    <3>. QED  BY FilterRewrites
  <2>2. g[x] = <<>>
    BY <1>5 DEF Filter, OfKind
  <2>3. StripIdentity(t) = FlatMap(t, g)
    <3>. HIDE DEF L
    <3>. QED  BY <1>6, WithoutIs DEF StripIdentity
  <2>4. FlatMap(t, g) = FlatMap(s, g)
    <3>. HIDE DEF L, g
    <3>. QED  BY <1>3, <2>1, <2>2, InsertedAndDropped DEF t
  <2>5. \A i \in 1..Len(s) : g[s[i]] = <<s[i]>>
    <3>1. \A i \in 1..Len(s) : s[i] \in ToSet(s)
      BY <1>1
    <3>2. \A l \in ToSet(s) : g[l] = <<l>>
      BY <1>4 DEF Filter, OfKind
    <3>. HIDE DEF g
    <3>. QED  BY <3>1, <3>2
  <2>6. FlatMap(s, g) = s
    <3>. HIDE DEF L, g
    <3>. QED  BY <1>3, <2>1, <2>5, FlatMapSame
  <2>. QED  BY <2>3, <2>4, <2>6
<1>. QED  BY <1>2, <1>9, <1>10, <1>11 DEF t

(* extract_identity of a text with one assertion, however often it is there. *)
LEMMA SealedExtract ==
    ASSUME NEW s, NEW e, Text(s), Sealed(s, e)
    PROVE  ExtractIdentity(s) = {e}
<1>1. PICK l \in ToSet(s) : l[1] = "identity" /\ ExtractIdentity(s) = {l[2]}
  BY ExtractFacts DEF Sealed
<1>. QED  BY <1>1 DEF Sealed

-----------------------------------------------------------------------------
(* _local_sdp. *)

(* A rewriting that replaces every line by one line. *)
LEMMA FlatMapMap ==
    ASSUME NEW L, NEW s \in Seq(L), NEW t \in Seq(L), Len(t) = Len(s), NEW g,
           \A i \in 1..Len(s) : g[s[i]] = <<t[i]>>
    PROVE  FlatMap(s, g) = t
<1>. DEFINE id == [l \in L |-> <<l>>]
<1>1. Rewrites(id, L)
  <2>1. \A l \in L : <<l>> \in Seq(L)
    OBVIOUS
  <2>. QED  BY <2>1 DEF Rewrites
<1>2. DOMAIN s = 1..Len(s) /\ DOMAIN t = 1..Len(s) /\ \A i \in 1..Len(s) : t[i] \in L
  OBVIOUS
<1>3. \A i \in 1..Len(s) : id[t[i]] = <<t[i]>>
  BY <1>2
<1>. HIDE DEF id
<1>4. FlatMap(t, id) = t
  BY <1>1, <1>3, FlatMapSame
<1>5. Parts(s, g) = Parts(t, id)
  BY <1>2, <1>3 DEF Parts
<1>. QED  BY <1>4, <1>5 DEF FlatMap

LEMMA FlatMapPair ==
    ASSUME NEW L, NEW a \in L, NEW b \in L, NEW g, Rewrites(g, L)
    PROVE  FlatMap(<<a, b>>, g) = g[a] \o g[b]
<1>. DEFINE u == <<a>>
            v == <<b>>
<1>1. u \in Seq(L) /\ v \in Seq(L)
  OBVIOUS
<1>0. <<a, b>> = u \o v
  <2>1. Len(u) = 1 /\ Len(v) = 1 /\ u[1] = a /\ v[1] = b
    OBVIOUS
  <2>2. /\ Len(u \o v) = Len(u) + Len(v)
        /\ \A i \in 1..(Len(u) + Len(v)) : (u \o v)[i] = IF i <= Len(u) THEN u[i] ELSE v[i - Len(u)]
    <3>. HIDE DEF u, v
    <3>. QED  BY ONLY <1>1, ConcatProperties
  <2>3. DOMAIN <<a, b>> = 1..2 /\ <<a, b>>[1] = a /\ <<a, b>>[2] = b
    OBVIOUS
  <2>4. (u \o v)[1] = a /\ (u \o v)[2] = b
    <3>. HIDE DEF u, v
    <3>1. 1 \in 1..(1 + 1) /\ 2 \in 1..(1 + 1) /\ 2 - 1 = 1 /\ ~(2 <= 1)
      OBVIOUS
    <3>2. (u \o v)[1] = u[1]
      BY <2>1, <2>2, <3>1
    <3>3. (u \o v)[2] = v[1]
      BY <2>1, <2>2, <3>1
    <3>. QED  BY <2>1, <3>2, <3>3
  <2>5. (u \o v) \in Seq(L) /\ <<a, b>> \in Seq(L) /\ Len(u \o v) = 2 /\ Len(<<a, b>>) = 2
    <3>1. <<a, b>> \in Seq(L) /\ Len(<<a, b>>) = 2
      OBVIOUS
    <3>. HIDE DEF u, v
    <3>. QED  BY <1>1, <2>1, <2>2, <3>1
  <2>6. \A i \in 1..2 : (u \o v)[i] = <<a, b>>[i]
    <3>1. \A i \in 1..2 : i = 1 \/ i = 2
      OBVIOUS
    <3>. HIDE DEF u, v
    <3>. QED  BY <2>3, <2>4, <3>1
  <2>. DEFINE p == u \o v
              q == <<a, b>>
  <2>7. p \in Seq(L) /\ q \in Seq(L) /\ Len(p) = Len(q) /\ \A i \in 1..Len(p) : p[i] = q[i]
    BY <2>5, <2>6
  <2>8. p = q
    <3>. HIDE DEF p, q
    <3>. QED  BY <2>7, SeqEqual
  <2>. QED  BY <2>8
<1>2. FlatMap(u, g) = g[a] /\ FlatMap(v, g) = g[b]
  BY FlatMapSingle
<1>. HIDE DEF u, v
<1>3. FlatMap(u \o v, g) = FlatMap(u, g) \o FlatMap(v, g)
  BY <1>1, FlatMapConcat
<1>. QED  BY <1>0, <1>2, <1>3

(* A rewriting that drops, keeps or replaces lines by the size line, or      *)
(* appends it, but neither touches the first line nor fingerprints.          *)
Edits(g, L) ==
    /\ MaxMessageSize \in L
    /\ \A l \in L : /\ g[l] \in {<<>>, <<l>>, <<MaxMessageSize>>, <<l, MaxMessageSize>>}
                    /\ l = <<"v">> \/ l[1] = "fingerprint" => g[l] = <<l>>

LEMMA EditsRewrite ==
    ASSUME NEW g, NEW L, g = [l \in L |-> g[l]], Edits(g, L)
    PROVE  Rewrites(g, L)
<1>1. ASSUME NEW l \in L PROVE g[l] \in Seq(L)
  <2>1. MaxMessageSize \in L /\ g[l] \in {<<>>, <<l>>, <<MaxMessageSize>>, <<l, MaxMessageSize>>}
    BY DEF Edits
  <2>2. <<>> \in Seq(L) /\ <<l>> \in Seq(L) /\ <<MaxMessageSize>> \in Seq(L)
    BY <2>1
  <2>3. <<l, MaxMessageSize>> \in Seq(L)
    BY <2>1
  <2>. QED  BY <2>1, <2>2, <2>3
<1>. QED  BY <1>1 DEF Rewrites

LEMMA EditsFacts ==
    ASSUME NEW s, Plain(s), NEW L, s \in Seq(L), NEW g, Edits(g, L), Rewrites(g, L)
    PROVE  Plain(FlatMap(s, g)) /\ FingerprintPayload(FlatMap(s, g)) = FingerprintPayload(s)
<1>. DEFINE t == FlatMap(s, g)
<1>1. s # <<>> /\ s[1] = <<"v">> /\ ~Has(s, "identity") /\ s[1] \in L
  BY DEF Plain, Body
<1>2. MaxMessageSize \in L /\ MaxMessageSize[1] = "max-message-size"
  BY DEF Edits, MaxMessageSize
<1>3. \A l \in L : g[l] \in {<<>>, <<l>>, <<MaxMessageSize>>, <<l, MaxMessageSize>>}
  BY DEF Edits
<1>4. \A l \in L : l = <<"v">> \/ l[1] = "fingerprint" => g[l] = <<l>>
  BY DEF Edits
<1>5. t \in Seq(L)
  BY FlatMapType
<1>6. t # <<>> /\ t[1] = <<"v">>
  <2>1. g[s[1]] = <<s[1]>>
    BY <1>1, <1>4
  <2>. QED  BY <1>1, <2>1, FlatMapHead
<1>7. ~Has(t, "identity")
  <2>1. ASSUME NEW x \in ToSet(t) PROVE x[1] # "identity"
    <3>1. PICK l \in ToSet(s) : x \in ToSet(g[l])
      BY FlatMapLines
    <3>2. l \in L
      BY DEF ToSet
    <3>3. x \in {l, MaxMessageSize}
      BY <1>3, <3>1, <3>2 DEF ToSet
    <3>4. l[1] # "identity"
      BY <1>1, HasLines
    <3>. QED  BY <1>2, <3>3, <3>4
  <2>. QED  BY <2>1, HasLines
<1>8. Plain(t)
  <2>. HIDE DEF t
  <2>. QED  BY <1>5, <1>6, <1>7, TextFacts DEF Plain, Body
<1>9. FingerprintPayload(t) = FingerprintPayload(s)
  <2>. DEFINE h == Filter(L, OfKind(L, {"fingerprint"}))
  <2>1. Rewrites(h, L)
    BY FilterRewrites
  <2>2. /\ h[MaxMessageSize] = <<>>
        /\ \A l \in L : l[1] # "fingerprint" => h[l] = <<>>
    BY <1>2 DEF Filter, OfKind
  <2>. HIDE DEF h
  <2>3. \A l \in L : FlatMap(<<l>>, h) = h[l] /\ FlatMap(<<l, MaxMessageSize>>, h) = h[l] \o h[MaxMessageSize]
    <3>1. \A l \in L : FlatMap(<<l>>, h) = h[l]
      BY ONLY <2>1, FlatMapSingle
    <3>. DEFINE max == MaxMessageSize
    <3>2. max \in L
      BY <1>2
    <3>. HIDE DEF max
    <3>3. \A l \in L : FlatMap(<<l, max>>, h) = h[l] \o h[max]
      BY ONLY <2>1, <3>2, FlatMapPair
    <3>. QED  BY <3>1, <3>3 DEF max
  <2>4. ASSUME NEW l \in L PROVE h[l] = FlatMap(g[l], h)
    <3>1. CASE l[1] = "fingerprint"
      BY <1>4, <2>3, <3>1
    <3>2. CASE l[1] # "fingerprint"
      <4>1. h[l] = <<>>
        BY <2>2, <3>2
      <4>2. FlatMap(<<MaxMessageSize>>, h) = <<>>
        BY <1>2, <2>2, <2>3
      <4>3. FlatMap(<<l, MaxMessageSize>>, h) = <<>> /\ FlatMap(<<l>>, h) = <<>>
        <5>1. <<>> \o <<>> = <<>>
          OBVIOUS
        <5>. QED  BY <2>2, <2>3, <4>1, <5>1
      <4>4. FlatMap(<<>>, h) = <<>>
        BY FlatMapEmpty
      <4>. QED  BY <1>3, <4>1, <4>2, <4>3, <4>4
    <3>. QED  BY <3>1, <3>2
  <2>5. FlatMap(FlatMap(s, g), h) = FlatMap(s, h)
    BY <2>1, <2>4, FlatMapTwice
  <2>6. Only(s, "fingerprint") = FlatMap(s, h)
    BY OnlyIs DEF h
  <2>7. Only(t, "fingerprint") = FlatMap(t, h)
    <3>. HIDE DEF t
    <3>. QED  BY <1>5, OnlyIs DEF h
  <2>. QED  BY <2>5, <2>6, <2>7 DEF FingerprintPayload
<1>. QED  BY <1>8, <1>9

LEMMA SizedFacts ==
    ASSUME NEW s, Plain(s)
    PROVE  /\ Plain(SetMaxMessageSize(s))
           /\ FingerprintPayload(SetMaxMessageSize(s)) = FingerprintPayload(s)
<1>. DEFINE L == ToSet(s) \cup {MaxMessageSize}
            t == SetMaxMessageSize(s)
<1>1. s \in Seq(ToSet(s)) /\ MaxMessageSize \in L
  BY DEF Plain, Body, Text
<1>2. /\ s \in Seq(L) /\ DOMAIN s = 1..Len(s) /\ Len(s) \in Nat
      /\ \A i \in 1..Len(s) : s[i] \in L
  <2>1. Len(s) \in Nat /\ DOMAIN s = 1..Len(s) /\ \A i \in 1..Len(s) : s[i] \in ToSet(s)
    BY <1>1
  <2>2. s \in [1..Len(s) -> L]
    BY <1>1, <2>1
  <2>. HIDE DEF L
  <2>. QED  BY <2>1, <2>2
<1>3. CASE Has(s, "max-message-size")
  <2>. DEFINE g == [l \in L |-> IF l[1] = "max-message-size" THEN <<MaxMessageSize>> ELSE <<l>>]
  <2>1. Edits(g, L) /\ g = [l \in L |-> g[l]]
    <3>1. MaxMessageSize \in L
      BY <1>1
    <3>. HIDE DEF L
    <3>. QED  BY <3>1 DEF Edits
  <2>2. Rewrites(g, L)
    <3>. HIDE DEF L, g
    <3>. QED  BY <2>1, EditsRewrite
  <2>3. t = [i \in 1..Len(s) |-> IF s[i][1] = "max-message-size" THEN MaxMessageSize ELSE s[i]]
    BY <1>2, <1>3 DEF SetMaxMessageSize
  <2>4. t \in Seq(L) /\ Len(t) = Len(s)
    <3>1. MaxMessageSize \in L
      BY <1>1
    <3>. HIDE DEF L, t
    <3>2. t \in [1..Len(s) -> L]
      BY <1>2, <2>3, <3>1
    <3>. QED  BY <1>2, <3>2
  <2>5. \A i \in 1..Len(s) : g[s[i]] = <<t[i]>>
    <3>. HIDE DEF L, t
    <3>. QED  BY <1>2, <2>3
  <2>6. FlatMap(s, g) = t
    <3>. HIDE DEF L, g, t
    <3>. QED  BY <1>2, <2>4, <2>5, FlatMapMap
  <2>7. Plain(FlatMap(s, g)) /\ FingerprintPayload(FlatMap(s, g)) = FingerprintPayload(s)
    <3>. HIDE DEF L, g
    <3>. QED  BY <1>2, <2>1, <2>2, EditsFacts
  <2>. QED  BY <2>6, <2>7
<1>4. CASE ~Has(s, "max-message-size")
  <2>. DEFINE g == [l \in L |-> IF l[1] = "sctp-port" THEN <<l, MaxMessageSize>> ELSE <<l>>]
  <2>1. Edits(g, L) /\ g = [l \in L |-> g[l]]
    <3>1. MaxMessageSize \in L
      BY <1>1
    <3>. HIDE DEF L
    <3>. QED  BY <3>1 DEF Edits
  <2>2. Rewrites(g, L)
    <3>. HIDE DEF L, g
    <3>. QED  BY <2>1, EditsRewrite
  <2>3. Parts(s, g) = [i \in DOMAIN s |->
                          IF s[i][1] = "sctp-port" THEN <<s[i], MaxMessageSize>> ELSE <<s[i]>>]
    <3>. HIDE DEF L
    <3>. QED  BY <1>2 DEF Parts
  <2>4. t = FlatMap(s, g)
    BY <1>4, <2>3 DEF SetMaxMessageSize, FlatMap
  <2>5. Plain(FlatMap(s, g)) /\ FingerprintPayload(FlatMap(s, g)) = FingerprintPayload(s)
    <3>. HIDE DEF L, g
    <3>. QED  BY <1>2, <2>1, <2>2, EditsFacts
  <2>. QED  BY <2>4, <2>5
<1>. QED  BY <1>3, <1>4

LEMMA RelayOnlyFacts ==
    ASSUME NEW s, Plain(s)
    PROVE  /\ Plain(KeepOnlyRelayCandidates(s))
           /\ FingerprintPayload(KeepOnlyRelayCandidates(s)) = FingerprintPayload(s)
<1>. DEFINE L == ToSet(s) \cup {MaxMessageSize}
            K == {l \in L : l[1] = "candidate" => l[3] = "relay"}
            I == {i \in DOMAIN s : s[i][1] = "candidate" => s[i][3] = "relay"}
            g == Filter(L, K)
<1>1. s \in Seq(ToSet(s)) /\ MaxMessageSize \in L
  BY DEF Plain, Body, Text
<1>2. /\ s \in Seq(L) /\ DOMAIN s = 1..Len(s) /\ \A i \in 1..Len(s) : s[i] \in L
  <2>1. Len(s) \in Nat /\ DOMAIN s = 1..Len(s) /\ \A i \in 1..Len(s) : s[i] \in ToSet(s)
    BY <1>1
  <2>2. s \in [1..Len(s) -> L]
    BY <1>1, <2>1
  <2>. HIDE DEF L
  <2>. QED  BY <2>1, <2>2
<1>3. Edits(g, L)
  <2>1. MaxMessageSize \in L
    BY <1>1
  <2>. HIDE DEF L
  <2>2. \A l \in L : l = <<"v">> \/ l[1] = "fingerprint" => l[1] # "candidate"
    OBVIOUS
  <2>. QED  BY <2>1, <2>2 DEF Edits, Filter
<1>4. Rewrites(g, L)
  BY FilterRewrites
<1>5. \A i \in DOMAIN s : i \in I <=> s[i] \in K
  <2>. HIDE DEF L
  <2>. QED  BY <1>2
<1>6. Keep(s, I) = FlatMap(s, g)
  <2>. HIDE DEF L, K, I
  <2>. QED  BY <1>2, <1>5, KeepIs
<1>7. Plain(FlatMap(s, g)) /\ FingerprintPayload(FlatMap(s, g)) = FingerprintPayload(s)
  <2>. HIDE DEF L, g
  <2>. QED  BY <1>2, <1>3, <1>4, EditsFacts
<1>. QED  BY <1>6, <1>7 DEF KeepOnlyRelayCandidates

(* _local_sdp leaves a description a description, with its fingerprints. *)
LEMMA LocalSdpFacts ==
    ASSUME NEW s, Plain(s), NEW relay_only
    PROVE  /\ Plain(LocalSdp(s, relay_only))
           /\ FingerprintPayload(LocalSdp(s, relay_only)) = FingerprintPayload(s)
<1>. DEFINE t == SetMaxMessageSize(s)
<1>1. Plain(t) /\ FingerprintPayload(t) = FingerprintPayload(s)
  BY SizedFacts
<1>. HIDE DEF t
<1>2. Plain(KeepOnlyRelayCandidates(t)) /\ FingerprintPayload(KeepOnlyRelayCandidates(t)) = FingerprintPayload(t)
  BY <1>1, RelayOnlyFacts
<1>. QED  BY <1>1, <1>2 DEF LocalSdp, t

-----------------------------------------------------------------------------
(* Assertions. *)

(* What a signer with the key puts into its answer s at time t. *)
Assertion(s, key, t, lifetime) == Envelope(Token(key, t, lifetime), SignFingerprints(s, key))

(* The only assertion in the text that is well formed is e. *)
Vouched(s, e) == \A l \in ToSet(s) : l[1] = "identity" /\ l[2].wellformed => l[2] = e

LEMMA SignFacts ==
    ASSUME NEW s, Plain(s), NEW key, NEW t, NEW lifetime
    PROVE  /\ Body(Sign(s, key, t, lifetime))
           /\ Sealed(Sign(s, key, t, lifetime), Assertion(s, key, t, lifetime))
           /\ StripIdentity(Sign(s, key, t, lifetime)) = s
BY InsertFacts DEF Sign, Assertion

LEMMA AlgFacts ==
    ASSUME NEW key, AlgForKey(key) # {}
    PROVE  AlgOf(key) \in Algorithms
<1>1. AlgOf(key) \in AlgForKey(key)
  BY DEF AlgOf
<1>. QED  BY <1>1 DEF AlgForKey

(* _verify_raw of what sign_fingerprints and _sign_jwt signed. *)
LEMMA SignatureFacts ==
    ASSUME NEW key, AlgForKey(key) # {}, NEW s, NEW t, NEW lifetime, NEW u
    PROVE  LET e == Assertion(s, key, t, lifetime)
           IN  /\ e.wellformed /\ e.token = Token(key, t, lifetime) /\ e.token.cpk = key
               /\ VerifyRaw(key, e.token.alg, <<e.token.alg, key, e.token.exp>>, e.token.sig)
               /\ VerifyFingerprints(u, e.fingerprints, key)
                    <=> FingerprintPayload(u) = FingerprintPayload(s)
<1>. DEFINE e == Assertion(s, key, t, lifetime)
            alg == AlgOf(key)
            tok == Token(key, t, lifetime)
<1>1. alg \in Algorithms
  BY AlgFacts
<1>2. e.wellformed /\ e.token = tok /\ e.fingerprints = SignFingerprints(s, key)
  BY DEF Assertion, Envelope
<1>3. tok.alg = alg /\ tok.cpk = key /\ tok.sig = <<key, alg, <<alg, key, tok.exp>>>>
  BY DEF Token, SignRaw
<1>4. VerifyRaw(key, tok.alg, <<tok.alg, key, tok.exp>>, tok.sig)
  <2>. HIDE DEF tok, alg
  <2>. QED  BY <1>1, <1>3 DEF VerifyRaw, SignRaw
<1>5. /\ SignFingerprints(s, key).alg = alg
      /\ SignFingerprints(s, key).sig = <<key, alg, <<alg, FingerprintPayload(s)>>>>
  BY DEF SignFingerprints, SignRaw
<1>6. VerifyFingerprints(u, SignFingerprints(s, key), key)
         <=> <<key, alg, <<alg, FingerprintPayload(s)>>>> = <<key, alg, <<alg, FingerprintPayload(u)>>>>
  <2>. HIDE DEF alg
  <2>. QED  BY <1>1, <1>5 DEF VerifyFingerprints, VerifyRaw, SignRaw
<1>7. <<key, alg, <<alg, FingerprintPayload(s)>>>> = <<key, alg, <<alg, FingerprintPayload(u)>>>>
         <=> FingerprintPayload(u) = FingerprintPayload(s)
  <2>. DEFINE p == FingerprintPayload(s)
              q == FingerprintPayload(u)
  <2>. HIDE DEF p, q, alg
  <2>1. <<key, alg, <<alg, p>>>> = <<key, alg, <<alg, q>>>> => p = q
    OBVIOUS
  <2>. QED  BY <2>1 DEF p, q
<1>. QED  BY <1>2, <1>3, <1>4, <1>6, <1>7

(* Soundness of verify_server_identity: it returns the key of the only well   *)
(* formed assertion, for a live token and the fingerprints that were signed.  *)
LEMMA VerifySound ==
    ASSUME NEW body, Text(body), NEW s, NEW key, AlgForKey(key) # {}, NEW t, NEW lifetime,
           Vouched(body, Assertion(s, key, t, lifetime)), NEW now,
           NEW k \in VerifyServerIdentity(body, now)
    PROVE  /\ k = key /\ Live(Token(key, t, lifetime), now)
           /\ FingerprintPayload(StripIdentity(body)) = FingerprintPayload(s)
<1>. DEFINE e == Assertion(s, key, t, lifetime)
<1>1. PICK f \in ExtractIdentity(body) :
         /\ k = f.token.cpk /\ f.wellformed /\ Live(f.token, now)
         /\ VerifyFingerprints(StripIdentity(body), f.fingerprints, f.token.cpk)
  BY DEF VerifyServerIdentity
<1>2. f = e
  <2>1. Has(body, "identity")
    BY <1>1, ExtractFacts
  <2>2. PICK l \in ToSet(body) : l[1] = "identity" /\ ExtractIdentity(body) = {l[2]}
    BY <2>1, ExtractFacts
  <2>3. f = l[2]
    BY <2>2
  <2>. QED  BY <1>1, <2>2, <2>3 DEF Vouched
<1>3. /\ e.wellformed /\ e.token = Token(key, t, lifetime) /\ e.token.cpk = key
      /\ VerifyFingerprints(StripIdentity(body), e.fingerprints, key)
           <=> FingerprintPayload(StripIdentity(body)) = FingerprintPayload(s)
  <2>. DEFINE u == StripIdentity(body)
  <2>. HIDE DEF u
  <2>1. /\ e.wellformed /\ e.token = Token(key, t, lifetime) /\ e.token.cpk = key
        /\ VerifyRaw(key, e.token.alg, <<e.token.alg, key, e.token.exp>>, e.token.sig)
        /\ VerifyFingerprints(u, e.fingerprints, key)
             <=> FingerprintPayload(u) = FingerprintPayload(s)
    BY SignatureFacts
  <2>. QED  BY <2>1 DEF u
<1>. HIDE DEF e
<1>. QED  BY <1>1, <1>2, <1>3

(* Completeness: an answer as it was signed is refused only if it expired. *)
LEMMA VerifyComplete ==
    ASSUME NEW s, Plain(s), NEW key, AlgForKey(key) # {}, NEW t, NEW lifetime, NEW now,
           Live(Token(key, t, lifetime), now)
    PROVE  VerifyServerIdentity(Sign(s, key, t, lifetime), now) = {key}
<1>. DEFINE e == Assertion(s, key, t, lifetime)
            body == Sign(s, key, t, lifetime)
<1>1. Text(body) /\ Sealed(body, e) /\ StripIdentity(body) = s
  BY SignFacts DEF Body
<1>2. /\ e.wellformed /\ e.token = Token(key, t, lifetime) /\ e.token.cpk = key
      /\ VerifyRaw(key, e.token.alg, <<e.token.alg, key, e.token.exp>>, e.token.sig)
      /\ VerifyFingerprints(s, e.fingerprints, key)
  BY SignatureFacts
<1>. HIDE DEF e, body
<1>3. ExtractIdentity(body) = {e}
  BY <1>1, SealedExtract
<1>4. e \in {f \in ExtractIdentity(body) :
        /\ f.wellformed
        /\ VerifyRaw(f.token.cpk, f.token.alg, <<f.token.alg, f.token.cpk, f.token.exp>>,
                     f.token.sig)
        /\ Live(f.token, now)
        /\ VerifyFingerprints(StripIdentity(body), f.fingerprints, f.token.cpk)}
  BY <1>1, <1>2, <1>3
<1>5. VerifyServerIdentity(body, now) = {e.token.cpk}
  BY <1>3, <1>4 DEF VerifyServerIdentity
<1>. QED  BY <1>2, <1>5 DEF body
=============================================================================
