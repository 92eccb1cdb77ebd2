--------------------------- MODULE HttpJoinProofs ---------------------------
(***************************************************************************)
(* What the run of HttpJoin.tla checks on a small instance, proved for     *)
(* every description, id, key, token lifetime and clock.                   *)
(***************************************************************************)
EXTENDS HttpJoin, OperatorProofs

-----------------------------------------------------------------------------
(* The inductive invariant. *)

(* The fields of the records. *)
Shapes ==
    /\ client = [at |-> client.at, why |-> client.why, from |-> client.from,
                 heard |-> client.heard, key |-> client.key, answer |-> client.answer,
                 applied |-> client.applied]
    /\ host = [at |-> host.at, remote |-> host.remote, offer |-> host.offer,
               expires |-> host.expires]
    /\ \A r \in reply : r = [status |-> r.status, body |-> r.body, from |-> r.from]
    /\ \A q \in request : q = [path |-> q.path, body |-> q.body]
    /\ opts.local \in NetworkIds /\ clock \in 0..MaxTime

(* The one POST is before its sending, on its way, with the host, on its way  *)
(* back as a response, or answered; a host that was not asked is idle.        *)
Traffic ==
    /\ client.at \in {"offer", "probe"} \/ client.why = Code(NO_SIGNALING_CHANNEL)
          => request = {} /\ reply = {} /\ host.at = "idle"
    /\ client.at = "probe" => opts.capability_check
    /\ client.why = Code(NO_SIGNALING_CHANNEL) => client.from = "other" \/ opts.capability_check
    /\ host.at # "idle" \/ reply # {} => request = {}
    /\ host.at \notin {"idle", "done"} => reply = {}
    /\ client.from # "none" => request = {} /\ reply = {} /\ host.at \in {"idle", "done"}
    /\ client.from = "other" => host.at = "idle"
    /\ client.why \in {Code(0), Code(37)} => client.from = "other"
    /\ client.at \in {"offer", "probe", "post"} =>
          /\ client.from = "none" /\ client.why = <<"none">>
    /\ client.from = "none" =>
          /\ client.key = {} /\ client.applied = <<>> /\ client.at # "verify"

(* The envelopes in a text are records that a proxy can damage. *)
Formed(s) == Text(s) /\ \A l \in ToSet(s) : l[1] = "identity" => "wellformed" \in DOMAIN l[2]

(* The offer on its way, and with the host. *)
Offers ==
    /\ \A q \in request :
          /\ q.path = IdText(opts.local) /\ Formed(q.body)
          /\ Malformed(q.body) \/ StripIdentity(q.body) = LocalSdp(ClientSdp, FALSE)
    /\ host.offer # <<>> =>
          host.offer = LocalSdp(ClientSdp, FALSE) /\ host.remote = opts.local
    /\ host.at \in {"validate", "set_remote", "set_local", "raises"} => host.offer # <<>>

(* The answer of the host, and what a proxy can make of it: signs is         *)
(* opts.host_signs, expires host.expires.                                    *)
Answer == LocalSdp(HostSdp, TRUE)
SignedAt(t, expires) == expires = Token(HostKey, t, Lifetime).exp
HostBody(body, signs, expires) ==
    IF signs
    THEN \E t \in 0..MaxTime :
            body = Sign(Answer, HostKey, t, Lifetime) /\ SignedAt(t, expires)
    ELSE body = Answer
ProxyBody(body, expires) ==
    /\ Body(body)
    /\ \/ ~Has(body, "identity")
       \/ \E t \in 0..MaxTime :
             Vouched(body, Assertion(Answer, HostKey, t, Lifetime)) /\ SignedAt(t, expires)

Replies ==
    \A r \in reply :
        /\ r.from \in {"host", "proxy", "other"}
        /\ r.from = "host" =>
              host.at = "done" /\ (r.status = 200 => HostBody(r.body, opts.host_signs, host.expires))
        /\ r.from = "proxy" /\ r.status = 200 =>
              host.at = "done" /\ ProxyBody(r.body, host.expires)
        /\ r.from = "other" => host.at = "idle" /\ r.status = 200 /\ r.body \in OtherBodies

(* What the client made of it. *)
Heard ==
    /\ client.from \in {"none", "host", "proxy", "other"}
    /\ client.key \subseteq {HostKey, OtherKey}
    /\ ~Has(client.applied, "identity") /\ ~Has(client.answer, "identity")
    /\ client.from = "host" =>
          /\ client.applied \in {<<>>, Answer}
          /\ client.at = "verify" => client.answer = Answer

(* A session of either side.  A close has a code of Session's own. *)
Codes == {ICE, FAILED_TO_CREATE_ANSWER, WAITING_FOR_RESPONSE, WAITING_FOR_ACCEPT,
          DATA_CHANNEL_CLOSED, GENERIC_FAILURE}
SideOK(s) ==
    /\ s \in Sessions /\ RecordOK(s)
    /\ s.state = "CLOSED" => s.closes > 0
    /\ s.closes > 0 => s.error \in Codes

(* The client's session is closed whenever connect_http raises; the host has  *)
(* none until validate_offer returned, and one that could not answer is not   *)
(* answered for.                                                              *)
Ends ==
    /\ SideOK(cs) /\ SideOK(hs) /\ cs.error # FAILED_TO_CREATE_ANSWER
    /\ client.at \in {"closing", "raised"} => cs.state = "CLOSED"
    /\ client.at = "raised" => cs.pc = "closed" \/ client.why = <<"interrupted">>
    /\ client.at = "returned" => cs.opens = 1
    /\ host.at \in {"idle", "validate"} \/ host.offer = <<>> => hs = NewSession(FALSE)
    /\ hs.error = FAILED_TO_CREATE_ANSWER =>
          /\ host.at \in {"raises", "done"}
          /\ client.applied = <<>> /\ client.at # "verify"
          /\ \A r \in reply : r.status # 200

Inv == Shapes /\ Traffic /\ Offers /\ Replies /\ Heard /\ Ends /\ PinnedIsGenuine

-----------------------------------------------------------------------------
(* What the steps do to a session. *)

LEMMA NewSideOK ==
    ASSUME NEW d \in BOOLEAN
    PROVE  /\ SideOK(NewSession(d)) /\ NewSession(d).timeout = NoTimer
           /\ NewSession(d).local_set = FALSE /\ NewSession(d).closes = 0
           /\ NewSession(d).error # FAILED_TO_CREATE_ANSWER
<1>1. <<>> \in Seq(MessageKinds) /\ <<>> \in Seq(Candidates)
  OBVIOUS
<1>2. NewSession(d) \in Sessions
  BY <1>1 DEF NewSession, Sessions, SessionState, NoTimer, NONE
<1>3. RecordOK(NewSession(d))
  BY DEF NewSession, RecordOK, TimerOK, ChannelsOK
<1>. QED  BY <1>2, <1>3 DEF SideOK, NewSession, NONE, FAILED_TO_CREATE_ANSWER

LEMMA CodesAreInt == Codes \subseteq Int
BY DEF Codes, ICE, FAILED_TO_CREATE_ANSWER, WAITING_FOR_RESPONSE, WAITING_FOR_ACCEPT,
       DATA_CHANNEL_CLOSED, GENERIC_FAILURE

(* close, with a code of the session's own. *)
LEMMA SideClose ==
    ASSUME NEW s, SideOK(s), NEW err \in Codes
    PROVE  LET t == Close(s, err)
           IN  /\ SideOK(t) /\ t.state = "CLOSED" /\ t.pc = s.pc /\ t.opens = s.opens
               /\ t.error \in {s.error, err}
<1>. DEFINE t == Close(s, err)
<1>1. s \in Sessions /\ RecordOK(s) /\ err \in Int /\ s.closes \in Nat
  BY CodesAreInt DEF SideOK, Sessions
<1>2. t \in Sessions /\ RecordOK(t)
  BY <1>1, CloseType, CloseOK
<1>3. CASE s.state = "CLOSED"
  BY <1>3 DEF Close
<1>4. CASE s.state # "CLOSED"
  <2>1. /\ t.state = "CLOSED" /\ t.pc = s.pc /\ t.opens = s.opens /\ t.error = err
        /\ t.closes = s.closes + 1
    BY <1>1, <1>4 DEF Close, CancelTimeout, Sessions
  <2>. HIDE DEF t
  <2>. QED  BY <1>1, <1>2, <2>1 DEF SideOK, t
<1>. QED  BY <1>3, <1>4

(* The resumptions of offer and answer, and the start of accept_answer. *)
LEMMA SideEntry ==
    ASSUME NEW s, SideOK(s),
           NEW t \in {OfferResumed(s), AnswerResumed(s), ResponseReceived(s), RemoteDescriptionSet(s)}
    PROVE  SideOK(t) /\ t.error = s.error /\ t.opens = s.opens
<1>1. s \in Sessions /\ RecordOK(s)
  BY DEF SideOK
<1>2. t \in Sessions /\ RecordOK(t)
  BY <1>1, EntryType, EntryOK, CandidateType, CandidateOK
<1>3. t.closes = s.closes /\ t.error = s.error /\ t.opens = s.opens
  BY <1>1 DEF OfferResumed, AnswerResumed, ResponseReceived, RemoteDescriptionSet, ArmTimeout, Sessions
<1>4. t.state = "CLOSED" => s.state = "CLOSED"
  BY <1>1 DEF OfferResumed, AnswerResumed, ResponseReceived, RemoteDescriptionSet, ArmTimeout, Sessions
<1>. QED  BY <1>2, <1>3, <1>4 DEF SideOK

(* A timer or a callback of the transport: a closed session stays closed, no  *)
(* on_open is taken back, and no code of an entry point is reported.          *)
Moves(s, t) ==
    /\ SideOK(t) /\ (s.state = "CLOSED" => t.state = "CLOSED")
    /\ s.pc = "closed" => t.pc = "closed"
    /\ t.opens >= s.opens
    /\ t.error = FAILED_TO_CREATE_ANSWER => s.error = FAILED_TO_CREATE_ANSWER

LEMMA TimeoutMoves ==
    ASSUME NEW s, SideOK(s), s.timeout # NoTimer
    PROVE  Moves(s, TimeoutExpires(s))
<1>1. s \in Sessions /\ s.timeout \in {WAITING_FOR_RESPONSE, WAITING_FOR_ACCEPT} /\ s.opens \in Nat
  BY DEF SideOK, Sessions
<1>2. s.timeout \in Codes /\ s.timeout # FAILED_TO_CREATE_ANSWER
  BY <1>1 DEF Codes, WAITING_FOR_RESPONSE, WAITING_FOR_ACCEPT, FAILED_TO_CREATE_ANSWER
<1>. QED  BY <1>1, <1>2, SideClose DEF TimeoutExpires, Moves

LEMMA ChannelMoves ==
    ASSUME NEW s, SideOK(s), NEW r \in BOOLEAN
    PROVE  Moves(s, HandleChannelOpen(s, r)) /\ HandleChannelOpen(s, r).pc = s.pc
<1>. DEFINE Keeps(u, v) == /\ v.closes = u.closes /\ v.pc = u.pc /\ v.error = u.error
                           /\ v.opens >= u.opens /\ (v.state = "CLOSED" <=> u.state = "CLOSED")
<1>0. s \in Sessions /\ RecordOK(s) /\ s.opens \in Nat
  BY DEF SideOK, Sessions
<1>1. ASSUME NEW u \in Sessions PROVE Keeps(u, HandleChannelsOpen(u))
  BY DEF HandleChannelsOpen, CancelTimeout, Sessions
<1>2. ASSUME NEW u \in Sessions PROVE Keeps(u, FireChannelsOpen(u))
  <2>. DEFINE v == [u EXCEPT !.channels_open_fired = TRUE]
  <2>1. /\ v \in Sessions /\ v.closes = u.closes /\ v.pc = u.pc /\ v.error = u.error
        /\ v.opens = u.opens /\ v.state = u.state /\ u.opens \in Nat
    BY DEF Sessions
  <2>2. FireChannelsOpen(u) = HandleChannelsOpen(v) \/ FireChannelsOpen(u) = u
    BY DEF FireChannelsOpen
  <2>. HIDE DEF v
  <2>. QED  BY <1>1, <2>1, <2>2
<1>3. Keeps(s, HandleChannelOpen(s, r))
  <2>. DEFINE v == [s EXCEPT !.reliable_open = TRUE]
              w == [s EXCEPT !.unreliable_open = TRUE]
  <2>1. /\ v \in Sessions /\ v.closes = s.closes /\ v.pc = s.pc /\ v.error = s.error
        /\ v.opens = s.opens /\ v.state = s.state
    BY <1>0 DEF Sessions
  <2>2. /\ w \in Sessions /\ w.closes = s.closes /\ w.pc = s.pc /\ w.error = s.error
        /\ w.opens = s.opens /\ w.state = s.state
    BY <1>0 DEF Sessions
  <2>3. HandleChannelOpen(s, r) \in {s, FireChannelsOpen(v), FireChannelsOpen(w)}
    BY DEF HandleChannelOpen
  <2>. HIDE DEF v, w
  <2>. QED  BY <1>0, <1>2, <2>1, <2>2, <2>3
<1>4. HandleChannelOpen(s, r) \in Sessions /\ RecordOK(HandleChannelOpen(s, r))
  BY <1>0, CallbackType, ChannelOK
<1>. QED  BY <1>3, <1>4 DEF Moves, SideOK

LEMMA ChannelsMove ==
    ASSUME NEW s, SideOK(s)
    PROVE  Moves(s, HandleChannelOpen(HandleChannelOpen(s, TRUE), FALSE))
<1>. DEFINE t == HandleChannelOpen(s, TRUE)
            u == HandleChannelOpen(t, FALSE)
<1>1. Moves(s, t) /\ t.pc = s.pc
  BY ChannelMoves
<1>. HIDE DEF t
<1>2. SideOK(t)
  BY <1>1 DEF Moves
<1>3. Moves(t, u)
  BY <1>2, ChannelMoves
<1>. HIDE DEF u
<1>4. s.opens \in Nat /\ t.opens \in Nat /\ u.opens \in Nat
  BY <1>2, <1>3 DEF SideOK, Sessions, Moves
<1>5. Moves(s, u)
  BY <1>1, <1>3, <1>4 DEF Moves
<1>. QED  BY <1>5 DEF t, u

LEMMA PcMoves ==
    ASSUME NEW s, SideOK(s), NEW st \in {"failed", "closed"},
           st = "failed" => s.pc # "closed"
    PROVE  Moves(s, PcChanges(s, st))
<1>. DEFINE u == [s EXCEPT !.pc = st]
<1>0. s \in Sessions /\ RecordOK(s)
  BY DEF SideOK
<1>1. /\ u \in Sessions /\ u.closes = s.closes /\ u.pc = st /\ u.error = s.error
      /\ u.opens = s.opens /\ u.state = s.state /\ s.opens \in Nat
  BY <1>0 DEF Sessions
<1>2. SideOK(u)
  <2>1. RecordOK(u)
    BY <1>0 DEF RecordOK, TimerOK, ChannelsOK, Sessions
  <2>. HIDE DEF u
  <2>. QED  BY <1>1, <2>1 DEF SideOK
<1>3. PcChanges(s, st) = HandleConnectionState(u, st)
  BY DEF PcChanges
<1>. HIDE DEF u
<1>4. \/ PcChanges(s, st) = u \/ PcChanges(s, st) = Close(u, DATA_CHANNEL_CLOSED)
      \/ PcChanges(s, st) = Close(u, ICE)
  BY <1>3 DEF HandleConnectionState
<1>5. /\ {DATA_CHANNEL_CLOSED, ICE} \subseteq Codes
      /\ DATA_CHANNEL_CLOSED # FAILED_TO_CREATE_ANSWER /\ ICE # FAILED_TO_CREATE_ANSWER
  BY DEF Codes, DATA_CHANNEL_CLOSED, ICE, FAILED_TO_CREATE_ANSWER
<1>6. CASE PcChanges(s, st) = u
  BY <1>1, <1>2, <1>6 DEF Moves
<1>7. ASSUME NEW err \in Codes, err # FAILED_TO_CREATE_ANSWER, PcChanges(s, st) = Close(u, err)
      PROVE  Moves(s, PcChanges(s, st))
  BY <1>1, <1>2, <1>7, SideClose DEF Moves
<1>. QED  BY <1>4, <1>5, <1>6, <1>7

-----------------------------------------------------------------------------
(* What the bodies are, and what a proxy makes of them. *)

LEMMA SdpBody ==
    ASSUME NEW s, Text(s)
    PROVE  Body(s) <=> IsSdp(s)
<1>1. s \in Seq(ToSet(s))
  BY DEF Text
<1>2. s # <<>> => Head(s) = s[1]
  BY <1>1
<1>. QED  BY <1>2 DEF Body, IsSdp

LEMMA JoinDescriptions ==
    /\ Plain(OtherSdp) /\ Plain(LocalSdp(ClientSdp, FALSE)) /\ Plain(Answer)
    /\ FingerprintPayload(Answer) = FingerprintPayload(HostSdp)
<1>1. \A s \in {ClientSdp, HostSdp, OtherSdp} : Plain(s)
  <2>1. \A s \in {ClientSdp, HostSdp, OtherSdp} : Text(s) /\ IsSdp(s) /\ ~Has(s, "identity")
    BY JoinAssumption DEF Text
  <2>. QED  BY <2>1, SdpBody DEF Plain
<1>. QED  BY <1>1, LocalSdpFacts DEF Answer

LEMMA SealedFacts ==
    ASSUME NEW s, Text(s), NEW d, NEW key, NEW t, NEW lifetime,
           Sealed(s, Assertion(d, key, t, lifetime))
    PROVE  Formed(s) /\ Vouched(s, Assertion(d, key, t, lifetime))
<1>1. "wellformed" \in DOMAIN Assertion(d, key, t, lifetime)
  BY DEF Assertion, Envelope
<1>. QED  BY <1>1 DEF Sealed, Formed, Vouched

LEMMA PlainFormed ==
    ASSUME NEW s, Plain(s)
    PROVE  Formed(s)
BY HasLines DEF Plain, Body, Formed

(* A proxy that replaces lines one by one. *)
LEMMA ReplacedLines ==
    ASSUME NEW s, Text(s), NEW t, t = [i \in DOMAIN s |-> t[i]]
    PROVE  /\ Text(t) /\ DOMAIN t = DOMAIN s
           /\ Body(s) /\ t[1] = s[1] => Body(t)
<1>1. s \in Seq(ToSet(s)) /\ DOMAIN s = 1..Len(s) /\ Len(s) \in Nat
  BY DEF Text
<1>2. t \in [1..Len(s) -> ToSet(t)]
  BY <1>1 DEF ToSet
<1>3. t \in Seq(ToSet(t))
  BY <1>1, <1>2
<1>4. s # <<>> => t # <<>>
  <2>1. s # <<>> => 1 \in DOMAIN s
    BY <1>1
  <2>2. DOMAIN t = DOMAIN s
    OBVIOUS
  <2>. QED  BY <2>1, <2>2
<1>. QED  BY <1>3, <1>4 DEF Text, Body

LEMMA DamagedFacts ==
    ASSUME NEW s, Formed(s)
    PROVE  /\ Formed(Damaged(s)) /\ (Body(s) => Body(Damaged(s)))
           /\ Has(s, "identity") => Malformed(Damaged(s))
           /\ \A e : Vouched(Damaged(s), e)
<1>. DEFINE t == Damaged(s)
<1>1. Text(s) /\ \A i \in DOMAIN s : s[i][1] = "identity" => "wellformed" \in DOMAIN s[i][2]
  BY DEF Formed, ToSet
<1>2. t = [i \in DOMAIN s |-> t[i]]
  BY DEF Damaged
<1>3. \A i \in DOMAIN s : s[i][1] # "identity" => t[i] = s[i]
  BY DEF Damaged
<1>4. ASSUME NEW i \in DOMAIN s, s[i][1] = "identity"
      PROVE  t[i][1] = "identity" /\ t[i][2].wellformed = FALSE /\ "wellformed" \in DOMAIN t[i][2]
  <2>. DEFINE e == s[i][2]
              f == [e EXCEPT !.wellformed = FALSE]
  <2>1. t[i] = <<"identity", f>>
    BY <1>4 DEF Damaged
  <2>2. "wellformed" \in DOMAIN e
    BY <1>1, <1>4
  <2>. HIDE DEF e
  <2>3. f.wellformed = FALSE /\ "wellformed" \in DOMAIN f
    BY <2>2
  <2>. HIDE DEF f
  <2>. QED  BY <2>1, <2>3
<1>. HIDE DEF t
<1>5. Text(t) /\ DOMAIN t = DOMAIN s /\ (Body(s) /\ t[1] = s[1] => Body(t))
  BY <1>1, <1>2, ReplacedLines
<1>6. ASSUME NEW l \in ToSet(t), l[1] = "identity"
      PROVE  l[2].wellformed = FALSE /\ "wellformed" \in DOMAIN l[2]
  <2>1. PICK i \in DOMAIN s : l = t[i]
    BY <1>5 DEF ToSet
  <2>2. s[i][1] = "identity"
    BY <1>3, <1>6, <2>1
  <2>. QED  BY <1>4, <2>1, <2>2
<1>7. Formed(t) /\ \A e : Vouched(t, e)
  BY <1>5, <1>6 DEF Formed, Vouched
<1>8. ASSUME Body(s) PROVE Body(t)
  <2>1. s # <<>> /\ s[1] = <<"v">> /\ s \in Seq(ToSet(s))
    BY <1>8 DEF Body, Text
  <2>2. 1 \in DOMAIN s /\ s[1][1] # "identity"
    BY <2>1
  <2>. QED  BY <1>3, <1>5, <1>8, <2>2
<1>9. ASSUME Has(s, "identity") PROVE Malformed(t)
  <2>1. Has(t, "identity")
    BY <1>4, <1>5, <1>9 DEF Has
  <2>2. PICK l \in ToSet(t) : l[1] = "identity" /\ ExtractIdentity(t) = {l[2]}
    BY <1>5, <2>1, ExtractFacts
  <2>3. l[2] \in ExtractIdentity(t) /\ ~l[2].wellformed
    BY <1>6, <2>2
  <2>. QED  BY <2>3 DEF Malformed
<1>. QED  BY <1>7, <1>8, <1>9 DEF t

LEMMA RelayedFacts ==
    ASSUME NEW s, Body(s)
    PROVE  /\ Body(Relayed(s)) /\ (~Has(s, "identity") => ~Has(Relayed(s), "identity"))
           /\ \A e : Vouched(s, e) => Vouched(Relayed(s), e)
<1>. DEFINE t == Relayed(s)
<1>1. t = [i \in DOMAIN s |-> t[i]]
  BY DEF Relayed
<1>2. \A i \in DOMAIN s : t[i] = s[i] \/ t[i] = <<"fingerprint", "proxy">>
  BY DEF Relayed
<1>3. Text(s) /\ s # <<>> /\ s[1] = <<"v">> /\ s \in Seq(ToSet(s))
  BY DEF Body, Text
<1>4. t[1] = s[1]
  <2>1. 1 \in DOMAIN s /\ s[1][1] # "fingerprint"
    BY <1>3
  <2>. QED  BY <2>1 DEF Relayed
<1>. HIDE DEF t
<1>5. Body(t) /\ DOMAIN t = DOMAIN s
  BY <1>1, <1>3, <1>4, ReplacedLines
<1>6. \A l \in ToSet(t) : l[1] = "identity" => l \in ToSet(s)
  <2>1. <<"fingerprint", "proxy">>[1] # "identity"
    OBVIOUS
  <2>. QED  BY <1>2, <1>5, <2>1 DEF ToSet
<1>7. ~Has(s, "identity") => ~Has(t, "identity")
  BY <1>6, HasLines
<1>8. \A e : Vouched(s, e) => Vouched(t, e)
  BY <1>6 DEF Vouched
<1>. QED  BY <1>5, <1>7, <1>8 DEF t

(* A 200 of the host is an SDP, and what it is without the assertion. *)
LEMMA HostBodyFacts ==
    ASSUME NEW body, NEW signs, NEW expires, HostBody(body, signs, expires)
    PROVE  /\ Body(body) /\ Formed(body) /\ StripIdentity(body) = Answer
           /\ ProxyBody(body, expires)
<1>1. CASE signs
  <2>1. PICK t \in 0..MaxTime : body = Sign(Answer, HostKey, t, Lifetime) /\ SignedAt(t, expires)
    BY <1>1 DEF HostBody
  <2>2. Body(body) /\ Sealed(body, Assertion(Answer, HostKey, t, Lifetime)) /\ StripIdentity(body) = Answer
    BY <2>1, SignFacts, JoinDescriptions
  <2>3. Text(body)
    BY <2>2 DEF Body
  <2>4. Formed(body) /\ Vouched(body, Assertion(Answer, HostKey, t, Lifetime))
    BY <2>2, <2>3, SealedFacts
  <2>. QED  BY <2>1, <2>2, <2>4 DEF ProxyBody
<1>2. CASE ~signs
  <2>1. body = Answer
    BY <1>2 DEF HostBody
  <2>2. Plain(body) /\ Body(body) /\ Text(body) /\ ~Has(body, "identity")
    BY <2>1, JoinDescriptions DEF Plain, Body
  <2>. QED  BY <2>1, <2>2, PlainFormed, StripFacts DEF ProxyBody
<1>. QED  BY <1>1, <1>2

LEMMA RewrittenFacts ==
    ASSUME NEW body, NEW signs, NEW expires, HostBody(body, signs, expires),
           NEW b \in {StripIdentity(body), Damaged(body), Relayed(body)}
    PROVE  ProxyBody(b, expires)
<1>1. Body(body) /\ Text(body) /\ Formed(body) /\ ProxyBody(body, expires)
  BY HostBodyFacts DEF Body
<1>2. CASE b = StripIdentity(body)
  BY <1>1, <1>2, StripFacts DEF ProxyBody, Plain
<1>3. CASE b = Damaged(body)
  <2>1. Body(b) /\ \A e : Vouched(b, e)
    BY <1>1, <1>3, DamagedFacts
  <2>2. CASE Has(body, "identity")
    <3>1. PICK t \in 0..MaxTime : SignedAt(t, expires)
      BY <1>1, <2>2 DEF ProxyBody
    <3>. QED  BY <2>1, <3>1 DEF ProxyBody
  <2>3. CASE ~Has(body, "identity")
    <3>1. b = body
      <4>1. \A i \in DOMAIN body : body[i][1] # "identity"
        BY <2>3 DEF Has
      <4>2. b = [i \in DOMAIN body |-> body[i]]
        BY <1>3, <4>1 DEF Damaged
      <4>3. body = [i \in DOMAIN body |-> body[i]]
        <5>1. body \in Seq(ToSet(body))
          BY <1>1 DEF Text
        <5>. QED  BY <5>1
      <4>. QED  BY <4>2, <4>3
    <3>. QED  BY <1>1, <3>1
  <2>. QED  BY <2>2, <2>3
<1>4. CASE b = Relayed(body)
  BY <1>1, <1>4, RelayedFacts DEF ProxyBody
<1>. QED  BY <1>2, <1>3, <1>4

(* The bodies of other hosts. *)
LEMMA DecimalError ==
    ASSUME NEW n \in Nat
    PROVE  ~IsSdp(Decimal[n]) /\ BodyError(Decimal[n]) \in {17, 18, n}
<1>. DEFINE d == Decimal[n]
<1>1. d \in Seq(Digits(10)) /\ d # <<>> /\ IntOf(d) = n
  BY DecimalReads
<1>. HIDE DEF d
<1>2. Head(d) \in Digits(10)
  BY <1>1
<1>3. Head(d)[1] = "digit"
  BY <1>2, DigitOf
<1>4. ~IsSdp(d)
  BY <1>3 DEF IsSdp
<1>5. BodyError(d) \in {17, 18, n}
  BY <1>1 DEF BodyError, SIGNALING_PARSING_FAILURE, SIGNALING_UNKNOWN_ERROR
<1>. QED  BY <1>4, <1>5 DEF d

LEMMA OtherFacts ==
    ASSUME NEW body \in OtherBodies
    PROVE  /\ IsSdp(body) => body = Sign(OtherSdp, OtherKey, 0, NoExp)
           /\ ~IsSdp(body) => BodyError(body) \in {17, 18} \cup ErrorBodies
<1>1. CASE body = <<>>
  BY <1>1 DEF IsSdp, BodyError, SIGNALING_PARSING_FAILURE
<1>2. CASE body = <<<<"html">>>>
  BY <1>2 DEF IsSdp, BodyError, SIGNALING_PARSING_FAILURE
<1>3. CASE body = <<<<"superscript", 2>>>>
  <2>1. ~IsDecimal(body)
    BY <1>3 DEF IsDecimal
  <2>. QED  BY <1>3, <2>1 DEF IsSdp, BodyError, SIGNALING_PARSING_FAILURE, SIGNALING_UNKNOWN_ERROR
<1>4. ASSUME NEW n \in ErrorBodies, body = Decimal[n]
      PROVE  ~IsSdp(body) /\ BodyError(body) \in {17, 18} \cup ErrorBodies
  <2>1. n \in Nat
    BY JoinAssumption
  <2>. QED  BY <1>4, <2>1, DecimalError
<1>5. CASE body = Sign(OtherSdp, OtherKey, 0, NoExp)
  <2>1. Body(body)
    BY <1>5, SignFacts, JoinDescriptions
  <2>. QED  BY <1>5, <2>1, SdpBody DEF Body
<1>. QED  BY <1>1, <1>2, <1>3, <1>4, <1>5 DEF OtherBodies

-----------------------------------------------------------------------------
(* What verify_server_identity makes of them. *)

LEMMA TokenExp ==
    ASSUME NEW t \in 0..MaxTime
    PROVE  Token(HostKey, t, Lifetime).exp \in Int
<1>. DEFINE exp == IF Lifetime = NoExp THEN NoExp ELSE t + Lifetime
<1>1. exp \in Int
  BY JoinAssumption DEF NoExp
<1>2. Token(HostKey, t, Lifetime).exp = exp
  BY DEF Token
<1>. QED  BY <1>1, <1>2

LEMMA ProxyKeys ==
    ASSUME NEW body, NEW expires, ProxyBody(body, expires), NEW now \in Nat,
           NEW key \in VerifyServerIdentity(body, now)
    PROVE  /\ key = HostKey /\ ~(expires # NoExp /\ expires < now)
           /\ FingerprintPayload(StripIdentity(body)) = FingerprintPayload(HostSdp)
<1>1. Text(body)
  BY DEF ProxyBody, Body
<1>2. Has(body, "identity")
  <2>1. ExtractIdentity(body) # {}
    BY DEF VerifyServerIdentity
  <2>. QED  BY <1>1, <2>1, ExtractFacts
<1>3. PICK t \in 0..MaxTime : Vouched(body, Assertion(Answer, HostKey, t, Lifetime)) /\ SignedAt(t, expires)
  BY <1>2 DEF ProxyBody
<1>4. AlgForKey(HostKey) # {}
  BY JoinAssumption
<1>5. /\ key = HostKey /\ Live(Token(HostKey, t, Lifetime), now)
      /\ FingerprintPayload(StripIdentity(body)) = FingerprintPayload(Answer)
  BY <1>1, <1>3, <1>4, VerifySound
<1>6. expires = Token(HostKey, t, Lifetime).exp /\ expires \in Int
  BY <1>3, TokenExp DEF SignedAt
<1>7. expires = NoExp \/ expires >= now
  BY <1>5, <1>6 DEF Live
<1>. QED  BY <1>5, <1>6, <1>7, JoinDescriptions

LEMMA HostKeys ==
    ASSUME NEW body, NEW expires, NEW t \in 0..MaxTime, NEW now \in Nat,
           body = Sign(Answer, HostKey, t, Lifetime), SignedAt(t, expires),
           VerifyServerIdentity(body, now) = {}
    PROVE  expires # NoExp /\ expires < now
<1>2. AlgForKey(HostKey) # {} /\ Plain(Answer)
  BY JoinAssumption, JoinDescriptions
<1>3. ~Live(Token(HostKey, t, Lifetime), now)
  <2>. SUFFICES ASSUME Live(Token(HostKey, t, Lifetime), now) PROVE FALSE
    OBVIOUS
  <2>1. VerifyServerIdentity(Sign(Answer, HostKey, t, Lifetime), now) = {HostKey}
    BY <1>2, VerifyComplete
  <2>. QED  BY <2>1
<1>4. expires = Token(HostKey, t, Lifetime).exp /\ expires \in Int
  BY TokenExp DEF SignedAt
<1>. QED  BY <1>3, <1>4 DEF Live

LEMMA OtherKeys ==
    ASSUME NEW now
    PROVE  LET body == Sign(OtherSdp, OtherKey, 0, NoExp)
           IN  /\ VerifyServerIdentity(body, now) = {OtherKey}
               /\ StripIdentity(body) = OtherSdp /\ Text(body)
<1>1. AlgForKey(OtherKey) # {} /\ Plain(OtherSdp)
  BY JoinAssumption, JoinDescriptions
<1>2. Live(Token(OtherKey, 0, NoExp), now)
  BY DEF Live, Token
<1>. QED  BY <1>1, <1>2, VerifyComplete, SignFacts DEF Body

-----------------------------------------------------------------------------
(* Every step keeps the invariant. *)

LEMMA CodeFacts ==
    /\ \A a, b : Code(a) = Code(b) => a = b
    /\ \A a : Code(a) \notin {<<"none">>, <<"identity">>, <<"refused">>, <<"aiortc">>, <<"cancelled">>,
                        <<"interrupted">>}
<1>1. ASSUME NEW a, NEW b, Code(a) = Code(b) PROVE a = b
  BY <1>1 DEF Code
<1>2. ASSUME NEW a, NEW w \in {<<"none">>, <<"identity">>, <<"refused">>, <<"aiortc">>, <<"cancelled">>,
                           <<"interrupted">>}
      PROVE  Code(a) # w
  <2>1. Code(a)[1] = "code"
    BY DEF Code
  <2>2. w[1] # "code"
    OBVIOUS
  <2>. QED  BY <2>1, <2>2
<1>. QED  BY <1>1, <1>2

LEMMA InitInv == Init => Inv
<1>. SUFFICES ASSUME Init PROVE Inv
  OBVIOUS
<1>1. SideOK(cs) /\ SideOK(hs) /\ cs.error # FAILED_TO_CREATE_ANSWER /\ hs = NewSession(FALSE)
      /\ hs.error # FAILED_TO_CREATE_ANSWER
  BY NewSideOK DEF Init
<1>2. /\ client.at = "offer" /\ client.why = <<"none">> /\ client.from = "none" /\ client.key = {}
      /\ client.answer = <<>> /\ client.applied = <<>>
      /\ host.at = "idle" /\ host.offer = <<>> /\ request = {} /\ reply = {}
  BY DEF Init
<1>3. Shapes
  <2>1. opts.local \in NetworkIds /\ clock \in 0..MaxTime
    BY JoinAssumption DEF Init
  <2>. QED  BY <1>2, <2>1 DEF Init, Shapes
<1>4. Traffic
  BY <1>2, CodeFacts DEF Traffic
<1>5. Offers /\ Replies
  BY <1>2 DEF Offers, Replies
<1>6. Heard
  <2>1. ~Has(<<>>, "identity")
    BY DEF Has
  <2>. QED  BY <1>2, <2>1 DEF Heard
<1>7. Ends
  BY <1>1, <1>2 DEF Ends
<1>8. PinnedIsGenuine
  BY <1>2 DEF PinnedIsGenuine
<1>. QED  BY <1>3, <1>4, <1>5, <1>6, <1>7, <1>8 DEF Inv

(* Timers and transport events. *)
LEMMA MovesStep ==
    ASSUME Inv, UNCHANGED <<opts, clock, client, host, request, reply>>,
           cs' = cs \/ Moves(cs, cs'),
           hs' = hs \/ (Moves(hs, hs') /\ hs # NewSession(FALSE))
    PROVE  Inv'
<1>1. Shapes' /\ Traffic' /\ Offers' /\ Replies' /\ Heard'
  <2>1. Shapes'
    BY DEF Inv, Shapes
  <2>2. Traffic'
    BY DEF Inv, Traffic
  <2>3. Offers'
    BY DEF Inv, Offers
  <2>4. Replies'
    BY DEF Inv, Replies
  <2>5. Heard'
    BY DEF Inv, Heard
  <2>. QED  BY <2>1, <2>2, <2>3, <2>4, <2>5
<1>2. PinnedIsGenuine'
  BY DEF Inv, PinnedIsGenuine, Expired
<1>3. SideOK(cs') /\ SideOK(hs') /\ cs'.error # FAILED_TO_CREATE_ANSWER
  BY DEF Inv, Ends, Moves
<1>4. client.at = "returned" => cs'.opens = 1
  <2>. SUFFICES ASSUME client.at = "returned" PROVE cs'.opens = 1
    OBVIOUS
  <2>1. cs.opens = 1
    BY DEF Inv, Ends
  <2>2. cs'.opens \in {0, 1}
    BY <1>3 DEF SideOK, RecordOK, ChannelsOK
  <2>. QED  BY <2>1, <2>2 DEF Moves
<1>5. /\ client.at \in {"closing", "raised"} => cs'.state = "CLOSED"
      /\ client.at = "raised" => cs'.pc = "closed" \/ client.why = <<"interrupted">>
  BY DEF Inv, Ends, Moves
<1>6. /\ host.at \in {"idle", "validate"} \/ host.offer = <<>> => hs' = NewSession(FALSE)
      /\ hs'.error = FAILED_TO_CREATE_ANSWER => hs.error = FAILED_TO_CREATE_ANSWER
  BY DEF Inv, Ends, Moves
<1>7. Ends'
  BY <1>3, <1>4, <1>5, <1>6 DEF Inv, Ends
<1>. QED  BY <1>1, <1>2, <1>7 DEF Inv

LEMMA SideStep ==
    ASSUME Inv, NEW side \in Sides,
           \/ Timeout(side) \/ ChannelsOpen(side) \/ ConnectionFails(side)
           \/ PeerGone(side) \/ PcClosed(side)
    PROVE  Inv'
<1>. DEFINE s == Mine(side)
<1>1. SideOK(s)
  BY DEF Inv, Ends, Mine
<1>2. ASSUME NEW t, Event(side, t), Moves(s, t), s # NewSession(FALSE)
      PROVE  Inv'
  <2>1. UNCHANGED <<opts, clock, client, host, request, reply>>
    BY <1>2 DEF Event
  <2>2. CASE side = "client"
    <3>1. cs' = t /\ hs' = hs /\ s = cs
      BY <1>2, <2>2 DEF Event, Mine
    <3>. QED  BY <1>2, <2>1, <3>1, MovesStep
  <2>3. CASE side = "host"
    <3>1. hs' = t /\ cs' = cs /\ s = hs
      BY <1>2, <2>3 DEF Event, Mine
    <3>. QED  BY <1>2, <2>1, <3>1, MovesStep
  <2>. QED  BY <2>2, <2>3 DEF Sides
<1>3. /\ NewSession(FALSE).timeout = NoTimer /\ ~Negotiated(NewSession(FALSE))
      /\ NewSession(FALSE).closes = 0
  BY NewSideOK DEF Negotiated
<1>. HIDE DEF s
<1>4. CASE Timeout(side)
  <2>1. s.timeout # NoTimer /\ Event(side, TimeoutExpires(s))
    BY <1>4 DEF Timeout, s
  <2>. QED  BY <1>1, <1>2, <1>3, <2>1, TimeoutMoves
<1>5. CASE ChannelsOpen(side)
  <2>1. Negotiated(s) /\ Event(side, HandleChannelOpen(HandleChannelOpen(s, TRUE), FALSE))
    BY <1>5 DEF ChannelsOpen, Linked, Mine, s
  <2>. QED  BY <1>1, <1>2, <1>3, <2>1, ChannelsMove
<1>6. CASE ConnectionFails(side)
  <2>1. Negotiated(s) /\ Event(side, PcChanges(s, "failed"))
    BY <1>6 DEF ConnectionFails, s
  <2>2. s.pc # "closed"
    BY <2>1 DEF Negotiated
  <2>. QED  BY <1>1, <1>2, <1>3, <2>1, <2>2, PcMoves
<1>7. CASE PeerGone(side)
  <2>1. Negotiated(s) /\ Event(side, PcChanges(s, "closed"))
    BY <1>7 DEF PeerGone, s
  <2>. QED  BY <1>1, <1>2, <1>3, <2>1, PcMoves
<1>8. CASE PcClosed(side)
  <2>1. s.closes > 0 /\ Event(side, PcChanges(s, "closed"))
    BY <1>8 DEF PcClosed, s
  <2>4. s = NewSession(FALSE) => s.closes = 0
    BY <1>3, Zenon
  <2>5. ~(s.closes = 0)
    BY <2>1
  <2>2. s # NewSession(FALSE)
    BY <2>4, <2>5, Zenon
  <2>3. Moves(s, PcChanges(s, "closed"))
    BY <1>1, PcMoves
  <2>. QED  BY <1>2, <2>1, <2>2, <2>3
<1>. QED  BY <1>4, <1>5, <1>6, <1>7, <1>8

LEMMA TickStep ==
    ASSUME Inv, Tick
    PROVE  Inv'
<1>1. clock' \in 0..MaxTime
  BY JoinAssumption DEF Inv, Shapes, Tick
<1>2. UNCHANGED <<opts, client, host, request, reply, cs, hs>>
  BY DEF Tick
<1>3. Shapes' /\ Traffic' /\ Offers' /\ Replies' /\ Heard'
  <2>1. Shapes'
    BY <1>1, <1>2 DEF Inv, Shapes
  <2>2. Traffic'
    BY <1>1, <1>2 DEF Inv, Traffic
  <2>3. Offers'
    BY <1>1, <1>2 DEF Inv, Offers
  <2>4. Replies'
    BY <1>1, <1>2 DEF Inv, Replies
  <2>5. Heard'
    BY <1>1, <1>2 DEF Inv, Heard
  <2>. QED  BY <2>1, <2>2, <2>3, <2>4, <2>5
<1>4. Ends'
  BY <1>2 DEF Inv, Ends
<1>5. PinnedIsGenuine'
  BY <1>2 DEF Inv, PinnedIsGenuine, Expired
<1>. QED  BY <1>3, <1>4, <1>5 DEF Inv

(* connect_http raises, without having heard anything new. *)
LEMMA FailStep ==
    ASSUME Inv, NEW why, Fail(client, why),
           UNCHANGED <<opts, clock, host, request, reply, hs>>,
           why \notin {<<"identity">>, Code(0), Code(37)},
           why = Code(NO_SIGNALING_CHANNEL) => client.at = "probe"
    PROVE  Inv'
<1>1. /\ client' = [client EXCEPT !.at = "closing", !.why = why]
      /\ cs' = Close(cs, GENERIC_FAILURE)
  BY DEF Fail, Cleanup
<1>2. /\ client' = [at |-> client'.at, why |-> client'.why, from |-> client'.from,
                    heard |-> client'.heard, key |-> client'.key, answer |-> client'.answer,
                    applied |-> client'.applied]
      /\ client'.at = "closing" /\ client'.why = why /\ client'.from = client.from
      /\ client'.heard = client.heard /\ client'.key = client.key
      /\ client'.answer = client.answer /\ client'.applied = client.applied
  BY <1>1 DEF Inv, Shapes
<1>3. SideOK(cs') /\ cs'.state = "CLOSED" /\ cs'.error # FAILED_TO_CREATE_ANSWER
  <2>1. GENERIC_FAILURE \in Codes /\ GENERIC_FAILURE # FAILED_TO_CREATE_ANSWER
    BY DEF Codes, GENERIC_FAILURE, FAILED_TO_CREATE_ANSWER
  <2>. QED  BY <1>1, <2>1, SideClose DEF Inv, Ends
<1>4. Shapes' /\ Offers' /\ Replies'
  <2>1. Shapes'
    BY <1>2 DEF Inv, Shapes
  <2>2. Offers'
    BY <1>2 DEF Inv, Offers
  <2>3. Replies'
    BY <1>2 DEF Inv, Replies
  <2>. QED  BY <2>1, <2>2, <2>3
<1>5. Traffic'
  BY <1>2 DEF Inv, Traffic
<1>6. Heard'
  BY <1>2 DEF Inv, Heard
<1>7. Ends'
  BY <1>2, <1>3 DEF Inv, Ends
<1>8. PinnedIsGenuine'
  BY <1>2 DEF Inv, PinnedIsGenuine, Expired
<1>. QED  BY <1>4, <1>5, <1>6, <1>7, <1>8 DEF Inv

LEMMA FailSteps ==
    ASSUME Inv, \/ NotSupported \/ PostFails \/ IdentityRefused \/ AnswerUnusable
                \/ ConnectFails \/ ConnectExpires \/ Cancel
    PROVE  Inv'
<1>1. /\ NO_SIGNALING_CHANNEL \notin {0, 37} /\ SIGNALING_FAILED_TO_SEND \notin {0, 37, NO_SIGNALING_CHANNEL}
      /\ \A c \in Codes : c \notin {0, 37, NO_SIGNALING_CHANNEL}
  BY DEF NO_SIGNALING_CHANNEL, SIGNALING_FAILED_TO_SEND, Codes, ICE, FAILED_TO_CREATE_ANSWER,
         WAITING_FOR_RESPONSE, WAITING_FOR_ACCEPT, DATA_CHANNEL_CLOSED, GENERIC_FAILURE
<1>2. ASSUME NEW err, Fail(client, Code(err)), err \notin {0, 37},
             err = NO_SIGNALING_CHANNEL => client.at = "probe",
             UNCHANGED <<opts, clock, host, request, reply, hs>>
      PROVE  Inv'
  <2>1. Code(err) \notin {<<"identity">>, Code(0), Code(37)}
    BY <1>2, CodeFacts
  <2>2. Code(err) = Code(NO_SIGNALING_CHANNEL) => client.at = "probe"
    BY <1>2, CodeFacts
  <2>. QED  BY <1>2, <2>1, <2>2, FailStep
<1>3. ASSUME NEW why \in {<<"refused">>, <<"aiortc">>, <<"cancelled">>}, Fail(client, why),
             UNCHANGED <<opts, clock, host, request, reply, hs>>
      PROVE  Inv'
  <2>1. why # <<"identity">>
    OBVIOUS
  <2>2. \A a : Code(a) # why
    BY CodeFacts
  <2>. QED  BY <1>3, <2>1, <2>2, FailStep
<1>4. CASE NotSupported
  BY <1>1, <1>2, <1>4 DEF NotSupported
<1>5. CASE PostFails
  BY <1>1, <1>2, <1>5 DEF PostFails
<1>6. CASE IdentityRefused \/ AnswerUnusable \/ Cancel
  BY <1>3, <1>6 DEF IdentityRefused, AnswerUnusable, Cancel
<1>7. CASE ConnectFails
  <2>1. cs.error \in Codes
    BY <1>7 DEF ConnectFails, Inv, Ends, SideOK
  <2>. QED  BY <1>1, <1>2, <1>7, <2>1 DEF ConnectFails
<1>8. CASE ConnectExpires
  <2>1. WAITING_FOR_RESPONSE \in Codes
    BY DEF Codes
  <2>. QED  BY <1>1, <1>2, <1>8, <2>1 DEF ConnectExpires
<1>. QED  BY <1>4, <1>5, <1>6, <1>7, <1>8

(* The POST goes out. *)
LEMMA PostFacts ==
    /\ Formed(OfferBody) /\ StripIdentity(OfferBody) = LocalSdp(ClientSdp, FALSE)
<1>. DEFINE d == LocalSdp(ClientSdp, FALSE)
<1>1. Plain(d)
  BY JoinDescriptions
<1>. HIDE DEF d
<1>2. CASE opts.client_signs
  <2>. DEFINE b == Sign(d, ClientKey, clock, NoExp)
  <2>1. OfferBody = b
    BY <1>2 DEF OfferBody, d
  <2>2. Body(b) /\ Sealed(b, Assertion(d, ClientKey, clock, NoExp)) /\ StripIdentity(b) = d
    BY <1>1, SignFacts
  <2>. HIDE DEF b
  <2>3. Formed(b)
    BY <2>2, SealedFacts DEF Body
  <2>. QED  BY <2>1, <2>2, <2>3 DEF d
<1>3. CASE ~opts.client_signs
  <2>1. OfferBody = d
    BY <1>3 DEF OfferBody, d
  <2>2. Formed(d) /\ StripIdentity(d) = d
    BY <1>1, PlainFormed, StripFacts DEF Plain, Body
  <2>. QED  BY <2>1, <2>2 DEF d
<1>. QED  BY <1>2, <1>3

LEMMA OfferSteps ==
    ASSUME Inv, OfferReady \/ Supported
    PROVE  Inv'
<1>1. /\ client.at \in {"offer", "probe"}
      /\ \/ client' = [client EXCEPT !.at = "probe"] /\ opts.capability_check
         \/ client' = [client EXCEPT !.at = "post"]
      /\ request' = {} \/ (Post /\ client' = [client EXCEPT !.at = "post"])
      /\ UNCHANGED <<opts, clock, host, reply, hs>>
      /\ cs' = cs \/ cs' = OfferResumed(cs)
  BY DEF OfferReady, Supported, Inv, Traffic
<1>2. request = {} /\ reply = {} /\ host.at = "idle" /\ client.from = "none" /\ client.why = <<"none">>
      /\ client.key = {} /\ client.applied = <<>>
  BY <1>1 DEF Inv, Traffic
<1>3. /\ client' = [at |-> client'.at, why |-> client'.why, from |-> client'.from,
                    heard |-> client'.heard, key |-> client'.key, answer |-> client'.answer,
                    applied |-> client'.applied]
      /\ client'.at \in {"probe", "post"} /\ client'.why = client.why /\ client'.from = client.from
      /\ client'.heard = client.heard /\ client'.key = client.key
      /\ client'.answer = client.answer /\ client'.applied = client.applied
      /\ request' # {} => client'.at = "post"
      /\ client'.at = "probe" => opts.capability_check
  BY <1>1 DEF Inv, Shapes
<1>4. SideOK(cs') /\ cs'.error # FAILED_TO_CREATE_ANSWER
  BY <1>1, SideEntry DEF Inv, Ends
<1>5. request' = {} \/ request' = {[path |-> IdText(opts.local), body |-> OfferBody]}
  BY <1>1 DEF Post
<1>6. Shapes'
  BY <1>1, <1>3, <1>5 DEF Inv, Shapes
<1>7. Traffic'
  BY <1>1, <1>2, <1>3, CodeFacts DEF Traffic
<1>8. Offers'
  <2>1. \A q \in request' :
          /\ q.path = IdText(opts.local) /\ Formed(q.body)
          /\ StripIdentity(q.body) = LocalSdp(ClientSdp, FALSE)
    <3>1. \A q \in request' : q.path = IdText(opts.local) /\ q.body = OfferBody
      BY <1>5
    <3>. QED  BY <3>1, PostFacts, Zenon
  <2>. QED  BY <1>1, <2>1 DEF Inv, Offers
<1>9. Replies'
  BY <1>1, <1>2 DEF Replies
<1>10. Heard'
  BY <1>3 DEF Inv, Heard
<1>11. Ends'
  BY <1>1, <1>2, <1>3, <1>4 DEF Inv, Ends
<1>12. PinnedIsGenuine'
  BY <1>1, <1>2, <1>3 DEF Inv, PinnedIsGenuine, Expired
<1>. QED  BY <1>6, <1>7, <1>8, <1>9, <1>10, <1>11, <1>12 DEF Inv

(* accept_answer, with an answer that was heard earlier or just now. *)
LEMMA AcceptFacts ==
    ASSUME Inv, NEW c, NEW sdp, Accept(c, sdp), Shapes,
           c = [at |-> c.at, why |-> c.why, from |-> c.from, heard |-> c.heard, key |-> c.key,
                answer |-> c.answer, applied |-> c.applied]
    PROVE  /\ client' = [at |-> client'.at, why |-> client'.why, from |-> client'.from,
                         heard |-> client'.heard, key |-> client'.key, answer |-> client'.answer,
                         applied |-> client'.applied]
           /\ client'.at \in {"accept", "connect"} /\ client'.why = c.why /\ client'.from = c.from
           /\ client'.heard = c.heard /\ client'.key = c.key /\ client'.answer = c.answer
           /\ client'.applied \in {c.applied, sdp}
           /\ SideOK(cs') /\ cs'.error # FAILED_TO_CREATE_ANSWER
<1>1. CASE cs.state = "OFFER_SENT"
  <2>1. cs' = ResponseReceived(cs) /\ client' = [c EXCEPT !.at = "accept", !.applied = sdp]
    BY <1>1 DEF Accept
  <2>2. SideOK(cs') /\ cs'.error # FAILED_TO_CREATE_ANSWER
    BY <2>1, SideEntry DEF Inv, Ends
  <2>. QED  BY <2>1, <2>2
<1>2. CASE cs.state # "OFFER_SENT"
  <2>1. cs' = cs /\ client' = [c EXCEPT !.at = "connect"]
    BY <1>2 DEF Accept
  <2>2. SideOK(cs') /\ cs'.error # FAILED_TO_CREATE_ANSWER
    BY <2>1 DEF Inv, Ends
  <2>. QED  BY <2>1, <2>2
<1>. QED  BY <1>1, <1>2

LEMMA IdentityAcceptedStep ==
    ASSUME Inv, IdentityAccepted
    PROVE  Inv'
<1>1. /\ client.at = "verify" /\ Accept(client, client.answer)
      /\ UNCHANGED <<opts, clock, host, request, reply, hs>>
  BY DEF IdentityAccepted
<1>2. /\ client' = [at |-> client'.at, why |-> client'.why, from |-> client'.from,
                    heard |-> client'.heard, key |-> client'.key, answer |-> client'.answer,
                    applied |-> client'.applied]
      /\ client'.at \in {"accept", "connect"} /\ client'.why = client.why /\ client'.from = client.from
      /\ client'.heard = client.heard /\ client'.key = client.key /\ client'.answer = client.answer
      /\ client'.applied \in {client.applied, client.answer}
      /\ SideOK(cs') /\ cs'.error # FAILED_TO_CREATE_ANSWER
  BY <1>1, AcceptFacts DEF Inv, Shapes
<1>3. client.from # "none"
  BY <1>1 DEF Inv, Traffic
<1>4. Shapes' /\ Offers' /\ Replies'
  <2>1. Shapes'
    BY <1>1, <1>2 DEF Inv, Shapes
  <2>2. Offers'
    BY <1>1, <1>2 DEF Inv, Offers
  <2>3. Replies'
    BY <1>1, <1>2 DEF Inv, Replies
  <2>. QED  BY <2>1, <2>2, <2>3
<1>5. Traffic'
  BY <1>1, <1>2, <1>3 DEF Inv, Traffic
<1>6. Heard'
  BY <1>1, <1>2 DEF Inv, Heard
<1>7. Ends'
  BY <1>1, <1>2 DEF Inv, Ends
<1>8. PinnedIsGenuine'
  BY <1>1, <1>2 DEF Inv, PinnedIsGenuine, Expired
<1>. QED  BY <1>4, <1>5, <1>6, <1>7, <1>8 DEF Inv

(* The remaining steps of connect_http change where it waits, and its session. *)
LEMMA ClientMoves ==
    ASSUME Inv, NEW at, client' = [client EXCEPT !.at = at],
           UNCHANGED <<opts, clock, host, request, reply, hs>>,
           SideOK(cs'), cs'.error # FAILED_TO_CREATE_ANSWER,
           client.at \in {"accept", "connect", "closing"}, at \in {"connect", "returned", "raised"},
           at = "returned" => cs'.opens = 1,
           at = "raised" => cs'.state = "CLOSED" /\ cs'.pc = "closed"
    PROVE  Inv'
<1>2. /\ client' = [at |-> client'.at, why |-> client'.why, from |-> client'.from,
                    heard |-> client'.heard, key |-> client'.key, answer |-> client'.answer,
                    applied |-> client'.applied]
      /\ client'.at = at /\ client'.why = client.why /\ client'.from = client.from
      /\ client'.heard = client.heard /\ client'.key = client.key
      /\ client'.answer = client.answer /\ client'.applied = client.applied
  BY DEF Inv, Shapes
<1>4. Shapes' /\ Offers' /\ Replies'
  <2>1. Shapes'
    BY <1>2 DEF Inv, Shapes
  <2>2. Offers'
    BY <1>2 DEF Inv, Offers
  <2>3. Replies'
    BY <1>2 DEF Inv, Replies
  <2>. QED  BY <2>1, <2>2, <2>3
<1>5. Traffic'
  BY <1>2 DEF Inv, Traffic
<1>6. Heard'
  BY <1>2 DEF Inv, Heard
<1>7. Ends'
  BY <1>2 DEF Inv, Ends
<1>8. PinnedIsGenuine'
  BY <1>2 DEF Inv, PinnedIsGenuine, Expired
<1>. QED  BY <1>4, <1>5, <1>6, <1>7, <1>8 DEF Inv

(* A cancellation in the except clause. *)
LEMMA CancelCleanupStep ==
    ASSUME Inv, CancelCleanup
    PROVE  Inv'
<1>1. /\ client.at = "closing" /\ UNCHANGED <<opts, clock, host, request, reply, cs, hs>>
      /\ client' = [client EXCEPT !.at = "raised", !.why = <<"interrupted">>]
  BY DEF CancelCleanup
<1>2. /\ client' = [at |-> client'.at, why |-> client'.why, from |-> client'.from,
                    heard |-> client'.heard, key |-> client'.key, answer |-> client'.answer,
                    applied |-> client'.applied]
      /\ client'.at = "raised" /\ client'.why = <<"interrupted">> /\ client'.from = client.from
      /\ client'.heard = client.heard /\ client'.key = client.key
      /\ client'.answer = client.answer /\ client'.applied = client.applied
  BY <1>1 DEF Inv, Shapes
<1>3. client'.why # <<"identity">> /\ \A a : Code(a) # client'.why
  BY <1>2, CodeFacts
<1>4. Shapes' /\ Offers' /\ Replies'
  <2>1. Shapes'
    BY <1>1, <1>2 DEF Inv, Shapes
  <2>2. Offers'
    BY <1>1 DEF Inv, Offers
  <2>3. Replies'
    BY <1>1 DEF Inv, Replies
  <2>. QED  BY <2>1, <2>2, <2>3
<1>5. Traffic'
  BY <1>1, <1>2, <1>3 DEF Inv, Traffic
<1>6. Heard'
  BY <1>1, <1>2 DEF Inv, Heard
<1>7. Ends'
  BY <1>1, <1>2 DEF Inv, Ends
<1>8. PinnedIsGenuine'
  BY <1>1, <1>2, <1>3 DEF Inv, PinnedIsGenuine, Expired
<1>. QED  BY <1>4, <1>5, <1>6, <1>7, <1>8 DEF Inv

LEMMA WaitSteps ==
    ASSUME Inv, AnswerApplied \/ Connected \/ Raised
    PROVE  Inv'
<1>1. CASE AnswerApplied
  <2>1. SideOK(cs') /\ cs'.error # FAILED_TO_CREATE_ANSWER
    BY <1>1, SideEntry DEF AnswerApplied, Inv, Ends
  <2>. QED  BY <1>1, <2>1, ClientMoves DEF AnswerApplied
<1>2. CASE Connected
  <2>1. cs.opens = 1 /\ cs' = cs
    BY <1>2 DEF Connected, Inv, Ends, SideOK, RecordOK, ChannelsOK
  <2>2. SideOK(cs') /\ cs'.error # FAILED_TO_CREATE_ANSWER
    BY <2>1 DEF Inv, Ends
  <2>. QED  BY <1>2, <2>1, <2>2, ClientMoves DEF Connected
<1>3. CASE Raised
  <2>1. cs.state = "CLOSED" /\ cs.closes > 0 /\ cs' = cs
    BY <1>3 DEF Raised, Inv, Ends, SideOK
  <2>2. SideOK(cs') /\ cs'.error # FAILED_TO_CREATE_ANSWER
    BY <2>1 DEF Inv, Ends
  <2>. QED  BY <1>3, <2>1, <2>2, ClientMoves DEF Raised
<1>. QED  BY <1>1, <1>2, <1>3

(* The response: what it holds, wherever it is from ... *)
LEMMA ReplyFacts ==
    ASSUME Inv, NEW r \in reply, r.status = 200
    PROVE  /\ ~IsSdp(r.body) => r.from = "other"
           /\ IsSdp(r.body) =>
                 /\ ~Has(StripIdentity(r.body), "identity")
                 /\ r.from = "host" => StripIdentity(r.body) = Answer
<1>1. CASE r.from = "host"
  <2>1. HostBody(r.body, opts.host_signs, host.expires)
    BY <1>1 DEF Inv, Replies
  <2>2. Body(r.body) /\ Text(r.body) /\ StripIdentity(r.body) = Answer
    BY <2>1, HostBodyFacts DEF Body
  <2>. QED  BY <1>1, <2>2, SdpBody, StripFacts
<1>2. CASE r.from = "proxy"
  <2>1. Body(r.body) /\ Text(r.body)
    BY <1>2 DEF Inv, Replies, ProxyBody, Body
  <2>. QED  BY <1>2, <2>1, SdpBody, StripFacts
<1>3. CASE r.from = "other"
  <2>1. r.body \in OtherBodies
    BY <1>3 DEF Inv, Replies
  <2>2. CASE IsSdp(r.body)
    <3>1. Text(r.body)
      BY <2>1, <2>2, OtherFacts, OtherKeys
    <3>. QED  BY <1>3, <2>2, <3>1, StripFacts
  <2>3. CASE ~IsSdp(r.body)
    BY <1>3, <2>1, <2>3, OtherFacts
  <2>. QED  BY <2>2, <2>3
<1>. QED  BY <1>1, <1>2, <1>3 DEF Inv, Replies

(* ... and the key it is verified with, if any. *)
Late(expires, now) == expires # NoExp /\ expires < now

LEMMA KeyFacts ==
    ASSUME Inv, NEW r \in reply, r.status = 200, IsSdp(r.body)
    PROVE  LET keys == VerifyServerIdentity(r.body, clock)
           IN  /\ keys = {} => \/ r.from = "proxy"
                               \/ r.from = "host" /\ (~opts.host_signs \/ Late(host.expires, clock))
               /\ keys \subseteq {HostKey, OtherKey}
               /\ \A key \in keys : FingerprintPayload(StripIdentity(r.body))
                                       = FingerprintPayload(Owner(key))
               /\ HostKey \in keys => ~Late(host.expires, clock)
<1>. DEFINE keys == VerifyServerIdentity(r.body, clock)
<1>0. clock \in Nat /\ HostKey # OtherKey
  BY JoinAssumption DEF Inv, Shapes
<1>1. ASSUME r.from \in {"host", "proxy"}, ProxyBody(r.body, host.expires)
      PROVE  \A key \in keys : /\ key = HostKey /\ ~Late(host.expires, clock)
                               /\ FingerprintPayload(StripIdentity(r.body))
                                     = FingerprintPayload(Owner(key))
  <2>1. \A key \in keys : /\ key = HostKey /\ ~(host.expires # NoExp /\ host.expires < clock)
                          /\ FingerprintPayload(StripIdentity(r.body)) = FingerprintPayload(HostSdp)
    BY <1>0, <1>1, ProxyKeys
  <2>2. Owner(HostKey) = HostSdp
    BY DEF Owner
  <2>. QED  BY <2>1, <2>2 DEF Late
<1>2. CASE r.from = "host"
  <2>1. HostBody(r.body, opts.host_signs, host.expires)
    BY <1>2 DEF Inv, Replies
  <2>2. ProxyBody(r.body, host.expires)
    BY <2>1, HostBodyFacts
  <2>3. keys = {} /\ opts.host_signs => Late(host.expires, clock)
    <3>. SUFFICES ASSUME keys = {}, opts.host_signs PROVE Late(host.expires, clock)
      OBVIOUS
    <3>1. PICK t \in 0..MaxTime : /\ r.body = Sign(Answer, HostKey, t, Lifetime)
                                  /\ SignedAt(t, host.expires)
      BY <2>1 DEF HostBody
    <3>2. host.expires # NoExp /\ host.expires < clock
      BY <1>0, <3>1, HostKeys
    <3>. QED  BY <3>2 DEF Late
  <2>. HIDE DEF keys
  <2>4. keys \subseteq {HostKey, OtherKey}
    BY <1>1, <1>2, <2>2
  <2>. QED  BY <1>1, <1>2, <2>2, <2>3, <2>4 DEF keys
<1>3. CASE r.from = "proxy"
  <2>2. ProxyBody(r.body, host.expires)
    BY <1>3 DEF Inv, Replies
  <2>. HIDE DEF keys
  <2>4. keys \subseteq {HostKey, OtherKey}
    BY <1>1, <1>3, <2>2
  <2>. QED  BY <1>1, <1>3, <2>2, <2>4 DEF keys
<1>4. CASE r.from = "other"
  <2>1. r.body = Sign(OtherSdp, OtherKey, 0, NoExp)
    BY <1>4, OtherFacts DEF Inv, Replies
  <2>2. keys = {OtherKey} /\ StripIdentity(r.body) = OtherSdp
    BY <2>1, OtherKeys
  <2>3. Owner(OtherKey) = OtherSdp
    BY <1>0 DEF Owner
  <2>. HIDE DEF keys
  <2>4. HostKey \notin keys /\ keys # {}
    BY <1>0, <2>2
  <2>5. \A key \in keys : StripIdentity(r.body) = Owner(key)
    BY <2>2, <2>3
  <2>6. keys \subseteq {HostKey, OtherKey}
    BY <2>2
  <2>. QED  BY <2>4, <2>5, <2>6 DEF keys
<1>. QED  BY <1>2, <1>3, <1>4 DEF Inv, Replies

(* What the client keeps of it. *)
LEMMA ArriveStep ==
    ASSUME Inv, NEW r \in reply, client.at = "post", reply' = {},
           UNCHANGED <<opts, clock, host, request, hs>>,
           client' = [at |-> client'.at, why |-> client'.why, from |-> client'.from,
                      heard |-> client'.heard, key |-> client'.key, answer |-> client'.answer,
                      applied |-> client'.applied],
           client'.from = r.from, client'.heard = clock,
           SideOK(cs'), cs'.error # FAILED_TO_CREATE_ANSWER,
           client'.at \in {"closing", "verify", "accept", "connect"},
           client'.at = "closing" => cs'.state = "CLOSED",
           client'.why \in {Code(0), Code(NO_SIGNALING_CHANNEL), Code(37)} => r.from = "other",
           client'.why = <<"identity">> =>
              \/ r.from = "proxy"
              \/ r.from = "host" /\ (~opts.host_signs \/ Late(host.expires, clock)),
           client'.key \subseteq {HostKey, OtherKey},
           \A key \in client'.key :
              FingerprintPayload(client'.answer) = FingerprintPayload(Owner(key)),
           HostKey \in client'.key => ~Late(host.expires, clock),
           ~Has(client'.applied, "identity"), ~Has(client'.answer, "identity"),
           r.from = "host" => /\ client'.applied \in {<<>>, Answer}
                              /\ client'.at = "verify" => client'.answer = Answer,
           r.status # 200 => client'.applied = <<>> /\ client'.at # "verify"
    PROVE  Inv'
<1>1. r.from \in {"host", "proxy", "other"} /\ (r.from = "other" => host.at = "idle")
  BY DEF Inv, Replies
<1>2. request = {} /\ host.at \in {"idle", "done"}
  BY DEF Inv, Traffic
<1>3. Shapes' /\ Offers' /\ Replies'
  <2>1. Shapes'
    BY DEF Inv, Shapes
  <2>2. Offers'
    BY DEF Inv, Offers
  <2>3. Replies'
    BY DEF Inv, Replies
  <2>. QED  BY <2>1, <2>2, <2>3
<1>4. Traffic'
  BY <1>1, <1>2 DEF Inv, Traffic
<1>5. Heard'
  BY <1>1 DEF Inv, Heard
<1>6. Ends'
  <2>1. /\ SideOK(hs') /\ (host'.at \in {"idle", "validate"} \/ host'.offer = <<>> => hs' = NewSession(FALSE))
    BY DEF Inv, Ends
  <2>2. hs'.error = FAILED_TO_CREATE_ANSWER =>
           /\ host'.at \in {"raises", "done"}
           /\ client'.applied = <<>> /\ client'.at # "verify"
    BY DEF Inv, Ends
  <2>. QED  BY <2>1, <2>2 DEF Ends
<1>7. PinnedIsGenuine'
  BY DEF PinnedIsGenuine, Expired, Late, Owner
<1>. QED  BY <1>3, <1>4, <1>5, <1>6, <1>7 DEF Inv

LEMMA HearingEdit ==
    ASSUME NEW c, NEW d, NEW from, NEW now, d = [c EXCEPT !.from = from, !.heard = now],
           c = [at |-> c.at, why |-> c.why, from |-> c.from, heard |-> c.heard, key |-> c.key,
                answer |-> c.answer, applied |-> c.applied]
    PROVE  /\ d = [at |-> d.at, why |-> d.why, from |-> d.from, heard |-> d.heard, key |-> d.key,
                   answer |-> d.answer, applied |-> d.applied]
           /\ d.from = from /\ d.heard = now /\ d.at = c.at /\ d.why = c.why
           /\ d.key = c.key /\ d.answer = c.answer /\ d.applied = c.applied
OBVIOUS

LEMMA AnswerStep ==
    ASSUME Inv, NEW r \in reply, AnswerArrives(r)
    PROVE  Inv'
<1>. DEFINE sdp == StripIdentity(r.body)
            keys == VerifyServerIdentity(r.body, clock)
<1>0. PICK c : c = [client EXCEPT !.from = r.from, !.heard = clock]
  OBVIOUS
<1>1. /\ client.at = "post" /\ reply' = {} /\ UNCHANGED <<opts, clock, host, request, hs>>
  BY DEF AnswerArrives
<1>2. client.key = {} /\ client.applied = <<>> /\ client.why = <<"none">> /\ ~Has(client.answer, "identity")
  BY <1>1 DEF Inv, Traffic, Heard
<1>3. /\ c = [at |-> c.at, why |-> c.why, from |-> c.from, heard |-> c.heard, key |-> c.key,
              answer |-> c.answer, applied |-> c.applied]
      /\ c.from = r.from /\ c.heard = clock /\ c.key = {} /\ c.applied = <<>>
      /\ c.why = <<"none">> /\ c.answer = client.answer
  <2>1. client = [at |-> client.at, why |-> client.why, from |-> client.from,
                  heard |-> client.heard, key |-> client.key, answer |-> client.answer,
                  applied |-> client.applied]
    BY DEF Inv, Shapes
  <2>. QED  BY <1>0, <1>2, <2>1, HearingEdit
<1>4. ~Has(<<>>, "identity")
  BY DEF Has
<1>5. \/ r.status # 200 /\ Fail(c, Code(SIGNALING_FAILED_TO_SEND))
      \/ r.status = 200 /\ ~IsSdp(r.body) /\ Fail(c, Code(BodyError(r.body)))
      \/ r.status = 200 /\ IsSdp(r.body) /\ Accept(c, sdp)
      \/ r.status = 200 /\ IsSdp(r.body) /\ keys = {} /\ Fail(c, <<"identity">>)
      \/ /\ r.status = 200 /\ IsSdp(r.body)
         /\ client' = [c EXCEPT !.at = "verify", !.key = keys, !.answer = sdp] /\ cs' = cs
  BY <1>0 DEF AnswerArrives
<1>. HIDE DEF sdp, keys
<1>6. ASSUME NEW why, Fail(c, why),
             why \in {Code(0), Code(NO_SIGNALING_CHANNEL), Code(37)} => r.from = "other",
             why = <<"identity">> =>
                \/ r.from = "proxy"
                \/ r.from = "host" /\ (~opts.host_signs \/ Late(host.expires, clock))
      PROVE  Inv'
  <2>1. client' = [c EXCEPT !.at = "closing", !.why = why] /\ cs' = Close(cs, GENERIC_FAILURE)
    BY <1>6 DEF Fail, Cleanup
  <2>2. SideOK(cs') /\ cs'.state = "CLOSED" /\ cs'.error # FAILED_TO_CREATE_ANSWER
    <3>1. GENERIC_FAILURE \in Codes /\ GENERIC_FAILURE # FAILED_TO_CREATE_ANSWER
      BY DEF Codes, GENERIC_FAILURE, FAILED_TO_CREATE_ANSWER
    <3>. QED  BY <2>1, <3>1, SideClose DEF Inv, Ends
  <2>3. /\ client' = [at |-> client'.at, why |-> client'.why, from |-> client'.from,
                      heard |-> client'.heard, key |-> client'.key, answer |-> client'.answer,
                      applied |-> client'.applied]
        /\ client'.at = "closing" /\ client'.why = why /\ client'.from = r.from
        /\ client'.heard = clock /\ client'.key = {} /\ client'.applied = <<>>
        /\ client'.answer = client.answer
    BY <1>3, <2>1
  <2>. QED  BY <1>1, <1>2, <1>4, <1>6, <2>2, <2>3, ArriveStep
<1>7. CASE r.status # 200 /\ Fail(c, Code(SIGNALING_FAILED_TO_SEND))
  <2>1. SIGNALING_FAILED_TO_SEND \notin {0, 37, NO_SIGNALING_CHANNEL}
    BY DEF SIGNALING_FAILED_TO_SEND, NO_SIGNALING_CHANNEL
  <2>. QED  BY <1>6, <1>7, <2>1, CodeFacts
<1>8. CASE r.status = 200 /\ ~IsSdp(r.body) /\ Fail(c, Code(BodyError(r.body)))
  <2>1. r.from = "other"
    BY <1>8, ReplyFacts
  <2>. QED  BY <1>6, <1>8, <2>1, CodeFacts
<1>9. CASE r.status = 200 /\ IsSdp(r.body) /\ keys = {} /\ Fail(c, <<"identity">>)
  <2>1. \/ r.from = "proxy"
        \/ r.from = "host" /\ (~opts.host_signs \/ Late(host.expires, clock))
    BY <1>9, KeyFacts DEF keys
  <2>. QED  BY <1>6, <1>9, <2>1, CodeFacts
<1>10. CASE r.status = 200 /\ IsSdp(r.body) /\ Accept(c, sdp)
  <2>1. ~Has(sdp, "identity") /\ (r.from = "host" => sdp = Answer)
    BY <1>10, ReplyFacts DEF sdp
  <2>2. /\ client' = [at |-> client'.at, why |-> client'.why, from |-> client'.from,
                      heard |-> client'.heard, key |-> client'.key, answer |-> client'.answer,
                      applied |-> client'.applied]
        /\ client'.at \in {"accept", "connect"} /\ client'.why = c.why /\ client'.from = c.from
        /\ client'.heard = c.heard /\ client'.key = c.key /\ client'.answer = c.answer
        /\ client'.applied \in {c.applied, sdp}
        /\ SideOK(cs') /\ cs'.error # FAILED_TO_CREATE_ANSWER
    BY <1>3, <1>10, AcceptFacts DEF Inv
  <2>3. /\ ~Has(client'.applied, "identity")
        /\ r.from = "host" => client'.applied \in {<<>>, Answer}
    BY <1>3, <1>4, <2>1, <2>2
  <2>. QED  BY <1>1, <1>2, <1>3, <1>10, <2>2, <2>3, CodeFacts, ArriveStep
<1>11. CASE /\ r.status = 200 /\ IsSdp(r.body)
            /\ client' = [c EXCEPT !.at = "verify", !.key = keys, !.answer = sdp] /\ cs' = cs
  <2>1. ~Has(sdp, "identity") /\ (r.from = "host" => sdp = Answer)
    BY <1>11, ReplyFacts DEF sdp
  <2>2. /\ keys \subseteq {HostKey, OtherKey}
        /\ \A key \in keys : FingerprintPayload(sdp) = FingerprintPayload(Owner(key))
        /\ HostKey \in keys => ~Late(host.expires, clock)
    BY <1>11, KeyFacts DEF sdp, keys
  <2>3. /\ client' = [at |-> client'.at, why |-> client'.why, from |-> client'.from,
                      heard |-> client'.heard, key |-> client'.key, answer |-> client'.answer,
                      applied |-> client'.applied]
        /\ client'.at = "verify" /\ client'.why = c.why /\ client'.from = c.from
        /\ client'.heard = c.heard /\ client'.key = keys /\ client'.answer = sdp
        /\ client'.applied = c.applied
    BY <1>3, <1>11
  <2>4. SideOK(cs') /\ cs'.error # FAILED_TO_CREATE_ANSWER
    BY <1>11 DEF Inv, Ends
  <2>. QED  BY <1>1, <1>3, <1>4, <1>11, <2>1, <2>2, <2>3, <2>4, CodeFacts, ArriveStep
<1>. QED  BY <1>5, <1>7, <1>8, <1>9, <1>10, <1>11

(* The host goes on, and perhaps responds: nothing came back before. *)
LEMMA HostMoves ==
    ASSUME Inv, UNCHANGED <<opts, clock, client, cs>>, request' = {},
           client.from = "none", client.at \notin {"offer", "probe"},
           client.why # Code(NO_SIGNALING_CHANNEL),
           host' = [at |-> host'.at, remote |-> host'.remote, offer |-> host'.offer,
                    expires |-> host'.expires],
           host'.at # "idle", reply' # {} => host'.at = "done",
           host'.offer # <<>> =>
              host'.offer = LocalSdp(ClientSdp, FALSE) /\ host'.remote = opts.local,
           host'.at \in {"validate", "set_remote", "set_local", "raises"} => host'.offer # <<>>,
           \A r \in reply' :
              /\ r = [status |-> r.status, body |-> r.body, from |-> r.from]
              /\ r.from = "host"
              /\ r.status = 200 => HostBody(r.body, opts.host_signs, host'.expires),
           SideOK(hs'),
           host'.at = "validate" \/ host'.offer = <<>> => hs' = NewSession(FALSE),
           hs'.error = FAILED_TO_CREATE_ANSWER =>
              host'.at \in {"raises", "done"} /\ \A r \in reply' : r.status # 200
    PROVE  Inv'
<1>1. /\ client.key = {} /\ client.applied = <<>> /\ client.at # "verify"
      /\ client.why # <<"identity">> /\ client.why \notin {Code(0), Code(37)}
  BY DEF Inv, Traffic, PinnedIsGenuine
<1>2. Shapes'
  BY DEF Inv, Shapes
<1>3. Traffic'
  BY <1>1 DEF Inv, Traffic
<1>4. Offers'
  BY DEF Offers
<1>5. Replies'
  BY DEF Replies
<1>6. Heard'
  BY DEF Inv, Heard
<1>7. Ends'
  BY <1>1 DEF Inv, Ends
<1>8. PinnedIsGenuine'
  BY <1>1 DEF PinnedIsGenuine
<1>. QED  BY <1>2, <1>3, <1>4, <1>5, <1>6, <1>7, <1>8 DEF Inv

LEMMA HandleJoinStep ==
    ASSUME Inv, NEW q \in request, HandleJoin(q)
    PROVE  Inv'
<1>1. host.at = "idle" /\ request' = {} /\ UNCHANGED <<opts, clock, client, cs, hs>>
  BY DEF HandleJoin
<1>2. /\ reply = {} /\ client.from = "none" /\ client.at \notin {"offer", "probe"}
      /\ client.why # Code(NO_SIGNALING_CHANNEL)
  BY DEF Inv, Traffic
<1>3. SideOK(hs') /\ hs' = NewSession(FALSE) /\ hs'.error # FAILED_TO_CREATE_ANSWER
  <2>1. hs' = NewSession(FALSE)
    BY <1>1 DEF Inv, Ends
  <2>. QED  BY <2>1, NewSideOK, Zenon
<1>4. CASE host' = [host EXCEPT !.at = "done"] /\ (Respond(404, <<>>) \/ Respond(400, <<>>))
  <2>1. /\ host' = [at |-> host'.at, remote |-> host'.remote, offer |-> host'.offer,
                    expires |-> host'.expires]
        /\ host'.at = "done" /\ host'.remote = host.remote /\ host'.offer = host.offer
    BY <1>4 DEF Inv, Shapes
  <2>2. \A r \in reply' : /\ r = [status |-> r.status, body |-> r.body, from |-> r.from]
                          /\ r.from = "host" /\ r.status # 200
    BY <1>4 DEF Respond
  <2>3. host'.offer # <<>> =>
           host'.offer = LocalSdp(ClientSdp, FALSE) /\ host'.remote = opts.local
    BY <2>1 DEF Inv, Offers
  <2>. QED  BY <1>1, <1>2, <1>3, <2>1, <2>2, <2>3, HostMoves
<1>5. CASE /\ q.path # <<>> /\ ~Malformed(q.body) /\ UNCHANGED reply
           /\ host' = [host EXCEPT !.at = "validate", !.remote = ParseId(q.path),
                                   !.offer = OfferGiven(q.body)]
  <2>1. /\ host' = [at |-> host'.at, remote |-> host'.remote, offer |-> host'.offer,
                    expires |-> host'.expires]
        /\ host'.at = "validate" /\ host'.remote = ParseId(q.path)
        /\ host'.offer = StripIdentity(q.body)
    BY <1>5 DEF Inv, Shapes, OfferGiven
  <2>2. host'.remote = opts.local
    <3>1. q.path = IdText(opts.local) /\ opts.local \in NetworkIds
      BY DEF Inv, Offers, Shapes
    <3>. QED  BY <1>5, <2>1, <3>1, IdRoundTrip
  <2>3. host'.offer = LocalSdp(ClientSdp, FALSE)
    BY <1>5, <2>1 DEF Inv, Offers
  <2>4. host'.offer # <<>>
    BY <2>3, JoinDescriptions DEF Plain, Body
  <2>. QED  BY <1>1, <1>2, <1>3, <1>5, <2>1, <2>2, <2>3, <2>4, HostMoves
<1>. QED  BY <1>4, <1>5 DEF HandleJoin

(* A host that works on the offer: the client still waits, or gave up. *)
LEMMA HostWorks ==
    ASSUME Inv, host.at \notin {"idle", "done"},
           UNCHANGED <<opts, clock, client, request, cs>>
    PROVE  /\ request' = {} /\ reply = {} /\ client.from = "none"
           /\ client.at \notin {"offer", "probe"} /\ client.why # Code(NO_SIGNALING_CHANNEL)
BY DEF Inv, Traffic

LEMMA HostSteps ==
    ASSUME Inv, Rejected \/ Validated \/ OfferApplied \/ AnswerRaises \/ AnswerRaised
    PROVE  Inv'
<1>0. UNCHANGED <<opts, clock, client, request, cs>> /\ host.at \in {"validate", "set_remote", "set_local", "raises"}
  BY DEF Rejected, Validated, OfferApplied, AnswerRaises, AnswerRaised
<1>1. /\ request' = {} /\ reply = {} /\ client.from = "none"
      /\ client.at \notin {"offer", "probe"} /\ client.why # Code(NO_SIGNALING_CHANNEL)
  BY <1>0, HostWorks
<1>2. /\ host.offer # <<>> /\ host.offer = LocalSdp(ClientSdp, FALSE) /\ host.remote = opts.local
      /\ SideOK(hs)
      /\ hs.error = FAILED_TO_CREATE_ANSWER => host.at = "raises"
      /\ host.at = "validate" => hs = NewSession(FALSE)
  BY <1>0 DEF Inv, Offers, Ends
<1>3. /\ host' = [at |-> host'.at, remote |-> host'.remote, offer |-> host'.offer,
                  expires |-> host'.expires]
      /\ host'.remote = host.remote
      /\ host'.offer = host.offer \/ (host'.offer = <<>> /\ host'.at = "done")
  BY DEF Inv, Shapes, Rejected, Validated, OfferApplied, AnswerRaises, AnswerRaised
<1>4. /\ host'.offer # <<>> =>
            host'.offer = LocalSdp(ClientSdp, FALSE) /\ host'.remote = opts.local
      /\ host'.at # "done" => host'.offer # <<>>
  BY <1>2, <1>3
<1>5. CASE Rejected
  <2>1. host'.at = "done" /\ Respond(403, <<>>) /\ hs' = hs /\ host.at = "validate"
    BY <1>5 DEF Rejected, Inv, Shapes
  <2>2. \A r \in reply' : /\ r = [status |-> r.status, body |-> r.body, from |-> r.from]
                          /\ r.from = "host" /\ r.status # 200
    BY <2>1 DEF Respond
  <2>. QED  BY <1>0, <1>1, <1>2, <1>3, <1>4, <2>1, <2>2, HostMoves
<1>6. CASE Validated
  <2>1. host'.at = "set_remote" /\ reply' = reply /\ hs' = hs /\ host.at = "validate"
    BY <1>6 DEF Validated, Inv, Shapes
  <2>. QED  BY <1>0, <1>1, <1>2, <1>3, <1>4, <2>1, HostMoves
<1>7. CASE OfferApplied
  <2>1. host'.at = "set_local" /\ reply' = reply /\ host.at = "set_remote"
        /\ hs' = RemoteDescriptionSet(hs)
    BY <1>7 DEF OfferApplied, Inv, Shapes
  <2>2. SideOK(hs') /\ hs'.error = hs.error
    BY <1>2, <2>1, SideEntry
  <2>. QED  BY <1>0, <1>1, <1>2, <1>3, <1>4, <2>1, <2>2, HostMoves
<1>8. CASE AnswerRaises
  <2>1. host'.at = "raises" /\ reply' = reply /\ hs' = Close(hs, FAILED_TO_CREATE_ANSWER)
    BY <1>8 DEF AnswerRaises, Inv, Shapes
  <2>2. SideOK(hs')
    BY <1>2, <2>1, SideClose DEF Codes
  <2>. QED  BY <1>0, <1>1, <1>2, <1>3, <1>4, <2>1, <2>2, HostMoves
<1>9. CASE AnswerRaised
  <2>1. host'.at = "done" /\ Respond(500, <<>>) /\ hs' = hs /\ host'.offer = host.offer
    BY <1>9 DEF AnswerRaised, Inv, Shapes
  <2>2. \A r \in reply' : /\ r = [status |-> r.status, body |-> r.body, from |-> r.from]
                          /\ r.from = "host" /\ r.status # 200
    BY <2>1 DEF Respond
  <2>. QED  BY <1>0, <1>1, <1>2, <1>3, <1>4, <2>1, <2>2, HostMoves
<1>. QED  BY <1>5, <1>6, <1>7, <1>8, <1>9

LEMMA AnsweredStep ==
    ASSUME Inv, Answered
    PROVE  Inv'
<1>0. UNCHANGED <<opts, clock, client, request, cs>> /\ host.at = "set_local" /\ hs' = AnswerResumed(hs)
  BY DEF Answered
<1>1. /\ request' = {} /\ reply = {} /\ client.from = "none"
      /\ client.at \notin {"offer", "probe"} /\ client.why # Code(NO_SIGNALING_CHANNEL)
  BY <1>0, HostWorks
<1>2. /\ host.offer # <<>> /\ host.offer = LocalSdp(ClientSdp, FALSE) /\ host.remote = opts.local
      /\ SideOK(hs) /\ hs.error # FAILED_TO_CREATE_ANSWER
  BY <1>0 DEF Inv, Offers, Ends
<1>3. SideOK(hs') /\ hs'.error # FAILED_TO_CREATE_ANSWER
  BY <1>0, <1>2, SideEntry
<1>4. /\ host' = [at |-> host'.at, remote |-> host'.remote, offer |-> host'.offer,
                  expires |-> host'.expires]
      /\ host'.at = "done" /\ host'.remote = host.remote /\ host'.offer = host.offer
  BY DEF Inv, Shapes, Answered
<1>5. PICK body : /\ reply' = {[status |-> 200, body |-> body, from |-> "host"]}
                  /\ HostBody(body, opts.host_signs, host'.expires)
  <2>1. CASE opts.host_signs
    <3>1. /\ Respond(200, Sign(Answer, HostKey, clock, Lifetime))
          /\ host'.expires = Token(HostKey, clock, Lifetime).exp
      BY <2>1 DEF Answered, Answer, Inv, Shapes
    <3>2. HostBody(Sign(Answer, HostKey, clock, Lifetime), opts.host_signs, host'.expires)
      BY <2>1, <3>1 DEF HostBody, SignedAt, Inv, Shapes
    <3>. QED  BY <3>1, <3>2 DEF Respond
  <2>2. CASE ~opts.host_signs
    BY <2>2 DEF Answered, Answer, HostBody, Respond
  <2>. QED  BY <2>1, <2>2
<1>6. \A r \in reply' : /\ r = [status |-> r.status, body |-> r.body, from |-> r.from]
                        /\ r.from = "host" /\ HostBody(r.body, opts.host_signs, host'.expires)
  BY <1>5
<1>. QED  BY <1>0, <1>1, <1>2, <1>3, <1>4, <1>6, HostMoves

(* Hosts and proxies between them touch only what is on its way. *)
LEMMA NetMoves ==
    ASSUME Inv, UNCHANGED <<opts, clock, client, host, cs, hs>>,
           client.from = "none", client.at \notin {"offer", "probe"},
           client.why # Code(NO_SIGNALING_CHANNEL),
           request' # {} => host.at = "idle" /\ reply' = {},
           reply' # {} => host.at \in {"idle", "done"} /\ hs.error # FAILED_TO_CREATE_ANSWER,
           \A r \in reply' : r = [status |-> r.status, body |-> r.body, from |-> r.from],
           \A q \in request' :
              /\ q = [path |-> q.path, body |-> q.body]
              /\ q.path = IdText(opts.local) /\ Formed(q.body)
              /\ Malformed(q.body) \/ StripIdentity(q.body) = LocalSdp(ClientSdp, FALSE),
           Replies'
    PROVE  Inv'
<1>1. Shapes' /\ Heard'
  BY DEF Inv, Shapes, Heard
<1>2. Traffic'
  BY DEF Inv, Traffic
<1>3. Offers'
  BY DEF Inv, Offers
<1>4. Ends'
  BY DEF Inv, Ends
<1>5. PinnedIsGenuine'
  BY DEF Inv, PinnedIsGenuine, Expired
<1>. QED  BY <1>1, <1>2, <1>3, <1>4, <1>5 DEF Inv

LEMMA NetSteps ==
    ASSUME Inv, \/ OtherHost \/ BadGateway
                \/ (\E r \in reply : Rewrite(r)) \/ (\E q \in request : DamageOffer(q))
    PROVE  Inv'
<1>0. UNCHANGED <<opts, clock, client, host, cs, hs>>
  BY DEF OtherHost, BadGateway, Rewrite, DamageOffer
<1>1. /\ client.from = "none" /\ client.at \notin {"offer", "probe"}
      /\ client.why # Code(NO_SIGNALING_CHANNEL)
  <2>1. request # {} \/ reply # {}
    BY DEF OtherHost, BadGateway, Rewrite, DamageOffer
  <2>. QED  BY <2>1 DEF Inv, Traffic
<1>2. request # {} => host.at = "idle" /\ reply = {} /\ hs.error # FAILED_TO_CREATE_ANSWER
  <2>. SUFFICES ASSUME request # {} PROVE host.at = "idle" /\ reply = {} /\ hs.error # FAILED_TO_CREATE_ANSWER
    OBVIOUS
  <2>1. host.at = "idle" /\ reply = {}
    BY DEF Inv, Traffic
  <2>. QED  BY <2>1 DEF Inv, Ends
<1>3. CASE OtherHost
  <2>1. PICK body \in OtherBodies :
           reply' = {[status |-> 200, body |-> body, from |-> "other"]}
    BY <1>3 DEF OtherHost
  <2>2. request # {} /\ request' = {}
    BY <1>3 DEF OtherHost
  <2>3. \A r \in reply' : /\ r = [status |-> r.status, body |-> r.body, from |-> r.from]
                          /\ r.from = "other" /\ r.status = 200 /\ r.body \in OtherBodies
    BY <2>1
  <2>4. Replies'
    BY <1>0, <1>2, <2>2, <2>3 DEF Replies, OtherBodies
  <2>. QED  BY <1>0, <1>1, <1>2, <2>2, <2>3, <2>4, NetMoves
<1>4. CASE BadGateway
  <2>1. request # {} /\ request' = {}
        /\ reply' = {[status |-> 502, body |-> <<>>, from |-> "proxy"]}
    BY <1>4 DEF BadGateway
  <2>2. \A r \in reply' : /\ r = [status |-> r.status, body |-> r.body, from |-> r.from]
                          /\ r.from = "proxy" /\ r.status # 200
    BY <2>1
  <2>3. Replies'
    BY <2>2 DEF Replies
  <2>. QED  BY <1>0, <1>1, <1>2, <2>1, <2>2, <2>3, NetMoves
<1>5. ASSUME NEW r \in reply, Rewrite(r) PROVE Inv'
  <2>1. r.from = "host" /\ r.status = 200 /\ request' = request
    BY <1>5 DEF Rewrite
  <2>2. PICK b \in {StripIdentity(r.body), Damaged(r.body), Relayed(r.body)} :
           reply' = {[r EXCEPT !.body = b, !.from = "proxy"]}
    BY <1>5 DEF Rewrite
  <2>3. host.at = "done" /\ HostBody(r.body, opts.host_signs, host.expires)
    BY <2>1 DEF Inv, Replies
  <2>4. ProxyBody(b, host.expires)
    BY <2>3, RewrittenFacts
  <2>5. r = [status |-> r.status, body |-> r.body, from |-> r.from]
    BY DEF Inv, Shapes
  <2>6. ASSUME NEW x \in reply'
        PROVE  /\ x = [status |-> x.status, body |-> x.body, from |-> x.from]
               /\ x.from = "proxy" /\ x.body = b
    <3>1. x = [r EXCEPT !.body = b, !.from = "proxy"]
      BY <2>2
    <3>. QED  BY <2>5, <3>1
  <2>7. Replies'
    BY <1>0, <2>3, <2>4, <2>6 DEF Replies
  <2>8. request = {} /\ hs.error # FAILED_TO_CREATE_ANSWER
    BY <2>1 DEF Inv, Traffic, Ends
  <2>. QED  BY <1>0, <1>1, <2>1, <2>3, <2>6, <2>7, <2>8, NetMoves
<1>6. ASSUME NEW q \in request, DamageOffer(q) PROVE Inv'
  <2>1. /\ Has(q.body, "identity") /\ request' = {[q EXCEPT !.body = Damaged(q.body)]}
        /\ reply' = reply
    BY <1>6 DEF DamageOffer
  <2>2. q.path = IdText(opts.local) /\ Formed(q.body) /\ q = [path |-> q.path, body |-> q.body]
    BY DEF Inv, Offers, Shapes
  <2>3. Formed(Damaged(q.body)) /\ Malformed(Damaged(q.body))
    BY <2>1, <2>2, DamagedFacts
  <2>4. ASSUME NEW x \in request'
        PROVE  /\ x = [path |-> x.path, body |-> x.body]
               /\ x.path = q.path /\ x.body = Damaged(q.body)
    <3>1. x = [q EXCEPT !.body = Damaged(q.body)]
      BY <2>1
    <3>. QED  BY <2>2, <3>1
  <2>5. reply' = {}
    BY <1>2, <2>1
  <2>6. Replies'
    BY <2>5 DEF Replies
  <2>. QED  BY <1>0, <1>1, <1>2, <2>2, <2>3, <2>4, <2>5, <2>6, NetMoves
<1>. QED  BY <1>3, <1>4, <1>5, <1>6

LEMMA NextInv == Inv /\ [Next]_vars => Inv'
<1>. SUFFICES ASSUME Inv, [Next]_vars PROVE Inv'
  OBVIOUS
<1>1. CASE Tick
  BY <1>1, TickStep
<1>2. CASE ConnectHttp
  BY <1>2, OfferSteps, FailSteps, AnswerStep, IdentityAcceptedStep, CancelCleanupStep, WaitSteps
     DEF ConnectHttp
<1>3. CASE AnswerOffer
  BY <1>3, HandleJoinStep, HostSteps, AnsweredStep DEF AnswerOffer
<1>4. CASE \/ OtherHost \/ BadGateway
           \/ (\E r \in reply : Rewrite(r)) \/ (\E q \in request : DamageOffer(q))
  BY <1>4, NetSteps
<1>5. CASE \E side \in Sides : \/ Timeout(side) \/ ChannelsOpen(side) \/ ConnectionFails(side)
                               \/ PeerGone(side) \/ PcClosed(side)
  BY <1>5, SideStep
<1>6. CASE UNCHANGED vars
  <2>1. UNCHANGED <<opts, clock, client, host, request, reply>> /\ cs' = cs /\ hs' = hs
    BY <1>6 DEF vars
  <2>. QED  BY <2>1, MovesStep
<1>. QED  BY <1>1, <1>2, <1>3, <1>4, <1>5, <1>6 DEF Next

LEMMA JoinInvariant == Spec => []Inv
BY InitInv, NextInv, PTL DEF Spec

-----------------------------------------------------------------------------
(* What follows from it. *)

(* _answer_offer and accept_answer: for all descriptions, ids in either form  *)
(* and proxies, what reaches the host's peer connection is the client's own   *)
(* description under its own id, what reaches the client's from that host is  *)
(* its relay-only answer, and no a=identity line reaches either.              *)
THEOREM JoinDescriptionsFaithful == Spec => []DescriptionsFaithful
<1>1. Inv => DescriptionsFaithful
  BY DEF Inv, Offers, Heard, Answer, DescriptionsFaithful
<1>. QED  BY <1>1, JoinInvariant, PTL

(* verify_server_identity: with keys of every supported kind, any token       *)
(* lifetime and any clock, the key handed to on_server_identity belongs to    *)
(* the host whose fingerprints are applied, its token was live, and an answer *)
(* is refused only where the host does not sign, a proxy changed it or its    *)
(* token expired.                                                             *)
THEOREM JoinPinnedIsGenuine == Spec => []PinnedIsGenuine
<1>1. Inv => PinnedIsGenuine
  BY DEF Inv
<1>. QED  BY <1>1, JoinInvariant, PTL

(* "except BaseException" in connect_http and _answer_offer, and the codes of *)
(* request_answer: every dial that raised left its session closed, and torn   *)
(* down unless it was cancelled during that, whichever codes other hosts      *)
(* answer with; NO_SIGNALING_CHANNEL and the codes of hosts say who was       *)
(* asked, and an offer that was turned down left no session behind.           *)
THEOREM JoinFailureTellsWhy == Spec => []FailureTellsWhy
<1>1. Answer # <<>>
  BY JoinDescriptions DEF Plain, Body
<1>2. Inv => FailureTellsWhy
  BY <1>1 DEF Inv, Traffic, Ends, Answer, FailureTellsWhy
<1>. QED  BY <1>2, JoinInvariant, PTL
=============================================================================
