------------------------------ MODULE HttpJoin ------------------------------
(***************************************************************************)
(* Joining over HTTP signalling: connect_http (api.py) with request_answer *)
(* (signaling/http.py) on one side, HttpSignalingServer and                *)
(* HttpServer._answer_offer on the other, between them a network and       *)
(* proxies, and underneath one Session each, with the methods of           *)
(* SessionOps.  Descriptions and assertions are those of Sdp and Identity, *)
(* ids those of NetworkId.  Each await is a point of interleaving.         *)
(***************************************************************************)
EXTENDS SessionOps, Identity, NetworkId

CONSTANTS
    LocalIds,             \* the NetworkID a client may have
    ClientSdp, HostSdp,   \* their local descriptions in aiortc
    OtherSdp,             \* the description of some other host
    ClientKey, HostKey, OtherKey,
    Lifetime,             \* of the tokens HostKey signs
    ErrorBodies,          \* the numbers other hosts answer instead of an SDP
    MaxTime               \* bound on the clock

(* _parse_answer: what it takes for an SDP. *)
IsSdp(body) == body # <<>> /\ Head(body) = <<"v">>

ASSUME JoinAssumption ==
    /\ \A key \in {ClientKey, HostKey, OtherKey} : AlgForKey(key) # {}
    /\ HostKey # OtherKey
    /\ Lifetime \in Nat \cup {NoExp} /\ MaxTime \in Nat
    /\ LocalIds \subseteq NetworkIds /\ ErrorBodies \subseteq Nat
    /\ \A sdp \in {ClientSdp, HostSdp, OtherSdp} :
          sdp \in Seq(ToSet(sdp)) /\ IsSdp(sdp) /\ ~Has(sdp, "identity")

VARIABLES opts,      \* how client and host were called
          clock,
          client,    \* the coroutine of connect_http
          host,      \* the coroutine of _handle_join
          request,   \* the POST on its way, a set of at most one
          reply,     \* the response on its way, a set of at most one
          cs, hs     \* the sessions of client and host

vars == <<opts, clock, client, host, request, reply, cs, hs>>

(* The SessionError codes of request_answer. *)
SIGNALING_PARSING_FAILURE == 17
SIGNALING_UNKNOWN_ERROR == 18
NO_SIGNALING_CHANNEL == 24
SIGNALING_FAILED_TO_SEND == 26
SessionErrors == 0 .. 37

Init ==
    /\ opts \in [local : LocalIds, capability_check : BOOLEAN,
                 on_server_identity : BOOLEAN,
                 client_signs : BOOLEAN, host_signs : BOOLEAN]
    /\ clock = 0
    /\ client = [at |-> "offer", why |-> <<"none">>, from |-> "none", heard |-> 0,
                 key |-> {}, answer |-> <<>>, applied |-> <<>>]
    /\ host = [at |-> "idle", remote |-> Unset, offer |-> <<>>, expires |-> NoExp]
    /\ request = {} /\ reply = {}
    /\ cs = NewSession(TRUE) /\ hs = NewSession(FALSE)

(* A second goes by. *)
Tick ==
    /\ clock < MaxTime /\ clock' = clock + 1
    /\ UNCHANGED <<opts, client, host, request, reply, cs, hs>>

-----------------------------------------------------------------------------
(* connect_http. *)

(* Seeded fault: the clause is "except Exception", which a cancellation is   *)
(* not.                                                                      *)
CleanupOf(why) == IF why = <<"cancelled">> THEN cs ELSE Close(cs, GENERIC_FAILURE)

(* "except BaseException": the session is closed, whatever was raised. *)
Cleanup(why) == Close(cs, GENERIC_FAILURE)

Fail(c, why) ==
    /\ client' = [c EXCEPT !.at = "closing", !.why = why]
    /\ cs' = Cleanup(why)

Code(error) == <<"code", error>>

(* The offer, with the assertion of the client if it has a signer. *)
OfferBody ==
    IF opts.client_signs THEN Sign(LocalSdp(ClientSdp, FALSE), ClientKey, clock, NoExp)
    ELSE LocalSdp(ClientSdp, FALSE)

Post == request' = {[path |-> IdText(opts.local), body |-> OfferBody]}

(* session.offer() returned, and the first request is on its way: the        *)
(* capability check, or the POST.                                            *)
OfferReady ==
    /\ client.at = "offer"
    /\ cs' = OfferResumed(cs)
    /\ client' = [client EXCEPT !.at = IF opts.capability_check THEN "probe" ELSE "post"]
    /\ IF opts.capability_check THEN UNCHANGED request ELSE Post
    /\ UNCHANGED <<opts, clock, host, reply, hs>>

(* GET /v1/join returned 2xx. *)
Supported ==
    /\ client.at = "probe" /\ Post
    /\ client' = [client EXCEPT !.at = "post"]
    /\ UNCHANGED <<opts, clock, host, reply, cs, hs>>

(* Another status, no connection, or its timeout. *)
NotSupported ==
    /\ client.at = "probe" /\ Fail(client, Code(NO_SIGNALING_CHANNEL))
    /\ UNCHANGED <<opts, clock, host, request, reply, hs>>

(* The POST fails or times out; the host may or may not have it. *)
PostFails ==
    /\ client.at = "post" /\ Fail(client, Code(SIGNALING_FAILED_TO_SEND))
    /\ UNCHANGED <<opts, clock, host, request, reply, hs>>

(* _parse_answer: the error of a body that is no SDP.  isdigit() is also     *)
(* true of digits that int() rejects.                                        *)
BodyError(body) ==
    IF body = <<>> \/ \E i \in DOMAIN body : body[i][1] \notin {"digit", "superscript"}
    THEN SIGNALING_PARSING_FAILURE
    ELSE IF IsDecimal(body) /\ IntOf(body) \in SessionErrors THEN IntOf(body)
    ELSE SIGNALING_UNKNOWN_ERROR

(* accept_answer, up to its await; it does nothing unless the session still  *)
(* waits for the answer.                                                     *)
Accept(c, sdp) ==
    IF cs.state = "OFFER_SENT"
    THEN cs' = ResponseReceived(cs) /\ client' = [c EXCEPT !.at = "accept", !.applied = sdp]
    ELSE UNCHANGED cs /\ client' = [c EXCEPT !.at = "connect"]

(* The response is there: request_answer returns or raises, and the          *)
(* assertion is verified or stripped.                                        *)
AnswerArrives(r) ==
    /\ client.at = "post" /\ reply' = {}
    /\ LET keys == VerifyServerIdentity(r.body, clock)
           sdp == StripIdentity(r.body)
           c == [client EXCEPT !.from = r.from, !.heard = clock]
           answer == r.status = 200 /\ IsSdp(r.body)
       IN  \/ r.status # 200 /\ Fail(c, Code(SIGNALING_FAILED_TO_SEND))
           \/ r.status = 200 /\ ~IsSdp(r.body) /\ Fail(c, Code(BodyError(r.body)))
           \/ answer /\ ~opts.on_server_identity /\ Accept(c, sdp)
           \/ answer /\ opts.on_server_identity /\ keys = {} /\ Fail(c, <<"identity">>)
           \/ /\ answer /\ opts.on_server_identity /\ keys # {}
              /\ client' = [c EXCEPT !.at = "verify", !.key = keys, !.answer = sdp]
              /\ UNCHANGED cs
    /\ UNCHANGED <<opts, clock, host, request, hs>>

(* The callback of the application is through with the identity ... *)
IdentityAccepted ==
    /\ client.at = "verify" /\ Accept(client, client.answer)
    /\ UNCHANGED <<opts, clock, host, request, reply, hs>>

(* ... or refuses it. *)
IdentityRefused ==
    /\ client.at = "verify" /\ Fail(client, <<"refused">>)
    /\ UNCHANGED <<opts, clock, host, request, reply, hs>>

(* setRemoteDescription returned, or raised. *)
AnswerApplied ==
    /\ client.at = "accept" /\ cs.pc # "closed"
    /\ cs' = RemoteDescriptionSet(cs)
    /\ client' = [client EXCEPT !.at = "connect"]
    /\ UNCHANGED <<opts, clock, host, request, reply, hs>>

AnswerUnusable ==
    /\ client.at = "accept" /\ Fail(client, <<"aiortc">>)
    /\ UNCHANGED <<opts, clock, host, request, reply, hs>>

(* _await_connected returns the result or the exception of the future, ... *)
Connected ==
    /\ client.at = "connect" /\ cs.opens > 0
    /\ client' = [client EXCEPT !.at = "returned"]
    /\ UNCHANGED <<opts, clock, host, request, reply, cs, hs>>

ConnectFails ==
    /\ client.at = "connect" /\ cs.opens = 0 /\ cs.closes > 0 /\ Fail(client, Code(cs.error))
    /\ UNCHANGED <<opts, clock, host, request, reply, hs>>

(* ... unless the timeout of the caller is over. *)
ConnectExpires ==
    /\ client.at = "connect" /\ Fail(client, Code(WAITING_FOR_RESPONSE))
    /\ UNCHANGED <<opts, clock, host, request, reply, hs>>

(* The caller cancels connect_http at whatever it awaits. *)
Awaits == {"offer", "probe", "post", "verify", "accept", "connect"}
Cancel ==
    /\ client.at \in Awaits /\ Fail(client, <<"cancelled">>)
    /\ UNCHANGED <<opts, clock, host, request, reply, hs>>

(* Session.aclose awaits the teardown behind a shield: a cancellation while  *)
(* the except clause awaits it makes connect_http raise at once, and the     *)
(* teardown goes on.                                                         *)
CancelCleanup ==
    /\ client.at = "closing" /\ cs.closes > 0 /\ cs.pc # "closed"
    /\ client' = [client EXCEPT !.at = "raised", !.why = <<"interrupted">>]
    /\ UNCHANGED <<opts, clock, host, request, reply, cs, hs>>

(* aclose returned, and connect_http raises. *)
Raised ==
    /\ client.at = "closing" /\ (cs.closes > 0 => cs.pc = "closed")
    /\ client' = [client EXCEPT !.at = "raised"]
    /\ UNCHANGED <<opts, clock, host, request, reply, cs, hs>>

-----------------------------------------------------------------------------
(* The host. *)

Respond(status, body) == reply' = {[status |-> status, body |-> body, from |-> "host"]}

(* Seeded fault: the session gets the offer as it came. *)
OfferGivenRaw(body) == body

OfferGiven(body) == StripIdentity(body)

(* _handle_join and _answer_offer up to validate_offer.  The route needs an  *)
(* id in the path; a malformed assertion is a bad request.                   *)
HandleJoin(q) ==
    /\ host.at = "idle" /\ request' = {}
    /\ \/ /\ q.path = <<>> /\ Respond(404, <<>>)
          /\ host' = [host EXCEPT !.at = "done"]
       \/ /\ q.path # <<>> /\ Malformed(q.body) /\ Respond(400, <<>>)
          /\ host' = [host EXCEPT !.at = "done"]
       \/ /\ q.path # <<>> /\ ~Malformed(q.body)
          /\ host' = [host EXCEPT !.at = "validate", !.remote = ParseId(q.path),
                                  !.offer = OfferGiven(q.body)]
          /\ UNCHANGED reply
    /\ UNCHANGED <<opts, clock, client, cs, hs>>

(* validate_offer raises SignalingRejected ... *)
Rejected ==
    /\ host.at = "validate" /\ Respond(403, <<>>)
    /\ host' = [host EXCEPT !.at = "done", !.offer = <<>>]
    /\ UNCHANGED <<opts, clock, client, request, cs, hs>>

(* ... or returns, and the session made by _make_http_session answers. *)
Validated ==
    /\ host.at = "validate"
    /\ host' = [host EXCEPT !.at = "set_remote"]
    /\ UNCHANGED <<opts, clock, client, request, reply, cs, hs>>

OfferApplied ==
    /\ host.at = "set_remote"
    /\ hs' = RemoteDescriptionSet(hs)
    /\ host' = [host EXCEPT !.at = "set_local"]
    /\ UNCHANGED <<opts, clock, client, request, reply, cs>>

Answered ==
    /\ host.at = "set_local"
    /\ hs' = AnswerResumed(hs)
    /\ LET sdp == LocalSdp(HostSdp, TRUE)
       IN  IF opts.host_signs
           THEN /\ Respond(200, Sign(sdp, HostKey, clock, Lifetime))
                /\ host' = [host EXCEPT !.at = "done",
                              !.expires = Token(HostKey, clock, Lifetime).exp]
           ELSE Respond(200, sdp) /\ host' = [host EXCEPT !.at = "done"]
    /\ UNCHANGED <<opts, clock, client, request, cs>>

(* aiortc raises: the session is closed, then aiohttp answers 500. *)
AnswerRaises ==
    /\ host.at \in {"set_remote", "set_local"}
    /\ hs' = Close(hs, FAILED_TO_CREATE_ANSWER)
    /\ host' = [host EXCEPT !.at = "raises"]
    /\ UNCHANGED <<opts, clock, client, request, reply, cs>>

AnswerRaised ==
    /\ host.at = "raises" /\ hs.pc = "closed" /\ Respond(500, <<>>)
    /\ host' = [host EXCEPT !.at = "done"]
    /\ UNCHANGED <<opts, clock, client, request, cs, hs>>

-----------------------------------------------------------------------------
(* Between them. *)

(* The POST reaches another host: one that answers with an error code or     *)
(* some other number, with no SDP at all, or properly.                       *)
OtherBodies ==
    {<<>>, <<<<"html">>>>, <<<<"superscript", 2>>>>, Sign(OtherSdp, OtherKey, 0, NoExp)}
       \cup {Decimal[n] : n \in ErrorBodies}
OtherHost ==
    /\ request # {} /\ request' = {}
    /\ \E body \in OtherBodies :
          reply' = {[status |-> 200, body |-> body, from |-> "other"]}
    /\ UNCHANGED <<opts, clock, client, host, cs, hs>>

(* A proxy rewrites the answer: without the assertion, with a damaged one,   *)
(* or with a media endpoint of its own; or it damages that of the offer.     *)
Damaged(body) ==
    [i \in DOMAIN body |-> IF body[i][1] # "identity" THEN body[i]
                           ELSE <<"identity", [body[i][2] EXCEPT !.wellformed = FALSE]>>]
Relayed(body) ==
    [i \in DOMAIN body |-> IF body[i][1] # "fingerprint" THEN body[i]
                           ELSE <<"fingerprint", "proxy">>]
Rewrite(r) ==
    /\ r.from = "host" /\ r.status = 200
    /\ \E body \in {StripIdentity(r.body), Damaged(r.body), Relayed(r.body)} \ {r.body} :
          reply' = {[r EXCEPT !.body = body, !.from = "proxy"]}
    /\ UNCHANGED <<opts, clock, client, host, request, cs, hs>>

DamageOffer(q) ==
    /\ Has(q.body, "identity")
    /\ request' = {[q EXCEPT !.body = Damaged(q.body)]}
    /\ UNCHANGED <<opts, clock, client, host, reply, cs, hs>>

(* A proxy answers that the host is not available. *)
BadGateway ==
    /\ request # {} /\ request' = {}
    /\ reply' = {[status |-> 502, body |-> <<>>, from |-> "proxy"]}
    /\ UNCHANGED <<opts, clock, client, host, cs, hs>>

-----------------------------------------------------------------------------
(* Timers and transport events of the two sessions. *)

(* DTLS succeeds between the descriptions the two sides applied. *)
Linked ==
    /\ Negotiated(cs) /\ Negotiated(hs)
    /\ FingerprintPayload(client.applied) = FingerprintPayload(HostSdp)
    /\ FingerprintPayload(host.offer) = FingerprintPayload(ClientSdp)

Sides == {"client", "host"}
Mine(side) == IF side = "client" THEN cs ELSE hs
Peer(side) == IF side = "client" THEN hs ELSE cs

Event(side, s) ==
    /\ IF side = "client" THEN cs' = s /\ UNCHANGED hs ELSE hs' = s /\ UNCHANGED cs
    /\ UNCHANGED <<opts, clock, client, host, request, reply>>

Timeout(side) ==
    Mine(side).timeout # NoTimer /\ Event(side, TimeoutExpires(Mine(side)))

ChannelsOpen(side) ==
    /\ Linked /\ ~Mine(side).channels_open_fired
    /\ Event(side, HandleChannelOpen(HandleChannelOpen(Mine(side), TRUE), FALSE))

ConnectionFails(side) ==
    Negotiated(Mine(side)) /\ Event(side, PcChanges(Mine(side), "failed"))

(* The peer closed its end of the connection. *)
PeerGone(side) ==
    /\ Negotiated(Mine(side)) /\ Mine(side).channels_open_fired /\ Peer(side).pc = "closed"
    /\ Event(side, PcChanges(Mine(side), "closed"))

(* The teardown that Session.close started is done. *)
PcClosed(side) ==
    /\ Mine(side).closes > 0 /\ Mine(side).pc # "closed"
    /\ Event(side, PcChanges(Mine(side), "closed"))

-----------------------------------------------------------------------------
ConnectHttp ==
    \/ OfferReady \/ Supported \/ NotSupported \/ PostFails
    \/ \E r \in reply : AnswerArrives(r)
    \/ IdentityAccepted \/ IdentityRefused \/ AnswerApplied \/ AnswerUnusable
    \/ Connected \/ ConnectFails \/ ConnectExpires \/ Cancel \/ CancelCleanup \/ Raised

AnswerOffer ==
    \/ \E q \in request : HandleJoin(q)
    \/ Rejected \/ Validated \/ OfferApplied \/ Answered \/ AnswerRaises \/ AnswerRaised

Next ==
    \/ Tick \/ ConnectHttp \/ AnswerOffer
    \/ OtherHost \/ BadGateway
    \/ (\E r \in reply : Rewrite(r)) \/ (\E q \in request : DamageOffer(q))
    \/ \E side \in Sides : \/ Timeout(side) \/ ChannelsOpen(side) \/ ConnectionFails(side)
                            \/ PeerGone(side) \/ PcClosed(side)

Spec == Init /\ [][Next]_vars

(* aiortc calls return or raise, aiohttp requests end or time out, timers   *)
(* fire, teardowns end.  Nothing is assumed of the callback of the          *)
(* application, of its cancellations, nor of ICE.                           *)
FairSpec ==
    /\ Spec
    /\ WF_vars(OfferReady) /\ WF_vars(Supported \/ NotSupported) /\ WF_vars(PostFails)
    /\ WF_vars(AnswerApplied \/ AnswerUnusable)
    /\ WF_vars(Connected \/ ConnectFails) /\ WF_vars(Raised)
    /\ \A side \in Sides :
          WF_vars(Timeout(side)) /\ WF_vars(PeerGone(side)) /\ WF_vars(PcClosed(side))

-----------------------------------------------------------------------------
(* Properties. *)

(* _answer_offer and accept_answer: what the host's peer connection is given  *)
(* is the client's description with all its candidates, under the client's    *)
(* own id, whatever its form; and unless another host or a proxy came between *)
(* them, what the client's is given is the relay-only answer of the host; no  *)
(* a=identity line reaches either.                                            *)
DescriptionsFaithful ==
    /\ host.offer # <<>> =>
          host.offer = LocalSdp(ClientSdp, FALSE) /\ host.remote = opts.local
    /\ ~Has(client.applied, "identity")
    /\ (client.applied # <<>> /\ client.from = "host") =>
          client.applied = LocalSdp(HostSdp, TRUE)

(* verify_server_identity: the key handed to on_server_identity is that of    *)
(* the host whose fingerprints the client goes on to apply, with a token that *)
(* was live; an answer is only refused if the host does not sign, a proxy     *)
(* changed it, or its token expired on the way.                               *)
Expired == host.expires # NoExp /\ host.expires < client.heard
Owner(key) == IF key = HostKey THEN HostSdp ELSE OtherSdp
PinnedIsGenuine ==
    /\ \A key \in client.key :
          FingerprintPayload(client.answer) = FingerprintPayload(Owner(key))
    /\ client.why = <<"identity">> =>
          \/ client.from = "proxy"
          \/ client.from = "host" /\ (~opts.host_signs \/ Expired)
    /\ HostKey \in client.key => ~Expired

(* "except BaseException" in connect_http and _answer_offer, and the codes of *)
(* request_answer: a dial that raised, for whatever reason, left its session  *)
(* closed, and torn down too unless it was cancelled in the middle of that;   *)
(* one that returned had opened.  NO_SIGNALING_CHANNEL means that this host   *)
(* was not asked: the capability check failed and no POST was made, or        *)
(* another host answered with that very code.  The codes that nothing on this *)
(* side raises are only reported when a host answered with them.  An offer    *)
(* that was turned down left no session behind.                               *)
FailureTellsWhy ==
    /\ client.at = "raised" =>
          cs.state = "CLOSED" /\ (cs.pc = "closed" \/ client.why = <<"interrupted">>)
    /\ client.at = "returned" => cs.opens = 1
    /\ client.why = Code(NO_SIGNALING_CHANNEL) =>
          /\ request = {} /\ reply = {} /\ host.at = "idle"
          /\ client.from = "other" \/ opts.capability_check
    /\ client.why \in {Code(0), Code(37)} => client.from = "other" /\ host.at = "idle"
    /\ (host.at = "done" /\ host.offer = <<>>) => hs = NewSession(FALSE)
    /\ hs.error = FAILED_TO_CREATE_ANSWER => client.applied # LocalSdp(HostSdp, TRUE)

(* Every wait of connect_http ends, but for the application's own callback,   *)
(* also when the host never answers, answers too late or goes away; a dial    *)
(* that raised is torn down in the end, wherever it was cancelled; a session  *)
(* that the host made for a client that gave up does not stay, neither        *)
(* waiting nor connected.                                                     *)
JoinEnds ==
    /\ client.at # "verify" ~> client.at \in {"verify", "returned", "raised"}
    /\ client.at = "raised" ~> cs.pc = "closed"
    /\ (client.at = "raised" /\ hs.state \in Waiting \cup {"CONNECTED"}) ~> hs.state = "CLOSED"
=============================================================================
