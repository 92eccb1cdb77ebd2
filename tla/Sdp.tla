-------------------------------- MODULE Sdp --------------------------------
(***************************************************************************)
(* The SDP rewriting of transport/peer_connection.py and identity.py.  An  *)
(* SDP is a sequence of lines, a line a tuple that starts with its kind:   *)
(*   <<"v">>  <<"m">>  <<"sctp-port">>  <<"max-message-size", n>>          *)
(*   <<"candidate", c, typ>>  <<"end-of-candidates">>                      *)
(*   <<"fingerprint", f>>  <<"identity", envelope>>                        *)
(***************************************************************************)
EXTENDS Integers, SequencesExt

CONSTANT MAX_MESSAGE_SIZE

MaxMessageSize == <<"max-message-size", MAX_MESSAGE_SIZE>>

Has(sdp, kind) == \E i \in DOMAIN sdp : sdp[i][1] = kind

(* The lines with an index in I, in their order. *)
Keep(sdp, I) == FlattenSeq([i \in DOMAIN sdp |-> IF i \in I THEN <<sdp[i]>> ELSE <<>>])
Only(sdp, kind) == Keep(sdp, {i \in DOMAIN sdp : sdp[i][1] = kind})
Without(sdp, kinds) == Keep(sdp, {i \in DOMAIN sdp : sdp[i][1] \notin kinds})

(* set_max_message_size: replace, else insert after a=sctp-port. *)
SetMaxMessageSize(sdp) ==
    IF Has(sdp, "max-message-size")
    THEN [i \in DOMAIN sdp |->
             IF sdp[i][1] = "max-message-size" THEN MaxMessageSize ELSE sdp[i]]
    ELSE FlattenSeq([i \in DOMAIN sdp |->
             IF sdp[i][1] = "sctp-port" THEN <<sdp[i], MaxMessageSize>> ELSE <<sdp[i]>>])

(* strip_candidates returns these two. *)
StripCandidates(sdp) == Without(sdp, {"candidate", "end-of-candidates"})
CandidatesOf(sdp) == Only(sdp, "candidate")

(* keep_only_relay_candidates *)
KeepOnlyRelayCandidates(sdp) ==
    Keep(sdp, {i \in DOMAIN sdp : sdp[i][1] = "candidate" => sdp[i][3] = "relay"})

(* PeerConnection._local_sdp, of the local description of aiortc. *)
LocalSdp(sdp, relay_only) ==
    IF relay_only THEN KeepOnlyRelayCandidates(SetMaxMessageSize(sdp))
    ELSE SetMaxMessageSize(sdp)

(* fingerprint_payload: the fingerprints in their order. *)
FingerprintPayload(sdp) == Only(sdp, "fingerprint")

StripIdentity(sdp) == Without(sdp, {"identity"})

(* extract_identity: of several a=identity lines the last one counts.  The  *)
(* set of the envelope, or empty.                                           *)
ExtractIdentity(sdp) ==
    IF Has(sdp, "identity") THEN {Last(Only(sdp, "identity"))[2]} ELSE {}

(* insert_identity: before the first m= line, else at the end. *)
InsertIdentity(sdp, envelope) ==
    LET m == SelectInSeq(sdp, LAMBDA line : line[1] = "m")
    IN  InsertAt(sdp, IF m = 0 THEN Len(sdp) + 1 ELSE m, <<"identity", envelope>>)
=============================================================================
