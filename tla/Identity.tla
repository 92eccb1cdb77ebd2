------------------------------ MODULE Identity ------------------------------
(***************************************************************************)
(* The a=identity assertions of identity.py.  Cryptography is symbolic: a  *)
(* signature is the tuple of what was signed, with which key and which     *)
(* algorithm, and verifies for exactly these.  A key is a record of its    *)
(* owner and its curve, a private key and its public half being the same   *)
(* value; cpk and key_digest are the key itself.                           *)
(***************************************************************************)
EXTENDS Sdp

NoExp == -1     \* a token without exp claim

(* _ALGORITHMS and _alg_for_key: the empty set when it raises. *)
Algorithms == {"ES256", "ES384", "ES512"}
AlgForKey(key) ==
    {alg \in Algorithms : \/ key.curve = "P-256" /\ alg = "ES256"
                          \/ key.curve = "P-384" /\ alg = "ES384"
                          \/ key.curve = "P-521" /\ alg = "ES512"}
AlgOf(key) == CHOOSE alg \in AlgForKey(key) : TRUE

(* _sign_raw and _verify_raw *)
SignRaw(key, alg, data) == <<key, alg, data>>
VerifyRaw(key, alg, data, sig) == alg \in Algorithms /\ sig = SignRaw(key, alg, data)

(* sign_fingerprints: a detached JWS over header and payload. *)
SignFingerprints(sdp, key) ==
    [alg |-> AlgOf(key),
     sig |-> SignRaw(key, AlgOf(key), <<AlgOf(key), FingerprintPayload(sdp)>>)]

(* Seeded fault: any signature of the key will do, whatever it is over. *)
VerifyFingerprintsOfKey(sdp, jws, key) == jws.alg \in Algorithms /\ jws.sig[1] = key

VerifyFingerprints(sdp, jws, key) ==
    VerifyRaw(key, jws.alg, <<jws.alg, FingerprintPayload(sdp)>>, jws.sig)

(* IdentitySigner._token and _sign_jwt, at time now. *)
Token(key, now, lifetime) ==
    LET exp == IF lifetime = NoExp THEN NoExp ELSE now + lifetime
    IN  [alg |-> AlgOf(key), cpk |-> key, exp |-> exp,
         sig |-> SignRaw(key, AlgOf(key), <<AlgOf(key), key, exp>>)]

(* build_envelope.  _parse_envelope rejects what is not wellformed; a token  *)
(* that _decode_jwt or decode_cpk reject has a signature no key verifies.    *)
Envelope(token, fingerprints) ==
    [wellformed |-> TRUE, token |-> token, fingerprints |-> fingerprints]

(* IdentitySigner.sign *)
Sign(sdp, key, now, lifetime) ==
    InsertIdentity(sdp, Envelope(Token(key, now, lifetime), SignFingerprints(sdp, key)))

(* extract_identity raises. *)
Malformed(sdp) == \E e \in ExtractIdentity(sdp) : ~e.wellformed

Live(token, now) == token.exp = NoExp \/ token.exp >= now

(* verify_server_identity: the set of the key, empty when it raises. *)
VerifyServerIdentity(sdp, now) ==
    {e.token.cpk : e \in {f \in ExtractIdentity(sdp) :
        /\ f.wellformed
        /\ VerifyRaw(f.token.cpk, f.token.alg, <<f.token.alg, f.token.cpk, f.token.exp>>,
                     f.token.sig)
        /\ Live(f.token, now)
        /\ VerifyFingerprints(StripIdentity(sdp), f.fingerprints, f.token.cpk)}}
=============================================================================
