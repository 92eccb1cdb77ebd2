-------------------------------- MODULE Wire --------------------------------
(***************************************************************************)
(* What LAN signalling puts into a datagram: the text of a signalling      *)
(* message (signaling/messages.py), in a discovery packet                  *)
(* (discovery/packets.py), in a sealed envelope (discovery/crypto.py).     *)
(* Each decoder returns the set of its result, empty for None.             *)
(***************************************************************************)
EXTENDS NetworkId, Sdp

CONSTANTS RESPONSE_PAYLOAD_MAX, MESSAGE_PAYLOAD_MAX

ASSUME WireAssumption == {RESPONSE_PAYLOAD_MAX, MESSAGE_PAYLOAD_MAX} \subseteq Nat

-----------------------------------------------------------------------------
(* Messages.  Text has words, blanks and a minus sign besides the digits.  *)
(* An SDP line contributes its head and one unit for the blanks in it.     *)

Word(w) == <<"word", w>>
Blank == <<"blank">>
Minus == <<"minus">>

TextOf(lines) == FlattenSeq([i \in DOMAIN lines |-> <<lines[i], Blank>>])

Identifiers == {"CONNECTREQUEST", "CONNECTRESPONSE", "CANDIDATEADD", "CONNECTERROR"}

Message(identifier, id, data) == [identifier |-> identifier, id |-> id, data |-> data]

(* serialize, of all four classes. *)
Serialize(msg) ==
    <<Word(msg.identifier), Blank>> \o Decimal[msg.id] \o <<Blank>> \o msg.data

FirstBlank(text, from) == SelectInSubSeq(text, from, Len(text), LAMBDA u : u = Blank)

(* Seeded fault: what follows a third blank is not part of the data. *)
DataFromSplit(text, from) ==
    SubSeq(text, from, IF FirstBlank(text, from) = 0 THEN Len(text)
                       ELSE FirstBlank(text, from) - 1)

DataFrom(text, from) == SubSeq(text, from, Len(text))

(* _tokenize: the first two blanks separate the tokens, the rest is data. *)
Tokenize(text) ==
    LET first == FirstBlank(text, 1)
        second == FirstBlank(text, first + 1)
    IN  IF first = 0 \/ second = 0 THEN {}
        ELSE {<<SubSeq(text, 1, first - 1), SubSeq(text, first + 1, second - 1),
                DataFrom(text, second + 1)>>}

(* _parse_int, and the code as text again: 007 becomes 7. *)
ParseInt(text) ==
    LET sign == IF text # <<>> /\ Head(text) = Minus THEN <<Minus>> ELSE <<>>
        body == SubSeq(text, Len(sign) + 1, Len(text))
    IN  IF ~IsDecimal(body) THEN {}
        ELSE {IF IntOf(body) = 0 THEN Decimal[0] ELSE sign \o Decimal[IntOf(body)]}

(* messages.parse *)
Parse(text) ==
    UNION {{Message(w, id, data) :
              w \in {v \in Identifiers : t[1] = <<Word(v)>>}, id \in ParseU64(t[2]),
              data \in IF t[1] = <<Word("CONNECTERROR")>> THEN ParseInt(t[3]) ELSE {t[3]}}
           : t \in Tokenize(text)}

(* What a session sends for its description: the SDP without candidates,    *)
(* then each candidate by itself.                                           *)
SignalsOf(identifier, id, sdp) ==
    <<Message(identifier, id, TextOf(StripCandidates(sdp)))>>
    \o [i \in DOMAIN CandidatesOf(sdp) |->
            Message("CANDIDATEADD", id, TextOf(<<CandidatesOf(sdp)[i]>>))]

-----------------------------------------------------------------------------
(* Packets.  len is the length field of the payload; size is how many bytes *)
(* there are, of the header and the payload together.                       *)

REQUEST == 0
RESPONSE == 1
MESSAGE == 2
Types == {REQUEST, RESPONSE, MESSAGE}

HeaderSize(type) == CASE type = REQUEST -> 20 [] type = RESPONSE -> 24 [] type = MESSAGE -> 32

Packet(type, sender, to, data) ==
    [type |-> type, sender |-> sender, to |-> to, data |-> data, len |-> Len(data),
     size |-> HeaderSize(type) + Len(data)]

Cut(data, max) == SubSeq(data, 1, IF Len(data) > max THEN max ELSE Len(data))

(* DiscoveryRequest, DiscoveryResponse and DiscoveryMessage.serialize *)
RequestPacket(sender, nobody) == Packet(REQUEST, sender, nobody, <<>>)
ResponsePacket(sender, nobody, data) ==
    Packet(RESPONSE, sender, nobody, Cut(data, RESPONSE_PAYLOAD_MAX))
MessagePacket(sender, to, data) ==
    Packet(MESSAGE, sender, to, Cut(data, MESSAGE_PAYLOAD_MAX))

(* packets.parse: PacketLength is not looked at, what follows the payload   *)
(* is ignored.                                                              *)
ParsePacket(p) ==
    IF p.type \in Types /\ p.size >= HeaderSize(p.type) + p.len
    THEN {[type |-> p.type, sender |-> p.sender, to |-> p.to, data |-> Cut(p.data, p.len)]}
    ELSE {}

-----------------------------------------------------------------------------
(* The envelope.  Ciphertext is its plaintext with the key; without the key *)
(* it decrypts to nothing that has the MAC.  whole: a MAC and full blocks.  *)

DeriveKey(app_id) == <<"sha256", app_id>>

Seal(app_id, plain) ==
    [mac |-> <<DeriveKey(app_id), plain>>, key |-> DeriveKey(app_id), plain |-> plain,
     whole |-> TRUE]

Open(app_id, e) ==
    IF e.whole /\ e.key = DeriveKey(app_id) /\ e.mac = <<DeriveKey(app_id), e.plain>>
    THEN {e.plain} ELSE {}
=============================================================================
