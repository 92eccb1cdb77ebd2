----------------------------- MODULE LanProofs -----------------------------
(***************************************************************************)
(* What a transport learns from the network, and which signals reach it,   *)
(* for any number of peers, addresses, datagrams, descriptions and calls   *)
(* of Transport.discover.                                                  *)
(***************************************************************************)
EXTENDS Lan, OperatorProofs

(* The only thing that a transport discovers of a host, and what it reports  *)
(* of a response with SenderId 0.                                            *)
Advertised == Cut(Advertisement, RESPONSE_PAYLOAD_MAX)
Heard == (Hosts \X {Advertised}) \cup {<<Zero, <<>>>>}

LanType ==
    /\ addr \in [Nodes -> Nat \cup {NoAddr}]
    /\ peers \in [Nodes -> [Ids -> Nat \cup {NoAddr}]]
    /\ advert \in [Nodes -> BOOLEAN]
    /\ found \in [Nodes -> SUBSET Heard]
    /\ calls \in [Calls -> [at : Nodes \cup {"none"}, heard : SUBSET Heard, last : BOOLEAN]]
    /\ homes \in Seq(Nodes)
    /\ dial \in [Nodes -> [to : Ids \cup {Zero}, sent : Nat,
                           out : {d.out : d \in {NoDial} \cup Dials}]]

(* A socket is bound to an address of its node, only hosts advertise, and    *)
(* nobody dials itself.                                                      *)
NodeInv ==
    \A n \in Nodes :
        /\ addr[n] # NoAddr => addr[n] \in 1 .. Len(homes) /\ homes[addr[n]] = n
        /\ advert[n] => n \in Hosts
        /\ dial[n].to # n

(* What a node may have sent so far. *)
Sent(n) ==
    {RequestPacket(n, Zero)}
    \cup {ResponsePacket(h, Zero, Advertisement) : h \in Hosts \cap {n}}
    \cup {MessagePacket(n, dial[n].to, Serialize(dial[n].out[i])) : i \in 1 .. dial[n].sent}

(* A datagram in flight is sealed with the key of this application, holds    *)
(* what one of the nodes sent, and comes from an address of that node, which *)
(* may have another one by now.                                              *)
Genuine(d) ==
    /\ d.from \in 1 .. Len(homes)
    /\ \E p \in Sent(homes[d.from]) : d.envelope = Seal(AppId, p)
NetworkInv == \A d \in network : Genuine(d)

(* The two halves of KnowsOnlyPeers. *)
PeersInv ==
    \A n \in Nodes, id \in Ids : peers[n][id] # NoAddr =>
        id # n /\ peers[n][id] \in 1 .. Len(homes) /\ homes[peers[n][id]] = id
FoundInv == \A n \in Nodes : \A h \in found[n] : h[1] # n

LanInv == LanType /\ NodeInv /\ NetworkInv /\ PeersInv /\ FoundInv /\ DiscoverIsFresh

(* A session dials with the signals of one of the descriptions, and has sent *)
(* some of them.                                                             *)
DialInv ==
    \A n \in Nodes :
        /\ dial[n].sent <= Len(dial[n].out)
        /\ \/ dial[n].to = Zero /\ dial[n].out = <<>>
           \/ \E sdp \in Descriptions :
                dial[n].out = SignalsOf("CONNECTREQUEST", ConnectionId, LocalSdp(sdp, TRUE))

(* g was sent to n by the session that dials it. *)
Dialed(n, g) ==
    /\ g[1] \in Nodes /\ dial[g[1]].to = n
    /\ \E i \in 1 .. dial[g[1]].sent :
          /\ g[2].identifier = dial[g[1]].out[i].identifier /\ g[2].id = dial[g[1]].out[i].id
          /\ IF Fits(dial[g[1]].out[i]) THEN g[2].data = dial[g[1]].out[i].data
             ELSE IsPrefix(g[2].data, dial[g[1]].out[i].data)
GotInv == got = [n \in Nodes |-> got[n]] /\ \A n \in Nodes : \A g \in got[n] : Dialed(n, g)

SignalInv == DialInv /\ GotInv

-----------------------------------------------------------------------------
(* What the codecs make of a datagram. *)

(* What was cut to its limit is not cut again by its length field. *)
LEMMA CutTwice ==
    ASSUME NEW s, Text(s), NEW max \in Nat
    PROVE  Cut(Cut(s, max), Len(Cut(s, max))) = Cut(s, max)
<1>1. PICK L : s \in Seq(L)
  BY DEF Text
<1>2. PICK c : c = Cut(s, max)
  OBVIOUS
<1>3. c \in Seq(L)
  BY <1>1, <1>2 DEF Cut
<1>4. Cut(c, Len(c)) = c
  BY <1>3 DEF Cut
<1>. QED  BY <1>2, <1>4

LEMMA CutOnce == Cut(Advertised, Len(Advertised)) = Advertised
<1>1. Text(Advertisement) /\ RESPONSE_PAYLOAD_MAX \in Nat
  BY LanAssumption, WireAssumption DEF Text
<1>. QED  BY <1>1, CutTwice DEF Advertised

LEMMA SealOpens == ASSUME NEW p PROVE Open(AppId, Seal(AppId, p)) = {p}
BY DEF Open, Seal

(* A datagram of another program has SenderId 0, if anything can be read of   *)
(* it, and a response among them is empty.                                    *)
LEMMA StrayPackets ==
    ASSUME NEW d \in Strays, NEW p \in Packets(d)
    PROVE  p.sender = Zero /\ (p.type = MESSAGE \/ (p.type = RESPONSE /\ p.data = <<>>))
<1>. DEFINE fake == Packet(RESPONSE, CHOOSE id \in Elsewhere : TRUE, Zero, <<>>)
<1>1. PICK plain \in Open(AppId, d.envelope) : p \in ParsePacket(plain)
  BY DEF Packets
<1>2. CASE \E n \in Nodes, text \in BadTexts \cup {<<>>} :
              d = Stray(AppId, MessagePacket(Zero, n, text))
  <2>1. PICK n \in Nodes, text \in BadTexts \cup {<<>>} :
              d.envelope = Seal(AppId, MessagePacket(Zero, n, text))
    BY <1>2 DEF Stray, Datagram
  <2>2. plain = MessagePacket(Zero, n, text)
    BY <1>1, <2>1, SealOpens
  <2>. QED  BY <1>1, <2>2 DEF MessagePacket, Packet, ParsePacket
<1>3. CASE d = Stray(ForeignAppId, fake)
  <2>1. d.envelope = Seal(ForeignAppId, fake)
    BY <1>3 DEF Stray, Datagram
  <2>2. DeriveKey(AppId) # DeriveKey(ForeignAppId)
    BY LanAssumption DEF DeriveKey
  <2>. QED  BY <1>1, <2>1, <2>2 DEF Open, Seal
<1>4. CASE d = Stray(AppId, [fake EXCEPT !.len = 1])
  <2>1. d.envelope = Seal(AppId, [fake EXCEPT !.len = 1])
    BY <1>4 DEF Stray, Datagram
  <2>2. plain = [fake EXCEPT !.len = 1]
    BY <1>1, <2>1, SealOpens
  <2>3. plain.type = RESPONSE /\ plain.len = 1 /\ plain.size = HeaderSize(RESPONSE) + 0
    BY <2>2 DEF Packet
  <2>4. HeaderSize(RESPONSE) = 24
    BY DEF HeaderSize, REQUEST, RESPONSE, MESSAGE
  <2>. QED  BY <1>1, <2>3, <2>4 DEF ParsePacket
<1>5. CASE d = [Stray(AppId, fake) EXCEPT !.envelope.whole = FALSE]
  <2>1. ~d.envelope.whole
    BY <1>5 DEF Stray, Datagram, Seal
  <2>. QED  BY <1>1, <2>1 DEF Open
<1>6. CASE d = [Stray(AppId, fake) EXCEPT !.envelope.mac = Seal(AppId, <<>>).mac]
  <2>1. d.envelope.mac = <<DeriveKey(AppId), <<>>>> /\ d.envelope.plain = fake
    BY <1>6 DEF Stray, Datagram, Seal
  <2>2. fake # <<>>
    <3>1. DOMAIN fake # DOMAIN <<>>
      BY DEF Packet
    <3>. QED  BY <3>1
  <2>3. d.envelope.mac # <<DeriveKey(AppId), d.envelope.plain>>
    BY <2>1, <2>2
  <2>. QED  BY <1>1, <2>3 DEF Open
<1>7. CASE d = Stray(AppId, [fake EXCEPT !.sender = Zero])
  <2>1. d.envelope = Seal(AppId, [fake EXCEPT !.sender = Zero])
    BY <1>7 DEF Stray, Datagram
  <2>2. plain = [fake EXCEPT !.sender = Zero]
    BY <1>1, <2>1, SealOpens
  <2>3. plain.type = RESPONSE /\ plain.sender = Zero /\ plain.data = <<>> /\ plain.len = 0
    BY <2>2 DEF Packet
  <2>4. p.type = RESPONSE /\ p.sender = Zero /\ p.data = Cut(<<>>, 0)
    BY <1>1, <2>3 DEF ParsePacket
  <2>5. Cut(<<>>, 0) = <<>>
    BY DEF Cut
  <2>. QED  BY <2>4, <2>5
<1>. QED  BY <1>2, <1>3, <1>4, <1>5, <1>6, <1>7 DEF Strays

(* A stray message is empty or none. *)
LEMMA StrayText ==
    ASSUME NEW d \in Strays, NEW p \in Packets(d)
    PROVE  p.data = <<>> \/ Parse(p.data) = {}
<1>. DEFINE fake == Packet(RESPONSE, CHOOSE id \in Elsewhere : TRUE, Zero, <<>>)
<1>. SUFFICES ASSUME p.data # <<>> PROVE Parse(p.data) = {}
  OBVIOUS
<1>0. p.type = MESSAGE
  BY StrayPackets
<1>1. PICK plain \in Open(AppId, d.envelope) : p \in ParsePacket(plain)
  BY DEF Packets
<1>2. plain.type = MESSAGE /\ plain = d.envelope.plain /\ p.data = Cut(plain.data, plain.len)
  BY <1>0, <1>1 DEF ParsePacket, Open
<1>3. PICK n \in Nodes, text \in BadTexts \cup {<<>>} :
              d = Stray(AppId, MessagePacket(Zero, n, text))
  <2>1. /\ fake.type = RESPONSE /\ [fake EXCEPT !.len = 1].type = RESPONSE
        /\ [fake EXCEPT !.sender = Zero].type = RESPONSE
    BY DEF Packet
  <2>2. RESPONSE # MESSAGE
    BY DEF RESPONSE, MESSAGE
  <2>. HIDE DEF fake
  <2>3. d # Stray(ForeignAppId, fake)
    BY <1>2, <2>1, <2>2 DEF Stray, Datagram, Seal
  <2>4. d # Stray(AppId, [fake EXCEPT !.len = 1])
    <3>1. Stray(AppId, [fake EXCEPT !.len = 1]).envelope.plain = [fake EXCEPT !.len = 1]
      BY DEF Stray, Datagram, Seal
    <3>. QED  BY <1>2, <2>1, <2>2, <3>1
  <2>5. d # [Stray(AppId, fake) EXCEPT !.envelope.whole = FALSE]
    <3>1. [Stray(AppId, fake) EXCEPT !.envelope.whole = FALSE].envelope.plain = fake
      BY DEF Stray, Datagram, Seal
    <3>. QED  BY <1>2, <2>1, <2>2, <3>1
  <2>6. d # [Stray(AppId, fake) EXCEPT !.envelope.mac = Seal(AppId, <<>>).mac]
    <3>1. [Stray(AppId, fake) EXCEPT !.envelope.mac = Seal(AppId, <<>>).mac].envelope.plain = fake
      BY DEF Stray, Datagram, Seal
    <3>. QED  BY <1>2, <2>1, <2>2, <3>1
  <2>7. d # Stray(AppId, [fake EXCEPT !.sender = Zero])
    <3>1. Stray(AppId, [fake EXCEPT !.sender = Zero]).envelope.plain = [fake EXCEPT !.sender = Zero]
      BY DEF Stray, Datagram, Seal
    <3>. QED  BY <1>2, <2>1, <2>2, <3>1
  <2>. QED  BY <2>3, <2>4, <2>5, <2>6, <2>7 DEF Strays, fake
<1>4. d.envelope.plain = MessagePacket(Zero, n, text)
  BY <1>3 DEF Stray, Datagram, Seal
<1>5. PICK c : c = Cut(text, MESSAGE_PAYLOAD_MAX)
  OBVIOUS
<1>6. p.data = Cut(c, Len(c))
  BY <1>2, <1>4, <1>5 DEF MessagePacket, Packet
<1>7. MESSAGE_PAYLOAD_MAX \in Nat
  BY WireAssumption
<1>8. Text(text)
  <2>1. <<>> \in Seq(ToSet(<<>>))
    OBVIOUS
  <2>. QED  BY <2>1, LanAssumption DEF Text
<1>9. p.data = c
  BY <1>5, <1>6, <1>7, <1>8, CutTwice
<1>10. CASE text = <<>>
  <2>1. Len(<<>>) = 0 /\ SubSeq(<<>>, 1, 0) = <<>>
    OBVIOUS
  <2>. QED  BY <1>5, <1>7, <1>9, <1>10, <2>1 DEF Cut
<1>11. CASE text \in BadTexts
  BY <1>5, <1>9, <1>11, LanAssumption
<1>. QED  BY <1>10, <1>11

(* A packet in flight names its sender. *)
LEMMA GenuinePackets ==
    ASSUME LanType, NEW d, Genuine(d), NEW p \in Packets(d)
    PROVE  /\ d.from \in 1 .. Len(homes) /\ homes[d.from] \in Nodes
           /\ p.sender = homes[d.from]
           /\ p.type = RESPONSE => <<p.sender, p.data>> \in Heard
<1>. DEFINE n == homes[d.from]
<1>1. d.from \in 1 .. Len(homes) /\ n \in Nodes
  BY DEF LanType, Genuine
<1>2. PICK q \in Sent(n) : d.envelope = Seal(AppId, q)
  BY DEF Genuine
<1>3. p \in ParsePacket(q)
  BY <1>2, SealOpens DEF Packets
<1>. HIDE DEF n
<1>4. CASE q = RequestPacket(n, Zero)
  BY <1>1, <1>3, <1>4 DEF RequestPacket, Packet, ParsePacket, RESPONSE, REQUEST, n
<1>5. CASE n \in Hosts /\ q = ResponsePacket(n, Zero, Advertisement)
  <2>1. p.sender = n /\ p.data = Cut(Advertised, Len(Advertised))
    BY <1>3, <1>5 DEF ResponsePacket, Packet, ParsePacket, Advertised
  <2>. QED  BY <1>1, <1>5, <2>1, CutOnce DEF Heard, n
<1>6. CASE \E i \in 1 .. dial[n].sent :
              q = MessagePacket(n, dial[n].to, Serialize(dial[n].out[i]))
  BY <1>1, <1>3, <1>6 DEF MessagePacket, Packet, ParsePacket, RESPONSE, MESSAGE, n
<1>. QED  BY <1>2, <1>4, <1>5, <1>6 DEF Sent

-----------------------------------------------------------------------------
(* What parse makes of a message that was cut. *)

(* _tokenize finds the blanks that serialize put there. *)
LEMMA FirstBlankIs ==
    ASSUME NEW text, NEW from \in Nat \ {0}, Len(text) \in Nat,
           NEW k \in from .. Len(text), text[k] = Blank,
           \A j \in from .. (k - 1) : text[j] # Blank
    PROVE  FirstBlank(text, from) = k
<1>. DEFINE I == {i \in from .. Len(text) : text[i] = Blank}
<1>1. FirstBlank(text, from) = IF I # {} THEN Min(I) ELSE 0
  BY DEF FirstBlank, SelectInSubSeq
<1>2. k \in I /\ I \subseteq Nat /\ \A i \in I : i >= k
  OBVIOUS
<1>. HIDE DEF I
<1>3. Min(I) \in I /\ \A y \in I : Min(I) =< y
  BY <1>2, FirstIndex
<1>4. Min(I) >= k /\ Min(I) =< k /\ Min(I) \in Nat /\ k \in Nat
  BY <1>2, <1>3
<1>. QED  BY <1>1, <1>2, <1>4

LEMMA NoBlankLeft ==
    ASSUME NEW text, NEW from \in Nat \ {0}, Len(text) \in Nat,
           \A j \in from .. Len(text) : text[j] # Blank
    PROVE  FirstBlank(text, from) = 0
BY DEF FirstBlank, SelectInSubSeq

(* c is s followed by t. *)
Joined(c, s, t, L) ==
    /\ c \in Seq(L) /\ Len(c) = Len(s) + Len(t) /\ Len(s) \in Nat /\ Len(t) \in Nat
    /\ \A i \in 1 .. Len(s) : c[i] = s[i]
    /\ \A j \in 1 .. Len(t) : c[j + Len(s)] = t[j]

LEMMA ConcatJoins ==
    ASSUME NEW L, NEW s \in Seq(L), NEW t \in Seq(L)
    PROVE  Joined(s \o t, s, t, L)
<1>. DEFINE c == s \o t
            n == Len(s)
<1>1. /\ c \in Seq(L) /\ Len(c) = n + Len(t) /\ n \in Nat /\ Len(t) \in Nat
      /\ \A i \in 1 .. (n + Len(t)) : c[i] = IF i <= n THEN s[i] ELSE t[i - n]
  BY ConcatProperties
<1>. HIDE DEF c
<1>2. \A i \in 1 .. n : c[i] = s[i]
  BY <1>1
<1>3. ASSUME NEW j \in 1 .. Len(t) PROVE c[j + n] = t[j]
  <2>1. j + n \in 1 .. (n + Len(t)) /\ ~(j + n <= n) /\ (j + n) - n = j
    BY <1>1
  <2>. QED  BY <1>1, <2>1
<1>4. Joined(c, s, t, L)
  BY <1>1, <1>2, <1>3 DEF Joined
<1>. QED  BY <1>4 DEF c

(* A text with the parts of a message: identifier, the digits D, the data. *)
Holds(text, w, D, data) ==
    /\ Text(text) /\ Text(data) /\ D \in Seq(Digits(10)) /\ Len(D) \in Nat \ {0}
    /\ Len(data) \in Nat /\ Len(text) = Len(D) + 3 + Len(data)
    /\ text[1] = Word(w) /\ text[2] = Blank /\ text[Len(D) + 3] = Blank
    /\ \A j \in 1 .. Len(D) : text[j + 2] = D[j] /\ D[j] # Blank
    /\ \A j \in 1 .. Len(data) : text[j + (Len(D) + 3)] = data[j]

LEMMA SerializeHolds ==
    ASSUME NEW w, NEW id \in 0 .. U64_MAX, NEW data, Text(data)
    PROVE  Holds(Serialize(Message(w, id, data)), w, Decimal[id], data)
<1>. DEFINE D == Decimal[id]
            k == Len(D)
            L == {Word(w), Blank} \cup Digits(10) \cup ToSet(data)
            a == <<Word(w), Blank>>
            b == a \o D
            c == b \o <<Blank>>
            text == c \o data
<1>1. D \in Seq(Digits(10)) /\ D # <<>>
  BY NetworkIdAssumption, DecimalReads
<1>2. data \in Seq(ToSet(data))
  BY DEF Text
<1>. HIDE DEF D
<1>3. /\ k \in Nat \ {0} /\ \A j \in 1 .. k : D[j] \in Digits(10) /\ D[j] # Blank
  <2>1. k \in Nat \ {0} /\ \A j \in 1 .. k : D[j] \in Digits(10)
    BY <1>1
  <2>2. \A x \in Digits(10) : x # Blank
    BY DigitOf DEF Blank
  <2>. QED  BY <2>1, <2>2
<1>4. D \in Seq(L) /\ data \in Seq(L) /\ Word(w) \in L /\ Blank \in L
  <2>1. D \in [1 .. Len(D) -> L] /\ Len(D) \in Nat
    BY <1>1
  <2>2. data \in [1 .. Len(data) -> L] /\ Len(data) \in Nat
    BY <1>2
  <2>3. Word(w) \in L /\ Blank \in L
    OBVIOUS
  <2>. HIDE DEF L
  <2>. QED  BY <2>1, <2>2, <2>3
<1>. HIDE DEF L
<1>5. a \in Seq(L) /\ Len(a) = 2 /\ a[1] = Word(w) /\ a[2] = Blank
  BY <1>4
<1>. HIDE DEF a
<1>6. /\ b \in Seq(L) /\ Len(b) = k + 2 /\ b[1] = Word(w) /\ b[2] = Blank
      /\ \A j \in 1 .. k : b[j + 2] = D[j]
  <2>0. Joined(b, a, D, L)
    BY <1>4, <1>5, ConcatJoins
  <2>. HIDE DEF b
  <2>1. /\ b \in Seq(L) /\ Len(b) = Len(a) + k
        /\ \A i \in 1 .. Len(a) : b[i] = a[i]
        /\ \A j \in 1 .. k : b[j + Len(a)] = D[j]
    BY <2>0 DEF Joined
  <2>. QED  BY <1>3, <1>5, <2>1
<1>. HIDE DEF b
<1>7. /\ c \in Seq(L) /\ Len(c) = k + 3 /\ c[1] = Word(w) /\ c[2] = Blank /\ c[k + 3] = Blank
      /\ \A j \in 1 .. k : c[j + 2] = D[j]
  BY <1>3, <1>4, <1>6
<1>. HIDE DEF c
<1>8. /\ text \in Seq(L) /\ Len(text) = k + 3 + Len(data) /\ Len(data) \in Nat
      /\ text[1] = Word(w) /\ text[2] = Blank /\ text[k + 3] = Blank
      /\ \A j \in 1 .. k : text[j + 2] = D[j]
      /\ \A j \in 1 .. Len(data) : text[j + (k + 3)] = data[j]
  <2>1. Joined(text, c, data, L)
    BY <1>4, <1>7, ConcatJoins
  <2>. HIDE DEF text
  <2>2. /\ text \in Seq(L) /\ Len(text) = Len(c) + Len(data) /\ Len(data) \in Nat
        /\ \A i \in 1 .. Len(c) : text[i] = c[i]
        /\ \A j \in 1 .. Len(data) : text[j + Len(c)] = data[j]
    BY <2>1 DEF Joined
  <2>3. \A j \in 1 .. k : j + 2 \in 1 .. Len(c)
    BY <1>3, <1>7
  <2>4. 1 \in 1 .. Len(c) /\ 2 \in 1 .. Len(c) /\ k + 3 \in 1 .. Len(c)
    BY <1>3, <1>7
  <2>. QED  BY <1>7, <2>2, <2>3, <2>4
<1>9. Serialize(Message(w, id, data)) = text
  BY DEF Serialize, Message, text, c, b, a, D
<1>. HIDE DEF text
<1>10. Text(text)
  BY <1>8, TextFacts
<1>11. Holds(text, w, D, data)
  BY <1>1, <1>3, <1>8, <1>10 DEF Holds
<1>. QED  BY <1>9, <1>11 DEF D

(* What _tokenize makes of the beginning of such a text: the tokens and the  *)
(* beginning of the data, or nothing.                                        *)
LEMMA TokenizeCut ==
    ASSUME NEW text, NEW w, NEW D, NEW data, Holds(text, w, D, data),
           NEW m \in 0 .. Len(text), NEW t \in Tokenize(SubSeq(text, 1, m))
    PROVE  /\ m >= Len(D) + 3 /\ t[1] = <<Word(w)>> /\ t[2] = D
           /\ t[3] = SubSeq(data, 1, m - (Len(D) + 3))
<1>. DEFINE c == SubSeq(text, 1, m)
<1>0. PICK k : k = Len(D)
  OBVIOUS
<1>1. /\ text \in Seq(ToSet(text)) /\ k \in Nat \ {0} /\ Len(text) = k + 3 + Len(data) /\ Len(data) \in Nat
      /\ text[1] = Word(w) /\ text[2] = Blank /\ text[k + 3] = Blank
      /\ \A j \in 1 .. k : text[j + 2] = D[j] /\ D[j] # Blank
      /\ \A j \in 1 .. Len(data) : text[j + (k + 3)] = data[j]
  BY <1>0 DEF Holds, Text
<1>2. D \in Seq(Digits(10))
  BY DEF Holds
<1>3. m \in 0 .. Len(text) /\ t \in Tokenize(c)
  OBVIOUS
<1>4. c \in Seq(ToSet(text)) /\ Len(c) = m /\ \A i \in 1 .. m : c[i] = text[i]
  BY <1>1, <1>3
<1>5. /\ t = <<SubSeq(c, 1, FirstBlank(c, 1) - 1),
               SubSeq(c, FirstBlank(c, 1) + 1, FirstBlank(c, FirstBlank(c, 1) + 1) - 1),
               SubSeq(c, FirstBlank(c, FirstBlank(c, 1) + 1) + 1, Len(c))>>
      /\ FirstBlank(c, 1) # 0 /\ FirstBlank(c, FirstBlank(c, 1) + 1) # 0
  BY <1>3 DEF Tokenize, DataFrom
<1>. HIDE DEF c
<1>6. Word(w) # Blank
  BY DEF Word, Blank
<1>7. m >= 2
  <2>. SUFFICES ASSUME m < 2 PROVE FALSE
    BY <1>3, <1>1
  <2>1. \A j \in 1 .. Len(c) : c[j] # Blank
    BY <1>1, <1>4, <1>6
  <2>. QED  BY <1>1, <1>3, <1>4, <1>5, <2>1, NoBlankLeft
<1>8. FirstBlank(c, 1) = 2
  <2>1. 2 \in 1 .. Len(c) /\ c[2] = Blank /\ \A j \in 1 .. (2 - 1) : c[j] # Blank
    BY <1>1, <1>3, <1>4, <1>6, <1>7
  <2>2. Len(c) \in Nat /\ 1 \in Nat \ {0}
    BY <1>4
  <2>. QED  BY ONLY <2>1, <2>2, FirstBlankIs
<1>9. \A j \in 3 .. (k + 2) : text[j] # Blank
  <2>. SUFFICES ASSUME NEW j \in 3 .. (k + 2) PROVE text[j] # Blank
    OBVIOUS
  <2>1. PICK i \in 1 .. k : i + 2 = j
    <3>1. j - 2 \in 1 .. k /\ (j - 2) + 2 = j
      BY <1>1
    <3>. QED  BY <3>1
  <2>2. text[i + 2] = D[i] /\ D[i] # Blank
    BY <1>1
  <2>. QED  BY <2>1, <2>2
<1>10. m >= k + 3
  <2>. SUFFICES ASSUME m < k + 3 PROVE FALSE
    BY <1>3, <1>1
  <2>1. \A j \in 3 .. Len(c) : c[j] # Blank
    BY <1>1, <1>3, <1>4, <1>9
  <2>2. FirstBlank(c, 3) = 0
    BY <1>1, <1>3, <1>4, <2>1, NoBlankLeft
  <2>. QED  BY <1>5, <1>8, <2>2
<1>11. FirstBlank(c, 3) = k + 3
  <2>1. k + 3 \in 3 .. Len(c) /\ c[k + 3] = Blank
    BY <1>1, <1>3, <1>4, <1>10
  <2>2. \A j \in 3 .. ((k + 3) - 1) : c[j] # Blank
    <3>. SUFFICES ASSUME NEW j \in 3 .. ((k + 3) - 1) PROVE c[j] # Blank
      OBVIOUS
    <3>1. j \in 1 .. m /\ j \in 3 .. (k + 2)
      BY <1>1, <1>3, <1>10
    <3>. QED  BY <1>4, <1>9, <3>1
  <2>3. PICK e : e = k + 3
    OBVIOUS
  <2>4. e \in 3 .. Len(c) /\ c[e] = Blank /\ \A j \in 3 .. (e - 1) : c[j] # Blank
    BY <2>1, <2>2, <2>3
  <2>5. Len(c) \in Nat /\ 3 \in Nat \ {0}
    BY <1>4
  <2>6. FirstBlank(c, 3) = e
    BY ONLY <2>4, <2>5, FirstBlankIs
  <2>. QED  BY <2>3, <2>6
<1>12. t = <<SubSeq(c, 1, 1), SubSeq(c, 3, k + 2), SubSeq(c, k + 4, m)>>
  <2>1. 2 - 1 = 1 /\ 2 + 1 = 3 /\ (k + 3) - 1 = k + 2 /\ (k + 3) + 1 = k + 4
    BY <1>1
  <2>. QED  BY <1>4, <1>5, <1>8, <1>11, <2>1
<1>13. SubSeq(c, 1, 1) = <<Word(w)>>
  <2>1. 1 \in 1 .. Len(c) /\ c[1] = Word(w) /\ c \in Seq(ToSet(text))
    BY <1>1, <1>3, <1>4, <1>7
  <2>. DEFINE u == SubSeq(c, 1, 1)
  <2>2. u \in Seq(ToSet(text)) /\ Len(u) = 1 /\ u[1] = c[1]
    BY <2>1
  <2>. HIDE DEF u
  <2>3. u = <<u[1]>>
    BY <2>2
  <2>. QED  BY <2>1, <2>2, <2>3 DEF u
<1>14. SubSeq(c, 3, k + 2) = D
  <2>. DEFINE u == SubSeq(c, 3, k + 2)
  <2>1. /\ u \in Seq(ToSet(text)) /\ Len(u) = k /\ \A j \in 1 .. k : u[j] = c[j + 2]
    BY <1>1, <1>3, <1>4, <1>10
  <2>. HIDE DEF u
  <2>2. \A j \in 1 .. k : u[j] = D[j]
    BY <1>1, <1>3, <1>4, <1>10, <2>1
  <2>3. u = D
    BY <1>0, <1>2, <2>1, <2>2
  <2>. QED  BY <2>3 DEF u
<1>15. SubSeq(c, k + 4, m) = SubSeq(data, 1, m - (k + 3))
  <2>. DEFINE u == SubSeq(c, k + 4, m)
              n == m - (k + 3)
              v == SubSeq(data, 1, n)
  <2>1. n \in 0 .. Len(data) /\ n \in Nat
    BY <1>1, <1>3, <1>10
  <2>2. data \in Seq(ToSet(data))
    BY DEF Holds, Text
  <2>3. u \in Seq(ToSet(text)) /\ Len(u) = n /\ \A j \in 1 .. n : u[j] = c[j + (k + 3)]
    BY <1>1, <1>3, <1>4, <1>10
  <2>. HIDE DEF n
  <2>4. v \in Seq(ToSet(data)) /\ Len(v) = n /\ \A j \in 1 .. n : v[j] = data[j]
    BY <2>1, <2>2
  <2>. HIDE DEF u, v
  <2>5. ASSUME NEW j \in 1 .. n PROVE u[j] = data[j]
    <3>1. j + (k + 3) \in 1 .. m /\ j \in 1 .. Len(data) 
      BY <1>1, <1>3, <1>10, <2>1 DEF n
    <3>2. c[j + (k + 3)] = text[j + (k + 3)]
      BY <1>4, <3>1
    <3>. QED  BY <1>1, <2>3, <3>1, <3>2
  <2>6. u = v
    BY <2>1, <2>3, <2>4, <2>5
  <2>. QED  BY <2>6 DEF u, v, n
<1>. QED  BY <1>1, <1>10, <1>12, <1>13, <1>14, <1>15, <1>0

(* parse of what is left of a message, other than an error, that was cut. *)
LEMMA ParseCut ==
    ASSUME NEW w \in Identifiers \ {"CONNECTERROR"}, NEW id \in 0 .. U64_MAX, NEW data, Text(data),
           NEW max \in Nat, NEW p \in Parse(Cut(Serialize(Message(w, id, data)), max))
    PROVE  /\ p.identifier = w /\ p.id = id
           /\ IF Len(Serialize(Message(w, id, data))) <= max THEN p.data = data
              ELSE IsPrefix(p.data, data)
<1>0. PICK text, D : text = Serialize(Message(w, id, data)) /\ D = Decimal[id]
  OBVIOUS
<1>. DEFINE m == IF Len(text) > max THEN max ELSE Len(text)
            k == Len(D)
<1>1. Holds(text, w, D, data) /\ k \in Nat \ {0} /\ Len(text) = k + 3 + Len(data) /\ Len(data) \in Nat
  <2>1. Holds(text, w, D, data)
    BY <1>0, SerializeHolds
  <2>. QED  BY <2>1 DEF Holds
<1>2. m \in 0 .. Len(text) /\ Cut(text, max) = SubSeq(text, 1, m)
  BY <1>1 DEF Cut
<1>. HIDE DEF m
<1>3. PICK t \in Tokenize(SubSeq(text, 1, m)) :
         \E v \in {v \in Identifiers : t[1] = <<Word(v)>>}, i \in ParseU64(t[2]),
            d \in IF t[1] = <<Word("CONNECTERROR")>> THEN ParseInt(t[3]) ELSE {t[3]} :
               p = Message(v, i, d)
  <2>1. p \in Parse(SubSeq(text, 1, m))
    BY <1>0, <1>2
  <2>. QED  BY ONLY <2>1 DEF Parse
<1>4. /\ m >= k + 3 /\ t[1] = <<Word(w)>> /\ t[2] = Decimal[id]
      /\ t[3] = SubSeq(data, 1, m - (k + 3))
  <2>1. Holds(text, w, D, data) /\ m \in 0 .. Len(text) /\ t \in Tokenize(SubSeq(text, 1, m))
    BY <1>1, <1>2, <1>3
  <2>2. /\ m >= Len(D) + 3 /\ t[1] = <<Word(w)>> /\ t[2] = D
        /\ t[3] = SubSeq(data, 1, m - (Len(D) + 3))
    BY ONLY <2>1, TokenizeCut
  <2>. QED  BY <1>0, <2>2
<1>. HIDE DEF k
<1>5. \A v : <<Word(w)>> = <<Word(v)>> => w = v
  BY DEF Word
<1>6. ParseU64(t[2]) = {id}
  BY <1>4, ParseU64Reads
<1>7. t[1] # <<Word("CONNECTERROR")>>
  BY <1>4, <1>5
<1>8. p = Message(w, id, t[3])
  BY <1>3, <1>4, <1>5, <1>6, <1>7
<1>9. p.identifier = w /\ p.id = id /\ p.data = SubSeq(data, 1, m - (k + 3))
  BY <1>4, <1>8 DEF Message
<1>10. data \in Seq(ToSet(data))
  BY DEF Text
<1>11. CASE Len(text) <= max
  <2>1. m - (k + 3) = Len(data)
    BY <1>1, <1>11 DEF m
  <2>. QED  BY <1>9, <1>10, <1>0, <1>11, <2>1
<1>12. CASE ~(Len(text) <= max)
  <2>. DEFINE n == m - (k + 3)
  <2>1. n \in 0 .. Len(data)
    BY <1>1, <1>2, <1>4
  <2>. HIDE DEF n
  <2>2. IsPrefix(SubSeq(data, 1, n), data)
    BY <1>1, <1>10, <2>1 DEF IsPrefix
  <2>. QED  BY <1>9, <1>0, <1>12, <2>2 DEF n
<1>. QED  BY <1>11, <1>12

-----------------------------------------------------------------------------
(* What the signals of a session carry. *)

(* The text of some lines has these lines, and blanks. *)
LEMMA TextOfLines ==
    ASSUME NEW s, Text(s)
    PROVE  Text(TextOf(s)) /\ ToSet(TextOf(s)) \ {Blank} = ToSet(s) \ {Blank}
<1>. DEFINE L == ToSet(s) \cup {Blank}
            g == [l \in L |-> <<l, Blank>>]
<1>1. s \in Seq(ToSet(s)) /\ Blank \in L
  BY DEF Text
<1>2. s \in Seq(L) /\ \A i \in DOMAIN s : s[i] \in L
  <2>1. Len(s) \in Nat /\ DOMAIN s = 1..Len(s) /\ \A i \in 1..Len(s) : s[i] \in ToSet(s)
    BY <1>1
  <2>2. s \in [1..Len(s) -> L] /\ \A i \in DOMAIN s : s[i] \in L
    BY <1>1, <2>1
  <2>. HIDE DEF L
  <2>. QED  BY <2>1, <2>2
<1>3. Rewrites(g, L)
  <2>. HIDE DEF L
  <2>1. \A l \in L : <<l, Blank>> \in Seq(L)
    BY <1>1
  <2>. QED  BY <2>1 DEF Rewrites
<1>4. TextOf(s) = FlatMap(s, g)
  <2>1. Parts(s, g) = [i \in DOMAIN s |-> <<s[i], Blank>>]
    <3>. HIDE DEF L
    <3>. QED  BY <1>2 DEF Parts
  <2>. QED  BY <2>1 DEF TextOf, FlatMap
<1>5. \A l \in ToSet(s) : ToSet(g[l]) = {l, Blank}
  <2>1. \A l : ToSet(<<l, Blank>>) = {l, Blank}
    <3>1. \A l : DOMAIN <<l, Blank>> = {1, 2}
      OBVIOUS
    <3>. QED  BY <3>1 DEF ToSet
  <2>. QED  BY <2>1
<1>6. PICK r : r = g
  OBVIOUS
<1>. HIDE DEF g, L
<1>7. \A x : x \in ToSet(FlatMap(s, r)) <=> \E l \in ToSet(s) : x \in ToSet(r[l])
  BY <1>2, <1>3, <1>6, FlatMapLines
<1>8. ToSet(FlatMap(s, r)) \ {Blank} = ToSet(s) \ {Blank}
  BY <1>5, <1>6, <1>7
<1>9. FlatMap(s, r) \in Seq(L)
  BY <1>2, <1>3, <1>6, FlatMapType
<1>10. Text(FlatMap(s, r))
  BY <1>9, TextFacts
<1>. QED  BY <1>4, <1>6, <1>8, <1>10

(* strip_candidates splits a description. *)
LEMMA StripLines ==
    ASSUME NEW s, Text(s)
    PROVE  /\ Text(StripCandidates(s)) /\ Text(CandidatesOf(s))
           /\ ToSet(StripCandidates(s)) =
                 {l \in ToSet(s) : l[1] \notin {"candidate", "end-of-candidates"}}
           /\ ToSet(CandidatesOf(s)) = {l \in ToSet(s) : l[1] = "candidate"}
<1>1. PICK L : L = ToSet(s) /\ s \in Seq(L)
  BY DEF Text
<1>2. PICK K : K = L \ OfKind(L, {"candidate", "end-of-candidates"})
  OBVIOUS
<1>3. PICK C : C = OfKind(L, {"candidate"})
  OBVIOUS
<1>4. StripCandidates(s) = FlatMap(s, Filter(L, K)) /\ CandidatesOf(s) = FlatMap(s, Filter(L, C))
  BY <1>1, <1>2, <1>3, WithoutIs, OnlyIs DEF StripCandidates, CandidatesOf
<1>5. FlatMap(s, Filter(L, K)) \in Seq(L) /\ ToSet(FlatMap(s, Filter(L, K))) = ToSet(s) \cap K
  BY <1>1, FilterElements
<1>7. FlatMap(s, Filter(L, C)) \in Seq(L) /\ ToSet(FlatMap(s, Filter(L, C))) = ToSet(s) \cap C
  BY <1>1, FilterElements
<1>6. Text(StripCandidates(s)) /\ Text(CandidatesOf(s))
  BY <1>4, <1>5, <1>7, TextFacts
<1>. QED  BY <1>1, <1>2, <1>3, <1>4, <1>5, <1>6, <1>7 DEF OfKind

(* set_max_message_size adds no other line. *)
LEMMA SizedLines ==
    ASSUME NEW s, Text(s)
    PROVE  /\ Text(SetMaxMessageSize(s))
           /\ ToSet(SetMaxMessageSize(s)) \subseteq ToSet(s) \cup {MaxMessageSize}
<1>. DEFINE L == ToSet(s) \cup {MaxMessageSize}
            t == SetMaxMessageSize(s)
<1>1. s \in Seq(ToSet(s)) /\ MaxMessageSize \in L
  BY DEF Text
<1>2. /\ s \in Seq(L) /\ DOMAIN s = 1..Len(s) /\ Len(s) \in Nat
      /\ \A i \in 1..Len(s) : s[i] \in L
  <2>1. Len(s) \in Nat /\ DOMAIN s = 1..Len(s) /\ \A i \in 1..Len(s) : s[i] \in ToSet(s)
    BY <1>1
  <2>2. s \in [1..Len(s) -> L]
    BY <1>1, <2>1
  <2>. HIDE DEF L
  <2>. QED  BY <2>1, <2>2
<1>. HIDE DEF L
<1>3. t \in Seq(L)
  <2>1. CASE Has(s, "max-message-size")
    <3>1. t = [i \in 1..Len(s) |-> IF s[i][1] = "max-message-size" THEN MaxMessageSize ELSE s[i]]
      BY <1>2, <2>1 DEF SetMaxMessageSize
    <3>. HIDE DEF t
    <3>2. t \in [1..Len(s) -> L]
      BY <1>1, <1>2, <3>1
    <3>. QED  BY <1>2, <3>2
  <2>2. CASE ~Has(s, "max-message-size")
    <3>. DEFINE g == [l \in L |-> IF l[1] = "sctp-port" THEN <<l, MaxMessageSize>> ELSE <<l>>]
    <3>1. Rewrites(g, L)
      <4>1. \A l \in L : <<l, MaxMessageSize>> \in Seq(L) /\ <<l>> \in Seq(L)
        BY <1>1
      <4>. QED  BY <4>1 DEF Rewrites
    <3>2. Parts(s, g) = [i \in DOMAIN s |->
                            IF s[i][1] = "sctp-port" THEN <<s[i], MaxMessageSize>> ELSE <<s[i]>>]
      BY <1>2 DEF Parts
    <3>3. t = FlatMap(s, g)
      BY <2>2, <3>2 DEF SetMaxMessageSize, FlatMap
    <3>. HIDE DEF g
    <3>. QED  BY <1>2, <3>1, <3>3, FlatMapType
  <2>. QED  BY <2>1, <2>2
<1>. HIDE DEF t
<1>4. Text(t) /\ ToSet(t) \subseteq L
  BY <1>3, TextFacts
<1>. QED  BY <1>4 DEF t, L

(* keep_only_relay_candidates drops the other candidates. *)
LEMMA RelayLines ==
    ASSUME NEW s, Text(s)
    PROVE  /\ Text(KeepOnlyRelayCandidates(s))
           /\ ToSet(KeepOnlyRelayCandidates(s)) =
                 {l \in ToSet(s) : l[1] = "candidate" => l[3] = "relay"}
<1>1. PICK L : L = ToSet(s) /\ s \in Seq(L)
  BY DEF Text
<1>2. PICK K : K = {l \in L : l[1] = "candidate" => l[3] = "relay"}
  OBVIOUS
<1>3. PICK I : I = {i \in DOMAIN s : s[i][1] = "candidate" => s[i][3] = "relay"}
  OBVIOUS
<1>4. \A i \in DOMAIN s : i \in I <=> s[i] \in K
  <2>1. \A i \in DOMAIN s : s[i] \in L
    BY <1>1
  <2>. QED  BY <1>2, <1>3, <2>1
<1>5. KeepOnlyRelayCandidates(s) = FlatMap(s, Filter(L, K))
  <2>1. Keep(s, I) = FlatMap(s, Filter(L, K))
    BY <1>1, <1>4, KeepIs
  <2>. QED  BY <1>3, <2>1 DEF KeepOnlyRelayCandidates
<1>6. /\ FlatMap(s, Filter(L, K)) \in Seq(L) /\ ToSet(FlatMap(s, Filter(L, K))) = ToSet(s) \cap K
  BY <1>1, FilterElements
<1>7. Text(KeepOnlyRelayCandidates(s))
  BY <1>5, <1>6, TextFacts
<1>8. ToSet(KeepOnlyRelayCandidates(s)) = L \cap K
  BY <1>1, <1>5, <1>6
<1>. QED  BY <1>1, <1>2, <1>7, <1>8

(* _local_sdp, of a dialer that accepts only relay candidates. *)
LEMMA RelayedLines ==
    ASSUME NEW s, Text(s)
    PROVE  /\ Text(LocalSdp(s, TRUE))
           /\ ToSet(LocalSdp(s, TRUE)) \subseteq ToSet(s) \cup {MaxMessageSize}
           /\ \A l \in ToSet(LocalSdp(s, TRUE)) : l[1] = "candidate" => l[3] = "relay"
<1>1. PICK t : t = SetMaxMessageSize(s)
  OBVIOUS
<1>2. Text(t) /\ ToSet(t) \subseteq ToSet(s) \cup {MaxMessageSize}
  BY <1>1, SizedLines
<1>3. Text(KeepOnlyRelayCandidates(t))
      /\ ToSet(KeepOnlyRelayCandidates(t)) = {l \in ToSet(t) : l[1] = "candidate" => l[3] = "relay"}
  BY <1>2, RelayLines
<1>4. LocalSdp(s, TRUE) = KeepOnlyRelayCandidates(t)
  BY <1>1 DEF LocalSdp
<1>. QED  BY <1>2, <1>3, <1>4

(* The messages o carry the connection id, and between them the lines. *)
Carry(o, id, lines) ==
    /\ Len(o) \in Nat /\ DOMAIN o = 1 .. Len(o)
    /\ \A i \in 1 .. Len(o) :
          \E w \in Identifiers \ {"CONNECTERROR"} : \E data :
              Text(data) /\ o[i] = Message(w, id, data)
    /\ (UNION {ToSet(msg.data) : msg \in ToSet(o)}) \ {Blank} = lines \ {Blank}

LEMMA SignalsCarry ==
    ASSUME NEW s, Text(s), NEW id
    PROVE  Carry(SignalsOf("CONNECTREQUEST", id, s), id,
                 {l \in ToSet(s) : l[1] # "end-of-candidates"})
<1>. DEFINE w == "CONNECTREQUEST"
            v == "CANDIDATEADD"
            head == Message(w, id, TextOf(StripCandidates(s)))
<1>0. PICK C : C = CandidatesOf(s)
  OBVIOUS
<1>. DEFINE Msg(c) == Message(v, id, TextOf(<<c>>))
            tail == [i \in DOMAIN C |-> Msg(C[i])]
            M == {head} \cup {Msg(c) : c \in ToSet(C)}
            o == <<head>> \o tail
<1>1. /\ Text(StripCandidates(s)) /\ Text(C)
      /\ ToSet(StripCandidates(s)) =
            {l \in ToSet(s) : l[1] \notin {"candidate", "end-of-candidates"}}
      /\ ToSet(C) = {l \in ToSet(s) : l[1] = "candidate"}
  BY <1>0, StripLines
<1>2. /\ head.data = TextOf(StripCandidates(s)) /\ Text(head.data)
      /\ ToSet(head.data) \ {Blank} = ToSet(StripCandidates(s)) \ {Blank}
      /\ head = Message(w, id, head.data)
  <2>1. head.data = TextOf(StripCandidates(s))
    BY DEF Message
  <2>2. Text(TextOf(StripCandidates(s)))
        /\ ToSet(TextOf(StripCandidates(s))) \ {Blank} = ToSet(StripCandidates(s)) \ {Blank}
    BY <1>1, TextOfLines
  <2>. QED  BY <2>1, <2>2
<1>3. \A c : /\ Text(Msg(c).data) /\ ToSet(Msg(c).data) \ {Blank} = {c} \ {Blank}
              /\ Msg(c) = Message(v, id, Msg(c).data)
  <2>. SUFFICES ASSUME NEW c
                PROVE  /\ Text(Msg(c).data) /\ ToSet(Msg(c).data) \ {Blank} = {c} \ {Blank}
                       /\ Msg(c) = Message(v, id, Msg(c).data)
    OBVIOUS
  <2>1. Msg(c).data = TextOf(<<c>>)
    BY DEF Message
  <2>2. PICK u : u = <<c>>
    OBVIOUS
  <2>3. Text(u) /\ ToSet(u) = {c}
    <3>1. u \in Seq({c}) /\ DOMAIN u = {1} /\ u[1] = c
      BY <2>2
    <3>. QED  BY <3>1, TextFacts DEF ToSet
  <2>4. Text(TextOf(u)) /\ ToSet(TextOf(u)) \ {Blank} = {c} \ {Blank}
    BY <2>3, TextOfLines
  <2>. QED  BY <2>1, <2>2, <2>4
<1>4. C \in Seq(ToSet(C)) /\ DOMAIN C = 1 .. Len(C) /\ Len(C) \in Nat
  BY <1>1 DEF Text
<1>. HIDE DEF head, Msg
<1>5. tail \in Seq(M) /\ Len(tail) = Len(C) /\ \A i \in 1 .. Len(C) : tail[i] = Msg(C[i])
  <2>1. \A i \in 1 .. Len(C) : C[i] \in ToSet(C)
    BY <1>4
  <2>2. tail = [i \in 1 .. Len(C) |-> Msg(C[i])]
    BY <1>4
  <2>3. tail \in [1 .. Len(C) -> M]
    BY <2>1, <2>2
  <2>. HIDE DEF tail, M
  <2>. QED  BY <1>4, <2>2, <2>3
<1>6. <<head>> \in Seq(M) /\ Len(<<head>>) = 1 /\ <<head>>[1] = head
  <2>1. head \in M
    OBVIOUS
  <2>. HIDE DEF M
  <2>. QED  BY <2>1
<1>7. Joined(o, <<head>>, tail, M)
  <2>. HIDE DEF M, tail
  <2>. QED  BY <1>5, <1>6, ConcatJoins
<1>8. /\ o \in Seq(M) /\ Len(o) = 1 + Len(C) /\ o[1] = head
      /\ \A i \in 1 .. Len(C) : o[i + 1] = Msg(C[i])
  <2>. HIDE DEF o, M, tail
  <2>. QED  BY <1>4, <1>5, <1>6, <1>7 DEF Joined
<1>9. o = SignalsOf(w, id, s)
  BY <1>0 DEF SignalsOf, head, Msg
<1>. HIDE DEF o, tail
<1>10. Len(o) \in Nat /\ DOMAIN o = 1 .. Len(o) /\ \A i \in 1 .. Len(o) : o[i] \in M
  <2>. HIDE DEF M
  <2>. QED  BY <1>8
<1>11. \A m \in M : \E x \in Identifiers \ {"CONNECTERROR"} : \E data :
          Text(data) /\ m = Message(x, id, data)
  <2>1. w \in Identifiers \ {"CONNECTERROR"} /\ v \in Identifiers \ {"CONNECTERROR"}
    BY DEF Identifiers
  <2>. QED  BY <1>2, <1>3, <2>1
<1>12. ToSet(o) = M
  <2>1. ToSet(o) \subseteq M
    BY <1>10 DEF ToSet
  <2>2. head \in ToSet(o)
    <3>1. 1 \in DOMAIN o
      BY <1>4, <1>8, <1>10
    <3>. QED  BY <1>8, <3>1 DEF ToSet
  <2>3. ASSUME NEW c \in ToSet(C) PROVE Msg(c) \in ToSet(o)
    <3>1. PICK i \in 1 .. Len(C) : C[i] = c
      BY <1>4 DEF ToSet
    <3>2. i + 1 \in DOMAIN o /\ o[i + 1] = Msg(c)
      BY <1>4, <1>8, <1>10, <3>1
    <3>. QED  BY <3>2 DEF ToSet
  <2>. QED  BY <2>1, <2>2, <2>3
<1>13. (UNION {ToSet(msg.data) : msg \in M}) \ {Blank}
          = {l \in ToSet(s) : l[1] # "end-of-candidates"} \ {Blank}
  <2>1. ASSUME NEW x, x # Blank, NEW m \in M, x \in ToSet(m.data)
        PROVE  x \in ToSet(s) /\ x[1] # "end-of-candidates"
    <3>1. CASE m = head
      BY <1>1, <1>2, <2>1, <3>1
    <3>2. CASE \E c \in ToSet(C) : m = Msg(c)
      BY <1>1, <1>3, <2>1, <3>2
    <3>. QED  BY <3>1, <3>2
  <2>2. ASSUME NEW x \in ToSet(s), x # Blank, x[1] # "end-of-candidates"
        PROVE  \E m \in M : x \in ToSet(m.data)
    <3>1. CASE x[1] = "candidate"
      <4>1. x \in ToSet(Msg(x).data) /\ Msg(x) \in M
        BY <1>1, <1>3, <2>2, <3>1
      <4>. QED  BY <4>1
    <3>2. CASE x[1] # "candidate"
      <4>1. x \in ToSet(head.data)
        BY <1>1, <1>2, <2>2, <3>2
      <4>. QED  BY <4>1
    <3>. QED  BY <3>1, <3>2
  <2>. HIDE DEF M
  <2>3. PICK U : U = UNION {ToSet(msg.data) : msg \in M}
    OBVIOUS
  <2>4. \A x : x \in U <=> \E m \in M : x \in ToSet(m.data)
    BY <2>3
  <2>5. U \ {Blank} = {l \in ToSet(s) : l[1] # "end-of-candidates"} \ {Blank}
    <3>. DEFINE V == {l \in ToSet(s) : l[1] # "end-of-candidates"}
    <3>1. ASSUME NEW x \in U, x # Blank PROVE x \in V
      <4>1. PICK m \in M : x \in ToSet(m.data)
        BY <2>4
      <4>. QED  BY <2>1, <3>1, <4>1
    <3>2. ASSUME NEW x \in V, x # Blank PROVE x \in U
      BY <2>2, <2>4, <3>2
    <3>. HIDE DEF V
    <3>3. U \ {Blank} = V \ {Blank}
      BY <3>1, <3>2
    <3>. QED  BY <3>3 DEF V
  <2>. QED  BY <2>3, <2>5
<1>. HIDE DEF M
<1>. QED  BY <1>9, <1>10, <1>11, <1>12, <1>13 DEF Carry

-----------------------------------------------------------------------------
(* The network. *)

(* Addresses are only added, and a session only goes on sending. *)
Later ==
    /\ homes' \in Seq(Nodes) /\ Len(homes) <= Len(homes')
    /\ \A a \in 1 .. Len(homes) : homes'[a] = homes[a]
    /\ \A n \in Nodes : /\ dial'[n].to = dial[n].to /\ dial'[n].out = dial[n].out
                        /\ dial'[n].sent \in Nat /\ dial[n].sent <= dial'[n].sent

LEMMA SameLater == LanType /\ UNCHANGED <<homes, dial>> => Later
BY DEF LanType, Later

LEMMA GenuineLasts ==
    ASSUME LanType, Later, NEW d, Genuine(d)
    PROVE  Genuine(d)'
<1>0. PICK n \in Nodes : homes[d.from] = n
  BY DEF LanType, Genuine
<1>1. d.from \in 1 .. Len(homes) /\ homes'[d.from] = n
  BY <1>0 DEF Genuine, Later
<1>2. d.from \in 1 .. Len(homes')
  BY <1>1 DEF LanType, Later
<1>3. dial[n].sent \in Nat /\ dial'[n].sent \in Nat /\ dial[n].sent <= dial'[n].sent
  BY <1>1 DEF LanType, Later
<1>4. dial'[n].to = dial[n].to /\ dial'[n].out = dial[n].out
  BY <1>1 DEF Later
<1>5. PICK q \in Sent(n) : d.envelope = Seal(AppId, q)
  BY <1>0 DEF Genuine
<1>6. q \in Sent(n)'
  <2>1. \A i \in 1 .. dial[n].sent : i \in 1 .. dial'[n].sent
    BY <1>3
  <2>2. CASE q \in {RequestPacket(n, Zero)}
                    \cup {ResponsePacket(h, Zero, Advertisement) : h \in Hosts \cap {n}}
    BY <2>2 DEF Sent
  <2>3. CASE \E i \in 1 .. dial[n].sent :
                q = MessagePacket(n, dial[n].to, Serialize(dial[n].out[i]))
    <3>1. PICK i \in 1 .. dial[n].sent :
                q = MessagePacket(n, dial[n].to, Serialize(dial[n].out[i]))
      BY <2>3
    <3>2. i \in 1 .. dial'[n].sent /\ q = MessagePacket(n, dial'[n].to, Serialize(dial'[n].out[i]))
      BY <1>4, <2>1, <3>1
    <3>. QED  BY <3>2 DEF Sent
  <2>. QED  BY <1>5, <2>2, <2>3 DEF Sent
<1>7. \E p \in Sent(homes[d.from])' : d.envelope = Seal(AppId, p)
  <2>1. Sent(homes[d.from])' = Sent(n)'
    BY <1>1 DEF Sent
  <2>. QED  BY <1>5, <1>6, <2>1
<1>. QED  BY <1>2, <1>7 DEF Genuine

LEMMA QuietNetwork ==
    ASSUME LanType, NetworkInv, Later, network' \subseteq network
    PROVE  NetworkInv'
BY GenuineLasts DEF NetworkInv

LEMMA TransmitStep ==
    ASSUME LanType, NetworkInv, Later, NEW n \in Nodes, NEW a \in 1 .. Len(homes'),
           homes'[a] = n, NEW p, p \in Sent(n)', NEW dest,
           Transmit(Datagram(AppId, p, a, dest))
    PROVE  NetworkInv'
<1>. DEFINE d == Datagram(AppId, p, a, dest)
<1>1. network' \subseteq network \cup {d}
  BY DEF Transmit
<1>2. d.from = a /\ d.envelope = Seal(AppId, p)
  BY DEF Datagram
<1>3. Genuine(d)'
  <2>1. p \in Sent(homes[d.from])'
    BY <1>2 DEF Sent
  <2>. QED  BY <1>2, <2>1 DEF Genuine
<1>. HIDE DEF d
<1>. QED  BY <1>1, <1>3, GenuineLasts DEF NetworkInv

LEMMA SendStep ==
    ASSUME LanType, NodeInv, NetworkInv, Later, NEW n \in Nodes, NEW p, p \in Sent(n)',
           NEW dest, SendPacket(n, p, dest)
    PROVE  NetworkInv'
<1>1. CASE addr[n] = NoAddr
  BY <1>1, QuietNetwork DEF SendPacket
<1>2. CASE addr[n] # NoAddr
  <2>1. addr[n] \in 1 .. Len(homes) /\ homes[addr[n]] = n
    BY <1>2 DEF NodeInv
  <2>2. addr[n] \in 1 .. Len(homes') /\ homes'[addr[n]] = n
    BY <2>1 DEF LanType, Later
  <2>3. Transmit(Datagram(AppId, p, addr[n], dest))
    BY <1>2 DEF SendPacket
  <2>. QED  BY <2>2, <2>3, TransmitStep
<1>. QED  BY <1>1, <1>2

-----------------------------------------------------------------------------
(* Steps. *)

LEMMA QuietStep ==
    ASSUME LanInv, UNCHANGED <<addr, peers, advert, found, calls, homes, dial>>, NetworkInv'
    PROVE  LanInv'
<1>1. LanType' /\ NodeInv'
  BY DEF LanInv, LanType, NodeInv
<1>2. PeersInv' /\ FoundInv' /\ DiscoverIsFresh'
  BY DEF LanInv, PeersInv, FoundInv, DiscoverIsFresh
<1>. QED  BY <1>1, <1>2 DEF LanInv

(* A socket is closed. *)
LEMMA CloseStep ==
    ASSUME LanInv, NEW n \in Nodes, CloseSocket(n),
           UNCHANGED <<peers, advert, found, calls, dial, network, homes>>
    PROVE  LanInv'
<1>1. LanType' /\ NodeInv'
  BY DEF LanInv, LanType, NodeInv, CloseSocket
<1>2. PeersInv' /\ FoundInv' /\ DiscoverIsFresh'
  BY DEF LanInv, PeersInv, FoundInv, DiscoverIsFresh
<1>3. NetworkInv'
  BY SameLater, QuietNetwork DEF LanInv
<1>. QED  BY <1>1, <1>2, <1>3 DEF LanInv

(* A new address belongs to nobody else, and its transport starts empty. *)
LEMMA BindStep ==
    ASSUME LanInv, NEW n \in Nodes, Bind(n), UNCHANGED <<advert, calls, dial>>
    PROVE  /\ Later /\ NewAddr \in 1 .. Len(homes') /\ homes'[NewAddr] = n
           /\ NetworkInv' => LanInv'
<1>. USE DEF LanInv
<1>1. homes \in Seq(Nodes) /\ homes' = Append(homes, n) /\ NewAddr = Len(homes) + 1
  BY DEF LanType, Bind, NewAddr
<1>2. /\ homes' \in Seq(Nodes) /\ Len(homes') = Len(homes) + 1 /\ Len(homes) \in Nat
      /\ homes'[NewAddr] = n /\ NewAddr \in Nat \ {0}
      /\ \A a \in 1 .. Len(homes) : homes'[a] = homes[a] /\ a \in 1 .. Len(homes')
  BY <1>1
<1>3. Later
  BY <1>2 DEF LanType, Later
<1>4. /\ addr' = [addr EXCEPT ![n] = NewAddr] /\ peers' = [peers EXCEPT ![n] = NoPeers]
      /\ found' = [found EXCEPT ![n] = {}]
  BY DEF Bind
<1>5. LanType'
  BY <1>2, <1>4 DEF LanType, NoPeers
<1>6. NodeInv'
  BY <1>1, <1>2, <1>4 DEF LanType, NodeInv
<1>7. PeersInv'
  <2>1. \A m \in Nodes, id \in Ids : peers'[m][id] = IF m = n THEN NoAddr ELSE peers[m][id]
    BY <1>4 DEF LanType, NoPeers
  <2>2. ASSUME NEW m \in Nodes, NEW id \in Ids, peers'[m][id] # NoAddr
        PROVE  /\ id # m /\ peers'[m][id] \in 1 .. Len(homes')
               /\ homes'[peers'[m][id]] = id
    <3>1. peers'[m][id] = peers[m][id]
      BY <2>1, <2>2
    <3>2. id # m /\ peers[m][id] \in 1 .. Len(homes) /\ homes[peers[m][id]] = id
      BY <2>2, <3>1 DEF PeersInv
    <3>. QED  BY <1>2, <3>1, <3>2
  <2>. QED  BY <2>2 DEF PeersInv
<1>8. FoundInv' /\ DiscoverIsFresh'
  <2>1. \A m \in Nodes : found'[m] = IF m = n THEN {} ELSE found[m]
    BY <1>4 DEF LanType
  <2>2. \A c \in Calls : calls[c].at # n
    BY DEF Bind
  <2>. QED  BY <2>1, <2>2 DEF FoundInv, DiscoverIsFresh
<1>. QED  BY <1>1, <1>2, <1>3, <1>5, <1>6, <1>7, <1>8

(* The address a packet comes from belongs to its sender, and a stray one    *)
(* has no sender.                                                            *)
LEMMA DatagramStep ==
    ASSUME LanInv, NEW n \in Nodes, NEW d \in network \cup Strays, NEW p \in Packets(d),
           OnDatagram(n, d, p), UNCHANGED homes
    PROVE  /\ peers' \in [Nodes -> [Ids -> Nat \cup {NoAddr}]] /\ PeersInv'
           /\ p.type = RESPONSE => <<p.sender, p.data>> \in Heard /\ p.sender # n
<1>. USE DEF LanInv
<1>1. CASE d \in Strays
  <2>1. /\ p.sender = Zero /\ Zero # n
        /\ p.type = RESPONSE => <<p.sender, p.data>> \in Heard
    BY <1>1, StrayPackets, LanAssumption DEF MESSAGE, RESPONSE, Heard
  <2>2. UNCHANGED peers
    BY <2>1 DEF OnDatagram, NotAPeer
  <2>. QED  BY <2>1, <2>2 DEF LanType, PeersInv
<1>2. CASE d \in network
  <2>1. /\ d.from \in 1 .. Len(homes) /\ homes[d.from] \in Nodes /\ p.sender = homes[d.from]
        /\ p.type = RESPONSE => <<p.sender, p.data>> \in Heard
    BY <1>2, GenuinePackets DEF NetworkInv
  <2>2. p.sender \in Nodes /\ p.sender # n /\ p.sender # Zero /\ p.sender \in Ids
    BY <2>1, LanAssumption DEF OnDatagram, Own, Ids
  <2>3. peers' = [peers EXCEPT ![n][p.sender] = d.from]
    BY <2>2 DEF OnDatagram, NotAPeer
  <2>4. d.from \in Nat /\ peers \in [Nodes -> [Ids -> Nat \cup {NoAddr}]]
    BY <2>1 DEF LanType
  <2>5. peers' \in [Nodes -> [Ids -> Nat \cup {NoAddr}]]
    BY <2>2, <2>3, <2>4
  <2>6. \A m \in Nodes, id \in Ids :
           peers'[m][id] = IF m = n /\ id = p.sender THEN d.from ELSE peers[m][id]
    BY <2>2, <2>3, <2>4
  <2>7. PeersInv'
    BY <2>1, <2>2, <2>6 DEF PeersInv
  <2>. QED  BY <2>1, <2>2, <2>5, <2>7
<1>. QED  BY <1>1, <1>2

LEMMA DeliverStep ==
    ASSUME LanInv, NEW n \in Nodes, NEW d \in network \cup Strays, Deliver(n, d)
    PROVE  LanInv'
<1>. USE DEF LanInv
<1>1. PICK p \in Packets(d) :
         HandleRequest(n, d, p) \/ HandleResponse(n, d, p) \/ HandleMessage(n, d, p)
  BY DEF Deliver
<1>2. OnDatagram(n, d, p) /\ UNCHANGED <<addr, advert, dial, homes>>
  BY <1>1 DEF HandleRequest, HandleResponse, HandleMessage
<1>3. /\ peers' \in [Nodes -> [Ids -> Nat \cup {NoAddr}]] /\ PeersInv'
      /\ p.type = RESPONSE => <<p.sender, p.data>> \in Heard /\ p.sender # n
  BY <1>2, DatagramStep
<1>4. Later
  BY <1>2, SameLater
<1>5. NodeInv'
  BY <1>2 DEF NodeInv
<1>6. CASE HandleRequest(n, d, p)
  <2>1. UNCHANGED <<found, calls>>
    BY <1>6 DEF HandleRequest
  <2>2. LanType' /\ FoundInv' /\ DiscoverIsFresh'
    BY <1>2, <1>3, <2>1 DEF LanType, FoundInv, DiscoverIsFresh
  <2>3. CASE advert[n]
    <3>1. ResponsePacket(n, Zero, Advertisement) \in Sent(n)'
      BY <2>3 DEF NodeInv, Sent
    <3>2. SendPacket(n, ResponsePacket(n, Zero, Advertisement), d.from)
      BY <1>6, <2>3 DEF HandleRequest
    <3>3. NetworkInv'
      BY <1>4, <3>1, <3>2, SendStep
    <3>. QED  BY <1>3, <1>5, <2>2, <3>3
  <2>4. CASE ~advert[n]
    <3>1. NetworkInv'
      BY <1>4, <1>6, <2>4, QuietNetwork DEF HandleRequest
    <3>. QED  BY <1>3, <1>5, <2>2, <3>1
  <2>. QED  BY <2>3, <2>4
<1>7. CASE HandleResponse(n, d, p)
  <2>. DEFINE host == <<p.sender, p.data>>
  <2>1. /\ UNCHANGED network /\ p.type = RESPONSE
        /\ found' = [found EXCEPT ![n] = @ \cup {host}]
        /\ calls' = [c \in Calls |-> IF calls[c].at # n THEN calls[c]
                                     ELSE [calls[c] EXCEPT !.heard = @ \cup {host}]]
    BY <1>7 DEF HandleResponse
  <2>2. host \in Heard /\ host[1] # n
    BY <1>3, <2>1
  <2>. HIDE DEF host
  <2>3. \A m \in Nodes : found'[m] = IF m = n THEN found[m] \cup {host} ELSE found[m]
    BY <2>1 DEF LanType
  <2>4. \A c \in Calls :
           /\ calls'[c].at = calls[c].at /\ calls'[c].last = calls[c].last
           /\ calls'[c].heard = IF calls[c].at = n THEN calls[c].heard \cup {host}
                                ELSE calls[c].heard
    BY <2>1 DEF LanType
  <2>5. LanType'
    <3>1. found' \in [Nodes -> SUBSET Heard]
      BY <2>1, <2>2 DEF LanType
    <3>2. ASSUME NEW c \in Calls
          PROVE  calls'[c] \in [at : Nodes \cup {"none"}, heard : SUBSET Heard, last : BOOLEAN]
      BY <2>1, <2>2 DEF LanType
    <3>3. calls' \in [Calls -> [at : Nodes \cup {"none"}, heard : SUBSET Heard, last : BOOLEAN]]
      BY <2>1, <3>2
    <3>. QED  BY <1>2, <1>3, <3>1, <3>3 DEF LanType
  <2>6. FoundInv'
    BY <2>2, <2>3 DEF FoundInv
  <2>7. DiscoverIsFresh'
    <3>1. ASSUME NEW c \in Calls, NEW m \in Nodes, calls'[c].at = m
          PROVE  /\ found'[m] \subseteq calls'[c].heard
                 /\ calls'[c].last => found'[m] = calls'[c].heard
      <4>1. /\ calls[c].at = m /\ found[m] \subseteq calls[c].heard
            /\ calls[c].last => found[m] = calls[c].heard
        BY <2>4, <3>1 DEF DiscoverIsFresh
      <4>2. CASE m = n
        BY <2>3, <2>4, <4>1, <4>2
      <4>3. CASE m # n
        BY <2>3, <2>4, <4>1, <4>3
      <4>. QED  BY <4>2, <4>3
    <3>. QED  BY <3>1 DEF DiscoverIsFresh
  <2>8. NetworkInv'
    BY <1>4, <2>1, QuietNetwork
  <2>. QED  BY <1>3, <1>5, <2>5, <2>6, <2>7, <2>8
<1>8. CASE HandleMessage(n, d, p)
  <2>1. UNCHANGED <<found, calls, network>>
    BY <1>8 DEF HandleMessage
  <2>2. LanType' /\ FoundInv' /\ DiscoverIsFresh'
    BY <1>2, <1>3, <2>1 DEF LanType, FoundInv, DiscoverIsFresh
  <2>3. NetworkInv'
    BY <1>4, <2>1, QuietNetwork
  <2>. QED  BY <1>3, <1>5, <2>2, <2>3
<1>. QED  BY <1>1, <1>6, <1>7, <1>8

LEMMA DiscoverStep ==
    ASSUME LanInv, NEW n \in Nodes, NEW c \in Calls, Discover(c, n)
    PROVE  LanInv'
<1>. USE DEF LanInv
<1>1. /\ UNCHANGED <<addr, peers, advert, dial, homes>> /\ found' = [found EXCEPT ![n] = {}]
      /\ calls' = [e \in Calls |->
                      IF e = c THEN [at |-> n, heard |-> {}, last |-> TRUE]
                      ELSE [calls[e] EXCEPT !.last = @ /\ calls[e].at # n]]
      /\ SendPacket(n, RequestPacket(n, Zero), Broadcast)
  BY DEF Discover, Cleared
<1>2. \A m \in Nodes : found'[m] = IF m = n THEN {} ELSE found[m]
  BY <1>1 DEF LanType
<1>3. calls'[c] = [at |-> n, heard |-> {}, last |-> TRUE]
  BY <1>1
<1>4. ASSUME NEW e \in Calls, e # c
      PROVE  /\ calls'[e] \in [at : Nodes \cup {"none"}, heard : SUBSET Heard, last : BOOLEAN]
             /\ calls'[e].at = calls[e].at /\ calls'[e].heard = calls[e].heard
             /\ calls'[e].last => calls[e].last /\ calls[e].at # n
  <2>1. calls'[e] = [calls[e] EXCEPT !.last = @ /\ calls[e].at # n]
    BY <1>1, <1>4
  <2>2. calls[e] \in [at : Nodes \cup {"none"}, heard : SUBSET Heard, last : BOOLEAN]
    BY DEF LanType
  <2>. QED  BY <2>1, <2>2
<1>5. LanType'
  <2>1. calls' \in [Calls -> [at : Nodes \cup {"none"}, heard : SUBSET Heard, last : BOOLEAN]]
    BY <1>1, <1>3, <1>4
  <2>2. found' \in [Nodes -> SUBSET Heard]
    BY <1>1 DEF LanType
  <2>. QED  BY <1>1, <2>1, <2>2 DEF LanType
<1>6. NodeInv' /\ PeersInv' /\ FoundInv'
  BY <1>1, <1>2 DEF NodeInv, PeersInv, FoundInv
<1>7. DiscoverIsFresh'
  <2>1. ASSUME NEW e \in Calls, NEW m \in Nodes, calls'[e].at = m
        PROVE  /\ found'[m] \subseteq calls'[e].heard
               /\ calls'[e].last => found'[m] = calls'[e].heard
    <3>1. CASE e = c
      BY <1>2, <1>3, <2>1, <3>1
    <3>2. CASE e # c
      <4>1. /\ calls[e].at = m /\ found[m] \subseteq calls[e].heard
            /\ calls[e].last => found[m] = calls[e].heard
        BY <1>4, <2>1, <3>2 DEF DiscoverIsFresh
      <4>. QED  BY <1>2, <1>4, <3>2, <4>1
    <3>. QED  BY <3>1, <3>2
  <2>. QED  BY <2>1 DEF DiscoverIsFresh
<1>8. NetworkInv'
  <2>1. RequestPacket(n, Zero) \in Sent(n)'
    BY DEF Sent
  <2>. QED  BY <1>1, <2>1, SameLater, SendStep
<1>. QED  BY <1>5, <1>6, <1>7, <1>8

LEMMA DiscoverReturnsStep ==
    ASSUME LanInv, NEW c \in Calls, DiscoverReturns(c)
    PROVE  LanInv'
<1>. USE DEF LanInv
<1>1. /\ UNCHANGED <<addr, peers, advert, found, dial, network, homes>>
      /\ calls' = [calls EXCEPT ![c] = [at |-> "none", heard |-> {}, last |-> FALSE]]
  BY DEF DiscoverReturns
<1>2. LanType'
  BY <1>1 DEF LanType
<1>3. NodeInv' /\ PeersInv' /\ FoundInv'
  BY <1>1 DEF NodeInv, PeersInv, FoundInv
<1>4. DiscoverIsFresh'
  <2>1. \A e \in Calls, m \in Nodes : calls'[e].at = m => calls'[e] = calls[e]
    BY <1>1, LanAssumption DEF LanType
  <2>. QED  BY <1>1, <2>1 DEF DiscoverIsFresh
<1>5. NetworkInv'
  BY <1>1, SameLater, QuietNetwork
<1>. QED  BY <1>2, <1>3, <1>4, <1>5

LEMMA SendSignalStep ==
    ASSUME LanInv, NEW n \in Nodes, SendSignal(n)
    PROVE  LanInv'
<1>. USE DEF LanInv
<1>. DEFINE k == dial[n].sent + 1
            packet == MessagePacket(n, dial[n].to, Serialize(dial[n].out[k]))
<1>1. /\ UNCHANGED <<addr, peers, advert, found, calls, homes>>
      /\ dial' = [dial EXCEPT ![n].sent = @ + 1]
      /\ SendPacket(n, packet, Target(n, dial[n].to))
  BY DEF SendSignal
<1>2. dial \in [Nodes -> [to : Ids \cup {Zero}, sent : Nat,
                          out : {d.out : d \in {NoDial} \cup Dials}]]
  BY DEF LanType
<1>3. /\ \A m \in Nodes : dial'[m].to = dial[m].to /\ dial'[m].out = dial[m].out
      /\ \A m \in Nodes : dial'[m].sent = IF m = n THEN k ELSE dial[m].sent
      /\ k \in Nat \ {0}
  BY <1>1, <1>2
<1>4. LanType'
  <2>1. dial' \in [Nodes -> [to : Ids \cup {Zero}, sent : Nat,
                             out : {d.out : d \in {NoDial} \cup Dials}]]
    BY <1>1, <1>2
  <2>. QED  BY <1>1, <2>1 DEF LanType
<1>5. NodeInv' /\ PeersInv' /\ FoundInv' /\ DiscoverIsFresh'
  BY <1>1, <1>3 DEF NodeInv, PeersInv, FoundInv, DiscoverIsFresh
<1>6. Later
  BY <1>1, <1>2, <1>3 DEF LanType, Later
<1>7. PICK q : q = packet
  OBVIOUS
<1>8. q \in Sent(n)'
  <2>1. PICK j \in 1 .. dial'[n].sent : j = k
    BY <1>3
  <2>2. q = MessagePacket(n, dial'[n].to, Serialize(dial'[n].out[j]))
    BY <1>3, <1>7, <2>1
  <2>. QED  BY <2>1, <2>2 DEF Sent
<1>9. NetworkInv'
  BY <1>1, <1>6, <1>7, <1>8, SendStep
<1>. QED  BY <1>4, <1>5, <1>9

LEMMA RememberPeerStep ==
    ASSUME LanInv, NEW n \in Nodes, RememberPeer(n)
    PROVE  LanInv'
<1>. USE DEF LanInv
<1>1. PICK a \in 1 .. Len(homes) :
         homes[a] = dial[n].to /\ peers' = [peers EXCEPT ![n][homes[a]] = a]
  BY DEF RememberPeer
<1>2. UNCHANGED <<addr, advert, found, calls, dial, network, homes>>
  BY DEF RememberPeer
<1>3. homes[a] \in Ids /\ homes[a] # n /\ a \in Nat
  BY <1>1 DEF LanType, NodeInv, Ids
<1>4. peers \in [Nodes -> [Ids -> Nat \cup {NoAddr}]]
  BY DEF LanType
<1>5. \A m \in Nodes, id \in Ids :
         peers'[m][id] = IF m = n /\ id = homes[a] THEN a ELSE peers[m][id]
  BY <1>1, <1>3, <1>4
<1>6. LanType'
  <2>1. peers' \in [Nodes -> [Ids -> Nat \cup {NoAddr}]]
    BY <1>1, <1>3, <1>4
  <2>. QED  BY <1>2, <2>1 DEF LanType
<1>7. PeersInv'
  BY <1>2, <1>3, <1>5 DEF PeersInv
<1>8. NodeInv' /\ FoundInv' /\ DiscoverIsFresh'
  BY <1>2 DEF NodeInv, FoundInv, DiscoverIsFresh
<1>9. NetworkInv'
  BY <1>2, SameLater, QuietNetwork
<1>. QED  BY <1>6, <1>7, <1>8, <1>9

LEMMA SetAdvertisementStep ==
    ASSUME LanInv, NEW n \in Nodes, SetAdvertisement(n)
    PROVE  LanInv'
<1>. USE DEF LanInv
<1>1. /\ UNCHANGED <<addr, peers, found, calls, dial, network, homes>>
      /\ n \in Hosts /\ advert' = [advert EXCEPT ![n] = ~advert[n]]
  BY DEF SetAdvertisement
<1>2. LanType' /\ NodeInv'
  BY <1>1 DEF LanType, NodeInv
<1>3. PeersInv' /\ FoundInv' /\ DiscoverIsFresh'
  BY <1>1 DEF PeersInv, FoundInv, DiscoverIsFresh
<1>4. NetworkInv'
  BY <1>1, SameLater, QuietNetwork
<1>. QED  BY <1>2, <1>3, <1>4

-----------------------------------------------------------------------------
(* Results. *)

LEMMA LanInit == Init => LanInv
<1>. SUFFICES ASSUME Init PROVE LanInv
  OBVIOUS
<1>1. /\ addr = [n \in Nodes |-> NoAddr] /\ peers = [n \in Nodes |-> NoPeers]
      /\ advert = [n \in Nodes |-> FALSE] /\ found = [n \in Nodes |-> {}]
      /\ calls = [c \in Calls |-> [at |-> "none", heard |-> {}, last |-> FALSE]]
      /\ network = {} /\ homes = <<>>
  BY DEF Init
<1>2. /\ dial \in [Nodes -> {NoDial} \cup Dials]
      /\ \A n \in Nodes : dial[n] # NoDial => dial[n].to # n
  BY DEF Init
<1>3. ASSUME NEW n \in Nodes
      PROVE  /\ dial[n] \in [to : Ids \cup {Zero}, sent : Nat,
                             out : {d.out : d \in {NoDial} \cup Dials}]
             /\ dial[n].to # n
  <2>1. CASE dial[n] = NoDial
    BY <2>1, LanAssumption DEF NoDial
  <2>2. CASE dial[n] \in Dials
    <3>1. dial[n].to # n
      <4>1. CASE dial[n] = NoDial
        BY <4>1, LanAssumption DEF NoDial
      <4>. QED  BY <1>2, <4>1
    <3>2. PICK e \in Dials : e = dial[n]
      BY <2>2
    <3>3. e = [to |-> e.to, sent |-> e.sent, out |-> e.out] /\ e.to \in Ids /\ e.sent = 0
      BY DEF Dials
    <3>. QED  BY <3>1, <3>2, <3>3
  <2>. QED  BY <1>2, <2>1, <2>2
<1>4. LanType
  <2>1. \A n \in Nodes : dial[n] \in [to : Ids \cup {Zero}, sent : Nat,
                                      out : {d.out : d \in {NoDial} \cup Dials}]
    BY <1>3
  <2>2. dial \in [Nodes -> [to : Ids \cup {Zero}, sent : Nat,
                            out : {d.out : d \in {NoDial} \cup Dials}]]
    BY <1>2, <2>1
  <2>. QED  BY <1>1, <2>2 DEF LanType, NoPeers
<1>5. NodeInv
  BY <1>1, <1>3 DEF NodeInv
<1>6. NetworkInv /\ PeersInv /\ FoundInv
  BY <1>1 DEF NetworkInv, PeersInv, FoundInv, NoPeers
<1>7. DiscoverIsFresh
  BY <1>1 DEF DiscoverIsFresh
<1>. QED  BY <1>4, <1>5, <1>6, <1>7 DEF LanInv

LEMMA LanStep == LanInv /\ [Next]_vars => LanInv'
<1>. SUFFICES ASSUME LanInv, [Next]_vars PROVE LanInv'
  OBVIOUS
<1>0. LanType /\ NodeInv /\ NetworkInv
  BY DEF LanInv
<1>1. CASE UNCHANGED vars
  <2>1. UNCHANGED <<addr, peers, advert, found, calls, homes, dial, network>>
    BY <1>1 DEF vars
  <2>. QED  BY <1>0, <2>1, SameLater, QuietNetwork, QuietStep
<1>2. ASSUME NEW n \in Nodes, Start(n) PROVE LanInv'
  <2>1. Bind(n) /\ UNCHANGED <<advert, calls, dial, network>>
    BY <1>2 DEF Start
  <2>2. Later /\ (NetworkInv' => LanInv')
    BY <2>1, BindStep
  <2>. QED  BY <1>0, <2>1, <2>2, QuietNetwork
<1>3. ASSUME NEW n \in Nodes, IterBegins(n) PROVE LanInv'
  <2>1. /\ Bind(n) /\ UNCHANGED <<advert, calls, dial>>
        /\ Transmit(Datagram(AppId, RequestPacket(n, Zero), NewAddr, Broadcast))
    BY <1>3 DEF IterBegins, Request
  <2>2. /\ Later /\ NewAddr \in 1 .. Len(homes') /\ homes'[NewAddr] = n
        /\ NetworkInv' => LanInv'
    BY <2>1, BindStep
  <2>3. RequestPacket(n, Zero) \in Sent(n)'
    BY DEF Sent
  <2>. QED  BY <1>0, <2>1, <2>2, <2>3, TransmitStep
<1>4. ASSUME NEW n \in Nodes, BroadcastLoop(n) PROVE LanInv'
  <2>1. /\ UNCHANGED <<addr, peers, advert, found, calls, homes, dial>>
        /\ SendPacket(n, RequestPacket(n, Zero), Broadcast)
    BY <1>4 DEF BroadcastLoop
  <2>2. RequestPacket(n, Zero) \in Sent(n)'
    BY DEF Sent
  <2>. QED  BY <1>0, <2>1, <2>2, SameLater, SendStep, QuietStep
<1>5. ASSUME NEW n \in Nodes,
             \/ CloseBegin(n) \/ CloseEnds(n)
             \/ IterGets(n) \/ IterNext(n) \/ IterExpires(n) \/ IterLeft(n)
      PROVE  LanInv'
  <2>1. CASE CloseSocket(n)
    <3>1. UNCHANGED <<peers, advert, found, calls, dial, network, homes>>
      BY <1>5 DEF CloseBegin, CloseEnds, IterGets, IterNext, IterExpires, IterLeft
    <3>. QED  BY <2>1, <3>1, CloseStep
  <2>2. CASE ~CloseSocket(n)
    <3>1. UNCHANGED <<addr, peers, advert, found, calls, homes, dial, network>>
      BY <1>5, <2>2 DEF CloseBegin, CloseEnds, IterGets, IterNext, IterExpires, IterLeft,
                        Loop, Finally
    <3>. QED  BY <1>0, <3>1, SameLater, QuietNetwork, QuietStep
  <2>. QED  BY <2>1, <2>2
<1>6. ASSUME NEW n \in Nodes, StartBroadcasting(n) PROVE LanInv'
  <2>1. UNCHANGED <<addr, peers, advert, found, calls, homes, dial, network>>
    BY <1>6 DEF StartBroadcasting
  <2>. QED  BY <1>0, <2>1, SameLater, QuietNetwork, QuietStep
<1>7. ASSUME NEW d \in network, Lose(d) PROVE LanInv'
  <2>1. /\ UNCHANGED <<addr, peers, advert, found, calls, homes, dial>>
        /\ network' \subseteq network
    BY <1>7 DEF Lose
  <2>. QED  BY <1>0, <2>1, SameLater, QuietNetwork, QuietStep
<1>8. CASE Tick
  <2>1. UNCHANGED <<addr, peers, advert, found, calls, homes, dial, network>>
    BY <1>8 DEF Tick
  <2>. QED  BY <1>0, <2>1, SameLater, QuietNetwork, QuietStep
<1>. QED  BY <1>1, <1>2, <1>3, <1>4, <1>5, <1>6, <1>7, <1>8, SetAdvertisementStep, SendSignalStep,
             RememberPeerStep, DeliverStep, DiscoverStep, DiscoverReturnsStep DEF Next

LEMMA LanInvariant == Spec => []LanInv
BY LanInit, LanStep, PTL DEF Spec

(* _on_datagram: a transport knows only addresses that the very peer was     *)
(* bound to, and discovers only hosts, by their own advertisement, and what  *)
(* calls itself 0, among any number of peers that come back under other      *)
(* addresses.                                                                *)
THEOREM OnlyPeersAreKnown == Spec => []KnowsOnlyPeers
<1>1. LanInv => KnowsOnlyPeers
  <2>. SUFFICES ASSUME LanInv, NEW n \in Nodes
                PROVE  /\ \A id \in DOMAIN peers[n] : peers[n][id] # NoAddr =>
                             /\ id # n /\ peers[n][id] \in 1 .. Len(homes)
                             /\ homes[peers[n][id]] = id
                       /\ \A h \in found[n] :
                             h = <<Zero, <<>>>> \/ (h[1] \in Hosts \ {n} /\ h[2] = Advertised)
    BY DEF KnowsOnlyPeers, Advertised
  <2>1. DOMAIN peers[n] = Ids /\ found[n] \subseteq Heard
    BY DEF LanInv, LanType
  <2>. QED  BY <2>1 DEF LanInv, PeersInv, FoundInv, Heard
<1>. QED  BY <1>1, LanInvariant, PTL

(* Transport.discover: what a call will return answered while it was running, *)
(* and all that answered are in it unless another call cleared them, for any  *)
(* number of overlapping calls.                                               *)
THEOREM DiscoveryIsFresh == Spec => []DiscoverIsFresh
<1>1. LanInv => DiscoverIsFresh
  BY DEF LanInv
<1>. QED  BY <1>1, LanInvariant, PTL

-----------------------------------------------------------------------------
(* Signals. *)

(* The signals of a session. *)
LEMMA DialsCarry ==
    ASSUME NEW sdp \in Descriptions
    PROVE  /\ Carry(SignalsOf("CONNECTREQUEST", ConnectionId, LocalSdp(sdp, TRUE)), ConnectionId,
                    ToSet(LocalSdp(sdp, TRUE)) \ {<<"end-of-candidates">>})
           /\ \A l \in ToSet(LocalSdp(sdp, TRUE)) : l[1] = "candidate" => l[3] = "relay"
           /\ Blank \notin ToSet(LocalSdp(sdp, TRUE))
<1>1. /\ Text(sdp) /\ Blank \notin ToSet(sdp)
      /\ \A l \in ToSet(sdp) : l[1] = "end-of-candidates" => l = <<"end-of-candidates">>
  BY LanAssumption DEF Text
<1>2. PICK s : s = LocalSdp(sdp, TRUE)
  OBVIOUS
<1>3. Text(s) /\ ToSet(s) \subseteq ToSet(sdp) \cup {MaxMessageSize}
      /\ \A l \in ToSet(s) : l[1] = "candidate" => l[3] = "relay"
  BY <1>1, <1>2, RelayedLines
<1>4. MaxMessageSize # Blank /\ MaxMessageSize[1] # "end-of-candidates"
  BY DEF MaxMessageSize, Blank
<1>5. Blank \notin ToSet(s)
  BY <1>1, <1>3, <1>4
<1>6. {l \in ToSet(s) : l[1] # "end-of-candidates"} = ToSet(s) \ {<<"end-of-candidates">>}
  <2>1. \A l \in ToSet(s) : l[1] = "end-of-candidates" => l = <<"end-of-candidates">>
    BY <1>1, <1>3, <1>4
  <2>2. <<"end-of-candidates">>[1] = "end-of-candidates"
    OBVIOUS
  <2>. QED  BY <2>1, <2>2
<1>7. Carry(SignalsOf("CONNECTREQUEST", ConnectionId, s), ConnectionId,
            {l \in ToSet(s) : l[1] # "end-of-candidates"})
  BY <1>3, SignalsCarry
<1>. QED  BY <1>2, <1>3, <1>5, <1>6, <1>7

(* What a message in flight says, if it says anything. *)
LEMMA SignalArrives ==
    ASSUME LanInv, DialInv, NEW n \in Nodes, NEW d \in network, NEW p \in Packets(d),
           p.type = MESSAGE, p.to = n, NEW msg \in Parse(p.data)
    PROVE  Dialed(n, <<p.sender, msg>>)
<1>0. LanType /\ Genuine(d)
  BY DEF LanInv, NetworkInv
<1>1. PICK m \in Nodes : m = homes[d.from] /\ p.sender = m
  BY <1>0, GenuinePackets
<1>2. PICK q \in Sent(m) : d.envelope = Seal(AppId, q)
  BY <1>0, <1>1 DEF Genuine
<1>3. p \in ParsePacket(q)
  BY <1>2, SealOpens DEF Packets
<1>4. /\ q.type = MESSAGE /\ p.to = q.to /\ p.data = Cut(q.data, q.len)
  BY <1>3 DEF ParsePacket
<1>5. PICK i \in 1 .. dial[m].sent : q = MessagePacket(m, dial[m].to, Serialize(dial[m].out[i]))
  <2>1. MESSAGE # REQUEST /\ MESSAGE # RESPONSE
    BY DEF MESSAGE, REQUEST, RESPONSE
  <2>2. q # RequestPacket(m, Zero)
    BY <1>4, <2>1 DEF RequestPacket, Packet
  <2>3. \A h : q # ResponsePacket(h, Zero, Advertisement)
    BY <1>4, <2>1 DEF ResponsePacket, Packet
  <2>. QED  BY <1>2, <2>2, <2>3 DEF Sent
<1>6. PICK o : o = dial[m].out
  OBVIOUS
<1>7. dial[m].to = n /\ i \in 1 .. Len(o) /\ dial[m].sent \in Nat
  <2>1. dial[m].to = n
    BY <1>4, <1>5 DEF MessagePacket, Packet
  <2>2. dial[m].sent \in Nat
    BY <1>0 DEF LanType
  <2>3. dial[m].sent <= Len(o) /\ Len(o) \in Nat
    <3>1. dial[m].sent <= Len(o)
      BY <1>6 DEF DialInv
    <3>2. n # Zero
      BY LanAssumption
    <3>3. PICK sdp \in Descriptions :
             o = SignalsOf("CONNECTREQUEST", ConnectionId, LocalSdp(sdp, TRUE))
      BY <1>6, <2>1, <3>2 DEF DialInv
    <3>4. Len(o) \in Nat
      BY <3>3, DialsCarry DEF Carry
    <3>. QED  BY <3>1, <3>4
  <2>. QED  BY <2>1, <2>2, <2>3
<1>8. PICK w, data :
         /\ w \in Identifiers \ {"CONNECTERROR"}
         /\ Text(data) /\ o[i] = Message(w, ConnectionId, data)
  <2>1. n # Zero
    BY LanAssumption
  <2>2. PICK sdp \in Descriptions :
           o = SignalsOf("CONNECTREQUEST", ConnectionId, LocalSdp(sdp, TRUE))
    BY <1>6, <1>7, <2>1 DEF DialInv
  <2>3. PICK lines : Carry(o, ConnectionId, lines)
    BY <2>2, DialsCarry
  <2>. QED  BY <1>7, <2>3 DEF Carry
<1>9. PICK text : text = Serialize(o[i])
  OBVIOUS
<1>10. MESSAGE_PAYLOAD_MAX \in Nat /\ ConnectionId \in 0 .. U64_MAX
  BY WireAssumption, LanAssumption
<1>11. Text(text)
  <2>1. Holds(Serialize(Message(w, ConnectionId, data)), w, Decimal[ConnectionId], data)
    BY <1>8, <1>10, SerializeHolds
  <2>. QED  BY <1>8, <1>9, <2>1 DEF Holds
<1>12. p.data = Cut(text, MESSAGE_PAYLOAD_MAX)
  <2>1. q.data = Cut(text, MESSAGE_PAYLOAD_MAX) /\ q.len = Len(q.data)
    BY <1>5, <1>6, <1>9 DEF MessagePacket, Packet
  <2>. QED  BY <1>4, <1>10, <1>11, <2>1, CutTwice
<1>13. msg \in Parse(Cut(Serialize(Message(w, ConnectionId, data)), MESSAGE_PAYLOAD_MAX))
  BY <1>8, <1>9, <1>12
<1>14. /\ msg.identifier = w /\ msg.id = ConnectionId
       /\ IF Len(Serialize(Message(w, ConnectionId, data))) <= MESSAGE_PAYLOAD_MAX
          THEN msg.data = data ELSE IsPrefix(msg.data, data)
  BY <1>8, <1>10, <1>13, ParseCut
<1>15. o[i].identifier = w /\ o[i].id = ConnectionId /\ o[i].data = data
  BY <1>8 DEF Message
<1>16. Fits(o[i]) <=> Len(Serialize(Message(w, ConnectionId, data))) <= MESSAGE_PAYLOAD_MAX
  BY <1>8 DEF Fits
<1>17. IF Fits(o[i]) THEN msg.data = o[i].data ELSE IsPrefix(msg.data, o[i].data)
  BY <1>14, <1>15, <1>16
<1>. DEFINE g == <<p.sender, msg>>
<1>18. g[1] = m /\ g[2] = msg
  BY <1>1
<1>. HIDE DEF g
<1>19. Dialed(n, g)
  BY <1>1, <1>5, <1>6, <1>7, <1>14, <1>15, <1>17, <1>18 DEF Dialed
<1>. QED  BY <1>19 DEF g

LEMMA SignalInit == Init => SignalInv
<1>. SUFFICES ASSUME Init PROVE SignalInv
  OBVIOUS
<1>1. got = [n \in Nodes |-> {}] /\ dial \in [Nodes -> {NoDial} \cup Dials]
  BY DEF Init
<1>2. GotInv
  BY <1>1 DEF GotInv
<1>3. ASSUME NEW n \in Nodes
      PROVE  /\ dial[n].sent <= Len(dial[n].out)
             /\ \/ dial[n].to = Zero /\ dial[n].out = <<>>
                \/ \E sdp \in Descriptions :
                     dial[n].out = SignalsOf("CONNECTREQUEST", ConnectionId, LocalSdp(sdp, TRUE))
  <2>1. CASE dial[n] = NoDial
    BY <2>1 DEF NoDial
  <2>2. CASE dial[n] \in Dials
    <3>1. PICK e \in Dials : e = dial[n]
      BY <2>2
    <3>2. PICK sdp \in Descriptions :
             /\ e.out = SignalsOf("CONNECTREQUEST", ConnectionId, LocalSdp(sdp, TRUE))
             /\ e.sent = 0
      BY DEF Dials
    <3>3. Len(e.out) \in Nat
      BY <3>2, DialsCarry DEF Carry
    <3>4. e.sent <= Len(e.out)
      <4>1. PICK k : k = Len(e.out)
        OBVIOUS
      <4>2. e.sent = 0 /\ k \in Nat
        BY <3>2, <3>3, <4>1
      <4>3. e.sent <= k
        BY ONLY <4>2
      <4>. QED  BY <4>1, <4>3
    <3>. QED  BY <3>1, <3>2, <3>4
  <2>. QED  BY <1>1, <2>1, <2>2
<1>. QED  BY <1>2, <1>3 DEF SignalInv, DialInv

LEMMA SignalQuiet == SignalInv /\ UNCHANGED <<dial, got>> => SignalInv'
<1>. SUFFICES ASSUME SignalInv, UNCHANGED <<dial, got>> PROVE SignalInv'
  OBVIOUS
<1>1. DialInv'
  BY DEF SignalInv, DialInv
<1>2. \A n, g : Dialed(n, g) => Dialed(n, g)'
  BY DEF Dialed
<1>3. GotInv'
  BY <1>2 DEF SignalInv, GotInv
<1>. QED  BY <1>1, <1>3 DEF SignalInv

LEMMA SendSignalInv ==
    ASSUME LanInv, SignalInv, NEW n \in Nodes, SendSignal(n)
    PROVE  SignalInv'
<1>1. /\ dial[n].sent < Len(dial[n].out) /\ dial' = [dial EXCEPT ![n].sent = @ + 1]
      /\ UNCHANGED got
  BY DEF SendSignal
<1>2. dial \in [Nodes -> [to : Ids \cup {Zero}, sent : Nat,
                          out : {d.out : d \in {NoDial} \cup Dials}]]
  BY DEF LanInv, LanType
<1>3. /\ \A m \in Nodes : dial'[m].to = dial[m].to /\ dial'[m].out = dial[m].out
      /\ \A m \in Nodes : dial'[m].sent = IF m = n THEN dial[n].sent + 1 ELSE dial[m].sent
      /\ \A m \in Nodes : dial[m].sent \in Nat
  BY <1>1, <1>2
<1>4. DialInv'
  <2>1. \A m \in Nodes : Len(dial[m].out) \in Nat
    <3>1. \A m \in Nodes : dial[m].out = <<>> \/ \E sdp \in Descriptions :
             dial[m].out = SignalsOf("CONNECTREQUEST", ConnectionId, LocalSdp(sdp, TRUE))
      BY DEF SignalInv, DialInv
    <3>. QED  BY <3>1, DialsCarry DEF Carry
  <2>2. ASSUME NEW m \in Nodes PROVE dial'[m].sent <= Len(dial'[m].out)
    <3>1. /\ dial'[m].out = dial[m].out /\ dial[m].sent \in Nat /\ Len(dial[m].out) \in Nat
          /\ dial'[m].sent = IF m = n THEN dial[n].sent + 1 ELSE dial[m].sent
      BY <1>3, <2>1
    <3>2. dial[m].sent <= Len(dial[m].out)
      BY DEF SignalInv, DialInv
    <3>3. CASE m = n
      BY <1>1, <3>1, <3>3
    <3>4. CASE m # n
      BY <3>1, <3>2, <3>4
    <3>. QED  BY <3>3, <3>4
  <2>. QED  BY <1>3, <2>2 DEF SignalInv, DialInv
<1>5. ASSUME NEW m \in Nodes, NEW g, Dialed(m, g) PROVE Dialed(m, g)'
  <2>1. PICK k \in Nodes : k = g[1]
    BY <1>5 DEF Dialed
  <2>2. PICK o : o = dial[k].out
    OBVIOUS
  <2>3. PICK i \in 1 .. dial[k].sent :
           /\ g[2].identifier = o[i].identifier /\ g[2].id = o[i].id
           /\ IF Fits(o[i]) THEN g[2].data = o[i].data ELSE IsPrefix(g[2].data, o[i].data)
    BY <1>5, <2>1, <2>2 DEF Dialed
  <2>4. i \in 1 .. dial'[k].sent /\ dial'[k].out = o /\ dial'[k].to = m
    <3>1. dial[k].to = m
      BY <1>5, <2>1 DEF Dialed
    <3>. QED  BY <1>3, <2>2, <2>3, <3>1
  <2>. QED  BY <2>1, <2>3, <2>4 DEF Dialed
<1>6. GotInv'
  BY <1>1, <1>5 DEF SignalInv, GotInv
<1>. QED  BY <1>4, <1>6 DEF SignalInv

LEMMA DeliverInv ==
    ASSUME LanInv, SignalInv, NEW n \in Nodes, NEW d \in network \cup Strays, Deliver(n, d)
    PROVE  SignalInv'
<1>1. PICK p \in Packets(d) :
         HandleRequest(n, d, p) \/ HandleResponse(n, d, p) \/ HandleMessage(n, d, p)
  BY DEF Deliver
<1>2. CASE HandleRequest(n, d, p) \/ HandleResponse(n, d, p)
  BY <1>2, SignalQuiet DEF HandleRequest, HandleResponse
<1>3. CASE HandleMessage(n, d, p)
  <2>1. /\ UNCHANGED dial /\ p.type = MESSAGE
        /\ got' = IF p.to # n \/ p.data = <<>> THEN got
                  ELSE [got EXCEPT ![n] = @ \cup {<<p.sender, msg>> : msg \in Parse(p.data)}]
    BY <1>3 DEF HandleMessage
  <2>2. CASE p.to # n \/ p.data = <<>>
    BY <2>1, <2>2, SignalQuiet
  <2>3. CASE p.to = n /\ p.data # <<>>
    <3>1. PICK G : G = {<<p.sender, msg>> : msg \in Parse(p.data)}
      OBVIOUS
    <3>2. got' = [got EXCEPT ![n] = @ \cup G]
      BY <2>1, <2>3, <3>1
    <3>3. ASSUME NEW g \in G PROVE Dialed(n, g)
      <4>1. PICK msg \in Parse(p.data) : g = <<p.sender, msg>>
        BY <3>1
      <4>2. d \in network
        BY <2>3, <4>1, StrayText
      <4>. QED  BY <2>1, <2>3, <4>1, <4>2, SignalArrives DEF SignalInv
    <3>4. got = [m \in Nodes |-> got[m]] /\ \A m \in Nodes : \A g \in got[m] : Dialed(m, g)
      BY DEF SignalInv, GotInv
    <3>5. got' = [m \in Nodes |-> got'[m]]
          /\ \A m \in Nodes : got'[m] = IF m = n THEN got[m] \cup G ELSE got[m]
      BY <3>2, <3>4
    <3>6. \A m \in Nodes : \A g \in got'[m] : Dialed(m, g)
      BY <3>3, <3>4, <3>5
    <3>7. \A m, g : Dialed(m, g) => Dialed(m, g)'
      BY <2>1 DEF Dialed
    <3>8. GotInv'
      BY <3>5, <3>6, <3>7 DEF GotInv
    <3>9. DialInv'
      BY <2>1 DEF SignalInv, DialInv
    <3>. QED  BY <3>8, <3>9 DEF SignalInv
  <2>. QED  BY <2>2, <2>3
<1>. QED  BY <1>1, <1>2, <1>3

LEMMA SignalStep == LanInv /\ SignalInv /\ [Next]_vars => SignalInv'
<1>. SUFFICES ASSUME LanInv, SignalInv, [Next]_vars PROVE SignalInv'
  OBVIOUS
<1>1. CASE UNCHANGED vars
  BY <1>1, SignalQuiet DEF vars
<1>2. ASSUME NEW n \in Nodes,
             \/ Start(n) \/ IterBegins(n) \/ StartBroadcasting(n) \/ BroadcastLoop(n)
             \/ CloseBegin(n) \/ CloseEnds(n) \/ SetAdvertisement(n) \/ RememberPeer(n)
             \/ IterGets(n) \/ IterNext(n) \/ IterExpires(n) \/ IterLeft(n)
      PROVE  SignalInv'
  <2>1. UNCHANGED <<dial, got>>
    BY <1>2 DEF Start, IterBegins, StartBroadcasting, BroadcastLoop, CloseBegin, CloseEnds,
                SetAdvertisement, RememberPeer, IterGets, IterNext, IterExpires, IterLeft
  <2>. QED  BY <2>1, SignalQuiet
<1>3. ASSUME NEW c \in Calls, NEW n \in Nodes, Discover(c, n) \/ DiscoverReturns(c)
      PROVE  SignalInv'
  BY <1>3, SignalQuiet DEF Discover, DiscoverReturns
<1>4. ASSUME NEW c \in Calls, DiscoverReturns(c) PROVE SignalInv'
  BY <1>4, SignalQuiet DEF DiscoverReturns
<1>5. ASSUME NEW d \in network, Lose(d) PROVE SignalInv'
  BY <1>5, SignalQuiet DEF Lose
<1>6. CASE Tick
  BY <1>6, SignalQuiet DEF Tick
<1>. QED  BY <1>1, <1>2, <1>3, <1>4, <1>5, <1>6, SendSignalInv, DeliverInv DEF Next

(* serialize, seal, broadcast, open and parse together: handle_signal acts    *)
(* only upon what a dialer sent to this very node, whole or, where the text   *)
(* exceeds the limit, with the beginning of its data, and when everything     *)
(* arrived the signals make up the relay-only description again, whatever the *)
(* descriptions, the limit, the other programs on the network and what gets   *)
(* lost, duplicated or reordered.                                             *)
THEOREM SignalsArriveFaithfully == Spec => []SignalsFaithful
<1>1. LanInv /\ SignalInv => SignalsFaithful
  <2>. SUFFICES ASSUME LanInv, SignalInv, NEW n \in Nodes
                PROVE  /\ \A g \in got[n] : \E i \in 1 .. dial[g[1]].sent :
                             LET msg == dial[g[1]].out[i] IN
                             /\ dial[g[1]].to = n
                             /\ g[2].identifier = msg.identifier /\ g[2].id = msg.id
                             /\ IF Fits(msg) THEN g[2].data = msg.data
                                ELSE IsPrefix(g[2].data, msg.data)
                       /\ \A m \in Callers :
                             LET arrived == {g[2].data : g \in {h \in got[n] : h[1] = m}}
                                 whole == \A msg \in ToSet(dial[m].out) :
                                              Fits(msg) /\ msg.data \in arrived
                             IN  (dial[m].to = n /\ whole) =>
                                   \E sdp \in Descriptions :
                                     /\ (UNION {ToSet(text) : text \in arrived}) \ {Blank} =
                                          ToSet(LocalSdp(sdp, TRUE)) \ {<<"end-of-candidates">>}
                                     /\ \A line \in ToSet(LocalSdp(sdp, TRUE)) :
                                          line[1] = "candidate" => line[3] = "relay"
    BY DEF SignalsFaithful
  <2>1. \A g \in got[n] : Dialed(n, g)
    BY DEF SignalInv, GotInv
  <2>2. \A g \in got[n] : \E i \in 1 .. dial[g[1]].sent :
             /\ dial[g[1]].to = n
             /\ g[2].identifier = dial[g[1]].out[i].identifier /\ g[2].id = dial[g[1]].out[i].id
             /\ IF Fits(dial[g[1]].out[i]) THEN g[2].data = dial[g[1]].out[i].data
                ELSE IsPrefix(g[2].data, dial[g[1]].out[i].data)
    BY <2>1 DEF Dialed
  <2>3. ASSUME NEW m \in Callers, NEW arrived,
               arrived = {g[2].data : g \in {h \in got[n] : h[1] = m}},
               \A msg \in ToSet(dial[m].out) : Fits(msg) /\ msg.data \in arrived,
               dial[m].to = n
        PROVE  \E sdp \in Descriptions :
                  /\ (UNION {ToSet(text) : text \in arrived}) \ {Blank} =
                       ToSet(LocalSdp(sdp, TRUE)) \ {<<"end-of-candidates">>}
                  /\ \A line \in ToSet(LocalSdp(sdp, TRUE)) :
                       line[1] = "candidate" => line[3] = "relay"
    <3>1. m \in Nodes /\ n # Zero
      BY LanAssumption
    <3>2. PICK o : o = dial[m].out
      OBVIOUS
    <3>3. PICK sdp \in Descriptions :
             o = SignalsOf("CONNECTREQUEST", ConnectionId, LocalSdp(sdp, TRUE))
      BY <2>3, <3>1, <3>2 DEF SignalInv, DialInv
    <3>4. PICK S : S = ToSet(LocalSdp(sdp, TRUE))
      OBVIOUS
    <3>5. /\ Carry(o, ConnectionId, S \ {<<"end-of-candidates">>}) /\ Blank \notin S
          /\ \A line \in S : line[1] = "candidate" => line[3] = "relay"
      BY <3>3, <3>4, DialsCarry
    <3>6. DOMAIN o = 1 .. Len(o) /\ Len(o) \in Nat
          /\ (UNION {ToSet(msg.data) : msg \in ToSet(o)}) \ {Blank} = S \ {<<"end-of-candidates">>}
      BY <3>5 DEF Carry
    <3>7. dial[m].sent \in Nat /\ dial[m].sent <= Len(o)
      BY <3>1, <3>2 DEF LanInv, LanType, SignalInv, DialInv
    <3>8. ASSUME NEW a \in arrived PROVE \E msg \in ToSet(o) : msg.data = a
      <4>1. PICK g \in got[n] : g[1] = m /\ g[2].data = a
        BY <2>3
      <4>2. PICK i \in 1 .. dial[m].sent :
               IF Fits(o[i]) THEN g[2].data = o[i].data ELSE IsPrefix(g[2].data, o[i].data)
        BY <2>2, <3>2, <4>1
      <4>3. o[i] \in ToSet(o)
        BY <3>6, <3>7 DEF ToSet
      <4>4. Fits(o[i])
        BY <2>3, <3>2, <4>3
      <4>. QED  BY <4>1, <4>2, <4>3, <4>4
    <3>9. arrived = {msg.data : msg \in ToSet(o)}
      BY <2>3, <3>2, <3>8
    <3>10. UNION {ToSet(text) : text \in arrived} = UNION {ToSet(msg.data) : msg \in ToSet(o)}
      BY <3>9
    <3>. QED  BY <3>4, <3>5, <3>6, <3>10
  <2>. QED  BY <2>2, <2>3
<1>2. Spec => []SignalInv
  BY LanInvariant, SignalInit, SignalStep, PTL DEF Spec
<1>. QED  BY <1>1, <1>2, LanInvariant, PTL
=============================================================================
