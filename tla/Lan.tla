-------------------------------- MODULE Lan --------------------------------
(***************************************************************************)
(* LanTransport (discovery/lan.py) with the discovery half of Transport    *)
(* (transport_api.py) and the discover() generator of api.py, for several  *)
(* peers on one UDP network that loses, duplicates and reorders.  What a   *)
(* datagram holds is made and read by the codecs of Wire.                  *)
(*                                                                         *)
(* A node is a network id.  It may close its transport and come back with  *)
(* a new one under another address.                                        *)
(***************************************************************************)
EXTENDS Wire, FiniteSets

CONSTANTS
    Nodes,                \* network ids of the peers
    Elsewhere,            \* network ids nobody on this network has
    Hosts,                \* those that advertise, broadcast and may be restarted
    Callers,              \* those that discover and dial
    MaxBinds,             \* bound: addresses bound, one after the other
    Calls,                \* coroutines of Transport.discover
    Descriptions,         \* local descriptions of aiortc, as sequences of lines
    ConnectionId,         \* the connection id a dialer draws
    Advertisement,        \* the text a host advertises
    BadTexts,             \* texts that are no signalling message
    AppId, ForeignAppId,  \* application ids, of this program and of another
    MaxFlight,            \* bound: datagrams in flight at a time
    MaxQueue,             \* bound: hosts queued for discover()
    Timeout,              \* of discover(), in ticks of the clock
    Zero, Broadcast, NoAddr

ASSUME LanAssumption ==
    /\ Nodes \cap Elsewhere = {} /\ Zero \notin Nodes \cup Elsewhere
    /\ Hosts \cup Callers \subseteq Nodes /\ AppId # ForeignAppId
    /\ Broadcast \notin Nat /\ NoAddr \notin Nat /\ Broadcast # NoAddr
    /\ {MaxBinds, MaxFlight, MaxQueue} \subseteq Nat /\ Timeout \in Nat \ {0} /\ ConnectionId \in 0 .. U64_MAX
    /\ Advertisement \in Seq(ToSet(Advertisement)) /\ "none" \notin Nodes
    /\ \A sdp \in Descriptions :
          /\ sdp \in Seq(ToSet(sdp)) /\ Blank \notin ToSet(sdp)
          /\ \A line \in ToSet(sdp) :
                line[1] = "end-of-candidates" => line = <<"end-of-candidates">>
    /\ \A text \in BadTexts :
          text \in Seq(ToSet(text)) /\ Parse(Cut(text, MESSAGE_PAYLOAD_MAX)) = {}

VARIABLES addr,       \* bound address, NoAddr while _transport is None
          peers,      \* _peers
          task,       \* _broadcast_task
          advert,     \* Transport._advertisement is set
          found,      \* Transport._discovered
          calls,      \* the coroutines of Transport.discover
          iter,       \* the discover() generator of a node, if it has one
          dial,       \* the session a node dials, if it has one
          network,    \* datagrams in flight
          homes,      \* who was bound to each address, 1, 2, ...
          got         \* history: the messages handle_signal acts upon

vars == <<addr, peers, task, advert, found, calls, iter, dial, network, homes, got>>

Ids == Nodes \cup Elsewhere
NoPeers == [id \in Ids |-> NoAddr]

(* The generator: where it is suspended, _Endpoint._discovered, seen and    *)
(* deadline - loop.time(), of which nothing below 0 is told apart.          *)
Iter(at) == [at |-> at, queue |-> <<>>, seen |-> {}, left |-> Timeout]

(* A dialed session: its peer, its signals and how many of them it sent.    *)
Dials ==
    [to : Ids, sent : {0},
     out : {SignalsOf("CONNECTREQUEST", ConnectionId, LocalSdp(sdp, TRUE)) :
                sdp \in Descriptions}]
NoDial == [to |-> Zero, sent |-> 0, out |-> <<>>]

(* A caller iterates over discover(), dials, or calls Transport.discover.   *)
Init ==
    /\ addr = [n \in Nodes |-> NoAddr]
    /\ peers = [n \in Nodes |-> NoPeers]
    /\ task = [n \in Nodes |-> "none"]
    /\ advert = [n \in Nodes |-> FALSE]
    /\ found = [n \in Nodes |-> {}]
    /\ calls = [c \in Calls |-> [at |-> "none", heard |-> {}, last |-> FALSE]]
    /\ \E I \in SUBSET Callers :
          /\ iter = [n \in Nodes |-> Iter(IF n \in I THEN "new" ELSE "off")]
          /\ dial \in [Nodes -> {NoDial} \cup Dials]
          /\ \A n \in Nodes : dial[n] # NoDial => n \in Callers \ I /\ dial[n].to # n
    /\ network = {}
    /\ homes = <<>>
    /\ got = [n \in Nodes |-> {}]

Finds(n) == n \in Callers /\ iter[n].at = "off" /\ dial[n] = NoDial

-----------------------------------------------------------------------------
(* Sending. *)

Datagram(app_id, packet, from, dest) ==
    [envelope |-> Seal(app_id, packet), from |-> from, dest |-> dest]

(* The network takes a datagram; another one may be lost. *)
Transmit(d) ==
    \E lost \in SUBSET (network \ {d}) :
        /\ Cardinality(lost) <= 1
        /\ network' = (network \ lost) \cup {d}
        /\ Cardinality(network') <= MaxFlight

(* _send_packet, with Envelope.seal: nothing is sent without a socket. *)
SendPacket(n, packet, dest) ==
    IF addr[n] = NoAddr THEN UNCHANGED network
    ELSE Transmit(Datagram(AppId, packet, addr[n], dest))

(* broadcast_request *)
Request(n, a) == Datagram(AppId, RequestPacket(n, Zero), a, Broadcast)

(* The address signals for id go to. *)
Target(n, id) == IF peers[n][id] = NoAddr THEN Broadcast ELSE peers[n][id]

(* send_signal, for the next message of the dialed session. *)
SendSignal(n) ==
    /\ addr[n] # NoAddr /\ dial[n].sent < Len(dial[n].out)
    /\ dial' = [dial EXCEPT ![n].sent = @ + 1]
    /\ SendPacket(n, MessagePacket(n, dial[n].to, Serialize(dial[n].out[dial[n].sent + 1])),
                  Target(n, dial[n].to))
    /\ UNCHANGED <<addr, peers, task, advert, found, calls, iter, homes, got>>

(* remember_peer, by connect(host): an address that another endpoint learned, *)
(* maybe long ago.                                                            *)
RememberPeer(n) ==
    /\ addr[n] # NoAddr
    /\ \E a \in 1 .. Len(homes) :
          homes[a] = dial[n].to /\ peers' = [peers EXCEPT ![n][homes[a]] = a]
    /\ UNCHANGED <<addr, task, advert, found, calls, iter, dial, network, homes, got>>

-----------------------------------------------------------------------------
(* Lifecycle. *)

(* A new transport binds an address that nobody had; nothing of the old one  *)
(* is in use any more.                                                       *)
NewAddr == Len(homes) + 1
Bind(n) ==
    /\ addr[n] = NoAddr /\ NewAddr <= MaxBinds
    /\ n \in Hosts \/ \A a \in 1 .. Len(homes) : homes[a] # n
    /\ \A c \in Calls : calls[c].at # n
    /\ addr' = [addr EXCEPT ![n] = NewAddr]
    /\ homes' = Append(homes, n)
    /\ peers' = [peers EXCEPT ![n] = NoPeers]
    /\ found' = [found EXCEPT ![n] = {}]

(* Transport.start. *)
Start(n) ==
    /\ iter[n].at = "off" /\ Bind(n)
    /\ UNCHANGED <<task, advert, calls, iter, dial, network, got>>

(* start_broadcasting, which Server.start calls after start. *)
StartBroadcasting(n) ==
    /\ n \in Hosts /\ addr[n] # NoAddr /\ iter[n].at = "off" /\ task[n] = "none"
    /\ task' = [task EXCEPT ![n] = "on"]
    /\ UNCHANGED <<addr, peers, advert, found, calls, iter, dial, network, homes, got>>

(* _broadcast_loop: one turn. *)
BroadcastLoop(n) ==
    /\ task[n] = "on"
    /\ SendPacket(n, RequestPacket(n, Zero), Broadcast)
    /\ UNCHANGED <<addr, peers, task, advert, found, calls, iter, dial, homes, got>>

CloseSocket(n) ==
    /\ addr' = [addr EXCEPT ![n] = NoAddr]
    /\ task' = [task EXCEPT ![n] = "none"]

(* close: cancels the broadcast task and awaits it, if there is one ... *)
CloseBegin(n) ==
    /\ addr[n] # NoAddr /\ iter[n].at = "off"
    /\ IF task[n] = "none" THEN CloseSocket(n)
       ELSE task' = [task EXCEPT ![n] = "cancelled"] /\ UNCHANGED addr
    /\ UNCHANGED <<peers, advert, found, calls, iter, dial, network, homes, got>>

(* ... and closes the socket. *)
CloseEnds(n) ==
    /\ task[n] = "cancelled" /\ CloseSocket(n)
    /\ UNCHANGED <<peers, advert, found, calls, iter, dial, network, homes, got>>

(* Sets or clears it; a Server is made with one, too. *)
SetAdvertisement(n) ==
    /\ n \in Hosts /\ addr[n] # NoAddr /\ iter[n].at = "off"
    /\ advert' = [advert EXCEPT ![n] = ~advert[n]]
    /\ UNCHANGED <<addr, peers, task, found, calls, iter, dial, network, homes, got>>

-----------------------------------------------------------------------------
(* _on_datagram. *)

(* What other programs send: the probe of a peer with SenderId 0, texts that *)
(* are no message, and a response with SenderId 0; a response sealed with the key of another            *)
(* application id, with a MAC that is not its own, cut short, or that claims *)
(* more payload than it has.                                                 *)
Stray(app_id, packet) == Datagram(app_id, packet, Broadcast, Broadcast)
Strays ==
    LET fake == Packet(RESPONSE, CHOOSE id \in Elsewhere : TRUE, Zero, <<>>)
    IN  {Stray(AppId, MessagePacket(Zero, n, text)) :
            n \in Nodes, text \in BadTexts \cup {<<>>}}
        \cup {Stray(AppId, [fake EXCEPT !.sender = Zero]), Stray(ForeignAppId, fake), Stray(AppId, [fake EXCEPT !.len = 1]),
              [Stray(AppId, fake) EXCEPT !.envelope.whole = FALSE],
              [Stray(AppId, fake) EXCEPT !.envelope.mac = Seal(AppId, <<>>).mac]}

(* Envelope.open and parse_discovery: the packet, or none. *)
Packets(d) == UNION {ParsePacket(plain) : plain \in Open(AppId, d.envelope)}

(* Seeded fault: the transport's own broadcasts are not ignored. *)
OwnNever(n, p) == FALSE

Own(n, p) == p.sender = n

(* Seeded fault: the first address seen of a peer is kept. *)
KnownAlready(n, p) == p.sender = Zero \/ peers[n][p.sender] # NoAddr

(* A zero SenderId is not a new peer. *)
NotAPeer(n, p) == p.sender = Zero

(* Up to the dispatch on the type of packet p: the sender's address is       *)
(* remembered.                                                               *)
OnDatagram(n, d, p) ==
    /\ addr[n] # NoAddr /\ d.dest \in {addr[n], Broadcast}
    /\ ~Own(n, p)
    /\ peers' = IF NotAPeer(n, p) THEN peers ELSE [peers EXCEPT ![n][p.sender] = d.from]

(* _handle_request: an advertising transport answers to the source address. *)
HandleRequest(n, d, p) ==
    /\ p.type = REQUEST /\ OnDatagram(n, d, p)
    /\ IF advert[n] THEN SendPacket(n, ResponsePacket(n, Zero, Advertisement), d.from)
       ELSE UNCHANGED network
    /\ UNCHANGED <<addr, task, advert, found, calls, iter, dial, homes, got>>

(* Transport._handle_host_discovered and _Endpoint._on_host_discovered. *)
HandleResponse(n, d, p) ==
    /\ p.type = RESPONSE /\ OnDatagram(n, d, p)
    /\ iter[n].at = "off" \/ Len(iter[n].queue) < MaxQueue
    /\ LET host == <<p.sender, p.data>>
       IN  /\ found' = [found EXCEPT ![n] = @ \cup {host}]
           /\ calls' = [c \in Calls |-> IF calls[c].at # n THEN calls[c]
                                        ELSE [calls[c] EXCEPT !.heard = @ \cup {host}]]
           /\ iter' = IF iter[n].at = "off" THEN iter
                      ELSE [iter EXCEPT ![n].queue = Append(@, host)]
    /\ UNCHANGED <<addr, task, advert, dial, network, homes, got>>

(* _handle_message, then handle_signal parses the text: messages for others, *)
(* empty ones and what does not parse are ignored.                           *)
HandleMessage(n, d, p) ==
    /\ p.type = MESSAGE /\ OnDatagram(n, d, p)
    /\ got' = IF p.to # n \/ p.data = <<>> THEN got
              ELSE [got EXCEPT ![n] = @ \cup {<<p.sender, msg>> : msg \in Parse(p.data)}]
    /\ UNCHANGED <<addr, task, advert, found, calls, iter, dial, network, homes>>

Deliver(n, d) ==
    \E p \in Packets(d) :
        HandleRequest(n, d, p) \/ HandleResponse(n, d, p) \/ HandleMessage(n, d, p)

(* A delivered datagram may arrive again until the network forgets it. *)
Lose(d) ==
    /\ network' = network \ {d}
    /\ UNCHANGED <<addr, peers, task, advert, found, calls, iter, dial, homes, got>>

-----------------------------------------------------------------------------
(* Transport.discover. *)

(* Seeded fault: the results of the last call are not cleared. *)
ClearedNever(n) == found

Cleared(n) == [found EXCEPT ![n] = {}]

(* Clears, broadcasts and sleeps.  last marks the call that cleared last.   *)
Discover(c, n) ==
    /\ Finds(n) /\ addr[n] # NoAddr /\ calls[c].at = "none"
    /\ found' = Cleared(n)
    /\ calls' = [e \in Calls |->
                    IF e = c THEN [at |-> n, heard |-> {}, last |-> TRUE]
                    ELSE [calls[e] EXCEPT !.last = @ /\ calls[e].at # n]]
    /\ SendPacket(n, RequestPacket(n, Zero), Broadcast)
    /\ UNCHANGED <<addr, peers, task, advert, iter, dial, homes, got>>

(* Returns found. *)
DiscoverReturns(c) ==
    /\ calls[c].at # "none"
    /\ calls' = [calls EXCEPT ![c] = [at |-> "none", heard |-> {}, last |-> FALSE]]
    /\ UNCHANGED <<addr, peers, task, advert, found, iter, dial, network, homes, got>>

-----------------------------------------------------------------------------
(* The discover() generator of api.py, which has an endpoint of its own. *)

(* The clock goes on, whatever the generators wait for. *)
Tick ==
    /\ \E n \in Nodes : iter[n].at \in {"get", "yield"} /\ iter[n].left > 0
    /\ iter' = [n \in Nodes |->
                   IF iter[n].at \in {"get", "yield"} /\ iter[n].left > 0
                   THEN [iter[n] EXCEPT !.left = @ - 1] ELSE iter[n]]
    /\ UNCHANGED <<addr, peers, task, advert, found, calls, dial, network, homes, got>>

IterBegins(n) ==
    /\ iter[n].at = "new" /\ Bind(n)
    /\ iter' = [iter EXCEPT ![n].at = "get"]
    /\ Transmit(Request(n, NewAddr))
    /\ UNCHANGED <<task, advert, calls, dial, got>>

(* The finally clause: the endpoint, which has no sessions, closes. *)
Finally(n, i, at) ==
    /\ iter' = [iter EXCEPT ![n] = [i EXCEPT !.at = at]]
    /\ CloseSocket(n)

(* Seeded fault: every round has the whole timeout. *)
LoopAfresh(n, i) ==
    /\ iter' = [iter EXCEPT ![n] = [i EXCEPT !.at = "get", !.left = Timeout]]
    /\ UNCHANGED <<addr, task>>

(* The head of the loop, with what remains of the timeout: wait_for(get()),  *)
(* or return.                                                                *)
Loop(n, i) ==
    \/ /\ i.left > 0
       /\ iter' = [iter EXCEPT ![n] = [i EXCEPT !.at = "get"]]
       /\ UNCHANGED <<addr, task>>
    \/ i.left <= 0 /\ Finally(n, i, "done")

(* get() returned the next host of the queue, maybe just before the timer: a *)
(* host that was seen is skipped, another is yielded to the consumer.        *)
IterGets(n) ==
    /\ iter[n].at = "get" /\ iter[n].queue # <<>>
    /\ LET id == Head(iter[n].queue)[1]
           i == [iter[n] EXCEPT !.queue = Tail(@), !.seen = @ \cup {id}]
       IN  \/ id \in iter[n].seen /\ Loop(n, i)
           \/ /\ id \notin iter[n].seen
              /\ iter' = [iter EXCEPT ![n] = [i EXCEPT !.at = "yield"]]
              /\ UNCHANGED <<addr, task>>
    /\ UNCHANGED <<peers, advert, found, calls, dial, network, homes, got>>

(* The consumer asks for the next host. *)
IterNext(n) ==
    /\ iter[n].at = "yield" /\ Loop(n, iter[n])
    /\ UNCHANGED <<peers, advert, found, calls, dial, network, homes, got>>

(* wait_for raises TimeoutError. *)
IterExpires(n) ==
    /\ iter[n].at = "get" /\ iter[n].left = 0 /\ Finally(n, iter[n], "done")
    /\ UNCHANGED <<peers, advert, found, calls, dial, network, homes, got>>

(* The consumer leaves its loop and closes the generator, or is cancelled    *)
(* while it waits.                                                           *)
IterLeft(n) ==
    /\ iter[n].at \in {"get", "yield"} /\ Finally(n, iter[n], "left")
    /\ UNCHANGED <<peers, advert, found, calls, dial, network, homes, got>>

-----------------------------------------------------------------------------
Next ==
    \/ \E n \in Nodes :
          \/ Start(n) \/ IterBegins(n)
          \/ StartBroadcasting(n) \/ BroadcastLoop(n)
          \/ CloseBegin(n) \/ CloseEnds(n) \/ SetAdvertisement(n)
          \/ SendSignal(n) \/ RememberPeer(n)
          \/ \E d \in network \cup Strays : Deliver(n, d)
          \/ \E c \in Calls : Discover(c, n)
          \/ IterGets(n) \/ IterNext(n) \/ IterExpires(n) \/ IterLeft(n)
    \/ Tick
    \/ \E d \in network : Lose(d)
    \/ \E c \in Calls : DiscoverReturns(c)

Spec == Init /\ [][Next]_vars

(* The clock goes on and a timer that is due fires; the broadcast task runs  *)
(* when its sleep is over, and a datagram that is sent again and again gets  *)
(* through once.  Nothing is assumed of those who consume discover().        *)
FairSpec ==
    /\ Spec
    /\ WF_vars(Tick \/ \E n \in Callers : IterExpires(n))
    /\ \A n \in Hosts : WF_vars(BroadcastLoop(n))
    /\ \A n \in Hosts : \A m \in Nodes \ {n} :
          SF_vars(Request(n, addr[n]) \in network /\ Deliver(m, Request(n, addr[n])))

-----------------------------------------------------------------------------
(* Properties. *)

(* _on_datagram: a cached address of a peer is one that this very peer was    *)
(* bound to, and a transport knows, and discovers, neither itself nor senders *)
(* of other applications or of damaged packets, although its own broadcasts   *)
(* come back to it; what it knows of a host is the beginning of that host's   *)
(* advertisement.  The zero id has no address, but a Response that bears it   *)
(* is reported like that of any host.                                         *)
KnowsOnlyPeers ==
    \A n \in Nodes :
        /\ \A id \in DOMAIN peers[n] : peers[n][id] # NoAddr =>
              id # n /\ peers[n][id] \in 1 .. Len(homes) /\ homes[peers[n][id]] = id
        /\ \A h \in found[n] :
              \/ h = <<Zero, <<>>>>
              \/ h[1] \in Hosts \ {n} /\ h[2] = Cut(Advertisement, RESPONSE_PAYLOAD_MAX)

(* serialize, seal, broadcast, open and parse together: handle_signal acts    *)
(* only upon messages that a dialer sent to this very node, of the same kind  *)
(* and connection id, with all of the data or, when the text exceeds          *)
(* MESSAGE_PAYLOAD_MAX, with its beginning; and when everything arrived, the  *)
(* description and the candidates make up the relay-only description again.   *)
Fits(msg) == Len(Serialize(msg)) <= MESSAGE_PAYLOAD_MAX
SignalsFaithful ==
    \A n \in Nodes :
        /\ \A g \in got[n] : \E i \in 1 .. dial[g[1]].sent :
              LET msg == dial[g[1]].out[i] IN
              /\ dial[g[1]].to = n
              /\ g[2].identifier = msg.identifier /\ g[2].id = msg.id
              /\ IF Fits(msg) THEN g[2].data = msg.data ELSE IsPrefix(g[2].data, msg.data)
        /\ \A m \in Callers :
              LET arrived == {g[2].data : g \in {h \in got[n] : h[1] = m}}
                  whole == \A msg \in ToSet(dial[m].out) : Fits(msg) /\ msg.data \in arrived
              IN  (dial[m].to = n /\ whole) =>
                    \E sdp \in Descriptions :
                        /\ (UNION {ToSet(text) : text \in arrived}) \ {Blank} =
                              ToSet(LocalSdp(sdp, TRUE)) \ {<<"end-of-candidates">>}
                        /\ \A line \in ToSet(LocalSdp(sdp, TRUE)) :
                              line[1] = "candidate" => line[3] = "relay"

(* Transport.discover, "collect host advertisements for timeout seconds":     *)
(* what a call will return answered while it was running; all that answered   *)
(* are in it, unless another call on the same transport cleared them.         *)
DiscoverIsFresh ==
    \A c \in Calls, n \in Nodes : calls[c].at = n =>
        /\ found[n] \subseteq calls[c].heard
        /\ calls[c].last => found[n] = calls[c].heard

(* discover(), "for up to timeout seconds": a generator does not wait for      *)
(* hosts for ever, neither when nobody answers nor when hosts that it has     *)
(* seen already answer again and again: it comes to its end at its deadline,  *)
(* not before, with its endpoint closed, or its consumer keeps it suspended,  *)
(* or leaves.                                                                 *)
Over(n) ==
    \/ iter[n].at \in {"off", "new", "yield"}
    \/ iter[n].at = "done" /\ iter[n].left = 0 /\ addr[n] = NoAddr
    \/ iter[n].at = "left" /\ addr[n] = NoAddr
DiscoverEnds == \A n \in Callers : <>[]Over(n)

(* _broadcast_loop and _peers: whoever listens long enough knows the current  *)
(* address of a host that broadcasts, also after the host was restarted under *)
(* another one; nobody is mistaken for good while the host goes on.           *)
BroadcastIsHeard ==
    \A n \in Hosts : \A m \in Nodes \ {n} :
        []<>((task[n] = "on" /\ addr[m] # NoAddr) => peers[m][n] = addr[n])
=============================================================================
