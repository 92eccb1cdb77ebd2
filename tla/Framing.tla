------------------------------- MODULE Framing -------------------------------
(***************************************************************************)
(* One direction of an open connection: the sender's PacketQueue.push      *)
(* (transport/framing.py), PeerConnection's two data channels              *)
(* (transport/peer_connection.py), and the receiver's reassembly and       *)
(* receive queue.  The byte at position i of the n-th packet is <<n, i>>,  *)
(* so that lost, torn, mixed up and reordered bytes can be told apart.     *)
(***************************************************************************)
EXTENDS Integers, Sequences

CONSTANTS FRAGMENT_SIZE,      \* 0x3FFFF in the code
          MAX_PACKET_SIZE,    \* 0x3FBFF01
          MAX_MESSAGE_SIZE,   \* 262144, what the munged SDP lets SCTP carry
          MAX_HEADER,         \* 255, the largest value of the header byte
          Sizes,              \* packet sizes the application sends
          ReadSizes,          \* max_size arguments of read
          MaxPackets          \* bound on the packets sent

ASSUME FramingAssumption ==
    /\ FRAGMENT_SIZE \in Nat \ {0} /\ MAX_PACKET_SIZE \in Nat /\ MAX_HEADER \in Nat
    /\ MAX_MESSAGE_SIZE = FRAGMENT_SIZE + 1
    /\ MAX_PACKET_SIZE <= FRAGMENT_SIZE * (MAX_HEADER + 1)
    /\ Sizes \subseteq Nat /\ ReadSizes \subseteq Nat /\ MaxPackets \in Nat

SendType == {"RELIABLE", "UNRELIABLE"}

VARIABLES on_packet,    \* the receiver's owner passed an on_packet callback
          count,        \* packets given to push so far
          open,         \* _reliable_open, _unreliable_open of the sender
          dead,         \* channels that SCTP has closed; the flags stay set
          parked,       \* _pending_reliable, _pending_unreliable of the sender
          wire,         \* fragments in flight on either channel
          reassembly,   \* _reassembly of the receiver
          received,     \* _received of the receiver
          sent,         \* history: reliable packets that push accepted
          loose,        \* history: unreliable packets that push accepted
          got,          \* history: packets the reliable channel produced
          came,         \* history: packets that entered the receive queue
          taken         \* history: bytes the application obtained

vars == <<on_packet, count, open, dead, parked, wire, reassembly, received, sent, loose, got,
          came, taken>>

receiver == <<on_packet, reassembly, received, got, came, taken>>

Byte == Nat \X Nat
Packet == Seq(Byte)

Data(n, size) == [i \in 1..size |-> <<n, i>>]

Init ==
    /\ on_packet \in BOOLEAN /\ count = 0
    /\ open = [c \in SendType |-> FALSE] /\ dead = {}
    /\ parked = [c \in SendType |-> <<>>]
    /\ wire = [c \in SendType |-> <<>>]
    /\ reassembly = <<>> /\ received = <<>>
    /\ sent = <<>> /\ loose = {} /\ got = <<>> /\ came = <<>> /\ taken = <<>>

-----------------------------------------------------------------------------
(* Sending. *)

(* Seeded fault: the size of a full fragment is off by one. *)
FitsOver(size) == size <= FRAGMENT_SIZE + 1

(* push sends a packet up to FRAGMENT_SIZE as one fragment. *)
Fits(size) == size < FRAGMENT_SIZE + 1

FragmentCount(size) == (size - 1) \div FRAGMENT_SIZE + 1

(* The header of the j-th of n fragments: how many follow. *)
Header(n, j) == n - j

Chunk(data, j) ==
    SubSeq(data, (j - 1) * FRAGMENT_SIZE + 1,
           IF j * FRAGMENT_SIZE <= Len(data) THEN j * FRAGMENT_SIZE ELSE Len(data))

(* The fragments that push hands to the channel. *)
Fragments(data) ==
    IF Fits(Len(data)) THEN <<[header |-> 0, payload |-> data]>>
    ELSE LET n == FragmentCount(Len(data))
         IN  [j \in 1..n |-> [header |-> Header(n, j), payload |-> Chunk(data, j)]]

(* push returns True. *)
Accepted(size, type) == Fits(size) \/ (size <= MAX_PACKET_SIZE /\ type = "RELIABLE")

(* _channel_send: fragments wait until their channel is open. *)
ChannelSend(type, frags) ==
    IF open[type]
    THEN wire' = [wire EXCEPT ![type] = @ \o frags] /\ UNCHANGED parked
    ELSE parked' = [parked EXCEPT ![type] = @ \o frags] /\ UNCHANGED wire

(* push; on a channel that SCTP has closed, the first channel.send raises. *)
Push(size, type) ==
    /\ count < MaxPackets
    /\ count' = count + 1
    /\ LET data == Data(count + 1, size)
       IN  IF Accepted(size, type) /\ type \notin dead
           THEN /\ ChannelSend(type, Fragments(data))
                /\ IF type = "RELIABLE" THEN sent' = Append(sent, data) /\ UNCHANGED loose
                                        ELSE loose' = loose \cup {data} /\ UNCHANGED sent
           ELSE UNCHANGED <<parked, wire, sent, loose>>
    /\ UNCHANGED <<open, dead, receiver>>

(* Seeded fault: what was parked is cleared and not sent. *)
FlushedNever(type) == wire[type]

Flushed(type) == wire[type] \o parked[type]

(* _handle_channel_open flushes what was parked. *)
ChannelOpens(type) ==
    /\ ~open[type]
    /\ open' = [open EXCEPT ![type] = TRUE]
    /\ wire' = [wire EXCEPT ![type] = Flushed(type)]
    /\ parked' = [parked EXCEPT ![type] = <<>>]
    /\ UNCHANGED <<count, dead, sent, loose, receiver>>

(* External: SCTP closes the channel, with messages in flight or not. *)
ChannelCloses(type) ==
    /\ open[type] /\ type \notin dead
    /\ dead' = dead \cup {type}
    /\ UNCHANGED <<count, open, parked, wire, sent, loose, receiver>>

-----------------------------------------------------------------------------
(* Receiving. *)

sender == <<count, open, dead, parked, sent, loose>>

Concat(packets) ==
    LET upto[n \in 0..Len(packets)] == IF n = 0 THEN <<>> ELSE upto[n - 1] \o packets[n]
    IN  upto[Len(packets)]

(* A complete packet enters the queue; _deliver hands the whole queue over  *)
(* when there is an on_packet.                                              *)
Deliver(packet) ==
    /\ came' = Append(came, packet)
    /\ IF on_packet
       THEN received' = <<>> /\ taken' = taken \o Concat(Append(received, packet))
       ELSE received' = Append(received, packet) /\ UNCHANGED taken

(* on_reliable_message *)
OnReliableMessage ==
    /\ wire["RELIABLE"] # <<>>
    /\ wire' = [wire EXCEPT !["RELIABLE"] = Tail(@)]
    /\ LET f == Head(wire["RELIABLE"])
           buffer == reassembly \o f.payload
       IN  IF f.header = 0
           THEN reassembly' = <<>> /\ got' = Append(got, buffer) /\ Deliver(buffer)
           ELSE reassembly' = buffer /\ UNCHANGED <<got, came, received, taken>>
    /\ UNCHANGED <<on_packet, sender>>

Without(s, j) == SubSeq(s, 1, j - 1) \o SubSeq(s, j + 1, Len(s))

(* Seeded fault: the unreliable channel goes through the reassembly buffer. *)
WholeMessageShared(f) == reassembly \o f.payload

WholeMessage(f) == f.payload

(* on_unreliable_message, for any message in flight: unordered. *)
OnUnreliableMessage(j) ==
    /\ wire' = [wire EXCEPT !["UNRELIABLE"] = Without(@, j)]
    /\ Deliver(WholeMessage(wire["UNRELIABLE"][j]))
    /\ UNCHANGED <<on_packet, sender, reassembly, got>>

(* External: the unreliable channel retransmits nothing. *)
Lose(j) ==
    /\ wire' = [wire EXCEPT !["UNRELIABLE"] = Without(@, j)]
    /\ UNCHANGED <<sender, receiver>>

(* Seeded fault: a short read drops the remainder of the head packet. *)
RestDropped(max) == Tail(received)

Rest(max) ==
    IF max >= Len(Head(received)) THEN Tail(received)
    ELSE [received EXCEPT ![1] = SubSeq(@, max + 1, Len(@))]

(* read(max_size): the head packet, or a prefix of it. *)
Read(max) ==
    /\ ~on_packet /\ received # <<>>
    /\ LET n == Len(Head(received))
       IN  taken' = taken \o SubSeq(Head(received), 1, IF max >= n THEN n ELSE max)
    /\ received' = Rest(max)
    /\ UNCHANGED <<on_packet, sender, wire, reassembly, got, came>>

Next ==
    \/ \E size \in Sizes, type \in SendType : Push(size, type)
    \/ \E type \in SendType : ChannelOpens(type) \/ ChannelCloses(type)
    \/ OnReliableMessage
    \/ \E j \in 1..Len(wire["UNRELIABLE"]) : OnUnreliableMessage(j) \/ Lose(j)
    \/ \E max \in ReadSizes : Read(max)

Spec == Init /\ [][Next]_vars

-----------------------------------------------------------------------------
(* Properties. *)

(* push: whatever size it accepts, every fragment fits into one SCTP message  *)
(* under the negotiated max-message-size, its header fits into one byte, and  *)
(* the unreliable channel never carries a part of a packet.                   *)
FragmentFits ==
    \A c \in SendType :
        \A f \in {wire[c][j] : j \in 1..Len(wire[c])}
                 \cup {parked[c][j] : j \in 1..Len(parked[c])} :
            /\ 1 + Len(f.payload) <= MAX_MESSAGE_SIZE
            /\ f.header \in 0..MAX_HEADER
            /\ c = "UNRELIABLE" => f.header = 0

(* SPEC.md 6.3, 6.4: push, the channel and on_reliable_message together are a *)
(* FIFO of whole packets, also when packets were pushed before the channel    *)
(* opened and unreliable messages arrive in the middle of a reassembly.       *)
Fifo == INSTANCE Pipe WITH Packets <- Packet
ReliableFifo == Fifo!Spec

(* on_unreliable_message: what enters the receive queue is exactly a packet   *)
(* some push accepted, never a piece or a mixture of packets, nor a part of   *)
(* one whose channel closed under the sender.                                 *)
WholePackets ==
    \A j \in 1..Len(came) :
        came[j] \in loose \/ \E m \in 1..Len(sent) : came[j] = sent[m]

(* read / _deliver: the application obtains every byte of the queued packets  *)
(* once and in order, however short its reads are.                            *)
NoByteLost == Concat(came) = taken \o Concat(received)
=============================================================================
