-------------------------- MODULE ConnectionProofs --------------------------
(***************************************************************************)
(* What an application can rely on, for any number of readers and packets, *)
(* any error codes and any size of the endpoint's packet buffer.           *)
(***************************************************************************)
EXTENDS Connection, SequenceTheorems, TLAPS

Futures == {"pending", "result", "exception", "cancelled"}
Pending == Nat \ {CLOSED}

TypeInv ==
    /\ path \in AllPaths
    /\ state \in {"NEGOTIATING", "CONNECTED", "CLOSED"}
    /\ registered \in BOOLEAN /\ closed \in BOOLEAN
    /\ parked \in Seq(Pending) /\ queue \in Seq(Nat) /\ got \in Seq(Pending)
    /\ connected \in Futures
    /\ handed \in BOOLEAN /\ raised \in BOOLEAN
    /\ arrived \in Nat /\ dropped \subseteq 1..arrived

HasSentinel == \E j \in 1..Len(queue) : queue[j] = CLOSED

(* The future is completed by the opening, and the Connection is then known  *)
(* to whoever closes the session; so a Connection that was opened has been   *)
(* told of the close.                                                        *)
FutureInv ==
    /\ handed => connected = "result"
    /\ connected = "result" => state # "NEGOTIATING"
    /\ (Lan /\ state = "CONNECTED") => registered
    /\ state = "CLOSED" => ~registered
    /\ (connected = "result" /\ state = "CLOSED") => closed /\ HasSentinel
    /\ FailedDialIsClosed

(* The sentinel comes with the close, and over LAN nothing gets behind it.   *)
SentinelInv ==
    /\ HasSentinel => state = "CLOSED"
    /\ raised => HasSentinel
    /\ Lan => /\ \A j \in 1..Len(queue) : queue[j] = CLOSED => j = Len(queue)
              /\ raised => Len(queue) = 1

(* Packets are parked only as long as the Connection is not there.           *)
OrderInv ==
    /\ PacketsInOrder
    /\ ~Lan \/ registered => parked = <<>>

ConnInv == TypeInv /\ FutureInv /\ SentinelInv /\ OrderInv

-----------------------------------------------------------------------------
(* Facts about queues. *)

(* recv() takes a packet from the head of the queue: the packets returned and  *)
(* queued remain the same sequence.                                            *)
LEMMA TakeHead ==
    ASSUME NEW g \in Seq(Nat), NEW q \in Seq(Nat), q # <<>>
    PROVE  Append(g, Head(q)) \o Tail(q) = g \o q
<1>. DEFINE l == Append(g, Head(q)) \o Tail(q)
            r == g \o q
<1>1. /\ Append(g, Head(q)) \in Seq(Nat) /\ Len(Append(g, Head(q))) = Len(g) + 1
      /\ Tail(q) \in Seq(Nat) /\ Len(Tail(q)) = Len(q) - 1
  OBVIOUS
<1>2. l \in Seq(Nat) /\ r \in Seq(Nat) /\ Len(l) = Len(r)
  BY <1>1
<1>3. \A i \in 1..Len(l) : l[i] = r[i]
  BY <1>1
<1>. QED  BY <1>2, <1>3, SeqEqual

(* _on_packet: the newest packet goes behind all others. *)
LEMMA NewestLast ==
    ASSUME NEW all \in Seq(Nat), NEW n \in Nat, NEW D \in SUBSET Nat, Ordered(all),
           {all[i] : i \in 1..Len(all)} = (1..n) \ D, n + 1 \notin D
    PROVE  LET more == Append(all, n + 1)
           IN  Ordered(more) /\ {more[i] : i \in 1..Len(more)} = (1..(n + 1)) \ D
<1>. DEFINE more == Append(all, n + 1)
<1>1. /\ more \in Seq(Nat) /\ Len(more) = Len(all) + 1 /\ more[Len(all) + 1] = n + 1
      /\ \A i \in 1..Len(all) : more[i] = all[i]
  OBVIOUS
<1>2. \A i \in 1..Len(all) : all[i] \in 1..n /\ all[i] \notin D
  <2>. SUFFICES ASSUME NEW i \in 1..Len(all) PROVE all[i] \in (1..n) \ D
    OBVIOUS
  <2>1. all[i] \in {all[k] : k \in 1..Len(all)}
    OBVIOUS
  <2>. QED  BY <2>1
<1>. HIDE DEF more
<1>3. Ordered(more)
  <2>. SUFFICES ASSUME NEW i \in 1..Len(more), NEW j \in 1..Len(more), i < j
                PROVE  more[i] < more[j]
    BY DEF Ordered
  <2>0. Len(more) = Len(all) + 1 /\ Len(all) \in Nat
    BY <1>1
  <2>1. i \in 1..Len(all) /\ more[i] = all[i] /\ more[i] \in 1..n
    <3>1. i \in 1..Len(all)
      BY <2>0
    <3>. QED  BY <1>1, <1>2, <3>1
  <2>2. CASE j = Len(all) + 1
    <3>1. more[j] = n + 1
      BY <1>1, <2>2
    <3>. QED  BY <2>1, <3>1
  <2>3. CASE j \in 1..Len(all)
    <3>1. more[j] = all[j] /\ all[i] < all[j]
      BY <1>1, <2>1, <2>3 DEF Ordered
    <3>. QED  BY <2>1, <3>1
  <2>4. j = Len(all) + 1 \/ j \in 1..Len(all)
    BY <2>0
  <2>. QED  BY <2>2, <2>3, <2>4
<1>4. ASSUME NEW x \in (1..(n + 1)) \ D  PROVE \E i \in 1..Len(more) : more[i] = x
  <2>1. CASE x = n + 1
    BY <1>1, <2>1
  <2>2. CASE x \in 1..n
    <3>1. PICK i \in 1..Len(all) : all[i] = x
      BY <2>2
    <3>. QED  BY <1>1, <3>1
  <2>. QED  BY <2>1, <2>2
<1>5. \A i \in 1..Len(more) : more[i] \in (1..(n + 1)) \ D
  <2>. SUFFICES ASSUME NEW i \in 1..Len(more) PROVE more[i] \in (1..(n + 1)) \ D
    OBVIOUS
  <2>1. CASE i = Len(all) + 1
    BY <1>1, <2>1
  <2>2. CASE i \in 1..Len(all)
    BY <1>1, <1>2, <2>2, SMTT(30)
  <2>. QED  BY <1>1, <2>1, <2>2
<1>6. {more[i] : i \in 1..Len(more)} = (1..(n + 1)) \ D
  BY <1>4, <1>5
<1>. QED  BY <1>3, <1>6 DEF more

-----------------------------------------------------------------------------
(* Steps. *)

(* _on_packet puts a packet behind all others, or the full buffer drops it.    *)
LEMMA ArrivesKeeps ==
    ASSUME ConnInv, PacketArrives PROVE ConnInv'
<1>. DEFINE n == arrived + 1
            all == got \o queue \o parked
<1>1. /\ n \in Pending /\ n \in Nat /\ n \notin dropped /\ all \in Seq(Nat)
      /\ arrived \in Nat /\ dropped \in SUBSET Nat
  BY DEF ConnInv, TypeInv, Pending, CLOSED
<1>2. /\ UNCHANGED <<path, state, registered, connected, closed, dial, handed, got, raised>>
      /\ arrived' = n
  BY DEF PacketArrives, application
<1>3. CASE ~Lan \/ registered
  <2>1. /\ parked = <<>> /\ parked' = <<>> /\ dropped' = dropped
        /\ queue' = Append(queue, n) /\ queue \in Seq(Nat) /\ got \in Seq(Nat)
    BY <1>3 DEF ConnInv, OrderInv, TypeInv, Pending, PacketArrives, OnPacket
  <2>2. /\ queue' \in Seq(Nat) /\ Len(queue') = Len(queue) + 1 /\ queue'[Len(queue) + 1] = n
        /\ \A i \in 1..Len(queue) : queue'[i] = queue[i]
    BY <1>1, <2>1
  <2>3. TypeInv'
    BY <1>1, <1>2, <2>1, <2>2 DEF ConnInv, TypeInv, Pending
  <2>4. HasSentinel' <=> HasSentinel
    BY <1>1, <2>1, <2>2 DEF HasSentinel, Pending
  <2>5. FutureInv'
    BY <1>2, <2>4 DEF ConnInv, FutureInv, Lan, FailedDialIsClosed
  <2>6. Lan => state # "CLOSED" /\ ~HasSentinel /\ ~raised
    BY <1>3 DEF ConnInv, FutureInv, SentinelInv
  <2>7. SentinelInv'
    <3>1. Lan => ~HasSentinel'
      BY <2>4, <2>6
    <3>. QED  BY <1>2, <2>4, <2>6, <3>1 DEF ConnInv, SentinelInv, HasSentinel, Lan
  <2>8. (got \o queue \o parked)' = Append(all, n)
    <3>1. got \o queue \o parked = got \o queue
      BY <2>1
    <3>2. (got \o queue \o parked)' = got \o Append(queue, n)
      BY <1>2, <2>1, <2>2
    <3>3. got \o Append(queue, n) = Append(got \o queue, n)
      BY <1>1, <2>1
    <3>. QED  BY <3>1, <3>2, <3>3
  <2>9. OrderInv'
    <3>1. Len(parked') <= MAX_PENDING_PACKETS
      BY <2>1, ConnectionAssumption
    <3>2. ASSUME state' # "CLOSED"
          PROVE  /\ Ordered(Append(all, n))
                 /\ {Append(all, n)[i] : i \in 1..Len(Append(all, n))} = (1..n) \ dropped
      <4>1. Ordered(all) /\ {all[i] : i \in 1..Len(all)} = (1..arrived) \ dropped
        BY <1>2, <3>2 DEF ConnInv, OrderInv, PacketsInOrder
      <4>. HIDE DEF all
      <4>. QED  BY <1>1, <4>1, NewestLast
    <3>. HIDE DEF all
    <3>. QED  BY <1>2, <2>1, <2>8, <3>1, <3>2 DEF OrderInv, PacketsInOrder, Lan
  <2>. QED  BY <2>3, <2>5, <2>7, <2>9 DEF ConnInv
<1>4. CASE Lan /\ ~registered
  <2>1. /\ queue' = queue /\ parked \in Seq(Pending) /\ queue \in Seq(Nat) /\ got \in Seq(Nat)
        /\ Len(parked) <= MAX_PENDING_PACKETS
    BY <1>4 DEF ConnInv, TypeInv, Pending, OrderInv, PacketsInOrder, PacketArrives, OnPacket
  <2>2. \/ /\ Len(parked) < MAX_PENDING_PACKETS
           /\ parked' = Append(parked, n) /\ dropped' = dropped
        \/ parked' = parked /\ dropped' = dropped \cup {n}
    BY <1>4 DEF PacketArrives, OnPacket, Parked
  <2>3. TypeInv'
    <3>0. n \in Pending /\ dropped \subseteq 1..arrived
      BY <1>1 DEF ConnInv, TypeInv
    <3>1. Append(parked, n) \in Seq(Pending)
      <4>. HIDE DEF n
      <4>. QED  BY <2>1, <3>0
    <3>2. dropped' \subseteq dropped \cup {n} /\ dropped \cup {n} \subseteq 1..arrived'
      BY <1>1, <1>2, <2>2, <3>0
    <3>. QED  BY <1>1, <1>2, <2>1, <2>2, <3>1, <3>2 DEF ConnInv, TypeInv
  <2>4. FutureInv' /\ SentinelInv'
    BY <1>2, <2>1 DEF ConnInv, FutureInv, SentinelInv, HasSentinel, Lan, FailedDialIsClosed
  <2>5. Len(parked') <= MAX_PENDING_PACKETS
    BY <2>1, <2>2, ConnectionAssumption
  <2>6. ASSUME state' # "CLOSED"
        PROVE  LET more == (got \o queue \o parked)'
               IN  Ordered(more) /\ {more[i] : i \in 1..Len(more)} = (1..n) \ dropped'
    <3>1. Ordered(all) /\ {all[i] : i \in 1..Len(all)} = (1..arrived) \ dropped
      BY <1>2, <2>6 DEF ConnInv, OrderInv, PacketsInOrder
    <3>2. CASE parked' = Append(parked, n) /\ dropped' = dropped
      <4>1. parked \in Seq(Nat)
        BY <2>1 DEF Pending
      <4>2. (got \o queue \o parked)' = Append(all, n)
        BY <1>1, <1>2, <2>1, <3>2, <4>1
      <4>. HIDE DEF all
      <4>3. /\ Ordered(Append(all, n))
            /\ {Append(all, n)[i] : i \in 1..Len(Append(all, n))} = (1..n) \ dropped
        BY <1>1, <3>1, NewestLast
      <4>. QED  BY <3>2, <4>2, <4>3
    <3>3. CASE parked' = parked /\ dropped' = dropped \cup {n}
      <4>1. (got \o queue \o parked)' = all
        BY <1>2, <2>1, <3>3
      <4>2. (1..n) \ (dropped \cup {n}) = (1..arrived) \ dropped
        BY <1>1 DEF ConnInv, TypeInv
      <4>. HIDE DEF all
      <4>. QED  BY <3>1, <3>3, <4>1, <4>2
    <3>. QED  BY <2>2, <3>2, <3>3
  <2>7. OrderInv'
    BY <1>2, <1>4, <2>5, <2>6 DEF OrderInv, PacketsInOrder, Lan
  <2>. QED  BY <2>3, <2>4, <2>7 DEF ConnInv
<1>. QED  BY <1>3, <1>4

(* _on_session_open: _register appends what was parked to the queue.           *)
LEMMA OpensKeeps ==
    ASSUME ConnInv, SessionOpens PROVE ConnInv'
<1>1. /\ UNCHANGED <<path, closed, dial, handed, got, raised, arrived, dropped>>
      /\ state = "NEGOTIATING" /\ state' = "CONNECTED" /\ connected' \in Futures
      /\ ~HasSentinel /\ ~raised /\ ~handed
  BY DEF SessionOpens, application, packets, MarkConnected, ConnInv, TypeInv, Futures,
         SentinelInv, FutureInv
<1>2. /\ got \in Seq(Nat) /\ queue \in Seq(Nat) /\ parked \in Seq(Nat)
      /\ parked \in Seq(Pending) /\ registered \in BOOLEAN
  BY DEF ConnInv, TypeInv, Pending
<1>3. /\ queue' = queue \o parked /\ parked' = <<>>
      /\ registered' \in BOOLEAN /\ (registered' <=> Lan \/ registered)
  <2>1. CASE Lan /\ ~registered
    BY <2>1 DEF SessionOpens
  <2>2. CASE ~Lan \/ registered
    <3>1. parked = <<>> /\ UNCHANGED <<registered, queue, parked>>
      BY <2>2 DEF SessionOpens, ConnInv, OrderInv
    <3>. QED  BY <1>2, <2>2, <3>1
  <2>. QED  BY <2>1, <2>2
<1>4. queue' \in Seq(Nat) /\ ~HasSentinel'
  <2>1. \A j \in 1..Len(parked) : parked[j] # CLOSED
    BY <1>2 DEF Pending
  <2>2. \A j \in 1..Len(queue) : queue[j] # CLOSED
    BY <1>1 DEF HasSentinel
  <2>3. /\ queue' \in Seq(Nat) /\ Len(queue') = Len(queue) + Len(parked)
        /\ \A j \in 1..Len(queue') :
              queue'[j] = IF j <= Len(queue) THEN queue[j] ELSE parked[j - Len(queue)]
    BY <1>2, <1>3
  <2>4. \A j \in 1..Len(queue') : queue'[j] # CLOSED
    <3>. SUFFICES ASSUME NEW j \in 1..Len(queue') PROVE queue'[j] # CLOSED
      OBVIOUS
    <3>1. Len(queue) \in Nat /\ Len(parked) \in Nat /\ j \in 1..(Len(queue) + Len(parked))
      BY <1>2, <2>3
    <3>2. CASE j <= Len(queue)
      BY <2>2, <2>3, <3>1, <3>2
    <3>3. CASE ~(j <= Len(queue))
      <4>1. j - Len(queue) \in 1..Len(parked)
        BY <3>1, <3>3
      <4>. QED  BY <2>1, <2>3, <3>3, <4>1
    <3>. QED  BY <3>2, <3>3
  <2>. QED  BY <2>3, <2>4 DEF HasSentinel
<1>5. TypeInv'
  BY <1>1, <1>2, <1>3, <1>4 DEF ConnInv, TypeInv, Lan
<1>6. FutureInv'
  BY <1>1, <1>2, <1>3 DEF ConnInv, FutureInv, FailedDialIsClosed, Lan
<1>7. SentinelInv'
  BY <1>1, <1>4 DEF SentinelInv, HasSentinel
<1>8. (got \o queue \o parked)' = got \o queue \o parked
  <2>1. got \o (queue \o parked) = got \o queue \o parked
    <3>. got \in Seq(Nat) /\ queue \in Seq(Nat) /\ parked \in Seq(Nat)
      BY <1>2
    <3>. QED  BY ConcatAssociative, SMTT(30)
  <2>2. got \o (queue \o parked) \in Seq(Nat)
    BY <1>2
  <2>3. (got \o (queue \o parked)) \o <<>> = got \o (queue \o parked)
    BY <2>2, ConcatEmptySeq
  <2>. QED  BY <1>1, <1>3, <2>1, <2>3
<1>9. OrderInv'
  <2>1. Len(parked') <= MAX_PENDING_PACKETS
    BY <1>3, ConnectionAssumption
  <2>. QED  BY <1>1, <1>3, <1>8, <2>1 DEF ConnInv, OrderInv, PacketsInOrder
<1>. QED  BY <1>5, <1>6, <1>7, <1>9 DEF ConnInv

(* Session.close: with _mark_closed if the Connection is known, at most         *)
(* connect() ends with it.                                                      *)
LEMMA CloseKeeps ==
    ASSUME ConnInv, NEW err, state # "CLOSED", CloseSession(err),
           UNCHANGED <<path, parked, handed, got, raised, arrived, dropped>>
    PROVE  ConnInv'
<1>1. /\ state' = "CLOSED" /\ registered' = FALSE /\ ~HasSentinel /\ ~raised
      /\ queue \in Seq(Nat)
  BY DEF CloseSession, ConnInv, TypeInv, SentinelInv
<1>2. \/ UNCHANGED <<connected, queue, closed>> /\ (connected = "result" => Lan /\ ~registered)
      \/ connected' = Failed /\ queue' = Append(queue, CLOSED) /\ closed' = TRUE
  BY DEF CloseSession, MarkClosed, Ended
<1>3. queue' \in Seq(Nat) /\ connected' \in Futures /\ closed' \in BOOLEAN
  <2>1. queue' \in Seq(Nat)
    BY <1>1, <1>2 DEF CLOSED
  <2>2. connected' \in Futures /\ closed' \in BOOLEAN
    BY <1>2 DEF ConnInv, TypeInv, Failed, Futures
  <2>. QED  BY <2>1, <2>2
<1>4. TypeInv'
  BY <1>1, <1>3 DEF ConnInv, TypeInv
<1>5. connected' = "result" <=> connected = "result"
  BY <1>2 DEF Failed
<1>6. queue' = Append(queue, CLOSED) => HasSentinel'
  BY <1>1 DEF HasSentinel, CLOSED
<1>7. FutureInv'
  <2>1. connected = "result" => state = "CONNECTED"
    BY DEF ConnInv, TypeInv, FutureInv
  <2>2. connected = "result" => closed' /\ HasSentinel'
    BY <1>2, <1>6, <2>1 DEF ConnInv, FutureInv
  <2>. QED  BY <1>1, <1>5, <2>2 DEF ConnInv, FutureInv, FailedDialIsClosed
<1>8. SentinelInv'
  <2>1. \A j \in 1..Len(queue') : queue'[j] = CLOSED => j = Len(queue')
    BY <1>1, <1>2 DEF HasSentinel, CLOSED
  <2>. QED  BY <1>1, <2>1 DEF SentinelInv
<1>9. OrderInv'
  BY <1>1 DEF ConnInv, OrderInv, PacketsInOrder, Lan
<1>. QED  BY <1>4, <1>7, <1>8, <1>9 DEF ConnInv

(* recv() returns a packet. *)
LEMMA ReturnsKeeps ==
    ASSUME ConnInv, NEW r \in Readers, RecvReturns(r) PROVE ConnInv'
<1>1. /\ UNCHANGED <<path, state, registered, parked, connected, closed, dial, handed,
                      raised, arrived, dropped>>
      /\ got' = Append(got, Head(queue)) /\ queue' = Tail(queue)
      /\ queue \in Seq(Nat) /\ queue # <<>> /\ Head(queue) # CLOSED
      /\ got \in Seq(Pending) /\ got \in Seq(Nat) /\ parked \in Seq(Nat)
  BY DEF RecvReturns, packets, ConnInv, TypeInv, Pending
<1>2. /\ queue' \in Seq(Nat) /\ Len(queue') = Len(queue) - 1 /\ Len(queue) \in Nat \ {0}
      /\ \A i \in 1..Len(queue') : queue'[i] = queue[i + 1]
      /\ Head(queue) = queue[1] /\ Head(queue) \in Pending
  BY <1>1 DEF Pending
<1>3. got' \in Seq(Pending)
  BY <1>1, <1>2
<1>4. HasSentinel' <=> HasSentinel
  <2>1. ASSUME HasSentinel PROVE HasSentinel'
    <3>1. PICK j \in 1..Len(queue) : queue[j] = CLOSED
      BY <2>1 DEF HasSentinel
    <3>2. j - 1 \in 1..Len(queue') /\ queue'[j - 1] = CLOSED
      BY <1>1, <1>2, <3>1
    <3>. QED  BY <3>2 DEF HasSentinel
  <2>2. ASSUME HasSentinel' PROVE HasSentinel
    <3>1. PICK j \in 1..Len(queue') : queue'[j] = CLOSED
      BY <2>2 DEF HasSentinel
    <3>2. j + 1 \in 1..Len(queue) /\ queue[j + 1] = CLOSED
      BY <1>2, <3>1
    <3>. QED  BY <3>2 DEF HasSentinel
  <2>. QED  BY <2>1, <2>2
<1>5. TypeInv'
  BY <1>1, <1>2, <1>3 DEF ConnInv, TypeInv
<1>6. FutureInv'
  BY <1>1, <1>4 DEF ConnInv, FutureInv, Lan, FailedDialIsClosed
<1>7. SentinelInv'
  <2>1. Lan => ~raised
    BY <1>1, <1>2 DEF ConnInv, SentinelInv, HasSentinel
  <2>2. ASSUME Lan, NEW j \in 1..Len(queue'), queue'[j] = CLOSED PROVE j = Len(queue')
    <3>1. j + 1 \in 1..Len(queue) /\ queue[j + 1] = CLOSED
      BY <1>2, <2>2
    <3>2. j + 1 = Len(queue)
      BY <2>2, <3>1 DEF ConnInv, SentinelInv
    <3>. QED  BY <1>2, <3>2
  <2>. QED  BY <1>1, <1>4, <2>1, <2>2 DEF ConnInv, SentinelInv, Lan
<1>8. (got \o queue \o parked)' = got \o queue \o parked
  BY <1>1, TakeHead
<1>9. OrderInv'
  BY <1>1, <1>8 DEF ConnInv, OrderInv, PacketsInOrder, Lan
<1>. QED  BY <1>5, <1>6, <1>7, <1>9 DEF ConnInv

(* recv() raises and puts the sentinel back. *)
LEMMA RaisesKeeps ==
    ASSUME ConnInv, NEW r \in Readers, RecvRaises(r) PROVE ConnInv'
<1>1. /\ UNCHANGED <<path, state, registered, parked, connected, closed, dial, handed,
                      got, arrived, dropped>>
      /\ raised' = TRUE /\ queue' = Append(Tail(queue), CLOSED)
      /\ queue \in Seq(Nat) /\ queue # <<>> /\ queue[1] = CLOSED
  BY DEF RecvRaises, PutBack, packets, ConnInv, TypeInv
<1>2. /\ queue' \in Seq(Nat) /\ Len(queue') = Len(queue) /\ Len(queue) \in Nat \ {0}
      /\ queue'[Len(queue)] = CLOSED
  BY <1>1 DEF CLOSED
<1>3. HasSentinel /\ HasSentinel' /\ state = "CLOSED"
  <2>1. 1 \in 1..Len(queue) /\ Len(queue) \in 1..Len(queue')
    BY <1>2
  <2>2. HasSentinel /\ HasSentinel'
    BY <1>1, <1>2, <2>1 DEF HasSentinel
  <2>. QED  BY <2>2 DEF ConnInv, SentinelInv
<1>4. TypeInv'
  BY <1>1, <1>2 DEF ConnInv, TypeInv
<1>5. FutureInv'
  BY <1>1, <1>3 DEF ConnInv, FutureInv, Lan, FailedDialIsClosed
<1>6. SentinelInv'
  <2>1. Lan => Len(queue) = 1
    <3>1. 1 \in 1..Len(queue)
      BY <1>2
    <3>. QED  BY <1>1, <3>1 DEF ConnInv, SentinelInv
  <2>2. Lan => \A j \in 1..Len(queue') : j = Len(queue')
    BY <1>2, <2>1
  <2>. QED  BY <1>1, <1>2, <1>3, <2>1, <2>2 DEF SentinelInv, Lan
<1>7. OrderInv'
  BY <1>1, <1>3 DEF ConnInv, OrderInv, PacketsInOrder, Lan
<1>. QED  BY <1>4, <1>5, <1>6, <1>7 DEF ConnInv

(* The steps that touch no queue: the teardown, connect() and the handler.     *)
LEMMA OthersKeep ==
    ASSUME ConnInv,
           \/ TransportDown \/ DialReturns \/ DialExpires \/ Accept
           \/ \E r \in Readers : RecvCalled(r)
           \/ UNCHANGED vars
    PROVE  ConnInv'
<1>1. UNCHANGED <<path, state, registered, parked, queue, closed, got, raised, arrived, dropped>>
  BY DEF TransportDown, DialReturns, DialExpires, Accept, RecvCalled, application, packets,
         vars
<1>2. /\ \/ connected' = connected
         \/ connected = "pending" /\ connected' = "cancelled"
      /\ \/ handed' = handed
         \/ handed' = TRUE /\ connected' = "result"
      /\ dial' = dial \/ dial' # "raised"
  BY DEF TransportDown, DialReturns, DialExpires, Accept, RecvCalled, application, vars
<1>3. TypeInv'
  BY <1>1, <1>2 DEF ConnInv, TypeInv, Futures
<1>4. FutureInv'
  BY <1>1, <1>2 DEF ConnInv, FutureInv, HasSentinel, Lan, FailedDialIsClosed
<1>5. SentinelInv' /\ OrderInv'
  BY <1>1 DEF ConnInv, SentinelInv, HasSentinel, OrderInv, PacketsInOrder, Lan
<1>. QED  BY <1>3, <1>4, <1>5 DEF ConnInv

-----------------------------------------------------------------------------
(* A Connection begins with empty queues. *)
LEMMA ConnInvInit == Init => ConnInv
<1>. SUFFICES ASSUME Init PROVE ConnInv
  OBVIOUS
<1>1. TypeInv
  <2>1. registered \in BOOLEAN /\ path \in AllPaths
    BY ConnectionAssumption DEF Init
  <2>2. parked \in Seq(Pending) /\ queue \in Seq(Nat) /\ got \in Seq(Pending)
    BY DEF Init
  <2>3. dropped \subseteq 1..arrived /\ arrived \in Nat
    BY DEF Init
  <2>. QED  BY <2>1, <2>2, <2>3 DEF Init, TypeInv, Futures
<1>2. FutureInv /\ SentinelInv
  BY DEF Init, FutureInv, SentinelInv, HasSentinel, FailedDialIsClosed
<1>3. OrderInv
  BY ConnectionAssumption DEF Init, OrderInv, PacketsInOrder, Ordered
<1>. QED  BY <1>1, <1>2, <1>3 DEF ConnInv

(* Every step of the session, of connect() and of the application keeps it.    *)
LEMMA ConnInvNext == ConnInv /\ [Next]_vars => ConnInv'
<1>. SUFFICES ASSUME ConnInv, [Next]_vars PROVE ConnInv'
  OBVIOUS
<1>1. CASE \E err \in Known \cup Unknown : SessionCloses(err)
  BY <1>1, CloseKeeps DEF SessionCloses, application, packets
<1>2. CASE AppClose
  BY <1>2, CloseKeeps DEF AppClose, application, packets
<1>3. CASE DialRaises
  <2>1. CASE state = "CLOSED"
    <3>1. UNCHANGED <<path, state, registered, parked, queue, connected, closed, handed, got,
                      raised, arrived, dropped>>
      BY <1>3, <2>1 DEF DialRaises, Cleanup, application, packets
    <3>. QED  BY <2>1, <3>1 DEF ConnInv, TypeInv, FutureInv, SentinelInv, HasSentinel,
                 OrderInv, PacketsInOrder, Lan, FailedDialIsClosed
  <2>2. CASE state # "CLOSED"
    BY <1>3, <2>2, CloseKeeps DEF DialRaises, Cleanup, application, packets
  <2>. QED  BY <2>1, <2>2
<1>. QED  BY <1>1, <1>2, <1>3, ArrivesKeeps, OpensKeeps, ReturnsKeeps, RaisesKeeps, OthersKeep
          DEF Next, Recv

(* The invariant always holds. *)
LEMMA ConnInvAlways == Spec => []ConnInv
  BY ConnInvInit, ConnInvNext, PTL DEF Spec

(* _on_packet, _register and recv(): no packet is lost, repeated or reordered   *)
(* up to the close, for any number of readers, but those that met a full buffer.*)
THEOREM RecvIsFifo == Spec => []PacketsInOrder
<1>1. ConnInv => PacketsInOrder
  BY DEF ConnInv, OrderInv
<1>. QED  BY <1>1, ConnInvAlways, PTL

(* _mark_closed: whoever holds the Connection of a closed session finds the     *)
(* event set and the sentinel in the queue, however many readers took it out    *)
(* and put it back.                                                             *)
THEOREM CloseIsSeen == Spec => []ClosedIsSeen
<1>1. ConnInv => ClosedIsSeen
  BY DEF ConnInv, FutureInv, HasSentinel, ClosedIsSeen
<1>. QED  BY <1>1, ConnInvAlways, PTL

(* connect() and connect_http(): a dial that raised left no session behind,     *)
(* whatever raced with its timeout.                                             *)
THEOREM FailedDialCloses == Spec => []FailedDialIsClosed
<1>1. ConnInv => FailedDialIsClosed
  BY DEF ConnInv, FutureInv
<1>. QED  BY <1>1, ConnInvAlways, PTL

(* recv(), "sticky": over LAN, once a recv() has raised no other returns a      *)
(* packet.                                                                      *)
THEOREM RecvIsSticky == Spec => StickyOverLan
<1>1. ASSUME ConnInv, [Next]_vars, Lan, raised PROVE got' = got
  <2>1. ASSUME NEW r \in Readers, RecvReturns(r) PROVE FALSE
    BY <1>1, <2>1 DEF ConnInv, TypeInv, SentinelInv, HasSentinel, RecvReturns
  <2>. QED
    BY <1>1, <2>1 DEF Next, vars, PacketArrives, SessionOpens, TransportDown, SessionCloses,
       DialReturns, DialExpires, DialRaises, Accept, AppClose, RecvCalled, Recv, RecvRaises,
       application
<1>2. ConnInv /\ [Next]_vars => [(Lan /\ raised) => got' = got]_vars
  BY <1>1
<1>. QED  BY <1>2, ConnInvAlways, PTL DEF Spec, StickyOverLan
=============================================================================
