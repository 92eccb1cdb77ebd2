---------------------------- MODULE FramingProofs ----------------------------
(***************************************************************************)
(* The framing of packets, for every fragment size, every packet size that *)
(* push accepts, any number of packets and any read sizes.                 *)
(***************************************************************************)
EXTENDS Framing, SequenceTheorems, WellFoundedInduction, TLAPS

-----------------------------------------------------------------------------
(* Arithmetic of fragments. *)

(* len(data) // FRAGMENT_SIZE, rounded up, is the number of fragments that     *)
(* push makes: all but the last are full, and their headers fit.               *)
LEMMA FragmentCountIs ==
    ASSUME NEW size \in Nat, ~Fits(size)
    PROVE  LET n == FragmentCount(size)
           IN  /\ n \in Nat /\ n >= 1
               /\ \A j \in 1..n : (j - 1) * FRAGMENT_SIZE \in Nat /\ j * FRAGMENT_SIZE \in Nat
               /\ \A j \in 1..n : j * FRAGMENT_SIZE = (j - 1) * FRAGMENT_SIZE + FRAGMENT_SIZE
               /\ \A j \in 1..(n - 1) : j * FRAGMENT_SIZE <= size
               /\ (n - 1) * FRAGMENT_SIZE <= size /\ size <= n * FRAGMENT_SIZE
               /\ size <= MAX_PACKET_SIZE => n - 1 <= MAX_HEADER
<1>. DEFINE q == (size - 1) \div FRAGMENT_SIZE
<1>1. FRAGMENT_SIZE \in Nat \ {0} /\ size - 1 \in Nat
  BY FramingAssumption DEF Fits
<1>2. q \in Nat /\ q * FRAGMENT_SIZE <= size - 1 /\ size - 1 < q * FRAGMENT_SIZE + FRAGMENT_SIZE
  BY <1>1
<1>3. FragmentCount(size) = q + 1
  BY DEF FragmentCount
<1>. HIDE DEF q
<1>4. \A j \in Nat : /\ j * FRAGMENT_SIZE \in Nat
                     /\ (j + 1) * FRAGMENT_SIZE = j * FRAGMENT_SIZE + FRAGMENT_SIZE
  BY <1>1
<1>5. \A j \in 0..q : j * FRAGMENT_SIZE <= q * FRAGMENT_SIZE
  BY <1>1, <1>2
<1>6. size <= MAX_PACKET_SIZE => q <= MAX_HEADER
  <2>. SUFFICES ASSUME size <= MAX_PACKET_SIZE, q > MAX_HEADER PROVE FALSE
    BY <1>2, FramingAssumption
  <2>1. MAX_HEADER + 1 \in 0..q
    BY <1>2, FramingAssumption
  <2>2. (MAX_HEADER + 1) * FRAGMENT_SIZE <= q * FRAGMENT_SIZE
    BY <1>5, <2>1
  <2>3. MAX_PACKET_SIZE <= (MAX_HEADER + 1) * FRAGMENT_SIZE
    BY <1>1, FramingAssumption
  <2>. QED  BY <1>1, <1>2, <2>2, <2>3, FramingAssumption
<1>7. \A j \in 1..(q + 1) : /\ (j - 1) * FRAGMENT_SIZE \in Nat /\ j * FRAGMENT_SIZE \in Nat
                            /\ j * FRAGMENT_SIZE = (j - 1) * FRAGMENT_SIZE + FRAGMENT_SIZE
  <2>. TAKE j \in 1..(q + 1)
  <2>1. j - 1 \in Nat /\ j \in Nat /\ (j - 1) + 1 = j
    BY <1>2
  <2>. QED  BY <1>4, <2>1
<1>8. \A j \in 1..q : j * FRAGMENT_SIZE <= size
  BY <1>1, <1>2, <1>4, <1>5
<1>9. q * FRAGMENT_SIZE <= size /\ size <= (q + 1) * FRAGMENT_SIZE
  BY <1>1, <1>2, <1>4
<1>. QED  BY <1>2, <1>3, <1>6, <1>7, <1>8, <1>9

LEMMA BytesAssociative == \A a, b, c \in Seq(Byte) : (a \o b) \o c = a \o (b \o c)
BY ConcatAssociative

(* What the receiver has of data before its j-th fragment. *)
Before(data, j) == SubSeq(data, 1, (j - 1) * FRAGMENT_SIZE)

Frag == [header : Nat, payload : Packet]

LEMMA FragmentsAssociative == \A a, b, c \in Seq(Frag) : (a \o b) \o c = a \o (b \o c)
BY ConcatAssociative

(* What push makes of an accepted packet: the headers count down to 0, every  *)
(* payload fits, and the payloads in order make up the packet.                *)
LEMMA FragmentsOf ==
    ASSUME NEW data \in Packet
    PROVE  LET fs == Fragments(data)
           IN  /\ fs \in Seq(Frag) /\ Len(fs) \in Nat /\ Len(fs) >= 1
               /\ \A j \in 1..Len(fs) :
                    /\ fs[j] \in Frag /\ fs[j].header = Len(fs) - j
                    /\ Len(fs[j].payload) <= FRAGMENT_SIZE
                    /\ Before(data, j) \o fs[j].payload
                         = IF j = Len(fs) THEN data ELSE Before(data, j + 1)
               /\ Fits(Len(data)) => Len(fs) = 1 /\ fs[1].payload = data
               /\ Len(data) <= MAX_PACKET_SIZE => Len(fs) - 1 <= MAX_HEADER
<1>. DEFINE fs == Fragments(data)
            n == FragmentCount(Len(data))
<1>0. /\ FRAGMENT_SIZE \in Nat \ {0} /\ MAX_HEADER \in Nat
      /\ data \in Seq(Byte) /\ Len(data) \in Nat
  BY FramingAssumption DEF Packet
<1>1. CASE Fits(Len(data))
  <2>1. fs = <<[header |-> 0, payload |-> data]>>
    BY <1>1 DEF Fragments
  <2>2. [header |-> 0, payload |-> data] \in Frag
    BY DEF Frag
  <2>3. fs \in Seq(Frag) /\ Len(fs) = 1 /\ fs[1] = [header |-> 0, payload |-> data]
    BY <2>1, <2>2
  <2>4. Before(data, 1) \o data = data
    <3>1. Before(data, 1) = <<>>
      BY <1>0, SubSeqEmpty DEF Before
    <3>. QED  BY <1>0, <3>1, ConcatEmptySeq
  <2>5. Len(data) <= FRAGMENT_SIZE
    BY <1>0, <1>1 DEF Fits
  <2>. HIDE DEF fs
  <2>6. \A j \in 1..Len(fs) : j = 1
    BY <2>3
  <2>. QED  BY <1>0, <2>2, <2>3, <2>4, <2>5, <2>6 DEF fs
<1>2. CASE ~Fits(Len(data))
  <2>1. /\ n \in Nat /\ n >= 1
        /\ \A j \in 1..n : (j - 1) * FRAGMENT_SIZE \in Nat /\ j * FRAGMENT_SIZE \in Nat
        /\ \A j \in 1..n : j * FRAGMENT_SIZE = (j - 1) * FRAGMENT_SIZE + FRAGMENT_SIZE
        /\ \A j \in 1..(n - 1) : j * FRAGMENT_SIZE <= Len(data)
        /\ (n - 1) * FRAGMENT_SIZE <= Len(data) /\ Len(data) <= n * FRAGMENT_SIZE
        /\ Len(data) <= MAX_PACKET_SIZE => n - 1 <= MAX_HEADER
    BY <1>0, <1>2, FragmentCountIs
  <2>. HIDE DEF n
  <2>2. fs = [j \in 1..n |-> [header |-> Header(n, j), payload |-> Chunk(data, j)]]
    BY <1>2 DEF Fragments, n
  <2>3. ASSUME NEW j \in 1..n
        PROVE  /\ Chunk(data, j) \in Packet /\ Len(Chunk(data, j)) <= FRAGMENT_SIZE
               /\ Before(data, j) \o Chunk(data, j) = IF j = n THEN data ELSE Before(data, j + 1)
    <3>. DEFINE lo == (j - 1) * FRAGMENT_SIZE
                hi == IF j * FRAGMENT_SIZE <= Len(data) THEN j * FRAGMENT_SIZE ELSE Len(data)
    <3>1. Chunk(data, j) = SubSeq(data, lo + 1, hi) /\ Before(data, j) = SubSeq(data, 1, lo)
      BY DEF Chunk, Before
    <3>2. /\ lo \in Nat /\ hi \in Nat /\ lo <= hi /\ hi <= Len(data) /\ hi <= lo + FRAGMENT_SIZE
          /\ j = n => hi = Len(data)
          /\ j # n => hi = j * FRAGMENT_SIZE
      <4>1. CASE j = n
        BY <1>0, <2>1, <4>1
      <4>2. CASE j # n
        <5>1. j \in 1..(n - 1)
          BY <2>1, <4>2
        <5>. QED  BY <1>0, <2>1, <4>2, <5>1
      <4>. QED  BY <4>1, <4>2
    <3>. HIDE DEF lo, hi
    <3>3. /\ SubSeq(data, lo + 1, hi) \in Seq(Byte)
          /\ Len(SubSeq(data, lo + 1, hi)) <= FRAGMENT_SIZE
      <4>1. \A i \in (lo + 1)..hi : data[i] \in Byte
        BY <1>0, <3>2
      <4>2. /\ SubSeq(data, lo + 1, hi) \in Seq(Byte)
            /\ Len(SubSeq(data, lo + 1, hi)) = IF lo + 1 <= hi THEN hi - (lo + 1) + 1 ELSE 0
        BY <3>2, <4>1, SubSeqProperties
      <4>. QED  BY <1>0, <3>2, <4>2
    <3>4. SubSeq(data, 1, lo) \o SubSeq(data, lo + 1, hi) = SubSeq(data, 1, hi)
      <4>1. 1 \in 1..Len(data) + 1 /\ lo \in (1 - 1)..Len(data) /\ hi \in lo..Len(data)
        BY <1>0, <3>2
      <4>. QED  BY <1>0, <4>1, ConcatAdjacentSubSeq
    <3>5. j = n => SubSeq(data, 1, hi) = data
      BY <1>0, <3>2, SubSeqFull
    <3>6. j # n => SubSeq(data, 1, hi) = Before(data, j + 1)
      BY <2>1, <3>2 DEF Before
    <3>. QED  BY <3>1, <3>3, <3>4, <3>5, <3>6 DEF Packet
  <2>4. \A j \in 1..n : fs[j] = [header |-> n - j, payload |-> Chunk(data, j)]
    BY <2>2 DEF Header
  <2>5. \A j \in 1..n : [header |-> n - j, payload |-> Chunk(data, j)] \in Frag
    BY <2>1, <2>3 DEF Frag
  <2>6. fs \in Seq(Frag) /\ Len(fs) = n
    <3>1. fs \in [1..n -> Frag]
      BY <2>2, <2>4, <2>5
    <3>. HIDE DEF fs
    <3>. QED  BY <2>1, <3>1
  <2>. HIDE DEF fs
  <2>7. \A j \in 1..n : /\ fs[j] \in Frag /\ fs[j].header = n - j
                        /\ fs[j].payload = Chunk(data, j)
    <3>. TAKE j \in 1..n
    <3>1. fs[j] = [header |-> n - j, payload |-> Chunk(data, j)] /\ fs[j] \in Frag
      BY <2>4, <2>5
    <3>. QED  BY <3>1
  <2>. QED  BY <1>2, <2>1, <2>3, <2>6, <2>7 DEF fs
<1>. QED  BY <1>1, <1>2

-----------------------------------------------------------------------------
(* The fragments in transit on the reliable channel. *)

(* The fragment behind fragment f of packet p. *)
Follows(snt, p, f, p2, f2) ==
    IF f = Len(Fragments(snt[p])) THEN p2 = p + 1 /\ f2 = 1 ELSE p2 = p /\ f2 = f + 1

(* The stream S holds what a receiver that has n packets of snt and buf of the *)
(* next one still needs: its i-th element is fragment fr[i] of packet pk[i],   *)
(* none left out and none twice; the entry behind the last one stands for the  *)
(* first fragment of the packet that push takes next.                          *)
InTransit(S, snt, n, buf, pk, fr) ==
    /\ pk \in [1..(Len(S) + 1) -> Nat] /\ fr \in [1..(Len(S) + 1) -> Nat]
    /\ \A i \in 1..Len(S) :
         /\ pk[i] \in 1..Len(snt) /\ fr[i] \in 1..Len(Fragments(snt[pk[i]]))
         /\ S[i] = Fragments(snt[pk[i]])[fr[i]]
         /\ Follows(snt, pk[i], fr[i], pk[i + 1], fr[i + 1])
    /\ pk[1] = n + 1
    /\ buf = IF fr[1] = 1 THEN <<>> ELSE Before(snt[pk[1]], fr[1])
    /\ pk[Len(S) + 1] = Len(snt) + 1 /\ fr[Len(S) + 1] = 1

(* push puts the fragments of one more packet behind those in transit. *)
LEMMA PushExtends ==
    ASSUME NEW S \in Seq(Frag), NEW snt \in Seq(Packet), NEW n \in Nat, NEW buf,
           NEW pk, NEW fr, InTransit(S, snt, n, buf, pk, fr), NEW data \in Packet
    PROVE  \E pk2, fr2 :
             InTransit(S \o Fragments(data), Append(snt, data), n, buf, pk2, fr2)
<1>. DEFINE fs == Fragments(data)
            L == Len(S)
            N == Len(fs)
            m == Len(snt) + 1
            S2 == S \o fs
            snt2 == Append(snt, data)
            pk2 == [i \in 1..(L + N + 1) |-> IF i <= L THEN pk[i] ELSE IF i <= L + N THEN m ELSE m + 1]
            fr2 == [i \in 1..(L + N + 1) |-> IF i <= L THEN fr[i] ELSE IF i <= L + N THEN i - L ELSE 1]
<1>1. fs \in Seq(Frag) /\ N \in Nat /\ N >= 1 /\ L \in Nat /\ m \in Nat /\ Len(snt) \in Nat
  BY FragmentsOf
<1>2. /\ snt2[m] = data /\ Len(snt2) = m
      /\ \A p \in 1..Len(snt) : snt2[p] = snt[p]
  OBVIOUS
<1>. HIDE DEF fs, snt2
<1>3. /\ S2 \in Seq(Frag) /\ Len(S2) = L + N
      /\ \A i \in 1..(L + N) : S2[i] = IF i <= L THEN S[i] ELSE fs[i - L]
  BY <1>1, ConcatProperties
<1>. HIDE DEF S2, N, m, L
<1>4. /\ \A i \in 1..(L + 1) : pk[i] \in Nat /\ fr[i] \in Nat
      /\ \A i \in 1..L :
           /\ pk[i] \in 1..Len(snt) /\ fr[i] \in 1..Len(Fragments(snt[pk[i]]))
           /\ S[i] = Fragments(snt[pk[i]])[fr[i]]
           /\ Follows(snt, pk[i], fr[i], pk[i + 1], fr[i + 1])
      /\ pk[1] = n + 1
      /\ buf = IF fr[1] = 1 THEN <<>> ELSE Before(snt[pk[1]], fr[1])
      /\ pk[L + 1] = m /\ fr[L + 1] = 1
  BY DEF InTransit, L, m
<1>5. pk2 \in [1..(L + N + 1) -> Nat] /\ fr2 \in [1..(L + N + 1) -> Nat]
  BY <1>1, <1>4
<1>6. /\ \A i \in 1..(L + 1) : pk2[i] = pk[i] /\ fr2[i] = fr[i]
      /\ \A i \in (L + 1)..(L + N) : pk2[i] = m /\ fr2[i] = i - L
      /\ pk2[L + N + 1] = m + 1 /\ fr2[L + N + 1] = 1
  BY <1>1, <1>4
<1>. HIDE DEF pk2, fr2
<1>7. ASSUME NEW i \in 1..(L + N)
      PROVE  /\ pk2[i] \in 1..m /\ fr2[i] \in 1..Len(Fragments(snt2[pk2[i]]))
             /\ S2[i] = Fragments(snt2[pk2[i]])[fr2[i]]
             /\ Follows(snt2, pk2[i], fr2[i], pk2[i + 1], fr2[i + 1])
  <2>1. CASE i <= L
    <3>1. i \in 1..L /\ i \in 1..(L + 1) /\ i + 1 \in 1..(L + 1)
      BY <1>1, <2>1
    <3>2. pk2[i] = pk[i] /\ fr2[i] = fr[i] /\ pk2[i + 1] = pk[i + 1] /\ fr2[i + 1] = fr[i + 1]
      BY <1>6, <3>1
    <3>3. pk[i] \in 1..Len(snt) /\ snt2[pk[i]] = snt[pk[i]] /\ S2[i] = S[i]
      BY <1>2, <1>3, <1>4, <2>1, <3>1
    <3>4. pk[i] \in 1..m
      BY <1>1, <3>3 DEF m
    <3>. QED  BY <1>4, <3>1, <3>2, <3>3, <3>4 DEF Follows
  <2>2. CASE i > L
    <3>1. i \in (L + 1)..(L + N) /\ i - L \in 1..N
      BY <1>1, <2>2
    <3>2. pk2[i] = m /\ fr2[i] = i - L /\ S2[i] = fs[i - L]
      BY <1>1, <1>3, <1>6, <2>2, <3>1
    <3>3. Fragments(snt2[m]) = fs /\ Len(fs) = N /\ m \in 1..m
      BY <1>1, <1>2 DEF fs, N, m
    <3>4. CASE i = L + N
      <4>1. i - L = N /\ pk2[i + 1] = m + 1 /\ fr2[i + 1] = 1
        BY <1>1, <1>6, <3>4
      <4>. QED  BY <3>1, <3>2, <3>3, <4>1 DEF Follows
    <3>5. CASE i # L + N
      <4>1. i + 1 \in (L + 1)..(L + N) /\ i - L # N /\ (i + 1) - L = (i - L) + 1
        BY <1>1, <3>1, <3>5
      <4>2. pk2[i + 1] = m /\ fr2[i + 1] = (i - L) + 1
        BY <1>6, <4>1
      <4>. QED  BY <3>1, <3>2, <3>3, <4>1, <4>2 DEF Follows
    <3>. QED  BY <3>4, <3>5
  <2>. QED  BY <1>1, <2>1, <2>2
<1>8. pk2[1] = n + 1
  BY <1>1, <1>4, <1>6
<1>9. buf = IF fr2[1] = 1 THEN <<>> ELSE Before(snt2[pk2[1]], fr2[1])
  <2>1. fr2[1] = fr[1] /\ pk2[1] = pk[1]
    BY <1>1, <1>6
  <2>2. fr[1] # 1 => snt2[pk[1]] = snt[pk[1]]
    <3>. SUFFICES ASSUME fr[1] # 1 PROVE pk[1] \in 1..Len(snt)
      BY <1>2
    <3>1. L # 0
      BY <1>4
    <3>2. 1 \in 1..L
      BY <1>1, <3>1
    <3>. QED  BY <1>4, <3>2
  <2>. QED  BY <1>4, <2>1, <2>2
<1>10. InTransit(S2, snt2, n, buf, pk2, fr2)
  BY <1>1, <1>2, <1>3, <1>5, <1>6, <1>7, <1>8, <1>9 DEF InTransit
<1>. QED  BY <1>10 DEF S2, snt2, fs

(* on_reliable_message: the first fragment in transit is the next piece of the *)
(* packet under reassembly; header 0 marks the piece that completes it.        *)
LEMMA TakeFragment ==
    ASSUME NEW S \in Seq(Frag), S # <<>>, NEW snt \in Seq(Packet), NEW n \in Nat, NEW buf,
           NEW pk, NEW fr, InTransit(S, snt, n, buf, pk, fr)
    PROVE  LET f == Head(S)
           IN  /\ n < Len(snt)
               /\ f.header = 0 => /\ buf \o f.payload = snt[n + 1]
                                  /\ \E pk2, fr2 : InTransit(Tail(S), snt, n + 1, <<>>, pk2, fr2)
               /\ f.header # 0 => \E pk2, fr2 :
                                    InTransit(Tail(S), snt, n, buf \o f.payload, pk2, fr2)
<1>. DEFINE f == Head(S)
            L == Len(S)
            p == pk[1]
            k == fr[1]
            data == snt[p]
            fs == Fragments(data)
            T == Tail(S)
            pk2 == [i \in 1..L |-> pk[i + 1]]
            fr2 == [i \in 1..L |-> fr[i + 1]]
<1>1. L \in Nat /\ L >= 1 /\ Len(snt) \in Nat /\ Head(S) = S[1]
  OBVIOUS
<1>2. /\ T \in Seq(Frag) /\ Len(T) = L - 1 /\ \A i \in 1..(L - 1) : T[i] = S[i + 1]
  BY HeadTailProperties
<1>. HIDE DEF T
<1>3. /\ \A i \in 1..(L + 1) : pk[i] \in Nat /\ fr[i] \in Nat
      /\ \A i \in 1..L :
           /\ pk[i] \in 1..Len(snt) /\ fr[i] \in 1..Len(Fragments(snt[pk[i]]))
           /\ S[i] = Fragments(snt[pk[i]])[fr[i]]
           /\ Follows(snt, pk[i], fr[i], pk[i + 1], fr[i + 1])
      /\ p = n + 1
      /\ buf = IF k = 1 THEN <<>> ELSE Before(data, k)
      /\ pk[L + 1] = Len(snt) + 1 /\ fr[L + 1] = 1
  BY DEF InTransit
<1>. HIDE DEF L
<1>4. /\ p \in 1..Len(snt) /\ k \in 1..Len(fs) /\ f = fs[k]
      /\ Follows(snt, p, k, pk[2], fr[2])
  <2>1. 1 \in 1..L /\ 1 + 1 = 2
    BY <1>1
  <2>. QED  BY <1>1, <1>3, <2>1
<1>5. data \in Packet
  BY <1>4
<1>. HIDE DEF f
<1>6. /\ Len(fs) \in Nat /\ f.header = Len(fs) - k /\ f.payload \in Packet
      /\ Before(data, k) \o f.payload = IF k = Len(fs) THEN data ELSE Before(data, k + 1)
  <2>1. \A j \in 1..Len(fs) :
          /\ fs[j] \in Frag /\ fs[j].header = Len(fs) - j
          /\ Before(data, j) \o fs[j].payload = IF j = Len(fs) THEN data ELSE Before(data, j + 1)
    <3>. HIDE DEF data
    <3>. QED  BY <1>5, FragmentsOf
  <2>2. Len(fs) \in Nat
    <3>. HIDE DEF data
    <3>. QED  BY <1>5, FragmentsOf
  <2>. HIDE DEF data, fs, k
  <2>. QED  BY <1>4, <2>1, <2>2 DEF Frag
<1>7. buf = Before(data, k)
  <2>1. Before(data, 1) = <<>>
    <3>1. (1 - 1) * FRAGMENT_SIZE = 0
      BY FramingAssumption
    <3>. QED  BY <3>1, SubSeqEmpty DEF Before
  <2>. QED  BY <1>3, <2>1
<1>8. buf \o f.payload = IF k = Len(fs) THEN data ELSE Before(data, k + 1)
  BY <1>6, <1>7
<1>9. /\ pk2 \in [1..(Len(T) + 1) -> Nat] /\ fr2 \in [1..(Len(T) + 1) -> Nat]
      /\ \A i \in 1..L : pk2[i] = pk[i + 1] /\ fr2[i] = fr[i + 1]
  BY <1>1, <1>2, <1>3, SMTT(30)
<1>. HIDE DEF pk2, fr2
<1>10. ASSUME NEW i \in 1..Len(T)
       PROVE  /\ pk2[i] \in 1..Len(snt) /\ fr2[i] \in 1..Len(Fragments(snt[pk2[i]]))
              /\ T[i] = Fragments(snt[pk2[i]])[fr2[i]]
              /\ Follows(snt, pk2[i], fr2[i], pk2[i + 1], fr2[i + 1])
  <2>1. i + 1 \in 1..L /\ i \in 1..L /\ i \in 1..(L - 1)
    BY <1>1, <1>2
  <2>2. /\ pk2[i] = pk[i + 1] /\ fr2[i] = fr[i + 1] /\ T[i] = S[i + 1]
        /\ pk2[i + 1] = pk[(i + 1) + 1] /\ fr2[i + 1] = fr[(i + 1) + 1]
    BY <1>2, <1>9, <2>1
  <2>. HIDE DEF p, k, data, fs
  <2>. QED  BY <1>3, <2>1, <2>2
<1>11. pk2[Len(T) + 1] = Len(snt) + 1 /\ fr2[Len(T) + 1] = 1
  BY <1>1, <1>2, <1>3, <1>9, SMTT(30)
<1>12. pk2[1] = pk[2] /\ fr2[1] = fr[2]
  BY <1>1, <1>9
<1>13. n < Len(snt)
  BY <1>1, <1>3, <1>4
<1>13a. Len(fs) \in Nat /\ k \in 1..Len(fs) /\ f.header = Len(fs) - k
  BY <1>4, <1>6
<1>14. ASSUME f.header = 0
       PROVE  buf \o f.payload = snt[n + 1] /\ InTransit(T, snt, n + 1, <<>>, pk2, fr2)
  <2>1. k = Len(fs)
    <3>. HIDE DEF k, fs
    <3>. QED  BY <1>13a, <1>14
  <2>2. buf \o f.payload = snt[n + 1]
    BY <1>3, <1>8, <2>1
  <2>3. pk2[1] = (n + 1) + 1 /\ fr2[1] = 1
    BY <1>3, <1>4, <1>12, <2>1 DEF Follows
  <2>. HIDE DEF p, k, data, fs
  <2>. QED  BY <1>9, <1>10, <1>11, <2>2, <2>3 DEF InTransit
<1>15. ASSUME f.header # 0
       PROVE  InTransit(T, snt, n, buf \o f.payload, pk2, fr2)
  <2>1. k # Len(fs)
    <3>. HIDE DEF k, fs
    <3>. QED  BY <1>13a, <1>15
  <2>2. pk2[1] = n + 1 /\ fr2[1] = k + 1 /\ fr2[1] # 1 /\ pk2[1] = p
    BY <1>3, <1>4, <1>6, <1>12, <2>1 DEF Follows
  <2>3. buf \o f.payload = IF fr2[1] = 1 THEN <<>> ELSE Before(snt[pk2[1]], fr2[1])
    BY <1>8, <2>1, <2>2
  <2>. HIDE DEF p, k, data, fs
  <2>. QED  BY <1>9, <1>10, <1>11, <2>2, <2>3 DEF InTransit
<1>. HIDE DEF p, k, data, fs
<1>. QED  BY <1>13, <1>14, <1>15 DEF f, T

-----------------------------------------------------------------------------
(* The bytes of a sequence of packets. *)

LEMMA SetInduction ==
    ASSUME NEW S, 0 \in S, \A n \in Nat : n \in S => n + 1 \in S
    PROVE  Nat \subseteq S
<1>. SUFFICES ASSUME ~(Nat \subseteq S) PROVE FALSE
  OBVIOUS
<1>1. IsWellFoundedOn(OpToRel(<, Nat), Nat)
  BY NatLessThanWellFounded
<1>. DEFINE T == Nat \ S
<1>2. PICK x \in T : \A y \in T : <<y, x>> \notin OpToRel(<, Nat)
  <2>1. T \subseteq Nat /\ T # {}
    OBVIOUS
  <2>. HIDE DEF T
  <2>. QED  BY <1>1, <2>1, WFMin
<1>3. \A y \in T : ~(y < x)
  BY <1>2 DEF OpToRel
<1>. QED  BY <1>3

(* f is the function upto that Concat defines by recursion. *)
IsUpto(p, N, f) == f = [n \in 0..N |-> IF n = 0 THEN <<>> ELSE f[n - 1] \o p[n]]

LEMMA UptoExists ==
    ASSUME NEW p, NEW N \in Nat
    PROVE  \E f : IsUpto(p, N, f)
<1>. DEFINE S == {n \in Nat : \E f : IsUpto(p, n, f)}
<1>1. 0 \in S
  <2>1. [n \in 0..0 |-> <<>>]
          = [n \in 0..0 |-> IF n = 0 THEN <<>> ELSE [m \in 0..0 |-> <<>>][n - 1] \o p[n]]
    OBVIOUS
  <2>. QED  BY <2>1 DEF IsUpto
<1>2. ASSUME NEW n \in Nat, n \in S PROVE n + 1 \in S
  <2>1. PICK f : IsUpto(p, n, f)
    BY <1>2
  <2>. DEFINE g == [m \in 0..n+1 |-> IF m = n + 1 THEN f[n] \o p[n + 1] ELSE f[m]]
  <2>2. \A m \in 0..n+1 : g[m] = IF m = 0 THEN <<>> ELSE g[m - 1] \o p[m]
    BY <2>1 DEF IsUpto
  <2>3. g = [m \in 0..n+1 |-> IF m = 0 THEN <<>> ELSE g[m - 1] \o p[m]]
    BY <2>2
  <2>4. IsUpto(p, n + 1, g)
    BY <2>3 DEF IsUpto
  <2>. HIDE DEF g
  <2>. QED  BY <2>4
<1>. HIDE DEF S
<1>3. Nat \subseteq S
  BY <1>1, <1>2, SetInduction
<1>. QED  BY <1>3 DEF S

LEMMA ConcatIsUpto ==
    ASSUME NEW p, Len(p) \in Nat
    PROVE  \E f : IsUpto(p, Len(p), f) /\ Concat(p) = f[Len(p)]
<1>. DEFINE g == CHOOSE f : IsUpto(p, Len(p), f)
<1>1. IsUpto(p, Len(p), g)
  BY UptoExists, Zenon
<1>2. Concat(p) = g[Len(p)]
  BY DEF Concat, IsUpto
<1>. QED  BY <1>1, <1>2

LEMMA UptoStep ==
    ASSUME NEW p, NEW N \in Nat, NEW f, IsUpto(p, N, f)
    PROVE  /\ f[0] = <<>> /\ (N > 0 => f[1] = f[0] \o p[1])
           /\ \A k \in 0..(N - 1) : f[k + 1] = f[k] \o p[k + 1]
<1>1. \A n \in 0..N : f[n] = IF n = 0 THEN <<>> ELSE f[n - 1] \o p[n]
  BY DEF IsUpto
<1>2. ASSUME NEW k \in 0..(N - 1) PROVE f[k + 1] = f[k] \o p[k + 1]
  <2>1. k + 1 \in 0..N /\ k + 1 # 0 /\ (k + 1) - 1 = k
    OBVIOUS
  <2>2. f[k + 1] = f[(k + 1) - 1] \o p[k + 1]
    BY <1>1, <2>1
  <2>. QED  BY <2>1, <2>2
<1>3. f[0] = <<>> /\ (N > 0 => f[1] = f[0] \o p[1])
  <2>1. f[0] = <<>>
    BY <1>1
  <2>2. ASSUME N > 0 PROVE f[1] = f[0] \o p[1]
    <3>1. 1 \in 0..N /\ 1 # 0 /\ 1 - 1 = 0
      BY <2>2
    <3>2. f[1] = f[1 - 1] \o p[1]
      BY <1>1, <3>1
    <3>. QED  BY <3>1, <3>2
  <2>. QED  BY <2>1, <2>2
<1>. QED  BY <1>2, <1>3

LEMMA UptoType ==
    ASSUME NEW s \in Seq(Packet), NEW f, IsUpto(s, Len(s), f)
    PROVE  \A k \in 0..Len(s) : f[k] \in Packet
<1>. DEFINE N == Len(s)
            S == {k \in Nat : k <= N => f[k] \in Packet}
<1>0. N \in Nat
  OBVIOUS
<1>1. 0 \in S
  <2>1. f[0] = <<>> /\ <<>> \in Packet
    BY <1>0, UptoStep, EmptySeq DEF Packet
  <2>. QED  BY <2>1
<1>2. ASSUME NEW k \in Nat, k \in S PROVE k + 1 \in S
  <2>. SUFFICES ASSUME k + 1 <= N PROVE f[k + 1] \in Packet
    OBVIOUS
  <2>1. f[k] \in Packet /\ s[k + 1] \in Packet
    BY <1>0, <1>2
  <2>2. f[k + 1] = f[k] \o s[k + 1]
    BY <1>0 DEF IsUpto
  <2>. QED  BY <2>1, <2>2, ConcatProperties DEF Packet
<1>3. Nat \subseteq S
  <2>. HIDE DEF S
  <2>. QED  BY <1>1, <1>2, SetInduction
<1>. QED  BY <1>0, <1>3

(* Two packet sequences with a common prefix have the same bytes in it. *)
LEMMA UptoAgree ==
    ASSUME NEW p, NEW q, NEW N \in Nat, NEW M \in Nat, NEW f, NEW g,
           IsUpto(p, N, f), IsUpto(q, M, g), NEW K \in Nat, K <= N, K <= M,
           \A i \in 1..K : p[i] = q[i]
    PROVE  f[K] = g[K]
<1>. DEFINE S == {k \in Nat : k <= K => f[k] = g[k]}
<1>1. 0 \in S
  BY DEF IsUpto
<1>2. ASSUME NEW k \in Nat, k \in S PROVE k + 1 \in S
  <2>. SUFFICES ASSUME k + 1 <= K PROVE f[k + 1] = g[k + 1]
    OBVIOUS
  <2>1. f[k] = g[k] /\ p[k + 1] = q[k + 1]
    BY <1>2
  <2>2. k \in 0..(N - 1) /\ k \in 0..(M - 1)
    OBVIOUS
  <2>3. f[k + 1] = f[k] \o p[k + 1]
    BY <2>2, UptoStep
  <2>4. g[k + 1] = g[k] \o q[k + 1]
    BY <2>2, UptoStep
  <2>. QED  BY <2>1, <2>3, <2>4
<1>3. Nat \subseteq S
  <2>. HIDE DEF S
  <2>. QED  BY <1>1, <1>2, SetInduction
<1>. QED  BY <1>3

LEMMA ConcatType ==
    ASSUME NEW s \in Seq(Packet)
    PROVE  Concat(s) \in Packet
<1>1. Len(s) \in Nat
  OBVIOUS
<1>2. PICK f : IsUpto(s, Len(s), f) /\ Concat(s) = f[Len(s)]
  BY <1>1, ConcatIsUpto
<1>. QED  BY <1>1, <1>2, UptoType

LEMMA ConcatEmpty == Concat(<<>>) = <<>>
<1>1. Len(<<>>) = 0
  OBVIOUS
<1>2. PICK f : IsUpto(<<>>, Len(<<>>), f) /\ Concat(<<>>) = f[Len(<<>>)]
  BY <1>1, ConcatIsUpto
<1>. QED  BY <1>1, <1>2 DEF IsUpto

(* A packet that is queued adds its bytes at the end. *)
LEMMA ConcatAppend ==
    ASSUME NEW s \in Seq(Packet), NEW p \in Packet
    PROVE  Concat(Append(s, p)) = Concat(s) \o p
<1>. DEFINE t == Append(s, p)
            N == Len(s)
<1>1. N \in Nat /\ Len(t) = N + 1 /\ t[N + 1] = p /\ \A i \in 1..N : s[i] = t[i]
  OBVIOUS
<1>. HIDE DEF t
<1>2. PICK f : IsUpto(s, N, f) /\ Concat(s) = f[N]
  BY <1>1, ConcatIsUpto
<1>3. PICK g : IsUpto(t, N + 1, g) /\ Concat(t) = g[N + 1]
  BY <1>1, ConcatIsUpto
<1>. HIDE DEF N
<1>4. f[N] = g[N]
  BY <1>1, <1>2, <1>3, UptoAgree
<1>5. g[N + 1] = g[N] \o t[N + 1]
  <2>1. N + 1 \in Nat /\ N \in 0..((N + 1) - 1)
    BY <1>1
  <2>. QED  BY <1>3, <2>1, UptoStep
<1>. QED  BY <1>1, <1>2, <1>3, <1>4, <1>5 DEF t

(* The first packet of a queue has its first bytes. *)
LEMMA ConcatTail ==
    ASSUME NEW s \in Seq(Packet), s # <<>>
    PROVE  Concat(s) = Head(s) \o Concat(Tail(s))
<1>. DEFINE t == Tail(s)
            N == Len(t)
            h == Head(s)
<1>1. /\ N \in Nat /\ Len(s) = N + 1 /\ t \in Seq(Packet) /\ s[1] = h /\ h \in Packet
      /\ \A i \in 1..N : t[i] = s[i + 1] /\ t[i] \in Packet
  BY HeadTailProperties
<1>. HIDE DEF t, h
<1>2. PICK f : IsUpto(s, N + 1, f) /\ Concat(s) = f[N + 1]
  BY <1>1, ConcatIsUpto
<1>3. PICK g : IsUpto(t, N, g) /\ Concat(t) = g[N]
  BY <1>1, ConcatIsUpto
<1>4. \A k \in 0..N : g[k] \in Packet
  BY <1>1, <1>3, UptoType
<1>. HIDE DEF N
<1>. DEFINE S == {k \in Nat : k <= N => f[k + 1] = h \o g[k]}
<1>4a. /\ f[0] = <<>> /\ f[1] = f[0] \o s[1]
       /\ \A k \in 0..((N + 1) - 1) : f[k + 1] = f[k] \o s[k + 1]
  <2>1. N + 1 \in Nat /\ N + 1 > 0
    BY <1>1
  <2>. QED  BY <1>2, <2>1, UptoStep
<1>4b. g[0] = <<>> /\ \A k \in 0..(N - 1) : g[k + 1] = g[k] \o t[k + 1]
  BY <1>1, <1>3, UptoStep
<1>5. 0 \in S
  <2>2. <<>> \o h = h /\ h \o <<>> = h
    BY <1>1, ConcatEmptySeq DEF Packet
  <2>3. f[0 + 1] = h \o g[0]
    BY <1>1, <1>4a, <1>4b, <2>2
  <2>. QED  BY <2>3
<1>6. ASSUME NEW k \in Nat, k \in S PROVE k + 1 \in S
  <2>. SUFFICES ASSUME k + 1 <= N PROVE f[(k + 1) + 1] = h \o g[k + 1]
    OBVIOUS
  <2>1. f[k + 1] = h \o g[k] /\ g[k] \in Packet /\ t[k + 1] \in Packet /\ t[k + 1] = s[(k + 1) + 1]
    BY <1>1, <1>4, <1>6
  <2>2. f[(k + 1) + 1] = f[k + 1] \o s[(k + 1) + 1]
    <3>1. k + 1 \in 0..((N + 1) - 1)
      BY <1>1
    <3>. QED  BY <1>4a, <3>1
  <2>3. g[k + 1] = g[k] \o t[k + 1]
    <3>1. k \in 0..(N - 1)
      BY <1>1
    <3>. QED  BY <1>4b, <3>1
  <2>4. (h \o g[k]) \o t[k + 1] = h \o (g[k] \o t[k + 1])
    <3>1. h \in Seq(Byte) /\ g[k] \in Seq(Byte) /\ t[k + 1] \in Seq(Byte)
      BY <1>1, <2>1 DEF Packet
    <3>. DEFINE a == g[k]
                b == t[k + 1]
    <3>2. h \in Seq(Byte) /\ a \in Seq(Byte) /\ b \in Seq(Byte)
      BY <3>1
    <3>. HIDE DEF a, b
    <3>3. (h \o a) \o b = h \o (a \o b)
      BY <3>2, BytesAssociative
    <3>. QED  BY <3>3 DEF a, b
  <2>. QED  BY <2>1, <2>2, <2>3, <2>4
<1>7. Nat \subseteq S
  <2>. HIDE DEF S
  <2>. QED  BY <1>5, <1>6, SetInduction
<1>8. f[N + 1] = h \o g[N]
  BY <1>1, <1>7
<1>. QED  BY <1>2, <1>3, <1>8 DEF t, h

-----------------------------------------------------------------------------
(* The inductive invariant. *)

(* What channel c may carry while the unreliable packets L were accepted. *)
Carried(c, L) ==
    {f \in Frag : /\ 1 + Len(f.payload) <= MAX_MESSAGE_SIZE /\ f.header \in 0..MAX_HEADER
                  /\ c = "UNRELIABLE" => f.header = 0 /\ f.payload \in L}

FrameType ==
    /\ on_packet \in BOOLEAN /\ count \in Nat
    /\ open \in [SendType -> BOOLEAN] /\ dead \subseteq SendType
    /\ parked \in [SendType -> Seq(Frag)] /\ wire \in [SendType -> Seq(Frag)]
    /\ reassembly \in Packet /\ received \in Seq(Packet)
    /\ sent \in Seq(Packet) /\ loose \subseteq Packet /\ got \in Seq(Packet)
    /\ came \in Seq(Packet) /\ taken \in Packet

ChannelInv ==
    \A c \in SendType : wire[c] \in Seq(Carried(c, loose)) /\ parked[c] \in Seq(Carried(c, loose))

(* The receiver has the first packets of the sender, and everything else is   *)
(* under reassembly, in flight or, until the channel opens, parked.           *)
StreamInv ==
    /\ Len(got) <= Len(sent) /\ \A i \in 1..Len(got) : got[i] = sent[i]
    /\ open["RELIABLE"] => parked["RELIABLE"] = <<>>
    /\ \E pk, fr : InTransit(wire["RELIABLE"] \o parked["RELIABLE"], sent, Len(got),
                             reassembly, pk, fr)

FrameInv == FrameType /\ ChannelInv /\ StreamInv /\ WholePackets /\ NoByteLost

-----------------------------------------------------------------------------
(* Operators. *)

(* push: the fragments of an accepted packet may go onto its channel. *)
LEMMA PushCarries ==
    ASSUME NEW data \in Packet, NEW c \in SendType, NEW L, Accepted(Len(data), c),
           c = "UNRELIABLE" => data \in L
    PROVE  Fragments(data) \in Seq(Carried(c, L))
<1>. DEFINE fs == Fragments(data)
<1>1. /\ fs \in Seq(Frag) /\ Len(fs) \in Nat
      /\ \A j \in 1..Len(fs) : /\ fs[j] \in Frag /\ fs[j].header = Len(fs) - j
                               /\ Len(fs[j].payload) <= FRAGMENT_SIZE
      /\ Len(data) <= MAX_PACKET_SIZE => Len(fs) - 1 <= MAX_HEADER
  BY FragmentsOf
<1>1a. Fits(Len(data)) => Len(fs) = 1 /\ fs[1].payload = data
  BY FragmentsOf
<1>2. /\ FRAGMENT_SIZE \in Nat /\ MAX_HEADER \in Nat /\ MAX_MESSAGE_SIZE = FRAGMENT_SIZE + 1
      /\ Len(data) \in Nat
  BY FramingAssumption DEF Packet
<1>. HIDE DEF fs
<1>3. Len(fs) - 1 <= MAX_HEADER
  <2>1. CASE Fits(Len(data))
    <3>1. Len(fs) = 1
      BY <1>1a, <2>1
    <3>. QED  BY <1>2, <3>1
  <2>2. CASE ~Fits(Len(data))
    BY <1>1, <2>2 DEF Accepted
  <2>. QED  BY <2>1, <2>2
<1>4. ASSUME NEW j \in 1..Len(fs) PROVE fs[j] \in Carried(c, L)
  <2>1. /\ fs[j] \in Frag /\ fs[j].header = Len(fs) - j /\ Len(fs[j].payload) <= FRAGMENT_SIZE
        /\ Len(fs[j].payload) \in Nat
    <3>1. /\ fs[j] \in Frag /\ fs[j].header = Len(fs) - j
          /\ Len(fs[j].payload) <= FRAGMENT_SIZE
      BY <1>1
    <3>2. fs[j].payload \in Seq(Byte)
      BY <3>1 DEF Frag, Packet
    <3>3. \A p \in Seq(Byte) : Len(p) \in Nat
      OBVIOUS
    <3>. QED  BY <3>1, <3>2, <3>3
  <2>2. 1 + Len(fs[j].payload) <= MAX_MESSAGE_SIZE /\ fs[j].header \in 0..MAX_HEADER
    BY <1>1, <1>2, <1>3, <2>1
  <2>3. ASSUME c = "UNRELIABLE" PROVE fs[j].header = 0 /\ fs[j].payload \in L
    <3>1. Fits(Len(data))
      BY <2>3 DEF Accepted
    <3>2. Len(fs) = 1 /\ fs[1].payload = data
      BY <1>1a, <3>1
    <3>3. j = 1
      BY <3>2
    <3>. QED  BY <2>1, <2>3, <3>2, <3>3
  <2>. QED  BY <2>1, <2>2, <2>3 DEF Carried
<1>. QED  BY <1>1, <1>4 DEF fs

(* Accepting more packets forbids nothing that was allowed before. *)
LEMMA CarriedGrows ==
    ASSUME NEW c, NEW L, NEW M, L \subseteq M, NEW s \in Seq(Carried(c, L))
    PROVE  s \in Seq(Carried(c, M))
<1>1. Carried(c, L) \subseteq Carried(c, M)
  BY DEF Carried
<1>. QED  BY <1>1, SeqMonotonic

(* A message that leaves an unordered channel leaves the others. *)
LEMMA WithoutType ==
    ASSUME NEW C, NEW s \in Seq(C), NEW j \in 1..Len(s)
    PROVE  Without(s, j) \in Seq(C)
<1>1. Len(s) \in Nat /\ j \in Int /\ j - 1 \in Int /\ j + 1 \in Int
  OBVIOUS
<1>2. (\A i \in 1..(j - 1) : s[i] \in C) /\ (\A i \in (j + 1)..Len(s) : s[i] \in C)
  OBVIOUS
<1>3. SubSeq(s, 1, j - 1) \in Seq(C)
  BY <1>1, <1>2, SubSeqProperties
<1>4. SubSeq(s, j + 1, Len(s)) \in Seq(C)
  BY <1>1, <1>2, SubSeqProperties
<1>. QED  BY <1>3, <1>4, ConcatProperties DEF Without

LEMMA DataIs ==
    ASSUME NEW n \in Nat, NEW size \in Nat
    PROVE  Data(n, size) \in Packet /\ Len(Data(n, size)) = size
<1>1. Data(n, size) \in [1..size -> Byte]
  BY DEF Data, Byte
<1>. QED  BY <1>1 DEF Packet

(* A packet that is complete: whichever way it is handed on, the bytes taken   *)
(* and those still queued are the bytes of all packets that came.              *)
LEMMA DeliverKeeps ==
    ASSUME FrameType, NoByteLost, NEW p \in Packet, Deliver(p)
    PROVE  /\ came' = Append(came, p)
           /\ came' \in Seq(Packet) /\ received' \in Seq(Packet) /\ taken' \in Packet
           /\ NoByteLost'
<1>1. /\ came \in Seq(Packet) /\ received \in Seq(Packet) /\ taken \in Seq(Byte)
      /\ p \in Seq(Byte) /\ Append(received, p) \in Seq(Packet) /\ Append(came, p) \in Seq(Packet)
  BY DEF FrameType, Packet
<1>2. Concat(received) \in Seq(Byte) /\ Concat(Append(received, p)) \in Seq(Byte)
  BY <1>1, ConcatType DEF Packet
<1>3. Concat(came') = Concat(came) \o p
  BY <1>1, ConcatAppend DEF Deliver
<1>4. Concat(Append(received, p)) = Concat(received) \o p
  BY <1>1, ConcatAppend
<1>5. (taken \o Concat(received)) \o p = taken \o (Concat(received) \o p)
  <2>. DEFINE r == Concat(received)
  <2>1. r \in Seq(Byte)
    BY <1>2
  <2>. HIDE DEF r
  <2>2. (taken \o r) \o p = taken \o (r \o p)
    BY <1>1, <2>1, BytesAssociative
  <2>. QED  BY <2>2 DEF r
<1>6. Concat(came) = taken \o Concat(received)
  BY DEF NoByteLost
<1>7. CASE on_packet
  <2>1. received' = <<>> /\ taken' = taken \o Concat(Append(received, p))
    BY <1>7 DEF Deliver
  <2>2. taken' \in Seq(Byte)
    BY <1>1, <1>2, <2>1, ConcatProperties
  <2>3. taken' \o Concat(received') = taken'
    BY <2>1, <2>2, ConcatEmpty, ConcatEmptySeq
  <2>. QED  BY <1>1, <1>3, <1>4, <1>5, <1>6, <2>1, <2>2, <2>3 DEF Deliver, NoByteLost, Packet
<1>8. CASE ~on_packet
  <2>1. received' = Append(received, p) /\ taken' = taken
    BY <1>8 DEF Deliver
  <2>. QED  BY <1>1, <1>3, <1>4, <1>5, <1>6, <2>1 DEF Deliver, NoByteLost, Packet
<1>. QED  BY <1>7, <1>8

(* _channel_send: fragments go behind all others of their channel, in flight or *)
(* parked.                                                                      *)
LEMMA SendBehind ==
    ASSUME FrameType, ChannelInv, NEW c \in SendType, NEW L, loose \subseteq L,
           NEW fs \in Seq(Carried(c, L)), ChannelSend(c, fs)
    PROVE  /\ wire' \in [SendType -> Seq(Frag)] /\ parked' \in [SendType -> Seq(Frag)]
           /\ \A d \in SendType : /\ wire'[d] \in Seq(Carried(d, L))
                                  /\ parked'[d] \in Seq(Carried(d, L))
                                  /\ d # c => wire'[d] = wire[d] /\ parked'[d] = parked[d]
           /\ (open[c] => parked[c] = <<>>) =>
                /\ open[c] => parked'[c] = <<>>
                /\ wire'[c] \o parked'[c] = (wire[c] \o parked[c]) \o fs
<1>1. /\ wire \in [SendType -> Seq(Frag)] /\ parked \in [SendType -> Seq(Frag)]
      /\ wire[c] \in Seq(Frag) /\ parked[c] \in Seq(Frag) /\ fs \in Seq(Frag)
  <2>1. Carried(c, L) \subseteq Frag
    BY DEF Carried
  <2>2. fs \in Seq(Frag)
    BY <2>1, SeqMonotonic
  <2>. QED  BY <2>2 DEF FrameType
<1>2. \A d \in SendType : wire[d] \in Seq(Carried(d, L)) /\ parked[d] \in Seq(Carried(d, L))
  BY CarriedGrows DEF ChannelInv
<1>3. CASE open[c]
  <2>1. wire' = [wire EXCEPT ![c] = wire[c] \o fs] /\ parked' = parked
    BY <1>3 DEF ChannelSend
  <2>2. wire[c] \o fs \in Seq(Frag) /\ wire[c] \o fs \in Seq(Carried(c, L))
    BY <1>1, <1>2, ConcatProperties
  <2>3. wire'[c] = wire[c] \o fs /\ \A d \in SendType : d # c => wire'[d] = wire[d]
    BY <1>1, <2>1
  <2>4. wire' \in [SendType -> Seq(Frag)]
    BY <1>1, <2>1, <2>2
  <2>5. ASSUME parked[c] = <<>>
        PROVE  wire'[c] \o parked'[c] = (wire[c] \o parked[c]) \o fs
    <3>1. (wire[c] \o fs) \o <<>> = wire[c] \o fs /\ wire[c] \o <<>> = wire[c]
      BY <1>1, <2>2, ConcatEmptySeq
    <3>. QED  BY <2>1, <2>3, <2>5, <3>1
  <2>. QED  BY <1>1, <1>2, <1>3, <2>1, <2>2, <2>3, <2>4, <2>5
<1>4. CASE ~open[c]
  <2>1. parked' = [parked EXCEPT ![c] = parked[c] \o fs] /\ wire' = wire
    BY <1>4 DEF ChannelSend
  <2>2. parked[c] \o fs \in Seq(Frag) /\ parked[c] \o fs \in Seq(Carried(c, L))
    BY <1>1, <1>2, ConcatProperties
  <2>3. parked'[c] = parked[c] \o fs /\ \A d \in SendType : d # c => parked'[d] = parked[d]
    BY <1>1, <2>1
  <2>4. parked' \in [SendType -> Seq(Frag)]
    BY <1>1, <2>1, <2>2
  <2>5. wire'[c] \o parked'[c] = (wire[c] \o parked[c]) \o fs
    <3>. DEFINE a == wire[c]
                b == parked[c]
    <3>1. a \in Seq(Frag) /\ b \in Seq(Frag) /\ fs \in Seq(Frag)
      BY <1>1
    <3>. HIDE DEF a, b
    <3>2. (a \o b) \o fs = a \o (b \o fs)
      BY <3>1, FragmentsAssociative
    <3>. QED  BY <2>1, <2>3, <3>2 DEF a, b
  <2>. QED  BY <1>1, <1>2, <1>4, <2>1, <2>2, <2>3, <2>4, <2>5
<1>. QED  BY <1>3, <1>4

-----------------------------------------------------------------------------
(* One lemma per action. *)

LEMMA PushStep ==
    ASSUME FrameInv, NEW size \in Sizes, NEW type \in SendType, Push(size, type)
    PROVE  FrameInv' /\ [Fifo!Next]_(Fifo!vars)
<1>. DEFINE data == Data(count + 1, size)
<1>0. FrameType /\ ChannelInv /\ StreamInv /\ WholePackets /\ NoByteLost
  BY DEF FrameInv
<1>1. /\ count' = count + 1 /\ count \in Nat /\ size \in Nat
      /\ UNCHANGED <<open, dead, on_packet, reassembly, received, got, came, taken>>
  BY <1>0, FramingAssumption DEF Push, receiver, FrameType
<1>2. data \in Packet /\ Len(data) = size
  BY <1>1, DataIs
<1>3. NoByteLost'
  BY <1>0, <1>1 DEF NoByteLost
<1>4. CASE ~(Accepted(size, type) /\ type \notin dead)
  <2>1. UNCHANGED <<parked, wire, sent, loose>>
    BY <1>4 DEF Push
  <2>2. FrameType'
    BY <1>0, <1>1, <2>1 DEF FrameType
  <2>3. ChannelInv' /\ StreamInv' /\ WholePackets'
    BY <1>0, <1>1, <2>1 DEF ChannelInv, StreamInv, WholePackets
  <2>. QED  BY <1>1, <1>3, <2>1, <2>2, <2>3 DEF FrameInv, Fifo!vars
<1>5. CASE Accepted(size, type) /\ type \notin dead /\ type = "RELIABLE"
  <2>1. /\ ChannelSend("RELIABLE", Fragments(data)) /\ sent' = Append(sent, data)
        /\ loose' = loose /\ "RELIABLE" \in SendType
    BY <1>5 DEF Push
  <2>2. Fragments(data) \in Seq(Carried("RELIABLE", loose))
    BY <1>2, <1>5, PushCarries
  <2>. HIDE DEF data
  <2>3. /\ wire' \in [SendType -> Seq(Frag)] /\ parked' \in [SendType -> Seq(Frag)]
        /\ \A d \in SendType : /\ wire'[d] \in Seq(Carried(d, loose))
                               /\ parked'[d] \in Seq(Carried(d, loose))
        /\ (open["RELIABLE"] => parked["RELIABLE"] = <<>>) =>
             /\ open["RELIABLE"] => parked'["RELIABLE"] = <<>>
             /\ wire'["RELIABLE"] \o parked'["RELIABLE"]
                  = (wire["RELIABLE"] \o parked["RELIABLE"]) \o Fragments(data)
    BY <1>0, <2>1, <2>2, SendBehind
  <2>4. /\ sent \in Seq(Packet) /\ Len(sent) \in Nat /\ sent' \in Seq(Packet)
        /\ Len(sent') = Len(sent) + 1 /\ sent'[Len(sent) + 1] = data
        /\ \A i \in 1..Len(sent) : sent'[i] = sent[i]
    BY <1>0, <1>2, <2>1 DEF FrameType
  <2>5. FrameType'
    BY <1>0, <1>1, <2>1, <2>3, <2>4, SMTT(30) DEF FrameType
  <2>6. ChannelInv'
    BY <2>1, <2>3 DEF ChannelInv
  <2>7. StreamInv'
    <3>. DEFINE S == wire["RELIABLE"] \o parked["RELIABLE"]
                n == Len(got)
    <3>1. S \in Seq(Frag) /\ n \in Nat
      BY <1>0, <2>1, ConcatProperties DEF FrameType
    <3>2. PICK pk, fr : InTransit(S, sent, n, reassembly, pk, fr)
      BY <1>0 DEF StreamInv
    <3>3. \E pk2, fr2 : InTransit(S \o Fragments(data), sent', n, reassembly, pk2, fr2)
      <4>. HIDE DEF S, n
      <4>. QED  BY <1>2, <2>1, <2>4, <3>1, <3>2, PushExtends
    <3>4. wire'["RELIABLE"] \o parked'["RELIABLE"] = S \o Fragments(data)
      BY <1>0, <2>3 DEF StreamInv
    <3>5. open'["RELIABLE"] => parked'["RELIABLE"] = <<>>
      BY <1>0, <1>1, <2>3 DEF StreamInv
    <3>6. Len(got') <= Len(sent') /\ \A i \in 1..Len(got') : got'[i] = sent'[i]
      BY <1>0, <1>1, <2>4, <3>1 DEF StreamInv
    <3>. HIDE DEF S
    <3>. QED  BY <1>1, <3>3, <3>4, <3>5, <3>6 DEF StreamInv
  <2>8. WholePackets'
    <3>. SUFFICES ASSUME NEW j \in 1..Len(came)
                  PROVE  came[j] \in loose \/ \E m \in 1..Len(sent') : came[j] = sent'[m]
      BY <1>1, <2>1 DEF WholePackets
    <3>1. CASE came[j] \in loose
      BY <3>1
    <3>2. ASSUME NEW m \in 1..Len(sent), came[j] = sent[m] PROVE \E k \in 1..Len(sent') : came[j] = sent'[k]
      <4>1. m \in 1..Len(sent') /\ sent'[m] = sent[m]
        BY <2>4
      <4>. QED  BY <3>2, <4>1
    <3>. QED  BY <1>0, <3>1, <3>2 DEF WholePackets
  <2>9. Fifo!Send
    <3>1. SubSeq(sent', 1, Len(sent)) = sent
      BY <2>1, <2>4
    <3>. QED  BY <1>1, <1>2, <2>4, <3>1 DEF Fifo!Send
  <2>. QED  BY <1>3, <2>5, <2>6, <2>7, <2>8, <2>9 DEF FrameInv, Fifo!Next
<1>6. CASE Accepted(size, type) /\ type \notin dead /\ type = "UNRELIABLE"
  <2>1. /\ ChannelSend("UNRELIABLE", Fragments(data)) /\ loose' = loose \cup {data}
        /\ sent' = sent /\ "UNRELIABLE" \in SendType /\ "RELIABLE" \in SendType
    BY <1>6 DEF Push, SendType
  <2>2. Fragments(data) \in Seq(Carried("UNRELIABLE", loose'))
    BY <1>2, <1>6, <2>1, PushCarries
  <2>. HIDE DEF data
  <2>3. /\ wire' \in [SendType -> Seq(Frag)] /\ parked' \in [SendType -> Seq(Frag)]
        /\ \A d \in SendType :
             /\ wire'[d] \in Seq(Carried(d, loose')) /\ parked'[d] \in Seq(Carried(d, loose'))
             /\ d # "UNRELIABLE" => wire'[d] = wire[d] /\ parked'[d] = parked[d]
    BY <1>0, <2>1, <2>2, SendBehind
  <2>4. loose' \subseteq Packet
    BY <1>0, <1>2, <2>1 DEF FrameType
  <2>5. FrameType'
    BY <1>0, <1>1, <2>1, <2>3, <2>4, SMTT(30) DEF FrameType
  <2>6. ChannelInv'
    BY <2>3 DEF ChannelInv
  <2>7. wire'["RELIABLE"] = wire["RELIABLE"] /\ parked'["RELIABLE"] = parked["RELIABLE"]
    BY <2>1, <2>3
  <2>8. StreamInv'
    BY <1>0, <1>1, <2>1, <2>7 DEF StreamInv
  <2>9. WholePackets'
    BY <1>0, <1>1, <2>1 DEF WholePackets
  <2>. QED  BY <1>1, <1>3, <2>1, <2>5, <2>6, <2>8, <2>9 DEF FrameInv, Fifo!vars
<1>. QED  BY <1>4, <1>5, <1>6 DEF SendType

(* _handle_channel_open: what was parked goes behind what is in flight. *)
LEMMA OpenStep ==
    ASSUME FrameInv, NEW type \in SendType, ChannelOpens(type)
    PROVE  FrameInv' /\ UNCHANGED Fifo!vars
<1>0. FrameType /\ ChannelInv /\ StreamInv /\ WholePackets /\ NoByteLost
  BY DEF FrameInv
<1>1. /\ open' = [open EXCEPT ![type] = TRUE]
      /\ wire' = [wire EXCEPT ![type] = wire[type] \o parked[type]]
      /\ parked' = [parked EXCEPT ![type] = <<>>]
      /\ UNCHANGED <<count, dead, sent, loose, on_packet, reassembly, received, got, came, taken>>
  BY DEF ChannelOpens, Flushed, receiver
<1>2. /\ wire[type] \o parked[type] \in Seq(Frag)
      /\ wire[type] \o parked[type] \in Seq(Carried(type, loose))
  BY <1>0, ConcatProperties DEF FrameType, ChannelInv
<1>3. FrameType'
  BY <1>0, <1>1, <1>2 DEF FrameType
<1>4. /\ wire'[type] = wire[type] \o parked[type] /\ parked'[type] = <<>>
      /\ \A d \in SendType : d # type => /\ wire'[d] = wire[d] /\ parked'[d] = parked[d]
                                         /\ open'[d] = open[d]
  BY <1>0, <1>1 DEF FrameType
<1>5. ChannelInv'
  <2>. SUFFICES ASSUME NEW c \in SendType
                PROVE  wire'[c] \in Seq(Carried(c, loose)) /\ parked'[c] \in Seq(Carried(c, loose))
    BY <1>1 DEF ChannelInv
  <2>1. CASE c = type
    BY <1>2, <1>4, <2>1, EmptySeq
  <2>2. CASE c # type
    BY <1>0, <1>4, <2>2 DEF ChannelInv
  <2>. QED  BY <2>1, <2>2
<1>6. wire'["RELIABLE"] \o parked'["RELIABLE"] = wire["RELIABLE"] \o parked["RELIABLE"]
  <2>1. CASE type = "RELIABLE"
    BY <1>2, <1>4, <2>1, ConcatEmptySeq
  <2>2. CASE type # "RELIABLE"
    BY <1>4, <2>2 DEF SendType
  <2>. QED  BY <2>1, <2>2
<1>7. open'["RELIABLE"] => parked'["RELIABLE"] = <<>>
  <2>1. CASE type = "RELIABLE"
    BY <1>4, <2>1
  <2>2. CASE type # "RELIABLE"
    BY <1>0, <1>4, <2>2 DEF SendType, StreamInv
  <2>. QED  BY <2>1, <2>2
<1>8. StreamInv'
  BY <1>0, <1>1, <1>6, <1>7 DEF StreamInv
<1>9. WholePackets' /\ NoByteLost'
  BY <1>0, <1>1 DEF WholePackets, NoByteLost
<1>. QED  BY <1>1, <1>3, <1>5, <1>8, <1>9 DEF FrameInv, Fifo!vars

(* SCTP closes a channel: what is in flight may still arrive. *)
LEMMA CloseStep ==
    ASSUME FrameInv, NEW type \in SendType, ChannelCloses(type)
    PROVE  FrameInv' /\ UNCHANGED Fifo!vars
<1>1. /\ dead' = dead \cup {type}
      /\ UNCHANGED <<count, open, parked, wire, sent, loose, on_packet, reassembly, received, got,
                     came, taken>>
  BY DEF ChannelCloses, receiver
<1>2. FrameType'
  BY <1>1 DEF FrameInv, FrameType
<1>3. ChannelInv' /\ StreamInv' /\ WholePackets' /\ NoByteLost'
  BY <1>1 DEF FrameInv, ChannelInv, StreamInv, WholePackets, NoByteLost
<1>. QED  BY <1>1, <1>2, <1>3 DEF FrameInv, Fifo!vars

(* on_reliable_message: the packet that header 0 completes is the next one that *)
(* push accepted.                                                               *)
LEMMA ReliableStep ==
    ASSUME FrameInv, OnReliableMessage
    PROVE  FrameInv' /\ [Fifo!Next]_(Fifo!vars)
<1>. DEFINE w == wire["RELIABLE"]
            k == parked["RELIABLE"]
            f == Head(w)
            n == Len(got)
            buffer == reassembly \o f.payload
<1>0. FrameType /\ ChannelInv /\ StreamInv /\ WholePackets /\ NoByteLost
  BY DEF FrameInv
<1>1. /\ w # <<>> /\ wire' = [wire EXCEPT !["RELIABLE"] = Tail(w)]
      /\ UNCHANGED <<on_packet, count, open, dead, parked, sent, loose>>
  BY DEF OnReliableMessage, sender
<1>2. /\ w \in Seq(Frag) /\ k \in Seq(Frag) /\ w \in Seq(Carried("RELIABLE", loose))
      /\ n \in Nat /\ sent \in Seq(Packet) /\ got \in Seq(Packet) /\ Len(sent) \in Nat
  BY <1>0 DEF FrameType, ChannelInv, SendType
<1>3. /\ Tail(w) \in Seq(Frag) /\ Tail(w) \in Seq(Carried("RELIABLE", loose))
      /\ f \in Frag /\ f.payload \in Packet
  <2>1. Tail(w) \in Seq(Frag) /\ f \in Frag
    BY <1>1, <1>2, HeadTailProperties
  <2>2. Tail(w) \in Seq(Carried("RELIABLE", loose))
    BY <1>1, <1>2, HeadTailProperties
  <2>. QED  BY <2>1, <2>2 DEF Frag
<1>4. /\ wire' \in [SendType -> Seq(Frag)] /\ wire'["RELIABLE"] = Tail(w)
      /\ wire'["UNRELIABLE"] = wire["UNRELIABLE"]
  BY <1>0, <1>1, <1>3 DEF FrameType, SendType
<1>5. ChannelInv'
  BY <1>0, <1>1, <1>3, <1>4 DEF ChannelInv, SendType
<1>. HIDE DEF w
<1>6. /\ w \o k \in Seq(Frag) /\ w \o k # <<>> /\ Head(w \o k) = f /\ Tail(w \o k) = Tail(w) \o k
  <2>. HIDE DEF k
  <2>1. /\ w \o k \in Seq(Frag) /\ Len(w \o k) = Len(w) + Len(k) /\ Len(w) >= 1
        /\ Len(w) \in Nat /\ Len(k) \in Nat
        /\ \A i \in 1..(Len(w) + Len(k)) : (w \o k)[i] = IF i <= Len(w) THEN w[i] ELSE k[i - Len(w)]
    BY <1>1, <1>2, ConcatProperties
  <2>2. w \o k # <<>>
    BY <2>1
  <2>3. Head(w \o k) = f
    BY <2>1
  <2>4. /\ Tail(w \o k) \in Seq(Frag) /\ Len(Tail(w \o k)) = Len(w) + Len(k) - 1
        /\ \A i \in 1..(Len(w) + Len(k) - 1) : Tail(w \o k)[i] = (w \o k)[i + 1]
    BY <2>1, <2>2
  <2>5. /\ Tail(w) \o k \in Seq(Frag) /\ Len(Tail(w) \o k) = Len(w) + Len(k) - 1
        /\ \A i \in 1..(Len(w) + Len(k) - 1) : (Tail(w) \o k)[i] = (w \o k)[i + 1]
    BY <1>1, <1>2, <1>3, <2>1
  <2>6. Tail(w \o k) = Tail(w) \o k
    <3>. DEFINE a == Tail(w \o k)
                b == Tail(w) \o k
    <3>1. a \in Seq(Frag) /\ b \in Seq(Frag) /\ Len(a) = Len(b) /\ \A i \in 1..Len(a) : a[i] = b[i]
      BY <2>4, <2>5
    <3>. HIDE DEF a, b
    <3>2. a = b
      BY <3>1, SeqEqual
    <3>. QED  BY <3>2 DEF a, b
  <2>. QED  BY <2>1, <2>2, <2>3, <2>6
<1>7. PICK pk, fr : InTransit(w \o k, sent, n, reassembly, pk, fr)
  BY <1>0 DEF StreamInv, w
<1>8. /\ n < Len(sent)
      /\ f.header = 0 => /\ buffer = sent[n + 1]
                         /\ \E pk2, fr2 : InTransit(Tail(w) \o k, sent, n + 1, <<>>, pk2, fr2)
      /\ f.header # 0 => \E pk2, fr2 : InTransit(Tail(w) \o k, sent, n, buffer, pk2, fr2)
  <2>. DEFINE S == w \o k
  <2>1. /\ S \in Seq(Frag) /\ S # <<>> /\ Head(S) = f /\ Tail(S) = Tail(w) \o k
        /\ InTransit(S, sent, n, reassembly, pk, fr)
    BY <1>6, <1>7
  <2>. HIDE DEF S, f, k, n
  <2>2. /\ n < Len(sent)
        /\ Head(S).header = 0 =>
             /\ reassembly \o Head(S).payload = sent[n + 1]
             /\ \E pk2, fr2 : InTransit(Tail(S), sent, n + 1, <<>>, pk2, fr2)
        /\ Head(S).header # 0 =>
             \E pk2, fr2 : InTransit(Tail(S), sent, n, reassembly \o Head(S).payload, pk2, fr2)
    BY <1>2, <2>1, TakeFragment
  <2>. QED  BY <2>1, <2>2
<1>9. buffer \in Packet
  BY <1>0, <1>3, ConcatProperties DEF FrameType, Packet
<1>. HIDE DEF f, buffer
<1>10. CASE f.header = 0
  <2>1. reassembly' = <<>> /\ got' = Append(got, buffer) /\ Deliver(buffer)
    BY <1>10 DEF OnReliableMessage, w, f, buffer
  <2>2. /\ came' = Append(came, buffer)
        /\ came' \in Seq(Packet) /\ received' \in Seq(Packet) /\ taken' \in Packet /\ NoByteLost'
    BY <1>0, <1>9, <2>1, DeliverKeeps
  <2>3. <<>> \in Packet
    BY EmptySeq DEF Packet
  <2>4. FrameType'
    BY <1>0, <1>1, <1>2, <1>4, <1>9, <2>1, <2>2, <2>3 DEF FrameType
  <2>5. /\ Len(got') = n + 1 /\ got'[n + 1] = sent[n + 1] /\ \A i \in 1..n : got'[i] = got[i]
    BY <1>2, <1>8, <1>9, <1>10, <2>1
  <2>6. StreamInv'
    <3>1. Len(got') <= Len(sent') /\ \A i \in 1..Len(got') : got'[i] = sent'[i]
      <4>1. \A i \in 1..n : got[i] = sent[i]
        BY <1>0 DEF StreamInv
      <4>2. \A i \in 1..(n + 1) : i \in 1..n \/ i = n + 1
        BY <1>2
      <4>. HIDE DEF n
      <4>. QED  BY <1>1, <1>2, <1>8, <2>5, <4>1, <4>2
    <3>2. open'["RELIABLE"] => parked'["RELIABLE"] = <<>>
      BY <1>0, <1>1 DEF StreamInv
    <3>3. \E pk2, fr2 : InTransit(wire'["RELIABLE"] \o parked'["RELIABLE"], sent', Len(got'),
                                 reassembly', pk2, fr2)
      BY <1>1, <1>4, <1>8, <1>10, <2>1, <2>5
    <3>. QED  BY <3>1, <3>2, <3>3 DEF StreamInv
  <2>7. WholePackets'
    <3>. SUFFICES ASSUME NEW j \in 1..Len(came')
                  PROVE  came'[j] \in loose \/ \E m \in 1..Len(sent) : came'[j] = sent[m]
      BY <1>1 DEF WholePackets
    <3>1. came \in Seq(Packet)
      BY <1>0 DEF FrameType
    <3>2. CASE j = Len(came) + 1
      <4>1. came'[j] = sent[n + 1] /\ n + 1 \in 1..Len(sent)
        BY <1>2, <1>8, <1>9, <1>10, <2>2, <3>1, <3>2
      <4>. QED  BY <4>1
    <3>3. CASE j # Len(came) + 1
      <4>1. j \in 1..Len(came) /\ came'[j] = came[j]
        BY <1>9, <2>2, <3>1, <3>3
      <4>. QED  BY <1>0, <4>1 DEF WholePackets
    <3>. QED  BY <3>2, <3>3
  <2>8. Fifo!Deliver
    BY <1>1, <1>8, <1>10, <2>1 DEF Fifo!Deliver
  <2>. QED  BY <1>5, <2>2, <2>4, <2>6, <2>7, <2>8 DEF FrameInv, Fifo!Next
<1>11. CASE f.header # 0
  <2>1. reassembly' = buffer /\ UNCHANGED <<got, came, received, taken>>
    BY <1>11 DEF OnReliableMessage, w, f, buffer
  <2>2. FrameType'
    BY <1>0, <1>1, <1>4, <1>9, <2>1 DEF FrameType
  <2>3. StreamInv'
    <3>1. \E pk2, fr2 : InTransit(wire'["RELIABLE"] \o parked'["RELIABLE"], sent', Len(got'),
                                 reassembly', pk2, fr2)
      BY <1>1, <1>4, <1>8, <1>11, <2>1
    <3>. QED  BY <1>0, <1>1, <2>1, <3>1 DEF StreamInv
  <2>4. WholePackets' /\ NoByteLost'
    BY <1>0, <1>1, <2>1 DEF WholePackets, NoByteLost
  <2>. QED  BY <1>1, <1>5, <2>1, <2>2, <2>3, <2>4 DEF FrameInv, Fifo!vars
<1>. QED  BY <1>10, <1>11

(* A message leaves the unreliable channel, wherever it is in it. *)
LEMMA UnreliableWire ==
    ASSUME FrameInv, NEW j \in 1..Len(wire["UNRELIABLE"]),
           wire' = [wire EXCEPT !["UNRELIABLE"] = Without(@, j)], UNCHANGED sender
    PROVE  /\ wire' \in [SendType -> Seq(Frag)] /\ ChannelInv'
           /\ wire'["RELIABLE"] = wire["RELIABLE"]
<1>1. FrameType /\ ChannelInv /\ UNCHANGED <<parked, loose>>
  BY DEF FrameInv, sender
<1>. DEFINE u == Without(wire["UNRELIABLE"], j)
<1>2. u \in Seq(Frag) /\ u \in Seq(Carried("UNRELIABLE", loose))
  <2>1. wire["UNRELIABLE"] \in Seq(Frag) /\ wire["UNRELIABLE"] \in Seq(Carried("UNRELIABLE", loose))
    BY <1>1 DEF FrameType, ChannelInv, SendType
  <2>. QED  BY <2>1, WithoutType
<1>. HIDE DEF u
<1>3. wire' = [wire EXCEPT !["UNRELIABLE"] = u] /\ wire \in [SendType -> Seq(Frag)]
  BY <1>1 DEF u, FrameType
<1>4. /\ wire' \in [SendType -> Seq(Frag)] /\ wire'["UNRELIABLE"] = u
      /\ wire'["RELIABLE"] = wire["RELIABLE"]
  BY <1>2, <1>3 DEF SendType
<1>5. ChannelInv'
  BY <1>1, <1>2, <1>4 DEF ChannelInv, SendType
<1>. QED  BY <1>4, <1>5

LEMMA LoseStep ==
    ASSUME FrameInv, NEW j \in 1..Len(wire["UNRELIABLE"]), Lose(j)
    PROVE  FrameInv' /\ UNCHANGED Fifo!vars
<1>1. UNCHANGED <<count, open, dead, parked, sent, loose, on_packet, reassembly, received, got,
                  came, taken>>
  BY DEF Lose, sender, receiver
<1>2. /\ wire' \in [SendType -> Seq(Frag)] /\ ChannelInv' /\ wire'["RELIABLE"] = wire["RELIABLE"]
  BY UnreliableWire DEF Lose
<1>3. FrameType'
  BY <1>1, <1>2 DEF FrameInv, FrameType
<1>4. StreamInv' /\ WholePackets' /\ NoByteLost'
  BY <1>1, <1>2 DEF FrameInv, StreamInv, WholePackets, NoByteLost
<1>. QED  BY <1>1, <1>2, <1>3, <1>4 DEF FrameInv, Fifo!vars

(* on_unreliable_message: every message is a whole packet. *)
LEMMA UnreliableStep ==
    ASSUME FrameInv, NEW j \in 1..Len(wire["UNRELIABLE"]), OnUnreliableMessage(j)
    PROVE  FrameInv' /\ UNCHANGED Fifo!vars
<1>. DEFINE p == wire["UNRELIABLE"][j].payload
<1>0. FrameType /\ ChannelInv /\ StreamInv /\ WholePackets /\ NoByteLost
  BY DEF FrameInv
<1>1. UNCHANGED <<count, open, dead, parked, sent, loose, on_packet, reassembly, got>>
  BY DEF OnUnreliableMessage, sender
<1>2. /\ wire' \in [SendType -> Seq(Frag)] /\ ChannelInv' /\ wire'["RELIABLE"] = wire["RELIABLE"]
  BY UnreliableWire DEF OnUnreliableMessage
<1>3. p \in loose /\ p \in Packet
  <2>1. wire["UNRELIABLE"] \in Seq(Carried("UNRELIABLE", loose))
    BY <1>0 DEF ChannelInv, SendType
  <2>2. wire["UNRELIABLE"][j] \in Carried("UNRELIABLE", loose)
    BY <2>1, ElementOfSeq
  <2>. QED  BY <1>0, <2>2 DEF Carried, FrameType
<1>4. Deliver(p)
  BY DEF OnUnreliableMessage, WholeMessage
<1>. HIDE DEF p
<1>5. /\ came' = Append(came, p)
      /\ came' \in Seq(Packet) /\ received' \in Seq(Packet) /\ taken' \in Packet /\ NoByteLost'
  BY <1>0, <1>3, <1>4, DeliverKeeps
<1>6. FrameType'
  BY <1>0, <1>1, <1>2, <1>5 DEF FrameType
<1>7. StreamInv'
  BY <1>0, <1>1, <1>2 DEF StreamInv
<1>8. WholePackets'
  <2>. SUFFICES ASSUME NEW i \in 1..Len(came')
                PROVE  came'[i] \in loose \/ \E m \in 1..Len(sent) : came'[i] = sent[m]
    BY <1>1 DEF WholePackets
  <2>1. came \in Seq(Packet)
    BY <1>0 DEF FrameType
  <2>2. CASE i = Len(came) + 1
    BY <1>3, <1>5, <2>1, <2>2
  <2>3. CASE i # Len(came) + 1
    <3>1. i \in 1..Len(came) /\ came'[i] = came[i]
      BY <1>3, <1>5, <2>1, <2>3
    <3>. QED  BY <1>0, <3>1 DEF WholePackets
  <2>. QED  BY <2>2, <2>3
<1>. QED  BY <1>1, <1>2, <1>5, <1>6, <1>7, <1>8 DEF FrameInv, Fifo!vars

(* read(max_size): the rest of a packet read in part stays at the head. *)
LEMMA ReadStep ==
    ASSUME FrameInv, NEW max \in ReadSizes, Read(max)
    PROVE  FrameInv' /\ UNCHANGED Fifo!vars
<1>. DEFINE h == Head(received)
            n == Len(h)
            t == Tail(received)
            k == IF max >= n THEN n ELSE max
            a == SubSeq(h, 1, k)
            b == SubSeq(h, k + 1, n)
<1>0. FrameType /\ ChannelInv /\ StreamInv /\ WholePackets /\ NoByteLost
  BY DEF FrameInv
<1>1. UNCHANGED <<count, open, dead, parked, sent, loose, on_packet, wire, reassembly, got, came>>
  BY DEF Read, sender
<1>2. /\ received # <<>> /\ received \in Seq(Packet) /\ taken' = taken \o a
      /\ received' = IF max >= n THEN t ELSE [received EXCEPT ![1] = SubSeq(@, max + 1, Len(@))]
  BY <1>0 DEF Read, Rest, FrameType
<1>3. /\ h \in Seq(Byte) /\ n \in Nat /\ t \in Seq(Packet) /\ max \in Nat /\ taken \in Seq(Byte)
      /\ received[1] = h
  <2>1. h \in Packet /\ t \in Seq(Packet) /\ received[1] = h
    BY <1>2, HeadTailProperties
  <2>. QED  BY <1>0, <2>1, FramingAssumption DEF FrameType, Packet
<1>4. k \in 0..n /\ (max >= n => k = n) /\ (~(max >= n) => k = max)
  BY <1>3
<1>. HIDE DEF h, n, t, k
<1>5. a \o b = h /\ (k = n => a = h)
  <2>1. SubSeq(h, 1, n) = h
    BY <1>3, SubSeqFull DEF n
  <2>2. 1 \in 1..n + 1 /\ k \in (1 - 1)..n /\ n \in k..n
    BY <1>3, <1>4
  <2>3. a \o b = SubSeq(h, 1, n)
    BY <1>3, <2>2, ConcatAdjacentSubSeq DEF n
  <2>. QED  BY <2>1, <2>3
<1>6. a \in Seq(Byte) /\ b \in Seq(Byte)
  <2>1. (\A i \in 1..k : h[i] \in Byte) /\ (\A i \in (k + 1)..n : h[i] \in Byte)
    BY <1>3, <1>4 DEF n
  <2>2. k \in Int /\ k + 1 \in Int /\ n \in Int /\ 1 \in Int
    BY <1>3, <1>4
  <2>3. a \in Seq(Byte)
    BY <2>1, <2>2, SubSeqProperties
  <2>4. b \in Seq(Byte)
    BY <2>1, <2>2, SubSeqProperties
  <2>. QED  BY <2>3, <2>4
<1>7. ~(max >= n) => received' = [received EXCEPT ![1] = b]
  BY <1>2, <1>3, <1>4 DEF n
<1>. HIDE DEF a, b
<1>. DEFINE c == Concat(t)
<1>8. c \in Seq(Byte) /\ Concat(received) = h \o c
  BY <1>2, <1>3, ConcatType, ConcatTail DEF h, t, Packet
<1>9. received' \in Seq(Packet) /\ a \o Concat(received') = h \o c
  <2>1. CASE max >= n
    BY <1>2, <1>3, <1>4, <1>5, <2>1
  <2>2. CASE ~(max >= n)
    <3>. DEFINE r == [received EXCEPT ![1] = b]
    <3>1. /\ r \in Seq(Packet) /\ Len(r) = Len(received) /\ Len(received) \in Nat
          /\ Len(received) >= 1 /\ r[1] = b /\ \A i \in 2..Len(received) : r[i] = received[i]
      BY <1>2, <1>6 DEF Packet
    <3>. HIDE DEF r
    <3>2. r # <<>> /\ Head(r) = b
      BY <3>1
    <3>3. Tail(r) = t
      <4>1. /\ Tail(r) \in Seq(Packet) /\ Len(Tail(r)) = Len(received) - 1
            /\ \A i \in 1..(Len(received) - 1) : Tail(r)[i] = r[i + 1]
        BY <3>1, <3>2, HeadTailProperties
      <4>2. /\ Len(t) = Len(received) - 1
            /\ \A i \in 1..(Len(received) - 1) : t[i] = received[i + 1]
        BY <1>2, HeadTailProperties DEF t
      <4>3. \A i \in 1..(Len(received) - 1) : r[i + 1] = received[i + 1]
        BY <3>1
      <4>4. \A i \in 1..Len(t) : Tail(r)[i] = t[i]
        BY <4>1, <4>2, <4>3
      <4>. QED  BY <1>3, <4>1, <4>2, <4>4, SeqEqual
    <3>4. Concat(r) = b \o c
      BY <3>1, <3>2, <3>3, ConcatTail
    <3>. HIDE DEF c
    <3>5. a \o (b \o c) = (a \o b) \o c
      <4>1. a \in Seq(Byte) /\ b \in Seq(Byte) /\ c \in Seq(Byte)
        BY <1>6, <1>8
      <4>. QED  BY <4>1, BytesAssociative
    <3>6. received' = r
      BY <1>7, <2>2 DEF r
    <3>. QED  BY <1>5, <3>1, <3>4, <3>5, <3>6
  <2>. QED  BY <2>1, <2>2
<1>10. NoByteLost'
  <2>. DEFINE d == Concat(received')
  <2>1. d \in Seq(Byte) /\ a \o d = h \o c
    BY <1>9, ConcatType DEF Packet
  <2>. HIDE DEF c, d
  <2>2. (taken \o a) \o d = taken \o (a \o d)
    <3>1. taken \in Seq(Byte) /\ a \in Seq(Byte) /\ d \in Seq(Byte)
      BY <1>3, <1>6, <2>1
    <3>. QED  BY <3>1, BytesAssociative
  <2>3. Concat(came) = taken \o (h \o c)
    BY <1>0, <1>8 DEF NoByteLost
  <2>. QED  BY <1>1, <1>2, <2>1, <2>2, <2>3 DEF NoByteLost, d
<1>11. taken' \in Packet
  BY <1>2, <1>3, <1>6, ConcatProperties DEF Packet
<1>12. FrameType'
  BY <1>0, <1>1, <1>9, <1>11 DEF FrameType
<1>13. ChannelInv' /\ StreamInv' /\ WholePackets'
  BY <1>0, <1>1 DEF ChannelInv, StreamInv, WholePackets
<1>. QED  BY <1>1, <1>10, <1>12, <1>13 DEF FrameInv, Fifo!vars

-----------------------------------------------------------------------------
(* Results. *)

LEMMA FrameInit == Init => FrameInv /\ Fifo!Init
<1>. SUFFICES ASSUME Init PROVE FrameInv /\ Fifo!Init
  OBVIOUS
<1>1. /\ on_packet \in BOOLEAN /\ count = 0
      /\ open = [c \in SendType |-> FALSE] /\ dead = {}
      /\ parked = [c \in SendType |-> <<>>] /\ wire = [c \in SendType |-> <<>>]
      /\ reassembly = <<>> /\ received = <<>>
      /\ sent = <<>> /\ loose = {} /\ got = <<>> /\ came = <<>> /\ taken = <<>>
  BY DEF Init
<1>2. <<>> \in Packet
  BY EmptySeq DEF Packet
<1>3. FrameType
  BY <1>1, <1>2 DEF FrameType
<1>4. ChannelInv
  BY <1>1 DEF ChannelInv
<1>5. StreamInv
  <2>1. wire["RELIABLE"] \o parked["RELIABLE"] = <<>>
    BY <1>1 DEF SendType
  <2>. DEFINE one == [i \in 1..1 |-> 1]
  <2>2. one \in [1..1 -> Nat] /\ one[1] = 1
    OBVIOUS
  <2>. HIDE DEF one
  <2>3. InTransit(<<>>, <<>>, 0, <<>>, one, one)
    BY <2>2 DEF InTransit
  <2>4. \E pk, fr : InTransit(wire["RELIABLE"] \o parked["RELIABLE"], sent, Len(got),
                              reassembly, pk, fr)
    <3>1. Len(<<>>) = 0
      OBVIOUS
    <3>. QED  BY <1>1, <2>1, <2>3, <3>1
  <2>5. Len(got) <= Len(sent) /\ \A i \in 1..Len(got) : got[i] = sent[i]
    BY <1>1
  <2>6. ~open["RELIABLE"]
    BY <1>1 DEF SendType
  <2>. QED  BY <2>4, <2>5, <2>6 DEF StreamInv
<1>6. WholePackets
  BY <1>1 DEF WholePackets
<1>7. NoByteLost
  BY <1>1, ConcatEmpty DEF NoByteLost
<1>. QED  BY <1>1, <1>3, <1>4, <1>5, <1>6, <1>7 DEF FrameInv, Fifo!Init

LEMMA FrameStep == FrameInv /\ [Next]_vars => FrameInv' /\ [Fifo!Next]_(Fifo!vars)
<1>. SUFFICES ASSUME FrameInv, [Next]_vars
              PROVE  FrameInv' /\ [Fifo!Next]_(Fifo!vars)
  OBVIOUS
<1>1. ASSUME NEW size \in Sizes, NEW type \in SendType, Push(size, type)
      PROVE  FrameInv' /\ [Fifo!Next]_(Fifo!vars)
  BY <1>1, PushStep
<1>2. ASSUME NEW type \in SendType, ChannelOpens(type) \/ ChannelCloses(type)
      PROVE  FrameInv' /\ [Fifo!Next]_(Fifo!vars)
  BY <1>2, OpenStep, CloseStep
<1>3. CASE OnReliableMessage
  BY <1>3, ReliableStep
<1>4. ASSUME NEW j \in 1..Len(wire["UNRELIABLE"]), OnUnreliableMessage(j) \/ Lose(j)
      PROVE  FrameInv' /\ [Fifo!Next]_(Fifo!vars)
  BY <1>4, UnreliableStep, LoseStep
<1>5. ASSUME NEW max \in ReadSizes, Read(max)
      PROVE  FrameInv' /\ [Fifo!Next]_(Fifo!vars)
  BY <1>5, ReadStep
<1>6. CASE UNCHANGED vars
  <2>1. FrameInv'
    BY <1>6 DEF vars, FrameInv, FrameType, ChannelInv, StreamInv, WholePackets, NoByteLost
  <2>2. UNCHANGED Fifo!vars
    BY <1>6 DEF vars, Fifo!vars
  <2>. QED  BY <2>1, <2>2
<1>. QED  BY <1>1, <1>2, <1>3, <1>4, <1>5, <1>6 DEF Next

LEMMA FrameAlways == Spec => []FrameInv
BY FrameInit, FrameStep, PTL DEF Spec

(* push: for every fragment size and every packet size it accepts, each       *)
(* fragment fits into one SCTP message, its header into one byte, and the     *)
(* unreliable channel carries whole packets only.                             *)
THEOREM FragmentsFit == Spec => []FragmentFits
<1>1. ASSUME FrameInv PROVE FragmentFits
  <2>. SUFFICES ASSUME NEW c \in SendType, NEW s \in {wire[c], parked[c]}, NEW j \in 1..Len(s)
                PROVE  /\ 1 + Len(s[j].payload) <= MAX_MESSAGE_SIZE
                       /\ s[j].header \in 0..MAX_HEADER
                       /\ c = "UNRELIABLE" => s[j].header = 0
    BY DEF FragmentFits
  <2>1. s \in Seq(Carried(c, loose))
    BY <1>1 DEF FrameInv, ChannelInv
  <2>2. s[j] \in Carried(c, loose)
    BY <2>1, ElementOfSeq
  <2>. QED  BY <2>2 DEF Carried
<1>2. FrameInv => FragmentFits
  BY <1>1
<1>. QED  BY <1>2, FrameAlways, PTL

(* on_unreliable_message and on_reliable_message: whatever enters the receive *)
(* queue is a packet that push accepted, never a piece or a mixture.          *)
THEOREM PacketsStayWhole == Spec => []WholePackets
<1>1. FrameInv => WholePackets
  BY DEF FrameInv
<1>. QED  BY <1>1, FrameAlways, PTL

(* read and _deliver: the application obtains every byte that came once and   *)
(* in order, whatever sizes it reads.                                         *)
THEOREM NoByteIsLost == Spec => []NoByteLost
<1>1. FrameInv => NoByteLost
  BY DEF FrameInv
<1>. QED  BY <1>1, FrameAlways, PTL

(* The reliable channel implements a FIFO of whole packets: a push appends,   *)
(* the fragment with header 0 delivers the next packet, and every other step  *)
(* changes neither.                                                           *)
THEOREM ReliableIsFifo == Spec => ReliableFifo
BY FrameInit, FrameStep, FrameAlways, PTL DEF Spec, ReliableFifo, Fifo!Spec

=============================================================================
