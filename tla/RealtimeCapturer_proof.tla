----------------------- MODULE RealtimeCapturer_proof -----------------------
(***************************************************************************)
(* Proofs about RealtimeCapturer, for any number of connections and of     *)
(* strands, any streams and any lengths of the buffers and the queues.     *)
(***************************************************************************)
EXTENDS RealtimeCapturer, Basics

(* The head of a whole packet, whose port can be mapped.                   *)
LEMMA WholeHead ==
  ASSUME TypeOK, NEW c \in Conns, WholePacket(c)
  PROVE  /\ at + 1 \in 1 .. Len(buf[c]) /\ at + 2 \in 1 .. Len(buf[c])
         /\ buf[c][at + 1] \in [kind : {"head"}, pkt : Packets, port : 0 .. (Ports - 1)]
         /\ MappedPort(c) \in 0 .. (Ports - 1)
         /\ QueueOf(c) \in Strands
         /\ Packet(c) \in Queued
         /\ Packet(c).pkt = buf[c][at + 1].pkt
<1>1. /\ at \in Nat /\ buf[c] \in Seq(Units) /\ Len(buf[c]) \in Nat
      /\ at + 1 < Len(buf[c]) /\ buf[c][at + 1].kind = "head"
  BY DEF TypeOK, WholePacket
<1>2. at + 1 \in 1 .. Len(buf[c]) /\ at + 2 \in 1 .. Len(buf[c])
  BY <1>1
<1>3. buf[c][at + 1] \in Units
  BY <1>1, <1>2
<1>4. buf[c][at + 1] \in [kind : {"head"}, pkt : Packets, port : 0 .. (Ports - 1)]
  BY <1>1, <1>3 DEF Units
<1>5. /\ buf[c][at + 1].port \in Nat /\ buf[c][at + 1].pkt \in Packets
      /\ Ports \in Nat \ {0} /\ Threads \in Nat \ {0} /\ Shift \in Nat
  BY <1>4, CapturerAssumption
<1>6. \A p \in Nat, k, n \in Nat : k # 0 => (p + n) % k \in 0 .. (k - 1)
  OBVIOUS
<1>7. MappedPort(c) \in 0 .. (Ports - 1)
  BY <1>5, <1>6 DEF MappedPort
<1>8. QueueOf(c) \in 0 .. (Threads - 1)
  BY <1>5, <1>7 DEF QueueOf
<1> QED BY <1>2, <1>4, <1>5, <1>7, <1>8 DEF Strands, Packet, Queued

(* Mapping its port leaves the buffer as it is otherwise.                  *)
Mapped(c) == [buf[c] EXCEPT ![at + 1].port = MappedPort(c)]

LEMMA MappedLooks ==
  ASSUME TypeOK, NEW c \in Conns, WholePacket(c)
  PROVE  /\ Mapped(c) \in Seq(Units) /\ Len(Mapped(c)) = Len(buf[c])
         /\ \A i \in 1 .. Len(buf[c]) : Alike(Mapped(c)[i], buf[c][i])
<1> DEFINE h == buf[c][at + 1]
           g == [h EXCEPT !.port = MappedPort(c)]
<1>1. /\ at + 1 \in 1 .. Len(buf[c])
      /\ h \in [kind : {"head"}, pkt : Packets, port : 0 .. (Ports - 1)]
      /\ MappedPort(c) \in 0 .. (Ports - 1)
  BY WholeHead
<1>2. g \in Units /\ g.kind = h.kind /\ g.pkt = h.pkt
  BY <1>1 DEF Units
<1>3. Mapped(c) = [buf[c] EXCEPT ![at + 1] = g]
  BY DEF Mapped
<1>4. buf[c] \in Seq(Units) /\ Len(buf[c]) \in Nat
  BY DEF TypeOK
<1> HIDE DEF g
<1>5. /\ Mapped(c) \in Seq(Units) /\ Len(Mapped(c)) = Len(buf[c])
      /\ \A i \in 1 .. Len(buf[c]) : Mapped(c)[i] = IF i = at + 1 THEN g ELSE buf[c][i]
  BY <1>1, <1>2, <1>3, <1>4
<1> QED BY <1>2, <1>5 DEF Alike

-----------------------------------------------------------------------------
(* The counters.                                                           *)

(* What is read fits into the buffer, and nothing is read twice.           *)
LEMMA ReceivedFits ==
  ASSUME TypeOK, NEW c \in Conns, NEW n \in BytesTransferred(c), Received(c, n)
  PROVE  /\ wire' \in [Conns -> Seq(Units)] /\ buf' \in [Conns -> Seq(Units)]
         /\ \A d \in Conns : Len(buf'[d]) <= BufferLen
         /\ \A d \in Conns : buf'[d] \o wire'[d] = buf[d] \o wire[d]
<1>1. /\ wire \in [Conns -> Seq(Units)] /\ buf \in [Conns -> Seq(Units)]
      /\ \A d \in Conns : Len(buf[d]) <= BufferLen
      /\ BufferLen \in Nat
  BY CapturerAssumption DEF TypeOK
<1>2. /\ wire' = [wire EXCEPT ![c] = SubSeq(wire[c], n + 1, Len(wire[c]))]
      /\ buf' = [buf EXCEPT ![c] = buf[c] \o SubSeq(wire[c], 1, n)]
  BY DEF Received
<1> DEFINE w == wire[c]
           b == buf[c]
<1>3. w \in Seq(Units) /\ b \in Seq(Units) /\ Len(b) \in Nat /\ Len(w) \in Nat
      /\ Len(b) <= BufferLen
  BY <1>1
<1>4. n \in 0 .. Len(w) /\ Len(b) + n <= BufferLen
  BY <1>1, <1>3 DEF BytesTransferred
<1> HIDE DEF w, b
<1>5. SubSeq(w, n + 1, Len(w)) \in Seq(Units)
  BY <1>3, <1>4, Halves
<1>6. /\ b \o SubSeq(w, 1, n) \in Seq(Units)
      /\ Len(b \o SubSeq(w, 1, n)) = Len(b) + n
      /\ (b \o SubSeq(w, 1, n)) \o SubSeq(w, n + 1, Len(w)) = b \o w
  <2>1. n \in 0 .. Len(w)
    BY <1>4
  <2>2. \A r, s \in Seq(Units) : \A k \in 0 .. Len(s) :
          /\ r \o SubSeq(s, 1, k) \in Seq(Units)
          /\ Len(r \o SubSeq(s, 1, k)) = Len(r) + k
          /\ (r \o SubSeq(s, 1, k)) \o SubSeq(s, k + 1, Len(s)) = r \o s
    BY FrontMoves
  <2> QED BY <1>3, <2>1, <2>2, Zenon
<1>7. ASSUME NEW d \in Conns
      PROVE  Len(buf'[d]) <= BufferLen /\ buf'[d] \o wire'[d] = buf[d] \o wire[d]
  <2>1. CASE d = c
    BY <2>1, <1>1, <1>2, <1>4, <1>6 DEF w, b
  <2>2. CASE d # c
    BY <2>2, <1>1, <1>2
  <2> QED BY <2>1, <2>2
<1> QED BY <1>1, <1>2, <1>5, <1>6, <1>7 DEF w, b

LEMMA AcceptCounts ==
  ASSUME CounterInv, NEW c \in Conns, HandleAccept(c) \/ DelayedRead(c)
  PROVE  CounterInv'
<1>1. /\ phase' = [phase EXCEPT ![c] = "reading"]
      /\ UNCHANGED <<wire, buf, parsing, at, sentinel, pushed, jam, queues, size, hand,
                     injected>>
  BY DEF HandleAccept, DelayedRead, parser, strands
<1>2. TypeOK'
  BY <1>1 DEF CounterInv, Counters, TypeOK
<1>3. SizeAccounts'
  BY <1>1 DEF CounterInv, Counters, SizeAccounts, Uncounted
<1>4. ParserInv'
  BY <1>1 DEF CounterInv, Counters, TypeOK, ParserInv
<1> QED BY <1>1, <1>2, <1>3, <1>4 DEF CounterInv, Counters, HandsShort

LEMMA CloseIs ==
  ASSUME TypeOK, NEW c \in Conns, HandleEof(c) \/ HandleError(c)
  PROVE  /\ parsing = {}
         /\ phase' = [phase EXCEPT ![c] = "closed"]
         /\ buf' = [buf EXCEPT ![c] = <<>>]
         /\ wire' = [wire EXCEPT ![c] = <<>>]
         /\ UNCHANGED <<parsing, at, sentinel, pushed, jam, queues, size, hand, injected>>
<1>1. CASE HandleEof(c)
  BY <1>1 DEF HandleEof, Reading, parser, strands, TypeOK
<1>2. CASE HandleError(c)
  BY <1>2 DEF HandleError, Reading, parser, strands
<1> QED BY <1>1, <1>2

LEMMA CloseCounts ==
  ASSUME CounterInv, NEW c \in Conns, HandleEof(c) \/ HandleError(c)
  PROVE  CounterInv'
<1>1. /\ parsing = {}
      /\ phase' = [phase EXCEPT ![c] = "closed"]
      /\ buf' = [buf EXCEPT ![c] = <<>>]
      /\ wire' = [wire EXCEPT ![c] = <<>>]
      /\ UNCHANGED <<parsing, at, sentinel, pushed, jam, queues, size, hand, injected>>
  BY CloseIs DEF CounterInv, Counters
<1>2. TypeOK'
  <2>1. <<>> \in Seq(Units) /\ Len(<<>>) = 0 /\ 0 <= BufferLen
    BY CapturerAssumption
  <2> QED BY <1>1, <2>1 DEF CounterInv, Counters, TypeOK
<1>3. SizeAccounts'
  BY <1>1 DEF CounterInv, Counters, SizeAccounts, Uncounted
<1>4. ParserInv'
  BY <1>1 DEF CounterInv, Counters, TypeOK, ParserInv
<1> QED BY <1>1, <1>2, <1>3, <1>4 DEF CounterInv, Counters, HandsShort

LEMMA ReadCounts ==
  ASSUME CounterInv, NEW c \in Conns, HandleReadInJam(c) \/ HandleRead(c)
  PROVE  CounterInv'
<1> USE DEF CounterInv, Counters
<1>1. PICK n \in BytesTransferred(c) : Received(c, n)
  BY DEF HandleReadInJam, HandleRead
<1>2. /\ wire' \in [Conns -> Seq(Units)] /\ buf' \in [Conns -> Seq(Units)]
      /\ \A d \in Conns : Len(buf'[d]) <= BufferLen
  BY <1>1, ReceivedFits
<1>3. parsing = {} /\ phase[c] = "reading" /\ pushed = {}
  BY DEF HandleReadInJam, HandleRead, Reading, ParserInv
<1>4. UNCHANGED <<pushed, queues, size, hand, injected>>
  BY DEF HandleReadInJam, HandleRead, strands, parser
<1>5. SizeAccounts' /\ HandsShort'
  BY <1>4 DEF SizeAccounts, Uncounted, HandsShort
<1>6. CASE HandleReadInJam(c)
  <2>1. /\ jam' = ~ShortQueue /\ parsing' = parsing /\ at' = at /\ sentinel' = sentinel
        /\ phase' = [phase EXCEPT ![c] = IF jam' THEN "waiting" ELSE "reading"]
    BY <1>6 DEF HandleReadInJam, NextRead, parser
  <2>2. jam' \in BOOLEAN
    BY <2>1, Zenon
  <2>3. TypeOK'
    BY <1>2, <1>4, <2>1, <2>2 DEF TypeOK
  <2>4. ParserInv'
    BY <1>3, <1>4, <2>1 DEF ParserInv
  <2> QED BY <1>5, <2>3, <2>4 DEF HandsShort
<1>7. CASE HandleRead(c)
  <2>1. jam' = jam /\ phase' = phase /\ parsing' = {c} /\ at' = 0 /\ sentinel' = 0
    BY <1>7 DEF HandleRead
  <2>2. Cardinality({c}) = 1
    BY FS_Singleton
  <2>3. TypeOK'
    BY <1>2, <1>4, <2>1, <2>2 DEF TypeOK
  <2>4. Len(buf'[c]) \in Nat
    BY <1>2
  <2>5. ParserInv'
    BY <1>3, <1>4, <2>1, <2>4 DEF ParserInv
  <2> QED BY <1>5, <2>3, <2>5 DEF HandsShort
<1> QED BY <1>6, <1>7

LEMMA SkipCounts ==
  ASSUME CounterInv, NEW c \in Conns, SkipJunk(c)
  PROVE  CounterInv'
<1> USE DEF CounterInv, Counters
<1>1. /\ c \in parsing /\ pushed = {} /\ at < Len(buf[c]) /\ buf[c][at + 1].kind # "head"
      /\ at' = at + 1
      /\ UNCHANGED <<wire, buf, phase, parsing, sentinel, pushed, jam, queues, size, hand,
                     injected>>
  BY DEF SkipJunk, Scanning, More, conns, strands
<1>2. at \in Nat /\ sentinel \in 0 .. at /\ Len(buf[c]) \in Nat
  BY DEF TypeOK
<1>3. TypeOK'
  BY <1>1, <1>2 DEF TypeOK
<1>4. SizeAccounts' /\ HandsShort'
  BY <1>1 DEF SizeAccounts, Uncounted, HandsShort
<1>5. \A d \in parsing : d = c
  BY <1>1 DEF ParserInv
<1>6. ASSUME NEW i \in (sentinel + 1) .. (at + 1) PROVE buf[c][i].kind # "head"
  <2>1. i = at + 1 \/ i \in (sentinel + 1) .. at
    BY <1>2
  <2> QED BY <2>1, <1>1 DEF ParserInv
<1>7. at + 1 <= Len(buf[c])
  BY <1>1, <1>2
<1>8. ParserInv'
  BY <1>1, <1>5, <1>6, <1>7 DEF ParserInv
<1> QED BY <1>3, <1>4, <1>8

LEMMA PushCounts ==
  ASSUME CounterInv, NEW c \in Conns, Push(c)
  PROVE  CounterInv'
<1> USE DEF CounterInv, Counters
<1> DEFINE q == QueueOf(c)
<1>1. /\ c \in parsing /\ pushed = {} /\ WholePacket(c) /\ Len(queues[q]) < Capacity
      /\ buf' = [buf EXCEPT ![c] = Mapped(c)]
      /\ queues' = [queues EXCEPT ![q] = Append(queues[q], Packet(c))]
      /\ pushed' = {q}
      /\ UNCHANGED <<wire, phase, parsing, at, sentinel, jam, size, hand, injected>>
  BY DEF Push, Scanning, MapPort, Mapped, conns, strands
<1>2. /\ Mapped(c) \in Seq(Units) /\ Len(Mapped(c)) = Len(buf[c])
      /\ at + 2 \in 1 .. Len(buf[c]) /\ q \in Strands /\ Packet(c) \in Queued
  BY <1>1, WholeHead, MappedLooks
<1> HIDE DEF q
<1>3. /\ queues[q] \in Seq(Queued) /\ Len(queues[q]) \in Nat /\ Capacity \in Nat
      /\ Append(queues[q], Packet(c)) \in Seq(Queued)
      /\ Len(Append(queues[q], Packet(c))) = Len(queues[q]) + 1
  BY <1>2, CapturerAssumption DEF TypeOK
<1>4. TypeOK'
  <2>1. buf' \in [Conns -> Seq(Units)] /\ \A d \in Conns : Len(buf'[d]) <= BufferLen
    BY <1>1, <1>2 DEF TypeOK
  <2>2. queues' \in [Strands -> Seq(Queued)]
    BY <1>1, <1>2, <1>3 DEF TypeOK
  <2>3. \A s \in Strands : Len(queues'[s]) <= Capacity
    BY <1>1, <1>2, <1>3 DEF TypeOK
  <2> QED BY <1>1, <1>2, <2>1, <2>2, <2>3 DEF TypeOK
<1>5. SizeAccounts'
  <2> SUFFICES ASSUME NEW s \in Strands
               PROVE  size'[s] = Len(queues'[s]) + Len(hand'[s]) - Uncounted(s)'
    BY DEF SizeAccounts
  <2> DEFINE m == Len(queues[s])
             k == Len(hand[s])
  <2>1. /\ size[s] = m + k /\ size'[s] = size[s] /\ hand' = hand
    BY <1>1 DEF SizeAccounts, Uncounted, TypeOK
  <2>4. m \in Nat /\ k \in Nat
    BY DEF TypeOK
  <2>2. CASE s = q
    <3>1. Uncounted(s)' = 1 /\ Len(queues'[s]) = m + 1
      BY <2>2, <1>1, <1>3 DEF Uncounted, TypeOK
    <3> HIDE DEF m, k
    <3>2. m + k = (m + 1) + k - 1
      BY <2>4
    <3> QED BY <2>1, <3>1, <3>2, Zenon DEF k
  <2>3. CASE s # q
    <3>1. Uncounted(s)' = 0 /\ queues'[s] = queues[s]
      BY <2>3, <1>1 DEF Uncounted, TypeOK
    <3> QED BY <2>1, <3>1
  <2> QED BY <2>2, <2>3
<1>6. HandsShort'
  BY <1>1 DEF HandsShort
<1>7. \A d \in parsing : d = c
  BY <1>1 DEF ParserInv
<1>8. ParserInv'
  BY <1>1, <1>2, <1>7 DEF ParserInv, TypeOK
<1> QED BY <1>4, <1>5, <1>6, <1>8

LEMMA CountPushedCounts ==
  ASSUME CounterInv, NEW c \in Conns, CountPushed(c)
  PROVE  CounterInv'
<1> USE DEF CounterInv, Counters
<1>1. PICK q \in pushed : size' = [size EXCEPT ![q] = size[q] + 1]
  BY DEF CountPushed
<1>2. /\ c \in parsing /\ pushed' = {} /\ at' = at + 2 /\ sentinel' = at + 2
      /\ UNCHANGED <<wire, buf, phase, parsing, jam, queues, hand, injected>>
  BY DEF CountPushed, conns, strands
<1>3. q \in Strands /\ at \in Nat /\ size \in [Strands -> Int]
  BY <1>1 DEF TypeOK
<1>4. TypeOK'
  <2>1. size' \in [Strands -> Int]
    BY <1>1, <1>3
  <2> QED BY <1>2, <1>3, <2>1 DEF TypeOK
<1>5. \A s \in Strands : s # q => s \notin pushed
  BY <1>1 DEF ParserInv
<1>6. SizeAccounts'
  <2> SUFFICES ASSUME NEW s \in Strands
               PROVE  size'[s] = Len(queues[s]) + Len(hand[s]) - Uncounted(s)'
    BY <1>2 DEF SizeAccounts
  <2> DEFINE m == Len(queues[s])
             k == Len(hand[s])
             u == Uncounted(s)
  <2>1. size[s] = m + k - u /\ m \in Nat /\ k \in Nat /\ Uncounted(s)' = 0
    BY <1>2 DEF SizeAccounts, Uncounted, TypeOK
  <2>2. size'[s] = size[s] + u /\ u \in Int
    BY <1>1, <1>3, <1>5 DEF Uncounted
  <2> HIDE DEF m, k, u
  <2>3. size'[s] = m + k - 0
    BY <2>1, <2>2
  <2> QED BY <2>1, <2>3 DEF m, k
<1>7. HandsShort'
  BY <1>2 DEF HandsShort
<1>8. ParserInv'
  BY <1>1, <1>2, <1>3 DEF ParserInv
<1> QED BY <1>4, <1>6, <1>7, <1>8

LEMMA StopCounts ==
  ASSUME CounterInv, NEW c \in Conns, QueueFull(c) \/ EndParse(c)
  PROVE  CounterInv'
<1> USE DEF CounterInv, Counters
<1>1. /\ c \in parsing /\ pushed = {} /\ parsing' = {}
      /\ UNCHANGED <<wire, at, sentinel, pushed, queues, size, hand, injected>>
      /\ phase' \in [Conns -> {"none", "reading", "waiting", "closed"}]
  BY DEF QueueFull, EndParse, Scanning, strands, NextRead, TypeOK
<1>2. jam' \in BOOLEAN
  <2>1. jam' = TRUE \/ jam' = jam
    BY DEF QueueFull, EndParse
  <2>2. jam \in BOOLEAN
    BY DEF TypeOK
  <2> QED BY <2>1, <2>2, Zenon
<1>3. /\ sentinel \in 0 .. Len(buf[c]) /\ buf[c] \in Seq(Units) /\ Len(buf[c]) \in Nat
      /\ Len(buf[c]) <= BufferLen /\ BufferLen \in Nat
  BY <1>1, CapturerAssumption DEF ParserInv, TypeOK
<1>4. \E b \in Seq(Units) : /\ Len(b) = Len(buf[c])
                            /\ buf' = [buf EXCEPT ![c] = SubSeq(b, sentinel + 1, Len(b))]
  <2>1. CASE QueueFull(c)
    <3>1. Mapped(c) \in Seq(Units) /\ Len(Mapped(c)) = Len(buf[c])
      BY <2>1, MappedLooks DEF QueueFull
    <3>2. buf' = [buf EXCEPT ![c] = SubSeq(Mapped(c), sentinel + 1, Len(buf[c]))]
      BY <2>1 DEF QueueFull, Mapped
    <3> QED BY <3>1, <3>2
  <2>2. CASE EndParse(c)
    BY <2>2, <1>3 DEF EndParse, Discarded
  <2> QED BY <2>1, <2>2
<1>5. PICK b \in Seq(Units) : /\ Len(b) = Len(buf[c])
                             /\ buf' = [buf EXCEPT ![c] = SubSeq(b, sentinel + 1, Len(b))]
  BY <1>4
<1> DEFINE r == SubSeq(b, sentinel + 1, Len(b))
<1>6. r \in Seq(Units) /\ Len(r) = Len(b) - sentinel
  BY <1>3, <1>5, Halves
<1> HIDE DEF r
<1>7. Len(r) <= BufferLen
  BY <1>3, <1>5, <1>6
<1>8. buf' = [buf EXCEPT ![c] = r]
  BY <1>5 DEF r
<1>9. buf' \in [Conns -> Seq(Units)] /\ \A d \in Conns : Len(buf'[d]) <= BufferLen
  BY <1>6, <1>7, <1>8 DEF TypeOK
<1>10. TypeOK'
  <2>1. Cardinality({}) = 0
    BY FS_EmptySet
  <2> QED BY <1>1, <1>2, <1>9, <2>1 DEF TypeOK
<1>11. SizeAccounts' /\ HandsShort'
  BY <1>1 DEF SizeAccounts, Uncounted, HandsShort
<1>12. ParserInv'
  BY <1>1 DEF ParserInv
<1> QED BY <1>10, <1>11, <1>12

LEMMA PopCounts ==
  ASSUME CounterInv, NEW s \in Strands, Pop(s)
  PROVE  CounterInv'
<1> USE DEF CounterInv, Counters
<1>1. /\ hand[s] = <<>> /\ queues[s] # <<>>
      /\ hand' = [hand EXCEPT ![s] = <<Head(queues[s])>>]
      /\ queues' = [queues EXCEPT ![s] = Tail(queues[s])]
      /\ UNCHANGED <<wire, phase, buf, parsing, at, sentinel, pushed, jam, size, injected>>
  BY DEF Pop, conns, parser
<1>2. /\ <<Head(queues[s])>> \in Seq(Queued) /\ Tail(queues[s]) \in Seq(Queued)
      /\ Len(<<Head(queues[s])>>) = 1 /\ Len(Tail(queues[s])) = Len(queues[s]) - 1
      /\ Len(hand[s]) = 0 /\ Len(queues[s]) \in Nat /\ Len(queues[s]) <= Capacity
      /\ Capacity \in Nat
  BY <1>1, CapturerAssumption DEF TypeOK
<1> DEFINE x == <<Head(queues[s])>>
           y == Tail(queues[s])
<1> HIDE DEF x, y
<1>3. TypeOK'
  <2>1. hand' \in [Strands -> Seq(Queued)] /\ queues' \in [Strands -> Seq(Queued)]
    BY <1>1, <1>2 DEF TypeOK
  <2>2. \A r \in Strands : Len(queues'[r]) <= Capacity
    BY <1>1, <1>2 DEF TypeOK
  <2> QED BY <1>1, <2>1, <2>2 DEF TypeOK
<1>4. SizeAccounts'
  <2> SUFFICES ASSUME NEW r \in Strands
               PROVE  size[r] = Len(queues'[r]) + Len(hand'[r]) - Uncounted(r)
    BY <1>1 DEF SizeAccounts, Uncounted
  <2>1. CASE r = s
    <3>1. queues'[r] = y /\ hand'[r] = x
      BY <2>1, <1>1 DEF TypeOK, x, y
    <3>2. Len(y) = Len(queues[s]) - 1 /\ Len(x) = 1
      BY <1>2 DEF x, y
    <3> DEFINE m == Len(queues[s])
    <3>3. m \in Nat /\ Uncounted(s) \in Int /\ size[s] = m + 0 - Uncounted(s)
      <4>1. size[s] = Len(queues[s]) + Len(hand[s]) - Uncounted(s)
        BY DEF SizeAccounts
      <4>2. Uncounted(s) \in Int
        BY DEF Uncounted
      <4> QED BY <1>2, <4>1, <4>2
    <3>4. Len(y) = m - 1
      BY <3>2
    <3> HIDE DEF m
    <3>5. m + 0 - Uncounted(s) = (m - 1) + 1 - Uncounted(s)
      BY <3>3
    <3> QED BY <2>1, <3>1, <3>2, <3>3, <3>4, <3>5, Zenon
  <2>2. CASE r # s
    BY <2>2, <1>1 DEF SizeAccounts, TypeOK
  <2> QED BY <2>1, <2>2
<1>5. HandsShort'
  BY <1>1, <1>2 DEF HandsShort, TypeOK
<1>6. ParserInv'
  BY <1>1 DEF ParserInv
<1> QED BY <1>3, <1>4, <1>5, <1>6

LEMMA InjectCounts ==
  ASSUME CounterInv, NEW s \in Strands, Inject(s)
  PROVE  CounterInv'
<1> USE DEF CounterInv, Counters
<1>1. /\ hand[s] # <<>>
      /\ injected' = [injected EXCEPT ![s] = injected[s] \o hand[s]]
      /\ hand' = [hand EXCEPT ![s] = <<>>]
      /\ size' = [size EXCEPT ![s] = size[s] - 1]
      /\ UNCHANGED <<wire, phase, buf, parsing, at, sentinel, pushed, jam, queues>>
  BY DEF Inject, conns, parser
<1>2. /\ injected[s] \in Seq(Queued) /\ hand[s] \in Seq(Queued) /\ Len(hand[s]) <= 1
      /\ <<>> \in Seq(Queued) /\ Len(<<>>) = 0
  BY DEF TypeOK, HandsShort
<1>3. Len(hand[s]) = 1
  BY <1>1, <1>2, Short
<1>4. injected[s] \o hand[s] \in Seq(Queued)
  BY <1>2, ConcatProperties
<1>5. TypeOK'
  BY <1>1, <1>2, <1>4 DEF TypeOK
<1>6. SizeAccounts'
  <2> SUFFICES ASSUME NEW r \in Strands
               PROVE  size'[r] = Len(queues[r]) + Len(hand'[r]) - Uncounted(r)
    BY <1>1 DEF SizeAccounts, Uncounted
  <2>1. CASE r = s
    <3> DEFINE m == Len(queues[s])
    <3>1. /\ m \in Nat /\ Uncounted(s) \in Int /\ size[s] = m + 1 - Uncounted(s)
          /\ size'[s] = size[s] - 1
      <4>1. size[s] = Len(queues[s]) + Len(hand[s]) - Uncounted(s)
        BY DEF SizeAccounts
      <4>2. Uncounted(s) \in Int /\ m \in Nat
        BY DEF Uncounted, TypeOK
      <4>3. size'[s] = size[s] - 1
        BY <1>1 DEF TypeOK
      <4> QED BY <1>3, <4>1, <4>2, <4>3
    <3>2. hand'[s] = <<>>
      BY <1>1 DEF TypeOK
    <3> HIDE DEF m
    <3>3. size'[s] = m + 0 - Uncounted(s)
      BY <3>1
    <3> QED BY <2>1, <3>2, <3>3, <1>2 DEF m
  <2>2. CASE r # s
    BY <2>2, <1>1 DEF SizeAccounts, TypeOK
  <2> QED BY <2>1, <2>2
<1>7. HandsShort'
  BY <1>1, <1>2 DEF HandsShort, TypeOK
<1>8. ParserInv'
  BY <1>1 DEF ParserInv
<1> QED BY <1>5, <1>6, <1>7, <1>8

LEMMA CountersInit == ASSUME Init PROVE CounterInv
<1>1. Cardinality({}) = 0 /\ <<>> \in Seq(Units) /\ <<>> \in Seq(Queued) /\ Len(<<>>) = 0
  BY FS_EmptySet
<1>2. TypeOK
  <2>1. /\ wire \in [Conns -> Seq(Units)] /\ buf \in [Conns -> Seq(Units)]
        /\ \A c \in Conns : buf[c] = <<>>
    BY <1>1, CapturerAssumption DEF Init
  <2>2. jam \in BOOLEAN
    BY Zenon DEF Init
  <2>3. /\ BufferLen \in Nat /\ Capacity \in Nat
        /\ \A s \in Strands : queues[s] = <<>>
    BY CapturerAssumption DEF Init
  <2>4. /\ queues \in [Strands -> Seq(Queued)] /\ hand \in [Strands -> Seq(Queued)]
        /\ injected \in [Strands -> Seq(Queued)] /\ size \in [Strands -> Int]
    BY <1>1 DEF Init
  <2>5. /\ phase \in [Conns -> {"none", "reading", "waiting", "closed"}]
        /\ parsing = {} /\ at = 0 /\ sentinel = 0 /\ pushed = {}
    BY DEF Init
  <2> QED BY <1>1, <2>1, <2>2, <2>3, <2>4, <2>5 DEF TypeOK
<1>3. SizeAccounts
  BY <1>1 DEF Init, SizeAccounts, Uncounted
<1>4. ParserInv /\ HandsShort
  BY <1>1 DEF Init, ParserInv, HandsShort
<1> QED BY <1>2, <1>3, <1>4 DEF CounterInv, Counters

LEMMA CountersStutter == ASSUME CounterInv, UNCHANGED vars PROVE CounterInv'
<1>1. UNCHANGED <<wire, phase, buf, parsing, at, sentinel, pushed, jam, queues, size, hand,
                  injected>>
  BY DEF vars, conns, parser, strands
<1>2. TypeOK' /\ SizeAccounts'
  BY <1>1 DEF CounterInv, Counters, TypeOK, SizeAccounts, Uncounted
<1>3. ParserInv' /\ HandsShort'
  BY <1>1 DEF CounterInv, ParserInv, HandsShort
<1> QED BY <1>2, <1>3 DEF CounterInv, Counters

LEMMA CountersStep == ASSUME CounterInv, [Next]_vars PROVE CounterInv'
<1>1. ASSUME NEW c \in Conns,
             \/ HandleAccept(c) \/ HandleRead(c) \/ HandleReadInJam(c) \/ HandleEof(c)
             \/ HandleError(c) \/ DelayedRead(c) \/ Parse(c)
      PROVE  CounterInv'
  BY <1>1, AcceptCounts, ReadCounts, CloseCounts, SkipCounts, PushCounts,
     CountPushedCounts, StopCounts DEF Parse
<1>2. ASSUME NEW s \in Strands, Pop(s) \/ Inject(s) PROVE CounterInv'
  BY <1>2, PopCounts, InjectCounts
<1>3. ASSUME Idle \/ UNCHANGED vars PROVE CounterInv'
  BY <1>3, CountersStutter DEF Idle
<1> QED BY <1>1, <1>2, <1>3 DEF Next

-----------------------------------------------------------------------------
(* What is left of the streams, and what the strands were given.           *)

(* A packet is in one place of one stream.                                 *)
LEMMA OnePlace ==
  ASSUME NEW c \in Conns, NEW d \in Conns, NEW p \in Heads(c), NEW q \in Heads(d),
         Stream[c][p].pkt = Stream[d][q].pkt
  PROVE  c = d /\ p = q
<1>1. Stream \in [Conns -> Seq(Units)]
  BY CapturerAssumption
<1>2. DOMAIN Stream[c] = 1 .. Len(Stream[c]) /\ DOMAIN Stream[d] = 1 .. Len(Stream[d])
  BY <1>1
<1>3. /\ p \in DOMAIN Stream[c] /\ Stream[c][p].kind = "head"
      /\ q \in DOMAIN Stream[d] /\ Stream[d][q].kind = "head"
  BY <1>2 DEF Heads
<1> QED BY <1>3, StreamAssumption DEF IsHead

(* A packet is more than its head.                                         *)
LEMMA NextIsNoHead ==
  ASSUME NEW c \in Conns, NEW p \in Heads(c)
  PROVE  p + 1 \notin Heads(c)
<1>1. Stream[c] \in Seq(Units)
  BY CapturerAssumption
<1>2. DOMAIN Stream[c] = 1 .. Len(Stream[c]) /\ Len(Stream[c]) \in Nat
  BY <1>1
<1>3. p \in DOMAIN Stream[c] /\ Stream[c][p].kind = "head"
  BY <1>2 DEF Heads
<1>4. p < Len(Stream[c]) => Stream[c][p + 1].kind # "head"
  BY <1>3, StreamAssumption
<1> QED BY <1>2, <1>3, <1>4 DEF Heads

(* The end of one sequence, from f, before another.                        *)
EndBefore(r, b, f, w) ==
  /\ r \in Seq(Units) /\ Len(r) = (Len(b) - f) + Len(w)
  /\ \A i \in 1 .. Len(b) - f : r[i] = b[f + i]
  /\ \A i \in 1 .. Len(w) : r[(Len(b) - f) + i] = w[i]

LEMMA EndConcat ==
  ASSUME NEW b \in Seq(Units), NEW w \in Seq(Units), NEW f \in 0 .. Len(b)
  PROVE  EndBefore(SubSeq(b, f + 1, Len(b)) \o w, b, f, w)
<1> DEFINE a == SubSeq(b, f + 1, Len(b))
<1>1. /\ a \in Seq(Units) /\ Len(a) = Len(b) - f
      /\ \A i \in 1 .. Len(b) - f : a[i] = b[f + i]
  BY Halves
<1> HIDE DEF a
<1>2. /\ a \o w \in Seq(Units) /\ Len(a \o w) = Len(a) + Len(w)
      /\ \A i \in 1 .. Len(a) : (a \o w)[i] = a[i]
      /\ \A i \in 1 .. Len(w) : (a \o w)[Len(a) + i] = w[i]
  <2> DEFINE m == Len(a)
             n == Len(w)
             t == a \o w
  <2>1. /\ t \in Seq(Units) /\ Len(t) = m + n
        /\ \A i \in 1 .. m + n : t[i] = IF i <= m THEN a[i] ELSE w[i - m]
    BY <1>1, ConcatProperties
  <2>2. m \in Nat /\ n \in Nat
    BY <1>1
  <2> HIDE DEF m, n, t
  <2>3. \A i \in 1 .. m : t[i] = a[i]
    BY <2>1, <2>2
  <2>4. ASSUME NEW i \in 1 .. n PROVE t[m + i] = w[i]
    <3>1. m + i \in 1 .. m + n /\ ~(m + i <= m) /\ (m + i) - m = i
      BY <2>2
    <3> QED BY <2>1, <3>1
  <2> QED BY <2>1, <2>3, <2>4 DEF m, n, t
<1>3. /\ a \o w \in Seq(Units) /\ Len(a \o w) = (Len(b) - f) + Len(w)
      /\ \A i \in 1 .. Len(b) - f : (a \o w)[i] = b[f + i]
      /\ \A i \in 1 .. Len(w) : (a \o w)[(Len(b) - f) + i] = w[i]
  BY <1>1, <1>2
<1> QED BY <1>3 DEF a, EndBefore

(* Where the rest of a connection starts in its buffer.                    *)
From(c) == IF c \in parsing THEN (IF pushed = {} THEN sentinel ELSE at + 2) ELSE 0

LEMMA RestFrom ==
  ASSUME CounterInv, NEW c \in Conns
  PROVE  /\ From(c) \in 0 .. Len(buf[c]) /\ buf[c] \in Seq(Units) /\ wire[c] \in Seq(Units)
         /\ Len(buf[c]) \in Nat /\ Len(wire[c]) \in Nat
         /\ Rest(c) = SubSeq(buf[c], From(c) + 1, Len(buf[c])) \o wire[c]
<1>1. /\ buf[c] \in Seq(Units) /\ wire[c] \in Seq(Units) /\ at \in Nat
      /\ sentinel \in 0 .. at /\ Len(buf[c]) \in Nat /\ Len(wire[c]) \in Nat
  BY DEF CounterInv, Counters, TypeOK
<1>2. From(c) \in 0 .. Len(buf[c])
  BY <1>1 DEF CounterInv, ParserInv, From
<1>3. SubSeq(buf[c], 0 + 1, Len(buf[c])) = buf[c]
  BY <1>1
<1>4. Rest(c) = SubSeq(buf[c], From(c) + 1, Len(buf[c])) \o wire[c]
  BY <1>3 DEF Rest, From
<1> QED BY <1>1, <1>2, <1>4

LEMMA RestType ==
  ASSUME CounterInv, NEW c \in Conns
  PROVE  Rest(c) \in Seq(Units) /\ Len(Rest(c)) \in Nat
<1>1. EndBefore(Rest(c), buf[c], From(c), wire[c])
  BY RestFrom, EndConcat
<1>2. Rest(c) \in Seq(Units)
  BY <1>1 DEF EndBefore
<1> QED BY <1>2

SameRest(c) == /\ Len(Rest(c)') = Len(Rest(c))
               /\ \A i \in 1 .. Len(Rest(c)) : Alike(Rest(c)'[i], Rest(c)[i])

Quiet == /\ \A c \in Conns : SameRest(c)
         /\ \A s \in Strands : Passed(s)' = Passed(s)
         /\ \A c \in Conns : phase'[c] = "closed" <=> phase[c] = "closed"

LEMMA EqualIsSame == ASSUME NEW c, Rest(c)' = Rest(c) PROVE SameRest(c)
BY DEF SameRest, Alike

(* Steps that lose nothing and pass nothing on.                            *)
LEMMA StreamsKept ==
  ASSUME UNCHANGED <<wire, buf, parsing, sentinel, pushed>>,
         at' = at \/ pushed = {}
  PROVE  \A c \in Conns : SameRest(c)
<1>1. ASSUME NEW c \in Conns PROVE Rest(c)' = Rest(c)
  BY DEF Rest
<1> QED BY <1>1, EqualIsSame

LEMMA StrandsKept ==
  ASSUME UNCHANGED <<injected, hand, queues>>
  PROVE  \A s \in Strands : Passed(s)' = Passed(s)
BY DEF Passed

LEMMA AcceptQuiet ==
  ASSUME CounterInv, NEW c \in Conns, HandleAccept(c) \/ DelayedRead(c)
  PROVE  Quiet
<1>1. /\ phase[c] # "closed" /\ phase' = [phase EXCEPT ![c] = "reading"]
      /\ UNCHANGED <<wire, buf, parsing, at, sentinel, pushed, queues, hand, injected>>
  BY DEF HandleAccept, DelayedRead, parser, strands
<1>2. \A d \in Conns : phase'[d] = "closed" <=> phase[d] = "closed"
  BY <1>1 DEF CounterInv, Counters, TypeOK
<1> QED BY <1>1, <1>2, StreamsKept, StrandsKept DEF Quiet

LEMMA ReadQuiet ==
  ASSUME CounterInv, NEW c \in Conns, HandleReadInJam(c) \/ HandleRead(c)
  PROVE  Quiet
<1>1. PICK n \in BytesTransferred(c) : Received(c, n)
  BY DEF HandleReadInJam, HandleRead
<1>2. TypeOK
  BY DEF CounterInv, Counters
<1>3. /\ buf' \in [Conns -> Seq(Units)]
      /\ \A d \in Conns : buf'[d] \o wire'[d] = buf[d] \o wire[d]
  BY <1>1, <1>2, ReceivedFits
<1>4. parsing = {} /\ phase[c] = "reading" /\ pushed' = {}
  BY DEF HandleReadInJam, HandleRead, Reading, CounterInv, ParserInv, parser
<1>5. \A b \in Seq(Units) : SubSeq(b, 0 + 1, Len(b)) = b
  OBVIOUS
<1>6. ASSUME NEW d \in Conns PROVE Rest(d)' = buf'[d] \o wire'[d]
  <2>1. parsing' = {} \/ sentinel' = 0
    BY <1>4 DEF HandleReadInJam, HandleRead, parser
  <2>2. SubSeq(buf'[d], 0 + 1, Len(buf'[d])) = buf'[d]
    BY <1>3, <1>5
  <2> QED BY <1>4, <2>1, <2>2 DEF Rest
<1>7. ASSUME NEW d \in Conns PROVE Rest(d)' = Rest(d)
  <2>1. Rest(d) = buf[d] \o wire[d]
    BY <1>4 DEF Rest
  <2> QED BY <1>3, <1>6, <2>1
<1>8. UNCHANGED <<injected, hand, queues>>
  BY DEF HandleReadInJam, HandleRead, strands
<1>9. \A d \in Conns : phase'[d] = "closed" <=> phase[d] = "closed"
  BY <1>2, <1>4 DEF HandleReadInJam, HandleRead, NextRead, TypeOK
<1> QED BY <1>7, <1>8, <1>9, EqualIsSame, StrandsKept DEF Quiet

LEMMA SkipQuiet ==
  ASSUME CounterInv, NEW c \in Conns, SkipJunk(c)
  PROVE  Quiet
<1>1. /\ pushed = {}
      /\ UNCHANGED <<wire, phase, buf, parsing, sentinel, pushed, queues, hand, injected>>
  BY DEF SkipJunk, Scanning, conns, strands
<1> QED BY <1>1, StreamsKept, StrandsKept DEF Quiet

LEMMA CountPushedQuiet ==
  ASSUME CounterInv, NEW c \in Conns, CountPushed(c)
  PROVE  Quiet
<1>1. /\ pushed # {} /\ pushed' = {} /\ sentinel' = at + 2
      /\ UNCHANGED <<wire, phase, buf, parsing, queues, hand, injected>>
  BY DEF CountPushed, conns, strands
<1>2. ASSUME NEW d \in Conns PROVE Rest(d)' = Rest(d)
  BY <1>1 DEF Rest
<1> QED BY <1>1, <1>2, EqualIsSame, StrandsKept DEF Quiet

LEMMA StopQuiet ==
  ASSUME CounterInv, NEW c \in Conns, QueueFull(c) \/ EndParse(c)
  PROVE  Quiet
<1>1. /\ TypeOK /\ c \in parsing /\ pushed = {} /\ parsing' = {} /\ phase[c] = "reading"
      /\ UNCHANGED <<wire, injected, hand, queues>>
  BY DEF QueueFull, EndParse, Scanning, strands, CounterInv, Counters, ParserInv
<1>2. \A d \in Conns : phase'[d] = "closed" <=> phase[d] = "closed"
  BY <1>1 DEF QueueFull, EndParse, NextRead, TypeOK
<1>3. ASSUME NEW d \in Conns, d # c PROVE SameRest(d)
  <2>1. d \notin parsing /\ buf'[d] = buf[d]
    BY <1>1, <1>3 DEF CounterInv, ParserInv, QueueFull, EndParse, TypeOK
  <2>2. Rest(d)' = Rest(d)
    BY <1>1, <2>1 DEF Rest
  <2> QED BY <2>2, EqualIsSame
<1>4. SameRest(c)
  <2>1. CASE EndParse(c)
    <3>1. buf'[c] = SubSeq(buf[c], sentinel + 1, Len(buf[c]))
      BY <1>1, <2>1 DEF EndParse, Discarded, TypeOK
    <3>2. Rest(c)' = Rest(c)
      BY <1>1, <3>1 DEF Rest
    <3> QED BY <3>2, EqualIsSame
  <2>2. CASE QueueFull(c)
    <3> DEFINE b == buf[c]
               m == Mapped(c)
               w == wire[c]
    <3>1. /\ m \in Seq(Units) /\ Len(m) = Len(b)
          /\ \A i \in 1 .. Len(b) : Alike(m[i], b[i])
      BY <1>1, <2>2, MappedLooks DEF QueueFull
    <3>2. buf'[c] = SubSeq(m, sentinel + 1, Len(m))
      BY <1>1, <2>2, <3>1 DEF QueueFull, Mapped, TypeOK
    <3>3. /\ sentinel \in 0 .. Len(b) /\ b \in Seq(Units) /\ w \in Seq(Units)
          /\ Len(b) \in Nat /\ Len(w) \in Nat
          /\ Rest(c) = SubSeq(b, sentinel + 1, Len(b)) \o w
      BY <1>1, RestFrom DEF From
    <3>4. Rest(c)' = SubSeq(m, sentinel + 1, Len(m)) \o w
      BY <1>1, <3>2 DEF Rest
    <3> HIDE DEF b, m, w
    <3> DEFINE n == Len(b) - sentinel
    <3>5. /\ Len(Rest(c)) = n + Len(w)
          /\ \A i \in 1 .. n : Rest(c)[i] = b[sentinel + i]
          /\ \A i \in 1 .. Len(w) : Rest(c)[n + i] = w[i]
      <4>1. EndBefore(Rest(c), b, sentinel, w)
        BY <3>3, EndConcat
      <4> QED BY <4>1 DEF EndBefore
    <3>6. /\ Len(Rest(c)') = n + Len(w)
          /\ \A i \in 1 .. n : Rest(c)'[i] = m[sentinel + i]
          /\ \A i \in 1 .. Len(w) : Rest(c)'[n + i] = w[i]
      <4>1. EndBefore(Rest(c)', m, sentinel, w)
        BY <3>1, <3>3, <3>4, EndConcat
      <4> QED BY <3>1, <4>1 DEF EndBefore
    <3>7. n \in Nat /\ \A i \in 1 .. n : sentinel + i \in 1 .. Len(b)
      BY <3>3
    <3> HIDE DEF n
    <3>8. ASSUME NEW i \in 1 .. n + Len(w) PROVE Alike(Rest(c)'[i], Rest(c)[i])
      <4>1. CASE i \in 1 .. n
        BY <4>1, <3>1, <3>5, <3>6, <3>7
      <4>2. CASE i \notin 1 .. n
        <5>1. i - n \in 1 .. Len(w) /\ n + (i - n) = i
          BY <4>2, <3>3, <3>7
        <5>2. Rest(c)'[i] = Rest(c)[i]
          BY <5>1, <3>5, <3>6
        <5> QED BY <5>2 DEF Alike
      <4> QED BY <4>1, <4>2
    <3> QED BY <3>5, <3>6, <3>8 DEF SameRest
  <2> QED BY <2>1, <2>2
<1> QED BY <1>1, <1>2, <1>3, <1>4, StrandsKept DEF Quiet

LEMMA PopQuiet ==
  ASSUME CounterInv, NEW s \in Strands, Pop(s)
  PROVE  Quiet
<1>1. /\ hand[s] = <<>> /\ queues[s] # <<>>
      /\ hand' = [hand EXCEPT ![s] = <<Head(queues[s])>>]
      /\ queues' = [queues EXCEPT ![s] = Tail(queues[s])]
      /\ UNCHANGED <<wire, phase, buf, parsing, at, sentinel, pushed, injected>>
  BY DEF Pop, conns, parser
<1>2. queues[s] \in Seq(Queued) /\ injected[s] \in Seq(Queued)
  BY DEF CounterInv, Counters, TypeOK
<1> DEFINE r == injected[s]
           q == queues[s]
<1>3. Passed(s) = (r \o <<>>) \o q /\ r \in Seq(Queued) /\ q \in Seq(Queued) /\ q # <<>>
  BY <1>1, <1>2 DEF Passed
<1>4. Passed(s)' = (r \o <<Head(q)>>) \o Tail(q)
  BY <1>1 DEF Passed, CounterInv, Counters, TypeOK
<1> HIDE DEF r, q
<1>5. Head(q) \in Queued /\ r \o <<>> = r
  BY <1>3
<1>6. r \o <<Head(q)>> = Append(r, Head(q)) /\ Append(r, Head(q)) \o Tail(q) = r \o q
  BY <1>3, <1>5, AppendConcat, HeadMoves
<1>7. Passed(s)' = Passed(s)
  BY <1>3, <1>4, <1>5, <1>6
<1>8. ASSUME NEW t \in Strands, t # s PROVE Passed(t)' = Passed(t)
  BY <1>1, <1>8 DEF Passed, CounterInv, Counters, TypeOK
<1> QED BY <1>1, <1>7, <1>8, StreamsKept DEF Quiet

LEMMA InjectQuiet ==
  ASSUME CounterInv, NEW s \in Strands, Inject(s)
  PROVE  Quiet
<1>1. /\ injected' = [injected EXCEPT ![s] = injected[s] \o hand[s]]
      /\ hand' = [hand EXCEPT ![s] = <<>>]
      /\ UNCHANGED <<wire, phase, buf, parsing, at, sentinel, pushed, queues>>
  BY DEF Inject, conns, parser
<1>2. injected[s] \in Seq(Queued) /\ hand[s] \in Seq(Queued)
  BY DEF CounterInv, Counters, TypeOK
<1>3. (injected[s] \o hand[s]) \o <<>> = injected[s] \o hand[s]
  BY <1>2
<1>4. Passed(s)' = Passed(s)
  BY <1>1, <1>3 DEF Passed, CounterInv, Counters, TypeOK
<1>5. ASSUME NEW t \in Strands, t # s PROVE Passed(t)' = Passed(t)
  BY <1>1, <1>5 DEF Passed, CounterInv, Counters, TypeOK
<1> QED BY <1>1, <1>4, <1>5, StreamsKept DEF Quiet

LEMMA QuietPasses ==
  ASSUME CounterInv, PassedInv, Quiet
  PROVE  PassedInv'
<1>1. \A c \in Conns : /\ Gone(c)' = Gone(c) /\ Len(Rest(c)') = Len(Rest(c))
                       /\ \A i \in 1 .. Len(Rest(c)) : Alike(Rest(c)'[i], Rest(c)[i])
                       /\ phase'[c] = "closed" <=> phase[c] = "closed"
  BY DEF Quiet, SameRest, Gone
<1>2. \A s \in Strands : Passed(s)' = Passed(s)
  BY DEF Quiet
<1>3. RestIsEnd'
  <2>1. \A u, v, w : Alike(u, v) /\ Alike(v, w) => Alike(u, w)
    BY DEF Alike
  <2> QED BY <1>1, <2>1, Zenon DEF PassedInv, RestIsEnd
<1>4. PassedIsGone'
  <2> SUFFICES ASSUME NEW s \in Strands, NEW i \in 1 .. Len(Passed(s)')
               PROVE  \E c \in Conns : \E p \in Heads(c) :
                         p <= Gone(c)' /\ Stream[c][p].pkt = Passed(s)'[i].pkt
    BY Zenon DEF PassedIsGone
  <2>1. Passed(s)' = Passed(s)
    BY <1>2
  <2>2. \E c \in Conns : \E p \in Heads(c) :
           p <= Gone(c) /\ Stream[c][p].pkt = Passed(s)[i].pkt
    BY <2>1, Zenon DEF PassedInv, PassedIsGone
  <2> QED BY <1>1, <2>1, <2>2, Zenon
<1>5. GoneIsPassed'
  BY <1>1, <1>2 DEF PassedInv, GoneIsPassed
<1>6. PassedOnce' /\ InOrder'
  BY <1>2 DEF PassedInv, PassedOnce, InOrder
<1> QED BY <1>3, <1>4, <1>5, <1>6 DEF PassedInv

(* A connection that ends, or breaks, has no rest.                         *)
LEMMA ClosePasses ==
  ASSUME CounterInv, PassedInv, NEW c \in Conns, HandleEof(c) \/ HandleError(c)
  PROVE  PassedInv'
<1>1. /\ parsing = {}
      /\ phase' = [phase EXCEPT ![c] = "closed"]
      /\ buf' = [buf EXCEPT ![c] = <<>>]
      /\ wire' = [wire EXCEPT ![c] = <<>>]
      /\ UNCHANGED <<parsing, at, sentinel, pushed, queues, hand, injected>>
  BY CloseIs DEF CounterInv, Counters
<1>2. \A s \in Strands : Passed(s)' = Passed(s)
  BY <1>1, StrandsKept
<1>3. \A d \in Conns : d # c => /\ Rest(d)' = Rest(d) /\ Gone(d)' = Gone(d)
                               /\ phase'[d] = phase[d]
  BY <1>1 DEF Rest, Gone, CounterInv, Counters, TypeOK
<1>4. phase'[c] = "closed" /\ Len(Rest(c)') = 0
  <2>1. <<>> \o <<>> = <<>> /\ Len(<<>>) = 0
    OBVIOUS
  <2> QED BY <1>1, <2>1 DEF Rest, CounterInv, Counters, TypeOK
<1>5. /\ Len(Stream[c]) \in Nat /\ Len(Rest(c)) \in Nat
      /\ Gone(c) \in Int /\ Gone(c) <= Gone(c)'
      /\ \A p \in Heads(c) : p \in Nat
  BY <1>4, RestType, CapturerAssumption DEF Gone, Heads
<1>6. RestIsEnd'
  <2> SUFFICES ASSUME NEW d \in Conns
               PROVE  /\ Len(Rest(d)') <= Len(Stream[d])
                      /\ \A i \in 1 .. Len(Rest(d)') :
                            Alike(Rest(d)'[i], Stream[d][Gone(d)' + i])
    BY DEF RestIsEnd
  <2>1. CASE d = c
    BY <2>1, <1>4, <1>5
  <2>2. CASE d # c
    BY <2>2, <1>3, Zenon DEF PassedInv, RestIsEnd
  <2> QED BY <2>1, <2>2
<1>7. PassedIsGone'
  <2> SUFFICES ASSUME NEW s \in Strands, NEW i \in 1 .. Len(Passed(s))
               PROVE  \E d \in Conns : \E p \in Heads(d) :
                        p <= Gone(d)' /\ Stream[d][p].pkt = Passed(s)[i].pkt
    BY <1>2 DEF PassedIsGone
  <2>0. PICK d \in Conns : \E p \in Heads(d) :
          p <= Gone(d) /\ Stream[d][p].pkt = Passed(s)[i].pkt
    BY DEF PassedInv, PassedIsGone
  <2>1. PICK p \in Heads(d) :
          p <= Gone(d) /\ Stream[d][p].pkt = Passed(s)[i].pkt
    BY <2>0
  <2>2. p <= Gone(d)'
    <3>1. CASE d = c
      <4>1. p \in Nat /\ Gone(c)' \in Int
        BY <3>1, <1>4, <1>5 DEF Gone
      <4> QED BY <2>1, <3>1, <4>1, <1>5
    <3>2. CASE d # c
      BY <2>1, <3>2, <1>3
    <3> QED BY <3>1, <3>2
  <2> QED BY <2>1, <2>2
<1>8. GoneIsPassed'
  BY <1>2, <1>3, <1>4 DEF PassedInv, GoneIsPassed
<1>9. PassedOnce' /\ InOrder'
  BY <1>2 DEF PassedInv, PassedOnce, InOrder
<1> QED BY <1>6, <1>7, <1>8, <1>9 DEF PassedInv

(* What a push takes off the rest of its connection: the packet and what   *)
(* was skipped before it.                                                  *)
Taken == at + 2 - sentinel

LEMMA PushMoves ==
  ASSUME CounterInv, NEW c \in Conns, Push(c), NEW q, q = QueueOf(c)
  PROVE  /\ \A d \in Conns : d # c => Rest(d)' = Rest(d)
         /\ \A s \in Strands : s # q => Passed(s)' = Passed(s)
         /\ Passed(q)' = Append(Passed(q), Packet(c))
         /\ phase' = phase
         /\ Taken - 1 \in 1 .. Len(Rest(c)) /\ Taken \in 1 .. Len(Rest(c))
         /\ Len(Rest(c)') = Len(Rest(c)) - Taken
         /\ \A i \in 1 .. Len(Rest(c)') : Alike(Rest(c)'[i], Rest(c)[Taken + i])
         /\ IsHead(Rest(c)[Taken - 1], Packet(c).pkt)
         /\ \A i \in 1 .. Taken - 2 : Rest(c)[i].kind # "head"
<1> USE DEF CounterInv, Counters
<1> DEFINE b == buf[c]
           m == Mapped(c)
           w == wire[c]
<1>1. /\ c \in parsing /\ pushed = {} /\ WholePacket(c)
      /\ buf' = [buf EXCEPT ![c] = Mapped(c)]
      /\ queues' = [queues EXCEPT ![q] = Append(queues[q], Packet(c))]
      /\ pushed' = {q}
      /\ UNCHANGED <<wire, phase, parsing, at, sentinel, hand, injected>>
  BY DEF Push, Scanning, MapPort, Mapped, conns, strands
<1>2. /\ m \in Seq(Units) /\ Len(m) = Len(b) /\ w \in Seq(Units) /\ b \in Seq(Units)
      /\ Len(b) \in Nat /\ Len(w) \in Nat
      /\ \A i \in 1 .. Len(b) : Alike(m[i], b[i])
      /\ at + 2 \in 1 .. Len(b) /\ q \in Strands /\ Packet(c) \in Queued
      /\ at \in Nat /\ sentinel \in 0 .. at
  BY <1>1, WholeHead, MappedLooks DEF TypeOK
<1>3. b[at + 1].kind = "head" /\ b[at + 1].pkt = Packet(c).pkt
  BY <1>1 DEF WholePacket, Packet
<1>4. \A i \in (sentinel + 1) .. at : b[i].kind # "head"
  BY <1>1 DEF ParserInv
<1>5. ASSUME NEW d \in Conns, d # c PROVE Rest(d)' = Rest(d)
  <2>1. d \notin parsing /\ buf'[d] = buf[d]
    BY <1>1, <1>5 DEF ParserInv, TypeOK
  <2> QED BY <1>1, <2>1 DEF Rest
<1>6. ASSUME NEW s \in Strands, s # q PROVE Passed(s)' = Passed(s)
  BY <1>1, <1>6 DEF Passed, TypeOK
<1>7. Passed(q)' = Append(Passed(q), Packet(c))
  <2> DEFINE r == injected[q] \o hand[q]
             u == queues[q]
  <2>1. r \in Seq(Queued) /\ u \in Seq(Queued)
    BY <1>2, ConcatProperties DEF TypeOK
  <2>2. Passed(q)' = r \o Append(u, Packet(c)) /\ Passed(q) = r \o u
    <3>1. q \in Strands /\ queues'[q] = Append(u, Packet(c))
      BY <1>1, <1>2 DEF TypeOK
    <3>2. injected' = injected /\ hand' = hand
      BY <1>1
    <3> QED BY <3>1, <3>2, Zenon DEF Passed
  <2> HIDE DEF r, u
  <2>3. r \o Append(u, Packet(c)) = Append(r \o u, Packet(c))
    <3>1. Packet(c) \in Queued
      BY <1>2
    <3> QED BY <2>1, <3>1, AppendConcat
  <2> QED BY <2>2, <2>3, Zenon
<1>8. EndBefore(Rest(c), b, sentinel, w)
  <2>1. Rest(c) = SubSeq(b, sentinel + 1, Len(b)) \o w
    BY <1>1 DEF Rest
  <2> QED BY <1>2, <2>1, EndConcat
<1>9. EndBefore(Rest(c)', m, at + 2, w)
  <2>1. Rest(c)' = SubSeq(m, (at + 2) + 1, Len(m)) \o w
    BY <1>1 DEF Rest, TypeOK
  <2> HIDE DEF m, b, w
  <2>2. at + 2 \in 0 .. Len(m)
    BY <1>2
  <2> QED BY <1>2, <2>1, <2>2, EndConcat
<1> HIDE DEF m, b, w
<1> DEFINE n == Len(b)
           k == Len(w)
           R == Rest(c)
           Rn == Rest(c)'
<1>10. /\ n \in Nat /\ k \in Nat /\ at + 2 <= n /\ at \in Nat /\ sentinel \in 0 .. at
  BY <1>2
<1>11. /\ Len(R) = (n - sentinel) + k
       /\ \A i \in 1 .. n - sentinel : R[i] = b[sentinel + i]
       /\ \A i \in 1 .. k : R[(n - sentinel) + i] = w[i]
  BY <1>8 DEF EndBefore
<1>12. /\ Len(Rn) = (n - (at + 2)) + k
       /\ \A i \in 1 .. n - (at + 2) : Rn[i] = m[(at + 2) + i]
       /\ \A i \in 1 .. k : Rn[(n - (at + 2)) + i] = w[i]
  BY <1>9, <1>2 DEF EndBefore
<1> HIDE DEF n, k, R, Rn
<1>13. Taken - 1 \in 1 .. Len(R) /\ Taken \in 1 .. Len(R) /\ Len(Rn) = Len(R) - Taken
  <2> DEFINE lR == Len(R)
             lN == Len(Rn)
             t == Taken
  <2>1. lR = (n - sentinel) + k /\ lN = (n - (at + 2)) + k
    BY <1>11, <1>12
  <2>2. t = (at + 2) - sentinel
    BY <1>10 DEF Taken
  <2> HIDE DEF lR, lN, t
  <2>3. /\ t - 1 >= 1 /\ t <= lR /\ lN = lR - t
        /\ lR \in Nat /\ t \in Nat
    BY <2>1, <2>2, <1>10
  <2>4. t - 1 \in 1 .. lR /\ t \in 1 .. lR /\ lN = lR - t
    BY <2>3
  <2> QED BY <2>4, Zenon DEF lR, lN, t
<1>14. IsHead(R[Taken - 1], Packet(c).pkt)
  <2>1. Taken - 1 \in 1 .. n - sentinel /\ sentinel + (Taken - 1) = at + 1
    BY <1>10 DEF Taken
  <2>2. R[Taken - 1] = b[at + 1]
    BY <1>11, <2>1
  <2> QED BY <1>3, <2>2 DEF IsHead
<1>15. ASSUME NEW i \in 1 .. Taken - 2 PROVE R[i].kind # "head"
  <2>1. i \in 1 .. n - sentinel /\ sentinel + i \in (sentinel + 1) .. at
    BY <1>10 DEF Taken
  <2> QED BY <1>4, <1>11, <2>1
<1>16. ASSUME NEW i \in 1 .. Len(Rn) PROVE Alike(Rn[i], R[Taken + i])
  <2>1. CASE i <= n - (at + 2)
    <3>1. /\ i \in 1 .. n - (at + 2) /\ Taken + i \in 1 .. n - sentinel
          /\ sentinel + (Taken + i) = (at + 2) + i /\ (at + 2) + i \in 1 .. n
      BY <2>1, <1>10 DEF Taken
    <3>2. Rn[i] = m[(at + 2) + i] /\ R[Taken + i] = b[(at + 2) + i]
      BY <3>1, <1>11, <1>12
    <3> QED BY <3>1, <3>2, <1>2 DEF n
  <2>2. CASE ~(i <= n - (at + 2))
    <3> DEFINE j == i - (n - (at + 2))
    <3>1. /\ j \in 1 .. k /\ i = (n - (at + 2)) + j
          /\ Taken + i = (n - sentinel) + j
      BY <2>2, <1>10, <1>12 DEF Taken
    <3> HIDE DEF j
    <3>2. Rn[i] = w[j] /\ R[Taken + i] = w[j]
      BY <3>1, <1>11, <1>12
    <3> QED BY <3>2 DEF Alike
  <2> QED BY <2>1, <2>2
<1> QED BY <1>1, <1>5, <1>6, <1>7, <1>13, <1>14, <1>15, <1>16, Zenon DEF R, Rn

LEMMA PushPasses ==
  ASSUME CounterInv, PassedInv, NEW c \in Conns, Push(c)
  PROVE  PassedInv'
<1>0. PICK q : q = QueueOf(c)
  OBVIOUS
<1> DEFINE R == Rest(c)
           g == Gone(c)
           n == Packet(c).pkt
           x == g + Taken - 1
           k == Len(Rest(c))
           l == Len(Stream[c])
<1>1. /\ \A d \in Conns : d # c => Rest(d)' = Rest(d)
      /\ \A s \in Strands : s # q => Passed(s)' = Passed(s)
      /\ Passed(q)' = Append(Passed(q), Packet(c))
      /\ phase' = phase
      /\ Taken - 1 \in 1 .. k /\ Taken \in 1 .. k
      /\ Len(Rest(c)') = k - Taken
      /\ \A i \in 1 .. Len(Rest(c)') : Alike(Rest(c)'[i], R[Taken + i])
      /\ IsHead(R[Taken - 1], n)
      /\ \A i \in 1 .. Taken - 2 : R[i].kind # "head"
  BY <1>0, PushMoves
<1>2. /\ k \in Nat /\ l \in Nat /\ k <= l /\ g = l - k
      /\ \A i \in 1 .. k : Alike(R[i], Stream[c][g + i])
      /\ phase[c] # "closed"
  <2>1. k \in Nat /\ l \in Nat
    BY RestType, CapturerAssumption
  <2>2. k <= l /\ \A i \in 1 .. k : Alike(R[i], Stream[c][g + i])
    BY DEF PassedInv, RestIsEnd
  <2>3. phase[c] = "reading"
    BY DEF Push, Scanning, CounterInv, ParserInv
  <2> QED BY <2>1, <2>2, <2>3 DEF Gone
<1>3. q \in Strands /\ Packet(c) \in Queued
  BY <1>0, WholeHead DEF Push, CounterInv, Counters
<1>4. \A s \in Strands : Passed(s) \in Seq(Queued)
  BY ConcatProperties DEF Passed, CounterInv, Counters, TypeOK
<1>19. Longer(Passed(q)', Passed(q), Packet(c))
  <2>1. Longer(Append(Passed(q), Packet(c)), Passed(q), Packet(c))
    BY <1>3, <1>4, AppendLonger
  <2> QED BY <2>1, <1>1, Zenon
<1>16. Heads(c) \subseteq 1 .. l
  BY DEF Heads
<1>17. Gone(c)' = l - (k - Taken)
  BY <1>1 DEF Gone
<1> HIDE DEF R, g, n, k, l
<1>18. Taken \in Nat /\ Taken - 1 \in 1 .. k /\ Taken \in 1 .. k /\ g \in Nat
  <2>1. Taken \in Int
    BY DEF Taken, CounterInv, Counters, TypeOK
  <2> QED BY <2>1, <1>1, <1>2
<1>5. x \in Heads(c) /\ Stream[c][x].pkt = n /\ x \in Nat /\ x <= l
  <2>1. x = g + (Taken - 1) /\ x \in 1 .. l
    BY <1>2, <1>18
  <2>2. Alike(R[Taken - 1], Stream[c][x])
    BY <1>1, <1>2, <2>1
  <2> QED BY <1>1, <2>1, <2>2 DEF Alike, IsHead, Heads, l
<1>6. ASSUME NEW p \in Heads(c), p <= g + Taken PROVE p <= g \/ p = x
  <2>1. p \in Nat /\ p \in 1 .. l /\ Stream[c][p].kind = "head"
    BY <1>16 DEF Heads
  <2>2. p # x + 1
    BY <1>5, NextIsNoHead
  <2>3. CASE g < p /\ p < x
    <3>1. p - g \in 1 .. Taken - 2 /\ p - g \in 1 .. k /\ g + (p - g) = p
      BY <2>1, <2>3, <1>2, <1>18
    <3>2. R[p - g].kind # "head" /\ Alike(R[p - g], Stream[c][p])
      BY <3>1, <1>1, <1>2
    <3> QED BY <2>1, <3>2 DEF Alike
  <2> QED BY <2>1, <2>2, <2>3, <1>2, <1>6, <1>18
<1>7. /\ Gone(c)' = g + Taken
      /\ \A d \in Conns : d # c => Gone(d)' = Gone(d)
  <2>1. Gone(c)' = g + Taken
    BY <1>2, <1>17, <1>18
  <2>2. ASSUME NEW d \in Conns, d # c PROVE Gone(d)' = Gone(d)
    BY <2>2, <1>1 DEF Gone
  <2> QED BY <2>1, <2>2
<1>8. RestIsEnd'
  <2> SUFFICES ASSUME NEW d \in Conns
               PROVE  /\ Len(Rest(d)') <= Len(Stream[d])
                      /\ \A i \in 1 .. Len(Rest(d)') :
                            Alike(Rest(d)'[i], Stream[d][Gone(d)' + i])
    BY DEF RestIsEnd
  <2>1. CASE d # c
    BY <2>1, <1>1, <1>7, Zenon DEF PassedInv, RestIsEnd
  <2>2. ASSUME NEW i \in 1 .. Len(Rest(c)')
        PROVE  Alike(Rest(c)'[i], Stream[c][Gone(c)' + i])
    <3>1. i \in 1 .. k - Taken
      BY <1>1
    <3>3. Taken + i \in 1 .. k /\ g + (Taken + i) = (g + Taken) + i
      BY <3>1, <1>2, <1>18
    <3>2. Alike(Rest(c)'[i], R[Taken + i]) /\ Alike(R[Taken + i], Stream[c][Gone(c)' + i])
      BY <3>3, <1>1, <1>2, <1>7
    <3> QED BY <3>2 DEF Alike
  <2>3. Len(Rest(c)') <= Len(Stream[c])
    <3>1. k - Taken <= l
      BY <1>2, <1>18
    <3> QED BY <3>1, <1>1 DEF l
  <2> QED BY <2>1, <2>2, <2>3
(* The new packet is at x, and those that were passed before are not.      *)
<1>9. ASSUME NEW s \in Strands, NEW i \in 1 .. Len(Passed(s))
      PROVE  Passed(s)[i].pkt # n
  <2>0. PICK d \in Conns : \E p \in Heads(d) :
          p <= Gone(d) /\ Stream[d][p].pkt = Passed(s)[i].pkt
    BY DEF PassedInv, PassedIsGone
  <2>1. PICK p \in Heads(d) :
          p <= Gone(d) /\ Stream[d][p].pkt = Passed(s)[i].pkt
    BY <2>0
  <2>2. Passed(s)[i].pkt = n => d = c /\ p = x
    BY <2>1, <1>5, OnePlace
  <2>3. ~(x <= g)
    BY <1>2, <1>18
  <2> QED BY <2>1, <2>2, <2>3 DEF g
<1>10. ASSUME NEW s \in Strands, NEW i \in 1 .. Len(Passed(s)')
       PROVE  \/ /\ i \in 1 .. Len(Passed(s)) /\ Passed(s)'[i] = Passed(s)[i]
              \/ /\ s = q /\ i = Len(Passed(q)) + 1 /\ Passed(s)'[i].pkt = n
  <2>1. CASE s = q
    BY <2>1, <1>19 DEF n, Longer
  <2>2. CASE s # q
    BY <2>2, <1>1
  <2> QED BY <2>1, <2>2
<1>11. \A s \in Strands : \A i \in 1 .. Len(Passed(s)) :
          i \in 1 .. Len(Passed(s)') /\ Passed(s)'[i] = Passed(s)[i]
  <2>1. ASSUME NEW s \in Strands, NEW i \in 1 .. Len(Passed(s))
        PROVE  i \in 1 .. Len(Passed(s)') /\ Passed(s)'[i] = Passed(s)[i]
    <3>1. CASE s = q
      BY <3>1, <1>19 DEF Longer
    <3>2. CASE s # q
      BY <3>2, <1>1
    <3> QED BY <3>1, <3>2
  <2> QED BY <2>1
<1>12. PassedIsGone'
  <2> SUFFICES ASSUME NEW s \in Strands, NEW i \in 1 .. Len(Passed(s)')
               PROVE  \E d \in Conns : \E p \in Heads(d) :
                        p <= Gone(d)' /\ Stream[d][p].pkt = Passed(s)'[i].pkt
    BY DEF PassedIsGone
  <2>1. CASE i \in 1 .. Len(Passed(s)) /\ Passed(s)'[i] = Passed(s)[i]
    <3>0. PICK d \in Conns : \E p \in Heads(d) :
            p <= Gone(d) /\ Stream[d][p].pkt = Passed(s)[i].pkt
      BY <2>1 DEF PassedInv, PassedIsGone
    <3>1. PICK p \in Heads(d) :
            p <= Gone(d) /\ Stream[d][p].pkt = Passed(s)[i].pkt
      BY <3>0
    <3>2. p \in Nat
      BY DEF Heads
    <3>3. p <= Gone(d)'
      <4>1. CASE d = c
        <5>1. p <= g
          BY <3>1, <4>1 DEF g
        <5> QED BY <3>2, <4>1, <5>1, <1>7, <1>18
      <4>2. CASE d # c
        BY <3>1, <4>2, <1>7
      <4> QED BY <4>1, <4>2
    <3> QED BY <2>1, <3>1, <3>3
  <2>2. CASE s = q /\ i = Len(Passed(q)) + 1 /\ Passed(s)'[i].pkt = n
    <3>1. x <= Gone(c)'
      BY <1>7, <1>18
    <3> QED BY <2>2, <3>1, <1>5
  <2> QED BY <2>1, <2>2, <1>10
<1>13. GoneIsPassed'
  <2> SUFFICES ASSUME NEW d \in Conns, NEW p \in Heads(d), phase[d] # "closed",
                      p <= Gone(d)'
               PROVE  \E s \in Strands : \E i \in 1 .. Len(Passed(s)') :
                        Passed(s)'[i].pkt = Stream[d][p].pkt
    BY <1>1 DEF GoneIsPassed
  <2>1. CASE d = c /\ p = x
    <3>1. /\ Len(Passed(q)) + 1 \in 1 .. Len(Passed(q)')
          /\ Passed(q)'[Len(Passed(q)) + 1] = Packet(c)
      BY <1>19 DEF Longer
    <3> QED BY <2>1, <3>1, <1>3, <1>5, Zenon DEF n
  <2>2. CASE p <= Gone(d)
    <3>0. PICK s \in Strands : \E i \in 1 .. Len(Passed(s)) :
            Passed(s)[i].pkt = Stream[d][p].pkt
      BY <2>2 DEF PassedInv, GoneIsPassed
    <3>1. PICK i \in 1 .. Len(Passed(s)) :
            Passed(s)[i].pkt = Stream[d][p].pkt
      BY <3>0
    <3>2. i \in 1 .. Len(Passed(s)') /\ Passed(s)'[i] = Passed(s)[i]
      BY <1>11
    <3> QED BY <3>1, <3>2
  <2>3. p <= Gone(d) \/ (d = c /\ p = x)
    BY <1>6, <1>7 DEF g
  <2> QED BY <2>1, <2>2, <2>3
<1>14. PassedOnce'
  <2> SUFFICES ASSUME NEW s \in Strands, NEW r \in Strands,
                      NEW i \in 1 .. Len(Passed(s)'), NEW j \in 1 .. Len(Passed(r)'),
                      Passed(s)'[i].pkt = Passed(r)'[j].pkt
               PROVE  s = r /\ i = j
    BY DEF PassedOnce
  <2>1. \A a, b \in Strands : \A u \in 1 .. Len(Passed(a)), v \in 1 .. Len(Passed(b)) :
          Passed(a)[u].pkt = Passed(b)[v].pkt => a = b /\ u = v
    BY DEF PassedInv, PassedOnce
  <2>2. CASE /\ i \in 1 .. Len(Passed(s)) /\ Passed(s)'[i] = Passed(s)[i]
             /\ j \in 1 .. Len(Passed(r)) /\ Passed(r)'[j] = Passed(r)[j]
    BY <2>1, <2>2
  <2>3. CASE s = q /\ i = Len(Passed(q)) + 1 /\ Passed(s)'[i].pkt = n
    BY <2>3, <1>9, <1>10
  <2>4. CASE r = q /\ j = Len(Passed(q)) + 1 /\ Passed(r)'[j].pkt = n
    BY <2>4, <1>9, <1>10
  <2> QED BY <2>2, <2>3, <2>4, <1>10
<1>15. InOrder'
  <2> SUFFICES ASSUME NEW d \in Conns, NEW s \in Strands,
                      NEW p \in Heads(d), NEW y \in Heads(d),
                      NEW j \in 1 .. Len(Passed(s)'), NEW h \in 1 .. Len(Passed(s)'),
                      j < h, Passed(s)'[j].pkt = Stream[d][p].pkt,
                      Passed(s)'[h].pkt = Stream[d][y].pkt
               PROVE  p < y
    BY DEF InOrder
  <2>1. j \in 1 .. Len(Passed(s)) /\ Passed(s)'[j] = Passed(s)[j]
    <3>1. CASE s = q
      BY <3>1, <1>19 DEF Longer
    <3>2. CASE s # q
      BY <3>2, <1>1
    <3> QED BY <3>1, <3>2
  <2>2. CASE h \in 1 .. Len(Passed(s)) /\ Passed(s)'[h] = Passed(s)[h]
    BY <2>1, <2>2 DEF PassedInv, InOrder
  <2>3. CASE Passed(s)'[h].pkt = n
    <3>1. d = c /\ y = x
      <4>1. Stream[d][y].pkt = Stream[c][x].pkt
        BY <2>3, <1>5
      <4> QED BY <4>1, <1>5, OnePlace
    <3>0. PICK e \in Conns : \E z \in Heads(e) :
            z <= Gone(e) /\ Stream[e][z].pkt = Passed(s)[j].pkt
      BY <2>1 DEF PassedInv, PassedIsGone
    <3>2. PICK z \in Heads(e) :
            z <= Gone(e) /\ Stream[e][z].pkt = Passed(s)[j].pkt
      BY <3>0
    <3>3. e = d /\ z = p
      BY <2>1, <3>2, OnePlace
    <3>4. p \in Nat /\ p <= g
      BY <3>1, <3>2, <3>3 DEF Heads, g
    <3> QED BY <3>1, <3>4, <1>2, <1>18
  <2> QED BY <2>2, <2>3, <1>10
<1> QED BY <1>8, <1>12, <1>13, <1>14, <1>15 DEF PassedInv

LEMMA PassedInit == ASSUME Init PROVE PassedInv
<1>1. Stream \in [Conns -> Seq(Units)]
  BY CapturerAssumption
<1>2. ASSUME NEW c \in Conns
      PROVE  /\ Rest(c) = Stream[c] /\ Gone(c) = 0 /\ Len(Stream[c]) \in Nat
             /\ \A p \in Heads(c) : ~(p <= 0)
  <2>1. <<>> \o Stream[c] = Stream[c] /\ Len(Stream[c]) \in Nat
    BY <1>1
  <2>2. Rest(c) = Stream[c]
    BY <2>1 DEF Init, Rest
  <2> QED BY <2>1, <2>2 DEF Gone, Heads
<1>3. ASSUME NEW s \in Strands PROVE Len(Passed(s)) = 0
  <2>1. (<<>> \o <<>>) \o <<>> = <<>> /\ Len(<<>>) = 0
    OBVIOUS
  <2> QED BY <2>1 DEF Init, Passed
<1>4. \A i : i \notin 1 .. 0
  OBVIOUS
<1>5. RestIsEnd
  <2>1. ASSUME NEW c \in Conns, NEW i \in 1 .. Len(Stream[c]) PROVE 0 + i = i
    BY <1>2
  <2> QED BY <1>2, <2>1 DEF RestIsEnd, Alike
<1>6. PassedIsGone /\ PassedOnce
  BY <1>3, <1>4 DEF PassedIsGone, PassedOnce
<1>7. InOrder
  BY <1>3, <1>4 DEF InOrder
<1>8. GoneIsPassed
  BY <1>2 DEF GoneIsPassed
<1> QED BY <1>5, <1>6, <1>7, <1>8 DEF PassedInv

LEMMA PassedStep == ASSUME CounterInv, PassedInv, [Next]_vars PROVE PassedInv'
<1>1. ASSUME NEW c \in Conns,
             \/ HandleAccept(c) \/ HandleRead(c) \/ HandleReadInJam(c)
             \/ DelayedRead(c) \/ SkipJunk(c) \/ CountPushed(c) \/ QueueFull(c)
             \/ EndParse(c)
      PROVE  Quiet
  BY <1>1, AcceptQuiet, ReadQuiet, SkipQuiet, CountPushedQuiet, StopQuiet
<1>2. ASSUME NEW c \in Conns, HandleEof(c) \/ HandleError(c) \/ Push(c) PROVE PassedInv'
  BY <1>2, ClosePasses, PushPasses
<1>3. ASSUME NEW s \in Strands, Pop(s) \/ Inject(s) PROVE Quiet
  BY <1>3, PopQuiet, InjectQuiet
<1>4. ASSUME Idle \/ UNCHANGED vars PROVE Quiet
  BY <1>4, StreamsKept, StrandsKept DEF Idle, Quiet, vars, conns, parser, strands
<1> QED BY <1>1, <1>2, <1>3, <1>4, QuietPasses DEF Next, Parse

-----------------------------------------------------------------------------
(* A packet that has left its stream is with one strand, in one place; one *)
(* that has not is in one place of the rest.                               *)
LEMMA PassedIsConserved == ASSUME CounterInv, PassedInv PROVE Conserved
<1> SUFFICES ASSUME NEW c \in Conns, NEW p \in Heads(c)
             PROVE  LET n == Stream[c][p].pkt
                    IN  IF phase[c] = "closed" THEN Cardinality(Behind(n)) <= 1
                        ELSE Cardinality(Ahead(c, n)) + Cardinality(Behind(n)) = 1
  BY DEF PassedInv, Conserved, OncePerPacket
<1> DEFINE n == Stream[c][p].pkt
           g == Gone(c)
<1>1. \A b \in Behind(n) : \E s \in Strands : \E i \in 1 .. Len(Passed(s)) :
         b = <<s, i>> /\ Passed(s)[i].pkt = n
  BY DEF Behind
<1>2. \A s \in Strands : \A i \in 1 .. Len(Passed(s)) :
         Passed(s)[i].pkt = n => <<s, i>> \in Behind(n)
  BY DEF Behind
<1>3. \A a, b \in Behind(n) : a = b
  BY <1>1 DEF PassedInv, PassedOnce
<1>4. Behind(n) # {} => \E b : Behind(n) = {b}
  BY <1>3
<1>5. Behind(n) # {} => Cardinality(Behind(n)) = 1
  BY <1>4, FS_Singleton
<1>6. Cardinality({}) = 0
  BY FS_EmptySet
<1>7. /\ p \in Nat /\ p \in 1 .. Len(Stream[c]) /\ Stream[c][p].kind = "head"
      /\ Len(Stream[c]) \in Nat /\ Len(Rest(c)) \in Nat
      /\ Len(Rest(c)) <= Len(Stream[c]) /\ g = Len(Stream[c]) - Len(Rest(c))
      /\ \A i \in 1 .. Len(Rest(c)) : Alike(Rest(c)[i], Stream[c][g + i])
  BY RestType, CapturerAssumption DEF Heads, PassedInv, RestIsEnd, Gone
<1>8. ASSUME NEW i \in Ahead(c, n) PROVE g + i = p /\ i \in Nat /\ i > 0
  <2>1. i \in 1 .. Len(Rest(c)) /\ Rest(c)[i].kind = "head" /\ Rest(c)[i].pkt = n
    BY DEF Ahead, IsHead
  <2>2. g + i \in 1 .. Len(Stream[c])
    BY <1>7, <2>1
  <2>3. Stream[c][g + i].kind = "head" /\ Stream[c][g + i].pkt = n
    BY <1>7, <2>1 DEF Alike
  <2>4. g + i \in Heads(c)
    BY <2>2, <2>3 DEF Heads
  <2> QED BY <2>1, <2>3, <2>4, OnePlace
<1>9. ASSUME NEW b \in Behind(n) PROVE p <= g
  <2>1. PICK s \in Strands : \E i \in 1 .. Len(Passed(s)) : Passed(s)[i].pkt = n
    BY <1>1
  <2>2. PICK d \in Conns : \E q \in Heads(d) : q <= Gone(d) /\ Stream[d][q].pkt = n
    BY <2>1 DEF PassedInv, PassedIsGone
  <2> QED BY <2>2, OnePlace
<1>10. CASE phase[c] = "closed"
  BY <1>5, <1>6, <1>10
<1>11. CASE phase[c] # "closed" /\ p <= g
  <2>1. Ahead(c, n) = {}
    <3>1. \A i \in Ahead(c, n) : FALSE
      BY <1>7, <1>8, <1>11
    <3> QED BY <3>1
  <2>2. Behind(n) # {}
    BY <1>2, <1>11 DEF PassedInv, GoneIsPassed
  <2> QED BY <2>1, <2>2, <1>5, <1>6, <1>11
<1>12. CASE phase[c] # "closed" /\ ~(p <= g)
  <2>1. Behind(n) = {}
    BY <1>9, <1>12
  <2>2. p - g \in 1 .. Len(Rest(c)) /\ g + (p - g) = p
    <3> DEFINE k == Len(Rest(c))
               l == Len(Stream[c])
    <3>1. k \in Nat /\ l \in Nat /\ g = l - k /\ p \in 1 .. l
      BY <1>7
    <3> HIDE DEF g, k, l
    <3>2. p - g \in 1 .. k /\ g + (p - g) = p
      BY <3>1, <1>12
    <3> QED BY <3>2 DEF k
  <2>3. p - g \in Ahead(c, n)
    BY <1>7, <2>2 DEF Ahead, IsHead, Alike
  <2>7. g \in Int
    BY <1>7
  <2>4. ASSUME NEW i \in Ahead(c, n) PROVE i = p - g
    <3>1. g + i = p /\ i \in Nat
      BY <1>8
    <3> HIDE DEF g, n
    <3> QED BY <2>7, <3>1
  <2>5. Ahead(c, n) = {p - g}
    BY <2>3, <2>4
  <2>6. Cardinality(Ahead(c, n)) = 1
    BY <2>5, FS_Singleton
  <2> QED BY <2>1, <2>6, <1>6, <1>12
<1> QED BY <1>10, <1>11, <1>12

(* What is left of each stream and what its strands were given make up the *)
(* stream, and the counters keep count of the queues, at every step of the *)
(* handlers and the strands (realtime_capturer.cpp, handle_read to pop).   *)
THEOREM CapturerSafety == Spec => []CapturerInv
<1>1. Init => CapturerInv
  BY CountersInit, PassedInit DEF CapturerInv
<1>2. CapturerInv /\ [Next]_vars => CapturerInv'
  BY CountersStep, PassedStep DEF CapturerInv
<1> QED BY <1>1, <1>2, PTL DEF Spec

(* The counters are off by what is in a hand, and by the packet that has   *)
(* been pushed and not been counted (_queue_sizes).                        *)
THEOREM QueuesCounted == Spec => []Counters
<1>1. CapturerInv => Counters
  BY DEF CapturerInv, CounterInv
<1> QED BY <1>1, CapturerSafety, PTL

(* No packet is lost, passed on twice or out of order, however the reads   *)
(* split it and however often its queue is full (handle_read).             *)
THEOREM PacketsConserved == Spec => []Conserved
<1>1. CapturerInv => Conserved
  BY PassedIsConserved DEF CapturerInv
<1> QED BY <1>1, CapturerSafety, PTL
=============================================================================
