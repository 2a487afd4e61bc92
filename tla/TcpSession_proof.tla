-------------------------- MODULE TcpSession_proof --------------------------
(***************************************************************************)
(* Proofs about TcpSession, for every session, every timeout and every     *)
(* width of sequence numbers.                                              *)
(***************************************************************************)
EXTENDS TcpSession, FiniteSetTheorems, SequenceTheorems, TLAPS

-----------------------------------------------------------------------------
(* Sequence numbers.                                                       *)

(* Modulus and Half are used below through these facts only: the products  *)
(* that define them are beyond linear arithmetic.                          *)
LEMMA Widths == /\ Modulus \in Nat /\ Half \in Nat
                /\ Half > 0 /\ Modulus = Half + Half
<1>1. PICK h \in Nat : Base = h + h /\ h >= 1
  <2>1. Base = ((Base \div 2) * 2) + (Base % 2) /\ Base \div 2 \in Nat
    BY BaseAssumption
  <2>2. Base = Base \div 2 + Base \div 2 /\ Base \div 2 >= 1
    BY <2>1, BaseAssumption
  <2> QED BY <2>1, <2>2
<1>2. Base \div 2 = h
  BY <1>1
<1>3. Half = h * Base /\ Modulus = (h + h) * Base
  BY <1>1, <1>2 DEF Half, Modulus
<1>4. (h + h) * Base = h * Base + h * Base /\ h * Base \in Nat /\ h * Base > 0
  BY <1>1, BaseAssumption
<1> QED BY <1>3, <1>4

(* Addition of an offset stays a word.                                     *)
LEMMA AddType == ASSUME NEW a \in Word, NEW k \in 0 .. Half
                 PROVE  Add(a, k) \in Word
BY Widths DEF Word, Add

(* What build_an_ack_without_payload writes is a word.                     *)
LEMMA HtonsType == ASSUME NEW s \in Word PROVE HtonsSeq(s) \in Word
<1>1. s \in Nat
  BY Widths DEF Word
<1>2. s % Base \in 0 .. Base - 1
  BY <1>1, BaseAssumption
<1>3. \A x \in 0 .. Base - 1 : x * Base \in 0 .. Base * Base - 1
  <2> TAKE x \in 0 .. Base - 1
  <2>1. x * Base >= 0 /\ x * Base \in Int
    BY BaseAssumption
  <2> DEFINE y == Base - 1 - x
  <2>2. y \in Nat /\ Base = x + 1 + y
    BY BaseAssumption
  <2> HIDE DEF y
  <2>3. Base * Base = x * Base + Base + y * Base
    BY <2>2, BaseAssumption
  <2>4. y * Base >= 0 /\ y * Base \in Int
    BY <2>2, BaseAssumption
  <2> QED BY <2>1, <2>3, <2>4, BaseAssumption
<1> QED BY <1>2, <1>3 DEF HtonsSeq, Word, Modulus

(* The constants, without the sets they come in.                           *)
LEMMA Constants ==
  /\ Isn \in Word /\ PeerIsn \in Word
  /\ FinOff \in Nat \ {0} /\ FinOff + 1 < Half
  /\ PeerLen \in Nat /\ PeerEnd \in Nat /\ PeerEnd + 1 < Half
  /\ RetransmitInterval \in Nat \ {0} /\ ResponseTimeout \in Nat \ {0}
  /\ SendPeriod \in Nat /\ FinTimeout \in Nat
  /\ ActiveClose \in BOOLEAN
  /\ \A i \in 1 .. Len(Cuts) : Cuts[i] \in 1 .. FinOff
<1>1. /\ Isn \in Word /\ PeerIsn \in Word /\ PeerLen \in Nat
      /\ FinOff + 1 < Half /\ PeerEnd + 1 < Half
      /\ RetransmitInterval \in Nat \ {0} /\ ResponseTimeout \in Nat \ {0}
      /\ SendPeriod \in Nat /\ FinTimeout \in Nat /\ ActiveClose \in BOOLEAN
  BY SessionAssumption
<1>2. \A i \in 1 .. Len(Cuts) : Cuts[i] \in Nat /\ Cuts[i] >= 1 /\ Cuts[i] <= FinOff
  <2> TAKE i \in 1 .. Len(Cuts)
  <2>1. Len(Cuts) \in Nat /\ Cuts[1] = 1 /\ Cuts[i] \in Nat /\ FinOff \in Nat
    <3>1. \A s \in Seq(Nat) : \A n \in 1 .. Len(s) : s[n] \in Nat /\ Len(s) \in Nat
      OBVIOUS
    <3>2. /\ Cuts \in Seq(Nat) /\ Len(Cuts) \in 1 .. Len(Cuts) /\ Cuts[1] = 1
      BY SessionAssumption
    <3> QED BY <3>1, <3>2, Zenon DEF FinOff
  <2>2. i = 1 \/ Cuts[1] < Cuts[i]
    BY SessionAssumption, <2>1
  <2>3. i = Len(Cuts) \/ Cuts[i] < Cuts[Len(Cuts)]
    BY SessionAssumption, <2>1
  <2> QED BY <2>1, <2>2, <2>3 DEF FinOff
<1>3. Len(Cuts) \in 1 .. Len(Cuts) /\ FinOff \in Nat
  BY SessionAssumption DEF FinOff
<1>4. FinOff >= 1
  BY <1>2, <1>3 DEF FinOff
<1> QED BY <1>1, <1>2, <1>3, <1>4 DEF PeerEnd

-----------------------------------------------------------------------------
(* Lists of packets.                                                       *)

LEMMA FromType ==
  ASSUME NEW S, NEW q \in Seq(S), NEW d \in 0 .. Len(q)
  PROVE  /\ From(q, d) \in Seq(S) /\ Len(From(q, d)) = Len(q) - d
         /\ \A i \in 1 .. Len(q) - d : From(q, d)[i] = q[i + d]
<1>1. /\ d + 1 \in 1 .. Len(q) + 1 /\ Len(q) \in Nat
      /\ \A i \in d + 1 .. Len(q) : q[i] \in S
  OBVIOUS
<1> QED BY <1>1 DEF From

(* A run is no longer than the list.                                       *)
LEMMA RunType == ASSUME NEW S, NEW q \in Seq(S) PROVE Run(q) \in 0 .. Len(q)
<1> DEFINE R == {r \in 1 .. Len(q) :
                   \A i \in 1 .. r - 1 : q[i+1].seq = FollowedBy(q[i])}
<1>1. Len(q) \in Nat /\ R \in SUBSET (1 .. Len(q))
  OBVIOUS
<1>2. IsFiniteSet(1 .. Len(q)) /\ Cardinality(1 .. Len(q)) = Len(q)
  <2>1. 1 \in Int /\ Len(q) \in Int /\ 1 .. Len(q) = 1 .. Len(q)
    BY <1>1
  <2>2. IF 1 > Len(q) THEN Cardinality(1 .. Len(q)) = 0
                      ELSE Cardinality(1 .. Len(q)) = Len(q) - 1 + 1
    BY <2>1, FS_Interval, Zenon
  <2>3. IsFiniteSet(1 .. Len(q))
    BY <2>1, FS_Interval, Zenon
  <2> QED BY <1>1, <2>2, <2>3
<1>3. Cardinality(R) \in Nat /\ Cardinality(R) <= Len(q)
  BY <1>1, <1>2, FS_Subset, FS_CardinalityType
<1> QED BY <1>1, <1>3 DEF Run

(* The right boundary adjust_sliding_window chooses is one of the list.    *)
LEMMA AdjustedType ==
  ASSUME NEW S, NEW q \in Seq(S), NEW w \in 0 .. Len(q), NEW a,
         NEW v \in Adjusted(q, w, a)
  PROVE  v \in 0 .. Len(q)
<1>1. Len(q) \in Nat /\ Run(q) \in 0 .. Len(q)
  BY RunType
<1>2. v = w \/ v \in 1 .. w \/ v \in w .. Len(q) \/ v \in w .. Run(q)
  BY Zenon DEF Adjusted
<1> QED BY <1>1, <1>2

LEMMA RefreshedType ==
  ASSUME NEW p, NEW S, NEW q \in Seq(S), NEW w \in 0 .. Len(q),
         NEW r \in Refreshed(p, q, w)
  PROVE  r.list \in Seq(S) /\ r.win \in 0 .. Len(r.list)
<1>1. CASE Outdated(p)
  BY <1>1 DEF Refreshed
<1>2. CASE ~Outdated(p)
  <2>1. PICK d \in Leading(w, AckedIn(q, w, AckedAfter(p))) :
          \E v \in Adjusted(From(q, d), w - d, p.win) :
             r = [list |-> From(q, d), win |-> v]
    BY <1>2 DEF Refreshed
  <2>2. d \in 0 .. w /\ Len(q) \in Nat
    BY <2>1 DEF Leading
  <2>3. PICK v \in Adjusted(From(q, d), w - d, p.win) :
          r = [list |-> From(q, d), win |-> v]
    BY <2>1
  <2>4. d \in 0 .. Len(q)
    BY <2>2
  <2>5. From(q, d) \in Seq(S) /\ Len(From(q, d)) = Len(q) - d
    BY <2>4, FromType
  <2>6. w - d \in 0 .. Len(From(q, d))
    BY <2>2, <2>5
  <2>7. v \in 0 .. Len(From(q, d))
    BY <2>3, <2>5, <2>6, AdjustedType
  <2> QED BY <2>3, <2>5, <2>7
<1> QED BY <1>1, <1>2

-----------------------------------------------------------------------------
(* Packets of the session and of the server.                               *)

LEMMA LimitType == SynLimit \in Nat /\ SynLimit >= 1
<1>1. ResponseTimeout \in Nat /\ RetransmitInterval \in Nat \ {0}
  BY Constants
<1>2. ResponseTimeout \div RetransmitInterval \in Nat
  BY <1>1
<1> QED BY <1>2 DEF SynLimit

LEMMA PureAckType == ASSUME NEW s \in Word PROVE PureAck(s) \in Samples
<1>1. HtonsSeq(s) \in Word
  BY HtonsType
<1>2. FinOff \in Nat /\ SynLimit \in Nat /\ Overdue \in Nat
  BY Constants, LimitType DEF Overdue
<1> QED BY <1>1, <1>2 DEF PureAck, Packet, Samples, InStream

(* A packet as a server that has seen offsets below sndMax can send it.    *)
LEMMA ArrivingType ==
  ASSUME sndMax \in 0 .. FinOff + 1, NEW p \in Arriving
  PROVE  /\ p.fin \in BOOLEAN /\ p.len \in Nat /\ p.win \in Windows
         /\ p.ack \in 0 .. sndMax
         /\ SeqOf(p) \in Word /\ AckSeqOf(p) \in Word /\ NextSeqOf(p) \in Word
<1>0. /\ PeerEnd \in Nat /\ PeerEnd + 1 < Half /\ PeerLen \in Nat /\ FinOff \in Nat
      /\ PeerEnd = PeerLen + 1 /\ Half \in Nat /\ FinOff + 1 < Half
  BY Constants, Widths DEF PeerEnd
<1>1. /\ p.fin \in BOOLEAN /\ p.win \in Windows
      /\ p.off \in 0 .. PeerEnd + 1 /\ p.len \in 0 .. PeerLen
      /\ p.ack \in 0 .. sndMax
  <2>1. CASE p \in SynAcks /\ sndMax >= 1
    <3>1. p.fin \in BOOLEAN /\ p.win \in Windows /\ p.off = 0 /\ p.len = 0 /\ p.ack = 1
      BY <2>1 DEF SynAcks
    <3> QED BY <2>1, <3>1, <1>0
  <2>2. CASE p \in Resets
    <3>1. p.fin \in BOOLEAN /\ p.win \in Windows /\ p.off = 0 /\ p.len = 0 /\ p.ack = 0
      BY <2>2 DEF Resets
    <3> QED BY <3>1, <1>0
  <2>3. CASE p \in Plains
    BY <2>3, <1>0 DEF Plains, AckOffsets
  <2> QED BY <2>1, <2>2, <2>3 DEF Arriving
<1>2. p.off \in 0 .. Half /\ p.len \in 0 .. Half /\ p.ack \in 0 .. Half
  BY <1>0, <1>1
<1>3. SeqOf(p) \in Word /\ AckSeqOf(p) \in Word
  BY <1>2, AddType, Constants DEF SeqOf, AckSeqOf
<1>4. NextSeqOf(p) \in Word
  BY <1>2, <1>3, AddType DEF NextSeqOf
<1> QED BY <1>1, <1>3, <1>4

(* refresh_status keeps the numbers words and the list and window well     *)
(* formed.                                                                 *)
LEMMA RefreshNumbersType ==
  ASSUME TypeOK, NEW p \in Arriving, RefreshNumbers(p)
  PROVE  expected' \in Word /\ acked' \in Word /\ adv' \in Windows \cup {BigWindow}
<1>1. /\ p.win \in Windows
      /\ SeqOf(p) \in Word /\ AckSeqOf(p) \in Word /\ NextSeqOf(p) \in Word
  BY ArrivingType DEF TypeOK, WiredOK
<1>2. /\ Add(SeqOf(p), 1) \in Word /\ Add(NextSeqOf(p), 0) \in Word
      /\ Add(NextSeqOf(p), 1) \in Word
  BY <1>1, AddType, Widths
<1>3. ExpectedAfter(p) \in Word
  BY <1>2 DEF ExpectedAfter, TypeOK, TcpOK
<1>4. AckedAfter(p) \in Word
  BY <1>1 DEF AckedAfter, TypeOK, TcpOK
<1> QED BY <1>1, <1>3, <1>4 DEF RefreshNumbers, TypeOK, TcpOK

LEMMA RefreshStatusType ==
  ASSUME TypeOK, NEW p \in Arriving, NEW q \in Seq(Samples), NEW w \in 0 .. Len(q),
         RefreshStatus(p, q, w)
  PROVE  /\ expected' \in Word /\ acked' \in Word /\ adv' \in Windows \cup {BigWindow}
         /\ samples' \in Seq(Samples) /\ win' \in 0 .. Len(samples')
BY RefreshNumbersType, RefreshedType DEF RefreshStatus

LEMMA RefreshStatusAndAckType ==
  ASSUME TypeOK, NEW p \in Arriving, RefreshStatusAndAck(p)
  PROVE  /\ expected' \in Word /\ acked' \in Word /\ adv' \in Windows \cup {BigWindow}
         /\ samples' \in Seq(Samples) /\ win' \in 0 .. Len(samples')
<1>1. samples \in Seq(Samples) /\ win \in 0 .. Len(samples) /\ beyondFin \in Word
  BY DEF TypeOK, TcpOK, ClosingOK
<1>2. PICK r \in Refreshed(p, samples, win) :
         /\ samples' = IF r.list = <<>> THEN <<PureAck(beyondFin)>> ELSE r.list
         /\ win' = Len(samples')
  BY DEF RefreshStatusAndAck
<1>3. r.list \in Seq(Samples)
  BY <1>1, RefreshedType
<1>4. <<PureAck(beyondFin)>> \in Seq(Samples)
  BY <1>1, PureAckType
<1>5. samples' \in Seq(Samples)
  BY <1>2, <1>3, <1>4
<1>6. win' \in 0 .. Len(samples')
  BY <1>2, <1>5
<1> QED BY <1>5, <1>6, RefreshNumbersType DEF RefreshStatusAndAck

LEMMA SweptType ==
  ASSUME TypeOK
  PROVE  /\ Swept \in Seq(Samples) /\ SweptWin \in 0 .. Len(Swept)
         /\ Count \in 0 .. SweptWin
<1>1. samples \in Seq(Samples) /\ win \in 0 .. Len(samples)
  BY DEF TypeOK, TcpOK
<1>2. Swept \in Seq(Samples) /\ SweptWin \in 0 .. Len(Swept)
  BY <1>1 DEF Swept, SweptWin, SpentAck
<1>3. Halted => SweptWin > 0
  BY DEF Halted, FinInWindow
<1> QED BY <1>2, <1>3 DEF Count

-----------------------------------------------------------------------------
(* The type invariant, action by action.                                   *)

LEMMA InitType == ASSUME Init PROVE TypeOK
<1>1. /\ FinOff \in Nat \ {0} /\ FinOff + 1 < Half /\ Half \in Nat
      /\ SynLimit \in Nat /\ Overdue \in Nat
      /\ Isn \in Word /\ Modulus = Half + Half
      /\ \A i \in 1 .. Len(Cuts) : Cuts[i] \in 1 .. FinOff
  BY Constants, Widths, LimitType DEF Overdue
<1>2. Len(Cuts) \in Nat /\ Len(Cuts) >= 1 /\ \A i, j \in 1 .. Len(Cuts) : i < j => Cuts[i] < Cuts[j]
  BY SessionAssumption
<1>3. ASSUME NEW k \in 0 .. FinOff
      PROVE  Add(Isn, k) \in Word /\ Diff(Add(Isn, k), Isn) = k
  BY <1>1, <1>3 DEF Add, Diff, Word
<1>4. ASSUME NEW i \in 1 .. Len(Cuts) + 1 PROVE InitialSamples[i] \in Samples
  <2>1. CASE i = 1
    <3>1. InitialSamples[i] = Packet("syn", Isn, 0)
      BY <2>1, <1>2 DEF InitialSamples
    <3>2. Diff(Isn, Isn) = 0
      BY <1>1 DEF Diff, Word
    <3> QED BY <3>1, <3>2, <1>1 DEF Samples, Packet, Reach, Offset, InStream
  <2>2. CASE i = Len(Cuts) + 1
    <3>1. InitialSamples[i] = Packet("fin", Add(Isn, FinOff), 0)
      BY <2>2, <1>2 DEF InitialSamples
    <3> QED BY <3>1, <1>3, <1>1 DEF Samples, Packet, Reach, Offset, InStream
  <2>3. CASE i # 1 /\ i # Len(Cuts) + 1
    <3>1. InitialSamples[i] = Packet("data", Add(Isn, Cuts[i-1]), Cuts[i] - Cuts[i-1])
      BY <2>3 DEF InitialSamples
    <3>2. i - 1 \in 1 .. Len(Cuts) /\ i \in 1 .. Len(Cuts)
      BY <2>3, <1>2
    <3>3. Cuts[i-1] \in 0 .. FinOff /\ Cuts[i] \in 0 .. FinOff /\ Cuts[i-1] < Cuts[i]
      BY <3>2, <1>1, <1>2
    <3> DEFINE n == Cuts[i-1]
               m == Cuts[i] - Cuts[i-1]
    <3>4. /\ n \in 0 .. FinOff /\ m \in 0 .. FinOff /\ n + m <= FinOff
      BY <3>3, <1>1
    <3> HIDE DEF n, m
    <3>5. Packet("data", Add(Isn, n), m) \in Samples
      BY <3>4, <1>3, <1>1 DEF Samples, Packet, Reach, Offset, InStream
    <3> QED BY <3>1, <3>5, Zenon DEF n, m
  <2> QED BY <2>1, <2>2, <2>3
<1>5. InitialSamples \in Seq(Samples) /\ Len(InitialSamples) = Len(Cuts) + 1
  <2>1. InitialSamples = [i \in 1 .. Len(Cuts) + 1 |-> InitialSamples[i]]
    BY DEF InitialSamples
  <2> QED BY <2>1, <1>2, <1>4, IsASeq
<1>6. 0 \in Word
  BY <1>1 DEF Word
<1>7. samples \in Seq(Samples) /\ win \in 0 .. Len(samples)
  BY <1>2, <1>5 DEF Init
<1>8. /\ recvAge \in Never .. ResponseTimeout + 1 /\ sndAge \in 0 .. SendPeriod + 1
      /\ finAckedAge \in Never .. FinTimeout + 1
  BY Constants DEF Init, Never
<1>9. /\ kills \in 0 .. 1 /\ sndMax \in 0 .. FinOff + 1
      /\ ackMax \in 0 .. FinOff + 1
  BY <1>1 DEF Init
<1>10. /\ state \in States /\ cause \in Causes \cup {"none"}
       /\ expected \in Word /\ acked \in Word
       /\ expectedLastAck \in Word /\ beyondFin \in Word
       /\ adv \in Windows \cup {BigWindow}
  BY <1>6 DEF Init, States
<1>11. /\ resetPeer \in BOOLEAN /\ gone \in BOOLEAN
       /\ peerFin \in BOOLEAN
  BY DEF Init
<1> QED BY <1>7, <1>8, <1>9, <1>10, <1>11 DEF TypeOK, TcpOK, ClosingOK, ClocksOK,
                                           LifeOK, HeardOK, WiredOK

LEMMA KillType ==
  ASSUME LifeOK, ~Dead, NEW c \in Causes, KillMe(c) PROVE LifeOK'
BY Zenon, SMT DEF LifeOK, Dead, KillMe, Capped

LEMMA HeardType ==
  ASSUME ClocksOK, NEW p, Heard(p) PROVE recvAge' \in Never .. ResponseTimeout + 1
BY Constants DEF ClocksOK, Heard, Never

(* The part every handler of a TCP state shares.                           *)
LEMMA GotType ==
  ASSUME TypeOK, NEW p \in Arriving, NEW s, Got(p, s)
  PROVE  /\ ClosingOK' /\ HeardOK' /\ WiredOK'
         /\ recvAge' \in Never .. ResponseTimeout + 1
         /\ sndAge' \in 0 .. SendPeriod + 1
<1>1. p.ack \in 0 .. sndMax /\ p.fin \in BOOLEAN
  BY ArrivingType DEF TypeOK, WiredOK
<1>2. ackMax' \in 0 .. FinOff + 1
  BY <1>1, Constants DEF Got, TypeOK, HeardOK, WiredOK
<1>3. peerFin' \in BOOLEAN
  BY <1>1 DEF Got, TypeOK, HeardOK
<1>4. UNCHANGED <<closing, sndAge, wired>> /\ Heard(p)
  BY DEF Got
<1>5. ClosingOK' /\ WiredOK' /\ sndAge' \in 0 .. SendPeriod + 1
  BY <1>4 DEF closing, wired, TypeOK, ClosingOK, ClocksOK, WiredOK
<1> QED BY <1>2, <1>3, <1>4, <1>5, HeardType DEF HeardOK, TypeOK

(* What remains to be shown of a handler.                                  *)
LEMMA HandlerType ==
  ASSUME TypeOK, NEW p \in Arriving, NEW s, Got(p, s),
         state' \in States, LifeOK', finAckedAge' \in Never .. FinTimeout + 1,
         expected' \in Word /\ acked' \in Word /\ adv' \in Windows \cup {BigWindow},
         samples' \in Seq(Samples) /\ win' \in 0 .. Len(samples')
  PROVE  TypeOK'
BY GotType DEF TypeOK, TcpOK, ClocksOK

LEMMA UnchangedLife == ASSUME LifeOK, UNCHANGED life PROVE LifeOK'
BY DEF LifeOK, life

LEMMA GotAPacketType ==
  ASSUME TypeOK, NEW p \in Arriving, GotAPacket(p)
  PROVE  TypeOK'
<1> USE DEF TypeOK
<1>1. /\ samples \in Seq(Samples) /\ win \in 0 .. Len(samples) /\ state \in States
      /\ acked \in Word /\ Len(samples) \in Nat
      /\ finAckedAge \in Never .. FinTimeout + 1
  BY DEF TcpOK, ClocksOK
<1>2. 0 \in Never .. FinTimeout + 1
  BY Constants DEF Never
<1>3. CASE DeadGot(p)
  BY <1>3, HeardType DEF DeadGot, tcp, closing, life, heard, wired,
     TcpOK, ClosingOK, ClocksOK, LifeOK, HeardOK, WiredOK
<1>4. CASE GotReset(p)
  <2>1. LifeOK'
    BY <1>4, KillType DEF GotReset, Causes
  <2> QED BY <1>4, <2>1, HeardType DEF GotReset, tcp, closing, heard, wired,
             TcpOK, ClosingOK, ClocksOK, HeardOK, WiredOK
<1>5. CASE SynSentGot(p)
  <2>1. state' \in States /\ LifeOK' /\ finAckedAge' = finAckedAge
    BY <1>1, <1>5, UnchangedLife DEF SynSentGot, States
  <2> QED BY <1>1, <1>5, <2>1, HandlerType, RefreshStatusType DEF SynSentGot
<1>6. CASE EstablishedGot(p)
  <2>1. /\ Got(p, "ESTABLISHED") /\ LifeOK' /\ finAckedAge' = finAckedAge
    BY <1>6, UnchangedLife DEF EstablishedGot
  <2>2. state' \in States
    BY <1>1, <1>6 DEF EstablishedGot, States
  <2>3. \E q \in Seq(Samples) : \E w \in 0 .. Len(q) : RefreshStatus(p, q, w)
    <3> DEFINE bare == {i \in DOMAIN samples :
                          samples[i].len = 0 /\ samples[i].kind # "fin"}
    <3>1. CASE p.fin
      <4>1. PICK d \in Leading(Len(samples), bare) :
              RefreshStatus(p, From(samples, d), Len(samples) - d)
        BY <1>6, <3>1 DEF EstablishedGot
      <4>2. d \in 0 .. Len(samples)
        BY <4>1 DEF Leading
      <4>3. From(samples, d) \in Seq(Samples) /\ Len(From(samples, d)) = Len(samples) - d
        BY <1>1, <4>2, FromType
      <4>4. Len(samples) - d \in 0 .. Len(From(samples, d))
        BY <1>1, <4>2, <4>3
      <4> QED BY <4>1, <4>3, <4>4
    <3>2. CASE ~p.fin /\ samples[1].kind = "fin" /\ p.len > 0 /\ ~ActiveClose
      <4>1. RefreshStatus(p, <<PureAck(acked)>> \o samples, Len(samples) + 1)
        BY <1>6, <3>2 DEF EstablishedGot
      <4>2. <<PureAck(acked)>> \o samples \in Seq(Samples)
            /\ Len(<<PureAck(acked)>> \o samples) = Len(samples) + 1
        BY <1>1, PureAckType
      <4>3. Len(samples) + 1 \in 0 .. Len(<<PureAck(acked)>> \o samples)
        BY <1>1, <4>2
      <4> HIDE DEF TypeOK
      <4> QED BY <4>1, <4>2, <4>3
    <3>3. CASE ~p.fin /\ ~(samples[1].kind = "fin" /\ p.len > 0 /\ ~ActiveClose)
      BY <1>1, <1>6, <3>3 DEF EstablishedGot
    <3> QED BY <3>1, <3>2, <3>3
  <2> QED BY <1>1, <2>1, <2>2, <2>3, HandlerType, RefreshStatusType
<1>7. CASE CloseWaitGot(p)
  <2>1. state' \in States /\ LifeOK' /\ finAckedAge' = finAckedAge
    BY <1>1, <1>7, UnchangedLife DEF CloseWaitGot
  <2> QED BY <1>1, <1>7, <2>1, HandlerType, RefreshStatusType DEF CloseWaitGot
<1>8. CASE LastAckGot(p)
  <2>1. ~Dead /\ Got(p, "LAST_ACK")
    BY <1>8 DEF LastAckGot, Got
  <2>2. LifeOK'
    BY <1>8, <2>1, KillType, UnchangedLife DEF LastAckGot, Causes
  <2>3. state' \in States /\ finAckedAge' = finAckedAge
    BY <1>1, <1>8 DEF LastAckGot, States
  <2> QED BY <1>1, <1>8, <2>1, <2>2, <2>3, HandlerType, RefreshStatusType DEF LastAckGot
<1>9. CASE FinWait1Got(p)
  <2>1. Got(p, "FIN_WAIT_1") /\ LifeOK'
    BY <1>9, UnchangedLife DEF FinWait1Got
  <2>2. CASE AcksMyFin(p)
    <3>1. /\ state' \in States /\ finAckedAge' \in Never .. FinTimeout + 1
          /\ RefreshStatusAndAck(p)
      BY <1>2, <1>9, <2>2 DEF FinWait1Got, States
    <3> QED BY <2>1, <3>1, HandlerType, RefreshStatusAndAckType
  <2>3. CASE ~AcksMyFin(p)
    <3>1. /\ state' \in States /\ finAckedAge' \in Never .. FinTimeout + 1
          /\ RefreshStatus(p, samples, win)
      BY <1>1, <1>9, <2>3 DEF FinWait1Got, States
    <3> QED BY <1>1, <2>1, <3>1, HandlerType, RefreshStatusType
  <2> QED BY <2>2, <2>3
<1>10. CASE FinWait2Got(p)
  <2>1. /\ ~Dead /\ Got(p, "FIN_WAIT_2") /\ finAckedAge' \in Never .. FinTimeout + 1
    BY <1>1, <1>10 DEF FinWait2Got, Got
  <2>2. CASE KillMe("NO_FIN_FROM_PEER") /\ UNCHANGED tcp
    <3>1. LifeOK'
      BY <2>1, <2>2, KillType DEF Causes
    <3>2. TcpOK'
      BY <2>2 DEF TcpOK, tcp
    <3> QED BY <2>1, <3>1, <3>2, HandlerType DEF TcpOK
  <2>3. CASE /\ state' = IF p.fin THEN "TIME_WAIT" ELSE state
             /\ IF p.len > 0 THEN RefreshStatusAndAck(p)
                             ELSE RefreshStatus(p, samples, win)
             /\ UNCHANGED life
    <3>1. state' \in States /\ LifeOK'
      BY <1>1, <2>3, UnchangedLife DEF States
    <3>2. CASE RefreshStatusAndAck(p)
      BY <2>1, <3>1, <3>2, HandlerType, RefreshStatusAndAckType
    <3>3. CASE RefreshStatus(p, samples, win)
      BY <1>1, <2>1, <3>1, <3>3, HandlerType, RefreshStatusType
    <3> QED BY <2>3, <3>2, <3>3
  <2> QED BY <1>10, <2>2, <2>3 DEF FinWait2Got
<1>11. CASE ClosingGot(p)
  <2>1. /\ Got(p, "CLOSING") /\ LifeOK' /\ state' \in States /\ RefreshStatusAndAck(p)
        /\ finAckedAge' \in Never .. FinTimeout + 1
    BY <1>1, <1>2, <1>11, UnchangedLife DEF ClosingGot, States
  <2> QED BY <2>1, HandlerType, RefreshStatusAndAckType
<1>12. CASE TimeWaitGot(p)
  <2>1. /\ Got(p, "TIME_WAIT") /\ LifeOK' /\ state' \in States /\ RefreshStatusAndAck(p)
        /\ finAckedAge' \in Never .. FinTimeout + 1
    BY <1>1, <1>12, UnchangedLife DEF TimeWaitGot, States
  <2> QED BY <2>1, HandlerType, RefreshStatusAndAckType
<1> QED BY <1>3, <1>4, <1>5, <1>6, <1>7, <1>8, <1>9, <1>10, <1>11, <1>12 DEF GotAPacket

(* The parts of a poll of a live session.                                  *)
LEMMA CloseType ==
  ASSUME TypeOK, Close PROVE state' \in States /\ ClosingOK'
<1>1. Swept \in Seq(Samples) /\ SweptWin \in 0 .. Len(Swept)
  BY SweptType
<1>2. StateAfterSyn \in States /\ StateAfterFin \in States
  BY DEF TypeOK, TcpOK, StateAfterSyn, StateAfterFin, States
<1>3. ASSUME FinOut PROVE Add(Swept[SweptWin].seq, Swept[SweptWin].len) \in Word
  <2>1. Swept[SweptWin] \in Samples
    BY <1>1, <1>3 DEF FinOut, FinInWindow
  <2>2. Swept[SweptWin].seq \in Word /\ Swept[SweptWin].len \in 0 .. FinOff
    BY <2>1 DEF Samples
  <2>3. Swept[SweptWin].len \in 0 .. Half
    BY <2>2, Constants, Widths
  <2> QED BY <2>2, <2>3, AddType
<1> QED BY <1>2, <1>3 DEF Close, ClosingOK, TypeOK

LEMMA PacketType ==
  ASSUME NEW x \in Samples
  PROVE  /\ x.kind \in {"syn", "data", "fin", "ack"}
         /\ x.seq \in Word /\ x.len \in 0 .. FinOff /\ Offset(x) \in Nat
         /\ x.sent \in 0 .. SynLimit /\ x.age \in 0 .. Overdue
         /\ InStream(x) => Reach(x) <= FinOff + 1
         /\ InStream(x) /\ x.kind # "fin" => Reach(x) <= FinOff
         /\ x.kind = "syn" => Reach(x) = 1 /\ Offset(x) = 0
         /\ x.kind = "fin" => Reach(x) = FinOff + 1 /\ Offset(x) = FinOff
<1>1. /\ x.kind \in {"syn", "data", "fin", "ack"}
      /\ x.seq \in Word /\ x.len \in 0 .. FinOff
      /\ x.sent \in 0 .. SynLimit /\ x.age \in 0 .. Overdue
  BY DEF Samples
<1>2. /\ x.kind = "syn" => Offset(x) = 0 /\ x.len = 0
      /\ x.kind = "fin" => Offset(x) = FinOff /\ x.len = 0
      /\ x.kind = "data" => Reach(x) <= FinOff
  BY DEF Samples
<1>3. Offset(x) \in Nat
  BY <1>1, Widths, Constants DEF Offset, Diff, Word
<1>4. FinOff \in Nat \ {0}
  BY Constants
<1>5. /\ InStream(x) /\ x.kind # "fin" => Reach(x) <= FinOff
      /\ x.kind = "syn" => Reach(x) = 1
      /\ x.kind = "fin" => Reach(x) = FinOff + 1
      /\ Reach(x) \in Nat
  <2>1. CASE x.kind = "syn"
    BY <2>1, <1>2, <1>3, <1>4 DEF Reach
  <2>2. CASE x.kind = "fin"
    BY <2>2, <1>2, <1>3, <1>4 DEF Reach
  <2>3. CASE x.kind = "data"
    BY <2>3, <1>1, <1>2, <1>3, <1>4 DEF Reach
  <2>4. CASE x.kind = "ack"
    BY <2>4, <1>1, <1>3 DEF Reach, InStream
  <2> QED BY <1>1, <2>1, <2>2, <2>3, <2>4
<1>6. InStream(x) => Reach(x) <= FinOff + 1
  <2>1. x.kind = "fin" \/ x.kind # "fin"
    OBVIOUS
  <2> QED BY <2>1, <1>4, <1>5 DEF InStream
<1> QED BY <1>1, <1>2, <1>3, <1>5, <1>6

(* A packet stays one when its timer or its counter moves.                 *)
LEMMA AgedType ==
  ASSUME NEW x \in Samples, NEW n \in 0 .. Overdue
  PROVE  [x EXCEPT !.age = n] \in Samples
BY DEF Samples, InStream, Reach, Offset

LEMMA CountedType ==
  ASSUME NEW x \in Samples, NEW n \in 0 .. SynLimit
  PROVE  [x EXCEPT !.sent = n] \in Samples
BY DEF Samples, InStream, Reach, Offset

(* A sending leaves well-formed packets and a stream offset in range.      *)
LEMMA HandOverType ==
  ASSUME TypeOK, HandOver(Swept)
  PROVE  /\ samples' \in Seq(Samples) /\ Len(samples') = Len(Swept)
         /\ sndMax' \in 0 .. FinOff + 1
<1> DEFINE q == Swept
<1>1. /\ q \in Seq(Samples) /\ Count \in 0 .. Len(q) /\ Len(q) \in Nat
      /\ SynLimit \in Nat /\ SynLimit >= 1 /\ Overdue \in Nat
      /\ sndMax \in 0 .. FinOff + 1 /\ FinOff \in Nat
  BY SweptType, LimitType, Constants DEF TypeOK, WiredOK, Overdue
<1>2. PICK d \in Leading(Count, {i \in 1 .. Count : Due(q[i])}) :
      \E j \in (IF QueueMayFill THEN 0 .. d ELSE {d}) :
        /\ samples' = [i \in DOMAIN q |->
                         IF i > j THEN q[i]
                         ELSE [q[i] EXCEPT !.age = 0,
                                 !.sent = Capped(@ + 1, SentLimit(q[i].kind))]]
        /\ sndMax' = IF j > 0 /\ InStream(q[j]) /\ Reach(q[j]) > sndMax
                     THEN Reach(q[j]) ELSE sndMax
  BY DEF HandOver
<1>3. d \in 0 .. Count
  BY <1>2 DEF Leading
<1>4. PICK j \in 0 .. d :
        /\ samples' = [i \in DOMAIN q |->
                         IF i > j THEN q[i]
                         ELSE [q[i] EXCEPT !.age = 0,
                                 !.sent = Capped(@ + 1, SentLimit(q[i].kind))]]
        /\ sndMax' = IF j > 0 /\ InStream(q[j]) /\ Reach(q[j]) > sndMax
                     THEN Reach(q[j]) ELSE sndMax
  <2>1. (IF QueueMayFill THEN 0 .. d ELSE {d}) \subseteq 0 .. d
    BY <1>1, <1>3
  <2> QED BY <1>2, <2>1
<1> DEFINE f(i) == IF i > j THEN q[i]
                   ELSE [q[i] EXCEPT !.age = 0,
                           !.sent = Capped(@ + 1, SentLimit(q[i].kind))]
<1>5. ASSUME NEW i \in 1 .. Len(q) PROVE f(i) \in Samples
  <2>1. q[i] \in Samples
    BY <1>1
  <2>2. ASSUME NEW x \in Samples,
               NEW n \in 0 .. SynLimit
        PROVE  [x EXCEPT !.age = 0, !.sent = n] \in Samples
    <3>1. 0 \in 0 .. Overdue
      BY <1>1
    <3>2. [x EXCEPT !.age = 0] \in Samples
      BY <3>1, AgedType
    <3> QED BY <3>2, CountedType
  <2>3. Capped(q[i].sent + 1, SentLimit(q[i].kind)) \in 0 .. SynLimit
    <3>1. q[i].sent \in Nat
      <4>1. \A x \in Samples : x.sent \in 0 .. SynLimit
        BY DEF Samples
      <4> QED BY <1>1, <2>1, <4>1
    <3>2. SentLimit(q[i].kind) \in 0 .. SynLimit
      BY <1>1 DEF SentLimit
    <3> HIDE DEF q
    <3> QED BY <1>1, <3>1, <3>2 DEF Capped
  <2> QED BY <2>1, <2>2, <2>3
<1>6. samples' = [i \in 1 .. Len(q) |-> f(i)]
  <2>1. DOMAIN q = 1 .. Len(q)
    BY <1>1
  <2> HIDE DEF q
  <2> QED BY <1>4, <2>1, Zenon
<1>7. samples' \in Seq(Samples) /\ Len(samples') = Len(q)
  <2> HIDE DEF f, q
  <2>1. [i \in 1 .. Len(q) |-> f(i)] \in Seq(Samples)
    BY <1>1, <1>5, IsASeq
  <2> QED BY <1>1, <1>6, <2>1
<1>8. sndMax' \in 0 .. FinOff + 1
  <2>1. CASE j > 0 /\ InStream(q[j]) /\ Reach(q[j]) > sndMax
    <3>1. q[j] \in Samples
      BY <1>1, <1>3, <2>1
    <3>2. q[j].seq \in Word /\ q[j].len \in Nat /\ Reach(q[j]) <= FinOff + 1
      BY <3>1, <2>1, <1>1, PacketType
    <3>3. Offset(q[j]) \in Nat
      BY <3>2, Widths, Constants DEF Offset, Diff, Word
    <3> HIDE DEF q
    <3>4. Reach(q[j]) \in Nat
      BY <3>2, <3>3 DEF Reach
    <3>5. sndMax' = Reach(q[j])
      BY <1>4, <2>1
    <3> QED BY <1>1, <3>2, <3>4, <3>5
  <2>2. CASE ~(j > 0 /\ InStream(q[j]) /\ Reach(q[j]) > sndMax)
    BY <1>1, <1>4, <2>2
  <2> QED BY <2>1, <2>2
<1> QED BY <1>7, <1>8

LEMMA PollType == ASSUME TypeOK, Poll PROVE TypeOK'
<1> USE DEF TypeOK
<1>1. Swept \in Seq(Samples) /\ SweptWin \in 0 .. Len(Swept)
  BY SweptType
<1>2. CASE RemoveMe
  BY <1>2 DEF RemoveMe, tcp, closing, clocks, heard, wired,
     TcpOK, ClosingOK, ClocksOK, LifeOK, HeardOK, WiredOK
<1>3. CASE ResetThePeer
  BY <1>3 DEF ResetThePeer, tcp, closing, clocks, heard, wired,
     TcpOK, ClosingOK, ClocksOK, LifeOK, HeardOK, WiredOK
<1>4. CASE GiveUp
  <2>1. LifeOK'
    BY <1>4, KillType DEF GiveUp, Causes
  <2>2. state' \in States
    BY <1>4 DEF GiveUp, StateAfterSyn, TcpOK, States
  <2>3. TcpOK'
    BY <1>1, <1>4, <2>2 DEF GiveUp, TcpOK
  <2> QED BY <1>4, <2>1, <2>3 DEF GiveUp, closing, clocks, heard, wired,
             ClosingOK, ClocksOK, HeardOK, WiredOK
<1>5. CASE Idle
  <2>1. state' \in States /\ ClosingOK'
    BY <1>5, CloseType DEF Idle
  <2>2. LifeOK'
    <3>1. KillMe("ACTIVE_CLOSE") \/ KillMe("DORMANCY") \/ UNCHANGED life
      BY <1>5 DEF Idle
    <3> QED BY <1>5, <3>1, KillType, UnchangedLife DEF Idle, Causes
  <2>3. TcpOK'
    BY <1>1, <1>5, <2>1 DEF Idle, TcpOK
  <2> QED BY <1>5, <2>1, <2>2, <2>3 DEF Idle, clocks, heard, wired,
             ClocksOK, HeardOK, WiredOK
<1>6. CASE Send
  <2>1. state' \in States /\ ClosingOK'
    BY <1>6, CloseType DEF Send
  <2>2. LifeOK'
    <3>1. KillMe("ACTIVE_CLOSE") \/ UNCHANGED life
      BY <1>6 DEF Send
    <3> QED BY <1>6, <3>1, KillType, UnchangedLife DEF Send, Causes
  <2>3. /\ samples' \in Seq(Samples) /\ Len(samples') = Len(Swept)
        /\ sndMax' \in 0 .. FinOff + 1
    BY <1>6, HandOverType DEF Send
  <2>4. TcpOK'
    BY <1>1, <1>6, <2>1, <2>3 DEF Send, TcpOK
  <2>5. sndAge' \in 0 .. SendPeriod + 1
    BY <1>6, Constants DEF Send, ClocksOK
  <2> QED BY <1>6, <2>1, <2>2, <2>3, <2>4, <2>5 DEF Send, heard,
             ClocksOK, HeardOK, WiredOK
<1> QED BY <1>2, <1>3, <1>4, <1>5, <1>6 DEF Poll

LEMMA TickType == ASSUME TypeOK, Tick PROVE TypeOK'
<1> USE DEF TypeOK
<1>1. samples \in Seq(Samples) /\ Len(samples) \in Nat /\ DOMAIN samples = 1 .. Len(samples)
  BY DEF TcpOK
<1> DEFINE f(i) == [samples[i] EXCEPT !.age = Capped(@ + 1, Overdue)]
<1>2. ASSUME NEW i \in 1 .. Len(samples) PROVE f(i) \in Samples
  <2>1. samples[i] \in Samples
    BY <1>1
  <2>2. Capped(samples[i].age + 1, Overdue) \in 0 .. Overdue
    <3>1. samples[i].age \in 0 .. Overdue /\ Overdue \in Nat
      BY <2>1, PacketType, Constants DEF Overdue
    <3> QED BY <3>1 DEF Capped
  <2> QED BY <2>1, <2>2, AgedType
<1>3. samples' \in Seq(Samples) /\ Len(samples') = Len(samples)
  <2>1. samples' = [i \in 1 .. Len(samples) |-> f(i)]
    BY <1>1 DEF Tick
  <2> HIDE DEF f
  <2>2. [i \in 1 .. Len(samples) |-> f(i)] \in Seq(Samples)
    BY <1>1, <1>2, IsASeq
  <2> QED BY <1>1, <2>1, <2>2
<1>4. ClocksOK'
  <2>1. ASSUME NEW limit \in Nat, NEW age \in Never .. limit + 1
        PROVE  /\ Older(age, limit) \in Never .. limit + 1
               /\ age \in 0 .. limit + 1 => Older(age, limit) \in 0 .. limit + 1
    BY DEF Older, Capped, Never
  <2>2. sndAge \in Never .. SendPeriod + 1 /\ sndAge \in 0 .. SendPeriod + 1
    BY Constants DEF ClocksOK, Never
  <2> QED BY <2>1, <2>2, Constants DEF Tick, ClocksOK
<1>5. TcpOK'
  BY <1>3 DEF Tick, TcpOK
<1> QED BY <1>4, <1>5 DEF Tick, closing, life, heard, wired,
           ClosingOK, LifeOK, HeardOK, WiredOK

(* Every step keeps the types.                                             *)
LEMMA NextType == ASSUME TypeOK, [Next]_vars PROVE TypeOK'
<1>1. CASE UNCHANGED vars
  BY <1>1 DEF vars, tcp, closing, clocks, life, heard, wired, TypeOK,
     TcpOK, ClosingOK, ClocksOK, LifeOK, HeardOK, WiredOK
<1> QED BY <1>1, PollType, TickType, GotAPacketType DEF Next, Erased

(* Type correctness of a session: its list, its window, its sequence       *)
(* numbers and its clocks, and kill_me runs at most once.                  *)
THEOREM TypeCorrect == Spec => []TypeOK
<1>1. Init => TypeOK
  BY InitType
<1>2. TypeOK /\ [Next]_vars => TypeOK'
  BY NextType
<1> QED BY <1>1, <1>2, PTL DEF Spec

-----------------------------------------------------------------------------
(***************************************************************************)
(* The invariant of a session that carries FinKept, FinWaitsForPeer and    *)
(* GracefulClose, and that a session implements SessionLife, proved step   *)
(* by step.                                                                *)
(***************************************************************************)

(* Sequence numbers of the stream compare as their offsets do, because the *)
(* stream is shorter than half of the sequence space.                      *)

LEMMA OffsetOrder ==
  ASSUME NEW k \in 0 .. FinOff + 1, NEW l \in 0 .. FinOff + 1
  PROVE  /\ Before(Add(Isn, k), Add(Isn, l)) <=> k < l
         /\ BeforeEq(Add(Isn, k), Add(Isn, l)) <=> k <= l
<1>1. /\ Isn \in 0 .. Modulus - 1 /\ Modulus = Half + Half /\ Half \in Nat
      /\ FinOff \in Nat /\ FinOff + 1 < Half
  BY Constants, Widths DEF Word
<1>2. Before(Add(Isn, k), Add(Isn, l)) <=> k < l
  BY <1>1 DEF Before, Diff, Add
<1>3. Add(Isn, k) = Add(Isn, l) <=> k = l
  BY <1>1 DEF Add
<1> QED BY <1>2, <1>3 DEF BeforeEq

LEMMA SeqAtOffset ==
  ASSUME NEW x \in Samples
  PROVE  x.seq = Add(Isn, Offset(x))
<1>1. /\ Isn \in 0 .. Modulus - 1 /\ Modulus \in Nat /\ x.seq \in 0 .. Modulus - 1
  BY Constants, Widths, PacketType DEF Word
<1> QED BY <1>1 DEF Offset, Diff, Add

LEMMA AddZero == ASSUME NEW a \in Word PROVE Add(a, 0) = a
BY Widths DEF Add, Word

-----------------------------------------------------------------------------
(* What cutting a list's front leaves.                                     *)

LEMMA FromShape ==
  ASSUME NEW q \in Seq(Samples), NEW d \in 0 .. Len(q), OneFin(q)
  PROVE  /\ OneFin(From(q, d))
         /\ NoSyn(q) => NoSyn(From(q, d))
         /\ FinLast(q) /\ d < Len(q) => FinLast(From(q, d))
<1>1. /\ From(q, d) \in Seq(Samples) /\ Len(From(q, d)) = Len(q) - d /\ Len(q) \in Nat
      /\ \A i \in 1 .. Len(q) - d : From(q, d)[i] = q[i + d]
  BY FromType
<1>2. OneFin(From(q, d))
  <2> SUFFICES ASSUME NEW i \in 1 .. Len(q) - d, From(q, d)[i].kind = "fin"
               PROVE  i = Len(q) - d
    BY <1>1 DEF OneFin
  <2>1. i + d \in 1 .. Len(q) /\ q[i + d].kind = "fin"
    BY <1>1
  <2>2. i + d = Len(q)
    BY <2>1 DEF OneFin
  <2>3. i \in Int /\ d \in Int /\ Len(q) \in Int
    BY <1>1
  <2> QED BY <2>2, <2>3
<1>3. NoSyn(q) => NoSyn(From(q, d))
  BY <1>1 DEF NoSyn
<1>4. FinLast(q) /\ d < Len(q) => FinLast(From(q, d))
  <2> SUFFICES ASSUME FinLast(q), d < Len(q) PROVE FinLast(From(q, d))
    OBVIOUS
  <2>1. Len(q) - d \in 1 .. Len(q) - d
    BY <1>1
  <2>2. From(q, d)[Len(q) - d] = q[Len(q)]
    BY <1>1, <2>1
  <2>3. From(q, d) # <<>>
    BY <1>1, <2>1
  <2> QED BY <1>1, <2>2, <2>3 DEF FinLast
<1> QED BY <1>2, <1>3, <1>4

(* Lists that agree on their kinds have the same shape.                    *)
LEMMA SameKinds ==
  ASSUME NEW q \in Seq(Samples), NEW q2 \in Seq(Samples), Len(q2) = Len(q),
         \A i \in 1 .. Len(q) : q2[i].kind = q[i].kind
  PROVE  /\ OneFin(q) => OneFin(q2)
         /\ NoSyn(q) => NoSyn(q2)
         /\ FinLast(q) => FinLast(q2)
BY DEF OneFin, NoSyn, FinLast

(* refresh_status never drops the FIN while the acked number is not past   *)
(* it, and never reorders.                                                 *)
LEMMA RefreshedShape ==
  ASSUME NEW p, NEW q \in Seq(Samples), NEW w \in 0 .. Len(q),
         NEW r \in Refreshed(p, q, w), OneFin(q)
  PROVE  /\ OneFin(r.list) /\ (NoSyn(q) => NoSyn(r.list))
         /\ FinLast(q) /\ (\E k \in 0 .. FinOff : AckedAfter(p) = Add(Isn, k))
              => FinLast(r.list)
<1>1. CASE Outdated(p)
  BY <1>1 DEF Refreshed
<1>2. CASE ~Outdated(p)
  <2>1. PICK d \in Leading(w, AckedIn(q, w, AckedAfter(p))) :
          \E v \in Adjusted(From(q, d), w - d, p.win) :
             r = [list |-> From(q, d), win |-> v]
    BY <1>2 DEF Refreshed
  <2>2. d \in 0 .. Len(q) /\ r.list = From(q, d)
    BY <2>1 DEF Leading
  <2>3. ASSUME FinLast(q), NEW k \in 0 .. FinOff, AckedAfter(p) = Add(Isn, k)
        PROVE  d < Len(q)
    <3> SUFFICES ASSUME d = Len(q) PROVE FALSE
      BY <2>2
    <3>1. Len(q) \in 1 .. w
      BY <2>1, <2>3 DEF FinLast, Leading
    <3>2. Len(q) \in AckedIn(q, w, AckedAfter(p))
      BY <2>1, <3>1 DEF Leading
    <3>3. Before(q[Len(q)].seq, AckedAfter(p))
      BY <3>2 DEF AckedIn
    <3>4. q[Len(q)] \in Samples /\ q[Len(q)].kind = "fin"
      BY <2>3, <3>1 DEF FinLast
    <3>5. q[Len(q)].seq = Add(Isn, FinOff)
      BY <3>4, PacketType, SeqAtOffset
    <3> QED BY <2>3, <3>3, <3>5, OffsetOrder, Constants
  <2> QED BY <2>2, <2>3, FromShape
<1> QED BY <1>1, <1>2

-----------------------------------------------------------------------------
(* A packet of the server finds the invariant.                             *)

(* What a packet acks was sent, and stays acked.                           *)
LEMMA AckedAfterSent ==
  ASSUME TypeOK, NEW p \in Arriving, NEW a \in 0 .. sndMax, acked = Add(Isn, a)
  PROVE  \E k \in 0 .. sndMax : AckedAfter(p) = Add(Isn, k)
BY ArrivingType DEF AckedAfter, AckSeqOf, TypeOK, WiredOK

LEMMA RefreshedAcked ==
  ASSUME TypeOK, NEW p \in Arriving, RefreshNumbers(p),
         \E a \in 0 .. sndMax : acked = Add(Isn, a)
  PROVE  \E k \in 0 .. sndMax : acked' = Add(Isn, k)
BY AckedAfterSent DEF RefreshNumbers

(* Before the FIN is sent, refresh_status keeps the list's shape.          *)
LEMMA RefreshStatusShape ==
  ASSUME TypeOK, NEW p \in Arriving,
         NEW q \in Seq(Samples), NEW w \in 0 .. Len(q),
         OneFin(q), NoSyn(q), RefreshStatus(p, q, w),
         \E a \in 0 .. sndMax : acked = Add(Isn, a)
  PROVE  /\ OneFin(samples') /\ NoSyn(samples')
         /\ FinLast(q) /\ sndMax <= FinOff => FinLast(samples')
         /\ \E k \in 0 .. sndMax : acked' = Add(Isn, k)
<1>1. PICK r \in Refreshed(p, q, w) : samples' = r.list
  BY DEF RefreshStatus
<1>2. \E k \in 0 .. sndMax : AckedAfter(p) = Add(Isn, k)
  BY AckedAfterSent
<1>3. sndMax <= FinOff => \E k \in 0 .. FinOff : AckedAfter(p) = Add(Isn, k)
  BY <1>2, Constants DEF TypeOK, WiredOK
<1>4. \E k \in 0 .. sndMax : acked' = Add(Isn, k)
  BY RefreshedAcked DEF RefreshStatus
<1> QED BY <1>1, <1>3, <1>4, RefreshedShape

LEMMA RefreshStatusAndAckShape ==
  ASSUME TypeOK, NEW p \in Arriving,
         OneFin(samples), NoSyn(samples), RefreshStatusAndAck(p),
         \E a \in 0 .. sndMax : acked = Add(Isn, a)
  PROVE  /\ OneFin(samples') /\ NoSyn(samples')
         /\ \E k \in 0 .. sndMax : acked' = Add(Isn, k)
<1>1. PICK r \in Refreshed(p, samples, win) :
        samples' = IF r.list = <<>> THEN <<PureAck(beyondFin)>> ELSE r.list
  BY DEF RefreshStatusAndAck
<1>2. OneFin(r.list) /\ NoSyn(r.list)
  BY RefreshedShape DEF TypeOK, TcpOK
<1>3. OneFin(<<PureAck(beyondFin)>>) /\ NoSyn(<<PureAck(beyondFin)>>)
  BY DEF OneFin, NoSyn, PureAck, Packet
<1>4. \E k \in 0 .. sndMax : acked' = Add(Isn, k)
  BY RefreshedAcked DEF RefreshStatusAndAck
<1> QED BY <1>1, <1>2, <1>3, <1>4

(* What every handler of a TCP state keeps, and what an ack of the FIN's   *)
(* own number means.                                                       *)
LEMMA GotKeeps ==
  ASSUME TypeOK, SessionInv, NEW p \in Arriving, NEW s, Got(p, s)
  PROVE  /\ ~Dead /\ state = s /\ FinWaitsForPeer' /\ UNCHANGED <<sndMax, expectedLastAck>>
         /\ (peerFin => peerFin') /\ (p.fin => peerFin')
         /\ ackMax' >= ackMax
         /\ state \notin BeforeMyFin /\ AcksMyFin(p) => ackMax' >= FinOff
<1>1. /\ ~Dead /\ state = s /\ peerFin' = (peerFin \/ p.fin)
      /\ ackMax' = (IF p.ack > ackMax THEN p.ack ELSE ackMax)
      /\ UNCHANGED <<sndMax, expectedLastAck>>
  BY DEF Got, closing, wired
<1>2. p.ack \in 0 .. sndMax /\ sndMax \in 0 .. FinOff + 1 /\ ackMax \in 0 .. FinOff + 1
      /\ FinOff \in Nat
  BY ArrivingType, Constants DEF TypeOK, WiredOK, HeardOK
<1>3. ASSUME state \notin BeforeMyFin, AcksMyFin(p) PROVE FinOff <= p.ack
  <2>1. expectedLastAck = Add(Isn, FinOff)
    BY <1>1, <1>3 DEF SessionInv, LastAckKnown
  <2>2. BeforeEq(Add(Isn, FinOff), Add(Isn, p.ack))
    BY <1>3, <2>1 DEF AcksMyFin, AckSeqOf
  <2> QED BY <1>2, <2>2, OffsetOrder
<1>4. ackMax' >= ackMax /\ ackMax' >= p.ack
  BY <1>1, <1>2
<1>5. state \notin BeforeMyFin /\ AcksMyFin(p) => ackMax' >= FinOff
  BY <1>1, <1>2, <1>3
<1>6. FinWaitsForPeer'
  BY <1>1 DEF SessionInv, FinWaitsForPeer
<1> QED BY <1>1, <1>4, <1>5, <1>6

(* A live session after a handler: what remains to be shown.               *)
LEMMA HandlerInv ==
  ASSUME TypeOK, SessionInv, NEW p \in Arriving, NEW s, Got(p, s),
         OneFin(samples'), UNCHANGED life, state' \notin Handshake, NoSyn(samples'),
         \E k \in 0 .. sndMax : acked' = Add(Isn, k),
         FinUnsent', LastAckKnown', FinHeard', DataAcked', PassiveStates'
  PROVE  SessionInv'
<1>1. ~Dead /\ FinWaitsForPeer' /\ sndMax' = sndMax
  BY GotKeeps
<1>2. cause' = "none" /\ GracefulClose'
  BY <1>1 DEF SessionInv, life, GracefulClose
<1>3. SynFirst' /\ AckedSent'
  BY <1>1 DEF SynFirst, AckedSent
<1> QED BY <1>1, <1>2, <1>3 DEF SessionInv

(* A session that dies in this step: the cause must be true of it.         *)
LEMMA KilledInv ==
  ASSUME TypeOK, NEW c, KillMe(c), OneFin(samples'), FinWaitsForPeer',
         c \in {"ACTIVE_CLOSE", "PASSIVE_CLOSE"} => peerFin' /\ ackMax' >= FinOff
  PROVE  SessionInv'
<1>1. kills' > 0 /\ cause' = c
  BY DEF KillMe, Capped, TypeOK, LifeOK
<1>2. GracefulClose'
  BY <1>1 DEF GracefulClose
<1> QED BY <1>1, <1>2 DEF SessionInv, Dead

(* The handshake is answered by a SYN/ACK only, which takes the SYN off    *)
(* the list and leaves the rest.                                           *)
LEMMA SynSentInv ==
  ASSUME TypeOK, SessionInv, NEW p \in Arriving, SynSentGot(p)
  PROVE  SessionInv'
<1>1. /\ Got(p, "SYN_SENT") /\ UNCHANGED life /\ RefreshStatus(p, samples, win)
      /\ p.kind # "rst" /\ state = "SYN_SENT" /\ ~Dead
  BY DEF SynSentGot, Got
<1>2. /\ win = 1 /\ Len(samples) >= 2 /\ samples[1].kind = "syn" /\ sndMax <= 1
      /\ \A i \in 2 .. Len(samples) : samples[i].kind # "syn"
  BY <1>1 DEF SessionInv, SynFirst, Handshake
<1>3. /\ OneFin(samples) /\ FinLast(samples)
  BY <1>1 DEF SessionInv, FinUnsent, BeforeMyFin
<1>4. /\ samples \in Seq(Samples) /\ Len(samples) \in Nat /\ sndMax \in 0 .. FinOff + 1
      /\ FinOff \in Nat \ {0} /\ Isn \in Word
  BY Constants DEF TypeOK, TcpOK, WiredOK
<1>5. p \in SynAcks /\ sndMax >= 1
  <2>1. p \notin Resets
    BY <1>1 DEF Resets
  <2>2. ~(sndMax >= 2)
    BY <1>2, <1>4
  <2> QED BY <2>1, <2>2, Zenon DEF Arriving
<1>6. p.kind = "synack" /\ p.ack = 1
  BY <1>5 DEF SynAcks
<1>7. state' = "ESTABLISHED"
  BY <1>6 DEF SynSentGot
<1>8. ~Outdated(p) /\ AckedAfter(p) = Add(Isn, 1)
  BY <1>6 DEF Outdated, AckedAfter, AckSeqOf
<1>9. acked' = Add(Isn, 1) /\ 1 \in 0 .. sndMax
  BY <1>1, <1>4, <1>5, <1>8 DEF RefreshStatus, RefreshNumbers
<1>10. samples' = From(samples, 1)
  <2>1. PICK d \in Leading(1, AckedIn(samples, 1, Add(Isn, 1))) : samples' = From(samples, d)
    BY <1>1, <1>2, <1>8 DEF RefreshStatus, Refreshed
  <2>2. samples[1] \in Samples
    BY <1>2, <1>4
  <2>3. samples[1].seq = Add(Isn, 0)
    BY <1>2, <2>2, PacketType, SeqAtOffset
  <2>4. 0 \in 0 .. FinOff + 1 /\ 1 \in 0 .. FinOff + 1
    BY <1>4
  <2>5. Before(samples[1].seq, Add(Isn, 1))
    BY <2>3, <2>4, OffsetOrder
  <2>6. 1 \in AckedIn(samples, 1, Add(Isn, 1))
    BY <2>5 DEF AckedIn
  <2>7. d # 0
    BY <2>1, <2>6 DEF Leading
  <2>8. d = 1
    BY <2>1, <2>7 DEF Leading
  <2> QED BY <2>1, <2>8
<1>11. OneFin(samples') /\ FinLast(samples')
  BY <1>2, <1>3, <1>4, <1>10, FromShape
<1>12. NoSyn(samples')
  <2>1. /\ Len(From(samples, 1)) = Len(samples) - 1
        /\ \A i \in 1 .. Len(samples) - 1 : From(samples, 1)[i] = samples[i + 1]
    <3>1. 1 \in 0 .. Len(samples)
      BY <1>2, <1>4
    <3> QED BY <1>4, <3>1, FromType
  <2>2. \A i \in 1 .. Len(samples) - 1 : i + 1 \in 2 .. Len(samples)
    BY <1>4
  <2> QED BY <1>2, <1>10, <2>1, <2>2 DEF NoSyn
<1>13. UNCHANGED sndMax /\ sndMax <= FinOff
  BY <1>1, <1>2, <1>4, GotKeeps
<1>14. /\ state' \notin Handshake /\ FinUnsent' /\ LastAckKnown' /\ FinHeard'
       /\ DataAcked' /\ PassiveStates'
  BY <1>7, <1>11, <1>13 DEF Handshake, FinUnsent, LastAckKnown, FinHeard, DataAcked,
     PassiveStates, BeforeMyFin, HeardFin, ActiveStates
<1> QED BY <1>1, <1>9, <1>11, <1>12, <1>14, HandlerInv

(* Before the FIN is sent, the list the handler works on ends with it, and *)
(* so does what the handler leaves.                                        *)
LEMMA BeforeFinInv ==
  ASSUME TypeOK, SessionInv, NEW p \in Arriving, NEW s, Got(p, s),
         s \in {"ESTABLISHED", "CLOSE_WAIT"},
         NEW q \in Seq(Samples), NEW w \in 0 .. Len(q), RefreshStatus(p, q, w),
         OneFin(q), NoSyn(q), FinLast(q), UNCHANGED life,
         state' = s \/ (state' = "CLOSE_WAIT" /\ p.fin)
  PROVE  SessionInv'
<1>1. /\ ~Dead /\ state = s /\ UNCHANGED sndMax /\ (peerFin => peerFin') /\ (p.fin => peerFin')
  BY GotKeeps
<1>2. sndMax <= FinOff /\ \E a \in 0 .. sndMax : acked = Add(Isn, a)
  BY <1>1 DEF SessionInv, FinUnsent, AckedSent, BeforeMyFin, Handshake
<1>3. /\ OneFin(samples') /\ NoSyn(samples') /\ FinLast(samples')
      /\ \E k \in 0 .. sndMax : acked' = Add(Isn, k)
  BY <1>2, RefreshStatusShape
<1>4. FinHeard'
  BY <1>1 DEF SessionInv, FinHeard, HeardFin
<1>5. /\ state' \notin Handshake /\ FinUnsent' /\ LastAckKnown'
      /\ DataAcked' /\ PassiveStates'
  BY <1>1, <1>2, <1>3 DEF Handshake, FinUnsent, LastAckKnown, DataAcked,
     PassiveStates, BeforeMyFin, ActiveStates
<1> QED BY <1>3, <1>4, <1>5, HandlerInv

LEMMA EstablishedInv ==
  ASSUME TypeOK, SessionInv, NEW p \in Arriving, EstablishedGot(p)
  PROVE  SessionInv'
<1>1. Got(p, "ESTABLISHED") /\ UNCHANGED life
  BY DEF EstablishedGot
<1>2. state = "ESTABLISHED" /\ ~Dead
  BY <1>1, GotKeeps
<1>3. OneFin(samples) /\ NoSyn(samples) /\ FinLast(samples)
  BY <1>2 DEF SessionInv, SynFirst, FinUnsent, Handshake, BeforeMyFin
<1>4. /\ samples \in Seq(Samples) /\ win \in 0 .. Len(samples) /\ Len(samples) \in Nat
      /\ acked \in Word
  BY DEF TypeOK, TcpOK
<1> DEFINE bare == {i \in DOMAIN samples :
                      samples[i].len = 0 /\ samples[i].kind # "fin"}
<1>5. CASE p.fin
  <2>1. PICK d \in Leading(Len(samples), bare) :
          RefreshStatus(p, From(samples, d), Len(samples) - d)
    BY <1>5 DEF EstablishedGot
  <2>2. d \in 0 .. Len(samples) /\ 1 .. d \subseteq bare
    BY <2>1 DEF Leading
  <2>3. Len(samples) \in 1 .. Len(samples) /\ Len(samples) \notin bare
    BY <1>3, <1>4 DEF FinLast
  <2>4. d < Len(samples)
    BY <1>4, <2>2, <2>3
  <2>5. /\ From(samples, d) \in Seq(Samples) /\ Len(From(samples, d)) = Len(samples) - d
        /\ OneFin(From(samples, d)) /\ NoSyn(From(samples, d)) /\ FinLast(From(samples, d))
    BY <1>3, <1>4, <2>2, <2>4, FromType, FromShape
  <2>6. Len(samples) - d \in 0 .. Len(From(samples, d))
    BY <1>4, <2>2, <2>5
  <2>7. state' = "CLOSE_WAIT"
    BY <1>5 DEF EstablishedGot
  <2> QED BY <1>1, <1>5, <2>1, <2>5, <2>6, <2>7, BeforeFinInv
<1>6. CASE ~p.fin /\ samples[1].kind = "fin" /\ p.len > 0 /\ ~ActiveClose
  <2> DEFINE q == <<PureAck(acked)>> \o samples
  <2>1. RefreshStatus(p, q, Len(samples) + 1) /\ state' = state
    BY <1>6 DEF EstablishedGot
  <2>2. PureAck(acked) \in Samples /\ PureAck(acked).kind = "ack"
    BY <1>4, PureAckType DEF PureAck, Packet
  <2>3. q \in Seq(Samples) /\ Len(q) = Len(samples) + 1 /\ q[1] = PureAck(acked)
        /\ \A i \in 2 .. Len(q) : q[i] = samples[i - 1]
    BY <1>4, <2>2
  <2>4. Len(samples) + 1 \in 0 .. Len(q)
    BY <1>4, <2>3
  <2> HIDE DEF q
  <2>5. NoSyn(q)
    <3> SUFFICES ASSUME NEW i \in 1 .. Len(q) PROVE q[i].kind # "syn"
      BY DEF NoSyn
    <3>1. CASE i = 1
      BY <2>2, <2>3, <3>1
    <3>2. CASE i # 1
      <4>1. i \in 2 .. Len(q) /\ i - 1 \in 1 .. Len(samples)
        BY <1>4, <2>3, <3>2
      <4> QED BY <1>3, <2>3, <4>1 DEF NoSyn
    <3> QED BY <3>1, <3>2
  <2>6. OneFin(q)
    <3> SUFFICES ASSUME NEW i \in 1 .. Len(q), q[i].kind = "fin" PROVE i = Len(q)
      BY DEF OneFin
    <3>1. i # 1
      BY <2>2, <2>3
    <3>2. i \in 2 .. Len(q) /\ i - 1 \in 1 .. Len(samples)
      BY <1>4, <2>3, <3>1
    <3>3. i - 1 = Len(samples)
      BY <1>3, <2>3, <3>2 DEF OneFin
    <3> QED BY <1>4, <2>3, <3>2, <3>3
  <2>7. FinLast(q)
    <3>1. Len(samples) \in 1 .. Len(samples) /\ Len(q) \in 2 .. Len(q)
      BY <1>3, <1>4, <2>3 DEF FinLast
    <3>2. q[Len(q)] = samples[Len(samples)] /\ q # <<>>
      BY <1>4, <2>3, <3>1
    <3> QED BY <1>3, <3>2 DEF FinLast
  <2> QED BY <1>1, <1>2, <2>1, <2>3, <2>4, <2>5, <2>6, <2>7, BeforeFinInv
<1>7. CASE ~p.fin /\ ~(samples[1].kind = "fin" /\ p.len > 0 /\ ~ActiveClose)
  <2>1. RefreshStatus(p, samples, win) /\ state' = state
    BY <1>7 DEF EstablishedGot
  <2> QED BY <1>1, <1>2, <1>3, <1>4, <2>1, BeforeFinInv
<1> QED BY <1>5, <1>6, <1>7

(* Once the FIN is sent, a handler that moves to a state for a reason the  *)
(* packet gives keeps the invariant.                                       *)
AfterMyFin == {"LAST_ACK", "FIN_WAIT_1", "FIN_WAIT_2", "CLOSING", "TIME_WAIT"}

LEMMA AfterFinInv ==
  ASSUME TypeOK, SessionInv, NEW p \in Arriving, NEW s \in AfterMyFin, Got(p, s),
         RefreshStatus(p, samples, win) \/ RefreshStatusAndAck(p), UNCHANGED life,
         state' \in AfterMyFin,
         state' \in HeardFin => s \in HeardFin \/ p.fin,
         state' \in {"FIN_WAIT_2", "TIME_WAIT"} =>
           s \in {"FIN_WAIT_2", "TIME_WAIT"} \/ AcksMyFin(p),
         state' \in ActiveStates => s \in ActiveStates
  PROVE  SessionInv'
<1>1. /\ ~Dead /\ state = s /\ UNCHANGED <<sndMax, expectedLastAck>>
      /\ (peerFin => peerFin') /\ (p.fin => peerFin') /\ ackMax' >= ackMax
      /\ state \notin BeforeMyFin /\ AcksMyFin(p) => ackMax' >= FinOff
  BY GotKeeps
<1>2. state \notin BeforeMyFin /\ state \notin Handshake
      /\ state' \notin BeforeMyFin /\ state' \notin Handshake
  BY <1>1 DEF AfterMyFin, BeforeMyFin, Handshake
<1>3. OneFin(samples) /\ NoSyn(samples) /\ \E a \in 0 .. sndMax : acked = Add(Isn, a)
  BY <1>1, <1>2 DEF SessionInv, SynFirst, AckedSent
<1>4. OneFin(samples') /\ NoSyn(samples') /\ \E k \in 0 .. sndMax : acked' = Add(Isn, k)
  <2>1. samples \in Seq(Samples) /\ win \in 0 .. Len(samples)
    BY DEF TypeOK, TcpOK
  <2>2. CASE RefreshStatus(p, samples, win)
    BY <1>3, <2>1, <2>2, RefreshStatusShape
  <2>3. CASE RefreshStatusAndAck(p)
    BY <1>3, <2>3, RefreshStatusAndAckShape
  <2> QED BY <2>2, <2>3
<1>5. FinUnsent' /\ LastAckKnown' /\ PassiveStates'
  BY <1>1, <1>2 DEF SessionInv, FinUnsent, LastAckKnown, PassiveStates
<1>6. FinHeard'
  BY <1>1 DEF SessionInv, FinHeard
<1>7. DataAcked'
  <2>1. SUFFICES ASSUME state' \in {"FIN_WAIT_2", "TIME_WAIT"} PROVE ackMax' >= FinOff
    BY DEF DataAcked
  <2>2. CASE AcksMyFin(p)
    BY <1>1, <1>2, <2>2
  <2>3. CASE s \in {"FIN_WAIT_2", "TIME_WAIT"}
    <3>1. ackMax >= FinOff
      BY <1>1, <2>3 DEF SessionInv, DataAcked
    <3>2. ackMax \in Nat /\ FinOff \in Nat /\ ackMax' \in Nat
      BY Constants, GotType DEF TypeOK, HeardOK
    <3> QED BY <1>1, <3>1, <3>2
  <2> QED BY <2>1, <2>2, <2>3
<1> QED BY <1>2, <1>4, <1>5, <1>6, <1>7, HandlerInv

LEMMA AfterFinHandlers ==
  ASSUME TypeOK, SessionInv, NEW p \in Arriving,
         LastAckGot(p) \/ FinWait1Got(p) \/ FinWait2Got(p) \/ ClosingGot(p) \/ TimeWaitGot(p)
  PROVE  SessionInv'
<1> USE DEF AfterMyFin, HeardFin, ActiveStates
<1>1. OneFin(samples) /\ samples \in Seq(Samples) /\ win \in 0 .. Len(samples)
  BY DEF SessionInv, TypeOK, TcpOK
<1>2. CASE LastAckGot(p)
  <2>1. Got(p, "LAST_ACK") /\ RefreshStatus(p, samples, win) /\ state = "LAST_ACK"
        /\ ~Dead
    BY <1>2 DEF LastAckGot, Got
  <2>2. CASE AcksMyFin(p)
    <3>1. KillMe("PASSIVE_CLOSE")
      BY <1>2, <2>2 DEF LastAckGot
    <3>2. /\ FinWaitsForPeer' /\ (peerFin => peerFin') /\ ackMax' >= FinOff
      BY <2>1, <2>2, GotKeeps DEF BeforeMyFin
    <3>3. peerFin
      BY <2>1 DEF SessionInv, FinHeard
    <3>4. /\ NoSyn(samples) /\ \E a \in 0 .. sndMax : acked = Add(Isn, a)
      BY <2>1 DEF SessionInv, SynFirst, AckedSent, Handshake
    <3>5. OneFin(samples')
      BY <1>1, <2>1, <3>4, RefreshStatusShape
    <3> QED BY <3>1, <3>2, <3>3, <3>5, KilledInv
  <2>3. CASE ~AcksMyFin(p)
    BY <1>2, <2>1, <2>3, AfterFinInv DEF LastAckGot
  <2> QED BY <2>2, <2>3
<1>3. CASE FinWait1Got(p)
  <2>1. Got(p, "FIN_WAIT_1") /\ UNCHANGED life /\ state = "FIN_WAIT_1"
    BY <1>3 DEF FinWait1Got, Got
  <2>2. CASE AcksMyFin(p)
    <3>1. RefreshStatusAndAck(p) /\ state' = IF p.fin THEN "TIME_WAIT" ELSE "FIN_WAIT_2"
      BY <1>3, <2>2 DEF FinWait1Got
    <3> QED BY <2>1, <2>2, <3>1, AfterFinInv
  <2>3. CASE ~AcksMyFin(p)
    <3>1. RefreshStatus(p, samples, win) /\ state' = IF p.fin THEN "CLOSING" ELSE state
      BY <1>3, <2>3 DEF FinWait1Got
    <3> QED BY <2>1, <3>1, AfterFinInv
  <2> QED BY <2>2, <2>3
<1>4. CASE FinWait2Got(p)
  <2>1. Got(p, "FIN_WAIT_2") /\ state = "FIN_WAIT_2"
    BY <1>4 DEF FinWait2Got, Got
  <2>2. CASE KillMe("NO_FIN_FROM_PEER") /\ UNCHANGED tcp
    <3>1. OneFin(samples') /\ FinWaitsForPeer'
      BY <1>1, <2>1, <2>2, GotKeeps DEF tcp
    <3> QED BY <2>2, <3>1, KilledInv
  <2>3. CASE /\ state' = IF p.fin THEN "TIME_WAIT" ELSE state
             /\ IF p.len > 0 THEN RefreshStatusAndAck(p)
                             ELSE RefreshStatus(p, samples, win)
             /\ UNCHANGED life
    <3>1. RefreshStatus(p, samples, win) \/ RefreshStatusAndAck(p)
      BY <2>3
    <3> QED BY <2>1, <2>3, <3>1, AfterFinInv
  <2> QED BY <1>4, <2>2, <2>3 DEF FinWait2Got
<1>5. CASE ClosingGot(p)
  <2>1. /\ Got(p, "CLOSING") /\ state = "CLOSING" /\ UNCHANGED life
        /\ RefreshStatusAndAck(p) /\ state' = IF AcksMyFin(p) THEN "TIME_WAIT" ELSE state
    BY <1>5 DEF ClosingGot, Got
  <2> QED BY <2>1, AfterFinInv
<1>6. CASE TimeWaitGot(p)
  <2>1. /\ Got(p, "TIME_WAIT") /\ state = "TIME_WAIT" /\ UNCHANGED life
        /\ RefreshStatusAndAck(p) /\ state' = state
    BY <1>6 DEF TimeWaitGot, Got
  <2> QED BY <2>1, AfterFinInv
<1> QED BY <1>2, <1>3, <1>4, <1>5, <1>6

LEMMA GotAPacketInv ==
  ASSUME TypeOK, SessionInv, NEW p \in Arriving, GotAPacket(p)
  PROVE  SessionInv'
<1>1. CASE DeadGot(p)
  BY <1>1 DEF DeadGot, tcp, life, heard, wired, SessionInv, FinWaitsForPeer,
     GracefulClose, Dead
<1>2. CASE GotReset(p)
  <2>1. OneFin(samples') /\ FinWaitsForPeer'
    BY <1>2 DEF GotReset, tcp, heard, wired, SessionInv, FinWaitsForPeer
  <2> QED BY <1>2, <2>1, KilledInv DEF GotReset
<1>3. CASE CloseWaitGot(p)
  <2>1. /\ Got(p, "CLOSE_WAIT") /\ state' = state /\ RefreshStatus(p, samples, win)
        /\ UNCHANGED life /\ state = "CLOSE_WAIT" /\ ~Dead
    BY <1>3 DEF CloseWaitGot, Got
  <2>2. OneFin(samples) /\ NoSyn(samples) /\ FinLast(samples)
    BY <2>1 DEF SessionInv, SynFirst, FinUnsent, Handshake, BeforeMyFin
  <2> QED BY <2>1, <2>2, BeforeFinInv DEF TypeOK, TcpOK
<1> QED BY <1>1, <1>2, <1>3, SynSentInv, EstablishedInv, AfterFinHandlers DEF GotAPacket

-----------------------------------------------------------------------------
(* A poll finds the invariant.                                             *)

(* Dropping a spent pure ack changes nothing of the list that matters.     *)
LEMMA SweptShape ==
  ASSUME TypeOK, OneFin(samples)
  PROVE  /\ OneFin(Swept)
         /\ NoSyn(samples) => NoSyn(Swept)
         /\ FinLast(samples) => FinLast(Swept)
<1>1. samples \in Seq(Samples) /\ win \in 0 .. Len(samples) /\ Len(samples) \in Nat
  BY DEF TypeOK, TcpOK
<1>2. CASE ~SpentAck
  BY <1>2 DEF Swept
<1>3. CASE SpentAck
  <2>1. 1 \in 0 .. Len(samples) /\ samples # <<>> /\ samples[1].kind = "ack"
    BY <1>1, <1>3 DEF SpentAck
  <2>2. Swept = From(samples, 1)
    BY <1>1, <1>3, <2>1 DEF Swept, From
  <2>3. FinLast(samples) => 1 < Len(samples)
    <3>1. ASSUME FinLast(samples), Len(samples) = 1 PROVE FALSE
      BY <2>1, <3>1 DEF FinLast
    <3>2. Len(samples) # 0
      BY <1>1, <2>1
    <3>3. Len(samples) = 1 \/ 1 < Len(samples)
      <4>1. Len(samples) \in Nat
        BY <1>1
      <4>2. \A n \in Nat : n # 0 => n = 1 \/ 1 < n
        OBVIOUS
      <4> QED BY <3>2, <4>1, <4>2
    <3> QED BY <3>1, <3>3, Zenon
  <2> QED BY <1>1, <2>1, <2>2, <2>3, FromShape
<1> QED BY <1>2, <1>3

(* What the marking of SYN and FIN makes of the state.                     *)
LEMMA PollState ==
  ASSUME TypeOK, SessionInv, ~Dead
  PROVE  /\ state \in Handshake =>
              /\ Swept = samples /\ SweptWin = 1 /\ Count = 1 /\ ~FinOut
              /\ StateAfterFin \in Handshake
         /\ state \notin Handshake =>
              /\ StateAfterSyn = state
              /\ StateAfterFin = IF FinOut /\ state = "ESTABLISHED" THEN "FIN_WAIT_1"
                                 ELSE IF FinOut /\ state = "CLOSE_WAIT" THEN "LAST_ACK"
                                 ELSE state
<1>1. /\ Swept \in Seq(Samples) /\ SweptWin \in 0 .. Len(Swept) /\ Count \in 0 .. SweptWin
      /\ Len(Swept) \in Nat
  BY SweptType
<1>2. ASSUME state \in Handshake
      PROVE  /\ Swept = samples /\ SweptWin = 1 /\ Count = 1 /\ ~FinOut
             /\ StateAfterFin \in Handshake
  <2>1. win = 1 /\ samples[1].kind = "syn"
    BY <1>2 DEF SessionInv, SynFirst
  <2>2. Swept = samples /\ SweptWin = 1
    BY <2>1 DEF SpentAck, Swept, SweptWin
  <2>3. ~FinInWindow
    BY <2>1, <2>2 DEF FinInWindow
  <2>4. Count = 1 /\ ~FinOut
    BY <2>2, <2>3 DEF Count, Halted, FinOut
  <2> QED BY <1>2, <2>2, <2>4 DEF StateAfterFin, StateAfterSyn, Handshake
<1>3. ASSUME state \notin Handshake
      PROVE  /\ StateAfterSyn = state
             /\ StateAfterFin = IF FinOut /\ state = "ESTABLISHED" THEN "FIN_WAIT_1"
                                ELSE IF FinOut /\ state = "CLOSE_WAIT" THEN "LAST_ACK"
                                ELSE state
  <2>1. NoSyn(Swept)
    BY <1>3, SweptShape DEF SessionInv, SynFirst
  <2>2. ~SynInFront
    <3>1. SUFFICES ASSUME Count > 0 PROVE Swept[1].kind # "syn"
      BY DEF SynInFront
    <3>2. 1 \in 1 .. Len(Swept)
      BY <1>1, <3>1
    <3> QED BY <2>1, <3>2 DEF NoSyn
  <2>3. StateAfterSyn = state
    BY <2>2 DEF StateAfterSyn
  <2> QED BY <2>3 DEF StateAfterFin
<1> QED BY <1>2, <1>3

(* What a sending leaves: the same packets, and the FIN goes out only if   *)
(* it is in the answer.                                                    *)
LEMMA HandOverShape ==
  ASSUME TypeOK, SessionInv, ~Dead, HandOver(Swept)
  PROVE  /\ samples' \in Seq(Samples) /\ Len(samples') = Len(Swept)
         /\ \A i \in 1 .. Len(Swept) : samples'[i].kind = Swept[i].kind
         /\ sndMax' \in sndMax .. FinOff + 1
         /\ FinOut \/ sndMax' = sndMax \/ sndMax' <= FinOff
         /\ state \in Handshake => sndMax' <= 1
<1> DEFINE q == Swept
<1>1. /\ q \in Seq(Samples) /\ SweptWin \in 0 .. Len(q) /\ Count \in 0 .. SweptWin
      /\ Len(q) \in Nat /\ DOMAIN q = 1 .. Len(q) /\ OneFin(q)
      /\ sndMax \in 0 .. FinOff + 1 /\ FinOff \in Nat
  BY SweptType, SweptShape, Constants DEF TypeOK, WiredOK, SessionInv
<1>2. /\ samples' \in Seq(Samples) /\ Len(samples') = Len(q) /\ sndMax' \in 0 .. FinOff + 1
  BY HandOverType
<1>3. PICK d \in Leading(Count, {i \in 1 .. Count : Due(q[i])}) :
      \E j \in (IF QueueMayFill THEN 0 .. d ELSE {d}) :
        /\ samples' = [i \in DOMAIN q |->
                         IF i > j THEN q[i]
                         ELSE [q[i] EXCEPT !.age = 0,
                                 !.sent = Capped(@ + 1, SentLimit(q[i].kind))]]
        /\ sndMax' = IF j > 0 /\ InStream(q[j]) /\ Reach(q[j]) > sndMax
                     THEN Reach(q[j]) ELSE sndMax
  BY DEF HandOver
<1>4. d \in 0 .. Count
  BY <1>3 DEF Leading
<1>5. PICK j \in 0 .. d :
        /\ samples' = [i \in DOMAIN q |->
                         IF i > j THEN q[i]
                         ELSE [q[i] EXCEPT !.age = 0,
                                 !.sent = Capped(@ + 1, SentLimit(q[i].kind))]]
        /\ sndMax' = IF j > 0 /\ InStream(q[j]) /\ Reach(q[j]) > sndMax
                     THEN Reach(q[j]) ELSE sndMax
  <2>1. (IF QueueMayFill THEN 0 .. d ELSE {d}) \subseteq 0 .. d
    BY <1>1, <1>4
  <2> QED BY <1>3, <2>1
<1> HIDE DEF q
<1>6. ASSUME NEW i \in 1 .. Len(q) PROVE samples'[i].kind = q[i].kind
  <2>1. samples'[i] = IF i > j THEN q[i]
                      ELSE [q[i] EXCEPT !.age = 0,
                              !.sent = Capped(@ + 1, SentLimit(q[i].kind))]
    BY <1>1, <1>5, <1>6, Zenon
  <2>2. q[i] \in Samples
    BY <1>1
  <2>3. ASSUME NEW x \in Samples, NEW m PROVE [x EXCEPT !.age = 0, !.sent = m].kind = x.kind
    BY DEF Samples
  <2> QED BY <2>1, <2>2, <2>3
<1>7. /\ sndMax' \in sndMax .. FinOff + 1
      /\ FinOut \/ sndMax' = sndMax \/ sndMax' <= FinOff
      /\ state \in Handshake => sndMax' <= 1
  <2>1. CASE ~(j > 0 /\ InStream(q[j]) /\ Reach(q[j]) > sndMax)
    <3>1. sndMax' = sndMax
      BY <1>5, <2>1
    <3>2. state \in Handshake => sndMax <= 1
      BY DEF SessionInv, SynFirst
    <3> QED BY <1>1, <3>1, <3>2
  <2>2. CASE j > 0 /\ InStream(q[j]) /\ Reach(q[j]) > sndMax
    <3>0. sndMax' = Reach(q[j])
      BY <1>5, <2>2, Zenon
    <3>1. sndMax' = Reach(q[j]) /\ j \in 1 .. Count /\ j \in 1 .. Len(q)
      <4>1. j \in Int /\ j > 0
        BY <1>1, <1>4, <2>2
      <4>2. j <= d /\ d <= Count /\ Count <= SweptWin /\ SweptWin <= Len(q)
            /\ d \in Int /\ Count \in Int /\ SweptWin \in Int
        BY <1>1, <1>4
      <4> QED BY <1>1, <3>0, <4>1, <4>2
    <3>2. q[j] \in Samples
      BY <1>1, <3>1
    <3>3. CASE q[j].kind = "fin"
      <4>1. j = Len(q)
        BY <1>1, <3>1, <3>3 DEF OneFin
      <4>2. Count = SweptWin /\ j = SweptWin
        <5>1. /\ Count <= SweptWin /\ SweptWin <= Len(q) /\ Len(q) <= Count
              /\ Count \in Int /\ SweptWin \in Int /\ Len(q) \in Int
          BY <1>1, <3>1, <4>1
        <5> QED BY <4>1, <5>1
      <4>3. ~Halted
        BY <1>1, <4>2 DEF Count
      <4>4. FinOut
        BY <1>1, <3>1, <3>3, <4>2, <4>3 DEF FinOut, FinInWindow, q
      <4>5. state \notin Handshake
        BY <4>4, PollState
      <4> QED BY <1>1, <1>2, <2>2, <3>1, <4>4, <4>5
    <3>4. CASE q[j].kind # "fin"
      <4>1. Reach(q[j]) <= FinOff
        BY <2>2, <3>2, <3>4, PacketType
      <4>2. state \in Handshake => Reach(q[j]) = 1
        <5>1. SUFFICES ASSUME state \in Handshake PROVE Reach(q[j]) = 1
          OBVIOUS
        <5>2. Count = 1 /\ q = samples /\ samples[1].kind = "syn"
          BY <5>1, PollState DEF SessionInv, SynFirst, q
        <5>3. j = 1 /\ q[j].kind = "syn"
          BY <3>1, <5>2
        <5> QED BY <3>2, <5>3, PacketType
      <4> QED BY <1>1, <1>2, <2>2, <3>1, <4>1, <4>2
    <3> QED BY <3>3, <3>4
  <2> QED BY <2>1, <2>2
<1> QED BY <1>2, <1>6, <1>7 DEF q

(* Close, once the packets are handed over, keeps the invariant: for the   *)
(* session that stays alive, and what a kill needs.                        *)
LEMMA CloseInv ==
  ASSUME TypeOK, SessionInv, ~Dead, Close,
         samples' \in Seq(Samples), Len(samples') = Len(Swept),
         \A i \in 1 .. Len(Swept) : samples'[i].kind = Swept[i].kind,
         win' = SweptWin, UNCHANGED <<acked, heard>>,
         sndMax' \in sndMax .. FinOff + 1,
         FinOut \/ sndMax' = sndMax \/ sndMax' <= FinOff,
         state \in Handshake => sndMax' <= 1
  PROVE  /\ OneFin(samples') /\ FinWaitsForPeer'
         /\ UNCHANGED life => SessionInv'
         /\ StateAfterFin = "TIME_WAIT" => peerFin' /\ ackMax' >= FinOff
<1>1. /\ cause = "none" /\ state \in States /\ OneFin(samples)
      /\ SynFirst /\ AckedSent /\ FinUnsent /\ LastAckKnown
      /\ FinHeard /\ DataAcked /\ PassiveStates
  BY DEF SessionInv, TypeOK, TcpOK
<1>2. /\ Swept \in Seq(Samples) /\ SweptWin \in 0 .. Len(Swept) /\ Len(Swept) \in Nat
      /\ sndMax \in 0 .. FinOff + 1 /\ FinOff \in Nat \ {0} /\ ActiveClose \in BOOLEAN
  BY SweptType, Constants DEF TypeOK, WiredOK
<1>3. /\ OneFin(Swept) /\ (NoSyn(samples) => NoSyn(Swept))
      /\ (FinLast(samples) => FinLast(Swept))
  BY <1>1, SweptShape
<1>4. /\ OneFin(samples') /\ (NoSyn(samples) => NoSyn(samples'))
      /\ (FinLast(samples) => FinLast(samples'))
  BY <1>2, <1>3, SameKinds
<1>5. state' = StateAfterFin
  BY DEF Close
<1>6. /\ state \in Handshake =>
           /\ Swept = samples /\ SweptWin = 1 /\ ~FinOut /\ state' \in Handshake
      /\ state \notin Handshake =>
           /\ StateAfterSyn = state
           /\ state' = IF FinOut /\ state = "ESTABLISHED" THEN "FIN_WAIT_1"
                       ELSE IF FinOut /\ state = "CLOSE_WAIT" THEN "LAST_ACK"
                       ELSE state
  BY <1>5, PollState
<1>7. FinOut => (state # "ESTABLISHED" \/ ActiveClose)
  BY DEF FinOut, Halted
<1>8. FinWaitsForPeer'
  <2>1. SUFFICES ASSUME ~ActiveClose, sndMax' = FinOff + 1, ~peerFin PROVE FALSE
    BY DEF FinWaitsForPeer, heard
  <2>2. sndMax # FinOff + 1
    BY <2>1 DEF SessionInv, FinWaitsForPeer
  <2>3. ~(sndMax' <= FinOff) /\ sndMax' # sndMax
    BY <1>2, <2>1, <2>2
  <2>4. FinOut
    BY <2>3
  <2>5. state \notin HeardFin /\ state \notin ActiveStates /\ state # "ESTABLISHED"
        /\ state \notin Handshake
    BY <1>1, <1>6, <1>7, <2>1, <2>4 DEF FinHeard, PassiveStates
  <2> QED BY <1>1, <2>5 DEF States, HeardFin, ActiveStates, Handshake
<1>9. SynFirst'
  <2>1. CASE state \in Handshake
    <3>1. /\ win = 1 /\ Len(samples) >= 2 /\ samples[1].kind = "syn"
          /\ \A i \in 2 .. Len(samples) : samples[i].kind # "syn"
      BY <1>1, <2>1 DEF SynFirst
    <3>2. Len(samples') = Len(samples) /\ samples'[1].kind = "syn" /\ win' = 1
          /\ \A i \in 2 .. Len(samples') : samples'[i].kind # "syn"
      BY <1>2, <1>6, <2>1, <3>1
    <3> QED BY <1>6, <2>1, <3>1, <3>2 DEF SynFirst
  <2>2. CASE state \notin Handshake
    <3>1. state' \notin Handshake
      BY <1>6, <2>2 DEF Handshake
    <3> QED BY <1>1, <1>4, <2>2, <3>1 DEF SynFirst
  <2> QED BY <2>1, <2>2
<1>10. AckedSent'
  <2>1. SUFFICES ASSUME state' \notin Handshake
                 PROVE  \E a \in 0 .. sndMax' : acked = Add(Isn, a)
    BY DEF AckedSent
  <2>2. PICK a \in 0 .. sndMax : acked = Add(Isn, a)
    BY <1>1, <1>6, <2>1 DEF AckedSent
  <2>3. a \in 0 .. sndMax'
    BY <1>2, <2>2
  <2> QED BY <2>2, <2>3
<1>11. FinUnsent'
  <2>1. SUFFICES ASSUME state' \in BeforeMyFin PROVE FinLast(samples') /\ sndMax' <= FinOff
    BY DEF FinUnsent
  <2>2. state \in BeforeMyFin /\ ~FinOut
    BY <1>1, <1>6, <2>1 DEF BeforeMyFin, Handshake, States
  <2>3. FinLast(samples) /\ sndMax <= FinOff
    BY <1>1, <2>2 DEF FinUnsent
  <2>4. sndMax' <= FinOff
    BY <2>2, <2>3
  <2> QED BY <1>4, <2>3, <2>4
<1>12. LastAckKnown'
  <2>1. SUFFICES ASSUME state' \notin BeforeMyFin PROVE expectedLastAck' = Add(Isn, FinOff)
    BY DEF LastAckKnown
  <2>2. state \notin Handshake /\ StateAfterSyn = state
    BY <1>6, <2>1 DEF BeforeMyFin, Handshake
  <2>3. CASE state \notin BeforeMyFin
    <3>1. StateAfterFin = StateAfterSyn
      BY <1>5, <1>6, <2>2, <2>3 DEF BeforeMyFin
    <3> QED BY <1>1, <2>3, <3>1 DEF Close, LastAckKnown
  <2>4. CASE state \in BeforeMyFin
    <3>1. FinOut /\ StateAfterFin # StateAfterSyn
      BY <1>5, <1>6, <2>1, <2>2, <2>4
    <3>2. Swept[SweptWin] \in Samples /\ Swept[SweptWin].kind = "fin"
      BY <1>2, <3>1 DEF FinOut, FinInWindow
    <3>3. Swept[SweptWin].seq = Add(Isn, FinOff) /\ Swept[SweptWin].len = 0
      BY <3>2, PacketType, SeqAtOffset DEF Samples
    <3>4. Add(Add(Isn, FinOff), 0) = Add(Isn, FinOff)
      <4>1. FinOff \in 0 .. Half
        BY Constants, Widths
      <4> QED BY <4>1, Constants, AddType, AddZero
    <3> QED BY <3>1, <3>3, <3>4 DEF Close
  <2> QED BY <2>3, <2>4
<1>13. FinHeard' /\ DataAcked' /\ PassiveStates'
  <2>1. peerFin' = peerFin /\ ackMax' = ackMax
    BY DEF heard
  <2>2. state' \in HeardFin => state \in HeardFin
    BY <1>6 DEF HeardFin, Handshake
  <2>3. state' \in {"FIN_WAIT_2", "TIME_WAIT"} => state = state'
    BY <1>6 DEF Handshake
  <2>4. state' \in ActiveStates => ActiveClose
    BY <1>1, <1>6, <1>7 DEF PassiveStates, ActiveStates, Handshake
  <2> QED BY <1>1, <2>1, <2>2, <2>3, <2>4 DEF FinHeard, DataAcked, PassiveStates
<1>14. UNCHANGED life => SessionInv'
  <2>1. SUFFICES ASSUME UNCHANGED life PROVE SessionInv'
    OBVIOUS
  <2>2. cause' = "none" /\ GracefulClose'
    BY <1>1, <2>1 DEF life, GracefulClose
  <2> QED BY <1>4, <1>8, <1>9, <1>10, <1>11, <1>12, <1>13, <2>2 DEF SessionInv
<1>15. StateAfterFin = "TIME_WAIT" => peerFin' /\ ackMax' >= FinOff
  BY <1>5, <1>13 DEF FinHeard, DataAcked, HeardFin
<1> QED BY <1>4, <1>8, <1>14, <1>15

LEMMA PollInv == ASSUME TypeOK, SessionInv, Poll PROVE SessionInv'
<1>1. CASE RemoveMe \/ ResetThePeer
  BY <1>1 DEF RemoveMe, ResetThePeer, tcp, heard, wired, SessionInv, FinWaitsForPeer,
     GracefulClose, Dead
<1>2. CASE GiveUp
  <2>1. OneFin(samples') /\ FinWaitsForPeer'
    BY <1>2, SweptShape DEF GiveUp, SessionInv, FinWaitsForPeer, heard, wired
  <2> QED BY <1>2, <2>1, KilledInv DEF GiveUp
<1>3. CASE Idle
  <2>1. /\ ~Dead /\ samples' = Swept /\ win' = SweptWin /\ Close
        /\ UNCHANGED <<acked, heard, sndMax>>
    BY <1>3 DEF Idle, wired
  <2>2. Swept \in Seq(Samples)
    BY SweptType
  <2>3. sndMax' \in sndMax .. FinOff + 1 /\ (state \in Handshake => sndMax' <= 1)
    BY <2>1, Constants DEF TypeOK, WiredOK, SessionInv, SynFirst
  <2>4. /\ OneFin(samples') /\ FinWaitsForPeer'
        /\ UNCHANGED life => SessionInv'
        /\ StateAfterFin = "TIME_WAIT" => peerFin' /\ ackMax' >= FinOff
    BY <2>1, <2>2, <2>3, CloseInv
  <2>5. (LastChance /\ KillMe("ACTIVE_CLOSE")) \/ KillMe("DORMANCY") \/ UNCHANGED life
    BY <1>3 DEF Idle
  <2>6. LastChance => StateAfterFin = "TIME_WAIT"
    BY DEF LastChance
  <2> QED BY <2>4, <2>5, <2>6, KilledInv
<1>4. CASE Send
  <2>1. /\ ~Dead /\ HandOver(Swept) /\ win' = SweptWin /\ Close
        /\ UNCHANGED <<acked, heard>>
        /\ (LastChance /\ KillMe("ACTIVE_CLOSE")) \/ UNCHANGED life
    BY <1>4 DEF Send
  <2>2. /\ samples' \in Seq(Samples) /\ Len(samples') = Len(Swept)
        /\ \A i \in 1 .. Len(Swept) : samples'[i].kind = Swept[i].kind
        /\ sndMax' \in sndMax .. FinOff + 1
        /\ FinOut \/ sndMax' = sndMax \/ sndMax' <= FinOff
        /\ state \in Handshake => sndMax' <= 1
    BY <2>1, HandOverShape
  <2>3. /\ OneFin(samples') /\ FinWaitsForPeer'
        /\ UNCHANGED life => SessionInv'
        /\ StateAfterFin = "TIME_WAIT" => peerFin' /\ ackMax' >= FinOff
    BY <2>1, <2>2, CloseInv
  <2>4. LastChance => StateAfterFin = "TIME_WAIT"
    BY DEF LastChance
  <2> QED BY <2>1, <2>3, <2>4, KilledInv
<1> QED BY <1>1, <1>2, <1>3, <1>4 DEF Poll

-----------------------------------------------------------------------------
LEMMA TickInv == ASSUME TypeOK, SessionInv, Tick PROVE SessionInv'
<1>1. /\ samples \in Seq(Samples) /\ Len(samples) \in Nat
      /\ DOMAIN samples = 1 .. Len(samples)
  BY DEF TypeOK, TcpOK
<1>2. samples' \in Seq(Samples)
  BY TickType DEF TypeOK, TcpOK
<1>3. /\ DOMAIN samples' = 1 .. Len(samples)
      /\ \A i \in 1 .. Len(samples) : samples'[i].kind = samples[i].kind
  <2>1. samples' = [i \in 1 .. Len(samples) |->
                      [samples[i] EXCEPT !.age = Capped(@ + 1, Overdue)]]
    BY <1>1 DEF Tick
  <2>2. ASSUME NEW x \in Samples, NEW n PROVE [x EXCEPT !.age = n].kind = x.kind
    BY DEF Samples
  <2>3. \A i \in 1 .. Len(samples) : samples[i] \in Samples
    BY <1>1
  <2> QED BY <2>1, <2>2, <2>3
<1>4. Len(samples') = Len(samples)
  BY <1>1, <1>2, <1>3
<1>5. /\ OneFin(samples) => OneFin(samples')
      /\ NoSyn(samples) => NoSyn(samples')
      /\ FinLast(samples) => FinLast(samples')
  BY <1>1, <1>2, <1>3, <1>4, SameKinds
<1>6. UNCHANGED <<state, win, acked, expectedLastAck, kills, cause, sndMax, ackMax, peerFin>>
  BY DEF Tick, closing, life, heard, wired
<1>7. SynFirst => SynFirst'
  <2>1. SUFFICES ASSUME SynFirst, state \in Handshake PROVE SynFirst'
    BY <1>5, <1>6 DEF SynFirst
  <2> QED BY <1>1, <1>3, <1>4, <1>6, <2>1 DEF SynFirst
<1> QED BY <1>5, <1>6, <1>7 DEF SessionInv, FinWaitsForPeer, GracefulClose, Dead,
           AckedSent, FinUnsent, LastAckKnown, FinHeard, DataAcked, PassiveStates

LEMMA InitInv == ASSUME Init PROVE SessionInv
<1>1. Len(Cuts) \in Nat /\ Len(Cuts) >= 1 /\ FinOff \in Nat \ {0}
  BY SessionAssumption, Constants
<1>2. samples \in Seq(Samples)
  BY InitType DEF TypeOK, TcpOK
<1>3. DOMAIN samples = 1 .. Len(Cuts) + 1
  BY <1>1 DEF Init, InitialSamples
<1>4. Len(samples) = Len(Cuts) + 1
  BY <1>1, <1>2, <1>3
<1>5. \A i \in 1 .. Len(samples) :
        samples[i].kind = IF i = 1 THEN "syn" ELSE IF i = Len(samples) THEN "fin" ELSE "data"
  BY <1>1, <1>4 DEF Init, InitialSamples, Packet
<1>6. OneFin(samples) /\ FinLast(samples)
  BY <1>1, <1>2, <1>4, <1>5 DEF OneFin, FinLast
<1>7. win = 1 /\ sndMax = 0 /\ state = "CLOSED" /\ kills = 0 /\ cause = "none"
  BY DEF Init
<1>8. SynFirst
  BY <1>1, <1>4, <1>5, <1>7 DEF SynFirst, Handshake
<1> QED BY <1>1, <1>6, <1>7, <1>8 DEF SessionInv, FinWaitsForPeer, GracefulClose,
           AckedSent, FinUnsent, LastAckKnown, FinHeard, DataAcked, PassiveStates,
           Handshake, BeforeMyFin, HeardFin, ActiveStates

LEMMA NextInv == ASSUME TypeOK, SessionInv, [Next]_vars PROVE SessionInv'
<1>1. CASE UNCHANGED vars
  BY <1>1 DEF vars, tcp, closing, life, heard, wired, SessionInv, FinWaitsForPeer,
     GracefulClose, Dead, SynFirst, AckedSent, FinUnsent, LastAckKnown, FinHeard,
     DataAcked, PassiveStates
<1> QED BY <1>1, PollInv, TickInv, GotAPacketInv DEF Next, Erased

(* The inductive invariant of a session, whatever the stream, the server,  *)
(* the timeouts and the width of sequence numbers.                         *)
THEOREM Safety == Spec => []SessionInv
<1>1. Init => SessionInv
  BY InitInv
<1>2. TypeOK /\ SessionInv /\ [Next]_vars => SessionInv'
  BY NextInv
<1> QED BY <1>1, <1>2, TypeCorrect, PTL DEF Spec

(* The session's FIN never leaves the list before a state that follows its *)
(* sending: front() of an empty list is never read.                        *)
THEOREM FinIsKept == Spec => []FinKept
<1>1. SessionInv => FinKept
  BY DEF SessionInv, FinUnsent, FinKept
<1> QED BY <1>1, Safety, PTL

(* A session that does not close actively never sends its FIN before it    *)
(* has received the server's.                                              *)
THEOREM FinWaits == Spec => []FinWaitsForPeer
<1>1. SessionInv => FinWaitsForPeer
  BY DEF SessionInv
<1> QED BY <1>1, Safety, PTL

(* Whatever is lost, duplicated or delayed, a session is reported as       *)
(* closed actively or passively only when the server has acked all of its  *)
(* data and the server's FIN was received.  It says nothing of the FIN of  *)
(* the session, which need not have been sent.                             *)
THEOREM CloseIsEarned == Spec => []GracefulClose
<1>1. SessionInv => GracefulClose
  BY DEF SessionInv
<1> QED BY <1>1, Safety, PTL

-----------------------------------------------------------------------------
(* A session implements SessionLife, step by step.                         *)

(* A session that is alive was not removed and has nobody to reset.        *)
PhaseInv == ~Dead => ~gone /\ ~resetPeer

LEMMA DeathStep ==
  ASSUME TypeOK, PhaseInv, ~Dead, NEW c \in Causes, KillMe(c)
  PROVE  PhaseInv' /\ Life!Die(c) /\ c \in Life!AllCauses
<1>1. kills' > 0 /\ cause' = c /\ gone' = gone /\ ~gone /\ ~resetPeer
      /\ resetPeer' = (resetPeer \/ c \in {"PEER_TIME_OUT", "DORMANCY"})
  BY DEF KillMe, Capped, TypeOK, LifeOK, PhaseInv
<1>2. Phase = "alive"
  BY <1>1 DEF Phase
<1>3. Phase' = IF c \in Life!Ungraceful THEN "resetting" ELSE "dying"
  BY <1>1 DEF Phase, Dead, Life!Ungraceful
<1>4. c \in Life!AllCauses
  BY DEF Causes, Life!AllCauses, Life!Ungraceful
<1> QED BY <1>1, <1>2, <1>3, <1>4 DEF Life!Die, PhaseInv, Dead

LEMMA QuietStep ==
  ASSUME PhaseInv, UNCHANGED life PROVE PhaseInv' /\ UNCHANGED <<Phase, cause>>
BY DEF PhaseInv, Phase, Dead, life

LEMMA RemovalStep ==
  ASSUME PhaseInv, RemoveMe \/ ResetThePeer
  PROVE  PhaseInv' /\ (Life!Remove \/ Life!Reset)
BY DEF PhaseInv, RemoveMe, ResetThePeer, Phase, Dead, Life!Remove, Life!Reset

LEMMA LifeStep ==
  ASSUME TypeOK, PhaseInv, [Next]_vars
  PROVE  PhaseInv' /\ [Life!Next]_<<Phase, cause>>
<1> USE DEF Causes
<1>1. CASE UNCHANGED vars
  BY <1>1, QuietStep DEF vars
<1>2. CASE RemoveMe \/ ResetThePeer
  BY <1>2, RemovalStep DEF Life!Next
<1>3. CASE GiveUp
  BY <1>3, DeathStep DEF GiveUp, Life!Next
<1>4. CASE Idle
  <2>1. KillMe("ACTIVE_CLOSE") \/ KillMe("DORMANCY") \/ UNCHANGED life
    BY <1>4 DEF Idle
  <2> QED BY <1>4, <2>1, DeathStep, QuietStep DEF Idle, Life!Next
<1>5. CASE Send
  <2>1. KillMe("ACTIVE_CLOSE") \/ UNCHANGED life
    BY <1>5 DEF Send
  <2> QED BY <1>5, <2>1, DeathStep, QuietStep DEF Send, Life!Next
<1>6. CASE Tick
  BY <1>6, QuietStep DEF Tick
<1>7. ASSUME NEW p \in Arriving, GotAPacket(p)
      PROVE  PhaseInv' /\ [Life!Next]_<<Phase, cause>>
  <2>1. CASE UNCHANGED life
    BY <2>1, QuietStep
  <2>2. CASE GotReset(p)
    BY <2>2, DeathStep DEF GotReset, Life!Next
  <2>3. CASE ~Dead /\ KillMe("PASSIVE_CLOSE")
    BY <2>3, DeathStep DEF Life!Next
  <2>4. CASE ~Dead /\ KillMe("NO_FIN_FROM_PEER")
    BY <2>4, DeathStep DEF Life!Next
  <2>5. \/ GotReset(p) \/ UNCHANGED life
        \/ ~Dead /\ (KillMe("PASSIVE_CLOSE") \/ KillMe("NO_FIN_FROM_PEER"))
    BY <1>7 DEF GotAPacket, DeadGot, SynSentGot, EstablishedGot, CloseWaitGot,
       LastAckGot, FinWait1Got, FinWait2Got, ClosingGot, TimeWaitGot, Got
  <2> QED BY <2>1, <2>2, <2>3, <2>4, <2>5
<1> QED BY <1>1, <1>2, <1>3, <1>4, <1>5, <1>6, <1>7 DEF Next, Poll, Erased

(* Every behaviour of a session is one of SessionLife: it dies once, of    *)
(* one cause, and is removed only after that and after its RSTs.           *)
THEOREM Implements == Spec => ImplementsLife
<1>1. Init => PhaseInv /\ Life!Init
  BY DEF Init, PhaseInv, Life!Init, Phase, Dead
<1>2. TypeOK /\ PhaseInv /\ [Next]_vars => PhaseInv' /\ [Life!Next]_<<Phase, cause>>
  BY LifeStep
<1> QED BY <1>1, <1>2, TypeCorrect, PTL DEF Spec, ImplementsLife, Life!Spec

-----------------------------------------------------------------------------
(***************************************************************************)
(* What a session keeps of the recorded stream, proved step by step: why   *)
(* WindowSound, UnsentKept and NoDataLost hold.                            *)
(*                                                                         *)
(* The samples are always the end of the recorded stream, behind a pure    *)
(* ack at most, and a pure ack stands before the FIN or alone.  So a list  *)
(* has no gap but the one behind a pure ack, offsets grow along it, and    *)
(* where one packet ends the next one starts.                              *)
(***************************************************************************)
Places == Len(Cuts) + 1
Place(q, i) == Places - Len(q) + i
Alike(x, y) == x.kind = y.kind /\ x.seq = y.seq /\ x.len = y.len
EndOfStream(q) ==
  \A i \in 1 .. Len(q) : \/ i = 1 /\ q[i].kind = "ack" /\ Len(q) <= 2
                         \/ /\ Place(q, i) \in 1 .. Places
                            /\ Alike(q[i], InitialSamples[Place(q, i)])

\* the stream offset at which the packet of place k starts, and where the
\* last one ends
Start(k) == IF k = 1 THEN 0 ELSE IF k = Places + 1 THEN FinOff + 1 ELSE Cuts[k - 1]

\* the stream before m, and nothing behind it, was sent
Unsent(q, m) ==
  /\ \A i \in 1 .. Len(q) :
        InStream(q[i]) => (q[i].sent = 0 <=> Offset(q[i]) >= m)
  /\ m <= FinOff => \E i \in 1 .. Len(q) : InStream(q[i]) /\ Offset(q[i]) = m

\* the stream from a on is in q
Kept(q, a) == \/ a = FinOff + 1
              \/ \E i \in 1 .. Len(q) : InStream(q[i]) /\ Offset(q[i]) <= a

-----------------------------------------------------------------------------
(* The places of the stream.                                               *)

LEMMA PlaceTypes ==
  /\ Places \in Nat /\ Places >= 2 /\ Len(Cuts) = Places - 1
  /\ \A k \in 1 .. Places + 1 : Start(k) \in 0 .. FinOff + 1
  /\ \A k, l \in 1 .. Places + 1 : k < l => Start(k) < Start(l)
  /\ Start(1) = 0 /\ Start(2) = 1 /\ Start(Places) = FinOff /\ Start(Places + 1) = FinOff + 1
<1> DEFINE n == Len(Cuts)
<1>1. /\ n \in Nat /\ n >= 1 /\ FinOff \in Nat /\ FinOff >= 1 /\ Cuts[n] = FinOff
      /\ Cuts[1] = 1 /\ Places = n + 1
      /\ \A i \in 1 .. n : Cuts[i] \in 1 .. FinOff
      /\ \A i, j \in 1 .. n : i < j => Cuts[i] < Cuts[j]
  BY SessionAssumption, Constants DEF FinOff, Places
<1> HIDE DEF n
<1>2. \A k \in 2 .. n + 1 : /\ k - 1 \in 1 .. n /\ Start(k) = Cuts[k - 1]
                            /\ Start(k) \in 1 .. FinOff
  BY <1>1 DEF Start
<1>3. Start(1) = 0 /\ Start(n + 2) = FinOff + 1
  BY <1>1 DEF Start
<1>4. \A k \in 1 .. Places + 1 : k = 1 \/ k = n + 2 \/ k \in 2 .. n + 1
  BY <1>1
<1>5. \A k \in 1 .. Places + 1 : Start(k) \in 0 .. FinOff + 1
  BY <1>1, <1>2, <1>3, <1>4
<1>6. ASSUME NEW k \in 1 .. Places + 1, NEW l \in 1 .. Places + 1, k < l
      PROVE  Start(k) < Start(l)
  <2>1. CASE k = 1
    <3>1. l # 1
      BY <1>6, <2>1
    <3> QED BY <1>1, <1>2, <1>3, <1>4, <2>1, <3>1
  <2>2. CASE k \in 2 .. n + 1
    <3>1. CASE l = n + 2
      BY <1>1, <1>2, <1>3, <2>2, <3>1
    <3>2. CASE l \in 2 .. n + 1
      <4>1. k - 1 \in 1 .. n /\ l - 1 \in 1 .. n /\ k - 1 < l - 1
        BY <1>1, <1>6, <2>2, <3>2
      <4>2. Cuts[k - 1] < Cuts[l - 1]
        BY <1>1, <4>1
      <4> QED BY <1>2, <2>2, <3>2, <4>2
    <3>3. l # 1
      BY <1>1, <1>6, <2>2
    <3> QED BY <1>4, <3>1, <3>2, <3>3
  <2>3. k # n + 2
    BY <1>1, <1>6
  <2> QED BY <1>4, <2>1, <2>2, <2>3
<1>7. Start(2) = 1 /\ Start(Places) = FinOff
  BY <1>1, <1>2
<1>8. Places \in Nat /\ Places >= 2 /\ n = Places - 1 /\ Places + 1 = n + 2
  BY <1>1
<1>9. Start(Places + 1) = FinOff + 1
  BY <1>3, <1>8
<1> QED BY <1>3, <1>5, <1>6, <1>7, <1>8, <1>9 DEF n

(* The packet of a place, and anything like it.                            *)
LEMMA PlaceShape ==
  ASSUME NEW k \in 1 .. Places, NEW x \in Samples, Alike(x, InitialSamples[k])
  PROVE  /\ InStream(x) /\ (x.kind = "syn" <=> k = 1) /\ (x.kind = "fin" <=> k = Places)
         /\ x.seq = Add(Isn, Start(k)) /\ Offset(x) = Start(k)
         /\ Reach(x) = Start(k + 1)
         /\ x.kind = "data" => x.len > 0
         /\ k < Places => FollowedBy(x) = Add(Isn, Start(k + 1))
<1>1. /\ Places \in Nat /\ Places >= 2 /\ Len(Cuts) = Places - 1
      /\ Start(k) \in 0 .. FinOff + 1 /\ Start(k + 1) \in 0 .. FinOff + 1
      /\ Start(k) < Start(k + 1) /\ Start(Places) = FinOff /\ Start(1) = 0
      /\ Start(2) = 1 /\ Start(Places + 1) = FinOff + 1
  BY PlaceTypes
<1>2. /\ FinOff \in Nat \ {0} /\ FinOff + 1 < Half /\ Half \in Nat
      /\ Isn \in 0 .. Modulus - 1 /\ Modulus = Half + Half
  BY Constants, Widths DEF Word
<1>3. InitialSamples[k] = IF k = 1 THEN Packet("syn", Isn, 0)
                          ELSE IF k = Places THEN Packet("fin", Add(Isn, FinOff), 0)
                          ELSE Packet("data", Add(Isn, Cuts[k-1]), Cuts[k] - Cuts[k-1])
  BY <1>1 DEF InitialSamples, Places
<1>4. ASSUME NEW m \in 0 .. FinOff + 1
      PROVE  Diff(Add(Isn, m), Isn) = m
  BY <1>2 DEF Add, Diff
<1>5. CASE k = 1
  <2>1. x.kind = "syn" /\ x.seq = Isn /\ x.len = 0
    BY <1>3, <1>5 DEF Alike, Packet
  <2>2. Isn = Add(Isn, 0) /\ Diff(Isn, Isn) = 0
    BY <1>2 DEF Add, Diff
  <2>3. InStream(x) /\ FollowedBy(x) = Add(Isn, 1) /\ Offset(x) = 0 /\ Reach(x) = 1
    BY <2>1, <2>2 DEF InStream, FollowedBy, Offset, Reach
  <2> QED BY <1>1, <1>5, <2>1, <2>2, <2>3
<1>6. CASE k = Places
  <2>1. x.kind = "fin" /\ x.seq = Add(Isn, FinOff) /\ x.len = 0
    BY <1>1, <1>3, <1>6 DEF Alike, Packet
  <2>2. Offset(x) = FinOff
    BY <1>2, <1>4, <2>1 DEF Offset
  <2>3. InStream(x) /\ Reach(x) = FinOff + 1
    BY <1>2, <2>1, <2>2 DEF InStream, Reach
  <2> QED BY <1>1, <1>6, <2>1, <2>2, <2>3
<1>7. CASE k # 1 /\ k # Places
  <2>1. Start(k) = Cuts[k - 1] /\ Start(k + 1) = Cuts[k]
    BY <1>1, <1>7 DEF Start
  <2> DEFINE m == Start(k)
             n == Start(k + 1)
  <2>2. x.kind = "data" /\ x.seq = Add(Isn, m) /\ x.len = n - m
    BY <1>3, <1>7, <2>1 DEF Alike, Packet
  <2>3. m \in 0 .. FinOff + 1 /\ n \in 0 .. FinOff + 1 /\ m < n
    BY <1>1
  <2> HIDE DEF m, n
  <2>4. Offset(x) = m
    BY <1>4, <2>2, <2>3 DEF Offset
  <2>5. InStream(x) /\ Reach(x) = n /\ x.len > 0
    BY <2>2, <2>3, <2>4 DEF InStream, Reach
  <2>6. FollowedBy(x) = Add(Isn, n)
    <3>1. FollowedBy(x) = Add(Add(Isn, m), n - m)
      BY <2>2 DEF FollowedBy
    <3>2. Add(Add(Isn, m), n - m) = Add(Isn, n)
      BY <1>2, <2>3 DEF Add
    <3> QED BY <3>1, <3>2
  <2> QED BY <1>7, <2>2, <2>4, <2>5, <2>6 DEF m, n
<1> QED BY <1>5, <1>6, <1>7

-----------------------------------------------------------------------------
(* Lists that are the end of the stream.                                   *)

(* Every packet but a pure ack in front has a place, the next one its next.*)
LEMMA EndPlaces ==
  ASSUME NEW q \in Seq(Samples), EndOfStream(q)
  PROVE  /\ Len(q) \in 0 .. Places
         /\ \A i \in 1 .. Len(q) : q[i] \in Samples /\ Place(q, i) \in 1 .. Places
         /\ \A i \in 1 .. Len(q) : ~InStream(q[i]) => i = 1 /\ Len(q) <= 2
         /\ \A i \in 1 .. Len(q) :
               InStream(q[i]) => Alike(q[i], InitialSamples[Place(q, i)])
<1>1. Places \in Nat /\ Places >= 2 /\ Len(q) \in Nat
  BY PlaceTypes
<1>2. \A i \in 1 .. Len(q) : q[i] \in Samples
  OBVIOUS
<1>3. Len(q) <= Places
  <2>1. CASE Len(q) = 0
    BY <1>1, <2>1
  <2>2. CASE Len(q) # 0
    <3>1. 1 \in 1 .. Len(q)
      BY <1>1, <2>2
    <3>2. Len(q) <= 2 \/ Place(q, 1) \in 1 .. Places
      BY <3>1 DEF EndOfStream
    <3> QED BY <1>1, <3>2 DEF Place
  <2> QED BY <2>1, <2>2
<1>4. \A i \in 1 .. Len(q) : Place(q, i) \in 1 .. Places
  BY <1>1, <1>3 DEF Place
<1>5. ASSUME NEW i \in 1 .. Len(q)
      PROVE  IF InStream(q[i]) THEN Alike(q[i], InitialSamples[Place(q, i)])
                               ELSE i = 1 /\ Len(q) <= 2
  <2>1. CASE i = 1 /\ q[i].kind = "ack" /\ Len(q) <= 2
    BY <2>1 DEF InStream
  <2>2. CASE Alike(q[i], InitialSamples[Place(q, i)])
    <3>1. InStream(q[i])
      BY <1>2, <1>4, <2>2, PlaceShape
    <3> QED BY <2>2, <3>1
  <2> QED BY <2>1, <2>2 DEF EndOfStream
<1> QED BY <1>1, <1>2, <1>3, <1>4, <1>5

LEMMA EndOffsets ==
  ASSUME NEW q \in Seq(Samples), EndOfStream(q),
         NEW i \in 1 .. Len(q), InStream(q[i])
  PROVE  /\ Place(q, i) \in 1 .. Places /\ q[i] \in Samples
         /\ Offset(q[i]) = Start(Place(q, i)) /\ Reach(q[i]) = Start(Place(q, i) + 1)
         /\ q[i].seq = Add(Isn, Offset(q[i])) /\ Offset(q[i]) \in 0 .. FinOff
         /\ q[i].kind = "data" => q[i].len > 0
<1>1. /\ Place(q, i) \in 1 .. Places /\ q[i] \in Samples
      /\ Alike(q[i], InitialSamples[Place(q, i)])
  BY EndPlaces
<1>2. /\ Offset(q[i]) = Start(Place(q, i)) /\ Reach(q[i]) = Start(Place(q, i) + 1)
      /\ q[i].seq = Add(Isn, Start(Place(q, i)))
      /\ q[i].kind = "data" => q[i].len > 0
  BY <1>1, PlaceShape
<1>3. Start(Place(q, i)) \in 0 .. FinOff
  <2>1. /\ Places \in Nat /\ Start(Places + 1) = FinOff + 1 /\ FinOff \in Nat
        /\ \A k \in 1 .. Places + 1 : Start(k) \in 0 .. FinOff + 1
        /\ \A k, l \in 1 .. Places + 1 : k < l => Start(k) < Start(l)
    BY PlaceTypes, Constants
  <2> DEFINE k == Place(q, i)
  <2>2. k \in 1 .. Places + 1 /\ Places + 1 \in 1 .. Places + 1 /\ k < Places + 1
    BY <1>1, <2>1
  <2> HIDE DEF k
  <2>3. Start(k) < Start(Places + 1) /\ Start(k) \in 0 .. FinOff + 1
    BY <2>1, <2>2
  <2>4. Start(k) \in 0 .. FinOff
    BY <2>1, <2>3
  <2> QED BY <2>4 DEF k
<1> QED BY <1>1, <1>2, <1>3

(* Offsets grow along a list, a packet ends before the next starts.        *)
LEMMA EndGrows ==
  ASSUME NEW q \in Seq(Samples), EndOfStream(q),
         NEW i \in 1 .. Len(q), NEW j \in 1 .. Len(q), i < j, InStream(q[i])
  PROVE  /\ InStream(q[j]) /\ Reach(q[i]) <= Offset(q[j]) /\ Offset(q[i]) < Reach(q[i])
         /\ j = i + 1 => Reach(q[i]) = Offset(q[j])
<1>1. /\ Places \in Nat /\ Len(q) \in Nat
      /\ \A k \in 1 .. Places + 1 : Start(k) \in 0 .. FinOff + 1
      /\ \A k, l \in 1 .. Places + 1 : k < l => Start(k) < Start(l)
  BY PlaceTypes
<1>2. InStream(q[j])
  <2>1. j # 1
    BY <1>1
  <2> QED BY <2>1, EndPlaces
<1> DEFINE k == Place(q, i)
           l == Place(q, j)
<1>3. /\ Offset(q[i]) = Start(k) /\ Reach(q[i]) = Start(k + 1) /\ Offset(q[j]) = Start(l)
      /\ k \in 1 .. Places /\ l \in 1 .. Places
  BY <1>2, EndOffsets
<1>4. k < l /\ (j = i + 1 => l = k + 1)
  BY <1>1 DEF Place
<1> HIDE DEF k, l
<1>5. k + 1 = l \/ k + 1 < l
  BY <1>3, <1>4
<1>6. Start(k + 1) = Start(l) \/ Start(k + 1) < Start(l)
  BY <1>1, <1>3, <1>5
<1>7. Start(k) < Start(k + 1)
  BY <1>1, <1>3
<1>8. Start(k) \in Int /\ Start(k + 1) \in Int /\ Start(l) \in Int
  BY <1>1, <1>3
<1> QED BY <1>2, <1>3, <1>4, <1>6, <1>7, <1>8

LEMMA EndReach ==
  ASSUME NEW q \in Seq(Samples), EndOfStream(q),
         NEW i \in 1 .. Len(q), InStream(q[i])
  PROVE  /\ Offset(q[i]) < Reach(q[i]) /\ Reach(q[i]) \in 0 .. FinOff + 1
         /\ Reach(q[i]) <= FinOff => i + 1 \in 1 .. Len(q)
<1>1. /\ Places \in Nat /\ Len(q) \in Nat /\ Start(Places + 1) = FinOff + 1
      /\ \A k \in 1 .. Places + 1 : Start(k) \in 0 .. FinOff + 1
      /\ \A k, l \in 1 .. Places + 1 : k < l => Start(k) < Start(l)
      /\ FinOff \in Nat
  BY PlaceTypes, Constants
<1> DEFINE k == Place(q, i)
<1>2. Offset(q[i]) = Start(k) /\ Reach(q[i]) = Start(k + 1) /\ k \in 1 .. Places
  BY EndOffsets
<1>3. k = Places => i = Len(q)
  BY <1>1 DEF Place
<1>4. i = Len(q) => k = Places
  BY <1>1 DEF Place
<1> HIDE DEF k
<1>5. Start(k) < Start(k + 1) /\ Start(k + 1) \in 0 .. FinOff + 1
  BY <1>1, <1>2
<1>6. Start(k + 1) <= FinOff => k # Places
  BY <1>1
<1> QED BY <1>1, <1>2, <1>4, <1>5, <1>6

(* Where a packet of the stream is still kept, all behind it is.           *)
LEMMA EndHolds ==
  ASSUME NEW q \in Seq(Samples), EndOfStream(q),
         NEW i \in 1 .. Len(q), InStream(q[i]),
         NEW k \in 1 .. Places, Offset(q[i]) < Start(k)
  PROVE  \E j \in 1 .. Len(q) : i < j /\ InStream(q[j]) /\ Offset(q[j]) = Start(k)
<1>1. /\ Places \in Nat /\ Len(q) \in 0 .. Places
      /\ \A m \in 1 .. Places + 1 : Start(m) \in 0 .. FinOff + 1
      /\ \A m, l \in 1 .. Places + 1 : m < l => Start(m) < Start(l)
  BY PlaceTypes, EndPlaces
<1> DEFINE l == Place(q, i)
           j == Len(q) + k - Places
<1>2. Offset(q[i]) = Start(l) /\ l \in 1 .. Places
  BY EndOffsets
<1>3. l = Places - Len(q) + i
  BY DEF Place
<1> HIDE DEF l
<1>4. l < k
  <2>1. CASE k < l
    <3>1. Start(k) < Start(l) /\ Start(k) \in Int /\ Start(l) \in Int
      BY <1>1, <1>2, <2>1
    <3> QED BY <1>2, <3>1
  <2>2. CASE k = l
    <3>1. Start(l) \in Int
      BY <1>1, <1>2
    <3> QED BY <1>2, <2>2, <3>1
  <2> QED BY <1>1, <1>2, <2>1, <2>2
<1>5. j \in 1 .. Len(q) /\ i < j
  <2> DEFINE n == Len(q)
  <2>1. n \in 0 .. Places /\ i \in 1 .. n /\ Places \in Nat
    BY <1>1
  <2>2. l = Places - n + i /\ l < k /\ k \in 1 .. Places /\ j = n + k - Places
    BY <1>3, <1>4
  <2> HIDE DEF n, j
  <2>3. j \in 1 .. n /\ i < j
    BY <2>1, <2>2
  <2> QED BY <2>3 DEF n
<1>6. Place(q, j) = k
  BY <1>1 DEF Place
<1> HIDE DEF j
<1>7. InStream(q[j])
  BY <1>5, EndGrows
<1>8. Offset(q[j]) = Start(k)
  BY <1>5, <1>6, <1>7, EndOffsets
<1> QED BY <1>5, <1>7, <1>8

-----------------------------------------------------------------------------
(* The window and the run.                                                 *)

LEMMA RunLength ==
  ASSUME NEW q \in Seq(Samples), EndOfStream(q)
  PROVE  /\ Len(q) <= 2 \/ Run(q) = Len(q)
         /\ Len(q) >= 1 => Run(q) >= 1
<1> DEFINE n == Len(q)
           R == {r \in 1 .. n : \A i \in 1 .. r - 1 : q[i+1].seq = FollowedBy(q[i])}
<1>1. n \in Nat /\ R \in SUBSET (1 .. n)
  OBVIOUS
<1>2. IsFiniteSet(1 .. n) /\ Cardinality(1 .. n) = n
  <2> HIDE DEF n
  <2>1. n \in Nat
    BY <1>1
  <2>2. /\ IsFiniteSet(1 .. n)
        /\ IF 1 > n THEN Cardinality(1 .. n) = 0 ELSE Cardinality(1 .. n) = n - 1 + 1
    BY <2>1, FS_Interval
  <2> QED BY <2>1, <2>2
<1>3. ASSUME n > 2 PROVE R = 1 .. n
  <2> SUFFICES ASSUME NEW r \in 1 .. n, NEW i \in 1 .. r - 1
               PROVE  q[i+1].seq = FollowedBy(q[i])
    OBVIOUS
  <2>1. i \in 1 .. n /\ i + 1 \in 1 .. n /\ n # 0 /\ ~(n <= 2)
    BY <1>1, <1>3
  <2>2. InStream(q[i]) /\ InStream(q[i+1])
    BY <2>1, EndPlaces
  <2>3. /\ Place(q, i) \in 1 .. Places /\ q[i] \in Samples
        /\ Alike(q[i], InitialSamples[Place(q, i)])
        /\ Offset(q[i+1]) = Start(Place(q, i + 1)) /\ Place(q, i + 1) \in 1 .. Places
        /\ q[i+1].seq = Add(Isn, Offset(q[i+1]))
    BY <2>1, <2>2, EndPlaces, EndOffsets
  <2>4. Place(q, i + 1) = Place(q, i) + 1 /\ Place(q, i) < Places
    <3>1. Places \in Nat /\ Len(q) \in Nat
      BY PlaceTypes
    <3> QED BY <2>1, <2>3, <3>1 DEF Place
  <2> QED BY <2>3, <2>4, PlaceShape
<1>4. ASSUME n >= 1 PROVE 1 \in R
  BY <1>1, <1>4
<1>5. IsFiniteSet(R) /\ Cardinality(R) \in Nat
  BY <1>1, <1>2, FS_Subset, FS_CardinalityType
<1>6. Run(q) = Cardinality(R)
  BY DEF Run
<1> HIDE DEF R, n
<1>7. n >= 1 => Cardinality(R) >= 1
  <2>1. R # {} => Cardinality(R) # 0
    BY <1>5, FS_EmptySet
  <2> QED BY <1>4, <1>5, <2>1
<1>8. n > 2 => Cardinality(R) = n
  BY <1>2, <1>3
<1>9. (n <= 2 \/ Run(q) = n) /\ (n >= 1 => Run(q) >= 1)
  BY <1>1, <1>6, <1>7, <1>8
<1> QED BY <1>9 DEF n

(* Whatever window there is over such a list, the loops that move it are   *)
(* right about the list.                                                   *)
LEMMA EndWindow ==
  ASSUME TypeOK, EndOfStream(samples) PROVE WindowSound
<1>1. samples \in Seq(Samples) /\ win \in 0 .. Len(samples) /\ Len(samples) \in Nat
  BY DEF TypeOK, TcpOK
<1>2. AckInFront
  <2> SUFFICES ASSUME NEW i \in 2 .. Len(samples) PROVE InStream(samples[i])
    BY DEF AckInFront
  <2>1. i \in 1 .. Len(samples) /\ i # 1
    BY <1>1
  <2> QED BY <1>1, <2>1, EndPlaces
<1>3. WindowInRun
  <2>1. Run(samples) \in 0 .. Len(samples)
    BY <1>1, RunType
  <2>2. /\ Len(samples) <= 2 \/ Run(samples) = Len(samples)
        /\ Len(samples) >= 1 => Run(samples) >= 1
    BY <1>1, RunLength
  <2>3. win = Len(samples) \/ win <= Run(samples)
    BY <1>1, <2>1, <2>2
  <2> QED BY <2>3 DEF WindowInRun
<1> QED BY <1>2, <1>3 DEF WindowSound

-----------------------------------------------------------------------------
(* What the operations on the list keep.                                   *)

LEMMA FromEnd ==
  ASSUME NEW q \in Seq(Samples), NEW d \in 0 .. Len(q), EndOfStream(q)
  PROVE  EndOfStream(From(q, d))
<1>1. /\ From(q, d) \in Seq(Samples) /\ Len(From(q, d)) = Len(q) - d
      /\ \A i \in 1 .. Len(q) - d : From(q, d)[i] = q[i + d]
      /\ Len(q) \in Nat /\ Places \in Nat
  BY FromType, PlaceTypes
<1> DEFINE f == From(q, d)
<1> SUFFICES ASSUME NEW i \in 1 .. Len(f)
             PROVE  \/ i = 1 /\ f[i].kind = "ack" /\ Len(f) <= 2
                    \/ /\ Place(f, i) \in 1 .. Places
                       /\ Alike(f[i], InitialSamples[Place(f, i)])
  BY DEF EndOfStream
<1>2. i + d \in 1 .. Len(q) /\ f[i] = q[i + d] /\ Len(f) = Len(q) - d
  BY <1>1
<1>3. Place(f, i) = Place(q, i + d)
  BY <1>1 DEF Place
<1>4. i + d = 1 => i = 1 /\ d = 0
  BY <1>1
<1> HIDE DEF f
<1>5. CASE i + d = 1 /\ q[i + d].kind = "ack" /\ Len(q) <= 2
  BY <1>1, <1>2, <1>4, <1>5
<1>6. CASE /\ Place(q, i + d) \in 1 .. Places
           /\ Alike(q[i + d], InitialSamples[Place(q, i + d)])
  BY <1>2, <1>3, <1>6
<1> QED BY <1>2, <1>5, <1>6 DEF EndOfStream

LEMMA FromUnsent ==
  ASSUME NEW q \in Seq(Samples), NEW d \in 0 .. Len(q), NEW m \in Nat, Unsent(q, m),
         \A i \in 1 .. d : InStream(q[i]) => Offset(q[i]) < m
  PROVE  Unsent(From(q, d), m)
<1>1. /\ Len(From(q, d)) = Len(q) - d /\ Len(q) \in Nat
      /\ \A i \in 1 .. Len(q) - d : From(q, d)[i] = q[i + d]
      /\ \A i \in 1 .. Len(q) - d : i + d \in 1 .. Len(q)
  <2>1. /\ Len(From(q, d)) = Len(q) - d
        /\ \A i \in 1 .. Len(q) - d : From(q, d)[i] = q[i + d]
    BY FromType
  <2> QED BY <2>1
<1>2. ASSUME m <= FinOff
      PROVE  \E i \in 1 .. Len(q) - d : InStream(q[i + d]) /\ Offset(q[i + d]) = m
  <2>1. PICK i \in 1 .. Len(q) : InStream(q[i]) /\ Offset(q[i]) = m
    BY <1>2 DEF Unsent
  <2>2. i \notin 1 .. d
    BY <2>1
  <2>3. i - d \in 1 .. Len(q) - d /\ (i - d) + d = i
    BY <1>1, <2>2
  <2> QED BY <2>1, <2>3
<1> QED BY <1>1, <1>2 DEF Unsent

(* Packets wholly below an offset that starts a place may go.              *)
LEMMA FromKept ==
  ASSUME NEW q \in Seq(Samples), NEW d \in 0 .. Len(q), EndOfStream(q),
         NEW a \in 0 .. FinOff + 1, Kept(q, a),
         NEW k \in 1 .. Places + 1, Start(k) <= a,
         \A i \in 1 .. d : InStream(q[i]) => Offset(q[i]) < Start(k)
  PROVE  Kept(From(q, d), a)
<1>1. /\ Len(From(q, d)) = Len(q) - d /\ Len(q) \in Nat
      /\ \A i \in 1 .. Len(q) - d : From(q, d)[i] = q[i + d]
      /\ FinOff \in Nat /\ Places \in Nat /\ Start(Places + 1) = FinOff + 1
  <2>1. /\ Len(From(q, d)) = Len(q) - d
        /\ \A i \in 1 .. Len(q) - d : From(q, d)[i] = q[i + d]
    BY FromType
  <2>2. Len(q) \in Nat
    OBVIOUS
  <2>3. FinOff \in Nat /\ Places \in Nat /\ Start(Places + 1) = FinOff + 1
    BY PlaceTypes, Constants
  <2> QED BY <2>1, <2>2, <2>3
<1>2. ASSUME NEW j \in 1 .. Len(q), j \notin 1 .. d, InStream(q[j]), Offset(q[j]) <= a
      PROVE  Kept(From(q, d), a)
  <2>1. j - d \in 1 .. Len(q) - d /\ (j - d) + d = j
    BY <1>1, <1>2
  <2>2. From(q, d)[j - d] = q[j]
    BY <1>1, <2>1
  <2> QED BY <1>1, <1>2, <2>1, <2>2 DEF Kept
<1>3. SUFFICES ASSUME a # FinOff + 1 PROVE Kept(From(q, d), a)
  BY DEF Kept
<1>4. PICK i \in 1 .. Len(q) : InStream(q[i]) /\ Offset(q[i]) <= a
  BY <1>3 DEF Kept
<1>5. CASE i \in 1 .. d
  <2>1. k # Places + 1
    <3>1. SUFFICES ASSUME k = Places + 1 PROVE FALSE
      OBVIOUS
    <3>2. FinOff + 1 <= a /\ a \in 0 .. FinOff + 1
      BY <1>1, <3>1
    <3> QED BY <1>1, <1>3, <3>2
  <2>2. Offset(q[i]) < Start(k) /\ k \in 1 .. Places
    BY <1>1, <1>4, <1>5, <2>1
  <2>3. PICK j \in 1 .. Len(q) : i < j /\ InStream(q[j]) /\ Offset(q[j]) = Start(k)
    BY <1>4, <2>2, EndHolds
  <2>4. j \notin 1 .. d
    <3>1. Start(k) \in Int
      BY PlaceTypes
    <3> QED BY <2>3, <3>1
  <2> QED BY <1>2, <2>3, <2>4
<1> QED BY <1>2, <1>4, <1>5

(* More acked, or a pure ack in front, changes nothing.                    *)
LEMMA KeptMore ==
  ASSUME NEW q \in Seq(Samples), NEW a \in 0 .. FinOff + 1, NEW b \in 0 .. FinOff + 1,
         Kept(q, a), a <= b
  PROVE  Kept(q, b)
<1>1. FinOff \in Nat /\ \A i \in 1 .. Len(q) : Offset(q[i]) \in Nat
  BY Constants, PacketType
<1> QED BY <1>1 DEF Kept

LEMMA AckPrepended ==
  ASSUME NEW q \in Seq(Samples), NEW s \in Word, EndOfStream(q), OneFin(q),
         q # <<>>, q[1].kind = "fin", NEW m \in Nat, Unsent(q, m)
  PROVE  LET l == <<PureAck(s)>> \o q
         IN  /\ l \in Seq(Samples) /\ Len(l) = Len(q) + 1
             /\ EndOfStream(l) /\ Unsent(l, m)
             /\ \A a : Kept(q, a) => Kept(l, a)
<1> DEFINE l == <<PureAck(s)>> \o q
           x == PureAck(s)
<1>1. x \in Samples /\ x.kind = "ack"
  BY PureAckType DEF PureAck, Packet
<1>2. Len(q) = 1
  <2>1. 1 \in 1 .. Len(q)
    OBVIOUS
  <2> QED BY <2>1 DEF OneFin
<1> HIDE DEF x
<1>3. <<x>> \o q \in Seq(Samples) /\ Len(<<x>> \o q) = 2
      /\ (<<x>> \o q)[1] = x /\ (<<x>> \o q)[2] = q[1]
  <2>1. <<x>> \in Seq(Samples) /\ Len(<<x>>) = 1 /\ <<x>>[1] = x
    BY <1>1
  <2>2. \A r, t \in Seq(Samples) :
           Len(r) = 1 /\ Len(t) = 1 =>
             /\ r \o t \in Seq(Samples) /\ Len(r \o t) = 2
             /\ (r \o t)[1] = r[1] /\ (r \o t)[2] = t[1]
    <3> SUFFICES ASSUME NEW r \in Seq(Samples), NEW t \in Seq(Samples),
                        Len(r) = 1, Len(t) = 1
                 PROVE  /\ r \o t \in Seq(Samples) /\ Len(r \o t) = 2
                        /\ (r \o t)[1] = r[1] /\ (r \o t)[2] = t[1]
      OBVIOUS
    <3>1. /\ r \o t \in Seq(Samples) /\ Len(r \o t) = Len(r) + Len(t)
          /\ \A i \in 1 .. Len(r) + Len(t) :
                (r \o t)[i] = IF i <= Len(r) THEN r[i] ELSE t[i - Len(r)]
      BY ConcatProperties
    <3> QED BY <3>1
  <2> QED BY <1>2, <2>1, <2>2, Zenon
<1>4. l \in Seq(Samples) /\ Len(l) = 2 /\ l[1] = x /\ l[2] = q[1]
  BY <1>3 DEF x
<1> HIDE DEF l
<1>5. q[1] \in Samples /\ InStream(q[1]) /\ ~InStream(x) /\ Places \in Nat /\ Places >= 2
  BY <1>1, <1>2, PlaceTypes DEF InStream
<1>6. EndOfStream(l)
  <2>1. Place(q, 1) \in 1 .. Places /\ Alike(q[1], InitialSamples[Place(q, 1)])
    BY <1>2, <1>5, EndPlaces
  <2>2. Place(l, 2) = Place(q, 1)
    BY <1>2, <1>4, <1>5 DEF Place
  <2>3. \A i \in 1 .. 2 : i = 1 \/ i = 2
    OBVIOUS
  <2> QED BY <1>1, <1>4, <2>1, <2>2, <2>3 DEF EndOfStream
<1>7. Unsent(l, m)
  BY <1>2, <1>4, <1>5 DEF Unsent
<1>8. \A a : Kept(q, a) => Kept(l, a)
  BY <1>2, <1>4, <1>5 DEF Kept
<1>9. Len(l) = Len(q) + 1
  BY <1>2, <1>4
<1> QED BY <1>4, <1>6, <1>7, <1>8, <1>9 DEF l

(* What a list says does not depend on the timers; nor, but for what was   *)
(* sent, on the counters.                                                  *)
LEMMA AlikeEnd ==
  ASSUME NEW q \in Seq(Samples), NEW r \in Seq(Samples), Len(r) = Len(q),
         \A i \in 1 .. Len(q) : Alike(r[i], q[i])
  PROVE  /\ EndOfStream(q) => EndOfStream(r)
         /\ \A i \in 1 .. Len(q) : (InStream(r[i]) <=> InStream(q[i]))
                                   /\ Offset(r[i]) = Offset(q[i])
         /\ \A a : Kept(q, a) => Kept(r, a)
<1>1. \A i \in 1 .. Len(q) : (InStream(r[i]) <=> InStream(q[i])) /\ Offset(r[i]) = Offset(q[i])
  BY DEF Alike, InStream, Offset
<1>2. \A a : Kept(q, a) => Kept(r, a)
  BY <1>1 DEF Kept
<1>3. \A i \in 1 .. Len(q) : Place(r, i) = Place(q, i)
  BY DEF Place
<1>4. EndOfStream(q) => EndOfStream(r)
  BY <1>3 DEF EndOfStream, Alike
<1> QED BY <1>1, <1>2, <1>4

-----------------------------------------------------------------------------
(* The invariant: the samples are the end of the stream; while the session *)
(* lives, what was not sent is kept, and, when the server acks whole       *)
(* packets only, so is what was not acked.                                 *)

\* the acked number is one that a packet acked, at the end of a sample
AckedWhole == state \notin Handshake =>
                \E k \in 1 .. Places + 1 : /\ Start(k) <= ackMax
                                           /\ acked = Add(Isn, Start(k))

StreamInv ==
  /\ EndOfStream(samples)
  /\ ~Dead => /\ Unsent(samples, sndMax)
              /\ ~PartialAcks => Kept(samples, ackMax) /\ AckedWhole

-----------------------------------------------------------------------------
(* A packet of the server finds the invariant.                             *)

(* refresh_status drops packets below the acked number only.               *)
LEMMA RefreshedList ==
  ASSUME TypeOK, NEW p \in Arriving, NEW q \in Seq(Samples), NEW w \in 0 .. Len(q),
         NEW r \in Refreshed(p, q, w), EndOfStream(q), Unsent(q, sndMax),
         \E k \in 0 .. sndMax : AckedAfter(p) = Add(Isn, k)
  PROVE  /\ r.list \in Seq(Samples) /\ EndOfStream(r.list) /\ Unsent(r.list, sndMax)
         /\ \A a \in 0 .. FinOff + 1 :
              /\ Kept(q, a)
              /\ \E k \in 1 .. Places + 1 : /\ Start(k) <= a
                                            /\ AckedAfter(p) = Add(Isn, Start(k))
              => Kept(r.list, a)
<1>1. sndMax \in 0 .. FinOff + 1 /\ sndMax \in Nat /\ FinOff \in Nat
  BY Constants DEF TypeOK, WiredOK
<1>2. CASE Outdated(p)
  BY <1>2 DEF Refreshed
<1>3. CASE ~Outdated(p)
  <2>1. PICK d \in Leading(w, AckedIn(q, w, AckedAfter(p))) : r.list = From(q, d)
    BY <1>3 DEF Refreshed
  <2>2. d \in 0 .. w /\ 1 .. d \subseteq AckedIn(q, w, AckedAfter(p))
    BY <2>1 DEF Leading
  <2>3. d \in 0 .. Len(q) /\ 1 .. d \subseteq 1 .. Len(q)
    <3>1. Len(q) \in Nat
      OBVIOUS
    <3> QED BY <2>2, <3>1
  <2>4. ASSUME NEW k \in 0 .. FinOff + 1, AckedAfter(p) = Add(Isn, k),
               NEW i \in 1 .. d, InStream(q[i])
        PROVE  Offset(q[i]) < k
    <3>1. Before(q[i].seq, AckedAfter(p))
      BY <2>2 DEF AckedIn
    <3>2. q[i].seq = Add(Isn, Offset(q[i])) /\ Offset(q[i]) \in 0 .. FinOff
      BY <2>3, <2>4, EndOffsets
    <3>3. Offset(q[i]) \in 0 .. FinOff + 1
      BY <1>1, <3>2
    <3> QED BY <2>4, <3>1, <3>2, <3>3, OffsetOrder
  <2>5. From(q, d) \in Seq(Samples) /\ EndOfStream(From(q, d))
    BY <2>3, FromType, FromEnd
  <2>6. Unsent(From(q, d), sndMax)
    <3>1. PICK k \in 0 .. sndMax : AckedAfter(p) = Add(Isn, k)
      OBVIOUS
    <3>2. k \in 0 .. FinOff + 1
      BY <1>1
    <3>3. \A i \in 1 .. d : InStream(q[i]) => Offset(q[i]) < k
      BY <2>4, <3>1, <3>2
    <3>4. \A i \in 1 .. d : InStream(q[i]) => Offset(q[i]) < sndMax
      <4> SUFFICES ASSUME NEW i \in 1 .. d, InStream(q[i]) PROVE Offset(q[i]) < sndMax
        OBVIOUS
      <4>1. Offset(q[i]) < k /\ Offset(q[i]) \in 0 .. FinOff
        BY <2>3, <3>3, EndOffsets
      <4> QED BY <1>1, <4>1
    <3> QED BY <1>1, <2>3, <3>4, FromUnsent
  <2>7. ASSUME NEW a \in 0 .. FinOff + 1, Kept(q, a),
               NEW k \in 1 .. Places + 1, Start(k) <= a, AckedAfter(p) = Add(Isn, Start(k))
        PROVE  Kept(From(q, d), a)
    <3>1. Start(k) \in 0 .. FinOff + 1
      BY PlaceTypes
    <3>2. \A i \in 1 .. d : InStream(q[i]) => Offset(q[i]) < Start(k)
      BY <2>4, <2>7, <3>1
    <3> QED BY <2>3, <2>7, <3>2, FromKept
  <2> QED BY <2>1, <2>5, <2>6, <2>7
<1> QED BY <1>2, <1>3

(* The acked number once a packet is read: sent, and at the end of a       *)
(* sample if the server acks whole packets.                                *)
LEMMA AckedPlaces ==
  ASSUME TypeOK, SessionInv, StreamInv, NEW p \in Arriving, NEW s, Got(p, s), s # "CLOSED"
  PROVE  /\ \E k \in 0 .. sndMax : AckedAfter(p) = Add(Isn, k)
         /\ state \in Handshake => p.kind = "synack"
         /\ ackMax \in 0 .. FinOff + 1 /\ ackMax' \in 0 .. FinOff + 1 /\ ackMax <= ackMax'
         /\ ~PartialAcks => \E k \in 1 .. Places + 1 :
                               /\ Start(k) <= ackMax'
                               /\ AckedAfter(p) = Add(Isn, Start(k))
<1>1. /\ ~Dead /\ state = s /\ p.kind # "rst"
      /\ ackMax' = IF p.ack > ackMax THEN p.ack ELSE ackMax
  BY DEF Got
<1>2. /\ p.ack \in 0 .. sndMax /\ sndMax \in 0 .. FinOff + 1 /\ ackMax \in 0 .. FinOff + 1
      /\ FinOff \in Nat
  BY ArrivingType, Constants DEF TypeOK, WiredOK, HeardOK
<1>3. ackMax' \in 0 .. FinOff + 1 /\ ackMax <= ackMax' /\ p.ack <= ackMax'
  BY <1>1, <1>2
<1>4. state \in Handshake => sndMax <= 1
  BY <1>1 DEF SessionInv, SynFirst
<1>5. state \in Handshake => p.kind = "synack"
  <2>1. p \notin Resets
    BY <1>1 DEF Resets
  <2>2. sndMax <= 1 => ~(sndMax >= 2)
    BY <1>2
  <2>3. sndMax <= 1 => p \in SynAcks
    BY <2>1, <2>2, Zenon DEF Arriving
  <2> QED BY <1>4, <2>3 DEF SynAcks
<1>6. \E k \in 0 .. sndMax : AckedAfter(p) = Add(Isn, k)
  <2>1. CASE state \in Handshake
    <3>1. AckedAfter(p) = Add(Isn, p.ack)
      BY <1>5, <2>1 DEF AckedAfter, AckSeqOf
    <3> QED BY <1>2, <3>1
  <2>2. CASE state \notin Handshake
    <3>1. PICK a \in 0 .. sndMax : acked = Add(Isn, a)
      BY <1>1, <2>2 DEF SessionInv, AckedSent
    <3> QED BY <3>1, AckedAfterSent
  <2> QED BY <2>1, <2>2
<1>7. ASSUME ~PartialAcks
      PROVE  \E k \in 1 .. Places + 1 : p.ack = Start(k)
  <2>1. /\ Places \in Nat /\ Places >= 2 /\ Len(Cuts) = Places - 1
        /\ Start(2) = 1 /\ Start(Places + 1) = FinOff + 1
    BY PlaceTypes
  <2>2. p.ack = 1 \/ p.ack \in Boundaries
    <3>1. p \in SynAcks \/ p \in Plains
      <4>1. p \notin Resets
        BY <1>1 DEF Resets
      <4> QED BY <4>1, Zenon DEF Arriving
    <3>2. p \in SynAcks => p.ack = 1
      BY DEF SynAcks
    <3>3. p \in Plains => p.ack \in AckOffsets
      BY DEF Plains
    <3>4. \A a \in AckOffsets : a \in Boundaries
      BY <1>7, Zenon DEF AckOffsets
    <3> QED BY <3>1, <3>2, <3>3, <3>4
  <2>3. CASE p.ack = 1
    BY <2>1, <2>3
  <2>4. CASE p.ack = FinOff + 1
    BY <2>1, <2>4
  <2>5. ASSUME NEW i \in 1 .. Len(Cuts), p.ack = Cuts[i]
        PROVE  \E k \in 1 .. Places + 1 : p.ack = Start(k)
    <3>1. i + 1 \in 1 .. Places + 1 /\ i + 1 # 1 /\ i + 1 # Places + 1 /\ (i + 1) - 1 = i
      BY <2>1
    <3>2. Start(i + 1) = Cuts[i]
      BY <3>1 DEF Start
    <3> QED BY <2>5, <3>1, <3>2
  <2> QED BY <2>2, <2>3, <2>4, <2>5 DEF Boundaries
<1>8. ASSUME ~PartialAcks
      PROVE  \E k \in 1 .. Places + 1 : /\ Start(k) <= ackMax'
                                        /\ AckedAfter(p) = Add(Isn, Start(k))
  <2>1. CASE AckedAfter(p) = AckSeqOf(p)
    <3>1. PICK k \in 1 .. Places + 1 : p.ack = Start(k)
      BY <1>7, <1>8
    <3> QED BY <1>3, <2>1, <3>1 DEF AckSeqOf
  <2>2. CASE AckedAfter(p) = acked /\ state \notin Handshake
    <3>1. PICK k \in 1 .. Places + 1 : Start(k) <= ackMax /\ acked = Add(Isn, Start(k))
      BY <1>1, <1>8, <2>2 DEF StreamInv, AckedWhole
    <3>2. Start(k) \in Int
      BY PlaceTypes
    <3>3. Start(k) <= ackMax'
      BY <1>2, <1>3, <3>1, <3>2
    <3> QED BY <2>2, <3>1, <3>3
  <2> QED BY <1>5, <2>1, <2>2 DEF AckedAfter
<1> QED BY <1>2, <1>3, <1>5, <1>6, <1>8

(* A handler that refreshes a list that keeps what it has to keep.         *)
LEMMA HandlerStream ==
  ASSUME TypeOK, SessionInv, StreamInv, NEW p \in Arriving, NEW s, Got(p, s), s # "CLOSED",
         NEW q \in Seq(Samples), NEW w \in 0 .. Len(q), EndOfStream(q), Unsent(q, sndMax),
         ~PartialAcks => Kept(q, ackMax),
         RefreshStatus(p, q, w) \/ (RefreshStatusAndAck(p) /\ q = samples /\ w = win)
  PROVE  StreamInv'
<1>1. /\ \E k \in 0 .. sndMax : AckedAfter(p) = Add(Isn, k)
      /\ state \in Handshake => p.kind = "synack"
      /\ ackMax \in 0 .. FinOff + 1 /\ ackMax' \in 0 .. FinOff + 1 /\ ackMax <= ackMax'
      /\ ~PartialAcks => \E k \in 1 .. Places + 1 :
                            Start(k) <= ackMax' /\ AckedAfter(p) = Add(Isn, Start(k))
  BY AckedPlaces
<1>2. ~Dead /\ state = s /\ sndMax' = sndMax
  BY DEF Got, wired
<1>3. RefreshNumbers(p)
  BY DEF RefreshStatus, RefreshStatusAndAck
<1>4. PICK r \in Refreshed(p, q, w) :
        \/ samples' = r.list
        \/ r.list = <<>> /\ samples' = <<PureAck(beyondFin)>>
  BY DEF RefreshStatus, RefreshStatusAndAck
<1>5. /\ r.list \in Seq(Samples) /\ EndOfStream(r.list) /\ Unsent(r.list, sndMax)
      /\ ~PartialAcks => Kept(r.list, ackMax')
  <2>1. ~PartialAcks => Kept(q, ackMax')
    BY <1>1, KeptMore
  <2> QED BY <1>1, <2>1, RefreshedList
<1>6. ASSUME r.list = <<>>, samples' = <<PureAck(beyondFin)>>
      PROVE  /\ EndOfStream(samples') /\ Unsent(samples', sndMax)
             /\ ~PartialAcks => Kept(samples', ackMax')
  <2>1. Len(samples') = 1 /\ samples'[1].kind = "ack" /\ Len(r.list) = 0
    BY <1>6 DEF PureAck, Packet
  <2>2. ~(sndMax <= FinOff)
    BY <1>5, <2>1 DEF Unsent
  <2>3. ~PartialAcks => ackMax' = FinOff + 1
    BY <1>5, <2>1 DEF Kept
  <2> HIDE DEF StreamInv
  <2>4. \A i \in 1 .. Len(samples') : i = 1 /\ ~InStream(samples'[i]) /\ Len(samples') <= 2
    BY <2>1 DEF InStream
  <2>5. EndOfStream(samples')
    BY <2>1 DEF EndOfStream
  <2>6. Unsent(samples', sndMax)
    BY <2>2, <2>4 DEF Unsent
  <2> QED BY <2>3, <2>5, <2>6 DEF Kept
<1>7. /\ EndOfStream(samples') /\ Unsent(samples', sndMax')
      /\ ~PartialAcks => Kept(samples', ackMax')
  BY <1>2, <1>4, <1>5, <1>6
<1>8. ASSUME ~PartialAcks
      PROVE  \E k \in 1 .. Places + 1 : Start(k) <= ackMax' /\ acked' = Add(Isn, Start(k))
  <2>1. CASE ~Outdated(p)
    BY <1>1, <1>3, <1>8, <2>1 DEF RefreshNumbers
  <2>2. CASE Outdated(p)
    <3>1. state \notin Handshake /\ acked' = acked
      BY <1>1, <1>3, <2>2 DEF RefreshNumbers, Outdated
    <3>2. PICK k \in 1 .. Places + 1 : Start(k) <= ackMax /\ acked = Add(Isn, Start(k))
      BY <1>2, <1>8, <3>1 DEF StreamInv, AckedWhole
    <3>3. Start(k) \in Int
      BY PlaceTypes
    <3>4. Start(k) <= ackMax'
      <4>1. ackMax \in Int /\ ackMax' \in Int /\ ackMax <= ackMax'
        BY <1>1, Constants
      <4> QED BY <3>2, <3>3, <4>1
    <3> QED BY <3>1, <3>2, <3>4
  <2> QED BY <2>1, <2>2
<1> QED BY <1>7, <1>8 DEF StreamInv, AckedWhole

(* The bare packets stripped from the front of the list are pure acks.     *)
LEMMA Stripped ==
  ASSUME NEW q \in Seq(Samples), EndOfStream(q), NoSyn(q),
         NEW d \in 0 .. Len(q), NEW m \in Nat, Unsent(q, m),
         \A i \in 1 .. d : q[i].len = 0 /\ q[i].kind # "fin"
  PROVE  /\ From(q, d) \in Seq(Samples) /\ EndOfStream(From(q, d)) /\ Unsent(From(q, d), m)
         /\ \A a \in 0 .. FinOff + 1 : Kept(q, a) => Kept(From(q, d), a)
<1>1. Len(q) \in Nat /\ \A i \in 1 .. d : i \in 1 .. Len(q)
  OBVIOUS
<1>2. \A i \in 1 .. d : ~InStream(q[i])
  <2> SUFFICES ASSUME NEW i \in 1 .. d, InStream(q[i]) PROVE FALSE
    OBVIOUS
  <2>1. q[i] \in Samples /\ (q[i].kind = "data" => q[i].len > 0) /\ q[i].kind # "syn"
    BY <1>1, EndOffsets DEF NoSyn
  <2>2. q[i].kind = "data"
    BY <2>1, PacketType DEF InStream
  <2>3. q[i].len = 0 /\ q[i].len > 0
    BY <2>1, <2>2
  <2> QED BY <2>3
<1>3. /\ 1 \in 1 .. Places + 1 /\ Start(1) = 0
  BY PlaceTypes
<1>4. ASSUME NEW a \in 0 .. FinOff + 1, Kept(q, a) PROVE Kept(From(q, d), a)
  <2>1. Start(1) <= a
    BY <1>3, Constants
  <2> QED BY <1>2, <1>3, <1>4, <2>1, FromKept
<1> QED BY <1>2, <1>4, FromType, FromEnd, FromUnsent

LEMMA EstablishedStream ==
  ASSUME TypeOK, SessionInv, StreamInv, NEW p \in Arriving, EstablishedGot(p)
  PROVE  StreamInv'
<1>1. Got(p, "ESTABLISHED") /\ ~Dead /\ state = "ESTABLISHED"
  BY DEF EstablishedGot, Got
<1>2. /\ samples \in Seq(Samples) /\ win \in 0 .. Len(samples) /\ Len(samples) \in Nat
      /\ acked \in Word /\ sndMax \in Nat /\ ackMax \in 0 .. FinOff + 1
  BY Constants DEF TypeOK, TcpOK, WiredOK, HeardOK
<1>3. OneFin(samples) /\ NoSyn(samples) /\ FinLast(samples)
  BY <1>1 DEF SessionInv, SynFirst, FinUnsent, Handshake, BeforeMyFin
<1>4. /\ EndOfStream(samples) /\ Unsent(samples, sndMax)
      /\ ~PartialAcks => Kept(samples, ackMax)
  BY <1>1 DEF StreamInv
<1> DEFINE bare == {i \in DOMAIN samples :
                      samples[i].len = 0 /\ samples[i].kind # "fin"}
<1>5. CASE p.fin
  <2>1. PICK d \in Leading(Len(samples), bare) :
          RefreshStatus(p, From(samples, d), Len(samples) - d)
    BY <1>5 DEF EstablishedGot
  <2>2. d \in 0 .. Len(samples) /\ \A i \in 1 .. d : i \in bare
    BY <2>1 DEF Leading
  <2>3. \A i \in 1 .. d : samples[i].len = 0 /\ samples[i].kind # "fin"
    BY <2>2
  <2>4. /\ From(samples, d) \in Seq(Samples) /\ EndOfStream(From(samples, d))
        /\ Unsent(From(samples, d), sndMax)
        /\ ~PartialAcks => Kept(From(samples, d), ackMax)
    BY <1>2, <1>3, <1>4, <2>2, <2>3, Stripped
  <2>5. Len(samples) - d \in 0 .. Len(From(samples, d))
    BY <1>2, <2>2, FromType
  <2> QED BY <1>1, <2>1, <2>4, <2>5, HandlerStream
<1>6. CASE ~p.fin /\ samples[1].kind = "fin" /\ p.len > 0 /\ ~ActiveClose
  <2> DEFINE q == <<PureAck(acked)>> \o samples
  <2>1. RefreshStatus(p, q, Len(samples) + 1)
    BY <1>6 DEF EstablishedGot
  <2>2. samples # <<>>
    BY <1>3 DEF FinLast
  <2>3. /\ q \in Seq(Samples) /\ Len(q) = Len(samples) + 1
        /\ EndOfStream(q) /\ Unsent(q, sndMax)
        /\ \A a : Kept(samples, a) => Kept(q, a)
    BY <1>2, <1>3, <1>4, <1>6, <2>2, AckPrepended
  <2> HIDE DEF q
  <2>4. Len(samples) + 1 \in 0 .. Len(q)
    BY <1>2, <2>3
  <2> QED BY <1>1, <1>4, <2>1, <2>3, <2>4, HandlerStream
<1>7. CASE ~p.fin /\ ~(samples[1].kind = "fin" /\ p.len > 0 /\ ~ActiveClose)
  <2>1. RefreshStatus(p, samples, win)
    BY <1>7 DEF EstablishedGot
  <2> QED BY <1>1, <1>2, <1>4, <2>1, HandlerStream
<1> QED BY <1>5, <1>6, <1>7

(* A session that dies in this step keeps its list.                        *)
LEMMA DeathStream ==
  ASSUME TypeOK, StreamInv, NEW c, KillMe(c), EndOfStream(samples') PROVE StreamInv'
<1>1. kills' > 0
  BY DEF KillMe, Capped, TypeOK, LifeOK
<1> QED BY <1>1 DEF StreamInv, Dead

LEMMA GotAPacketStream ==
  ASSUME TypeOK, SessionInv, StreamInv, NEW p \in Arriving, GotAPacket(p)
  PROVE  StreamInv'
<1>1. samples \in Seq(Samples) /\ win \in 0 .. Len(samples)
  BY DEF TypeOK, TcpOK
<1>2. /\ EndOfStream(samples)
      /\ ~Dead => Unsent(samples, sndMax) /\ (~PartialAcks => Kept(samples, ackMax))
  BY DEF StreamInv
<1>3. CASE DeadGot(p)
  BY <1>3 DEF DeadGot, tcp, life, StreamInv, Dead
<1>4. CASE GotReset(p)
  BY <1>2, <1>4, DeathStream DEF GotReset, tcp
<1>5. ASSUME NEW s, Got(p, s), s # "CLOSED",
             RefreshStatus(p, samples, win) \/ RefreshStatusAndAck(p)
      PROVE  StreamInv'
  <2>1. ~Dead
    BY <1>5 DEF Got
  <2> QED BY <1>1, <1>2, <1>5, <2>1, HandlerStream
<1>6. CASE SynSentGot(p)
  BY <1>5, <1>6 DEF SynSentGot
<1>7. CASE EstablishedGot(p)
  BY <1>7, EstablishedStream
<1>8. CASE CloseWaitGot(p)
  BY <1>5, <1>8 DEF CloseWaitGot
<1>9. CASE LastAckGot(p)
  BY <1>5, <1>9 DEF LastAckGot
<1>10. CASE FinWait1Got(p)
  BY <1>5, <1>10 DEF FinWait1Got
<1>11. CASE FinWait2Got(p)
  <2>1. Got(p, "FIN_WAIT_2")
    BY <1>11 DEF FinWait2Got
  <2>2. CASE KillMe("NO_FIN_FROM_PEER") /\ UNCHANGED tcp
    BY <1>2, <2>2, DeathStream DEF tcp
  <2>3. CASE RefreshStatus(p, samples, win) \/ RefreshStatusAndAck(p)
    BY <1>5, <2>1, <2>3
  <2> QED BY <1>11, <2>2, <2>3 DEF FinWait2Got
<1>12. CASE ClosingGot(p)
  BY <1>5, <1>12 DEF ClosingGot
<1>13. CASE TimeWaitGot(p)
  BY <1>5, <1>13 DEF TimeWaitGot
<1> QED BY <1>3, <1>4, <1>6, <1>7, <1>8, <1>9, <1>10, <1>11, <1>12, <1>13 DEF GotAPacket

-----------------------------------------------------------------------------
(* A poll finds the invariant.                                             *)

LEMMA SweptStream ==
  ASSUME TypeOK, EndOfStream(samples)
  PROVE  /\ EndOfStream(Swept)
         /\ \A m \in Nat : Unsent(samples, m) => Unsent(Swept, m)
         /\ \A a \in 0 .. FinOff + 1 : Kept(samples, a) => Kept(Swept, a)
<1>1. samples \in Seq(Samples) /\ win \in 0 .. Len(samples) /\ Len(samples) \in Nat
  BY DEF TypeOK, TcpOK
<1>2. CASE ~SpentAck
  BY <1>2 DEF Swept
<1>3. CASE SpentAck
  <2>1. 1 \in 0 .. Len(samples) /\ \A i \in 1 .. 1 : ~InStream(samples[i])
    BY <1>1, <1>3 DEF SpentAck, InStream
  <2>2. Swept = From(samples, 1)
    BY <1>1, <1>3, <2>1 DEF Swept, From, SpentAck
  <2>3. 1 \in 1 .. Places + 1 /\ \A a \in 0 .. FinOff + 1 : Start(1) <= a
    BY PlaceTypes, Constants
  <2>4. ASSUME NEW m \in Nat, Unsent(samples, m) PROVE Unsent(Swept, m)
    BY <1>1, <2>1, <2>2, <2>4, FromUnsent
  <2>5. ASSUME NEW a \in 0 .. FinOff + 1, Kept(samples, a) PROVE Kept(Swept, a)
    BY <1>1, <2>1, <2>2, <2>3, <2>5, FromKept
  <2>6. EndOfStream(Swept)
    BY <1>1, <2>1, <2>2, FromEnd
  <2> QED BY <2>4, <2>5, <2>6
<1> QED BY <1>2, <1>3

(* A prefix of the list is sent: the stream on the wire grows by it.       *)
LEMMA PrefixSent ==
  ASSUME NEW q \in Seq(Samples), EndOfStream(q), NEW m \in 0 .. FinOff + 1, Unsent(q, m),
         NEW j \in 0 .. Len(q), NEW r \in Seq(Samples), Len(r) = Len(q),
         \A i \in 1 .. Len(q) : Alike(r[i], q[i]),
         \A i \in 1 .. Len(q) : IF i > j THEN r[i].sent = q[i].sent ELSE r[i].sent # 0,
         NEW n, n = IF j > 0 /\ InStream(q[j]) /\ Reach(q[j]) > m THEN Reach(q[j]) ELSE m
  PROVE  Unsent(r, n)
<1>1. \A i \in 1 .. Len(q) : (InStream(r[i]) <=> InStream(q[i])) /\ Offset(r[i]) = Offset(q[i])
  BY AlikeEnd
<1>2. Len(q) \in Nat /\ FinOff \in Nat
  BY Constants
<1>3. \A i \in 1 .. Len(q) : InStream(q[i]) => Offset(q[i]) \in 0 .. FinOff
                                               /\ Reach(q[i]) \in 0 .. FinOff + 1
  BY EndOffsets, EndReach
<1>4. n \in 0 .. FinOff + 1 /\ m <= n
        /\ (j > 0 /\ InStream(q[j]) => Reach(q[j]) <= n)
  <2>1. j > 0 => j \in 1 .. Len(q)
    OBVIOUS
  <2>2. j > 0 /\ InStream(q[j]) => Reach(q[j]) \in 0 .. FinOff + 1
    BY <1>3, <2>1
  <2> QED BY <1>2, <2>2
<1>5. ASSUME NEW i \in 1 .. Len(q), InStream(q[i])
      PROVE  r[i].sent = 0 <=> Offset(q[i]) >= n
  <2>1. CASE i <= j
    <3>1. j \in 1 .. Len(q) /\ j > 0 /\ ~(i > j)
      BY <1>2, <2>1
    <3>2. InStream(q[j]) /\ Offset(q[i]) < Reach(q[j])
      <4>1. CASE i = j
        BY <1>5, <4>1, EndReach
      <4>2. CASE i < j
        <5>1. /\ InStream(q[j]) /\ Reach(q[i]) <= Offset(q[j]) /\ Offset(q[i]) < Reach(q[i])
          BY <1>5, <3>1, <4>2, EndGrows
        <5>2. Offset(q[j]) < Reach(q[j])
          BY <3>1, <5>1, EndReach
        <5>3. /\ Offset(q[i]) \in Int /\ Reach(q[i]) \in Int /\ Offset(q[j]) \in Int
              /\ Reach(q[j]) \in Int
          BY <1>2, <1>3, <1>5, <3>1, <5>1
        <5> QED BY <5>1, <5>2, <5>3
      <4> QED BY <2>1, <4>1, <4>2
    <3>3. Reach(q[j]) <= n /\ Reach(q[j]) \in Int /\ n \in Int /\ Offset(q[i]) \in Int
      BY <1>2, <1>3, <1>4, <1>5, <3>1, <3>2
    <3>4. ~(Offset(q[i]) >= n)
      BY <3>2, <3>3
    <3>5. r[i].sent # 0
      BY <3>1
    <3> QED BY <3>4, <3>5
  <2>2. CASE i > j
    <3>1. r[i].sent = 0 <=> Offset(q[i]) >= m
      BY <1>5, <2>2 DEF Unsent
    <3>2. CASE n = m
      BY <3>1, <3>2
    <3>3. CASE n # m
      <4>1. j \in 1 .. Len(q) /\ InStream(q[j]) /\ Reach(q[j]) > m /\ n = Reach(q[j])
        BY <3>3
      <4>2. Reach(q[j]) <= Offset(q[i])
        BY <2>2, <4>1, EndGrows
      <4>3. Offset(q[i]) \in Int /\ n \in Int /\ m \in Int
        BY <1>2, <1>3, <1>4, <1>5
      <4> QED BY <3>1, <4>1, <4>2, <4>3
    <3> QED BY <3>2, <3>3
  <2> QED BY <1>2, <2>1, <2>2
<1>6. ASSUME n <= FinOff
      PROVE  \E i \in 1 .. Len(q) : InStream(q[i]) /\ Offset(q[i]) = n
  <2>1. CASE n = m
    BY <1>6, <2>1 DEF Unsent
  <2>2. CASE n # m
    <3>1. j \in 1 .. Len(q) /\ InStream(q[j]) /\ n = Reach(q[j])
      BY <2>2
    <3>2. j + 1 \in 1 .. Len(q)
      BY <1>6, <3>1, EndReach
    <3>3. InStream(q[j + 1]) /\ Offset(q[j + 1]) = n
      BY <3>1, <3>2, EndGrows
    <3> QED BY <3>2, <3>3
  <2> QED BY <2>1, <2>2
<1> QED BY <1>1, <1>5, <1>6 DEF Unsent

LEMMA HandOverStream ==
  ASSUME TypeOK, StreamInv, ~Dead, HandOver(Swept), UNCHANGED heard
  PROVE  /\ EndOfStream(samples') /\ Unsent(samples', sndMax')
         /\ ~PartialAcks => Kept(samples', ackMax')
<1> DEFINE q == Swept
<1>1. /\ q \in Seq(Samples) /\ Count \in 0 .. Len(q) /\ Len(q) \in Nat
      /\ DOMAIN q = 1 .. Len(q) /\ SynLimit \in Nat /\ SynLimit >= 1
      /\ sndMax \in 0 .. FinOff + 1 /\ sndMax \in Nat /\ ackMax \in 0 .. FinOff + 1
  BY SweptType, LimitType, Constants DEF TypeOK, WiredOK, HeardOK
<1>2. samples' \in Seq(Samples) /\ Len(samples') = Len(q) /\ ackMax' = ackMax
  BY HandOverType DEF heard
<1>3. /\ EndOfStream(q) /\ Unsent(q, sndMax)
      /\ ~PartialAcks => Kept(q, ackMax)
  BY <1>1, SweptStream DEF StreamInv
<1>4. PICK d \in Leading(Count, {i \in 1 .. Count : Due(q[i])}) :
      \E j \in (IF QueueMayFill THEN 0 .. d ELSE {d}) :
        /\ samples' = [i \in DOMAIN q |->
                         IF i > j THEN q[i]
                         ELSE [q[i] EXCEPT !.age = 0,
                                 !.sent = Capped(@ + 1, SentLimit(q[i].kind))]]
        /\ sndMax' = IF j > 0 /\ InStream(q[j]) /\ Reach(q[j]) > sndMax
                     THEN Reach(q[j]) ELSE sndMax
  BY DEF HandOver
<1>5. d \in 0 .. Count
  BY <1>4 DEF Leading
<1>6. PICK j \in 0 .. d :
        /\ samples' = [i \in DOMAIN q |->
                         IF i > j THEN q[i]
                         ELSE [q[i] EXCEPT !.age = 0,
                                 !.sent = Capped(@ + 1, SentLimit(q[i].kind))]]
        /\ sndMax' = IF j > 0 /\ InStream(q[j]) /\ Reach(q[j]) > sndMax
                     THEN Reach(q[j]) ELSE sndMax
  <2>1. (IF QueueMayFill THEN 0 .. d ELSE {d}) \subseteq 0 .. d
    BY <1>1, <1>5
  <2> QED BY <1>4, <2>1
<1> HIDE DEF q
<1>7. j \in 0 .. Len(q)
  BY <1>1, <1>5
<1>8. ASSUME NEW i \in 1 .. Len(q)
      PROVE  /\ Alike(samples'[i], q[i])
             /\ IF i > j THEN samples'[i].sent = q[i].sent ELSE samples'[i].sent # 0
  <2>1. samples'[i] = IF i > j THEN q[i]
                      ELSE [q[i] EXCEPT !.age = 0,
                              !.sent = Capped(@ + 1, SentLimit(q[i].kind))]
    BY <1>1, <1>6, <1>8, Zenon
  <2>2. q[i] \in Samples
    BY <1>1
  <2>3. ASSUME NEW x \in Samples, NEW n
        PROVE  /\ Alike([x EXCEPT !.age = 0, !.sent = n], x)
               /\ [x EXCEPT !.age = 0, !.sent = n].sent = n
    BY DEF Samples, Alike
  <2>4. Capped(q[i].sent + 1, SentLimit(q[i].kind)) # 0
    <3>1. q[i].sent \in Nat
      <4>1. q[i].sent \in 0 .. SynLimit
        BY <2>2, PacketType
      <4> QED BY <1>1, <4>1
    <3>2. SentLimit(q[i].kind) \in Nat /\ SentLimit(q[i].kind) >= 1
      BY <1>1 DEF SentLimit
    <3> DEFINE n == q[i].sent
               l == SentLimit(q[i].kind)
    <3>3. n \in Nat /\ l \in Nat /\ l >= 1
      BY <3>1, <3>2
    <3> HIDE DEF n, l
    <3>4. Capped(n + 1, l) # 0
      BY <3>3 DEF Capped
    <3> QED BY <3>4 DEF n, l
  <2>5. CASE i > j
    BY <2>1, <2>5 DEF Alike
  <2>6. CASE ~(i > j)
    <3>1. samples'[i] = [q[i] EXCEPT !.age = 0,
                           !.sent = Capped(q[i].sent + 1, SentLimit(q[i].kind))]
      BY <2>1, <2>6, Zenon
    <3> DEFINE n == Capped(q[i].sent + 1, SentLimit(q[i].kind))
    <3>2. n # 0
      BY <2>4
    <3>3. samples'[i] = [q[i] EXCEPT !.age = 0, !.sent = n]
      BY <3>1, Zenon
    <3> HIDE DEF n
    <3>4. /\ Alike([q[i] EXCEPT !.age = 0, !.sent = n], q[i])
          /\ [q[i] EXCEPT !.age = 0, !.sent = n].sent = n
      BY <2>2, <2>3, Zenon
    <3>5. Alike(samples'[i], q[i]) /\ samples'[i].sent = n
      BY <3>3, <3>4, Zenon
    <3>6. samples'[i].sent # 0
      BY <3>2, <3>5, Zenon
    <3> QED BY <2>6, <3>5, <3>6, Zenon
  <2> QED BY <2>5, <2>6
<1>9. Unsent(samples', sndMax')
  BY <1>1, <1>2, <1>3, <1>6, <1>7, <1>8, PrefixSent
<1>10. EndOfStream(samples') /\ (~PartialAcks => Kept(samples', ackMax'))
  BY <1>1, <1>2, <1>3, <1>8, AlikeEnd
<1> QED BY <1>9, <1>10

(* The acked number stays where it is while the session is polled.         *)
LEMMA PollAcked ==
  ASSUME TypeOK, SessionInv, ~Dead, Close, AckedWhole, UNCHANGED <<acked, heard>>
  PROVE  AckedWhole'
<1>1. state' \notin Handshake => state \notin Handshake
  BY PollState DEF Close
<1>2. acked' = acked /\ ackMax' = ackMax
  BY DEF heard
<1> QED BY <1>1, <1>2 DEF AckedWhole

LEMMA PollStream == ASSUME TypeOK, SessionInv, StreamInv, Poll PROVE StreamInv'
<1>1. /\ EndOfStream(samples) /\ EndOfStream(Swept)
      /\ sndMax \in Nat /\ ackMax \in 0 .. FinOff + 1
  BY SweptStream, Constants DEF StreamInv, TypeOK, WiredOK, HeardOK
<1>2. CASE RemoveMe \/ ResetThePeer
  BY <1>1, <1>2 DEF RemoveMe, ResetThePeer, tcp, StreamInv, Dead
<1>3. CASE GiveUp
  BY <1>1, <1>3, DeathStream DEF GiveUp
<1>4. CASE Idle
  <2>1. /\ ~Dead /\ samples' = Swept /\ sndMax' = sndMax /\ ackMax' = ackMax /\ Close
        /\ UNCHANGED <<acked, heard>>
    BY <1>4 DEF Idle, heard, wired
  <2>2. Unsent(samples', sndMax') /\ (~PartialAcks => Kept(samples', ackMax'))
    BY <1>1, <2>1, SweptStream DEF StreamInv
  <2>3. ~PartialAcks => AckedWhole'
    BY <2>1, PollAcked DEF StreamInv
  <2> QED BY <1>1, <2>1, <2>2, <2>3 DEF StreamInv
<1>5. CASE Send
  <2>1. ~Dead /\ HandOver(Swept) /\ Close /\ UNCHANGED <<acked, heard>>
    BY <1>5 DEF Send
  <2>2. /\ EndOfStream(samples') /\ Unsent(samples', sndMax')
        /\ ~PartialAcks => Kept(samples', ackMax')
    BY <2>1, HandOverStream
  <2>3. ~PartialAcks => AckedWhole'
    BY <2>1, PollAcked DEF StreamInv
  <2> QED BY <2>2, <2>3 DEF StreamInv
<1> QED BY <1>2, <1>3, <1>4, <1>5 DEF Poll

LEMMA TickStream == ASSUME TypeOK, StreamInv, Tick PROVE StreamInv'
<1>1. /\ samples \in Seq(Samples) /\ Len(samples) \in Nat
      /\ DOMAIN samples = 1 .. Len(samples)
  BY DEF TypeOK, TcpOK
<1>2. samples' \in Seq(Samples)
  BY TickType DEF TypeOK, TcpOK
<1>3. /\ DOMAIN samples' = 1 .. Len(samples)
      /\ \A i \in 1 .. Len(samples) : /\ Alike(samples'[i], samples[i])
                                      /\ samples'[i].sent = samples[i].sent
  <2>1. samples' = [i \in 1 .. Len(samples) |->
                      [samples[i] EXCEPT !.age = Capped(@ + 1, Overdue)]]
    BY <1>1 DEF Tick
  <2>2. ASSUME NEW x \in Samples, NEW n
        PROVE  Alike([x EXCEPT !.age = n], x) /\ [x EXCEPT !.age = n].sent = x.sent
    BY DEF Samples, Alike
  <2>3. \A i \in 1 .. Len(samples) : samples[i] \in Samples
    BY <1>1
  <2> QED BY <2>1, <2>2, <2>3
<1>4. Len(samples') = Len(samples)
  BY <1>1, <1>2, <1>3
<1>5. UNCHANGED <<state, acked, kills, sndMax, ackMax>>
  BY DEF Tick, life, heard, wired
<1>6. /\ EndOfStream(samples')
      /\ \A i \in 1 .. Len(samples) :
            /\ InStream(samples'[i]) <=> InStream(samples[i])
            /\ Offset(samples'[i]) = Offset(samples[i])
      /\ \A a : Kept(samples, a) => Kept(samples', a)
  BY <1>1, <1>2, <1>3, <1>4, AlikeEnd DEF StreamInv
<1>7. ASSUME Unsent(samples, sndMax) PROVE Unsent(samples', sndMax')
  BY <1>3, <1>4, <1>5, <1>6, <1>7 DEF Unsent
<1>8. AckedWhole => AckedWhole'
  BY <1>5 DEF AckedWhole
<1> QED BY <1>5, <1>6, <1>7, <1>8 DEF StreamInv, Dead

LEMMA InitStream == ASSUME Init PROVE StreamInv
<1>1. samples = InitialSamples /\ state = "CLOSED" /\ sndMax = 0 /\ ackMax = 0
  BY DEF Init
<1>2. samples \in Seq(Samples) /\ DOMAIN samples = 1 .. Places /\ Places \in Nat
      /\ Places >= 2 /\ Start(1) = 0
  BY <1>1, InitType, PlaceTypes DEF TypeOK, TcpOK, InitialSamples, Places
<1>3. Len(samples) = Places
  BY <1>2
<1>4. EndOfStream(samples)
  BY <1>1, <1>2, <1>3 DEF EndOfStream, Place, Alike
<1>5. \A i \in 1 .. Len(samples) : samples[i].sent = 0
  BY <1>1, <1>2, <1>3 DEF InitialSamples, Packet, Places
<1>6. \A i \in 1 .. Len(samples) : Offset(samples[i]) \in Nat
  BY <1>2, PacketType
<1>7. 1 \in 1 .. Len(samples) /\ Place(samples, 1) = 1
  BY <1>2, <1>3 DEF Place
<1>8. InStream(samples[1]) /\ Offset(samples[1]) = 0
  <2>1. samples[1] \in Samples /\ Alike(samples[1], InitialSamples[1]) /\ 1 \in 1 .. Places
    BY <1>1, <1>2, <1>7 DEF Alike
  <2> QED BY <1>2, <2>1, PlaceShape
<1>9. Unsent(samples, sndMax)
  BY <1>1, <1>5, <1>6, <1>7, <1>8 DEF Unsent
<1>10. Kept(samples, ackMax)
  BY <1>1, <1>7, <1>8 DEF Kept
<1> QED BY <1>1, <1>4, <1>9, <1>10 DEF StreamInv, AckedWhole, Handshake

LEMMA NextStream == ASSUME TypeOK, SessionInv, StreamInv, [Next]_vars PROVE StreamInv'
<1>1. CASE UNCHANGED vars
  BY <1>1 DEF vars, tcp, life, heard, wired, StreamInv, AckedWhole, Dead
<1> QED BY <1>1, PollStream, TickStream, GotAPacketStream DEF Next, Erased

-----------------------------------------------------------------------------
(* Whatever arrives, the samples of a session are the end of its recorded  *)
(* stream, behind a pure ack at most.                                      *)
THEOREM StreamKept == Spec => []StreamInv
<1>1. Init => StreamInv
  BY InitStream
<1>2. TypeOK /\ SessionInv /\ StreamInv /\ [Next]_vars => StreamInv'
  BY NextStream
<1> QED BY <1>1, <1>2, TypeCorrect, Safety, PTL DEF Spec

(* The loops of adjust_sliding_window never run past a gap of the list,    *)
(* and a pure ack is only ever erased at its front.                        *)
THEOREM WindowIsSound == Spec => []WindowSound
<1>1. TypeOK /\ StreamInv => WindowSound
  BY EndWindow DEF StreamInv
<1> QED BY <1>1, TypeCorrect, StreamKept, PTL

(* A refused packet, a shrunk window or a lost ack skips nothing of the    *)
(* stream: it goes to the wire without holes, for every capture.           *)
THEOREM UnsentIsKept == Spec => []UnsentKept
<1>1. StreamInv => UnsentKept
  BY DEF StreamInv, Unsent, UnsentKept
<1> QED BY <1>1, StreamKept, PTL

(* Of a server that acks whole packets, what it has not acked is kept to   *)
(* be sent again.                                                          *)
THEOREM NothingIsLost == ASSUME ~PartialAcks PROVE Spec => []NoDataLost
<1>1. StreamInv => NoDataLost
  BY DEF StreamInv, Kept, NoDataLost
<1> QED BY <1>1, StreamKept, PTL
=============================================================================
