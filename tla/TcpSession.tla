----------------------------- MODULE TcpSession -----------------------------
(***************************************************************************)
(* One replayed session: the pseudo-client of class tcpsession             *)
(* (tcpsession.cpp) from the moment its captured packets are complete and  *)
(* it is registered with the postoffice (SENDING_TRAFFIC) to its removal.  *)
(*                                                                         *)
(* The session is driven by two calls, both made from its strand and so    *)
(* never concurrent with each other:                                       *)
(*   - pls_send_these_packets, asked by postoffice's sending pass, which   *)
(*     then hands a prefix of the answer to the postman (the Poll actions);*)
(*   - got_a_packet, for a packet of the test server (the Got actions).    *)
(*                                                                         *)
(* _ippkts_samples is the sequence samples; the left boundary of the       *)
(* sliding window is always the first sample (every erase at the left      *)
(* moves it, every insertion resets it), so the window is the first win    *)
(* samples.  A time the code records in jiffies is kept as the time that   *)
(* has passed since, saturated one past the limit it is compared with,     *)
(* which is exact for the strict comparisons the code makes.               *)
(*                                                                         *)
(* The peer is an honest TCP server behind a network that loses,           *)
(* duplicates, delays and reorders: at any moment any packet may arrive    *)
(* that such a server can have sent given what the session has put on the  *)
(* wire so far.                                                            *)
(***************************************************************************)
EXTENDS SeqNum, Integers, Sequences, FiniteSets

CONSTANTS
  Isn,            \* the client's initial sequence number, from the capture
  Cuts,           \* stream offsets where the data packets start, then the FIN's
  HeaderLen,      \* bytes of IP and TCP header in every packet
  PeerIsn,        \* the server's initial sequence number
  PeerLen,        \* bytes the server answers
  Windows,        \* the windows the server may advertise
  BigWindow,      \* _advertised_window_size before the server is heard
  PartialAcks,    \* whether the server may ack part of a packet
  ActiveClose,    \* _enable_active_close
  QueueMayFill,   \* whether postman::send may refuse a packet
  RetransmitInterval,  \* _retransmit_time_interval
  ResponseTimeout,     \* _response_from_peer_time_out
  SendPeriod,          \* _have_to_send_data_within_this_timeperiod
  FinTimeout,          \* _wait_for_fin_from_peer_time_out
  MaxStall             \* jiffies that may pass inside one got_a_packet call

FinOff == Cuts[Len(Cuts)]       \* the stream offset of the client's FIN
PeerEnd == PeerLen + 1          \* the stream offset of the server's FIN

ASSUME SessionAssumption ==
  /\ Isn \in Word /\ PeerIsn \in Word
  /\ Cuts \in Seq(Nat) /\ Len(Cuts) >= 1 /\ Cuts[1] = 1
  /\ \A i, j \in 1 .. Len(Cuts) : i < j => Cuts[i] < Cuts[j]
  /\ FinOff + 1 < Half
  /\ PeerLen \in Nat /\ PeerEnd + 1 < Half
  /\ HeaderLen \in Nat \ {0}
  /\ Windows \subseteq Nat /\ BigWindow \in Nat
  /\ {PartialAcks, ActiveClose, QueueMayFill} \subseteq BOOLEAN
  /\ {RetransmitInterval, ResponseTimeout} \subseteq Nat \ {0}
  /\ {SendPeriod, FinTimeout, MaxStall} \subseteq Nat

States == {"CLOSED", "SYN_SENT", "ESTABLISHED", "CLOSE_WAIT", "LAST_ACK",
           "FIN_WAIT_1", "FIN_WAIT_2", "CLOSING", "TIME_WAIT"}
Causes == {"ACTIVE_CLOSE", "PASSIVE_CLOSE", "PEER_TIME_OUT", "DORMANCY",
           "RESET", "NO_FIN_FROM_PEER"}

VARIABLES
  state,            \* _current_state
  samples,          \* _ippkts_samples
  win,              \* packets between the two sliding-window boundaries
  expected,         \* _expected_next_sequence_from_peer
  acked,            \* _latest_acked_sequence_by_peer
  adv,              \* _advertised_window_size
  expectedLastAck,  \* _expected_last_ack_seq_from_peer
  beyondFin,        \* _last_seq_beyond_fin_at_localhost_side
  recvAge,          \* since _last_recorded_recv_time_with_payload
  sndAge,           \* since _last_recorded_snd_time
  finAckedAge,      \* since _my_fin_acked_time
  kills,            \* calls of kill_me: _dead is kills > 0
  cause,            \* the last cause given to kill_me
  resetPeer,        \* _reset_the_peer
  gone,             \* REMOVE was answered: the postoffice erased the session
  \* what has happened, for the properties
  sndMax,           \* stream offset below which all was handed to the wire
  ackMax,           \* highest stream offset a received packet acked
  peerFin           \* a packet with the server's FIN was received

tcp == <<state, samples, win, expected, acked, adv>>
closing == <<expectedLastAck, beyondFin>>
clocks == <<recvAge, sndAge, finAckedAge>>
life == <<kills, cause, resetPeer, gone>>
heard == <<ackMax, peerFin>>
wired == <<sndMax>>
vars == <<tcp, closing, clocks, life, heard, wired>>

-----------------------------------------------------------------------------
(* Samples.  A packet that was never sent, or whose last sending is more   *)
(* than the retransmission interval ago, is to be sent: _send_me_pls is    *)
(* set at creation and by the marking loop, cleared by a sending, and read *)
(* after the marking loop only, so the age alone decides.                  *)

Never == 0 - 1
Overdue == RetransmitInterval + 1
Due(p) == p.age > RetransmitInterval

Packet(kind, seq, len) ==
  [kind |-> kind, seq |-> seq, len |-> len, sent |-> 0, age |-> Overdue]

PureAck(seq) == Packet("ack", HtonsSeq(seq), 0)

\* the packets sanitize() lets through: SYN, contiguous data, a bare FIN
InitialSamples ==
  [i \in 1 .. Len(Cuts) + 1 |->
     IF i = 1 THEN Packet("syn", Isn, 0)
     ELSE IF i = Len(Cuts) + 1 THEN Packet("fin", Add(Isn, FinOff), 0)
     ELSE Packet("data", Add(Isn, Cuts[i-1]), Cuts[i] - Cuts[i-1])]

\* SYNs after which the handshake has lasted longer than the timeout; the
\* counter matters up to there for a SYN, and up to 1 for other packets
SynLimit == ResponseTimeout \div RetransmitInterval + 1
SentLimit(kind) == IF kind = "syn" THEN SynLimit ELSE 1
Capped(n, limit) == IF n > limit THEN limit ELSE n

\* a pure ack has no place in the stream; a SYN and a FIN take one byte of it
InStream(p) == p.kind # "ack"
Offset(p) == Diff(p.seq, Isn)
Reach(p) == Offset(p) + p.len + (IF p.kind = "data" THEN 0 ELSE 1)

Samples ==
  {p \in [kind : {"syn", "data", "fin", "ack"}, seq : Word, len : 0 .. FinOff,
          sent : 0 .. SynLimit, age : 0 .. Overdue] :
     CASE p.kind = "syn" -> Offset(p) = 0 /\ p.len = 0
       [] p.kind = "fin" -> Offset(p) = FinOff /\ p.len = 0
       [] p.kind = "data" -> Reach(p) <= FinOff
       [] OTHER -> TRUE}

From(q, d) == SubSeq(q, d + 1, Len(q))      \* q without its first d packets

\* the length, as a singleton, of the longest prefix of 1..n inside S
Leading(n, S) == {d \in 0 .. n : /\ 1 .. d \subseteq S
                                 /\ d < n => d + 1 \notin S}

\* the sequence number check_ippkts_continuity expects after a packet
FollowedBy(p) == Add(p.seq, IF p.kind = "syn" THEN p.len + 1 ELSE p.len)
Run(q) == Cardinality({r \in 1 .. Len(q) :
                         \A i \in 1 .. r - 1 : q[i+1].seq = FollowedBy(q[i])})

(***************************************************************************)
(* adjust_sliding_window: the possible positions (there is one) of the     *)
(* right boundary of window w over q, for an advertised window of a bytes. *)
(* The window shrinks to the packets that fit, unless not even the first   *)
(* one does, when it stays as it is.  It grows while it is too small, each *)
(* new packet counted with the length of the first one outside (ite does   *)
(* not move), up to the end of the continuous run.  A window that ended    *)
(* beyond that run would grow past the end of the list: no outcome is      *)
(* defined, and any is allowed.                                            *)
(***************************************************************************)
TotLen(p) == HeaderLen + p.len
Adjusted(q, w, a) ==
  LET size[k \in 0 .. Len(q)] == IF k = 0 THEN 0 ELSE size[k-1] + TotLen(q[k])
      step == TotLen(q[w+1])
      grown(v) == size[w] + (v - w) * step
  IN  IF size[w] > a
      THEN IF size[1] > a THEN {w}
           ELSE {v \in 1 .. w : v < w /\ size[v] <= a /\ size[v+1] > a}
      ELSE IF size[w] = a \/ w = Len(q) THEN {w}
      ELSE IF Run(q) < w THEN w .. Len(q)
      ELSE {v \in w .. Run(q) : /\ v = Run(q) \/ grown(v) >= a
                                /\ v > w => grown(v - 1) < a}

-----------------------------------------------------------------------------
(* The packets of the server.                                              *)

Boundaries == {Cuts[i] : i \in 1 .. Len(Cuts)} \cup {FinOff + 1}
AckOffsets == {a \in 1 .. sndMax : PartialAcks \/ a \in Boundaries}

SynAcks ==
  [kind : {"synack"}, fin : {FALSE}, off : {0}, len : {0}, ack : {1},
   win : Windows]
Resets ==
  [kind : {"rst"}, fin : {FALSE}, off : {0}, len : {0}, ack : {0},
   win : Windows]
Plains ==
  {p \in [kind : {"plain"}, fin : BOOLEAN, off : 1 .. PeerEnd + 1,
          len : 0 .. PeerLen, ack : AckOffsets, win : Windows] :
     /\ p.off + p.len <= PeerEnd \/ (p.off = PeerEnd + 1 /\ p.len = 0)
     /\ p.fin => p.off + p.len = PeerEnd}

\* any packet the server can have sent once it has seen what sndMax covers
Arriving == (IF sndMax >= 1 THEN SynAcks \cup Resets ELSE {})
            \cup (IF sndMax >= 2 THEN Plains ELSE {})

SeqOf(p) == Add(PeerIsn, p.off)
AckSeqOf(p) == Add(Isn, p.ack)
HasPayload(p) == p.len > 0 \/ p.fin \/ p.kind = "synack"

-----------------------------------------------------------------------------
(* refresh_status.                                                         *)

NextSeqOf(p) == Add(SeqOf(p), p.len)
Outdated(p) == /\ p.kind # "synack"
               /\ SeqOf(p) # expected
               /\ Before(NextSeqOf(p), expected)

ExpectedAfter(p) ==
  IF p.kind = "synack" THEN Add(SeqOf(p), 1)
  ELSE IF SeqOf(p) = expected
       THEN Add(NextSeqOf(p), IF p.fin THEN 1 ELSE 0)
       ELSE expected

AckedAfter(p) ==
  IF p.kind = "synack" \/ Before(acked, AckSeqOf(p)) THEN AckSeqOf(p) ELSE acked

\* bug: a packet that starts at the acked number is taken for acked
AckedAtOrBefore(q, w, a) == {i \in 1 .. w : BeforeEq(q[i].seq, a)}
AckedIn(q, w, a) == {i \in 1 .. w : Before(q[i].seq, a)}

\* what refresh_status makes of list q with window w: the leading packets
\* that start below the acked number leave, then the window is adjusted
Refreshed(p, q, w) ==
  IF Outdated(p) THEN {[list |-> q, win |-> w]}
  ELSE UNION {{[list |-> From(q, d), win |-> v] :
                 v \in Adjusted(From(q, d), w - d, p.win)} :
              d \in Leading(w, AckedIn(q, w, AckedAfter(p)))}

RefreshNumbers(p) ==
  /\ expected' = ExpectedAfter(p)
  /\ acked' = IF Outdated(p) THEN acked ELSE AckedAfter(p)
  /\ adv' = IF Outdated(p) THEN adv ELSE p.win

RefreshStatus(p, q, w) ==
  /\ RefreshNumbers(p)
  /\ \E r \in Refreshed(p, q, w) : samples' = r.list /\ win' = r.win

\* refresh_status, then: an empty list gets a pure ack of all that was
\* sent, and the window is opened over the whole list
RefreshStatusAndAck(p) ==
  /\ RefreshNumbers(p)
  /\ \E r \in Refreshed(p, samples, win) :
       /\ samples' = IF r.list = <<>> THEN <<PureAck(beyondFin)>> ELSE r.list
       /\ win' = Len(samples')

-----------------------------------------------------------------------------
Init ==
  /\ state = "CLOSED" /\ samples = InitialSamples /\ win = 1
  /\ expected = 0 /\ acked = 0 /\ adv = BigWindow
  /\ expectedLastAck = 0 /\ beyondFin = 0
  /\ recvAge = Never /\ sndAge = 0 /\ finAckedAge = Never
  /\ kills = 0 /\ cause = "none" /\ resetPeer = FALSE /\ gone = FALSE
  /\ sndMax = 0 /\ ackMax = 0 /\ peerFin = FALSE

Dead == kills > 0

KillMe(c) == /\ kills' = Capped(kills + 1, 2) /\ cause' = c
             /\ resetPeer' = (resetPeer \/ c \in {"PEER_TIME_OUT", "DORMANCY"})
             /\ UNCHANGED gone

-----------------------------------------------------------------------------
(* pls_send_these_packets and the postoffice's loop over its answer.       *)

\* a pure ack is one-shot: one that was sent leaves the front of the list
SpentAck == win > 0 /\ samples[1].kind = "ack" /\ samples[1].sent > 0
Swept == IF SpentAck THEN Tail(samples) ELSE samples
SweptWin == IF SpentAck THEN win - 1 ELSE win

FinInWindow == SweptWin > 0 /\ Swept[SweptWin].kind = "fin"
\* bug: the break at the FIN of a passive session is forgotten
NeverHalted == FALSE
\* passive close: my FIN waits for the peer's
Halted == FinInWindow /\ ~ActiveClose /\ state = "ESTABLISHED"
Count == IF Halted THEN SweptWin - 1 ELSE SweptWin
FinOut == FinInWindow /\ ~Halted
PktWillBeSent == \E i \in 1 .. Count : Due(Swept[i]) /\ Swept[i].kind # "ack"

SynInFront == Count > 0 /\ Swept[1].kind = "syn"
StateAfterSyn == IF SynInFront /\ Due(Swept[1]) THEN "SYN_SENT" ELSE state

\* bug: only the handshake times out
OnlySynTimesOut ==
  SynInFront /\ Swept[1].sent * RetransmitInterval > ResponseTimeout
NoResponse == \/ recvAge # Never /\ recvAge > ResponseTimeout
              \/ SynInFront /\ Swept[1].sent * RetransmitInterval > ResponseTimeout

StateAfterFin ==
  IF ~FinOut THEN StateAfterSyn
  ELSE CASE StateAfterSyn = "ESTABLISHED" -> "FIN_WAIT_1"
         [] StateAfterSyn = "CLOSE_WAIT" -> "LAST_ACK"
         [] OTHER -> StateAfterSyn
Close ==
  LET last == Swept[SweptWin]
      beyond == Add(last.seq, last.len)
  IN  /\ state' = StateAfterFin
      /\ beyondFin' = IF FinOut THEN beyond ELSE beyondFin
      /\ expectedLastAck' = IF FinOut /\ StateAfterFin # StateAfterSyn
                            THEN beyond ELSE expectedLastAck

LastChance == Count > 0 /\ StateAfterFin = "TIME_WAIT"
Dormant == /\ StateAfterFin = "ESTABLISHED"
           /\ \/ ActiveClose
              \/ SweptWin = 0
              \/ Swept[1].kind # "fin"

\* the postoffice offers the due packets to the postman, in order, up to the
\* first that is not due or is refused; a sent packet restarts its timer
HandOver(q) ==
  \E d \in Leading(Count, {i \in 1 .. Count : Due(q[i])}) :
    \E j \in (IF QueueMayFill THEN 0 .. d ELSE {d}) :
      /\ samples' = [i \in DOMAIN q |->
                       IF i > j THEN q[i]
                       ELSE [q[i] EXCEPT !.age = 0,
                               !.sent = Capped(@ + 1, SentLimit(q[i].kind))]]
      /\ sndMax' = IF j > 0 /\ InStream(q[j]) /\ Reach(q[j]) > sndMax
                   THEN Reach(q[j]) ELSE sndMax

RemoveMe ==
  /\ ~gone /\ Dead /\ ~resetPeer
  /\ gone' = TRUE
  /\ UNCHANGED <<tcp, closing, clocks, kills, cause, resetPeer, heard, wired>>

\* two RSTs are offered once, whether the postman takes them or not
ResetThePeer ==
  /\ ~gone /\ Dead /\ resetPeer
  /\ resetPeer' = FALSE
  /\ UNCHANGED <<tcp, closing, clocks, kills, cause, gone, heard, wired>>

GiveUp ==
  /\ ~Dead /\ NoResponse
  /\ samples' = Swept /\ win' = SweptWin /\ state' = StateAfterSyn
  /\ KillMe("PEER_TIME_OUT")
  /\ UNCHANGED <<expected, acked, adv, closing, clocks, heard, wired>>

\* nothing to send, and nothing was sent for too long: nothing is sent now
Idle ==
  /\ ~Dead /\ ~NoResponse
  /\ ~PktWillBeSent /\ sndAge > SendPeriod
  /\ samples' = Swept /\ win' = SweptWin /\ Close
  /\ CASE LastChance -> KillMe("ACTIVE_CLOSE")
       [] Dormant -> KillMe("DORMANCY")
       [] OTHER -> UNCHANGED life
  /\ UNCHANGED <<expected, acked, adv, clocks, heard, wired>>

Send ==
  /\ ~Dead /\ ~NoResponse
  /\ PktWillBeSent \/ sndAge <= SendPeriod
  /\ HandOver(Swept) /\ win' = SweptWin /\ Close
  /\ sndAge' = IF PktWillBeSent THEN 0 ELSE sndAge
  /\ IF LastChance THEN KillMe("ACTIVE_CLOSE") ELSE UNCHANGED life
  /\ UNCHANGED <<expected, acked, adv, recvAge, finAckedAge, heard>>

Poll == RemoveMe \/ ResetThePeer \/ GiveUp \/ Idle \/ Send

-----------------------------------------------------------------------------
(* got_a_packet.                                                           *)

Heard(p) == recvAge' = IF HasPayload(p) THEN 0 ELSE recvAge

DeadGot(p) ==
  /\ Dead /\ Heard(p)
  /\ UNCHANGED <<tcp, closing, sndAge, finAckedAge, life, heard, wired>>

\* bug: the session is not asked whether it is still alive
GotResetAgain(p) ==
  /\ p.kind = "rst" /\ Heard(p)
  /\ KillMe("RESET")
  /\ UNCHANGED <<tcp, closing, sndAge, finAckedAge, heard, wired>>
GotReset(p) ==
  /\ ~Dead /\ p.kind = "rst" /\ Heard(p)
  /\ KillMe("RESET")
  /\ UNCHANGED <<tcp, closing, sndAge, finAckedAge, heard, wired>>

\* what every handler of a TCP state starts from
Got(p, s) ==
  /\ ~Dead /\ p.kind # "rst" /\ state = s /\ Heard(p)
  /\ ackMax' = IF p.ack > ackMax THEN p.ack ELSE ackMax
  /\ peerFin' = (peerFin \/ p.fin)
  /\ UNCHANGED <<closing, sndAge, wired>>

\* bug: the operands are swapped
AcksBelowMyFin(p) == BeforeEq(AckSeqOf(p), expectedLastAck)
AcksMyFin(p) == BeforeEq(expectedLastAck, AckSeqOf(p))

SynSentGot(p) ==
  /\ Got(p, "SYN_SENT")
  /\ state' = IF p.kind = "synack" THEN "ESTABLISHED" ELSE state
  /\ RefreshStatus(p, samples, win)
  /\ UNCHANGED <<finAckedAge, life>>

\* bug: every payload is acked by a pure ack, samples left or not
EstablishedGotAckAll(p) ==
  /\ Got(p, "ESTABLISHED") /\ ~p.fin /\ state' = state
  /\ IF p.len > 0 /\ ~ActiveClose
     THEN RefreshStatus(p, <<PureAck(acked)>> \o samples, Len(samples) + 1)
     ELSE RefreshStatus(p, samples, win)
  /\ UNCHANGED <<finAckedAge, life>>
EstablishedGot(p) ==
  /\ Got(p, "ESTABLISHED")
  /\ IF p.fin
     THEN /\ state' = "CLOSE_WAIT"
          /\ LET bare == {i \in DOMAIN samples :
                            samples[i].len = 0 /\ samples[i].kind # "fin"}
             IN  \E d \in Leading(Len(samples), bare) :
                   RefreshStatus(p, From(samples, d), Len(samples) - d)
     ELSE /\ state' = state
          /\ IF samples[1].kind = "fin" /\ p.len > 0 /\ ~ActiveClose
             THEN RefreshStatus(p, <<PureAck(acked)>> \o samples, Len(samples) + 1)
             ELSE RefreshStatus(p, samples, win)
  /\ UNCHANGED <<finAckedAge, life>>

CloseWaitGot(p) ==
  /\ Got(p, "CLOSE_WAIT") /\ state' = state
  /\ RefreshStatus(p, samples, win)
  /\ UNCHANGED <<finAckedAge, life>>

LastAckGot(p) ==
  /\ Got(p, "LAST_ACK")
  /\ RefreshStatus(p, samples, win)
  /\ IF AcksMyFin(p) THEN state' = "CLOSED" /\ KillMe("PASSIVE_CLOSE")
                     ELSE state' = state /\ UNCHANGED life
  /\ UNCHANGED finAckedAge

FinWait1Got(p) ==
  /\ Got(p, "FIN_WAIT_1")
  /\ IF AcksMyFin(p)
     THEN /\ state' = IF p.fin THEN "TIME_WAIT" ELSE "FIN_WAIT_2"
          /\ finAckedAge' = 0
          /\ RefreshStatusAndAck(p)
     ELSE /\ state' = IF p.fin THEN "CLOSING" ELSE state
          /\ UNCHANGED finAckedAge
          /\ RefreshStatus(p, samples, win)
  /\ UNCHANGED life

\* the impatience is measured from the receive time that got_a_packet has
\* just recorded, so only a stall inside the call can exhaust it
FinWait2Got(p) ==
  /\ Got(p, "FIN_WAIT_2")
  /\ \E stall \in 0 .. MaxStall :
       IF stall > FinTimeout
       THEN /\ KillMe("NO_FIN_FROM_PEER") /\ UNCHANGED tcp
       ELSE /\ state' = IF p.fin THEN "TIME_WAIT" ELSE state
            /\ IF p.len > 0 THEN RefreshStatusAndAck(p)
                            ELSE RefreshStatus(p, samples, win)
            /\ UNCHANGED life
  /\ UNCHANGED finAckedAge

ClosingGot(p) ==
  /\ Got(p, "CLOSING")
  /\ state' = IF AcksMyFin(p) THEN "TIME_WAIT" ELSE state
  /\ finAckedAge' = IF AcksMyFin(p) THEN 0 ELSE finAckedAge
  /\ RefreshStatusAndAck(p)
  /\ UNCHANGED life

TimeWaitGot(p) ==
  /\ Got(p, "TIME_WAIT") /\ state' = state
  /\ RefreshStatusAndAck(p)
  /\ UNCHANGED <<finAckedAge, life>>

GotAPacket(p) ==
  /\ ~gone
  /\ \/ DeadGot(p) \/ GotReset(p)
     \/ SynSentGot(p) \/ EstablishedGot(p) \/ CloseWaitGot(p) \/ LastAckGot(p)
     \/ FinWait1Got(p) \/ FinWait2Got(p) \/ ClosingGot(p) \/ TimeWaitGot(p)

-----------------------------------------------------------------------------
\* the 10 ms timer of politburo: one jiffy passes
Older(age, limit) == IF age = Never THEN Never ELSE Capped(age + 1, limit + 1)
Tick ==
  /\ ~gone
  /\ recvAge' = Older(recvAge, ResponseTimeout)
  /\ sndAge' = Older(sndAge, SendPeriod)
  /\ finAckedAge' = Older(finAckedAge, FinTimeout)
  /\ samples' = [i \in DOMAIN samples |->
                   [samples[i] EXCEPT !.age = Capped(@ + 1, Overdue)]]
  /\ UNCHANGED <<state, win, expected, acked, adv, closing, life, heard, wired>>

\* an erased session is asked nothing, hears nothing and keeps no time
Erased == gone /\ UNCHANGED vars

Next == Poll \/ (\E p \in Arriving : GotAPacket(p)) \/ Tick \/ Erased

(***************************************************************************)
(* The strand polls for ever (post_the_jobs re-posts itself), the timer    *)
(* ticks for ever, and the postman's thread keeps draining the queue, so   *)
(* that a packet offered again and again is accepted in the end.           *)
(***************************************************************************)
SendDue == Send /\ (PktWillBeSent => sndMax' > 0 /\ samples'[1].age = 0)
Fairness == WF_vars(Tick) /\ WF_vars(RemoveMe \/ ResetThePeer \/ GiveUp \/ Idle)
            /\ WF_vars(SendDue)

Spec == Init /\ [][Next]_vars
FairSpec == Spec /\ Fairness

-----------------------------------------------------------------------------
(* Properties.                                                             *)

TcpOK ==
  /\ state \in States
  /\ samples \in Seq(Samples) /\ win \in 0 .. Len(samples)
  /\ expected \in Word /\ acked \in Word /\ adv \in Windows \cup {BigWindow}
ClosingOK == expectedLastAck \in Word /\ beyondFin \in Word
ClocksOK ==
  /\ recvAge \in Never .. ResponseTimeout + 1
  /\ sndAge \in 0 .. SendPeriod + 1
  /\ finAckedAge \in Never .. FinTimeout + 1
LifeOK == /\ kills \in 0 .. 1 /\ cause \in Causes \cup {"none"}
          /\ resetPeer \in BOOLEAN /\ gone \in BOOLEAN
HeardOK == ackMax \in 0 .. FinOff + 1 /\ peerFin \in BOOLEAN
WiredOK == sndMax \in 0 .. FinOff + 1

(* The type invariant.  It bounds kills by 1: whatever order answers,      *)
(* timeouts and polls come in, kill_me runs once for a session, so the     *)
(* healthy count of session_manager is decreased once.                     *)
TypeOK == TcpOK /\ ClosingOK /\ ClocksOK /\ LifeOK /\ HeardOK /\ WiredOK

BeforeMyFin == {"CLOSED", "SYN_SENT", "ESTABLISHED", "CLOSE_WAIT"}

FinLast(q) == q # <<>> /\ q[Len(q)].kind = "fin"

(* Until the session has entered a state that follows the sending of its   *)
(* FIN, the FIN is the last of its samples.  So _ippkts_samples.front() in *)
(* established_state_handler never reads an empty list, the loop that      *)
(* strips packets without payload ends, and the assertion of               *)
(* close_wait_state_handler holds.                                         *)
FinKept == ~Dead /\ state \in BeforeMyFin =>
             FinLast(samples)

(* The right boundary is never past the first gap of the samples unless it *)
(* is at their end: otherwise the loop of adjust_sliding_window that       *)
(* advances it until it meets the gap would miss it and run off the list.  *)
WindowInRun == win = Len(samples) \/ win <= Run(samples)

(* A pure ack is only ever the first sample, and there is one at most: the *)
(* sending loop moves the window's left boundary for an erased pure ack    *)
(* only if it is there.                                                    *)
AckInFront == \A i \in 2 .. Len(samples) : InStream(samples[i])

(* What the loops that move the window rely on.                            *)
WindowSound == WindowInRun /\ AckInFront

(* A session reported as closed actively or passively has received the     *)
(* server's FIN, and the server has acked all of its data.  That is all    *)
(* that holds: its own FIN may never have left, since an ack of the data   *)
(* is taken for one of the FIN (tcpsession.cpp:648).                       *)
GracefulClose == cause \in {"ACTIVE_CLOSE", "PASSIVE_CLOSE"} =>
                   peerFin /\ ackMax >= FinOff

(* What the server has not acked is still in the samples, to be sent       *)
(* again: the first packet kept starts at or below the highest ack.        *)
NoDataLost == ~Dead => \/ ackMax = FinOff + 1
                       \/ \E i \in 1 .. Len(samples) :
                            InStream(samples[i]) /\ Offset(samples[i]) <= ackMax

(* The stream goes to the wire without holes: what was never handed over   *)
(* starts at sndMax, is all still in the samples, and nothing of it was    *)
(* sent.  A refused packet, a shrunk window or a lost ack skips nothing.   *)
UnsentKept ==
  ~Dead => /\ \A i \in 1 .. Len(samples) :
                InStream(samples[i]) =>
                  (samples[i].sent = 0 <=> Offset(samples[i]) >= sndMax)
           /\ sndMax <= FinOff =>
                \E i \in 1 .. Len(samples) :
                  InStream(samples[i]) /\ Offset(samples[i]) = sndMax

(* A session that does not close actively puts its FIN on the wire only    *)
(* after the server's ("halt my FIN and wait for FIN from the peer",       *)
(* tcpsession.cpp:543).                                                    *)
FinWaitsForPeer == ~ActiveClose /\ sndMax = FinOff + 1 => peerFin

(* A session is erased in the end unless payload, SYN or FIN of the server *)
(* keeps arriving for ever: the handshake, an unanswered request, a        *)
(* missing FIN and a missing last ack are all ended by some timeout, and   *)
(* bare acks or a full send queue put none of them off for ever.           *)
PayloadClockRestarted == recvAge' = 0 /\ recvAge # 0
Removed == (<>[][~PayloadClockRestarted]_vars) => <>gone

(* A session keeps what SessionLife promises: it dies once and of one      *)
(* cause, resets its peer at most once, and is removed after that only.    *)
Phase == IF gone THEN "gone"
         ELSE IF ~Dead THEN "alive"
         ELSE IF resetPeer THEN "resetting" ELSE "dying"
Life == INSTANCE SessionLife WITH life <- Phase
ImplementsLife == Life!Spec

-----------------------------------------------------------------------------
(* Why FinKept, FinWaitsForPeer and GracefulClose hold: an invariant that   *)
(* every step preserves.                                                   *)

Handshake == {"CLOSED", "SYN_SENT"}
HeardFin == {"CLOSE_WAIT", "LAST_ACK", "CLOSING", "TIME_WAIT"}
ActiveStates == {"FIN_WAIT_1", "FIN_WAIT_2", "CLOSING", "TIME_WAIT"}

NoSyn(q) == \A i \in 1 .. Len(q) : q[i].kind # "syn"
OneFin(q) == \A i \in 1 .. Len(q) : q[i].kind = "fin" => i = Len(q)

\* the SYN is alone in the window until it is acked, then gone for good
SynFirst == IF state \in Handshake
            THEN /\ win = 1 /\ Len(samples) >= 2 /\ samples[1].kind = "syn"
                 /\ \A i \in 2 .. Len(samples) : samples[i].kind # "syn"
                 /\ sndMax <= 1
            ELSE NoSyn(samples)
\* the acked number is one the session has sent
AckedSent == state \notin Handshake => \E a \in 0 .. sndMax : acked = Add(Isn, a)
FinUnsent == state \in BeforeMyFin => FinLast(samples) /\ sndMax <= FinOff
LastAckKnown == state \notin BeforeMyFin => expectedLastAck = Add(Isn, FinOff)
FinHeard == state \in HeardFin => peerFin
DataAcked == state \in {"FIN_WAIT_2", "TIME_WAIT"} => ackMax >= FinOff
PassiveStates == state \in ActiveStates => ActiveClose

SessionInv ==
  /\ OneFin(samples) /\ FinWaitsForPeer /\ GracefulClose
  /\ ~Dead => /\ cause = "none"
              /\ SynFirst /\ AckedSent /\ FinUnsent /\ LastAckKnown
              /\ FinHeard /\ DataAcked /\ PassiveStates

-----------------------------------------------------------------------------
(* What comments of the code say and the code does not do.                 *)

(* "drop the outdated incoming packets" (tcpsession.cpp:1173): a packet    *)
(* whose data was received before changes no sequence number, so the ack   *)
(* number the session sends never moves back.                              *)
OutdatedDropped == [][expected # 0 => ~Before(expected', expected)]_vars

=============================================================================
