-------------------------- MODULE RealtimeCapturer --------------------------
(***************************************************************************)
(* The capturer of real-time traffic.  Connections bring a stream of IP    *)
(* packets; the handlers of one strand find the packets in the buffer of   *)
(* the connection and push them to the queue of the strand they belong to, *)
(* and that strand plucks them out on a thread of its own.  A full queue   *)
(* jams the capturer: reading is put off until a queue is short again.     *)
(*                                                                         *)
(* A packet is two units of the stream, so that reads can split it.  One   *)
(* whose tot_len is zero is excluded: the parser would step over it by     *)
(* nothing and push it until the queue is full, over and over.             *)
(***************************************************************************)
EXTENDS Integers, Sequences, FiniteSets, SequencesExt

CONSTANTS
    Conns,         \* connections that supply traffic
    Stream,        \* what each of them sends, a sequence of units
    Packets,       \* the packets in all the streams
    BufferLen,     \* _buffer_len_for_traffic, in units
    Capacity,      \* _ippkt_queue_capacity
    LowMark,       \* a queue below it lifts the jam (100)
    Threads,       \* _asio_thrd_num
    Ports,         \* how many source ports there are
    Shift          \* what generate_the_port adds, modulo Ports; 0: off

Units == [kind : {"head"}, pkt : Packets, port : 0..(Ports - 1)]
         \cup [kind : {"tail", "junk"}]
Queued == [pkt : Packets, port : 0..(Ports - 1)]
Strands == 0..(Threads - 1)

ASSUME CapturerAssumption ==
    /\ Stream \in [Conns -> Seq(Units)]
    /\ {BufferLen, Capacity, LowMark, Threads, Ports} \subseteq Nat \ {0}
    /\ Shift \in Nat

IsHead(u, n) == u.kind = "head" /\ u.pkt = n

\* the stream is made of packets, each of which is sent once
ASSUME StreamAssumption ==
    \A c \in Conns : \A i \in DOMAIN Stream[c] : Stream[c][i].kind = "head" =>
        /\ i < Len(Stream[c]) => Stream[c][i + 1].kind # "head"
        /\ \A d \in Conns : \A j \in DOMAIN Stream[d] :
               IsHead(Stream[d][j], Stream[c][i].pkt) => d = c /\ j = i

VARIABLES
    wire,      \* units still to be read from the connection
    buf,       \* the used part of _memblock
    phase,     \* what the connection waits for
    parsing,   \* the connection whose buffer is parsed, in a set
    at,        \* units of that buffer passed, i
    sentinel,  \* units of that buffer to discard
    pushed,    \* strands whose queue holds a packet not yet counted
    jam,       \* _jam_control
    queues,    \* _ippkt_queues
    size,      \* _queue_sizes
    hand,      \* the packet a strand has plucked out and not yet counted
    injected   \* what each strand has injected

conns == <<wire, phase>>
parser == <<parsing, at, sentinel, pushed>>
strands == <<hand, injected>>
vars == <<conns, buf, parser, jam, queues, size, strands>>

Init ==
    /\ wire = Stream
    /\ buf = [c \in Conns |-> <<>>]
    /\ phase = [c \in Conns |-> "none"]
    /\ parsing = {} /\ at = 0 /\ sentinel = 0 /\ pushed = {}
    /\ jam = FALSE
    /\ queues = [s \in Strands |-> <<>>]
    /\ size = [s \in Strands |-> 0]
    /\ hand = [s \in Strands |-> <<>>]
    /\ injected = [s \in Strands |-> <<>>]

HandleAccept(c) ==
    /\ phase[c] = "none"
    /\ phase' = [phase EXCEPT ![c] = "reading"]
    /\ UNCHANGED <<wire, buf, parser, jam, queues, size, strands>>

(***************************************************************************)
(* handle_read.  Handlers are serialised by the strand of the capturer.    *)
(***************************************************************************)
Reading(c) == phase[c] = "reading" /\ parsing = {}

NextRead(c, jammed) ==
    phase' = [phase EXCEPT ![c] = IF jammed THEN "waiting" ELSE "reading"]

\* the end of the stream, when all of it is read
HandleEof(c) ==
    /\ Reading(c)
    /\ wire[c] = <<>> /\ Len(buf[c]) < BufferLen
    /\ phase' = [phase EXCEPT ![c] = "closed"]
    /\ buf' = [buf EXCEPT ![c] = <<>>]
    /\ UNCHANGED <<wire, parser, jam, queues, size, strands>>

\* A connection that breaks takes with it what was not read.  The code gets
\* that far if the socket still has a remote end to ask for: remote_endpoint()
\* throws if it has none, and the process ends.
HandleError(c) ==
    /\ Reading(c)
    /\ Len(buf[c]) < BufferLen
    /\ phase' = [phase EXCEPT ![c] = "closed"]
    /\ buf' = [buf EXCEPT ![c] = <<>>]
    /\ wire' = [wire EXCEPT ![c] = <<>>]
    /\ UNCHANGED <<parser, jam, queues, size, strands>>

\* asio answers a read into no space at once, with no bytes
BytesTransferred(c) ==
    LET free == BufferLen - Len(buf[c])
    IN  IF free = 0 THEN {0} ELSE {n \in 1..free : n <= Len(wire[c])}

Received(c, n) ==
    /\ wire' = [wire EXCEPT ![c] = SubSeq(@, n + 1, Len(@))]
    /\ buf' = [buf EXCEPT ![c] = @ \o SubSeq(wire[c], 1, n)]

QueueBelowZero == \E s \in Strands : size[s] < 0
ShortQueue == \E s \in Strands : size[s] < LowMark

\* in a jam the buffer is not parsed, even if the jam is lifted now
HandleReadInJam(c) ==
    /\ Reading(c) /\ jam
    /\ \E n \in BytesTransferred(c) : Received(c, n)
    /\ jam' = ~ShortQueue
    /\ NextRead(c, jam')
    /\ UNCHANGED <<parser, queues, size, strands>>

HandleRead(c) ==
    /\ Reading(c) /\ ~jam
    /\ \E n \in BytesTransferred(c) : Received(c, n)
    /\ parsing' = {c} /\ at' = 0 /\ sentinel' = 0
    /\ UNCHANGED <<phase, pushed, jam, queues, size, strands>>

DelayedRead(c) ==
    /\ phase[c] = "waiting" /\ parsing = {}
    /\ phase' = [phase EXCEPT ![c] = "reading"]
    /\ UNCHANGED <<wire, buf, parser, jam, queues, size, strands>>

(***************************************************************************)
(* parse_buff_and_get_ip_pkts, one unit or packet at a time.               *)
(***************************************************************************)
Scanning(c) == c \in parsing /\ pushed = {}
More(c) == at < Len(buf[c])
WholePacket(c) == at + 1 < Len(buf[c]) /\ buf[c][at + 1].kind = "head"

SkipJunk(c) ==
    /\ Scanning(c) /\ More(c)
    /\ buf[c][at + 1].kind # "head"
    /\ at' = at + 1
    /\ UNCHANGED <<conns, buf, parsing, sentinel, pushed, jam, queues, size, strands>>

\* generate_the_port, written into the buffer
MappedPort(c) == (buf[c][at + 1].port + Shift) % Ports
MapPort(c) == buf' = [buf EXCEPT ![c][at + 1].port = MappedPort(c)]

QueueOf(c) == MappedPort(c) % Threads
Packet(c) == [pkt |-> buf[c][at + 1].pkt, port |-> MappedPort(c)]

Push(c) ==
    /\ Scanning(c) /\ WholePacket(c)
    /\ Len(queues[QueueOf(c)]) < Capacity
    /\ MapPort(c)
    /\ queues' = [queues EXCEPT ![QueueOf(c)] = Append(@, Packet(c))]
    /\ pushed' = {QueueOf(c)}
    /\ UNCHANGED <<conns, parsing, at, sentinel, jam, size, strands>>

CountPushed(c) ==
    /\ c \in parsing
    /\ \E s \in pushed : size' = [size EXCEPT ![s] = @ + 1]
    /\ pushed' = {}
    /\ at' = at + 2 /\ sentinel' = at + 2
    /\ UNCHANGED <<conns, buf, parsing, jam, queues, strands>>

\* the packets found so far leave the buffer
DiscardedAll(c) == <<>>
Discarded(c) == SubSeq(buf[c], sentinel + 1, Len(buf[c]))

QueueFull(c) ==
    /\ Scanning(c) /\ WholePacket(c)
    /\ Len(queues[QueueOf(c)]) = Capacity
    /\ jam' = TRUE
    /\ buf' = [buf EXCEPT ![c] = SubSeq([@ EXCEPT ![at + 1].port = MappedPort(c)],
                                        sentinel + 1, Len(@))]
    /\ parsing' = {}
    /\ NextRead(c, TRUE)
    /\ UNCHANGED <<wire, at, sentinel, pushed, queues, size, strands>>

EndParse(c) ==
    /\ Scanning(c)
    /\ More(c) => buf[c][at + 1].kind = "head" /\ ~WholePacket(c)
    /\ buf' = [buf EXCEPT ![c] = Discarded(c)]
    /\ parsing' = {}
    /\ NextRead(c, jam)
    /\ UNCHANGED <<wire, at, sentinel, pushed, jam, queues, size, strands>>

(***************************************************************************)
(* pluck_out_and_inject_realtime_ippkts, on the strand of the sessions.    *)
(***************************************************************************)
Pop(s) ==
    /\ hand[s] = <<>> /\ queues[s] # <<>>
    /\ hand' = [hand EXCEPT ![s] = <<Head(queues[s])>>]
    /\ queues' = [queues EXCEPT ![s] = Tail(@)]
    /\ UNCHANGED <<conns, buf, parser, jam, size, injected>>

InjectUncounted(s) ==
    /\ hand[s] # <<>>
    /\ injected' = [injected EXCEPT ![s] = @ \o hand[s]]
    /\ hand' = [hand EXCEPT ![s] = <<>>]
    /\ UNCHANGED <<conns, buf, parser, jam, queues, size>>

Inject(s) ==
    /\ hand[s] # <<>>
    /\ injected' = [injected EXCEPT ![s] = @ \o hand[s]]
    /\ hand' = [hand EXCEPT ![s] = <<>>]
    /\ size' = [size EXCEPT ![s] = @ - 1]
    /\ UNCHANGED <<conns, buf, parser, jam, queues>>

-----------------------------------------------------------------------------
Parse(c) == SkipJunk(c) \/ Push(c) \/ CountPushed(c) \/ QueueFull(c) \/ EndParse(c)

\* all traffic has come and is injected
Idle ==
    /\ \A c \in Conns : phase[c] = "closed"
    /\ \A s \in Strands : queues[s] = <<>> /\ hand[s] = <<>>
    /\ UNCHANGED vars

Next ==
    \/ \E c \in Conns : \/ HandleAccept(c)
                        \/ HandleRead(c) \/ HandleReadInJam(c) \/ HandleEof(c)
                        \/ HandleError(c) \/ DelayedRead(c)
                        \/ Parse(c)
    \/ \E s \in Strands : Pop(s) \/ Inject(s)
    \/ Idle

Spec == Init /\ [][Next]_vars

(***************************************************************************)
(* Handlers that are ready are run, timers expire, strands keep plucking.  *)
(* A connection need not be made, need not be closed, and may break.       *)
(***************************************************************************)
Fairness ==
    /\ \A c \in Conns : /\ SF_vars(HandleRead(c) \/ HandleReadInJam(c))
                        /\ SF_vars(DelayedRead(c))
                        /\ WF_vars(Parse(c))
    /\ \A s \in Strands : WF_vars(Pop(s)) /\ WF_vars(Inject(s))

FairSpec == Spec /\ Fairness

-----------------------------------------------------------------------------
TypeOK ==
    /\ wire \in [Conns -> Seq(Units)]
    /\ buf \in [Conns -> Seq(Units)]
    /\ \A c \in Conns : Len(buf[c]) <= BufferLen
    /\ phase \in [Conns -> {"none", "reading", "waiting", "closed"}]
    /\ parsing \subseteq Conns /\ Cardinality(parsing) <= 1
    /\ at \in Nat /\ sentinel \in 0..at /\ pushed \subseteq Strands
    /\ jam \in BOOLEAN
    /\ queues \in [Strands -> Seq(Queued)]
    /\ \A s \in Strands : Len(queues[s]) <= Capacity
    /\ size \in [Strands -> Int]
    /\ hand \in [Strands -> Seq(Queued)]
    /\ injected \in [Strands -> Seq(Queued)]

(***************************************************************************)
(* A counter is off by the packet its consumer has plucked out and the one *)
(* its producer has pushed, never by more: so a jam is lifted when a queue *)
(* is short, though the counter may be below zero for a moment.            *)
(***************************************************************************)
Uncounted(s) == IF s \in pushed THEN 1 ELSE 0

SizeAccounts ==
    \A s \in Strands : size[s] = Len(queues[s]) + Len(hand[s]) - Uncounted(s)

\* The counters account for the queues, which stay within their capacity
\* (realtime_capturer.cpp, push and pop), beside the types.
Counters == TypeOK /\ SizeAccounts

\* the units of a connection that have not been passed on, in a buffer or not
Rest(c) ==
    (IF c \in parsing
     THEN SubSeq(buf[c], (IF pushed = {} THEN sentinel ELSE at + 2) + 1, Len(buf[c]))
     ELSE buf[c]) \o wire[c]

Passed(s) == injected[s] \o hand[s] \o queues[s]

\* where a packet is, among those of a connection and those of the strands
Ahead(c, n) == {i \in 1..Len(Rest(c)) : IsHead(Rest(c)[i], n)}
Behind(n) == UNION {{s} \X {i \in 1..Len(Passed(s)) : Passed(s)[i].pkt = n} :
                    s \in Strands}

\* where the packets of a stream start
Heads(c) == {i \in 1..Len(Stream[c]) : Stream[c][i].kind = "head"}

OncePerPacket ==
    \A c \in Conns : \A i \in Heads(c) :
        LET n == Stream[c][i].pkt
        IN  IF phase[c] = "closed" THEN Cardinality(Behind(n)) <= 1
            ELSE Cardinality(Ahead(c, n)) + Cardinality(Behind(n)) = 1

InOrder ==
    \A c \in Conns, s \in Strands : \A p, q \in Heads(c) :
        \A j, k \in 1..Len(Passed(s)) :
            /\ j < k
            /\ Passed(s)[j].pkt = Stream[c][p].pkt /\ Passed(s)[k].pkt = Stream[c][q].pkt
            => p < q

(***************************************************************************)
(* A packet is neither lost nor injected twice, whatever reads split it    *)
(* and however often its queue is full: as long as its connection is open  *)
(* it is in one place, and in the end it has been pushed once at most.  A  *)
(* strand is given the packets of a connection in the order in which they  *)
(* were captured.                                                          *)
(***************************************************************************)
Conserved == OncePerPacket /\ InOrder

(***************************************************************************)
(* What makes these inductive.  A connection is parsed by one handler at a *)
(* time, which is within its buffer and has passed no packet by.           *)
(***************************************************************************)
ParserInv ==
    /\ \A c, d \in parsing : c = d
    /\ \A s, r \in pushed : s = r
    /\ pushed # {} => parsing # {}
    /\ \A c \in parsing :
          /\ phase[c] = "reading"
          /\ at <= Len(buf[c])
          /\ pushed # {} => at + 2 <= Len(buf[c])
          /\ pushed = {} => \A i \in (sentinel + 1)..at : buf[c][i].kind # "head"

HandsShort == \A s \in Strands : Len(hand[s]) <= 1

CounterInv == Counters /\ ParserInv /\ HandsShort

\* What is left of a stream is its end, but for the ports that are mapped; ...
Alike(u, v) == u.kind = v.kind /\ (u.kind = "head" => u.pkt = v.pkt)
Gone(c) == Len(Stream[c]) - Len(Rest(c))
RestIsEnd ==
    \A c \in Conns :
        /\ Len(Rest(c)) <= Len(Stream[c])
        /\ \A i \in 1..Len(Rest(c)) : Alike(Rest(c)[i], Stream[c][Gone(c) + i])

\* ... what the strands were given has left it, ...
PassedIsGone ==
    \A s \in Strands : \A i \in 1..Len(Passed(s)) :
        \E c \in Conns : \E p \in Heads(c) :
            p <= Gone(c) /\ Stream[c][p].pkt = Passed(s)[i].pkt

\* ... and they were given all that has left it, ...
GoneIsPassed ==
    \A c \in Conns : \A p \in Heads(c) : phase[c] # "closed" /\ p <= Gone(c) =>
        \E s \in Strands : \E i \in 1..Len(Passed(s)) : Passed(s)[i].pkt = Stream[c][p].pkt

\* ... once.
PassedOnce ==
    \A s, r \in Strands : \A i \in 1..Len(Passed(s)), j \in 1..Len(Passed(r)) :
        Passed(s)[i].pkt = Passed(r)[j].pkt => s = r /\ i = j

PassedInv == RestIsEnd /\ PassedIsGone /\ GoneIsPassed /\ PassedOnce /\ InOrder

CapturerInv == CounterInv /\ PassedInv

(***************************************************************************)
(* Traffic that was sent is read in the end unless its connection breaks,  *)
(* jam or not: the delayed read finds a short queue and lifts the jam, for *)
(* itself or for another.                                                  *)
(***************************************************************************)
Drained == \A c \in Conns : phase[c] # "none" ~> wire[c] = <<>>

=============================================================================
