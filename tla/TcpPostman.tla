----------------------------- MODULE TcpPostman -----------------------------
(***************************************************************************)
(* The receiving side of tcp_postman: the server's packets come as bytes   *)
(* of a TCP connection that a sniffer on the server's machine makes.  One  *)
(* thread accepts a connection, reads it without blocking, finds the       *)
(* packets in a buffer and hands them to push_recved_ippkt (module         *)
(* Postman), until the peer is gone or says nothing for five seconds.      *)
(*                                                                         *)
(* A unit of the stream is as long as the headers of a packet.             *)
(*                                                                         *)
(* Its names are not those of Postman, so that one module can prove about  *)
(* both.                                                                   *)
(***************************************************************************)
EXTENDS SequencesExt, Selections

CONSTANTS
    Feeds,      \* what each connection brings, one after the other
    Packets,    \* the packets in them
    BufferLen,  \* _buffer_block_len
    LookAhead   \* units that must be there in header-only mode, 100 bytes

\* Excluded is a packet whose tot_len is zero, as a sniffer sees those that the
\* network card will segment: the parser of whole packets would step over it
\* by nothing, and push it for ever.
Units == [kind : {"head"}, pkt : Packets, len : Nat \ {0}, ours : BOOLEAN]
         \cup [kind : {"body", "junk"}]
OurHeads == {u \in Units : u.kind = "head" /\ u.ours}
Conns == 1..Len(Feeds)
NoConn == 0

(***************************************************************************)
(* The packets are sent whole, as the hint to the peer says they must be   *)
(* ("-s 0"), so none starts inside another; of one that is sent without    *)
(* its data, as in header-only mode, len is never looked at.               *)
(***************************************************************************)
Apart(units) ==
    \A i, j \in 1..Len(units) :
        i < j /\ {units[i], units[j]} \subseteq OurHeads => j >= i + units[i].len

Fed ==
    /\ Feeds \in Seq(Seq(Units)) /\ \A c \in Conns : Apart(Feeds[c])
    /\ {BufferLen, LookAhead} \subseteq Nat \ {0}

ASSUME TcpPostmanAssumption == Fed

VARIABLES
    hdrOnly,   \* _hdr_only
    arrived,   \* connections that have been made
    wire,      \* units of each connection that have not been read
    peer,      \* "here", "closed", or "reset" and not yet noticed
    acceptedConns, \* connections that have been accepted
    conn,      \* the one that is open, _conn_fd
    fds,       \* which of _listening_fd and _conn_fd are open
    thread,    \* where the receiving thread is
    errno,     \* of that thread
    silent,    \* is _last_recorded_recv_time five seconds ago?
    buf,       \* the used part of _buffer_block
    at,        \* units of it passed, i
    sentinel,  \* units of it to discard
    pushed,    \* packets handed to push_recved_ippkt, with their connection
    exit       \* how far the destructors are

network == <<arrived, wire, peer>>
socket == <<acceptedConns, conn, fds>>
scan == <<at, sentinel>>
tcpVars == <<hdrOnly, network, socket, thread, errno, silent, buf, scan, pushed, exit>>

TcpInit ==
    /\ hdrOnly \in BOOLEAN
    /\ arrived = 0 /\ wire = Feeds /\ peer = [c \in Conns |-> "here"]
    /\ acceptedConns = 0 /\ conn = NoConn /\ fds = {"listening"}
    /\ thread = "testing" /\ errno = "none" /\ silent = FALSE
    /\ buf = <<>> /\ at = 0 /\ sentinel = 0
    /\ pushed = <<>>
    /\ exit = "no"

Done == exit = "joining"

(***************************************************************************)
(* recv_thrd_entry and the head of recv_impl.  While ~postman has begun    *)
(* and not yet set the flag, the call is one of a pure virtual function.   *)
(***************************************************************************)
TestsFlagAnyway ==
    /\ thread = "testing"
    /\ thread' = IF exit = "base" THEN "aborted"
                 ELSE IF conn = NoConn THEN "accept" ELSE "reading"
    /\ UNCHANGED <<hdrOnly, network, socket, errno, silent, buf, scan, pushed, exit>>

TestsFlag ==
    /\ thread = "testing"
    /\ thread' = IF Done THEN "ended"
                 ELSE IF exit = "base" THEN "aborted"
                 ELSE IF conn = NoConn THEN "accept" ELSE "reading"
    /\ UNCHANGED <<hdrOnly, network, socket, errno, silent, buf, scan, pushed, exit>>

\* accept() waits, even if its socket is closed meanwhile
EntersAccept ==
    /\ thread = "accept" /\ "listening" \in fds
    /\ thread' = "accepting"
    /\ UNCHANGED <<hdrOnly, network, socket, errno, silent, buf, scan, pushed, exit>>

AcceptFails ==
    /\ \/ thread = "accept" /\ "listening" \notin fds
       \/ thread = "accepting"
    /\ errno' = "other"
    /\ thread' = "testing"
    /\ UNCHANGED <<hdrOnly, network, socket, silent, buf, scan, pushed, exit>>

Accepts ==
    /\ thread = "accepting" /\ acceptedConns < arrived
    /\ acceptedConns' = acceptedConns + 1
    /\ conn' = acceptedConns' /\ fds' = fds \cup {"conn"}
    /\ silent' = FALSE
    /\ thread' = "reading"
    /\ UNCHANGED <<hdrOnly, network, errno, buf, scan, pushed, exit>>

(***************************************************************************)
(* save_peer_response_to_buffer.                                           *)
(***************************************************************************)
Free == BufferLen - Len(buf)
Readable == thread = "reading" /\ "conn" \in fds /\ peer[conn] # "reset"

Reads ==
    /\ Readable
    /\ \E n \in 1..Free :
           /\ n <= Len(wire[conn])
           /\ buf' = buf \o SubSeq(wire[conn], 1, n)
           /\ wire' = [wire EXCEPT ![conn] = SubSeq(@, n + 1, Len(@))]
    /\ thread' = "parsing" /\ at' = 0 /\ sentinel' = 0
    /\ UNCHANGED <<hdrOnly, arrived, peer, socket, errno, silent, pushed, exit>>

\* what errno is after a read that brings nothing: one that returns zero,
\* at the end of the stream or without room, does not set it
ErrnoAfterRead ==
    IF "conn" \notin fds \/ peer[conn] = "reset" THEN {"other"}
    ELSE IF Free = 0 \/ (wire[conn] = <<>> /\ peer[conn] = "closed") THEN {errno}
    ELSE {"again"}

GivesUpOnErrorOnly(e) == e # "again"
GivesUp(e) == silent \/ e # "again"

ReadsNothing ==
    /\ thread = "reading"
    /\ \E e \in ErrnoAfterRead :
           /\ ~GivesUp(e)
           /\ errno' = e
    /\ thread' = "testing"
    /\ UNCHANGED <<hdrOnly, network, socket, silent, buf, scan, pushed, exit>>

\* the hint that is written to the peer may fail, too
Quits ==
    /\ thread = "reading"
    /\ \E e \in ErrnoAfterRead :
           /\ GivesUp(e)
           /\ errno' \in IF silent THEN {e} ELSE {e, "other"}
    /\ conn' = NoConn /\ fds' = fds \ {"conn"}
    /\ buf' = <<>>
    /\ thread' = "testing"
    /\ UNCHANGED <<hdrOnly, network, acceptedConns, silent, scan, pushed, exit>>

(***************************************************************************)
(* parse_buffer_and_get_all_ip_pkts, one unit or packet at a time.         *)
(***************************************************************************)
Here == buf[at + 1]
Left == Len(buf) - at
Headed == thread = "parsing" /\ Left > 0 /\ Here.kind = "head"
Enough == IF hdrOnly THEN Left >= LookAhead ELSE Left >= Here.len

SkipsJunk ==
    /\ thread = "parsing" /\ Left > 0
    /\ Here.kind # "head" \/ (Headed /\ Enough /\ ~Here.ours)
    /\ at' = at + 1
    /\ UNCHANGED <<hdrOnly, network, socket, thread, errno, silent, buf, sentinel, pushed, exit>>

FindsPacket ==
    /\ Headed /\ Enough /\ Here.ours
    /\ pushed' = IF Done THEN pushed ELSE Append(pushed, <<conn, Here.pkt>>)
    /\ at' = at + (IF hdrOnly THEN 1 ELSE Here.len)
    /\ sentinel' = at'
    /\ UNCHANGED <<hdrOnly, network, socket, thread, errno, silent, buf, exit>>

EndsParsingInPlace ==
    /\ thread = "parsing"
    /\ Left > 0 => Headed /\ ~Enough
    /\ silent' = FALSE
    /\ thread' = "reading"
    /\ UNCHANGED <<hdrOnly, network, socket, errno, buf, scan, pushed, exit>>

EndsParsing ==
    /\ thread = "parsing"
    /\ Left > 0 => Headed /\ ~Enough
    /\ buf' = SubSeq(buf, sentinel + 1, Len(buf))
    /\ silent' = FALSE
    /\ thread' = "reading"
    /\ UNCHANGED <<hdrOnly, network, socket, errno, scan, pushed, exit>>

(***************************************************************************)
(* The sniffer on the other machine, and time.                             *)
(***************************************************************************)
Connects ==
    /\ arrived < Len(Feeds)
    /\ arrived' = arrived + 1
    /\ UNCHANGED <<hdrOnly, wire, peer, socket, thread, errno, silent, buf, scan, pushed, exit>>

PeerCloses(c) ==
    /\ c <= arrived /\ peer[c] = "here"
    /\ peer' = [peer EXCEPT ![c] = "closed"]
    /\ UNCHANGED <<hdrOnly, arrived, wire, socket, thread, errno, silent, buf, scan, pushed, exit>>

PeerResets(c) ==
    /\ c <= arrived /\ peer[c] = "here"
    /\ peer' = [peer EXCEPT ![c] = "reset"]
    /\ wire' = [wire EXCEPT ![c] = <<>>]
    /\ UNCHANGED <<hdrOnly, arrived, socket, thread, errno, silent, buf, scan, pushed, exit>>

FiveSecondsPass ==
    /\ conn # NoConn /\ ~silent
    /\ silent' = TRUE
    /\ UNCHANGED <<hdrOnly, network, socket, thread, errno, buf, scan, pushed, exit>>

(***************************************************************************)
(* ~tcp_postman closes the sockets under the thread; ~postman then sets    *)
(* the flag and joins.                                                     *)
(***************************************************************************)
ExitStep(from, to) == exit = from /\ exit' = to

ClosesSockets ==
    /\ ExitStep("no", "closed")
    /\ fds' = {}
    /\ UNCHANGED <<hdrOnly, network, acceptedConns, conn, thread, errno, silent, buf, scan, pushed>>

BecomesBase ==
    /\ ExitStep("closed", "base") \/ ExitStep("base", "joining")
    /\ UNCHANGED <<hdrOnly, network, socket, thread, errno, silent, buf, scan, pushed>>

-----------------------------------------------------------------------------
Thread == TestsFlag \/ EntersAccept \/ AcceptFails \/ Accepts \/ Reads \/ ReadsNothing
          \/ Quits \/ SkipsJunk \/ FindsPacket \/ EndsParsing
Sniffer == Connects \/ \E c \in Conns : PeerCloses(c) \/ PeerResets(c)
TcpExit == ClosesSockets \/ BecomesBase

Blocked == thread = "accepting" /\ acceptedConns = arrived
TcpOver ==
    /\ thread \in {"ended", "aborted"} \/ (Blocked /\ Done)
    /\ UNCHANGED tcpVars

ThreadAborted == thread = "aborted"

TcpNext ==
    \/ ~ThreadAborted /\ (Thread \/ Sniffer \/ FiveSecondsPass \/ TcpExit)
    \/ TcpOver

TcpSpec == TcpInit /\ [][TcpNext]_tcpVars

(***************************************************************************)
(* The thread runs on unless it waits in accept, which need not fail; what *)
(* has been sent arrives; time passes; a destructor goes on.  Nobody has   *)
(* to connect, to close, or to end the process.                            *)
(***************************************************************************)
TcpFairness ==
    /\ WF_tcpVars(TestsFlag \/ EntersAccept \/ Accepts)
    /\ WF_tcpVars(thread = "accept" /\ AcceptFails)
    /\ WF_tcpVars(ReadsNothing \/ Quits)
    /\ SF_tcpVars(Reads)
    /\ WF_tcpVars(SkipsJunk \/ FindsPacket \/ EndsParsing)
    /\ WF_tcpVars(~ThreadAborted /\ FiveSecondsPass)
    /\ WF_tcpVars(~ThreadAborted /\ BecomesBase)

TcpFairSpec == TcpSpec /\ TcpFairness

-----------------------------------------------------------------------------
SocketTyped ==
    /\ arrived \in 0..Len(Feeds) /\ acceptedConns \in 0..arrived
    /\ conn \in {NoConn, acceptedConns}
    /\ wire \in [Conns -> Seq(Units)]
    /\ peer \in [Conns -> {"here", "closed", "reset"}]
    /\ fds \subseteq {"listening", "conn"}

ThreadTyped ==
    /\ hdrOnly \in BOOLEAN /\ silent \in BOOLEAN
    /\ thread \in {"testing", "accept", "accepting", "reading", "parsing",
                   "ended", "aborted"}
    /\ thread \in {"reading", "parsing"} => conn # NoConn
    /\ thread \in {"accept", "accepting"} => conn = NoConn
    /\ errno \in {"none", "again", "other"}
    /\ exit \in {"no", "closed", "base", "joining"}

BufferTyped ==
    /\ buf \in Seq(Units) /\ Len(buf) <= BufferLen
    /\ at \in Nat /\ sentinel \in 0..at
    /\ thread = "parsing" => at <= Len(buf)
    /\ pushed \in Seq(Conns \X Packets)

TcpTypeOK == SocketTyped /\ ThreadTyped /\ BufferTyped

\* the server's packets, in order, in a sequence of units
PacketsOf(units) ==
    LET heads == Selected(units, OurHeads)
    IN  [i \in 1..Len(heads) |-> heads[i].pkt]

PushedFrom(c) ==
    LET from == Selected(pushed, {c} \X Packets)
    IN  [i \in 1..Len(from) |-> from[i][2]]

Unparsed == SubSeq(buf, (IF thread = "parsing" THEN at ELSE 0) + 1, Len(buf))

(***************************************************************************)
(* However reads cut the stream, the packets of a connection are handed on *)
(* in order and once each; while it is open none is lost: the rest are in  *)
(* the buffer or still to be read.  Nothing is left over from an earlier   *)
(* connection.                                                             *)
(***************************************************************************)
Plucked ==
    \A c \in Conns :
        /\ IsPrefix(PushedFrom(c), PacketsOf(Feeds[c]))
        /\ c = conn /\ ~Done /\ peer[c] # "reset" =>
               (PushedFrom(c) \o PacketsOf(Unparsed)) \o PacketsOf(wire[c])
                   = PacketsOf(Feeds[c])

\* The buffer holds what is between the connection and the packets that were
\* handed on (tcp_postman.cpp), beside the types.
BufferKept == TcpTypeOK /\ Plucked

(***************************************************************************)
(* What makes it inductive: nothing is buffered without a connection, of   *)
(* one that was not accepted nothing was taken, what is held has no packet *)
(* inside another and, even of one that was reset, continues what was      *)
(* handed on, and what was passed behind the last packet is no packet.     *)
(***************************************************************************)
Held ==
    IF conn = NoConn THEN buf = <<>>
    ELSE /\ Apart(buf \o wire[conn])
         /\ peer[conn] = "reset" => wire[conn] = <<>>
         /\ ~Done => IsPrefix(PushedFrom(conn) \o PacketsOf(Unparsed), PacketsOf(Feeds[conn]))

Untaken ==
    \A c \in Conns : c > acceptedConns =>
        /\ PushedFrom(c) = <<>>
        /\ wire[c] = (IF peer[c] = "reset" THEN <<>> ELSE Feeds[c])

PassedOver == thread = "parsing" => PacketsOf(SubSeq(buf, sentinel + 1, at)) = <<>>

ReceiverInv == BufferKept /\ Held /\ Untaken /\ PassedOver

(***************************************************************************)
(* A connection is given up when its peer is gone, although a stale errno  *)
(* hides the end of the stream; and a buffer that is full of what is no    *)
(* packet, or of the start of one that is too long, is emptied with it.    *)
(***************************************************************************)
Released ==
    /\ \A c \in Conns : conn = c /\ peer[c] # "here" ~> conn # c \/ Done \/ ThreadAborted
    /\ Len(buf) = BufferLen ~> (Len(buf) < BufferLen \/ Done \/ ThreadAborted)

(***************************************************************************)
(* The thread ends with the postman, unless it waits in accept for a       *)
(* connection that nobody makes: closing the socket does not wake it.      *)
(***************************************************************************)
TcpReceiverEnds == Done ~> thread = "ended" \/ Blocked

=============================================================================
