------------------------------ MODULE Postman ------------------------------
(***************************************************************************)
(* The postman, between the strands and the network.  A receiving thread   *)
(* sniffs packets, copies each to the cascade and pushes it to the queue   *)
(* of its strand, waiting for room; a sending thread pops the queues the   *)
(* strands push to, one after the other, and writes to a raw socket.       *)
(*                                                                         *)
(* The counters of the queues are never read and are left out.             *)
(***************************************************************************)
EXTENDS Cascade, SequencesExt, Selections

CONSTANTS
    Strands,   \* 0.._asio_thrd_num - 1
    Dest,      \* the strand of each packet that is sniffed, in order
    ToSend,    \* bound: how many packets each strand has to send
    Capacity   \* QueueCapacity

ASSUME PostmanAssumption ==
    /\ IsFiniteSet(Strands) /\ Strands # {}
    /\ Strands = 0..(Cardinality(Strands) - 1)
    /\ Dest \in Seq(Strands)
    /\ ToSend \in [Strands -> Nat]
    /\ Capacity \in Nat \ {0}

VARIABLES
    receiver,   \* where the receiving thread is
    sniffed,    \* packets sniffed so far; the last one is in its hand
    recvQueues, \* _recv_queues
    received,   \* what recv() has given to each strand
    sndQueues,  \* _snd_queues
    sending,    \* the packet in send_core's hand, of queue `turn`
    turn,       \* i of send_impl, or Ended
    taken,      \* packets of each strand that send() took
    sent,       \* packets on the wire
    closing,    \* _done_recv_thrd and _done_snd_thrd
    running     \* do the strands still run?

receiving == <<receiver, sniffed, recvQueues, received>>
sendingSide == <<sndQueues, sending, turn, taken, sent>>
vars == <<cascade, receiving, sendingSide, closing, running>>

EndOfRound == Cardinality(Strands)
Ended == -1

Init ==
    /\ CascadeInit
    /\ receiver = "testing" /\ sniffed = 0
    /\ recvQueues = [s \in Strands |-> <<>>]
    /\ received = [s \in Strands |-> <<>>]
    /\ sndQueues = [s \in Strands |-> <<>>]
    /\ sending = <<>> /\ turn = 0
    /\ taken = [s \in Strands |-> 0] /\ sent = <<>>
    /\ closing = FALSE /\ running = TRUE

(***************************************************************************)
(* The receiving thread tests its flag, reads, and hands a packet of the   *)
(* server to push_recved_ippkt.  A read waits for some packet, which need  *)
(* not be one of the server's.                                             *)
(***************************************************************************)
ReadAnyway ==
    /\ receiver = "testing"
    /\ receiver' = "reading"
    /\ UNCHANGED <<cascade, sniffed, recvQueues, received, sendingSide, closing, running>>

Read ==
    /\ receiver = "testing" /\ ~closing
    /\ receiver' = "reading"
    /\ UNCHANGED <<cascade, sniffed, recvQueues, received, sendingSide, closing, running>>

EndReceiver ==
    /\ receiver = "testing" /\ closing
    /\ receiver' = "ended"
    /\ UNCHANGED <<cascade, sniffed, recvQueues, received, sendingSide, closing, running>>

Sniff ==
    /\ receiver = "reading" /\ sniffed < Len(Dest)
    /\ sniffed' = sniffed + 1
    /\ receiver' = "copying"
    /\ UNCHANGED <<cascade, recvQueues, received, sendingSide, closing, running>>

NotOurs ==
    /\ receiver = "reading"
    /\ receiver' = "testing"
    /\ UNCHANGED <<cascade, sniffed, recvQueues, received, sendingSide, closing, running>>

CopyToCascade ==
    /\ receiver = "copying" /\ ~closing
    /\ PushBack(sniffed)
    /\ receiver' = "copied"
    /\ UNCHANGED <<sniffed, recvQueues, received, sendingSide, closing, running>>

\* a thread that is exiting drops the packet
DropAtExit ==
    /\ receiver = "copying" /\ closing
    /\ receiver' = "testing"
    /\ UNCHANGED <<cascade, sniffed, recvQueues, received, sendingSide, closing, running>>

EnqueueOrDrop ==
    /\ receiver = "copied" /\ producer = "idle"
    /\ recvQueues' = [recvQueues EXCEPT ![Dest[sniffed]] =
                          IF Len(@) < Capacity THEN Append(@, sniffed) ELSE @]
    /\ receiver' = "testing"
    /\ UNCHANGED <<cascade, sniffed, received, sendingSide, closing, running>>

\* spins until there is room, whether or not the thread is to end
Enqueue ==
    /\ receiver = "copied" /\ producer = "idle"
    /\ Len(recvQueues[Dest[sniffed]]) < Capacity
    /\ recvQueues' = [recvQueues EXCEPT ![Dest[sniffed]] = Append(@, sniffed)]
    /\ receiver' = "testing"
    /\ UNCHANGED <<cascade, sniffed, received, sendingSide, closing, running>>

\* the rest of push_back belongs to the receiving thread
CascadePush ==
    /\ Count \/ Notify
    /\ UNCHANGED <<receiving, sendingSide, closing, running>>

(***************************************************************************)
(* The strands: recv and send.                                             *)
(***************************************************************************)
Recv(s) ==
    /\ running /\ recvQueues[s] # <<>>
    /\ received' = [received EXCEPT ![s] = Append(@, Head(recvQueues[s]))]
    /\ recvQueues' = [recvQueues EXCEPT ![s] = Tail(@)]
    /\ UNCHANGED <<cascade, receiver, sniffed, sendingSide, closing, running>>

Send(s) ==
    /\ running /\ taken[s] < ToSend[s]
    /\ Len(sndQueues[s]) < Capacity
    /\ sndQueues' = [sndQueues EXCEPT ![s] = Append(@, taken[s] + 1)]
    /\ taken' = [taken EXCEPT ![s] = @ + 1]
    /\ UNCHANGED <<cascade, receiving, sending, turn, sent, closing, running>>

(***************************************************************************)
(* The sending thread: send_impl empties one queue after the other, and    *)
(* the flag is tested between two rounds.                                  *)
(***************************************************************************)
PopToSend ==
    /\ turn \in Strands /\ sending = <<>>
    /\ sndQueues[turn] # <<>>
    /\ sending' = <<Head(sndQueues[turn])>>
    /\ sndQueues' = [sndQueues EXCEPT ![turn] = Tail(@)]
    /\ UNCHANGED <<cascade, receiving, turn, taken, sent, closing, running>>

SendToTwice ==
    /\ sending # <<>>
    /\ sent' = IF closing THEN sent ELSE Append(sent, <<turn, sending[1]>>)
    /\ UNCHANGED <<cascade, receiving, sndQueues, sending, turn, taken, closing, running>>

\* the destructor closes the socket at once; sendto fails from then on
SendTo ==
    /\ sending # <<>>
    /\ sent' = IF closing THEN sent ELSE Append(sent, <<turn, sending[1]>>)
    /\ sending' = <<>>
    /\ UNCHANGED <<cascade, receiving, sndQueues, turn, taken, closing, running>>

NextQueueRestarts ==
    /\ turn \in Strands /\ sending = <<>> /\ sndQueues[turn] = <<>>
    /\ turn' = EndOfRound
    /\ UNCHANGED <<cascade, receiving, sndQueues, sending, taken, sent, closing, running>>

NextQueue ==
    /\ turn \in Strands /\ sending = <<>> /\ sndQueues[turn] = <<>>
    /\ turn' = turn + 1
    /\ UNCHANGED <<cascade, receiving, sndQueues, sending, taken, sent, closing, running>>

NextRound ==
    /\ turn = EndOfRound
    /\ turn' = IF closing THEN Ended ELSE 0
    /\ UNCHANGED <<cascade, receiving, sndQueues, sending, taken, sent, closing, running>>

(***************************************************************************)
(* The end of the process: one destructor after the other, in whatever     *)
(* order the objects are destroyed; each waits for its threads.            *)
(***************************************************************************)
Joined == /\ closing => receiver = "ended" /\ turn = Ended
          /\ done => forwarder = "ended"

StopStrands ==
    /\ Joined
    /\ running /\ running' = FALSE
    /\ UNCHANGED <<cascade, receiving, sendingSide, closing>>

Close ==
    /\ Joined
    /\ ~closing /\ closing' = TRUE
    /\ UNCHANGED <<cascade, receiving, sendingSide, running>>

StopCascade ==
    /\ Joined
    /\ Stop
    /\ UNCHANGED <<receiving, sendingSide, closing, running>>

CascadeThread ==
    /\ Forwarder
    /\ UNCHANGED <<receiving, sendingSide, closing, running>>

FifoReader ==
    /\ Environment
    /\ UNCHANGED <<receiving, sendingSide, closing, running>>

-----------------------------------------------------------------------------
Receiver == Read \/ EndReceiver \/ Sniff \/ NotOurs \/ CopyToCascade \/ DropAtExit \/ Enqueue
            \/ CascadePush
Sender == PopToSend \/ SendTo \/ NextQueue \/ NextRound
Exit == StopStrands \/ Close \/ StopCascade
Aborted == forwarder = "aborted"
Over == (Aborted \/ closing) /\ UNCHANGED vars

Next ==
    \/ ~Aborted /\ \/ Receiver \/ Sender \/ CascadeThread \/ FifoReader \/ Exit
                   \/ \E s \in Strands : Recv(s) \/ Send(s)
    \/ Over

Spec == Init /\ [][Next]_vars

(***************************************************************************)
(* The three threads run, and so does each strand until it is stopped.     *)
(* The packets of other programs keep a read from waiting for ever; nobody *)
(* has to read the FIFO, and the process need not end.                     *)
(***************************************************************************)
Fairness ==
    /\ WF_vars(~Aborted /\ Receiver)
    /\ WF_vars(~Aborted /\ Sender)
    /\ WF_vars(~Aborted /\ CascadeThread)
    /\ \A s \in Strands : WF_vars(~Aborted /\ Recv(s))

FairSpec == Spec /\ Fairness

-----------------------------------------------------------------------------
TypeOK ==
    /\ Len(blocks) <= QueueLen /\ count \in Int
    /\ producer \in {"idle", "counting", "notifying"}
    /\ Len(held) <= 1 /\ (held # <<>> <=> forwarder \in {"popped", "writing", "aborted"})
    /\ receiver \in {"testing", "reading", "copying", "copied", "ended"}
    /\ sniffed \in 0..Len(Dest)
    /\ \A s \in Strands : Len(recvQueues[s]) <= Capacity /\ Len(sndQueues[s]) <= Capacity
    /\ Len(sending) <= 1
    /\ turn \in {Ended, EndOfRound} \cup Strands
    /\ \A s \in Strands : taken[s] \in 0..ToSend[s]
    /\ {done, closing, running} \subseteq BOOLEAN

\* What the cascade counts, loses and forwards adds up (cascade.cpp,
\* push_back and run), beside the types.
Accounts == TypeOK /\ CountAccounts /\ OneLostPerReader

(***************************************************************************)
(* A strand is given the packets sniffed for it, once and in order: all    *)
(* but those in its queue and the one in the hand of the receiving thread, *)
(* until the process ends.                                                 *)
(***************************************************************************)
UpTo(n) == [i \in 1..n |-> i]
SniffedFor(s) == Selected(UpTo(sniffed), {i \in DOMAIN Dest : Dest[i] = s})
InHandFor(s) == IF receiver \in {"copying", "copied"} /\ Dest[sniffed] = s
                THEN <<sniffed>> ELSE <<>>

AllReceived(s) == received[s] \o recvQueues[s] \o InHandFor(s) = SniffedFor(s)

ReceivedInOrder ==
    \A s \in Strands : /\ IsPrefix(received[s] \o recvQueues[s], SniffedFor(s))
                       /\ ~closing => AllReceived(s)

(***************************************************************************)
(* The packets of a strand go out once each, in the order in which it sent *)
(* them, and none that send() took is lost until the process ends.         *)
(***************************************************************************)
SentBy(s) == LET out == Selected(sent, {s} \X Nat)
             IN  [i \in 1..Len(out) |-> out[i][2]]
BeingSent(s) == IF turn = s THEN sending ELSE <<>>

SentInOrder ==
    \A s \in Strands :
        /\ IsPrefix(SentBy(s), UpTo(taken[s]))
        /\ ~closing => SentBy(s) \o BeingSent(s) \o sndQueues[s] = UpTo(taken[s])

\* What the properties above rest on: the types of the queues, a sending
\* thread that moves on with empty hands, a cascade that is given what was
\* sniffed last, and a receiving thread that, when the process ends, drops
\* no packet and goes on.
QueueTypes ==
    /\ recvQueues \in [Strands -> Seq(Nat)] /\ sndQueues \in [Strands -> Seq(Nat)]
    /\ received \in [Strands -> Seq(Nat)] /\ taken \in [Strands -> Nat]
    /\ sending \in Seq(Nat) /\ sent \in Seq(Strands \X Nat)

HandsEmpty == turn \notin Strands => sending = <<>>

InTheHands == receiver \in {"copying", "copied"} => sniffed \in 1..Len(Dest)

Newest ==
    \A q \in {forwarded, held, blocks} : \A i \in 1..Len(q) :
        q[i] <= sniffed /\ (receiver = "copying" => q[i] < sniffed)

NothingDropped ==
    receiver \notin {"testing", "ended"} => \A s \in Strands : AllReceived(s)

PostmanInv ==
    /\ Accounts /\ ReceivedInOrder /\ SentInOrder
    /\ CascadeTypes /\ LossPaidFor /\ Ascending
    /\ QueueTypes /\ HandsEmpty /\ InTheHands /\ Newest /\ NothingDropped

(***************************************************************************)
(* Progress.  Once it holds, none of what is waited for is undone, so "in  *)
(* the end" may be said as []<>, which TLC checks without a tableau.       *)
(*                                                                         *)
(* A packet that send() took is on the wire in the end, unless the process *)
(* ends, whatever the receiving side and the cascade wait for, and though  *)
(* another strand refills its queue while the sending thread is there.     *)
(* One that does so for ever is excepted: the do-while of send_impl never  *)
(* leaves its queue, and all others starve.  No strand can here, since it  *)
(* has ToSend packets.                                                     *)
(***************************************************************************)
OnTheWire(s, n) == <<s, n>> \in Range(sent)

Sent ==
    \A s \in Strands :
        []<>(closing \/ Aborted \/ \A n \in 1..taken[s] : OnTheWire(s, n))

(***************************************************************************)
(* What is sniffed reaches its strand even if nobody reads the FIFO of the *)
(* cascade, unless the process ends.                                       *)
(***************************************************************************)
Delivered ==
    []<>(\/ closing \/ ~running \/ Aborted
         \/ \A i \in 1..sniffed : i \in Range(received[Dest[i]]))

(***************************************************************************)
(* The cascade is emptied again and again if the FIFO keeps a reader: a    *)
(* notification that is missed costs time only.                            *)
(***************************************************************************)
Forwarded ==
    <>[](reader /\ ~done /\ ~Aborted) => []<>(blocks = <<>> /\ held = <<>>)

ReceiverEnds ==
    []<>(closing => \/ receiver = "ended" \/ Aborted
                    \/ \E s \in Strands : ~running /\ Len(recvQueues[s]) = Capacity)

ForwarderEnds ==
    <>[]reader => []<>(done => forwarder = "ended" \/ Aborted)

(***************************************************************************)
(* The receiving thread ends with the process, unless the queue it waits   *)
(* for is full and no strand is left to empty it.  The forwarder ends when *)
(* the cascade is stopped, if somebody reads the FIFO: without a reader    *)
(* stop() would wait for a thread that waits for one.  Both exceptions are *)
(* the code's: it has no way out of either.                                *)
(***************************************************************************)
ThreadsEnd == ReceiverEnds /\ ForwarderEnds

=============================================================================
