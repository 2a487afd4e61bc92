--------------------------- MODULE Postman_proof ---------------------------
(***************************************************************************)
(* Proofs about Postman and Cascade, for any number of strands and any     *)
(* length of the queues, whatever the threads do between each other's      *)
(* steps; and about TcpPostman, the postman whose packets come over a TCP  *)
(* connection, for any connections and any size of its buffer.             *)
(***************************************************************************)
EXTENDS Postman, TcpPostman, Basics

(* The invariant, by the part of the state it speaks of.                   *)
CascadePart ==
  /\ Len(blocks) <= QueueLen /\ count \in Int
  /\ producer \in {"idle", "counting", "notifying"}
  /\ Len(held) <= 1 /\ (held # <<>> <=> forwarder \in {"popped", "writing", "aborted"})
  /\ CountAccounts /\ OneLostPerReader /\ CascadeTypes /\ LossPaidFor /\ Ascending
  /\ Newest /\ sniffed \in Nat

ReceivingPart ==
  /\ receiver \in {"testing", "reading", "copying", "copied", "ended"}
  /\ sniffed \in 0 .. Len(Dest)
  /\ recvQueues \in [Strands -> Seq(Nat)] /\ received \in [Strands -> Seq(Nat)]
  /\ \A s \in Strands : Len(recvQueues[s]) <= Capacity
  /\ ReceivedInOrder /\ InTheHands /\ NothingDropped

SendingPart ==
  /\ sndQueues \in [Strands -> Seq(Nat)] /\ taken \in [Strands -> Nat]
  /\ sending \in Seq(Nat) /\ sent \in Seq(Strands \X Nat)
  /\ \A s \in Strands : Len(sndQueues[s]) <= Capacity /\ taken[s] \in 0 .. ToSend[s]
  /\ Len(sending) <= 1 /\ turn \in {Ended, EndOfRound} \cup Strands
  /\ SentInOrder /\ HandsEmpty

Flags == {done, closing, running} \subseteq BOOLEAN

LEMMA InParts ==
  PostmanInv <=> CascadePart /\ ReceivingPart /\ SendingPart /\ Flags
<1>1. PostmanInv => CascadePart /\ ReceivingPart /\ SendingPart
  <2>1. sniffed \in 0 .. Len(Dest) => sniffed \in Nat
    OBVIOUS
  <2> QED BY <2>1 DEF PostmanInv, CascadePart, ReceivingPart, SendingPart, Accounts,
                      TypeOK, QueueTypes
<1>2. PostmanInv => Flags
  BY Zenon DEF PostmanInv, Accounts, TypeOK, Flags
<1>3. ASSUME CascadePart, ReceivingPart, SendingPart, Flags
      PROVE  TypeOK
  <2>1. {done, closing, running} \subseteq BOOLEAN
    BY <1>3 DEF Flags
  <2> QED BY <1>3, <2>1, Zenon DEF CascadePart, ReceivingPart, SendingPart, TypeOK
<1>4. CascadePart /\ ReceivingPart /\ SendingPart /\ Flags => PostmanInv
  BY <1>3 DEF PostmanInv, CascadePart, ReceivingPart, SendingPart, Accounts, QueueTypes
<1> QED BY <1>1, <1>2, <1>4

LEMMA InPartsNext ==
  ASSUME CascadePart', ReceivingPart', SendingPart', Flags' PROVE PostmanInv'
BY InParts, PTL

-----------------------------------------------------------------------------
(* Ascending sequences.                                                    *)

LEMMA AppendAscends ==
  ASSUME NEW t \in Seq(Nat), NEW e \in Nat, \A i \in 1 .. Len(t) : t[i] < e
  PROVE  /\ Rising(t) => Rising(Append(t, e))
         /\ \A s \in Seq(Nat) : Below(s, t) /\ (\A i \in 1 .. Len(s) : s[i] < e)
                                  => Below(s, Append(t, e))
<1>1. /\ Append(t, e) \in Seq(Nat) /\ Len(Append(t, e)) = Len(t) + 1
      /\ \A i \in 1 .. Len(t) : Append(t, e)[i] = t[i] /\ t[i] \in Nat
      /\ Append(t, e)[Len(t) + 1] = e /\ Len(t) \in Nat
  OBVIOUS
<1>2. Rising(t) => Rising(Append(t, e))
  <2> DEFINE u == Append(t, e)
             n == Len(t)
  <2> SUFFICES ASSUME Rising(t) PROVE Rising(u)
    OBVIOUS
  <2>1. \A i \in 1 .. n : u[i] = t[i] /\ t[i] < e /\ t[i] \in Nat
    BY <1>1
  <2>2. \A i, j \in 1 .. n : i < j => t[i] < t[j]
    BY DEF Rising
  <2>3. Len(u) = n + 1 /\ u[n + 1] = e /\ n \in Nat
    BY <1>1
  <2> HIDE DEF u, n
  <2>4. ASSUME NEW i \in 1 .. n + 1, NEW j \in 1 .. n + 1, i < j
        PROVE  u[i] < u[j]
    <3>1. i \in 1 .. n /\ (j \in 1 .. n \/ j = n + 1)
      BY <2>3, <2>4
    <3> QED BY <2>1, <2>2, <2>3, <2>4, <3>1
  <2> QED BY <2>3, <2>4 DEF Rising
<1>3. ASSUME NEW s \in Seq(Nat), Below(s, t), \A i \in 1 .. Len(s) : s[i] < e
      PROVE  Below(s, Append(t, e))
  BY <1>1, <1>3 DEF Below
<1> QED BY <1>2, <1>3

LEMMA PopAscends ==
  ASSUME NEW s \in Seq(Nat), NEW t \in Seq(Nat), t # <<>>, Rising(t), Below(s, t)
  PROVE  /\ Rising(Tail(t)) /\ Below(s, <<Head(t)>>) /\ Below(s, Tail(t))
         /\ Below(<<Head(t)>>, Tail(t))
<1>1. /\ Len(t) \in Nat \ {0} /\ Len(Tail(t)) = Len(t) - 1
      /\ \A i \in 1 .. Len(t) - 1 : Tail(t)[i] = t[i + 1]
      /\ Head(t) = t[1]
      /\ Len(<<Head(t)>>) = 1 /\ <<Head(t)>>[1] = t[1]
  OBVIOUS
<1> QED BY <1>1 DEF Rising, Below

LEMMA WriteAscends ==
  ASSUME NEW f \in Seq(Nat), NEW h \in Seq(Nat), NEW b \in Seq(Nat), Len(h) <= 1,
         Rising(f), Below(f, h), Below(f, b), Below(h, b)
  PROVE  /\ Rising(f \o h) /\ Below(f \o h, <<>>) /\ Below(f \o h, b)
         /\ Below(<<>>, b)
<1>1. /\ Len(f) \in Nat /\ Len(h) \in 0 .. 1 /\ Len(f \o h) = Len(f) + Len(h)
      /\ \A i \in 1 .. Len(f \o h) :
            (f \o h)[i] = IF i <= Len(f) THEN f[i] ELSE h[i - Len(f)]
      /\ Len(<<>>) = 0
  <2>1. Len(f) \in Nat /\ Len(h) \in 0 .. 1 /\ Len(<<>>) = 0
    BY Short
  <2>2. /\ Len(f \o h) = Len(f) + Len(h)
        /\ \A i \in 1 .. Len(f) + Len(h) :
              (f \o h)[i] = IF i <= Len(f) THEN f[i] ELSE h[i - Len(f)]
    BY ConcatProperties
  <2> QED BY <2>1, <2>2
<1>2. \A i \in 1 .. Len(f \o h) : \/ i \in 1 .. Len(f) /\ (f \o h)[i] = f[i]
                                  \/ /\ i = Len(f) + 1 /\ 1 \in 1 .. Len(h)
                                     /\ (f \o h)[i] = h[1]
  BY <1>1
<1>3. Rising(f \o h)
  BY <1>1, <1>2 DEF Rising, Below
<1>4. Below(f \o h, b)
  BY <1>1, <1>2 DEF Below
<1>5. Below(f \o h, <<>>) /\ Below(<<>>, b)
  BY <1>1 DEF Below
<1> QED BY <1>3, <1>4, <1>5

-----------------------------------------------------------------------------
(* The cascade.                                                            *)

LEMMA NewestIs ==
  Newest <=> /\ \A i \in 1 .. Len(forwarded) :
                   forwarded[i] <= sniffed /\ (receiver = "copying" => forwarded[i] < sniffed)
             /\ \A i \in 1 .. Len(held) :
                   held[i] <= sniffed /\ (receiver = "copying" => held[i] < sniffed)
             /\ \A i \in 1 .. Len(blocks) :
                   blocks[i] <= sniffed /\ (receiver = "copying" => blocks[i] < sniffed)
BY DEF Newest

LEMMA PushBackInv ==
  ASSUME CascadePart, receiver = "copying", PushBack(sniffed),
         receiver' = "copied", UNCHANGED sniffed
  PROVE  CascadePart'
<1>1. CASE UNCHANGED <<blocks, accepted, producer>>
  <2>1. UNCHANGED <<blocks, accepted, producer, count, forwarder, held, reader,
                    departures, forwarded, lost>>
    BY <1>1 DEF PushBack, fifo
  <2>2. CountAccounts' /\ OneLostPerReader' /\ CascadeTypes' /\ LossPaidFor' /\ Ascending'
    BY <2>1 DEF CascadePart, CountAccounts, NotSubtracted, NotAdded, OneLostPerReader,
                CascadeTypes, LossPaidFor, Ascending
  <2>3. Newest'
    BY <2>1 DEF CascadePart, Newest
  <2> QED BY <2>1, <2>2, <2>3 DEF CascadePart
<1>2. CASE /\ Len(blocks) < QueueLen
           /\ blocks' = Append(blocks, sniffed)
           /\ accepted' = Append(accepted, sniffed)
           /\ producer' = "counting"
  <2>1. /\ producer = "idle"
        /\ UNCHANGED <<count, forwarder, held, done, reader, departures, forwarded, lost>>
    BY DEF PushBack, fifo
  <2>2. /\ blocks \in Seq(Nat) /\ held \in Seq(Nat) /\ forwarded \in Seq(Nat)
        /\ accepted \in Seq(Nat) /\ lost \in Seq(Nat) /\ sniffed \in Nat
    BY DEF CascadePart, CascadeTypes
  <2>3. /\ blocks' \in Seq(Nat) /\ Len(blocks') = Len(blocks) + 1
        /\ accepted' \in Seq(Nat) /\ Len(accepted') = Len(accepted) + 1
        /\ \A i \in 1 .. Len(blocks') : blocks'[i] = IF i <= Len(blocks) THEN blocks[i]
                                                     ELSE sniffed
        /\ Len(blocks) \in Nat /\ Len(accepted) \in Nat
    BY <1>2, <2>2
  <2>4. /\ \A i \in 1 .. Len(forwarded) : forwarded[i] < sniffed
        /\ \A i \in 1 .. Len(held) : held[i] < sniffed
        /\ \A i \in 1 .. Len(blocks) : blocks[i] < sniffed
    BY NewestIs DEF CascadePart
  <2>5. Rising(Append(blocks, sniffed)) /\ Below(forwarded, Append(blocks, sniffed))
        /\ Below(held, Append(blocks, sniffed))
    BY <2>2, <2>4, AppendAscends DEF CascadePart, Ascending
  <2>6. Ascending'
    BY <1>2, <2>1, <2>5 DEF CascadePart, Ascending
  <2>7. Newest'
    <3>1. \A i \in 1 .. Len(forwarded) : forwarded[i] <= sniffed
      BY NewestIs DEF CascadePart
    <3>2. \A i \in 1 .. Len(held) : held[i] <= sniffed
      BY NewestIs DEF CascadePart
    <3>3. \A i \in 1 .. Len(blocks') : blocks'[i] <= sniffed
      <4>1. \A i \in 1 .. Len(blocks) : blocks[i] <= sniffed
        BY NewestIs DEF CascadePart
      <4>2. ASSUME NEW i \in 1 .. Len(blocks') PROVE blocks'[i] <= sniffed
        <5>1. CASE i <= Len(blocks)
          <6>1. i \in 1 .. Len(blocks) /\ blocks'[i] = blocks[i]
            BY <2>3, <5>1
          <6> QED BY <4>1, <6>1
        <5>2. CASE ~(i <= Len(blocks))
          BY <2>2, <2>3, <5>2
        <5> QED BY <5>1, <5>2
      <4> QED BY <4>2
    <3>4. receiver' # "copying"
      OBVIOUS
    <3> QED BY <2>1, <3>1, <3>2, <3>3, <3>4 DEF Newest
  <2>8. CountAccounts' /\ OneLostPerReader' /\ LossPaidFor'
    <3>1. CountAccounts'
      BY <1>2, <2>1, <2>3 DEF CascadePart, CountAccounts, NotSubtracted, NotAdded
    <3>2. Len(forwarded) \in Nat /\ Len(lost) \in Nat /\ Len(held) \in Nat
      BY <2>2
    <3>3. Len(forwarded) + Len(lost) + Len(held) + Len(blocks') = Len(accepted')
      <4>1. Len(forwarded) + Len(lost) + Len(held) + Len(blocks) = Len(accepted)
        BY DEF CascadePart, OneLostPerReader
      <4>2. Len(blocks') = Len(blocks) + 1 /\ Len(accepted') = Len(accepted) + 1
            /\ Len(blocks) \in Nat /\ Len(accepted) \in Nat
        BY <2>2, <2>3
      <4> DEFINE f == Len(forwarded)
                 l == Len(lost)
                 h == Len(held)
                 b == Len(blocks)
                 a == Len(accepted)
      <4>3. f + l + h + (b + 1) = a + 1
        <5>1. f \in Nat /\ l \in Nat /\ h \in Nat /\ b \in Nat /\ a \in Nat /\ f + l + h + b = a
          BY <3>2, <4>1, <4>2
        <5> HIDE DEF f, l, h, b, a
        <5> QED BY <5>1
      <4> QED BY <4>2, <4>3, Zenon
    <3>4. OneLostPerReader'
      BY <2>1, <3>3 DEF CascadePart, OneLostPerReader
    <3> QED BY <2>1, <3>1, <3>4 DEF CascadePart, LossPaidFor
  <2>9. CascadeTypes'
    BY <2>1, <2>2, <2>3 DEF CascadePart, CascadeTypes
  <2> QED BY <1>2, <2>1, <2>2, <2>3, <2>6, <2>7, <2>8, <2>9, CascadeAssumption
             DEF CascadePart
<1> QED BY <1>1, <1>2 DEF PushBack

(* A step that only counts, waits, or goes from one place to another.      *)
LEMMA CascadeMoves ==
  ASSUME CascadePart, UNCHANGED <<sniffed, receiver>>,
         Count \/ Notify \/ Open \/ Quit \/ NothingToDo \/ AssertFails \/ Uncount
           \/ FallAsleep \/ TimedOut \/ ReaderComes \/ ReaderGoes
  PROVE  CascadePart'
<1>1. /\ UNCHANGED <<blocks, held, accepted, forwarded, lost>>
      /\ Newest' /\ Ascending'
  BY DEF Count, Notify, Open, Quit, NothingToDo, AssertFails, Uncount, FallAsleep,
         TimedOut, ReaderComes, ReaderGoes, Goto, fifo, history, CascadePart,
         Newest, Ascending
<1>2. /\ Len(blocks) \in Nat /\ Len(lost) \in Nat /\ departures \in Nat /\ count \in Int
  BY DEF CascadePart, CascadeTypes
<1>3. /\ count' \in Int /\ producer' \in {"idle", "counting", "notifying"}
      /\ held # <<>> <=> forwarder' \in {"popped", "writing", "aborted"}
      /\ departures' \in Nat /\ departures' >= departures
      /\ forwarder' \in {"opening", "testing", "popped", "empty", "writing", "waiting",
                         "aborted", "ended"}
  BY <1>1, <1>2
     DEF Count, Notify, Open, Quit, NothingToDo, AssertFails, Uncount, FallAsleep,
         TimedOut, ReaderComes, ReaderGoes, Goto, fifo, history, CascadePart,
         CascadeTypes
<1>4. CountAccounts'
  <2>1. \/ /\ producer = "counting" /\ producer' = "notifying"
           /\ count' = count + 1 /\ UNCHANGED forwarder
        \/ /\ forwarder = "popped" /\ forwarder' = "writing"
           /\ count' = count - 1 /\ UNCHANGED producer
        \/ /\ count' = count
           /\ producer' = "counting" <=> producer = "counting"
           /\ forwarder' \in {"popped", "aborted"} <=> forwarder \in {"popped", "aborted"}
    BY DEF Count, Notify, Open, Quit, NothingToDo, AssertFails, Uncount, FallAsleep,
           TimedOut, ReaderComes, ReaderGoes, Goto, fifo
  <2>2. count = Len(blocks) + NotSubtracted - NotAdded /\ Len(blocks') = Len(blocks)
    BY <1>1 DEF CascadePart, CountAccounts
  <2>3. /\ NotSubtracted \in Int /\ NotAdded \in Int
        /\ \/ /\ count' = count + 1 /\ NotAdded = 1 /\ NotAdded' = 0
              /\ NotSubtracted' = NotSubtracted
           \/ /\ count' = count - 1 /\ NotAdded' = NotAdded
              /\ NotSubtracted = 1 /\ NotSubtracted' = 0
           \/ /\ count' = count /\ NotAdded' = NotAdded
              /\ NotSubtracted' = NotSubtracted
    BY <2>1 DEF NotSubtracted, NotAdded
  <2>4. count' = Len(blocks') + NotSubtracted' - NotAdded'
    BY <1>2, <2>2, <2>3
  <2> QED BY <2>4 DEF CountAccounts
<1>5. OneLostPerReader'
  BY <1>1, <1>2, <1>3 DEF CascadePart, OneLostPerReader
<1>6. reader' \in BOOLEAN
  BY Zenon
     DEF Count, Notify, Open, Quit, NothingToDo, AssertFails, Uncount, FallAsleep,
         TimedOut, ReaderComes, ReaderGoes, fifo, CascadePart, CascadeTypes
<1>7. LossPaidFor'
  BY <1>1, <1>2
     DEF Count, Notify, Open, Quit, NothingToDo, AssertFails, Uncount, FallAsleep,
         TimedOut, ReaderComes, ReaderGoes, Goto, fifo, CascadePart, LossPaidFor
<1>8. CascadeTypes'
  BY <1>1, <1>3, <1>6 DEF CascadePart, CascadeTypes
<1> QED BY <1>1, <1>3, <1>4, <1>5, <1>7, <1>8 DEF CascadePart

LEMMA PopInv ==
  ASSUME CascadePart, UNCHANGED <<sniffed, receiver>>, PopBlock
  PROVE  CascadePart'
<1>1. /\ forwarder = "testing" /\ forwarder' = "popped" /\ blocks # <<>>
      /\ held' = <<Head(blocks)>> /\ blocks' = Tail(blocks)
      /\ UNCHANGED <<count, producer, done, reader, departures, accepted, forwarded, lost>>
  BY DEF PopBlock, Goto, fifo, history
<1>2. /\ blocks \in Seq(Nat) /\ held = <<>> /\ forwarded \in Seq(Nat)
      /\ accepted \in Seq(Nat) /\ lost \in Seq(Nat) /\ sniffed \in Nat
  BY <1>1 DEF CascadePart, CascadeTypes
<1>3. /\ blocks' \in Seq(Nat) /\ Len(blocks') = Len(blocks) - 1
      /\ held' \in Seq(Nat) /\ Len(held') = 1 /\ held'[1] = blocks[1] /\ held' # <<>>
      /\ \A i \in 1 .. Len(blocks) - 1 : blocks'[i] = blocks[i + 1]
      /\ Len(blocks) \in Nat \ {0} /\ Len(held) = 0
  BY <1>1, <1>2
<1>4. Ascending'
  <2>1. /\ Rising(Tail(blocks)) /\ Below(forwarded, <<Head(blocks)>>)
        /\ Below(forwarded, Tail(blocks)) /\ Below(<<Head(blocks)>>, Tail(blocks))
    BY <1>1, <1>2, PopAscends DEF CascadePart, Ascending
  <2> QED BY <1>1, <2>1 DEF CascadePart, Ascending
<1>5. Newest'
  <2>1. \A i \in 1 .. Len(blocks) :
           blocks[i] <= sniffed /\ (receiver = "copying" => blocks[i] < sniffed)
    BY NewestIs DEF CascadePart
  <2>2. \A i \in 1 .. Len(forwarded) :
           forwarded[i] <= sniffed /\ (receiver = "copying" => forwarded[i] < sniffed)
    BY NewestIs DEF CascadePart
  <2>3. \A i \in 1 .. Len(held') :
           held'[i] <= sniffed /\ (receiver = "copying" => held'[i] < sniffed)
    BY <1>3, <2>1
  <2>4. \A i \in 1 .. Len(blocks') :
           blocks'[i] <= sniffed /\ (receiver = "copying" => blocks'[i] < sniffed)
    <3> SUFFICES ASSUME NEW i \in 1 .. Len(blocks')
                 PROVE  /\ blocks'[i] <= sniffed
                        /\ receiver = "copying" => blocks'[i] < sniffed
      OBVIOUS
    <3>1. /\ i \in 1 .. Len(blocks) - 1 /\ i + 1 \in 1 .. Len(blocks)
      BY <1>3
    <3>2. blocks'[i] = blocks[i + 1]
      BY <1>3, <3>1
    <3> QED BY <2>1, <3>1, <3>2, Zenon
  <2> QED BY <1>1, <2>2, <2>3, <2>4 DEF Newest
<1>6. CountAccounts' /\ OneLostPerReader' /\ LossPaidFor'
  <2>1. Len(forwarded) \in Nat /\ Len(lost) \in Nat
    BY <1>2
  <2>2. CountAccounts'
    <3>1. NotSubtracted = 0 /\ NotSubtracted' = 1 /\ NotAdded' = NotAdded
          /\ NotAdded \in Int
      BY <1>1 DEF NotSubtracted, NotAdded
    <3>2. count = Len(blocks) + NotSubtracted - NotAdded
      BY DEF CascadePart, CountAccounts
    <3> DEFINE n == Len(blocks)
    <3>3. n \in Nat /\ count = n + NotSubtracted - NotAdded /\ Len(blocks') = n - 1
          /\ count' = count
      BY <1>1, <1>3, <3>2
    <3> HIDE DEF n
    <3>4. count' = (n - 1) + NotSubtracted' - NotAdded'
      BY <3>1, <3>3
    <3> QED BY <3>3, <3>4 DEF CountAccounts
  <2>3. LossPaidFor'
    BY <1>1 DEF CascadePart, LossPaidFor
  <2>4. Len(forwarded) + Len(lost) + Len(held) + Len(blocks) = Len(accepted)
    BY DEF CascadePart, OneLostPerReader
  <2>5. Len(forwarded) + Len(lost) + Len(held') + Len(blocks') = Len(accepted)
    <3> DEFINE f == Len(forwarded)
               l == Len(lost)
               b == Len(blocks)
               a == Len(accepted)
    <3>1. f \in Nat /\ l \in Nat /\ b \in Nat /\ f + l + 0 + b = a
      BY <1>3, <2>1, <2>4
    <3>2. Len(held') = 1 /\ Len(blocks') = b - 1
      BY <1>3
    <3> HIDE DEF f, l, b, a
    <3>3. f + l + 1 + (b - 1) = a
      BY <3>1
    <3> QED BY <3>2, <3>3 DEF f, l, a
  <2> QED BY <1>1, <2>2, <2>3, <2>5 DEF CascadePart, OneLostPerReader
<1>7. CascadeTypes'
  BY <1>1, <1>2, <1>3 DEF CascadePart, CascadeTypes
<1> QED BY <1>1, <1>3, <1>4, <1>5, <1>6, <1>7, CascadeAssumption DEF CascadePart

LEMMA WriteInv ==
  ASSUME CascadePart, UNCHANGED <<sniffed, receiver>>, Write \/ WriteFails
  PROVE  CascadePart'
<1>1. /\ forwarder = "writing" /\ held' = <<>>
      /\ UNCHANGED <<blocks, count, producer, done, reader, departures, accepted>>
      /\ \/ /\ reader /\ forwarder' = "testing"
            /\ forwarded' = forwarded \o held /\ lost' = lost
         \/ /\ ~reader /\ forwarder' = "opening"
            /\ lost' = lost \o held /\ forwarded' = forwarded
  BY DEF Write, WriteFails, Goto, fifo
<1>2. /\ blocks \in Seq(Nat) /\ held \in Seq(Nat) /\ forwarded \in Seq(Nat)
      /\ accepted \in Seq(Nat) /\ lost \in Seq(Nat) /\ sniffed \in Nat
      /\ held # <<>> /\ Len(held) <= 1
  BY <1>1 DEF CascadePart, CascadeTypes
<1>3. /\ Len(held) = 1 /\ held' \in Seq(Nat) /\ Len(held') = 0
      /\ Len(forwarded) \in Nat /\ Len(lost) \in Nat /\ Len(blocks) \in Nat
      /\ forwarded \o held \in Seq(Nat) /\ Len(forwarded \o held) = Len(forwarded) + 1
      /\ lost \o held \in Seq(Nat) /\ Len(lost \o held) = Len(lost) + 1
      /\ \A i \in 1 .. Len(forwarded) + 1 :
            (forwarded \o held)[i] = IF i <= Len(forwarded) THEN forwarded[i] ELSE held[1]
  <2>1. /\ held' \in Seq(Nat) /\ Len(held') = 0
        /\ Len(forwarded) \in Nat /\ Len(lost) \in Nat /\ Len(blocks) \in Nat
    BY <1>1, <1>2
  <2>4. Len(held) = 1
    BY <1>2, Short
  <2>2. lost \o held \in Seq(Nat) /\ Len(lost \o held) = Len(lost) + Len(held)
    BY <1>2, ConcatProperties
  <2>3. /\ forwarded \o held \in Seq(Nat)
        /\ Len(forwarded \o held) = Len(forwarded) + Len(held)
        /\ \A i \in 1 .. Len(forwarded) + Len(held) : (forwarded \o held)[i]
              = IF i <= Len(forwarded) THEN forwarded[i] ELSE held[i - Len(forwarded)]
    BY <1>2, ConcatProperties
  <2> DEFINE s == forwarded \o held
             f == Len(forwarded)
             h == Len(held)
  <2>5. /\ f \in Nat /\ h = 1
        /\ \A i \in 1 .. f + h : s[i] = IF i <= f THEN forwarded[i] ELSE held[i - f]
    BY <2>1, <2>3, <2>4
  <2>6. \A i \in 1 .. f + 1 : s[i] = IF i <= f THEN forwarded[i] ELSE held[1]
    <3> HIDE DEF s, f, h
    <3> TAKE i \in 1 .. f + 1
    <3>1. i <= f \/ i - f = 1
      BY <2>5
    <3> QED BY <2>5, <3>1
  <2>7. Len(s) = f + 1 /\ Len(lost \o held) = Len(lost) + 1
    BY <2>2, <2>3, <2>4
  <2> QED BY <2>1, <2>2, <2>3, <2>4, <2>6, <2>7, Zenon
<1>4. /\ Rising(forwarded \o held) /\ Below(forwarded \o held, <<>>)
      /\ Below(forwarded \o held, blocks) /\ Below(<<>>, blocks)
  BY <1>2, WriteAscends DEF CascadePart, Ascending
<1>5. Ascending'
  <2>1. Below(forwarded, <<>>)
    BY DEF Below
  <2> QED BY <1>1, <1>4, <2>1 DEF CascadePart, Ascending
<1>6. Newest'
  <2>1. \A i \in 1 .. Len(blocks) :
           blocks[i] <= sniffed /\ (receiver = "copying" => blocks[i] < sniffed)
    BY NewestIs DEF CascadePart
  <2>2. \A i \in 1 .. Len(forwarded) :
           forwarded[i] <= sniffed /\ (receiver = "copying" => forwarded[i] < sniffed)
    BY NewestIs DEF CascadePart
  <2>3. held[1] <= sniffed /\ (receiver = "copying" => held[1] < sniffed)
    BY <1>3, NewestIs DEF CascadePart
  <2>4. \A i \in 1 .. Len(forwarded') :
           forwarded'[i] <= sniffed /\ (receiver = "copying" => forwarded'[i] < sniffed)
    <3>1. CASE forwarded' = forwarded
      BY <2>2, <3>1
    <3>2. CASE forwarded' = forwarded \o held
      <4> SUFFICES ASSUME NEW i \in 1 .. Len(forwarded) + 1
                   PROVE  /\ (forwarded \o held)[i] <= sniffed
                          /\ receiver = "copying" => (forwarded \o held)[i] < sniffed
        BY <1>3, <3>2
      <4>1. CASE i \in 1 .. Len(forwarded)
        BY <1>3, <2>2, <4>1
      <4>2. CASE i \notin 1 .. Len(forwarded)
        <5>1. (forwarded \o held)[i] = held[1]
          BY <1>3, <4>2
        <5> QED BY <2>3, <5>1
      <4> QED BY <4>1, <4>2
    <3> QED BY <1>1, <3>1, <3>2
  <2>5. \A i \in 1 .. Len(held') :
           held'[i] <= sniffed /\ (receiver = "copying" => held'[i] < sniffed)
    BY <1>3
  <2> QED BY <1>1, <2>1, <2>4, <2>5 DEF Newest
<1>7. CountAccounts' /\ LossPaidFor'
  <2>1. CountAccounts'
    <3>1. CountAccounts
      BY DEF CascadePart
    <3> QED BY <1>1, <1>3, <3>1 DEF CountAccounts, NotSubtracted, NotAdded
  <2>2. LossPaidFor'
    <3>1. LossPaidFor
      BY DEF CascadePart
    <3> DEFINE n == Len(lost)
               m == Len(lost')
    <3>2. \/ reader /\ forwarder' = "testing" /\ m = n
          \/ ~reader /\ forwarder' = "opening" /\ m = n + 1
      BY <1>1, <1>3
    <3>3. /\ forwarder = "writing" /\ UNCHANGED <<reader, departures>> /\ n \in Nat
          /\ n + (IF forwarder # "opening" /\ ~reader THEN 1 ELSE 0) <= departures
      BY <1>1, <1>3, <3>1 DEF LossPaidFor
    <3> HIDE DEF n, m
    <3>4. m + (IF forwarder' # "opening" /\ ~reader' THEN 1 ELSE 0) <= departures'
      BY <3>2, <3>3
    <3> QED BY <3>4 DEF LossPaidFor, m
  <2> QED BY <2>1, <2>2
<1>8. OneLostPerReader'
  <2>1. Len(lost') <= departures'
    BY <1>1, <1>3 DEF CascadePart, OneLostPerReader, LossPaidFor, CascadeTypes
  <2>2. \A i, j \in 1 .. Len(forwarded') : i < j => forwarded'[i] < forwarded'[j]
    BY <1>5 DEF Ascending, Rising
  <2>3. Len(forwarded') + Len(lost') + Len(held') + Len(blocks') = Len(accepted')
    <3>1. Len(forwarded) + Len(lost) + Len(held) + Len(blocks) = Len(accepted)
      BY DEF CascadePart, OneLostPerReader
    <3> DEFINE f == Len(forwarded)
               l == Len(lost)
               b == Len(blocks)
               a == Len(accepted)
    <3>2. f \in Nat /\ l \in Nat /\ b \in Nat /\ f + l + 1 + b = a
      BY <1>3, <3>1
    <3>3. \/ Len(forwarded') = f + 1 /\ Len(lost') = l
          \/ Len(forwarded') = f /\ Len(lost') = l + 1
      BY <1>1, <1>3
    <3>4. Len(held') = 0 /\ Len(blocks') = b /\ Len(accepted') = a
      BY <1>1, <1>3
    <3> HIDE DEF f, l, b, a
    <3>5. (f + 1) + l + 0 + b = a /\ f + (l + 1) + 0 + b = a
      BY <3>2
    <3> QED BY <3>3, <3>4, <3>5
  <2> QED BY <2>1, <2>2, <2>3 DEF OneLostPerReader
<1>9. CascadeTypes'
  BY <1>1, <1>2, <1>3 DEF CascadePart, CascadeTypes
<1> QED BY <1>1, <1>3, <1>5, <1>6, <1>7, <1>8, <1>9 DEF CascadePart
LEMMA ForwarderInv ==
  ASSUME CascadePart, UNCHANGED <<sniffed, receiver>>,
         Forwarder \/ Environment \/ Count \/ Notify
  PROVE  CascadePart'
BY CascadeMoves, PopInv, WriteInv DEF Forwarder, Environment

(* The cascade is idle while the receiving thread does something else.     *)
LEMMA CascadeKept ==
  ASSUME CascadePart,
         UNCHANGED <<blocks, count, producer, forwarder, held, reader, departures,
                     accepted, forwarded, lost>>,
         sniffed' \in Nat,
         \/ sniffed' = sniffed /\ (receiver' = "copying" => receiver = "copying")
         \/ sniffed' = sniffed + 1
  PROVE  CascadePart'
<1>1. CountAccounts' /\ OneLostPerReader' /\ CascadeTypes' /\ LossPaidFor' /\ Ascending'
  BY DEF CascadePart, CountAccounts, NotSubtracted, NotAdded, OneLostPerReader,
         CascadeTypes, LossPaidFor, Ascending
<1>2. Newest'
  <2>1. /\ blocks \in Seq(Nat) /\ held \in Seq(Nat) /\ forwarded \in Seq(Nat)
        /\ sniffed \in Nat
    BY DEF CascadePart, CascadeTypes
  <2>2. ASSUME NEW q \in {forwarded, held, blocks}, NEW i \in 1 .. Len(q)
        PROVE  q[i] <= sniffed' /\ (receiver' = "copying" => q[i] < sniffed')
    <3>1. q[i] <= sniffed /\ (receiver = "copying" => q[i] < sniffed)
      BY DEF CascadePart, Newest
    <3>2. q[i] \in Nat
      BY <2>1
    <3> QED BY <2>1, <3>1, <3>2
  <2> QED BY <2>2 DEF Newest
<1> QED BY <1>1, <1>2 DEF CascadePart

-----------------------------------------------------------------------------
(* Sequences and their prefixes.                                           *)

LEMMA PrefixConcat ==
  ASSUME NEW S, NEW s \in Seq(S), NEW t \in Seq(S)
  PROVE  IsPrefix(s, s \o t)
<1>1. /\ s \o t \in Seq(S) /\ Len(s \o t) = Len(s) + Len(t)
      /\ Len(s) \in Nat /\ Len(t) \in Nat
      /\ \A i \in 1 .. Len(s) : (s \o t)[i] = s[i]
  BY ConcatProperties
<1>2. SubSeq(s, 1, Len(s)) = SubSeq(s \o t, 1, Len(s))
  BY <1>1
<1> QED BY <1>1, <1>2 DEF IsPrefix

LEMMA PrefixAppend ==
  ASSUME NEW S, NEW s \in Seq(S), NEW t \in Seq(S), NEW e \in S, IsPrefix(s, t)
  PROVE  IsPrefix(s, Append(t, e))
<1>1. /\ Append(t, e) \in Seq(S) /\ Len(Append(t, e)) = Len(t) + 1
      /\ Len(s) \in Nat /\ Len(t) \in Nat /\ Len(s) <= Len(t)
      /\ \A i \in 1 .. Len(t) : Append(t, e)[i] = t[i]
  BY DEF IsPrefix
<1>2. SubSeq(t, 1, Len(s)) = SubSeq(Append(t, e), 1, Len(s))
  BY <1>1
<1> QED BY <1>1, <1>2 DEF IsPrefix

LEMMA UpToMore ==
  ASSUME NEW n \in Nat
  PROVE  UpTo(n) \in Seq(Nat) /\ UpTo(n + 1) = Append(UpTo(n), n + 1)
<1>1. /\ UpTo(n) \in Seq(Nat) /\ Len(UpTo(n)) = n
      /\ UpTo(n + 1) \in Seq(Nat) /\ Len(UpTo(n + 1)) = n + 1
      /\ \A i \in 1 .. n : UpTo(n)[i] = i
      /\ \A i \in 1 .. n + 1 : UpTo(n + 1)[i] = i
  BY DEF UpTo
<1>2. /\ Append(UpTo(n), n + 1) \in Seq(Nat) /\ Len(Append(UpTo(n), n + 1)) = n + 1
      /\ \A i \in 1 .. n : Append(UpTo(n), n + 1)[i] = UpTo(n)[i]
      /\ Append(UpTo(n), n + 1)[n + 1] = n + 1
  BY <1>1
<1>3. \A i \in 1 .. n + 1 : UpTo(n + 1)[i] = Append(UpTo(n), n + 1)[i]
  <2> TAKE i \in 1 .. n + 1
  <2>1. i \in 1 .. n \/ i = n + 1
    OBVIOUS
  <2> QED BY <1>1, <1>2, <2>1
<1> QED BY <1>1, <1>2, <1>3, SeqEqual

-----------------------------------------------------------------------------
(* The receiving thread and the strands that receive.                      *)

LEMMA SniffedForType ==
  ASSUME sniffed \in Nat, NEW s
  PROVE  SniffedFor(s) \in Seq(Nat)
BY UpToMore, SelectedShape DEF SniffedFor

(* Nothing but queues and hands separates what was received from what was  *)
(* sniffed.                                                                *)
LEMMA AllIsPrefix ==
  ASSUME sniffed \in Nat, NEW s, received[s] \in Seq(Nat), recvQueues[s] \in Seq(Nat),
         AllReceived(s)
  PROVE  IsPrefix(received[s] \o recvQueues[s], SniffedFor(s))
<1>1. InHandFor(s) \in Seq(Nat)
  BY DEF InHandFor
<1>2. received[s] \o recvQueues[s] \in Seq(Nat)
  BY ConcatProperties
<1> QED BY <1>1, <1>2, PrefixConcat DEF AllReceived

LEMMA ReceivingKept ==
  ASSUME ReceivingPart, UNCHANGED <<receiver, sniffed, recvQueues, received>>,
         closing => closing'
  PROVE  ReceivingPart'
<1>1. \A s \in Strands : AllReceived(s)' <=> AllReceived(s)
  BY DEF AllReceived, InHandFor, SniffedFor
<1>2. \A s \in Strands : IsPrefix(received[s] \o recvQueues[s], SniffedFor(s))'
  BY DEF ReceivingPart, ReceivedInOrder, SniffedFor
<1> QED BY <1>1, <1>2 DEF ReceivingPart, ReceivedInOrder, InTheHands, NothingDropped

LEMMA MoveReceiver ==
  ASSUME ReceivingPart, UNCHANGED <<sniffed, recvQueues, received, closing>>,
         \/ receiver = "testing" /\ receiver' = "reading" /\ ~closing
         \/ receiver = "testing" /\ receiver' = "ended" /\ closing
         \/ receiver = "reading" /\ receiver' = "testing"
         \/ receiver = "copying" /\ receiver' = "testing" /\ closing
         \/ receiver = "copying" /\ receiver' = "copied"
  PROVE  ReceivingPart'
<1>1. \A s \in Strands : IsPrefix(received[s] \o recvQueues[s], SniffedFor(s))'
  BY DEF ReceivingPart, ReceivedInOrder, SniffedFor
<1>2. CASE ~(closing' /\ receiver' \in {"testing", "ended"})
  <2>1. \A s \in Strands : AllReceived(s)
    <3>1. ~closing \/ receiver \notin {"testing", "ended"}
      BY <1>2
    <3> QED BY <3>1 DEF ReceivingPart, ReceivedInOrder, NothingDropped
  <2>2. \A s \in Strands : InHandFor(s)' = InHandFor(s)
    BY <1>2 DEF InHandFor
  <2>3. \A s \in Strands : AllReceived(s)'
    BY <2>1, <2>2 DEF AllReceived, SniffedFor
  <2> QED BY <1>1, <2>3 DEF ReceivingPart, ReceivedInOrder, InTheHands, NothingDropped
<1>3. CASE closing' /\ receiver' \in {"testing", "ended"}
  BY <1>1, <1>3 DEF ReceivingPart, ReceivedInOrder, InTheHands, NothingDropped
<1> QED BY <1>2, <1>3

LEMMA SniffInv ==
  ASSUME ReceivingPart, Sniff
  PROVE  ReceivingPart' /\ sniffed' = sniffed + 1
<1>1. /\ receiver = "reading" /\ receiver' = "copying" /\ sniffed < Len(Dest)
      /\ sniffed' = sniffed + 1 /\ UNCHANGED <<recvQueues, received, closing>>
      /\ sniffed \in Nat /\ sniffed' \in 1 .. Len(Dest)
  BY PostmanAssumption DEF Sniff, ReceivingPart
<1>2. ASSUME NEW s \in Strands PROVE AllReceived(s)'
  <2> DEFINE S == {i \in DOMAIN Dest : Dest[i] = s}
  <2>1. received[s] \o recvQueues[s] \o <<>> = SniffedFor(s)
    BY <1>1 DEF ReceivingPart, NothingDropped, AllReceived, InHandFor
  <2>2. received[s] \o recvQueues[s] \in Seq(Nat)
    BY ConcatProperties DEF ReceivingPart
  <2>3. received[s] \o recvQueues[s] = SniffedFor(s)
    BY <2>1, <2>2, ConcatEmptySeq
  <2>4. SniffedFor(s)' = IF sniffed + 1 \in S THEN Append(SniffedFor(s), sniffed + 1)
                         ELSE SniffedFor(s)
    <3>1. UpTo(sniffed) \in Seq(Nat) /\ UpTo(sniffed + 1) = Append(UpTo(sniffed), sniffed + 1)
      BY <1>1, UpToMore
    <3>2. Selected(Append(UpTo(sniffed), sniffed + 1), S)
            = IF sniffed + 1 \in S THEN Append(Selected(UpTo(sniffed), S), sniffed + 1)
              ELSE Selected(UpTo(sniffed), S)
      <4>1. sniffed + 1 \in Nat
        BY <1>1
      <4> HIDE DEF S
      <4> DEFINE u == UpTo(sniffed)
      <4>2. u \in Seq(Nat)
        BY <3>1
      <4> HIDE DEF u
      <4>3. Selected(Append(u, sniffed + 1), S)
              = IF sniffed + 1 \in S THEN Append(Selected(u, S), sniffed + 1)
                ELSE Selected(u, S)
        <5>1. \A r \in Seq(Nat), e \in Nat :
                 Selected(Append(r, e), S)
                   = IF e \in S THEN Append(Selected(r, S), e) ELSE Selected(r, S)
          BY SelectedAppend
        <5> QED BY <4>1, <4>2, <5>1, Zenon
      <4> QED BY <4>3, Zenon DEF u
    <3> QED BY <1>1, <3>1, <3>2 DEF SniffedFor
  <2>5. sniffed + 1 \in S <=> Dest[sniffed'] = s
    BY <1>1, PostmanAssumption
  <2>6. InHandFor(s)' = IF sniffed + 1 \in S THEN <<sniffed + 1>> ELSE <<>>
    BY <1>1, <2>5 DEF InHandFor
  <2> HIDE DEF S
  <2>7. SniffedFor(s) \o <<sniffed + 1>> = Append(SniffedFor(s), sniffed + 1)
        /\ SniffedFor(s) \o <<>> = SniffedFor(s)
    <3>1. SniffedFor(s) \in Seq(Nat) /\ sniffed + 1 \in Nat
      BY <1>1, SniffedForType
    <3> QED BY <3>1, AppendConcat, ConcatEmptySeq
  <2> QED BY <1>1, <2>3, <2>4, <2>6, <2>7 DEF AllReceived
<1>3. ASSUME NEW s \in Strands
      PROVE  IsPrefix(received[s] \o recvQueues[s], SniffedFor(s))'
  <2>1. sniffed' \in Nat /\ received'[s] \in Seq(Nat) /\ recvQueues'[s] \in Seq(Nat)
    BY <1>1 DEF ReceivingPart
  <2>2. InHandFor(s)' \in Seq(Nat)
    BY <2>1 DEF InHandFor
  <2>3. received'[s] \o recvQueues'[s] \in Seq(Nat)
    BY <2>1, ConcatProperties
  <2> QED BY <1>2, <2>2, <2>3, PrefixConcat DEF AllReceived
<1>4. InTheHands' /\ NothingDropped' /\ ReceivedInOrder'
  BY <1>1, <1>2, <1>3 DEF InTheHands, NothingDropped, ReceivedInOrder
<1> QED BY <1>1, <1>4 DEF ReceivingPart

LEMMA EnqueueInv == ASSUME ReceivingPart, Enqueue PROVE ReceivingPart'
<1> DEFINE d == Dest[sniffed]
<1>1. /\ receiver = "copied" /\ receiver' = "testing" /\ Len(recvQueues[d]) < Capacity
      /\ recvQueues' = [recvQueues EXCEPT ![d] = Append(@, sniffed)]
      /\ UNCHANGED <<sniffed, received, closing>>
      /\ sniffed \in Nat /\ sniffed \in 1 .. Len(Dest) /\ d \in Strands
  BY PostmanAssumption DEF Enqueue, ReceivingPart, InTheHands
<1> HIDE DEF d
<1>2. /\ recvQueues' \in [Strands -> Seq(Nat)]
      /\ recvQueues'[d] = Append(recvQueues[d], sniffed)
      /\ \A s \in Strands : s # d => recvQueues'[s] = recvQueues[s]
      /\ Len(recvQueues'[d]) = Len(recvQueues[d]) + 1
      /\ recvQueues[d] \in Seq(Nat)
  BY <1>1 DEF ReceivingPart
<1>3. ASSUME NEW s \in Strands PROVE AllReceived(s)'
  <2>1. /\ received[s] \o recvQueues[s] \o InHandFor(s) = SniffedFor(s)
        /\ InHandFor(s) = IF s = d THEN <<sniffed>> ELSE <<>>
    BY <1>1 DEF ReceivingPart, NothingDropped, AllReceived, InHandFor, d
  <2>2. received[s] \in Seq(Nat) /\ recvQueues[s] \in Seq(Nat)
        /\ received[s] \o recvQueues[s] \in Seq(Nat)
    BY ConcatProperties DEF ReceivingPart
  <2>3. /\ InHandFor(s)' = <<>> /\ SniffedFor(s)' = SniffedFor(s)
        /\ received'[s] = received[s]
    BY <1>1 DEF InHandFor, SniffedFor
  <2>4. received[s] \o recvQueues'[s] \in Seq(Nat)
    BY <1>2, <2>2, ConcatProperties
  <2>5. received[s] \o recvQueues'[s] = SniffedFor(s)
    <3>1. CASE s = d
      <4>1. received[s] \o Append(recvQueues[s], sniffed)
              = Append(received[s] \o recvQueues[s], sniffed)
            /\ (received[s] \o recvQueues[s]) \o <<sniffed>>
              = Append(received[s] \o recvQueues[s], sniffed)
        <5>1. /\ received[s] \in Seq(Nat) /\ recvQueues[s] \in Seq(Nat)
              /\ received[s] \o recvQueues[s] \in Seq(Nat) /\ sniffed \in Nat
          BY <1>1, <2>2
        <5> DEFINE r == received[s]
                   q == recvQueues[s]
                   p == received[s] \o recvQueues[s]
        <5>2. r \in Seq(Nat) /\ q \in Seq(Nat) /\ p \in Seq(Nat) /\ sniffed \in Nat
          BY <5>1
        <5> HIDE DEF r, q, p
        <5>3. p \o <<sniffed>> = Append(p, sniffed)
          BY <5>2, AppendConcat
        <5>4. r \o Append(q, sniffed) = Append(r \o q, sniffed)
          BY <5>2, AppendConcat, SMTT(20)
        <5> QED BY <5>3, <5>4, Zenon DEF r, q, p
      <4> QED BY <1>2, <2>1, <3>1, <4>1
    <3>2. CASE s # d
      BY <1>2, <2>1, <2>2, <3>2, ConcatEmptySeq
    <3> QED BY <3>1, <3>2
  <2>6. received[s] \o recvQueues'[s] \o <<>> = received[s] \o recvQueues'[s]
    BY <2>4, ConcatEmptySeq
  <2> QED BY <2>3, <2>5, <2>6 DEF AllReceived
<1>4. ASSUME NEW s \in Strands
      PROVE  IsPrefix(received[s] \o recvQueues[s], SniffedFor(s))'
  <2>1. received'[s] \in Seq(Nat) /\ recvQueues'[s] \in Seq(Nat)
    BY <1>1, <1>2 DEF ReceivingPart
  <2>2. InHandFor(s)' \in Seq(Nat)
    BY <1>1 DEF InHandFor
  <2>3. received'[s] \o recvQueues'[s] \in Seq(Nat)
    BY <2>1, ConcatProperties
  <2> QED BY <1>3, <2>2, <2>3, PrefixConcat DEF AllReceived
<1>5. \A s \in Strands : Len(recvQueues'[s]) <= Capacity
  <2> TAKE s \in Strands
  <2>1. CASE s = d
    <3>1. Len(recvQueues[d]) \in Nat
      BY <1>2
    <3> QED BY <1>1, <1>2, <2>1, <3>1, PostmanAssumption
  <2>2. CASE s # d
    BY <1>2, <2>2 DEF ReceivingPart
  <2> QED BY <2>1, <2>2
<1>6. InTheHands' /\ NothingDropped' /\ ReceivedInOrder'
  BY <1>1, <1>3, <1>4 DEF InTheHands, NothingDropped, ReceivedInOrder
<1> QED BY <1>1, <1>2, <1>5, <1>6 DEF ReceivingPart

LEMMA RecvInv ==
  ASSUME ReceivingPart, NEW d \in Strands, Recv(d)
  PROVE  ReceivingPart'
<1>1. /\ recvQueues[d] # <<>>
      /\ received' = [received EXCEPT ![d] = Append(@, Head(recvQueues[d]))]
      /\ recvQueues' = [recvQueues EXCEPT ![d] = Tail(@)]
      /\ UNCHANGED <<receiver, sniffed, closing>>
      /\ recvQueues[d] \in Seq(Nat) /\ received[d] \in Seq(Nat)
  BY DEF Recv, ReceivingPart
<1>2. /\ Head(recvQueues[d]) \in Nat /\ Tail(recvQueues[d]) \in Seq(Nat)
      /\ Append(received[d], Head(recvQueues[d])) \o Tail(recvQueues[d])
           = received[d] \o recvQueues[d]
  <2>1. /\ received[d] \in Seq(Nat) /\ recvQueues[d] \in Seq(Nat)
        /\ recvQueues[d] # <<>>
    BY <1>1
  <2>2. \A r, q \in Seq(Nat) : q # <<>> =>
           /\ Head(q) \in Nat /\ Tail(q) \in Seq(Nat)
           /\ Append(r, Head(q)) \o Tail(q) = r \o q
    BY HeadMoves
  <2> QED BY <2>1, <2>2, Zenon
<1>3. /\ recvQueues' \in [Strands -> Seq(Nat)] /\ received' \in [Strands -> Seq(Nat)]
      /\ recvQueues'[d] = Tail(recvQueues[d])
      /\ received'[d] = Append(received[d], Head(recvQueues[d]))
      /\ \A s \in Strands : s # d => /\ recvQueues'[s] = recvQueues[s]
                                     /\ received'[s] = received[s]
  BY <1>1, <1>2 DEF ReceivingPart
<1>4. \A s \in Strands : received'[s] \o recvQueues'[s] = received[s] \o recvQueues[s]
  BY <1>2, <1>3
<1>5. \A s \in Strands : /\ AllReceived(s)' <=> AllReceived(s)
                         /\ SniffedFor(s)' = SniffedFor(s)
  BY <1>1, <1>4 DEF AllReceived, InHandFor, SniffedFor
<1>6. \A s \in Strands : IsPrefix(received[s] \o recvQueues[s], SniffedFor(s))'
  BY <1>4, <1>5 DEF ReceivingPart, ReceivedInOrder
<1>7. \A s \in Strands : Len(recvQueues'[s]) <= Capacity
  <2> TAKE s \in Strands
  <2>1. Len(Tail(recvQueues[d])) = Len(recvQueues[d]) - 1 /\ Len(recvQueues[d]) \in Nat
    BY <1>1
  <2>2. Len(recvQueues[s]) <= Capacity
    BY DEF ReceivingPart
  <2>3. CASE s = d
    <3>1. \A n \in Nat : n <= Capacity => n - 1 <= Capacity
      BY PostmanAssumption
    <3> QED BY <1>3, <2>1, <2>2, <2>3, <3>1
  <2> QED BY <1>3, <2>2, <2>3
<1>8. InTheHands' /\ NothingDropped' /\ ReceivedInOrder'
  BY <1>1, <1>5, <1>6 DEF ReceivingPart, InTheHands, NothingDropped, ReceivedInOrder
<1> QED BY <1>1, <1>3, <1>7, <1>8 DEF ReceivingPart
-----------------------------------------------------------------------------
(* The strands that send and the sending thread.                           *)

Seconds(out) == [i \in 1 .. Len(out) |-> out[i][2]]

LEMMA SecondsMore ==
  ASSUME NEW out \in Seq(Strands \X Nat), NEW t \in Strands, NEW x \in Nat
  PROVE  /\ Seconds(out) \in Seq(Nat)
         /\ Seconds(Append(out, <<t, x>>)) = Append(Seconds(out), x)
<1> DEFINE more == Append(out, <<t, x>>)
<1>1. /\ more \in Seq(Strands \X Nat) /\ Len(more) = Len(out) + 1 /\ Len(out) \in Nat
      /\ \A i \in 1 .. Len(out) : more[i] = out[i]
      /\ more[Len(out) + 1] = <<t, x>>
  <2>1. <<t, x>> \in Strands \X Nat
    OBVIOUS
  <2> QED BY <2>1, AppendProperties
<1> HIDE DEF more
<1>2. \A q \in Seq(Strands \X Nat) :
        /\ Seconds(q) \in Seq(Nat) /\ Len(Seconds(q)) = Len(q)
        /\ \A i \in 1 .. Len(q) : Seconds(q)[i] = q[i][2]
  <2> TAKE q \in Seq(Strands \X Nat)
  <2>1. \A i \in 1 .. Len(q) : q[i][2] \in Nat
    <3> TAKE i \in 1 .. Len(q)
    <3>1. q[i] \in Strands \X Nat
      OBVIOUS
    <3> QED BY <3>1
  <2> QED BY <2>1 DEF Seconds
<1>3. /\ Append(Seconds(out), x) \in Seq(Nat)
      /\ Len(Append(Seconds(out), x)) = Len(out) + 1
      /\ \A i \in 1 .. Len(out) : Append(Seconds(out), x)[i] = Seconds(out)[i]
      /\ Append(Seconds(out), x)[Len(out) + 1] = x
  <2>1. Seconds(out) \in Seq(Nat) /\ Len(Seconds(out)) = Len(out)
    BY <1>2
  <2> QED BY <2>1, AppendProperties
<1>4. ASSUME NEW i \in 1 .. Len(out) + 1
      PROVE  Seconds(more)[i] = Append(Seconds(out), x)[i]
  <2>1. Seconds(more)[i] = more[i][2]
    BY <1>1, <1>2
  <2>2. CASE i \in 1 .. Len(out)
    <3>1. more[i] = out[i] /\ Seconds(out)[i] = out[i][2]
      BY <1>1, <1>2, <2>2
    <3> QED BY <1>3, <2>1, <2>2, <3>1
  <2>3. CASE i = Len(out) + 1
    <3>1. more[i] = <<t, x>>
      BY <1>1, <2>3
    <3>2. more[i][2] = x
      BY <3>1
    <3>3. Append(Seconds(out), x)[i] = x
      BY <1>3, <2>3, Zenon
    <3> QED BY <2>1, <3>2, <3>3, Zenon
  <2> DEFINE n == Len(out)
  <2>4. n \in Nat
    BY <1>1
  <2>5. i \in 1 .. n \/ i = n + 1
    <3>1. i \in 1 .. n + 1
      OBVIOUS
    <3> HIDE DEF n
    <3> QED BY <2>4, <3>1
  <2> QED BY <2>2, <2>3, <2>5, Zenon
<1>5. Seconds(more) \in Seq(Nat) /\ Len(Seconds(more)) = Len(out) + 1
  BY <1>1, <1>2
<1>6. Seconds(more) = Append(Seconds(out), x)
  BY <1>3, <1>4, <1>5, SeqEqual
<1> QED BY <1>2, <1>6 DEF more

LEMMA SentByMore ==
  ASSUME sent \in Seq(Strands \X Nat), NEW s \in Strands
  PROVE  /\ SentBy(s) \in Seq(Nat)
         /\ \A t \in Strands, x \in Nat : sent' = Append(sent, <<t, x>>) =>
              SentBy(s)' = IF t = s THEN Append(SentBy(s), x) ELSE SentBy(s)
<1> DEFINE out == Selected(sent, {s} \X Nat)
<1>1. out \in Seq(Strands \X Nat) /\ SentBy(s) = Seconds(out)
  BY SelectedShape DEF SentBy, Seconds
<1>2. SentBy(s) \in Seq(Nat)
  <2>1. s \in Strands /\ 0 \in Nat
    OBVIOUS
  <2> HIDE DEF out
  <2> QED BY <1>1, <2>1, SecondsMore
<1>3. ASSUME NEW t \in Strands, NEW x \in Nat, sent' = Append(sent, <<t, x>>)
      PROVE  SentBy(s)' = IF t = s THEN Append(SentBy(s), x) ELSE SentBy(s)
  <2>1. <<t, x>> \in Strands \X Nat /\ (<<t, x>> \in {s} \X Nat <=> t = s)
    OBVIOUS
  <2>2. Selected(Append(sent, <<t, x>>), {s} \X Nat)
          = IF <<t, x>> \in {s} \X Nat THEN Append(out, <<t, x>>) ELSE out
    BY <2>1, SelectedAppend
  <2>3. SentBy(s)' = Seconds(Selected(Append(sent, <<t, x>>), {s} \X Nat))
    BY <1>3 DEF SentBy, Seconds
  <2> HIDE DEF out
  <2>4. Seconds(Append(out, <<t, x>>)) = Append(Seconds(out), x)
    BY <1>1, SecondsMore
  <2> QED BY <1>1, <2>1, <2>2, <2>3, <2>4
<1> QED BY <1>2, <1>3

\* nothing is lost between the strand and the wire
AllSent(s) == SentBy(s) \o BeingSent(s) \o sndQueues[s] = UpTo(taken[s])

LEMMA SentType ==
  ASSUME SendingPart, NEW s \in Strands
  PROVE  /\ SentBy(s) \in Seq(Nat) /\ BeingSent(s) \in Seq(Nat)
         /\ sndQueues[s] \in Seq(Nat) /\ taken[s] \in Nat
         /\ SentBy(s) \o BeingSent(s) \in Seq(Nat)
<1>1. SentBy(s) \in Seq(Nat) /\ BeingSent(s) \in Seq(Nat)
  BY SentByMore DEF SendingPart, BeingSent
<1> QED BY <1>1, ConcatProperties DEF SendingPart

LEMMA StrandNumbers ==
  /\ EndOfRound \in Nat \ Strands /\ Ended \notin Strands /\ EndOfRound # Ended
  /\ Strands = 0 .. EndOfRound - 1
<1>1. EndOfRound \in Nat
  BY PostmanAssumption, FS_CardinalityType DEF EndOfRound
<1>2. Strands = 0 .. EndOfRound - 1
  BY PostmanAssumption DEF EndOfRound
<1> HIDE DEF EndOfRound
<1> QED BY <1>1, <1>2 DEF Ended

LEMMA SendingKept ==
  ASSUME SendingPart, UNCHANGED <<sndQueues, sending, turn, taken, sent>>,
         closing => closing'
  PROVE  SendingPart'
<1>1. \A s \in Strands : SentBy(s)' = SentBy(s) /\ BeingSent(s)' = BeingSent(s)
  BY DEF SentBy, BeingSent
<1>2. SentInOrder'
  BY <1>1 DEF SendingPart, SentInOrder
<1> QED BY <1>2 DEF SendingPart, HandsEmpty

LEMMA SendInv ==
  ASSUME SendingPart, NEW d \in Strands, Send(d)
  PROVE  SendingPart'
<1>1. /\ taken[d] < ToSend[d] /\ Len(sndQueues[d]) < Capacity
      /\ sndQueues' = [sndQueues EXCEPT ![d] = Append(@, taken[d] + 1)]
      /\ taken' = [taken EXCEPT ![d] = @ + 1]
      /\ UNCHANGED <<sending, turn, sent, closing>>
      /\ sndQueues[d] \in Seq(Nat) /\ taken[d] \in Nat /\ ToSend[d] \in Nat
  BY PostmanAssumption DEF Send, SendingPart
<1>2. /\ sndQueues' \in [Strands -> Seq(Nat)] /\ taken' \in [Strands -> Nat]
      /\ sndQueues'[d] = Append(sndQueues[d], taken[d] + 1) /\ taken'[d] = taken[d] + 1
      /\ \A s \in Strands : s # d => sndQueues'[s] = sndQueues[s] /\ taken'[s] = taken[s]
      /\ Len(sndQueues'[d]) = Len(sndQueues[d]) + 1 /\ Len(sndQueues[d]) \in Nat
  BY <1>1 DEF SendingPart
<1>3. \A s \in Strands : SentBy(s)' = SentBy(s) /\ BeingSent(s)' = BeingSent(s)
  BY <1>1 DEF SentBy, BeingSent
<1>4. UpTo(taken[d]) \in Seq(Nat) /\ UpTo(taken'[d]) = Append(UpTo(taken[d]), taken[d] + 1)
  BY <1>1, <1>2, UpToMore
<1>5. ASSUME NEW s \in Strands
      PROVE  IsPrefix(SentBy(s), UpTo(taken[s]))' /\ (~closing' => AllSent(s)')
  <2>1. CASE s # d
    BY <1>1, <1>2, <1>3, <2>1 DEF SendingPart, SentInOrder, AllSent
  <2>2. CASE s = d
    <3>1. /\ SentBy(d) \in Seq(Nat) /\ BeingSent(d) \in Seq(Nat)
          /\ SentBy(d) \o BeingSent(d) \in Seq(Nat)
      BY SentType
    <3>2. IsPrefix(SentBy(d), Append(UpTo(taken[d]), taken[d] + 1))
      <4>1. IsPrefix(SentBy(d), UpTo(taken[d])) /\ taken[d] + 1 \in Nat
        BY <1>1 DEF SendingPart, SentInOrder
      <4> QED BY <1>4, <3>1, <4>1, PrefixAppend
    <3>3. ASSUME ~closing PROVE AllSent(d)'
      <4>1. (SentBy(d) \o BeingSent(d)) \o sndQueues[d] = UpTo(taken[d])
        BY <3>3 DEF SendingPart, SentInOrder
      <4>2. (SentBy(d) \o BeingSent(d)) \o Append(sndQueues[d], taken[d] + 1)
              = Append((SentBy(d) \o BeingSent(d)) \o sndQueues[d], taken[d] + 1)
        <5>1. \A r, q \in Seq(Nat), e \in Nat : r \o Append(q, e) = Append(r \o q, e)
          BY AppendConcat
        <5>2. taken[d] + 1 \in Nat /\ sndQueues[d] \in Seq(Nat)
          BY <1>1
        <5> QED BY <3>1, <5>1, <5>2, Zenon
      <4> QED BY <1>2, <1>3, <1>4, <4>1, <4>2 DEF AllSent
    <3> QED BY <1>1, <1>3, <1>4, <2>2, <3>2, <3>3
  <2> QED BY <2>1, <2>2
<1>6. \A s \in Strands : Len(sndQueues'[s]) <= Capacity /\ taken'[s] \in 0 .. ToSend[s]
  <2> TAKE s \in Strands
  <2>1. CASE s = d
    <3>1. Len(sndQueues[d]) + 1 <= Capacity
      BY <1>1, <1>2, PostmanAssumption
    <3> QED BY <1>1, <1>2, <2>1, <3>1
  <2>2. CASE s # d
    BY <1>2, <2>2 DEF SendingPart
  <2> QED BY <2>1, <2>2
<1>7. SentInOrder'
  BY <1>5 DEF SentInOrder, AllSent
<1> QED BY <1>1, <1>2, <1>6, <1>7 DEF SendingPart, HandsEmpty

LEMMA PopToSendInv == ASSUME SendingPart, PopToSend PROVE SendingPart'
<1>1. /\ turn \in Strands /\ sending = <<>> /\ sndQueues[turn] # <<>>
      /\ sending' = <<Head(sndQueues[turn])>>
      /\ sndQueues' = [sndQueues EXCEPT ![turn] = Tail(@)]
      /\ UNCHANGED <<turn, taken, sent, closing>>
      /\ sndQueues[turn] \in Seq(Nat)
  BY DEF PopToSend, SendingPart
<1>2. /\ Head(sndQueues[turn]) \in Nat /\ Tail(sndQueues[turn]) \in Seq(Nat)
      /\ Len(Tail(sndQueues[turn])) = Len(sndQueues[turn]) - 1
      /\ Len(sndQueues[turn]) \in Nat
      /\ sending' \in Seq(Nat) /\ Len(sending') = 1
  BY <1>1
<1>3. /\ sndQueues' \in [Strands -> Seq(Nat)]
      /\ sndQueues'[turn] = Tail(sndQueues[turn])
      /\ \A s \in Strands : s # turn => sndQueues'[s] = sndQueues[s]
  BY <1>1, <1>2 DEF SendingPart
<1>4. ASSUME NEW s \in Strands
      PROVE  IsPrefix(SentBy(s), UpTo(taken[s]))' /\ (~closing' => AllSent(s)')
  <2>1. SentBy(s)' = SentBy(s) /\ taken'[s] = taken[s]
    BY <1>1 DEF SentBy
  <2>2. /\ IsPrefix(SentBy(s), UpTo(taken[s]))
        /\ ~closing => (SentBy(s) \o BeingSent(s)) \o sndQueues[s] = UpTo(taken[s])
    BY DEF SendingPart, SentInOrder
  <2>3. CASE s # turn
    <3>1. BeingSent(s)' = <<>> /\ BeingSent(s) = <<>>
      BY <1>1, <2>3 DEF BeingSent
    <3> QED BY <1>1, <1>3, <2>1, <2>2, <2>3, <3>1 DEF AllSent
  <2>4. CASE s = turn
    <3>1. BeingSent(s)' = <<Head(sndQueues[s])>> /\ BeingSent(s) = <<>>
      BY <1>1, <2>4 DEF BeingSent
    <3>2. SentBy(s) \in Seq(Nat)
      BY SentType
    <3>3. (SentBy(s) \o <<Head(sndQueues[s])>>) \o Tail(sndQueues[s])
            = SentBy(s) \o sndQueues[s]
      <4>1. \A r, q \in Seq(Nat) : q # <<>> =>
              /\ Append(r, Head(q)) \o Tail(q) = r \o q
              /\ r \o <<Head(q)>> = Append(r, Head(q))
        <5> SUFFICES ASSUME NEW r \in Seq(Nat), NEW q \in Seq(Nat), q # <<>>
                     PROVE  /\ Append(r, Head(q)) \o Tail(q) = r \o q
                            /\ r \o <<Head(q)>> = Append(r, Head(q))
          OBVIOUS
        <5>1. Head(q) \in Nat /\ Append(r, Head(q)) \o Tail(q) = r \o q
          BY HeadMoves
        <5> DEFINE e == Head(q)
        <5>2. e \in Nat
          BY <5>1
        <5> HIDE DEF e
        <5>3. r \o <<e>> = Append(r, e)
          BY <5>2, AppendConcat
        <5> QED BY <5>1, <5>3, Zenon DEF e
      <4>2. sndQueues[s] \in Seq(Nat) /\ sndQueues[s] # <<>>
        BY <1>1, <2>4
      <4> QED BY <3>2, <4>1, <4>2, Zenon
    <3>4. SentBy(s) \o <<>> = SentBy(s)
      BY <3>2, ConcatEmptySeq
    <3> QED BY <1>1, <1>3, <2>1, <2>2, <2>4, <3>1, <3>3, <3>4 DEF AllSent
  <2> QED BY <2>3, <2>4
<1>5. \A s \in Strands : Len(sndQueues'[s]) <= Capacity
  <2> TAKE s \in Strands
  <2>1. Len(sndQueues[s]) <= Capacity
    BY DEF SendingPart
  <2>2. CASE s = turn
    <3>1. \A n \in Nat : n <= Capacity => n - 1 <= Capacity
      BY PostmanAssumption
    <3> QED BY <1>2, <1>3, <2>1, <2>2, <3>1
  <2> QED BY <1>3, <2>1, <2>2
<1>6. SentInOrder' /\ HandsEmpty'
  BY <1>1, <1>4 DEF SentInOrder, AllSent, HandsEmpty
<1> QED BY <1>1, <1>2, <1>3, <1>5, <1>6 DEF SendingPart

LEMMA SendToInv ==
  ASSUME SendingPart, closing \in BOOLEAN, SendTo PROVE SendingPart'
<1>1. /\ sending # <<>> /\ sending' = <<>> /\ sending \in Seq(Nat)
      /\ sent' = IF closing THEN sent ELSE Append(sent, <<turn, sending[1]>>)
      /\ UNCHANGED <<sndQueues, turn, taken, closing>>
  BY DEF SendTo, SendingPart
<1>2. turn \in Strands /\ Len(sending) = 1 /\ sending[1] \in Nat
      /\ <<turn, sending[1]>> \in Strands \X Nat
  <2>1. turn \in Strands
    BY <1>1 DEF SendingPart, HandsEmpty
  <2>2. Len(sending) = 1
    BY <1>1, Short DEF SendingPart
  <2> QED BY <1>1, <2>1, <2>2
<1>3. sent' \in Seq(Strands \X Nat)
  BY <1>1, <1>2 DEF SendingPart
<1>4. ASSUME NEW s \in Strands
      PROVE  IsPrefix(SentBy(s), UpTo(taken[s]))' /\ (~closing' => AllSent(s)')
  <2>1. /\ IsPrefix(SentBy(s), UpTo(taken[s]))
        /\ ~closing => (SentBy(s) \o BeingSent(s)) \o sndQueues[s] = UpTo(taken[s])
    BY DEF SendingPart, SentInOrder
  <2>2. /\ SentBy(s) \in Seq(Nat) /\ BeingSent(s) \in Seq(Nat)
        /\ sndQueues[s] \in Seq(Nat)
    BY SentType
  <2>3. BeingSent(s)' = <<>> /\ taken'[s] = taken[s] /\ sndQueues'[s] = sndQueues[s]
    BY <1>1 DEF BeingSent
  <2>4. CASE closing
    <3>1. SentBy(s)' = SentBy(s)
      BY <1>1, <2>4 DEF SentBy
    <3> QED BY <1>1, <2>1, <2>3, <2>4, <3>1
  <2>5. CASE ~closing
    <3>1. SentBy(s)' = IF turn = s THEN Append(SentBy(s), sending[1]) ELSE SentBy(s)
      BY <1>1, <1>2, <2>5, SentByMore DEF SendingPart
    <3>2. SentBy(s)' = SentBy(s) \o BeingSent(s)
      <4>1. CASE turn = s
        <5>1. sending = <<sending[1]>>
          BY <1>1, <1>2
        <5>2. SentBy(s) \o <<sending[1]>> = Append(SentBy(s), sending[1])
          <6>1. \A r \in Seq(Nat), e \in Nat : r \o <<e>> = Append(r, e)
            <7>1. <<>> \in Seq(Nat)
              OBVIOUS
            <7> QED BY <7>1, AppendConcat
          <6> QED BY <1>2, <2>2, <6>1, Zenon
        <5> QED BY <3>1, <4>1, <5>1, <5>2 DEF BeingSent
      <4>2. CASE turn # s
        <5>1. BeingSent(s) = <<>>
          BY <4>2 DEF BeingSent
        <5> QED BY <2>2, <3>1, <4>2, <5>1, ConcatEmptySeq
      <4> QED BY <4>1, <4>2
    <3>3. SentBy(s)' \in Seq(Nat)
      BY <2>2, <3>2, ConcatProperties
    <3>4. SentBy(s)' \o <<>> = SentBy(s)'
      BY <3>3, ConcatEmptySeq
    <3>5. SentBy(s)' \o sndQueues[s] = UpTo(taken[s])
      BY <2>1, <2>5, <3>2
    <3>6. IsPrefix(SentBy(s)', UpTo(taken[s]))
      BY <2>2, <3>3, <3>5, PrefixConcat
    <3> QED BY <2>3, <3>4, <3>5, <3>6 DEF AllSent
  <2> QED BY <2>4, <2>5
<1>5. SentInOrder' /\ HandsEmpty'
  BY <1>1, <1>4 DEF SentInOrder, AllSent, HandsEmpty
<1> QED BY <1>1, <1>3, <1>5, EmptySeq DEF SendingPart

LEMMA TurnInv == ASSUME SendingPart, NextQueue \/ NextRound PROVE SendingPart'
<1>1. /\ sending = <<>> /\ turn' \in {Ended, EndOfRound} \cup Strands
      /\ UNCHANGED <<sndQueues, sending, taken, sent, closing>>
  <2>1. CASE NextQueue
    <3>1. turn \in Strands => turn + 1 \in {EndOfRound} \cup Strands
      BY StrandNumbers
    <3> QED BY <2>1, <3>1 DEF NextQueue
  <2>2. CASE NextRound
    <3>1. turn \notin Strands /\ 0 \in {EndOfRound} \cup Strands
      BY <2>2, StrandNumbers DEF NextRound
    <3> QED BY <2>2, <3>1 DEF NextRound, SendingPart, HandsEmpty
  <2> QED BY <2>1, <2>2
<1>2. \A s \in Strands : /\ SentBy(s)' = SentBy(s)
                         /\ BeingSent(s)' = <<>> /\ BeingSent(s) = <<>>
  BY <1>1 DEF SentBy, BeingSent
<1>3. SentInOrder' /\ HandsEmpty'
  BY <1>1, <1>2 DEF SendingPart, SentInOrder, HandsEmpty
<1> QED BY <1>1, <1>3 DEF SendingPart
-----------------------------------------------------------------------------
LEMMA InitInv == ASSUME Init PROVE PostmanInv
<1>1. CascadePart
  <2>1. /\ blocks = <<>> /\ count = 0 /\ producer = "idle" /\ forwarder = "opening"
        /\ held = <<>> /\ reader = FALSE /\ departures = 0 /\ accepted = <<>>
        /\ forwarded = <<>> /\ lost = <<>> /\ sniffed = 0
    BY DEF Init, CascadeInit
  <2>2. <<>> \in Seq(Nat) /\ Len(<<>>) = 0
    OBVIOUS
  <2>3. CascadeTypes
    <3>1. reader \in BOOLEAN
      BY <2>1, Zenon
    <3> QED BY <2>1, <2>2, <3>1 DEF CascadeTypes
  <2>4. OneLostPerReader /\ Ascending /\ Newest
    BY <2>1, <2>2 DEF OneLostPerReader, Ascending, Rising, Below, Newest
  <2>5. CountAccounts /\ LossPaidFor
    BY <2>1, <2>2 DEF CountAccounts, NotSubtracted, NotAdded, LossPaidFor
  <2> QED BY <2>1, <2>2, <2>3, <2>4, <2>5, CascadeAssumption DEF CascadePart
<1>2. UpTo(0) = <<>>
  BY DEF UpTo
<1>3. ReceivingPart
  <2>1. /\ receiver = "testing" /\ sniffed = 0 /\ Len(Dest) \in Nat
        /\ \A s \in Strands : recvQueues[s] = <<>> /\ received[s] = <<>>
        /\ recvQueues \in [Strands -> Seq(Nat)] /\ received \in [Strands -> Seq(Nat)]
    BY PostmanAssumption DEF Init
  <2>2. ASSUME NEW s \in Strands
        PROVE  AllReceived(s) /\ IsPrefix(received[s] \o recvQueues[s], SniffedFor(s))
    <3>1. SniffedFor(s) = <<>>
      BY <1>2, <2>1, SelectedEmpty DEF SniffedFor
    <3>2. InHandFor(s) = <<>>
      BY <2>1 DEF InHandFor
    <3>3. <<>> \o <<>> = <<>>
      OBVIOUS
    <3>4. AllReceived(s)
      BY <2>1, <3>1, <3>2, <3>3 DEF AllReceived
    <3>5. sniffed \in Nat /\ received[s] \in Seq(Nat) /\ recvQueues[s] \in Seq(Nat)
      BY <2>1
    <3> QED BY <3>4, <3>5, AllIsPrefix
  <2>3. \A s \in Strands : Len(recvQueues[s]) <= Capacity
    BY <2>1, PostmanAssumption
  <2>4. ReceivedInOrder /\ InTheHands /\ NothingDropped
    BY <2>1, <2>2 DEF ReceivedInOrder, InTheHands, NothingDropped
  <2> QED BY <2>1, <2>3, <2>4 DEF ReceivingPart
<1>4. SendingPart
  <2>1. /\ sending = <<>> /\ sent = <<>> /\ turn = 0
        /\ \A s \in Strands : sndQueues[s] = <<>> /\ taken[s] = 0
        /\ sndQueues \in [Strands -> Seq(Nat)] /\ taken \in [Strands -> Nat]
        /\ sending \in Seq(Nat) /\ sent \in Seq(Strands \X Nat) /\ Len(sending) = 0
    BY DEF Init
  <2>2. \A s \in Strands : /\ Len(sndQueues[s]) <= Capacity
                           /\ taken[s] \in 0 .. ToSend[s]
    BY <2>1, PostmanAssumption
  <2>3. turn \in {Ended, EndOfRound} \cup Strands
    BY <2>1, StrandNumbers
  <2>4. ASSUME NEW s \in Strands
        PROVE  IsPrefix(SentBy(s), UpTo(taken[s])) /\ AllSent(s)
    <3>1. SentBy(s) = <<>>
      <4>1. Selected(sent, {s} \X Nat) = <<>>
        BY <2>1, SelectedEmpty
      <4>2. SentBy(s) = [i \in 1 .. Len(<<>>) |-> <<>>[i][2]]
        BY <4>1 DEF SentBy
      <4>3. 1 .. Len(<<>>) = {}
        OBVIOUS
      <4>4. SentBy(s) \in Seq(Nat) /\ Len(SentBy(s)) = 0
        BY <4>2, <4>3
      <4> QED BY <4>4, EmptySeq
    <3>2. BeingSent(s) = <<>>
      BY <2>1 DEF BeingSent
    <3>3. <<>> \o <<>> = <<>> /\ <<>> \in Seq(Nat)
      OBVIOUS
    <3>4. AllSent(s)
      BY <1>2, <2>1, <3>1, <3>2, <3>3 DEF AllSent
    <3>5. IsPrefix(<<>>, <<>> \o <<>>)
      BY <3>3, PrefixConcat
    <3> QED BY <1>2, <2>1, <3>1, <3>3, <3>4, <3>5
  <2>5. SentInOrder /\ HandsEmpty
    BY <2>1, <2>4 DEF SentInOrder, AllSent, HandsEmpty
  <2> QED BY <2>1, <2>2, <2>3, <2>5 DEF SendingPart
<1>5. Flags
  BY Zenon DEF Init, CascadeInit, Flags
<1> QED BY <1>1, <1>3, <1>4, <1>5, InParts

LEMMA PostmanReceiverInv == ASSUME PostmanInv, Receiver PROVE PostmanInv'
<1>1. CascadePart /\ ReceivingPart /\ SendingPart /\ Flags
  BY InParts
<1>2. UNCHANGED <<sndQueues, sending, turn, taken, sent, closing, done, running>>
  BY DEF Receiver, Read, EndReceiver, Sniff, NotOurs, CopyToCascade, DropAtExit, Enqueue,
         CascadePush, PushBack, Count, Notify, cascade, sendingSide
<1>3. SendingPart' /\ Flags'
  BY <1>1, <1>2, SendingKept DEF Flags
<1>4. CASE Read \/ EndReceiver \/ NotOurs \/ DropAtExit
  <2>1. /\ UNCHANGED <<blocks, count, producer, forwarder, held, reader, departures,
                       accepted, forwarded, lost, sniffed, recvQueues, received, closing>>
        /\ \/ receiver = "testing" /\ receiver' = "reading" /\ ~closing
           \/ receiver = "testing" /\ receiver' = "ended" /\ closing
           \/ receiver = "reading" /\ receiver' = "testing"
           \/ receiver = "copying" /\ receiver' = "testing" /\ closing
    BY <1>4 DEF Read, EndReceiver, NotOurs, DropAtExit, cascade, fifo, history
  <2>2. sniffed' \in Nat /\ (receiver' = "copying" => receiver = "copying")
    BY <1>1, <2>1 DEF CascadePart
  <2>3. CascadePart'
    BY <1>1, <2>1, <2>2, CascadeKept
  <2>4. ReceivingPart'
    BY <1>1, <2>1, MoveReceiver
  <2> QED BY <1>3, <2>3, <2>4, InPartsNext
<1>5. CASE Sniff
  <2>1. ReceivingPart' /\ sniffed' = sniffed + 1 /\ sniffed' \in Nat
    BY <1>1, <1>5, SniffInv DEF CascadePart
  <2>2. UNCHANGED <<blocks, count, producer, forwarder, held, reader, departures,
                    accepted, forwarded, lost>>
    BY <1>5 DEF Sniff, cascade, fifo, history
  <2>3. CascadePart'
    BY <1>1, <2>1, <2>2, CascadeKept
  <2> QED BY <1>3, <2>1, <2>3, InPartsNext
<1>6. CASE CopyToCascade
  <2>1. /\ receiver = "copying" /\ receiver' = "copied" /\ PushBack(sniffed)
        /\ UNCHANGED <<sniffed, recvQueues, received, closing>>
    BY <1>6 DEF CopyToCascade
  <2>2. CascadePart'
    BY <1>1, <2>1, PushBackInv
  <2>3. ReceivingPart'
    BY <1>1, <2>1, MoveReceiver
  <2> QED BY <1>3, <2>2, <2>3, InPartsNext
<1>7. CASE Enqueue
  <2>1. ReceivingPart'
    BY <1>1, <1>7, EnqueueInv
  <2>2. /\ UNCHANGED <<blocks, count, producer, forwarder, held, reader, departures,
                       accepted, forwarded, lost, sniffed>>
        /\ receiver' = "testing" /\ sniffed' \in Nat
    BY <1>1, <1>7 DEF Enqueue, cascade, fifo, history, CascadePart
  <2>3. CascadePart'
    BY <1>1, <2>2, CascadeKept
  <2> QED BY <1>3, <2>1, <2>3, InPartsNext
<1>8. CASE CascadePush
  <2>1. UNCHANGED <<receiver, sniffed, recvQueues, received>> /\ (Count \/ Notify)
    BY <1>8 DEF CascadePush, receiving
  <2>2. CascadePart'
    BY <1>1, <2>1, ForwarderInv
  <2>3. ReceivingPart'
    BY <1>1, <1>2, <2>1, ReceivingKept
  <2> QED BY <1>3, <2>2, <2>3, InPartsNext
<1> QED BY <1>4, <1>5, <1>6, <1>7, <1>8 DEF Receiver

(* A step outside the receiving thread that leaves the cascade alone.      *)
LEMMA OtherInv ==
  ASSUME PostmanInv, ReceivingPart', SendingPart', Flags',
         UNCHANGED <<blocks, count, producer, forwarder, held, reader, departures,
                     accepted, forwarded, lost, sniffed, receiver>>
  PROVE  PostmanInv'
<1>1. CascadePart
  BY InParts
<1>2. sniffed' \in Nat
  BY <1>1 DEF CascadePart
<1>3. CascadePart'
  BY <1>1, <1>2, CascadeKept
<1> QED BY <1>3, InPartsNext

LEMMA StrandStepInv ==
  ASSUME PostmanInv, NEW s \in Strands, Recv(s) \/ Send(s) PROVE PostmanInv'
<1>1. CascadePart /\ ReceivingPart /\ SendingPart /\ Flags
  BY InParts
<1>2. /\ UNCHANGED <<blocks, count, producer, forwarder, held, reader, departures,
                     accepted, forwarded, lost, sniffed, receiver>>
      /\ UNCHANGED <<done, closing, running>>
  BY DEF Recv, Send, cascade, fifo, history, receiving
<1>3. CASE Recv(s)
  <2>1. SendingPart'
    BY <1>1, <1>3, SendingKept DEF Recv, sendingSide
  <2> QED BY <1>1, <1>2, <1>3, <2>1, RecvInv, OtherInv DEF Flags
<1>4. CASE Send(s)
  <2>1. ReceivingPart'
    BY <1>1, <1>4, ReceivingKept DEF Send, receiving
  <2> QED BY <1>1, <1>2, <1>4, <2>1, SendInv, OtherInv DEF Flags
<1> QED BY <1>3, <1>4

LEMMA SenderInv == ASSUME PostmanInv, Sender PROVE PostmanInv'
<1>1. CascadePart /\ ReceivingPart /\ SendingPart /\ Flags
  BY InParts
<1>2. /\ UNCHANGED <<blocks, count, producer, forwarder, held, reader, departures,
                     accepted, forwarded, lost, sniffed, receiver>>
      /\ UNCHANGED <<done, closing, running, recvQueues, received>>
  BY DEF Sender, PopToSend, SendTo, NextQueue, NextRound, cascade, fifo, history, receiving
<1>3. ReceivingPart'
  BY <1>1, <1>2, ReceivingKept
<1>4. closing \in BOOLEAN
  BY <1>1, Zenon DEF Flags
<1>5. SendingPart'
  BY <1>1, <1>4, PopToSendInv, SendToInv, TurnInv DEF Sender
<1> QED BY <1>1, <1>2, <1>3, <1>5, OtherInv DEF Flags

LEMMA CascadeThreadInv ==
  ASSUME PostmanInv, CascadeThread \/ FifoReader PROVE PostmanInv'
<1>1. CascadePart /\ ReceivingPart /\ SendingPart /\ Flags
  BY InParts
<1>2. /\ UNCHANGED <<receiver, sniffed, recvQueues, received, sndQueues, sending, turn,
                     taken, sent, closing, running>>
      /\ Forwarder \/ Environment
  BY DEF CascadeThread, FifoReader, receiving, sendingSide
<1>3. UNCHANGED done
  BY <1>2 DEF Forwarder, Environment, Open, Quit, PopBlock, NothingToDo, AssertFails,
         Uncount, Write, WriteFails, FallAsleep, TimedOut, ReaderComes, ReaderGoes
<1>4. CascadePart'
  BY <1>1, <1>2, ForwarderInv
<1>5. ReceivingPart' /\ SendingPart' /\ Flags'
  BY <1>1, <1>2, <1>3, ReceivingKept, SendingKept DEF Flags
<1> QED BY <1>4, <1>5, InPartsNext

LEMMA ExitInv == ASSUME PostmanInv, Exit PROVE PostmanInv'
<1>1. CascadePart /\ ReceivingPart /\ SendingPart /\ Flags
  BY InParts
<1>2. /\ UNCHANGED <<blocks, count, producer, forwarder, held, reader, departures,
                     accepted, forwarded, lost, sniffed, receiver, recvQueues,
                     received, sndQueues, sending, turn, taken, sent>>
      /\ closing => closing'
  BY DEF Exit, StopStrands, Close, StopCascade, Stop, cascade, fifo, history, receiving,
         sendingSide
<1>3. Flags'
  BY <1>1, Zenon DEF Exit, StopStrands, Close, StopCascade, Stop, cascade, Flags
<1> QED BY <1>1, <1>2, <1>3, ReceivingKept, SendingKept, OtherInv

LEMMA StutterInv == ASSUME PostmanInv, UNCHANGED vars PROVE PostmanInv'
<1>1. CascadePart /\ ReceivingPart /\ SendingPart /\ Flags
  BY InParts
<1>2. /\ UNCHANGED <<blocks, count, producer, forwarder, held, reader, departures,
                     accepted, forwarded, lost, sniffed, receiver, recvQueues,
                     received, sndQueues, sending, turn, taken, sent>>
      /\ UNCHANGED <<closing, done, running>>
  BY DEF vars, cascade, fifo, history, receiving, sendingSide
<1> QED BY <1>1, <1>2, ReceivingKept, SendingKept, OtherInv DEF Flags

(* The inductive invariant of the postman and the cascade.                 *)
THEOREM PostmanSafety == Spec => []PostmanInv
<1>1. Init => PostmanInv
  BY InitInv
<1>2. PostmanInv /\ [Next]_vars => PostmanInv'
  <2> SUFFICES ASSUME PostmanInv, [Next]_vars PROVE PostmanInv'
    OBVIOUS
  <2>1. CASE UNCHANGED vars
    BY <2>1, StutterInv
  <2>2. CASE Next
    BY <2>2, StutterInv, PostmanReceiverInv, SenderInv, CascadeThreadInv, ExitInv, StrandStepInv
       DEF Next, Over
  <2> QED BY <2>1, <2>2
<1> QED BY <1>1, <1>2, PTL DEF Spec

(* _count is the length of the queue but for the block each thread has in  *)
(* its hand; blocks reach the FIFO in order and each reader that goes      *)
(* away costs one of them at most.                                         *)
THEOREM CascadeAccounts == Spec => []Accounts
<1>1. PostmanInv => Accounts
  BY DEF PostmanInv
<1> QED BY <1>1, PostmanSafety, PTL

(* Every strand is given what was sniffed for it, once and in order, but   *)
(* for what is in its queue or in a hand.                                  *)
THEOREM OrderReceived == Spec => []ReceivedInOrder
<1>1. PostmanInv => ReceivedInOrder
  BY DEF PostmanInv
<1> QED BY <1>1, PostmanSafety, PTL

(* What a strand sends goes out once, in order, and none of it is lost     *)
(* before the process ends.                                                *)
THEOREM OrderSent == Spec => []SentInOrder
<1>1. PostmanInv => SentInOrder
  BY DEF PostmanInv
<1> QED BY <1>1, PostmanSafety, PTL

-----------------------------------------------------------------------------
(***************************************************************************)
(* tcp_postman's own receiving thread, whatever the connections bring.     *)
(***************************************************************************)
LEMMA PacketsAssociate ==
  \A p, q, r \in Seq(Packets) : (p \o q) \o r = p \o (q \o r)
BY ConcatAssociative

(* Packets in units: of two sequences, of none, of one.                    *)
LEMMA HeadIs ==
  ASSUME NEW u \in Units
  PROVE  /\ u \in OurHeads <=> u.kind = "head" /\ u.ours
         /\ u \in OurHeads => u.pkt \in Packets /\ u.len \in Nat /\ u.len >= 1
<1>1. u \in OurHeads <=> u.kind = "head" /\ u.ours
  BY DEF OurHeads
<1>2. u \in OurHeads => u.pkt \in Packets /\ u.len \in Nat /\ u.len >= 1
  BY DEF Units, OurHeads
<1> QED BY <1>1, <1>2

LEMMA PacketsParts ==
  ASSUME NEW s \in Seq(Units)
  PROVE  /\ Selected(s, OurHeads) \in Seq(Units) /\ PacketsOf(s) \in Seq(Packets)
         /\ Len(PacketsOf(s)) = Len(Selected(s, OurHeads))
         /\ \A i \in 1 .. Len(Selected(s, OurHeads)) :
                PacketsOf(s)[i] = Selected(s, OurHeads)[i].pkt
<1> DEFINE h == Selected(s, OurHeads)
<1>1. h \in Seq(Units) /\ Range(h) \subseteq OurHeads
  BY SelectedShape
<1>2. \A i \in 1 .. Len(h) : h[i].pkt \in Packets
  <2> TAKE i \in 1 .. Len(h)
  <2>1. h[i] \in Range(h)
    BY <1>1, RangeOf
  <2>2. h[i] \in OurHeads
    BY <1>1, <2>1
  <2> QED BY <2>2, HeadIs DEF OurHeads
<1>3. PacketsOf(s) = [i \in 1 .. Len(h) |-> h[i].pkt]
  BY DEF PacketsOf
<1> HIDE DEF h
<1>4. Len(h) \in Nat
  BY <1>1
<1>5. PacketsOf(s) \in Seq(Packets) /\ Len(PacketsOf(s)) = Len(h)
  BY <1>2, <1>3, <1>4
<1>6. \A i \in 1 .. Len(h) : PacketsOf(s)[i] = h[i].pkt
  BY <1>3
<1> QED BY <1>1, <1>5, <1>6 DEF h

LEMMA PacketsConcat ==
  ASSUME NEW s \in Seq(Units), NEW t \in Seq(Units)
  PROVE  PacketsOf(s \o t) = PacketsOf(s) \o PacketsOf(t)
<1> DEFINE a == Selected(s, OurHeads)
           b == Selected(t, OurHeads)
           p == PacketsOf(s)
           q == PacketsOf(t)
           r == PacketsOf(s \o t)
<1>1. /\ a \in Seq(Units) /\ b \in Seq(Units)
      /\ p \in Seq(Packets) /\ Len(p) = Len(a) /\ \A i \in 1 .. Len(a) : p[i] = a[i].pkt
      /\ q \in Seq(Packets) /\ Len(q) = Len(b) /\ \A i \in 1 .. Len(b) : q[i] = b[i].pkt
  BY PacketsParts
<1>2. s \o t \in Seq(Units) /\ Selected(s \o t, OurHeads) = a \o b
  BY SelectedConcat
<1>3. /\ r \in Seq(Packets) /\ Len(r) = Len(a \o b)
      /\ \A i \in 1 .. Len(a \o b) : r[i] = (a \o b)[i].pkt
  BY <1>2, PacketsParts
<1> HIDE DEF a, b, p, q, r
<1>4. /\ Len(a \o b) = Len(a) + Len(b) /\ Len(a) \in Nat /\ Len(b) \in Nat
      /\ \A i \in 1 .. Len(a) + Len(b) : (a \o b)[i] = IF i <= Len(a) THEN a[i] ELSE b[i - Len(a)]
  BY <1>1, ConcatProperties
<1>5. /\ p \o q \in Seq(Packets) /\ Len(p \o q) = Len(a) + Len(b)
      /\ \A i \in 1 .. Len(a) + Len(b) : (p \o q)[i] = IF i <= Len(a) THEN p[i] ELSE q[i - Len(a)]
  <2>1. /\ p \o q \in Seq(Packets) /\ Len(p \o q) = Len(p) + Len(q)
        /\ \A i \in 1 .. Len(p) + Len(q) :
              (p \o q)[i] = IF i <= Len(p) THEN p[i] ELSE q[i - Len(p)]
    <3>1. p \in Seq(Packets) /\ q \in Seq(Packets)
      BY <1>1
    <3> QED BY <3>1, ConcatProperties
  <2>2. Len(p) = Len(a) /\ Len(q) = Len(b)
    BY <1>1
  <2> QED BY <2>1, <2>2
<1>6. ASSUME NEW i \in 1 .. Len(a) + Len(b) PROVE r[i] = (p \o q)[i]
  <2>1. CASE i <= Len(a)
    <3>1. i \in 1 .. Len(a)
      BY <2>1
    <3> QED BY <1>1, <1>3, <1>4, <1>5, <2>1, <3>1
  <2>2. CASE ~(i <= Len(a))
    <3>1. i - Len(a) \in 1 .. Len(b)
      BY <1>4, <2>2
    <3> QED BY <1>1, <1>3, <1>4, <1>5, <2>2, <3>1
  <2> QED BY <2>1, <2>2
<1>7. r = p \o q
  BY <1>3, <1>4, <1>5, <1>6, SeqEqual
<1> QED BY <1>7 DEF p, q, r

LEMMA PacketsNone ==
  ASSUME NEW s \in Seq(Units), \A i \in 1 .. Len(s) : s[i] \notin OurHeads
  PROVE  PacketsOf(s) = <<>>
<1>1. Range(Selected(s, OurHeads)) = {}
  <2>1. Range(s) = {s[i] : i \in 1 .. Len(s)}
    BY RangeOf
  <2> QED BY <2>1, SelectedShape
<1>2. Len(Selected(s, OurHeads)) = 0
  <2> DEFINE h == Selected(s, OurHeads)
  <2>1. h \in Seq(Units) /\ \A i \in 1 .. Len(h) : h[i] \in Range(h)
    BY PacketsParts, RangeOf
  <2> HIDE DEF h
  <2>2. Len(h) > 0 => 1 \in 1 .. Len(h)
    BY <2>1
  <2> QED BY <1>1, <2>1, <2>2 DEF h
<1> QED BY <1>2, PacketsParts

LEMMA PacketsOne ==
  ASSUME NEW u \in OurHeads, u \in Units
  PROVE  PacketsOf(<<u>>) = <<u.pkt>>
<1>1. Selected(<<>>, OurHeads) = <<>> /\ Append(<<>>, u) = <<u>> /\ <<>> \in Seq(Units)
  BY SelectedEmpty
<1>2. Selected(<<u>>, OurHeads) = <<u>>
  BY <1>1, SelectedAppend
<1>3. Len(<<u>>) = 1 /\ <<u>>[1] = u
  OBVIOUS
<1>4. PacketsOf(<<u>>) = [i \in 1 .. 1 |-> u.pkt]
  <2>1. Selected(<<u>>, OurHeads) = <<u>>
    BY <1>2
  <2> QED BY <1>3, <2>1 DEF PacketsOf
<1>5. <<u.pkt>> = [i \in 1 .. 1 |-> u.pkt]
  OBVIOUS
<1> QED BY <1>4, <1>5

(* What was pushed for a connection.                                       *)
From(q, c) == LET from == Selected(q, {c} \X Packets)
              IN  [i \in 1 .. Len(from) |-> from[i][2]]

LEMMA FromType ==
  ASSUME NEW q \in Seq(Conns \X Packets), NEW c
  PROVE  /\ Selected(q, {c} \X Packets) \in Seq(Conns \X Packets)
         /\ From(q, c) \in Seq(Packets)
<1> DEFINE f == Selected(q, {c} \X Packets)
<1>1. f \in Seq(Conns \X Packets)
  BY SelectedShape
<1>2. From(q, c) = [i \in 1 .. Len(f) |-> f[i][2]]
  BY DEF From
<1> HIDE DEF f
<1>3. Len(f) \in Nat /\ \A i \in 1 .. Len(f) : f[i][2] \in Packets
  BY <1>1
<1>4. From(q, c) \in Seq(Packets)
  BY <1>2, <1>3
<1> QED BY <1>1, <1>4 DEF f

LEMMA FromAppend ==
  ASSUME NEW q \in Seq(Conns \X Packets), NEW c, NEW d \in Conns, NEW p \in Packets
  PROVE  From(Append(q, <<d, p>>), c) = IF d = c THEN Append(From(q, c), p) ELSE From(q, c)
<1> DEFINE f == Selected(q, {c} \X Packets)
           e == <<d, p>>
<1>1. e \in Conns \X Packets /\ (e \in {c} \X Packets <=> d = c) /\ e[2] = p
  OBVIOUS
<1> HIDE DEF e
<1>2. /\ Selected(Append(q, e), {c} \X Packets) = IF e \in {c} \X Packets THEN Append(f, e) ELSE f
      /\ f \in Seq(Conns \X Packets)
  <2> DEFINE C == Conns \X Packets
             K == {c} \X Packets
  <2>1. e \in C /\ q \in Seq(C)
    BY <1>1
  <2> HIDE DEF C, K
  <2>2. Selected(q, K) \in Seq(C)
    BY <2>1, SelectedShape
  <2>3. Selected(Append(q, e), K) = IF e \in K THEN Append(Selected(q, K), e)
                                    ELSE Selected(q, K)
    BY <2>1, SelectedAppend
  <2> QED BY <2>2, <2>3 DEF C, K
<1>3. /\ From(q, c) = [i \in 1 .. Len(f) |-> f[i][2]]
      /\ d # c => From(Append(q, e), c) = [i \in 1 .. Len(f) |-> f[i][2]]
      /\ d = c => From(Append(q, e), c) = [i \in 1 .. Len(Append(f, e)) |-> Append(f, e)[i][2]]
  BY <1>1, <1>2 DEF From
<1>4. ASSUME d = c PROVE From(Append(q, e), c) = Append(From(q, c), p)
  <2> DEFINE g == Append(f, e)
             r == From(q, c)
             t == From(Append(q, e), c)
  <2>1. /\ g \in Seq(Conns \X Packets) /\ Len(g) = Len(f) + 1 /\ g[Len(f) + 1] = e
        /\ \A i \in 1 .. Len(f) : g[i] = f[i]
    BY <1>1, <1>2, AppendProperties
  <2>2. r = [i \in 1 .. Len(f) |-> f[i][2]] /\ t = [i \in 1 .. Len(g) |-> g[i][2]]
    BY <1>3, <1>4
  <2> HIDE DEF f, g, r, t
  <2>3. /\ Len(f) \in Nat /\ \A i \in 1 .. Len(f) : f[i][2] \in Packets
        /\ Len(g) \in Nat /\ \A i \in 1 .. Len(g) : g[i][2] \in Packets
    BY <1>2, <2>1
  <2>4. /\ r \in Seq(Packets) /\ Len(r) = Len(f) /\ \A i \in 1 .. Len(f) : r[i] = f[i][2]
        /\ t \in Seq(Packets) /\ Len(t) = Len(g) /\ \A i \in 1 .. Len(g) : t[i] = g[i][2]
    BY <2>2, <2>3
  <2>5. /\ Append(r, p) \in Seq(Packets) /\ Len(Append(r, p)) = Len(r) + 1
        /\ Append(r, p)[Len(r) + 1] = p /\ \A i \in 1 .. Len(r) : Append(r, p)[i] = r[i]
    BY <2>4, AppendProperties
  <2>6. ASSUME NEW i \in 1 .. Len(t) PROVE t[i] = Append(r, p)[i]
    <3>1. i \in 1 .. Len(f) \/ i = Len(f) + 1
      BY <2>1, <2>3, <2>4
    <3> QED BY <1>1, <2>1, <2>4, <2>5, <3>1
  <2>7. t = Append(r, p)
    BY <2>1, <2>4, <2>5, <2>6, SeqEqual
  <2> QED BY <2>7 DEF r, t
<1> QED BY <1>3, <1>4 DEF e

(* Packets stay apart in what comes before, and in what comes behind.      *)
LEMMA ApartParts ==
  ASSUME NEW s \in Seq(Units), NEW t \in Seq(Units), Apart(s \o t)
  PROVE  Apart(s) /\ Apart(t)
<1>1. /\ s \o t \in Seq(Units) /\ Len(s \o t) = Len(s) + Len(t)
      /\ Len(s) \in Nat /\ Len(t) \in Nat
      /\ \A i \in 1 .. Len(s) : i \in 1 .. Len(s \o t) /\ (s \o t)[i] = s[i]
      /\ \A i \in 1 .. Len(t) :
            i + Len(s) \in 1 .. Len(s \o t) /\ (s \o t)[i + Len(s)] = t[i]
  <2>1. /\ s \o t \in Seq(Units) /\ Len(s \o t) = Len(s) + Len(t)
        /\ Len(s) \in Nat /\ Len(t) \in Nat
        /\ \A i \in 1 .. Len(s) + Len(t) :
              (s \o t)[i] = IF i <= Len(s) THEN s[i] ELSE t[i - Len(s)]
    BY ConcatProperties
  <2>2. \A i \in 1 .. Len(s) : i \in 1 .. Len(s) + Len(t) /\ i <= Len(s)
    BY <2>1
  <2>3. \A i \in 1 .. Len(t) : /\ i + Len(s) \in 1 .. Len(s) + Len(t)
                               /\ ~(i + Len(s) <= Len(s)) /\ (i + Len(s)) - Len(s) = i
    BY <2>1
  <2> QED BY <2>1, <2>2, <2>3
<1> DEFINE st == s \o t
<1>2. \A i, j \in 1 .. Len(st) :
         i < j /\ {st[i], st[j]} \subseteq OurHeads => j >= i + st[i].len
  BY DEF Apart
<1> HIDE DEF st
<1>3. Apart(s)
  BY <1>1, <1>2 DEF Apart, st
<1>4. ASSUME NEW i \in 1 .. Len(t), NEW j \in 1 .. Len(t), i < j,
             {t[i], t[j]} \subseteq OurHeads
      PROVE  j >= i + t[i].len
  <2>1. t[i].len \in Nat
    BY <1>4, HeadIs
  <2>2. i + Len(s) < j + Len(s) => j + Len(s) >= (i + Len(s)) + t[i].len
    BY <1>1, <1>2, <1>4 DEF st
  <2> QED BY <1>1, <1>4, <2>1, <2>2
<1> QED BY <1>3, <1>4 DEF Apart

-----------------------------------------------------------------------------
(* Types.                                                                  *)

LEMMA FeedFacts ==
  ASSUME Fed
  PROVE  /\ Len(Feeds) \in Nat /\ BufferLen \in Nat /\ BufferLen > 0
         /\ \A c \in Conns : /\ Feeds[c] \in Seq(Units) /\ Apart(Feeds[c])
                              /\ PacketsOf(Feeds[c]) \in Seq(Packets)
<1>1. Len(Feeds) \in Nat /\ \A c \in Conns : Feeds[c] \in Seq(Units)
  BY DEF Fed, Conns
<1> QED BY <1>1, PacketsParts DEF Fed

(* While a connection is open it is the last that was accepted.            *)
LEMMA OpenConn ==
  ASSUME Fed, TcpTypeOK, conn # NoConn
  PROVE  /\ conn = acceptedConns /\ conn \in Conns /\ conn <= arrived
         /\ wire[conn] \in Seq(Units) /\ buf \in Seq(Units)
<1>1. conn = acceptedConns /\ acceptedConns \in 0 .. arrived /\ arrived \in 0 .. Len(Feeds) /\ conn # 0
  BY DEF TcpTypeOK, SocketTyped, NoConn
<1>2. conn \in Conns /\ conn <= arrived
  BY <1>1, FeedFacts DEF Conns
<1> QED BY <1>1, <1>2 DEF TcpTypeOK, SocketTyped, BufferTyped

LEMMA SocketStays ==
  ASSUME SocketTyped, UNCHANGED <<network, socket>> PROVE SocketTyped'
BY DEF SocketTyped, network, socket

LEMMA BufferStays ==
  ASSUME BufferTyped, UNCHANGED <<buf, scan, pushed>>, thread' = "parsing" => thread = "parsing"
  PROVE  BufferTyped'
BY DEF BufferTyped, scan

LEMMA ThreadStays ==
  ASSUME ThreadTyped, UNCHANGED <<hdrOnly, thread, conn, exit, errno>>, silent' \in BOOLEAN
  PROVE  ThreadTyped'
BY DEF ThreadTyped

LEMMA TcpInitInv == ASSUME Fed, TcpInit PROVE ReceiverInv
<1>1. TcpTypeOK
  <2>1. SocketTyped
    BY FeedFacts DEF TcpInit, SocketTyped, NoConn, Fed, Conns
  <2>2. ThreadTyped
    BY DEF TcpInit, ThreadTyped
  <2>3. BufferTyped
    <3>1. buf = <<>> /\ at = 0 /\ sentinel = 0 /\ pushed = <<>> /\ thread = "testing"
      BY DEF TcpInit
    <3>2. <<>> \in Seq(Units) /\ <<>> \in Seq(Conns \X Packets) /\ Len(<<>>) = 0
      OBVIOUS
    <3> QED BY <3>1, <3>2, FeedFacts DEF BufferTyped
  <2> QED BY <2>1, <2>2, <2>3 DEF TcpTypeOK
<1>2. ASSUME NEW c \in Conns
      PROVE  /\ PushedFrom(c) = <<>> /\ wire[c] = Feeds[c] /\ peer[c] = "here" /\ conn # c
             /\ IsPrefix(PushedFrom(c), PacketsOf(Feeds[c]))
  <2>1. wire[c] = Feeds[c] /\ peer[c] = "here" /\ conn # c
    BY DEF TcpInit, NoConn, Conns
  <2>2. PushedFrom(c) = <<>>
    <3>1. Selected(pushed, {c} \X Packets) = <<>> /\ Len(<<>>) = 0
      BY SelectedEmpty DEF TcpInit
    <3>2. Selected(pushed, {c} \X Packets) = <<>>
      BY <3>1
    <3> DEFINE none == Selected(pushed, {c} \X Packets)
    <3>3. PushedFrom(c) = [i \in 1 .. Len(none) |-> none[i][2]]
      BY DEF PushedFrom
    <3>4. Len(none) = 0
      BY <3>1, <3>2
    <3> HIDE DEF none
    <3> QED BY <3>3, <3>4
  <2>3. PacketsOf(Feeds[c]) = <<>> \o PacketsOf(Feeds[c])
    BY FeedFacts, ConcatEmptySeq
  <2>4. IsPrefix(<<>>, PacketsOf(Feeds[c]))
    <3>1. <<>> \in Seq(Packets) /\ PacketsOf(Feeds[c]) \in Seq(Packets)
      BY FeedFacts
    <3> QED BY <2>3, <3>1, PrefixRest
  <2> QED BY <2>1, <2>2, <2>4
<1>3. Plucked /\ Untaken
  BY <1>2 DEF Plucked, Untaken
<1>4. Held /\ PassedOver
  BY DEF Held, PassedOver, TcpInit
<1> QED BY <1>1, <1>3, <1>4 DEF ReceiverInv, BufferKept

LEMMA SocketStep ==
  ASSUME Fed, TcpTypeOK, TcpNext
  PROVE  SocketTyped'
<1>1. SocketTyped /\ ThreadTyped /\ BufferTyped
  BY DEF TcpTypeOK
<1>2. CASE \/ TestsFlag \/ EntersAccept \/ AcceptFails \/ ReadsNothing \/ SkipsJunk
           \/ FindsPacket \/ EndsParsing \/ FiveSecondsPass \/ BecomesBase \/ TcpOver
  <2>1. UNCHANGED <<network, socket>>
    BY <1>2 DEF TestsFlag, EntersAccept, AcceptFails, ReadsNothing,
       SkipsJunk, FindsPacket,
       EndsParsing, FiveSecondsPass, BecomesBase, TcpOver, tcpVars
  <2> QED BY <1>1, <2>1, SocketStays
<1>3. CASE Accepts
  <2>1. /\ acceptedConns < arrived /\ acceptedConns' = acceptedConns + 1 /\ conn' = acceptedConns'
        /\ fds' = fds \cup {"conn"} /\ UNCHANGED <<arrived, wire, peer>>
    BY <1>3 DEF Accepts, network
  <2>2. acceptedConns' \in 0 .. arrived'
    BY <1>1, <2>1, FeedFacts DEF SocketTyped
  <2> QED BY <1>1, <2>1, <2>2 DEF SocketTyped
<1>4. CASE Reads
  <2>1. PICK n \in 1 .. Free :
          n <= Len(wire[conn]) /\ wire' = [wire EXCEPT ![conn] = SubSeq(@, n + 1, Len(@))]
    BY <1>4 DEF Reads
  <2>2. conn # NoConn /\ UNCHANGED <<arrived, peer, socket>>
    BY <1>1, <1>4 DEF ThreadTyped, Reads, Readable
  <2>3. conn \in Conns /\ wire[conn] \in Seq(Units)
    BY <2>2, OpenConn
  <2>4. n \in 0 .. Len(wire[conn])
    BY <2>1, <2>3
  <2>5. SubSeq(wire[conn], n + 1, Len(wire[conn])) \in Seq(Units)
    BY <2>3, <2>4, Halves
  <2>6. wire' \in [Conns -> Seq(Units)]
    BY <1>1, <2>1, <2>3, <2>5 DEF SocketTyped
  <2> QED BY <1>1, <2>2, <2>6 DEF SocketTyped, socket
<1>5. CASE Quits
  <2>1. conn' = NoConn /\ fds' \subseteq fds /\ UNCHANGED <<network, acceptedConns>>
    BY <1>5 DEF Quits
  <2> QED BY <1>1, <2>1 DEF SocketTyped, network
<1>6. CASE Connects
  <2>1. arrived < Len(Feeds) /\ arrived' = arrived + 1 /\ UNCHANGED <<wire, peer, socket>>
    BY <1>6 DEF Connects
  <2>2. arrived' \in 0 .. Len(Feeds) /\ acceptedConns \in 0 .. arrived'
    BY <1>1, <2>1, FeedFacts DEF SocketTyped
  <2> QED BY <1>1, <2>1, <2>2 DEF SocketTyped, socket
<1>7. ASSUME NEW c \in Conns, PeerCloses(c) \/ PeerResets(c) PROVE SocketTyped'
  <2>1. /\ UNCHANGED <<arrived, socket>>
        /\ \/ peer' = [peer EXCEPT ![c] = "closed"] /\ wire' = wire
           \/ peer' = [peer EXCEPT ![c] = "reset"] /\ wire' = [wire EXCEPT ![c] = <<>>]
    BY <1>7 DEF PeerCloses, PeerResets
  <2>2. <<>> \in Seq(Units)
    OBVIOUS
  <2>3. /\ wire' \in [Conns -> Seq(Units)]
        /\ peer' \in [Conns -> {"here", "closed", "reset"}]
    BY <1>1, <2>1, <2>2 DEF SocketTyped
  <2> QED BY <1>1, <2>1, <2>3 DEF SocketTyped, socket
<1>8. CASE ClosesSockets
  <2>1. fds' = {} /\ UNCHANGED <<network, acceptedConns, conn>>
    BY <1>8 DEF ClosesSockets
  <2> QED BY <1>1, <2>1 DEF SocketTyped, network
<1> QED BY <1>2, <1>3, <1>4, <1>5, <1>6, <1>7, <1>8 DEF TcpNext, Thread, Sniffer,
   TcpExit

LEMMA ThreadStep ==
  ASSUME Fed, TcpTypeOK, TcpNext
  PROVE  ThreadTyped'
<1>1. SocketTyped /\ ThreadTyped /\ BufferTyped
  BY DEF TcpTypeOK
<1>2. CASE TestsFlag
  <2>1. /\ UNCHANGED <<hdrOnly, socket, errno, silent, exit>>
        /\ \/ thread' \in {"ended", "aborted"}
           \/ conn = NoConn /\ thread' = "accept"
           \/ conn # NoConn /\ thread' = "reading"
    BY <1>2 DEF TestsFlag
  <2> QED BY <1>1, <2>1 DEF ThreadTyped, socket
<1>3. CASE EntersAccept \/ AcceptFails
  <2>1. /\ UNCHANGED <<hdrOnly, socket, silent, exit>> /\ thread \in {"accept", "accepting"}
        /\ errno' \in {errno, "other"} /\ thread' \in {"accepting", "testing"}
    BY <1>3 DEF EntersAccept, AcceptFails
  <2> QED BY <1>1, <2>1 DEF ThreadTyped, socket
<1>4. CASE Accepts
  <2>1. /\ UNCHANGED <<hdrOnly, errno, exit>> /\ silent' = FALSE /\ thread' = "reading"
        /\ conn' = acceptedConns + 1
    BY <1>4 DEF Accepts
  <2>2. conn' # NoConn
    BY <1>1, <2>1, FeedFacts DEF SocketTyped, NoConn
  <2> QED BY <1>1, <2>1, <2>2 DEF ThreadTyped
<1>5. CASE Reads \/ EndsParsing
  <2>1. /\ UNCHANGED <<hdrOnly, socket, errno, exit>> /\ silent' \in {silent, FALSE}
        /\ {thread, thread'} \subseteq {"reading", "parsing"}
    BY <1>5 DEF Reads, Readable, EndsParsing
  <2> QED BY <1>1, <2>1 DEF ThreadTyped, socket
<1>6. CASE ReadsNothing \/ Quits
  <2>1. /\ UNCHANGED <<hdrOnly, silent, exit>> /\ thread' = "testing"
        /\ errno' \in {errno, "again", "other"}
    BY <1>6 DEF ReadsNothing, Quits, ErrnoAfterRead
  <2> QED BY <1>1, <2>1 DEF ThreadTyped
<1>7. CASE \/ SkipsJunk \/ FindsPacket \/ Connects \/ TcpOver
           \/ \E c \in Conns : PeerCloses(c) \/ PeerResets(c)
  <2>1. UNCHANGED <<hdrOnly, socket, thread, errno, silent, exit>>
    BY <1>7 DEF SkipsJunk, FindsPacket, Connects, PeerCloses,
       PeerResets, TcpOver, tcpVars
  <2> QED BY <1>1, <2>1, ThreadStays DEF socket, ThreadTyped
<1>8. CASE FiveSecondsPass
  BY <1>1, <1>8, ThreadStays DEF FiveSecondsPass, socket
<1>9. CASE ClosesSockets \/ BecomesBase
  <2>1. /\ UNCHANGED <<hdrOnly, conn, thread, errno, silent>>
        /\ exit' \in {"closed", "base", "joining"}
    BY <1>9 DEF ClosesSockets, BecomesBase, ExitStep, socket
  <2> QED BY <1>1, <2>1 DEF ThreadTyped
<1> QED BY <1>2, <1>3, <1>4, <1>5, <1>6, <1>7, <1>8, <1>9 DEF TcpNext, Thread,
   Sniffer, TcpExit

(* What the parser sees at its place.                                      *)
LEMMA HereIs ==
  ASSUME BufferTyped, thread = "parsing", Left > 0
  PROVE  /\ at \in Nat /\ Len(buf) \in Nat /\ Left = Len(buf) - at
         /\ at + 1 \in 1 .. Len(buf) /\ Here = buf[at + 1] /\ Here \in Units
<1>1. at \in Nat /\ Len(buf) \in Nat /\ buf \in Seq(Units)
  BY DEF BufferTyped
<1>2. at + 1 \in 1 .. Len(buf)
  BY <1>1 DEF Left
<1> QED BY <1>1, <1>2 DEF Left, Here

(* How far it goes from a packet of the server's.                          *)
LEMMA Advances ==
  ASSUME BufferTyped, Headed, Enough, Here.ours
  PROVE  /\ Here \in OurHeads /\ Here.pkt \in Packets
         /\ hdrOnly \/ Here.len \in 1 .. Left
<1>1. Here \in Units /\ Left \in Nat
  BY HereIs DEF Headed
<1>2. Here \in OurHeads
  BY <1>1, HeadIs DEF Headed
<1>3. ~hdrOnly => Left >= Here.len
  BY DEF Enough
<1> QED BY <1>1, <1>2, <1>3, HeadIs

LEMMA BufferStep ==
  ASSUME Fed, TcpTypeOK, TcpNext
  PROVE  BufferTyped'
<1>1. SocketTyped /\ ThreadTyped /\ BufferTyped
  BY DEF TcpTypeOK
<1>2. CASE Reads
  <2>1. PICK n \in 1 .. Free :
          n <= Len(wire[conn]) /\ buf' = buf \o SubSeq(wire[conn], 1, n)
    BY <1>2 DEF Reads
  <2>2. conn # NoConn /\ at' = 0 /\ sentinel' = 0 /\ pushed' = pushed
    BY <1>1, <1>2 DEF ThreadTyped, Reads, Readable
  <2>3. wire[conn] \in Seq(Units) /\ buf \in Seq(Units)
    BY <2>2, OpenConn
  <2>4. n \in 0 .. Len(wire[conn]) /\ n <= BufferLen - Len(buf) /\ Len(buf) \in Nat
    BY <2>1, <2>3 DEF Free
  <2>5. buf' \in Seq(Units) /\ Len(buf') = Len(buf) + n
    BY <2>1, <2>3, <2>4, FrontMoves
  <2> QED BY <1>1, <2>2, <2>4, <2>5, FeedFacts DEF BufferTyped
<1>3. CASE Quits
  <2>1. buf' = <<>> /\ thread' = "testing" /\ UNCHANGED <<scan, pushed>>
    BY <1>3 DEF Quits
  <2>2. <<>> \in Seq(Units) /\ Len(<<>>) = 0
    OBVIOUS
  <2> QED BY <1>1, <2>1, <2>2, FeedFacts DEF BufferTyped, scan
<1>4. CASE SkipsJunk
  <2>1. /\ thread = "parsing" /\ Left > 0 /\ at' = at + 1
        /\ UNCHANGED <<thread, buf, sentinel, pushed>>
    BY <1>4 DEF SkipsJunk
  <2>2. at + 1 \in 1 .. Len(buf) /\ at \in Nat
    BY <1>1, <2>1, HereIs
  <2>3. at' \in Nat /\ sentinel' \in 0 .. at' /\ at' <= Len(buf)
    BY <1>1, <2>1, <2>2 DEF BufferTyped
  <2> QED BY <1>1, <2>1, <2>3 DEF BufferTyped
<1>5. CASE FindsPacket
  <2>1. /\ pushed' = IF Done THEN pushed ELSE Append(pushed, <<conn, Here.pkt>>)
        /\ at' = at + (IF hdrOnly THEN 1 ELSE Here.len) /\ sentinel' = at'
        /\ UNCHANGED <<buf, thread>> /\ thread = "parsing" /\ Left > 0
    BY <1>5 DEF FindsPacket, Headed
  <2>2. Here.pkt \in Packets /\ (hdrOnly \/ Here.len \in 1 .. Left)
    BY <1>1, <1>5, Advances DEF FindsPacket
  <2>3. at' \in Nat /\ at' <= Len(buf) /\ sentinel' \in 0 .. at'
    BY <1>1, <2>1, <2>2, HereIs
  <2>4. conn \in Conns
    BY <1>1, <2>1, OpenConn DEF ThreadTyped
  <2>5. pushed' \in Seq(Conns \X Packets)
    <3>1. <<conn, Here.pkt>> \in Conns \X Packets /\ pushed \in Seq(Conns \X Packets)
      BY <1>1, <2>2, <2>4 DEF BufferTyped
    <3>2. Append(pushed, <<conn, Here.pkt>>) \in Seq(Conns \X Packets)
      BY <3>1, AppendProperties
    <3> QED BY <2>1, <3>1, <3>2
  <2> QED BY <1>1, <2>1, <2>3, <2>5 DEF BufferTyped
<1>6. CASE EndsParsing
  <2>1. /\ buf' = SubSeq(buf, sentinel + 1, Len(buf)) /\ thread = "parsing"
        /\ thread' = "reading" /\ UNCHANGED <<scan, pushed>>
    BY <1>6 DEF EndsParsing
  <2>2. /\ sentinel \in 0 .. Len(buf) /\ Len(buf) \in Nat /\ Len(buf) <= BufferLen
        /\ buf \in Seq(Units)
    BY <1>1, <2>1 DEF BufferTyped
  <2>3. buf' \in Seq(Units) /\ Len(buf') <= BufferLen
    BY <2>1, <2>2, Halves, FeedFacts
  <2> QED BY <1>1, <2>1, <2>3 DEF BufferTyped, scan
<1>7. CASE \/ TestsFlag \/ EntersAccept \/ AcceptFails \/ Accepts \/ ReadsNothing \/ Sniffer
           \/ FiveSecondsPass \/ TcpExit \/ TcpOver
  <2>1. UNCHANGED <<buf, scan, pushed>> /\ (thread' = "parsing" => thread = "parsing")
    BY <1>7 DEF TestsFlag, EntersAccept, AcceptFails, Accepts,
       ReadsNothing, Sniffer, Connects,
       PeerCloses, PeerResets, FiveSecondsPass, TcpExit, ClosesSockets, BecomesBase, TcpOver, tcpVars
  <2> QED BY <1>1, <2>1, BufferStays
<1> QED BY <1>2, <1>3, <1>4, <1>5, <1>6, <1>7 DEF TcpNext, Thread

LEMMA TcpTypeStep ==
  ASSUME Fed, TcpTypeOK, TcpNext
  PROVE  TcpTypeOK'
BY SocketStep, ThreadStep, BufferStep DEF TcpTypeOK

-----------------------------------------------------------------------------
(* The packets.                                                            *)

(* What was handed on, is in the buffer, or still to be read, of a         *)
(* connection that is open, with its types.                                *)
LEMMA OpenParts ==
  ASSUME Fed, TcpTypeOK, conn # NoConn
  PROVE  /\ conn \in Conns /\ wire[conn] \in Seq(Units) /\ buf \in Seq(Units)
         /\ Unparsed \in Seq(Units) /\ PushedFrom(conn) \in Seq(Packets)
         /\ PacketsOf(Unparsed) \in Seq(Packets) /\ PacketsOf(wire[conn]) \in Seq(Packets)
         /\ PacketsOf(Feeds[conn]) \in Seq(Packets)
<1>1. conn \in Conns /\ wire[conn] \in Seq(Units) /\ buf \in Seq(Units)
  BY OpenConn
<1>2. Unparsed \in Seq(Units)
  <2> DEFINE n == IF thread = "parsing" THEN at ELSE 0
  <2>1. n \in 0 .. Len(buf)
    BY <1>1 DEF TcpTypeOK, BufferTyped
  <2> HIDE DEF n
  <2>2. SubSeq(buf, n + 1, Len(buf)) \in Seq(Units)
    BY <1>1, <2>1, Halves
  <2> QED BY <2>2 DEF Unparsed, n
<1>3. PushedFrom(conn) \in Seq(Packets)
  <2>1. PushedFrom(conn) = From(pushed, conn)
    BY DEF PushedFrom, From
  <2> QED BY <2>1, FromType DEF TcpTypeOK, BufferTyped
<1> QED BY <1>1, <1>2, <1>3, FeedFacts, PacketsParts

(* The first of some units is a packet of the server's, and they are no    *)
(* more than it is long.                                                   *)
LEMMA OnePacket ==
  ASSUME NEW s \in Seq(Units), Apart(s), NEW i \in Nat, NEW j \in Nat,
         i < j, j <= Len(s), s[i + 1] \in OurHeads, j <= i + s[i + 1].len
  PROVE  PacketsOf(SubSeq(s, i + 1, j)) = <<s[i + 1].pkt>>
<1> DEFINE u == s[i + 1]
           t == <<u>>
           d == SubSeq(s, (i + 1) + 1, j)
<1>1. u \in Units /\ u \in OurHeads /\ u.pkt \in Packets /\ u.len \in Nat
  BY HeadIs
<1>2. SubSeq(s, i + 1, j) = t \o d /\ t \in Seq(Units)
  <2>1. i + 1 \in 1 .. Len(s) + 1 /\ i + 1 \in ((i + 1) - 1) .. Len(s)
        /\ j \in (i + 1) .. Len(s)
    OBVIOUS
  <2>2. SubSeq(s, i + 1, j) = SubSeq(s, i + 1, i + 1) \o d
    BY <2>1, ConcatAdjacentSubSeq
  <2>3. SubSeq(s, i + 1, i + 1) = t
    <3>1. SubSeq(s, i + 1, i + 1) \in Seq(Units) /\ Len(SubSeq(s, i + 1, i + 1)) = 1
      BY <2>1
    <3>2. SubSeq(s, i + 1, i + 1)[1] = u
      BY <2>1
    <3> DEFINE b == SubSeq(s, i + 1, i + 1)
    <3>3. b \in Seq(Units) /\ Len(b) = 1 /\ b[1] = u
      BY <3>1, <3>2
    <3> HIDE DEF u, b
    <3>4. b = <<u>>
      BY <3>3
    <3> QED BY <3>4 DEF b
  <2>4. t \in Seq(Units)
    <3>1. u \in Units
      BY <1>1
    <3> HIDE DEF u
    <3> QED BY <3>1
  <2> QED BY <2>2, <2>3, <2>4
<1>3. /\ d \in Seq(Units) /\ Len(d) = j - (i + 1)
      /\ \A k \in 1 .. j - (i + 1) : d[k] = s[(i + 1) + k]
  OBVIOUS
<1> HIDE DEF u, d
<1>4. ASSUME NEW k \in 1 .. Len(d) PROVE d[k] \notin OurHeads
  <2>1. /\ k \in 1 .. j - (i + 1) /\ i + 1 \in 1 .. Len(s) /\ (i + 1) + k \in 1 .. Len(s)
        /\ i + 1 < (i + 1) + k
    BY <1>3
  <2>2. ~((i + 1) + k >= (i + 1) + u.len)
    BY <1>1, <2>1 DEF u
  <2>3. d[k] = s[(i + 1) + k] /\ u = s[i + 1]
    BY <1>3, <2>1 DEF u
  <2> QED BY <1>1, <2>1, <2>2, <2>3 DEF Apart
<1>5. PacketsOf(d) = <<>>
  BY <1>3, <1>4, PacketsNone
<1>6. PacketsOf(t) = <<u.pkt>>
  BY <1>1, PacketsOne
<1> HIDE DEF t
<1>7. PacketsOf(t \o d) = PacketsOf(t) \o PacketsOf(d)
  BY <1>2, <1>3, PacketsConcat
<1>8. <<u.pkt>> \o <<>> = <<u.pkt>>
  BY <1>1, ConcatEmptySeq
<1> QED BY <1>2, <1>5, <1>6, <1>7, <1>8 DEF u

(* A packet that moves from the head of what is left to what was pushed.   *)
LEMMA HandsOn ==
  \A p, v \in Seq(Packets), e \in Packets :
     Append(p, e) \in Seq(Packets) /\ Append(p, e) \o v = p \o (<<e>> \o v)
<1> TAKE p, v \in Seq(Packets), e \in Packets
<1> DEFINE q == Append(p, e)
           t == <<e>>
<1>1. t \in Seq(Packets) /\ q \in Seq(Packets) /\ q = p \o t
  <2>1. q = p \o t
    BY AppendIsConcat
  <2>2. q \in Seq(Packets)
    BY AppendProperties
  <2> QED BY <2>1, <2>2
<1> HIDE DEF q, t
<1>2. (p \o t) \o v = p \o (t \o v)
  <2>1. t \in Seq(Packets)
    BY <1>1
  <2> QED BY <2>1, PacketsAssociate
<1> QED BY <1>1, <1>2 DEF q, t

(* A step that pushes nothing and leaves the connection open.  What it     *)
(* buffers or reads goes on from what was pushed.                          *)
LEMMA GoesOn ==
  ASSUME Fed, ReceiverInv, TcpTypeOK', UNCHANGED <<pushed, conn, acceptedConns>>,
         Done => Done', conn # NoConn,
         Apart(buf' \o wire'[conn]),
         peer'[conn] = "reset" => wire'[conn] = <<>>,
         ~Done =>
            \/ /\ PacketsOf(Unparsed)' \o PacketsOf(wire'[conn]) =
                      PacketsOf(Unparsed) \o PacketsOf(wire[conn])
               /\ peer'[conn] = "reset" <=> peer[conn] = "reset"
               /\ peer[conn] = "reset" =>
                      PacketsOf(Unparsed)' = PacketsOf(Unparsed)
            \/ /\ PacketsOf(Unparsed)' = PacketsOf(Unparsed)
               /\ peer'[conn] = "reset"
  PROVE  Plucked' /\ Held'
<1> DEFINE p == PushedFrom(conn)
           u == PacketsOf(Unparsed)
           v == PacketsOf(Unparsed)'
           w == PacketsOf(wire[conn])
           x == PacketsOf(wire'[conn])
           f == PacketsOf(Feeds[conn])
<1>1. /\ TcpTypeOK /\ conn \in Conns /\ p \in Seq(Packets) /\ u \in Seq(Packets)
      /\ w \in Seq(Packets) /\ f \in Seq(Packets)
  BY OpenParts DEF ReceiverInv, BufferKept
<1>2. v \in Seq(Packets) /\ x \in Seq(Packets)
  <2>1. (conn # NoConn)' /\ conn' = conn
    OBVIOUS
  <2>2. Unparsed' \in Seq(Units) /\ wire'[conn] \in Seq(Units)
    <3>1. buf' \in Seq(Units) /\ (thread' = "parsing" => at' \in 0 .. Len(buf'))
      BY DEF TcpTypeOK, BufferTyped
    <3> DEFINE n == IF thread' = "parsing" THEN at' ELSE 0
    <3>2. n \in 0 .. Len(buf')
      BY <3>1
    <3> HIDE DEF n
    <3>3. SubSeq(buf', n + 1, Len(buf')) \in Seq(Units)
      BY <3>1, <3>2, Halves
    <3>4. Unparsed' \in Seq(Units)
      BY <3>3 DEF Unparsed, n
    <3>5. wire'[conn] \in Seq(Units)
      BY <1>1 DEF TcpTypeOK, SocketTyped
    <3> QED BY <3>4, <3>5
  <2>3. v = PacketsOf(Unparsed')
    BY DEF PacketsOf
  <2> QED BY <2>2, <2>3, PacketsParts
<1>3. \A c : PushedFrom(c)' = PushedFrom(c)
  BY DEF PushedFrom
<1>4. /\ ~Done /\ peer[conn] # "reset" => (p \o u) \o w = f
      /\ ~Done => IsPrefix(p \o u, f)
  BY <1>1 DEF ReceiverInv, BufferKept, Plucked, Held
<1> HIDE DEF p, u, v, w, x, f
<1>5. ~Done => /\ IsPrefix(p \o v, f)
               /\ peer'[conn] # "reset" => (p \o v) \o x = f
  <2> SUFFICES ASSUME ~Done
               PROVE  /\ IsPrefix(p \o v, f)
                      /\ peer'[conn] # "reset" => (p \o v) \o x = f
    OBVIOUS
  <2>1. CASE v = u /\ peer'[conn] = "reset"
    BY <1>4, <2>1
  <2>2. CASE /\ v \o x = u \o w /\ (peer'[conn] = "reset" <=> peer[conn] = "reset")
             /\ (peer[conn] = "reset" => v = u)
    <3>1. CASE peer[conn] = "reset"
      BY <1>4, <2>2, <3>1
    <3>2. CASE peer[conn] # "reset"
      <4>1. (p \o u) \o w = f /\ v \o x = u \o w
        BY <1>4, <2>2, <3>2
      <4>2. (p \o u) \o w = p \o (u \o w)
        <5>1. p \in Seq(Packets) /\ u \in Seq(Packets) /\ w \in Seq(Packets)
          BY <1>1
        <5> QED BY <5>1, PacketsAssociate
      <4>3. (p \o v) \o x = p \o (v \o x)
        <5>1. p \in Seq(Packets) /\ v \in Seq(Packets) /\ x \in Seq(Packets)
          BY <1>1, <1>2
        <5> QED BY <5>1, PacketsAssociate
      <4>4. (p \o v) \o x = f
        BY <4>1, <4>2, <4>3
      <4>5. IsPrefix(p \o v, f)
        BY <1>1, <1>2, <4>4, PartsArePrefixes
      <4> QED BY <4>4, <4>5
    <3> QED BY <3>1, <3>2
  <2> QED BY <2>1, <2>2 DEF u, v, w, x
<1>6. \A c \in Conns : IsPrefix(PushedFrom(c), PacketsOf(Feeds[c]))
  BY DEF ReceiverInv, BufferKept, Plucked
<1>7. Plucked'
  <2> SUFFICES ASSUME NEW c \in Conns
               PROVE  /\ IsPrefix(PushedFrom(c)', PacketsOf(Feeds[c]))
                      /\ (c = conn /\ ~Done' /\ peer'[c] # "reset" =>
                            (PushedFrom(c)' \o PacketsOf(Unparsed)') \o PacketsOf(wire'[c])
                                = PacketsOf(Feeds[c]))
    BY DEF Plucked, Conns, PacketsOf
  <2> QED BY <1>3, <1>5, <1>6 DEF p, v, x, f
<1>8. Held'
  BY <1>3, <1>5 DEF Held, p, v, f, PacketsOf
<1> QED BY <1>7, <1>8

(* One that touches no other connection.                                   *)
LEMMA OthersStay ==
  ASSUME Fed, ReceiverInv, UNCHANGED <<pushed, conn, acceptedConns>>, conn # NoConn,
         \A c \in Conns : c # conn => wire'[c] = wire[c] /\ peer'[c] = peer[c]
  PROVE  Untaken'
<1>1. \A c : PushedFrom(c)' = PushedFrom(c)
  BY DEF PushedFrom
<1>2. \A c \in Conns : c > acceptedConns => c # conn
  BY FeedFacts, OpenConn DEF Conns, ReceiverInv, BufferKept, TcpTypeOK,
     SocketTyped
<1>3. \A c \in Conns : c > acceptedConns => wire'[c] = wire[c] /\ peer'[c] = peer[c]
  BY <1>2
<1> QED BY <1>1, <1>3 DEF Untaken, ReceiverInv, Conns

(* What is parsed, from one place to another.                              *)
LEMMA Passes ==
  ASSUME BufferTyped, thread = "parsing", NEW n \in at .. Len(buf)
  PROVE  /\ SubSeq(buf, at + 1, n) \in Seq(Units)
         /\ Len(SubSeq(buf, at + 1, n)) = n - at
         /\ \A k \in 1 .. (n - at) : SubSeq(buf, at + 1, n)[k] = buf[at + k]
         /\ PacketsOf(Unparsed) = PacketsOf(SubSeq(buf, at + 1, n))
                                   \o PacketsOf(SubSeq(buf, n + 1, Len(buf)))
         /\ PacketsOf(SubSeq(buf, sentinel + 1, n)) =
                PacketsOf(SubSeq(buf, sentinel + 1, at)) \o PacketsOf(SubSeq(buf, at + 1, n))
         /\ PacketsOf(SubSeq(buf, sentinel + 1, Len(buf))) =
                PacketsOf(SubSeq(buf, sentinel + 1, at)) \o PacketsOf(Unparsed)
<1>1. /\ buf \in Seq(Units) /\ at \in 0 .. Len(buf) /\ sentinel \in 0 .. at
      /\ Len(buf) \in Nat /\ Unparsed = SubSeq(buf, at + 1, Len(buf))
  BY DEF BufferTyped, Unparsed
<1> DEFINE a == SubSeq(buf, sentinel + 1, at)
           b == SubSeq(buf, at + 1, n)
           c == SubSeq(buf, n + 1, Len(buf))
<1>2. /\ b \in Seq(Units) /\ Len(b) = n - at /\ c \in Seq(Units)
      /\ Unparsed = b \o c /\ \A k \in 1 .. (n - at) : b[k] = buf[at + k]
  BY <1>1, Cut
<1>3. /\ a \in Seq(Units) /\ Unparsed \in Seq(Units)
      /\ SubSeq(buf, sentinel + 1, Len(buf)) = a \o Unparsed
  <2>1. sentinel \in 0 .. Len(buf) /\ at \in sentinel .. Len(buf)
    BY <1>1
  <2> QED BY <1>1, <2>1, Cut
<1>4. SubSeq(buf, sentinel + 1, n) = a \o b
  <2>1. /\ sentinel + 1 \in 1 .. Len(buf) + 1 /\ at \in ((sentinel + 1) - 1) .. Len(buf)
        /\ n \in at .. Len(buf)
    BY <1>1
  <2> QED BY <1>1, <2>1, ConcatAdjacentSubSeq
<1> HIDE DEF a, b, c
<1>5. PacketsOf(Unparsed) = PacketsOf(b) \o PacketsOf(c)
  BY <1>2, PacketsConcat
<1>6. PacketsOf(a \o b) = PacketsOf(a) \o PacketsOf(b)
  BY <1>2, <1>3, PacketsConcat
<1>7. PacketsOf(a \o Unparsed) = PacketsOf(a) \o PacketsOf(Unparsed)
  BY <1>3, PacketsConcat
<1> QED BY <1>2, <1>3, <1>4, <1>5, <1>6, <1>7 DEF a, b, c

(* Reading moves units from the connection to the end of the buffer.       *)
LEMMA ReadsKeeps ==
  ASSUME Fed, ReceiverInv, TcpTypeOK', Reads
  PROVE  Plucked' /\ Held' /\ Untaken' /\ PassedOver'
<1>1. PICK n \in 1 .. Free :
        /\ n <= Len(wire[conn]) /\ buf' = buf \o SubSeq(wire[conn], 1, n)
        /\ wire' = [wire EXCEPT ![conn] = SubSeq(@, n + 1, Len(@))]
  BY DEF Reads
<1>2. /\ thread = "reading" /\ thread' = "parsing" /\ at' = 0 /\ sentinel' = 0
      /\ peer[conn] # "reset" /\ UNCHANGED <<peer, pushed, conn, acceptedConns, exit>>
  BY DEF Reads, Readable, socket
<1>3. TcpTypeOK /\ conn # NoConn
  BY <1>2 DEF ReceiverInv, BufferKept, TcpTypeOK, ThreadTyped
<1>4. conn \in Conns /\ wire[conn] \in Seq(Units) /\ buf \in Seq(Units)
  BY <1>3, OpenParts
<1> DEFINE x == SubSeq(wire[conn], 1, n)
           y == SubSeq(wire[conn], n + 1, Len(wire[conn]))
<1>5. n \in 0 .. Len(wire[conn])
  BY <1>1, <1>4
<1>6. x \in Seq(Units) /\ y \in Seq(Units) /\ wire[conn] = x \o y
  BY <1>4, <1>5, Halves
<1>7. buf' = buf \o x /\ wire'[conn] = y /\ \A c \in Conns : c # conn => wire'[c] = wire[c]
  BY <1>1, <1>3, <1>4 DEF TcpTypeOK, SocketTyped
<1>8. Unparsed = buf /\ Unparsed' = buf'
  <2>1. SubSeq(buf, 1, Len(buf)) = buf
    BY <1>4, SubSeqFull
  <2>2. buf' \in Seq(Units)
    BY DEF TcpTypeOK, BufferTyped
  <2>3. SubSeq(buf', 1, Len(buf')) = buf'
    BY <2>2, SubSeqFull
  <2> QED BY <1>2, <2>1, <2>3 DEF Unparsed
<1> HIDE DEF x, y
<1>9. (buf \o x) \o y = buf \o wire[conn]
  BY <1>4, <1>6, ConcatAssociative
<1>10. PacketsOf(buf') \o PacketsOf(wire'[conn]) = PacketsOf(buf) \o PacketsOf(wire[conn])
  <2>1. PacketsOf((buf \o x) \o y) = PacketsOf(buf \o x) \o PacketsOf(y)
    <3> DEFINE z == buf \o x
    <3>1. z \in Seq(Units)
      BY <1>4, <1>6, ConcatProperties
    <3> HIDE DEF z
    <3>2. PacketsOf(z \o y) = PacketsOf(z) \o PacketsOf(y)
      BY <1>6, <3>1, PacketsConcat
    <3> QED BY <3>2 DEF z
  <2>2. PacketsOf(buf \o wire[conn]) = PacketsOf(buf) \o PacketsOf(wire[conn])
    BY <1>4, PacketsConcat
  <2> QED BY <1>7, <1>9, <2>1, <2>2
<1>11. Apart(buf' \o wire'[conn])
  BY <1>3, <1>7, <1>9 DEF ReceiverInv, Held
<1>12. PacketsOf(Unparsed)' = PacketsOf(buf')
  BY <1>8 DEF PacketsOf
<1>13. Done => Done'
  BY <1>2 DEF Done
<1>14. Plucked' /\ Held' /\ Untaken'
  BY <1>2, <1>3, <1>7, <1>8, <1>10, <1>11, <1>12, <1>13, GoesOn, OthersStay
<1>15. PassedOver'
  <2>1. SubSeq(buf', 1, 0) = <<>>
    BY SubSeqEmpty
  <2>2. PacketsOf(<<>>) = <<>>
    <3>1. <<>> \in Seq(Units) /\ \A i \in 1 .. Len(<<>>) : <<>>[i] \notin OurHeads
      OBVIOUS
    <3> QED BY <3>1, PacketsNone
  <2>3. PacketsOf(SubSeq(buf', sentinel' + 1, at')) = <<>>
    <3>1. sentinel' + 1 = 1 /\ at' = 0
      BY <1>2
    <3> QED BY <2>1, <2>2, <3>1
  <2> QED BY <2>3 DEF PassedOver, PacketsOf
<1> QED BY <1>14, <1>15

(* A unit that is no packet of the server's is passed.                     *)
LEMMA SkipsKeeps ==
  ASSUME Fed, ReceiverInv, TcpTypeOK', SkipsJunk
  PROVE  Plucked' /\ Held' /\ Untaken' /\ PassedOver'
<1>1. /\ thread = "parsing" /\ Left > 0 /\ at' = at + 1 /\ ~(Here.kind = "head" /\ Here.ours)
      /\ UNCHANGED <<wire, peer, acceptedConns, conn, thread, buf, sentinel, pushed, exit>>
  BY DEF SkipsJunk, Headed, network, socket
<1>2. TcpTypeOK /\ BufferTyped /\ conn # NoConn
  BY <1>1 DEF ReceiverInv, BufferKept, TcpTypeOK, ThreadTyped
<1>3. /\ at + 1 \in at .. Len(buf) /\ Here = buf[at + 1] /\ Here \in Units /\ at \in Nat
      /\ at + 1 \in 1 .. Len(buf)
  BY <1>1, <1>2, HereIs
<1> DEFINE b == SubSeq(buf, at + 1, at + 1)
<1>4. /\ b \in Seq(Units) /\ Len(b) = (at + 1) - at
      /\ \A k \in 1 .. ((at + 1) - at) : b[k] = buf[at + k]
      /\ PacketsOf(Unparsed) = PacketsOf(b) \o PacketsOf(SubSeq(buf, (at + 1) + 1, Len(buf)))
      /\ PacketsOf(SubSeq(buf, sentinel + 1, at + 1)) =
             PacketsOf(SubSeq(buf, sentinel + 1, at)) \o PacketsOf(b)
  BY <1>1, <1>2, <1>3, Passes
<1> HIDE DEF b
<1>5. PacketsOf(b) = <<>>
  <2>1. Here \notin OurHeads
    BY <1>1, <1>3, HeadIs
  <2>2. \A k \in 1 .. Len(b) : b[k] \notin OurHeads
    BY <1>3, <1>4, <2>1
  <2> QED BY <1>4, <2>2, PacketsNone
<1>6. PacketsOf(Unparsed)' = PacketsOf(Unparsed)
  <2>1. Unparsed' = SubSeq(buf, (at + 1) + 1, Len(buf)) /\ PacketsOf(Unparsed)' = PacketsOf(Unparsed')
    BY <1>1 DEF Unparsed, PacketsOf
  <2>2. SubSeq(buf, (at + 1) + 1, Len(buf)) \in Seq(Units)
    BY <1>2, <1>3, Cut DEF BufferTyped
  <2>3. PacketsOf(SubSeq(buf, (at + 1) + 1, Len(buf))) \in Seq(Packets)
    BY <2>2, PacketsParts
  <2>4. <<>> \o PacketsOf(SubSeq(buf, (at + 1) + 1, Len(buf)))
          = PacketsOf(SubSeq(buf, (at + 1) + 1, Len(buf)))
    BY <2>3, ConcatEmptySeq
  <2> QED BY <1>4, <1>5, <2>1, <2>4
<1>7. PassedOver'
  <2>1. PacketsOf(SubSeq(buf, sentinel + 1, at)) = <<>>
    BY <1>1 DEF ReceiverInv, PassedOver
  <2>2. PacketsOf(SubSeq(buf, sentinel + 1, at + 1)) = <<>>
    BY <1>4, <1>5, <2>1
  <2> QED BY <1>1, <2>2 DEF PassedOver, PacketsOf
<1>8. Apart(buf' \o wire'[conn]) /\ (peer'[conn] = "reset" => wire'[conn] = <<>>)
  BY <1>1, <1>2 DEF ReceiverInv, Held
<1>9. Plucked' /\ Held' /\ Untaken'
  BY <1>1, <1>2, <1>6, <1>8, GoesOn, OthersStay DEF Done
<1> QED BY <1>7, <1>9

(* The end of parsing discards what stands before the first unit that may  *)
(* still belong to a packet.                                               *)
LEMMA EndsParsingKeeps ==
  ASSUME Fed, ReceiverInv, TcpTypeOK', EndsParsing
  PROVE  Plucked' /\ Held' /\ Untaken' /\ PassedOver'
<1>1. /\ thread = "parsing" /\ thread' = "reading" /\ buf' = SubSeq(buf, sentinel + 1, Len(buf))
      /\ UNCHANGED <<wire, peer, acceptedConns, conn, pushed, exit>>
  BY DEF EndsParsing, network, socket
<1>2. /\ TcpTypeOK /\ BufferTyped /\ conn # NoConn
      /\ buf \in Seq(Units) /\ sentinel \in 0 .. Len(buf) /\ at \in at .. Len(buf)
  BY <1>1 DEF ReceiverInv, BufferKept, TcpTypeOK, ThreadTyped, BufferTyped
<1>3. PacketsOf(buf') = PacketsOf(Unparsed)
  <2>1. PacketsOf(SubSeq(buf, sentinel + 1, Len(buf))) =
           PacketsOf(SubSeq(buf, sentinel + 1, at)) \o PacketsOf(Unparsed)
    BY <1>1, <1>2, Passes
  <2>2. PacketsOf(SubSeq(buf, sentinel + 1, at)) = <<>>
    BY <1>1 DEF ReceiverInv, PassedOver
  <2>3. <<>> \o PacketsOf(Unparsed) = PacketsOf(Unparsed)
    BY <1>2, OpenParts, ConcatEmptySeq
  <2> QED BY <1>1, <2>1, <2>2, <2>3
<1>4. PacketsOf(Unparsed)' = PacketsOf(buf')
  <2>1. buf' \in Seq(Units)
    BY DEF TcpTypeOK, BufferTyped
  <2>2. SubSeq(buf', 1, Len(buf')) = buf'
    BY <2>1, SubSeqFull
  <2>3. Unparsed' = buf'
    <3>1. (IF thread' = "parsing" THEN at' ELSE 0) + 1 = 1
      BY <1>1
    <3> QED BY <2>2, <3>1 DEF Unparsed
  <2> QED BY <2>3 DEF PacketsOf
<1>5. Apart(buf' \o wire'[conn])
  <2> DEFINE a == SubSeq(buf, 1, sentinel)
             b == SubSeq(buf, sentinel + 1, Len(buf))
             w == wire[conn]
  <2>1. a \in Seq(Units) /\ b \in Seq(Units) /\ a \o b = buf /\ w \in Seq(Units)
    BY <1>2, Halves, OpenParts
  <2>2. Apart(buf \o w)
    BY <1>2 DEF ReceiverInv, Held
  <2>3. buf' = b /\ wire'[conn] = w
    BY <1>1
  <2> HIDE DEF a, b, w
  <2>4. (a \o b) \o w = a \o (b \o w) /\ b \o w \in Seq(Units)
    <3>1. (a \o b) \o w = a \o (b \o w)
      <4>1. \A r, s, t \in Seq(Units) : (r \o s) \o t = r \o (s \o t)
        BY Associates
      <4> QED BY <2>1, <4>1, Zenon
    <3> QED BY <2>1, <3>1, ConcatProperties
  <2>5. Apart(a \o (b \o w))
    BY <2>1, <2>2, <2>4
  <2> DEFINE v == b \o w
  <2>6. v \in Seq(Units) /\ Apart(a \o v)
    BY <2>4, <2>5
  <2> HIDE DEF v
  <2>7. Apart(v)
    BY <2>1, <2>6, ApartParts
  <2> QED BY <2>3, <2>7 DEF v
<1>6. peer'[conn] = "reset" => wire'[conn] = <<>>
  BY <1>1, <1>2 DEF ReceiverInv, Held
<1>7. Plucked' /\ Held' /\ Untaken'
  BY <1>1, <1>2, <1>3, <1>4, <1>5, <1>6, GoesOn, OthersStay DEF Done
<1>8. PassedOver'
  BY <1>1 DEF PassedOver
<1> QED BY <1>7, <1>8

(* A packet of the server's is handed on, and passed with its data.        *)
LEMMA FindsKeeps ==
  ASSUME Fed, ReceiverInv, TcpTypeOK', FindsPacket
  PROVE  Plucked' /\ Held' /\ Untaken' /\ PassedOver'
<1>1. /\ pushed' = IF Done THEN pushed ELSE Append(pushed, <<conn, Here.pkt>>)
      /\ at' = at + (IF hdrOnly THEN 1 ELSE Here.len) /\ sentinel' = at'
      /\ thread = "parsing" /\ Left > 0
      /\ UNCHANGED <<wire, peer, acceptedConns, conn, thread, buf, exit>>
  BY DEF FindsPacket, Headed, network, socket
<1>2. TcpTypeOK /\ BufferTyped /\ conn # NoConn
  BY <1>1 DEF ReceiverInv, BufferKept, TcpTypeOK, ThreadTyped
<1>3. /\ Here \in OurHeads /\ Here.pkt \in Packets /\ (hdrOnly \/ Here.len \in 1 .. Left)
      /\ Here = buf[at + 1] /\ Here \in Units /\ at \in Nat /\ at + 1 \in 1 .. Len(buf)
      /\ Left = Len(buf) - at /\ Len(buf) \in Nat
  BY <1>1, <1>2, HereIs, Advances DEF FindsPacket
<1> DEFINE n == at + (IF hdrOnly THEN 1 ELSE Here.len)
<1>4. /\ n \in Nat /\ at < n /\ n <= Len(buf) /\ n <= at + Here.len
      /\ n \in at .. Len(buf) /\ at' = n /\ sentinel' = n
  BY <1>1, <1>3, HeadIs
<1> HIDE DEF n
<1>5. /\ conn \in Conns /\ wire[conn] \in Seq(Units) /\ buf \in Seq(Units)
      /\ PushedFrom(conn) \in Seq(Packets) /\ PacketsOf(Unparsed) \in Seq(Packets)
      /\ PacketsOf(wire[conn]) \in Seq(Packets) /\ PacketsOf(Feeds[conn]) \in Seq(Packets)
  BY <1>2, OpenParts
<1> DEFINE e == Here.pkt
           r == SubSeq(buf, n + 1, Len(buf))
<1>6. PacketsOf(SubSeq(buf, at + 1, n)) = <<e>>
  <2>1. Apart(buf)
    BY <1>2, <1>5, ApartParts DEF ReceiverInv, Held
  <2> QED BY <1>3, <1>4, <1>5, <2>1, OnePacket
<1>7. PacketsOf(Unparsed) = <<e>> \o PacketsOf(r) /\ r \in Seq(Units)
  <2>1. PacketsOf(Unparsed) = PacketsOf(SubSeq(buf, at + 1, n)) \o PacketsOf(r)
    BY <1>1, <1>2, <1>4, Passes
  <2>2. n \in 0 .. Len(buf)
    BY <1>4
  <2> QED BY <1>5, <1>6, <2>1, <2>2, Halves
<1>8. PacketsOf(Unparsed)' = PacketsOf(r)
  <2>1. Unparsed' = r
    BY <1>1, <1>4 DEF Unparsed
  <2> HIDE DEF r
  <2> QED BY <2>1 DEF PacketsOf
<1>9. \A c \in Conns : PushedFrom(c)' = IF c = conn /\ ~Done THEN Append(PushedFrom(c), e)
                                         ELSE PushedFrom(c)
  <2> TAKE c \in Conns
  <2>1. PushedFrom(c) = From(pushed, c) /\ PushedFrom(c)' = From(pushed', c)
    BY DEF PushedFrom, From
  <2>2. pushed \in Seq(Conns \X Packets) /\ e \in Packets
    BY <1>2, <1>3 DEF BufferTyped
  <2>3. From(Append(pushed, <<conn, e>>), c) = IF conn = c THEN Append(From(pushed, c), e)
                                               ELSE From(pushed, c)
    BY <1>5, <2>2, FromAppend
  <2> QED BY <1>1, <2>1, <2>3
<1>10. /\ ~Done /\ peer[conn] # "reset" =>
             (PushedFrom(conn) \o PacketsOf(Unparsed)) \o PacketsOf(wire[conn])
                 = PacketsOf(Feeds[conn])
       /\ ~Done => IsPrefix(PushedFrom(conn) \o PacketsOf(Unparsed), PacketsOf(Feeds[conn]))
       /\ \A c \in Conns : IsPrefix(PushedFrom(c), PacketsOf(Feeds[c]))
  BY <1>2, <1>5 DEF ReceiverInv, BufferKept, Plucked, Held
<1>11. e \in Packets /\ PacketsOf(r) \in Seq(Packets)
  BY <1>3, <1>7, PacketsParts
<1> HIDE DEF e, r
<1>12. \A c \in Conns : c # conn \/ Done => PushedFrom(c)' = PushedFrom(c)
  BY <1>9
<1>13. ~Done =>
         /\ PushedFrom(conn)' = Append(PushedFrom(conn), e)
         /\ IsPrefix(PushedFrom(conn)' \o PacketsOf(r), PacketsOf(Feeds[conn]))
         /\ IsPrefix(PushedFrom(conn)', PacketsOf(Feeds[conn]))
         /\ peer[conn] # "reset" =>
               (PushedFrom(conn)' \o PacketsOf(r)) \o PacketsOf(wire[conn])
                   = PacketsOf(Feeds[conn])
  <2> SUFFICES ASSUME ~Done
               PROVE  /\ PushedFrom(conn)' = Append(PushedFrom(conn), e)
                      /\ IsPrefix(PushedFrom(conn)' \o PacketsOf(r), PacketsOf(Feeds[conn]))
                      /\ IsPrefix(PushedFrom(conn)', PacketsOf(Feeds[conn]))
                      /\ peer[conn] # "reset" =>
                            (PushedFrom(conn)' \o PacketsOf(r)) \o PacketsOf(wire[conn])
                                = PacketsOf(Feeds[conn])
    OBVIOUS
  <2>1. PushedFrom(conn)' = Append(PushedFrom(conn), e)
    <3>1. \A c \in Conns : c = conn => PushedFrom(c)' = Append(PushedFrom(c), e)
      BY <1>9
    <3> QED BY <1>1, <1>5, <3>1
  <2> DEFINE p == PushedFrom(conn)
             u == PacketsOf(Unparsed)
             v == PacketsOf(r)
             w == PacketsOf(wire[conn])
             f == PacketsOf(Feeds[conn])
             q == Append(p, e)
  <2>2. /\ p \in Seq(Packets) /\ u \in Seq(Packets) /\ v \in Seq(Packets)
        /\ w \in Seq(Packets) /\ f \in Seq(Packets) /\ e \in Packets /\ u = <<e>> \o v
        /\ IsPrefix(p \o u, f) /\ (peer[conn] # "reset" => (p \o u) \o w = f)
    BY <1>5, <1>7, <1>10, <1>11
  <2>3. PushedFrom(conn)' = q
    BY <2>1
  <2> HIDE DEF p, u, v, w, f
  <2>4. q \in Seq(Packets) /\ q \o v = p \o u
    BY <2>2, HandsOn
  <2>5. IsPrefix(q \o v, f) /\ (peer[conn] # "reset" => (q \o v) \o w = f)
    BY <2>2, <2>4
  <2>6. IsPrefix(q, f)
    <3> HIDE DEF q
    <3> QED BY <2>2, <2>4, <2>5, PartsArePrefixes
  <2> QED BY <2>1, <2>3, <2>5, <2>6 DEF p, v, w, f
<1>14. Plucked'
  <2> SUFFICES ASSUME NEW c \in Conns
               PROVE  /\ IsPrefix(PushedFrom(c)', PacketsOf(Feeds[c]))
                      /\ (c = conn /\ ~Done /\ peer[c] # "reset" =>
                            (PushedFrom(c)' \o PacketsOf(Unparsed)') \o PacketsOf(wire[c])
                                = PacketsOf(Feeds[c]))
    BY <1>1 DEF Plucked, Conns, PacketsOf, Done
  <2>1. CASE c = conn /\ ~Done
    <3>1. PacketsOf(Unparsed)' = PacketsOf(r) /\ PushedFrom(c)' = PushedFrom(conn)'
      BY <1>8, <1>9, <2>1, <1>13
    <3> QED BY <1>13, <2>1, <3>1
  <2>2. CASE ~(c = conn /\ ~Done)
    BY <1>10, <1>12, <2>2
  <2> QED BY <2>1, <2>2
<1>15. Held'
  <2>1. /\ Apart(buf \o wire[conn])
        /\ peer[conn] = "reset" => wire[conn] = <<>>
    BY <1>2 DEF ReceiverInv, Held
  <2>2. ~Done => IsPrefix(PushedFrom(conn)' \o PacketsOf(Unparsed)', PacketsOf(Feeds[conn]))
    BY <1>8, <1>13
  <2> QED BY <1>1, <1>2, <2>1, <2>2 DEF Held, PacketsOf, Done
<1>16. Untaken'
  <2>1. \A c \in Conns : c > acceptedConns => c # conn
    BY <1>2, FeedFacts DEF TcpTypeOK, SocketTyped, Conns
  <2> QED BY <1>1, <1>12, <2>1 DEF Untaken, ReceiverInv, Conns
<1>17. PassedOver'
  <2>1. SubSeq(buf, n + 1, n) = <<>>
    BY <1>4, SubSeqEmpty
  <2>2. PacketsOf(<<>>) = <<>>
    <3>1. <<>> \in Seq(Units) /\ \A i \in 1 .. Len(<<>>) : <<>>[i] \notin OurHeads
      OBVIOUS
    <3> QED BY <3>1, PacketsNone
  <2>3. PacketsOf(SubSeq(buf', sentinel' + 1, at')) = <<>>
    <3>1. buf' = buf /\ sentinel' = n /\ at' = n
      BY <1>1, <1>4
    <3> QED BY <2>1, <2>2, <3>1
  <2> QED BY <2>3 DEF PassedOver, PacketsOf
<1> QED BY <1>14, <1>15, <1>16, <1>17

(* A step that leaves the buffer, what was pushed and the connection.      *)
LEMMA StandsStill ==
  ASSUME Fed, ReceiverInv, TcpTypeOK',
         UNCHANGED <<wire, peer, conn, acceptedConns, buf, scan, pushed>>, Done => Done',
         (thread' = "parsing") = (thread = "parsing")
  PROVE  Plucked' /\ Held' /\ Untaken' /\ PassedOver'
<1>1. Unparsed' = Unparsed /\ PacketsOf(Unparsed)' = PacketsOf(Unparsed)
  <2>1. Unparsed' = Unparsed
    BY DEF Unparsed, scan
  <2> QED BY <2>1 DEF PacketsOf
<1>2. \A c : PushedFrom(c)' = PushedFrom(c)
  BY DEF PushedFrom
<1>3. Plucked'
  <2> SUFFICES ASSUME NEW c \in Conns
               PROVE  /\ IsPrefix(PushedFrom(c)', PacketsOf(Feeds[c]))
                      /\ (c = conn /\ ~Done /\ peer[c] # "reset" =>
                            (PushedFrom(c)' \o PacketsOf(Unparsed)') \o PacketsOf(wire[c])
                                = PacketsOf(Feeds[c]))
    BY DEF Plucked, Conns, PacketsOf
  <2> QED BY <1>1, <1>2 DEF ReceiverInv, BufferKept, Plucked
<1>4. Held'
  <2>1. conn # NoConn => PushedFrom(conn)' = PushedFrom(conn)
    BY DEF PushedFrom
  <2> QED BY <1>1, <2>1 DEF ReceiverInv, Held, PacketsOf
<1>5. Untaken'
  BY <1>2 DEF ReceiverInv, Untaken, Conns
<1>6. PassedOver'
  BY DEF ReceiverInv, PassedOver, PacketsOf, scan
<1> QED BY <1>3, <1>4, <1>5, <1>6

(* Of the connection that is accepted nothing was taken yet.               *)
LEMMA AcceptsKeeps ==
  ASSUME Fed, ReceiverInv, TcpTypeOK', Accepts
  PROVE  Plucked' /\ Held' /\ Untaken' /\ PassedOver'
<1>1. /\ thread = "accepting" /\ thread' = "reading" /\ acceptedConns < arrived
      /\ acceptedConns' = acceptedConns + 1 /\ conn' = acceptedConns'
      /\ UNCHANGED <<wire, peer, buf, pushed, exit>>
  BY DEF Accepts, network
<1>2. TcpTypeOK /\ conn = NoConn
  BY <1>1 DEF ReceiverInv, BufferKept, TcpTypeOK, ThreadTyped
<1>3. buf = <<>> /\ acceptedConns \in Nat /\ conn' \in Conns /\ conn' > acceptedConns
  BY <1>1, <1>2, FeedFacts DEF ReceiverInv, Held, TcpTypeOK, SocketTyped,
     Conns
<1>4. PICK d \in Conns : d > acceptedConns /\ conn' = d
  BY <1>1, <1>3
<1>5. /\ PushedFrom(d) = <<>> /\ wire[d] = (IF peer[d] = "reset" THEN <<>> ELSE Feeds[d])
      /\ wire[d] \in Seq(Units)
  BY <1>2, <1>4 DEF ReceiverInv, Untaken, TcpTypeOK, SocketTyped
<1>6. \A c : PushedFrom(c)' = From(pushed, c) /\ PushedFrom(c) = From(pushed, c)
  BY <1>1 DEF PushedFrom, From
<1>7. PacketsOf(Unparsed)' = <<>>
  <2>1. SubSeq(buf', 1, Len(buf')) = <<>>
    BY <1>1, <1>3
  <2>2. Unparsed' = <<>>
    <3>1. (IF thread' = "parsing" THEN at' ELSE 0) + 1 = 1
      BY <1>1
    <3> QED BY <2>1, <3>1 DEF Unparsed
  <2>3. PacketsOf(<<>>) = <<>>
    <3>1. <<>> \in Seq(Units) /\ \A i \in 1 .. Len(<<>>) : <<>>[i] \notin OurHeads
      OBVIOUS
    <3> QED BY <3>1, PacketsNone
  <2> QED BY <2>2, <2>3 DEF PacketsOf
<1>8. /\ Feeds[d] \in Seq(Units) /\ Apart(Feeds[d]) /\ PacketsOf(Feeds[d]) \in Seq(Packets)
      /\ PacketsOf(wire[d]) \in Seq(Packets)
  BY <1>4, <1>5, FeedFacts, PacketsParts
<1>9. Plucked'
  <2> SUFFICES ASSUME NEW c \in Conns
               PROVE  /\ IsPrefix(PushedFrom(c)', PacketsOf(Feeds[c]))
                      /\ (c = d /\ ~Done /\ peer[c] # "reset" =>
                            (PushedFrom(c)' \o PacketsOf(Unparsed)') \o PacketsOf(wire[c])
                                = PacketsOf(Feeds[c]))
    BY <1>1, <1>4 DEF Plucked, Conns, PacketsOf, Done
  <2>1. IsPrefix(PushedFrom(c)', PacketsOf(Feeds[c]))
    BY <1>6 DEF ReceiverInv, BufferKept, Plucked
  <2>2. ASSUME c = d, peer[c] # "reset"
        PROVE  (PushedFrom(c)' \o PacketsOf(Unparsed)') \o PacketsOf(wire[c]) = PacketsOf(Feeds[c])
    <3>1. PushedFrom(c)' = <<>> /\ wire[c] = Feeds[c]
      BY <1>5, <1>6, <2>2
    <3>2. <<>> \o <<>> = <<>> /\ <<>> \o PacketsOf(Feeds[d]) = PacketsOf(Feeds[d])
      BY <1>8, ConcatEmptySeq
    <3> QED BY <1>7, <2>2, <3>1, <3>2
  <2> QED BY <2>1, <2>2
<1>10. Held'
  <2>1. Apart(buf' \o wire'[d])
    <3>1. <<>> \o wire[d] = wire[d]
      BY <1>5, ConcatEmptySeq
    <3>2. Apart(<<>>)
      BY DEF Apart
    <3> QED BY <1>1, <1>3, <1>5, <1>8, <3>1, <3>2
  <2>2. peer'[d] = "reset" => wire'[d] = <<>>
    BY <1>1, <1>5
  <2>3. IsPrefix(PushedFrom(d)' \o PacketsOf(Unparsed)', PacketsOf(Feeds[d]))
    <3>1. PushedFrom(d)' = <<>> /\ <<>> \o <<>> = <<>>
      BY <1>5, <1>6
    <3>2. PacketsOf(Feeds[d]) = <<>> \o PacketsOf(Feeds[d]) /\ <<>> \in Seq(Packets)
      BY <1>8, ConcatEmptySeq
    <3>3. IsPrefix(<<>>, PacketsOf(Feeds[d]))
      BY <1>8, <3>2, PrefixRest
    <3> QED BY <1>7, <3>1, <3>3
  <2>4. d # NoConn
    BY <1>4 DEF Conns, NoConn
  <2>5. PushedFrom(conn)' = PushedFrom(d)'
    BY <1>4, <1>6 DEF PushedFrom
  <2> QED BY <1>4, <2>1, <2>2, <2>3, <2>4, <2>5 DEF Held, PacketsOf
<1>11. Untaken'
  <2> SUFFICES ASSUME NEW c \in Conns, c > acceptedConns + 1
               PROVE  /\ PushedFrom(c)' = <<>>
                      /\ wire[c] = (IF peer[c] = "reset" THEN <<>> ELSE Feeds[c])
    BY <1>1 DEF Untaken, Conns
  <2>1. c > acceptedConns
    BY <1>3 DEF Conns
  <2> QED BY <1>6, <2>1 DEF ReceiverInv, Untaken
<1>12. PassedOver'
  BY <1>1 DEF PassedOver
<1> QED BY <1>9, <1>10, <1>11, <1>12

(* Without a connection nothing is owed but the order.                     *)
LEMMA QuitsKeeps ==
  ASSUME Fed, ReceiverInv, TcpTypeOK', Quits
  PROVE  Plucked' /\ Held' /\ Untaken' /\ PassedOver'
<1>1. /\ conn' = NoConn /\ buf' = <<>> /\ thread' = "testing"
      /\ UNCHANGED <<wire, peer, acceptedConns, pushed>>
  BY DEF Quits, network
<1>2. \A c : PushedFrom(c)' = PushedFrom(c)
  BY <1>1 DEF PushedFrom
<1>3. Plucked'
  <2> SUFFICES ASSUME NEW c \in Conns
               PROVE  IsPrefix(PushedFrom(c)', PacketsOf(Feeds[c])) /\ c # NoConn
    BY <1>1 DEF Plucked, Conns, PacketsOf
  <2>1. c # NoConn
    BY FeedFacts DEF Conns, NoConn
  <2> QED BY <1>2, <2>1 DEF ReceiverInv, BufferKept, Plucked
<1>4. Held' /\ PassedOver'
  BY <1>1 DEF Held, PassedOver
<1>5. Untaken'
  BY <1>1, <1>2 DEF ReceiverInv, Untaken, Conns
<1> QED BY <1>3, <1>4, <1>5

(* A reset takes what was not read; what is in the buffer stays.           *)
LEMMA ResetKeeps ==
  ASSUME Fed, ReceiverInv, TcpTypeOK', NEW c \in Conns, PeerResets(c) \/ PeerCloses(c)
  PROVE  Plucked' /\ Held' /\ Untaken' /\ PassedOver'
<1>1. /\ UNCHANGED <<conn, acceptedConns, thread, buf, at, sentinel, pushed, exit>>
      /\ peer[c] = "here"
      /\ \/ peer' = [peer EXCEPT ![c] = "closed"] /\ wire' = wire
         \/ peer' = [peer EXCEPT ![c] = "reset"] /\ wire' = [wire EXCEPT ![c] = <<>>]
  BY DEF PeerResets, PeerCloses, socket, scan
<1>2. TcpTypeOK /\ wire \in [Conns -> Seq(Units)] /\ peer \in [Conns -> {"here", "closed", "reset"}]
  BY DEF ReceiverInv, BufferKept, TcpTypeOK, SocketTyped
<1>3. \A d \in Conns :
         /\ d # c => wire'[d] = wire[d] /\ peer'[d] = peer[d]
         /\ d = c => \/ peer'[d] = "closed" /\ wire'[d] = wire[d]
                     \/ peer'[d] = "reset" /\ wire'[d] = <<>>
  BY <1>1, <1>2
<1>4. Unparsed' = Unparsed /\ PacketsOf(Unparsed)' = PacketsOf(Unparsed)
  <2>1. Unparsed' = Unparsed
    BY <1>1 DEF Unparsed
  <2> QED BY <2>1 DEF PacketsOf
<1>5. \A d : PushedFrom(d)' = PushedFrom(d)
  BY <1>1 DEF PushedFrom
<1>6. PassedOver'
  BY <1>1 DEF ReceiverInv, PassedOver, PacketsOf
<1>7. Untaken'
  <2> SUFFICES ASSUME NEW d \in Conns, d > acceptedConns
               PROVE  /\ PushedFrom(d)' = <<>>
                      /\ wire'[d] = (IF peer'[d] = "reset" THEN <<>> ELSE Feeds[d])
    BY <1>1 DEF Untaken, Conns
  <2>1. /\ PushedFrom(d) = <<>>
        /\ wire[d] = (IF peer[d] = "reset" THEN <<>> ELSE Feeds[d])
    BY DEF ReceiverInv, Untaken
  <2> QED BY <1>1, <1>3, <1>5, <2>1
<1>8. Plucked' /\ Held'
  <2>1. CASE conn = NoConn
    <3>1. Plucked'
      <4> SUFFICES ASSUME NEW d \in Conns
                   PROVE  IsPrefix(PushedFrom(d)', PacketsOf(Feeds[d])) /\ d # NoConn
        BY <1>1, <2>1 DEF Plucked, Conns, PacketsOf
      <4>1. d # NoConn
        BY FeedFacts DEF Conns, NoConn
      <4> QED BY <1>5, <4>1 DEF ReceiverInv, BufferKept, Plucked
    <3> QED BY <1>1, <2>1, <3>1 DEF ReceiverInv, Held
  <2>2. CASE conn # NoConn
    <3>1. conn \in Conns /\ wire[conn] \in Seq(Units) /\ buf \in Seq(Units)
      BY <1>2, <2>2, OpenConn
    <3>2. Apart(buf \o wire[conn]) /\ (peer[conn] = "reset" => wire[conn] = <<>>)
      BY <2>2 DEF ReceiverInv, Held
    <3>3. wire'[conn] = wire[conn] \/ wire'[conn] = <<>>
      BY <1>3, <3>1
    <3>4. Apart(buf' \o wire'[conn])
      <4>1. Apart(buf \o <<>>)
        BY <3>1, <3>2, ApartParts, ConcatEmptySeq
      <4> QED BY <1>1, <3>2, <3>3, <4>1
    <3>5. peer'[conn] = "reset" => wire'[conn] = <<>>
      BY <1>3, <3>1, <3>2
    <3>6. \/ /\ PacketsOf(Unparsed)' \o PacketsOf(wire'[conn]) =
                    PacketsOf(Unparsed) \o PacketsOf(wire[conn])
             /\ (peer'[conn] = "reset" <=> peer[conn] = "reset")
             /\ (peer[conn] = "reset" => PacketsOf(Unparsed)' = PacketsOf(Unparsed))
          \/ PacketsOf(Unparsed)' = PacketsOf(Unparsed) /\ peer'[conn] = "reset"
      <4>1. \/ wire'[conn] = wire[conn] /\ (peer'[conn] = "reset" <=> peer[conn] = "reset")
            \/ peer'[conn] = "reset"
        BY <1>1, <1>3, <3>1
      <4> QED BY <1>4, <4>1
    <3>7. UNCHANGED <<pushed, conn, acceptedConns>> /\ (Done => Done')
      BY <1>1 DEF Done
    <3> QED BY <2>2, <3>4, <3>5, <3>6, <3>7, GoesOn
  <2> QED BY <2>1, <2>2
<1> QED BY <1>6, <1>7, <1>8

LEMMA ReceiverStep ==
  ASSUME Fed, ReceiverInv, TcpNext
  PROVE  ReceiverInv'
<1>1. TcpTypeOK'
  BY TcpTypeStep DEF ReceiverInv, BufferKept
<1>2. Plucked' /\ Held' /\ Untaken' /\ PassedOver'
  <2>1. CASE TestsFlag \/ EntersAccept \/ AcceptFails \/ ReadsNothing
    <3>1. /\ UNCHANGED <<wire, peer, conn, acceptedConns, buf, scan, pushed>> /\ (Done => Done')
          /\ thread' # "parsing" /\ thread # "parsing"
      BY <2>1 DEF TestsFlag, EntersAccept, AcceptFails, ReadsNothing,
         network, socket, Done
    <3> QED BY <1>1, <3>1, StandsStill
  <2>2. CASE Connects \/ FiveSecondsPass \/ ClosesSockets \/ BecomesBase \/ TcpOver
    <3>1. /\ UNCHANGED <<wire, peer, conn, acceptedConns, buf, scan, pushed>> /\ (Done => Done')
          /\ thread' = thread
      BY <2>2 DEF Connects, FiveSecondsPass, ClosesSockets, BecomesBase,
         ExitStep, TcpOver, tcpVars,
         network, socket, Done
    <3> QED BY <1>1, <3>1, StandsStill
  <2>3. ASSUME NEW c \in Conns, PeerCloses(c) \/ PeerResets(c)
        PROVE  Plucked' /\ Held' /\ Untaken' /\ PassedOver'
    BY <1>1, <2>3, ResetKeeps
  <2> QED BY <1>1, <2>1, <2>2, <2>3, AcceptsKeeps, ReadsKeeps, QuitsKeeps, SkipsKeeps, FindsKeeps,
             EndsParsingKeeps DEF TcpNext, Thread, Sniffer, TcpExit
<1> QED BY <1>1, <1>2 DEF ReceiverInv, BufferKept

(* However reads cut the streams of the connections, the server's packets  *)
(* are found in them and handed on in order and once each, and of the      *)
(* connection that is open the rest are in the buffer or still to be read. *)
THEOREM ReceiverSafety == TcpSpec => []BufferKept
<1>1. TcpInit => ReceiverInv
  BY TcpInitInv, TcpPostmanAssumption
<1>2. ReceiverInv /\ [TcpNext]_tcpVars => ReceiverInv'
  <2>1. CASE TcpNext
    BY <2>1, ReceiverStep, TcpPostmanAssumption
  <2>2. ASSUME ReceiverInv, UNCHANGED tcpVars PROVE ReceiverInv'
    <3>1. /\ UNCHANGED <<wire, peer, conn, acceptedConns, buf, scan, pushed>> /\ (Done => Done')
          /\ thread' = thread
      BY <2>2 DEF tcpVars, network, socket, Done
    <3>2. TcpTypeOK'
      BY <2>2 DEF tcpVars, network, socket, scan, ReceiverInv,
         BufferKept, TcpTypeOK, SocketTyped,
         ThreadTyped, BufferTyped
    <3> QED BY <2>2, <3>1, <3>2, StandsStill, TcpPostmanAssumption DEF ReceiverInv, BufferKept
  <2> QED BY <2>1, <2>2
<1>3. ReceiverInv => BufferKept
  BY DEF ReceiverInv
<1> QED BY <1>1, <1>2, <1>3, PTL DEF TcpSpec
=============================================================================
