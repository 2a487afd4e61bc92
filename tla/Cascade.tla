------------------------------- MODULE Cascade -------------------------------
(***************************************************************************)
(* The cascade copies every received packet into a FIFO, for another       *)
(* instance to replay.  push_back is called by the postman's receiving     *)
(* thread; a forwarder thread opens the FIFO, writes the blocks to it, and *)
(* sleeps when there are none.  Nothing but _mutex, which only the sleep   *)
(* and the notification hold, keeps the two apart.                         *)
(***************************************************************************)
EXTENDS Integers, Sequences, FiniteSets

CONSTANTS
    QueueLen,      \* capacity of _mem_blocks
    MaxDepartures  \* bound: how often a reader of the FIFO goes away

ASSUME CascadeAssumption == QueueLen \in Nat \ {0} /\ MaxDepartures \in Nat

VARIABLES
    blocks,      \* _mem_blocks
    count,       \* _count
    producer,    \* where push_back is
    forwarder,   \* where run is
    held,        \* the block the forwarder has popped
    done,        \* _done
    reader,      \* does a process have the FIFO open for reading?
    departures,  \* how often one has closed it
    accepted,    \* the blocks that found room in the queue
    forwarded,   \* the blocks written to the FIFO
    lost         \* the blocks whose write failed

fifo == <<reader, departures>>
history == <<accepted, forwarded, lost>>
cascade == <<blocks, count, producer, forwarder, held, done, fifo, history>>

CascadeInit ==
    /\ blocks = <<>> /\ count = 0 /\ producer = "idle"
    /\ forwarder = "opening" /\ held = <<>> /\ done = FALSE
    /\ reader = FALSE /\ departures = 0
    /\ accepted = <<>> /\ forwarded = <<>> /\ lost = <<>>

(***************************************************************************)
(* push_back: push, count, and wake the forwarder if the count is one.     *)
(***************************************************************************)
PushBack(b) ==
    /\ producer = "idle"
    /\ \/ /\ Len(blocks) < QueueLen
          /\ blocks' = Append(blocks, b)
          /\ accepted' = Append(accepted, b)
          /\ producer' = "counting"
       \/ /\ Len(blocks) = QueueLen
          /\ UNCHANGED <<blocks, accepted, producer>>
    /\ UNCHANGED <<count, forwarder, held, done, fifo, forwarded, lost>>

Count ==
    /\ producer = "counting"
    /\ count' = count + 1
    /\ producer' = "notifying"
    /\ UNCHANGED <<blocks, forwarder, held, done, fifo, history>>

Notify ==
    /\ producer = "notifying"
    /\ producer' = "idle"
    /\ forwarder' = IF count = 1 /\ forwarder = "waiting" THEN "testing" ELSE forwarder
    /\ UNCHANGED <<blocks, count, held, done, fifo, history>>

(***************************************************************************)
(* run.  Opening a FIFO for writing waits for a reader.                    *)
(***************************************************************************)
Goto(from, to) ==
    /\ forwarder = from
    /\ forwarder' = to

Open ==
    /\ Goto("opening", "testing")
    /\ reader
    /\ UNCHANGED <<blocks, count, producer, held, done, fifo, history>>

Quit ==
    /\ Goto("testing", "ended")
    /\ done
    /\ UNCHANGED <<blocks, count, producer, held, done, fifo, history>>

PopBlock ==
    /\ Goto("testing", "popped")
    /\ ~done /\ blocks # <<>>
    /\ held' = <<Head(blocks)>>
    /\ blocks' = Tail(blocks)
    /\ UNCHANGED <<count, producer, done, fifo, history>>

NothingToDo ==
    /\ Goto("testing", "empty")
    /\ ~done /\ blocks = <<>>
    /\ UNCHANGED <<blocks, count, producer, held, done, fifo, history>>

\* assert(_count > 0)
AssertFails ==
    /\ Goto("popped", "aborted")
    /\ count <= 0
    /\ UNCHANGED <<blocks, count, producer, held, done, fifo, history>>

Uncount ==
    /\ Goto("popped", "writing")
    /\ count > 0
    /\ count' = count - 1
    /\ UNCHANGED <<blocks, producer, held, done, fifo, history>>

Write ==
    /\ Goto("writing", "testing")
    /\ reader
    /\ forwarded' = forwarded \o held
    /\ held' = <<>>
    /\ UNCHANGED <<blocks, count, producer, done, fifo, accepted, lost>>

WriteFailsGoOn ==
    /\ Goto("writing", "testing")
    /\ ~reader
    /\ lost' = lost \o held
    /\ held' = <<>>
    /\ UNCHANGED <<blocks, count, producer, done, fifo, accepted, forwarded>>

\* EPIPE: the block is gone and the FIFO is opened again
WriteFails ==
    /\ Goto("writing", "opening")
    /\ ~reader
    /\ lost' = lost \o held
    /\ held' = <<>>
    /\ UNCHANGED <<blocks, count, producer, done, fifo, accepted, forwarded>>

\* between the pop that failed and the sleep a notification is missed
FallAsleep ==
    /\ Goto("empty", "waiting")
    /\ UNCHANGED <<blocks, count, producer, held, done, fifo, history>>

NeverTimedOut ==
    /\ FALSE
    /\ UNCHANGED cascade

\* timed_wait, one second
TimedOut ==
    /\ Goto("waiting", "testing")
    /\ UNCHANGED <<blocks, count, producer, held, done, fifo, history>>

Stop ==
    /\ ~done
    /\ done' = TRUE
    /\ UNCHANGED <<blocks, count, producer, forwarder, held, fifo, history>>

(***************************************************************************)
(* The process that reads the FIFO.                                        *)
(***************************************************************************)
ReaderComes ==
    /\ ~reader
    /\ reader' = TRUE
    /\ UNCHANGED <<blocks, count, producer, forwarder, held, done, departures, history>>

ReaderGoes ==
    /\ reader /\ departures < MaxDepartures
    /\ reader' = FALSE
    /\ departures' = departures + 1
    /\ UNCHANGED <<blocks, count, producer, forwarder, held, done, history>>

Forwarder == Open \/ Quit \/ PopBlock \/ NothingToDo \/ AssertFails \/ Uncount
             \/ Write \/ WriteFails \/ FallAsleep \/ TimedOut
Environment == ReaderComes \/ ReaderGoes

-----------------------------------------------------------------------------
(***************************************************************************)
(* The count is the length of the queue but for the block the forwarder    *)
(* has popped and not yet subtracted and the one push_back has not yet     *)
(* added.                                                                  *)
(***************************************************************************)
NotSubtracted == IF forwarder \in {"popped", "aborted"} THEN 1 ELSE 0
NotAdded == IF producer = "counting" THEN 1 ELSE 0

CountAccounts == count = Len(blocks) + NotSubtracted - NotAdded

(***************************************************************************)
(* Blocks reach the FIFO in order, and each reader that goes away costs    *)
(* one block at most: after a failed write nothing is popped until there   *)
(* is a reader again.                                                      *)
(***************************************************************************)
OneLostPerReader ==
    /\ Len(lost) <= departures
    /\ Len(forwarded) + Len(lost) + Len(held) + Len(blocks) = Len(accepted)
    /\ \A i, j \in 1..Len(forwarded) : i < j => forwarded[i] < forwarded[j]

\* What OneLostPerReader rests on.  A forwarder that has opened the FIFO and
\* finds no reader has met a departure that has not cost a block yet.
CascadeTypes ==
    /\ {blocks, held, accepted, forwarded, lost} \subseteq Seq(Nat)
    /\ reader \in BOOLEAN /\ departures \in Nat
    /\ forwarder \in {"opening", "testing", "popped", "empty", "writing", "waiting",
                      "aborted", "ended"}

LossPaidFor ==
    Len(lost) + (IF forwarder # "opening" /\ ~reader THEN 1 ELSE 0) <= departures

\* Blocks pass through the cascade in ascending order.
Below(s, t) == \A i \in 1..Len(s), j \in 1..Len(t) : s[i] < t[j]
Rising(s) == \A i, j \in 1..Len(s) : i < j => s[i] < s[j]
Ascending ==
    /\ Rising(forwarded) /\ Rising(blocks)
    /\ Below(forwarded, held) /\ Below(forwarded, blocks) /\ Below(held, blocks)

(***************************************************************************)
(* "assert(_count > 0)" (cascade.cpp:117).                                 *)
(***************************************************************************)
CountPositive == forwarder = "popped" => count > 0

=============================================================================
