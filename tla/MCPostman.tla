----------------------------- MODULE MCPostman -----------------------------
(***************************************************************************)
(* Instances of Postman for TLC.                                           *)
(***************************************************************************)
EXTENDS Postman

TwoStrands == {0, 1}
\* the second packet meets a full queue
TwoPackets == <<0, 0>>
\* The first strand has two to send, the second one on a full queue or, while
\* the other strand waits for its turn, on the queue that is being emptied.
FirstRefills == [s \in TwoStrands |-> 2 - s]
=============================================================================
