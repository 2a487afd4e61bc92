------------------------ MODULE MCRealtimeCapturer ------------------------
(***************************************************************************)
(* Instances of RealtimeCapturer for TLC: what two connections send.       *)
(***************************************************************************)
EXTENDS RealtimeCapturer

Two == {1, 2}
Whole(n, p) == <<[kind |-> "head", pkt |-> n, port |-> p], [kind |-> "tail"]>>
Junk == <<[kind |-> "junk"]>>

\* three packets of two sessions behind a stray byte, and one packet
Streams == <<Junk \o Whole(1, 0) \o Whole(2, 1) \o Whole(3, 0), Whole(4, 0)>>
Four == 1..4
=============================================================================
