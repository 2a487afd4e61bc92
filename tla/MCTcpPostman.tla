----------------------------- MODULE MCTcpPostman -----------------------------
(***************************************************************************)
(* An instance of TcpPostman for TLC: two connections.                     *)
(***************************************************************************)
EXTENDS TcpPostman

Body == [kind |-> "body"]
Junk == [kind |-> "junk"]
Whole(n, len, ours) ==
    <<[kind |-> "head", pkt |-> n, len |-> len, ours |-> ours]>>
    \o [i \in 1..(len - 1) |-> Body]

\* packets of two and one units behind a stray byte, one of somebody else's,
\* and one that is longer than the buffer; then a short connection
TwoFeeds == << <<Junk>> \o Whole(1, 2, TRUE) \o Whole(2, 1, TRUE) \o Whole(3, 2, FALSE)
               \o Whole(4, 4, TRUE),
               Whole(5, 2, TRUE) \o Whole(6, 1, TRUE) >>
Six == 1..6
===============================================================================
