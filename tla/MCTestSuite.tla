----------------------------- MODULE MCTestSuite -----------------------------
(***************************************************************************)
(* An instance of TestSuite for TLC: what the sessions of two strands      *)
(* report.                                                                 *)
(***************************************************************************)
EXTENDS TestSuite

P(from, syn, seq, len) == [from |-> from, syn |-> syn, seq |-> seq, len |-> len]
Syns(side) == <<P(side, TRUE, 0, 0)>>
Requests == Syns("client") \o <<P("client", FALSE, 1, 2), P("client", FALSE, 3, 1)>>
Closed(traffic) == [closed |-> TRUE, traffic |-> traffic]

\* whole, with an empty packet of the server out of line
Good == Closed(Requests \o Syns("server") \o <<P("server", FALSE, 1, 1),
               P("server", FALSE, 1, 0), P("server", FALSE, 2, 2)>>)
\* a response is missing
Lossy == Closed(Requests \o Syns("server") \o <<P("server", FALSE, 1, 1),
                P("server", FALSE, 3, 1)>>)
Accident == [closed |-> FALSE, traffic |-> Requests]

Two == 0..1
TwoReports == [s \in Two |-> IF s = 0 THEN <<Accident, Lossy>> ELSE <<Good, Accident>>]
Any == {0, 7}
==============================================================================
