---------------------------- MODULE MCTcpSession ----------------------------
(***************************************************************************)
(* Instances of TcpSession for TLC: the sessions to replay.                *)
(***************************************************************************)
EXTENDS TcpSession, TLC

\* a SYN, a data packet of two bytes, a FIN
Short == <<1, 3>>
\* a SYN, data packets of one and two bytes, a FIN
Long == <<1, 2, 4>>
=============================================================================
