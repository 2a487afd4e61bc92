----------------------------- MODULE SessionLife -----------------------------
(***************************************************************************)
(* What a replayed session promises the strand it runs on: it dies once,   *)
(* of one cause; one that timed out is asked once more, for the RSTs that  *)
(* reset its peer; then it asks to be removed, and that is the last that   *)
(* is heard of it.                                                         *)
(***************************************************************************)

VARIABLES
  life,     \* "alive", "resetting" (RSTs to be asked for), "dying", "gone"
  cause     \* what it died of

Ungraceful == {"PEER_TIME_OUT", "DORMANCY"}
AllCauses == Ungraceful \cup
             {"ACTIVE_CLOSE", "PASSIVE_CLOSE", "RESET", "NO_FIN_FROM_PEER"}

Init == life = "alive" /\ cause = "none"

\* kill_me
Die(c) == /\ life = "alive"
          /\ life' = IF c \in Ungraceful THEN "resetting" ELSE "dying"
          /\ cause' = c

\* the answers of pls_send_these_packets of a dead session
Reset == life = "resetting" /\ life' = "dying" /\ UNCHANGED cause
Remove == life = "dying" /\ life' = "gone" /\ UNCHANGED cause

Next == (\E c \in AllCauses : Die(c)) \/ Reset \/ Remove

Spec == Init /\ [][Next]_<<life, cause>>
=============================================================================
