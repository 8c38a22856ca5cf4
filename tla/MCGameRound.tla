---------------------------- MODULE MCGameRound ----------------------------
(* Values for the runs of GameRound. *)
EXTENDS GameRound

OnTimer   == {Timer}
OnAny     == Thread
OnZero    == {0}
NoLeaver  == {}
OneLeaver == {0}
=============================================================================
