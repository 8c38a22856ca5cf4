---------------------------- MODULE MCGameLobby ----------------------------
(* Values for the run of GameLobby. *)
EXTENDS GameLobby

CONSTANTS c1, c2, c3

Three    == {c1, c2, c3}
FirstTwo == {c1, c2}
=============================================================================
