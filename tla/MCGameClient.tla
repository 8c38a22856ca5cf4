---------------------------- MODULE MCGameClient ----------------------------
(* Values for the run of GameClient. *)
EXTENDS GameClient
AnyCall == {"shmget", "shmat", "semget", "setval", "open", "read"}
BelowZero == -1
=============================================================================
