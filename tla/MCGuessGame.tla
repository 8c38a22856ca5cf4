---------------------------- MODULE MCGuessGame ----------------------------
(* Values for the run of GuessGame. *)
EXTENDS GuessGame

ToSeven == 1 .. 7
=============================================================================
