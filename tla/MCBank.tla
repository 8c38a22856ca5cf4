------------------------------- MODULE MCBank -------------------------------
(* Values for the run of Bank: c2 draws money, the others pay in. *)
EXTENDS Bank

CONSTANTS c1, c2, c3

All   == {c1, c2, c3}
Mixed == [c \in Clients |-> IF c = c2 THEN -2 ELSE IF c = c1 THEN 2 ELSE 3]
=============================================================================
