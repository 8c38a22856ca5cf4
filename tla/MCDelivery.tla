----------------------------- MODULE MCDelivery -----------------------------
(* Values for the runs of Delivery. *)
EXTENDS Delivery

CONSTANTS c1, c2, c3

One     == {c1}
Two     == {c1, c2}
Three   == {c1, c2, c3}
Nobody  == {}
Rice    == {"tea", "fried-rice", "Egg-drop-soup"}
Single  == {1}
Hungry  == {-1, 2}
Replies == {"Yes", "No", "other"}
=============================================================================
