---------------------------- MODULE MCFoodOrder ----------------------------
(* Values for the run of FoodOrder. *)
EXTENDS FoodOrder

Few == {-1, 1, 2}
=============================================================================
