------------------------------ MODULE FoodMenu ------------------------------
(***************************************************************************)
(* What the order servers of hw2 and hw3 have in common: three shops, each *)
(* with two dishes, and what an order of them costs.                       *)
(***************************************************************************)
EXTENDS Integers, Functions

CONSTANTS
  Dishes,     \* what is ordered, a part of Menu
  Quantities, \* how much of it is ordered at a time
  MaxOrders   \* bound: orders of a client

Shops == {"dessert", "beverage", "diner"}

Menu == {"cookie", "cake", "tea", "boba", "fried-rice", "Egg-drop-soup"}

Shop(dish) ==
  CASE dish \in {"cookie", "cake"} -> "dessert"
    [] dish \in {"tea", "boba"}    -> "beverage"
    [] OTHER                       -> "diner"

Price(dish) ==
  CASE dish = "cookie" -> 60  [] dish = "cake" -> 80
    [] dish = "tea" -> 40     [] dish = "boba" -> 70
    [] dish = "fried-rice" -> 120
    [] dish = "Egg-drop-soup" -> 50

ASSUME MenuAssumption ==
  /\ Dishes \subseteq Menu
  /\ Quantities \subseteq Int
  /\ MaxOrders \in Nat

(* The sum of f over the set S. *)
Sum(f, S) == FoldFunctionOnSet(+, 0, f, S)

(* What each dish of an order costs. *)
Value(order) == [d \in Menu |-> order[d] * Price(d)]
=============================================================================
