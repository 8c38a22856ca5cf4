----------------------------- MODULE FoodOrder -----------------------------
(***************************************************************************)
(* hw2: the order server that serves one client after the other.  What a   *)
(* client orders is kept in global variables; "cancel" clears them, and    *)
(* main() clears the shop after every client.                              *)
(***************************************************************************)
EXTENDS FoodMenu

CONSTANT MaxClients \* bound: clients served

ASSUME FoodOrderAssumption == MaxClients \in Nat

VARIABLES
  main_pc,      \* "accept", "serving" (handle_client) or "spinning"
  current_shop, \* shop_flag: the shop, or "unset"
  amounts,      \* cookie_amount, cake_amount, ... egg_amount
  response,     \* the order last written to response[]: dishes and amounts
  charged,      \* what the client being served was asked to pay, or -1
  served,       \* clients accepted (bound)
  requests,     \* requests of the client being served (bound)
  asked,        \* what this client has ordered from its shop (history)
  carried       \* an order was confirmed since the last cancel (history)

foodVars == <<main_pc, current_shop, amounts, response, charged, served,
              requests, asked, carried>>

Nothing == [d \in Menu |-> 0]

(* What dessert_shop, beverage_shop and diner_shop write for an order. *)
Shown(order, shop) ==
  [d \in {d \in Menu : Shop(d) = shop /\ order[d] > 0} |-> order[d]]

NoResponse == [d \in {} |-> 0]

(* response[] is overwritten only when there is something to write. *)
Written(order, shop) ==
  IF Shown(order, shop) = NoResponse THEN response ELSE Shown(order, shop)

FoodInit ==
  /\ main_pc = "accept"
  /\ current_shop = "unset"
  /\ amounts = Nothing
  /\ response = NoResponse
  /\ charged = -1
  /\ served = 0
  /\ requests = 0
  /\ asked = Nothing
  /\ carried = FALSE
-----------------------------------------------------------------------------
AcceptClient ==
  /\ main_pc = "accept"
  /\ served < MaxClients
  /\ main_pc' = "serving"
  /\ served' = served + 1
  /\ requests' = 0
  /\ asked' = Nothing
  /\ charged' = -1
  /\ UNCHANGED <<current_shop, amounts, response, carried>>

Request ==
  /\ main_pc = "serving"
  /\ requests < MaxOrders
  /\ requests' = requests + 1

(* Mutant of Counted: a fried rice counts as a soup. *)
CountedAsSoup(dish) == IF dish = "fried-rice" THEN "Egg-drop-soup" ELSE dish

(* The variable an order is added to: a cake counts as a tea (line 91). *)
Counted(dish) == IF dish = "cake" THEN "tea" ELSE dish

(* "order <dish> <n>" from the shop of the dishes before, or the first. *)
OrderDish(dish, n) ==
  /\ Request
  /\ current_shop \in {"unset", Shop(dish)}
  /\ current_shop' = Shop(dish)
  /\ amounts' = [amounts EXCEPT ![Counted(dish)] = @ + n]
  /\ asked' = [asked EXCEPT ![dish] = @ + n]
  /\ response' = Written(amounts', Shop(dish))
  /\ UNCHANGED <<main_pc, charged, served, carried>>

(* A dish of another shop: the answer is the order as it stands. *)
OrderElsewhere(dish) ==
  /\ Request
  /\ current_shop \notin {"unset", Shop(dish)}
  /\ response' = Written(amounts, current_shop)
  /\ UNCHANGED <<main_pc, current_shop, amounts, charged, served, asked,
                 carried>>

(* "confirm" without a shop is answered, and the client goes on. *)
ConfirmNoShop ==
  /\ Request
  /\ current_shop = "unset"
  /\ UNCHANGED <<main_pc, current_shop, amounts, response, charged, served,
                 asked, carried>>

(* Mutant of OrderCost: the bobas are forgotten. *)
OrderCostWithoutBoba(order, shop) ==
  Sum(Value(order), {d \in Menu \ {"boba"} : Shop(d) = shop})

OrderCost(order, shop) == Sum(Value(order), {d \in Menu : Shop(d) = shop})

(* confirm(): the bill; main() then forgets the shop, and only the shop. *)
ConfirmOrder ==
  /\ main_pc = "serving"
  /\ current_shop # "unset"
  /\ main_pc' = "accept"
  /\ charged' = OrderCost(amounts, current_shop)
  /\ current_shop' = "unset"
  /\ carried' = TRUE
  /\ UNCHANGED <<amounts, response, served, requests, asked>>

(* Mutant of CancelOrder: the order stays, as it does after a delivery. *)
CancelKeepsOrder ==
  /\ main_pc = "serving"
  /\ main_pc' = "accept"
  /\ current_shop' = "unset"
  /\ response' = NoResponse
  /\ carried' = FALSE
  /\ UNCHANGED <<amounts, charged, served, requests, asked>>

(* "cancel" clears every global variable. *)
CancelOrder ==
  /\ main_pc = "serving"
  /\ main_pc' = "accept"
  /\ current_shop' = "unset"
  /\ amounts' = Nothing
  /\ response' = NoResponse
  /\ carried' = FALSE
  /\ UNCHANGED <<charged, served, requests, asked>>

(* The client closes the connection: recv() returns 0 for ever, no branch  *)
(* leaves the loop, and no other client is accepted again.                 *)
ClientHangsUp ==
  /\ main_pc = "serving"
  /\ main_pc' = "spinning"
  /\ UNCHANGED <<current_shop, amounts, response, charged, served, requests,
                 asked, carried>>
-----------------------------------------------------------------------------
FoodNext ==
  \/ AcceptClient \/ ConfirmNoShop \/ ConfirmOrder \/ CancelOrder
  \/ ClientHangsUp
  \/ \E dish \in Dishes :
       OrderElsewhere(dish) \/ \E n \in Quantities : OrderDish(dish, n)

FoodSpec == FoodInit /\ [][FoodNext]_foodVars
-----------------------------------------------------------------------------
(* "The amounts of the dishes" (line 28): until an order is confirmed, the *)
(* variables hold what this client has asked for and the answer shows it,  *)
(* whatever clients before it have ordered and cancelled; also of negative *)
(* amounts, which line 85 takes.  Only an order that these have brought to *)
(* nothing leaves the answer as it was (line 113); and what the answer     *)
(* shows is always from the shop this client has chosen, so that it shows  *)
(* nothing before there is one.  Cakes are excepted: line 91 adds them to  *)
(* the teas.                                                               *)
OrderAsAsked ==
  main_pc = "serving" /\ ~carried =>
    /\ asked["cake"] = 0 =>
         amounts = asked /\ Shown(asked, current_shop) \in {NoResponse, response}
    /\ \A d \in DOMAIN response : Shop(d) = current_shop

(* The bill, summed up for one shop only (lines 46-74), is the price of    *)
(* all that the client has asked for, neither more nor less, as long as    *)
(* every order since the last "cancel" was this client's.                  *)
BillAsAsked ==
  [][ConfirmOrder /\ ~carried /\ asked["cake"] = 0 =>
       charged' = Sum(Value(asked), Menu)]_foodVars
=============================================================================
