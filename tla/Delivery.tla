------------------------------ MODULE Delivery ------------------------------
(***************************************************************************)
(* hw3: a delivery service with two drivers.  Every connection has a       *)
(* thread (handle_client) that takes the orders of its client and, on      *)
(* "confirm", gives the delivery to the driver with less to do.            *)
(* delivery_time[] is what the threads share; delivery_mutex is held for   *)
(* single updates only, so that each update is one step, and the check for *)
(* a long wait between two of them is made without it.                     *)
(***************************************************************************)
EXTENDS FoodMenu, FiniteSets

CONSTANTS
  Clients,    \* connections
  Leavers,    \* the clients that may close before their delivery arrives
  Answers,    \* what a client answers when asked whether to wait
  LongWait    \* 30 in the source

Drivers == {0, 1}

Distance == [dessert |-> 3, beverage |-> 5, diner |-> 8]

ASSUME DeliveryAssumption ==
  /\ IsFiniteSet(Clients)
  /\ Leavers \subseteq Clients
  /\ LongWait \in Nat
  /\ Answers \subseteq {"Yes", "No", "other"}

VARIABLES
  delivery_time, \* what each driver is thought to have to do
  pc,            \* where each thread is
  shop_flag,     \* the shop each client orders from, or "unset"
  amount,        \* how much of each dish it has ordered
  driver_flag,   \* the driver its delivery was given to
  bill,          \* what it was asked to pay, or -1
  line,          \* its connection: "open", "gone" (closed by the client) or
                 \* "reset" (the next send raises SIGPIPE)
  up,            \* whether the server runs
  orders,        \* orders sent (bound)
  phantom        \* what each driver was charged with and is not relieved of (history)

vars == <<delivery_time, pc, shop_flag, amount, driver_flag, bill, line, up,
          orders, phantom>>
orderVars == <<shop_flag, amount, orders>>

Init ==
  /\ delivery_time = [d \in Drivers |-> 0]
  /\ pc = [c \in Clients |-> "away"]
  /\ shop_flag = [c \in Clients |-> "unset"]
  /\ amount = [c \in Clients |-> [d \in Menu |-> 0]]
  /\ driver_flag = [c \in Clients |-> 0]
  /\ bill = [c \in Clients |-> -1]
  /\ line = [c \in Clients |-> "open"]
  /\ up = TRUE
  /\ orders = [c \in Clients |-> 0]
  /\ phantom = [d \in Drivers |-> 0]
-----------------------------------------------------------------------------
Goto(c, from, to) ==
  /\ up
  /\ pc[c] = from
  /\ pc' = [pc EXCEPT ![c] = to]

(* What one send() does to the connection, and to the server: the first to *)
(* a client that has closed is answered by a reset, the second kills.      *)
Send(c) ==
  /\ line' = [line EXCEPT ![c] = IF @ = "gone" THEN "reset" ELSE @]
  /\ up' = (line[c] # "reset")

(* The main thread accepts and creates the thread, or closes at once when  *)
(* there are no more threads.                                              *)
Connect(c) ==
  /\ \/ Goto(c, "away", "loop")
     \/ Goto(c, "away", "closed")
  /\ UNCHANGED <<delivery_time, orderVars, driver_flag, bill, line, up, phantom>>

(* Mutant of Order: any dish is added, whatever the shop. *)
OrderAnywhere(c, dish, n) ==
  /\ Goto(c, "loop", "loop")
  /\ orders[c] < MaxOrders
  /\ orders' = [orders EXCEPT ![c] = @ + 1]
  /\ shop_flag' = [shop_flag EXCEPT ![c] = Shop(dish)]
  /\ amount' = [amount EXCEPT ![c][dish] = @ + n]
  /\ UNCHANGED <<delivery_time, driver_flag, bill, line, up, phantom>>

(* "order <dish> <n>": only from the shop of the dishes before. *)
Order(c, dish, n) ==
  /\ Goto(c, "loop", "loop")
  /\ orders[c] < MaxOrders
  /\ orders' = [orders EXCEPT ![c] = @ + 1]
  /\ \/ /\ shop_flag[c] \in {"unset", Shop(dish)}
        /\ shop_flag' = [shop_flag EXCEPT ![c] = Shop(dish)]
        /\ amount' = [amount EXCEPT ![c][dish] = @ + n]
     \/ /\ shop_flag[c] \notin {"unset", Shop(dish)}
        /\ UNCHANGED <<shop_flag, amount>>
  /\ UNCHANGED <<delivery_time, driver_flag, bill, line, up, phantom>>

(* A name that only contains a dish ("cookies") chooses its shop. *)
OrderUnknown(c, shop) ==
  /\ Goto(c, "loop", "loop")
  /\ orders[c] < MaxOrders
  /\ orders' = [orders EXCEPT ![c] = @ + 1]
  /\ shop_flag[c] = "unset"
  /\ shop_flag' = [shop_flag EXCEPT ![c] = shop]
  /\ UNCHANGED <<delivery_time, amount, driver_flag, bill, line, up, phantom>>

Cancel(c) ==
  /\ Goto(c, "loop", "closed")
  /\ UNCHANGED <<delivery_time, orderVars, driver_flag, bill, line, up, phantom>>

(* The client closes without a word: recv() returns 0 from then on, and no *)
(* branch of the loop leaves it.                                           *)
HangUp(c) ==
  /\ c \in Leavers
  /\ Goto(c, "loop", "spinning")
  /\ line' = [line EXCEPT ![c] = "gone"]
  /\ UNCHANGED <<delivery_time, orderVars, driver_flag, bill, up, phantom>>

(* The client closes while its delivery is under way. *)
Leave(c) ==
  /\ up
  /\ c \in Leavers
  /\ pc[c] \in {"assign", "look", "ask", "deliver"}
  /\ line[c] = "open"
  /\ line' = [line EXCEPT ![c] = "gone"]
  /\ UNCHANGED <<delivery_time, pc, orderVars, driver_flag, bill, up, phantom>>
-----------------------------------------------------------------------------
(* confirm() without an order: a message, and the connection is closed. *)
ConfirmNothing(c) ==
  /\ Goto(c, "loop", "closed")
  /\ shop_flag[c] = "unset"
  /\ UNCHANGED <<delivery_time, orderVars, driver_flag, bill, line, up, phantom>>

Confirm(c) ==
  /\ Goto(c, "loop", "assign")
  /\ shop_flag[c] # "unset"
  /\ UNCHANGED <<delivery_time, orderVars, driver_flag, bill, line, up, phantom>>

delivery_distance(c) == Distance[shop_flag[c]]

Idler == IF delivery_time[0] <= delivery_time[1] THEN 0 ELSE 1

(* Under the mutex: the idler driver has delivery_distance more to do. *)
Take(c) ==
  /\ driver_flag' = [driver_flag EXCEPT ![c] = Idler]
  /\ delivery_time' =
       [delivery_time EXCEPT ![Idler] = @ + delivery_distance(c)]

Drop(c) ==
  delivery_time' =
    [delivery_time EXCEPT ![driver_flag[c]] = @ - delivery_distance(c)]

Assign(c) ==
  /\ Goto(c, "assign", "look")
  /\ Take(c)
  /\ UNCHANGED <<orderVars, bill, line, up, phantom>>

(* The mutex is free again when delivery_time is read. *)
Look(c) ==
  /\ \/ Goto(c, "look", "ask") /\ delivery_time[driver_flag[c]] > LongWait
     \/ Goto(c, "look", "deliver") /\ delivery_time[driver_flag[c]] <= LongWait
  /\ Send(c)
  /\ UNCHANGED <<delivery_time, orderVars, driver_flag, bill, phantom>>

(* Mutant of Answer: recv() is repeated until there is an answer. *)
AnswerAwaited(c) ==
  /\ line[c] = "open"
  /\ \/ "No" \in Answers /\ Goto(c, "ask", "refused")
     \/ "Yes" \in Answers /\ Goto(c, "ask", "again")
     \/ "other" \in Answers /\ Goto(c, "ask", "deliver")
  /\ UNCHANGED <<delivery_time, orderVars, driver_flag, bill, line, up, phantom>>

(* The answer; without one the buffer still holds "confirm". *)
Answer(c) ==
  /\ \/ line[c] = "open" /\ "No" \in Answers /\ Goto(c, "ask", "refused")
     \/ line[c] = "open" /\ "Yes" \in Answers /\ Goto(c, "ask", "again")
     \/ line[c] = "open" /\ "other" \in Answers /\ Goto(c, "ask", "deliver")
     \/ line[c] # "open" /\ Goto(c, "ask", "deliver")
  /\ UNCHANGED <<delivery_time, orderVars, driver_flag, bill, line, up, phantom>>

(* Mutant of Refuse: the delivery stays with the driver. *)
RefuseKeeps(c) ==
  /\ Goto(c, "refused", "closed")
  /\ UNCHANGED <<delivery_time, orderVars, driver_flag, bill, line, up, phantom>>

Refuse(c) ==
  /\ Goto(c, "refused", "closed")
  /\ Drop(c)
  /\ UNCHANGED <<orderVars, driver_flag, bill, line, up, phantom>>

(* "Yes" gives the delivery to the idler driver, once more; the driver it  *)
(* was given to before keeps it for good.                                  *)
Accept(c) ==
  /\ Goto(c, "again", "deliver")
  /\ Take(c)
  /\ phantom' = [phantom EXCEPT ![driver_flag[c]] = @ + delivery_distance(c)]
  /\ Send(c)
  /\ UNCHANGED <<orderVars, bill>>

Cost(c) == Sum(Value(amount[c]), {d \in Menu : Shop(d) = shop_flag[c]})

(* Mutant of Arrive: whichever driver is idler is relieved. *)
ArriveAnyDriver(c) ==
  /\ Goto(c, "deliver", "closed")
  /\ delivery_time' =
       [delivery_time EXCEPT ![1 - Idler] = @ - delivery_distance(c)]
  /\ Send(c)
  /\ bill' = [bill EXCEPT ![c] = Cost(c)]
  /\ UNCHANGED <<orderVars, driver_flag, phantom>>

(* sleep(delivery_distance) is over. *)
Arrive(c) ==
  /\ Goto(c, "deliver", "closed")
  /\ Drop(c)
  /\ Send(c)
  /\ bill' = [bill EXCEPT ![c] = Cost(c)]
  /\ UNCHANGED <<orderVars, driver_flag, phantom>>
-----------------------------------------------------------------------------
Thread(c) ==
  Assign(c) \/ Look(c) \/ Answer(c) \/ Refuse(c) \/ Accept(c) \/ Arrive(c)

Talk(c) ==
  \/ Connect(c) \/ Cancel(c) \/ HangUp(c) \/ Leave(c)
  \/ \E dish \in Dishes, n \in Quantities : Order(c, dish, n)
  \/ \E shop \in {Shop(dish) : dish \in Dishes} : OrderUnknown(c, shop)
  \/ ConfirmNothing(c) \/ Confirm(c)

Next == \E c \in Clients : Talk(c) \/ Thread(c)

Spec == Init /\ [][Next]_vars

(* Threads are scheduled, sleeps end, and whoever is asked answers. *)
FairSpec == Spec /\ \A c \in Clients : WF_vars(Thread(c))
-----------------------------------------------------------------------------
(* Every variable keeps its kind of value.                                 *)
TypeOK ==
  /\ delivery_time \in [Drivers -> Int]
  /\ pc \in [Clients -> {"away", "loop", "spinning", "assign", "look", "ask",
                         "refused", "again", "deliver", "closed"}]
  /\ shop_flag \in [Clients -> Shops \cup {"unset"}]
  /\ amount \in [Clients -> [Menu -> Int]]
  /\ driver_flag \in [Clients -> Drivers]
  /\ bill \in [Clients -> Int]
  /\ line \in [Clients -> {"open", "gone", "reset"}]
  /\ up \in BOOLEAN
  /\ orders \in [Clients -> 0 .. MaxOrders]
  /\ phantom \in [Drivers -> Nat]

(* A client orders from one shop (lines 169-215): whatever it has asked    *)
(* for, dishes of another shop are not in its order.                       *)
OneShop ==
  \A c \in Clients, d \in Menu : amount[c][d] # 0 => shop_flag[c] = Shop(d)

(* The bill, summed up for one shop only (lines 61-75), is the price of    *)
(* all the dishes that lines 169-215 have added up for the client; amounts *)
(* below zero, which lines 218-254 do not show it, count as well.          *)
PaysForOrder ==
  \A c \in Clients : bill[c] # -1 => bill[c] = Sum(Value(amount[c]), Menu)

(* The clients whose delivery is with driver d, and how far that is. *)
With(d) ==
  {c \in Clients : /\ pc[c] \in {"look", "ask", "refused", "again", "deliver"}
                   /\ driver_flag[c] = d}

Outstanding(d) == Sum([c \in With(d) |-> delivery_distance(c)], With(d))

(* However orders, answers, refusals and arrivals interleave, each driver  *)
(* is charged with the deliveries that are with it and with those it was   *)
(* given by line 93 and lost to line 122: no charge is lost, and none is   *)
(* taken from the wrong driver (lines 93, 106, 122, 137).                  *)
LoadAccounted ==
  up => \A d \in Drivers : delivery_time[d] = Outstanding(d) + phantom[d]

(* "Subtract the waiting time from the array when the order is delivered"  *)
(* (line 137): a driver with nothing to deliver has nothing to do.         *)
LoadIsOutstanding ==
  up => \A d \in Drivers : Outstanding(d) = 0 => delivery_time[d] = 0

(* A confirmed order is delivered or refused, unless the server dies.      *)
OrdersEnd ==
  \A c \in Clients : pc[c] = "assign" ~> (pc[c] = "closed" \/ ~up)
=============================================================================
