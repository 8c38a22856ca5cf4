-------------------------------- MODULE Kiosk --------------------------------
(***************************************************************************)
(* hw1.c: the kiosk takes an order at its terminal and, when it is         *)
(* confirmed, forks a child that shows the total on the seven-segment      *)
(* display, digit by digit, and one that counts the way down on the LED    *)
(* bar and then waits for a key.  It waits for both.                       *)
(***************************************************************************)
EXTENDS GpioDrivers

CONSTANTS
  Quantities, \* what is answered to "How many?"
  MaxItems,   \* bound: answers in an order
  MayFork     \* subset of BOOLEAN: whether fork() succeeds

ASSUME KioskAssumption ==
  Quantities \subseteq Nat /\ MaxItems \in Nat /\ MayFork \subseteq BOOLEAN

Shops == {3, 5, 8} \* shops are told by their distance

Prices == [s \in Shops |-> CASE s = 3 -> {60, 80} [] s = 5 -> {40, 70}
                             [] s = 8 -> {120, 50}]

VARIABLES
  kiosk,    \* where hw1 is; "off" when it does not run
  distance, totalCost, items,
  seg,      \* the display's child: where it is ("none" before the fork, if
            \* it has failed, and when it was waited for), its divisor,
            \* whether it could open the display, and what that has shown
  led       \* likewise for the LED bar, with what is left of the way

kioskVars == <<kiosk, distance, totalCost, items, seg, led>>

NoSeg == [pc |-> "none", divisor |-> 0, opened |-> FALSE, shown |-> <<>>]
NoLed == [pc |-> "none", left |-> 0, opened |-> FALSE, shown |-> <<>>]

Forget == distance' = 0 /\ totalCost' = 0 /\ items' = 0

KioskInit ==
  /\ kiosk = "off"
  /\ distance = 0 /\ totalCost = 0 /\ items = 0
  /\ seg = NoSeg /\ led = NoLed

GoKiosk(from, to) == kiosk = from /\ kiosk' = to
-----------------------------------------------------------------------------
RunKiosk ==
  /\ GoKiosk("off", "menu")
  /\ UNCHANGED <<distance, totalCost, items, seg, led, driverVars>>

(* The list of shops waits for a key. *)
ShopList ==
  /\ GoKiosk("menu", "list") \/ GoKiosk("list", "menu")
  /\ UNCHANGED <<distance, totalCost, items, seg, led, driverVars>>

(* takeOrder: a choice other than the three shops leaves the loop nothing  *)
(* to do, for ever.                                                        *)
ChooseShop ==
  /\ \/ \E s \in Shops : GoKiosk("menu", "order") /\ distance' = s
     \/ GoKiosk("menu", "lost") /\ distance' = 0
  /\ totalCost' = 0 /\ items' = 0
  /\ UNCHANGED <<seg, led, driverVars>>

AddItem ==
  /\ kiosk = "order" /\ items < MaxItems
  /\ \E price \in Prices[distance], number \in Quantities :
       totalCost' = totalCost + number * price
  /\ items' = items + 1
  /\ UNCHANGED <<kiosk, distance, seg, led, driverVars>>

(* "cancel", or "confirm" without a dish. *)
Cancel ==
  /\ GoKiosk("order", "menu")
  /\ Forget
  /\ UNCHANGED <<seg, led, driverVars>>

Confirm ==
  /\ GoKiosk("order", "fork1")
  /\ totalCost # 0
  /\ UNCHANGED <<distance, totalCost, items, seg, led, driverVars>>

ForkSeg ==
  /\ GoKiosk("fork1", "fork2")
  /\ \E ok \in MayFork :
       seg' = IF ok THEN [NoSeg EXCEPT !.pc = "open"] ELSE NoSeg
  /\ UNCHANGED <<distance, totalCost, items, led, driverVars>>

ForkLed ==
  /\ GoKiosk("fork2", "wait1")
  /\ \E ok \in MayFork :
       led' = IF ok THEN [NoLed EXCEPT !.pc = "open"] ELSE NoLed
  /\ UNCHANGED <<distance, totalCost, items, seg, driverVars>>

Ended(child) == child.pc \in {"ended", "crashed"}

(* waitpid(pid1): of -1, if the fork failed, it waits for the other child, *)
(* and not at all when there is none.                                      *)
Wait1 ==
  /\ GoKiosk("wait1", "wait2")
  /\ \/ Ended(seg) /\ seg' = NoSeg /\ UNCHANGED led
     \/ seg.pc = "none" /\ Ended(led) /\ led' = NoLed /\ UNCHANGED seg
     \/ seg.pc = "none" /\ led.pc = "none" /\ UNCHANGED <<seg, led>>
  /\ UNCHANGED <<distance, totalCost, items, driverVars>>

(* Mutant of Wait2: the second child is not waited for. *)
Wait2NotAtAll ==
  /\ GoKiosk("wait2", "menu")
  /\ Forget
  /\ UNCHANGED <<seg, led, driverVars>>

(* waitpid(pid2). *)
Wait2 ==
  /\ GoKiosk("wait2", "menu")
  /\ Ended(led) \/ led.pc = "none"
  /\ led' = NoLed
  /\ Forget
  /\ UNCHANGED <<seg, driverVars>>
-----------------------------------------------------------------------------
(* display_seg(totalCost)                                                  *)

Powers == {1, 10, 100, 1000, 10000, 100000, 1000000, 10000000, 100000000,
           1000000000}

(* The first loop: the largest divisor of the total. *)
Divisor(total) ==
  CHOOSE d \in Powers : total \div d < 10 /\ (d = 1 \/ total \div d > 0)

OpenSeg ==
  /\ seg.pc = "open"
  /\ Open("seg_child", "seg_Dev")
  /\ seg' = [seg EXCEPT !.pc = "write", !.divisor = Divisor(totalCost),
                        !.opened = file'["seg_child"] # "failed"]
  /\ UNCHANGED <<kiosk, distance, totalCost, items, led, mod, region, cdev,
                 node, class, owner, level>>

(* Mutant of WriteSeg: the last digit is left out. *)
WriteSegTens ==
  /\ seg.pc = "write" /\ seg.divisor > 1
  /\ Works("seg_child")
  /\ WriteDigit((totalCost \div seg.divisor) % 10)
  /\ seg' = [seg EXCEPT !.divisor = IF @ = 10 THEN 0 ELSE @ \div 10,
                        !.shown = Append(@, [i \in 1 .. 8 |-> level'[pins.seg[i]]])]
  /\ UNCHANGED <<kiosk, distance, totalCost, items, led, mod, region, cdev,
                 node, class, owner, file, stale>>

(* The next digit; a write to nothing fails unnoticed. *)
WriteSeg ==
  /\ seg.pc = "write" /\ seg.divisor > 0
  /\ \/ /\ Works("seg_child")
        /\ WriteDigit((totalCost \div seg.divisor) % 10)
        /\ seg' = [seg EXCEPT
             !.divisor = @ \div 10,
             !.shown = Append(@, [i \in 1 .. 8 |-> level'[pins.seg[i]]])]
     \/ /\ file["seg_child"] = "failed"
        /\ seg' = [seg EXCEPT !.divisor = @ \div 10]
        /\ UNCHANGED level
  /\ UNCHANGED <<kiosk, distance, totalCost, items, led, mod, region, cdev,
                 node, class, owner, file, stale>>

CloseSeg ==
  /\ seg.pc = "write"
  /\ \/ seg.divisor = 0 /\ MayUse("seg_child") /\ seg' = [seg EXCEPT !.pc = "ended"]
     \/ Crashes("seg_child") /\ seg' = [seg EXCEPT !.pc = "crashed"]
  /\ Close({"seg_child"})
  /\ UNCHANGED <<kiosk, distance, totalCost, items, led, mod, region, cdev,
                 node, class, owner, level>>
-----------------------------------------------------------------------------
(* display_led(distance)                                                   *)

OpenLed ==
  /\ led.pc = "open"
  /\ Open("led_child", "led_Dev")
  /\ led' = [led EXCEPT !.pc = "write", !.left = distance,
                        !.opened = file'["led_child"] # "failed"]
  /\ UNCHANGED <<kiosk, distance, totalCost, items, seg, mod, region, cdev,
                 node, class, owner, level>>

Lit == Cardinality({p \in PinsOf("led") : level'[p] = 1})

WriteLed ==
  /\ led.pc = "write" /\ led.left >= 0
  /\ \/ /\ Works("led_child")
        /\ WriteDistance(led.left)
        /\ led' = [led EXCEPT !.left = @ - 1, !.shown = Append(@, Lit)]
     \/ /\ file["led_child"] = "failed"
        /\ led' = [led EXCEPT !.left = @ - 1]
        /\ UNCHANGED level
  /\ UNCHANGED <<kiosk, distance, totalCost, items, seg, mod, region, cdev,
                 node, class, owner, file, stale>>

(* "please pick up your meal" *)
CloseLed ==
  /\ led.pc = "write"
  /\ \/ led.left < 0 /\ MayUse("led_child") /\ led' = [led EXCEPT !.pc = "key"]
     \/ Crashes("led_child") /\ led' = [led EXCEPT !.pc = "crashed"]
  /\ Close({"led_child"})
  /\ UNCHANGED <<kiosk, distance, totalCost, items, seg, mod, region, cdev,
                 node, class, owner, level>>

(* waitForAnyKey, and a key. *)
KeyLed ==
  /\ led.pc = "key"
  /\ led' = [led EXCEPT !.pc = "ended"]
  /\ UNCHANGED <<kiosk, distance, totalCost, items, seg, driverVars>>

(* Ctrl + C reaches all three. *)
KillKiosk ==
  /\ kiosk # "off" /\ kiosk' = "off"
  /\ Forget
  /\ seg' = NoSeg /\ led' = NoLed
  /\ Close({"seg_child", "led_child"})
  /\ UNCHANGED <<mod, region, cdev, node, class, owner, level>>
-----------------------------------------------------------------------------
Parent == ForkSeg \/ ForkLed \/ Wait1 \/ Wait2
SegChild == OpenSeg \/ WriteSeg \/ CloseSeg
LedChild == OpenLed \/ WriteLed \/ CloseLed \/ KeyLed

KioskNext ==
  \/ ShopList \/ ChooseShop \/ AddItem \/ Cancel \/ Confirm
  \/ Parent \/ SegChild \/ LedChild \/ KillKiosk
-----------------------------------------------------------------------------
Digit(bits) == CHOOSE digit \in 0 .. 9 : seg_for_c[digit] = bits

(* The number that is read when one digit is shown after the other. *)
Reading(shown) ==
  LET upTo[k \in 0 .. Len(shown)] ==
        IF k = 0 THEN 0 ELSE 10 * upTo[k - 1] + Digit(shown[k])
  IN  upTo[Len(shown)]

(* Who watches the displays during an order reads its total, without a     *)
(* leading zero, and sees the bar go from the distance to nothing (lines   *)
(* 41-52, 61-89), if the devices could be opened and stayed; and no child  *)
(* goes on when the menu is back (lines 185-186).                          *)
OrderShown ==
  /\ seg.pc = "ended" /\ seg.opened =>
       Reading(seg.shown) = totalCost /\ Digit(seg.shown[1]) # 0
  /\ led.pc = "ended" /\ led.opened =>
       led.shown = [i \in 1 .. distance + 1 |-> distance + 1 - i]
  /\ kiosk \in {"off", "menu"} => seg.pc = "none" /\ led.pc = "none"
=============================================================================
