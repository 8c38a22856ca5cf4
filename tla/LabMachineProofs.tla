---------------------------- MODULE LabMachineProofs ----------------------------
(***************************************************************************)
(* The whole machine, whatever is typed at the terminals, whichever of the *)
(* kernel's calls fail, and for every number of pins, processes, segments  *)
(* and digits.  First the modules: they take the steps of GpioDrivers only,*)
(* whatever the programs do, and then what holds of those.  Then the       *)
(* trains, the letters, and what the displays show.                        *)
(***************************************************************************)
EXTENDS LabMachine, FunctionTheorems, FiniteSetTheorems, WellFoundedInduction,
        TLAPS

NoPins(d) ==
  \/ \A p \in Pin : owner[p] # d
  \/ d = "led" /\ \A p \in PinsOf("led") : owner[p] = "led"

(* What a module has got agrees with the place its init has reached. *)
Given ==
  \A d \in Drivers :
    /\ d \in region => mod[d] \notin {"absent", "removed", "alloc"}
    /\ d \in cdev => mod[d] \notin {"absent", "removed", "alloc", "cdev_add", "r_unreg"}
    /\ d \in node => mod[d] \in {"request", "loaded", "r_gpio", "r_device", "stuck"}
    /\ class[d] # "none" =>
         mod[d] \in {"device_create", "request", "loaded", "r_gpio", "r_device",
                     "r_class", "stuck"}

(* Between its failures and its next start a module has no pin, but the    *)
(* LED bar may have all of its own; nobody else can free those.            *)
PinsKept ==
  /\ \A p \in Pin : owner[p] # "free" => p \in PinsOf(owner[p])
  /\ \A d \in Drivers : mod[d] \notin {"loaded", "r_gpio", "stuck"} => NoPins(d)
  /\ mod["led"] = "loaded" => \A p \in PinsOf("led") : owner[p] = "led"

(* A class name is given once, and who goes on without a class keeps the   *)
(* error for good.                                                         *)
Classes ==
  /\ \A d \in Drivers :
       /\ mod[d] \in {"device_create", "request", "loaded", "r_gpio", "r_device"} =>
            class[d] # "none"
       /\ mod[d] = "r_class" => class[d] = "made"
  /\ \A d, e \in Drivers :
       class[d] = "made" /\ class[e] = "made" /\ ClassName[d] = ClassName[e] => d = e

IInv == DriverTypeOK /\ Given /\ PinsKept /\ Classes /\ PinsHeld
-----------------------------------------------------------------------------
LEMMA PinLists == \A d \in Drivers : pins[d] \in Seq(Nat)
<1>1. pins["lab3_1"] \in Seq(Nat)
  BY DEF pins
<1>2. pins["lab3_2"] \in Seq(Nat)
  BY DEF pins
<1>3. pins["seg"] \in Seq(Nat)
  BY DEF pins
<1>4. pins["led"] \in Seq(Nat)
  BY DEF pins
<1>5. pins["my_dev"] \in Seq(Nat)
  BY DEF pins
<1> QED BY <1>1, <1>2, <1>3, <1>4, <1>5 DEF Drivers

LEMMA PinsAre ==
  /\ PinsOf("lab3_1") = {12, 16, 20, 21}
  /\ PinsOf("lab3_2") = {25, 8, 7, 1, 12, 16, 20, 21}
  /\ PinsOf("seg") = {25, 8, 7, 1, 12, 16, 20, 21}
  /\ PinsOf("led") = {6, 15, 5, 23, 24, 17, 27, 22}
  /\ PinsOf("my_dev") = {}
<1>1. PinsOf("lab3_1") = {12, 16, 20, 21}
  <2>1. Len(pins["lab3_1"]) = 4 BY DEF pins
  <2>2. 1 .. 4 = {1, 2, 3, 4} OBVIOUS
  <2> QED BY <2>1, <2>2 DEF pins, PinsOf
<1>2. PinsOf("lab3_2") = {25, 8, 7, 1, 12, 16, 20, 21}
  <2>1. Len(pins["lab3_2"]) = 8 BY DEF pins
  <2>2. 1 .. 8 = {1, 2, 3, 4, 5, 6, 7, 8} OBVIOUS
  <2> QED BY <2>1, <2>2 DEF pins, PinsOf
<1>3. PinsOf("seg") = {25, 8, 7, 1, 12, 16, 20, 21}
  <2>1. Len(pins["seg"]) = 8 BY DEF pins
  <2>2. 1 .. 8 = {1, 2, 3, 4, 5, 6, 7, 8} OBVIOUS
  <2> QED BY <2>1, <2>2 DEF pins, PinsOf
<1>4. PinsOf("led") = {6, 15, 5, 23, 24, 17, 27, 22}
  <2>1. Len(pins["led"]) = 8 BY DEF pins
  <2>2. 1 .. 8 = {1, 2, 3, 4, 5, 6, 7, 8} OBVIOUS
  <2> QED BY <2>1, <2>2 DEF pins, PinsOf
<1>5. PinsOf("my_dev") = {}
  BY DEF pins, PinsOf
<1> QED BY <1>1, <1>2, <1>3, <1>4, <1>5

(* Modules that have a pin in common have a class name in common; the LED  *)
(* bar shares neither.                                                     *)
LEMMA SharedPins ==
  ASSUME NEW d \in Drivers, NEW e \in Drivers, NEW p \in PinsOf(d), p \in PinsOf(e)
  PROVE  ClassName[d] = ClassName[e] /\ (d = "led" <=> e = "led")
<1>1. CASE d = "led"
  <2>1. p \in {6, 15, 5, 23, 24, 17, 27, 22}
    BY <1>1, PinsAre
  <2>2. e \notin {"lab3_1", "lab3_2", "seg", "my_dev"}
    BY <2>1, PinsAre
  <2> QED BY <1>1, <2>2 DEF Drivers
<1>2. CASE d = "my_dev"
  BY <1>2, PinsAre
<1>3. CASE d \in {"lab3_1", "lab3_2", "seg"}
  <2>1. p \in {25, 8, 7, 1, 12, 16, 20, 21}
    BY <1>3, PinsAre
  <2>2. e \notin {"led", "my_dev"}
    BY <2>1, PinsAre
  <2>3. e \in {"lab3_1", "lab3_2", "seg"}
    BY <2>2 DEF Drivers
  <2> QED BY <1>3, <2>3 DEF ClassName
<1> QED BY <1>1, <1>2, <1>3 DEF Drivers

LEMMA PinsOfDriver ==
  ASSUME NEW d \in Drivers
  PROVE  /\ PinsOf(d) \subseteq Pin
         /\ Len(pins[d]) \in Nat
         /\ PinsOf(d) = {pins[d][i] : i \in 1 .. Len(pins[d])}
         /\ pins[d] = <<>> => PinsOf(d) = {}
         /\ \A k \in 0 .. Len(pins[d]) :
              {pins[d][i] : i \in 1 .. k} \subseteq PinsOf(d)
<1>1. PinsOf(d) \subseteq Pin
  BY DEF Pin
<1>2. pins[d] \in Seq(Nat)
  BY PinLists
<1>3. PinsOf(d) = {pins[d][i] : i \in 1 .. Len(pins[d])}
  BY DEF PinsOf
<1>4. Len(pins[d]) \in Nat
  BY <1>2
<1>5. ASSUME pins[d] = <<>> PROVE PinsOf(d) = {}
  BY <1>5 DEF PinsOf
<1>6. ASSUME NEW k \in 0 .. Len(pins[d])
      PROVE  {pins[d][i] : i \in 1 .. k} \subseteq PinsOf(d)
  BY <1>3, <1>4
<1> QED BY <1>1, <1>3, <1>4, <1>5, <1>6
(* The pins that d frees are no one else's, if d has its class. *)
LEMMA OnlyOwnPins ==
  ASSUME IInv, NEW d \in Drivers, class[d] = "made",
         NEW e \in Drivers, class[e] = "made", NEW p \in PinsOf(d), p \in PinsOf(e)
  PROVE  d = e
  BY SharedPins DEF IInv, Classes
-----------------------------------------------------------------------------
LEMMA InitHolds == DriverInit => IInv
<1> SUFFICES ASSUME DriverInit PROVE IInv
  OBVIOUS
<1>1. DriverTypeOK
  BY DEF DriverInit, DriverTypeOK, Settled
<1>2. Given
  BY DEF DriverInit, Given
<1>3. PinsKept
  BY DEF DriverInit, PinsKept, NoPins, Drivers
<1>4. Classes
  BY DEF DriverInit, Classes
<1>5. PinsHeld
  BY DEF DriverInit, PinsHeld
<1> QED BY <1>1, <1>2, <1>3, <1>4, <1>5 DEF IInv

(* Steps of init and of its labels that touch no pin and no class. *)
LEMMA PlainStep ==
  ASSUME IInv, NEW d \in Drivers,
         \/ Insmod(d) \/ AllocRegion(d) \/ CdevAdd(d) \/ InvalidPin(d)
         \/ DeleteCdev(d) \/ Unregister(d)
  PROVE  IInv'
<1> USE DEF IInv
<1>0. /\ mod' = [mod EXCEPT ![d] = mod'[d]]
      /\ mod' \in [Drivers -> Settled \cup {"alloc", "cdev_add", "class_create",
           "device_create", "request", "r_gpio", "r_device", "r_class", "r_del",
           "r_unreg"}]
      /\ UNCHANGED <<node, class, owner, level, file>>
  BY DEF DriverTypeOK, Insmod, AllocRegion, CdevAdd, InvalidPin, DeleteCdev,
         Unregister, Goto, Settled
<1>1. DriverTypeOK'
  BY <1>0 DEF DriverTypeOK, Insmod, AllocRegion, CdevAdd, InvalidPin, DeleteCdev,
              Unregister, Users
<1>2. Given'
  BY <1>0 DEF DriverTypeOK, Given, Insmod, AllocRegion, CdevAdd, InvalidPin,
              DeleteCdev, Unregister, Goto
<1>3. PinsKept'
  <2>1. mod[d] \notin {"loaded", "r_gpio", "stuck"}
        /\ mod'[d] \notin {"loaded", "r_gpio", "stuck"}
    BY <1>0 DEF DriverTypeOK, Insmod, AllocRegion, CdevAdd, InvalidPin, DeleteCdev,
                Unregister, Goto
  <2>2. \A e \in Drivers : mod'[e] \notin {"loaded", "r_gpio", "stuck"} =>
          mod[e] \notin {"loaded", "r_gpio", "stuck"}
    BY <1>0, <2>1 DEF DriverTypeOK
  <2>3. mod'["led"] = "loaded" => mod["led"] = "loaded"
    BY <1>0, <2>1 DEF DriverTypeOK, Drivers
  <2>4. owner' = owner
    BY <1>0
  <2> HIDE DEF IInv
  <2>5. PinsKept
    BY DEF IInv
  <2> QED BY <2>2, <2>3, <2>4, <2>5 DEF PinsKept, NoPins
<1>4. Classes'
  <2>1. mod'[d] \in {"device_create", "request", "loaded", "r_gpio", "r_device", "r_class"}
          => mod[d] = "request" /\ mod'[d] = "r_device"
    BY <1>0 DEF DriverTypeOK, Insmod, AllocRegion, CdevAdd, InvalidPin, DeleteCdev,
                Unregister, Goto
  <2> QED BY <1>0, <2>1 DEF Classes, DriverTypeOK
<1>5. PinsHeld'
  <2>1. mod'[d] # "loaded"
    BY <1>0 DEF DriverTypeOK, Insmod, AllocRegion, CdevAdd, InvalidPin, DeleteCdev,
                Unregister, Goto
  <2> QED BY <1>0, <2>1 DEF PinsHeld, DriverTypeOK
<1> QED BY <1>1, <1>2, <1>3, <1>4, <1>5

LEMMA ClassStep ==
  ASSUME IInv, NEW d \in Drivers, ClassCreate(d) \/ DestroyDevice(d) \/ DestroyClass(d)
  PROVE  IInv'
<1> USE DEF IInv
<1>0. /\ mod' = [mod EXCEPT ![d] = mod'[d]]
      /\ \/ mod[d] = "class_create" /\ mod'[d] = "device_create"
         \/ mod[d] = "r_device" /\ mod'[d] = "r_class" /\ class[d] = "made"
         \/ mod[d] = "r_device" /\ mod'[d] = "stuck" /\ class[d] = "error"
         \/ mod[d] = "r_class" /\ mod'[d] = "r_del"
      /\ UNCHANGED <<region, cdev, owner, level, file, stale>>
  BY DEF DriverTypeOK, ClassCreate, DestroyDevice, DestroyClass, Goto
<1>c. /\ class' = [class EXCEPT ![d] = class'[d]]
      /\ class' \in [Drivers -> {"none", "made", "error"}]
  BY DEF DriverTypeOK, ClassCreate, DestroyDevice, DestroyClass
<1>1. DriverTypeOK'
  <2>1. node' \subseteq Drivers
    BY DEF DriverTypeOK, ClassCreate, DestroyDevice, DestroyClass
  <2> QED BY <1>0, <1>c, <2>1 DEF DriverTypeOK, Settled
<1>2. Given'
  BY <1>0, <1>c DEF DriverTypeOK, Given, ClassCreate, DestroyDevice, DestroyClass, Goto
<1>3. PinsKept'
  <2>2. \A e \in Drivers : mod'[e] \notin {"loaded", "r_gpio", "stuck"} =>
          mod[e] \notin {"loaded", "r_gpio", "stuck"}
    BY <1>0 DEF DriverTypeOK
  <2>3. mod'["led"] = "loaded" => mod["led"] = "loaded"
    BY <1>0 DEF DriverTypeOK, Drivers
  <2>4. owner' = owner
    BY <1>0
  <2> HIDE DEF IInv
  <2>5. PinsKept
    BY DEF IInv
  <2> QED BY <2>2, <2>3, <2>4, <2>5 DEF PinsKept, NoPins
<1>4. Classes'
  <2>1. ASSUME NEW e \in Drivers
        PROVE  /\ mod'[e] \in {"device_create", "request", "loaded", "r_gpio", "r_device"}
                    => class'[e] # "none"
               /\ mod'[e] = "r_class" => class'[e] = "made"
    <3>1. CASE e # d
      BY <1>0, <1>c, <3>1 DEF Classes, DriverTypeOK
    <3>2. CASE e = d
      BY <1>0, <1>c, <3>2 DEF Classes, DriverTypeOK, ClassCreate, DestroyDevice,
                              DestroyClass, Goto
    <3> QED BY <3>1, <3>2
  <2>2. ASSUME NEW e \in Drivers, NEW f \in Drivers, class'[e] = "made",
               class'[f] = "made", ClassName[e] = ClassName[f]
        PROVE  e = f
    <3>1. CASE ClassCreate(d)
      BY <1>c, <2>2, <3>1 DEF Classes, DriverTypeOK, ClassCreate, NameTaken
    <3>2. CASE DestroyDevice(d) \/ DestroyClass(d)
      BY <1>c, <2>2, <3>2 DEF Classes, DriverTypeOK, DestroyDevice, DestroyClass
    <3> QED BY <3>1, <3>2
  <2> QED BY <2>1, <2>2 DEF Classes
<1>5. PinsHeld'
  <2>1. ASSUME \A e \in Drivers : class'[e] # "error" PROVE class[d] # "error"
    BY <1>0, <2>1 DEF Classes, Given, DriverTypeOK, ClassCreate, DestroyDevice,
                      DestroyClass, Goto
  <2>2. (\A e \in Drivers : class'[e] # "error") => \A e \in Drivers : class[e] # "error"
    BY <2>1, <1>c DEF DriverTypeOK
  <2> QED BY <1>0, <2>2 DEF PinsHeld, DriverTypeOK
<1> QED BY <1>1, <1>2, <1>3, <1>4, <1>5
LEMMA DeviceStep ==
  ASSUME IInv, NEW d \in Drivers, DeviceCreate(d)
  PROVE  IInv'
<1> USE DEF IInv
<1>0. /\ mod[d] = "device_create"
      /\ mod' = [mod EXCEPT ![d] = mod'[d]]
      /\ mod'[d] \in {"request", "loaded"}
      /\ mod'[d] = "loaded" => PinsOf(d) = {}
      /\ node' \subseteq node \cup {d}
      /\ UNCHANGED <<region, cdev, class, owner, level, file, stale>>
  <2>1. /\ mod[d] = "device_create"
        /\ mod' = [mod EXCEPT ![d] = IF pins[d] = <<>> THEN "loaded" ELSE "request"]
        /\ node' = node \cup {d} \/ node' = node
        /\ UNCHANGED <<region, cdev, class, owner, level, file, stale>>
    BY DEF DeviceCreate, Goto
  <2>2. CASE pins[d] = <<>>
    <3>1. mod' = [mod EXCEPT ![d] = "loaded"]
      BY <2>1, <2>2
    <3>2. PinsOf(d) = {}
      BY <2>2, PinsOfDriver
    <3>3. mod'[d] = "loaded"
      BY <3>1 DEF DriverTypeOK
    <3> QED BY <2>1, <3>1, <3>2, <3>3
  <2>3. CASE pins[d] # <<>>
    BY <2>1, <2>3 DEF DriverTypeOK
  <2> QED BY <2>2, <2>3
<1>l. PinsOf("led") # {}
  BY PinsAre
<1>1. DriverTypeOK'
  BY <1>0 DEF DriverTypeOK, Settled
<1>2. Given'
  BY <1>0 DEF DriverTypeOK, Given
<1>3. PinsKept'
  <2>1. \A e \in Drivers : mod'[e] \notin {"loaded", "r_gpio", "stuck"} =>
          mod[e] \notin {"loaded", "r_gpio", "stuck"}
    BY <1>0 DEF DriverTypeOK
  <2>2. mod'["led"] = "loaded" => mod["led"] = "loaded"
    BY <1>0, <1>l DEF DriverTypeOK, Drivers
  <2>3. owner' = owner
    BY <1>0
  <2> HIDE DEF IInv
  <2>4. PinsKept
    BY DEF IInv
  <2> QED BY <2>1, <2>2, <2>3, <2>4 DEF PinsKept, NoPins
<1>4. Classes'
  BY <1>0 DEF Classes, DriverTypeOK
<1>5. PinsHeld'
  BY <1>0 DEF PinsHeld, DriverTypeOK
<1> QED BY <1>1, <1>2, <1>3, <1>4, <1>5

(* Only pins that are free are taken. *)
LEMMA RequestStep ==
  ASSUME IInv, NEW d \in Drivers, RequestPins(d)
  PROVE  IInv'
<1> USE DEF IInv
<1>0. PICK k \in 0 .. Len(pins[d]) :
        LET granted == {pins[d][i] : i \in 1 .. k} IN
          /\ \A p \in granted : owner[p] = "free"
          /\ owner' = [p \in Pin |-> IF p \in granted THEN d ELSE owner[p]]
          /\ \/ /\ k = Len(pins[d])
                /\ Goto(d, "request", "loaded")
                /\ level' = [p \in Pin |-> IF p \in granted THEN 0 ELSE level[p]]
             \/ /\ k < Len(pins[d])
                /\ owner[pins[d][k + 1]] # "free" \/ "request" \in CallsFail
                /\ Goto(d, "request", "r_gpio")
                /\ UNCHANGED level
          /\ UNCHANGED <<region, cdev, node, class, file, stale>>
  BY DEF RequestPins
<1> DEFINE granted == {pins[d][i] : i \in 1 .. k}
<1>g. /\ \A p \in granted : owner[p] = "free"
      /\ granted \subseteq PinsOf(d)
      /\ PinsOf(d) \subseteq Pin
      /\ owner' = [p \in Pin |-> IF p \in granted THEN d ELSE owner[p]]
  BY <1>0, PinsOfDriver
<1>m. /\ mod[d] = "request"
      /\ mod' = [mod EXCEPT ![d] = mod'[d]]
      /\ mod'[d] \in {"loaded", "r_gpio"}
      /\ mod'[d] = "loaded" => granted = PinsOf(d)
      /\ UNCHANGED <<region, cdev, node, class, file, stale>>
  <2>1. \/ k = Len(pins[d]) /\ mod' = [mod EXCEPT ![d] = "loaded"]
        \/ mod' = [mod EXCEPT ![d] = "r_gpio"]
    BY <1>0 DEF Goto
  <2>2. mod[d] = "request"
    BY <1>0 DEF Goto
  <2>3. PinsOf(d) = {pins[d][i] : i \in 1 .. Len(pins[d])}
    BY PinsOfDriver
  <2>4. mod'[d] = "loaded" => k = Len(pins[d])
    BY <2>1 DEF DriverTypeOK
  <2>5. mod'[d] \in {"loaded", "r_gpio"} /\ mod' = [mod EXCEPT ![d] = mod'[d]]
    BY <2>1 DEF DriverTypeOK
  <2>6. UNCHANGED <<region, cdev, node, class, file, stale>>
    BY <1>0
  <2>7. mod'[d] = "loaded" => granted = PinsOf(d)
    BY <2>3, <2>4
  <2> QED BY <2>2, <2>5, <2>6, <2>7
<1> HIDE DEF granted
<1>1. DriverTypeOK'
  <2>1. owner' \in [Pin -> Drivers \cup {"free"}]
    BY <1>g DEF DriverTypeOK
  <2>2. mod' \in [Drivers -> Settled \cup {"alloc", "cdev_add", "class_create",
           "device_create", "request", "r_gpio", "r_device", "r_class", "r_del",
           "r_unreg"}]
    BY <1>m DEF DriverTypeOK, Settled
  <2> QED BY <1>m, <2>1, <2>2 DEF DriverTypeOK
<1>2. Given'
  BY <1>m DEF DriverTypeOK, Given
<1>3. PinsKept'
  <2>1. ASSUME NEW p \in Pin, owner'[p] # "free" PROVE p \in PinsOf(owner'[p])
    BY <1>g, <2>1 DEF PinsKept
  <2>2. ASSUME NEW e \in Drivers, mod'[e] \notin {"loaded", "r_gpio", "stuck"}
        PROVE  NoPins(e)'
    <3>1. e # d /\ NoPins(e)
      BY <1>m, <2>2 DEF PinsKept, DriverTypeOK
    <3>2. CASE \A p \in Pin : owner[p] # e
      BY <1>g, <3>1, <3>2 DEF NoPins
    <3>3. CASE e = "led" /\ \A p \in PinsOf("led") : owner[p] = "led"
      <4>1. \A p \in PinsOf("led") : p \in Pin /\ p \notin granted
        BY <1>g, <3>3, PinsOfDriver DEF Drivers
      <4> QED BY <1>g, <3>3, <4>1 DEF NoPins
    <3> QED BY <3>1, <3>2, <3>3 DEF NoPins
  <2>3. ASSUME mod'["led"] = "loaded" PROVE \A p \in PinsOf("led") : owner'[p] = "led"
    <3>1. CASE d = "led"
      BY <1>g, <1>m, <2>3, <3>1
    <3>2. CASE d # "led"
      <4>1. \A p \in PinsOf("led") : p \in Pin /\ owner[p] = "led"
        BY <1>m, <2>3, <3>2, PinsOfDriver DEF PinsKept, DriverTypeOK, Drivers
      <4> QED BY <1>g, <4>1
    <3> QED BY <3>1, <3>2
  <2> QED BY <2>1, <2>2, <2>3 DEF PinsKept
<1>4. Classes'
  BY <1>m DEF Classes, DriverTypeOK
<1>5. PinsHeld'
  <2> SUFFICES ASSUME \A e \in Drivers : class[e] # "error",
                      NEW e \in Drivers, mod'[e] = "loaded", NEW p \in PinsOf(e)
               PROVE  owner'[p] = e
    BY <1>m DEF PinsHeld
  <2>0. p \in Pin
    BY PinsOfDriver
  <2>1. CASE e = d
    BY <1>g, <1>m, <2>0, <2>1
  <2>2. CASE e # d
    <3>1. owner[p] = e
      BY <1>m, <2>2 DEF PinsHeld, DriverTypeOK
    <3> QED BY <1>g, <2>0, <3>1 DEF Drivers
  <2> QED BY <2>1, <2>2
<1> QED BY <1>1, <1>2, <1>3, <1>4, <1>5
(* All pins of d are freed, at r_gpio or by rmmod: when every class was    *)
(* made they are d's own.                                                  *)
LEMMA FreeStep ==
  ASSUME IInv, NEW d \in Drivers, FreePins(d)
  PROVE  IInv'
<1> USE DEF IInv
<1>0. /\ mod[d] = "r_gpio" /\ mod' = [mod EXCEPT ![d] = "r_device"]
      /\ owner' = [p \in Pin |-> IF p \in PinsOf(d) THEN "free" ELSE owner[p]]
      /\ UNCHANGED <<region, cdev, node, class, level, file, stale>>
  BY DEF FreePins, Goto, Freed
<1>1. DriverTypeOK'
  BY <1>0 DEF DriverTypeOK
<1>2. Given'
  BY <1>0 DEF DriverTypeOK, Given
<1>3. PinsKept'
  <2>1. ASSUME NEW p \in Pin, owner'[p] # "free" PROVE p \in PinsOf(owner'[p])
    BY <1>0, <2>1 DEF PinsKept
  <2>2. ASSUME NEW e \in Drivers, mod'[e] \notin {"loaded", "r_gpio", "stuck"}
        PROVE  NoPins(e)'
    <3>1. CASE e = d
      <4>1. ASSUME NEW p \in Pin PROVE owner'[p] # e
        BY <1>0, <3>1 DEF PinsKept, Drivers
      <4> QED BY <4>1 DEF NoPins
    <3>2. CASE e # d
      <4>1. NoPins(e)
        BY <1>0, <2>2, <3>2 DEF PinsKept, DriverTypeOK
      <4>2. CASE \A p \in Pin : owner[p] # e
        BY <1>0, <4>2 DEF NoPins, Drivers
      <4>3. CASE e = "led" /\ \A p \in PinsOf("led") : owner[p] = "led"
        <5>1. \A p \in PinsOf("led") : p \in Pin /\ p \notin PinsOf(d)
          BY <3>2, <4>3, SharedPins, PinsOfDriver
        <5> QED BY <1>0, <4>3, <5>1 DEF NoPins
      <4> QED BY <4>1, <4>2, <4>3 DEF NoPins
    <3> QED BY <3>1, <3>2
  <2>3. ASSUME mod'["led"] = "loaded" PROVE \A p \in PinsOf("led") : owner'[p] = "led"
    <3>1. "led" \in Drivers /\ d # "led" /\ mod["led"] = "loaded"
      BY <1>0, <2>3 DEF DriverTypeOK, Drivers
    <3>2. \A p \in PinsOf("led") : p \in Pin /\ p \notin PinsOf(d)
      BY <3>1, SharedPins, PinsOfDriver
    <3> QED BY <1>0, <3>1, <3>2 DEF PinsKept
  <2> QED BY <2>1, <2>2, <2>3 DEF PinsKept
<1>4. Classes'
  BY <1>0 DEF Classes, DriverTypeOK
<1>5. PinsHeld'
  <2> SUFFICES ASSUME \A e \in Drivers : class[e] # "error",
                      NEW e \in Drivers, mod'[e] = "loaded", NEW p \in PinsOf(e)
               PROVE  owner'[p] = e
    BY <1>0 DEF PinsHeld
  <2>1. e # d /\ mod[e] = "loaded" /\ class[e] = "made" /\ class[d] = "made"
    BY <1>0 DEF Classes, DriverTypeOK
  <2>2. p \in Pin /\ p \notin PinsOf(d)
    BY <2>1, OnlyOwnPins, PinsOfDriver
  <2> QED BY <1>0, <2>1, <2>2 DEF PinsHeld
<1> QED BY <1>1, <1>2, <1>3, <1>4, <1>5

LEMMA RmmodStep ==
  ASSUME IInv, NEW d \in Drivers, Rmmod(d)
  PROVE  IInv'
<1> USE DEF IInv
<1>0. /\ mod[d] = "loaded"
      /\ \/ /\ class[d] = "error"
            /\ mod' = [mod EXCEPT ![d] = "stuck"]
            /\ UNCHANGED <<region, cdev, node, class, stale>>
         \/ /\ class[d] = "made"
            /\ mod' = [mod EXCEPT ![d] = "removed"]
            /\ region' = region \ {d} /\ cdev' = cdev \ {d} /\ node' = node \ {d}
            /\ class' = [class EXCEPT ![d] = "none"]
  BY DEF Rmmod, Classes, DriverTypeOK
<1>o. /\ d = "led" => owner' = owner
      /\ d # "led" =>
           owner' = [p \in Pin |-> IF p \in PinsOf(d) THEN "free" ELSE owner[p]]
  BY DEF Rmmod, Freed
<1>1. DriverTypeOK'
  <2>1. owner' \in [Pin -> Drivers \cup {"free"}]
    BY <1>o DEF DriverTypeOK
  <2> QED BY <1>0, <2>1 DEF DriverTypeOK, Settled
<1>2. Given'
  BY <1>0 DEF DriverTypeOK, Given
<1>m. /\ mod'[d] \in {"stuck", "removed"}
      /\ \A e \in Drivers \ {d} : mod'[e] = mod[e]
  BY <1>0 DEF DriverTypeOK
<1>3. PinsKept'
  <2>1. ASSUME NEW p \in Pin, owner'[p] # "free" PROVE p \in PinsOf(owner'[p])
    BY <1>o, <2>1 DEF PinsKept
  <2>2. ASSUME NEW e \in Drivers, mod'[e] \notin {"loaded", "r_gpio", "stuck"}
        PROVE  NoPins(e)'
    <3>1. CASE e = d /\ d = "led"
      BY <1>0, <1>o, <3>1 DEF PinsKept, NoPins
    <3>2. CASE e = d /\ d # "led"
      <4>1. ASSUME NEW p \in Pin PROVE owner'[p] # e
        BY <1>o, <3>2 DEF PinsKept, Drivers
      <4> QED BY <4>1 DEF NoPins
    <3>3. CASE e # d
      <4>1. NoPins(e)
        BY <1>m, <2>2, <3>3 DEF PinsKept
      <4>2. CASE \A p \in Pin : owner[p] # e
        BY <1>o, <4>2 DEF NoPins, Drivers
      <4>3. CASE e = "led" /\ \A p \in PinsOf("led") : owner[p] = "led"
        <5>1. \A p \in PinsOf("led") : p \in Pin /\ p \notin PinsOf(d)
          BY <3>3, <4>3, SharedPins, PinsOfDriver
        <5> QED BY <1>o, <4>3, <5>1 DEF NoPins
      <4> QED BY <4>1, <4>2, <4>3 DEF NoPins
    <3> QED BY <3>1, <3>2, <3>3
  <2>3. ASSUME mod'["led"] = "loaded" PROVE \A p \in PinsOf("led") : owner'[p] = "led"
    <3>1. "led" \in Drivers /\ d # "led" /\ mod["led"] = "loaded"
      BY <1>m, <2>3 DEF Drivers
    <3>2. \A p \in PinsOf("led") : p \in Pin /\ p \notin PinsOf(d)
      BY <3>1, SharedPins, PinsOfDriver
    <3> QED BY <1>o, <3>1, <3>2 DEF PinsKept
  <2> QED BY <2>1, <2>2, <2>3 DEF PinsKept
<1>4. Classes'
  <2>1. ASSUME NEW e \in Drivers, class'[e] = "made" PROVE class[e] = "made"
    BY <1>0, <2>1 DEF DriverTypeOK
  <2>2. ASSUME NEW e \in Drivers
        PROVE  /\ mod'[e] \in {"device_create", "request", "loaded", "r_gpio", "r_device"}
                    => class'[e] # "none"
               /\ mod'[e] = "r_class" => class'[e] = "made"
    BY <1>0 DEF Classes, DriverTypeOK
  <2>3. ASSUME NEW e \in Drivers, NEW f \in Drivers, class'[e] = "made",
               class'[f] = "made", ClassName[e] = ClassName[f]
        PROVE  e = f
    BY <2>1, <2>3 DEF Classes
  <2> QED BY <2>2, <2>3 DEF Classes
<1>5. PinsHeld'
  <2> SUFFICES ASSUME \A e \in Drivers : class'[e] # "error",
                      NEW e \in Drivers, mod'[e] = "loaded", NEW p \in PinsOf(e)
               PROVE  owner'[p] = e
    BY DEF PinsHeld
  <2>1. e # d /\ mod[e] = "loaded" /\ class[d] = "made" /\ \A f \in Drivers : class[f] # "error"
    BY <1>0, <1>m DEF DriverTypeOK
  <2>2. class[e] = "made"
    BY <2>1 DEF Classes, DriverTypeOK
  <2>3. p \in Pin /\ p \notin PinsOf(d) /\ owner[p] = e
    BY <2>1, <2>2, OnlyOwnPins, PinsOfDriver DEF PinsHeld
  <2> QED BY <1>o, <2>3
<1> QED BY <1>1, <1>2, <1>3, <1>4, <1>5

LEMMA UsedStep ==
  ASSUME IInv, Used \/ UNCHANGED driverVars
  PROVE  IInv'
<1>1. UNCHANGED <<mod, region, cdev, node, class, owner>>
  BY DEF Used, driverVars
<1>2. DriverTypeOK'
  BY DEF IInv, DriverTypeOK, Used, driverVars
<1>3. (Given /\ PinsKept /\ Classes /\ PinsHeld)'
  BY <1>1 DEF IInv, Given, PinsKept, NoPins, Classes, PinsHeld
<1> QED BY <1>2, <1>3 DEF IInv
-----------------------------------------------------------------------------
LEMMA NextKeeps ==
  ASSUME IInv, [DriverNext]_driverVars
  PROVE  IInv'
<1>1. CASE Used \/ UNCHANGED driverVars
  BY <1>1, UsedStep
<1>2. ASSUME NEW d \in Drivers, Insmod(d) \/ Loading(d) \/ Rmmod(d)
      PROVE  IInv'
  BY <1>2, PlainStep, ClassStep, DeviceStep, RequestStep, FreeStep, RmmodStep
     DEF Loading
<1> QED BY <1>1, <1>2 DEF DriverNext

(* The inductive invariant of the drivers. *)
THEOREM DriverInvariant == DriverSpec => []IInv
  BY InitHolds, NextKeeps, PTL DEF DriverSpec

(* The machine is the drivers and their users: its commands load, remove   *)
(* and settle modules as GpioDrivers says, and no program changes what a   *)
(* module holds.                                                           *)
THEOREM MachineDrivers == Spec => DriversAlone
<1>1. Init => DriverInit
  BY DEF Init
<1>2. [Next]_vars => [DriverNext]_driverVars
  <2> SUFFICES ASSUME [Next]_vars PROVE [DriverNext]_driverVars
    OBVIOUS
  <2>1. ASSUME NEW d \in Drivers, InsmodCommand(d) \/ RmmodCommand(d)
        PROVE  DriverNext
    BY <2>1 DEF InsmodCommand, RmmodCommand, DriverNext
  <2>2. CASE Load
    BY <2>2 DEF Load, DriverNext
  <2>3. CASE StartProgram
    <3>1. UNCHANGED driverVars
      BY <2>3 DEF StartProgram, RunKiosk, RunWriter, RunLetterWriter, RunReader
    <3> QED BY <3>1
  <2>4. CASE KioskNext
    <3>1. UNCHANGED <<mod, region, cdev, node, class, owner>>
      BY <2>4 DEF KioskNext, Parent, SegChild, LedChild, ShopList, ChooseShop, AddItem,
         Cancel, Confirm, ForkSeg, ForkLed, Wait1, Wait2, OpenSeg, WriteSeg, CloseSeg,
         OpenLed, WriteLed, CloseLed, KeyLed, KillKiosk, driverVars
    <3> QED BY <3>1 DEF DriverNext, Used
  <2>5. CASE WriterNext
    <3>1. UNCHANGED <<mod, region, cdev, node, class, owner>>
      BY <2>5 DEF WriterNext, WriterWorks, WriterOpens, WriteNextBit, WriteCode, Wrote,
         NextDigit, KillWriter
    <3> QED BY <3>1 DEF DriverNext, Used
  <2>6. CASE LetterNext
    <3>1. UNCHANGED <<mod, region, cdev, node, class, owner>>
      BY <2>6 DEF LetterNext, LetterWriterWorks, ReaderWorks, LetterWriterOpens,
         WriteSegment, LetterWriterEnds, ReaderGetsSocket, ReaderConnects, ReaderOpens,
         ReadSegment, SendFrame, ReaderEnds, SigintReader, driverVars
    <3> QED BY <3>1 DEF DriverNext, Used
  <2>7. CASE TrainAlone \/ UNCHANGED vars
    BY <2>7 DEF TrainAlone, vars
  <2> QED BY <2>1, <2>2, <2>3, <2>4, <2>5, <2>6, <2>7 DEF Next
<1> QED BY <1>1, <1>2, PTL DEF Spec, DriversAlone, DriverSpec

(* Type correctness of the drivers, whatever fails and whatever programs   *)
(* do with them.                                                           *)
THEOREM DriverTypes == Spec => []DriverTypeOK
<1>1. IInv => DriverTypeOK
  BY DEF IInv
<1> QED BY <1>1, DriverInvariant, MachineDrivers, PTL DEF DriversAlone

(* A module that is gone has left nothing behind, whatever call of its     *)
(* init has failed and in whatever order modules came and went.            *)
THEOREM DriversLeaveNothing == Spec => []NothingLeft
<1>1. IInv => NothingLeft
  <2> SUFFICES ASSUME IInv, NEW d \in Drivers, mod[d] \in {"absent", "removed"}
               PROVE  /\ d \notin region \cup cdev \cup node /\ class[d] = "none"
                      /\ LET held == {p \in Pin : owner[p] = d} IN
                           held = {} \/ (d = "led" /\ held = PinsOf("led"))
    BY DEF NothingLeft
  <2>1. d \notin region \cup cdev \cup node /\ class[d] = "none"
    BY DEF IInv, Given
  <2>2. NoPins(d)
    BY DEF IInv, PinsKept
  <2>3. ASSUME d = "led", \A p \in PinsOf("led") : owner[p] = "led"
        PROVE  {p \in Pin : owner[p] = d} = PinsOf("led")
    <3>1. \A p \in Pin : owner[p] = d => p \in PinsOf("led")
      BY <2>3 DEF IInv, PinsKept, Drivers
    <3> QED BY <2>3, <3>1, PinsOfDriver
  <2> QED BY <2>1, <2>2, <2>3 DEF NoPins
<1> QED BY <1>1, DriverInvariant, MachineDrivers, PTL DEF DriversAlone

(* No module loses its pins to the error path or the removal of another,   *)
(* as long as all classes were made.                                       *)
THEOREM DriversHoldPins == Spec => []PinsHeld
<1>1. IInv => PinsHeld
  BY DEF IInv
<1> QED BY <1>1, DriverInvariant, MachineDrivers, PTL DEF DriversAlone
-----------------------------------------------------------------------------
(***************************************************************************)
(* The trains of lab5, for any connections and any number of processes.    *)
(***************************************************************************)
Process ==
  [pc : {"free", "accept", "fork", "child", "train", "zombie"},
   parent : Pids \cup {0}, sock : Riders \cup {Closed},
   out : Riders \cup {Closed, Terminal}, fds : Nat]

TrainTypeOK ==
  /\ proc \in [Pids -> Process]
  /\ chld \subseteq Pids /\ handler \subseteq Pids /\ waiting \subseteq Riders

(* On a connection that it was accepted for, and not only forked with. *)
Rides(p) == proc[p].pc \in {"fork", "child", "train"} /\ proc[p].sock # Closed

(* A connection that is not accepted yet is nobody's; one that is has one  *)
(* process on the way to its train, or the train, which runs on it.        *)
Tracks ==
  /\ \A p \in Pids : proc[p].sock # Closed => proc[p].sock \notin waiting
  /\ \A p, q \in Pids :
       Rides(p) /\ Rides(q) /\ proc[p].sock = proc[q].sock => p = q
  /\ \A p \in Pids : proc[p].pc = "train" /\ proc[p].sock # Closed =>
                       proc[p].out = proc[p].sock

(* Only a server that is neither a new child nor in a train has children,  *)
(* and a zombie's parent has been told.                                    *)
Families ==
  \A p \in Pids :
    /\ proc[p].pc # "free" /\ proc[p].parent # 0 =>
         /\ proc[p].parent # p
         /\ proc[proc[p].parent].pc \in {"accept", "fork"}
    /\ proc[p].pc = "zombie" => /\ proc[p].parent # 0
                                /\ proc[p].parent \in chld \cup handler

TrainInv == TrainTypeOK /\ Tracks /\ Families

LEMMA FreeProcess ==
  /\ Free \in Process
  /\ Free.pc = "free" /\ Free.parent = 0 /\ Free.sock = Closed
  BY DEF Free, Process

LEMMA TrainStarts == TrainInit => TrainInv
  BY FreeProcess DEF TrainInit, TrainInv, TrainTypeOK, Tracks, Families, Rides

(* Nothing runs yet, and so nobody has a parent. *)
LEMMA ServerStarts == TrainInv /\ RunServer => TrainInv'
<1> SUFFICES ASSUME TrainInv, RunServer PROVE TrainInv'
  OBVIOUS
<1> DEFINE first == [Free EXCEPT !.pc = "accept"]
<1>1. /\ first \in Process
      /\ first.pc = "accept" /\ first.parent = 0 /\ first.sock = Closed
  BY DEF Free, Process
<1>2. /\ proc' = [proc EXCEPT ![1] = first]
      /\ UNCHANGED <<chld, handler, waiting>> /\ 1 \in Pids
  BY TrainAssumption DEF RunServer
<1>3. \A p \in Pids : proc[p].pc \in {"free", "zombie"}
  BY DEF RunServer, Listens, Serving, TrainInv, TrainTypeOK, Process
<1>4. \A p \in Pids : proc[p].pc = "free"
  BY <1>3 DEF TrainInv, TrainTypeOK, Families, Process
<1> HIDE DEF first
<1>5. /\ \A q \in Pids \ {1} : proc'[q] = proc[q]
      /\ proc'[1] = first
  BY <1>2 DEF TrainInv, TrainTypeOK
<1>6. TrainTypeOK'
  BY <1>1, <1>2 DEF TrainInv, TrainTypeOK
<1>7. Tracks'
  BY <1>1, <1>2, <1>4, <1>5 DEF TrainInv, Tracks, Rides
<1>8. Families'
  BY <1>1, <1>4, <1>5 DEF Families
<1> QED
  BY <1>6, <1>7, <1>8 DEF TrainInv

(* What one process that is no zombie does for itself. *)
LEMMA ProcessStep ==
  ASSUME TrainInv, NEW p \in Pids, NEW self \in Process,
         proc' = [proc EXCEPT ![p] = self], self.parent = proc[p].parent,
         waiting' \subseteq waiting, chld' \subseteq Pids, handler' \subseteq Pids,
         proc[p].pc \in {"accept", "fork", "child"},
         self.pc \in {"accept", "fork", "child", "train"},
         self.pc \in {"child", "train"} => proc[p].pc = "child",
         self.sock # Closed => self.sock \notin waiting',
         self.pc \in {"fork", "child", "train"} /\ self.sock # Closed =>
           (self.sock = proc[p].sock /\ Rides(p)) \/ self.sock \in waiting,
         self.pc = "train" /\ self.sock # Closed => self.out = self.sock,
         proc[p].pc # "child" => (chld \cup handler) \subseteq (chld' \cup handler'),
         (chld \cup handler) \ {p} \subseteq (chld' \cup handler')
  PROVE  TrainInv'
<1>1. /\ \A q \in Pids \ {p} : proc'[q] = proc[q]
      /\ proc'[p] = self
  BY DEF TrainInv, TrainTypeOK
<1>2. TrainTypeOK'
  BY DEF TrainInv, TrainTypeOK
<1>3. Tracks'
  <2>1. \A q \in Pids : proc'[q].sock # Closed => proc'[q].sock \notin waiting'
    BY <1>1 DEF TrainInv, Tracks
  <2>2. \A q \in Pids \ {p} : Rides(q)' <=> Rides(q)
    BY <1>1 DEF Rides
  <2>3. \A q \in Pids \ {p} : Rides(p)' /\ Rides(q) => proc'[p].sock # proc[q].sock
    BY <1>1 DEF TrainInv, Tracks, Rides
  <2> QED
    BY <1>1, <2>1, <2>2, <2>3 DEF TrainInv, Tracks
<1>4. Families'
  <2> SUFFICES ASSUME NEW q \in Pids
               PROVE  /\ proc'[q].pc # "free" /\ proc'[q].parent # 0 =>
                           /\ proc'[q].parent # q
                           /\ proc'[proc'[q].parent].pc \in {"accept", "fork"}
                      /\ proc'[q].pc = "zombie" =>
                           /\ proc'[q].parent # 0
                           /\ proc'[q].parent \in chld' \cup handler'
    BY DEF Families
  <2>1. /\ proc'[q].parent = proc[q].parent
        /\ proc'[q].pc = "free" <=> proc[q].pc = "free"
        /\ proc'[q].pc = "zombie" <=> proc[q].pc = "zombie"
    BY <1>1
  <2>2. ASSUME proc'[q].pc # "free", proc'[q].parent # 0
        PROVE  /\ proc'[q].parent # q
               /\ proc'[proc'[q].parent].pc \in {"accept", "fork"}
    <3> DEFINE r == proc[q].parent
    <3>1. r # q /\ proc[r].pc \in {"accept", "fork"} /\ r \in Pids
      BY <2>1, <2>2 DEF TrainInv, TrainTypeOK, Families, Process
    <3> QED
      BY <1>1, <2>1, <3>1
  <2>3. ASSUME proc'[q].pc = "zombie"
        PROVE  proc'[q].parent # 0 /\ proc'[q].parent \in chld' \cup handler'
    <3>1. /\ proc[q].parent # 0 /\ proc[q].parent \in chld \cup handler
          /\ proc[proc[q].parent].pc \in {"accept", "fork"}
      BY <2>1, <2>3 DEF TrainInv, Families
    <3> QED
      BY <2>1, <3>1
  <2> QED
    BY <2>2, <2>3
<1> QED
  BY <1>2, <1>3, <1>4 DEF TrainInv

(* A child takes its parent's place on the connection. *)
LEMMA ForkStep ==
  ASSUME TrainInv, NEW p \in Pids, Fork(p)
  PROVE  TrainInv'
<1>1. PICK c \in Pids :
        /\ proc[c].pc = "free"
        /\ proc' = [proc EXCEPT ![p].pc = "accept",
                      ![c] = [proc[p] EXCEPT !.pc = "child", !.parent = p]]
  BY DEF Fork
<1> DEFINE child == [proc[p] EXCEPT !.pc = "child", !.parent = p]
           self  == [proc[p] EXCEPT !.pc = "accept"]
<1>2. /\ proc[p] \in Process /\ p # c /\ proc[p].pc = "fork"
      /\ UNCHANGED <<chld, handler, waiting>> /\ p # 0
  BY <1>1, TrainAssumption DEF TrainInv, TrainTypeOK, Fork
<1>3. /\ child \in Process /\ child.pc = "child" /\ child.parent = p
      /\ child.sock = proc[p].sock
  BY <1>2 DEF Process
<1>4. /\ self \in Process /\ self.pc = "accept" /\ self.parent = proc[p].parent
      /\ self.sock = proc[p].sock
  BY <1>2 DEF Process
<1>5. proc' = [proc EXCEPT ![p] = self, ![c] = child]
  BY <1>1, <1>2 DEF TrainInv, TrainTypeOK
<1> HIDE DEF child, self
<1>6. /\ \A q \in Pids \ {p, c} : proc'[q] = proc[q]
      /\ proc'[p] = self /\ proc'[c] = child
  BY <1>2, <1>5 DEF TrainInv, TrainTypeOK
<1>7. TrainTypeOK'
  BY <1>2, <1>3, <1>4, <1>5 DEF TrainInv, TrainTypeOK
<1>8. Tracks'
  <2>1. \A q \in Pids : proc'[q].sock # Closed => proc'[q].sock \notin waiting'
    BY <1>2, <1>3, <1>4, <1>6 DEF TrainInv, Tracks
  <2>2. ~ Rides(p)' /\ \A q \in Pids \ {p, c} : Rides(q)' <=> Rides(q)
    BY <1>4, <1>6 DEF Rides
  <2>3. Rides(c)' => Rides(p) /\ proc'[c].sock = proc[p].sock
    BY <1>2, <1>3, <1>6 DEF Rides
  <2>4. ASSUME NEW q \in Pids, NEW r \in Pids, Rides(q)', Rides(r)',
               proc'[q].sock = proc'[r].sock
        PROVE  q = r
    <3>1. /\ q # p /\ r # p
          /\ q # c => Rides(q) /\ proc'[q].sock = proc[q].sock
          /\ r # c => Rides(r) /\ proc'[r].sock = proc[r].sock
      BY <1>6, <2>2, <2>4
    <3>2. \A t, u \in Pids :
            Rides(t) /\ Rides(u) /\ proc[t].sock = proc[u].sock => t = u
      BY DEF TrainInv, Tracks
    <3> QED
      BY <2>3, <2>4, <3>1, <3>2
  <2>5. \A q \in Pids : proc'[q].pc = "train" /\ proc'[q].sock # Closed =>
                         proc'[q].out = proc'[q].sock
    BY <1>3, <1>4, <1>6 DEF TrainInv, Tracks
  <2> QED
    BY <2>1, <2>4, <2>5 DEF Tracks
<1>9. Families'
  BY <1>1, <1>2, <1>3, <1>4, <1>6
     DEF TrainInv, TrainTypeOK, Families, Process
<1> QED
  BY <1>7, <1>8, <1>9 DEF TrainInv

(* Nobody is left with a parent that is gone. *)
LEMMA DieStep ==
  ASSUME TrainInv, NEW p \in Pids, Die(p), proc[p].pc \in {"fork", "train"}
  PROVE  TrainInv'
<1> DEFINE parent == proc[p].parent
           zombie == [Free EXCEPT !.pc = "zombie", !.parent = parent]
           orphan(q) == [proc[q] EXCEPT !.parent = 0]
           missed == parent # 0 /\ proc[parent].pc # "free"
<1>1. \A q \in Pids : proc[q] \in Process
  BY DEF TrainInv, TrainTypeOK
<1>2. /\ zombie \in Process /\ zombie.pc = "zombie" /\ zombie.parent = parent
      /\ zombie.sock = Closed
  BY <1>1 DEF Free, Process
<1>3. \A q \in Pids : /\ orphan(q) \in Process /\ orphan(q).pc = proc[q].pc
                      /\ orphan(q).parent = 0 /\ orphan(q).sock = proc[q].sock
                      /\ orphan(q).out = proc[q].out
  BY <1>1 DEF Process
<1>4. /\ parent # 0 => /\ parent # p /\ parent \in Pids
                       /\ proc[parent].pc \in {"accept", "fork"}
      /\ missed <=> parent # 0
  BY <1>1 DEF TrainInv, Families, Process
<1>5. /\ proc' = [q \in Pids |->
            IF q = p THEN IF missed THEN zombie ELSE Free
            ELSE IF proc[q].parent = p
            THEN IF proc[q].pc = "zombie" THEN Free ELSE orphan(q)
            ELSE proc[q]]
      /\ chld' = IF missed /\ Serving(parent) THEN (chld \ {p}) \cup {parent}
                 ELSE chld \ {p}
      /\ handler' = handler \ {p}
      /\ waiting' \subseteq waiting
  BY DEF Die
<1> HIDE DEF zombie, orphan
<1>6. /\ proc'[p] = IF parent # 0 THEN zombie ELSE Free
      /\ \A q \in Pids \ {p} :
           proc'[q] = IF proc[q].parent = p
                      THEN IF proc[q].pc = "zombie" THEN Free ELSE orphan(q)
                      ELSE proc[q]
  BY <1>4, <1>5
<1>7. /\ (chld \cup handler) \ {p} \subseteq chld' \cup handler'
      /\ parent # 0 => parent \in chld'
  BY <1>4, <1>5 DEF Serving
<1>8. TrainTypeOK'
  <2>1. \A q \in Pids : proc'[q] \in Process
    BY <1>1, <1>2, <1>3, <1>6, FreeProcess
  <2>2. DOMAIN proc' = Pids /\ proc' = [q \in Pids |-> proc'[q]]
    BY <1>5
  <2>3. chld' \subseteq Pids /\ handler' \subseteq Pids
    BY <1>4, <1>5 DEF TrainInv, TrainTypeOK
  <2> QED
    BY <1>5, <2>1, <2>2, <2>3 DEF TrainInv, TrainTypeOK
<1>9. \A q \in Pids \ {p} :
        \/ proc'[q] = Free
        \/ /\ proc'[q].pc = proc[q].pc /\ proc'[q].sock = proc[q].sock
           /\ proc'[q].out = proc[q].out
  BY <1>3, <1>6
<1>10. proc'[p].sock = Closed /\ proc'[p].pc \in {"zombie", "free"}
  BY <1>2, <1>6, FreeProcess
<1>11. Tracks'
  BY <1>5, <1>9, <1>10, FreeProcess DEF TrainInv, Tracks, Rides
<1>12. Families'
  <2> SUFFICES ASSUME NEW q \in Pids, proc'[q].pc # "free"
               PROVE  /\ proc'[q].parent # 0 =>
                           /\ proc'[q].parent # q
                           /\ proc'[proc'[q].parent].pc \in {"accept", "fork"}
                      /\ proc'[q].pc = "zombie" =>
                           /\ proc'[q].parent # 0
                           /\ proc'[q].parent \in chld' \cup handler'
    BY DEF Families
  <2>1. \A r \in Pids \ {p} : proc[r].pc \in {"accept", "fork"} =>
                                proc'[r].pc \in {"accept", "fork"}
    BY <1>3, <1>6
  <2>2. CASE q = p
    BY <1>2, <1>4, <1>6, <1>7, <2>1, <2>2, FreeProcess
  <2>3. CASE q # p /\ proc[q].parent = p
    BY <1>3, <1>6, <2>3, FreeProcess
  <2>4. CASE q # p /\ proc[q].parent # p
    <3>1. proc'[q] = proc[q] /\ proc[q].parent \in Pids \cup {0}
      BY <1>1, <1>6, <2>4 DEF Process
    <3>2. /\ proc[q].parent # 0 => /\ proc[q].parent # q
                                   /\ proc[proc[q].parent].pc \in {"accept", "fork"}
          /\ proc[q].pc = "zombie" => /\ proc[q].parent # 0
                                      /\ proc[q].parent \in chld \cup handler
      BY <3>1 DEF TrainInv, Families
    <3> QED
      BY <1>7, <2>1, <2>4, <3>1, <3>2
  <2> QED
    BY <2>2, <2>3, <2>4
<1> QED
  BY <1>8, <1>11, <1>12 DEF TrainInv

(* Everything at once. *)
LEMMA ServersKilled == TrainInv /\ KillServers => TrainInv'
<1> SUFFICES ASSUME TrainInv, KillServers PROVE TrainInv'
  OBVIOUS
<1> DEFINE orphan(q) == [proc[q] EXCEPT !.parent = 0]
<1>1. \A q \in Pids :
        proc[q] \in Process => /\ orphan(q) \in Process /\ orphan(q).pc = proc[q].pc
                              /\ orphan(q).parent = 0 /\ orphan(q).sock = proc[q].sock
                              /\ orphan(q).out = proc[q].out
  BY DEF Process
<1>2. /\ proc' = [q \in Pids |-> IF proc[q].pc = "train" THEN orphan(q) ELSE Free]
      /\ chld' = {} /\ handler' = {} /\ waiting' \subseteq waiting
  BY DEF KillServers
<1> HIDE DEF orphan
<1>3. \A q \in Pids :
        \/ proc'[q] = Free
        \/ /\ proc[q].pc = "train" /\ proc'[q].pc = "train" /\ proc'[q].parent = 0
           /\ proc'[q].sock = proc[q].sock /\ proc'[q].out = proc[q].out
  BY <1>1, <1>2 DEF TrainInv, TrainTypeOK
<1>4. TrainTypeOK'
  BY <1>1, <1>2, FreeProcess DEF TrainInv, TrainTypeOK
<1>5. Tracks'
  BY <1>2, <1>3, FreeProcess DEF TrainInv, Tracks, Rides
<1>6. Families'
  BY <1>3, FreeProcess DEF Families
<1> QED
  BY <1>4, <1>5, <1>6 DEF TrainInv

(* Steps that leave every process where it is. *)
LEMMA SignalStep ==
  ASSUME TrainInv, UNCHANGED proc, waiting' \subseteq Riders, chld' \subseteq Pids,
         handler' \subseteq Pids,
         \A q \in Pids : proc[q].sock # Closed => proc[q].sock \notin waiting',
         \A q \in Pids : proc[q].pc = "zombie" /\ proc[q].parent \in chld \cup handler
                          => proc[q].parent \in chld' \cup handler'
  PROVE  TrainInv'
<1>1. TrainTypeOK'
  BY DEF TrainInv, TrainTypeOK
<1>2. Tracks'
  BY DEF TrainInv, Tracks, Rides
<1>3. Families'
  BY DEF TrainInv, Families
<1> QED
  BY <1>1, <1>2, <1>3 DEF TrainInv

LEMMA ReapStep ==
  ASSUME TrainInv, NEW p \in Pids, Reap(p)
  PROVE  TrainInv'
<1>1. PICK z \in Pids : /\ proc[z].pc = "zombie" /\ proc' = [proc EXCEPT ![z] = Free]
                        /\ UNCHANGED <<chld, handler, waiting>>
  BY DEF Reap, Zombies, Children
<1>2. /\ \A q \in Pids \ {z} : proc'[q] = proc[q]
      /\ proc'[z] = Free
  BY <1>1 DEF TrainInv, TrainTypeOK
<1>3. TrainTypeOK'
  BY <1>1, FreeProcess DEF TrainInv, TrainTypeOK
<1>4. Tracks'
  BY <1>1, <1>2, FreeProcess DEF TrainInv, Tracks, Rides
<1>5. Families'
  BY <1>1, <1>2, FreeProcess DEF TrainInv, TrainTypeOK, Families, Process
<1> QED
  BY <1>3, <1>4, <1>5 DEF TrainInv

LEMMA ServeStep ==
  ASSUME TrainInv, NEW p \in Pids, Serve(p) \/ Arrive(p)
  PROVE  TrainInv'
<1>0. proc[p] \in Process
  BY DEF TrainInv, TrainTypeOK
<1>1. CASE Accept(p)
  <2>1. PICK r \in waiting :
          /\ waiting' = waiting \ {r}
          /\ proc' = [proc EXCEPT ![p].pc = "fork", ![p].sock = r, ![p].fds = @ + 1]
    BY <1>1 DEF Accept
  <2> DEFINE self == [proc[p] EXCEPT !.pc = "fork", !.sock = r, !.fds = proc[p].fds + 1]
  <2>2. /\ proc' = [proc EXCEPT ![p] = self] /\ proc[p].pc = "accept"
        /\ UNCHANGED <<chld, handler>>
    BY <1>1, <2>1 DEF Accept, TrainInv, TrainTypeOK
  <2>3. r \in Riders
    BY DEF TrainInv, TrainTypeOK
  <2>4. proc[p].fds + 1 \in Nat
    BY <1>0 DEF Process
  <2>5. /\ self \in Process /\ self.parent = proc[p].parent /\ self.pc = "fork"
        /\ self.sock = r
    BY <1>0, <2>3, <2>4 DEF Process
  <2> HIDE DEF self
  <2> QED
    BY <2>1, <2>2, <2>5, ProcessStep DEF TrainInv, TrainTypeOK
<1>2. CASE AcceptFails(p)
  <2> DEFINE self == [proc[p] EXCEPT !.pc = "fork", !.sock = Closed]
  <2>1. /\ proc' = [proc EXCEPT ![p] = self] /\ proc[p].pc = "accept"
        /\ UNCHANGED <<chld, handler, waiting>>
    BY <1>2 DEF AcceptFails, TrainInv, TrainTypeOK
  <2>2. /\ self \in Process /\ self.parent = proc[p].parent /\ self.pc = "fork"
        /\ self.sock = Closed
    BY <1>0 DEF Process
  <2> HIDE DEF self
  <2> QED
    BY <2>1, <2>2, ProcessStep DEF TrainInv, TrainTypeOK
<1>3. CASE Exec(p) \/ ExecFailed(p)
  <2>1. PICK to \in {"train", "accept"} :
          /\ proc' = [proc EXCEPT ![p].pc = to, ![p].out = Out(p)]
          /\ chld \ {p} \subseteq chld' /\ chld' \subseteq chld
          /\ proc[p].pc = "child" /\ UNCHANGED <<handler, waiting>>
    BY <1>3 DEF Exec, ExecFailed
  <2> DEFINE self == [proc[p] EXCEPT !.pc = to, !.out = Out(p)]
  <2>2. proc' = [proc EXCEPT ![p] = self]
    BY <2>1 DEF TrainInv, TrainTypeOK
  <2>3. /\ self \in Process /\ self.parent = proc[p].parent /\ self.pc = to
        /\ self.sock = proc[p].sock /\ self.out = Out(p)
    BY <1>0 DEF Process, Out
  <2>4. proc[p].sock # Closed => Out(p) = proc[p].sock /\ Rides(p)
                                 /\ proc[p].sock \notin waiting
    BY <2>1 DEF Out, Rides, TrainInv, Tracks
  <2>5. chld' \subseteq Pids /\ handler' \subseteq Pids /\ waiting' \subseteq waiting
        /\ (chld \cup handler) \ {p} \subseteq chld' \cup handler'
    BY <2>1 DEF TrainInv, TrainTypeOK
  <2> HIDE DEF self
  <2>6. /\ self.sock # Closed => self.sock \notin waiting'
        /\ self.pc \in {"fork", "child", "train"} /\ self.sock # Closed =>
             self.sock = proc[p].sock /\ Rides(p)
        /\ self.pc = "train" /\ self.sock # Closed => self.out = self.sock
    BY <2>1, <2>3, <2>4
  <2> QED
    BY <2>1, <2>2, <2>3, <2>5, <2>6, ProcessStep
<1>4. CASE Signalled(p)
  BY <1>4, SignalStep DEF Signalled, TrainInv, TrainTypeOK, Tracks
<1>5. CASE HandlerReturns(p)
  <2>1. \A q \in Pids : proc[q].pc = "zombie" => proc[q].parent # p
    BY <1>5 DEF HandlerReturns, Zombies, Children
  <2> QED
    BY <1>5, <2>1, SignalStep DEF HandlerReturns, TrainInv, TrainTypeOK, Tracks
<1>6. CASE ForkFails(p) \/ Arrive(p)
  BY <1>6, DieStep DEF ForkFails, Arrive
<1> QED
  BY <1>1, <1>2, <1>3, <1>4, <1>5, <1>6, ForkStep, ReapStep DEF Serve

LEMMA TrainStep == TrainInv /\ [RunServer \/ TrainNext]_trainVars => TrainInv'
<1> SUFFICES ASSUME TrainInv, [RunServer \/ TrainNext]_trainVars PROVE TrainInv'
  OBVIOUS
<1>1. ASSUME NEW r \in Riders, Connect(r) PROVE TrainInv'
  BY <1>1, SignalStep DEF Connect, TrainInv, TrainTypeOK, Tracks
<1>2. CASE UNCHANGED trainVars
  BY <1>2, SignalStep DEF trainVars, TrainInv, TrainTypeOK, Tracks
<1> QED
  BY <1>1, <1>2, ServerStarts, ServersKilled, ServeStep DEF TrainNext

LEMMA MachineTrains == Spec => []TrainInv
<1>1. Init => TrainInv
  BY TrainStarts DEF Init
<1>2. [Next]_vars => [RunServer \/ TrainNext]_trainVars
  BY DEF Next, vars, InsmodCommand, RmmodCommand, Load, StartProgram, KioskAlone,
         WriterAlone, LetterAlone, trainVars
<1> QED
  BY <1>1, <1>2, TrainStep, PTL DEF Spec

(* Every train has its connection to itself, with any number of servers    *)
(* that were once children.                                                *)
THEOREM TrainsOwnTrack == Spec => []OwnTrack
<1>1. TrainInv => OwnTrack
  BY DEF TrainInv, Tracks, Rides, OwnTrack
<1> QED
  BY <1>1, MachineTrains, PTL

(* However the trains arrive, none that has ended is forgotten.            *)
THEOREM TrainsAreReaped == Spec => []ZombiesReaped
<1>1. TrainInv => ZombiesReaped
  BY DEF TrainInv, Families, ZombiesReaped, Serving
<1> QED
  BY <1>1, MachineTrains, PTL
-----------------------------------------------------------------------------
(***************************************************************************)
(* The letters of lab4, for any number of segments and letters, and        *)
(* whenever the driver is unloaded and loaded again.                       *)
(***************************************************************************)
LetterTypes ==
  /\ file \in [Processes -> Drivers \cup {"none", "failed"}]
  /\ data \in [1 .. Segments -> Nat]
  /\ letter \in [pc : {"off", "open", "write"}, at : Nat, done : Nat]
  /\ reader \in [pc : {"off", "begin", "connect", "open", "read"}, at : Nat,
                 frame : [1 .. Segments -> Nat], since : Nat]
  /\ letter.at < Segments /\ (letter.pc # "write" => letter.at = 0)
  /\ reader.at <= Segments /\ (reader.pc # "read" => reader.at = 0)
  /\ complete \in Nat /\ complete <= letter.done

Gone == mod["my_dev"] \in {"absent", "removed"}

(* Who has the device open either has the code that is loaded, or has seen *)
(* it go.                                                                  *)
Files ==
  /\ {file["letter_writer"], file["reader"]} \subseteq {"none", "failed", "my_dev"}
  /\ letter.pc = "write" => /\ file["letter_writer"] = "my_dev"
                            /\ Gone => "letter_writer" \in stale
  /\ reader.pc = "read" => /\ file["reader"] = "my_dev"
                           /\ Gone => "reader" \in stale

(* Nobody is writing, or who was writing has lost the driver. *)
Rests == letter.at = 0 \/ "letter_writer" \in stale

(* A new letter replaces the last complete one segment by segment. *)
DataWhole ==
  ~Gone =>
    \A i \in 1 .. Segments :
      data[i] = IF ~Rests /\ i <= letter.at THEN letter.done + 1 ELSE complete

FrameKept ==
  /\ \A i \in 1 .. reader.at : reader.frame[i] >= reader.since
  /\ reader.at > 0 /\ "reader" \notin stale =>
       /\ reader.since <= complete
       /\ Rests /\ complete = reader.since =>
            \A i \in 1 .. reader.at : reader.frame[i] = reader.since

LetterInv == LetterTypes /\ Files /\ DataWhole /\ FrameKept

LEMMA LetterStarts == Init => LetterInv
  BY LetterAssumption
  DEF Init, DriverInit, LetterInit, NoLetter, NoReader, Empty, LetterInv, LetterTypes,
      Files, Gone, DataWhole, FrameKept, Drivers, Processes

(* Whatever does not concern my_dev, its files and its programs. *)
LEMMA LetterStays ==
  ASSUME LetterInv, UNCHANGED <<data, complete, letter, reader>>, Gone' <=> Gone,
         file' \in [Processes -> Drivers \cup {"none", "failed"}],
         \A p \in {"letter_writer", "reader"} :
           file'[p] = file[p] /\ (p \in stale' <=> p \in stale)
  PROVE  LetterInv'
<1>1. LetterTypes' /\ Files'
  BY DEF LetterInv, LetterTypes, Files
<1>2. Rests' <=> Rests
  BY DEF Rests
<1>3. DataWhole'
  BY <1>2 DEF LetterInv, DataWhole
<1>4. FrameKept'
  BY <1>2 DEF LetterInv, FrameKept
<1> QED
  BY <1>1, <1>3, <1>4 DEF LetterInv

(* rmmod, or an insmod that fails after the node was there. *)
LEMMA DriverGoes ==
  ASSUME LetterInv, UNCHANGED <<data, complete, letter, reader, file>>, Gone',
         stale' = stale \cup Users("my_dev")
  PROVE  LetterInv'
<1>1. /\ letter.pc = "write" => "letter_writer" \in stale'
      /\ reader.pc = "read" => "reader" \in stale'
  BY DEF LetterInv, Files, Users, Processes
<1>2. LetterTypes' /\ Files' /\ DataWhole'
  BY <1>1 DEF LetterInv, LetterTypes, Files, DataWhole
<1>3. FrameKept'
  BY <1>1 DEF LetterInv, LetterTypes, FrameKept
<1> QED
  BY <1>2, <1>3 DEF LetterInv

(* insmod. *)
LEMMA DriverComes ==
  ASSUME LetterInv, Gone, ~Gone', ClearData, UNCHANGED <<file, stale>>
  PROVE  LetterInv'
<1>1. /\ letter.pc = "write" => "letter_writer" \in stale'
      /\ reader.pc = "read" => "reader" \in stale'
      /\ UNCHANGED <<letter, reader>> /\ data' = [i \in 1 .. Segments |-> 0]
      /\ complete' = 0
  BY DEF LetterInv, Files, ClearData, Empty
<1>2. Rests'
  BY <1>1 DEF LetterInv, LetterTypes, Rests
<1>3. LetterTypes' /\ Files' /\ DataWhole'
  BY <1>1, <1>2 DEF LetterInv, LetterTypes, Files, DataWhole
<1>4. FrameKept'
  BY <1>1 DEF LetterInv, LetterTypes, FrameKept
<1> QED
  BY <1>3, <1>4 DEF LetterInv

(* What an open() of the device gives, while a module is loaded. *)
LEMMA OpensMyDev ==
  ASSUME IInv, LetterInv, NEW p \in Processes, Open(p, "my_dev")
  PROVE  /\ file' \in [Processes -> Drivers \cup {"none", "failed"}]
         /\ \A q \in Processes \ {p} : file'[q] = file[q]
         /\ stale' = stale \ {p}
         /\ file'[p] = "failed" \/ (file'[p] = "my_dev" /\ ~Gone)
<1>1. \A d \in Drivers : DeviceName[d] = "my_dev" => d = "my_dev"
  BY DEF Drivers, DeviceName
<1>2. node \subseteq Drivers /\ ("my_dev" \in node => ~Gone)
  BY DEF IInv, DriverTypeOK, Given, Gone, Drivers
<1> QED
  BY <1>1, <1>2 DEF Open, LetterInv, LetterTypes

LEMMA WriterStep ==
  ASSUME IInv, LetterInv, UNCHANGED mod, RunLetterWriter \/ LetterWriterWorks
  PROVE  LetterInv'
<1>0. Gone' <=> Gone
  BY DEF Gone
<1>1. CASE RunLetterWriter
  <2>1. /\ letter' = [letter EXCEPT !.pc = "open"] /\ letter.pc = "off"
        /\ UNCHANGED <<data, complete, reader, file, stale>>
    BY <1>1 DEF RunLetterWriter, driverVars
  <2>2. /\ letter'.pc = "open" /\ letter'.at = letter.at
        /\ letter'.done = letter.done /\ Rests' /\ Rests
    BY <2>1 DEF LetterInv, LetterTypes, Rests
  <2>3. LetterTypes' /\ Files' /\ DataWhole' /\ FrameKept'
    BY <1>0, <2>1, <2>2 DEF LetterInv, LetterTypes, Files, DataWhole, FrameKept
  <2> QED
    BY <2>3 DEF LetterInv
<1>2. CASE LetterWriterOpens
  <2>1. /\ letter.pc = "open"
        /\ \/ letter' = [letter EXCEPT !.pc = "off"]
           \/ /\ file'["letter_writer"] # "failed"
              /\ letter' = [letter EXCEPT !.pc = "write", !.at = 0]
        /\ UNCHANGED <<data, complete, reader>>
    BY <1>2 DEF LetterWriterOpens
  <2>2. /\ letter'.pc \in {"off", "write"} /\ letter.at = 0 /\ letter'.at = 0
        /\ letter'.done = letter.done
        /\ letter' \in [pc : {"off", "open", "write"}, at : Nat, done : Nat]
        /\ letter'.pc = "write" => file'["letter_writer"] # "failed"
    BY <2>1 DEF LetterInv, LetterTypes
  <2>3. /\ file' \in [Processes -> Drivers \cup {"none", "failed"}]
        /\ file'["reader"] = file["reader"]
        /\ stale' = stale \ {"letter_writer"}
        /\ file'["letter_writer"] \in {"failed", "my_dev"}
        /\ letter'.pc = "write" => file'["letter_writer"] = "my_dev" /\ ~Gone
    BY <1>2, <2>2, OpensMyDev DEF LetterWriterOpens, Processes
  <2>4. LetterTypes' /\ Files'
    BY <1>0, <2>1, <2>2, <2>3 DEF LetterInv, LetterTypes, Files
  <2>5. Rests' /\ Rests /\ ("reader" \in stale' <=> "reader" \in stale)
    BY <2>2, <2>3 DEF Rests
  <2>6. DataWhole' /\ FrameKept'
    BY <1>0, <2>1, <2>5 DEF LetterInv, DataWhole, FrameKept
  <2> QED
    BY <2>4, <2>6 DEF LetterInv
<1>3. CASE WriteSegment
  <2> DEFINE i == letter.at + 1
  <2>1. /\ letter.pc = "write" /\ i \in 1 .. Segments
        /\ letter.at > 0 => "letter_writer" \notin stale
        /\ data' = [data EXCEPT ![i] = letter.done + 1]
        /\ stale' = stale \ {"letter_writer"} /\ UNCHANGED <<reader, file>>
        /\ \/ /\ i < Segments /\ letter' = [letter EXCEPT !.at = i]
              /\ complete' = complete
           \/ /\ i = Segments
              /\ letter' = [letter EXCEPT !.at = 0, !.done = letter.done + 1]
              /\ complete' = letter'.done
    BY <1>3, LetterAssumption DEF WriteSegment, Crashes, LetterInv, LetterTypes
  <2>2. ~Gone
    BY <1>3 DEF WriteSegment, Works, Crashes, LetterInv, LetterTypes, Files, Gone
  <2>3. /\ \A j \in 1 .. letter.at : data[j] = letter.done + 1
        /\ \A j \in i .. Segments : data[j] = complete
    <3>1. \A j \in 1 .. Segments :
            data[j] = IF letter.at > 0 /\ j <= letter.at THEN letter.done + 1
                      ELSE complete
      <4>1. Rests <=> ~(letter.at > 0)
        BY <2>1 DEF LetterInv, LetterTypes, Rests
      <4> QED
        BY <2>2, <4>1 DEF LetterInv, DataWhole
    <3>2. letter.at \in Nat /\ Segments \in Nat /\ letter.at < Segments
      BY LetterAssumption DEF LetterInv, LetterTypes
    <3> QED
      BY <3>1, <3>2
  <2>4. /\ letter'.pc = "write" /\ letter' \in [pc : {"off", "open", "write"},
                                                at : Nat, done : Nat]
        /\ \/ /\ i < Segments /\ letter'.at = i /\ letter'.done = letter.done
              /\ complete' = complete
           \/ /\ i = Segments /\ letter'.at = 0 /\ letter'.done = letter.done + 1
              /\ complete' = letter.done + 1
    <3>1. letter.done \in Nat /\ letter.at \in Nat /\ i \in Nat
      BY DEF LetterInv, LetterTypes
    <3> HIDE DEF i
    <3>2. CASE i < Segments /\ letter' = [letter EXCEPT !.at = i] /\ complete' = complete
      BY <2>1, <3>1, <3>2 DEF LetterInv, LetterTypes
    <3>3. CASE /\ i = Segments
               /\ letter' = [letter EXCEPT !.at = 0, !.done = letter.done + 1]
               /\ complete' = letter'.done
      <4> DEFINE next == letter.done + 1
      <4>1. next \in Nat
        BY <3>1
      <4>2. letter' = [letter EXCEPT !.at = 0, !.done = next]
        BY <3>3
      <4> HIDE DEF next
      <4>3. letter'.at = 0 /\ letter'.done = next /\ letter'.pc = "write"
            /\ letter' \in [pc : {"off", "open", "write"}, at : Nat, done : Nat]
        BY <2>1, <4>1, <4>2 DEF LetterInv, LetterTypes
      <4> QED
        BY <3>3, <4>3 DEF next
    <3> QED
      BY <2>1, <3>2, <3>3
  <2>5. LetterTypes' /\ Files'
    <3>1. data' \in [1 .. Segments -> Nat] /\ complete' \in Nat
      BY <2>1, <2>4 DEF LetterInv, LetterTypes
    <3>2. letter'.at < Segments /\ complete' <= letter'.done
      BY <2>1, <2>4, LetterAssumption DEF LetterInv, LetterTypes
    <3>3. LetterTypes'
      BY <2>1, <2>4, <3>1, <3>2 DEF LetterInv, LetterTypes
    <3>4. Files'
      BY <1>0, <2>1, <2>2 DEF LetterInv, Files
    <3> QED
      BY <3>3, <3>4
  <2>6. "letter_writer" \notin stale' /\ ("reader" \in stale' <=> "reader" \in stale)
    BY <2>1
  <2>7. DataWhole'
    <3>1. CASE i < Segments /\ letter'.at = i /\ letter'.done = letter.done
               /\ complete' = complete
      <4>1. ~Rests'
        BY <2>1, <2>6, <3>1 DEF LetterInv, LetterTypes, Rests
      <4>2. \A j \in 1 .. Segments :
              data'[j] = IF j <= i THEN letter.done + 1 ELSE complete
        <5> TAKE j \in 1 .. Segments
        <5>1. letter.at \in Nat /\ Segments \in Nat
          BY LetterAssumption DEF LetterInv, LetterTypes
        <5>2. data'[j] = IF j = i THEN letter.done + 1 ELSE data[j]
          BY <2>1 DEF LetterInv, LetterTypes
        <5>3. CASE j = i
          BY <5>1, <5>2, <5>3
        <5>4. CASE j \in 1 .. letter.at
          BY <2>3, <5>1, <5>2, <5>4
        <5>5. CASE j \in i .. Segments /\ j # i
          BY <2>3, <5>1, <5>2, <5>5
        <5> QED
          BY <5>1, <5>3, <5>4, <5>5
      <4> QED
        BY <3>1, <4>1, <4>2 DEF DataWhole
    <3>2. CASE i = Segments /\ letter'.at = 0 /\ complete' = letter.done + 1
      <4>1. \A j \in 1 .. Segments : data'[j] = letter.done + 1
        BY <2>1, <2>3, <3>2 DEF LetterInv, LetterTypes
      <4> QED
        BY <3>2, <4>1 DEF DataWhole, Rests
    <3> QED
      BY <2>4, <3>1, <3>2
  <2>8. FrameKept'
    BY <2>1, <2>4, <2>6 DEF LetterInv, LetterTypes, FrameKept, Rests
  <2> QED
    BY <2>5, <2>7, <2>8 DEF LetterInv
<1>4. CASE LetterWriterEnds
  <2>1. /\ Rests /\ letter' = [letter EXCEPT !.pc = "off", !.at = 0]
        /\ file' = [p \in Processes |-> IF p \in {"letter_writer"} THEN "none" ELSE file[p]]
        /\ stale' = stale \ {"letter_writer"}
        /\ UNCHANGED <<data, complete, reader>>
    BY <1>4 DEF LetterWriterEnds, Close, Crashes, Rests
  <2>2. /\ letter'.pc = "off" /\ letter'.at = 0 /\ letter'.done = letter.done
        /\ letter' \in [pc : {"off", "open", "write"}, at : Nat, done : Nat]
        /\ Rests' /\ file'["reader"] = file["reader"]
        /\ file'["letter_writer"] = "none"
        /\ "reader" \in stale' <=> "reader" \in stale
    BY <2>1 DEF LetterInv, LetterTypes, Rests, Processes
  <2>3. LetterTypes' /\ Files'
    BY <1>0, <2>1, <2>2, LetterAssumption DEF LetterInv, LetterTypes, Files
  <2>4. DataWhole' /\ FrameKept'
    BY <1>0, <2>1, <2>2 DEF LetterInv, DataWhole, FrameKept
  <2> QED
    BY <2>3, <2>4 DEF LetterInv
<1> QED
  BY <1>1, <1>2, <1>3, <1>4 DEF LetterWriterWorks

LEMMA ReaderStep ==
  ASSUME IInv, LetterInv, UNCHANGED mod, RunReader \/ ReaderWorks \/ SigintReader
  PROVE  LetterInv'
<1>0. Gone' <=> Gone
  BY DEF Gone
<1>1. ASSUME UNCHANGED <<data, complete, letter>>, reader'.at = 0,
             reader' \in [pc : {"off", "begin", "connect", "open", "read"}, at : Nat,
                          frame : [1 .. Segments -> Nat], since : Nat],
             file' \in [Processes -> Drivers \cup {"none", "failed"}],
             file'["letter_writer"] = file["letter_writer"],
             "letter_writer" \in stale' <=> "letter_writer" \in stale,
             file'["reader"] \in {"none", "failed", "my_dev"},
             reader'.pc = "read" => /\ file'["reader"] = "my_dev"
                                    /\ Gone => "reader" \in stale'
      PROVE  LetterInv'
  <2>1. LetterTypes'
    BY <1>1, LetterAssumption DEF LetterInv, LetterTypes
  <2>2. Files'
    BY <1>0, <1>1 DEF LetterInv, Files
  <2>3. DataWhole'
    BY <1>0, <1>1 DEF LetterInv, DataWhole, Rests
  <2>4. FrameKept'
    BY <1>1 DEF FrameKept
  <2> QED
    BY <2>1, <2>2, <2>3, <2>4 DEF LetterInv
<1>2. /\ NoReader \in [pc : {"off", "begin", "connect", "open", "read"}, at : Nat,
                      frame : [1 .. Segments -> Nat], since : Nat]
      /\ NoReader.pc = "off" /\ NoReader.at = 0
  BY DEF NoReader, Empty
<1>3. CASE RunReader
  <2>1. /\ reader' = [NoReader EXCEPT !.pc = "begin"]
        /\ UNCHANGED <<data, complete, letter, file, stale>>
    BY <1>3 DEF RunReader, driverVars
  <2> QED
    BY <1>1, <1>2, <2>1 DEF LetterInv, LetterTypes, Files
<1>4. CASE ReaderOpens
  <2>1. /\ \/ reader' = NoReader
           \/ file'["reader"] # "failed" /\ reader' = [reader EXCEPT !.pc = "read"]
        /\ reader.pc = "open" /\ Open("reader", "my_dev")
        /\ UNCHANGED <<data, complete, letter>>
    BY <1>4 DEF ReaderOpens
  <2>2. /\ file' \in [Processes -> Drivers \cup {"none", "failed"}]
        /\ file'["letter_writer"] = file["letter_writer"]
        /\ "letter_writer" \in stale' <=> "letter_writer" \in stale
        /\ file'["reader"] = "failed" \/ (file'["reader"] = "my_dev" /\ ~Gone)
    BY <2>1, OpensMyDev DEF Processes
  <2>3. /\ reader'.at = 0
        /\ reader' \in [pc : {"off", "begin", "connect", "open", "read"}, at : Nat,
                        frame : [1 .. Segments -> Nat], since : Nat]
        /\ reader'.pc = "read" => file'["reader"] # "failed"
    BY <1>2, <2>1 DEF LetterInv, LetterTypes
  <2> QED
    BY <1>1, <2>1, <2>2, <2>3
<1>5. CASE ReadSegment
  <2> DEFINE i == reader.at + 1
             from == IF i = 1 THEN complete ELSE reader.since
  <2>1. /\ reader.pc = "read" /\ i \in 1 .. Segments
        /\ reader.at > 0 => "reader" \notin stale
        /\ reader' = [reader EXCEPT !.at = i, !.frame[i] = data[i], !.since = from]
        /\ stale' = stale \ {"reader"}
        /\ UNCHANGED <<data, complete, letter, file>>
    <3>1. reader.at \in Nat /\ reader.at < Segments /\ Segments \in Nat
      BY <1>5, LetterAssumption DEF ReadSegment, LetterInv, LetterTypes
    <3>2. reader.at > 0 => "reader" \notin stale
      BY <1>5, <3>1 DEF ReadSegment, Crashes
    <3> QED
      BY <1>5, <3>1, <3>2 DEF ReadSegment
  <2>2. ~Gone
    BY <1>5 DEF ReadSegment, Works, Crashes, LetterInv, LetterTypes, Files, Gone
  <2>3. /\ data[i] >= complete /\ data[i] \in Nat
        /\ Rests => data[i] = complete
    BY <2>1, <2>2 DEF LetterInv, LetterTypes, DataWhole
  <2>4. /\ reader'.pc = "read" /\ reader'.at = i /\ reader'.since = from
        /\ reader'.frame = [reader.frame EXCEPT ![i] = data[i]]
        /\ from \in Nat /\ from <= complete
        /\ reader' \in [pc : {"off", "begin", "connect", "open", "read"}, at : Nat,
                        frame : [1 .. Segments -> Nat], since : Nat]
    <3>1. from \in Nat /\ from <= complete
      BY <2>1 DEF LetterInv, LetterTypes, FrameKept
    <3>2. i \in Nat /\ data[i] \in Nat
      BY <2>1, <2>3 DEF LetterInv, LetterTypes
    <3> DEFINE frame == [reader.frame EXCEPT ![i] = data[i]]
    <3>3. frame \in [1 .. Segments -> Nat]
      BY <2>1, <3>2 DEF LetterInv, LetterTypes
    <3> HIDE DEF from, i
    <3>4. reader' = [reader EXCEPT !.at = i, !.frame = frame, !.since = from]
      BY <2>1 DEF LetterInv, LetterTypes
    <3> HIDE DEF frame
    <3>5. /\ reader'.pc = "read" /\ reader'.at = i /\ reader'.since = from
          /\ reader'.frame = frame
          /\ reader' \in [pc : {"off", "begin", "connect", "open", "read"}, at : Nat,
                          frame : [1 .. Segments -> Nat], since : Nat]
      BY <2>1, <3>1, <3>2, <3>3, <3>4 DEF LetterInv, LetterTypes
    <3> QED
      BY <3>1, <3>5 DEF frame
  <2>5. /\ Rests' <=> Rests
        /\ "reader" \notin stale'
        /\ "letter_writer" \in stale' <=> "letter_writer" \in stale
    BY <2>1 DEF Rests
  <2>6. LetterTypes' /\ Files'
    BY <1>0, <2>1, <2>2, <2>4, <2>5 DEF LetterInv, LetterTypes, Files
  <2>7. DataWhole'
    BY <1>0, <2>1, <2>5 DEF LetterInv, DataWhole
  <2>11. /\ reader'.frame[i] = data[i]
         /\ \A j \in 1 .. reader.at :
              reader'.frame[j] = reader.frame[j] /\ from = reader.since
         /\ \A j \in 1 .. i : j = i \/ j \in 1 .. reader.at
    <3>1. /\ reader.at \in Nat /\ Segments \in Nat /\ i \in 1 .. Segments
          /\ reader.frame \in [1 .. Segments -> Nat]
      BY <2>1, LetterAssumption DEF LetterInv, LetterTypes
    <3>2. \A j \in 1 .. reader.at : from = reader.since /\ j # i /\ j \in 1 .. Segments
      BY <3>1
    <3>3. \A j \in 1 .. i : j = i \/ j \in 1 .. reader.at
      BY <3>1
    <3> HIDE DEF from, i
    <3> QED
      BY <2>4, <3>1, <3>2, <3>3
  <2>8. \A j \in 1 .. i : reader'.frame[j] >= from
    <3>1. data[i] >= from
      BY <2>3, <2>4 DEF LetterInv, LetterTypes
    <3>2. \A j \in 1 .. reader.at : reader'.frame[j] >= from
      BY <2>11 DEF LetterInv, FrameKept
    <3> HIDE DEF from, i
    <3> QED
      BY <2>11, <3>1, <3>2
  <2>9. ASSUME Rests, complete = from
        PROVE  \A j \in 1 .. i : reader'.frame[j] = from
    <3>1. data[i] = from
      BY <2>3, <2>9
    <3>2. \A j \in 1 .. reader.at : reader'.frame[j] = from
      <4> SUFFICES ASSUME NEW j \in 1 .. reader.at PROVE reader'.frame[j] = from
        OBVIOUS
      <4>1. reader.at > 0 /\ from = reader.since
        BY <2>11 DEF LetterInv, LetterTypes
      <4> QED
        BY <2>1, <2>11, <2>9, <4>1 DEF LetterInv, FrameKept
    <3> HIDE DEF from, i
    <3> QED
      BY <2>11, <3>1, <3>2
  <2>10. FrameKept'
    BY <2>1, <2>4, <2>5, <2>8, <2>9 DEF FrameKept
  <2> QED
    BY <2>6, <2>7, <2>10 DEF LetterInv
<1>6. CASE SendFrame
  <2>1. /\ reader' = [reader EXCEPT !.at = 0]
        /\ UNCHANGED <<data, complete, letter, file, stale>>
    BY <1>6 DEF SendFrame, driverVars
  <2> QED
    BY <1>1, <2>1 DEF LetterInv, LetterTypes, Files
<1>7. CASE ReaderEnds
  <2>1. /\ reader' = NoReader
        /\ file' = [p \in Processes |-> IF p \in {"reader"} THEN "none" ELSE file[p]]
        /\ stale' = stale \ {"reader"}
        /\ UNCHANGED <<data, complete, letter>>
    BY <1>7 DEF ReaderEnds, Close
  <2> QED
    BY <1>1, <1>2, <2>1 DEF LetterInv, LetterTypes, Processes
<1>8. CASE SigintReader
  BY <1>0, <1>8, LetterStays DEF SigintReader, driverVars, LetterInv, LetterTypes
<1>9. CASE ReaderGetsSocket \/ ReaderConnects
  <2>1. /\ reader.pc \in {"begin", "connect"}
        /\ \/ reader' = NoReader
           \/ \E to \in {"connect", "open"} : reader' = [reader EXCEPT !.pc = to]
        /\ UNCHANGED <<data, complete, letter, file, stale>>
    BY <1>9 DEF ReaderGetsSocket, ReaderConnects, driverVars
  <2>2. /\ reader'.at = 0 /\ reader'.pc # "read"
        /\ reader' \in [pc : {"off", "begin", "connect", "open", "read"}, at : Nat,
                        frame : [1 .. Segments -> Nat], since : Nat]
    BY <1>2, <2>1 DEF LetterInv, LetterTypes
  <2> QED
    BY <1>1, <2>1, <2>2 DEF LetterInv, LetterTypes, Files
<1> QED
  BY <1>3, <1>4, <1>5, <1>6, <1>7, <1>8, <1>9 DEF ReaderWorks

LEMMA LetterStep == IInv /\ LetterInv /\ [Next]_vars => LetterInv'
<1> SUFFICES ASSUME IInv, LetterInv, [Next]_vars PROVE LetterInv'
  OBVIOUS
<1> USE DEF letterVars
<1>1. ASSUME NEW d \in Drivers, InsmodCommand(d)
      PROVE  LetterInv'
  <2>1. CASE d = "my_dev"
    BY <1>1, <2>1, DriverComes DEF InsmodCommand, Insmod, Gone, IInv, DriverTypeOK
  <2>2. CASE d # "my_dev"
    BY <1>1, <2>2, LetterStays
    DEF InsmodCommand, Insmod, Gone, IInv, DriverTypeOK, LetterInv, LetterTypes
  <2> QED
    BY <2>1, <2>2
<1>2. ASSUME NEW d \in Drivers, mod' = [mod EXCEPT ![d] = mod'[d]],
             \/ stale' = stale
                /\ (mod'[d] \in {"absent", "removed"} <=> mod[d] \in {"absent", "removed"})
             \/ stale' = stale \cup Users(d) /\ mod'[d] \in {"absent", "removed"},
             UNCHANGED <<letterVars, file>>
      PROVE  LetterInv'
  <2>1. CASE d # "my_dev"
    <3>1. Gone' <=> Gone
      BY <1>2, <2>1 DEF Gone, IInv, DriverTypeOK, Drivers
    <3>2. \A p \in {"letter_writer", "reader"} : p \in stale' <=> p \in stale
      BY <1>2, <2>1 DEF LetterInv, Files, Users, Drivers
    <3> QED
      BY <1>2, <3>1, <3>2, LetterStays DEF LetterInv, LetterTypes
  <2>2. CASE d = "my_dev" /\ stale' = stale \cup Users(d) /\ Gone'
    BY <1>2, <2>2, DriverGoes
  <2>3. CASE d = "my_dev" /\ stale' = stale /\ (Gone' <=> Gone)
    BY <1>2, <2>3, LetterStays DEF LetterInv, LetterTypes
  <2> QED
    BY <1>2, <2>1, <2>2, <2>3 DEF Gone
<1>3. ASSUME NEW d \in Drivers, RmmodCommand(d)
      PROVE  LetterInv'
  <2>1. /\ mod[d] = "loaded" /\ UNCHANGED <<letterVars, file>>
        /\ \/ mod' = [mod EXCEPT ![d] = "stuck"] /\ stale' = stale
           \/ mod' = [mod EXCEPT ![d] = "removed"] /\ stale' = stale \cup Users(d)
    BY <1>3 DEF RmmodCommand, Rmmod
  <2> QED
    BY <1>2, <2>1 DEF IInv, DriverTypeOK
<1>4. ASSUME NEW d \in Drivers, Loading(d), UNCHANGED letterVars
      PROVE  LetterInv'
  <2>1. CASE Unregister(d)
    <3>1. mod' = [mod EXCEPT ![d] = "absent"] /\ stale' = stale \cup Users(d)
          /\ UNCHANGED file
      BY <2>1 DEF Unregister, Goto
    <3> QED
      BY <1>2, <1>4, <3>1 DEF IInv, DriverTypeOK
  <2>2. ASSUME NEW from \in {"alloc", "cdev_add", "class_create", "device_create",
                            "request", "r_gpio", "r_device", "r_class", "r_del"},
               NEW to \in {"cdev_add", "class_create", "device_create", "request",
                          "loaded", "stuck", "r_gpio", "r_device", "r_class",
                          "r_del", "r_unreg"},
               Goto(d, from, to), UNCHANGED <<file, stale>>
        PROVE  LetterInv'
    BY <1>2, <1>4, <2>2 DEF IInv, DriverTypeOK, Goto
  <2>3. CASE AllocRegion(d) \/ CdevAdd(d) \/ ClassCreate(d) \/ DeviceCreate(d)
    BY <2>2, <2>3 DEF AllocRegion, CdevAdd, ClassCreate, DeviceCreate
  <2>4. CASE InvalidPin(d) \/ RequestPins(d) \/ FreePins(d)
    BY <2>2, <2>4 DEF InvalidPin, RequestPins, FreePins
  <2>5. CASE DestroyDevice(d) \/ DestroyClass(d) \/ DeleteCdev(d)
    BY <2>2, <2>5 DEF DestroyDevice, DestroyClass, DeleteCdev
  <2> QED
    BY <1>4, <2>1, <2>3, <2>4, <2>5 DEF Loading
<1>5. ASSUME UNCHANGED <<mod, letterVars>>, NEW P, P \cap {"letter_writer", "reader"} = {},
             file' \in [Processes -> Drivers \cup {"none", "failed"}],
             \A p \in Processes \ P : file'[p] = file[p],
             stale' = stale \/ stale' = stale \ P
      PROVE  LetterInv'
  BY <1>5, LetterStays DEF Gone, Processes
<1>6. ASSUME UNCHANGED letterVars, UNCHANGED <<mod, file, stale>>
      PROVE  LetterInv'
  BY <1>6, <1>5 DEF LetterInv, LetterTypes
<1>7. ASSUME NEW p \in Processes \ {"letter_writer", "reader"}, NEW name,
             Open(p, name), UNCHANGED <<mod, letterVars>>
      PROVE  LetterInv'
  <2>1. /\ stale' = stale \ {p}
        /\ \E to \in Drivers \cup {"none", "failed"} : file' = [file EXCEPT ![p] = to]
    BY <1>7 DEF Open, IInv, DriverTypeOK
  <2>2. /\ file' \in [Processes -> Drivers \cup {"none", "failed"}]
        /\ \A q \in Processes \ {p} : file'[q] = file[q]
    BY <2>1 DEF LetterInv, LetterTypes
  <2>3. {p} \cap {"letter_writer", "reader"} = {}
    BY <1>7
  <2> QED
    BY <1>5, <1>7, <2>1, <2>2, <2>3
<1>8. ASSUME NEW P \in SUBSET (Processes \ {"letter_writer", "reader"}), Close(P),
             UNCHANGED <<mod, letterVars>>
      PROVE  LetterInv'
  <2>1. /\ file' \in [Processes -> Drivers \cup {"none", "failed"}]
        /\ \A q \in Processes \ P : file'[q] = file[q]
    BY <1>8 DEF Close, LetterInv, LetterTypes
  <2> QED
    BY <1>5, <1>8, <2>1 DEF Close
<1>9. CASE KioskNext /\ KioskAlone
  <2>1. CASE ShopList \/ ChooseShop \/ AddItem \/ Cancel \/ Confirm \/ Parent
    BY <1>6, <1>9, <2>1 DEF KioskAlone, ShopList, ChooseShop, AddItem, Cancel, Confirm,
       Parent, ForkSeg, ForkLed, Wait1, Wait2, driverVars
  <2>2. CASE SegChild
    BY <1>6, <1>7, <1>8, <1>9, <2>2
    DEF KioskAlone, SegChild, OpenSeg, WriteSeg, CloseSeg, Processes
  <2>3. CASE LedChild
    BY <1>6, <1>7, <1>8, <1>9, <2>3
    DEF KioskAlone, LedChild, OpenLed, WriteLed, CloseLed, KeyLed, driverVars, Processes
  <2>4. CASE KillKiosk
    BY <1>8, <1>9, <2>4 DEF KioskAlone, KillKiosk, Processes
  <2> QED
    BY <1>9, <2>1, <2>2, <2>3, <2>4 DEF KioskNext
<1>10. CASE WriterNext /\ WriterAlone
  <2>1. CASE WriterOpens
    BY <1>7, <1>10, <2>1 DEF WriterAlone, WriterOpens, Processes
  <2>2. CASE WriteNextBit \/ WriteCode
    BY <1>6, <1>10, <2>2 DEF WriterAlone, WriteNextBit, WriteCode, Wrote
  <2>3. CASE NextDigit \/ KillWriter
    BY <1>6, <1>8, <1>10, <2>3 DEF WriterAlone, NextDigit, KillWriter, Processes
  <2> QED
    BY <1>10, <2>1, <2>2, <2>3 DEF WriterNext, WriterWorks
<1>11. CASE LetterNext
  <2>1. UNCHANGED mod
    BY <1>11 DEF LetterNext, LetterWriterWorks, ReaderWorks, LetterWriterOpens,
         WriteSegment, LetterWriterEnds, ReaderGetsSocket, ReaderConnects, ReaderOpens,
         ReadSegment, SendFrame, ReaderEnds, SigintReader, driverVars
  <2> QED
    BY <1>11, <2>1, WriterStep, ReaderStep DEF LetterNext
<1>12. CASE StartProgram
  <2>1. UNCHANGED driverVars
    BY <1>12 DEF StartProgram, RunKiosk, RunWriter, RunLetterWriter, RunReader
  <2>2. CASE UNCHANGED letterVars
    BY <1>6, <2>1, <2>2 DEF driverVars
  <2>3. CASE RunLetterWriter \/ RunReader
    BY <2>1, <2>3, WriterStep, ReaderStep DEF driverVars
  <2> QED
    BY <1>12, <2>2, <2>3 DEF StartProgram
<1>13. CASE TrainAlone \/ UNCHANGED vars
  BY <1>6, <1>13 DEF TrainAlone, vars, driverVars
<1> QED
  BY <1>1, <1>3, <1>4, <1>9, <1>10, <1>11, <1>12, <1>13 DEF Next, Load

(* Every frame the reader sends is as new as promised, for every order in  *)
(* which segments are written and read.                                    *)
THEOREM LetterFrames == Spec => []FrameFresh
<1>1. LetterInv => FrameFresh
  <2> SUFFICES ASSUME LetterInv, reader.at = Segments, "reader" \notin stale,
                      complete = reader.since, letter.at = 0
               PROVE  \A i \in 1 .. Segments : reader.frame[i] = reader.since
    BY DEF FrameFresh, LetterInv, FrameKept
  <2> QED
    BY LetterAssumption DEF LetterInv, FrameKept, Rests
<1> QED
  BY <1>1, LetterStarts, LetterStep, DriverInvariant, MachineDrivers, PTL
  DEF Spec, DriversAlone
-----------------------------------------------------------------------------
(***************************************************************************)
(* The displays, for every order whose total fits in an int and every      *)
(* argument of the writers.                                                *)
(***************************************************************************)

(* The segments of a code, as a number. *)
Bits(code) == 64 * code[2] + 32 * code[3] + 16 * code[4] + 8 * code[5]
              + 4 * code[6] + 2 * code[7] + code[8]

Codes == {seg_for_c[digit] : digit \in 0 .. 9}

(* No two digits have the same segments, so that a digit is read as it was *)
(* written.                                                                *)
LEMMA CodesDiffer ==
  \A d, e \in 0 .. 9 : seg_for_c[d] = seg_for_c[e] => d = e
<1>1. /\ Bits(seg_for_c[0]) = 126 /\ Bits(seg_for_c[1]) = 48
      /\ Bits(seg_for_c[2]) = 109 /\ Bits(seg_for_c[3]) = 121
      /\ Bits(seg_for_c[4]) = 51
  BY DEF Bits, seg_for_c
<1>2. /\ Bits(seg_for_c[5]) = 91 /\ Bits(seg_for_c[6]) = 95
      /\ Bits(seg_for_c[7]) = 112 /\ Bits(seg_for_c[8]) = 127
      /\ Bits(seg_for_c[9]) = 123
  BY DEF Bits, seg_for_c
<1>3. \A d \in 0 .. 9 : d \in {0, 1, 2, 3, 4, 5, 6, 7, 8, 9}
  OBVIOUS
<1> SUFFICES ASSUME NEW d \in 0 .. 9, NEW e \in 0 .. 9, seg_for_c[d] = seg_for_c[e]
             PROVE  d = e
  OBVIOUS
<1>4. Bits(seg_for_c[d]) = Bits(seg_for_c[e])
  OBVIOUS
<1> QED
  BY <1>1, <1>2, <1>3, <1>4

LEMMA DigitIs ==
  ASSUME NEW d \in 0 .. 9 PROVE Digit(seg_for_c[d]) = d
  BY CodesDiffer DEF Digit

LEMMA CodeOfEight ==
  ASSUME NEW d \in 0 .. 9
  PROVE  /\ seg_for_c[d] \in Seq({0, 1}) /\ Len(seg_for_c[d]) = 8
         /\ seg_for_c[d] = [i \in 1 .. 8 |-> seg_for_c[d][i]]
<1> DEFINE Good(code) == code \in Seq({0, 1}) /\ Len(code) = 8
<1>1. d \in {0, 1, 2, 3, 4, 5, 6, 7, 8, 9}
  OBVIOUS
<1>2. /\ Good(seg_for_c[0]) /\ Good(seg_for_c[1]) /\ Good(seg_for_c[2])
      /\ Good(seg_for_c[3]) /\ Good(seg_for_c[4])
  BY DEF seg_for_c
<1>3. /\ Good(seg_for_c[5]) /\ Good(seg_for_c[6]) /\ Good(seg_for_c[7])
      /\ Good(seg_for_c[8]) /\ Good(seg_for_c[9])
  BY DEF seg_for_c
<1>4. Good(seg_for_c[d])
  <2> HIDE DEF Good
  <2> QED
    BY <1>1, <1>2, <1>3
<1>5. ASSUME NEW code \in Seq({0, 1}), Len(code) = 8
      PROVE  code = [i \in 1 .. 8 |-> code[i]]
  BY <1>5
<1> HIDE DEF seg_for_c
<1> QED
  BY <1>4, <1>5
-----------------------------------------------------------------------------
LEMMA PinsDiffer ==
  ASSUME NEW d \in Drivers, NEW i \in 1 .. Len(pins[d]), NEW j \in 1 .. Len(pins[d]),
         pins[d][i] = pins[d][j]
  PROVE  i = j
<1>1. CASE d = "lab3_1"
  BY <1>1 DEF pins
<1>2. CASE d = "led"
  BY <1>2 DEF pins
<1>3. CASE d = "lab3_2"
  BY <1>3 DEF pins
<1>4. CASE d = "seg"
  BY <1>4 DEF pins
<1>5. CASE d = "my_dev"
  BY <1>5 DEF pins
<1> QED
  BY <1>1, <1>2, <1>3, <1>4, <1>5 DEF Drivers

(* Each pin shows the bit that was written for it. *)
LEMMA ShowsBits ==
  ASSUME NEW d \in Drivers, NEW bits, Len(bits) = Len(pins[d]), Show(d, bits),
         NEW i \in 1 .. Len(pins[d])
  PROVE  level'[pins[d][i]] = bits[i]
<1>1. pins[d][i] \in PinsOf(d) /\ pins[d][i] \in Pin
  BY DEF PinsOf, Pin
<1>2. (CHOOSE j \in 1 .. Len(bits) : pins[d][j] = pins[d][i]) = i
  BY PinsDiffer
<1> QED
  BY <1>1, <1>2 DEF Show

(* Four bits. *)
LEMMA ShowsBinary ==
  ASSUME NEW bits \in Seq({0, 1}), Len(bits) = 4, Show("lab3_1", bits)
  PROVE  LET list == pins["lab3_1"] IN
           [i \in 1 .. Len(list) |-> level'[list[i]]] = [i \in 1 .. 4 |-> bits[i]]
<1>1. Len(pins["lab3_1"]) = 4
  BY DEF pins
<1>2. \A i \in 1 .. 4 : level'[pins["lab3_1"][i]] = bits[i]
  BY <1>1, ShowsBits DEF Drivers
<1> QED
  BY <1>1, <1>2

(* A code. *)
LEMMA ShowsCode ==
  ASSUME NEW d \in {"lab3_2", "seg"}, NEW digit \in 0 .. 9, Show(d, seg_for_c[digit])
  PROVE  /\ Len(pins[d]) = 8
         /\ [i \in 1 .. 8 |-> level'[pins[d][i]]] = seg_for_c[digit]
<1>1. Len(pins[d]) = 8
  BY DEF pins
<1>2. \A i \in 1 .. 8 : level'[pins[d][i]] = seg_for_c[digit][i]
  <2> DEFINE code == seg_for_c[digit]
  <2>1. Len(code) = 8 /\ Show(d, code) /\ d \in Drivers
    BY CodeOfEight DEF Drivers
  <2> HIDE DEF code
  <2>2. ASSUME NEW i \in 1 .. 8 PROVE level'[pins[d][i]] = code[i]
    <3>1. Len(code) = Len(pins[d]) /\ i \in 1 .. Len(pins[d])
      BY <1>1, <2>1
    <3> QED
      BY <2>1, <3>1, ShowsBits
  <2> QED
    BY <2>2 DEF code
<1> QED
  BY <1>1, <1>2, CodeOfEight

(* The LEDs that are lit. *)
LEMMA ShowsDistance ==
  ASSUME NEW n \in 0 .. 8, WriteDistance(n)
  PROVE  Lit = n
<1> DEFINE bits == [i \in 1 .. 8 |-> IF i > 8 - n THEN 1 ELSE 0]
           on == {p \in PinsOf("led") : level'[p] = 1}
           f == [i \in 9 - n .. 8 |-> pins["led"][i]]
<1>1. Len(pins["led"]) = 8 /\ bits \in Seq({0, 1}) /\ Len(bits) = 8
  BY DEF pins
<1>2. \A i \in 1 .. 8 : level'[pins["led"][i]] = bits[i]
  <2>1. Show("led", bits)
    BY DEF WriteDistance
  <2> HIDE DEF bits
  <2>2. Len(bits) = Len(pins["led"]) /\ "led" \in Drivers
    BY <1>1 DEF Drivers
  <2>3. \A i \in 1 .. Len(pins["led"]) : level'[pins["led"][i]] = bits[i]
    BY <2>1, <2>2, ShowsBits
  <2> QED
    BY <1>1, <2>3
<1>3. \A i \in 1 .. 8 : pins["led"][i] \in on <=> i \in 9 - n .. 8
  BY <1>1, <1>2 DEF PinsOf
<1>4. \A p \in on : \E i \in 9 - n .. 8 : p = pins["led"][i]
  BY <1>1, <1>3 DEF PinsOf
<1>5. \A i, j \in 1 .. 8 : pins["led"][i] = pins["led"][j] => i = j
  BY <1>1, PinsDiffer DEF Drivers
<1>6. 9 - n .. 8 \subseteq 1 .. 8
  OBVIOUS
<1> HIDE DEF on
<1>7. f \in Bijection(9 - n .. 8, on)
  <2>1. f \in [9 - n .. 8 -> on]
    BY <1>3, <1>6
  <2>2. \A i, j \in 9 - n .. 8 : f[i] = f[j] => i = j
    BY <1>5, <1>6
  <2>3. \A p \in on : \E i \in 9 - n .. 8 : f[i] = p
    BY <1>4
  <2> HIDE DEF f
  <2> QED
    BY <2>1, <2>2, <2>3, Fun_IsBij
<1>8. IsFiniteSet(9 - n .. 8) /\ Cardinality(9 - n .. 8) = n
  <2>1. 9 - n \in Int /\ 8 \in Int /\ 8 - (9 - n) + 1 = n /\ (9 - n > 8 => n = 0)
    OBVIOUS
  <2> DEFINE from == 9 - n
  <2> HIDE DEF from
  <2>2. /\ IsFiniteSet(from .. 8)
        /\ Cardinality(from .. 8) = IF from > 8 THEN 0 ELSE 8 - from + 1
    BY <2>1, FS_Interval DEF from
  <2> QED
    BY <2>1, <2>2 DEF from
<1>9. ExistsBijection(9 - n .. 8, on)
  BY <1>7 DEF ExistsBijection
<1> QED
  BY <1>8, <1>9, FS_Bijection DEF Lit, on
-----------------------------------------------------------------------------
ReadStep(shown, g, k) == IF k = 0 THEN 0 ELSE 10 * g[k - 1] + Digit(shown[k])

UpTo(shown, n) == CHOOSE g : g = [k \in 0 .. n |-> ReadStep(shown, g, k)]

LEMMA SetInduction ==
  ASSUME NEW E, 0 \in E, \A n \in Nat : n \in E => n + 1 \in E
  PROVE  Nat \subseteq E
<1> DEFINE T == Nat \ E
<1> SUFFICES ASSUME T # {} PROVE FALSE
  OBVIOUS
<1>1. PICK x \in T : \A y \in T : ~ (<<y, x>> \in OpToRel(<, Nat))
  BY WFMin, NatLessThanWellFounded
<1>2. x # 0 /\ x \in Nat /\ x - 1 \in Nat /\ x - 1 < x
  OBVIOUS
<1>3. x - 1 \in T
  BY <1>2
<1>4. <<x - 1, x>> \in OpToRel(<, Nat)
  BY <1>2 DEF OpToRel
<1> QED
  BY <1>1, <1>3, <1>4

(* The recursive function exists, so that it obeys its equation. *)
LEMMA UpToIs ==
  ASSUME NEW s, NEW n \in Nat
  PROVE  UpTo(s, n) = [k \in 0 .. n |-> ReadStep(s, UpTo(s, n), k)]
<1> DEFINE E == {m \in Nat : \E g : g = [k \in 0 .. m |-> ReadStep(s, g, k)]}
<1>1. 0 \in E
  <2> DEFINE g == [k \in 0 .. 0 |-> 0]
  <2>1. g = [k \in 0 .. 0 |-> ReadStep(s, g, k)]
    BY DEF ReadStep
  <2> QED
    BY <2>1
<1>2. ASSUME NEW m \in Nat, m \in E
      PROVE  m + 1 \in E
  <2>1. PICK g : g = [k \in 0 .. m |-> ReadStep(s, g, k)]
    BY <1>2
  <2> DEFINE h == [k \in 0 .. m + 1 |-> ReadStep(s, g, k)]
  <2>2. \A k \in 0 .. m : h[k] = g[k]
    <3> HIDE DEF E
    <3> SUFFICES ASSUME NEW k \in 0 .. m PROVE h[k] = g[k]
      OBVIOUS
    <3>1. h[k] = ReadStep(s, g, k)
      OBVIOUS
    <3>2. g[k] = ReadStep(s, g, k)
      BY <2>1, Zenon
    <3> QED
      BY <3>1, <3>2
  <2>3. \A k \in 0 .. m + 1 : ReadStep(s, g, k) = ReadStep(s, h, k)
    <3> HIDE DEF h, E
    <3> QED
      BY <2>2 DEF ReadStep
  <2>4. h = [k \in 0 .. m + 1 |-> ReadStep(s, h, k)]
    BY <2>3
  <2>5. \E f : f = [k \in 0 .. m + 1 |-> ReadStep(s, f, k)]
    <3> HIDE DEF h
    <3> QED
      BY <2>4
  <2> QED
    BY <2>5
<1>3. \E g : g = [k \in 0 .. n |-> ReadStep(s, g, k)]
  <2> HIDE DEF E
  <2>1. n \in E
    BY <1>1, <1>2, SetInduction
  <2> QED
    BY <2>1 DEF E
<1> QED
  BY <1>3, Zenon DEF UpTo

LEMMA UpToAt ==
  ASSUME NEW s, NEW n \in Nat, NEW k \in 0 .. n
  PROVE  UpTo(s, n)[k] = IF k = 0 THEN 0 ELSE 10 * UpTo(s, n)[k - 1] + Digit(s[k])
<1> DEFINE u == UpTo(s, n)
<1>1. u = [j \in 0 .. n |-> ReadStep(s, u, j)]
  BY UpToIs
<1> HIDE DEF u
<1>2. u[k] = ReadStep(s, u, k)
  BY <1>1, Zenon
<1> QED
  BY <1>2 DEF u, ReadStep

(* One digit more. *)
LEMMA ReadingOn ==
  ASSUME NEW S, NEW s \in Seq(S), NEW b \in S
  PROVE  Reading(Append(s, b)) = 10 * Reading(s) + Digit(b)
<1> DEFINE t == Append(s, b)
           n == Len(s)
<1>1. /\ n \in Nat /\ Len(t) = n + 1 /\ t[n + 1] = b
      /\ \A k \in 1 .. n : t[k] = s[k]
  OBVIOUS
<1>2. Reading(t) = UpTo(t, Len(t))[Len(t)] /\ Reading(s) = UpTo(s, Len(s))[Len(s)]
  BY Zenon DEF Reading, UpTo, ReadStep
<1> HIDE DEF t, n
<1> DEFINE E == {j \in Nat : j <= n => UpTo(t, n + 1)[j] = UpTo(s, n)[j]}
<1>3. 0 \in E
  BY <1>1, UpToAt
<1>8. \A k \in 0 .. n + 1 :
        UpTo(t, n + 1)[k] = IF k = 0 THEN 0 ELSE 10 * UpTo(t, n + 1)[k - 1] + Digit(t[k])
  <2> DEFINE m == n + 1
  <2>1. m \in Nat
    BY <1>1
  <2> HIDE DEF m
  <2>2. \A k \in 0 .. m :
          UpTo(t, m)[k] = IF k = 0 THEN 0 ELSE 10 * UpTo(t, m)[k - 1] + Digit(t[k])
    BY <2>1, UpToAt
  <2> QED
    BY <2>2 DEF m
<1>4. ASSUME NEW j \in Nat, j \in E PROVE j + 1 \in E
  <2> SUFFICES ASSUME j + 1 <= n PROVE UpTo(t, n + 1)[j + 1] = UpTo(s, n)[j + 1]
    OBVIOUS
  <2>1. /\ j + 1 \in 0 .. n /\ j + 1 \in 0 .. n + 1 /\ n + 1 \in Nat /\ j + 1 # 0
        /\ j + 1 - 1 = j /\ j + 1 \in 1 .. n
    BY <1>1
  <2>2. UpTo(t, n + 1)[j + 1] = 10 * UpTo(t, n + 1)[j] + Digit(t[j + 1])
    BY <1>8, <2>1
  <2>3. UpTo(s, n)[j + 1] = 10 * UpTo(s, n)[j] + Digit(s[j + 1])
    BY <1>1, <2>1, UpToAt
  <2>4. UpTo(t, n + 1)[j] = UpTo(s, n)[j]
    BY <1>1, <1>4
  <2> QED
    BY <1>1, <2>1, <2>2, <2>3, <2>4
<1>5. UpTo(t, n + 1)[n] = UpTo(s, n)[n]
  <2> HIDE DEF E
  <2>1. n \in E
    BY <1>1, <1>3, <1>4, SetInduction
  <2> QED
    BY <1>1, <2>1 DEF E
<1>6. UpTo(t, n + 1)[n + 1] = 10 * UpTo(t, n + 1)[n] + Digit(t[n + 1])
  <2>1. n + 1 \in 0 .. n + 1 /\ n + 1 # 0 /\ n + 1 - 1 = n
    BY <1>1
  <2> QED
    BY <1>1, <1>8, <2>1
<1>7. Reading(t) = UpTo(t, n + 1)[n + 1] /\ Reading(s) = UpTo(s, n)[n]
  BY <1>1, <1>2 DEF n
<1> QED
  BY <1>1, <1>5, <1>6, <1>7 DEF t

LEMMA ReadingOne ==
  ASSUME NEW d \in 0 .. 9
  PROVE  Reading(<<seg_for_c[d]>>) = d
<1> DEFINE b == seg_for_c[d]
           none == << >>
<1>1. Reading(none) = UpTo(none, Len(none))[Len(none)] /\ Len(none) = 0
  BY Zenon DEF Reading, UpTo, ReadStep
<1>2. Reading(none) = 0
  BY <1>1, UpToAt
<1>3. Digit(b) = d /\ Append(none, b) = <<b>> /\ none \in Seq({b})
  BY DigitIs
<1> HIDE DEF b, none
<1>4. Reading(<<b>>) = 10 * Reading(none) + Digit(b)
  BY <1>3, ReadingOn
<1> QED
  BY <1>2, <1>3, <1>4 DEF b

IntMax == 2147483647

(* The loop finds the power of ten of the first digit. *)
LEMMA DivisorIs ==
  ASSUME NEW t \in Nat, t <= IntMax
  PROVE  /\ Divisor(t) \in Powers /\ t \div Divisor(t) < 10
         /\ t > 0 => t \div Divisor(t) > 0
<1> DEFINE Fits(d) == t \div d < 10 /\ (d = 1 \/ t \div d > 0)
<1>1. \E d \in Powers : Fits(d)
  <2>1. CASE t < 10
    <3>1. Fits(1)
      BY <2>1
    <3> QED
      BY <3>1 DEF Powers
  <2>2. CASE 10 <= t /\ t < 100
    <3>1. Fits(10)
      BY <2>2
    <3> QED
      BY <3>1 DEF Powers
  <2>3. CASE 100 <= t /\ t < 1000
    <3>1. Fits(100)
      BY <2>3
    <3> QED
      BY <3>1 DEF Powers
  <2>4. CASE 1000 <= t /\ t < 10000
    <3>1. Fits(1000)
      BY <2>4
    <3> QED
      BY <3>1 DEF Powers
  <2>5. CASE 10000 <= t /\ t < 100000
    <3>1. Fits(10000)
      BY <2>5
    <3> QED
      BY <3>1 DEF Powers
  <2>6. CASE 100000 <= t /\ t < 1000000
    <3>1. Fits(100000)
      BY <2>6
    <3> QED
      BY <3>1 DEF Powers
  <2>7. CASE 1000000 <= t /\ t < 10000000
    <3>1. Fits(1000000)
      BY <2>7
    <3> QED
      BY <3>1 DEF Powers
  <2>8. CASE 10000000 <= t /\ t < 100000000
    <3>1. Fits(10000000)
      BY <2>8
    <3> QED
      BY <3>1 DEF Powers
  <2>9. CASE 100000000 <= t /\ t < 1000000000
    <3>1. Fits(100000000)
      BY <2>9
    <3> QED
      BY <3>1 DEF Powers
  <2>10. CASE 1000000000 <= t
    <3>1. Fits(1000000000)
      BY <2>10 DEF IntMax
    <3> QED
      BY <3>1 DEF Powers
  <2> QED
    BY <2>1, <2>2, <2>3, <2>4, <2>5, <2>6, <2>7, <2>8, <2>9, <2>10
<1>2. Divisor(t) \in Powers /\ Fits(Divisor(t))
  <2>1. Divisor(t) = CHOOSE d \in Powers : Fits(d)
    BY DEF Divisor
  <2> HIDE DEF Fits
  <2> QED
    BY <1>1, <2>1
<1>3. ASSUME t > 0 PROVE t \div Divisor(t) > 0
  BY <1>2, <1>3
<1> QED
  BY <1>2, <1>3

(* From one digit to the next. *)
LEMMA NextDigitIs ==
  ASSUME NEW t \in Nat, NEW d \in Powers
  PROVE  /\ t \div d \in Nat
         /\ 10 * (t \div (10 * d)) + ((t \div d) % 10) = t \div d
         /\ \/ d = 1 /\ d \div 10 = 0
            \/ d \div 10 \in Powers /\ d \div 10 # 0 /\ 10 * (d \div 10) = d
<1>1. d \in Nat /\ d > 0
  BY DEF Powers
<1>2. t \div d \in Nat
  BY <1>1
<1>3. \/ d = 1 /\ d \div 10 = 0
      \/ d \div 10 \in Powers /\ d \div 10 # 0 /\ 10 * (d \div 10) = d
  BY DEF Powers
<1>4. t \div (10 * d) = (t \div d) \div 10
  <2>1. CASE d = 1
    <3>1. t \div 10 = (t \div 1) \div 10
      OBVIOUS
    <3> QED
      BY <2>1, <3>1
  <2>2. CASE d = 10
    <3>1. t \div 100 = (t \div 10) \div 10
      OBVIOUS
    <3> QED
      BY <2>2, <3>1
  <2>3. CASE d = 100
    <3>1. t \div 1000 = (t \div 100) \div 10
      OBVIOUS
    <3> QED
      BY <2>3, <3>1
  <2>4. CASE d = 1000
    <3>1. t \div 10000 = (t \div 1000) \div 10
      OBVIOUS
    <3> QED
      BY <2>4, <3>1
  <2>5. CASE d = 10000
    <3>1. t \div 100000 = (t \div 10000) \div 10
      OBVIOUS
    <3> QED
      BY <2>5, <3>1
  <2>6. CASE d = 100000
    <3>1. t \div 1000000 = (t \div 100000) \div 10
      OBVIOUS
    <3> QED
      BY <2>6, <3>1
  <2>7. CASE d = 1000000
    <3>1. t \div 10000000 = (t \div 1000000) \div 10
      OBVIOUS
    <3> QED
      BY <2>7, <3>1
  <2>8. CASE d = 10000000
    <3>1. t \div 100000000 = (t \div 10000000) \div 10
      OBVIOUS
    <3> QED
      BY <2>8, <3>1
  <2>9. CASE d = 100000000
    <3>1. t \div 1000000000 = (t \div 100000000) \div 10
      OBVIOUS
    <3> QED
      BY <2>9, <3>1
  <2>10. CASE d = 1000000000
    <3>1. t \div 10000000000 = (t \div 1000000000) \div 10
      OBVIOUS
    <3> QED
      BY <2>10, <3>1
  <2> QED
    BY <2>1, <2>2, <2>3, <2>4, <2>5, <2>6, <2>7, <2>8, <2>9, <2>10 DEF Powers
<1>5. 10 * ((t \div d) \div 10) + ((t \div d) % 10) = t \div d
  <2>1. \A q \in Nat : 10 * (q \div 10) + (q % 10) = q
    OBVIOUS
  <2> QED
    BY <1>2, <2>1
<1> QED
  BY <1>2, <1>3, <1>4, <1>5
-----------------------------------------------------------------------------
(* What the writers of lab3-1 and lab3-2 have come to.                     *)
DigitInv ==
  /\ DOMAIN writer = {"pc", "lab", "digit", "bits", "left", "seen"}
  /\ writer.pc \in {"off", "open", "bits", "sleep"}
  /\ writer.pc # "off" => writer.lab \in {"lab3_1", "lab3_2"}
  /\ writer.pc \in {"bits", "sleep"} => writer.digit \in 0 .. 9
  /\ writer.pc = "bits" => writer.bits \in 0 .. 3
  /\ DigitShown

LEMMA DigitStarts == WriterInit => DigitInv
  BY DEF WriterInit, NoWriter, DigitInv, DigitShown

LEMMA DigitStays ==
  ASSUME DigitInv, UNCHANGED writer, file'["writer"] = file["writer"]
  PROVE  DigitInv'
  BY DEF DigitInv, DigitShown

LEMMA BinaryIs ==
  ASSUME NEW d \in 0 .. 9
  PROVE  8 * ((d \div 8) % 2) + 4 * ((d \div 4) % 2) + 2 * ((d \div 2) % 2) + (d % 2) = d
  OBVIOUS

LEMMA DigitBegins ==
  ASSUME DigitInv, writer.pc # "off", StartDigit(writer)
  PROVE  DigitInv'
<1>1. PICK v \in WriterDigits :
        writer' = [writer EXCEPT !.pc = "bits", !.digit = v, !.bits = 0,
                                 !.left = writer.left - 1, !.seen = <<>>]
  BY DEF StartDigit
<1>2. /\ writer'.pc = "bits" /\ writer'.digit = v /\ writer'.bits = 0
      /\ writer'.lab = writer.lab /\ DOMAIN writer' = DOMAIN writer
  BY <1>1 DEF DigitInv
<1> QED
  BY <1>2, WriterAssumption DEF DigitInv, DigitShown

LEMMA DigitStep ==
  ASSUME DigitInv, WriterNext \/ \E lab \in {"lab3_1", "lab3_2"} : RunWriter(lab)
  PROVE  DigitInv'
<1>1. ASSUME NEW lab \in {"lab3_1", "lab3_2"}, RunWriter(lab) PROVE DigitInv'
  BY <1>1 DEF RunWriter, NoWriter, DigitInv, DigitShown
<1>2. ASSUME writer' = NoWriter PROVE DigitInv'
  BY <1>2 DEF NoWriter, DigitInv, DigitShown
<1>3. CASE WriterOpens
  BY <1>2, <1>3, DigitBegins DEF WriterOpens
<1>4. ASSUME NEW n \in 1 .. 8, Wrote(n), writer.pc = "bits"
      PROVE  /\ file["writer"] \in Drivers /\ UNCHANGED file
             /\ DOMAIN writer' = DOMAIN writer
             /\ writer'.pc = IF n = Width THEN "sleep" ELSE "bits"
             /\ writer'.lab = writer.lab /\ writer'.digit = writer.digit
             /\ writer'.bits = n
             /\ LET list == pins[file["writer"]] IN
                  n = Width => writer'.seen = [i \in 1 .. Len(list) |-> level'[list[i]]]
  <2> DEFINE seen == LET list == pins[file["writer"]] IN
                       IF n = Width THEN [i \in 1 .. Len(list) |-> level'[list[i]]]
                       ELSE <<>>
             pc == IF n = Width THEN "sleep" ELSE "bits"
  <2>1. /\ writer' = [writer EXCEPT !.bits = n, !.pc = pc, !.seen = seen]
        /\ file["writer"] \in Drivers /\ UNCHANGED file
    BY <1>4 DEF Wrote
  <2> HIDE DEF seen, pc
  <2>2. /\ DOMAIN writer' = DOMAIN writer /\ writer'.pc = pc
        /\ writer'.lab = writer.lab /\ writer'.digit = writer.digit
        /\ writer'.bits = n /\ writer'.seen = seen
    BY <2>1 DEF DigitInv
  <2> QED
    BY <2>1, <2>2 DEF seen, pc
<1>5. CASE WriteNextBit
  <2> DEFINE n == writer.bits + 1
  <2>1. /\ writer.pc = "bits" /\ writer.lab = "lab3_1" /\ Width = 4
        /\ n \in 1 .. 4 /\ Wrote(n)
        /\ writer.digit \in 0 .. 9
    BY <1>5 DEF WriteNextBit, DigitInv, Width
  <2>2. CASE n < 4
    <3>1. /\ writer'.pc = "bits" /\ writer'.lab = "lab3_1"
          /\ writer'.digit = writer.digit /\ writer'.bits = n
          /\ DOMAIN writer' = DOMAIN writer
      BY <1>4, <2>1, <2>2
    <3> QED
      BY <2>1, <2>2, <3>1 DEF DigitInv, DigitShown
  <2>3. CASE n = 4
    <3>1. /\ writer'.pc = "sleep" /\ writer'.lab = "lab3_1"
          /\ writer'.digit = writer.digit /\ UNCHANGED file
          /\ DOMAIN writer' = DOMAIN writer
          /\ LET list == pins[file["writer"]] IN
               writer'.seen = [i \in 1 .. Len(list) |-> level'[list[i]]]
      BY <1>4, <2>1, <2>3
    <3>2. ASSUME file["writer"] = "lab3_1"
          PROVE  8 * writer'.seen[1] + 4 * writer'.seen[2] + 2 * writer'.seen[3]
                   + writer'.seen[4] = writer.digit
      <4> DEFINE bits == [i \in 1 .. 4 |-> Code[i]]
      <4>1. WriteBits("lab3_1", bits)
        <5>1. PICK rest \in [n + 1 .. 4 -> {0, 1}] :
                WriteBits(file["writer"],
                          [i \in 1 .. 4 |-> IF i <= n THEN Code[i] ELSE rest[i]])
          BY <1>5, <2>3 DEF WriteNextBit
        <5>2. [i \in 1 .. 4 |-> IF i <= n THEN Code[i] ELSE rest[i]] = bits
          BY <2>3
        <5> QED
          BY <3>2, <5>1, <5>2
      <4>2. /\ Code[1] = (writer.digit \div 8) % 2 /\ Code[2] = (writer.digit \div 4) % 2
            /\ Code[3] = (writer.digit \div 2) % 2 /\ Code[4] = writer.digit % 2
        BY <2>1 DEF Code
      <4>3. bits \in Seq({0, 1}) /\ Len(bits) = 4
        <5>1. \A i \in 1 .. 4 : Code[i] \in {0, 1}
          BY <2>1, <4>2
        <5> HIDE DEF Code
        <5> QED
          BY <5>1
      <4> HIDE DEF bits
      <4>4. writer'.seen = [i \in 1 .. 4 |-> bits[i]]
        BY <3>1, <3>2, <4>1, <4>3, ShowsBinary DEF WriteBits, WriteBinary
      <4>5. 8 * bits[1] + 4 * bits[2] + 2 * bits[3] + bits[4] = writer.digit
        BY <2>1, <4>2, BinaryIs DEF bits
      <4> QED
        BY <4>4, <4>5
    <3> QED
      BY <2>1, <3>1, <3>2 DEF DigitInv, DigitShown
  <2> QED
    BY <2>1, <2>2, <2>3
<1>6. CASE WriteCode
  <2>1. /\ writer.pc = "bits" /\ writer.lab = "lab3_2" /\ Width = 8
        /\ Wrote(8) /\ WriteBits(file["writer"], Code)
        /\ writer.digit \in 0 .. 9 /\ Code = seg_for_c[writer.digit]
    BY <1>6 DEF WriteCode, DigitInv, Width, Code
  <2>2. /\ writer'.pc = "sleep" /\ writer'.lab = "lab3_2"
        /\ writer'.digit = writer.digit /\ UNCHANGED file
        /\ DOMAIN writer' = DOMAIN writer
        /\ LET list == pins[file["writer"]] IN
             writer'.seen = [i \in 1 .. Len(list) |-> level'[list[i]]]
    BY <1>4, <2>1
  <2>3. ASSUME file["writer"] = "lab3_2"
        PROVE  {d \in 0 .. 9 : seg_for_c[d] = writer'.seen} = {writer.digit}
    <3>1. Show("lab3_2", seg_for_c[writer.digit])
      BY <2>1, <2>3 DEF WriteBits, WriteSegments
    <3>2. writer'.seen = seg_for_c[writer.digit]
      <4> DEFINE list == pins["lab3_2"]
      <4>1. Len(list) = 8 /\ [i \in 1 .. 8 |-> level'[list[i]]] = seg_for_c[writer.digit]
        BY <2>1, <3>1, ShowsCode
      <4>2. writer'.seen = [i \in 1 .. Len(list) |-> level'[list[i]]]
        BY <2>2, <2>3
      <4> HIDE DEF list
      <4> QED
        BY <4>1, <4>2
    <3> QED
      BY <2>1, <3>2, CodesDiffer
  <2> QED
    BY <2>1, <2>2, <2>3 DEF DigitInv, DigitShown
<1>7. CASE NextDigit
  BY <1>2, <1>7, DigitBegins DEF NextDigit
<1>8. CASE KillWriter
  BY <1>2, <1>8 DEF KillWriter
<1> QED
  BY <1>1, <1>3, <1>5, <1>6, <1>7, <1>8 DEF WriterNext, WriterWorks
-----------------------------------------------------------------------------
(* No order costs more than an int can hold: cap bounds what one answer to *)
(* "How many?" can add.                                                    *)
TotalFits(cap) ==
  (\A number \in Quantities : 120 * number <= cap) /\ MaxItems * cap <= IntMax

(* The order, from the shop to the menu.                                   *)
OrderInv(cap) ==
  /\ totalCost \in Nat /\ items \in 0 .. MaxItems /\ totalCost <= items * cap
  /\ kiosk \in {"order", "fork1", "fork2", "wait1", "wait2"} => distance \in Shops
  /\ kiosk \in {"fork1", "fork2", "wait1", "wait2"} => totalCost > 0

(* What the display's child has left to show.                              *)
SegShown ==
  /\ seg.divisor \in Powers \cup {0}
  /\ seg.shown \in Seq(Codes)
  /\ IF seg.shown = <<>> THEN seg.divisor = Divisor(totalCost)
     ELSE /\ Digit(seg.shown[1]) # 0
          /\ Reading(seg.shown) =
               IF seg.divisor = 0 THEN totalCost ELSE totalCost \div (10 * seg.divisor)

SegInv ==
  /\ DOMAIN seg = {"pc", "divisor", "opened", "shown"}
  /\ seg.pc \in {"none", "open", "write", "ended", "crashed"}
  /\ seg.pc # "none" => kiosk \in {"fork2", "wait1"}
  /\ seg.pc = "open" => seg.shown = <<>>
  /\ seg.pc = "write" /\ seg.opened => file["seg_child"] = "seg"
  /\ seg.pc \in {"write", "ended"} /\ seg.opened => SegShown
  /\ seg.pc = "ended" => seg.divisor = 0

(* And what that of the LED bar has.                                       *)
LedShown ==
  /\ led.left \in -1 .. distance
  /\ led.shown = [i \in 1 .. distance - led.left |-> distance + 1 - i]

LedInv ==
  /\ DOMAIN led = {"pc", "left", "opened", "shown"}
  /\ led.pc \in {"none", "open", "write", "key", "ended", "crashed"}
  /\ led.pc # "none" => kiosk \in {"wait1", "wait2"}
  /\ led.pc = "open" => led.shown = <<>>
  /\ led.pc = "write" /\ led.opened => file["led_child"] = "led"
  /\ led.pc \in {"write", "key", "ended"} /\ led.opened => LedShown
  /\ led.pc \in {"key", "ended"} => led.left < 0

OrderStates(cap) == OrderInv(cap) /\ SegInv /\ LedInv

LEMMA OrderStarts == ASSUME NEW cap \in Nat PROVE KioskInit => OrderStates(cap)
  BY KioskAssumption
  DEF KioskInit, NoSeg, NoLed, OrderStates, OrderInv, SegInv, LedInv

LEMMA OrderStays ==
  ASSUME NEW cap, OrderStates(cap), UNCHANGED kioskVars,
         \A p \in {"seg_child", "led_child"} : file'[p] = file[p]
  PROVE  OrderStates(cap)'
<1>1. UNCHANGED <<kiosk, distance, totalCost, items, seg, led>>
  BY DEF kioskVars
<1>2. OrderInv(cap)'
  BY <1>1 DEF OrderStates, OrderInv
<1>3. SegInv'
  BY <1>1 DEF OrderStates, SegInv, SegShown
<1>4. LedInv'
  BY <1>1 DEF OrderStates, LedInv, LedShown
<1> QED
  BY <1>2, <1>3, <1>4 DEF OrderStates

(* What an open() of a display gives. *)
LEMMA OpensDisplay ==
  ASSUME DriverTypeOK, file \in [Processes -> Drivers \cup {"none", "failed"}],
         NEW d \in {"seg", "led"}, NEW p \in Processes, Open(p, DeviceName[d])
  PROVE  /\ \A q \in Processes \ {p} : file'[q] = file[q]
         /\ file'[p] = "failed" \/ file'[p] = d
<1>1. \A e \in Drivers : DeviceName[e] = DeviceName[d] => e = d
  BY DEF Drivers, DeviceName
<1>2. node \subseteq Drivers
  BY DEF DriverTypeOK
<1> QED
  BY <1>1, <1>2 DEF Open

(* The parent, up to the forks and after them. *)
LEMMA ParentStep ==
  ASSUME NEW cap \in Nat, TotalFits(cap), OrderStates(cap),
         \/ RunKiosk \/ ShopList \/ ChooseShop \/ AddItem \/ Cancel \/ Confirm
         \/ Parent
  PROVE  OrderStates(cap)'
<1>0. UNCHANGED file
  BY DEF RunKiosk, ShopList, ChooseShop, AddItem, Cancel, Confirm, Parent, ForkSeg,
     ForkLed, Wait1, Wait2, driverVars
<1> USE KioskAssumption
<1>1. ASSUME UNCHANGED <<seg, led>>, totalCost' = totalCost \/ seg.pc = "none",
             distance' = distance \/ led.pc = "none",
             seg.pc # "none" => kiosk' \in {"fork2", "wait1"},
             led.pc # "none" => kiosk' \in {"wait1", "wait2"}
      PROVE  SegInv' /\ LedInv'
  <2>1. SegInv'
    BY <1>0, <1>1 DEF OrderStates, SegInv, SegShown
  <2>2. LedInv'
    BY <1>0, <1>1 DEF OrderStates, LedInv, LedShown
  <2> QED
    BY <2>1, <2>2
<1>2. ASSUME Forget \/ UNCHANGED <<distance, totalCost, items>>,
             kiosk' \in {"order", "fork1", "fork2", "wait1", "wait2"} =>
               /\ kiosk \in {"order", "fork1", "fork2", "wait1", "wait2"}
               /\ ~Forget,
             kiosk' \in {"fork1", "fork2", "wait1", "wait2"} => totalCost > 0
      PROVE  OrderInv(cap)'
  BY <1>2 DEF OrderStates, OrderInv, Forget
<1>3. CASE RunKiosk \/ ShopList
  <2>1. /\ kiosk \in {"off", "menu", "list"} /\ kiosk' \in {"menu", "list"}
        /\ UNCHANGED <<distance, totalCost, items, seg, led>>
    BY <1>3 DEF RunKiosk, ShopList, GoKiosk
  <2>2. SegInv' /\ LedInv'
    BY <1>1, <2>1 DEF OrderStates, SegInv, LedInv
  <2>3. OrderInv(cap)'
    BY <1>2, <2>1
  <2> QED
    BY <2>2, <2>3 DEF OrderStates
<1>4. CASE ChooseShop
  <2>1. /\ kiosk = "menu" /\ totalCost' = 0 /\ items' = 0 /\ UNCHANGED <<seg, led>>
        /\ \/ kiosk' = "order" /\ distance' \in Shops
           \/ kiosk' = "lost"
    BY <1>4 DEF ChooseShop, GoKiosk
  <2>2. SegInv' /\ LedInv'
    BY <1>1, <2>1 DEF OrderStates, SegInv, LedInv
  <2>3. OrderInv(cap)'
    BY <2>1 DEF OrderInv
  <2> QED
    BY <2>2, <2>3 DEF OrderStates
<1>5. CASE AddItem
  <2>1. PICK price \in Prices[distance], number \in Quantities :
          totalCost' = totalCost + number * price
    BY <1>5 DEF AddItem
  <2>2. /\ kiosk = "order" /\ kiosk' = "order" /\ UNCHANGED <<distance, seg, led>>
        /\ items < MaxItems /\ items' = items + 1 /\ distance \in Shops
    BY <1>5 DEF AddItem, OrderStates, OrderInv
  <2>3. price \in {60, 80, 40, 70, 120, 50}
    BY <2>1, <2>2 DEF Prices, Shops
  <2>4. number * price \in Nat /\ number * price <= cap
    <3>1. number \in Nat /\ 120 * number <= cap
      BY DEF TotalFits
    <3> QED
      BY <2>3, <3>1
  <2>5. (items + 1) * cap = items * cap + cap /\ items * cap \in Int
    BY DEF OrderStates, OrderInv
  <2>6. SegInv' /\ LedInv'
    BY <1>1, <2>2 DEF OrderStates, SegInv, LedInv
  <2>7. totalCost' \in Nat /\ totalCost' <= items' * cap
    <3> DEFINE added == number * price
    <3>1. totalCost' = totalCost + added /\ added \in Nat /\ added <= cap
      BY <2>1, <2>4
    <3> HIDE DEF added
    <3> QED
      BY <2>2, <2>5, <3>1 DEF OrderStates, OrderInv
  <2>8. OrderInv(cap)'
    BY <2>2, <2>7 DEF OrderStates, OrderInv
  <2> QED
    BY <2>6, <2>8 DEF OrderStates
<1>6. CASE Cancel
  <2>1. kiosk = "order" /\ kiosk' = "menu" /\ Forget /\ UNCHANGED <<seg, led>>
    BY <1>6 DEF Cancel, GoKiosk
  <2>2. SegInv' /\ LedInv'
    BY <1>1, <2>1 DEF OrderStates, SegInv, LedInv
  <2> QED
    BY <1>2, <2>1, <2>2 DEF OrderStates
<1>7. CASE Confirm
  <2>1. /\ kiosk = "order" /\ kiosk' = "fork1" /\ totalCost # 0
        /\ UNCHANGED <<distance, totalCost, items, seg, led>>
    BY <1>7 DEF Confirm, GoKiosk
  <2>2. SegInv' /\ LedInv'
    BY <1>1, <2>1 DEF OrderStates, SegInv, LedInv
  <2>3. OrderInv(cap)'
    BY <2>1 DEF OrderStates, OrderInv
  <2> QED
    BY <2>2, <2>3 DEF OrderStates
<1>8. CASE ForkSeg
  <2>1. /\ kiosk = "fork1" /\ kiosk' = "fork2"
        /\ UNCHANGED <<distance, totalCost, items, led>>
        /\ seg' = [NoSeg EXCEPT !.pc = "open"] \/ seg' = NoSeg
    BY <1>8 DEF ForkSeg, GoKiosk
  <2>2. SegInv'
    BY <2>1 DEF SegInv, NoSeg
  <2>3. LedInv'
    BY <1>0, <2>1 DEF OrderStates, LedInv, LedShown
  <2>4. OrderInv(cap)'
    BY <2>1 DEF OrderStates, OrderInv
  <2> QED
    BY <2>2, <2>3, <2>4 DEF OrderStates
<1>9. CASE ForkLed
  <2>1. /\ kiosk = "fork2" /\ kiosk' = "wait1"
        /\ UNCHANGED <<distance, totalCost, items, seg>>
        /\ led' = [NoLed EXCEPT !.pc = "open"] \/ led' = NoLed
    BY <1>9 DEF ForkLed, GoKiosk
  <2>2. LedInv'
    BY <2>1 DEF LedInv, NoLed
  <2>3. SegInv'
    BY <1>0, <2>1 DEF OrderStates, SegInv, SegShown
  <2>4. OrderInv(cap)'
    BY <2>1 DEF OrderStates, OrderInv
  <2> QED
    BY <2>2, <2>3, <2>4 DEF OrderStates
<1>10. CASE Wait1
  <2>1. /\ kiosk = "wait1" /\ kiosk' = "wait2"
        /\ UNCHANGED <<distance, totalCost, items>>
        /\ seg' = NoSeg \/ (UNCHANGED seg /\ seg.pc = "none")
        /\ led' = NoLed \/ UNCHANGED led
    BY <1>10 DEF Wait1, GoKiosk
  <2>2. SegInv'
    BY <2>1 DEF OrderStates, SegInv, NoSeg
  <2>3. LedInv'
    <3>1. CASE led' = NoLed
      BY <3>1 DEF LedInv, NoLed
    <3>2. CASE UNCHANGED led
      BY <1>0, <2>1, <3>2 DEF OrderStates, LedInv, LedShown
    <3> QED
      BY <2>1, <3>1, <3>2
  <2>4. OrderInv(cap)'
    BY <2>1 DEF OrderStates, OrderInv
  <2> QED
    BY <2>2, <2>3, <2>4 DEF OrderStates
<1>11. CASE Wait2
  <2>1. /\ kiosk = "wait2" /\ kiosk' = "menu" /\ Forget
        /\ led' = NoLed /\ UNCHANGED seg
    BY <1>11 DEF Wait2, GoKiosk
  <2>2. SegInv' /\ LedInv'
    BY <2>1 DEF OrderStates, SegInv, LedInv, NoLed
  <2> QED
    BY <1>2, <2>1, <2>2 DEF OrderStates
<1> QED
  BY <1>3, <1>4, <1>5, <1>6, <1>7, <1>8, <1>9, <1>10, <1>11 DEF Parent

LEMMA TotalIsInt ==
  ASSUME NEW cap \in Nat, TotalFits(cap), OrderStates(cap)
  PROVE  totalCost \in Nat /\ totalCost <= IntMax
<1>1. \A n \in 0 .. MaxItems : n * cap <= MaxItems * cap
  BY KioskAssumption
<1>2. items * cap \in Int /\ MaxItems * cap \in Int
  BY KioskAssumption DEF OrderStates, OrderInv
<1> QED
  BY <1>1, <1>2 DEF OrderStates, OrderInv, TotalFits, IntMax

LEMMA SegStep ==
  ASSUME NEW cap \in Nat, TotalFits(cap), OrderStates(cap), DriverTypeOK,
         file \in [Processes -> Drivers \cup {"none", "failed"}], SegChild
  PROVE  OrderStates(cap)'
<1>1. UNCHANGED <<kiosk, distance, totalCost, items, led>>
  BY DEF SegChild, OpenSeg, WriteSeg, CloseSeg
<1>2. OrderInv(cap)'
  BY <1>1 DEF OrderStates, OrderInv
<1>3. ASSUME file'["led_child"] = file["led_child"] PROVE LedInv'
  BY <1>1, <1>3 DEF OrderStates, LedInv, LedShown
<1>4. totalCost \in Nat /\ totalCost <= IntMax
  BY TotalIsInt
<1>5. seg.pc # "none" => totalCost > 0
  BY DEF OrderStates, OrderInv, SegInv
<1>6. CASE OpenSeg
  <2>1. /\ seg.pc = "open" /\ Open("seg_child", DeviceName["seg"])
        /\ seg' = [seg EXCEPT !.pc = "write", !.divisor = Divisor(totalCost),
                              !.opened = file'["seg_child"] # "failed"]
    BY <1>6 DEF OpenSeg, DeviceName
  <2>2. /\ DOMAIN seg' = DOMAIN seg /\ seg'.pc = "write"
        /\ seg'.divisor = Divisor(totalCost) /\ seg'.shown = <<>>
        /\ seg'.opened => file'["seg_child"] # "failed"
    BY <2>1 DEF OrderStates, SegInv
  <2>3. /\ file'["led_child"] = file["led_child"]
        /\ file'["seg_child"] = "failed" \/ file'["seg_child"] = "seg"
    BY <2>1, OpensDisplay DEF Processes
  <2>4. SegShown'
    BY <1>1, <1>4, <2>2, DivisorIs DEF SegShown
  <2>5. SegInv'
    BY <1>1, <2>1, <2>2, <2>3, <2>4 DEF OrderStates, SegInv
  <2> QED
    BY <1>2, <1>3, <2>3, <2>5 DEF OrderStates
<1>7. CASE WriteSeg
  <2> DEFINE d == seg.divisor
             b == (totalCost \div d) % 10
             code == [i \in 1 .. 8 |-> level'[pins.seg[i]]]
  <2>1. /\ seg.pc = "write" /\ d > 0 /\ UNCHANGED file
        /\ \/ /\ WriteDigit(b)
              /\ seg' = [seg EXCEPT !.divisor = d \div 10, !.shown = Append(seg.shown, code)]
           \/ /\ file["seg_child"] = "failed"
              /\ seg' = [seg EXCEPT !.divisor = d \div 10]
    BY <1>7 DEF WriteSeg
  <2>2. /\ DOMAIN seg' = DOMAIN seg /\ seg'.pc = "write" /\ seg'.divisor = d \div 10
        /\ seg'.opened = seg.opened
    <3> HIDE DEF code, b
    <3> QED
      BY <2>1 DEF OrderStates, SegInv
  <2>3. ASSUME seg.opened PROVE SegShown'
    <3>1. SegShown /\ d \in Powers
      BY <2>1, <2>3 DEF OrderStates, SegInv, SegShown
    <3>2. WriteDigit(b) /\ seg'.shown = Append(seg.shown, code)
      <4>1. file["seg_child"] # "failed"
        BY <2>1, <2>3 DEF OrderStates, SegInv
      <4> HIDE DEF code, b
      <4> QED
        BY <2>1, <4>1 DEF OrderStates, SegInv
    <3>3. /\ totalCost \div d \in Nat /\ b \in 0 .. 9
          /\ 10 * (totalCost \div (10 * d)) + b = totalCost \div d
          /\ \/ d = 1 /\ d \div 10 = 0
             \/ d \div 10 \in Powers /\ d \div 10 # 0 /\ 10 * (d \div 10) = d
      <4> HIDE DEF d
      <4>1. /\ totalCost \div d \in Nat
            /\ 10 * (totalCost \div (10 * d)) + ((totalCost \div d) % 10) = totalCost \div d
            /\ \/ d = 1 /\ d \div 10 = 0
               \/ d \div 10 \in Powers /\ d \div 10 # 0 /\ 10 * (d \div 10) = d
        BY <1>4, <3>1, NextDigitIs
      <4>2. \A q \in Nat : q % 10 \in 0 .. 9
        OBVIOUS
      <4> QED
        BY <4>1, <4>2
    <3>4. code = seg_for_c[b] /\ Digit(code) = b /\ code \in Codes
      <4>1. code = seg_for_c[b]
        BY <3>2, <3>3, ShowsCode DEF WriteDigit
      <4> HIDE DEF code, b
      <4> QED
        BY <3>3, <4>1, DigitIs DEF Codes
    <3> DEFINE shown == Append(seg.shown, code)
               rest == IF d \div 10 = 0 THEN totalCost
                       ELSE totalCost \div (10 * (d \div 10))
    <3>5. rest = totalCost \div d
      <4>1. totalCost \div 1 = totalCost
        BY <1>4
      <4> QED
        BY <3>3, <4>1
    <3> HIDE DEF code, b
    <3>6. shown \in Seq(Codes) /\ shown # <<>>
      BY <3>1, <3>4 DEF SegShown
    <3>7. CASE seg.shown = <<>>
      <4>1. shown = <<code>>
        BY <3>7
      <4>2. totalCost \div d < 10 /\ totalCost \div d > 0
        BY <1>4, <1>5, <2>1, <3>1, <3>7, DivisorIs DEF SegShown
      <4>3. b = totalCost \div d
        BY <3>3, <4>2 DEF b
      <4>4. Reading(shown) = b /\ Digit(shown[1]) # 0
        BY <3>3, <3>4, <4>1, <4>2, <4>3, ReadingOne
      <4> HIDE DEF shown, rest
      <4> QED
        BY <1>1, <2>2, <3>2, <3>3, <3>5, <3>6, <4>3, <4>4 DEF SegShown, shown, rest
    <3>8. CASE seg.shown # <<>>
      <4>1. shown[1] = seg.shown[1]
        BY <3>1, <3>8 DEF SegShown
      <4>2. Reading(shown) = 10 * Reading(seg.shown) + Digit(code)
        BY <3>1, <3>4, ReadingOn DEF SegShown
      <4>3. Reading(seg.shown) = totalCost \div (10 * d) /\ Digit(seg.shown[1]) # 0
        BY <2>1, <3>1, <3>8 DEF SegShown
      <4>4. Reading(shown) = totalCost \div d
        BY <3>3, <3>4, <4>2, <4>3
      <4> HIDE DEF shown, rest
      <4> QED
        BY <1>1, <2>2, <3>2, <3>3, <3>5, <3>6, <4>1, <4>3, <4>4 DEF SegShown, shown, rest
    <3> QED
      BY <3>7, <3>8
  <2>4. SegInv'
    BY <1>1, <2>1, <2>2, <2>3 DEF OrderStates, SegInv
  <2> QED
    BY <1>2, <1>3, <2>1, <2>4 DEF OrderStates
<1>8. CASE CloseSeg
  <2>1. /\ seg.pc = "write" /\ file'["led_child"] = file["led_child"]
        /\ \/ seg.divisor = 0 /\ seg' = [seg EXCEPT !.pc = "ended"]
           \/ seg' = [seg EXCEPT !.pc = "crashed"]
    BY <1>8 DEF CloseSeg, Close, Processes
  <2>2. /\ DOMAIN seg' = DOMAIN seg /\ seg'.pc \in {"ended", "crashed"}
        /\ seg'.divisor = seg.divisor /\ seg'.opened = seg.opened
        /\ seg'.shown = seg.shown /\ (seg'.pc = "ended" => seg.divisor = 0)
    BY <2>1 DEF OrderStates, SegInv
  <2>3. SegInv'
    BY <1>1, <2>1, <2>2 DEF OrderStates, SegInv, SegShown
  <2> QED
    BY <1>2, <1>3, <2>1, <2>3 DEF OrderStates
<1> QED
  BY <1>6, <1>7, <1>8 DEF SegChild

LEMMA LedStep ==
  ASSUME NEW cap \in Nat, OrderStates(cap), DriverTypeOK,
         file \in [Processes -> Drivers \cup {"none", "failed"}], LedChild
  PROVE  OrderStates(cap)'
<1>1. UNCHANGED <<kiosk, distance, totalCost, items, seg>>
  BY DEF LedChild, OpenLed, WriteLed, CloseLed, KeyLed
<1>2. OrderInv(cap)'
  BY <1>1 DEF OrderStates, OrderInv
<1>3. ASSUME file'["seg_child"] = file["seg_child"] PROVE SegInv'
  BY <1>1, <1>3 DEF OrderStates, SegInv, SegShown
<1>4. led.pc # "none" => distance \in {3, 5, 8}
  BY DEF OrderStates, OrderInv, LedInv, Shops
<1>5. CASE OpenLed
  <2>1. /\ led.pc = "open" /\ Open("led_child", DeviceName["led"])
        /\ led' = [led EXCEPT !.pc = "write", !.left = distance,
                              !.opened = file'["led_child"] # "failed"]
    BY <1>5 DEF OpenLed, DeviceName
  <2>2. /\ DOMAIN led' = DOMAIN led /\ led'.pc = "write"
        /\ led'.left = distance /\ led'.shown = <<>>
        /\ led'.opened => file'["led_child"] # "failed"
    BY <2>1 DEF OrderStates, LedInv
  <2>3. /\ file'["seg_child"] = file["seg_child"]
        /\ file'["led_child"] = "failed" \/ file'["led_child"] = "led"
    BY <2>1, OpensDisplay DEF Processes
  <2>4. LedShown'
    <3>1. distance - distance = 0 /\ distance \in -1 .. distance
      BY <1>4, <2>1
    <3>2. [i \in 1 .. 0 |-> distance + 1 - i] = <<>>
      OBVIOUS
    <3> QED
      BY <1>1, <2>2, <3>1, <3>2 DEF LedShown
  <2>5. LedInv'
    BY <1>1, <2>1, <2>2, <2>3, <2>4 DEF OrderStates, LedInv
  <2> QED
    BY <1>2, <1>3, <2>3, <2>5 DEF OrderStates
<1>6. CASE WriteLed
  <2> DEFINE n == led.left
  <2>1. /\ led.pc = "write" /\ n >= 0 /\ UNCHANGED file
        /\ \/ /\ WriteDistance(n)
              /\ led' = [led EXCEPT !.left = n - 1, !.shown = Append(led.shown, Lit)]
           \/ /\ file["led_child"] = "failed"
              /\ led' = [led EXCEPT !.left = n - 1]
    BY <1>6 DEF WriteLed
  <2>2. /\ DOMAIN led' = DOMAIN led /\ led'.pc = "write" /\ led'.left = n - 1
        /\ led'.opened = led.opened
    BY <2>1 DEF OrderStates, LedInv
  <2>3. ASSUME led.opened PROVE LedShown'
    <3>1. /\ n \in 0 .. distance /\ distance \in {3, 5, 8}
          /\ led.shown = [i \in 1 .. distance - n |-> distance + 1 - i]
      BY <1>4, <2>1, <2>3 DEF OrderStates, LedInv, LedShown
    <3>2. WriteDistance(n) /\ led'.shown = Append(led.shown, Lit)
      BY <2>1, <2>3 DEF OrderStates, LedInv
    <3>3. Lit = n
      <4>1. n \in 0 .. 8
        BY <3>1, SMTT(20)
      <4> QED
        BY <3>2, <4>1, ShowsDistance
    <3> DEFINE k == distance - n
               f == [i \in 1 .. k |-> distance + 1 - i]
    <3>4. /\ f \in Seq(Int) /\ Len(f) = k /\ k \in Nat
          /\ distance - (n - 1) = k + 1 /\ distance + 1 - (k + 1) = n
          /\ n - 1 \in -1 .. distance
      <4> HIDE DEF n
      <4>1. /\ k \in Nat /\ n - 1 \in -1 .. distance
            /\ distance - (n - 1) = k + 1 /\ distance + 1 - (k + 1) = n
        BY <3>1
      <4>2. \A i \in 1 .. k : distance + 1 - i \in Int
        BY <3>1
      <4> HIDE DEF k
      <4> QED
        BY <4>1, <4>2
    <3>5. Append(f, n) = [i \in 1 .. k + 1 |-> distance + 1 - i]
      <4> HIDE DEF n, k
      <4> QED
        BY <3>1, <3>4
    <3>6. led'.shown = [i \in 1 .. k + 1 |-> distance + 1 - i]
      BY <3>1, <3>2, <3>3, <3>5
    <3> HIDE DEF n, k
    <3> QED
      BY <1>1, <2>2, <3>4, <3>6 DEF LedShown
  <2>4. LedInv'
    BY <1>1, <2>1, <2>2, <2>3 DEF OrderStates, LedInv
  <2> QED
    BY <1>2, <1>3, <2>1, <2>4 DEF OrderStates
<1>7. CASE CloseLed \/ KeyLed
  <2>1. /\ file'["seg_child"] = file["seg_child"]
        /\ \/ led.left < 0 /\ led' = [led EXCEPT !.pc = "key"] /\ led.pc = "write"
           \/ led' = [led EXCEPT !.pc = "crashed"] /\ led.pc = "write"
           \/ led' = [led EXCEPT !.pc = "ended"] /\ led.pc = "key"
    BY <1>7 DEF CloseLed, KeyLed, Close, Processes, driverVars
  <2>2. /\ DOMAIN led' = DOMAIN led /\ led'.pc \in {"key", "ended", "crashed"}
        /\ led'.left = led.left /\ led'.opened = led.opened /\ led'.shown = led.shown
        /\ led'.pc \in {"key", "ended"} => led.left < 0
    BY <2>1 DEF OrderStates, LedInv
  <2>3. LedInv'
    BY <1>1, <2>1, <2>2 DEF OrderStates, LedInv, LedShown
  <2> QED
    BY <1>2, <1>3, <2>1, <2>3 DEF OrderStates
<1> QED
  BY <1>5, <1>6, <1>7 DEF LedChild

LEMMA KillStep ==
  ASSUME NEW cap \in Nat, OrderStates(cap), KillKiosk
  PROVE  OrderStates(cap)'
  BY KioskAssumption
  DEF KillKiosk, Forget, NoSeg, NoLed, OrderStates, OrderInv, SegInv, LedInv
-----------------------------------------------------------------------------
LEMMA ShowStep ==
  ASSUME NEW cap \in Nat, TotalFits(cap), IInv, LetterInv, OrderStates(cap), DigitInv,
         [Next]_vars
  PROVE  OrderStates(cap)' /\ DigitInv'
<1> DEFINE Types == file \in [Processes -> Drivers \cup {"none", "failed"}]
<1>0. Types /\ DriverTypeOK
  BY DEF IInv, LetterInv, LetterTypes
<1>1. ASSUME UNCHANGED <<kioskVars, writer, file>> PROVE OrderStates(cap)' /\ DigitInv'
  BY <1>1, OrderStays, DigitStays
<1>2. CASE (\E d \in Drivers : InsmodCommand(d) \/ RmmodCommand(d)) \/ Load
  <2>1. UNCHANGED <<kioskVars, writer>>
    BY <1>2 DEF InsmodCommand, RmmodCommand, Load
  <2>2. UNCHANGED file
    BY <1>2 DEF InsmodCommand, RmmodCommand, Load, Insmod, Rmmod, Loading, AllocRegion,
       CdevAdd, ClassCreate, DeviceCreate, InvalidPin, RequestPins, FreePins,
       DestroyDevice, DestroyClass, DeleteCdev, Unregister
  <2> QED
    BY <1>1, <2>1, <2>2
<1>3. CASE StartProgram
  <2>1. UNCHANGED file
    BY <1>3 DEF StartProgram, RunKiosk, RunWriter, RunLetterWriter, RunReader, driverVars
  <2>2. CASE RunKiosk /\ UNCHANGED writer
    BY <2>1, <2>2, ParentStep, DigitStays
  <2>3. CASE (\E lab \in {"lab3_1", "lab3_2"} : RunWriter(lab)) /\ UNCHANGED kioskVars
    BY <2>1, <2>3, DigitStep, OrderStays
  <2> QED
    BY <1>1, <1>3, <2>1, <2>2, <2>3 DEF StartProgram
<1>4. CASE KioskNext /\ KioskAlone
  <2>1. file'["writer"] = file["writer"]
    BY <1>0, <1>4
    DEF KioskNext, ShopList, ChooseShop, AddItem, Cancel, Confirm, Parent, ForkSeg,
       ForkLed, Wait1, Wait2, SegChild, OpenSeg, WriteSeg, CloseSeg, LedChild, OpenLed,
       WriteLed, CloseLed, KeyLed, KillKiosk, Open, Close, Processes, driverVars
  <2>2. DigitInv'
    BY <1>4, <2>1, DigitStays DEF KioskAlone
  <2>3. OrderStates(cap)'
    BY <1>0, <1>4, ParentStep, SegStep, LedStep, KillStep DEF KioskNext
  <2> QED
    BY <2>2, <2>3
<1>5. CASE WriterNext /\ WriterAlone
  <2>1. \A p \in {"seg_child", "led_child"} : file'[p] = file[p]
    BY <1>0, <1>5
    DEF WriterNext, WriterWorks, WriterOpens, WriteNextBit, WriteCode, Wrote, NextDigit,
       KillWriter, Open, Close, Processes
  <2> QED
    BY <1>5, <2>1, DigitStep, OrderStays DEF WriterAlone
<1>6. CASE LetterNext /\ LetterAlone
  <2>1. \A p \in {"seg_child", "led_child", "writer"} : file'[p] = file[p]
    BY <1>0, <1>6
    DEF LetterNext, LetterWriterWorks, LetterWriterOpens, WriteSegment, LetterWriterEnds,
       ReaderWorks, ReaderGetsSocket, ReaderConnects, ReaderOpens, ReadSegment,
       SendFrame, ReaderEnds, SigintReader, Open, Close, Processes, driverVars
  <2> QED
    BY <1>6, <2>1, DigitStays, OrderStays DEF LetterAlone
<1>7. CASE TrainAlone \/ UNCHANGED vars
  BY <1>1, <1>7 DEF TrainAlone, vars, driverVars
<1> QED
  BY <1>2, <1>3, <1>4, <1>5, <1>6, <1>7 DEF Next

(* What the displays show is what was given to the programs, for every     *)
(* order whose total fits in an int.                                       *)
THEOREM DisplaysShow ==
  ASSUME NEW cap \in Nat, TotalFits(cap)
  PROVE  Spec => []ShowsWhatWasGiven
<1>1. Init => OrderStates(cap) /\ DigitInv
  BY OrderStarts, DigitStarts DEF Init
<1>2. IInv /\ LetterInv /\ OrderStates(cap) /\ DigitInv /\ [Next]_vars
        => OrderStates(cap)' /\ DigitInv'
  BY ShowStep
<1>3. OrderStates(cap) /\ DigitInv => ShowsWhatWasGiven
  <2> SUFFICES ASSUME OrderStates(cap) PROVE OrderShown
    BY DEF DigitInv, ShowsWhatWasGiven
  <2>1. ASSUME seg.pc = "ended", seg.opened
        PROVE  Reading(seg.shown) = totalCost /\ Digit(seg.shown[1]) # 0
    <3>1. SegShown /\ seg.divisor = 0
      BY <2>1 DEF OrderStates, SegInv
    <3>2. Divisor(totalCost) # 0
      BY TotalIsInt, DivisorIs DEF Powers
    <3> QED
      BY <3>1, <3>2 DEF SegShown
  <2>2. ASSUME led.pc = "ended", led.opened
        PROVE  led.shown = [i \in 1 .. distance + 1 |-> distance + 1 - i]
    <3>1. LedShown /\ led.left < 0 /\ distance \in {3, 5, 8}
      BY <2>2 DEF OrderStates, OrderInv, LedInv, Shops
    <3>2. led.left = -1 /\ distance - led.left = distance + 1
      BY <3>1 DEF LedShown
    <3> QED
      BY <3>1, <3>2 DEF LedShown
  <2>3. kiosk \in {"off", "menu"} => seg.pc = "none" /\ led.pc = "none"
    BY DEF OrderStates, SegInv, LedInv
  <2> QED
    BY <2>1, <2>2, <2>3 DEF OrderShown
<1> QED
  BY <1>1, <1>2, <1>3, LetterStarts, LetterStep, DriverInvariant, MachineDrivers, PTL
  DEF Spec, DriversAlone
=============================================================================
