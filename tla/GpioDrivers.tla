----------------------------- MODULE GpioDrivers -----------------------------
(***************************************************************************)
(* The kernel modules of lab3-1, lab3-2, hw1 and lab4: four that show      *)
(* numbers on pins, and my_dev, which has none.  Their init and exit are   *)
(* one template with other pins and names, modelled once with the label    *)
(* or call each module has reached.  What the kernel's calls do is         *)
(* external: class_create and device_create answer an error pointer, never *)
(* NULL, so that the modules do not see them fail; device_destroy          *)
(* dereferences the class it is given, and never comes back from an error  *)
(* pointer; gpio_free frees a pin whoever has requested it.                *)
(***************************************************************************)
EXTENDS Integers, Sequences, FiniteSets

CONSTANTS CallsFail \* the kernel's calls that may fail

ASSUME DriverAssumption ==
  CallsFail \subseteq {"region", "cdev", "class", "device", "valid", "request"}

Drivers == {"lab3_1", "lab3_2", "seg", "led", "my_dev"}

(* The pins of each driver, in the order they are requested. *)
pins ==
  [lab3_1 |-> <<12, 16, 20, 21>>,
   lab3_2 |-> <<25, 8, 7, 1, 12, 16, 20, 21>>,
   seg    |-> <<25, 8, 7, 1, 12, 16, 20, 21>>,
   led    |-> <<6, 15, 5, 23, 24, 17, 27, 22>>,
   my_dev |-> <<>>]

PinsOf(d) == {pins[d][i] : i \in 1 .. Len(pins[d])}
Pin == UNION {PinsOf(d) : d \in Drivers}

(* Mutant of ClassName: each class has the name of its device. *)
ClassNameOwn ==
  [lab3_1 |-> "etx_class", lab3_2 |-> "etx_class", seg |-> "seg_class",
   led |-> "LED_Bar_class", my_dev |-> "my_class"]

ClassName ==
  [lab3_1 |-> "etx_class", lab3_2 |-> "etx_class", seg |-> "etx_class",
   led |-> "LED_Bar_class", my_dev |-> "etx_class"]

DeviceName ==
  [lab3_1 |-> "etx_Dev", lab3_2 |-> "etx_Dev", seg |-> "seg_Dev",
   led |-> "led_Dev", my_dev |-> "my_dev"]

(* The drivers whose fops name their .owner: open files keep them loaded. *)
Owned == {"lab3_1", "lab3_2", "seg"}

(* The programs that open the devices (hw1 by two children). *)
Processes == {"seg_child", "led_child", "writer", "letter_writer", "reader"}

VARIABLES
  mod,    \* each module: "absent" (never loaded, or insmod has failed),
          \* "loaded", "removed", "stuck" (insmod or rmmod died in it), or
          \* the call or label of its init that comes next
  region, cdev, node, \* the modules that have one
  class,  \* each module's dev_class: "none", "made" or "error"
  owner,  \* who has requested each pin, or "free"
  level,  \* what each pin shows
  file,   \* what each process has open: a driver, "none" or "failed"
  stale   \* the processes whose file is of code that was unloaded

driverVars == <<mod, region, cdev, node, class, owner, level, file, stale>>

DriverInit ==
  /\ mod = [d \in Drivers |-> "absent"]
  /\ region = {} /\ cdev = {} /\ node = {}
  /\ class = [d \in Drivers |-> "none"]
  /\ owner = [p \in Pin |-> "free"]
  /\ level = [p \in Pin |-> 0]
  /\ file = [p \in Processes |-> "none"]
  /\ stale = {}

Goto(d, from, to) == mod[d] = from /\ mod' = [mod EXCEPT ![d] = to]
-----------------------------------------------------------------------------
(* insmod: init, down to "Insert...Done"                                   *)

(* The kernel refuses a second one while the first is there. *)
Insmod(d) ==
  /\ mod[d] \in {"absent", "removed"}
  /\ mod' = [mod EXCEPT ![d] = "alloc"]
  /\ UNCHANGED <<region, cdev, node, class, owner, level, file, stale>>

AllocRegion(d) ==
  /\ \/ Goto(d, "alloc", "cdev_add") /\ region' = region \cup {d}
     \/ /\ Goto(d, "alloc", "r_unreg") /\ "region" \in CallsFail
        /\ UNCHANGED region
  /\ UNCHANGED <<cdev, node, class, owner, level, file, stale>>

CdevAdd(d) ==
  /\ \/ Goto(d, "cdev_add", "class_create") /\ cdev' = cdev \cup {d}
     \/ /\ Goto(d, "cdev_add", "r_del") /\ "cdev" \in CallsFail
        /\ UNCHANGED cdev
  /\ UNCHANGED <<region, node, class, owner, level, file, stale>>

NameTaken(d) ==
  \E e \in Drivers : class[e] = "made" /\ ClassName[e] = ClassName[d]

(* r_class is never reached from here: the error is not NULL. *)
ClassCreate(d) ==
  /\ Goto(d, "class_create", "device_create")
  /\ \/ ~NameTaken(d) /\ class' = [class EXCEPT ![d] = "made"]
     \/ /\ NameTaken(d) \/ "class" \in CallsFail
        /\ class' = [class EXCEPT ![d] = "error"]
  /\ UNCHANGED <<region, cdev, node, owner, level, file, stale>>

(* my_dev is ready with its node; the others go on to their pins, with or  *)
(* without a node.                                                         *)
DeviceCreate(d) ==
  /\ Goto(d, "device_create", IF pins[d] = <<>> THEN "loaded" ELSE "request")
  /\ \/ class[d] = "made" /\ node' = node \cup {d}
     \/ /\ class[d] = "error" \/ "device" \in CallsFail
        /\ UNCHANGED node
  /\ UNCHANGED <<region, cdev, class, owner, level, file, stale>>

(* A pin the machine does not have. *)
InvalidPin(d) ==
  /\ "valid" \in CallsFail
  /\ Goto(d, "request", "r_device")
  /\ UNCHANGED <<region, cdev, node, class, owner, level, file, stale>>

(* gpio_request, one pin after the other: the first k are granted, and     *)
(* the next, if there is one, is refused.                                  *)
RequestPins(d) ==
  \E k \in 0 .. Len(pins[d]) :
    LET granted == {pins[d][i] : i \in 1 .. k} IN
      /\ \A p \in granted : owner[p] = "free"
      /\ owner' = [p \in Pin |-> IF p \in granted THEN d ELSE owner[p]]
      /\ \/ /\ k = Len(pins[d])
            /\ Goto(d, "request", "loaded")
            /\ level' = [p \in Pin |-> IF p \in granted THEN 0 ELSE level[p]]
         \/ /\ k < Len(pins[d])
            /\ owner[pins[d][k + 1]] # "free" \/ "request" \in CallsFail
            /\ Goto(d, "request", "r_gpio")
            /\ UNCHANGED level
      /\ UNCHANGED <<region, cdev, node, class, file, stale>>
-----------------------------------------------------------------------------
(* The labels after a failure, each running into the next.                 *)

(* Mutant of Freed: the loop ends one early. *)
FreedButLast(d) ==
  [p \in Pin |-> IF \E i \in 1 .. Len(pins[d]) - 1 : pins[d][i] = p THEN "free" ELSE owner[p]]

Freed(d) == [p \in Pin |-> IF p \in PinsOf(d) THEN "free" ELSE owner[p]]

(* r_gpio: all pins of the list, also those that were not granted. *)
FreePins(d) ==
  /\ Goto(d, "r_gpio", "r_device")
  /\ owner' = Freed(d)
  /\ UNCHANGED <<region, cdev, node, class, level, file, stale>>

DestroyDevice(d) ==
  /\ \/ class[d] = "made" /\ Goto(d, "r_device", "r_class")
     \/ class[d] = "error" /\ Goto(d, "r_device", "stuck")
  /\ node' = node \ {d}
  /\ UNCHANGED <<region, cdev, class, owner, level, file, stale>>

DestroyClass(d) ==
  /\ Goto(d, "r_class", "r_del")
  /\ class' = [class EXCEPT ![d] = "none"]
  /\ UNCHANGED <<region, cdev, node, owner, level, file, stale>>

DeleteCdev(d) ==
  /\ Goto(d, "r_del", "r_unreg")
  /\ cdev' = cdev \ {d}
  /\ UNCHANGED <<region, node, class, owner, level, file, stale>>

Users(d) == {p \in Processes : file[p] = d}

(* insmod fails and the code is unloaded, also under who has opened the    *)
(* node meanwhile.                                                         *)
Unregister(d) ==
  /\ Goto(d, "r_unreg", "absent")
  /\ region' = region \ {d}
  /\ stale' = stale \cup Users(d)
  /\ UNCHANGED <<cdev, node, class, owner, level, file>>
-----------------------------------------------------------------------------
(* rmmod.  led_driver_exit frees no pin ("Release the GPIO").              *)
Rmmod(d) ==
  /\ mod[d] = "loaded"
  /\ d \in Owned => Users(d) \subseteq stale
  /\ owner' = IF d = "led" THEN owner ELSE Freed(d)
  /\ IF class[d] = "error"
     THEN /\ mod' = [mod EXCEPT ![d] = "stuck"]
          /\ UNCHANGED <<region, cdev, node, class, stale>>
     ELSE /\ mod' = [mod EXCEPT ![d] = "removed"]
          /\ region' = region \ {d} /\ cdev' = cdev \ {d} /\ node' = node \ {d}
          /\ class' = [class EXCEPT ![d] = "none"]
          /\ stale' = stale \cup Users(d)
  /\ UNCHANGED <<level, file>>
-----------------------------------------------------------------------------
(* Files, as parts of the steps of the programs.                           *)

Open(p, name) ==
  /\ \/ \E d \in node :
          DeviceName[d] = name /\ file' = [file EXCEPT ![p] = d]
     \/ /\ \A d \in node : DeviceName[d] # name
        /\ file' = [file EXCEPT ![p] = "failed"]
  /\ stale' = stale \ {p}

Close(P) ==
  /\ file' = [p \in Processes |-> IF p \in P THEN "none" ELSE file[p]]
  /\ stale' = stale \ P

(* Code that was unloaded cannot be called, unless the module is loaded    *)
(* again in the same place.                                                *)
Crashes(p) == p \in stale
Works(p) ==
  file[p] \in Drivers /\ (p \in stale => mod[file[p]] = "loaded")
MayUse(p) == file[p] = "failed" \/ Works(p)

Show(d, bits) ==
  level' = [p \in Pin |->
              IF p \in PinsOf(d)
              THEN bits[CHOOSE i \in 1 .. Len(bits) : pins[d][i] = p]
              ELSE level[p]]

(* The codes of the digits, in lab3-2_writer.c, lab3-2_driver.c and        *)
(* seg_driver.c; the segments are g to a from the end.                     *)
seg_for_c ==
  [digit \in 0 .. 9 |->
     CASE digit = 0 -> <<0,1,1,1,1,1,1,0>> [] digit = 1 -> <<0,0,1,1,0,0,0,0>>
       [] digit = 2 -> <<0,1,1,0,1,1,0,1>> [] digit = 3 -> <<0,1,1,1,1,0,0,1>>
       [] digit = 4 -> <<0,0,1,1,0,0,1,1>> [] digit = 5 -> <<0,1,0,1,1,0,1,1>>
       [] digit = 6 -> <<0,1,0,1,1,1,1,1>> [] digit = 7 -> <<0,1,1,1,0,0,0,0>>
       [] digit = 8 -> <<0,1,1,1,1,1,1,1>> [] OTHER     -> <<0,1,1,1,1,0,1,1>>]

(* etx_write of lab3-1: any four binary digits.  A string of another       *)
(* length is not copied, and the zeroes of rec_buf match no pattern.       *)
WriteBinary(bits) ==
  IF Len(bits) = 4 THEN Show("lab3_1", bits) ELSE UNCHANGED level

(* etx_write of lab3-2: a code of a digit. *)
WriteSegments(bits) ==
  IF \E digit \in 0 .. 9 : bits = seg_for_c[digit]
  THEN Show("lab3_2", bits) ELSE UNCHANGED level

(* Both are called etx_Dev: what is called depends on which is loaded. *)
WriteBits(d, bits) ==
  IF d = "lab3_1" THEN WriteBinary(bits) ELSE WriteSegments(bits)

(* etx_write of seg_driver.c. *)
WriteDigit(digit) == Show("seg", seg_for_c[digit])

(* led_write: the last of the pins. *)
WriteDistance(n) == Show("led", [i \in 1 .. 8 |-> IF i > 8 - n THEN 1 ELSE 0])
-----------------------------------------------------------------------------
Loading(d) ==
  \/ AllocRegion(d) \/ CdevAdd(d) \/ ClassCreate(d) \/ DeviceCreate(d)
  \/ InvalidPin(d) \/ RequestPins(d) \/ FreePins(d) \/ DestroyDevice(d)
  \/ DestroyClass(d) \/ DeleteCdev(d) \/ Unregister(d)

(* Whatever the programs do with files and levels. *)
Used == UNCHANGED <<mod, region, cdev, node, class, owner>>

DriverNext ==
  \/ \E d \in Drivers : Insmod(d) \/ Loading(d) \/ Rmmod(d)
  \/ Used

DriverSpec == DriverInit /\ [][DriverNext]_driverVars
-----------------------------------------------------------------------------
Settled == {"absent", "loaded", "removed", "stuck"}

DriverTypeOK ==
  /\ mod \in [Drivers ->
       Settled \cup {"alloc", "cdev_add", "class_create", "device_create",
                     "request", "r_gpio", "r_device", "r_class", "r_del", "r_unreg"}]
  /\ region \subseteq Drivers /\ cdev \subseteq Drivers /\ node \subseteq Drivers
  /\ class \in [Drivers -> {"none", "made", "error"}]
  /\ owner \in [Pin -> Drivers \cup {"free"}]

(* Whatever call of init has failed, and after exit, nothing of the module *)
(* is left to stop the next insmod (led_driver.c 358-376), except that the *)
(* LED bar's pins stay requested after rmmod (line 382), all of them: the  *)
(* insmod that fails because of that frees them, and the one after works.  *)
(* A module in which insmod or rmmod has died is stuck, and keeps what it  *)
(* has.                                                                    *)
NothingLeft ==
  \A d \in Drivers : mod[d] \in {"absent", "removed"} =>
    /\ d \notin region \cup cdev \cup node /\ class[d] = "none"
    /\ LET held == {p \in Pin : owner[p] = d} IN
         held = {} \/ (d = "led" /\ held = PinsOf("led"))

(* r_gpio of one module frees pins that another one uses (seg_driver.c     *)
(* 404-412, driver.c 340-344).  As long as every class was made this       *)
(* cannot happen: the modules with common pins have a class in common too. *)
PinsHeld ==
  (\A d \in Drivers : class[d] # "error") =>
    \A d \in Drivers :
      mod[d] = "loaded" => \A p \in PinsOf(d) : owner[p] = d
=============================================================================
