---------------------------- MODULE DisplayWriters ----------------------------
(***************************************************************************)
(* writer.c of lab3-1 and lab3-2: each takes the digits of its argument    *)
(* one after the other and writes them to the device.  The writer of       *)
(* lab3-1 writes its buffer after every bit, when the bits that follow are *)
(* not initialised yet.                                                    *)
(***************************************************************************)
EXTENDS GpioDrivers

CONSTANTS
  WriterDigits, \* digits in the arguments
  MaxDigits     \* bound: digits of an argument

ASSUME WriterAssumption == WriterDigits \subseteq 0 .. 9 /\ MaxDigits \in Nat

VARIABLE writer \* where it is ("off", "open", "bits", "sleep"), which of the
                \* two it is, the digit, the bits written, the digits that
                \* are left, and what was shown when the digit was written

NoWriter == [pc |-> "off", lab |-> "none", digit |-> 0, bits |-> 0, left |-> 0,
             seen |-> <<>>]

WriterInit == writer = NoWriter

RunWriter(lab) ==
  /\ writer.pc = "off"
  /\ \E n \in 1 .. MaxDigits :
       writer' = [NoWriter EXCEPT !.pc = "open", !.lab = lab, !.left = n]
  /\ UNCHANGED driverVars

StartDigit(w) ==
  \E v \in WriterDigits :
    writer' = [w EXCEPT !.pc = "bits", !.digit = v, !.bits = 0,
                        !.left = w.left - 1, !.seen = <<>>]

WriterOpens ==
  /\ writer.pc = "open"
  /\ Open("writer", "etx_Dev")
  /\ IF file'["writer"] = "failed" THEN writer' = NoWriter ELSE StartDigit(writer)
  /\ UNCHANGED <<mod, region, cdev, node, class, owner, level>>

Width == IF writer.lab = "lab3_1" THEN 4 ELSE 8

Code ==
  IF writer.lab = "lab3_1"
  THEN <<(writer.digit \div 8) % 2, (writer.digit \div 4) % 2,
         (writer.digit \div 2) % 2, writer.digit % 2>>
  ELSE seg_for_c[writer.digit]

Wrote(n) ==
  /\ file["writer"] \in Drivers
  /\ writer' = [writer EXCEPT
       !.bits = n,
       !.pc = IF n = Width THEN "sleep" ELSE "bits",
       !.seen = LET list == pins[file["writer"]] IN
                  IF n = Width THEN [i \in 1 .. Len(list) |-> level'[list[i]]]
                  ELSE <<>>]
  /\ UNCHANGED <<mod, region, cdev, node, class, owner, file, stale>>

(* Mutant of WriteNextBit: the last write is left out. *)
WriteThreeBits ==
  /\ writer.pc = "bits" /\ writer.lab = "lab3_1" /\ Works("writer")
  /\ LET n == writer.bits + 1 IN
       /\ \/ \E rest \in [n + 1 .. 4 -> {0, 1}] :
               n < 4 /\ WriteBits(file["writer"],
                         [i \in 1 .. 4 |-> IF i <= n THEN Code[i] ELSE rest[i]])
          \/ UNCHANGED level
       /\ Wrote(n)

(* The loop over j of lab3-1: a write after each bit, with whatever the    *)
(* rest of data[] holds; characters other than 0 and 1 match no pattern.   *)
WriteNextBit ==
  /\ writer.pc = "bits" /\ writer.lab = "lab3_1" /\ Works("writer")
  /\ LET n == writer.bits + 1 IN
       /\ \/ \E rest \in [n + 1 .. 4 -> {0, 1}] :
               WriteBits(file["writer"],
                         [i \in 1 .. 4 |-> IF i <= n THEN Code[i] ELSE rest[i]])
          \/ n < 4 /\ UNCHANGED level
       /\ Wrote(n)

(* lab3-2 writes a code at once. *)
WriteCode ==
  /\ writer.pc = "bits" /\ writer.lab = "lab3_2" /\ Works("writer")
  /\ WriteBits(file["writer"], Code)
  /\ Wrote(8)

(* After a second: the next digit, or the end. *)
NextDigit ==
  /\ writer.pc = "sleep"
  /\ IF writer.left > 0
     THEN StartDigit(writer) /\ UNCHANGED <<file, stale>>
     ELSE writer' = NoWriter /\ Close({"writer"})
  /\ UNCHANGED <<mod, region, cdev, node, class, owner, level>>

(* Ctrl + C, or the end of the code it calls: a driver whose insmod failed *)
(* after the node was there.                                               *)
KillWriter ==
  /\ writer.pc # "off"
  /\ writer' = NoWriter
  /\ Close({"writer"})
  /\ UNCHANGED <<mod, region, cdev, node, class, owner, level>>

WriterWorks == WriterOpens \/ WriteNextBit \/ WriteCode \/ NextDigit
WriterNext == WriterWorks \/ KillWriter
-----------------------------------------------------------------------------
(* When a digit was written to the driver of the same exercise, and no     *)
(* matter what was in the buffer before, the pins show it: in binary       *)
(* (lab3-1/writer.c 24-41), or as the segments of that digit alone.        *)
DigitShown ==
  writer.pc = "sleep" /\ file["writer"] = writer.lab =>
    IF writer.lab = "lab3_1"
    THEN 8 * writer.seen[1] + 4 * writer.seen[2] + 2 * writer.seen[3]
           + writer.seen[4] = writer.digit
    ELSE {d \in 0 .. 9 : seg_for_c[d] = writer.seen} = {writer.digit}
=============================================================================
