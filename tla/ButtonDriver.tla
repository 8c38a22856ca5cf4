---------------------------- MODULE ButtonDriver ----------------------------
(***************************************************************************)
(* button_driver.c: the character device the game client reads its buttons *)
(* from.  An interrupt handler for each button appends its name to a       *)
(* buffer that all readers share; open() enables the interrupts, write()   *)
(* disables them and clears the buffer.  Linux counts how often an         *)
(* interrupt has been disabled; the five are always treated alike, so one  *)
(* depth is kept for them.                                                 *)
(***************************************************************************)
EXTENDS Integers, Sequences

CONSTANTS
  Buttons, Sessions, \* buttons, and the processes that open the device
  Cycle,      \* number of values of jiffies, 2^32 or 2^64
  Boot,       \* jiffies when the model starts, after the module was loaded
  Debounce,   \* msecs_to_jiffies(100)
  MaxTime, MaxPresses, MaxOpens \* bounds

ASSUME ButtonAssumption ==
  /\ Cycle \in Nat \ {0} /\ Cycle % 2 = 0
  /\ Boot \in 0 .. Cycle - 1
  /\ Debounce \in 1 .. Cycle - 1
  /\ MaxTime \in Nat /\ MaxPresses \in Nat /\ MaxOpens \in Nat

VARIABLES
  depth,        \* how often the interrupts are disabled
  latched,      \* buttons whose interrupt is pending
  isr,          \* "append": the handler of the button is at spin_lock_irqsave
  last_jiffies, \* of each button
  buffer,       \* button_buffer, of buffer_pos / 9 names
  pc,           \* each process: "closed", "open", "clearing" (in write)
  fpos,         \* its file position, in names
  written,      \* it has written to the device since it opened it
  got,          \* what it has read since it opened it (history)
  orderly,      \* so far one process at a time has opened the device, read,
                \* written "clear" once and closed it, as Final_client.c and
                \* test_button_driver.c do (history)
  now,          \* ticks since the start
  recorded,     \* when a press of each button was last taken (history)
  presses, opens \* counted for the bounds

vars == <<depth, latched, isr, last_jiffies, buffer, pc, fpos, written, got,
          orderly, now, recorded, presses, opens>>
fileVars == <<pc, fpos, written, got, orderly, opens>>
isrVars  == <<latched, isr, last_jiffies, recorded>>

jiffies == (Boot + now) % Cycle

(* The kernel's time_before(a, b): (long)(a - b) < 0. *)
time_before(a, b) == (a - b) % Cycle >= Cycle \div 2

Init ==
  /\ depth = 0
  /\ latched = {}
  /\ isr = [b \in Buttons |-> "idle"]
  /\ last_jiffies = [b \in Buttons |-> 0]
  /\ buffer = <<>>
  /\ pc = [s \in Sessions |-> "closed"]
  /\ fpos = [s \in Sessions |-> 0]
  /\ written = [s \in Sessions |-> FALSE]
  /\ got = [s \in Sessions |-> <<>>]
  /\ orderly = TRUE
  /\ now = 0
  /\ recorded = [b \in Buttons |-> -Debounce]
  /\ presses = 0
  /\ opens = 0
-----------------------------------------------------------------------------
Tick ==
  /\ now < MaxTime
  /\ now' = now + 1
  /\ UNCHANGED <<depth, buffer, fileVars, isrVars, presses>>

(* A falling edge.  While the interrupt is disabled the hardware may latch *)
(* it or lose it.                                                          *)
Press(b) ==
  /\ presses < MaxPresses
  /\ presses' = presses + 1
  /\ \/ latched' = latched \cup {b}
     \/ depth > 0 /\ latched' = latched
  /\ UNCHANGED <<depth, isr, last_jiffies, buffer, fileVars, now, recorded>>

(* button_isr, up to the lock. *)
Interrupted(b) ==
  /\ depth = 0
  /\ b \in latched
  /\ isr[b] = "idle"
  /\ latched' = latched \ {b}

Bounce(b) == time_before(jiffies, (last_jiffies[b] + Debounce) % Cycle)

Ignore(b) ==
  /\ Interrupted(b)
  /\ Bounce(b)
  /\ UNCHANGED <<depth, isr, last_jiffies, buffer, fileVars, now, recorded,
                 presses>>

Record(b) ==
  /\ Interrupted(b)
  /\ ~Bounce(b)
  /\ isr' = [isr EXCEPT ![b] = "append"]
  /\ last_jiffies' = [last_jiffies EXCEPT ![b] = jiffies]
  /\ recorded' = [recorded EXCEPT ![b] = now]
  /\ UNCHANGED <<depth, buffer, fileVars, now, presses>>

(* buffer_lock: the name is appended. *)
AppendName(b) ==
  /\ isr[b] = "append"
  /\ isr' = [isr EXCEPT ![b] = "idle"]
  /\ buffer' = Append(buffer, b)
  /\ UNCHANGED <<depth, latched, last_jiffies, fileVars, now, recorded, presses>>
-----------------------------------------------------------------------------
(* The process has kept to the order so far. *)
Keeps(condition) == orderly' = (orderly /\ condition)

(* Mutant of Open: the interrupts are left as they are. *)
OpenQuietly(s) ==
  /\ pc[s] = "closed"
  /\ opens < MaxOpens
  /\ opens' = opens + 1
  /\ pc' = [pc EXCEPT ![s] = "open"]
  /\ fpos' = [fpos EXCEPT ![s] = 0]
  /\ written' = [written EXCEPT ![s] = FALSE]
  /\ got' = [got EXCEPT ![s] = <<>>]
  /\ Keeps(\A q \in Sessions : pc[q] = "closed")
  /\ UNCHANGED <<depth, buffer, isrVars, now, presses>>

(* button_open: enable_irq only warns when nothing is disabled. *)
Open(s) ==
  /\ pc[s] = "closed"
  /\ opens < MaxOpens
  /\ opens' = opens + 1
  /\ depth' = IF depth > 0 THEN depth - 1 ELSE 0
  /\ pc' = [pc EXCEPT ![s] = "open"]
  /\ fpos' = [fpos EXCEPT ![s] = 0]
  /\ written' = [written EXCEPT ![s] = FALSE]
  /\ got' = [got EXCEPT ![s] = <<>>]
  /\ Keeps(\A q \in Sessions : pc[q] = "closed")
  /\ UNCHANGED <<buffer, isrVars, now, presses>>

(* Mutant of Read: the file position stays. *)
ReadAgain(s) ==
  /\ pc[s] = "open"
  /\ Keeps(~written[s])
  /\ fpos[s] < Len(buffer)
  /\ got' = [got EXCEPT ![s] = @ \o SubSeq(buffer, fpos[s] + 1, Len(buffer))]
  /\ UNCHANGED <<depth, buffer, pc, fpos, written, opens, isrVars, now, presses>>

(* button_read, with room for all there is; otherwise it returns 0. *)
Read(s) ==
  /\ pc[s] = "open"
  /\ Keeps(~written[s])
  /\ fpos[s] < Len(buffer)
  /\ got' = [got EXCEPT ![s] = @ \o SubSeq(buffer, fpos[s] + 1, Len(buffer))]
  /\ fpos' = [fpos EXCEPT ![s] = Len(buffer)]
  /\ UNCHANGED <<depth, buffer, pc, written, opens, isrVars, now, presses>>

(* Mutant of Write: the handlers that run are not waited for. *)
WriteAtOnce(s, command) ==
  /\ pc[s] = "open"
  /\ Keeps(command = "clear" /\ ~written[s])
  /\ depth < MaxOpens + 1
  /\ depth' = depth + 1
  /\ written' = [written EXCEPT ![s] = TRUE]
  /\ pc' = [pc EXCEPT ![s] = IF command = "clear" THEN "clearing" ELSE "open"]
  /\ UNCHANGED <<buffer, fpos, got, opens, isrVars, now, presses>>

(* button_write: disable_irq waits for the handlers that run.  A command   *)
(* other than "clear" ends here with -EINVAL.                              *)
Write(s, command) ==
  /\ pc[s] = "open"
  /\ Keeps(command = "clear" /\ ~written[s])
  /\ \A b \in Buttons : isr[b] = "idle"
  /\ depth < MaxOpens + 1
  /\ depth' = depth + 1
  /\ written' = [written EXCEPT ![s] = TRUE]
  /\ pc' = [pc EXCEPT ![s] = IF command = "clear" THEN "clearing" ELSE "open"]
  /\ UNCHANGED <<buffer, fpos, got, opens, isrVars, now, presses>>

(* Mutant of Clear: the times of the last presses stay. *)
ClearKeepsTimes(s) ==
  /\ pc[s] = "clearing"
  /\ pc' = [pc EXCEPT ![s] = "open"]
  /\ buffer' = <<>>
  /\ recorded' = [b \in Buttons |-> -Debounce]
  /\ UNCHANGED <<depth, latched, isr, last_jiffies, fpos, written, got,
                 orderly, opens, now, presses>>

(* The rest of button_write: "clear". *)
Clear(s) ==
  /\ pc[s] = "clearing"
  /\ pc' = [pc EXCEPT ![s] = "open"]
  /\ buffer' = <<>>
  /\ last_jiffies' = [b \in Buttons |-> 0]
  /\ recorded' = [b \in Buttons |-> -Debounce]
  /\ UNCHANGED <<depth, latched, isr, fpos, written, got, orderly, opens, now, presses>>

(* button_release leaves everything as it is. *)
Close(s) ==
  /\ pc[s] = "open"
  /\ Keeps(written[s])
  /\ pc' = [pc EXCEPT ![s] = "closed"]
  /\ UNCHANGED <<depth, buffer, fpos, written, got, opens, isrVars, now, presses>>
-----------------------------------------------------------------------------
Next ==
  \/ Tick
  \/ \E b \in Buttons : Press(b) \/ Ignore(b) \/ Record(b) \/ AppendName(b)
  \/ \E s \in Sessions :
       \/ Open(s) \/ Read(s) \/ Clear(s) \/ Close(s)
       \/ \E command \in {"clear", "other"} : Write(s, command)

Spec == Init /\ [][Next]_vars
-----------------------------------------------------------------------------
(* "Ignore bouncing signals" (line 54): an interrupt is taken for bouncing *)
(* exactly when a press was taken less than Debounce ticks before it and   *)
(* has not been cleared since.  last_jiffies starts, and starts again, at  *)
(* 0, which is in the past for half of the values of jiffies.              *)
DebounceExact ==
  [][\A b \in Buttons :
       /\ Ignore(b) => now - recorded[b] < Debounce
       /\ Record(b) => now - recorded[b] >= Debounce]_vars

(* A process that has opened the device can count on its buttons, as long  *)
(* as the processes are orderly: "bytes == 0 means that no button has been *)
(* pressed" (Final_client.c, line 255).                                    *)
ButtonsWork ==
  orderly => \A s \in Sessions : pc[s] = "open" /\ ~written[s] => depth = 0

(* Between two orderly processes the buffer is empty and no handler is on  *)
(* its way to it: all that the next one reads is recorded after it has     *)
(* opened the device (lines 103-113, 129-132).  It need not have been      *)
(* pressed after that: an interrupt that is still pending when the others  *)
(* are disabled, or is latched while they are, is delivered by the next    *)
(* open.                                                                   *)
ClosedMeansSilent ==
  orderly /\ opens > 0 /\ (\A s \in Sessions : pc[s] = "closed") =>
    buffer = <<>> /\ \A b \in Buttons : isr[b] = "idle"

(* Every press that is recorded is read once, in the order recorded, by an *)
(* orderly process (lines 57-59, 72-80).                                   *)
ReadsInOrder ==
  \A s \in Sessions :
    pc[s] = "open" /\ orderly /\ ~written[s] => got[s] = SubSeq(buffer, 1, fpos[s])
=============================================================================
