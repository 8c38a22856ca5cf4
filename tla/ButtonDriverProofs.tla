------------------------- MODULE ButtonDriverProofs -------------------------
(***************************************************************************)
(* The button driver, for any number of buttons and processes and any      *)
(* bounds: what orderly processes can count on, and which interrupts are   *)
(* taken for bouncing.                                                     *)
(***************************************************************************)
EXTENDS ButtonDriver, SequenceTheorems, TLAPS

TypeOK ==
  /\ depth \in Nat
  /\ isr \in [Buttons -> {"idle", "append"}]
  /\ buffer \in Seq(Buttons)
  /\ pc \in [Sessions -> {"closed", "open", "clearing"}]
  /\ fpos \in [Sessions -> Nat]
  /\ written \in [Sessions -> BOOLEAN]
  /\ got \in [Sessions -> Seq(Buttons)]
  /\ orderly \in BOOLEAN
  /\ opens \in Nat

(* While the interrupts are disabled no handler is on its way to the       *)
(* buffer, orderly or not: disable_irq has waited for those that were.     *)
Disabled == depth > 0 => \A b \in Buttons : isr[b] = "idle"

AllClosed == \A s \in Sessions : pc[s] = "closed"

(* One process at a time.  It finds the interrupts disabled once, by the   *)
(* one before it, or never disabled, and it leaves them disabled once and  *)
(* the buffer empty.                                                       *)
InTurn ==
  orderly =>
    /\ \A s, q \in Sessions : pc[s] # "closed" /\ pc[q] # "closed" => s = q
    /\ \A s \in Sessions :
         /\ pc[s] = "clearing" => written[s]
         /\ pc[s] = "open" /\ ~written[s] => depth = 0
         /\ pc[s] # "closed" /\ written[s] => depth = 1
         /\ pc[s] = "open" /\ written[s] => buffer = <<>>
    /\ opens = 0 => AllClosed /\ depth = 0
    /\ opens > 0 /\ AllClosed => depth = 1 /\ buffer = <<>>

(* A process is not ahead of the buffer, and has read all before its       *)
(* position.                                                               *)
ReadSoFar ==
  orderly =>
    \A s \in Sessions :
      pc[s] = "open" /\ ~written[s] =>
        fpos[s] <= Len(buffer) /\ got[s] = SubSeq(buffer, 1, fpos[s])

IInv == TypeOK /\ Disabled /\ InTurn /\ ReadSoFar
-----------------------------------------------------------------------------
LEMMA InitHolds == Init => IInv
<1> SUFFICES ASSUME Init PROVE IInv
  OBVIOUS
<1>1. TypeOK
  BY DEF Init, TypeOK
<1> QED
  BY <1>1 DEF Init, IInv, Disabled, InTurn, ReadSoFar, AllClosed

(* Presses and interrupts: only a handler that is past the debouncing      *)
(* comes to the buffer, and then the interrupts are enabled.               *)
LEMMA InterruptStep ==
  ASSUME IInv, NEW b \in Buttons,
         Press(b) \/ Ignore(b) \/ Record(b) \/ AppendName(b)
  PROVE  IInv'
<1> USE DEF IInv, fileVars
<1>1. CASE Press(b) \/ Ignore(b)
  BY <1>1 DEF Press, Ignore, Interrupted, TypeOK, Disabled, InTurn, ReadSoFar,
              AllClosed
<1>2. CASE Record(b)
  BY <1>2 DEF Record, Interrupted, TypeOK, Disabled, InTurn, ReadSoFar, AllClosed
<1>3. CASE AppendName(b)
  <2>1. depth = 0
    BY <1>3 DEF AppendName, TypeOK, Disabled
  <2>2. TypeOK'
    BY <1>3 DEF AppendName, TypeOK
  <2>3. Disabled'
    BY <1>3, <2>1 DEF AppendName, Disabled
  <2>4. InTurn'
    BY <1>3, <2>1 DEF AppendName, InTurn, AllClosed
  <2>5. ReadSoFar'
    <3> SUFFICES ASSUME orderly, NEW s \in Sessions, pc[s] = "open", ~written[s]
                 PROVE  /\ fpos[s] <= Len(buffer')
                        /\ got[s] = SubSeq(buffer', 1, fpos[s])
      BY <1>3 DEF AppendName, ReadSoFar
    <3>1. fpos[s] \in Nat /\ fpos[s] <= Len(buffer) /\ got[s] = SubSeq(buffer, 1, fpos[s])
      BY DEF ReadSoFar, TypeOK
    <3>2. buffer \in Seq(Buttons) /\ buffer' = Append(buffer, b)
      BY <1>3 DEF AppendName, TypeOK
    <3>3. Len(buffer') = Len(buffer) + 1 /\ \A i \in 1 .. Len(buffer) : buffer'[i] = buffer[i]
      BY <3>2
    <3>4. SubSeq(buffer', 1, fpos[s]) = SubSeq(buffer, 1, fpos[s])
      BY <3>1, <3>2, <3>3
    <3> QED
      BY <3>1, <3>2, <3>3, <3>4
  <2> QED
    BY <2>2, <2>3, <2>4, <2>5
<1> QED
  BY <1>1, <1>2, <1>3

(* open() enables what the one before has disabled; a new file starts at   *)
(* the start of the buffer.                                                *)
LEMMA OpenStep ==
  ASSUME IInv, NEW s \in Sessions, Open(s)
  PROVE  IInv'
<1> USE DEF IInv, isrVars
<1>1. TypeOK'
  BY DEF Open, Keeps, TypeOK
<1>2. Disabled'
  BY DEF Open, Disabled, TypeOK
<1>3. ASSUME orderly' PROVE orderly /\ AllClosed /\ depth' = 0
  <2>1. orderly
    BY <1>3 DEF Open, Keeps, TypeOK
  <2>2. AllClosed
    BY <1>3, <2>1 DEF Open, Keeps, AllClosed
  <2>3. depth \in {0, 1}
    BY <2>1, <2>2 DEF InTurn, TypeOK
  <2> QED
    BY <2>1, <2>2, <2>3 DEF Open
<1>4. InTurn'
  <2> SUFFICES ASSUME orderly' PROVE InTurn'
    BY DEF InTurn
  <2>1. \A q \in Sessions : pc'[q] # "closed" => q = s
    BY <1>3 DEF Open, TypeOK, AllClosed
  <2>2. pc'[s] = "open" /\ ~written'[s] /\ opens' > 0
    BY DEF Open, TypeOK
  <2>3. depth' = 0
    BY <1>3
  <2> QED
    BY <2>1, <2>2, <2>3 DEF InTurn, AllClosed
<1>5. ReadSoFar'
  <2>1. Len(buffer) \in Nat /\ SubSeq(buffer, 1, 0) = <<>>
    BY DEF TypeOK
  <2> QED
    BY <1>3, <2>1 DEF Open, TypeOK, ReadSoFar, AllClosed
<1> QED
  BY <1>1, <1>2, <1>4, <1>5

(* What is read follows what was read.                                     *)
LEMMA ReadStep ==
  ASSUME IInv, NEW s \in Sessions, Read(s)
  PROVE  IInv'
<1> USE DEF IInv, isrVars
<1>1. TypeOK'
  <2>1. SubSeq(buffer, fpos[s] + 1, Len(buffer)) \in Seq(Buttons)
    BY DEF Read, TypeOK
  <2>2. got[s] \o SubSeq(buffer, fpos[s] + 1, Len(buffer)) \in Seq(Buttons)
    BY <2>1 DEF TypeOK
  <2> QED
    BY <2>2 DEF Read, Keeps, TypeOK
<1>2. Disabled'
  BY DEF Read, Disabled
<1>3. InTurn'
  BY DEF Read, Keeps, InTurn, TypeOK, AllClosed
<1>4. ReadSoFar'
  <2> SUFFICES ASSUME orderly', NEW q \in Sessions, pc[q] = "open", ~written[q]
               PROVE  /\ fpos'[q] <= Len(buffer)
                      /\ got'[q] = SubSeq(buffer, 1, fpos'[q])
    BY DEF Read, ReadSoFar
  <2>0. orderly
    BY DEF Read, Keeps, TypeOK
  <2>1. q = s
    BY <2>0 DEF Read, InTurn
  <2>2. /\ buffer \in Seq(Buttons) /\ fpos[s] \in Nat /\ fpos[s] < Len(buffer)
        /\ got[s] = SubSeq(buffer, 1, fpos[s])
    BY <2>0, <2>1 DEF Read, TypeOK, ReadSoFar
  <2>3. SubSeq(buffer, 1, fpos[s]) \o SubSeq(buffer, fpos[s] + 1, Len(buffer))
          = SubSeq(buffer, 1, Len(buffer))
    <3>1. /\ 1 \in 1 .. Len(buffer) + 1 /\ fpos[s] \in 1 - 1 .. Len(buffer)
          /\ Len(buffer) \in fpos[s] .. Len(buffer)
      BY <2>2
    <3> HIDE DEF IInv
    <3> QED
      BY <2>2, <3>1, ConcatAdjacentSubSeq
  <2>4. fpos'[s] = Len(buffer) /\ Len(buffer) \in Nat
    BY DEF Read, TypeOK
  <2>5. got'[s] = SubSeq(buffer, 1, fpos[s]) \o SubSeq(buffer, fpos[s] + 1, Len(buffer))
    BY <2>2 DEF Read, TypeOK
  <2>6. got'[s] = SubSeq(buffer, 1, fpos'[s])
    BY <2>3, <2>4, <2>5
  <2> QED
    BY <2>1, <2>4, <2>6
<1> QED
  BY <1>1, <1>2, <1>3, <1>4

(* write() disables when no handler runs, and clears after that.           *)
LEMMA WriteStep ==
  ASSUME IInv, NEW s \in Sessions,
         \/ \E command \in {"clear", "other"} : Write(s, command)
         \/ Clear(s) \/ Close(s)
  PROVE  IInv'
<1> USE DEF IInv, isrVars
<1>1. ASSUME NEW command \in {"clear", "other"}, Write(s, command)
      PROVE  IInv'
  <2>1. TypeOK'
    BY <1>1 DEF Write, Keeps, TypeOK
  <2>2. Disabled'
    BY <1>1 DEF Write, Disabled
  <2>3. ASSUME orderly' PROVE orderly /\ command = "clear" /\ ~written[s]
    BY <1>1, <2>3 DEF Write, Keeps
  <2>4. InTurn'
    BY <1>1, <2>3 DEF Write, TypeOK, InTurn, AllClosed
  <2>5. ReadSoFar'
    BY <1>1, <2>3 DEF Write, TypeOK, ReadSoFar
  <2> QED
    BY <2>1, <2>2, <2>4, <2>5
<1>2. CASE Clear(s)
  <2>1. TypeOK'
    BY <1>2 DEF Clear, TypeOK
  <2>2. Disabled'
    BY <1>2 DEF Clear, Disabled
  <2>3. InTurn'
    BY <1>2 DEF Clear, TypeOK, InTurn, AllClosed
  <2>4. ReadSoFar'
    BY <1>2 DEF Clear, TypeOK, InTurn, ReadSoFar
  <2> QED
    BY <2>1, <2>2, <2>3, <2>4
<1>3. CASE Close(s)
  <2>1. TypeOK'
    BY <1>3 DEF Close, Keeps, TypeOK
  <2>2. Disabled'
    BY <1>3 DEF Close, Disabled
  <2>3. InTurn'
    <3> SUFFICES ASSUME orderly' PROVE InTurn'
      BY DEF InTurn
    <3>1. orderly /\ written[s] /\ pc[s] = "open"
      BY <1>3 DEF Close, Keeps, TypeOK
    <3>2. depth = 1 /\ buffer = <<>> /\ opens # 0
      BY <3>1 DEF InTurn, AllClosed
    <3>3. \A q \in Sessions : pc'[q] = "closed"
      BY <1>3, <3>1 DEF Close, TypeOK, InTurn
    <3> QED
      BY <1>3, <3>2, <3>3 DEF Close, InTurn, AllClosed
  <2>4. ReadSoFar'
    BY <1>3 DEF Close, Keeps, TypeOK, ReadSoFar
  <2> QED
    BY <2>1, <2>2, <2>3, <2>4
<1> QED
  BY <1>1, <1>2, <1>3

LEMMA NextHolds == IInv /\ [Next]_vars => IInv'
<1> SUFFICES ASSUME IInv, [Next]_vars PROVE IInv'
  OBVIOUS
<1>1. CASE Tick \/ UNCHANGED vars
  BY <1>1 DEF Tick, vars, fileVars, isrVars, IInv, TypeOK, Disabled, InTurn,
              ReadSoFar, AllClosed
<1> QED
  BY <1>1, InterruptStep, OpenStep, ReadStep, WriteStep DEF Next

(* The inductive invariant holds throughout.                               *)
THEOREM ButtonInvariant == Spec => []IInv
  BY InitHolds, NextHolds, PTL DEF Spec

(* Who has opened the device in turn has its buttons.                      *)
THEOREM ButtonWork == Spec => []ButtonsWork
<1>1. IInv => ButtonsWork
  BY DEF IInv, InTurn, ButtonsWork
<1> QED
  BY <1>1, ButtonInvariant, PTL

(* No press that was recorded for one process is left for the next one in  *)
(* turn, and none is recorded between the two.                             *)
THEOREM ButtonSilent == Spec => []ClosedMeansSilent
<1>1. IInv => ClosedMeansSilent
  BY DEF IInv, TypeOK, InTurn, Disabled, AllClosed, ClosedMeansSilent
<1> QED
  BY <1>1, ButtonInvariant, PTL

(* Who is in turn reads all presses, once and in their order.              *)
THEOREM ButtonReads == Spec => []ReadsInOrder
<1>1. IInv => ReadsInOrder
  BY DEF IInv, TypeOK, ReadSoFar, ReadsInOrder
<1> QED
  BY <1>1, ButtonInvariant, PTL
-----------------------------------------------------------------------------
(* Debouncing.  last_jiffies is the time of the last press modulo the      *)
(* range of jiffies, or 0 when there was none.                             *)

Mod(x) == x % Cycle

Stamp(b) ==
  \/ recorded[b] = -Debounce /\ last_jiffies[b] = 0
  \/ recorded[b] \in 0 .. now /\ last_jiffies[b] = Mod(Boot + recorded[b])

TimeInv ==
  /\ now \in 0 .. MaxTime
  /\ recorded \in [Buttons -> Int]
  /\ last_jiffies \in [Buttons -> Int]
  /\ \A b \in Buttons : Stamp(b)

half == Cycle \div 2

(* Two times are compared that are less than half of the range apart.      *)
Near == Debounce <= half /\ MaxTime < Debounce + half

(* All the while, jiffies is in the half of its range that time_before     *)
(* takes to be after Debounce: the driver's "no press yet" is a time, 0.   *)
InWindow ==
  /\ Debounce <= half
  /\ Boot >= Debounce /\ Boot + MaxTime < Debounce + half

LEMMA Numbers ==
  /\ Cycle \in Nat \ {0} /\ half \in Nat /\ 2 * half = Cycle
  /\ Boot \in Nat /\ Boot < Cycle
  /\ Debounce \in Nat /\ 0 < Debounce /\ Debounce < Cycle
  /\ MaxTime \in Nat
  BY ButtonAssumption DEF half

LEMMA Modulo ==
  ASSUME NEW x \in Int
  PROVE  /\ 0 <= x /\ x < Cycle => Mod(x) = x
         /\ Cycle <= x /\ x < 2 * Cycle => Mod(x) = x - Cycle
         /\ -Cycle <= x /\ x < 0 => Mod(x) = x + Cycle
         /\ Mod(x) \in Int /\ 0 <= Mod(x) /\ Mod(x) < Cycle
<1> SUFFICES ASSUME NEW c \in Nat \ {0}
             PROVE  /\ 0 <= x /\ x < c => x % c = x
                    /\ c <= x /\ x < 2 * c => x % c = x - c
                    /\ -c <= x /\ x < 0 => x % c = x + c
                    /\ x % c \in Int /\ 0 <= x % c /\ x % c < c
  BY Numbers DEF Mod
<1>1. 0 <= x /\ x < c => x % c = x
  OBVIOUS
<1>2. c <= x /\ x < 2 * c => x % c = x - c
  OBVIOUS
<1>3. -c <= x /\ x < 0 => x % c = x + c
  OBVIOUS
<1>4. x % c \in Int /\ 0 <= x % c /\ x % c < c
  OBVIOUS
<1> QED
  BY <1>1, <1>2, <1>3, <1>4

LEMMA InMod ==
  /\ jiffies = Mod(Boot + now)
  /\ \A b : Bounce(b) <=> Mod(jiffies - Mod(last_jiffies[b] + Debounce)) >= half
  BY DEF jiffies, Bounce, time_before, Mod, half

LEMMA TimeInvHolds == Spec => []TimeInv
<1> USE DEF TimeInv, Stamp
<1>1. Init => TimeInv
  BY Numbers DEF Init
<1>2. ASSUME TimeInv, [Next]_vars
      PROVE  TimeInv'
  <2>1. CASE Tick
    BY <1>2, <2>1, Numbers DEF Tick, isrVars
  <2>2. ASSUME NEW b \in Buttons, Record(b)
        PROVE  TimeInv'
    <3>1. Boot + now \in Int /\ Mod(Boot + now) \in Int
      BY <1>2, Numbers, Modulo
    <3> QED
      BY <1>2, <2>2, <3>1, InMod DEF Record
  <2>3. ASSUME NEW s \in Sessions, Clear(s)
        PROVE  TimeInv'
    BY <1>2, <2>3, Numbers DEF Clear
  <2>4. CASE UNCHANGED <<now, last_jiffies, recorded>>
    BY <1>2, <2>4
  <2> QED
    BY <1>2, <2>1, <2>2, <2>3, <2>4
       DEF Next, vars, isrVars, Press, Ignore, AppendName, Open, Read, Write, Close
<1> QED
  BY <1>1, <1>2, PTL DEF Spec

(* Since a press was taken, and across the end of jiffies' range.          *)
LEMMA BounceAfterPress ==
  ASSUME TimeInv, Near, NEW b \in Buttons, recorded[b] >= 0
  PROVE  Bounce(b) <=> now - recorded[b] < Debounce
<1> DEFINE r == recorded[b]
           last == Mod(Boot + r)
           limit == Mod(last + Debounce)
<1>1. /\ now \in Nat /\ now <= MaxTime /\ r \in Nat /\ r <= now
      /\ last_jiffies[b] = last
  BY Numbers DEF TimeInv, Stamp
<1>2. Bounce(b) <=> Mod(jiffies - limit) >= half
  BY <1>1, InMod
<1>3. Debounce <= half /\ MaxTime < Debounce + half
  BY DEF Near
<1> HIDE DEF r
<1>4. /\ Boot + now \in Int /\ Boot + r \in Int
  BY <1>1, Numbers
<1>5. jiffies \in Int /\ jiffies = IF Boot + now < Cycle THEN Boot + now ELSE Boot + now - Cycle
  BY <1>1, <1>3, <1>4, Numbers, Modulo, InMod
<1>6. last \in Int /\ last = IF Boot + r < Cycle THEN Boot + r ELSE Boot + r - Cycle
  BY <1>1, <1>3, <1>4, Numbers, Modulo
<1> HIDE DEF last
<1>7. limit \in Int /\ limit = IF last + Debounce < Cycle THEN last + Debounce
                              ELSE last + Debounce - Cycle
  BY <1>1, <1>3, <1>6, Numbers, Modulo
<1> HIDE DEF limit
<1>8. Mod(jiffies - limit) =
        IF jiffies >= limit THEN jiffies - limit ELSE jiffies - limit + Cycle
  BY <1>1, <1>3, <1>5, <1>6, <1>7, Numbers, Modulo
<1>9. Mod(jiffies - limit) =
        IF now - r >= Debounce THEN now - r - Debounce
        ELSE now - r - Debounce + Cycle
  BY <1>1, <1>3, <1>5, <1>6, <1>7, <1>8, Numbers
<1>10. Bounce(b) <=> now - r < Debounce
  BY <1>1, <1>2, <1>3, <1>9, Numbers
<1> QED
  BY <1>10 DEF r

(* Before the first press, and after a "clear".                            *)
LEMMA NoBounceBeforePress ==
  ASSUME TimeInv, InWindow, NEW b \in Buttons, recorded[b] < 0
  PROVE  ~Bounce(b) /\ now - recorded[b] >= Debounce
<1>1. /\ now \in Nat /\ now <= MaxTime
      /\ recorded[b] = -Debounce /\ last_jiffies[b] = 0
  BY Numbers DEF TimeInv, Stamp
<1>2. Debounce <= half /\ Boot >= Debounce /\ Boot + MaxTime < Debounce + half
  BY DEF InWindow
<1>3. jiffies = Boot + now
  BY <1>1, <1>2, Numbers, Modulo, InMod
<1>4. Mod(last_jiffies[b] + Debounce) = Debounce
  BY <1>1, <1>2, Numbers, Modulo
<1>5. Mod(jiffies - Debounce) = Boot + now - Debounce
  BY <1>1, <1>2, <1>3, Numbers, Modulo
<1>6. Bounce(b) <=> Mod(jiffies - Debounce) >= half
  BY <1>4, InMod
<1>7. Bounce(b) <=> Boot + now - Debounce >= half
  BY <1>5, <1>6
<1> QED
  BY <1>1, <1>2, <1>7, Numbers

(* Who was pressed since the start, or since a "clear", is debounced       *)
(* exactly, at whatever value jiffies starts and although it wraps.        *)
DebouncedOncePressed ==
  [][\A b \in Buttons : recorded[b] >= 0 =>
       /\ Ignore(b) => now - recorded[b] < Debounce
       /\ Record(b) => now - recorded[b] >= Debounce]_vars

THEOREM ButtonDebounceWraps == Near => (Spec => DebouncedOncePressed)
<1> SUFFICES ASSUME Near PROVE Spec => DebouncedOncePressed
  OBVIOUS
<1>1. ASSUME TimeInv, NEW b \in Buttons, recorded[b] >= 0
      PROVE  /\ Ignore(b) => now - recorded[b] < Debounce
             /\ Record(b) => now - recorded[b] >= Debounce
  <2>1. Bounce(b) <=> now - recorded[b] < Debounce
    BY <1>1, BounceAfterPress
  <2>2. now - recorded[b] \in Int
    BY <1>1 DEF TimeInv
  <2> QED
    BY <2>1, <2>2, Numbers DEF Ignore, Record
<1>2. TimeInv => [\A b \in Buttons : recorded[b] >= 0 =>
                   /\ Ignore(b) => now - recorded[b] < Debounce
                   /\ Record(b) => now - recorded[b] >= Debounce]_vars
  BY <1>1
<1> QED
  BY <1>2, TimeInvHolds, PTL DEF DebouncedOncePressed

(* While jiffies is in the window all presses are debounced exactly.       *)
THEOREM ButtonDebounce == InWindow => (Spec => DebounceExact)
<1> SUFFICES ASSUME InWindow PROVE Spec => DebounceExact
  OBVIOUS
<1>1. ASSUME TimeInv, NEW b \in Buttons
      PROVE  /\ Ignore(b) => now - recorded[b] < Debounce
             /\ Record(b) => now - recorded[b] >= Debounce
  <2>0. Near
    BY Numbers DEF InWindow, Near
  <2>1. CASE recorded[b] >= 0
    <3>1. Bounce(b) <=> now - recorded[b] < Debounce
      BY <1>1, <2>0, <2>1, BounceAfterPress
    <3>2. now - recorded[b] \in Int
      BY <1>1 DEF TimeInv
    <3> QED
      BY <3>1, <3>2, Numbers DEF Ignore, Record
  <2>2. CASE recorded[b] < 0
    BY <1>1, <2>2, NoBounceBeforePress DEF Ignore
  <2>3. recorded[b] \in Int
    BY <1>1 DEF TimeInv
  <2> QED
    BY <2>1, <2>2, <2>3
<1>2. TimeInv => [\A b \in Buttons :
                   /\ Ignore(b) => now - recorded[b] < Debounce
                   /\ Record(b) => now - recorded[b] >= Debounce]_vars
  BY <1>1
<1> QED
  BY <1>2, TimeInvHolds, PTL DEF DebounceExact
=============================================================================
