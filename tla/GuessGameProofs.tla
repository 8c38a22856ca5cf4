-------------------------- MODULE GuessGameProofs --------------------------
(***************************************************************************)
(* For every upper bound and every number: a search whose guesses are      *)
(* answered within the second keeps the number in its range and ends on it *)
(* only; and one whose answers are late, or missing, stays around its      *)
(* range all the same. Each answer in time halves the range.               *)
(***************************************************************************)
EXTENDS GuessGame, WellFoundedInduction, TLAPS

(* What sigusr1_handler leaves in the shared memory. *)
Verdict ==
  IF guess = answer THEN "bingo"
  ELSE IF guess > answer THEN "smaller" ELSE "bigger"

(* The bounds, as far as the handler has come. *)
Range ==
  Searching /\ ~late => 1 <= left /\ left <= answer /\ answer <= right /\ right <= Upper

(* The guess is the middle of the bounds until one of them is moved. *)
Guessed ==
  ~late /\ pc \in {"check", "going", "paused", "bingo", "smaller", "bigger"} =>
    /\ guess = mid /\ left <= mid /\ mid <= Upper
    /\ \/ mid <= right
       \/ pc = "bigger" /\ result = "smaller"

(* While the timer's handler runs, game.c waits. *)
Quiet ==
  ~late =>
    /\ game # "gone"
    /\ pc \in {"bingo", "smaller", "bigger", "send"} => Settled

(* A settled result is the verdict on the guess; an unsettled one is on    *)
(* the way to it.                                                          *)
Answered ==
  Searching /\ ~late =>
    /\ pc # "send" /\ Settled => result = Verdict
    /\ game \in {"gt", "lt"} /\ guess = answer => result = "bingo"
    /\ game = "lt" /\ guess > answer => result = "smaller"
    /\ pc \in {"smaller", "bigger"} => result # "bingo"

(* After a bingo nothing is guessed any more. *)
Ended ==
  /\ Searching /\ ~late /\ end_flag =>
       /\ guess = answer /\ Settled
       /\ pc \in {"check", "going", "paused", "bingo"}
  /\ EndsOnAnswer

IInv == TypeOK /\ Range /\ Guessed /\ Quiet /\ Answered /\ Ended

(* The number can be found, and the sum of two bounds fits in an int. *)
Playable ==
  /\ Answers \subseteq 1 .. Upper
  /\ 2 * Upper <= MaxInt

(* (left + right) / 2 lies between left and right (lines 45, 63).          *)
LEMMA MiddleBetween ==
  ASSUME NEW l \in Int, NEW r \in Int, 1 <= l, l <= r, r <= Upper,
         2 * Upper <= MaxInt
  PROVE  /\ Middle(l, r) \in Int
         /\ l <= Middle(l, r) /\ Middle(l, r) <= r
  BY GuessAssumption DEF Middle, Plus, Half

(* Overflow or not, the sum of two ints is an int, and so is its half.     *)
LEMMA MiddleInt ==
  ASSUME NEW l \in Int, NEW r \in Int PROVE Middle(l, r) \in Int
<1>1. Plus(l, r) \in Int
  BY GuessAssumption DEF Plus
<1> QED
  BY <1>1 DEF Middle, Half

(* Nothing runs, and the first bounds are the whole range.                 *)
LEMMA InitInv == ASSUME Playable PROVE Init => IInv
<1> SUFFICES ASSUME Init PROVE IInv
  OBVIOUS
<1>1. pending \in BOOLEAN /\ end_flag \in BOOLEAN /\ late \in BOOLEAN
  BY Zenon DEF Init
<1>2. TypeOK
  BY <1>1, GuessAssumption DEF Init, TypeOK
<1> QED
  BY <1>2 DEF Init, IInv, Range, Guessed, Quiet, Answered, Ended,
              EndsOnAnswer, Searching, Settled

(* Every step of the two processes keeps the invariant.                    *)
LEMMA NextInv ==
  ASSUME Playable, IInv, [Next]_vars
  PROVE  IInv'
<1> USE GuessAssumption
    DEF Playable, IInv, TypeOK, Range, Guessed, Quiet, Answered, Ended,
        EndsOnAnswer, Searching, Settled, Verdict, gameVars, searchVars
<1>1. CASE Start
  <2>1. /\ mid' \in Int /\ 1 <= mid' /\ mid' <= Upper
    BY <1>1, MiddleBetween DEF Start
  <2>2. TypeOK'
    <3>1. pending' \in BOOLEAN /\ end_flag' \in BOOLEAN
      BY <1>1, Zenon DEF Start
    <3>2. runs' \in 0 .. MaxRuns
      BY <1>1 DEF Start
    <3> QED
      BY <1>1, <2>1, <3>1, <3>2 DEF Start
  <2>3. Range' /\ Guessed'
    BY <1>1, <2>1 DEF Start
  <2>4. Quiet' /\ Answered' /\ Ended'
    BY <1>1, <2>1 DEF Start
  <2> QED
    BY <2>2, <2>3, <2>4
<1>2. CASE Check
  BY <1>2 DEF Check, Goto
<1>3. CASE Pause
  BY <1>3 DEF Pause, Goto
<1>4. CASE Alarm
  BY <1>4 DEF Alarm, Goto
<1>5. CASE Bingo
  BY <1>5 DEF Bingo
<1>6. CASE Smaller
  BY <1>6 DEF Smaller, Goto, Counted
<1>7. CASE Bigger
  BY <1>7 DEF Bigger, Goto, Counted
<1>8. CASE SendGuess
  <2>1. mid' \in Int /\ (~late => left <= mid' /\ mid' <= right)
    <3>1. mid' = Middle(left, right) /\ pc = "send"
      BY <1>8 DEF SendGuess, Goto
    <3>2. mid' \in Int
      BY <3>1, MiddleInt
    <3>3. ASSUME ~late PROVE left <= mid' /\ mid' <= right
      BY <3>1, <3>3, MiddleBetween
    <3> QED
      BY <3>2, <3>3
  <2>2. TypeOK'
    BY <1>8, <2>1 DEF SendGuess, Goto
  <2>3. Range' /\ Guessed'
    BY <1>8, <2>1 DEF SendGuess, Goto
  <2>4. Quiet' /\ Answered' /\ Ended'
    BY <1>8, <2>1 DEF SendGuess, Goto
  <2> QED
    BY <2>2, <2>3, <2>4
<1>9. CASE Interrupt
  BY <1>9 DEF Interrupt
<1>10. CASE Called
  BY <1>10 DEF Called
<1>11. CASE CompareEqual
  BY <1>11 DEF CompareEqual, Compare
<1>12. CASE CompareGreater
  BY <1>12 DEF CompareGreater, Compare
<1>13. CASE CompareLess
  BY <1>13 DEF CompareLess, Compare
<1>14. CASE Quit
  BY <1>14 DEF Quit
<1>15. CASE UNCHANGED vars
  BY <1>15 DEF vars
<1> QED
  BY <1>1, <1>2, <1>3, <1>4, <1>5, <1>6, <1>7, <1>8, <1>9, <1>10, <1>11,
     <1>12, <1>13, <1>14, <1>15
     DEF Next, Handler, Game

(* The invariant of the two processes, in step or not.                     *)
THEOREM GuessInvariant == ASSUME Playable PROVE Spec => []IInv
  BY InitInv, NextInv, PTL DEF Spec

(* Bounds that are moved by answers in time never lose the number.         *)
THEOREM GuessAnswerInRange == ASSUME Playable PROVE Spec => []AnswerInRange
<1>1. IInv => AnswerInRange
  BY DEF IInv, Range, AnswerInRange
<1> QED
  BY <1>1, GuessInvariant, PTL

(* A search that ends has found the number.                                *)
THEOREM GuessEndsOnAnswer == ASSUME Playable PROVE Spec => []EndsOnAnswer
<1>1. IInv => EndsOnAnswer
  BY DEF IInv, Ended
<1> QED
  BY <1>1, GuessInvariant, PTL
-----------------------------------------------------------------------------
(* The bounds of a search whose answers may be late or missing. *)
LooseBounds ==
  /\ BoundsStay
  /\ left \in Int /\ right \in Int /\ mid \in Int

(* The middle of bounds around the range is in the range again (line 45).  *)
LEMMA MiddleAround ==
  ASSUME NEW l \in 1 .. Upper + 1, NEW r \in -1 .. Upper,
         2 * Upper < MaxInt
  PROVE  Middle(l, r) \in 0 .. Upper
  BY GuessAssumption DEF Middle, Plus, Half

(* No guess leaves 0 .. Upper and the sum of the bounds never overflows,   *)
(* in whatever order the two processes run.                                *)
THEOREM GuessBoundsStay ==
  ASSUME 2 * Upper < MaxInt PROVE Spec => []BoundsStay
<1> USE GuessAssumption DEF LooseBounds, BoundsStay, Searching
<1>1. Init => LooseBounds
  BY DEF Init
<1>2. ASSUME LooseBounds, [Next]_vars
      PROVE  LooseBounds'
  <2>1. CASE Start
    BY <1>2, <2>1, MiddleAround DEF Start
  <2>2. CASE Smaller
    BY <1>2, <2>2 DEF Smaller, Goto
  <2>3. CASE Bigger
    BY <1>2, <2>3 DEF Bigger, Goto
  <2>4. CASE SendGuess
    <3>1. mid' \in 0 .. Upper
      BY <1>2, <2>4, MiddleAround DEF SendGuess, Goto
    <3> QED
      BY <1>2, <2>4, <3>1 DEF SendGuess, Goto
  <2>5. CASE UNCHANGED <<left, right, mid>> /\ (Searching' => Searching)
    BY <1>2, <2>5
  <2> QED
    BY <1>2, <2>1, <2>2, <2>3, <2>4, <2>5
       DEF Next, vars, Handler, Game, Check, Pause, Alarm, Bingo, Interrupt,
           Called, CompareEqual, CompareGreater, CompareLess, Compare, Quit,
           Goto, searchVars
<1>3. LooseBounds => BoundsStay
  OBVIOUS
<1> QED
  BY <1>1, <1>2, <1>3, PTL DEF Spec
-----------------------------------------------------------------------------
(* Induction over the natural numbers, for a set of them. *)
LEMMA SetInduction ==
  ASSUME NEW E, 0 \in E, \A n \in Nat : n \in E => n + 1 \in E
  PROVE  Nat \subseteq E
<1> DEFINE T == Nat \ E
<1> SUFFICES ASSUME T # {} PROVE FALSE
  OBVIOUS
<1>1. PICK x \in T : \A y \in T : ~ (<<y, x>> \in OpToRel(<, Nat))
  BY WFMin, NatLessThanWellFounded
<1>2. x # 0 /\ x \in Nat /\ x - 1 \in Nat /\ x - 1 < x
  OBVIOUS
<1>3. x - 1 \in T
  BY <1>2
<1>4. <<x - 1, x>> \in OpToRel(<, Nat)
  BY <1>2 DEF OpToRel
<1> QED
  BY <1>1, <1>3, <1>4

PowerStep(g, k) == IF k = 0 THEN 1 ELSE 2 * g[k - 1]

Power(n) == CHOOSE g : g = [k \in 0 .. n |-> PowerStep(g, k)]

LEMMA PowIs == \A n : Pow2(n) = Power(n)[n]
  BY Zenon DEF Pow2, Power, PowerStep

(* The recursive function exists, so that it obeys its equation.           *)
LEMMA PowerIs ==
  ASSUME NEW n \in Nat
  PROVE  Power(n) = [k \in 0 .. n |-> PowerStep(Power(n), k)]
<1> DEFINE E == {m \in Nat : \E g : g = [k \in 0 .. m |-> PowerStep(g, k)]}
<1>1. 0 \in E
  <2> DEFINE g == [k \in 0 .. 0 |-> 1]
  <2>1. g = [k \in 0 .. 0 |-> PowerStep(g, k)]
    BY DEF PowerStep
  <2> QED
    BY <2>1
<1>2. ASSUME NEW m \in Nat, m \in E
      PROVE  m + 1 \in E
  <2>1. PICK g : g = [k \in 0 .. m |-> PowerStep(g, k)]
    BY <1>2
  <2> DEFINE h == [k \in 0 .. m + 1 |-> PowerStep(g, k)]
  <2>2. \A k \in 0 .. m : h[k] = g[k]
    <3> HIDE DEF E
    <3> SUFFICES ASSUME NEW k \in 0 .. m PROVE h[k] = g[k]
      OBVIOUS
    <3>1. h[k] = PowerStep(g, k)
      OBVIOUS
    <3>2. g[k] = PowerStep(g, k)
      BY <2>1, Zenon
    <3> QED
      BY <3>1, <3>2
  <2>3. \A k \in 0 .. m + 1 : PowerStep(g, k) = PowerStep(h, k)
    <3> HIDE DEF h, E
    <3> QED
      BY <2>2 DEF PowerStep
  <2>4. h = [k \in 0 .. m + 1 |-> PowerStep(h, k)]
    BY <2>3
  <2>5. \E f : f = [k \in 0 .. m + 1 |-> PowerStep(f, k)]
    <3> HIDE DEF h
    <3> QED
      BY <2>4
  <2> QED
    BY <2>5
<1>3. n \in E
  <2> HIDE DEF E
  <2> QED
    BY <1>1, <1>2, SetInduction
<1> QED
  BY <1>3, Zenon DEF Power

LEMMA PowerAt ==
  ASSUME NEW n \in Nat, NEW k \in 0 .. n
  PROVE  Power(n)[k] = IF k = 0 THEN 1 ELSE 2 * Power(n)[k - 1]
<1> DEFINE p == Power(n)
<1>1. p = [j \in 0 .. n |-> PowerStep(p, j)]
  BY PowerIs
<1> HIDE DEF p
<1>2. p[k] = PowerStep(p, k)
  BY <1>1, Zenon
<1> QED
  BY <1>2 DEF p, PowerStep

(* A longer table of powers begins with the shorter one.                   *)
LEMMA PowerPrefix ==
  ASSUME NEW n \in Nat, NEW k \in 0 .. n
  PROVE  Power(n + 1)[k] = Power(n)[k]
<1> DEFINE E == {j \in Nat : j <= n => Power(n + 1)[j] = Power(n)[j]}
<1>1. 0 \in E
  BY PowerAt
<1>2. ASSUME NEW j \in Nat, j \in E PROVE j + 1 \in E
  <2> SUFFICES ASSUME j + 1 <= n PROVE Power(n + 1)[j + 1] = Power(n)[j + 1]
    OBVIOUS
  <2>1. /\ j + 1 \in 0 .. n /\ j + 1 \in 0 .. n + 1 /\ n + 1 \in Nat /\ j + 1 # 0
        /\ j + 1 - 1 = j
    OBVIOUS
  <2>2. Power(n + 1)[j + 1] = 2 * Power(n + 1)[j]
    BY <2>1, PowerAt
  <2>3. Power(n)[j + 1] = 2 * Power(n)[j]
    BY <2>1, PowerAt
  <2>4. Power(n + 1)[j] = Power(n)[j]
    BY <1>2
  <2> QED
    BY <2>2, <2>3, <2>4
<1> HIDE DEF E
<1>3. k \in E
  BY <1>1, <1>2, SetInduction
<1> QED
  BY <1>3 DEF E

(* The powers of two, one after the other.                                 *)
LEMMA PowersOfTwo ==
  /\ Pow2(0) = 1
  /\ \A n \in Nat : Pow2(n + 1) = 2 * Pow2(n) /\ Pow2(n) \in Nat \ {0}
<1>1. Pow2(0) = 1
  BY PowIs, PowerAt
<1>2. ASSUME NEW n \in Nat PROVE Pow2(n + 1) = 2 * Pow2(n)
  <2>1. Power(n + 1)[n + 1] = 2 * Power(n + 1)[n]
    <3>1. n + 1 \in Nat /\ n + 1 \in 0 .. n + 1 /\ n + 1 # 0 /\ n + 1 - 1 = n
      OBVIOUS
    <3> QED
      BY <3>1, PowerAt
  <2>2. Power(n + 1)[n] = Power(n)[n]
    BY PowerPrefix
  <2> QED
    BY <2>1, <2>2, PowIs
<1> DEFINE E == {n \in Nat : Pow2(n) \in Nat \ {0}}
<1>3. 0 \in E
  BY <1>1
<1>4. \A n \in Nat : n \in E => n + 1 \in E
  BY <1>2
<1> HIDE DEF E
<1>5. Nat \subseteq E
  BY <1>3, <1>4, SetInduction
<1> QED
  BY <1>1, <1>2, <1>5 DEF E

(* While the bounds are those of the guess, it is their middle.            *)
Middling ==
  /\ Searching /\ ~late => (right - left + 1) * Pow2(updates) <= Upper
  /\ ~late /\ (pc \in {"check", "going", "paused", "bingo", "smaller"}
               \/ (pc = "bigger" /\ result # "smaller")) =>
       mid = Middle(left, right)

(* Half of the numbers are left of the middle, and half are right of it.   *)
LEMMA MiddleHalves ==
  ASSUME NEW l \in Int, NEW r \in Int, 1 <= l, l <= r, r <= Upper,
         2 * Upper <= MaxInt
  PROVE  /\ 2 * (Middle(l, r) - l) <= r - l + 1
         /\ 2 * (r - Middle(l, r)) <= r - l + 1
  BY GuessAssumption DEF Middle, Plus, Half

(* So that twice as much fits into what there was.                         *)
LEMMA HalvesCount ==
  ASSUME NEW x \in Int, NEW s \in Int, NEW u \in Nat, 2 * x <= s, x <= s,
         s * Pow2(u) <= Upper
  PROVE  x * Pow2(u + 1) <= Upper /\ x * Pow2(u) <= Upper
<1> DEFINE p == Pow2(u)
<1>1. p \in Nat /\ Pow2(u + 1) = 2 * p /\ s * p <= Upper
  BY PowersOfTwo
<1> HIDE DEF p
<1>2. (2 * x) * p <= s * p /\ x * p <= s * p
  BY <1>1
<1>3. x * (2 * p) = (2 * x) * p
  BY <1>1
<1>4. Upper \in Int /\ (2 * x) * p \in Int /\ s * p \in Int /\ x * p \in Int
  BY <1>1, GuessAssumption
<1> QED
  BY <1>1, <1>2, <1>3, <1>4 DEF p

LEMMA MiddlingNext ==
  ASSUME Playable, IInv, Middling, [Next]_vars
  PROVE  Middling'
<1> USE DEF Middling, Searching
<1>1. CASE Start
  <2>1. /\ left' = 1 /\ right' = Upper /\ updates' = 0 /\ mid' = Middle(1, Upper)
        /\ pc' = "check"
    BY <1>1 DEF Start
  <2>2. (Upper - 1 + 1) * 1 <= Upper
    BY GuessAssumption
  <2> QED
    BY <2>1, <2>2, PowersOfTwo
<1>2. CASE Smaller
  <2>1. /\ pc = "smaller" /\ pc' = "bigger" /\ right' = IF result = "smaller" THEN mid - 1 ELSE right
        /\ updates' = Counted("smaller") /\ UNCHANGED <<left, mid, result, late>>
    BY <1>2 DEF Smaller, Goto
  <2>2. CASE late \/ result # "smaller"
    BY <2>1, <2>2 DEF Counted
  <2>3. CASE ~late /\ result = "smaller"
    <3>1. /\ left \in Int /\ right \in Int /\ 1 <= left /\ left <= right /\ right <= Upper
          /\ updates \in Nat /\ mid \in Int /\ mid = Middle(left, right)
          /\ (right - left + 1) * Pow2(updates) <= Upper
      BY <2>1, <2>3, GuessAssumption DEF IInv, TypeOK, Range, Playable
    <3>2. 2 * (mid - left) <= right - left + 1 /\ mid - left <= right - left + 1
      BY <3>1, MiddleHalves, MiddleBetween DEF Playable
    <3>3. /\ (mid - left) * Pow2(updates + 1) <= Upper
          /\ (mid - left) * Pow2(updates) <= Upper
      BY <3>1, <3>2, HalvesCount
    <3>4. right' - left' + 1 = mid - left /\ updates' \in {updates, updates + 1}
      BY <2>1, <2>3, <3>1 DEF Counted
    <3> QED
      BY <2>1, <2>3, <3>3, <3>4
  <2> QED
    BY <2>2, <2>3
<1>3. CASE Bigger
  <2>1. /\ pc = "bigger" /\ pc' = "send" /\ left' = IF result = "bigger" THEN mid + 1 ELSE left
        /\ updates' = Counted("bigger") /\ UNCHANGED <<right, mid, result, late>>
    BY <1>3 DEF Bigger, Goto
  <2>2. CASE late \/ result # "bigger"
    BY <2>1, <2>2 DEF Counted
  <2>3. CASE ~late /\ result = "bigger"
    <3>1. /\ left \in Int /\ right \in Int /\ 1 <= left /\ left <= right /\ right <= Upper
          /\ updates \in Nat /\ mid \in Int /\ mid = Middle(left, right)
          /\ (right - left + 1) * Pow2(updates) <= Upper
      BY <2>1, <2>3, GuessAssumption DEF IInv, TypeOK, Range, Playable
    <3>2. 2 * (right - mid) <= right - left + 1 /\ right - mid <= right - left + 1
      BY <3>1, MiddleHalves, MiddleBetween DEF Playable
    <3>3. /\ (right - mid) * Pow2(updates + 1) <= Upper
          /\ (right - mid) * Pow2(updates) <= Upper
      BY <3>1, <3>2, HalvesCount
    <3>4. right' - left' + 1 = right - mid /\ updates' \in {updates, updates + 1}
      BY <2>1, <2>3, <3>1 DEF Counted
    <3> QED
      BY <2>1, <2>3, <3>3, <3>4
  <2> QED
    BY <2>2, <2>3
<1>4. CASE SendGuess
  BY <1>4 DEF SendGuess, Goto
<1>5. CASE Bingo
  BY <1>5 DEF Bingo
<1>6. CASE Check \/ Pause \/ Alarm \/ Interrupt
  BY <1>6 DEF Check, Pause, Alarm, Interrupt, Goto, searchVars
<1>7. CASE Game
  BY <1>7 DEF Game, Called, CompareEqual, CompareGreater, CompareLess, Compare,
              searchVars, IInv, Quiet, Settled
<1>8. CASE Quit
  BY <1>8 DEF Quit
<1>9. CASE UNCHANGED vars
  BY <1>9 DEF vars
<1> QED
  BY <1>1, <1>2, <1>3, <1>4, <1>5, <1>6, <1>7, <1>8, <1>9 DEF Next, Handler

(* Every answer in time halves what is left, for every bound and number.   *)
THEOREM GuessRangeHalves == ASSUME Playable PROVE Spec => []RangeHalves
<1>1. Init => Middling
  BY DEF Init, Middling, Searching
<1>2. Middling => RangeHalves
  BY DEF Middling, RangeHalves
<1> QED
  BY <1>1, <1>2, MiddlingNext, GuessInvariant, PTL DEF Spec
=============================================================================
