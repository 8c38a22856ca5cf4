----------------------------- MODULE GuessGame -----------------------------
(***************************************************************************)
(* lab7: game.c keeps a number and answers each SIGUSR1 by comparing it    *)
(* with the guess in shared memory; guess.c searches for the number, one   *)
(* guess with each SIGALRM of a timer of one second.  Nothing but this     *)
(* second keeps the two processes in step.                                 *)
(***************************************************************************)
EXTENDS Integers

CONSTANTS
  Answers, \* the numbers game.c may be started with
  Upper,   \* the upper bound guess.c is started with
  MaxInt,  \* the largest int
  MaxRuns  \* bound: how often guess.c is started

ASSUME GuessAssumption ==
  /\ Upper \in Nat \ {0} /\ MaxInt \in Nat /\ Upper <= MaxInt
  /\ Answers \subseteq Int
  /\ MaxRuns \in Nat

VARIABLES
  answer,            \* the number of game.c
  game,              \* game.c: "pause", "eq", "gt", "lt" (its handler), "gone"
  pending,           \* SIGUSR1 is pending for game.c
  guess, result,     \* the shared memory
  pc,                \* guess.c: "off", "check" (!end_flag), "going", "paused",
                     \* "bingo", "smaller", "bigger", "send" (its handler), "done"
  after,             \* where its handler returns to
  left, right, mid, end_flag,
  runs,              \* how often guess.c has been started (bound)
  updates,           \* how often this run has moved a bound (history, up to
                     \* Upper)
  late               \* an alarm of this run has come before the answer to its
                     \* last guess, or game.c has ended (history)

gameVars  == <<answer, game>>
searchVars == <<left, right, mid, end_flag, updates>>
vars == <<answer, game, pending, guess, result, pc, after, left, right, mid,
          end_flag, runs, updates, late>>

(* int addition, which wraps, and int division, which truncates. *)
Plus(a, b) == IF a + b > MaxInt THEN a + b - 2 * (MaxInt + 1) ELSE a + b
Half(x)    == IF x >= 0 THEN x \div 2 ELSE -((-x) \div 2)
Middle(l, r) == Half(Plus(l, r))

(* game.c waits, its result "first guess"; guess.c has not been started. *)
Init ==
  /\ answer \in Answers
  /\ game = "pause"
  /\ pending = FALSE
  /\ guess = 0
  /\ result = "first"
  /\ pc = "off"
  /\ after = "check"
  /\ left = 1 /\ right = 0 /\ mid = 0
  /\ end_flag = FALSE
  /\ runs = 0
  /\ updates = 0
  /\ late = FALSE
-----------------------------------------------------------------------------
(* The answer to the last guess is there. *)
Settled == game = "pause" /\ ~pending

(* guess.c starts: its first guess, the result " ", and the timer. *)
Start ==
  /\ pc \in {"off", "done"}
  /\ runs < MaxRuns
  /\ game # "gone"
  /\ late' = ~Settled
  /\ runs' = runs + 1
  /\ left' = 1
  /\ right' = Upper
  /\ mid' = Middle(1, Upper)
  /\ end_flag' = FALSE
  /\ updates' = 0
  /\ guess' = mid'
  /\ result' = "empty"
  /\ pending' = TRUE
  /\ pc' = "check"
  /\ UNCHANGED <<gameVars, after>>

Goto(from, to) == pc = from /\ pc' = to

(* while(!end_flag) ... *)
Check ==
  /\ \/ Goto("check", "done") /\ end_flag
     \/ Goto("check", "going") /\ ~end_flag
  /\ UNCHANGED <<gameVars, pending, guess, result, after, searchVars, runs, late>>

(* ... pause(). *)
Pause ==
  /\ Goto("going", "paused")
  /\ UNCHANGED <<gameVars, pending, guess, result, after, searchVars, runs, late>>

(* SIGALRM.  When it comes before the process is in pause(), its handler   *)
(* does not end the pause().                                               *)
Alarm ==
  /\ \/ Goto("going", "bingo") /\ after' = "going"
     \/ Goto("paused", "bingo") /\ after' = "check"
  /\ late' = (late \/ ~Settled)
  /\ UNCHANGED <<gameVars, pending, guess, result, searchVars, runs>>

(* One more update of a bound, counted up to Upper. *)
Counted(text) ==
  IF result = text /\ updates < Upper THEN updates + 1 ELSE updates

(* Mutant of Bingo: strcmp() is taken for an equality. *)
BingoInverted ==
  /\ pc = "bingo"
  /\ pc' = IF result # "bingo" THEN after ELSE "smaller"
  /\ end_flag' = (end_flag \/ result # "bingo")
  /\ UNCHANGED <<gameVars, pending, guess, result, after, left, right, mid,
                 runs, updates, late>>

(* timer_handler, one strcmp() on the shared result after the other. *)
Bingo ==
  /\ pc = "bingo"
  /\ pc' = IF result = "bingo" THEN after ELSE "smaller"
  /\ end_flag' = (end_flag \/ result = "bingo")
  /\ UNCHANGED <<gameVars, pending, guess, result, after, left, right, mid,
                 runs, updates, late>>

(* Mutant of Smaller: the guess itself stays in the range. *)
SmallerKeepsMid ==
  /\ Goto("smaller", "bigger")
  /\ right' = IF result = "smaller" THEN mid ELSE right
  /\ updates' = Counted("smaller")
  /\ UNCHANGED <<gameVars, pending, guess, result, after, left, mid, end_flag,
                 runs, late>>

Smaller ==
  /\ Goto("smaller", "bigger")
  /\ right' = IF result = "smaller" THEN mid - 1 ELSE right
  /\ updates' = Counted("smaller")
  /\ UNCHANGED <<gameVars, pending, guess, result, after, left, mid, end_flag,
                 runs, late>>

(* Mutant of Bigger: the bound is moved one too far. *)
BiggerSkipsOne ==
  /\ Goto("bigger", "send")
  /\ left' = IF result = "bigger" THEN mid + 2 ELSE left
  /\ updates' = Counted("bigger")
  /\ UNCHANGED <<gameVars, pending, guess, result, after, right, mid, end_flag,
                 runs, late>>

Bigger ==
  /\ Goto("bigger", "send")
  /\ left' = IF result = "bigger" THEN mid + 1 ELSE left
  /\ updates' = Counted("bigger")
  /\ UNCHANGED <<gameVars, pending, guess, result, after, right, mid, end_flag,
                 runs, late>>

(* The next guess, and kill(pid, SIGUSR1). *)
SendGuess ==
  /\ Goto("send", after)
  /\ mid' = Middle(left, right)
  /\ guess' = mid'
  /\ pending' = (game # "gone")
  /\ UNCHANGED <<gameVars, result, after, left, right, end_flag, runs, updates,
                 late>>

(* guess.c is stopped from its terminal. *)
Interrupt ==
  /\ pc \notin {"off", "done"}
  /\ pc' = "off"
  /\ UNCHANGED <<gameVars, pending, guess, result, after, searchVars, runs, late>>
-----------------------------------------------------------------------------
(* sigusr1_handler, one look at the shared guess after the other. *)
Called ==
  /\ game = "pause" /\ pending
  /\ game' = "eq"
  /\ pending' = FALSE
  /\ UNCHANGED <<answer, guess, result, pc, after, searchVars, runs, late>>

Compare(from, to, holds, text) ==
  /\ game = from
  /\ game' = to
  /\ result' = IF holds THEN text ELSE result
  /\ UNCHANGED <<answer, pending, guess, pc, after, searchVars, runs, late>>

(* Mutant of CompareEqual: the branch says nothing. *)
CompareEqualSilent == Compare("eq", "gt", guess = answer, result)

CompareEqual   == Compare("eq", "gt", guess = answer, "bingo")
CompareGreater == Compare("gt", "lt", guess > answer, "smaller")
CompareLess    == Compare("lt", "pause", guess < answer, "bigger")

(* Ctrl + C: the shared memory stays with guess.c until it ends. *)
Quit ==
  /\ game # "gone"
  /\ game' = "gone"
  /\ pending' = FALSE
  /\ late' = TRUE
  /\ UNCHANGED <<answer, guess, result, pc, after, searchVars, runs>>
-----------------------------------------------------------------------------
Handler == Bingo \/ Smaller \/ Bigger \/ SendGuess
Game == Called \/ CompareEqual \/ CompareGreater \/ CompareLess

Next ==
  Start \/ Check \/ Pause \/ Alarm \/ Handler \/ Interrupt \/ Game \/ Quit

Spec == Init /\ [][Next]_vars

(* Both processes are scheduled, the timer goes on, and a handler is over  *)
(* before the next second is, so that the loop gets to pause().            *)
FairSpec ==
  /\ Spec
  /\ WF_vars(Check) /\ SF_vars(Pause) /\ SF_vars(Alarm)
  /\ WF_vars(Handler) /\ WF_vars(Game)
-----------------------------------------------------------------------------
Searching == pc \notin {"off", "done"}

TypeOK ==
  /\ answer \in Answers
  /\ game \in {"pause", "eq", "gt", "lt", "gone"}
  /\ pending \in BOOLEAN
  /\ guess \in Int
  /\ result \in {"first", "empty", "bingo", "smaller", "bigger"}
  /\ pc \in {"off", "check", "going", "paused", "bingo", "smaller", "bigger",
             "send", "done"}
  /\ after \in {"check", "going"}
  /\ left \in Int /\ right \in Int /\ mid \in Int
  /\ end_flag \in BOOLEAN
  /\ runs \in 0 .. MaxRuns
  /\ updates \in Nat
  /\ late \in BOOLEAN

(* "Update the bounds" (guess.c, line 34): as long as every answer has     *)
(* come within its second, what is left of the range holds the number.     *)
AnswerInRange == Searching /\ ~late => left <= answer /\ answer <= right

(* 2^n. *)
Pow2(n) ==
  LET power[k \in 0 .. n] == IF k = 0 THEN 1 ELSE 2 * power[k - 1]
  IN  power[n]

(* Each answer in time halves the range (lines 34-45): after n of them at  *)
(* most Upper / 2^n numbers are left, so that the search takes log2 steps. *)
RangeHalves ==
  Searching /\ ~late => (right - left + 1) * Pow2(updates) <= Upper

(* A search with answers in time ends on the number only (guess.c, lines   *)
(* 28-32).                                                                 *)
EndsOnAnswer == pc = "done" /\ ~late => guess = answer

(* However late the answers are, and also when there are none any more,    *)
(* the bounds stay around 1 .. Upper, so that their sum (line 45) fits.    *)
BoundsStay ==
  Searching => /\ left \in 1 .. Upper + 1 /\ right \in -1 .. Upper
               /\ mid \in 0 .. Upper

(* "Wait for guesses to complete" (guess.c, line 83): unless it is stopped *)
(* or an answer is late, the search ends, although the loop may miss the   *)
(* signal that ends it.                                                    *)
GuessesComplete == pc = "check" ~> (pc \in {"done", "off"} \/ late)
=============================================================================
