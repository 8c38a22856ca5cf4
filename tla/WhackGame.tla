----------------------------- MODULE WhackGame -----------------------------
(***************************************************************************)
(* The rules of the whack-a-mole round, as the players understand them:    *)
(* one shared board, one clock, one score per player.  Every action is     *)
(* atomic here; GameRound shows that the threads, signal handlers and the  *)
(* mutex of Final_server.c implement exactly these actions.                *)
(***************************************************************************)
EXTENDS Integers

CONSTANTS
  diglett_num,   \* holes on the board (5 in the source)
  MAX_PLAYER,    \* players in a round (3 in the source)
  GAMETIME       \* seconds on the clock when the round starts (20)

VARIABLES
  board,     \* game.diglett: 0 empty, 1 mole, 2 super mole, -1 bomb
  score,     \* game.point
  clock,     \* game.time
  playing    \* game.nowPlaying

gvars == <<board, score, clock, playing>>

Hole   == 0 .. diglett_num - 1
Player == 0 .. MAX_PLAYER - 1
NoMole == [h \in Hole |-> 0]

(***************************************************************************)
(* What a board may show.  A normal second has one mole, worth 1 or 2, and *)
(* at most one bomb, in a neighbouring hole.  The last second has two or   *)
(* more ordinary moles and no bomb.  At zero the board is empty.           *)
(***************************************************************************)
NormalBoard(b) ==
  \E m \in Hole, v \in {1, 2} :
    /\ b[m] = v
    /\ \A h \in Hole \ {m} : b[h] \in {0, -1}
    /\ \A h \in Hole : b[h] = -1 => h - m \in {1, -1}
    /\ \A g, h \in Hole : b[g] = -1 /\ b[h] = -1 => g = h

FinalBoard(b) ==
  /\ \A h \in Hole : b[h] \in {0, 1}
  /\ \E g, h \in Hole : g # h /\ b[g] = 1 /\ b[h] = 1

LegalBoard(b, t) ==
  /\ b \in [Hole -> {-1, 0, 1, 2}]
  /\ t = 0 => b = NoMole
  /\ t = 1 => FinalBoard(b)
  /\ t \notin {0, 1} => NormalBoard(b)

(* Before the round: full clock, empty board, no points. *)
Init ==
  /\ board = NoMole
  /\ score = [p \in Player |-> 0]
  /\ clock = GAMETIME
  /\ playing = FALSE

Start ==
  /\ ~playing
  /\ playing' = TRUE
  /\ UNCHANGED <<board, score, clock>>

(* A second passes: whatever was on the board disappears uncollected. *)
Tick ==
  /\ playing
  /\ clock' = clock - 1
  /\ board' = NoMole
  /\ UNCHANGED <<score, playing>>

(* The moles of the new second come up, on an empty board only. *)
Pop ==
  /\ playing
  /\ board = NoMole
  /\ LegalBoard(board', clock)
  /\ UNCHANGED <<score, clock, playing>>

(* p hits hole h: the mole leaves the board and p alone gets all of it. *)
Hit(p, h) ==
  /\ board[h] # 0
  /\ score' = [score EXCEPT ![p] = @ + board[h]]
  /\ board' = [board EXCEPT ![h] = 0]
  /\ UNCHANGED <<clock, playing>>

Next ==
  \/ Start
  \/ Tick
  \/ Pop
  \/ \E p \in Player, h \in Hole : Hit(p, h)

Spec == Init /\ [][Next]_gvars
=============================================================================
