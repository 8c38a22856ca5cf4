-------------------------- MODULE GameRoundProofs --------------------------
(***************************************************************************)
(* Proofs about GameRound, for any number of holes and players and any     *)
(* choice of the threads that SIGVTALRM may interrupt; and, where the      *)
(* views begin, about what the clients have been shown of it.              *)
(***************************************************************************)
EXTENDS GameRound, SequenceTheorems, TLAPS

(* The states of a thread's own code in which it holds the mutex. *)
Inside == {"startCS", "score", "clear", "refuse"}

(* Who is inside a critical section owns the mutex, and a handler never    *)
(* runs its critical section on top of the one it has interrupted.         *)
OwnerInside ==
  \A t \in Thread :
    /\ pc[t] \in Inside => mutex = t
    /\ alarm[t] = "place" => mutex = t /\ pc[t] \notin Inside

(* What the critical sections rely on: the mole that is being paid for     *)
(* stays where it is, a handler draws on an empty board, and there is no   *)
(* tick before the start.                                                  *)
Undisturbed ==
  /\ \A p \in Player :
       pc[p] = "clear" => choice[p] \in Hole /\ diglett[choice[p]] # 0
  /\ \A t \in Thread : alarm[t] = "place" => diglett = NoMole
  /\ \A t \in Thread : alarm[t] # "idle" => nowPlaying

IInv == TypeOK /\ OwnerInside /\ Undisturbed

-----------------------------------------------------------------------------
(* The boards timer_handler draws hold one value per hole, for every size. *)
LEMMA NoMoleType == NoMole \in [Hole -> {-1, 0, 1, 2}]
  BY DEF NoMole

LEMMA BoardsType == \A n \in Int : Boards(n) \subseteq [Hole -> {-1, 0, 1, 2}]
  BY NoMoleType DEF Boards, NormalBoards, FinalBoards

LEMMA BombBeside ==
  ASSUME NEW m \in Hole
  PROVE  BombHole(m) \in Hole /\ BombHole(m) # m /\ BombHole(m) - m \in {1, -1}
  BY RoundAssumption DEF BombHole, Hole

(* A drawn second is a legal second of the game. *)
LEMMA NormalBoardsLegal == \A b \in NormalBoards : Game!NormalBoard(b)
<1> SUFFICES ASSUME NEW b \in NormalBoards PROVE Game!NormalBoard(b)
  OBVIOUS
<1> PICK m \in Hole, v \in {1, 2} :
      \/ b = [NoMole EXCEPT ![m] = v]
      \/ b = [[NoMole EXCEPT ![m] = v] EXCEPT ![BombHole(m)] = -1]
  BY DEF NormalBoards
<1>1. b[m] = v /\ \A h \in Hole \ {m} : b[h] = 0 \/ (b[h] = -1 /\ h = BombHole(m))
  BY BombBeside DEF NoMole
<1>2. \A h \in Hole : b[h] = -1 => h = BombHole(m)
  BY <1>1
<1> QED
  BY <1>1, <1>2, BombBeside DEF Game!NormalBoard, Game!Hole, Hole

LEMMA FinalBoardsLegal == \A b \in FinalBoards : Game!FinalBoard(b)
<1> SUFFICES ASSUME NEW b \in FinalBoards PROVE Game!FinalBoard(b)
  OBVIOUS
<1> PICK n \in 2 .. diglett_num, s \in 0 .. diglett_num - 2 :
      b = [h \in Hole |->
             IF \E i \in 0 .. n - 1 : h = FinalHole(s, i) THEN 1 ELSE 0]
  BY DEF FinalBoards
<1>1. /\ FinalHole(s, 0) \in Hole /\ FinalHole(s, 1) \in Hole
      /\ FinalHole(s, 0) # FinalHole(s, 1)
  BY RoundAssumption DEF FinalHole, Hole
<1>2. 0 \in 0 .. n - 1 /\ 1 \in 0 .. n - 1
  OBVIOUS
<1>3. b[FinalHole(s, 0)] = 1 /\ b[FinalHole(s, 1)] = 1
  BY <1>1, <1>2
<1> QED
  BY <1>1, <1>3 DEF Game!FinalBoard, Game!Hole, Hole

LEMMA BoardsLegal ==
  \A n \in Int : \A b \in Boards(n) : Game!LegalBoard(b, n)
  BY BoardsType, NormalBoardsLegal, FinalBoardsLegal
  DEF Boards, Game!LegalBoard, Game!NoMole, Game!Hole, Hole, NoMole
-----------------------------------------------------------------------------
LEMMA Threads ==
  /\ Player \subseteq Thread /\ Main \in Thread /\ Timer \in Thread
  /\ Main \notin Player /\ Timer \notin Player /\ Main # Timer
  /\ Nobody \notin Thread
  /\ Player \subseteq Int /\ MAX_PLAYER \notin Player
  /\ 0 \in 0 .. MAX_PLAYER
  /\ \A i \in Player : i \in 0 .. MAX_PLAYER /\ i + 1 \in 0 .. MAX_PLAYER
  BY RoundAssumption DEF Thread, Player, Main, Timer, Nobody

LEMMA InitInv == Init => IInv
<1> SUFFICES ASSUME Init PROVE IInv
  OBVIOUS
<1>1. TypeOK
  <2>1. /\ diglett \in [Hole -> {-1, 0, 1, 2}]
        /\ point \in [Player -> Int]
        /\ time \in Int
    BY RoundAssumption, NoMoleType DEF Init
  <2>2. /\ pc \in [Thread -> {"spin", "accept", "start"}]
        /\ idx \in [Player -> 0 .. MAX_PLAYER]
        /\ alarm \in [Thread -> {"idle"}]
        /\ alarmIdx \in [Thread -> 0 .. MAX_PLAYER]
    BY Threads DEF Init
  <2>3. /\ choice \in [Player -> Hole \cup {NoHole}]
        /\ conn \in [Player -> {"open"}]
        /\ input \in [Player -> Seq(Hole)]
    BY DEF Init
  <2> QED
    BY <2>1, <2>2, <2>3 DEF Init, TypeOK
<1>2. OwnerInside
  BY Threads DEF Init, OwnerInside, Inside
<1>3. Undisturbed
  BY Threads DEF Init, Undisturbed
<1> QED
  BY <1>1, <1>2, <1>3 DEF IInv

(* What is received and what is left are sequences of holes. *)
LEMMA ChunkType ==
  ASSUME NEW s \in Seq(Hole), NEW k \in 1 .. Len(s)
  PROVE  /\ SubSeq(s, 1, k) \in Seq(Hole) /\ Len(SubSeq(s, 1, k)) = k
         /\ SubSeq(s, k + 1, Len(s)) \in Seq(Hole)
<1>1. Len(s) \in Nat /\ \A i \in 1 .. Len(s) : s[i] \in Hole
  OBVIOUS
<1>2. SubSeq(s, 1, k) \in Seq(Hole) /\ Len(SubSeq(s, 1, k)) = k
  BY <1>1, SubSeqProperties
<1>3. SubSeq(s, k + 1, Len(s)) \in Seq(Hole)
  <2>1. \A i \in k + 1 .. Len(s) : s[i] \in Hole
    BY <1>1
  <2> HIDE DEF Hole
  <2> QED
    BY <1>1, <2>1, SubSeqProperties
<1> QED
  BY <1>2, <1>3

LEMMA ScoreType ==
  ASSUME TypeOK, NEW p \in Player, Score(p)
  PROVE  point' \in [Player -> Int]
<1>1. point \in [Player -> Int] /\ diglett \in [Hole -> {-1, 0, 1, 2}]
  BY DEF TypeOK
<1>2. choice[p] \in Hole /\ point' = [point EXCEPT ![p] = point[p] + diglett[choice[p]]]
  BY DEF Score, Hittable
<1>3. point[p] \in Int /\ diglett[choice[p]] \in {-1, 0, 1, 2}
  BY <1>1, <1>2
<1>4. point[p] + diglett[choice[p]] \in Int
  BY <1>3
<1> QED
  BY <1>1, <1>2, <1>4

(* What a client thread takes from its connection is a hole or no hole.    *)
LEMMA ParseType ==
  ASSUME NEW s \in Seq(Hole), NEW k \in 1 .. Len(s)
  PROVE  Parse(SubSeq(s, 1, k)) \in Hole \cup {NoHole}
<1> DEFINE c == SubSeq(s, 1, k)
<1>1. c \in Seq(Hole) /\ Len(c) = k
  BY ChunkType
<1>2. k \in 1 .. k
  OBVIOUS
<1>3. c[k] \in Hole
  BY <1>1, <1>2
<1> QED
  BY <1>1, <1>3 DEF Parse

LEMMA PollDataType ==
  ASSUME TypeOK, NEW p \in Player, PollData(p)
  PROVE  /\ input' \in [Player -> Seq(Hole)]
         /\ choice' \in [Player -> Hole \cup {NoHole}]
<1>1. input \in [Player -> Seq(Hole)] /\ choice \in [Player -> Hole \cup {NoHole}]
  BY DEF TypeOK
<1> PICK k \in 1 .. Len(input[p]) :
      /\ input' = [input EXCEPT ![p] = SubSeq(input[p], k + 1, Len(input[p]))]
      /\ \/ choice' = [choice EXCEPT ![p] = Parse(SubSeq(input[p], 1, k))]
         \/ choice' = choice
  BY DEF PollData
<1>2. input[p] \in Seq(Hole)
  BY <1>1
<1>3. SubSeq(input[p], k + 1, Len(input[p])) \in Seq(Hole)
  BY <1>2, ChunkType
<1>4. Parse(SubSeq(input[p], 1, k)) \in Hole \cup {NoHole}
  BY <1>2, ParseType
<1> HIDE DEF Hole
<1> QED
  BY <1>1, <1>3, <1>4

LEMMA NextInv == IInv /\ [Next]_vars => IInv'
<1> SUFFICES ASSUME IInv, [Next]_vars PROVE IInv'
  OBVIOUS
<1> USE Threads DEF IInv, TypeOK, OwnerInside, Undisturbed, Inside,
        gameVars, alarmVars, threadVars, signalVars, connVars
<1>1. ASSUME NEW p \in Player, StartLock(p) PROVE IInv'
  BY <1>1 DEF StartLock, Runs, Goto, Lock
<1>2. ASSUME NEW p \in Player, StartPlaying(p) PROVE IInv'
  BY <1>2 DEF StartPlaying, Runs, Goto, Unlock
<1>3. ASSUME NEW p \in Player, InstallHandler(p) PROVE IInv'
  BY <1>3 DEF InstallHandler, Runs, Goto
<1>4. ASSUME NEW p \in Player, PollData(p) PROVE IInv'
  <2>1. /\ input' \in [Player -> Seq(Hole)]
        /\ choice' \in [Player -> Hole \cup {NoHole}]
    BY <1>4, PollDataType
  <2>2. /\ pc[p] = "poll"
        /\ \/ pc' = [pc EXCEPT ![p] = "hit"]
           \/ pc' = [pc EXCEPT ![p] = "over"] /\ UNCHANGED choice
           \/ UNCHANGED <<pc, choice>>
        /\ \A q \in Player \ {p} : choice'[q] = choice[q]
        /\ UNCHANGED <<gameVars, synced, alarmVars, mutex, idx, signalVars, conn>>
    BY <1>4 DEF PollData
  <2>3. TypeOK'
    <3>1. CASE pc' = [pc EXCEPT ![p] = "hit"]
      BY <2>1, <2>2, <3>1
    <3>2. CASE pc' = [pc EXCEPT ![p] = "over"]
      BY <2>1, <2>2, <3>2
    <3>3. CASE UNCHANGED pc
      BY <2>1, <2>2, <3>3
    <3> QED
      BY <2>2, <3>1, <3>2, <3>3
  <2>4. OwnerInside'
    BY <2>2
  <2>5. Undisturbed'
    BY <2>2, SMTT(20)
  <2> QED
    BY <2>3, <2>4, <2>5
<1>5. ASSUME NEW p \in Player, PollClosed(p) PROVE IInv'
  BY <1>5 DEF PollClosed, Runs, Goto
<1>6. ASSUME NEW p \in Player, HitLock(p) PROVE IInv'
  BY <1>6 DEF HitLock, Runs, Goto, Lock
<1>7. ASSUME NEW p \in Player, Score(p) PROVE IInv'
  <2>0. point' \in [Player -> Int]
    BY <1>7, ScoreType
  <2>1. TypeOK'
    BY <1>7, <2>0 DEF Score, Goto
  <2>2. OwnerInside'
    BY <1>7 DEF Score, Goto
  <2>3. Undisturbed'
    BY <1>7 DEF Score, Goto, Hittable
  <2> QED
    BY <2>1, <2>2, <2>3
<1>8. ASSUME NEW p \in Player, Clear(p) PROVE IInv'
  BY <1>8 DEF Clear, Runs, Goto, Unlock
<1>9. ASSUME NEW p \in Player, Miss(p) PROVE IInv'
  BY <1>9 DEF Miss, Runs, Goto, Unlock
<1>10. ASSUME NEW p \in Player, NotifyOther(p) PROVE IInv'
  BY <1>10 DEF NotifyOther, Runs, Signalled
<1>11. ASSUME NEW p \in Player, NotifySelf(p) PROVE IInv'
  <2>1. (conn' \in [Player -> {"open", "fin", "rst", "closed"}])
        /\ killed' \in {"no", "SIGUSR1", "SIGPIPE"}
        /\ synced' \subseteq Player
    <3>1. Send(p)
      BY <1>11 DEF NotifySelf
    <3> QED
      BY <3>1 DEF Send
  <2> PICK to \in {"poll", "close"} : pc' = [pc EXCEPT ![p] = to]
    BY <1>11 DEF NotifySelf, Goto
  <2>0. /\ idx' = [idx EXCEPT ![p] = 0]
        /\ pending' = pending \ {p}
        /\ UNCHANGED <<gameVars, alarmVars, mutex, choice, caught, input>>
    BY <1>11 DEF NotifySelf
  <2>2. TypeOK'
    BY <2>0, <2>1
  <2>3. OwnerInside'
    BY <2>0
  <2>4. Undisturbed'
    BY <2>0
  <2> QED
    BY <2>2, <2>3, <2>4
<1>12. ASSUME NEW p \in Player, CloseSocket(p) PROVE IInv'
  BY <1>12 DEF CloseSocket, Runs, Goto
<1>13. ASSUME NEW p \in Player, ExitThread(p) PROVE IInv'
  BY <1>13 DEF ExitThread, Runs, Goto
<1>14. ASSUME NEW p \in Player, InfoSync(p) PROVE IInv'
  BY <1>14 DEF InfoSync, Send
<1>15. ASSUME NEW p \in Player, Press(p) PROVE IInv'
  <2>1. input' \in [Player -> Seq(Hole)]
    <3> PICK h \in Hole : input' = [input EXCEPT ![p] = Append(@, h)]
      BY <1>15 DEF Press
    <3>1. input[p] \in Seq(Hole)
      OBVIOUS
    <3>2. Append(input[p], h) \in Seq(Hole)
      BY <3>1
    <3> QED
      BY <3>2
  <2> QED
    BY <1>15, <2>1 DEF Press
<1>16. ASSUME NEW p \in Player, Leave(p) PROVE IInv'
  BY <1>16 DEF Leave
<1>17. ASSUME NEW t \in Thread, AlarmArrives(t) PROVE IInv'
  BY <1>17 DEF AlarmArrives
<1>18. ASSUME NEW t \in Thread, TickBegin(t) PROVE IInv'
  <2>0. time' \in Int /\ diglett' \in [Hole -> {-1, 0, 1, 2}]
    BY <1>18, NoMoleType DEF TickBegin
  <2>1. TypeOK'
    BY <1>18, <2>0 DEF TickBegin, Lock
  <2>2. OwnerInside'
    BY <1>18 DEF TickBegin, Lock
  <2>3. Undisturbed'
    BY <1>18 DEF TickBegin, Lock
  <2> QED
    BY <2>1, <2>2, <2>3
<1>19. ASSUME NEW t \in Thread, TickEnd(t) PROVE IInv'
  BY <1>19, BoardsType, SMTT(20) DEF TickEnd, Unlock
<1>20. ASSUME NEW t \in Thread, TickNotify(t) PROVE IInv'
  BY <1>20 DEF TickNotify, Signalled
<1>21. ASSUME NEW t \in Thread, AlarmReturns(t) PROVE IInv'
  <2>0. alarmIdx' \in [Thread -> 0 .. MAX_PLAYER]
    BY <1>21 DEF AlarmReturns
  <2>1. TypeOK'
    BY <1>21, <2>0 DEF AlarmReturns
  <2>2. OwnerInside'
    BY <1>21 DEF AlarmReturns
  <2>3. Undisturbed'
    BY <1>21 DEF AlarmReturns
  <2> QED
    BY <2>1, <2>2, <2>3
<1>22. CASE TimerExit
  BY <1>22 DEF TimerExit, Runs, Goto
<1>23. CASE VisitorArrives
  BY <1>23 DEF VisitorArrives, Runs, Goto
<1>24. CASE RefuseLock
  BY <1>24 DEF RefuseLock, Runs, Goto, Lock
<1>25. CASE Refuse
  BY <1>25 DEF Refuse, Goto, Unlock
<1>26. CASE UNCHANGED vars
  BY <1>26 DEF vars
<1> QED
  BY <1>1, <1>2, <1>3, <1>4, <1>5, <1>6, <1>7, <1>8, <1>9, <1>10, <1>11,
     <1>12, <1>13, <1>14, <1>15, <1>16, <1>17, <1>18, <1>19, <1>20, <1>21,
     <1>22, <1>23, <1>24, <1>25, <1>26
  DEF Next, ClientThread, AlarmHandler, MainThread

(* Every variable keeps its type, and the mutex and what it protects are   *)
(* respected by every thread and every handler.                            *)
THEOREM RoundInvariant == Spec => []IInv
  BY InitInv, NextInv, PTL DEF Spec

(* The type invariant, for every number of holes and players.              *)
THEOREM RoundTypes == Spec => []TypeOK
<1>1. IInv => TypeOK
  BY DEF IInv
<1> QED
  BY <1>1, RoundInvariant, PTL
-----------------------------------------------------------------------------
(* The score of a player, as WhackGame sees it. *)
Scores == [p \in Player |-> point[p] - Booked(p)]

(* A step that leaves points and board alone and neither begins nor ends   *)
(* the second half of a hit leaves the scores alone.                       *)
LEMMA SameScores ==
  ASSUME UNCHANGED <<point, diglett>>,
         \A p \in Player :
           /\ pc'[p] = "clear" <=> pc[p] = "clear"
           /\ pc[p] = "clear" => choice'[p] = choice[p]
  PROVE  UNCHANGED Scores
<1>1. ASSUME NEW p \in Player PROVE (point[p] - Booked(p))' = point[p] - Booked(p)
  BY DEF Booked
<1> QED
  BY <1>1 DEF Scores

(* While somebody else is inside a critical section no hit is half done.   *)
LEMMA NothingBooked ==
  ASSUME OwnerInside, NEW p \in Player, mutex # p
  PROVE  Booked(p) = 0
  BY Threads DEF OwnerInside, Inside, Booked

LEMMA InitRefines == Init => Game!Init
  BY Threads
  DEF Init, Game!Init, Game!NoMole, NoMole, Game!Hole, Hole, Game!Player,
      Player, Booked

(* Every step of the threads and handlers is a step of the game, or none.  *)
LEMMA NextRefines == IInv /\ [Next]_vars => [Game!Next]_(Game!gvars)
<1> SUFFICES ASSUME IInv, [Next]_vars PROVE [Game!Next]_(Game!gvars)
  OBVIOUS
<1> USE Threads DEF gameVars
<1>0. Game!gvars = <<diglett, Scores, time, nowPlaying>>
  BY DEF Game!gvars, Scores
<1>11. ASSUME UNCHANGED gameVars,
             \A p \in Player :
               /\ pc'[p] = "clear" <=> pc[p] = "clear"
               /\ pc[p] = "clear" => choice'[p] = choice[p]
      PROVE  UNCHANGED Game!gvars
  BY <1>0, <1>11, SameScores DEF Game!gvars, Scores
<1>1. ASSUME NEW p \in Player,
             \/ StartLock(p) \/ InstallHandler(p) \/ PollData(p) \/ PollClosed(p)
             \/ HitLock(p) \/ Miss(p) \/ NotifyOther(p) \/ NotifySelf(p)
             \/ CloseSocket(p) \/ ExitThread(p)
      PROVE  UNCHANGED Game!gvars
  <2>1. UNCHANGED gameVars
    BY <1>1 DEF StartLock, InstallHandler, PollData, PollClosed, HitLock, Miss,
       NotifyOther, NotifySelf, CloseSocket, ExitThread
  <2>2. /\ pc[p] # "clear" /\ pc'[p] # "clear"
        /\ \A q \in Player \ {p} : pc'[q] = pc[q] /\ choice'[q] = choice[q]
    BY <1>1
    DEF IInv, TypeOK, StartLock, InstallHandler, PollData, PollClosed, HitLock,
        Miss, NotifyOther, NotifySelf, CloseSocket, ExitThread, Goto
  <2> QED
    BY <2>1, <2>2, <1>11
<1>2. ASSUME NEW p \in Player, StartPlaying(p)
      PROVE  Game!Start \/ UNCHANGED Game!gvars
  <2>1. UNCHANGED Scores
    BY <1>2, SameScores DEF StartPlaying, Goto, IInv, TypeOK
  <2>2. nowPlaying' = TRUE /\ UNCHANGED <<diglett, time>> /\ nowPlaying \in BOOLEAN
    BY <1>2 DEF StartPlaying, IInv, TypeOK
  <2> QED
    BY <2>1, <2>2, <1>0 DEF Game!Start, Game!gvars, Scores
<1>3. ASSUME NEW p \in Player, Score(p)
      PROVE  UNCHANGED Game!gvars
  <2>1. /\ pc[p] = "score" /\ pc' = [pc EXCEPT ![p] = "clear"]
        /\ point' = [point EXCEPT ![p] = point[p] + diglett[choice[p]]]
        /\ UNCHANGED <<diglett, time, nowPlaying, choice>>
        /\ point[p] \in Int /\ diglett[choice[p]] \in {-1, 0, 1, 2}
    BY <1>3 DEF Score, Goto, Hittable, IInv, TypeOK
  <2>2. ASSUME NEW q \in Player
        PROVE  (point[q] - Booked(q))' = point[q] - Booked(q)
    <3>1. CASE q = p
      <4>1. Booked(p) = 0 /\ Booked(p)' = diglett[choice[p]]
        BY <2>1 DEF Booked, IInv, TypeOK
      <4>2. point'[p] = point[p] + diglett[choice[p]]
        BY <2>1 DEF IInv, TypeOK
      <4> QED
        BY <2>1, <3>1, <4>1, <4>2
    <3>2. CASE q # p
      BY <2>1, <3>2 DEF Booked, IInv, TypeOK
    <3> QED
      BY <3>1, <3>2
  <2> QED
    BY <2>1, <2>2, <1>0 DEF Game!gvars
<1>4. ASSUME NEW p \in Player, Clear(p)
      PROVE  \E h \in Hole : Game!Hit(p, h)
  <2> PICK h \in Hole : h = choice[p]
    BY <1>4 DEF Clear, Goto, IInv, Undisturbed
  <2>1. /\ pc[p] = "clear" /\ pc' = [pc EXCEPT ![p] = "notify"]
        /\ diglett' = [diglett EXCEPT ![h] = 0]
        /\ mutex = p /\ h \in Hole /\ diglett[h] # 0
        /\ UNCHANGED <<point, time, nowPlaying>>
    BY <1>4 DEF Clear, Goto, Unlock, IInv, Undisturbed
  <2>2. /\ Booked(p) = diglett[h] /\ Booked(p)' = 0
        /\ point[p] \in Int /\ diglett[h] \in {-1, 0, 1, 2}
    BY <2>1 DEF Booked, IInv, TypeOK
  <2>3. \A q \in Player \ {p} : Booked(q) = 0 /\ Booked(q)' = 0
    BY <2>1 DEF Booked, IInv, TypeOK, OwnerInside, Inside
  <2>4. Scores' = [Scores EXCEPT ![p] = @ + diglett[h]]
    <3>1. ASSUME NEW q \in Player
          PROVE  Scores'[q] = IF q = p THEN Scores[q] + diglett[h] ELSE Scores[q]
      BY <2>1, <2>2, <2>3 DEF Scores
    <3> QED
      BY <3>1 DEF Scores
  <2>5. Game!Hit(p, h)
    <3>1. [q \in Player |-> point[q] - Booked(q)]' =
            [[q \in Player |-> point[q] - Booked(q)] EXCEPT ![p] = @ + diglett[h]]
      BY <2>4, Zenon DEF Scores
    <3> QED
      BY <2>1, <3>1, Zenon DEF Game!Hit
  <2> QED
    BY <2>5
<1>5. ASSUME NEW t \in Thread, TickBegin(t)
      PROVE  Game!Tick
  <2>1. \A p \in Player : Booked(p) = 0 /\ Booked(p)' = 0
    BY <1>5 DEF TickBegin, Lock, Booked, IInv, OwnerInside, Inside
  <2>2. UNCHANGED Scores
    BY <1>5, <2>1 DEF TickBegin, Scores
  <2>3. nowPlaying /\ time' = time - 1 /\ diglett' = NoMole /\ UNCHANGED nowPlaying
    BY <1>5 DEF TickBegin, IInv, Undisturbed
  <2> QED
    BY <2>2, <2>3
    DEF Game!Tick, Scores, NoMole, Game!NoMole, Hole, Game!Hole
<1>6. ASSUME NEW t \in Thread, TickEnd(t)
      PROVE  Game!Pop
  <2>1. \A p \in Player : Booked(p) = 0 /\ Booked(p)' = 0
    BY <1>6 DEF TickEnd, Booked, IInv, OwnerInside, Inside
  <2>2. UNCHANGED Scores
    BY <1>6, <2>1 DEF TickEnd, Scores
  <2>3. nowPlaying /\ diglett = NoMole /\ UNCHANGED <<time, nowPlaying>>
    BY <1>6 DEF TickEnd, IInv, Undisturbed
  <2>4. Game!LegalBoard(diglett', time)
    BY <1>6, BoardsLegal DEF TickEnd, IInv, TypeOK
  <2> QED
    BY <2>2, <2>3, <2>4
    DEF Game!Pop, Scores, NoMole, Game!NoMole, Hole, Game!Hole
<1>7. ASSUME NEW p \in Player, InfoSync(p) \/ Press(p) \/ Leave(p)
      PROVE  UNCHANGED Game!gvars
  BY <1>7, <1>11 DEF InfoSync, Press, Leave, threadVars
<1>8. ASSUME NEW t \in Thread, AlarmArrives(t) \/ TickNotify(t) \/ AlarmReturns(t)
      PROVE  UNCHANGED Game!gvars
  BY <1>8, <1>11 DEF AlarmArrives, TickNotify, AlarmReturns, threadVars
<1>9. ASSUME TimerExit \/ MainThread
      PROVE  UNCHANGED Game!gvars
  BY <1>9, <1>11
  DEF TimerExit, MainThread, VisitorArrives, RefuseLock, Refuse, Goto, IInv, TypeOK
<1>10. CASE UNCHANGED vars
  BY <1>10, <1>11 DEF vars, threadVars
<1> QED
  BY <1>1, <1>2, <1>3, <1>4, <1>5, <1>6, <1>7, <1>8, <1>9, <1>10
  DEF Next, ClientThread, AlarmHandler, Game!Next, Game!Hole, Hole, Game!Player,
      Player

(* The server plays by the rules of WhackGame, for every number of holes   *)
(* and players and whichever threads SIGVTALRM interrupts: every mole is   *)
(* paid once, in full, to one player, and no tick meets a half-done hit.   *)
THEOREM RoundRefinesGame == Spec => PlaysByTheRules
  BY InitRefines, NextRefines, RoundInvariant, PTL
  DEF Spec, PlaysByTheRules, Game!Spec
-----------------------------------------------------------------------------
(* Something is still under way that will send p a snapshot: a signal, or  *)
(* a loop that has not come to p, or a change that the loop will follow.   *)
Coming(p) ==
  \/ p \in pending
  \/ \E t \in Thread :
       \/ alarm[t] = "place"
       \/ alarm[t] = "notify" /\ alarmIdx[t] <= p
  \/ \E q \in Player :
       \/ pc[q] = "clear"
       \/ pc[q] \in {"notify", "over"} /\ (idx[q] <= p \/ q = p)

(* Every connected player has the present game, or will be sent it.        *)
Served(p) == killed = "no" /\ conn[p] = "open" => p \in synced \/ Coming(p)

ClosedAtExit == \A p \in Player : pc[p] \in {"exit", "gone"} => conn[p] = "closed"

(* Every loop starts from player 0. *)
LoopsReset ==
  /\ \A p \in Player : pc[p] \notin {"notify", "over"} => idx[p] = 0
  /\ \A t \in Thread : alarm[t] # "notify" => alarmIdx[t] = 0

ViewsInv == (\A p \in Player : Served(p)) /\ ClosedAtExit /\ LoopsReset

LEMMA InitViews == Init => ViewsInv
  BY Threads DEF Init, ViewsInv, Served, ClosedAtExit, LoopsReset

LEMMA NextViews == IInv /\ ViewsInv /\ [Next]_vars => ViewsInv'
<1> SUFFICES ASSUME IInv, ViewsInv, [Next]_vars PROVE ViewsInv'
  OBVIOUS
<1> USE Threads DEF ClosedAtExit, LoopsReset, gameVars, alarmVars,
        threadVars, signalVars, connVars
<1>0. /\ pc \in [Thread -> {"start", "startCS", "install", "poll", "hit", "score",
                            "clear", "notify", "over", "close", "exit", "gone",
                            "spin", "accept", "full", "refuse"}]
      /\ idx \in [Player -> 0 .. MAX_PLAYER]
      /\ alarm \in [Thread -> {"idle", "lock", "place", "notify"}]
      /\ alarmIdx \in [Thread -> 0 .. MAX_PLAYER]
      /\ conn \in [Player -> {"open", "fin", "rst", "closed"}]
      /\ \A p \in Player : 0 <= p /\ p < MAX_PLAYER /\ p \in Int
      /\ MAX_PLAYER \in Int
  <2>1. \A p \in Player : 0 <= p /\ p < MAX_PLAYER /\ p \in Int
    BY RoundAssumption DEF Player
  <2> QED
    BY <2>1, RoundAssumption DEF IInv, TypeOK
<1>27. (\A p \in Player : Served(p)) /\ ClosedAtExit /\ LoopsReset
  BY DEF ViewsInv
<1>1. ASSUME NEW p \in Player, StartLock(p) PROVE ViewsInv'
  <2>1. ASSUME NEW q \in Player, Served(q) PROVE Served(q)'
    BY <1>0, <1>27, <1>1, <2>1 DEF Served, Coming, StartLock, Goto
  <2>2. ClosedAtExit' /\ LoopsReset'
    BY <1>0, <1>27, <1>1 DEF StartLock, Goto
  <2> QED
    BY <1>27, <2>1, <2>2 DEF ViewsInv
<1>2. ASSUME NEW p \in Player, StartPlaying(p) PROVE ViewsInv'
  <2>1. ASSUME NEW q \in Player, Served(q) PROVE Served(q)'
    BY <1>0, <1>27, <1>2, <2>1 DEF Served, Coming, StartPlaying, Goto
  <2>2. ClosedAtExit' /\ LoopsReset'
    BY <1>0, <1>27, <1>2 DEF StartPlaying, Goto
  <2> QED
    BY <1>27, <2>1, <2>2 DEF ViewsInv
<1>3. ASSUME NEW p \in Player, InstallHandler(p) PROVE ViewsInv'
  <2>1. ASSUME NEW q \in Player, Served(q) PROVE Served(q)'
    BY <1>0, <1>27, <1>3, <2>1 DEF Served, Coming, InstallHandler, Goto
  <2>2. ClosedAtExit' /\ LoopsReset'
    BY <1>0, <1>27, <1>3 DEF InstallHandler, Goto
  <2> QED
    BY <1>27, <2>1, <2>2 DEF ViewsInv
<1>4. ASSUME NEW p \in Player, PollData(p) PROVE ViewsInv'
  <2>1. ASSUME NEW q \in Player, Served(q) PROVE Served(q)'
    BY <1>0, <1>27, <1>4, <2>1 DEF Served, Coming, PollData
  <2>2. ClosedAtExit' /\ LoopsReset'
    BY <1>0, <1>27, <1>4 DEF PollData
  <2> QED
    BY <1>27, <2>1, <2>2 DEF ViewsInv
<1>5. ASSUME NEW p \in Player, PollClosed(p) PROVE ViewsInv'
  <2>1. ASSUME NEW q \in Player, Served(q) PROVE Served(q)'
    BY <1>0, <1>27, <1>5, <2>1 DEF Served, Coming, PollClosed, Goto
  <2>2. ClosedAtExit' /\ LoopsReset'
    BY <1>0, <1>27, <1>5 DEF PollClosed, Goto
  <2> QED
    BY <1>27, <2>1, <2>2 DEF ViewsInv
<1>6. ASSUME NEW p \in Player, HitLock(p) PROVE ViewsInv'
  <2>1. ASSUME NEW q \in Player, Served(q) PROVE Served(q)'
    BY <1>0, <1>27, <1>6, <2>1 DEF Served, Coming, HitLock, Goto
  <2>2. ClosedAtExit' /\ LoopsReset'
    BY <1>0, <1>27, <1>6 DEF HitLock, Goto
  <2> QED
    BY <1>27, <2>1, <2>2 DEF ViewsInv
<1>7. ASSUME NEW p \in Player, Score(p) PROVE ViewsInv'
  <2>1. ASSUME NEW q \in Player, Served(q) PROVE Served(q)'
    BY <1>0, <1>27, <1>7, <2>1 DEF Served, Coming, Score, Goto
  <2>2. ClosedAtExit' /\ LoopsReset'
    BY <1>0, <1>27, <1>7 DEF Score, Goto
  <2> QED
    BY <1>27, <2>1, <2>2 DEF ViewsInv
<1>8. ASSUME NEW p \in Player, Clear(p) PROVE ViewsInv'
  <2>1. ASSUME NEW q \in Player, Served(q) PROVE Served(q)'
    BY <1>0, <1>27, <1>8, <2>1 DEF Served, Coming, Clear, Goto
  <2>2. ClosedAtExit' /\ LoopsReset'
    BY <1>0, <1>27, <1>8 DEF Clear, Goto
  <2> QED
    BY <1>27, <2>1, <2>2 DEF ViewsInv
<1>9. ASSUME NEW p \in Player, Miss(p) PROVE ViewsInv'
  <2>1. ASSUME NEW q \in Player, Served(q) PROVE Served(q)'
    BY <1>0, <1>27, <1>9, <2>1 DEF Served, Coming, Miss, Goto
  <2>2. ClosedAtExit' /\ LoopsReset'
    BY <1>0, <1>27, <1>9 DEF Miss, Goto
  <2> QED
    BY <1>27, <2>1, <2>2 DEF ViewsInv
<1>10. ASSUME NEW p \in Player, NotifyOther(p) PROVE ViewsInv'
  <2>1. ASSUME NEW q \in Player, Served(q) PROVE Served(q)'
    BY <1>0, <1>27, <1>10, <2>1 DEF Served, Coming, NotifyOther, Signalled
  <2>2. ClosedAtExit' /\ LoopsReset'
    BY <1>0, <1>27, <1>10 DEF NotifyOther, Signalled
  <2> QED
    BY <1>27, <2>1, <2>2 DEF ViewsInv
<1>11. ASSUME NEW p \in Player, NotifySelf(p) PROVE ViewsInv'
  <2>1. ASSUME NEW q \in Player, Served(q) PROVE Served(q)'
    BY <1>0, <1>27, <1>11, <2>1 DEF Served, Coming, NotifySelf, Send, Goto
  <2>2. ClosedAtExit' /\ LoopsReset'
    BY <1>0, <1>27, <1>11 DEF NotifySelf, Send, Goto
  <2> QED
    BY <1>27, <2>1, <2>2 DEF ViewsInv
<1>12. ASSUME NEW p \in Player, CloseSocket(p) PROVE ViewsInv'
  <2>1. ASSUME NEW q \in Player, Served(q) PROVE Served(q)'
    BY <1>0, <1>27, <1>12, <2>1 DEF Served, Coming, CloseSocket, Goto
  <2>2. ClosedAtExit' /\ LoopsReset'
    BY <1>0, <1>27, <1>12 DEF CloseSocket, Goto
  <2> QED
    BY <1>27, <2>1, <2>2 DEF ViewsInv
<1>13. ASSUME NEW p \in Player, ExitThread(p) PROVE ViewsInv'
  <2>1. ASSUME NEW q \in Player, Served(q) PROVE Served(q)'
    BY <1>0, <1>27, <1>13, <2>1 DEF Served, Coming, ExitThread, Goto
  <2>2. ClosedAtExit' /\ LoopsReset'
    BY <1>0, <1>27, <1>13 DEF ExitThread, Goto
  <2> QED
    BY <1>27, <2>1, <2>2 DEF ViewsInv
<1>14. ASSUME NEW p \in Player, InfoSync(p) PROVE ViewsInv'
  <2>1. ASSUME NEW q \in Player, Served(q) PROVE Served(q)'
    BY <1>0, <1>27, <1>14, <2>1 DEF Served, Coming, InfoSync, Send
  <2>2. ClosedAtExit' /\ LoopsReset'
    BY <1>0, <1>27, <1>14 DEF InfoSync, Send
  <2> QED
    BY <1>27, <2>1, <2>2 DEF ViewsInv
<1>15. ASSUME NEW p \in Player, Press(p) PROVE ViewsInv'
  <2>1. ASSUME NEW q \in Player, Served(q) PROVE Served(q)'
    BY <1>0, <1>27, <1>15, <2>1 DEF Served, Coming, Press
  <2>2. ClosedAtExit' /\ LoopsReset'
    BY <1>0, <1>27, <1>15 DEF Press
  <2> QED
    BY <1>27, <2>1, <2>2 DEF ViewsInv
<1>16. ASSUME NEW p \in Player, Leave(p) PROVE ViewsInv'
  <2>1. ASSUME NEW q \in Player, Served(q) PROVE Served(q)'
    BY <1>0, <1>27, <1>16, <2>1 DEF Served, Coming, Leave
  <2>2. ClosedAtExit' /\ LoopsReset'
    BY <1>0, <1>27, <1>16 DEF Leave
  <2> QED
    BY <1>27, <2>1, <2>2 DEF ViewsInv
<1>17. ASSUME NEW t \in Thread, AlarmArrives(t) PROVE ViewsInv'
  <2>1. ASSUME NEW q \in Player, Served(q) PROVE Served(q)'
    BY <1>0, <1>27, <1>17, <2>1 DEF Served, Coming, AlarmArrives
  <2>2. ClosedAtExit' /\ LoopsReset'
    BY <1>0, <1>27, <1>17 DEF AlarmArrives
  <2> QED
    BY <1>27, <2>1, <2>2 DEF ViewsInv
<1>18. ASSUME NEW t \in Thread, TickBegin(t) PROVE ViewsInv'
  <2>1. ASSUME NEW q \in Player, Served(q) PROVE Served(q)'
    BY <1>0, <1>27, <1>18, <2>1 DEF Served, Coming, TickBegin
  <2>2. ClosedAtExit' /\ LoopsReset'
    BY <1>0, <1>27, <1>18 DEF TickBegin
  <2> QED
    BY <1>27, <2>1, <2>2 DEF ViewsInv
<1>19. ASSUME NEW t \in Thread, TickEnd(t) PROVE ViewsInv'
  <2>1. ASSUME NEW q \in Player, Served(q) PROVE Served(q)'
    BY <1>0, <1>27, <1>19, <2>1 DEF Served, Coming, TickEnd
  <2>2. ClosedAtExit' /\ LoopsReset'
    BY <1>0, <1>27, <1>19 DEF TickEnd
  <2> QED
    BY <1>27, <2>1, <2>2 DEF ViewsInv
<1>20. ASSUME NEW t \in Thread, TickNotify(t) PROVE ViewsInv'
  <2>1. ASSUME NEW q \in Player, Served(q) PROVE Served(q)'
    BY <1>0, <1>27, <1>20, <2>1 DEF Served, Coming, TickNotify, Signalled
  <2>2. ClosedAtExit' /\ LoopsReset'
    BY <1>0, <1>27, <1>20 DEF TickNotify, Signalled
  <2> QED
    BY <1>27, <2>1, <2>2 DEF ViewsInv
<1>21. ASSUME NEW t \in Thread, AlarmReturns(t) PROVE ViewsInv'
  <2>1. ASSUME NEW q \in Player, Served(q) PROVE Served(q)'
    BY <1>0, <1>27, <1>21, <2>1 DEF Served, Coming, AlarmReturns
  <2>2. ClosedAtExit' /\ LoopsReset'
    BY <1>0, <1>27, <1>21 DEF AlarmReturns
  <2> QED
    BY <1>27, <2>1, <2>2 DEF ViewsInv
<1>22. CASE TimerExit
  <2>1. ASSUME NEW q \in Player, Served(q) PROVE Served(q)'
    BY <1>0, <1>27, <1>22, <2>1 DEF Served, Coming, TimerExit, Goto
  <2>2. ClosedAtExit' /\ LoopsReset'
    BY <1>0, <1>27, <1>22 DEF TimerExit, Goto
  <2> QED
    BY <1>27, <2>1, <2>2 DEF ViewsInv
<1>23. CASE VisitorArrives
  <2>1. ASSUME NEW q \in Player, Served(q) PROVE Served(q)'
    BY <1>0, <1>27, <1>23, <2>1 DEF Served, Coming, VisitorArrives, Goto
  <2>2. ClosedAtExit' /\ LoopsReset'
    BY <1>0, <1>27, <1>23 DEF VisitorArrives, Goto
  <2> QED
    BY <1>27, <2>1, <2>2 DEF ViewsInv
<1>24. CASE RefuseLock
  <2>1. ASSUME NEW q \in Player, Served(q) PROVE Served(q)'
    BY <1>0, <1>27, <1>24, <2>1 DEF Served, Coming, RefuseLock, Goto
  <2>2. ClosedAtExit' /\ LoopsReset'
    BY <1>0, <1>27, <1>24 DEF RefuseLock, Goto
  <2> QED
    BY <1>27, <2>1, <2>2 DEF ViewsInv
<1>25. CASE Refuse
  <2>1. ASSUME NEW q \in Player, Served(q) PROVE Served(q)'
    BY <1>0, <1>27, <1>25, <2>1 DEF Served, Coming, Refuse, Goto
  <2>2. ClosedAtExit' /\ LoopsReset'
    BY <1>0, <1>27, <1>25 DEF Refuse, Goto
  <2> QED
    BY <1>27, <2>1, <2>2 DEF ViewsInv
<1>26. CASE UNCHANGED vars
  BY <1>27, <1>26 DEF vars, ViewsInv, Served, Coming
<1> QED
  BY <1>1, <1>2, <1>3, <1>4, <1>5, <1>6, <1>7, <1>8, <1>9, <1>10, <1>11,
     <1>12, <1>13, <1>14, <1>15, <1>16, <1>17, <1>18, <1>19, <1>20, <1>21,
     <1>22, <1>23, <1>24, <1>25, <1>26
  DEF Next, ClientThread, AlarmHandler, MainThread

(* When nothing is under way any more, every connected player has been     *)
(* sent the game as it is, however many signals were merged on the way.    *)
THEOREM RoundViewsFresh == Spec => []QuiescentViewsFresh
<1>1. ViewsInv => QuiescentViewsFresh
  BY DEF ViewsInv, Served, Coming, QuiescentViewsFresh, Quiescent
<1> QED
  BY <1>1, InitViews, NextViews, RoundInvariant, PTL DEF Spec
=============================================================================
