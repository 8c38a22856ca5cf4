----------------------------- MODULE GameRound -----------------------------
(***************************************************************************)
(* A round of Final_server.c, from the moment the ready barrier lets the   *)
(* MAX_PLAYER client threads go: the client threads (client_handler), the  *)
(* SIGVTALRM handler that advances the game (timer_handler), the SIGUSR1   *)
(* handler that sends the game to a client (info_sync), the main thread    *)
(* turning a late visitor away, and the clients at the other end of the    *)
(* sockets.  Module GameLobby models what happens before the barrier.      *)
(*                                                                         *)
(* A signal handler runs on a thread and suspends what that thread was     *)
(* doing, which may be the inside of a critical section.                   *)
(***************************************************************************)
EXTENDS Integers, Sequences, FiniteSets

CONSTANTS
  diglett_num,    \* holes on the board (5 in the source)
  MAX_PLAYER,     \* players in a round (3 in the source)
  GAMETIME,       \* seconds on the clock at the start (20 in the source)
  AlarmCarriers,  \* threads on which the kernel may run timer_handler
  Leavers,        \* players whose client may close its connection
  LateVisitors,   \* whether anybody else tries to connect meanwhile
  MaxInput,       \* bound: presses queued in one connection
  LastTime        \* bound: the lowest game.time that is followed

Hole   == 0 .. diglett_num - 1
Player == 0 .. MAX_PLAYER - 1    \* slots; also the client threads
Main   == -1                     \* the thread of main()
Timer  == -2                     \* timer_thread
Nobody == -3                     \* no thread, no player
Thread == Player \cup {Main, Timer}
NoMole == [h \in Hole |-> 0]
NoHole == diglett_num            \* any choice that names no hole

ASSUME RoundAssumption ==
  /\ diglett_num \in Nat /\ diglett_num >= 2
  /\ MAX_PLAYER \in Nat \ {0}
  /\ GAMETIME \in Nat \ {0}
  /\ AlarmCarriers \subseteq Thread
  /\ Leavers \subseteq Player
  /\ LateVisitors \in BOOLEAN
  /\ MaxInput \in Nat
  /\ LastTime \in Int /\ LastTime < GAMETIME

VARIABLES
  \* struct game_info
  diglett, point, time, nowPlaying,
  \* threads
  mutex,     \* the thread that holds the mutex, or Nobody
  pc,        \* what each thread does when no handler runs on it
  choice,    \* client_handler's choice
  idx,       \* client_handler's i in the loops that signal the others
  alarm,     \* the timer_handler frame on each thread
  alarmIdx,  \* timer_handler's i in the loop that signals the players
  pending,   \* client threads with SIGUSR1 pending
  caught,    \* TRUE once some thread has installed info_sync
  killed,    \* the signal that ended the process, or "no"
  \* connections
  conn,      \* state of each player's connection
  input,     \* presses sent by the client and not yet received
  \* what the clients have been sent (history)
  synced     \* players whose last snapshot is the present game

gameVars   == <<diglett, point, time, nowPlaying>>
alarmVars  == <<alarm, alarmIdx>>
threadVars == <<mutex, pc, choice, idx>>
signalVars == <<pending, caught, killed>>
connVars   == <<conn, input>>
vars == <<gameVars, synced, alarmVars, threadVars, signalVars, connVars>>
-----------------------------------------------------------------------------
(* All client threads have just left the ready barrier.                    *)
Init ==
  /\ diglett = NoMole
  /\ point = [p \in Player |-> 0]
  /\ time = GAMETIME
  /\ nowPlaying = FALSE
  /\ mutex = Nobody
  /\ pc = [t \in Thread |-> IF t = Main THEN "accept"
                            ELSE IF t = Timer THEN "spin" ELSE "start"]
  /\ choice = [p \in Player |-> NoHole]
  /\ idx = [p \in Player |-> 0]
  /\ alarm = [t \in Thread |-> "idle"]
  /\ alarmIdx = [t \in Thread |-> 0]
  /\ pending = {}
  /\ caught = FALSE
  /\ killed = "no"
  /\ conn = [p \in Player |-> "open"]
  /\ input = [p \in Player |-> << >>]
  /\ synced = Player

(* t executes its own code: the process lives, no timer_handler runs on t. *)
Runs(t) == killed = "no" /\ alarm[t] = "idle"

Goto(t, from, to) ==
  /\ pc[t] = from
  /\ pc' = [pc EXCEPT ![t] = to]

(* Mutant of Lock: it does not wait for the holder. *)
LockAtOnce(t) == mutex' = t

Lock(t)   == mutex = Nobody /\ mutex' = t
Unlock(t) == mutex = t /\ mutex' = Nobody

(* pthread_kill(thread_list[p], SIGUSR1): standard signals do not queue,   *)
(* and a thread that has exited takes none.                                *)
Signalled(p) == IF pc[p] = "gone" THEN pending ELSE pending \cup {p}

(* What info_sync's send does, by the state of p's connection.  A first    *)
(* send to a peer that has closed draws a reset; the next one is SIGPIPE.  *)
(* After close() p is sent nothing: the number in socket_list is invalid,  *)
(* or that of a later connection, which is not followed.                   *)
Send(p) ==
  \/ /\ conn[p] = "open"
     /\ synced' = synced \cup {p}
     /\ UNCHANGED <<conn, killed>>
  \/ /\ conn[p] = "fin"
     /\ conn' = [conn EXCEPT ![p] = "rst"]
     /\ UNCHANGED <<killed, synced>>
  \/ /\ conn[p] = "rst"
     /\ killed' = "SIGPIPE"
     /\ UNCHANGED <<conn, synced>>
  \/ /\ conn[p] = "closed"
     /\ UNCHANGED <<conn, killed, synced>>
-----------------------------------------------------------------------------
(* client_handler, after pthread_barrier_wait(&ready_barrier)              *)

(* A chunk of digits as sscanf("%d") reads it: leading zeros vanish, and   *)
(* anything of two or more significant digits is no hole.                  *)
Parse(s) ==
  IF \A i \in 1 .. Len(s) - 1 : s[i] = 0 THEN s[Len(s)] ELSE NoHole

(* The chunk reads as 100, the client's code for no button. *)
Hundred(s) ==
  /\ Len(s) >= 3
  /\ SubSeq(s, Len(s) - 2, Len(s)) = <<1, 0, 0>>
  /\ \A i \in 1 .. Len(s) - 3 : s[i] = 0

StartLock(p) ==
  /\ Runs(p)
  /\ Goto(p, "start", "startCS")
  /\ Lock(p)
  /\ UNCHANGED <<gameVars, synced, alarmVars, choice, idx, signalVars, connVars>>

(* if (player_num == MAX_PLAYER && !nowPlaying) nowPlaying = true: the     *)
(* first half of the test holds, MAX_PLAYER threads have passed.           *)
StartPlaying(p) ==
  /\ Runs(p)
  /\ Goto(p, "startCS", "install")
  /\ Unlock(p)
  /\ nowPlaying' = TRUE
  /\ UNCHANGED <<diglett, point, time, synced, alarmVars, choice, idx,
                 signalVars, connVars>>

(* sigaction(SIGUSR1, info_sync), which holds for the whole process. *)
InstallHandler(p) ==
  /\ Runs(p)
  /\ Goto(p, "install", "poll")
  /\ caught' = TRUE
  /\ UNCHANGED <<gameVars, synced, alarmVars, mutex, choice, idx,
                 pending, killed, connVars>>

(* recv(MSG_DONTWAIT) returns a chunk: whatever part of the stream is in.  *)
(* The clock is then read without the mutex.                               *)
PollData(p) ==
  /\ Runs(p)
  /\ pc[p] = "poll"
  /\ \E k \in 1 .. Len(input[p]) :
       LET chunk == SubSeq(input[p], 1, k) IN
       /\ input' = [input EXCEPT ![p] = SubSeq(@, k + 1, Len(@))]
       /\ \/ /\ time < GAMETIME /\ time > 0 /\ ~Hundred(chunk)
             /\ pc' = [pc EXCEPT ![p] = "hit"]
             /\ choice' = [choice EXCEPT ![p] = Parse(chunk)]
          \/ /\ time = 0
             /\ pc' = [pc EXCEPT ![p] = "over"]
             /\ UNCHANGED choice
          \/ /\ time < 0 \/ time >= GAMETIME \/ (time > 0 /\ Hundred(chunk))
             /\ UNCHANGED <<pc, choice>>
  /\ UNCHANGED <<gameVars, synced, alarmVars, mutex, idx, signalVars, conn>>

(* Mutant of PollClosed: end of stream is taken for "no data yet". *)
PollClosedOnReset(p) ==
  /\ Runs(p)
  /\ Goto(p, "poll", "close")
  /\ conn[p] = "rst"
  /\ UNCHANGED <<gameVars, synced, alarmVars, mutex, choice, idx,
                 signalVars, connVars>>

(* recv returns 0 once the stream is drained and the client has closed. *)
PollClosed(p) ==
  /\ Runs(p)
  /\ Goto(p, "poll", "close")
  /\ conn[p] \in {"fin", "rst"}
  /\ conn[p] = "fin" => input[p] = << >>
  /\ UNCHANGED <<gameVars, synced, alarmVars, mutex, choice, idx,
                 signalVars, connVars>>

HitLock(p) ==
  /\ Runs(p)
  /\ Goto(p, "hit", "score")
  /\ Lock(p)
  /\ UNCHANGED <<gameVars, synced, alarmVars, choice, idx, signalVars, connVars>>

Hittable(p) == choice[p] \in Hole /\ diglett[choice[p]] # 0

(* game.point[thread_id] += game.diglett[choice] *)
Score(p) ==
  /\ Runs(p)
  /\ Goto(p, "score", "clear")
  /\ Hittable(p)
  /\ point' = [point EXCEPT ![p] = @ + diglett[choice[p]]]
  /\ synced' = {}
  /\ UNCHANGED <<diglett, time, nowPlaying, alarmVars, mutex,
                 choice, idx, signalVars, connVars>>

(* game.diglett[choice] = 0, and the mutex is released.  The choice is not *)
(* read any more and is forgotten.                                         *)
Clear(p) ==
  /\ Runs(p)
  /\ Goto(p, "clear", "notify")
  /\ Unlock(p)
  /\ diglett' = [diglett EXCEPT ![choice[p]] = 0]
  /\ choice' = [choice EXCEPT ![p] = NoHole]
  /\ synced' = {}
  /\ UNCHANGED <<point, time, nowPlaying, alarmVars, idx,
                 signalVars, connVars>>

(* The hole is empty or does not exist: nothing but the unlock. *)
Miss(p) ==
  /\ Runs(p)
  /\ Goto(p, "score", "notify")
  /\ ~Hittable(p)
  /\ Unlock(p)
  /\ choice' = [choice EXCEPT ![p] = NoHole]
  /\ UNCHANGED <<gameVars, synced, alarmVars, idx, signalVars, connVars>>

(* One turn of the loop that signals every other client thread; it follows *)
(* a hit ("notify") and the end of the game ("over").                      *)
NotifyOther(p) ==
  /\ Runs(p)
  /\ pc[p] \in {"notify", "over"}
  /\ idx[p] \in Player
  /\ idx' = [idx EXCEPT ![p] = @ + 1]
  /\ pending' = IF idx[p] = p THEN pending ELSE Signalled(idx[p])
  /\ UNCHANGED <<gameVars, synced, alarmVars, mutex, pc, choice, caught,
                 killed, connVars>>

(* pthread_kill(pthread_self(), SIGUSR1): the handler runs before the call *)
(* returns, and takes a pending SIGUSR1 of the thread with it.             *)
NotifySelf(p) ==
  /\ Runs(p)
  /\ idx[p] = MAX_PLAYER
  /\ \/ Goto(p, "notify", "poll")
     \/ Goto(p, "over", "close")
  /\ idx' = [idx EXCEPT ![p] = 0]
  /\ pending' = pending \ {p}
  /\ Send(p)
  /\ UNCHANGED <<gameVars, alarmVars, mutex, choice, caught, input>>

CloseSocket(p) ==
  /\ Runs(p)
  /\ Goto(p, "close", "exit")
  /\ conn' = [conn EXCEPT ![p] = "closed"]
  /\ UNCHANGED <<gameVars, synced, alarmVars, mutex, choice, idx,
                 signalVars, input>>

ExitThread(p) ==
  /\ Runs(p)
  /\ Goto(p, "exit", "gone")
  /\ pending' = pending \ {p}
  /\ UNCHANGED <<gameVars, synced, alarmVars, mutex, choice, idx, caught,
                 killed, connVars>>
-----------------------------------------------------------------------------
(* SIGVTALRM: timer_handler on thread t                                    *)

Ticking == {t \in Thread : alarm[t] = "lock"}

(* The interval timer fires and t takes the signal.  SIGVTALRM is blocked  *)
(* on a thread while the handler runs there, not on the other threads.     *)
AlarmArrives(t) ==
  /\ killed = "no"
  /\ t \in AlarmCarriers
  /\ pc[t] # "gone"
  /\ alarm[t] = "idle"
  /\ nowPlaying
  /\ time - Cardinality(Ticking) > LastTime
  /\ alarm' = [alarm EXCEPT ![t] = "lock"]
  /\ UNCHANGED <<gameVars, synced, alarmIdx, threadVars, signalVars, connVars>>

(* pthread_mutex_lock; game.time -= 1; memset(game.diglett, 0) *)
TickBegin(t) ==
  /\ killed = "no"
  /\ alarm[t] = "lock"
  /\ alarm' = [alarm EXCEPT ![t] = "place"]
  /\ Lock(t)
  /\ time' = time - 1
  /\ diglett' = NoMole
  /\ synced' = {}
  /\ UNCHANGED <<point, nowPlaying, alarmIdx, pc, choice, idx,
                 signalVars, connVars>>

(* The bomb goes to the right of the mole, to its left at the last hole. *)
BombHole(m) == IF m + 1 >= diglett_num THEN m - 1 ELSE m + 1

NormalBoards ==
  LET one(m, v) == [NoMole EXCEPT ![m] = v]
  IN  {one(m, v) : m \in Hole, v \in {1, 2}} \cup
      {[one(m, v) EXCEPT ![BombHole(m)] = -1] : m \in Hole, v \in {1, 2}}

(* The last second: n moles from hole s on, wrapping by diglett_num - 1.   *)
(* The literals 4 of the source are diglett_num - 1.                       *)
FinalHole(s, i) ==
  IF i + s > diglett_num - 1 THEN i + s - (diglett_num - 1) ELSE i + s

(* Mutant of FinalBoards: the count starts at one mole. *)
FinalBoardsFromOne ==
  {[h \in Hole |-> IF \E i \in 0 .. n - 1 : h = FinalHole(s, i) THEN 1 ELSE 0] :
     n \in 1 .. diglett_num - 1, s \in 0 .. diglett_num - 2}

FinalBoards ==
  {[h \in Hole |-> IF \E i \in 0 .. n - 1 : h = FinalHole(s, i) THEN 1 ELSE 0] :
     n \in 2 .. diglett_num, s \in 0 .. diglett_num - 2}

Boards(t) ==
  IF t = 0 THEN {NoMole}
  ELSE IF t = 1 THEN FinalBoards
  ELSE NormalBoards

(* The new board, and pthread_mutex_unlock. *)
TickEnd(t) ==
  /\ killed = "no"
  /\ alarm[t] = "place"
  /\ alarm' = [alarm EXCEPT ![t] = "notify"]
  /\ diglett' \in Boards(time)
  /\ Unlock(t)
  /\ synced' = {}
  /\ UNCHANGED <<point, time, nowPlaying, alarmIdx, pc, choice,
                 idx, signalVars, connVars>>

(* Mutant of TickNotify: player 0 is left out. *)
TickNotifyFromOne(t) ==
  /\ killed = "no"
  /\ alarm[t] = "notify"
  /\ alarmIdx[t] \in Player
  /\ alarmIdx' = [alarmIdx EXCEPT ![t] = @ + 1]
  /\ pending' = IF alarmIdx[t] = 0 THEN pending ELSE Signalled(alarmIdx[t])
  /\ UNCHANGED <<gameVars, synced, alarm, threadVars, caught, killed, connVars>>

(* One turn of the loop that signals every client thread. *)
TickNotify(t) ==
  /\ killed = "no"
  /\ alarm[t] = "notify"
  /\ alarmIdx[t] \in Player
  /\ alarmIdx' = [alarmIdx EXCEPT ![t] = @ + 1]
  /\ pending' = Signalled(alarmIdx[t])
  /\ UNCHANGED <<gameVars, synced, alarm, threadVars, caught, killed, connVars>>

AlarmReturns(t) ==
  /\ killed = "no"
  /\ alarm[t] = "notify"
  /\ alarmIdx[t] = MAX_PLAYER
  /\ alarm' = [alarm EXCEPT ![t] = "idle"]
  /\ alarmIdx' = [alarmIdx EXCEPT ![t] = 0]
  /\ UNCHANGED <<gameVars, synced, threadVars, signalVars, connVars>>
-----------------------------------------------------------------------------
(* SIGUSR1: info_sync on client thread p, whatever p was doing.  Until     *)
(* some thread has called sigaction, SIGUSR1 ends the process.             *)
InfoSync(p) ==
  /\ killed = "no"
  /\ p \in pending
  /\ pending' = pending \ {p}
  /\ \/ caught /\ Send(p)
     \/ ~caught /\ killed' = "SIGUSR1" /\ UNCHANGED <<conn, synced>>
  /\ UNCHANGED <<gameVars, alarmVars, threadVars, caught, input>>
-----------------------------------------------------------------------------
(* timer_thread leaves its loop when it happens to read time = 0. *)
TimerExit ==
  /\ Runs(Timer)
  /\ Goto(Timer, "spin", "gone")
  /\ time = 0
  /\ UNCHANGED <<gameVars, synced, alarmVars, mutex, choice, idx,
                 signalVars, connVars>>

(* main(): all MAX_PLAYER slots are taken, so a visitor is refused.        *)
VisitorArrives ==
  /\ LateVisitors
  /\ Runs(Main)
  /\ Goto(Main, "accept", "full")
  /\ UNCHANGED <<gameVars, synced, alarmVars, mutex, choice, idx,
                 signalVars, connVars>>

RefuseLock ==
  /\ Runs(Main)
  /\ Goto(Main, "full", "refuse")
  /\ Lock(Main)
  /\ UNCHANGED <<gameVars, synced, alarmVars, choice, idx, signalVars, connVars>>

(* Mutant of Refuse: the early continue skips the unlock. *)
RefuseKeepsLock ==
  /\ Runs(Main)
  /\ Goto(Main, "refuse", "accept")
  /\ UNCHANGED <<gameVars, synced, alarmVars, mutex, choice, idx,
                 signalVars, connVars>>

Refuse ==
  /\ Runs(Main)
  /\ Goto(Main, "refuse", "accept")
  /\ Unlock(Main)
  /\ UNCHANGED <<gameVars, synced, alarmVars, choice, idx, signalVars, connVars>>
-----------------------------------------------------------------------------
(* The clients: a button press travels as one digit; a client may close.   *)
Press(p) ==
  /\ killed = "no"
  /\ conn[p] = "open"
  /\ Len(input[p]) < MaxInput
  /\ \E h \in Hole : input' = [input EXCEPT ![p] = Append(@, h)]
  /\ UNCHANGED <<gameVars, synced, alarmVars, threadVars, signalVars, conn>>

Leave(p) ==
  /\ killed = "no"
  /\ p \in Leavers
  /\ conn[p] = "open"
  /\ conn' = [conn EXCEPT ![p] = "fin"]
  /\ UNCHANGED <<gameVars, synced, alarmVars, threadVars, signalVars,
                 input>>
-----------------------------------------------------------------------------
ClientThread(p) ==
  \/ StartLock(p) \/ StartPlaying(p) \/ InstallHandler(p)
  \/ PollData(p) \/ PollClosed(p)
  \/ HitLock(p) \/ Score(p) \/ Clear(p) \/ Miss(p)
  \/ NotifyOther(p) \/ NotifySelf(p)
  \/ CloseSocket(p) \/ ExitThread(p)

AlarmHandler(t) ==
  TickBegin(t) \/ TickEnd(t) \/ TickNotify(t) \/ AlarmReturns(t)

MainThread == VisitorArrives \/ RefuseLock \/ Refuse

Next ==
  \/ \E p \in Player : ClientThread(p) \/ InfoSync(p) \/ Press(p) \/ Leave(p)
  \/ \E t \in Thread : AlarmArrives(t) \/ AlarmHandler(t)
  \/ TimerExit
  \/ MainThread

Spec == Init /\ [][Next]_vars

(* The scheduler runs every thread and delivers every signal, the process  *)
(* keeps burning the CPU time that fires the interval timer, and a thread  *)
(* that waits for the mutex while others come and go gets it some day.     *)
Fairness ==
  /\ \A p \in Player : SF_vars(ClientThread(p)) /\ WF_vars(InfoSync(p))
  /\ \A t \in Thread : SF_vars(AlarmHandler(t))
  /\ WF_vars(\E t \in Thread : AlarmArrives(t))
  /\ SF_vars(RefuseLock \/ Refuse)

FairSpec == Spec /\ Fairness
-----------------------------------------------------------------------------
TypeOK ==
  /\ diglett \in [Hole -> {-1, 0, 1, 2}]
  /\ point \in [Player -> Int]
  /\ time \in Int
  /\ nowPlaying \in BOOLEAN
  /\ mutex \in Thread \cup {Nobody}
  /\ pc \in [Thread -> {"start", "startCS", "install", "poll", "hit", "score",
                        "clear", "notify", "over", "close", "exit", "gone",
                        "spin", "accept", "full", "refuse"}]
  /\ choice \in [Player -> Hole \cup {NoHole}]
  /\ idx \in [Player -> 0 .. MAX_PLAYER]
  /\ alarm \in [Thread -> {"idle", "lock", "place", "notify"}]
  /\ alarmIdx \in [Thread -> 0 .. MAX_PLAYER]
  /\ pending \subseteq Player
  /\ caught \in BOOLEAN
  /\ killed \in {"no", "SIGUSR1", "SIGPIPE"}
  /\ conn \in [Player -> {"open", "fin", "rst", "closed"}]
  /\ input \in [Player -> Seq(Hole)]
  /\ synced \subseteq Player

(* A thread is inside a critical section, in its own code or in a handler. *)
InCS(t) ==
  \/ pc[t] \in {"startCS", "score", "clear", "refuse"}
  \/ alarm[t] = "place"

(* Between the two halves of a hit the points are already booked and the   *)
(* mole is still on the board; the hit counts when the mole goes.          *)
Booked(p) == IF pc[p] = "clear" THEN diglett[choice[p]] ELSE 0

Game == INSTANCE WhackGame WITH
          board   <- diglett,
          score   <- [p \in Player |-> point[p] - Booked(p)],
          clock   <- time,
          playing <- nowPlaying

(* Threads, handlers and mutex together play the game of WhackGame: every  *)
(* mole is paid once, in full and to one player, and a tick never meets a  *)
(* half-done hit (client_handler 226-231, timer_handler 290-332).          *)
PlaysByTheRules == Game!Spec

(* Whenever nothing is under way any more, every connected player has been *)
(* sent the game as it is now, although signals coalesce and snapshots are *)
(* taken without the mutex (notification loops 232-238, 334-340).          *)
Quiescent ==
  /\ killed = "no"
  /\ pending = {}
  /\ \A t \in Thread : alarm[t] = "idle"
  /\ \A p \in Player : pc[p] \notin {"score", "clear", "notify", "over"}

QuiescentViewsFresh ==
  Quiescent => \A p \in Player : conn[p] = "open" => p \in synced

(* The countdown of a started round reaches its end (timer_handler is      *)
(* called every second, line 261).                                         *)
CountdownEnds == nowPlaying ~> (time <= 0 \/ killed # "no")

(* The thread of a client that has closed its connection comes to an end   *)
(* and closes the socket (client_handler 208-213, 256-258).                *)
DepartedThreadEnds ==
  \A p \in Player : conn[p] = "fin" ~> (pc[p] = "gone" \/ killed # "no")
=============================================================================
