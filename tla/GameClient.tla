----------------------------- MODULE GameClient -----------------------------
(***************************************************************************)
(* Final_client.c and Final_game.py on one machine: the client copies each *)
(* snapshot of the game from its connection to a shared memory segment and *)
(* sends the buttons pressed; the display reads the segment, again and     *)
(* again, without the semaphore the client takes.  Segment and semaphore   *)
(* belong to the system and survive a client that is killed.               *)
(*                                                                         *)
(* The server is GameLobby and GameRound, seen from the connection: it     *)
(* greets or refuses, sends snapshots whose clock never goes up, and may   *)
(* close at any time.                                                      *)
(***************************************************************************)
EXTENDS Integers, Sequences

CONSTANTS
  GAMETIME,      \* seconds on the clock at the start (20 in the source)
  CallsFail,     \* the calls of the set-up that may fail
  MaxSnapshots, LastTime, MaxPresses, MaxStarts \* bounds

ASSUME ClientAssumption ==
  /\ GAMETIME \in Nat \ {0}
  /\ CallsFail \subseteq {"shmget", "shmat", "semget", "setval", "open", "read"}
  /\ MaxSnapshots \in Nat /\ MaxPresses \in Nat /\ MaxStarts \in Nat
  /\ LastTime \in Int /\ LastTime < GAMETIME

Segment == 1 .. MaxStarts

VARIABLES
  \* the system
  key,       \* the segment found under shm_key, or 0
  memory,    \* of each segment: game_time, diglett and point as numbers of
             \* the snapshots they are from (0: none), and the one game_time
             \* is from
  semaphore, \* the counter under sem_key, or -1
  dirty,     \* the device was opened and not cleared since
  presses,   \* names in the driver that were not read
  \* the client
  pc, seg, taken, failed, starts,
  \* the connection: its state for the client, and the greetings and the
  \* clocks of the snapshots that were sent
  link, greetings, times,
  \* the display: where it is, its segment, what it has read, and whether
  \* its client had not announced the game by then (history)
  display, attached, frame, early

systemVars  == <<key, memory, semaphore, dirty>>
linkVars    == <<link, greetings, times>>
displayVars == <<display, attached, frame, early>>
vars == <<systemVars, pc, seg, taken, failed, starts, linkVars, displayVars,
          presses>>

Zero == [time |-> 0, of |-> 0, point |-> 0]

Init ==
  /\ key = 0
  /\ memory = [s \in Segment |-> Zero]
  /\ semaphore = -1
  /\ dirty = FALSE
  /\ presses = 0
  /\ pc = "off" /\ seg = 0 /\ taken = 0 /\ failed = "none" /\ starts = 0
  /\ link = "open" /\ greetings = 0 /\ times = <<>>
  /\ display = "off" /\ attached = 0 /\ frame = Zero /\ early = FALSE

Goto(from, to) == pc = from /\ pc' = to
-----------------------------------------------------------------------------
(* main(), set-up                                                          *)

(* The client connects. *)
Start ==
  /\ pc \in {"off", "ended", "killed"}
  /\ starts < MaxStarts
  /\ starts' = starts + 1
  /\ pc' = "shmget"
  /\ failed' = "none"
  /\ UNCHANGED <<systemVars, seg, taken, linkVars, displayVars, presses>>

(* The process ends, with its variables and its connection. *)
Exit(how) ==
  /\ pc' = how
  /\ seg' = 0 /\ taken' = 0
  /\ link' = "open" /\ greetings' = 0 /\ times' = <<>>

Fails(call) ==
  /\ call \in CallsFail
  /\ pc = call
  /\ Exit("ended")
  /\ failed' = call
  /\ UNCHANGED <<memory, dirty, starts, displayVars, presses>>

ShmgetFails == Fails("shmget") /\ UNCHANGED <<key, semaphore>>

(* A segment that is there is used; a new one is numbered by the start.    *)
Shmget ==
  /\ Goto("shmget", "shmat")
  /\ seg' = IF key = 0 THEN starts ELSE key
  /\ key' = seg'
  /\ UNCHANGED <<memory, semaphore, dirty, taken, failed, starts, linkVars,
                 displayVars, presses>>

ShmatFails == Fails("shmat") /\ key' = 0 /\ UNCHANGED semaphore

(* Mutant of Shmat: the segment is not cleared. *)
ShmatKeeps ==
  /\ Goto("shmat", "semget")
  /\ early' = (early \/ attached = seg)
  /\ UNCHANGED <<systemVars, seg, taken, failed, starts, linkVars, display,
                 attached, frame, presses>>

(* memset() pulls the game from under a display of an earlier client. *)
Shmat ==
  /\ Goto("shmat", "semget")
  /\ memory' = [memory EXCEPT ![seg] = Zero]
  /\ early' = (early \/ attached = seg)
  /\ UNCHANGED <<key, semaphore, dirty, seg, taken, failed, starts, linkVars,
                 display, attached, frame, presses>>

SemgetFails == Fails("semget") /\ key' = 0 /\ UNCHANGED semaphore

Semget ==
  /\ Goto("semget", "setval")
  /\ semaphore' = IF semaphore = -1 THEN 0 ELSE semaphore
  /\ UNCHANGED <<key, memory, dirty, seg, taken, failed, starts, linkVars,
                 displayVars, presses>>

SetvalFails == Fails("setval") /\ key' = 0 /\ UNCHANGED semaphore

Setval ==
  /\ Goto("setval", "open")
  /\ semaphore' = 1
  /\ UNCHANGED <<key, memory, dirty, seg, taken, failed, starts, linkVars,
                 displayVars, presses>>

(* Mutant of OpenFails: the semaphore is forgotten, as it is before. *)
OpenFailsKeepsSemaphore == Fails("open") /\ key' = 0 /\ UNCHANGED semaphore

OpenFails == Fails("open") /\ key' = 0 /\ semaphore' = -1

Open ==
  /\ Goto("open", "id")
  /\ dirty' = TRUE
  /\ UNCHANGED <<key, memory, semaphore, seg, taken, failed, starts, linkVars,
                 displayVars, presses>>
-----------------------------------------------------------------------------
(* main(), from the first message to "ready"                               *)

(* What a send() does: the first one to a server that has closed is        *)
(* answered by a reset, the next one raises SIGPIPE; one to a connection   *)
(* that the server has reset fails.                                        *)
Send(from, to, error) ==
  /\ \/ /\ link \in {"open", "fin"} /\ Goto(from, to)
        /\ link' = IF link = "fin" THEN "pipe" ELSE link
        /\ UNCHANGED <<seg, taken, greetings, times>>
     \/ /\ link = "reset" /\ Goto(from, error)
        /\ link' = "dead"
        /\ UNCHANGED <<seg, taken, greetings, times>>
     \/ /\ link \in {"pipe", "dead"} /\ pc = from
        /\ Exit("killed")
  /\ UNCHANGED <<systemVars, failed, starts, displayVars, presses>>

(* recv() of the number: of the game, of the text of a refusal, or of      *)
(* nothing when the connection ends.                                       *)
ReceiveId ==
  /\ Goto("id", "announceP")
  /\ greetings > 0 \/ link # "open"
  /\ UNCHANGED <<systemVars, seg, taken, failed, starts, linkVars,
                 displayVars, presses>>

P(from, to) ==
  /\ Goto(from, to)
  /\ semaphore > 0
  /\ semaphore' = semaphore - 1
  /\ UNCHANGED <<key, memory, dirty, seg, taken, failed, starts, linkVars,
                 displayVars, presses>>

V(from, to) ==
  /\ Goto(from, to)
  /\ semaphore' = semaphore + 1
  /\ UNCHANGED <<key, memory, dirty, seg, taken, failed, starts, linkVars,
                 displayVars, presses>>

(* Mutant of Announce: only the number is written. *)
AnnounceNoTime ==
  /\ Goto("announce", "announceV")
  /\ UNCHANGED <<systemVars, seg, taken, failed, starts, linkVars,
                 displayVars, presses>>

(* The number, and a clock that is not zero. *)
Announce ==
  /\ Goto("announce", "announceV")
  /\ memory' = [memory EXCEPT ![seg].time = GAMETIME]
  /\ UNCHANGED <<key, semaphore, dirty, seg, taken, failed, starts, linkVars,
                 displayVars, presses>>

Welcome ==
  /\ Goto("welcome", "ready")
  /\ greetings > 1 \/ link # "open"
  /\ UNCHANGED <<systemVars, seg, taken, failed, starts, linkVars,
                 displayVars, presses>>

SendReady == Send("ready", "loop", "loop")
-----------------------------------------------------------------------------
(* main(), the loop                                                        *)

Receive ==
  /\ Goto("loop", "loopP")
  /\ taken < Len(times)
  /\ taken' = taken + 1
  /\ UNCHANGED <<systemVars, seg, failed, starts, linkVars, displayVars,
                 presses>>

(* recv() is -1: there is nothing yet, or the reset of the connection,     *)
(* which is reported once.                                                 *)
ReceiveNothing ==
  /\ Goto("loop", "buttons")
  /\ taken = Len(times)
  /\ link \in {"open", "reset"}
  /\ link' = IF link = "open" THEN "open" ELSE "dead"
  /\ UNCHANGED <<systemVars, seg, taken, failed, starts, greetings, times,
                 displayVars, presses>>

(* Mutant of ReceiveEnd: 0 bytes are taken for nothing yet. *)
ReceiveEndIgnored ==
  /\ Goto("loop", "buttons")
  /\ taken = Len(times)
  /\ link \in {"fin", "pipe", "dead"}
  /\ UNCHANGED <<systemVars, seg, taken, failed, starts, linkVars,
                 displayVars, presses>>

ReceiveEnd ==
  /\ Goto("loop", "clear")
  /\ taken = Len(times)
  /\ link \in {"fin", "pipe", "dead"}
  /\ UNCHANGED <<systemVars, seg, taken, failed, starts, linkVars,
                 displayVars, presses>>

WriteTime ==
  /\ Goto("time", "point")
  /\ memory' = [memory EXCEPT ![seg] = [@ EXCEPT !.time = times[taken], !.of = taken]]
  /\ UNCHANGED <<key, semaphore, dirty, seg, taken, failed, starts, linkVars,
                 displayVars, presses>>

(* diglett[] and point[]. *)
WritePoint ==
  /\ Goto("point", "over")
  /\ memory' = [memory EXCEPT ![seg].point = taken]
  /\ UNCHANGED <<key, semaphore, dirty, seg, taken, failed, starts, linkVars,
                 displayVars, presses>>

(* The break leaves the semaphore taken. *)
GameOver ==
  /\ Goto("over", "clear")
  /\ times[taken] = 0
  /\ UNCHANGED <<systemVars, seg, taken, failed, starts, linkVars,
                 displayVars, presses>>

GameGoesOn == V("over", "buttons") /\ times[taken] # 0

(* Whatever was read, at most the first name in it is sent. *)
ReadButtons ==
  /\ \/ Goto("buttons", "loop") /\ presses = 0 /\ UNCHANGED failed
     \/ Goto("buttons", "send") /\ presses > 0 /\ UNCHANGED failed
     \/ Goto("buttons", "clear") /\ "read" \in CallsFail /\ failed' = "read"
  /\ presses' = 0
  /\ UNCHANGED <<systemVars, seg, taken, starts, linkVars, displayVars>>

SendChoice == Send("send", "loop", "clear")

(* write(etx_fd, "clear") *)
ClearDevice ==
  /\ Goto("clear", "rmshm")
  /\ dirty' = FALSE
  /\ presses' = 0
  /\ UNCHANGED <<key, memory, semaphore, seg, taken, failed, starts, linkVars,
                 displayVars>>

(* The key is free again; who is attached keeps the segment. *)
RemoveShm ==
  /\ Goto("rmshm", "rmsem")
  /\ key' = 0
  /\ UNCHANGED <<memory, semaphore, dirty, seg, taken, failed, starts,
                 linkVars, displayVars, presses>>

RemoveSem ==
  /\ pc = "rmsem"
  /\ Exit("ended")
  /\ semaphore' = -1
  /\ UNCHANGED <<key, memory, dirty, failed, starts, displayVars, presses>>

(* Ctrl + C, at any point. *)
Kill ==
  /\ pc \notin {"off", "ended", "killed"}
  /\ Exit("killed")
  /\ UNCHANGED <<systemVars, failed, starts, displayVars, presses>>
-----------------------------------------------------------------------------
(* Final_game.py: ctypes copies the fields in the order of the struct.     *)

InGame ==
  pc \in {"announceV", "welcome", "ready", "loop", "loopP", "time", "point",
          "over", "buttons", "send", "clear", "rmshm"}

Launch ==
  /\ display = "off"
  /\ key # 0
  /\ display' = "point"
  /\ attached' = key
  /\ early' = ~(InGame /\ key = seg)
  /\ UNCHANGED <<systemVars, pc, seg, taken, failed, starts, linkVars, frame,
                 presses>>

ReadPoint ==
  /\ display = "point"
  /\ display' = "time"
  /\ frame' = [frame EXCEPT !.point = memory[attached].point]
  /\ UNCHANGED <<systemVars, pc, seg, taken, failed, starts, linkVars,
                 attached, early, presses>>

(* The picture, and the end of the game when game_time <= 0. *)
ReadTime ==
  /\ display = "time"
  /\ LET time == memory[attached].time IN
       \/ /\ time > 0
          /\ display' = "point"
          /\ frame' = Zero
       \/ /\ time <= 0
          /\ display' = "gameover"
          /\ frame' = [memory[attached] EXCEPT !.point = frame.point]
  /\ UNCHANGED <<systemVars, pc, seg, taken, failed, starts, linkVars,
                 attached, early, presses>>
-----------------------------------------------------------------------------
(* The server, and the player.                                             *)

(* The game and the welcome, or (first) the text of a refusal. *)
ServerGreets ==
  /\ link = "open" /\ greetings < 2
  /\ pc \notin {"off", "ended", "killed"}
  /\ greetings' = greetings + 1
  /\ UNCHANGED <<systemVars, pc, seg, taken, failed, starts, link, times,
                 displayVars, presses>>

Clock == IF times = <<>> THEN GAMETIME ELSE times[Len(times)]

Playing == InGame /\ pc \notin {"announceV", "welcome", "ready"}

ServerSends ==
  /\ link = "open" /\ Playing
  /\ Len(times) < MaxSnapshots
  /\ \E t \in LastTime .. Clock : times' = Append(times, t)
  /\ UNCHANGED <<systemVars, pc, seg, taken, failed, starts, link, greetings,
                 displayVars, presses>>

(* The server closes; with digits that it has not read this is a reset. *)
ServerCloses ==
  /\ link = "open"
  /\ pc \notin {"off", "ended", "killed"}
  /\ \/ link' = "fin"
     \/ link' = "reset" /\ Playing
  /\ UNCHANGED <<systemVars, pc, seg, taken, failed, starts, greetings, times,
                 displayVars, presses>>

Press ==
  /\ dirty
  /\ presses < MaxPresses
  /\ presses' = presses + 1
  /\ UNCHANGED <<systemVars, pc, seg, taken, failed, starts, linkVars,
                 displayVars>>
-----------------------------------------------------------------------------
SetUp ==
  \/ ShmgetFails \/ Shmget \/ ShmatFails \/ Shmat \/ SemgetFails \/ Semget
  \/ SetvalFails \/ Setval \/ OpenFails \/ Open

Client ==
  \/ SetUp
  \/ ReceiveId \/ P("announceP", "announce") \/ Announce
  \/ V("announceV", "welcome") \/ Welcome \/ SendReady
  \/ Receive \/ ReceiveNothing \/ ReceiveEnd
  \/ P("loopP", "time") \/ WriteTime \/ WritePoint \/ GameOver \/ GameGoesOn
  \/ ReadButtons \/ SendChoice
  \/ ClearDevice \/ RemoveShm \/ RemoveSem

Display == Launch \/ ReadPoint \/ ReadTime

Server == ServerGreets \/ ServerSends \/ ServerCloses

Next == Start \/ Client \/ Kill \/ Display \/ Server \/ Press

Spec == Init /\ [][Next]_vars

(* The client is scheduled, and the server greets who is connected. *)
FairSpec == Spec /\ WF_vars(Client) /\ WF_vars(ServerGreets)
-----------------------------------------------------------------------------
TypeOK ==
  /\ key \in 0 .. MaxStarts /\ seg \in 0 .. MaxStarts
  /\ memory \in [Segment -> [time : Int, of : Nat, point : Nat]]
  /\ semaphore \in {-1, 0, 1}
  /\ dirty \in BOOLEAN
  /\ presses \in 0 .. MaxPresses
  /\ taken \in 0 .. Len(times)
  /\ failed \in CallsFail \cup {"none"}
  /\ starts \in 0 .. MaxStarts
  /\ link \in {"open", "fin", "pipe", "reset", "dead"}
  /\ greetings \in 0 .. 2
  /\ times \in Seq(Int)
  /\ display \in {"off", "point", "time", "gameover"}
  /\ attached \in 0 .. MaxStarts
  /\ frame \in [time : Int, of : Nat, point : Nat]
  /\ early \in BOOLEAN

(* Whenever the semaphore is free the segment holds one whole snapshot,    *)
(* also after clients that were killed while they wrote one (lines         *)
(* 103-116, 188-201): a display that took it would never see two mixed.    *)
WholeSnapshot ==
  semaphore = 1 /\ key # 0 => memory[key].of = memory[key].point

(* A client that ends by itself, wherever it got stuck, leaves nothing of  *)
(* what it has got to the next one: segment, semaphore, device (lines      *)
(* 89-135, 258-277).  The semaphore that SETVAL refused is excepted.       *)
CleanEnd ==
  pc = "ended" =>
    /\ failed # "shmget" => key = 0
    /\ failed \in {"none", "read", "open"} => semaphore = -1
    /\ failed \in {"none", "read"} => ~dirty

(* The display ends the game only when the server has sent a game that is  *)
(* over (Final_game.py 137), if it was started after its client announced  *)
(* the game (line 150) and no other client has come since.                 *)
OverIsOver ==
  display = "gameover" /\ ~early => frame.of > 0

(* When the server closes, or sends the end of the game, the client ends   *)
(* (lines 170-173, 197-200).                                               *)
ClientEnds ==
  (Playing /\ (link # "open" \/ \E i \in taken + 1 .. Len(times) : times[i] = 0))
    ~> pc \in {"ended", "killed", "off"}
=============================================================================
