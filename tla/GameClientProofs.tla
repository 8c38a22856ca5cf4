-------------------------- MODULE GameClientProofs --------------------------
(***************************************************************************)
(* For any number of starts, snapshots and presses, and wherever the       *)
(* client fails, is killed or loses its server: a segment whose semaphore  *)
(* is free holds one snapshot, a client that ends by itself leaves nothing *)
(* behind, and the display ends the game when the server did.              *)
(***************************************************************************)
EXTENDS GameClient, TLAPS

(* Where the client is, and whose segment the key leads to. *)
Keys ==
  /\ pc \in {"off", "ended", "killed", "shmget", "shmat", "semget", "setval",
             "open", "id", "announceP", "announce", "announceV", "welcome",
             "ready", "loop", "loopP", "time", "point", "over", "buttons",
             "send", "clear", "rmshm", "rmsem"}
  /\ pc \notin {"off", "ended", "killed", "shmget", "rmsem"} =>
       key = seg /\ seg \in Segment
  /\ key <= starts /\ seg <= starts
  /\ pc = "shmget" => starts \in Segment
  /\ \A s \in Segment :
       s > starts \/ (s = starts /\ pc = "shmget") => memory[s] = Zero

(* The client has the semaphore, or nobody has. *)
Held ==
  /\ pc \in {"announce", "announceV", "time", "point", "over"} => semaphore = 0
  /\ pc \in {"open", "id", "announceP", "welcome", "ready", "loop", "loopP",
             "buttons", "send"} => semaphore = 1

(* A segment is torn only while its client writes, or was killed writing. *)
Whole ==
  /\ WholeSnapshot
  /\ pc \in {"semget", "setval", "announce", "announceV", "over"} =>
       memory[seg].of = memory[seg].point
  /\ pc \in {"point", "over"} => memory[seg].of = taken
  /\ pc \in {"loopP", "time", "point", "over"} => taken > 0

(* What is still there on the way out. *)
Leaving ==
  /\ CleanEnd
  /\ pc \in {"rmshm", "rmsem"} => ~dirty
  /\ pc = "rmsem" => key = 0
  /\ pc \in {"clear", "rmshm", "rmsem"} => failed \in {"none", "read"}
  /\ pc \notin {"clear", "rmshm", "rmsem", "ended", "killed"} => failed = "none"

(* A game that has been announced is on, or is in a snapshot. *)
Announced(s) == memory[s].time > 0 \/ memory[s].of > 0

Seen ==
  /\ InGame => Announced(seg)
  /\ display \in {"point", "time"} => attached \in Segment
  /\ display \in {"point", "time"} /\ ~early => Announced(attached)
  /\ OverIsOver

IInv == TypeOK /\ Keys /\ Held /\ Whole /\ Leaving /\ Seen

LEMMA ZeroType == Zero \in [time : Int, of : Nat, point : Nat]
  BY DEF Zero

LEMMA NoTimes == << >> \in Seq(Int) /\ 0 \in 0 .. Len(<< >>)
  OBVIOUS
-----------------------------------------------------------------------------
(* The set-up *)

LEMMA SetUpKeeps ==
  ASSUME IInv,
         SetUp
  PROVE  IInv'
<1>1. ASSUME ShmgetFails PROVE IInv'
  <2> USE <1>1 DEF ShmgetFails, Fails, Exit, Goto, systemVars, linkVars, displayVars, IInv
  <2>1. TypeOK'
    BY NoTimes, ClientAssumption DEF TypeOK, Keys
  <2>2. Keys'
    BY DEF TypeOK, Keys
  <2>3. Held'
    BY DEF TypeOK, Keys, Held
  <2>4. Whole'
    BY DEF TypeOK, Keys, Held, Whole, WholeSnapshot
  <2>5. Leaving'
    BY DEF TypeOK, Keys, Leaving, CleanEnd
  <2>6. Seen'
    BY DEF TypeOK, Keys, Whole, Seen, Announced, OverIsOver, InGame
  <2> QED  BY <2>1, <2>2, <2>3, <2>4, <2>5, <2>6
<1>2. ASSUME Shmget PROVE IInv'
  <2> USE <1>2 DEF Shmget, Goto, systemVars, linkVars, displayVars, IInv
  <2>1. TypeOK'
    BY ClientAssumption DEF TypeOK, Keys, Whole
  <2>2. Keys'
    BY DEF TypeOK, Keys, Segment
  <2>3. Held'
    BY DEF TypeOK, Keys, Held
  <2>4. Whole'
    BY DEF TypeOK, Keys, Held, Whole, WholeSnapshot, Segment, Zero
  <2>5. Leaving'
    BY DEF TypeOK, Keys, Leaving, CleanEnd
  <2>6. Seen'
    BY DEF TypeOK, Keys, Whole, Seen, Announced, OverIsOver, InGame
  <2> QED  BY <2>1, <2>2, <2>3, <2>4, <2>5, <2>6
<1>3. ASSUME ShmatFails PROVE IInv'
  <2> USE <1>3 DEF ShmatFails, Fails, Exit, Goto, systemVars, linkVars, displayVars, IInv
  <2>1. TypeOK'
    BY NoTimes, ClientAssumption DEF TypeOK, Keys
  <2>2. Keys'
    BY DEF TypeOK, Keys
  <2>3. Held'
    BY DEF TypeOK, Keys, Held
  <2>4. Whole'
    BY DEF TypeOK, Keys, Held, Whole, WholeSnapshot
  <2>5. Leaving'
    BY DEF TypeOK, Keys, Leaving, CleanEnd
  <2>6. Seen'
    BY DEF TypeOK, Keys, Whole, Seen, Announced, OverIsOver, InGame
  <2> QED  BY <2>1, <2>2, <2>3, <2>4, <2>5, <2>6
<1>4. ASSUME Shmat PROVE IInv'
  <2> USE <1>4 DEF Shmat, Goto, systemVars, linkVars, displayVars, IInv
  <2>1. TypeOK'
    <3>1. memory' \in [Segment -> [time : Int, of : Nat, point : Nat]]
      BY ClientAssumption, SMTT(20) DEF TypeOK, Keys, Whole, Segment, Zero
    <3> QED  BY <3>1 DEF TypeOK
  <2>2. Keys'
    BY DEF TypeOK, Keys
  <2>3. Held'
    BY DEF TypeOK, Keys, Held
  <2>4. Whole'
    BY DEF TypeOK, Keys, Held, Whole, WholeSnapshot, Segment, Zero
  <2>5. Leaving'
    BY DEF TypeOK, Keys, Leaving, CleanEnd
  <2>6. Seen'
    BY DEF TypeOK, Keys, Whole, Seen, Announced, OverIsOver, InGame
  <2> QED  BY <2>1, <2>2, <2>3, <2>4, <2>5, <2>6
<1>5. ASSUME SemgetFails PROVE IInv'
  <2> USE <1>5 DEF SemgetFails, Fails, Exit, Goto, systemVars, linkVars, displayVars, IInv
  <2>1. TypeOK'
    BY NoTimes, ClientAssumption DEF TypeOK, Keys
  <2>2. Keys'
    BY DEF TypeOK, Keys
  <2>3. Held'
    BY DEF TypeOK, Keys, Held
  <2>4. Whole'
    BY DEF TypeOK, Keys, Held, Whole, WholeSnapshot
  <2>5. Leaving'
    BY DEF TypeOK, Keys, Leaving, CleanEnd
  <2>6. Seen'
    BY DEF TypeOK, Keys, Whole, Seen, Announced, OverIsOver, InGame
  <2> QED  BY <2>1, <2>2, <2>3, <2>4, <2>5, <2>6
<1>6. ASSUME Semget PROVE IInv'
  <2> USE <1>6 DEF Semget, Goto, systemVars, linkVars, displayVars, IInv
  <2>1. TypeOK'
    BY ClientAssumption DEF TypeOK, Keys, Whole
  <2>2. Keys'
    BY DEF TypeOK, Keys
  <2>3. Held'
    BY DEF TypeOK, Keys, Held
  <2>4. Whole'
    BY DEF TypeOK, Keys, Held, Whole, WholeSnapshot
  <2>5. Leaving'
    BY DEF TypeOK, Keys, Leaving, CleanEnd
  <2>6. Seen'
    BY DEF TypeOK, Keys, Whole, Seen, Announced, OverIsOver, InGame
  <2> QED  BY <2>1, <2>2, <2>3, <2>4, <2>5, <2>6
<1>7. ASSUME SetvalFails PROVE IInv'
  <2> USE <1>7 DEF SetvalFails, Fails, Exit, Goto, systemVars, linkVars, displayVars, IInv
  <2>1. TypeOK'
    BY NoTimes, ClientAssumption DEF TypeOK, Keys
  <2>2. Keys'
    BY DEF TypeOK, Keys
  <2>3. Held'
    BY DEF TypeOK, Keys, Held
  <2>4. Whole'
    BY DEF TypeOK, Keys, Held, Whole, WholeSnapshot
  <2>5. Leaving'
    BY DEF TypeOK, Keys, Leaving, CleanEnd
  <2>6. Seen'
    BY DEF TypeOK, Keys, Whole, Seen, Announced, OverIsOver, InGame
  <2> QED  BY <2>1, <2>2, <2>3, <2>4, <2>5, <2>6
<1>8. ASSUME Setval PROVE IInv'
  <2> USE <1>8 DEF Setval, Goto, systemVars, linkVars, displayVars, IInv
  <2>1. TypeOK'
    BY ClientAssumption DEF TypeOK, Keys, Whole
  <2>2. Keys'
    BY DEF TypeOK, Keys
  <2>3. Held'
    BY DEF TypeOK, Keys, Held
  <2>4. Whole'
    BY DEF TypeOK, Keys, Held, Whole, WholeSnapshot
  <2>5. Leaving'
    BY DEF TypeOK, Keys, Leaving, CleanEnd
  <2>6. Seen'
    BY DEF TypeOK, Keys, Whole, Seen, Announced, OverIsOver, InGame
  <2> QED  BY <2>1, <2>2, <2>3, <2>4, <2>5, <2>6
<1>9. ASSUME OpenFails PROVE IInv'
  <2> USE <1>9 DEF OpenFails, Fails, Exit, Goto, systemVars, linkVars, displayVars, IInv
  <2>1. TypeOK'
    BY NoTimes, ClientAssumption DEF TypeOK, Keys
  <2>2. Keys'
    BY DEF TypeOK, Keys
  <2>3. Held'
    BY DEF TypeOK, Keys, Held
  <2>4. Whole'
    BY DEF TypeOK, Keys, Held, Whole, WholeSnapshot
  <2>5. Leaving'
    BY DEF TypeOK, Keys, Leaving, CleanEnd
  <2>6. Seen'
    BY DEF TypeOK, Keys, Whole, Seen, Announced, OverIsOver, InGame
  <2> QED  BY <2>1, <2>2, <2>3, <2>4, <2>5, <2>6
<1>10. ASSUME Open PROVE IInv'
  <2> USE <1>10 DEF Open, Goto, systemVars, linkVars, displayVars, IInv
  <2>1. TypeOK'
    BY ClientAssumption DEF TypeOK, Keys, Whole
  <2>2. Keys'
    BY DEF TypeOK, Keys
  <2>3. Held'
    BY DEF TypeOK, Keys, Held
  <2>4. Whole'
    BY DEF TypeOK, Keys, Held, Whole, WholeSnapshot
  <2>5. Leaving'
    BY DEF TypeOK, Keys, Leaving, CleanEnd
  <2>6. Seen'
    BY DEF TypeOK, Keys, Whole, Seen, Announced, OverIsOver, InGame
  <2> QED  BY <2>1, <2>2, <2>3, <2>4, <2>5, <2>6
<1> QED  BY <1>1, <1>2, <1>3, <1>4, <1>5, <1>6, <1>7, <1>8, <1>9, <1>10 DEF SetUp
-----------------------------------------------------------------------------
(* From the first message to ready *)

LEMMA GreetingKeeps ==
  ASSUME IInv,
         \/ ReceiveId
         \/ P("announceP", "announce")
         \/ Announce
         \/ V("announceV", "welcome")
         \/ Welcome
         \/ SendReady
  PROVE  IInv'
<1>1. ASSUME ReceiveId PROVE IInv'
  <2> USE <1>1 DEF ReceiveId, Goto, systemVars, linkVars, displayVars, IInv
  <2>1. TypeOK'
    BY ClientAssumption DEF TypeOK, Keys, Whole
  <2>2. Keys'
    BY DEF TypeOK, Keys
  <2>3. Held'
    BY DEF TypeOK, Keys, Held
  <2>4. Whole'
    BY DEF TypeOK, Keys, Held, Whole, WholeSnapshot
  <2>5. Leaving'
    BY DEF TypeOK, Keys, Leaving, CleanEnd
  <2>6. Seen'
    BY DEF TypeOK, Keys, Whole, Seen, Announced, OverIsOver, InGame
  <2> QED  BY <2>1, <2>2, <2>3, <2>4, <2>5, <2>6
<1>2. ASSUME P("announceP", "announce") PROVE IInv'
  <2> USE <1>2 DEF P, Goto, systemVars, linkVars, displayVars, IInv
  <2>1. TypeOK'
    BY ClientAssumption DEF TypeOK, Keys, Whole
  <2>2. Keys'
    BY DEF TypeOK, Keys
  <2>3. Held'
    BY DEF TypeOK, Keys, Held
  <2>4. Whole'
    BY DEF TypeOK, Keys, Held, Whole, WholeSnapshot, Segment
  <2>5. Leaving'
    BY DEF TypeOK, Keys, Leaving, CleanEnd
  <2>6. Seen'
    BY DEF TypeOK, Keys, Whole, Seen, Announced, OverIsOver, InGame
  <2> QED  BY <2>1, <2>2, <2>3, <2>4, <2>5, <2>6
<1>3. ASSUME Announce PROVE IInv'
  <2> USE <1>3 DEF Announce, Goto, systemVars, linkVars, displayVars, IInv
  <2>1. TypeOK'
    <3> DEFINE new == [memory[seg] EXCEPT !.time = GAMETIME]
    <3>1. seg \in Segment /\ memory[seg] \in [time : Int, of : Nat, point : Nat]
      BY DEF TypeOK, Keys
    <3>2. new \in [time : Int, of : Nat, point : Nat]
      <4>1. GAMETIME \in Int
        BY ClientAssumption
      <4> QED  BY <3>1, <4>1
    <3>3. memory' = [memory EXCEPT ![seg] = new]
      OBVIOUS
    <3> HIDE DEF new
    <3>4. memory' \in [Segment -> [time : Int, of : Nat, point : Nat]]
      BY <3>1, <3>2, <3>3 DEF TypeOK
    <3> QED  BY <3>4 DEF TypeOK
  <2>2. Keys'
    BY DEF TypeOK, Keys
  <2>3. Held'
    BY DEF TypeOK, Keys, Held
  <2>4. Whole'
    BY DEF TypeOK, Keys, Held, Whole, WholeSnapshot
  <2>5. Leaving'
    BY DEF TypeOK, Keys, Leaving, CleanEnd
  <2>6. Seen'
    BY ClientAssumption, SMTT(20) DEF TypeOK, Keys, Whole, Seen, Announced, OverIsOver, InGame, Segment
  <2> QED  BY <2>1, <2>2, <2>3, <2>4, <2>5, <2>6
<1>4. ASSUME V("announceV", "welcome") PROVE IInv'
  <2> USE <1>4 DEF V, Goto, systemVars, linkVars, displayVars, IInv
  <2>1. TypeOK'
    BY ClientAssumption DEF TypeOK, Keys, Held
  <2>2. Keys'
    BY DEF TypeOK, Keys
  <2>3. Held'
    BY DEF TypeOK, Keys, Held
  <2>4. Whole'
    BY DEF TypeOK, Keys, Held, Whole, WholeSnapshot
  <2>5. Leaving'
    BY DEF TypeOK, Keys, Leaving, CleanEnd
  <2>6. Seen'
    BY DEF TypeOK, Keys, Whole, Seen, Announced, OverIsOver, InGame
  <2> QED  BY <2>1, <2>2, <2>3, <2>4, <2>5, <2>6
<1>5. ASSUME Welcome PROVE IInv'
  <2> USE <1>5 DEF Welcome, Goto, systemVars, linkVars, displayVars, IInv
  <2>1. TypeOK'
    BY ClientAssumption DEF TypeOK, Keys, Whole
  <2>2. Keys'
    BY DEF TypeOK, Keys
  <2>3. Held'
    BY DEF TypeOK, Keys, Held
  <2>4. Whole'
    BY DEF TypeOK, Keys, Held, Whole, WholeSnapshot
  <2>5. Leaving'
    BY DEF TypeOK, Keys, Leaving, CleanEnd
  <2>6. Seen'
    BY DEF TypeOK, Keys, Whole, Seen, Announced, OverIsOver, InGame
  <2> QED  BY <2>1, <2>2, <2>3, <2>4, <2>5, <2>6
<1>6. ASSUME SendReady PROVE IInv'
  <2> USE <1>6 DEF SendReady, Send, Exit, Goto, systemVars, linkVars, displayVars, IInv
  <2>1. TypeOK'
    <3>1. CASE link \in {"open", "fin"}
      BY <3>1 DEF TypeOK, Keys
    <3>2. CASE link = "reset"
      BY <3>2 DEF TypeOK, Keys
    <3>3. CASE link \in {"pipe", "dead"}
      <4>1. /\ seg' = 0 /\ taken' = 0 /\ link' = "open" /\ greetings' = 0
            /\ times' = << >>
            /\ UNCHANGED <<systemVars, failed, starts, displayVars, presses>>
        BY <3>3
      <4> HIDE <1>6 DEF Send, SendReady, SendChoice
      <4> QED  BY <4>1, NoTimes, ClientAssumption DEF TypeOK
    <3> QED  BY <3>1, <3>2, <3>3 DEF TypeOK
  <2>2. Keys'
    BY DEF TypeOK, Keys
  <2>3. Held'
    BY DEF TypeOK, Keys, Held
  <2>4. Whole'
    BY DEF TypeOK, Keys, Held, Whole, WholeSnapshot
  <2>5. Leaving'
    BY DEF TypeOK, Keys, Leaving, CleanEnd
  <2>6. Seen'
    BY DEF TypeOK, Keys, Whole, Seen, Announced, OverIsOver, InGame
  <2> QED  BY <2>1, <2>2, <2>3, <2>4, <2>5, <2>6
<1> QED  BY <1>1, <1>2, <1>3, <1>4, <1>5, <1>6
-----------------------------------------------------------------------------
(* The loop *)

LEMMA LoopKeeps ==
  ASSUME IInv,
         \/ Receive
         \/ ReceiveNothing
         \/ ReceiveEnd
         \/ P("loopP", "time")
         \/ WriteTime
         \/ WritePoint
         \/ GameOver
         \/ GameGoesOn
         \/ ReadButtons
         \/ SendChoice
         \/ ClearDevice
         \/ RemoveShm
         \/ RemoveSem
  PROVE  IInv'
<1>1. ASSUME Receive PROVE IInv'
  <2> USE <1>1 DEF Receive, Goto, systemVars, linkVars, displayVars, IInv
  <2>1. TypeOK'
    BY ClientAssumption DEF TypeOK, Keys, Whole
  <2>2. Keys'
    BY DEF TypeOK, Keys
  <2>3. Held'
    BY DEF TypeOK, Keys, Held
  <2>4. Whole'
    BY DEF TypeOK, Keys, Held, Whole, WholeSnapshot
  <2>5. Leaving'
    BY DEF TypeOK, Keys, Leaving, CleanEnd
  <2>6. Seen'
    BY DEF TypeOK, Keys, Whole, Seen, Announced, OverIsOver, InGame
  <2> QED  BY <2>1, <2>2, <2>3, <2>4, <2>5, <2>6
<1>2. ASSUME ReceiveNothing PROVE IInv'
  <2> USE <1>2 DEF ReceiveNothing, Goto, systemVars, linkVars, displayVars, IInv
  <2>1. TypeOK'
    BY ClientAssumption DEF TypeOK, Keys, Whole
  <2>2. Keys'
    BY DEF TypeOK, Keys
  <2>3. Held'
    BY DEF TypeOK, Keys, Held
  <2>4. Whole'
    BY DEF TypeOK, Keys, Held, Whole, WholeSnapshot
  <2>5. Leaving'
    BY DEF TypeOK, Keys, Leaving, CleanEnd
  <2>6. Seen'
    BY DEF TypeOK, Keys, Whole, Seen, Announced, OverIsOver, InGame
  <2> QED  BY <2>1, <2>2, <2>3, <2>4, <2>5, <2>6
<1>3. ASSUME ReceiveEnd PROVE IInv'
  <2> USE <1>3 DEF ReceiveEnd, Goto, systemVars, linkVars, displayVars, IInv
  <2>1. TypeOK'
    BY ClientAssumption DEF TypeOK, Keys, Whole
  <2>2. Keys'
    BY DEF TypeOK, Keys
  <2>3. Held'
    BY DEF TypeOK, Keys, Held
  <2>4. Whole'
    BY DEF TypeOK, Keys, Held, Whole, WholeSnapshot
  <2>5. Leaving'
    BY DEF TypeOK, Keys, Leaving, CleanEnd
  <2>6. Seen'
    BY DEF TypeOK, Keys, Whole, Seen, Announced, OverIsOver, InGame
  <2> QED  BY <2>1, <2>2, <2>3, <2>4, <2>5, <2>6
<1>4. ASSUME P("loopP", "time") PROVE IInv'
  <2> USE <1>4 DEF P, Goto, systemVars, linkVars, displayVars, IInv
  <2>1. TypeOK'
    BY ClientAssumption DEF TypeOK, Keys, Whole
  <2>2. Keys'
    BY DEF TypeOK, Keys
  <2>3. Held'
    BY DEF TypeOK, Keys, Held
  <2>4. Whole'
    BY DEF TypeOK, Keys, Held, Whole, WholeSnapshot
  <2>5. Leaving'
    BY DEF TypeOK, Keys, Leaving, CleanEnd
  <2>6. Seen'
    BY DEF TypeOK, Keys, Whole, Seen, Announced, OverIsOver, InGame
  <2> QED  BY <2>1, <2>2, <2>3, <2>4, <2>5, <2>6
<1>5. ASSUME WriteTime PROVE IInv'
  <2> USE <1>5 DEF WriteTime, Goto, systemVars, linkVars, displayVars, IInv
  <2>1. TypeOK'
    <3> DEFINE new == [memory[seg] EXCEPT !.time = times[taken], !.of = taken]
    <3>1. /\ seg \in Segment /\ taken \in Nat /\ times[taken] \in Int
          /\ memory[seg] \in [time : Int, of : Nat, point : Nat]
      BY SMTT(20) DEF TypeOK, Keys, Whole
    <3>2. new \in [time : Int, of : Nat, point : Nat]
      BY <3>1
    <3>3. memory' = [memory EXCEPT ![seg] = new]
      OBVIOUS
    <3> HIDE DEF new
    <3>4. memory' \in [Segment -> [time : Int, of : Nat, point : Nat]]
      BY <3>1, <3>2, <3>3 DEF TypeOK
    <3> QED  BY <3>4 DEF TypeOK
  <2>2. Keys'
    BY DEF TypeOK, Keys
  <2>3. Held'
    BY DEF TypeOK, Keys, Held
  <2>4. Whole'
    BY DEF TypeOK, Keys, Held, Whole, WholeSnapshot
  <2>5. Leaving'
    BY DEF TypeOK, Keys, Leaving, CleanEnd
  <2>6. Seen'
    BY DEF TypeOK, Keys, Whole, Seen, Announced, OverIsOver, InGame
  <2> QED  BY <2>1, <2>2, <2>3, <2>4, <2>5, <2>6
<1>6. ASSUME WritePoint PROVE IInv'
  <2> USE <1>6 DEF WritePoint, Goto, systemVars, linkVars, displayVars, IInv
  <2>1. TypeOK'
    <3>1. memory' \in [Segment -> [time : Int, of : Nat, point : Nat]]
      BY ClientAssumption DEF TypeOK, Keys, Whole, Segment, Zero
    <3> QED  BY <3>1 DEF TypeOK
  <2>2. Keys'
    BY DEF TypeOK, Keys
  <2>3. Held'
    BY DEF TypeOK, Keys, Held
  <2>4. Whole'
    BY DEF TypeOK, Keys, Held, Whole, WholeSnapshot
  <2>5. Leaving'
    BY DEF TypeOK, Keys, Leaving, CleanEnd
  <2>6. Seen'
    BY DEF TypeOK, Keys, Whole, Seen, Announced, OverIsOver, InGame
  <2> QED  BY <2>1, <2>2, <2>3, <2>4, <2>5, <2>6
<1>7. ASSUME GameOver PROVE IInv'
  <2> USE <1>7 DEF GameOver, Goto, systemVars, linkVars, displayVars, IInv
  <2>1. TypeOK'
    BY ClientAssumption DEF TypeOK, Keys, Whole
  <2>2. Keys'
    BY DEF TypeOK, Keys
  <2>3. Held'
    BY DEF TypeOK, Keys, Held
  <2>4. Whole'
    BY DEF TypeOK, Keys, Held, Whole, WholeSnapshot
  <2>5. Leaving'
    BY DEF TypeOK, Keys, Leaving, CleanEnd
  <2>6. Seen'
    BY DEF TypeOK, Keys, Whole, Seen, Announced, OverIsOver, InGame
  <2> QED  BY <2>1, <2>2, <2>3, <2>4, <2>5, <2>6
<1>8. ASSUME GameGoesOn PROVE IInv'
  <2> USE <1>8 DEF GameGoesOn, V, Goto, systemVars, linkVars, displayVars, IInv
  <2>1. TypeOK'
    BY ClientAssumption DEF TypeOK, Keys, Held
  <2>2. Keys'
    BY DEF TypeOK, Keys
  <2>3. Held'
    BY DEF TypeOK, Keys, Held
  <2>4. Whole'
    BY DEF TypeOK, Keys, Held, Whole, WholeSnapshot
  <2>5. Leaving'
    BY DEF TypeOK, Keys, Leaving, CleanEnd
  <2>6. Seen'
    BY DEF TypeOK, Keys, Whole, Seen, Announced, OverIsOver, InGame
  <2> QED  BY <2>1, <2>2, <2>3, <2>4, <2>5, <2>6
<1>9. ASSUME ReadButtons PROVE IInv'
  <2> USE <1>9 DEF ReadButtons, Goto, systemVars, linkVars, displayVars, IInv
  <2>1. TypeOK'
    BY ClientAssumption DEF TypeOK, Keys, Whole
  <2>2. Keys'
    BY DEF TypeOK, Keys
  <2>3. Held'
    BY DEF TypeOK, Keys, Held
  <2>4. Whole'
    BY DEF TypeOK, Keys, Held, Whole, WholeSnapshot
  <2>5. Leaving'
    BY DEF TypeOK, Keys, Leaving, CleanEnd
  <2>6. Seen'
    BY DEF TypeOK, Keys, Whole, Seen, Announced, OverIsOver, InGame
  <2> QED  BY <2>1, <2>2, <2>3, <2>4, <2>5, <2>6
<1>10. ASSUME SendChoice PROVE IInv'
  <2> USE <1>10 DEF SendChoice, Send, Exit, Goto, systemVars, linkVars, displayVars, IInv
  <2>1. TypeOK'
    <3>1. CASE link \in {"open", "fin"}
      BY <3>1 DEF TypeOK, Keys
    <3>2. CASE link = "reset"
      BY <3>2 DEF TypeOK, Keys
    <3>3. CASE link \in {"pipe", "dead"}
      <4>1. /\ seg' = 0 /\ taken' = 0 /\ link' = "open" /\ greetings' = 0
            /\ times' = << >>
            /\ UNCHANGED <<systemVars, failed, starts, displayVars, presses>>
        BY <3>3
      <4> HIDE <1>10 DEF Send, SendReady, SendChoice
      <4> QED  BY <4>1, NoTimes, ClientAssumption DEF TypeOK
    <3> QED  BY <3>1, <3>2, <3>3 DEF TypeOK
  <2>2. Keys'
    BY SMTT(20) DEF TypeOK, Keys
  <2>3. Held'
    BY DEF TypeOK, Keys, Held
  <2>4. Whole'
    BY DEF TypeOK, Keys, Held, Whole, WholeSnapshot
  <2>5. Leaving'
    BY DEF TypeOK, Keys, Leaving, CleanEnd
  <2>6. Seen'
    BY DEF TypeOK, Keys, Whole, Seen, Announced, OverIsOver, InGame
  <2> QED  BY <2>1, <2>2, <2>3, <2>4, <2>5, <2>6
<1>11. ASSUME ClearDevice PROVE IInv'
  <2> USE <1>11 DEF ClearDevice, Goto, systemVars, linkVars, displayVars, IInv
  <2>1. TypeOK'
    <3>1. dirty' \in BOOLEAN
      BY Zenon
    <3>2. presses' \in 0 .. MaxPresses
      BY ClientAssumption
    <3> QED  BY <3>1, <3>2 DEF TypeOK
  <2>2. Keys'
    BY DEF TypeOK, Keys
  <2>3. Held'
    BY DEF TypeOK, Keys, Held
  <2>4. Whole'
    BY DEF TypeOK, Keys, Held, Whole, WholeSnapshot
  <2>5. Leaving'
    BY DEF TypeOK, Keys, Leaving, CleanEnd
  <2>6. Seen'
    BY DEF TypeOK, Keys, Whole, Seen, Announced, OverIsOver, InGame
  <2> QED  BY <2>1, <2>2, <2>3, <2>4, <2>5, <2>6
<1>12. ASSUME RemoveShm PROVE IInv'
  <2> USE <1>12 DEF RemoveShm, Goto, systemVars, linkVars, displayVars, IInv
  <2>1. TypeOK'
    BY ClientAssumption DEF TypeOK, Keys, Whole
  <2>2. Keys'
    BY DEF TypeOK, Keys
  <2>3. Held'
    BY DEF TypeOK, Keys, Held
  <2>4. Whole'
    BY DEF TypeOK, Keys, Held, Whole, WholeSnapshot
  <2>5. Leaving'
    BY DEF TypeOK, Keys, Leaving, CleanEnd
  <2>6. Seen'
    BY DEF TypeOK, Keys, Whole, Seen, Announced, OverIsOver, InGame
  <2> QED  BY <2>1, <2>2, <2>3, <2>4, <2>5, <2>6
<1>13. ASSUME RemoveSem PROVE IInv'
  <2> USE <1>13 DEF RemoveSem, Exit, Goto, systemVars, linkVars, displayVars, IInv
  <2>1. TypeOK'
    BY NoTimes, ClientAssumption DEF TypeOK, Keys
  <2>2. Keys'
    BY DEF TypeOK, Keys
  <2>3. Held'
    BY DEF TypeOK, Keys, Held
  <2>4. Whole'
    BY DEF TypeOK, Keys, Held, Whole, WholeSnapshot
  <2>5. Leaving'
    BY DEF TypeOK, Keys, Leaving, CleanEnd
  <2>6. Seen'
    BY DEF TypeOK, Keys, Whole, Seen, Announced, OverIsOver, InGame
  <2> QED  BY <2>1, <2>2, <2>3, <2>4, <2>5, <2>6
<1> QED  BY <1>1, <1>2, <1>3, <1>4, <1>5, <1>6, <1>7, <1>8, <1>9, <1>10, <1>11, <1>12, <1>13
-----------------------------------------------------------------------------
(* The display *)

LEMMA DisplayKeeps ==
  ASSUME IInv,
         Display
  PROVE  IInv'
<1>1. ASSUME Launch PROVE IInv'
  <2> USE <1>1 DEF Launch, Goto, systemVars, linkVars, displayVars, IInv
  <2>1. TypeOK'
    BY ClientAssumption DEF TypeOK, Keys, Whole
  <2>2. Keys'
    BY DEF TypeOK, Keys
  <2>3. Held'
    BY DEF TypeOK, Keys, Held
  <2>4. Whole'
    BY DEF TypeOK, Keys, Held, Whole, WholeSnapshot
  <2>5. Leaving'
    BY DEF TypeOK, Keys, Leaving, CleanEnd
  <2>6. Seen'
    <3>1. attached' = key /\ key \in Segment /\ display' = "point"
      BY DEF TypeOK, Segment
    <3>2. ~early' => InGame /\ key = seg
      OBVIOUS
    <3>3. InGame' => InGame
      BY DEF InGame
    <3> HIDE DEF Launch
    <3>4. UNCHANGED <<memory, seg>>
      BY DEF Launch
    <3> QED  BY <3>1, <3>2, <3>3, <3>4 DEF Seen, Announced, OverIsOver
  <2> QED  BY <2>1, <2>2, <2>3, <2>4, <2>5, <2>6
<1>2. ASSUME ReadPoint PROVE IInv'
  <2> USE <1>2 DEF ReadPoint, Goto, systemVars, linkVars, displayVars, IInv
  <2>1. TypeOK'
    <3>1. attached \in Segment /\ memory[attached] \in [time : Int, of : Nat, point : Nat]
      BY DEF TypeOK, Seen
    <3>2. frame' \in [time : Int, of : Nat, point : Nat]
      BY <3>1, ZeroType DEF TypeOK
    <3> QED  BY <3>2 DEF TypeOK
  <2>2. Keys'
    BY DEF TypeOK, Keys
  <2>3. Held'
    BY DEF TypeOK, Keys, Held
  <2>4. Whole'
    BY DEF TypeOK, Keys, Held, Whole, WholeSnapshot
  <2>5. Leaving'
    BY DEF TypeOK, Keys, Leaving, CleanEnd
  <2>6. Seen'
    BY DEF TypeOK, Keys, Whole, Seen, Announced, OverIsOver, InGame
  <2> QED  BY <2>1, <2>2, <2>3, <2>4, <2>5, <2>6
<1>3. ASSUME ReadTime PROVE IInv'
  <2> USE <1>3 DEF ReadTime, Goto, systemVars, linkVars, displayVars, IInv
  <2>1. TypeOK'
    <3>1. attached \in Segment /\ memory[attached] \in [time : Int, of : Nat, point : Nat]
      BY DEF TypeOK, Seen
    <3>2. frame' \in [time : Int, of : Nat, point : Nat]
      BY <3>1, ZeroType DEF TypeOK
    <3> QED  BY <3>2 DEF TypeOK
  <2>2. Keys'
    BY DEF TypeOK, Keys
  <2>3. Held'
    BY DEF TypeOK, Keys, Held
  <2>4. Whole'
    BY DEF TypeOK, Keys, Held, Whole, WholeSnapshot
  <2>5. Leaving'
    BY DEF TypeOK, Keys, Leaving, CleanEnd
  <2>6. Seen'
    <3>1. attached \in Segment /\ memory[attached] \in [time : Int, of : Nat, point : Nat]
      BY DEF TypeOK, Seen
    <3>2. CASE memory[attached].time > 0
      BY <3>1, <3>2 DEF Seen, Announced, OverIsOver, InGame
    <3>3. CASE ~(memory[attached].time > 0)
      <4>1. display' = "gameover" /\ frame'.of = memory[attached].of
        BY <3>1, <3>3
      <4>2. ~early => memory[attached].of > 0
        BY <3>1, <3>3 DEF Seen, Announced
      <4> QED  BY <4>1, <4>2 DEF Seen, Announced, OverIsOver, InGame
    <3> QED  BY <3>2, <3>3
  <2> QED  BY <2>1, <2>2, <2>3, <2>4, <2>5, <2>6
<1> QED  BY <1>1, <1>2, <1>3 DEF Display
-----------------------------------------------------------------------------
(* Starts, kills, the server and the player *)

LEMMA OthersKeep ==
  ASSUME IInv,
         \/ Start
         \/ Kill
         \/ ServerGreets
         \/ ServerSends
         \/ ServerCloses
         \/ Press
         \/ UNCHANGED vars
  PROVE  IInv'
<1>1. ASSUME Start PROVE IInv'
  <2> USE <1>1 DEF Start, Goto, systemVars, linkVars, displayVars, IInv
  <2>1. TypeOK'
    BY ClientAssumption DEF TypeOK, Keys, Whole
  <2>2. Keys'
    <3>1. /\ starts \in Nat /\ starts' = starts + 1 /\ starts' \in Segment
          /\ pc' = "shmget" /\ UNCHANGED <<key, seg, memory>>
      BY ClientAssumption DEF TypeOK, Segment
    <3>2. \A s \in Segment : s >= starts' => s > starts
      BY <3>1 DEF Segment
    <3>3. \A s \in Segment : s >= starts' => memory[s] = Zero
      BY <3>2 DEF Keys
    <3>4. key' <= starts' /\ seg' <= starts'
      BY <3>1 DEF TypeOK, Keys
    <3> HIDE <1>1
    <3>5. \A s \in Segment : s > starts' \/ s = starts' => s >= starts'
      BY <3>1 DEF Segment
    <3> QED  BY <3>1, <3>3, <3>4, <3>5 DEF Keys
  <2>3. Held'
    BY DEF TypeOK, Keys, Held
  <2>4. Whole'
    BY DEF TypeOK, Keys, Held, Whole, WholeSnapshot
  <2>5. Leaving'
    BY DEF TypeOK, Keys, Leaving, CleanEnd
  <2>6. Seen'
    BY DEF TypeOK, Keys, Whole, Seen, Announced, OverIsOver, InGame
  <2> QED  BY <2>1, <2>2, <2>3, <2>4, <2>5, <2>6
<1>2. ASSUME Kill PROVE IInv'
  <2> USE <1>2 DEF Kill, Exit, Goto, systemVars, linkVars, displayVars, IInv
  <2>1. TypeOK'
    BY NoTimes, ClientAssumption DEF TypeOK, Keys
  <2>2. Keys'
    BY DEF TypeOK, Keys
  <2>3. Held'
    BY DEF TypeOK, Keys, Held
  <2>4. Whole'
    BY DEF TypeOK, Keys, Held, Whole, WholeSnapshot
  <2>5. Leaving'
    BY DEF TypeOK, Keys, Leaving, CleanEnd
  <2>6. Seen'
    BY DEF TypeOK, Keys, Whole, Seen, Announced, OverIsOver, InGame
  <2> QED  BY <2>1, <2>2, <2>3, <2>4, <2>5, <2>6
<1>3. ASSUME ServerGreets PROVE IInv'
  <2> USE <1>3 DEF ServerGreets, Goto, systemVars, linkVars, displayVars, IInv
  <2>1. TypeOK'
    BY ClientAssumption DEF TypeOK, Keys, Whole
  <2>2. Keys'
    BY DEF TypeOK, Keys
  <2>3. Held'
    BY DEF TypeOK, Keys, Held
  <2>4. Whole'
    BY DEF TypeOK, Keys, Held, Whole, WholeSnapshot
  <2>5. Leaving'
    BY DEF TypeOK, Keys, Leaving, CleanEnd
  <2>6. Seen'
    BY DEF TypeOK, Keys, Whole, Seen, Announced, OverIsOver, InGame
  <2> QED  BY <2>1, <2>2, <2>3, <2>4, <2>5, <2>6
<1>4. ASSUME ServerSends PROVE IInv'
  <2> USE <1>4 DEF ServerSends, Goto, systemVars, linkVars, displayVars, IInv
  <2>1. TypeOK'
    BY ClientAssumption DEF TypeOK, Keys, Whole
  <2>2. Keys'
    BY DEF TypeOK, Keys
  <2>3. Held'
    BY DEF TypeOK, Keys, Held
  <2>4. Whole'
    BY DEF TypeOK, Keys, Held, Whole, WholeSnapshot
  <2>5. Leaving'
    BY DEF TypeOK, Keys, Leaving, CleanEnd
  <2>6. Seen'
    BY DEF TypeOK, Keys, Whole, Seen, Announced, OverIsOver, InGame
  <2> QED  BY <2>1, <2>2, <2>3, <2>4, <2>5, <2>6
<1>5. ASSUME ServerCloses PROVE IInv'
  <2> USE <1>5 DEF ServerCloses, Goto, systemVars, linkVars, displayVars, IInv
  <2>1. TypeOK'
    BY ClientAssumption DEF TypeOK, Keys, Whole
  <2>2. Keys'
    BY DEF TypeOK, Keys
  <2>3. Held'
    BY DEF TypeOK, Keys, Held
  <2>4. Whole'
    BY DEF TypeOK, Keys, Held, Whole, WholeSnapshot
  <2>5. Leaving'
    BY DEF TypeOK, Keys, Leaving, CleanEnd
  <2>6. Seen'
    BY DEF TypeOK, Keys, Whole, Seen, Announced, OverIsOver, InGame
  <2> QED  BY <2>1, <2>2, <2>3, <2>4, <2>5, <2>6
<1>6. ASSUME Press PROVE IInv'
  <2> USE <1>6 DEF Press, Goto, systemVars, linkVars, displayVars, IInv
  <2>1. TypeOK'
    BY ClientAssumption DEF TypeOK, Keys, Whole
  <2>2. Keys'
    BY DEF TypeOK, Keys
  <2>3. Held'
    BY DEF TypeOK, Keys, Held
  <2>4. Whole'
    BY DEF TypeOK, Keys, Held, Whole, WholeSnapshot
  <2>5. Leaving'
    BY DEF TypeOK, Keys, Leaving, CleanEnd
  <2>6. Seen'
    BY DEF TypeOK, Keys, Whole, Seen, Announced, OverIsOver, InGame
  <2> QED  BY <2>1, <2>2, <2>3, <2>4, <2>5, <2>6
<1>7. ASSUME UNCHANGED vars PROVE IInv'
  <2> USE <1>7 DEF vars, Goto, systemVars, linkVars, displayVars, IInv
  <2>1. TypeOK'
    BY ClientAssumption DEF TypeOK, Keys, Whole
  <2>2. Keys'
    BY DEF TypeOK, Keys
  <2>3. Held'
    BY DEF TypeOK, Keys, Held
  <2>4. Whole'
    BY DEF TypeOK, Keys, Held, Whole, WholeSnapshot
  <2>5. Leaving'
    BY DEF TypeOK, Keys, Leaving, CleanEnd
  <2>6. Seen'
    BY DEF TypeOK, Keys, Whole, Seen, Announced, OverIsOver, InGame
  <2> QED  BY <2>1, <2>2, <2>3, <2>4, <2>5, <2>6
<1> QED  BY <1>1, <1>2, <1>3, <1>4, <1>5, <1>6, <1>7
-----------------------------------------------------------------------------
(* The inductive invariant holds however the client ends and starts again. *)
THEOREM ClientInvariant == Spec => []IInv
<1>1. Init => IInv
  <2> SUFFICES ASSUME Init PROVE IInv
    OBVIOUS
  <2> USE ClientAssumption DEF Init
  <2>1. TypeOK
    <3>1. dirty \in BOOLEAN /\ early \in BOOLEAN
      BY Zenon
    <3>2. memory \in [Segment -> [time : Int, of : Nat, point : Nat]]
      BY ZeroType
    <3> QED  BY <3>1, <3>2, ZeroType, NoTimes DEF TypeOK
  <2>2. Keys /\ Held
    BY DEF Keys, Held
  <2>3. Whole /\ Leaving
    BY DEF Whole, WholeSnapshot, Leaving, CleanEnd
  <2>4. Seen
    BY DEF Seen, InGame, OverIsOver
  <2> QED  BY <2>1, <2>2, <2>3, <2>4 DEF IInv
<1>2. IInv /\ [Next]_vars => IInv'
  <2> SUFFICES ASSUME IInv, [Next]_vars PROVE IInv'
    OBVIOUS
  <2>1. CASE SetUp
    BY <2>1, SetUpKeeps
  <2>2. CASE Client /\ ~SetUp
    BY <2>2, GreetingKeeps, LoopKeeps DEF Client
  <2>3. CASE Display
    BY <2>3, DisplayKeeps
  <2>4. CASE Start \/ Kill \/ Server \/ Press \/ UNCHANGED vars
    BY <2>4, OthersKeep DEF Server
  <2> QED  BY <2>1, <2>2, <2>3, <2>4 DEF Next
<1> QED  BY <1>1, <1>2, PTL DEF Spec

(* The variables have their types; the semaphore is 0, 1 or not there,     *)
(* whatever V() a killed client leaves out (lines 103-116).                *)
THEOREM ClientTypes == Spec => []TypeOK
<1>1. IInv => TypeOK
  BY DEF IInv
<1> QED  BY <1>1, ClientInvariant, PTL

(* A free semaphore is that of a whole snapshot (lines 103-116, 188-201).  *)
THEOREM ClientWholeSnapshot == Spec => []WholeSnapshot
<1>1. IInv => WholeSnapshot
  BY DEF IInv, Whole
<1> QED  BY <1>1, ClientInvariant, PTL

(* A client that ends by itself leaves nothing (lines 89-135, 258-277).    *)
THEOREM ClientCleanEnd == Spec => []CleanEnd
<1>1. IInv => CleanEnd
  BY DEF IInv, Leaving
<1> QED  BY <1>1, ClientInvariant, PTL

(* The display ends the game when the server has (Final_game.py 137, 150). *)
THEOREM ClientOverIsOver == Spec => []OverIsOver
<1>1. IInv => OverIsOver
  BY DEF IInv, Seen
<1> QED  BY <1>1, ClientInvariant, PTL

=============================================================================
