-------------------------------- MODULE Bank --------------------------------
(***************************************************************************)
(* lab6: a server with one account, a thread per client (handle_client), a *)
(* System V semaphore around the account, and clients that send the same   *)
(* request a number of times, each after the reply to the one before.      *)
(*                                                                         *)
(* The semaphore belongs to the system: it outlives a server that is       *)
(* killed, and only a SIGINT handler removes it.  While that handler runs  *)
(* on the main thread, the others go on.                                   *)
(***************************************************************************)
EXTENDS Integers, FiniteSets

CONSTANTS
  Clients,     \* connections
  Amount,      \* what a client adds with each request: deposit > 0, withdraw < 0
  Times,       \* how many requests each client sends
  MaxStarts    \* bound: how often the server is started

ASSUME BankAssumption ==
  /\ Amount \in [Clients -> Int]
  /\ Times \in Nat /\ MaxStarts \in Nat

(* Ids of semaphores: that of the first in the system, and any other;      *)
(* NoId is what semget returns when it fails.                              *)
Ids == {0, 1}
NoId == -1

VARIABLES
  account,   \* the balance
  semid,     \* id of the system's semaphore, or NoId when there is none
  semaphore, \* its counter
  sem,       \* the server's variable: 0 until semget has returned
  server,    \* "down", "starting" (lines 118-150), "made" (semget was called),
             \* "up" (accepting), "ending" (SIGINT, at line 61)
  starts,    \* how often it has been started
  pc,        \* where the thread of each client is
  seen,      \* the balance the thread has read and will add to
  todo,      \* requests the client has still to send
  booked     \* what this server has been asked for and has done (history)

semVars == <<semid, semaphore>>
serverVars == <<sem, server, starts>>
threadVars == <<account, pc, seen, todo, booked>>
vars == <<semVars, serverVars, threadVars>>

Init ==
  /\ account = 0
  /\ semid = NoId
  /\ semaphore = 0
  /\ sem = 0
  /\ server = "down"
  /\ starts = 0
  /\ pc = [c \in Clients |-> "closed"]
  /\ seen = [c \in Clients |-> 0]
  /\ todo = [c \in Clients |-> Times]
  /\ booked = 0
-----------------------------------------------------------------------------
(* The handler of SIGINT is installed first.  Where the socket fails the   *)
(* server ends, as it does in Kill.                                        *)
Start ==
  /\ server = "down"
  /\ starts < MaxStarts
  /\ server' = "starting"
  /\ starts' = starts + 1
  /\ UNCHANGED <<sem, semVars, threadVars>>

(* semget(IPC_CREAT | IPC_EXCL) fails when the semaphore exists; main()    *)
(* does not look.  A new counter is 0.                                     *)
Semget ==
  /\ server = "starting"
  /\ server' = "made"
  /\ \/ semid = NoId /\ sem' \in Ids /\ semid' = sem' /\ semaphore' = 0
     \/ semid # NoId /\ sem' = NoId /\ UNCHANGED semVars
  /\ UNCHANGED <<starts, threadVars>>

(* The semaphore that the server's calls reach is there. *)
Reached == sem # NoId /\ semid = sem

Setval ==
  /\ server = "made"
  /\ server' = "up"
  /\ semaphore' = IF Reached THEN 1 ELSE semaphore
  /\ UNCHANGED <<semid, sem, starts, threadVars>>

(* Mutant of Interrupt: the semaphore is looked up by its key. *)
InterruptRemovesAny ==
  /\ server \in {"starting", "made", "up"}
  /\ server' = "ending"
  /\ semid' = NoId /\ semaphore' = 0
  /\ UNCHANGED <<sem, starts, threadVars>>

(* handle_signal, up to exit(): IPC_RMID of whatever sem is the id of.     *)
(* Who waits in semop() then fails, and handle_client goes on.  (A second  *)
(* SIGINT stops another thread and finds nothing to remove.)               *)
Interrupt ==
  /\ server \in {"starting", "made", "up"}
  /\ server' = "ending"
  /\ IF Reached THEN semid' = NoId /\ semaphore' = 0 ELSE UNCHANGED semVars
  /\ UNCHANGED <<sem, starts, threadVars>>

(* The server ends, with its account, its threads and its connections. *)
Ends ==
  /\ server' = "down"
  /\ sem' = 0
  /\ account' = 0
  /\ booked' = 0
  /\ pc' = [c \in Clients |-> "closed"]
  /\ seen' = [c \in Clients |-> 0]
  /\ todo' = [c \in Clients |-> Times]
  /\ UNCHANGED <<starts, semVars>>

(* exit() at the end of the handler. *)
Exit == server = "ending" /\ Ends

(* Any other end, the SIGHUP of demo.sh's kill-session among them. *)
Kill == server # "down" /\ Ends
-----------------------------------------------------------------------------
(* A client connects and its thread is created. *)
Connect(c) ==
  /\ server = "up"
  /\ pc[c] = "closed"
  /\ todo[c] = Times
  /\ Times > 0
  /\ pc' = [pc EXCEPT ![c] = "P"]
  /\ UNCHANGED <<account, semVars, serverVars, seen, todo, booked>>

Goto(c, from, to) ==
  /\ server \in {"up", "ending"}
  /\ pc[c] = from
  /\ pc' = [pc EXCEPT ![c] = to]

(* Mutant of P: it lets every thread through. *)
PDoesNotWait(c) ==
  /\ Goto(c, "P", "check")
  /\ UNCHANGED <<account, semVars, serverVars, seen, todo, booked>>

(* P() without a semaphore fails, and handle_client goes on. *)
P(c) ==
  /\ Goto(c, "P", "check")
  /\ Reached => semaphore > 0
  /\ semaphore' = IF Reached THEN semaphore - 1 ELSE semaphore
  /\ UNCHANGED <<account, semid, serverVars, seen, todo, booked>>

(* if (account >= 0) account + amount: the balance is read... *)
Load(c) ==
  /\ Goto(c, "check", "store")
  /\ account >= 0
  /\ seen' = [seen EXCEPT ![c] = account]
  /\ UNCHANGED <<account, semVars, serverVars, todo, booked>>

Frozen(c) ==
  /\ Goto(c, "check", "V")
  /\ account < 0
  /\ UNCHANGED <<account, semVars, serverVars, seen, todo, booked>>

(* ...and written; what was read is not used any more.  A withdrawal below *)
(* zero leaves the loop: close(), and no V().                              *)
Store(c) ==
  /\ account' = seen[c] + Amount[c]
  /\ \/ Goto(c, "store", "V") /\ (Amount[c] >= 0 \/ account' >= 0)
     \/ Goto(c, "store", "closed") /\ Amount[c] < 0 /\ account' < 0
  /\ booked' = booked + Amount[c]
  /\ todo' = IF pc'[c] = "closed" THEN [todo EXCEPT ![c] = 0] ELSE todo
  /\ seen' = [seen EXCEPT ![c] = 0]
  /\ UNCHANGED <<semVars, serverVars>>

(* Mutant of V: the counter is not raised. *)
VDoesNotRelease(c) ==
  /\ Goto(c, "V", "reply")
  /\ UNCHANGED <<account, semVars, serverVars, seen, todo, booked>>

V(c) ==
  /\ Goto(c, "V", "reply")
  /\ semaphore' = IF Reached THEN semaphore + 1 ELSE semaphore
  /\ UNCHANGED <<account, semid, serverVars, seen, todo, booked>>

(* Mutant of Reply: V() follows the answer as well. *)
ReplyReleases(c) ==
  /\ semaphore' = IF Reached THEN semaphore + 1 ELSE semaphore
  /\ todo' = [todo EXCEPT ![c] = @ - 1]
  /\ \/ Goto(c, "reply", "P") /\ todo[c] > 1
     \/ Goto(c, "reply", "closed") /\ todo[c] = 1
  /\ UNCHANGED <<account, semid, serverVars, seen, booked>>

(* The balance is sent, and the client sends its next request or closes. *)
Reply(c) ==
  /\ todo' = [todo EXCEPT ![c] = @ - 1]
  /\ \/ Goto(c, "reply", "P") /\ todo[c] > 1
     \/ Goto(c, "reply", "closed") /\ todo[c] = 1
  /\ UNCHANGED <<account, semVars, serverVars, seen, booked>>
-----------------------------------------------------------------------------
Thread(c) ==
  P(c) \/ Load(c) \/ Frozen(c) \/ Store(c) \/ V(c) \/ Reply(c)

Next ==
  \/ Start \/ Semget \/ Setval \/ Interrupt \/ Exit \/ Kill
  \/ \E c \in Clients : Connect(c) \/ Thread(c)

Spec == Init /\ [][Next]_vars

(* The threads are scheduled, and semop() serves those that wait in turn. *)
FairSpec == Spec /\ \A c \in Clients : SF_vars(Thread(c))
-----------------------------------------------------------------------------
Inside(c) == pc[c] \in {"check", "store", "V"}

(* Types; the semaphore is binary, whatever the number of clients. *)
TypeOK ==
  /\ account \in Int
  /\ semid \in Ids \cup {NoId}
  /\ semaphore \in {0, 1}
  /\ sem \in Ids \cup {NoId}
  /\ server \in {"down", "starting", "made", "up", "ending"}
  /\ starts \in 0 .. MaxStarts
  /\ pc \in [Clients -> {"closed", "P", "check", "store", "V", "reply"}]
  /\ seen \in [Clients -> Int]
  /\ todo \in [Clients -> 0 .. Times]
  /\ booked \in Int

(* The server got a semaphore, and has not been told to end. *)
Guarded == server = "up" /\ sem # NoId

(* No request is lost: the account of a server that got its semaphore is   *)
(* what the requests it has carried out add up to, in whatever order the   *)
(* threads ran (lines 81-105), however the servers before it ended, until  *)
(* Ctrl + C removes the semaphore under the threads (line 60).             *)
NoLostUpdate == Guarded => account = booked

(* "critical section begin ... end" (lines 81-105): one thread at a time,  *)
(* in a server that got its semaphore, until Ctrl + C.                     *)
CriticalSection ==
  Guarded => \A c, d \in Clients : Inside(c) /\ Inside(d) => c = d

(* A server that is killed leaves its semaphore behind, and from then on   *)
(* no server gets one.  Ctrl + C (line 118) does not help: it removes what *)
(* that server has made, or, before line 151, when sem is still 0, the     *)
(* semaphore of that id, which may by chance be the one left behind.       *)
Leaked == semid # NoId /\ ~(server \in {"made", "up"} /\ sem = semid)
LeakStays ==
  [][Leaked => \/ Leaked'
               \/ server = "starting" /\ server' = "ending" /\ semid = 0]_vars

(* "Send the result back to the client" (line 107): whoever asks for the   *)
(* semaphore is answered or told by a close, as long as the server runs    *)
(* and nobody has overdrawn the account: that thread leaves its loop       *)
(* between P() and V() (line 99).                                          *)
RequestsAnswered ==
  \A c \in Clients :
    pc[c] = "P" ~> (pc[c] \in {"reply", "closed"} \/ account < 0)
=============================================================================
