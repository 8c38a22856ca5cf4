----------------------------- MODULE GameLobby -----------------------------
(***************************************************************************)
(* Final_server.c up to the start of a round: main() accepts connections,  *)
(* gives each a slot and a thread; the thread (client_handler) greets the  *)
(* client, waits for its "ready" and then at the barrier for the others.   *)
(* GameRound takes over where this module ends.                            *)
(*                                                                         *)
(* Before the barrier opens main() is the only thread that takes the       *)
(* mutex, so its critical section (lines 116-131) is one step.             *)
(***************************************************************************)
EXTENDS Integers, Sequences, FiniteSets

CONSTANTS
  Clients,       \* programs that connect to the server
  MAX_PLAYER,    \* slots (3 in the source)
  Unreliable,    \* clients that may leave, or say something else than ready
  MallocFails,   \* whether malloc may fail
  CreateFails,   \* whether pthread_create may fail
  NoClient       \* no client

ASSUME LobbyAssumption ==
  /\ MAX_PLAYER \in Nat \ {0}
  /\ Unreliable \subseteq Clients
  /\ MallocFails \in BOOLEAN /\ CreateFails \in BOOLEAN
  /\ NoClient \notin Clients

Slot == 0 .. MAX_PLAYER - 1

VARIABLES
  player_num,   \* game.player_num
  nowPlaying,   \* game.nowPlaying
  socket_list,  \* the client whose socket stands in each slot
  mainPc,       \* where main() is in its loop
  current,      \* the client main() is dealing with
  record,       \* the thread_info allocated for each client
  id,           \* thread_info.id of each client
  thread,       \* where the thread of each client is
  conn,         \* state of each connection
  said,         \* what the client has said
  sent,         \* what the client has been sent
  killed        \* how the process ended, or "no"

mainVars   == <<mainPc, current>>
gameVars   == <<player_num, nowPlaying, socket_list>>
clientVars == <<conn, said>>
vars == <<gameVars, mainVars, record, id, thread, clientVars, sent, killed>>

Init ==
  /\ player_num = 0
  /\ nowPlaying = FALSE
  /\ socket_list = [s \in Slot |-> NoClient]
  /\ mainPc = "accept"
  /\ current = NoClient
  /\ record = [c \in Clients |-> "none"]
  /\ id = [c \in Clients |-> 0]
  /\ thread = [c \in Clients |-> "none"]
  /\ conn = [c \in Clients |-> "away"]
  /\ said = [c \in Clients |-> "nothing"]
  /\ sent = [c \in Clients |-> << >>]
  /\ killed = "no"

Game(n)  == [kind |-> "game", player_num |-> n]
Welcome  == [kind |-> "welcome", player_num |-> 0]
Full     == [kind |-> "full", player_num |-> 0]

(* send() to c: a first one to a peer that has left draws a reset, and the *)
(* next one raises SIGPIPE.                                                *)
Send(c, m) ==
  \/ /\ conn[c] = "open"
     /\ sent' = [sent EXCEPT ![c] = Append(@, m)]
     /\ UNCHANGED <<conn, killed>>
  \/ /\ conn[c] = "left"
     /\ conn' = [conn EXCEPT ![c] = "reset"]
     /\ UNCHANGED <<sent, killed>>
  \/ /\ conn[c] = "reset"
     /\ killed' = "SIGPIPE"
     /\ UNCHANGED <<sent, conn>>
-----------------------------------------------------------------------------
(* main()                                                                  *)

MainAt(from, to) ==
  /\ killed = "no"
  /\ mainPc = from
  /\ mainPc' = to

Close(c) == conn' = [conn EXCEPT ![c] = "closed"]
Free(c)  == record' = [record EXCEPT ![c] = "freed"]

Accept(c) ==
  /\ MainAt("accept", "alloc")
  /\ conn[c] \in {"queued", "queued_left"}
  /\ conn' = [conn EXCEPT ![c] = IF @ = "queued" THEN "open" ELSE "left"]
  /\ current' = c
  /\ UNCHANGED <<gameVars, record, id, thread, said, sent, killed>>

Allocate ==
  /\ MainAt("alloc", "admit")
  /\ record' = [record EXCEPT ![current] = "live"]
  /\ UNCHANGED <<gameVars, current, id, thread, clientVars, sent, killed>>

AllocateFails ==
  /\ MallocFails
  /\ MainAt("alloc", "accept")
  /\ Close(current)
  /\ UNCHANGED <<gameVars, current, record, id, thread, said, sent, killed>>

(* Mutant of Refuse: neither the message nor the close. *)
RefuseSilently ==
  /\ MainAt("admit", "accept")
  /\ player_num >= MAX_PLAYER
  /\ Free(current)
  /\ UNCHANGED <<gameVars, current, id, thread, clientVars, sent, killed>>

(* Send(Full) and close(): only what arrived before the close matters. *)
Refuse ==
  /\ MainAt("admit", "accept")
  /\ player_num >= MAX_PLAYER
  /\ sent' = [sent EXCEPT ![current] =
                IF conn[current] = "open" THEN Append(@, Full) ELSE @]
  /\ Close(current)
  /\ Free(current)
  /\ UNCHANGED <<gameVars, current, id, thread, said, killed>>

(* Mutant of Admit: the number of players is not counted up. *)
AdmitUncounted ==
  /\ MainAt("admit", "send")
  /\ player_num < MAX_PLAYER
  /\ id' = [id EXCEPT ![current] = player_num]
  /\ socket_list' = [socket_list EXCEPT ![player_num] = current]
  /\ UNCHANGED <<player_num, nowPlaying, current, record, thread, clientVars,
                 sent, killed>>

Admit ==
  /\ MainAt("admit", "send")
  /\ player_num < MAX_PLAYER
  /\ id' = [id EXCEPT ![current] = player_num]
  /\ socket_list' = [socket_list EXCEPT ![player_num] = current]
  /\ player_num' = player_num + 1
  /\ UNCHANGED <<nowPlaying, current, record, thread, clientVars, sent, killed>>

(* The player learns its number from game.player_num. *)
SendGame ==
  /\ MainAt("send", "create")
  /\ Send(current, Game(player_num))
  /\ UNCHANGED <<gameVars, current, record, id, thread, said>>

Create ==
  /\ MainAt("create", "detach")
  /\ thread' = [thread EXCEPT ![current] = "greet"]
  /\ UNCHANGED <<gameVars, current, record, id, clientVars, sent, killed>>

CreationFails ==
  /\ CreateFails
  /\ MainAt("create", "accept")
  /\ Close(current)
  /\ Free(current)
  /\ UNCHANGED <<gameVars, current, id, thread, said, sent, killed>>

(* pthread_detach(thread_list[thread->id]).  When the thread has freed the *)
(* record already, id is whatever the allocator left there: the index may  *)
(* hit anything, and the process may crash.                                *)
Detach ==
  /\ MainAt("detach", "accept")
  /\ \/ UNCHANGED killed
     \/ record[current] = "freed" /\ killed' = "crash"
  /\ UNCHANGED <<gameVars, current, record, id, thread, clientVars, sent>>
-----------------------------------------------------------------------------
(* client_handler(), up to the start of the round                          *)

At(c, from, to) ==
  /\ killed = "no"
  /\ thread[c] = from
  /\ thread' = [thread EXCEPT ![c] = to]

Greet(c) ==
  /\ At(c, "greet", "listen")
  /\ Send(c, Welcome)
  /\ UNCHANGED <<gameVars, mainVars, record, id, said>>

(* recv() fails, ends, or yields something that is not "ready". *)
NotReady(c) ==
  /\ At(c, "listen", "gone")
  /\ said[c] = "other" \/ (said[c] = "nothing" /\ conn[c] \in {"left", "reset"})
  /\ Close(c)
  /\ Free(c)
  /\ UNCHANGED <<gameVars, mainVars, id, said, sent, killed>>

(* Mutant of ArriveBarrier: whatever the client said is taken for ready. *)
ArriveBarrierAnyhow(c) ==
  /\ At(c, "listen", "barrier")
  /\ said[c] # "nothing"
  /\ UNCHANGED <<gameVars, mainVars, record, id, clientVars, sent, killed>>

(* Mutant of ArriveBarrier: the thread has copied its record and frees it. *)
ArriveBarrierFrees(c) ==
  /\ At(c, "listen", "barrier")
  /\ said[c] = "ready"
  /\ Free(c)
  /\ UNCHANGED <<gameVars, mainVars, id, clientVars, sent, killed>>

ArriveBarrier(c) ==
  /\ At(c, "listen", "barrier")
  /\ said[c] = "ready"
  /\ UNCHANGED <<gameVars, mainVars, record, id, clientVars, sent, killed>>

(* ready_barrier lets MAX_PLAYER threads go at once. *)
Waiting == {c \in Clients : thread[c] = "barrier"}

(* Mutant of BarrierOpens: it waits for one thread more. *)
BarrierOpensLate ==
  /\ killed = "no"
  /\ Cardinality(Waiting) > MAX_PLAYER
  /\ thread' = [c \in Clients |-> IF c \in Waiting THEN "start" ELSE thread[c]]
  /\ UNCHANGED <<gameVars, mainVars, record, id, clientVars, sent, killed>>

BarrierOpens ==
  /\ killed = "no"
  /\ Cardinality(Waiting) = MAX_PLAYER
  /\ thread' = [c \in Clients |-> IF c \in Waiting THEN "start" ELSE thread[c]]
  /\ UNCHANGED <<gameVars, mainVars, record, id, clientVars, sent, killed>>

StartPlaying(c) ==
  /\ At(c, "start", "play")
  /\ nowPlaying' = (nowPlaying \/ player_num = MAX_PLAYER)
  /\ UNCHANGED <<player_num, socket_list, mainVars, record, id, clientVars,
                 sent, killed>>
-----------------------------------------------------------------------------
(* The clients (Final_client.c connects, reads the game and the welcome,   *)
(* and says "ready"; nothing else comes from a reliable client).           *)
Connect(c) ==
  /\ killed = "no"
  /\ conn[c] = "away"
  /\ conn' = [conn EXCEPT ![c] = "queued"]
  /\ UNCHANGED <<gameVars, mainVars, record, id, thread, said, sent, killed>>

SayReady(c) ==
  /\ killed = "no"
  /\ conn[c] = "open"
  /\ said[c] = "nothing"
  /\ Len(sent[c]) >= 2
  /\ said' = [said EXCEPT ![c] = "ready"]
  /\ UNCHANGED <<gameVars, mainVars, record, id, thread, conn, sent, killed>>

SayOther(c) ==
  /\ killed = "no"
  /\ c \in Unreliable
  /\ conn[c] = "open"
  /\ said[c] = "nothing"
  /\ said' = [said EXCEPT ![c] = "other"]
  /\ UNCHANGED <<gameVars, mainVars, record, id, thread, conn, sent, killed>>

Leave(c) ==
  /\ killed = "no"
  /\ c \in Unreliable
  /\ conn[c] \in {"queued", "open"}
  /\ conn' = [conn EXCEPT ![c] = IF @ = "queued" THEN "queued_left" ELSE "left"]
  /\ UNCHANGED <<gameVars, mainVars, record, id, thread, said, sent, killed>>
-----------------------------------------------------------------------------
MainThread ==
  \/ \E c \in Clients : Accept(c)
  \/ Allocate \/ AllocateFails
  \/ Refuse \/ Admit
  \/ SendGame
  \/ Create \/ CreationFails
  \/ Detach

ClientThread(c) ==
  Greet(c) \/ NotReady(c) \/ ArriveBarrier(c) \/ StartPlaying(c)

Client(c) == Connect(c) \/ SayReady(c)

Next ==
  \/ MainThread
  \/ BarrierOpens
  \/ \E c \in Clients : ClientThread(c) \/ Client(c) \/ SayOther(c) \/ Leave(c)

Spec == Init /\ [][Next]_vars

(* Every thread is scheduled, accept() serves every queued connection some *)
(* day (the queue is first come, first served), and clients do their part. *)
Fairness ==
  /\ WF_vars(MainThread)
  /\ WF_vars(BarrierOpens)
  /\ \A c \in Clients :
       /\ SF_vars(Accept(c))
       /\ WF_vars(ClientThread(c))
       /\ WF_vars(Client(c))

FairSpec == Spec /\ Fairness
-----------------------------------------------------------------------------
Message == {Welcome, Full} \cup {Game(n) : n \in 1 .. MAX_PLAYER}

TypeOK ==
  /\ player_num \in 0 .. MAX_PLAYER
  /\ nowPlaying \in BOOLEAN
  /\ socket_list \in [Slot -> Clients \cup {NoClient}]
  /\ mainPc \in {"accept", "alloc", "admit", "send", "create", "detach"}
  /\ current \in Clients \cup {NoClient}
  /\ record \in [Clients -> {"none", "live", "freed"}]
  /\ id \in [Clients -> Slot]
  /\ thread \in [Clients -> {"none", "greet", "listen", "barrier", "start",
                             "play", "gone"}]
  /\ conn \in [Clients -> {"away", "queued", "queued_left", "open", "left",
                           "reset", "closed"}]
  /\ said \in [Clients -> {"nothing", "ready", "other"}]
  /\ sent \in [Clients -> Seq(Message)]
  /\ killed \in {"no", "SIGPIPE", "crash"}

Served == {c \in Clients : thread[c] # "none"}

(* A player that has been sent the game finds its own number in it, the    *)
(* game comes before the welcome (the client takes the first bytes for a   *)
(* game_info, whatever they are), and the thread and the socket of that    *)
(* slot are its own (lines 127-143; Final_client.c 139-143 and 185).       *)
OwnNumber ==
  \A c \in Clients :
    /\ Welcome \in {sent[c][i] : i \in 1 .. Len(sent[c])}
         => sent[c][1].kind = "game"
    /\ \A i \in 1 .. Len(sent[c]) :
         sent[c][i].kind = "game" => sent[c][i].player_num = id[c] + 1
    /\ c \in Served => socket_list[id[c]] = c

(* What GameRound starts from: when a thread has passed the barrier, every *)
(* slot has a thread of its own that has passed it too, and the client of  *)
(* each has said ready (comment at line 189).                              *)
RoundEntry ==
  (\E c \in Clients : thread[c] \in {"start", "play"}) =>
    /\ player_num = MAX_PLAYER
    /\ \A s \in Slot : \E c \in Clients :
         /\ socket_list[s] = c /\ id[c] = s
         /\ thread[c] \in {"start", "play"}
         /\ said[c] = "ready"
    /\ \A c \in Clients : thread[c] \in {"start", "play"} => record[c] = "live"

(* c has not said ready, and never will. *)
NeverReady(c) ==
  \/ said[c] = "other"
  \/ said[c] = "nothing" /\ conn[c] \in {"left", "reset", "closed"}

(* A record is freed by main() or by the thread, whoever has it, and its   *)
(* connection is closed then (lines 122, 146, 185).  main() detaches the   *)
(* thread it has created through a record that is still there (lines       *)
(* 150-151), at least as long as the client may still say ready.           *)
RecordOwned ==
  /\ \A c \in Clients :
       /\ record[c] = "freed" => conn[c] = "closed" /\ thread[c] \in {"none", "gone"}
       /\ thread[c] = "gone" => record[c] = "freed"
  /\ mainPc = "detach" /\ ~NeverReady(current) => record[current] = "live"

(* Every connection is answered: by a game, by a refusal, or by a close.   *)
Answered ==
  \A c \in Clients :
    conn[c] = "queued" ~> (sent[c] # << >> \/ conn[c] \in {"closed", "reset"}
                           \/ killed # "no")

(* The round starts (lines 189-197), unless a client gets no memory, or a  *)
(* slot has gone to one that is never ready: no slot is ever given again.  *)
RoundStarts ==
  <>(\/ nowPlaying
     \/ killed # "no"
     \/ \E c \in Clients : conn[c] = "closed" /\ record[c] = "none"
     \/ \E s \in Slot : socket_list[s] # NoClient /\ NeverReady(socket_list[s]))

=============================================================================
