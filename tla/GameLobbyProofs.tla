-------------------------- MODULE GameLobbyProofs --------------------------
(***************************************************************************)
(* For any number of clients and slots: every player has a slot, a thread  *)
(* and a number of its own, nobody uses a record that has been freed, and  *)
(* a round starts with a ready player in each slot.                        *)
(***************************************************************************)
EXTENDS GameLobby, SequenceTheorems, FunctionTheorems, FiniteSetTheorems, TLAPS

Up == {"open", "left", "reset"}

(* A client that main() has not accepted yet has left no trace. *)
Fresh ==
  \A c \in Clients : conn[c] \in {"away", "queued", "queued_left"} =>
    /\ thread[c] = "none" /\ record[c] = "none"
    /\ said[c] = "nothing" /\ sent[c] = << >>
    /\ \A s \in Slot : socket_list[s] # c

(* How far main() is with the client it has accepted. *)
AtMain ==
  mainPc # "accept" =>
    /\ current \in Clients
    /\ mainPc # "detach" => thread[current] = "none" /\ conn[current] \in Up
    /\ mainPc = "detach" => thread[current] # "none"
    /\ mainPc = "alloc" => record[current] = "none"
    /\ mainPc \in {"admit", "send", "create"} => record[current] = "live"
    /\ mainPc \in {"alloc", "admit", "send"} => sent[current] = << >>
    /\ mainPc \in {"alloc", "admit"} => \A s \in Slot : socket_list[s] # current
    /\ mainPc \in {"send", "create", "detach"} =>
         /\ id[current] = player_num - 1
         /\ socket_list[id[current]] = current
    /\ mainPc = "create" /\ conn[current] = "open" =>
         sent[current] = <<Game(id[current] + 1)>>

(* Slots are given in order, each to a client that knows it. *)
Slots ==
  \A s \in Slot :
    IF s < player_num
    THEN socket_list[s] \in Clients /\ id[socket_list[s]] = s
    ELSE socket_list[s] = NoClient

(* A thread has its slot, and its record until it has gone. *)
Threads ==
  \A c \in Clients :
    /\ thread[c] # "none" => id[c] < player_num /\ socket_list[id[c]] = c
    /\ thread[c] \in {"greet", "listen", "barrier", "start", "play"} =>
         record[c] = "live" /\ conn[c] \in Up
    /\ thread[c] = "gone" => record[c] = "freed" /\ said[c] # "ready"
    /\ record[c] = "freed" => conn[c] = "closed" /\ thread[c] \in {"none", "gone"}
    /\ thread[c] = "greet" /\ conn[c] = "open" => sent[c] = <<Game(id[c] + 1)>>
    /\ thread[c] \in {"barrier", "start", "play"} => said[c] = "ready"

(* All that a client is ever sent before the round. *)
Letters(c) ==
  {<< >>, <<Full>>, <<Game(id[c] + 1)>>, <<Game(id[c] + 1), Welcome>>}

Sent == \A c \in Clients : sent[c] \in Letters(c)

IInv == TypeOK /\ Fresh /\ AtMain /\ Slots /\ Threads /\ Sent /\ RoundEntry
-----------------------------------------------------------------------------
LEMMA Appending ==
  /\ \A m \in Message : Append(<< >>, m) = <<m>>
  /\ \A m, n \in Message : Append(<<m>>, n) = <<m, n>>
<1> SUFFICES ASSUME NEW m \in Message, NEW n \in Message
             PROVE  Append(<< >>, m) = <<m>> /\ Append(<<m>>, n) = <<m, n>>
  OBVIOUS
<1>1. Append(<< >>, m) \in Seq(Message) /\ <<m>> \in Seq(Message)
  OBVIOUS
<1>2. /\ Len(Append(<< >>, m)) = 1 /\ Len(<<m>>) = 1
      /\ Append(<< >>, m)[1] = m /\ <<m>>[1] = m
  OBVIOUS
<1>3. Append(<< >>, m) = <<m>>
  BY <1>1, <1>2, SeqEqual
<1>4. Append(<<m>>, n) \in Seq(Message) /\ <<m, n>> \in Seq(Message)
  OBVIOUS
<1>5. /\ Len(Append(<<m>>, n)) = 2 /\ Len(<<m, n>>) = 2
      /\ Append(<<m>>, n)[1] = m /\ <<m, n>>[1] = m
      /\ Append(<<m>>, n)[2] = n /\ <<m, n>>[2] = n
  OBVIOUS
<1>6. \A i \in 1 .. 2 : Append(<<m>>, n)[i] = <<m, n>>[i]
  <2> SUFFICES ASSUME NEW i \in 1 .. 2
               PROVE  Append(<<m>>, n)[i] = <<m, n>>[i]
    OBVIOUS
  <2>1. i = 1 \/ i = 2
    OBVIOUS
  <2> QED  BY <2>1, <1>5
<1>7. Append(<<m>>, n) = <<m, n>>
  BY <1>4, <1>5, <1>6, SeqEqual
<1> QED  BY <1>3, <1>7

LEMMA MessageTypes ==
  /\ Welcome \in Message /\ Full \in Message
  /\ \A n \in 1 .. MAX_PLAYER : Game(n) \in Message
BY DEF Message
-----------------------------------------------------------------------------
(* main()'s steps *)

LEMMA AcceptKeeps ==
  ASSUME IInv, NEW c \in Clients, Accept(c)
  PROVE  IInv'
<1> USE DEF Accept, MainAt, gameVars, IInv
<1>1. TypeOK'
  BY DEF TypeOK
<1>2. Fresh'
  BY DEF TypeOK, Fresh
<1>3. AtMain'
  BY DEF TypeOK, Fresh, Up, AtMain
<1>4. Slots'
  BY DEF Slots
<1>5. Threads'
  BY DEF TypeOK, Fresh, Threads, Up
<1>6. Sent'
  BY DEF Sent, Letters
<1>7. RoundEntry'
  BY DEF RoundEntry
<1> QED  BY <1>1, <1>2, <1>3, <1>4, <1>5, <1>6, <1>7

LEMMA AllocateKeeps ==
  ASSUME IInv, Allocate
  PROVE  IInv'
<1> USE DEF Allocate, MainAt, gameVars, clientVars, IInv
<1>0. current \in Clients /\ thread[current] = "none" /\ conn[current] \in Up
  BY DEF AtMain
<1>1. TypeOK'
  BY DEF TypeOK
<1>2. Fresh'
  BY <1>0 DEF TypeOK, Fresh, Up
<1>3. AtMain'
  BY <1>0 DEF TypeOK, AtMain
<1>4. Slots'
  BY DEF Slots
<1>5. Threads'
  BY <1>0 DEF TypeOK, Threads
<1>6. Sent'
  BY DEF Sent, Letters
<1>7. RoundEntry'
  BY <1>0 DEF TypeOK, RoundEntry
<1> QED  BY <1>1, <1>2, <1>3, <1>4, <1>5, <1>6, <1>7

LEMMA AllocateFailsKeeps ==
  ASSUME IInv, AllocateFails
  PROVE  IInv'
<1> USE DEF AllocateFails, MainAt, Close, gameVars, IInv
<1>0. current \in Clients /\ thread[current] = "none" /\ conn[current] \in Up
  BY DEF AtMain
<1>1. TypeOK'
  BY DEF TypeOK
<1>2. Fresh'
  BY <1>0 DEF TypeOK, Fresh
<1>3. AtMain'
  BY DEF AtMain
<1>4. Slots'
  BY DEF Slots
<1>5. Threads'
  BY <1>0 DEF TypeOK, Threads
<1>6. Sent'
  BY DEF Sent, Letters
<1>7. RoundEntry'
  BY DEF RoundEntry
<1> QED  BY <1>1, <1>2, <1>3, <1>4, <1>5, <1>6, <1>7

LEMMA RefuseKeeps ==
  ASSUME IInv, Refuse
  PROVE  IInv'
<1> USE DEF Refuse, MainAt, Close, Free, gameVars, IInv
<1>0. /\ current \in Clients /\ thread[current] = "none"
      /\ conn[current] \in Up /\ sent[current] = << >>
  BY DEF AtMain
<1>a. sent'[current] \in {<< >>, <<Full>>}
  BY <1>0, Appending DEF TypeOK
<1>b. /\ sent' \in [Clients -> Seq(Message)]
      /\ \A c \in Clients : c # current => sent'[c] = sent[c]
  BY <1>0, MessageTypes DEF TypeOK
<1>1. TypeOK'
  BY <1>b DEF TypeOK
<1>2. Fresh'
  BY <1>0, <1>b DEF TypeOK, Fresh
<1>3. AtMain'
  BY DEF AtMain
<1>4. Slots'
  BY DEF Slots
<1>5. Threads'
  BY <1>0, <1>b DEF TypeOK, Threads
<1>6. Sent'
  BY <1>0, <1>a, <1>b DEF Sent, Letters
<1>7. RoundEntry'
  BY <1>0 DEF TypeOK, RoundEntry
<1> QED  BY <1>1, <1>2, <1>3, <1>4, <1>5, <1>6, <1>7

LEMMA AdmitKeeps ==
  ASSUME IInv, Admit
  PROVE  IInv'
<1> USE DEF Admit, MainAt, clientVars, IInv
<1>0. /\ current \in Clients /\ thread[current] = "none"
      /\ conn[current] \in Up /\ sent[current] = << >>
      /\ record[current] = "live"
      /\ \A s \in Slot : socket_list[s] # current
  BY DEF AtMain
<1>a. player_num \in Slot /\ player_num + 1 \in 0 .. MAX_PLAYER
  BY LobbyAssumption DEF TypeOK, Slot
<1>b. /\ id'[current] = player_num
      /\ \A c \in Clients : c # current => id'[c] = id[c]
      /\ socket_list'[player_num] = current
      /\ \A s \in Slot : s # player_num => socket_list'[s] = socket_list[s]
  BY <1>0, <1>a DEF TypeOK
<1>1. TypeOK'
  BY <1>0, <1>a DEF TypeOK
<1>2. Fresh'
  BY <1>0, <1>b DEF Fresh, Up
<1>3. AtMain'
  BY <1>0, <1>a, <1>b DEF AtMain, Slot
<1>4. Slots'
  BY <1>0, <1>a, <1>b, LobbyAssumption DEF Slots, TypeOK, Slot
<1>5. Threads'
  BY <1>0, <1>a, <1>b DEF Threads, TypeOK, Slot
<1>6. Sent'
  BY <1>0, <1>b DEF Sent, Letters
<1>7. RoundEntry'
  BY LobbyAssumption DEF RoundEntry, TypeOK
<1> QED  BY <1>1, <1>2, <1>3, <1>4, <1>5, <1>6, <1>7

(* What a send() leaves alone, and what it brings. *)
LEMMA Sending ==
  ASSUME IInv, NEW c \in Clients, NEW m \in Message, Send(c, m)
  PROVE  /\ sent' \in [Clients -> Seq(Message)]
         /\ conn' \in [Clients -> {"away", "queued", "queued_left", "open",
                                   "left", "reset", "closed"}]
         /\ killed' \in {"no", "SIGPIPE", "crash"}
         /\ conn[c] \in Up /\ conn'[c] \in Up
         /\ \A d \in Clients : d # c => sent'[d] = sent[d] /\ conn'[d] = conn[d]
         /\ conn'[c] = "open" => sent'[c] = Append(sent[c], m)
         /\ sent'[c] \in {sent[c], Append(sent[c], m)}
<1> USE DEF IInv, TypeOK, Up
<1>1. CASE conn[c] = "open"
  <2>1. Append(sent[c], m) \in Seq(Message)
    OBVIOUS
  <2>2. /\ sent' = [sent EXCEPT ![c] = Append(sent[c], m)]
        /\ conn' = conn /\ killed' = killed
    BY <1>1 DEF Send
  <2>3. sent' \in [Clients -> Seq(Message)]
    BY <2>1, <2>2
  <2>4. /\ sent'[c] = Append(sent[c], m)
        /\ \A d \in Clients : d # c => sent'[d] = sent[d]
    BY <2>2
  <2> QED  BY <1>1, <2>2, <2>3, <2>4
<1>2. CASE conn[c] = "left"
  BY <1>2 DEF Send
<1>3. CASE conn[c] = "reset"
  BY <1>3 DEF Send
<1> QED  BY <1>1, <1>2, <1>3 DEF Send

LEMMA SendGameKeeps ==
  ASSUME IInv, SendGame
  PROVE  IInv'
<1> USE DEF SendGame, MainAt, gameVars, IInv
<1>0. /\ current \in Clients /\ thread[current] = "none"
      /\ sent[current] = << >> /\ record[current] = "live"
      /\ id[current] = player_num - 1 /\ socket_list[id[current]] = current
  BY DEF AtMain
<1>a. player_num \in 1 .. MAX_PLAYER /\ player_num = id[current] + 1
  BY <1>0 DEF TypeOK, Slot
<1>b. Game(player_num) \in Message /\ Send(current, Game(player_num))
  BY <1>a, MessageTypes
<1>c. /\ sent' \in [Clients -> Seq(Message)]
      /\ conn' \in [Clients -> {"away", "queued", "queued_left", "open",
                                "left", "reset", "closed"}]
      /\ killed' \in {"no", "SIGPIPE", "crash"}
      /\ conn[current] \in Up /\ conn'[current] \in Up
      /\ \A d \in Clients : d # current => sent'[d] = sent[d] /\ conn'[d] = conn[d]
      /\ conn'[current] = "open" => sent'[current] = <<Game(player_num)>>
      /\ sent'[current] \in {<< >>, <<Game(player_num)>>}
  BY <1>0, <1>b, Sending, Appending
<1>1. TypeOK'
  BY <1>c DEF TypeOK
<1>2. Fresh'
  BY <1>0, <1>c DEF Fresh, Up
<1>3. AtMain'
  BY <1>0, <1>a, <1>c DEF AtMain
<1>4. Slots'
  BY DEF Slots
<1>5. Threads'
  BY <1>0, <1>c DEF Threads
<1>6. Sent'
  BY <1>0, <1>a, <1>c DEF Sent, Letters
<1>7. RoundEntry'
  BY DEF RoundEntry
<1> QED  BY <1>1, <1>2, <1>3, <1>4, <1>5, <1>6, <1>7

LEMMA CreateKeeps ==
  ASSUME IInv, Create
  PROVE  IInv'
<1> USE DEF Create, MainAt, gameVars, clientVars, IInv
<1>0. /\ current \in Clients /\ thread[current] = "none"
      /\ conn[current] \in Up /\ record[current] = "live"
      /\ id[current] = player_num - 1 /\ socket_list[id[current]] = current
      /\ conn[current] = "open" => sent[current] = <<Game(id[current] + 1)>>
  BY DEF AtMain
<1>a. id[current] < player_num
  BY <1>0 DEF TypeOK
<1>b. /\ thread'[current] = "greet"
      /\ \A c \in Clients : c # current => thread'[c] = thread[c]
  BY <1>0 DEF TypeOK
<1>1. TypeOK'
  BY DEF TypeOK
<1>2. Fresh'
  BY <1>0, <1>b DEF Fresh, Up
<1>3. AtMain'
  BY <1>0, <1>b DEF AtMain
<1>4. Slots'
  BY DEF Slots
<1>5. Threads'
  BY <1>0, <1>a, <1>b DEF Threads
<1>6. Sent'
  BY DEF Sent, Letters
<1>7. RoundEntry'
  BY <1>0, <1>b DEF RoundEntry
<1> QED  BY <1>1, <1>2, <1>3, <1>4, <1>5, <1>6, <1>7

LEMMA CreationFailsKeeps ==
  ASSUME IInv, CreationFails
  PROVE  IInv'
<1> USE DEF CreationFails, MainAt, Close, Free, gameVars, IInv
<1>0. current \in Clients /\ thread[current] = "none" /\ conn[current] \in Up
  BY DEF AtMain
<1>1. TypeOK'
  BY DEF TypeOK
<1>2. Fresh'
  BY <1>0 DEF TypeOK, Fresh
<1>3. AtMain'
  BY DEF AtMain
<1>4. Slots'
  BY DEF Slots
<1>5. Threads'
  BY <1>0 DEF TypeOK, Threads
<1>6. Sent'
  BY DEF Sent, Letters
<1>7. RoundEntry'
  BY <1>0 DEF TypeOK, RoundEntry
<1> QED  BY <1>1, <1>2, <1>3, <1>4, <1>5, <1>6, <1>7

LEMMA DetachKeeps ==
  ASSUME IInv, Detach
  PROVE  IInv'
<1> USE DEF Detach, MainAt, gameVars, clientVars, IInv
<1>1. TypeOK'
  BY DEF TypeOK
<1>2. Fresh' /\ AtMain' /\ Slots' /\ Threads'
  BY DEF Fresh, AtMain, Slots, Threads
<1>3. Sent' /\ RoundEntry'
  BY DEF Sent, Letters, RoundEntry
<1> QED  BY <1>1, <1>2, <1>3
-----------------------------------------------------------------------------
(* The steps of client_handler() *)

LEMMA GreetKeeps ==
  ASSUME IInv, NEW c \in Clients, Greet(c)
  PROVE  IInv'
<1> USE DEF Greet, At, gameVars, mainVars, IInv
<1>0. /\ record[c] = "live" /\ conn[c] \in Up
      /\ conn[c] = "open" => sent[c] = <<Game(id[c] + 1)>>
      /\ mainPc \notin {"accept", "detach"} => current # c
  BY DEF Threads, AtMain
<1>a. /\ thread'[c] = "listen"
      /\ \A d \in Clients : d # c => thread'[d] = thread[d]
      /\ thread' \in [Clients -> {"none", "greet", "listen", "barrier", "start",
                                  "play", "gone"}]
  BY DEF TypeOK
<1>b. /\ sent' \in [Clients -> Seq(Message)]
      /\ conn' \in [Clients -> {"away", "queued", "queued_left", "open",
                                "left", "reset", "closed"}]
      /\ killed' \in {"no", "SIGPIPE", "crash"}
      /\ conn'[c] \in Up
      /\ \A d \in Clients : d # c => sent'[d] = sent[d] /\ conn'[d] = conn[d]
  BY Sending, MessageTypes
<1>c. sent'[c] \in Letters(c)
  <2>1. CASE conn[c] = "open"
    <3>1. sent'[c] = Append(sent[c], Welcome)
      BY <2>1 DEF Send, TypeOK
    <3>2. Game(id[c] + 1) \in Message /\ Welcome \in Message
      <4>1. id[c] + 1 \in 1 .. MAX_PLAYER
        BY LobbyAssumption DEF TypeOK, Slot
      <4> QED  BY <4>1, MessageTypes
    <3>3. Append(<<Game(id[c] + 1)>>, Welcome) = <<Game(id[c] + 1), Welcome>>
      BY <3>2, Appending
    <3>4. sent'[c] = <<Game(id[c] + 1), Welcome>>
      BY <2>1, <3>1, <3>3, <1>0
    <3> QED  BY <3>4 DEF Letters
  <2>2. CASE conn[c] # "open"
    BY <2>2 DEF Send, Sent
  <2> QED  BY <2>1, <2>2
<1>1. TypeOK'
  BY <1>a, <1>b DEF TypeOK
<1>2. Fresh'
  <2> SUFFICES ASSUME NEW d \in Clients, conn'[d] \in {"away", "queued", "queued_left"}
               PROVE  /\ thread'[d] = "none" /\ record'[d] = "none"
                      /\ said'[d] = "nothing" /\ sent'[d] = << >>
                      /\ \A s \in Slot : socket_list'[s] # d
    BY DEF Fresh
  <2>1. d # c
    BY <1>b DEF Up
  <2>2. /\ conn'[d] = conn[d] /\ thread'[d] = thread[d] /\ sent'[d] = sent[d]
        /\ record' = record /\ said' = said /\ socket_list' = socket_list
    BY <2>1, <1>a, <1>b
  <2> HIDE DEF Greet
  <2> QED  BY <2>2 DEF Fresh
<1>3. AtMain'
  BY <1>0, <1>a, <1>b DEF AtMain
<1>4. Slots'
  BY DEF Slots
<1>5. Threads'
  BY <1>0, <1>a, <1>b DEF Threads
<1>6. Sent'
  BY <1>b, <1>c DEF Sent, Letters
<1>7. RoundEntry'
  BY <1>a DEF RoundEntry
<1> QED  BY <1>1, <1>2, <1>3, <1>4, <1>5, <1>6, <1>7

LEMMA NotReadyKeeps ==
  ASSUME IInv, NEW c \in Clients, NotReady(c)
  PROVE  IInv'
<1> USE DEF NotReady, At, Close, Free, gameVars, mainVars, IInv
<1>0. /\ mainPc \notin {"accept", "detach"} => current # c
      /\ said[c] # "ready" /\ id[c] < player_num /\ socket_list[id[c]] = c
  BY DEF AtMain, Threads
<1>a. /\ thread'[c] = "gone" /\ conn'[c] = "closed" /\ record'[c] = "freed"
      /\ \A d \in Clients : d # c =>
           thread'[d] = thread[d] /\ conn'[d] = conn[d] /\ record'[d] = record[d]
  BY DEF TypeOK
<1>1. TypeOK'
  BY DEF TypeOK
<1>2. Fresh'
  BY <1>a DEF Fresh
<1>3. AtMain'
  BY <1>0, <1>a DEF AtMain
<1>4. Slots'
  BY DEF Slots
<1>5. Threads'
  BY <1>0, <1>a DEF Threads
<1>6. Sent'
  BY DEF Sent, Letters
<1>7. RoundEntry'
  BY <1>0, <1>a DEF RoundEntry
<1> QED  BY <1>1, <1>2, <1>3, <1>4, <1>5, <1>6, <1>7

LEMMA ArriveBarrierKeeps ==
  ASSUME IInv, NEW c \in Clients, ArriveBarrier(c)
  PROVE  IInv'
<1> USE DEF ArriveBarrier, At, gameVars, mainVars, clientVars, IInv
<1>0. mainPc \notin {"accept", "detach"} => current # c
  BY DEF AtMain
<1>a. /\ thread'[c] = "barrier"
      /\ \A d \in Clients : d # c => thread'[d] = thread[d]
  BY DEF TypeOK
<1>1. TypeOK'
  BY DEF TypeOK
<1>2. Fresh'
  BY <1>a DEF Fresh
<1>3. AtMain'
  BY <1>0, <1>a DEF AtMain
<1>4. Slots'
  BY DEF Slots
<1>5. Threads'
  BY <1>a DEF Threads
<1>6. Sent'
  BY DEF Sent, Letters
<1>7. RoundEntry'
  BY <1>a DEF RoundEntry
<1> QED  BY <1>1, <1>2, <1>3, <1>4, <1>5, <1>6, <1>7

LEMMA StartPlayingKeeps ==
  ASSUME IInv, NEW c \in Clients, StartPlaying(c)
  PROVE  IInv'
<1> USE DEF StartPlaying, At, mainVars, clientVars, IInv
<1>0. mainPc \notin {"accept", "detach"} => current # c
  BY DEF AtMain
<1>a. /\ thread'[c] = "play"
      /\ \A d \in Clients : d # c => thread'[d] = thread[d]
  BY DEF TypeOK
<1>1. TypeOK'
  BY DEF TypeOK
<1>2. Fresh'
  BY <1>a DEF Fresh
<1>3. AtMain'
  BY <1>0, <1>a DEF AtMain
<1>4. Slots'
  BY DEF Slots
<1>5. Threads'
  BY <1>a DEF Threads
<1>6. Sent'
  BY DEF Sent, Letters
<1>7. RoundEntry'
  BY <1>a DEF RoundEntry
<1> QED  BY <1>1, <1>2, <1>3, <1>4, <1>5, <1>6, <1>7
-----------------------------------------------------------------------------
(* The barrier *)

(* MAX_PLAYER threads that wait have all the slots between them. *)
LEMMA BarrierFull ==
  ASSUME IInv, Cardinality(Waiting) = MAX_PLAYER
  PROVE  /\ \A s \in Slot : \E c \in Waiting : id[c] = s
         /\ player_num = MAX_PLAYER
<1> USE DEF IInv
<1> DEFINE f == [c \in Waiting |-> id[c]]
<1>1. f \in [Waiting -> Slot]
  BY DEF Waiting, TypeOK
<1>2. \A c, d \in Waiting : f[c] = f[d] => c = d
  BY DEF Waiting, Threads
<1>3. f \in Injection(Waiting, Slot)
  BY <1>1, <1>2, Fun_IsInj
<1>4. IsFiniteSet(Slot) /\ Cardinality(Slot) = MAX_PLAYER
  BY FS_Interval, LobbyAssumption DEF Slot
<1>5. f \in Surjection(Waiting, Slot)
  BY <1>3, <1>4, FS_Injection
<1>6. \A s \in Slot : \E c \in Waiting : f[c] = s
  BY <1>5, Fun_SurjectionProperties
<1>7. \A s \in Slot : \E c \in Waiting : id[c] = s
  BY <1>6
<1>8. PICK c \in Waiting : id[c] = MAX_PLAYER - 1
  BY <1>7, LobbyAssumption DEF Slot
<1>9. MAX_PLAYER - 1 < player_num
  BY <1>8 DEF Waiting, Threads
<1> QED  BY <1>7, <1>9, LobbyAssumption DEF TypeOK

LEMMA BarrierOpensKeeps ==
  ASSUME IInv, BarrierOpens
  PROVE  IInv'
<1> USE DEF BarrierOpens, gameVars, mainVars, clientVars, IInv
<1>a. \A c \in Clients :
        thread'[c] = IF thread[c] = "barrier" THEN "start" ELSE thread[c]
  BY DEF Waiting
<1>b. thread' \in [Clients -> {"none", "greet", "listen", "barrier", "start",
                               "play", "gone"}]
  BY DEF TypeOK
<1>1. TypeOK'
  BY <1>b DEF TypeOK
<1>2. Fresh'
  BY <1>a DEF Fresh
<1>3. AtMain'
  BY <1>a DEF AtMain
<1>4. Slots'
  BY DEF Slots
<1>5. Threads'
  BY <1>a DEF Threads
<1>6. Sent'
  BY DEF Sent, Letters
<1>7. RoundEntry'
  <2>1. player_num' = MAX_PLAYER
    BY BarrierFull
  <2>2. \A s \in Slot : \E c \in Clients :
          /\ socket_list'[s] = c /\ id'[c] = s
          /\ thread'[c] \in {"start", "play"}
          /\ said'[c] = "ready"
    <3>1. \A s \in Slot : \E c \in Waiting : id[c] = s
      BY BarrierFull
    <3>2. \A c \in Waiting : /\ c \in Clients /\ socket_list[id[c]] = c
                             /\ said[c] = "ready" /\ thread'[c] = "start"
      BY <1>a DEF Waiting, Threads
    <3> QED  BY <3>1, <3>2
  <2>3. \A c \in Clients : thread'[c] \in {"start", "play"} => record'[c] = "live"
    BY <1>a DEF Threads
  <2> QED  BY <2>1, <2>2, <2>3 DEF RoundEntry
<1> QED  BY <1>1, <1>2, <1>3, <1>4, <1>5, <1>6, <1>7
-----------------------------------------------------------------------------
(* The clients' steps *)

LEMMA ConnectKeeps ==
  ASSUME IInv, NEW c \in Clients, Connect(c)
  PROVE  IInv'
<1> USE DEF Connect, gameVars, mainVars, IInv
<1>a. /\ conn'[c] = "queued"
      /\ \A d \in Clients : d # c => conn'[d] = conn[d]
  BY DEF TypeOK
<1>0. /\ mainPc \notin {"accept", "detach"} => current # c
      /\ thread[c] = "none" /\ record[c] = "none"
  BY DEF AtMain, Fresh, Up
<1>1. TypeOK'
  BY DEF TypeOK
<1>2. Fresh'
  BY <1>a DEF Fresh
<1>3. AtMain'
  BY <1>0, <1>a DEF AtMain
<1>4. Slots'
  BY DEF Slots
<1>5. Threads'
  BY <1>0, <1>a DEF Threads
<1>6. Sent'
  BY DEF Sent, Letters
<1>7. RoundEntry'
  BY DEF RoundEntry
<1> QED  BY <1>1, <1>2, <1>3, <1>4, <1>5, <1>6, <1>7

LEMMA SayKeeps ==
  ASSUME IInv, NEW c \in Clients, SayReady(c) \/ SayOther(c)
  PROVE  IInv'
<1> USE DEF gameVars, mainVars, IInv
<1>0. /\ UNCHANGED <<gameVars, mainVars, record, id, thread, conn, sent, killed>>
      /\ said' \in [Clients -> {"nothing", "ready", "other"}]
      /\ conn[c] = "open" /\ said[c] = "nothing"
      /\ \A d \in Clients : d # c => said'[d] = said[d]
  BY DEF SayReady, SayOther, TypeOK
<1>a. thread[c] \notin {"gone", "barrier", "start", "play"}
  BY <1>0 DEF Threads
<1>1. TypeOK'
  BY <1>0 DEF TypeOK
<1>2. Fresh'
  BY <1>0 DEF Fresh
<1>3. AtMain'
  BY <1>0 DEF AtMain
<1>4. Slots'
  BY <1>0 DEF Slots
<1>5. Threads'
  BY <1>0, <1>a DEF Threads
<1>6. Sent'
  BY <1>0 DEF Sent, Letters
<1>7. RoundEntry'
  BY <1>0, <1>a DEF RoundEntry
<1> QED  BY <1>1, <1>2, <1>3, <1>4, <1>5, <1>6, <1>7

LEMMA LeaveKeeps ==
  ASSUME IInv, NEW c \in Clients, Leave(c)
  PROVE  IInv'
<1> USE DEF Leave, gameVars, mainVars, IInv
<1>a. /\ conn'[c] = IF conn[c] = "queued" THEN "queued_left" ELSE "left"
      /\ \A d \in Clients : d # c => conn'[d] = conn[d]
      /\ conn' \in [Clients -> {"away", "queued", "queued_left", "open",
                                "left", "reset", "closed"}]
  BY DEF TypeOK
<1>1. TypeOK'
  BY <1>a DEF TypeOK
<1>2. Fresh'
  BY <1>a DEF Fresh
<1>3. AtMain'
  BY <1>a DEF AtMain, Up
<1>4. Slots'
  BY DEF Slots
<1>5. Threads'
  BY <1>a DEF Threads, Up
<1>6. Sent'
  BY DEF Sent, Letters
<1>7. RoundEntry'
  BY DEF RoundEntry
<1> QED  BY <1>1, <1>2, <1>3, <1>4, <1>5, <1>6, <1>7
-----------------------------------------------------------------------------
(* The inductive invariant holds in every state of the lobby. *)
THEOREM LobbyInvariant ==
  Spec => []IInv
<1>1. Init => IInv
  <2> SUFFICES ASSUME Init PROVE IInv
    OBVIOUS
  <2> USE DEF Init
  <2>1. /\ << >> \in Seq(Message) /\ 0 \in Slot
        /\ player_num \in 0 .. MAX_PLAYER
    BY LobbyAssumption DEF Slot
  <2>2. TypeOK
    BY <2>1 DEF TypeOK
  <2>3. Fresh /\ AtMain /\ Slots /\ Threads
    BY LobbyAssumption DEF Fresh, AtMain, Slots, Threads, Slot
  <2>4. Sent /\ RoundEntry
    BY DEF Sent, Letters, RoundEntry
  <2> QED  BY <2>2, <2>3, <2>4 DEF IInv
<1>2. IInv /\ [Next]_vars => IInv'
  <2> SUFFICES ASSUME IInv, [Next]_vars PROVE IInv'
    OBVIOUS
  <2>1. CASE MainThread
    BY <2>1, AcceptKeeps, AllocateKeeps, AllocateFailsKeeps, RefuseKeeps,
       AdmitKeeps, SendGameKeeps, CreateKeeps, CreationFailsKeeps, DetachKeeps
    DEF MainThread
  <2>2. CASE BarrierOpens
    BY <2>2, BarrierOpensKeeps
  <2>3. CASE \E c \in Clients : ClientThread(c)
    BY <2>3, GreetKeeps, NotReadyKeeps, ArriveBarrierKeeps, StartPlayingKeeps
    DEF ClientThread
  <2>4. CASE \E c \in Clients : Client(c) \/ SayOther(c) \/ Leave(c)
    BY <2>4, ConnectKeeps, SayKeeps, LeaveKeeps DEF Client
  <2>5. CASE UNCHANGED vars
    <3> USE <2>5 DEF vars, gameVars, mainVars, clientVars, IInv
    <3>1. TypeOK'
      BY DEF TypeOK
    <3>2. Fresh' /\ AtMain' /\ Slots' /\ Threads'
      BY DEF Fresh, AtMain, Slots, Threads
    <3>3. Sent' /\ RoundEntry'
      BY DEF Sent, Letters, RoundEntry
    <3> QED  BY <3>1, <3>2, <3>3
  <2> QED  BY <2>1, <2>2, <2>3, <2>4, <2>5 DEF Next
<1> QED  BY <1>1, <1>2, PTL DEF Spec

(* The variables have their types: player_num never passes MAX_PLAYER and  *)
(* every id is the index of a slot (lines 119-131).                        *)
THEOREM LobbyTypes ==
  Spec => []TypeOK
<1>1. IInv => TypeOK
  BY DEF IInv
<1> QED  BY <1>1, LobbyInvariant, PTL

(* The number a player is sent, its slot and its thread belong together    *)
(* (lines 127-143).                                                        *)
THEOREM LobbyOwnNumber ==
  Spec => []OwnNumber
<1>1. IInv => OwnNumber
  <2> SUFFICES ASSUME IInv, NEW c \in Clients
               PROVE  /\ Welcome \in {sent[c][i] : i \in 1 .. Len(sent[c])}
                           => sent[c][1].kind = "game"
                      /\ \A i \in 1 .. Len(sent[c]) :
                           sent[c][i].kind = "game" =>
                             sent[c][i].player_num = id[c] + 1
                      /\ c \in Served => socket_list[id[c]] = c
    BY DEF OwnNumber
  <2>1. c \in Served => socket_list[id[c]] = c
    BY DEF IInv, Threads, Served
  <2>2. CASE sent[c] = << >>
    BY <2>1, <2>2
  <2>3. CASE sent[c] = <<Full>>
    BY <2>1, <2>3 DEF Full, Welcome
  <2>4. CASE sent[c] = <<Game(id[c] + 1)>>
    BY <2>1, <2>4 DEF Game, Welcome
  <2>5. CASE sent[c] = <<Game(id[c] + 1), Welcome>>
    BY <2>1, <2>5 DEF Game, Welcome
  <2> QED  BY <2>2, <2>3, <2>4, <2>5 DEF IInv, Sent, Letters
<1> QED  BY <1>1, LobbyInvariant, PTL

(* A freed record belongs to a closed connection, and main() detaches      *)
(* through a record that is there while its client may still be ready      *)
(* (lines 122, 146, 150-151, 185).                                         *)
THEOREM LobbyRecordOwned ==
  Spec => []RecordOwned
<1>1. IInv => RecordOwned
  <2> SUFFICES ASSUME IInv PROVE RecordOwned
    OBVIOUS
  <2>1. \A c \in Clients :
          /\ record[c] = "freed" => conn[c] = "closed" /\ thread[c] \in {"none", "gone"}
          /\ thread[c] = "gone" => record[c] = "freed"
    BY DEF IInv, Threads
  <2>2. ASSUME mainPc = "detach", ~NeverReady(current)
        PROVE  record[current] = "live"
    <3>1. current \in Clients /\ thread[current] # "none"
      BY <2>2 DEF IInv, AtMain
    <3>2. thread[current] # "gone"
      BY <2>2, <3>1 DEF IInv, TypeOK, Threads, NeverReady
    <3> QED  BY <3>1, <3>2 DEF IInv, TypeOK, Threads
  <2> QED  BY <2>1, <2>2 DEF RecordOwned
<1> QED  BY <1>1, LobbyInvariant, PTL

(* A round starts with MAX_PLAYER players, one thread in each slot past    *)
(* the barrier, and every client ready (lines 170-197).                    *)
THEOREM LobbyRoundEntry ==
  Spec => []RoundEntry
<1>1. IInv => RoundEntry
  BY DEF IInv
<1> QED  BY <1>1, LobbyInvariant, PTL

=============================================================================
