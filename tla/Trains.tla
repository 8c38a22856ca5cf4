-------------------------------- MODULE Trains --------------------------------
(***************************************************************************)
(* lab5.c: a server that starts a train ("sl") on every connection.  All   *)
(* its processes run the same loop: the first one, and every child whose   *)
(* execlp has failed.  It never closes a connection, so that it runs out   *)
(* of descriptors in the end.                                              *)
(***************************************************************************)
EXTENDS Integers, FiniteSets

CONSTANTS
  Riders,     \* connections
  Pids,       \* bound: processes at a time, a set of numbers from 1
  MaxSockets, \* connections a process has descriptors for
  ExecFails   \* whether execlp may fail, a subset of BOOLEAN

ASSUME TrainAssumption ==
  /\ 1 \in Pids /\ Pids \subseteq Nat \ {0}
  /\ MaxSockets \in Nat
  /\ ExecFails \subseteq BOOLEAN

Terminal == "terminal"
Closed == "none" \* client_socket is -1

VARIABLES
  proc,    \* each process: where it is, its parent (0: none), its
           \* client_socket, its standard output, and the number of sockets
           \* it has; "train" is after execlp, "zombie" not waited for
  chld,    \* the processes with a SIGCHLD pending (one, however many died)
  handler, \* the processes in handler()
  waiting  \* connections that are not accepted yet

trainVars == <<proc, chld, handler, waiting>>

Free == [pc |-> "free", parent |-> 0, sock |-> Closed, out |-> Terminal, fds |-> 0]

TrainInit ==
  /\ proc = [p \in Pids |-> Free]
  /\ chld = {} /\ handler = {} /\ waiting = {}

Serving(p) == proc[p].pc \in {"accept", "fork", "child"}
Listens(p) == Serving(p) \/ proc[p].pc = "train" \* the socket is not closed on exec
Runs(p) == Serving(p) /\ p \notin handler
Children(p) == {c \in Pids : proc[c].parent = p /\ proc[c].pc # "free"}
Move(p, pc) == proc' = [proc EXCEPT ![p].pc = pc]

(* socket(), bind(), listen(); bind() fails as long as a train of an       *)
(* earlier server has the socket.                                          *)
RunServer ==
  /\ \A p \in Pids : ~Listens(p)
  /\ proc' = [proc EXCEPT ![1] = [Free EXCEPT !.pc = "accept"]]
  /\ UNCHANGED <<chld, handler, waiting>>

(* The kernel completes a connection while somebody listens. *)
Connect(r) ==
  /\ \E p \in Pids : Listens(p)
  /\ r \notin waiting /\ \A p \in Pids : proc[p].sock # r /\ proc[p].out # r
  /\ waiting' = waiting \cup {r}
  /\ UNCHANGED <<proc, chld, handler>>

Accept(p) ==
  /\ Runs(p) /\ proc[p].pc = "accept"
  /\ proc[p].fds < MaxSockets
  /\ \E r \in waiting :
       /\ waiting' = waiting \ {r}
       /\ proc' = [proc EXCEPT ![p].pc = "fork", ![p].sock = r, ![p].fds = @ + 1]
  /\ UNCHANGED <<chld, handler>>

(* Mutant of AcceptFails: client_socket keeps the connection before. *)
AcceptFailsKeeps(p) ==
  /\ Runs(p) /\ proc[p].pc = "accept"
  /\ proc[p].fds = MaxSockets
  /\ Move(p, "fork")
  /\ UNCHANGED <<chld, handler, waiting>>

(* Without a descriptor accept() does not wait: it is -1 at once. *)
AcceptFails(p) ==
  /\ Runs(p) /\ proc[p].pc = "accept"
  /\ proc[p].fds = MaxSockets
  /\ proc' = [proc EXCEPT ![p].pc = "fork", ![p].sock = Closed]
  /\ UNCHANGED <<chld, handler, waiting>>

(* The child goes on with everything its parent has, but a pending signal. *)
Fork(p) ==
  /\ Runs(p) /\ proc[p].pc = "fork"
  /\ \E c \in Pids :
       /\ proc[c].pc = "free" /\ \A q \in Pids : proc[q].pc = "free" => c <= q
       /\ proc' = [proc EXCEPT ![p].pc = "accept",
                               ![c] = [proc[p] EXCEPT !.pc = "child", !.parent = p]]
  /\ UNCHANGED <<chld, handler, waiting>>

(* A process is gone: its children are init's now, which waits for them;   *)
(* its own parent gets a signal, if it is still a server.  The last one    *)
(* takes with it who waits.                                                *)
Die(p) ==
  LET parent == proc[p].parent
      missed == parent # 0 /\ proc[parent].pc # "free" IN
    /\ proc' = [q \in Pids |->
         IF q = p
         THEN IF missed THEN [Free EXCEPT !.pc = "zombie", !.parent = parent]
              ELSE Free
         ELSE IF proc[q].parent = p
         THEN IF proc[q].pc = "zombie" THEN Free ELSE [proc[q] EXCEPT !.parent = 0]
         ELSE proc[q]]
    /\ chld' = IF missed /\ Serving(parent) THEN (chld \ {p}) \cup {parent}
               ELSE chld \ {p}
    /\ handler' = handler \ {p}
    /\ waiting' = IF \E q \in Pids \ {p} : Listens(q) THEN waiting ELSE {}

(* exit(1) *)
ForkFails(p) ==
  /\ Runs(p) /\ proc[p].pc = "fork"
  /\ \A c \in Pids : proc[c].pc # "free"
  /\ Die(p)

Out(p) == IF proc[p].sock = Closed THEN proc[p].out ELSE proc[p].sock

(* dup2() and execlp(): the train's output is the connection, or what it   *)
(* was when there is none.                                                 *)
Exec(p) ==
  /\ Runs(p) /\ proc[p].pc = "child"
  /\ FALSE \in ExecFails
  /\ proc' = [proc EXCEPT ![p].pc = "train", ![p].out = Out(p)]
  /\ chld' = chld \ {p}
  /\ UNCHANGED <<handler, waiting>>

(* Without "sl" the child becomes a second server, on the connection. *)
ExecFailed(p) ==
  /\ Runs(p) /\ proc[p].pc = "child"
  /\ TRUE \in ExecFails
  /\ proc' = [proc EXCEPT ![p].pc = "accept", ![p].out = Out(p)]
  /\ UNCHANGED <<chld, handler, waiting>>

(* sl ends. *)
Arrive(p) ==
  /\ proc[p].pc = "train"
  /\ Die(p)

(* handler(), on top of whatever a server does. *)
Signalled(p) ==
  /\ Runs(p) /\ p \in chld
  /\ chld' = chld \ {p}
  /\ handler' = handler \cup {p}
  /\ UNCHANGED <<proc, waiting>>

Zombies(p) == {c \in Children(p) : proc[c].pc = "zombie"}

Reap(p) ==
  /\ p \in handler
  /\ \E c \in Zombies(p) : proc' = [proc EXCEPT ![c] = Free]
  /\ UNCHANGED <<chld, handler, waiting>>

(* Mutant of HandlerReturns: waitpid is called once. *)
HandlerOnce(p) ==
  /\ p \in handler
  /\ handler' = handler \ {p}
  /\ UNCHANGED <<proc, chld, waiting>>

(* waitpid finds nobody, or no child that has ended. *)
HandlerReturns(p) ==
  /\ p \in handler
  /\ Zombies(p) = {}
  /\ handler' = handler \ {p}
  /\ UNCHANGED <<proc, chld, waiting>>

(* Ctrl + C, to all servers; sl ignores it. *)
KillServers ==
  /\ \E p \in Pids : Serving(p)
  /\ proc' = [p \in Pids |->
       IF proc[p].pc = "train" THEN [proc[p] EXCEPT !.parent = 0] ELSE Free]
  /\ chld' = {} /\ handler' = {}
  /\ waiting' = IF \E p \in Pids : proc[p].pc = "train" THEN waiting ELSE {}
-----------------------------------------------------------------------------
Serve(p) ==
  \/ Accept(p) \/ AcceptFails(p) \/ Fork(p) \/ ForkFails(p)
  \/ Exec(p) \/ ExecFailed(p) \/ Signalled(p) \/ Reap(p) \/ HandlerReturns(p)

TrainNext ==
  \/ KillServers
  \/ \E r \in Riders : Connect(r)
  \/ \E p \in Pids : Serve(p) \/ Arrive(p)
-----------------------------------------------------------------------------
(* A train whose connection was accepted runs on it, and is the only one   *)
(* there that was asked for (lines 48, 61), although it is forked with all *)
(* the connections of its parent, and by any of the servers.               *)
OwnTrack ==
  \A t \in Pids : proc[t].pc = "train" /\ proc[t].sock # Closed =>
    /\ proc[t].out = proc[t].sock
    /\ \A u \in Pids \ {t} :
         proc[u].pc = "train" /\ proc[u].sock # Closed => proc[u].out # proc[t].out

(* However many trains arrive at once: a train that was not waited for has *)
(* a parent that still has the signal, or is in the handler for it; when   *)
(* its parent is gone there is none (line 14).                             *)
ZombiesReaped ==
  \A z \in Pids : proc[z].pc = "zombie" =>
    /\ Serving(proc[z].parent)
    /\ proc[z].parent \in chld \cup handler
=============================================================================
