----------------------------- MODULE BankProofs -----------------------------
(***************************************************************************)
(* For any number of clients, requests and restarts, and however servers   *)
(* end: until Ctrl + C the threads of one that got its semaphore exclude   *)
(* each other and lose no request.                                         *)
(***************************************************************************)
EXTENDS Bank, TLAPS

(* The variable sem is the id of the system's semaphore in a server that   *)
(* got one; after IPC_RMID there is none that the threads could reach.     *)
Known ==
  /\ server \in {"down", "starting"} => sem = 0
  /\ server \in {"made", "up"} => sem \in {semid, NoId}
  /\ server = "ending" => ~Reached

(* Whoever is inside has taken the semaphore down. *)
Taken == Guarded => \A c \in Clients : Inside(c) => semaphore = 0

(* Between reading the balance and writing it nobody else writes it. *)
Fresh == Guarded => \A c \in Clients : pc[c] = "store" => seen[c] = account

(* There are threads, and there is something on the account, only after    *)
(* main() has come to its loop.                                            *)
Quiet == server \notin {"up", "ending"} =>
           account = booked /\ \A c \in Clients : pc[c] = "closed"

IInv ==
  /\ TypeOK
  /\ Quiet
  /\ Known
  /\ Taken
  /\ CriticalSection
  /\ Fresh
  /\ NoLostUpdate

(* The server starts with no semaphore in the system. *)
LEMMA InitInv == Init => IInv
<1> SUFFICES ASSUME Init PROVE IInv
  OBVIOUS
<1>1. todo \in [Clients -> 0 .. Times]
  BY BankAssumption DEF Init
<1>2. /\ starts \in 0 .. MaxStarts
      /\ pc \in [Clients -> {"closed", "P", "check", "store", "V", "reply"}]
      /\ seen \in [Clients -> Int]
  BY BankAssumption DEF Init
<1>3. TypeOK
  BY <1>1, <1>2 DEF Init, TypeOK, Ids, NoId
<1> QED
  BY <1>3
     DEF Init, IInv, Quiet, Known, Guarded, Taken, CriticalSection, Fresh,
         NoLostUpdate

(* Every step, the end of a server and the start of the next included.     *)
LEMMA NextInv ==
  ASSUME IInv, [Next]_vars
  PROVE  IInv'
<1> USE BankAssumption
          DEF IInv, TypeOK, Quiet, Known, Guarded, Taken, CriticalSection, Fresh,
              NoLostUpdate, Inside, Reached, Ids, NoId,
              semVars, serverVars, threadVars
<1>1. CASE Start
  BY <1>1 DEF Start
<1>2. CASE Semget
  <2>1. TypeOK'
    BY <1>2 DEF Semget
  <2> QED
    BY <1>2, <2>1 DEF Semget
<1>3. CASE Setval
  <2>1. TypeOK'
    BY <1>3 DEF Setval
  <2> QED
    BY <1>3, <2>1 DEF Setval
<1>4. CASE Interrupt
  <2>1. TypeOK'
    BY <1>4 DEF Interrupt
  <2> QED
    BY <1>4, <2>1 DEF Interrupt
<1>5. CASE Exit \/ Kill
  <2>1. /\ todo' \in [Clients -> 0 .. Times] /\ seen' \in [Clients -> Int]
        /\ pc' \in [Clients -> {"closed", "P", "check", "store", "V", "reply"}]
        /\ account' = 0 /\ booked' = 0 /\ server' = "down" /\ sem' = 0
        /\ UNCHANGED <<starts, semVars>>
        /\ \A c \in Clients : pc'[c] = "closed"
    BY <1>5 DEF Exit, Kill, Ends
  <2> QED
    BY <2>1
<1>6. ASSUME NEW c \in Clients, Connect(c)
      PROVE  IInv'
  BY <1>6 DEF Connect
<1>7. ASSUME NEW c \in Clients, P(c)
      PROVE  IInv'
  <2>1. TypeOK'
    BY <1>7 DEF P, Goto
  <2> QED
    BY <1>7, <2>1 DEF P, Goto
<1>8. ASSUME NEW c \in Clients, Load(c)
      PROVE  IInv'
  BY <1>8 DEF Load, Goto
<1>9. ASSUME NEW c \in Clients, Frozen(c)
      PROVE  IInv'
  BY <1>9 DEF Frozen, Goto
<1>10. ASSUME NEW c \in Clients, Store(c)
       PROVE  IInv'
  BY <1>10 DEF Store, Goto
<1>11. ASSUME NEW c \in Clients, V(c)
       PROVE  IInv'
  <2>1. TypeOK'
    BY <1>11 DEF V, Goto
  <2> QED
    BY <1>11, <2>1 DEF V, Goto
<1>12. ASSUME NEW c \in Clients, Reply(c)
       PROVE  IInv'
  BY <1>12 DEF Reply, Goto
<1>13. CASE UNCHANGED vars
  BY <1>13 DEF vars
<1> QED
  BY <1>1, <1>2, <1>3, <1>4, <1>5, <1>6, <1>7, <1>8, <1>9, <1>10, <1>11, <1>12,
     <1>13
     DEF Next, Thread

(* The invariant holds of every server, however the ones before it ended.  *)
THEOREM BankInvariant == Spec => []IInv
  BY InitInv, NextInv, PTL DEF Spec

(* One thread at a time between P() and V() (lines 82-104), until Ctrl + C.*)
THEOREM BankCriticalSection == Spec => []CriticalSection
<1>1. IInv => CriticalSection
  BY DEF IInv
<1> QED
  BY BankInvariant, <1>1, PTL

(* The account is the sum of what was asked for and done, until Ctrl + C.  *)
THEOREM BankNoLostUpdate == Spec => []NoLostUpdate
<1>1. IInv => NoLostUpdate
  BY DEF IInv
<1> QED
  BY BankInvariant, <1>1, PTL

(* Killed or not, a semaphore once left behind is never owned again; only  *)
(* a Ctrl + C before semget() may remove it.                               *)
THEOREM BankLeakStays == Spec => LeakStays
<1>1. ASSUME IInv, [Next]_vars, Leaked,
             ~(server = "starting" /\ server' = "ending" /\ semid = 0)
      PROVE  Leaked'
  <2> USE <1>1 DEF Leaked, NoId
  <2>1. CASE Start
    BY <2>1 DEF Start, semVars
  <2>2. CASE Semget
    BY <2>2 DEF Semget, semVars
  <2>3. CASE Setval
    BY <2>3 DEF Setval
  <2>4. CASE Interrupt
    <3>1. ~Reached
      BY <2>4 DEF Interrupt, Reached, IInv, Known
    <3> QED
      BY <2>4, <3>1 DEF Interrupt, semVars
  <2>5. CASE Exit \/ Kill
    BY <2>5 DEF Exit, Kill, Ends, semVars
  <2>6. ASSUME NEW c \in Clients, Thread(c) \/ Connect(c)
        PROVE  UNCHANGED <<semid, serverVars>>
    BY <2>6 DEF Thread, P, Load, Frozen, Store, V, Reply, Connect, Goto, semVars
  <2>7. CASE UNCHANGED <<semid, serverVars>>
    BY <2>7 DEF serverVars
  <2> QED
    BY <2>1, <2>2, <2>3, <2>4, <2>5, <2>6, <2>7 DEF Next, vars, semVars
<1>2. IInv /\ [Next]_vars =>
        [Leaked => \/ Leaked'
                   \/ server = "starting" /\ server' = "ending" /\ semid = 0]_vars
  BY <1>1
<1> QED
  BY BankInvariant, <1>2, PTL DEF Spec, LeakStays
=============================================================================
