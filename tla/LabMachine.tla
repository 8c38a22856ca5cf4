------------------------------ MODULE LabMachine ------------------------------
(***************************************************************************)
(* The Raspberry Pi the exercises run on: modules are loaded and removed,  *)
(* and the programs that use them are started, from its terminals, as the  *)
(* demo.sh files do and in any other order.  One program is in the         *)
(* foreground at a time; the writer of lab4 runs in the background.        *)
(***************************************************************************)
EXTENDS Kiosk, DisplayWriters, LetterDisplay, Trains

CONSTANTS
  Sittings \* what somebody sits down to: the modules and programs that are
           \* used, what is also done from a second terminal while a program
           \* runs or a module is loaded, and (bound) how many commands

Programs == {"hw1", "writer_lab3_1", "writer_lab3_2", "letter_writer", "reader",
             "lab5"}

ASSUME LabAssumption ==
  \A s \in Sittings :
    /\ s.modules \subseteq Drivers /\ s.programs \subseteq Programs
    /\ s.meanwhile \subseteq {"insmod", "rmmod", "run"}
    /\ s.commands \in Nat

VARIABLES sitting, commands

shellVars == <<sitting, commands>>
vars == <<driverVars, kioskVars, writer, letterVars, trainVars, shellVars>>

Init ==
  /\ DriverInit /\ KioskInit /\ WriterInit /\ LetterInit /\ TrainInit
  /\ sitting \in Sittings
  /\ commands = 0

(* No program is in the foreground. *)
Idle ==
  /\ kiosk = "off" /\ writer.pc = "off" /\ reader.pc = "off"
  /\ \A p \in Pids : ~Serving(p)

AllSettled == \A d \in Drivers : mod[d] \in Settled

Command(what) ==
  /\ commands < sitting.commands
  /\ commands' = commands + 1
  /\ (Idle /\ AllSettled) \/ what \in sitting.meanwhile
  /\ UNCHANGED sitting
-----------------------------------------------------------------------------
(* Modules.                                                                *)

InsmodCommand(d) ==
  /\ Command("insmod")
  /\ d \in sitting.modules
  /\ Insmod(d)
  /\ IF d = "my_dev" THEN ClearData ELSE UNCHANGED letterVars
  /\ UNCHANGED <<kioskVars, writer, trainVars>>

RmmodCommand(d) ==
  /\ Command("rmmod")
  /\ d \in sitting.modules
  /\ Rmmod(d)
  /\ UNCHANGED <<kioskVars, writer, letterVars, trainVars>>

Load ==
  /\ \E d \in Drivers : Loading(d)
  /\ UNCHANGED <<kioskVars, writer, letterVars, trainVars, shellVars>>
-----------------------------------------------------------------------------
(* Programs.  One at a time is in the foreground.                          *)

Start(program) == Command("run") /\ Idle /\ program \in sitting.programs

StartProgram ==
  \/ /\ Start("hw1") /\ RunKiosk
     /\ UNCHANGED <<writer, letterVars, trainVars>>
  \/ /\ \/ Start("writer_lab3_1") /\ RunWriter("lab3_1")
        \/ Start("writer_lab3_2") /\ RunWriter("lab3_2")
     /\ UNCHANGED <<kioskVars, letterVars, trainVars>>
  \/ /\ \/ Start("letter_writer") /\ RunLetterWriter
        \/ Start("reader") /\ RunReader
     /\ UNCHANGED <<kioskVars, writer, trainVars>>
  \/ /\ Start("lab5") /\ RunServer
     /\ UNCHANGED <<driverVars, kioskVars, writer, letterVars>>

KioskAlone  == UNCHANGED <<writer, letterVars, trainVars, shellVars>>
WriterAlone == UNCHANGED <<kioskVars, letterVars, trainVars, shellVars>>
LetterAlone == UNCHANGED <<kioskVars, writer, trainVars, shellVars>>
TrainAlone  == UNCHANGED <<driverVars, kioskVars, writer, letterVars, shellVars>>

Next ==
  \/ \E d \in Drivers : InsmodCommand(d) \/ RmmodCommand(d)
  \/ Load \/ StartProgram
  \/ KioskNext /\ KioskAlone
  \/ WriterNext /\ WriterAlone
  \/ LetterNext /\ LetterAlone
  \/ TrainNext /\ TrainAlone

Spec == Init /\ [][Next]_vars

(* The processes of hw1 and the reader are scheduled; and someone presses  *)
(* the key that hw1 waits for.                                             *)
FairSpec ==
  /\ Spec
  /\ WF_vars((Parent \/ SegChild \/ LedChild) /\ KioskAlone)
  /\ WF_vars(ReaderWorks /\ LetterAlone)
-----------------------------------------------------------------------------
(* A confirmed order comes back to the menu, whatever becomes of its forks *)
(* and of the devices (hw1.c 170-187); and a Ctrl + C ends the reader      *)
(* (reader.c 14-19, 61-76), unless it comes before the reader has a socket *)
(* (lines 29-31).                                                          *)
ProgramsEnd ==
  /\ kiosk = "fork1" ~> kiosk \in {"menu", "off"}
  /\ interrupted \in {"connection", "both"} ~> reader.pc = "off"

(* What the displays show is what was given to the programs.               *)
ShowsWhatWasGiven == OrderShown /\ DigitShown

(* The modules go through the steps of GpioDrivers only, whatever the      *)
(* programs do meanwhile: what is proved of these holds here.              *)
DriversAlone == DriverSpec
=============================================================================
