----------------------------- MODULE MCLabMachine -----------------------------
(* Values for the run of LabMachine. *)
EXTENDS LabMachine

CONSTANTS r1, r2

AnyCall == {"region", "cdev", "class", "device", "valid", "request"}

Sitting(modules, programs, meanwhile, n) ==
  [modules |-> modules, programs |-> programs, meanwhile |-> meanwhile, commands |-> n]

(* One exercise after the other, and modules of several. *)
Exercises ==
  { Sitting({"seg", "led"}, {"hw1"}, {"rmmod"}, 3),
    Sitting({"seg"}, {"hw1"}, {"run"}, 2),
    Sitting({"lab3_1", "lab3_2"}, {"writer_lab3_1", "writer_lab3_2"}, {"insmod", "run"}, 3),
    Sitting({"my_dev"}, {"letter_writer", "reader"}, {"insmod", "rmmod", "run"}, 5),
    Sitting({"lab3_1", "seg", "led"}, {}, {}, 4),
    Sitting({}, {"lab5"}, {}, 1) }

Bool       == BOOLEAN
TwoRiders  == {r1, r2}
ThreePids  == 1 .. 3
Amounts    == {0, 9}
Nine       == {9}
=============================================================================
