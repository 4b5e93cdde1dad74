---------------------------- MODULE MCSimulator ----------------------------
(***************************************************************************)
(* The instance of Simulator for TLC: every combination of the two         *)
(* services, with and without monitors, and two workers, the default of    *)
(* the command line; a process without a web display shows a window.       *)
(***************************************************************************)
EXTENDS Simulator

CONSTANTS w1, w2

MCOptions == [Services \cup {"monitors"} -> BOOLEAN]
MCWorkers == {w1, w2}
=============================================================================
