-------------------------------- MODULE Mirror --------------------------------
(***************************************************************************)
(* What a mirror of a stream of frames promises.  Frames are produced and  *)
(* numbered; what the mirror displays is always one of them as a whole, it *)
(* may skip any number of them, and it never returns to an older one.      *)
(***************************************************************************)
EXTENDS Integers

CONSTANT MaxSequence   \* bound of the model: frames produced

VARIABLES
    sequence,    \* the number of the newest frame
    displayed    \* the number of the frame displayed last, -1 before the first

Init == sequence = 0 /\ displayed = -1

Produce ==
    /\ sequence < MaxSequence
    /\ sequence' = sequence + 1
    /\ UNCHANGED displayed

Display ==
    /\ displayed' \in (displayed + 1)..sequence
    /\ UNCHANGED sequence

Next == Produce \/ Display

Spec == Init /\ [][Next]_<<sequence, displayed>>
=============================================================================
