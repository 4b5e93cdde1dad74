------------------------------ MODULE Appearance ------------------------------
(***************************************************************************)
(* Timelines of colours (src/core/appearance.cpp) and the mixing of two    *)
(* colours (src/core/color.cpp).  Time is in milliseconds, a colour one of *)
(* its channels.                                                           *)
(*                                                                         *)
(* The code mixes in doubles.  Where the exact mixture lies half way       *)
(* between two channel values the doubles may fall on either side: `short` *)
(* tells on which.                                                         *)
(***************************************************************************)
EXTENDS Integers, Sequences, FiniteSets

\* interpolate by the amount n / d, clamped to [0, 1]; lround of the mixture.
Blend(from, to, n, d, short) ==
    LET part == IF n < 0 THEN 0 ELSE IF n > d THEN d ELSE n
        \* twice the mixture, plus one, in units of 1 / d
        raised == 2 * (from * d + (to - from) * part) + d
    IN  IF short /\ raised % (2 * d) = 0
        THEN raised \div (2 * d) - 1
        ELSE raised \div (2 * d)

\* scale_brightness by a percentage.
Dimmed(colour, percent) == Blend(0, colour, percent, 100, FALSE)

Keyframe(at, colour, transition) == [at |-> at, colour |-> colour, transition |-> transition]

\* The keyframes by their times; the loader makes no two of one time.
Sorted(keyframes) ==
    LET before(i) == {j \in DOMAIN keyframes :
                        \/ keyframes[j].at < keyframes[i].at
                        \/ keyframes[j].at = keyframes[i].at /\ j < i}
    IN  [k \in DOMAIN keyframes |->
            keyframes[CHOOSE i \in DOMAIN keyframes : Cardinality(before(i)) = k - 1]]

\* The constructor of TimelineAppearance, of one keyframe or more.
Timeline(keyframes, cycle, repeat) ==
    LET sorted == Sorted(keyframes)
        last   == sorted[Len(sorted)].at
    IN  [keyframes |-> sorted,
         cycle     |-> IF cycle < last THEN last ELSE cycle,
         repeat    |-> repeat]

\* Where in its cycle an appearance is after `elapsed`.
PhaseOf(a, elapsed) ==
    LET shown == IF elapsed < 0 THEN 0 ELSE elapsed
    IN  IF a.repeat /\ a.cycle > 0 THEN shown % a.cycle
        ELSE IF a.cycle > 0 /\ shown > a.cycle THEN a.cycle
        ELSE shown

\* The last keyframe before the first that lies ahead.
CurrentIndex(a, phase) ==
    CHOOSE i \in DOMAIN a.keyframes :
        /\ i = 1 \/ a.keyframes[i].at <= phase
        /\ i = Len(a.keyframes) \/ a.keyframes[i + 1].at > phase

\* TimelineAppearance::sample.
Sample(a, elapsed, short) ==
    LET phase   == PhaseOf(a, elapsed)
        i       == CurrentIndex(a, phase)
        current == a.keyframes[i]
        wraps   == i = Len(a.keyframes)
        next    == IF wraps THEN a.keyframes[1] ELSE a.keyframes[i + 1]
        until   == IF wraps THEN a.cycle ELSE next.at
    IN  CASE current.transition = "step" -> current.colour
          [] current.transition = "linear" /\ wraps /\ (~a.repeat \/ a.cycle <= current.at)
               -> current.colour
          [] OTHER
               -> IF until <= current.at
                  THEN next.colour
                  ELSE Blend(current.colour, next.colour,
                             phase - current.at, until - current.at, short)
===============================================================================
