--------------------------- MODULE AppearanceConfig ---------------------------
(***************************************************************************)
(* The appearances of statuses as the loader reads them: parse_steps and   *)
(* parse_appearance of src/core/config.cpp.  The conventions are those of  *)
(* the module Fields; an object of a type an appearance does not have is   *)
(* an object whose required fields are missing.                            *)
(***************************************************************************)
EXTENDS Fields, Appearance

\* Faulty: the keyframe of a step is where the step ends.
StepEnds(cycle, duration) == cycle + duration

\* Where the keyframe of a step is that follows `cycle` of other steps.
StepStarts(cycle, duration) == cycle

\* One step: a keyframe where the steps before it end.
AddStep(transition, parsed, step) ==
    LET colour   == Colours(step.colour)
        duration == AppearanceDurations(step.duration)
        cycle    == Or(parsed.value, [cycle |-> 0]).cycle
    IN  IF parsed.value = {} \/ colour = {} \/ duration = {} THEN Refused
        ELSE LET steps == Or(parsed.value, <<>>)
                 time  == Or(duration, 0)
             IN  IF time > Limit.appearance - cycle THEN Refused
                 ELSE Found([keyframes |-> Append(steps.keyframes,
                                 Keyframe(StepStarts(cycle, time), Or(colour, 0), transition)),
                             cycle |-> cycle + time],
                            parsed.sound /\ ~step.unknown)

ParseSteps(steps, minimum, transition) ==
    IF Len(steps) \notin minimum..Limit.steps
    THEN Refused
    ELSE LET parsed[i \in 0..Len(steps)] ==
                 IF i = 0 THEN Found([keyframes |-> <<>>, cycle |-> 0], TRUE)
                 ELSE AddStep(transition, parsed[i - 1], steps[i])
         IN  parsed[Len(steps)]

Solid(a) ==
    LET colour == Colours(a.colour)
    IN  IF colour = {} THEN Refused
        ELSE Found(Timeline(<<Keyframe(0, Or(colour, 0), "step")>>, 0, FALSE), TRUE)

Blink(a) ==
    LET colour == Colours(a.colour)
        on     == AppearanceDurations(a.on)
        off    == AppearanceDurations(a.off)
    IN  IF \/ colour = {} \/ on = {} \/ off = {}
           \/ Or(on, 0) > Limit.appearance - Or(off, 0)
        THEN Refused
        ELSE Found(Timeline(<<Keyframe(0, Or(colour, 0), "step"),
                              Keyframe(Or(on, 0), 0, "step")>>,
                            Or(on, 0) + Or(off, 0), TRUE), ~a.unknown)

Toggle(a) ==
    LET period == AppearanceDurations(a.period)
        time   == Or(period, 0)
        count  == Len(a.colours)
    IN  IF \/ count \notin 2..Limit.toggle
           \/ period = {}
           \/ time > Limit.appearance \div count
           \/ \E i \in 1..count : Colours({a.colours[i]}) = {}
        THEN Refused
        ELSE Found(Timeline([i \in 1..count |->
                                Keyframe(time * (i - 1), a.colours[i], "step")],
                            time * count, TRUE), ~a.unknown)

\* Two colours that melt into each other, each reached once per period.
Swing(first, second, period) ==
    Timeline(<<Keyframe(0, first, "linear"), Keyframe(period \div 2, second, "linear")>>,
             period, TRUE)

Fade(a) ==
    LET from   == Colours(a.from)
        to     == Colours(a.to)
        period == AppearanceDurations(a.period)
    IN  IF from = {} \/ to = {} \/ period = {} \/ Or(period, 0) < 2
        THEN Refused
        ELSE Found(Swing(Or(from, 0), Or(to, 0), Or(period, 0)), ~a.unknown)

Pulse(a) ==
    LET colour  == Colours(a.colour)
        period  == AppearanceDurations(a.period)
        minimum == Percentages(a.minimum)
        maximum == Percentages(a.maximum)
    IN  IF \/ colour = {} \/ period = {} \/ Or(period, 0) < 2
           \/ ~Well(a.minimum, minimum) \/ ~Well(a.maximum, maximum)
           \/ Or(minimum, 10) > Or(maximum, 100)
        THEN Refused
        ELSE Found(Swing(Dimmed(Or(colour, 0), Or(minimum, 10)),
                         Dimmed(Or(colour, 0), Or(maximum, 100)), Or(period, 0)),
                   ~a.unknown)

FromSteps(parsed, repeat, unknown) ==
    IF parsed.value = {} THEN Missing(parsed.sound /\ ~unknown)
    ELSE LET steps == Or(parsed.value, <<>>)
         IN  Found(Timeline(steps.keyframes, steps.cycle, repeat), parsed.sound /\ ~unknown)

Sequence(a) ==
    IF a.repeat \ {"true", "false"} # {} THEN Refused
    ELSE FromSteps(ParseSteps(a.steps, 1, "step"), Or(a.repeat, "true") = "true", a.unknown)

Cycle(a) ==
    IF a.transition \ {"linear", "step"} # {} THEN Refused
    ELSE FromSteps(ParseSteps(a.steps, 2, Or(a.transition, "linear")), TRUE, a.unknown)

\* `fields` is the number of appearance types the object names.
ParseAppearance(status) ==
    IF status.appearance = {} THEN Refused
    ELSE LET a == Or(status.appearance, <<>>)
             parsed ==
                CASE a.type = "solid"    -> Solid(a)
                  [] a.type = "blink"    -> Blink(a)
                  [] a.type = "toggle"   -> Toggle(a)
                  [] a.type = "fade"     -> Fade(a)
                  [] a.type = "pulse"    -> Pulse(a)
                  [] a.type = "sequence" -> Sequence(a)
                  [] a.type = "cycle"    -> Cycle(a)
                  [] OTHER               -> Refused
         IN  IF a.fields # 1 THEN Refused
             ELSE [parsed EXCEPT !.sound = @ /\ ~status.unknown]
===============================================================================
