-------------------------------- MODULE Fields --------------------------------
(***************************************************************************)
(* What the loader asks of one field of a JSON object                      *)
(* (src/core/config.cpp, the helpers before the parsers).                  *)
(*                                                                         *)
(* A field is a set of at most one value, empty where the object lacks it. *)
(* A value of another JSON type stands with a value of the right type that *)
(* is out of range (the identifier "", a negative number): the helpers     *)
(* answer both with nullopt and an error.  `unknown` tells whether the     *)
(* object has a field that reject_unknown_fields does not list, which is   *)
(* an error and changes nothing else.                                      *)
(*                                                                         *)
(* A parser gives the optional value it returns and whether it was sound,  *)
(* that is, added no error: [value |-> optional, sound |-> BOOLEAN].       *)
(***************************************************************************)
EXTENDS Integers, Sequences, FiniteSets, SequencesExt

CONSTANTS
    Limit,       \* the maximum_ and minimum_ constants of the loader, by name
    UnitLength,  \* the milliseconds in each unit of parse_duration
    MaxRep,      \* the largest std::int64_t
    MaxChannel   \* the largest value of a colour channel

ASSUME FieldsAssumption ==
    /\ \A name \in DOMAIN Limit : Limit[name] \in Nat
    \* What a job repeats after and how long a card stays is not nothing, and a default
    \* is a value the field may have.
    /\ Limit.min_interval > 0 /\ Limit.min_hold > 0 /\ Limit.side > 0
    /\ Limit.default_timeout \in 1..Limit.timeout
    /\ Limit.default_response \in 1..Limit.response
    /\ {"min_interval", "min_hold", "side", "timeout", "default_timeout", "response",
        "default_response", "clock_width", "clock_height", "clock_card", "nodes",
        "depth", "widgets", "monitors", "delimiter"} \subseteq DOMAIN Limit
    /\ \A unit \in DOMAIN UnitLength : UnitLength[unit] \in Nat \ {0}
    /\ MaxRep \in Nat
    /\ MaxChannel \in Nat

Found(value, sound) == [value |-> {value}, sound |-> sound]
Missing(sound)      == [value |-> {}, sound |-> sound]
Refused             == Missing(FALSE)

\* An optional field, of which `found` is the accepted part, raised no error.
Well(field, found) == field = {} \/ found # {}

\* The value an optional field gives, or the default it leaves in place.
Or(found, default) == IF found = {} THEN default ELSE CHOOSE v \in found : TRUE

\* required_identifier, optional_identifier and the entries checked with
\* is_valid_identifier: the texts that are none stand as "".
Identifiers(field) == field \ {""}

\* A list of identifiers none of which repeats an earlier one.
ProperNames(names) == "" \notin ToSet(names) /\ IsInjective(names)

\* bounded_size.
Bounded(field, low, high) == field \cap (low..high)

\* color_value.  A colour is one of its channels, which the code treats alike.
Colours(field) == field \cap (0..MaxChannel)

\* parse_duration of a text [amount, unit].
ParsedDuration(text) ==
    IF text.unit \in DOMAIN UnitLength /\ text.amount >= 0
    THEN IF text.amount > MaxRep \div UnitLength[text.unit]
         THEN {}
         ELSE {text.amount * UnitLength[text.unit]}
    ELSE {}

\* bounded_duration_value, and duration_value with the limits of an appearance.
Durations(field, low, high) ==
    (UNION {ParsedDuration(text) : text \in field}) \cap (low..high)

AppearanceDurations(field) == Durations(field, 1, Limit.appearance)

\* percentage_value, in percent.
Percentages(field) == Bounded(field, 0, 100)
===============================================================================
