------------------------------ MODULE Evaluator ------------------------------
(***************************************************************************)
(* The evaluator (src/core/evaluator.cpp): validation of an evaluation     *)
(* policy and the mapping of one monitor result to a status.               *)
(*                                                                         *)
(* A StateValue is a record that names its kind.  Integers and reals are   *)
(* numbers on one scale; "nan" and "infinity" are the doubles that         *)
(* std::isfinite rejects; a text is the set of the fragments it contains,  *)
(* itself included, which is all `find` and equality can tell.             *)
(***************************************************************************)
EXTENDS Integers, Sequences, FiniteSets

\* What a 64-bit integer becomes as a long double: itself where that type has a
\* mantissa of 64 bits or more, a rounded number where it is a plain double.
CONSTANT AsLongDouble(_)

NoValue     == [kind |-> "none"]
Truth(b)    == [kind |-> "bool", truth |-> b]
Whole(n)    == [kind |-> "integer", v |-> n]
Float(n)    == [kind |-> "real", v |-> n]
NaN         == [kind |-> "nan"]
Infinity    == [kind |-> "infinity"]
Text(parts) == [kind |-> "text", parts |-> parts]

IsNumber(value) == value.kind \in {"integer", "real"}
IsText(value)   == value.kind = "text"

\* number_value, of a value that is a number; a double is exact as a long double.
NumberValue(value) == IF value.kind = "integer" THEN AsLongDouble(value.v) ELSE value.v

\* values_equal: numbers by value across kinds, otherwise the variant's own
\* equality, under which a NaN differs from itself.
ValuesEqual(actual, expected) ==
    IF IsNumber(actual) /\ IsNumber(expected)
    THEN NumberValue(actual) = NumberValue(expected)
    ELSE actual = expected /\ actual # NaN

BothText(actual, c)   == IsText(actual) /\ IsText(c.expected)
BothNumber(actual, c) == IsNumber(actual) /\ IsNumber(c.expected)

Fragment(actual, c) == c.expected.parts \subseteq actual.parts

\* Faulty: the inclusive comparisons exclude equality.
OrderedStrictly(op, x, y) ==
    \/ op \in {"greater_than", "greater_or_equal"} /\ x > y
    \/ op \in {"less_than", "less_or_equal"}       /\ x < y

\* The ordered comparison `op` of two long doubles.
Ordered(op, x, y) ==
    \/ op = "greater_than"     /\ x > y
    \/ op = "greater_or_equal" /\ x >= y
    \/ op = "less_than"        /\ x < y
    \/ op = "less_or_equal"    /\ x <= y

TextMatches(actual, c) ==
    \/ c.op = "contains"     /\ BothText(actual, c) /\ Fragment(actual, c)
    \/ c.op = "not_contains" /\ BothText(actual, c) /\ ~Fragment(actual, c)

\* condition_matches.  c.upper is the optional upper bound.
ConditionMatches(actual, c) ==
    \/ c.op = "exists"       /\ actual.kind # "none"
    \/ c.op = "not_exists"   /\ actual.kind = "none"
    \/ c.op = "equals"       /\ ValuesEqual(actual, c.expected)
    \/ c.op = "not_equals"   /\ ~ValuesEqual(actual, c.expected)
    \/ TextMatches(actual, c)
    \/ /\ BothNumber(actual, c)
       /\ Ordered(c.op, NumberValue(actual), NumberValue(c.expected))
    \/ /\ c.op = "between"
       /\ BothNumber(actual, c)
       /\ \E upper \in c.upper :
             /\ IsNumber(upper)
             /\ NumberValue(actual) >= NumberValue(c.expected)
             /\ NumberValue(actual) <= NumberValue(upper)

\* validate_condition: the operands each comparison accepts.
ConditionValid(c) ==
    \/ c.op \in {"exists", "not_exists"} /\ c.expected.kind = "none" /\ c.upper = {}
    \/ c.op \in {"equals", "not_equals"} /\ c.upper = {}
    \/ c.op \in {"contains", "not_contains"} /\ IsText(c.expected) /\ c.upper = {}
    \/ /\ c.op \in {"greater_than", "greater_or_equal", "less_than", "less_or_equal"}
       /\ IsNumber(c.expected) /\ c.upper = {}
    \/ /\ c.op = "between"
       /\ IsNumber(c.expected)
       /\ \E upper \in c.upper :
             IsNumber(upper) /\ NumberValue(c.expected) <= NumberValue(upper)

\* Evaluator::validate.  A rule's `when` is an optional condition; `otherwise`
\* is the rule without one and must be the last.  Status names are model
\* identifiers here and need no check.
PolicyValid(policy) ==
    \A i \in DOMAIN policy.rules :
        IF policy.rules[i].when = {}
        THEN i = Len(policy.rules)
        ELSE \A c \in policy.rules[i].when : ConditionValid(c)

RuleMatches(rule, value) == \A c \in rule.when : ConditionMatches(value, c)

Matching(policy, value) ==
    {i \in DOMAIN policy.rules : RuleMatches(policy.rules[i], value)}

\* Faulty: the last rule that matches wins.
IsLastOutcome(result, policy, status) ==
    \/ ~result.transport_success /\ status = policy.failure
    \/ /\ result.transport_success
       /\ \E i \in Matching(policy, result.value) :
             /\ \A j \in Matching(policy, result.value) : i >= j
             /\ status = policy.rules[i].status
    \/ /\ result.transport_success
       /\ Matching(policy, result.value) = {}
       /\ status = policy.no_match

\* Evaluator::evaluate, the statuses it may give: a transport failure bypasses
\* the rules, the first rule that matches wins, and no_match is what is left.
IsOutcome(result, policy, status) ==
    \/ ~result.transport_success /\ status = policy.failure
    \/ /\ result.transport_success
       /\ \E i \in Matching(policy, result.value) :
             /\ \A j \in Matching(policy, result.value) : i <= j
             /\ status = policy.rules[i].status
    \/ /\ result.transport_success
       /\ Matching(policy, result.value) = {}
       /\ status = policy.no_match

PolicyStatuses(policy) ==
    {policy.failure, policy.no_match}
        \cup {policy.rules[i].status : i \in DOMAIN policy.rules}
=============================================================================
