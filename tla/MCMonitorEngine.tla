--------------------------- MODULE MCMonitorEngine ---------------------------
(***************************************************************************)
(* The instance of MonitorEngine for TLC: three monitors with different    *)
(* intervals, one of them with a ttl, pumped up to two jobs at a time by   *)
(* two threads on a clock finer than the millisecond.                      *)
(***************************************************************************)
EXTENDS MonitorEngine, TLC

CONSTANTS p1, p2

Exact(n) == n

MCPumps    == {p1, p2}
MCMonitors == 1..3
Symmetry   == Permutations(MCPumps)

MCStatuses == {"unknown", "ok", "fail"}

MCInterval == (1 :> 1) @@ (2 :> 1) @@ (3 :> 2)
MCTtl      == (1 :> {2}) @@ (2 :> {}) @@ (3 :> {})
MCFirstDue == (1 :> 1) @@ (2 :> 0) @@ (3 :> 0)

\* A result below 1 is "ok", anything else observed is "unknown".
BelowOne == [op |-> "less_than", expected |-> Whole(1), upper |-> {}]
Threshold ==
    [failure  |-> "fail",
     no_match |-> "unknown",
     rules    |-> <<[when |-> {BelowOne}, status |-> "ok"]>>]
MCPolicy == [m \in MCMonitors |-> Threshold]

Low        == [transport_success |-> TRUE, value |-> Whole(0)]
Unanswered == [transport_success |-> FALSE, value |-> NoValue]
MCResults  == {Low, Unanswered}
=============================================================================
