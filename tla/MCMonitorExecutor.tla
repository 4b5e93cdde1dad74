-------------------------- MODULE MCMonitorExecutor --------------------------
(***************************************************************************)
(* The instance of MonitorExecutor for TLC: two monitors, of which the     *)
(* first one's runner may never return, and a pool of up to two threads    *)
(* that is made for one or two workers or with options start refuses.      *)
(***************************************************************************)
EXTENDS MonitorExecutor, TLC

CONSTANTS p1, p2

Exact(n) == n

TwoThreads == {p1, p2}
MCMonitors == {1, 2}

MCStatuses == {"unknown", "ok", "fail"}
MCInterval == (1 :> 2) @@ (2 :> 1)
MCTtl      == [m \in MCMonitors |-> {}]
MCFirstDue == [m \in MCMonitors |-> 0]
MCPolicy   == [m \in MCMonitors |->
                 [failure |-> "fail", no_match |-> "ok", rules |-> <<>>]]
MCResults  == {[transport_success |-> TRUE, value |-> Whole(0)]}

MCOptions ==
    {[worker_count |-> 2, idle_poll_interval |-> 10],
     [worker_count |-> 1, idle_poll_interval |-> 10],
     [worker_count |-> 9, idle_poll_interval |-> 10],
     [worker_count |-> 2, idle_poll_interval |-> 0]}
=============================================================================
