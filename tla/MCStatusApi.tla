----------------------------- MODULE MCStatusApi -----------------------------
(***************************************************************************)
(* Instances of StatusApi for TLC: two server threads, one monitor and     *)
(* pushes of up to two other ids, with the limit on states at one and at   *)
(* two.                                                                    *)
(***************************************************************************)
EXTENDS StatusApi, TLC

CONSTANTS h1, h2, monitored, pushed, other

MCHandlers == {h1, h2}
MCMonitors == {monitored}

Push(id, status, ttl) ==
    [authorized |-> TRUE, route |-> "collection", method |-> "post", fault |-> "none",
     id |-> id, status |-> status, ttl |-> ttl]
Get(route) ==
    [authorized |-> TRUE, route |-> route, method |-> "get", fault |-> "none",
     id |-> pushed, status |-> "ok", ttl |-> {}]

\* Requests that are answered and requests that are refused, and pushes of two ids that
\* compete for the last places in the store.
Mixed ==
    {Push(pushed, "ok", {}), Push(pushed, "unknown", {}), Push(other, "ok", {}),
     Get("item"), Get("collection"),
     [Push(pushed, "ok", {}) EXCEPT !.fault = "not json"]}

\* A push that expires, refreshed.
Refreshes == {Push(pushed, "ok", {2})}

MCNone == {}
NoTtl  == {{}}
TwoTtl == {{}, {2}}
=============================================================================
