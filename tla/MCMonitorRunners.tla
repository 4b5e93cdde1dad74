-------------------------- MODULE MCMonitorRunners --------------------------
(***************************************************************************)
(* Instances of MonitorRunners for TLC: one monitor of every kind, and     *)
(* exchanges with and without a payload, with delimiters of one and two    *)
(* bytes that pieces of the answer may cut in two.                         *)
(***************************************************************************)
EXTENDS MonitorRunners

Monitor(kind, timeout, send, read_until, limit) ==
    [kind |-> kind, timeout |-> timeout, send |-> send, read_until |-> read_until,
     maximum_response_bytes |-> limit]

MCConfigs ==
    {Monitor(kind, 2, 0, <<>>, 2) : kind \in Kinds \ {"tcp_exchange"}}
    \cup {Monitor("tcp_exchange", 2, 0, <<"a", "b">>, 3),
          Monitor("tcp_exchange", 2, 2, <<"a">>, 2)}

WinHttpOnly == {Monitor("winhttp", 2, 0, <<>>, 3)}
=============================================================================
