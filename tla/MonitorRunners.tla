--------------------------- MODULE MonitorRunners ---------------------------
(***************************************************************************)
(* One call of MonitorRunner::run on a worker thread, for each kind of     *)
(* monitor: the socket transport (src/host/socket_transport.cpp), the      *)
(* tcp_connect, tcp_exchange, dns and icmp_ping runners, and the two HTTP  *)
(* transports.  The resolver, the peer and the clock are the environment.  *)
(* Time passes only while the thread is blocked in the system: what the    *)
(* thread does between two waits is instantaneous next to a timeout.       *)
(***************************************************************************)
EXTENDS Integers, Sequences, FiniteSets

CONSTANTS
    Configs,      \* the monitors that may be run
    Bytes,        \* what a peer may send
    BufferBytes,  \* the receive buffer (1024 bytes in the code)
    MaxAddresses, \* bound of the model: the addresses a name resolves to
    MaxResolve,   \* bound of the model: the longest resolution looked at
    MaxStream     \* bound of the model: the bytes a peer sends

Kinds == {"tcp_connect", "tcp_exchange", "dns", "icmp_ping", "http", "winhttp"}

\* What the create functions let through: a timeout, a delimiter that fits
\* within the response limit.  Only an exchange has a delimiter.
Creatable(c) ==
    /\ c.kind \in Kinds
    /\ c.timeout \in Nat \ {0}
    /\ c.send \in Nat
    /\ c.read_until \in Seq(Bytes)
    /\ c.maximum_response_bytes \in Nat \ {0}
    /\ c.kind = "tcp_exchange" => /\ c.read_until # <<>>
                                  /\ Len(c.read_until) <= c.maximum_response_bytes

ASSUME RunnersAssumption ==
    /\ \A c \in Configs : Creatable(c)
    /\ BufferBytes \in Nat \ {0}
    /\ MaxAddresses \in Nat
    /\ MaxResolve \in Nat
    /\ MaxStream \in Nat

VARIABLES
    config,      \* the monitor that is run
    at,          \* where the thread stands
    now,         \* the time since run began
    since,       \* when the present wait in the system began
    resolved,    \* when the name had been resolved
    addresses,   \* the addresses not tried yet
    final_error, \* the last error of a connection attempt
    sent,        \* bytes of the payload handed to the socket
    writable,    \* whether the socket's send buffer has room
    stream,      \* the bytes the peer has sent
    peer,        \* "open", "closed" (no more bytes) or "reset"
    response,    \* the bytes read
    error        \* MonitorResult::error; a success is "none"

vars == <<config, at, now, since, resolved, addresses, final_error, sent, writable,
          stream, peer, response, error>>

Errors == {"none", "timeout", "name_resolution", "connection", "tls", "protocol",
           "response_too_large", "invalid_response", "internal"}

Places == {"resolve", "connect", "connecting", "send", "sending", "receive", "receiving",
           "echo", "transfer", "connection", "request", "head", "body", "done"}

TypeOK ==
    /\ config \in Configs
    /\ at \in Places
    /\ now \in Nat
    /\ since \in Nat
    /\ resolved \in Nat
    /\ addresses \in 0..MaxAddresses
    /\ final_error \in {"none", "ETIMEDOUT", "other"}
    /\ sent \in Nat
    /\ writable \in BOOLEAN
    /\ stream \in Seq(Bytes)
    /\ peer \in {"open", "closed", "reset"}
    /\ response \in Seq(Bytes)
    /\ error \in Errors

Init ==
    /\ config \in Configs
    /\ at = CASE config.kind = "http" -> "transfer"
              [] config.kind = "winhttp" -> "connection"
              [] OTHER -> "resolve"
    /\ now = 0
    /\ since = 0
    /\ resolved = 0
    /\ addresses = 0
    /\ final_error = "none"
    /\ sent = 0
    /\ writable = TRUE
    /\ stream = <<>>
    /\ peer = "open"
    /\ response = <<>>
    /\ error = "none"

-----------------------------------------------------------------------------
\* Faulty: every wait of the socket runners gets the whole timeout again.
ExpiredSince == now - since >= config.timeout

\* The deadline is config.timeout after the run began (begin = 0).
Expired == now >= config.timeout

\* Every wait of WinHTTP and of IcmpSendEcho has a timeout of its own.
WaitExpired == now - since >= config.timeout

Unread == SubSeq(stream, Len(response) + 1, Len(stream))

Ends(text, delimiter, i) ==
    /\ Len(delimiter) <= i
    /\ i <= Len(text)
    /\ SubSeq(text, i - Len(delimiter) + 1, i) = delimiter

\* Whether the delimiter is in the text (std::string::find).
Delimited(text) == \E i \in 1..Len(text) : Ends(text, config.read_until, i)

\* The text up to the end of the first delimiter, find's result plus its length.
IsAnswer(answer, text) ==
    \E i \in 1..Len(text) :
        /\ Ends(text, config.read_until, i)
        /\ \A j \in 1..(i - 1) : ~Ends(text, config.read_until, j)
        /\ answer = SubSeq(text, 1, i)

Finish(e) ==
    /\ at' = "done"
    /\ error' = e
    /\ since' = now

Go(place) ==
    /\ at' = place
    /\ since' = now
    /\ UNCHANGED error

-----------------------------------------------------------------------------
\* The socket runtime does not start.
RuntimeFails ==
    /\ at = "resolve"
    /\ now = 0
    /\ Finish("internal")
    /\ UNCHANGED <<config, now, resolved, addresses, final_error, sent, writable,
                   stream, peer, response>>

\* getaddrinfo fails.  The DNS runner looks at its timeout before the failure.
ResolutionFails ==
    /\ at = "resolve"
    /\ Finish(IF config.kind = "dns" /\ now > config.timeout THEN "timeout"
              ELSE "name_resolution")
    /\ resolved' = now
    /\ UNCHANGED <<config, now, addresses, final_error, sent, writable, stream, peer,
                   response>>

\* getaddrinfo gives a list of n addresses; those a DNS answer holds may be of
\* families the runner does not know, which leaves it with none.
Resolves(n) ==
    /\ at = "resolve"
    /\ resolved' = now
    /\ IF config.kind = "dns"
       THEN /\ Finish(IF now > config.timeout THEN "timeout"
                      ELSE IF n = 0 THEN "invalid_response" ELSE "none")
            /\ UNCHANGED addresses
       ELSE /\ n > 0
            /\ Go(IF config.kind = "icmp_ping" THEN "echo" ELSE "connect")
            /\ addresses' = n
    /\ UNCHANGED <<config, now, final_error, sent, writable, stream, peer, response>>

\* What a runner does with its connection: tcp_connect is done, an exchange
\* sends its payload, if it has one, and reads.
Connected ==
    IF config.kind = "tcp_connect" THEN Finish("none")
    ELSE Go(IF config.send = 0 THEN "receive" ELSE "send")

\* connect_tcp with an address left: the deadline is looked at before the socket
\* is made; the connection is made at once, refused at once or under way.
TryAddress ==
    /\ at = "connect"
    /\ addresses > 0
    /\ IF Expired
       THEN /\ Finish("timeout")
            /\ UNCHANGED <<addresses, final_error>>
       ELSE /\ addresses' = addresses - 1
            /\ \/ /\ Connected
                  /\ UNCHANGED final_error
               \/ /\ Go("connecting")
                  /\ final_error' = "other"
               \/ /\ final_error' \in {"other", "ETIMEDOUT"}
                  /\ UNCHANGED <<at, since, error>>
    /\ UNCHANGED <<config, now, resolved, sent, writable, stream, peer, response>>

\* wait_for_socket on a connection under way: made, failed (the next address is
\* tried) or timed out, which ends the run whatever addresses are left.
AwaitConnection ==
    /\ at = "connecting"
    /\ \/ Expired /\ Finish("timeout") /\ UNCHANGED final_error
       \/ Connected /\ UNCHANGED final_error
       \/ Go("connect") /\ final_error' \in {"other", "ETIMEDOUT"}
    /\ UNCHANGED <<config, now, resolved, addresses, sent, writable, stream, peer, response>>

NoAddressLeft ==
    /\ at = "connect"
    /\ addresses = 0
    /\ Finish(IF final_error = "ETIMEDOUT" \/ Expired THEN "timeout" ELSE "connection")
    /\ UNCHANGED <<config, now, resolved, addresses, final_error, sent, writable, stream,
                   peer, response>>

-----------------------------------------------------------------------------
\* send_some: the socket takes n bytes of what is left of the payload.
SendSome(n) ==
    /\ at = "send"
    /\ writable
    /\ sent' = sent + n
    /\ IF sent' = config.send THEN Go("receive") ELSE UNCHANGED <<at, since, error>>
    /\ writable' \in BOOLEAN
    /\ UNCHANGED <<config, now, resolved, addresses, final_error, stream, peer, response>>

\* send_some would block and waits, and tries again once there is room.
AwaitRoom ==
    /\ \/ at = "send" /\ ~writable /\ Go("sending")
       \/ at = "sending" /\ writable /\ Go("send")
       \/ at = "sending" /\ Expired /\ Finish("timeout")
    /\ UNCHANGED <<config, now, resolved, addresses, final_error, sent, writable, stream,
                   peer, response>>

\* The payload cannot be sent, or the connection breaks while it is awaited.
SocketFails ==
    /\ at \in {"send", "sending", "receive", "receiving"}
    /\ peer = "reset"
    /\ Finish("connection")
    /\ UNCHANGED <<config, now, resolved, addresses, final_error, sent, writable, stream,
                   peer, response>>

ResponseFull ==
    /\ at = "receive"
    /\ Len(response) = config.maximum_response_bytes
    /\ Finish("response_too_large")
    /\ UNCHANGED <<config, now, resolved, addresses, final_error, sent, writable, stream,
                   peer, response>>

\* Faulty: the delimiter is looked for in the newest piece alone.
ReceiveInPieces(n) ==
    /\ at = "receive"
    /\ Len(response) < config.maximum_response_bytes
    /\ n <= BufferBytes
    /\ n <= config.maximum_response_bytes - Len(response)
    /\ n <= Len(Unread)
    /\ LET piece == SubSeq(Unread, 1, n)
       IN  IF Delimited(piece)
           THEN /\ \E i \in 1..n : /\ IsAnswer(SubSeq(piece, 1, i), piece)
                                   /\ response' = response \o SubSeq(piece, 1, i)
                /\ Finish("none")
           ELSE response' = response \o piece /\ UNCHANGED <<at, since, error>>
    /\ UNCHANGED <<config, now, resolved, addresses, final_error, sent, writable, stream, peer>>

\* Faulty: what follows the delimiter in the last piece is kept.
ReceiveAll(n) ==
    /\ at = "receive"
    /\ Len(response) < config.maximum_response_bytes
    /\ n <= BufferBytes
    /\ n <= config.maximum_response_bytes - Len(response)
    /\ n <= Len(Unread)
    /\ response' = response \o SubSeq(Unread, 1, n)
    /\ IF Delimited(response') THEN Finish("none") ELSE UNCHANGED <<at, since, error>>
    /\ UNCHANGED <<config, now, resolved, addresses, final_error, sent, writable, stream, peer>>

\* receive_some gives n of the bytes that have come, and the runner looks for
\* the delimiter in everything it has read; what follows it is cut off.
ReceiveSome(n) ==
    /\ at = "receive"
    /\ Len(response) < config.maximum_response_bytes
    /\ n <= BufferBytes
    /\ n <= config.maximum_response_bytes - Len(response)
    /\ n <= Len(Unread)
    /\ LET text == response \o SubSeq(Unread, 1, n)
       IN  IF Delimited(text)
           THEN IsAnswer(response', text) /\ Finish("none")
           ELSE response' = text /\ UNCHANGED <<at, since, error>>
    /\ UNCHANGED <<config, now, resolved, addresses, final_error, sent, writable, stream, peer>>

PeerHasClosed ==
    /\ at = "receive"
    /\ Len(response) < config.maximum_response_bytes
    /\ Unread = <<>>
    /\ peer = "closed"
    /\ Finish("protocol")
    /\ UNCHANGED <<config, now, resolved, addresses, final_error, sent, writable, stream,
                   peer, response>>

\* Faulty: a wait for bytes has no deadline.
AwaitBytesForever ==
    /\ \/ /\ at = "receive"
          /\ Len(response) < config.maximum_response_bytes
          /\ Unread = <<>>
          /\ peer = "open"
          /\ Go("receiving")
       \/ /\ at = "receiving"
          /\ Unread # <<>> \/ peer # "open"
          /\ Go("receive")
    /\ UNCHANGED <<config, now, resolved, addresses, final_error, sent, writable, stream,
                   peer, response>>

\* receive_some would block and waits, and tries again once something has come.
AwaitBytes ==
    /\ \/ /\ at = "receive"
          /\ Len(response) < config.maximum_response_bytes
          /\ Unread = <<>>
          /\ peer = "open"
          /\ Go("receiving")
       \/ /\ at = "receiving"
          /\ \/ Expired /\ Finish("timeout")
             \/ (Unread # <<>> \/ peer # "open") /\ Go("receive")
    /\ UNCHANGED <<config, now, resolved, addresses, final_error, sent, writable, stream,
                   peer, response>>

-----------------------------------------------------------------------------
\* IcmpSendEcho, given the whole timeout again after the resolution; its handle
\* may fail to be made.
Echo ==
    /\ at = "echo"
    /\ \/ WaitExpired /\ Finish("timeout")
       \/ \E e \in {"none", "connection", "internal"} : Finish(e)
    /\ UNCHANGED <<config, now, resolved, addresses, final_error, sent, writable, stream,
                   peer, response>>

\* httplib's client, which is given an overall timeout: it fails with one of its
\* errors, refuses a response whose Content-Length is over the limit, passes the
\* body on in pieces, the one that goes over the limit being refused, and ends.
Transfer ==
    /\ at = "transfer"
    /\ \/ /\ Expired
          /\ Finish("timeout")
          /\ UNCHANGED response
       \/ /\ ~Expired
          /\ \E e \in {"connection", "tls", "protocol"} : Finish(e)
          /\ UNCHANGED response
       \/ /\ ~Expired
          /\ response = <<>>
          /\ Finish("response_too_large")
          /\ UNCHANGED response
       \/ \E n \in 1..Len(Unread) :
             /\ ~Expired
             /\ IF n > config.maximum_response_bytes - Len(response)
                THEN Finish("response_too_large") /\ UNCHANGED response
                ELSE /\ response' = response \o SubSeq(Unread, 1, n)
                     /\ UNCHANGED <<at, since, error>>
       \/ /\ ~Expired
          /\ Unread = <<>>
          /\ peer = "closed"
          /\ Finish("none")
          /\ UNCHANGED response
    /\ UNCHANGED <<config, now, resolved, addresses, final_error, sent, writable, stream, peer>>

\* perform_winhttp_request up to the body: connecting, sending and the response
\* head are waits with a timeout each, and may fail.
WinHttpPhase(place, next) ==
    /\ at = place
    /\ \/ Finish(IF WaitExpired THEN "timeout" ELSE "connection")
       \/ ~WaitExpired /\ \E e \in {"name_resolution", "tls", "protocol"} : Finish(e)
       \/ ~WaitExpired /\ Go(next)
    /\ UNCHANGED <<config, now, resolved, addresses, final_error, sent, writable, stream,
                   peer, response>>

\* One round of its read loop: WinHttpQueryDataAvailable and WinHttpReadData,
\* with a timeout that begins anew with every round.
WinHttpRead ==
    /\ at = "body"
    /\ \/ /\ WaitExpired
          /\ Finish("timeout")
          /\ UNCHANGED response
       \/ /\ ~WaitExpired
          /\ peer = "reset"
          /\ Finish("connection")
          /\ UNCHANGED response
       \/ /\ ~WaitExpired
          /\ Unread = <<>>
          /\ peer = "closed"
          /\ Finish("none")
          /\ UNCHANGED response
       \/ \E available \in 1..Len(Unread) :
             /\ ~WaitExpired
             /\ IF available > config.maximum_response_bytes - Len(response)
                THEN Finish("response_too_large") /\ UNCHANGED response
                ELSE /\ \E n \in 1..available :
                           n <= BufferBytes /\ response' = response \o SubSeq(Unread, 1, n)
                     /\ Go("body")
    /\ UNCHANGED <<config, now, resolved, addresses, final_error, sent, writable, stream, peer>>

Step ==
    \/ RuntimeFails \/ ResolutionFails \/ (\E n \in 0..MaxAddresses : Resolves(n))
    \/ TryAddress \/ AwaitConnection \/ NoAddressLeft
    \/ (\E n \in 1..(config.send - sent) : SendSome(n)) \/ AwaitRoom \/ SocketFails
    \/ ResponseFull \/ (\E n \in 1..BufferBytes : ReceiveSome(n)) \/ PeerHasClosed \/ AwaitBytes
    \/ Echo \/ Transfer
    \/ WinHttpPhase("connection", "request") \/ WinHttpPhase("request", "head")
    \/ WinHttpPhase("head", "body") \/ WinHttpRead

-----------------------------------------------------------------------------
\* The thread sits in the system and nothing has come to wake it.
Blocked ==
    \/ at = "resolve" /\ now < MaxResolve
    \/ at \in {"connecting", "transfer"} /\ ~Expired
    \/ at = "sending" /\ ~Expired /\ ~writable
    \/ at = "receiving" /\ ~Expired /\ Unread = <<>> /\ peer = "open"
    \/ at \in {"echo", "connection", "request", "head"} /\ ~WaitExpired
    \/ at = "body" /\ ~WaitExpired /\ Unread = <<>> /\ peer = "open"

Tick ==
    /\ Blocked
    /\ now' = now + 1
    /\ UNCHANGED <<config, at, since, resolved, addresses, final_error, sent, writable,
                   stream, peer, response, error>>

Talking == at \in {"send", "sending", "receive", "receiving", "transfer", "body"}

PeerSends ==
    /\ Talking
    /\ peer = "open"
    /\ Len(stream) < MaxStream
    /\ \E b \in Bytes : stream' = Append(stream, b)
    /\ UNCHANGED <<config, at, now, since, resolved, addresses, final_error, sent, writable,
                   peer, response, error>>

PeerEnds ==
    /\ Talking
    /\ \/ peer = "open" /\ peer' = "closed"
       \/ peer # "reset" /\ peer' = "reset"
    /\ UNCHANGED <<config, at, now, since, resolved, addresses, final_error, sent, writable,
                   stream, response, error>>

PeerTakes ==
    /\ at \in {"send", "sending"}
    /\ ~writable
    /\ writable' = TRUE
    /\ UNCHANGED <<config, at, now, since, resolved, addresses, final_error, sent, stream,
                   peer, response, error>>

Peer == PeerSends \/ PeerEnds \/ PeerTakes

Done == at = "done" /\ UNCHANGED vars

Next == Step \/ Tick \/ Peer \/ Done

Spec == Init /\ [][Next]_vars

\* The thread is scheduled and time passes; nothing is asked of the peer.
FairSpec == Spec /\ WF_vars(Step) /\ WF_vars(Tick)

-----------------------------------------------------------------------------
Finished == at = "done"
Answered == Finished /\ error = "none"

\* A successful exchange has sent its whole payload, and its observation is what
\* the peer sent up to the end of the first delimiter and no byte more, however
\* the bytes were cut into pieces; a successful HTTP body is all the peer sent.
ExactAnswer ==
    Answered =>
        /\ config.kind = "tcp_exchange"
             => /\ sent = config.send
                /\ IsAnswer(response, stream)
        /\ config.kind \in {"http", "winhttp"} => response = stream

\* A failure says what happened: nobody who answered in full, within the limit
\* and the timeout, is reported as silent, as closed too early or as too long.
FailuresAreReal ==
    Finished /\ config.kind = "tcp_exchange" =>
        /\ error = "timeout" => Expired \/ final_error = "ETIMEDOUT"
        /\ error = "protocol" => peer = "closed" /\ ~Delimited(stream)
        /\ error = "response_too_large"
             => ~Delimited(SubSeq(stream, 1, config.maximum_response_bytes))

\* Resolution, connection, sending and reading share one deadline: the run of a
\* TCP monitor is over by then, or with the resolution when that took longer, and
\* an answer that is late is never a success, nor is a late DNS answer
\* (connect_tcp, send_some, receive_some, wait_for_socket; DnsMonitorRunner::run).
DeadlineShared ==
    /\ config.kind \in {"tcp_connect", "tcp_exchange"} /\ at # "resolve"
         => now <= config.timeout \/ now = resolved
    /\ config.kind \in {"tcp_connect", "tcp_exchange", "dns"} /\ Answered
         => now <= config.timeout

\* docs/monitor-engine.md: the HTTP runner enforces overall timeouts.
OverallTimeout == config.kind \in {"http", "winhttp"} => now <= config.timeout

\* A run ends whatever the peer does, also when it sends byte after byte or
\* nothing at all: the worker is free again.
RunEnds == <>Finished
=============================================================================
