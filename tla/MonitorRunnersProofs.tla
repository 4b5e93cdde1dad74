------------------------- MODULE MonitorRunnersProofs -------------------------
(***************************************************************************)
(* The shared deadline of the socket runners and the exact answer of every *)
(* runner that reads: for any timeouts, limits, buffers, payloads,         *)
(* delimiters and bytes, and any number of addresses.                      *)
(***************************************************************************)
EXTENDS MonitorRunners, SequenceTheorems, TLAPS

-----------------------------------------------------------------------------
(* Sequences.                                                               *)

\* The beginning of a sequence.
LEMMA Prefixes ==
    ASSUME NEW S, NEW s \in Seq(S), NEW m \in 0..Len(s)
    PROVE  /\ SubSeq(s, 1, m) \in Seq(S)
           /\ Len(SubSeq(s, 1, m)) = m
           /\ \A i \in 1..m : SubSeq(s, 1, m)[i] = s[i]
  OBVIOUS

\* The beginning, continued with a piece of the rest.
LEMMA Continued ==
    ASSUME NEW S, NEW s \in Seq(S), NEW m \in 0..Len(s),
           NEW n \in Nat, n <= Len(SubSeq(s, m + 1, Len(s)))
    PROVE  /\ m + n \in 0..Len(s)
           /\ SubSeq(s, 1, m) \o SubSeq(SubSeq(s, m + 1, Len(s)), 1, n) = SubSeq(s, 1, m + n)
<1> DEFINE rest == SubSeq(s, m + 1, Len(s))
           start == SubSeq(s, 1, m)
           piece == SubSeq(rest, 1, n)
           longer == SubSeq(s, 1, m + n)
<1>1. rest \in Seq(S) /\ Len(rest) = Len(s) - m
  OBVIOUS
<1>2. \A i \in 1..(Len(s) - m) : rest[i] = s[m + i]
  OBVIOUS
<1>3. m + n \in 0..Len(s)
  BY <1>1
<1>4. piece \in Seq(S) /\ Len(piece) = n /\ \A i \in 1..n : piece[i] = s[m + i]
  BY <1>1, <1>2, Prefixes
<1>5. start \in Seq(S) /\ Len(start) = m /\ \A i \in 1..m : start[i] = s[i]
  BY Prefixes
<1>6. longer \in Seq(S) /\ Len(longer) = m + n /\ \A i \in 1..(m + n) : longer[i] = s[i]
  BY <1>3, Prefixes
<1> HIDE DEF rest, start, piece, longer
<1>7. /\ start \o piece \in Seq(S)
      /\ Len(start \o piece) = m + n
      /\ \A i \in 1..(m + n) :
            (start \o piece)[i] = IF i <= m THEN start[i] ELSE piece[i - m]
  <2>1. /\ start \o piece \in Seq(S)
        /\ Len(start \o piece) = Len(start) + Len(piece)
        /\ \A i \in 1..(Len(start) + Len(piece)) :
              (start \o piece)[i] = IF i <= Len(start) THEN start[i] ELSE piece[i - Len(start)]
    <3>1. start \in Seq(S) /\ piece \in Seq(S)
      BY <1>4, <1>5
    <3> QED  BY ONLY <3>1, ConcatProperties
  <2>2. Len(start) = m /\ Len(piece) = n
    BY <1>4, <1>5
  <2> QED  BY ONLY <2>1, <2>2
<1>8. ASSUME NEW i \in 1..(m + n) PROVE (start \o piece)[i] = longer[i]
  <2>1. m \in Nat /\ n \in Nat /\ i \in Nat
    OBVIOUS
  <2>2. longer[i] = s[i]
    BY <1>6
  <2>3. (start \o piece)[i] = IF i <= m THEN start[i] ELSE piece[i - m]
    BY <1>7
  <2>4. CASE i <= m
    <3>1. start[i] = s[i]
      BY <1>5, <2>1, <2>4
    <3> QED  BY <2>2, <2>3, <2>4, <3>1
  <2>5. CASE ~(i <= m)
    <3>1. i - m \in 1..n /\ m + (i - m) = i
      BY <2>1, <2>5
    <3>2. piece[i - m] = s[m + (i - m)]
      BY <1>4, <3>1
    <3> QED  BY <2>2, <2>3, <2>5, <3>1, <3>2
  <2> QED  BY <2>4, <2>5
<1>9. start \o piece = longer
  BY <1>6, <1>7, <1>8, SeqEqual
<1> QED  BY <1>3, <1>9 DEF rest, start, piece, longer

\* What is appended changes no beginning.
LEMMA BeginningStays ==
    ASSUME NEW S, NEW s \in Seq(S), NEW b \in S, NEW m \in 0..Len(s)
    PROVE  SubSeq(Append(s, b), 1, m) = SubSeq(s, 1, m)
<1> DEFINE t == Append(s, b)
<1>1. t \in Seq(S) /\ Len(t) = Len(s) + 1 /\ \A i \in 1..Len(s) : t[i] = s[i]
  OBVIOUS
<1>2. m \in 0..Len(t)
  BY <1>1
<1> HIDE DEF t
<1>3. /\ SubSeq(t, 1, m) \in Seq(S) /\ Len(SubSeq(t, 1, m)) = m
      /\ \A i \in 1..m : SubSeq(t, 1, m)[i] = t[i]
  BY <1>1, <1>2, Prefixes
<1>4. /\ SubSeq(s, 1, m) \in Seq(S) /\ Len(SubSeq(s, 1, m)) = m
      /\ \A i \in 1..m : SubSeq(s, 1, m)[i] = s[i]
  BY Prefixes
<1>5. SubSeq(t, 1, m) = SubSeq(s, 1, m)
  BY <1>1, <1>3, <1>4, SeqEqual
<1> QED  BY <1>5 DEF t

\* A delimiter ends in the beginning of a text where it ends in the text.
LEMMA EndsInBeginning ==
    ASSUME NEW S, NEW s \in Seq(S), NEW d \in Seq(S), d # <<>>,
           NEW m \in 0..Len(s), NEW i \in 1..m
    PROVE  Ends(SubSeq(s, 1, m), d, i) <=> Ends(s, d, i)
<1>1. Len(d) \in Nat \ {0}
  OBVIOUS
<1>2. Len(SubSeq(s, 1, m)) = m
  BY Prefixes
<1>3. CASE Len(d) <= i
  <2>1. i - Len(d) + 1 \in 1..m /\ 1 \in 1..Len(s) /\ m \in 1..Len(s)
    BY <1>1, <1>3
  <2>2. SubSeq(SubSeq(s, 1, m), i - Len(d) + 1, i) = SubSeq(s, i - Len(d) + 1, i)
    <3> DEFINE a == i - Len(d) + 1
    <3>1. a \in 1..(m - 1 + 1) /\ i \in 1..(m - 1 + 1)
      BY <2>1
    <3>2. a \in Int
      BY <2>1
    <3> HIDE DEF a
    <3>3. SubSeq(SubSeq(s, 1, m), a, i) = SubSeq(s, 1 + a - 1, 1 + i - 1)
      BY <2>1, <3>1, SubSeqOfSubSeq
    <3>4. 1 + a - 1 = a /\ 1 + i - 1 = i
      BY <3>2
    <3> QED  BY <3>3, <3>4 DEF a
  <2> QED  BY <1>2, <2>2 DEF Ends
<1>4. CASE ~(Len(d) <= i)
  BY <1>4 DEF Ends
<1> QED  BY <1>3, <1>4

-----------------------------------------------------------------------------
(* Types.                                                                   *)

LEMMA ConfigFacts ==
    ASSUME config \in Configs
    PROVE  /\ config.kind \in Kinds /\ config.timeout \in Nat \ {0} /\ config.send \in Nat
           /\ config.read_until \in Seq(Bytes) /\ config.maximum_response_bytes \in Nat \ {0}
           /\ config.kind = "tcp_exchange" => config.read_until # <<>>
  BY RunnersAssumption DEF Creatable

LEMMA UnreadType ==
    ASSUME TypeOK
    PROVE  Unread \in Seq(Bytes)
  BY DEF Unread, TypeOK

LEMMA PieceType ==
    ASSUME TypeOK, NEW n \in Nat, n <= Len(Unread)
    PROVE  response \o SubSeq(Unread, 1, n) \in Seq(Bytes)
<1>1. SubSeq(Unread, 1, n) \in Seq(Bytes)
  BY UnreadType
<1> QED  BY <1>1 DEF TypeOK

LEMMA AnswerType ==
    ASSUME NEW text \in Seq(Bytes), NEW answer, IsAnswer(answer, text)
    PROVE  answer \in Seq(Bytes)
  BY Prefixes DEF IsAnswer

\* What a round of a transport's read loop makes of the response.
Extended ==
    \/ response' = response
    \/ \E n \in 1..Len(Unread) : response' = response \o SubSeq(Unread, 1, n)

LEMMA Longer ==
    ASSUME TypeOK, Extended
    PROVE  response' \in Seq(Bytes)
<1>1. CASE response' = response
  BY <1>1 DEF TypeOK
<1>2. ASSUME NEW n \in 1..Len(Unread), response' = response \o SubSeq(Unread, 1, n)
      PROVE  response' \in Seq(Bytes)
  <2>1. Len(Unread) \in Nat
    BY UnreadType
  <2>2. n \in Nat /\ n <= Len(Unread)
    BY <2>1
  <2> QED  BY <1>2, <2>2, PieceType
<1> QED  BY <1>1, <1>2 DEF Extended

LEMMA InitType == Init => TypeOK
<1> SUFFICES ASSUME Init PROVE TypeOK
  OBVIOUS
<1>1. config.kind \in Kinds
  BY ConfigFacts DEF Init
<1>2. at \in {"transfer", "connection", "resolve"}
  BY <1>1 DEF Init, Kinds
<1>3. stream \in Seq(Bytes) /\ response \in Seq(Bytes)
  BY DEF Init
<1> QED  BY <1>2, <1>3, RunnersAssumption DEF Init, TypeOK, Places, Errors

LEMMA StepType == TypeOK /\ [Next]_vars => TypeOK'
<1> SUFFICES ASSUME TypeOK, [Next]_vars PROVE TypeOK'
  OBVIOUS
<1> USE DEF TypeOK, Places, Errors, Finish, Go
<1>0. /\ config.kind \in Kinds /\ config.timeout \in Nat \ {0} /\ config.send \in Nat
      /\ config.maximum_response_bytes \in Nat \ {0} /\ MaxAddresses \in Nat /\ BufferBytes \in Nat
  BY ConfigFacts, RunnersAssumption
<1>1. CASE RuntimeFails
  BY <1>1 DEF RuntimeFails
<1>2. CASE ResolutionFails
  BY <1>2 DEF ResolutionFails
<1>3. ASSUME NEW n \in 0..MaxAddresses, Resolves(n) PROVE TypeOK'
  BY <1>0, <1>3 DEF Resolves
<1>4. CASE TryAddress
  BY <1>0, <1>4 DEF TryAddress, Connected
<1>5. CASE AwaitConnection
  BY <1>5 DEF AwaitConnection, Connected
<1>6. CASE NoAddressLeft
  BY <1>6 DEF NoAddressLeft
<1>7. ASSUME NEW n \in 1..(config.send - sent), SendSome(n) PROVE TypeOK'
  BY <1>0, <1>7 DEF SendSome
<1>8. CASE AwaitRoom
  BY <1>8 DEF AwaitRoom
<1>9. CASE SocketFails
  BY <1>9 DEF SocketFails
<1>10. CASE ResponseFull
  BY <1>10 DEF ResponseFull
<1>11. ASSUME NEW n \in 1..BufferBytes, ReceiveSome(n) PROVE TypeOK'
  <2> DEFINE text == response \o SubSeq(Unread, 1, n)
  <2>1. text \in Seq(Bytes)
    BY <1>0, <1>11, PieceType DEF ReceiveSome
  <2> HIDE DEF text
  <2>2. response' = text \/ IsAnswer(response', text)
    BY <1>11 DEF ReceiveSome, text
  <2>3. response' \in Seq(Bytes)
    BY <2>1, <2>2, AnswerType
  <2> QED  BY <1>11, <2>3 DEF ReceiveSome
<1>12. CASE PeerHasClosed
  BY <1>12 DEF PeerHasClosed
<1>13. CASE AwaitBytes
  BY <1>13 DEF AwaitBytes
<1>14. CASE Echo
  BY <1>14 DEF Echo
<1>15. CASE Transfer
  <2>1. Extended
    BY <1>15 DEF Transfer, Extended
  <2>3. response' \in Seq(Bytes)
    BY <2>1, Longer
  <2>2. error' \in Errors /\ at' \in Places /\ since' \in Nat
    BY <1>15 DEF Transfer
  <2> QED  BY <1>15, <2>2, <2>3 DEF Transfer
<1>16. ASSUME NEW p, NEW q \in Places, WinHttpPhase(p, q) PROVE TypeOK'
  BY <1>16 DEF WinHttpPhase
<1>17. CASE WinHttpRead
  <2>1. Extended
    <3>1. ASSUME NEW k \in 1..Len(Unread), NEW n \in 1..k,
                 response' = response \o SubSeq(Unread, 1, n)
          PROVE  Extended
      <4>1. Len(Unread) \in Nat
        BY UnreadType
      <4>2. n \in 1..Len(Unread)
        BY <4>1
      <4> QED  BY <3>1, <4>2 DEF Extended
    <3>2. \/ response' = response
          \/ \E k \in 1..Len(Unread) : \E n \in 1..k :
                response' = response \o SubSeq(Unread, 1, n)
      BY <1>17 DEF WinHttpRead
    <3> QED  BY <3>1, <3>2 DEF Extended
  <2>3. response' \in Seq(Bytes)
    BY <2>1, Longer
  <2>2. error' \in Errors /\ at' \in Places /\ since' \in Nat
    BY <1>17 DEF WinHttpRead
  <2> QED  BY <1>17, <2>2, <2>3 DEF WinHttpRead
<1>18. CASE Tick
  BY <1>18 DEF Tick
<1>19. CASE Peer
  <2>1. stream' \in Seq(Bytes)
    BY <1>19 DEF Peer, PeerSends, PeerEnds, PeerTakes
  <2>2. peer' \in {"open", "closed", "reset"} /\ writable' \in BOOLEAN
    BY <1>19 DEF Peer, PeerSends, PeerEnds, PeerTakes
  <2>3. UNCHANGED <<config, at, now, since, resolved, addresses, final_error, sent, response,
                    error>>
    BY <1>19 DEF Peer, PeerSends, PeerEnds, PeerTakes
  <2> QED  BY <2>1, <2>2, <2>3
<1>20. CASE UNCHANGED vars
  BY <1>20 DEF vars
<1> QED
  BY <1>1, <1>2, <1>3, <1>4, <1>5, <1>6, <1>7, <1>8, <1>9, <1>10, <1>11, <1>12, <1>13, <1>14,
     <1>15, <1>16, <1>17, <1>18, <1>19, <1>20 DEF Next, Step, Done

\* Every reachable state of a run is well typed, for any timeouts, limits,
\* payloads, delimiters, bytes and bounds.
THEOREM RunnersTypeCorrect == Spec => []TypeOK
  BY InitType, StepType, PTL DEF Spec

-----------------------------------------------------------------------------
(* The shared deadline.                                                     *)

Tcp == {"tcp_connect", "tcp_exchange"}
InExchange == {"send", "sending", "receive", "receiving"}

\* Where the thread of each kind of monitor can stand.
Stays ==
    /\ config.kind \in Tcp
         => at \in {"resolve", "connect", "connecting", "done"} \cup InExchange
    /\ at \in InExchange => config.kind = "tcp_exchange"
    /\ config.kind = "icmp_ping" => at \in {"resolve", "echo", "done"}
    /\ config.kind = "dns" => at \in {"resolve", "done"}
    /\ config.kind = "http" => at \in {"transfer", "done"}
    /\ config.kind = "winhttp" => at \in {"connection", "request", "head", "body", "done"}

\* Once an attempt to connect has begun the deadline is not behind the thread.
InTime ==
    /\ at \in {"connecting"} \cup InExchange => now <= config.timeout
    /\ at = "resolve" => error = "none"
    /\ DeadlineShared

TimeInv == TypeOK /\ Stays /\ InTime

LEMMA InitTime == Init => Stays /\ InTime
<1> SUFFICES ASSUME Init PROVE Stays /\ InTime
  OBVIOUS
<1>1. config.kind \in Kinds /\ config.timeout \in Nat \ {0}
  BY ConfigFacts DEF Init
<1>2. CASE config.kind = "http"
  BY <1>1, <1>2 DEF Init, Stays, InTime, DeadlineShared, Tcp, InExchange, Answered, Finished
<1>3. CASE config.kind = "winhttp"
  BY <1>1, <1>3 DEF Init, Stays, InTime, DeadlineShared, Tcp, InExchange, Answered, Finished
<1>4. CASE config.kind \notin {"http", "winhttp"}
  <2>1. at = "resolve"
    BY <1>1, <1>4 DEF Init
  <2> QED
    BY <1>1, <1>4, <2>1
    DEF Init, Stays, InTime, DeadlineShared, Tcp, InExchange, Answered, Finished
<1> QED  BY <1>2, <1>3, <1>4

LEMMA StepTime == TimeInv /\ [Next]_vars => Stays' /\ InTime'
<1> SUFFICES ASSUME TimeInv, [Next]_vars PROVE Stays' /\ InTime'
  OBVIOUS
<1>0. /\ config.kind \in Kinds /\ config.timeout \in Nat \ {0} /\ now \in Nat
      /\ config.send \in Nat
  BY ConfigFacts DEF TimeInv, TypeOK
<1> USE <1>0 DEF TimeInv, Stays, InTime, DeadlineShared, Answered, Finished, Finish, Go, Tcp,
                 InExchange, Kinds
<1>1. CASE RuntimeFails
  BY <1>1 DEF RuntimeFails
<1>2. CASE ResolutionFails
  BY <1>2 DEF ResolutionFails
<1>3. ASSUME NEW n \in 0..MaxAddresses, Resolves(n) PROVE Stays' /\ InTime'
  BY <1>3 DEF Resolves
<1>4. CASE TryAddress
  BY <1>4 DEF TryAddress, Connected, Expired
<1>5. CASE AwaitConnection
  BY <1>5 DEF AwaitConnection, Connected
<1>6. CASE NoAddressLeft
  BY <1>6 DEF NoAddressLeft
<1>7. ASSUME NEW n \in 1..(config.send - sent), SendSome(n) PROVE Stays' /\ InTime'
  BY <1>7 DEF SendSome
<1>8. CASE AwaitRoom
  BY <1>8 DEF AwaitRoom
<1>9. CASE SocketFails
  BY <1>9 DEF SocketFails
<1>10. CASE ResponseFull
  BY <1>10 DEF ResponseFull
<1>11. ASSUME NEW n \in 1..BufferBytes, ReceiveSome(n) PROVE Stays' /\ InTime'
  <2>1. /\ at = "receive" /\ UNCHANGED <<config, now, resolved>>
        /\ \/ at' = "done" /\ error' = "none"
           \/ UNCHANGED <<at, error>>
    BY <1>11 DEF ReceiveSome
  <2> QED  BY <2>1
<1>12. CASE PeerHasClosed
  BY <1>12 DEF PeerHasClosed
<1>13. CASE AwaitBytes
  BY <1>13 DEF AwaitBytes
<1>14. CASE Echo
  BY <1>14 DEF Echo
<1>15. CASE Transfer
  <2>1. /\ at = "transfer" /\ UNCHANGED <<config, now, resolved>>
        /\ at' \in {"transfer", "done"}
    BY <1>15 DEF Transfer
  <2> QED  BY <2>1
<1>16. ASSUME NEW p \in {"connection", "request", "head"}, NEW q \in {"request", "head", "body"},
              WinHttpPhase(p, q)
       PROVE  Stays' /\ InTime'
  <2>1. /\ at = p /\ UNCHANGED <<config, now, resolved>>
        /\ at' \in {q, "done"}
    BY <1>16 DEF WinHttpPhase
  <2> QED  BY <2>1
<1>17. CASE WinHttpRead
  <2>1. /\ at = "body" /\ UNCHANGED <<config, now, resolved>>
        /\ at' \in {"body", "done"}
    BY <1>17 DEF WinHttpRead
  <2> QED  BY <2>1
<1>18. CASE Tick
  <2>1. now' = now + 1 /\ UNCHANGED <<config, at, resolved, error>>
    BY <1>18 DEF Tick
  <2>2. Stays'
    BY <2>1
  <2>3. at \in {"connecting"} \cup InExchange => now + 1 <= config.timeout
    BY <1>18 DEF Tick, Blocked, Expired
  <2>4. at # "done" /\ (config.kind \in Tcp /\ at # "resolve"
                          => at \in {"connecting"} \cup InExchange)
    BY <1>18 DEF Tick, Blocked
  <2>5. InTime'
    BY <2>1, <2>3, <2>4
  <2> QED  BY <2>2, <2>5
<1>19. CASE Peer
  <2>1. UNCHANGED <<config, at, now, resolved, error>>
    BY <1>19 DEF Peer, PeerSends, PeerEnds, PeerTakes
  <2> QED  BY <2>1
<1>20. CASE UNCHANGED vars
  BY <1>20 DEF vars
<1> QED
  BY <1>1, <1>2, <1>3, <1>4, <1>5, <1>6, <1>7, <1>8, <1>9, <1>10, <1>11, <1>12, <1>13, <1>14,
     <1>15, <1>16, <1>17, <1>18, <1>19, <1>20 DEF Next, Step, Done

\* Resolution, connection, sending and reading of a TCP monitor share one
\* deadline, and no answer later than it is a success, for any timeout, number
\* of addresses, payload and behaviour of the peer.
THEOREM OneDeadline == Spec => []DeadlineShared
<1>1. Init => TimeInv
  BY InitType, InitTime DEF TimeInv
<1>2. TimeInv /\ [Next]_vars => TimeInv'
  BY StepType, StepTime DEF TimeInv
<1>3. TimeInv => DeadlineShared
  BY DEF TimeInv, InTime
<1> QED  BY <1>1, <1>2, <1>3, PTL DEF Spec

-----------------------------------------------------------------------------
(* The exact answer.                                                        *)

\* What has been read is the beginning of what the peer has sent.
Reads ==
    /\ Len(response) <= Len(stream)
    /\ response = SubSeq(stream, 1, Len(response))

\* An exchange reads after it has sent its payload.
Paid ==
    /\ sent <= config.send
    /\ at \in {"receive", "receiving"} => sent = config.send
    /\ at \in {"resolve", "connect", "connecting"} => sent = 0

\* An exchange reads on only without the delimiter.
Sought == config.kind = "tcp_exchange" /\ at # "done" => ~Delimited(response)

ReadInv == Reads /\ Paid /\ Sought /\ ExactAnswer /\ FailuresAreReal

IInv == TimeInv /\ ReadInv

LEMMA InitRead == Init => ReadInv
<1> SUFFICES ASSUME Init PROVE ReadInv
  OBVIOUS
<1>1. config.kind \in Kinds /\ config.send \in Nat
  BY ConfigFacts DEF Init
<1>2. at # "done" /\ sent = 0 /\ (at \in {"receive", "receiving"} => sent = config.send)
  BY <1>1 DEF Init, Kinds
<1>3. Len(response) = 0 /\ Len(stream) = 0 /\ response = <<>> /\ stream = <<>>
  BY DEF Init
<1>4. Reads /\ Sought
  BY <1>3 DEF Reads, Sought, Delimited
<1> QED  BY <1>1, <1>2, <1>4 DEF ReadInv, Paid, ExactAnswer, FailuresAreReal, Answered, Finished

\* A piece that is read is the next piece of what the peer has sent.
LEMMA NextPiece ==
    ASSUME TypeOK, Reads, NEW n \in 1..Len(Unread)
    PROVE  /\ Len(response) + n \in 0..Len(stream)
           /\ response \o SubSeq(Unread, 1, n) = SubSeq(stream, 1, Len(response) + n)
<1>1. stream \in Seq(Bytes) /\ Len(response) \in 0..Len(stream)
  BY DEF TypeOK, Reads
<1>2. n \in Nat /\ n <= Len(Unread)
  BY UnreadType
<1>3. n <= Len(SubSeq(stream, Len(response) + 1, Len(stream)))
  BY <1>2 DEF Unread
<1> DEFINE m == Len(response)
<1>4. response = SubSeq(stream, 1, m)
  BY DEF Reads
<1> HIDE DEF m
<1>5. m \in 0..Len(stream) /\ n <= Len(SubSeq(stream, m + 1, Len(stream)))
  BY <1>1, <1>3 DEF m
<1>6. /\ m + n \in 0..Len(stream)
      /\ SubSeq(stream, 1, m) \o SubSeq(SubSeq(stream, m + 1, Len(stream)), 1, n)
           = SubSeq(stream, 1, m + n)
  BY <1>1, <1>2, <1>5, Continued
<1> QED  BY <1>4, <1>6 DEF m, Unread

\* A beginning is known by its length.
LEMMA BeginningLength ==
    ASSUME NEW s \in Seq(Bytes), NEW m \in 0..Len(s), NEW r, r = SubSeq(s, 1, m)
    PROVE  Len(r) <= Len(s) /\ r = SubSeq(s, 1, Len(r))
<1>1. Len(r) = m
  BY Prefixes
<1> QED  BY <1>1

\* The answer in a beginning of the stream is the answer in the stream.
LEMMA AnswerInBeginning ==
    ASSUME TypeOK, config.kind = "tcp_exchange", NEW m \in 0..Len(stream), NEW a,
           IsAnswer(a, SubSeq(stream, 1, m))
    PROVE  /\ IsAnswer(a, stream)
           /\ Len(a) <= Len(stream) /\ a = SubSeq(stream, 1, Len(a))
<1> DEFINE d == config.read_until
           text == SubSeq(stream, 1, m)
<1>1. d \in Seq(Bytes) /\ d # <<>> /\ stream \in Seq(Bytes)
  BY ConfigFacts DEF TypeOK
<1>2. Len(text) = m /\ Len(stream) \in Nat
  BY <1>1, Prefixes
<1>3. PICK i \in 1..m : /\ Ends(text, d, i)
                        /\ \A j \in 1..(i - 1) : ~Ends(text, d, j)
                        /\ a = SubSeq(text, 1, i)
  BY <1>2 DEF IsAnswer
<1>4. i \in 1..Len(stream) /\ i \in 0..Len(stream)
  BY <1>2
<1>5. Ends(stream, d, i)
  BY <1>1, <1>3, EndsInBeginning
<1>6. ASSUME NEW j \in 1..(i - 1) PROVE ~Ends(stream, d, j)
  <2>1. j \in 1..m
    OBVIOUS
  <2> QED  BY <1>1, <1>3, <2>1, EndsInBeginning
<1>7. a = SubSeq(stream, 1, i)
  <2>1. /\ text \in Seq(Bytes)
        /\ \A k \in 1..m : text[k] = stream[k]
    BY <1>1, Prefixes
  <2>2. i \in 0..Len(text)
    BY <1>2
  <2> HIDE DEF text
  <2>3. /\ SubSeq(text, 1, i) \in Seq(Bytes) /\ Len(SubSeq(text, 1, i)) = i
        /\ \A k \in 1..i : SubSeq(text, 1, i)[k] = text[k]
    BY <2>1, <2>2, Prefixes
  <2>4. /\ SubSeq(stream, 1, i) \in Seq(Bytes) /\ Len(SubSeq(stream, 1, i)) = i
        /\ \A k \in 1..i : SubSeq(stream, 1, i)[k] = stream[k]
    BY <1>1, <1>4, Prefixes
  <2>5. SubSeq(text, 1, i) = SubSeq(stream, 1, i)
    BY <2>1, <2>3, <2>4, SeqEqual
  <2> QED  BY <1>3, <2>5
<1>8. IsAnswer(a, stream)
  BY <1>4, <1>5, <1>6, <1>7 DEF IsAnswer
<1> QED  BY <1>1, <1>4, <1>7, <1>8, BeginningLength

\* A step that reads nothing: what it has to say for itself.
Explained ==
    /\ at' # "done" => at # "done"
    /\ at' = "done" /\ error' = "none"
         => config.kind \notin {"tcp_exchange", "http", "winhttp"}
    /\ at' = "done" /\ config.kind = "tcp_exchange" =>
         /\ error' = "timeout" => now >= config.timeout \/ final_error' = "ETIMEDOUT"
         /\ error' = "protocol" => peer = "closed" /\ ~Delimited(stream)
         /\ error' = "response_too_large"
              => ~Delimited(SubSeq(stream, 1, config.maximum_response_bytes))

LEMMA ReadsNothing ==
    ASSUME ReadInv, UNCHANGED <<config, stream, response>>, Paid',
           \/ UNCHANGED <<at, error, sent, peer, final_error, now>>
           \/ UNCHANGED <<now, peer>> /\ Explained
    PROVE  ReadInv'
<1> USE DEF ReadInv
<1>1. Reads' /\ (Delimited(response)' <=> Delimited(response))
      /\ (Delimited(stream)' <=> Delimited(stream))
      /\ (IsAnswer(response, stream)' <=> IsAnswer(response, stream))
      /\ (Delimited(SubSeq(stream, 1, config.maximum_response_bytes))'
            <=> Delimited(SubSeq(stream, 1, config.maximum_response_bytes)))
  BY DEF Reads, Delimited, IsAnswer
<1>2. CASE UNCHANGED <<at, error, sent, peer, final_error, now>>
  BY <1>1, <1>2 DEF Sought, ExactAnswer, FailuresAreReal, Answered, Finished, Expired
<1>3. CASE UNCHANGED <<now, peer>> /\ Explained
  <2>1. Sought' /\ ExactAnswer'
    BY <1>1, <1>3 DEF Explained, Sought, ExactAnswer, Answered, Finished
  <2>2. FailuresAreReal'
    BY <1>1, <1>3 DEF Explained, FailuresAreReal, Finished, Expired
  <2> QED  BY <1>1, <2>1, <2>2
<1> QED  BY <1>2, <1>3

LEMMA AllRead ==
    ASSUME TypeOK, Reads, Unread = <<>>
    PROVE  response = stream
<1>1. Len(Unread) = Len(stream) - Len(response)
  BY DEF Unread, TypeOK, Reads
<1>2. Len(response) = Len(stream)
  BY <1>1 DEF TypeOK, Reads
<1> QED  BY <1>2, SubSeqFull DEF TypeOK, Reads

LEMMA ExtendedBy ==
    ASSUME TypeOK, NEW k \in 1..Len(Unread), NEW n \in 1..k,
           response' = response \o SubSeq(Unread, 1, n)
    PROVE  Extended
<1>1. Len(Unread) \in Nat
  BY UnreadType
<1>2. n \in 1..Len(Unread)
  BY <1>1
<1> QED  BY <1>2 DEF Extended

\* A round of a transport's read loop.
LEMMA ReadsOn ==
    ASSUME TypeOK, ReadInv, Extended, UNCHANGED <<config, sent, stream>>,
           config.kind # "tcp_exchange", at' \in {"transfer", "body", "done"},
           at' = "done" /\ error' = "none" => response' = stream'
    PROVE  ReadInv'
<1>1. Reads'
  <2>1. CASE response' = response
    BY <2>1 DEF ReadInv, Reads
  <2>2. ASSUME NEW n \in 1..Len(Unread), response' = response \o SubSeq(Unread, 1, n)
        PROVE  Reads'
    <3>1. /\ Len(response) + n \in 0..Len(stream)
          /\ response' = SubSeq(stream, 1, Len(response) + n)
      BY <2>2, NextPiece DEF ReadInv
    <3> QED  BY <3>1, BeginningLength DEF Reads, TypeOK
  <2> QED  BY <2>1, <2>2 DEF Extended
<1>2. Paid' /\ Sought' /\ ExactAnswer' /\ FailuresAreReal'
  BY DEF ReadInv, Paid, Sought, ExactAnswer, FailuresAreReal, Answered, Finished
<1> QED  BY <1>1, <1>2 DEF ReadInv

LEMMA StepRead == IInv /\ [Next]_vars => ReadInv'
<1> SUFFICES ASSUME IInv, [Next]_vars PROVE ReadInv'
  OBVIOUS
<1>0. /\ TypeOK /\ Stays /\ ReadInv /\ Reads /\ Paid /\ Sought
      /\ config.kind \in Kinds /\ config.timeout \in Nat \ {0} /\ now \in Nat
      /\ config.send \in Nat /\ sent \in Nat /\ stream \in Seq(Bytes) /\ response \in Seq(Bytes)
  BY ConfigFacts DEF IInv, TimeInv, ReadInv, TypeOK
<1> USE <1>0 DEF Finish, Go, Stays, Tcp, InExchange, Kinds
<1>1. CASE RuntimeFails
  <2>1. UNCHANGED <<config, stream, response, now, peer>> /\ Paid'
    BY <1>1 DEF RuntimeFails, Paid
  <2>2. Explained \/ UNCHANGED <<at, error, sent, peer, final_error, now>>
    BY <1>1 DEF RuntimeFails, Explained
  <2> QED  BY <2>1, <2>2, ReadsNothing
<1>2. CASE ResolutionFails
  <2>1. UNCHANGED <<config, stream, response, now, peer>> /\ Paid'
    BY <1>2 DEF ResolutionFails, Paid
  <2>2. Explained \/ UNCHANGED <<at, error, sent, peer, final_error, now>>
    BY <1>2 DEF ResolutionFails, Explained
  <2> QED  BY <2>1, <2>2, ReadsNothing
<1>3. ASSUME NEW n \in 0..MaxAddresses, Resolves(n) PROVE ReadInv'
  <2>1. UNCHANGED <<config, stream, response, now, peer>> /\ Paid'
    BY <1>3 DEF Resolves, Paid
  <2>2. Explained \/ UNCHANGED <<at, error, sent, peer, final_error, now>>
    BY <1>3 DEF Resolves, Explained
  <2> QED  BY <2>1, <2>2, ReadsNothing
<1>4. CASE TryAddress
  <2>1. UNCHANGED <<config, stream, response, now, peer>> /\ Paid'
    BY <1>4 DEF TryAddress, Connected, Expired, Paid
  <2>2. Explained \/ UNCHANGED <<at, error, sent, peer, final_error, now>>
    BY <1>4 DEF TryAddress, Connected, Expired, Explained
  <2> QED  BY <2>1, <2>2, ReadsNothing
<1>5. CASE AwaitConnection
  <2>1. UNCHANGED <<config, stream, response, now, peer>> /\ Paid'
    BY <1>5 DEF AwaitConnection, Connected, Expired, Paid
  <2>2. Explained \/ UNCHANGED <<at, error, sent, peer, final_error, now>>
    BY <1>5 DEF AwaitConnection, Connected, Expired, Explained
  <2> QED  BY <2>1, <2>2, ReadsNothing
<1>6. CASE NoAddressLeft
  <2>1. UNCHANGED <<config, stream, response, now, peer>> /\ Paid'
    BY <1>6 DEF NoAddressLeft, Expired, Paid
  <2>2. Explained \/ UNCHANGED <<at, error, sent, peer, final_error, now>>
    BY <1>6 DEF NoAddressLeft, Expired, Explained
  <2> QED  BY <2>1, <2>2, ReadsNothing
<1>7. ASSUME NEW n \in 1..(config.send - sent), SendSome(n) PROVE ReadInv'
  <2>1. UNCHANGED <<config, stream, response, now, peer>> /\ Paid'
    BY <1>7 DEF SendSome, Paid
  <2>2. Explained \/ UNCHANGED <<at, error, sent, peer, final_error, now>>
    BY <1>7 DEF SendSome, Explained
  <2> QED  BY <2>1, <2>2, ReadsNothing
<1>8. CASE AwaitRoom
  <2>1. UNCHANGED <<config, stream, response, now, peer>> /\ Paid'
    BY <1>8 DEF AwaitRoom, Expired, Paid
  <2>2. Explained \/ UNCHANGED <<at, error, sent, peer, final_error, now>>
    BY <1>8 DEF AwaitRoom, Expired, Explained
  <2> QED  BY <2>1, <2>2, ReadsNothing
<1>9. CASE SocketFails
  <2>1. UNCHANGED <<config, stream, response, now, peer>> /\ Paid'
    BY <1>9 DEF SocketFails, Paid
  <2>2. Explained \/ UNCHANGED <<at, error, sent, peer, final_error, now>>
    BY <1>9 DEF SocketFails, Explained
  <2> QED  BY <2>1, <2>2, ReadsNothing
<1>10. CASE ResponseFull
  <2>1. UNCHANGED <<config, stream, response, now, peer>> /\ Paid'
    BY <1>10 DEF ResponseFull, Paid
  <2>2. SubSeq(stream, 1, config.maximum_response_bytes) = response
    BY <1>10 DEF ResponseFull, Reads
  <2>3. ~Delimited(SubSeq(stream, 1, config.maximum_response_bytes))
    BY <1>10, <2>2 DEF ResponseFull, Sought
  <2>4. Explained
    BY <1>10, <2>3 DEF ResponseFull, Explained
  <2> QED  BY <2>1, <2>4, ReadsNothing
<1>11. ASSUME NEW n \in 1..BufferBytes, ReceiveSome(n) PROVE ReadInv'
  <2> DEFINE m == Len(response) + n
             text == response \o SubSeq(Unread, 1, n)
  <2>1. /\ at = "receive" /\ config.kind = "tcp_exchange" /\ sent = config.send
        /\ UNCHANGED <<config, sent, stream, peer>>
    BY <1>11 DEF ReceiveSome, Paid
  <2>2. n \in 1..Len(Unread)
    BY <1>11, UnreadType, RunnersAssumption DEF ReceiveSome
  <2>3. m \in 0..Len(stream) /\ text = SubSeq(stream, 1, m)
    BY <2>2, NextPiece
  <2>4. \/ Delimited(text) /\ IsAnswer(response', text) /\ at' = "done" /\ error' = "none"
        \/ ~Delimited(text) /\ response' = text /\ at' = at
    BY <1>11 DEF ReceiveSome
  <2> HIDE DEF text, m
  <2>5. CASE IsAnswer(response', text) /\ at' = "done" /\ error' = "none"
    <3>1. /\ IsAnswer(response', stream)
          /\ Len(response') <= Len(stream) /\ response' = SubSeq(stream, 1, Len(response'))
      BY <2>1, <2>3, <2>5, AnswerInBeginning
    <3>2. IsAnswer(response, stream)'
      BY <2>1, <3>1 DEF IsAnswer
    <3>3. Reads' /\ Paid' /\ Sought'
      BY <2>1, <2>5, <3>1 DEF Reads, Paid, Sought
    <3>4. ExactAnswer' /\ FailuresAreReal'
      BY <2>1, <2>5, <3>2 DEF ExactAnswer, FailuresAreReal, Answered, Finished
    <3> QED  BY <3>3, <3>4 DEF ReadInv
  <2>6. CASE ~Delimited(text) /\ response' = text /\ at' = at
    <3>1. Reads'
      BY <2>1, <2>3, <2>6, BeginningLength DEF Reads
    <3>2. Paid' /\ Sought'
      BY <2>1, <2>6 DEF Paid, Sought, Delimited
    <3>3. ExactAnswer' /\ FailuresAreReal'
      BY <2>1, <2>6 DEF ExactAnswer, FailuresAreReal, Answered, Finished
    <3> QED  BY <3>1, <3>2, <3>3 DEF ReadInv
  <2> QED  BY <2>4, <2>5, <2>6
<1>12. CASE PeerHasClosed
  <2>1. UNCHANGED <<config, stream, response, now, peer>> /\ Paid'
    BY <1>12 DEF PeerHasClosed, Paid
  <2>2. response = stream
    BY <1>12, AllRead DEF PeerHasClosed
  <2>3. Explained
    BY <1>12, <2>2 DEF PeerHasClosed, Explained, Sought
  <2> QED  BY <2>1, <2>3, ReadsNothing
<1>13. CASE AwaitBytes
  <2>1. UNCHANGED <<config, stream, response, now, peer>> /\ Paid'
    BY <1>13 DEF AwaitBytes, Expired, Paid
  <2>2. Explained \/ UNCHANGED <<at, error, sent, peer, final_error, now>>
    BY <1>13 DEF AwaitBytes, Expired, Explained
  <2> QED  BY <2>1, <2>2, ReadsNothing
<1>14. CASE Echo
  <2>1. UNCHANGED <<config, stream, response, now, peer>> /\ Paid'
    BY <1>14 DEF Echo, Paid
  <2>2. Explained \/ UNCHANGED <<at, error, sent, peer, final_error, now>>
    BY <1>14 DEF Echo, Explained
  <2> QED  BY <2>1, <2>2, ReadsNothing
<1>15. CASE Transfer
  <2>1. /\ at = "transfer" /\ config.kind \notin {"tcp_exchange"}
        /\ UNCHANGED <<config, sent, stream>>
        /\ at' \in {"transfer", "done"}
    BY <1>15 DEF Transfer
  <2>2. Extended
    BY <1>15, ExtendedBy DEF Transfer, Extended
  <2>3. at' = "done" /\ error' = "none" => response' = stream'
    BY <1>15, AllRead DEF Transfer
  <2> QED  BY <2>1, <2>2, <2>3, ReadsOn
<1>16. ASSUME NEW p \in {"connection", "request", "head"},
              NEW q \in {"request", "head", "body"}, WinHttpPhase(p, q)
       PROVE  ReadInv'
  <2>1. UNCHANGED <<config, stream, response, now, peer>> /\ Paid'
    BY <1>16 DEF WinHttpPhase, Paid
  <2>2. Explained \/ UNCHANGED <<at, error, sent, peer, final_error, now>>
    BY <1>16 DEF WinHttpPhase, Explained
  <2> QED  BY <2>1, <2>2, ReadsNothing
<1>17. CASE WinHttpRead
  <2>1. /\ at = "body" /\ config.kind \notin {"tcp_exchange"}
        /\ UNCHANGED <<config, sent, stream>>
        /\ at' \in {"body", "done"}
    BY <1>17 DEF WinHttpRead
  <2>2. Extended
    BY <1>17, ExtendedBy DEF WinHttpRead, Extended
  <2>3. at' = "done" /\ error' = "none" => response' = stream'
    BY <1>17, AllRead DEF WinHttpRead
  <2> QED  BY <2>1, <2>2, <2>3, ReadsOn
<1>18. CASE Tick
  <2>1. at # "done" /\ UNCHANGED <<config, at, sent, stream, response>>
    BY <1>18 DEF Tick, Blocked
  <2>2. Reads' /\ Paid' /\ Sought'
    BY <2>1 DEF Reads, Paid, Sought, Delimited
  <2> QED  BY <2>1, <2>2 DEF ReadInv, ExactAnswer, FailuresAreReal, Answered, Finished
<1>19. CASE Peer
  <2>1. at # "done" /\ UNCHANGED <<config, at, sent, response>>
    BY <1>19 DEF Peer, PeerSends, PeerEnds, PeerTakes, Talking
  <2>2. Reads'
    <3>1. CASE PeerSends
      <4>1. PICK b \in Bytes : stream' = Append(stream, b)
        BY <3>1 DEF PeerSends
      <4>2. Len(response) \in 0..Len(stream)
        BY DEF Reads
      <4>3. SubSeq(stream', 1, Len(response)) = SubSeq(stream, 1, Len(response))
        BY <4>1, <4>2, BeginningStays
      <4>4. Len(stream') = Len(stream) + 1
        BY <4>1
      <4> QED  BY <2>1, <4>2, <4>3, <4>4 DEF Reads
    <3>2. CASE ~PeerSends
      BY <1>19, <2>1, <3>2 DEF Peer, PeerEnds, PeerTakes, Reads
    <3> QED  BY <3>1, <3>2
  <2>3. Paid' /\ Sought'
    BY <2>1 DEF Paid, Sought, Delimited
  <2> QED  BY <2>1, <2>2, <2>3 DEF ReadInv, ExactAnswer, FailuresAreReal, Answered, Finished
<1>20. CASE UNCHANGED vars
  <2>1. UNCHANGED <<config, stream, response, at, error, sent, peer, final_error, now>> /\ Paid'
    BY <1>20 DEF vars, Paid
  <2> QED  BY <2>1, ReadsNothing
<1> QED
  BY <1>1, <1>2, <1>3, <1>4, <1>5, <1>6, <1>7, <1>8, <1>9, <1>10, <1>11, <1>12, <1>13, <1>14,
     <1>15, <1>16, <1>17, <1>18, <1>19, <1>20 DEF Next, Step, Done

LEMMA IInvHolds == Spec => []IInv
<1>1. Init => IInv
  BY InitType, InitTime, InitRead DEF IInv, TimeInv
<1>2. IInv /\ [Next]_vars => IInv'
  BY StepType, StepTime, StepRead DEF IInv, TimeInv
<1> QED  BY <1>1, <1>2, PTL DEF Spec

\* A successful exchange has sent all its payload, and its observation is what
\* the peer sent up to the end of the first delimiter and no byte more, for any
\* payload, delimiter, limit and buffer, and however the bytes were cut into
\* pieces; a successful HTTP body is all the peer sent.
THEOREM AnswersAreExact == Spec => []ExactAnswer
<1>1. IInv => ExactAnswer
  BY DEF IInv, ReadInv
<1> QED  BY <1>1, IInvHolds, PTL

\* No peer that answered in full, within the limit and the timeout, is reported
\* as silent, as closed too early or as too long.
THEOREM FailuresAreTrue == Spec => []FailuresAreReal
<1>1. IInv => FailuresAreReal
  BY DEF IInv, ReadInv
<1> QED  BY <1>1, IInvHolds, PTL

=============================================================================
