-------------------------- MODULE CollectorsProofs --------------------------
(***************************************************************************)
(* A served status is never made up, for any appliance and any changes of  *)
(* it: what the answers of a refresh have shown held at some time in it.   *)
(***************************************************************************)
EXTENDS Collectors, TLAPS

\* The instants of a refresh: while a call is under way, what has been shown and what
\* holds now are among the conditions that held in this refresh.
Witnessed == call # 0 => seen \subseteq held /\ appliance \subseteq held

\* The snapshot in the store is one, and shows what held in the refresh that made it.
Founded ==
    /\ \A c, d \in document : c = d
    /\ \A c \in document : c \subseteq heldThen

Known == collector \in {"openwrt", "unifi"}

Inv == Known /\ call \in Nat /\ Witnessed /\ Founded

LEMMA CallNumbers ==
    ASSUME Known
    PROVE  /\ DOMAIN Calls(collector) \subseteq Nat \ {0}
           /\ Len(Calls(collector)) \in Nat
           /\ \A i \in DOMAIN Calls(collector) : i + 1 \in Nat \ {0} /\ i + 2 \in Nat \ {0}
                                                 /\ i + 3 \in Nat \ {0}
<1>1. CASE collector = "openwrt"
  BY <1>1 DEF Calls
<1>2. CASE collector = "unifi"
  BY <1>2 DEF Calls
<1> QED  BY <1>1, <1>2 DEF Known

LEMMA InitInv == Init => Inv
<1> SUFFICES ASSUME Init PROVE Inv
  OBVIOUS
<1>1. Known
  BY CollectorsAssumption DEF Init, Known
<1>2. call = 0 /\ document = {}
  BY DEF Init
<1> QED  BY <1>1, <1>2 DEF Inv, Witnessed, Founded

LEMMA StepInv == Inv /\ [Next]_vars => Inv'
<1> SUFFICES ASSUME Inv, [Next]_vars PROVE Inv'
  OBVIOUS
<1>1. CASE BeginRefresh
  BY <1>1 DEF BeginRefresh, Inv, Known, Witnessed, Founded, storeVars
<1>2. CASE EndThread
  BY <1>2 DEF EndThread, Inv, Known, Witnessed, Founded, storeVars
<1>3. CASE Answered
  <2>1. call # 0 /\ call' \in Nat
    BY <1>3, CallNumbers DEF Answered, Asking, Inv
  <2>2. seen' \subseteq held /\ appliance \subseteq held
    BY <1>3, <2>1 DEF Answered, Inv, Witnessed
  <2> QED  BY <1>3, <2>1, <2>2 DEF Answered, Inv, Known, Witnessed, Founded, storeVars
<1>4. CASE Succeed
  <2>1. call # 0
    BY <1>4, CallNumbers DEF Succeed, Inv
  <2>2. document' = {seen} /\ seen \subseteq heldThen'
    BY <1>4, <2>1 DEF Succeed, Inv, Witnessed
  <2>3. Founded'
    BY <2>2 DEF Founded
  <2> QED  BY <1>4, <2>3 DEF Succeed, Inv, Known, Witnessed
<1>5. CASE Fail
  BY <1>5 DEF Fail, NoteError, Inv, Known, Witnessed, Founded
<1>6. CASE Lost
  BY <1>6 DEF Lost, Inv, Known, Witnessed, Founded, storeVars
<1>7. CASE Change
  BY <1>7 DEF Change, Inv, Known, Witnessed, Founded, storeVars
<1>8. CASE Interrupt
  BY <1>8 DEF Interrupt, Inv, Known, Witnessed, Founded, storeVars
<1>9. CASE UNCHANGED vars
  BY <1>9 DEF vars, Inv, Known, Witnessed, Founded
<1> QED  BY <1>1, <1>2, <1>3, <1>4, <1>5, <1>6, <1>7, <1>8, <1>9 DEF Next, Refresh

\* What a request is served, unless the communication has failed, is the status of
\* the one snapshot.
LEMMA ServedStatus ==
    ASSUME Founded, NEW part, Served(part) # "communication_failure"
    PROVE  \E c \in document : document = {c} /\ Served(part) = StatusOf(part, c)
<1>1. error = "none" /\ document # {}
  BY DEF Served
<1>2. PICK c \in document : document = {c}
  BY <1>1 DEF Founded
<1>3. {StatusOf(part, d) : d \in document} = {StatusOf(part, c)}
  BY <1>2
<1>4. Served(part) = StatusOf(part, c)
  BY <1>1, <1>3 DEF Served
<1> QED  BY <1>2, <1>4

\* The other way round.
LEMMA OneStatus ==
    ASSUME error = "none", NEW c, document = {c}, NEW part
    PROVE  Served(part) = StatusOf(part, c)
<1>1. {StatusOf(part, d) : d \in document} = {StatusOf(part, c)}
  OBVIOUS
<1> QED  BY <1>1 DEF Served

\* What the statuses of a snapshot stand for.
LEMMA OpenWrtStatuses ==
    ASSUME collector = "openwrt", NEW c
    PROVE  /\ StatusOf("starlink", c) = "ok" <=> PathReady(c)
           /\ StatusOf("bridge", c) = "ok" <=> BridgeReady(c)
           /\ StatusOf("bridge", c) = "warn" => PathReady(c)
           /\ StatusOf("monitor", c) = "ok" <=> BridgeReady(c)
  BY DEF StatusOf

LEMMA InvOk == Inv => OkWasTrue
<1> SUFFICES ASSUME Inv PROVE OkWasTrue
  OBVIOUS
<1>0. Founded
  BY DEF Inv
<1>1. ASSUME collector = "openwrt", Served("starlink") = "ok"
      PROVE  PathReady(heldThen)
  <2>1. PICK c \in document : Served("starlink") = StatusOf("starlink", c)
    BY <1>0, <1>1, ServedStatus
  <2>2. PathReady(c) /\ c \subseteq heldThen
    BY <1>0, <1>1, <2>1, OpenWrtStatuses DEF Founded
  <2> QED  BY <2>2 DEF PathReady
<1>2. ASSUME collector = "openwrt", Served("bridge") \in {"ok", "warn"}
      PROVE  /\ PathReady(heldThen)
             /\ Served("bridge") = "ok" => {"bssid", "associated"} \cap heldThen # {}
  <2>1. PICK c \in document : Served("bridge") = StatusOf("bridge", c)
    BY <1>0, <1>2, ServedStatus
  <2>2. PathReady(c) /\ c \subseteq heldThen
    BY <1>0, <1>2, <2>1, OpenWrtStatuses DEF Founded, BridgeReady
  <2>3. Served("bridge") = "ok" => {"bssid", "associated"} \cap c # {}
    BY <1>2, <2>1, OpenWrtStatuses DEF BridgeReady
  <2> QED  BY <2>2, <2>3 DEF PathReady
<1>3. ASSUME collector = "openwrt"
      PROVE  Served("monitor") = "ok" <=> Served("bridge") = "ok"
  <2>1. CASE error # "none" \/ document = {}
    BY <2>1 DEF Served
  <2>2. CASE error = "none" /\ document # {}
    <3>1. PICK c : document = {c}
      BY <1>0, <2>2 DEF Founded
    <3>2. Served("monitor") = StatusOf("monitor", c) /\ Served("bridge") = StatusOf("bridge", c)
      BY <2>2, <3>1, OneStatus
    <3> QED  BY <1>3, <3>2, OpenWrtStatuses
  <2> QED  BY <2>1, <2>2
<1>4. ASSUME collector = "unifi", Served("monitor") = "ok"
      PROVE  "online" \in heldThen
  <2>1. PICK c \in document : Served("monitor") = StatusOf("monitor", c)
    BY <1>0, <1>4, ServedStatus
  <2>2. "online" \in c /\ c \subseteq heldThen
    BY <1>0, <1>4, <2>1 DEF Founded, StatusOf
  <2> QED  BY <2>2
<1> QED  BY <1>1, <1>2, <1>3, <1>4 DEF OkWasTrue

\* A served "ok" or "warn" stands for conditions that held in one completed refresh
\* (build_snapshot and SnapshotStore of both collectors), for every set of conditions
\* that change and every order of calls, changes, errors and interruptions.
THEOREM ServedIsTrue == Spec => []OkWasTrue
  BY InitInv, StepInv, InvOk, PTL DEF Spec
=============================================================================
