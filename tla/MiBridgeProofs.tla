---------------------------- MODULE MiBridgeProofs ----------------------------
(***************************************************************************)
(* The bridge implements Mirror, for panels of any size, any pictures and  *)
(* any number of frames and faults.  The argument follows a frame through  *)
(* the bridge: endpoint, response, slot, output task, panel.  At no time   *)
(* is a frame at one of these places newer than one further up.            *)
(***************************************************************************)
EXTENDS MiBridge, TLAPS

\* No frame in S is newer than one in T.
NotNewer(S, T) == \A f \in S, g \in T : f.sequence <= g.sequence

Between(S) == \A f \in S : /\ f.sequence \in Nat
                           /\ displayed <= f.sequence
                           /\ f.sequence <= sequence

Chain ==
    /\ sequence \in Nat /\ displayed \in Int /\ displayed <= sequence
    /\ Between(answer) /\ Between(slot.frame) /\ Between(frame)
    /\ NotNewer(frame, slot.frame) /\ NotNewer(frame, answer) /\ NotNewer(slot.frame, answer)
    /\ NotNewer(frame, frame)
    /\ NotNewer(slot.frame, slot.frame)

LEMMA InitChain == Init => Chain
  BY DEF Init, Chain, Between, NotNewer

LEMMA SourceChain ==
    ASSUME Chain, Produce \/ Disconnects \/ PanelForgets
    PROVE  Chain'
  BY DEF Produce, Disconnects, PanelForgets, sourceVars, pollVars, outputVars,
         Chain, Between, NotNewer

LEMMA PollChain ==
    ASSUME Chain, Poll \/ FetchFails
    PROVE  Chain'
<1>1. CASE Ask \/ FetchFails
  BY <1>1 DEF Ask, FetchFails, sourceVars, outputVars, Chain, Between, NotNewer
<1>2. CASE Serve
  <2>1. \A f \in answer' : f.sequence = sequence
    BY <1>2 DEF Serve
  <2> QED
    BY <1>2, <2>1 DEF Serve, sourceVars, outputVars, Chain, Between, NotNewer
<1>3. CASE Receive
  <2>1. slot'.frame = slot.frame \/ slot'.frame \in {{f} : f \in answer}
    BY <1>3 DEF Receive, Put
  <2>2. answer' = {} /\ UNCHANGED <<sequence, frame, displayed>>
    BY <1>3 DEF Receive, sourceVars, outputVars
  <2> QED
    BY <2>1, <2>2 DEF Chain, Between, NotNewer
<1> QED  BY <1>1, <1>2, <1>3 DEF Poll

LEMMA OutputChain ==
    ASSUME Chain, Output \/ ConnectFails
    PROVE  Chain'
<1>1. CASE FirstFrame \/ NewFrame \/ WakeUp
  <2>1. frame' = slot.frame /\ UNCHANGED <<sequence, answer, slot, displayed>>
    BY <1>1 DEF FirstFrame, NewFrame, WakeUp, Take, sourceVars, pollVars
  <2> QED  BY <2>1 DEF Chain, Between, NotNewer
<1>2. CASE Complete
  <2>1. PICK f \in frame : displayed' = f.sequence
    BY <1>2 DEF Complete
  <2>2. UNCHANGED <<sequence, answer, slot, frame>>
    BY <1>2 DEF Complete, sourceVars, pollVars
  <2> QED  BY <2>1, <2>2 DEF Chain, Between, NotNewer
<1>3. CASE Connect \/ ConnectFails \/ Initialize \/ Begin \/ Write \/ WriteFails \/ LinkLost \/ Close
  <2>1. UNCHANGED <<sequence, answer, slot, frame, displayed>>
    BY <1>3 DEF Connect, ConnectFails, Initialize, Begin, Write, WriteFails, LinkLost, Close,
                sourceVars, pollVars, outputVars
  <2> QED  BY <2>1 DEF Chain, Between, NotNewer
<1> QED  BY <1>1, <1>2, <1>3 DEF Output

LEMMA StepChain == Chain /\ [Next]_vars => Chain'
<1> SUFFICES ASSUME Chain, [Next]_vars PROVE Chain'
  OBVIOUS
<1>1. CASE UNCHANGED vars
  BY <1>1 DEF vars, sourceVars, pollVars, outputVars, Chain, Between, NotNewer
<1> QED  BY <1>1, SourceChain, PollChain, OutputChain DEF Next

\* A completed frame is a later one of the mirror's, or the same again.
LEMMA StepIsMirrored == Chain /\ [Next]_vars => [M!Next]_<<sequence, displayed>>
<1> SUFFICES ASSUME Chain, [Next]_vars PROVE [M!Next]_<<sequence, displayed>>
  OBVIOUS
<1>1. CASE Produce
  BY <1>1 DEF Produce, M!Next, M!Produce
<1>2. CASE Complete
  <2>1. PICK f \in frame : displayed' = f.sequence
    BY <1>2 DEF Complete
  <2>2. sequence' = sequence
    BY <1>2 DEF Complete, sourceVars
  <2>3. displayed' = displayed \/ displayed' \in (displayed + 1)..sequence
    BY <2>1 DEF Chain, Between
  <2> QED  BY <2>2, <2>3 DEF M!Next, M!Display
<1>3. CASE ~Produce /\ ~Complete
  <2>1. UNCHANGED <<sequence, displayed>>
    BY <1>3 DEF Next, vars, Disconnects, PanelForgets, Poll, Ask, Serve, Receive, FetchFails,
                Output, FirstFrame, Connect, ConnectFails, Initialize, Begin, Write, WriteFails,
                NewFrame, LinkLost, WakeUp, Close, sourceVars
  <2> QED  BY <2>1
<1> QED  BY <1>1, <1>2, <1>3

\* What the panel is given is the source's stream of frames with gaps: whole frames,
\* never an older one after a newer.
THEOREM BridgeImplementsMirror == Spec => MirrorsTheSource
<1>1. Init => M!Init
  BY DEF Init, M!Init
<1> QED
  BY <1>1, InitChain, StepChain, StepIsMirrored, PTL DEF Spec, MirrorsTheSource, M!Spec

\* The numbers in the status file.
HeartbeatInv == \A d \in heartbeat : \A n \in d.source_frame : n \in Int /\ n <= displayed

\* The heartbeat lags behind the panel at most.
THEOREM HeartbeatIsHonest == Spec => []HeartbeatHonest
<1>1. Init => Chain /\ HeartbeatInv
  BY InitChain DEF Init, HeartbeatInv
<1>2. Chain /\ HeartbeatInv /\ [Next]_vars => Chain' /\ HeartbeatInv'
  <2> SUFFICES ASSUME Chain, HeartbeatInv, [Next]_vars PROVE HeartbeatInv'
    BY StepChain
  <2>1. CASE Complete
    <3>1. PICK f \in frame : /\ displayed' = f.sequence
                             /\ Publish("displaying", TRUE, {f.sequence})
      BY <2>1 DEF Complete
    <3>2. f.sequence \in Nat /\ displayed <= f.sequence /\ displayed \in Int
      BY DEF Chain, Between
    <3>3. CASE heartbeat' = heartbeat
      BY <3>1, <3>2, <3>3 DEF HeartbeatInv
    <3>4. CASE heartbeat' = {[status |-> "displaying", connected |-> TRUE,
                              source_frame |-> {f.sequence}]}
      BY <3>1, <3>2, <3>4 DEF HeartbeatInv
    <3> QED  BY <3>1, <3>3, <3>4 DEF Publish
  <2>2. CASE ~Complete
    <3>1. displayed' = displayed
      BY <2>2 DEF Next, vars, Produce, Disconnects, PanelForgets, Poll, Ask, Serve, Receive,
                  FetchFails, Output, FirstFrame, Connect, ConnectFails, Initialize, Begin, Write,
                  WriteFails, NewFrame, LinkLost, WakeUp, Close, sourceVars
    <3>2. heartbeat' = heartbeat \/ \A d \in heartbeat' : d.source_frame = {}
      BY <2>2 DEF Next, vars, Produce, Disconnects, PanelForgets, Poll, Ask, Serve, Receive,
                  FetchFails, Output, FirstFrame, Connect, ConnectFails, Initialize, Begin, Write,
                  WriteFails, Retries, Publish, NewFrame, LinkLost, WakeUp, Close, sourceVars
    <3> QED  BY <3>1, <3>2 DEF HeartbeatInv
  <2> QED  BY <2>1, <2>2
<1>3. HeartbeatInv => HeartbeatHonest
  BY DEF HeartbeatInv, HeartbeatHonest
<1> QED
  BY <1>1, <1>2, <1>3, PTL DEF Spec
-----------------------------------------------------------------------------
(* Types.                                                                   *)

\* Whatever a picture is turned into has its channels in some option's order.
LEMMA PhysicalType ==
    ASSUME TypeOK, NEW physical \in Physical
    PROVE  physical \in [Points -> Colors]
<1>1. PICK f \in frame : physical = TransformFrame(options, f.pixels)
  BY DEF Physical
<1>2. f.pixels \in Pictures /\ options \in Options
  BY DEF TypeOK, Optional, Frame
<1>3. ASSUME NEW q \in Points, \E p \in Points : Target(options, p) = q
      PROVE  ReorderColor(f.pixels[CHOOSE p \in Points : Target(options, p) = q],
                          options.color_order) \in Colors
  <2> DEFINE p == CHOOSE r \in Points : Target(options, r) = q
             colors == {ReorderColor(f.pixels[r], options.color_order) : r \in Points}
  <2>1. p \in Points
    BY <1>3
  <2> HIDE DEF p
  <2>2. ReorderColor(f.pixels[p], options.color_order) \in colors
    BY <2>1
  <2>3. colors \in {{ReorderColor(g[r], o.color_order) : r \in Points} :
                      g \in Pictures, o \in Options}
    BY <1>2
  <2> HIDE DEF colors
  <2>4. ReorderColor(f.pixels[p], options.color_order) \in Colors
    BY <2>2, <2>3 DEF Colors
  <2> QED  BY <2>4 DEF p
<1>4. Black \in Colors
  BY DEF Colors
<1> QED  BY <1>1, <1>3, <1>4 DEF TransformFrame

LEMMA BlackPanel == [p \in Points |-> Black] \in [Points -> Colors]
  BY DEF Colors

LEMMA DrawType ==
    ASSUME TypeOK, NEW k, Draw(k)
    PROVE  panel' \in [Points -> Colors]
<1>1. PICK physical \in Physical :
        panel' = [p \in Points |-> IF p \in Covered(options.mode, k) THEN physical[p] ELSE panel[p]]
  BY DEF Draw
<1>2. physical \in [Points -> Colors] /\ panel \in [Points -> Colors]
  BY PhysicalType DEF TypeOK
<1> QED  BY <1>1, <1>2

LEMMA InitType == Init => TypeOK
<1> SUFFICES ASSUME Init PROVE TypeOK
  OBVIOUS
<1>1. /\ {} \in Optional(Frame) /\ {} \in Optional(0..MaxSequence) /\ {} \in Optional(Document)
      /\ sequence \in 0..MaxSequence /\ faults \in 0..MaxFaults /\ displayed \in -1..MaxSequence
  BY BridgeAssumption DEF Init, Optional
<1>2. panel \in [Points -> Colors] /\ last_pixels = {} /\ unwritten = {}
  BY BlackPanel DEF Init
<1>3. slot \in [generation : Nat, frame : Optional(Frame)] /\ generation \in 0..slot.generation
  BY <1>1 DEF Init
<1> QED  BY <1>1, <1>2, <1>3 DEF Init, TypeOK

LEMMA PublishType ==
    ASSUME TypeOK, NEW s \in {"scanning", "connected", "displaying", "retrying"},
           NEW c \in BOOLEAN, NEW n \in Optional(0..MaxSequence), Publish(s, c, n)
    PROVE  heartbeat' \in Optional(Document)
<1>1. [status |-> s, connected |-> c, source_frame |-> n] \in Document
  BY DEF Document
<1> QED  BY <1>1 DEF Publish, TypeOK, Optional

LEMMA FrameType ==
    ASSUME TypeOK, NEW f \in frame
    PROVE  f.sequence \in 0..MaxSequence /\ {f.sequence} \in Optional(0..MaxSequence)
  BY DEF TypeOK, Optional, Frame

LEMMA StepType == TypeOK /\ [Next]_vars => TypeOK'
<1> SUFFICES ASSUME TypeOK, [Next]_vars PROVE TypeOK'
  OBVIOUS
<1>0. /\ MaxSequence \in Nat /\ MaxFaults \in Nat /\ faults \in 0..MaxFaults
      /\ {} \in Optional(0..MaxSequence) /\ {} \in Optional(Frame)
  BY BridgeAssumption DEF TypeOK, Optional
<1> USE <1>0 DEF sourceVars, pollVars, outputVars, writerVars, panelVars, Fault
<1>1. CASE Produce
  BY <1>1 DEF Produce, TypeOK
<1>2. CASE Disconnects
  BY <1>2 DEF Disconnects, TypeOK
<1>3. CASE PanelForgets
  BY <1>3, BlackPanel DEF PanelForgets, TypeOK
<1>4. CASE Ask
  BY <1>4 DEF Ask, TypeOK
<1>5. CASE Serve
  <2>1. [sequence |-> sequence, pixels |-> picture] \in Frame
    BY DEF TypeOK, Frame
  <2>2. answer' \in Optional(Frame)
    BY <1>5, <2>1 DEF Serve, Optional
  <2> QED  BY <1>5, <2>2 DEF Serve, TypeOK
<1>6. CASE Receive
  <2>1. ASSUME NEW f \in answer, etag' = {f.sequence}, Put(f)
        PROVE  /\ etag' \in Optional(0..MaxSequence)
               /\ slot' \in [generation : Nat, frame : Optional(Frame)]
               /\ slot.generation <= slot'.generation
    <3>1. f \in Frame /\ slot \in [generation : Nat, frame : Optional(Frame)]
      BY DEF TypeOK, Optional
    <3>2. {f} \in Optional(Frame) /\ {f.sequence} \in Optional(0..MaxSequence)
      BY <3>1 DEF Optional, Frame
    <3> QED  BY <2>1, <3>1, <3>2 DEF Put
  <2>2. /\ etag' \in Optional(0..MaxSequence)
        /\ slot' \in [generation : Nat, frame : Optional(Frame)]
        /\ slot.generation <= slot'.generation
    BY <1>6, <2>1 DEF Receive, TypeOK
  <2>3. generation \in 0..slot'.generation
    BY <2>2 DEF TypeOK
  <2> QED  BY <1>6, <2>2, <2>3 DEF Receive, TypeOK
<1>7. CASE FetchFails
  BY <1>7 DEF FetchFails, TypeOK
<1>8. CASE FirstFrame
  <2>1. heartbeat' \in Optional(Document)
    BY <1>8, PublishType DEF FirstFrame
  <2> QED  BY <1>8, <2>1 DEF FirstFrame, Take, TypeOK
<1>9. CASE Connect
  <2>1. heartbeat' \in Optional(Document)
    BY <1>9, PublishType DEF Connect
  <2> QED  BY <1>9, <2>1 DEF Connect, TypeOK
<1>10. CASE ConnectFails
  <2>1. heartbeat' \in Optional(Document)
    BY <1>10, PublishType DEF ConnectFails, Retries
  <2> QED  BY <1>10, <2>1 DEF ConnectFails, Retries, TypeOK
<1>11. CASE Initialize
  BY <1>11, BlackPanel DEF Initialize, TypeOK
<1>12. CASE Begin
  <2>1. unwritten' \subseteq PacketsOf(options.mode)
    BY <1>12 DEF Begin, Changed
  <2> QED  BY <1>12, <2>1 DEF Begin, TypeOK
<1>13. CASE Write
  <2>1. panel' \in [Points -> Colors]
    BY <1>13, DrawType DEF Write
  <2>2. unwritten' \subseteq unwritten
    BY <1>13 DEF Write
  <2> QED  BY <1>13, <2>1, <2>2 DEF Write, TypeOK
<1>14. CASE WriteFails
  <2>1. panel' \in [Points -> Colors]
    BY <1>14, DrawType, BlackPanel DEF WriteFails, TypeOK
  <2>2. heartbeat' \in Optional(Document)
    BY <1>14, PublishType DEF WriteFails, Retries
  <2>3. faults' \in 0..MaxFaults
    BY <1>14 DEF WriteFails, TypeOK
  <2> QED  BY <1>14, <2>1, <2>2, <2>3 DEF WriteFails, Retries, TypeOK
<1>15. CASE Complete
  <2>1. PICK f \in frame : displayed' = f.sequence /\ Publish("displaying", TRUE, {f.sequence})
    BY <1>15 DEF Complete
  <2>2. displayed' \in -1..MaxSequence
    <3>1. f.sequence \in 0..MaxSequence
      BY FrameType
    <3>2. f.sequence \in -1..MaxSequence
      BY <3>1
    <3> QED  BY <2>1, <3>2
  <2>4. heartbeat' \in Optional(Document)
    <3>1. {f.sequence} \in Optional(0..MaxSequence)
      BY FrameType
    <3> QED  BY <2>1, <3>1, PublishType
  <2>3. \A pixels \in last_pixels' : pixels \in [Points -> Colors]
    BY <1>15, PhysicalType DEF Complete
  <2> QED  BY <1>15, <2>2, <2>3, <2>4 DEF Complete, TypeOK
<1>16. CASE NewFrame
  BY <1>16 DEF NewFrame, Take, TypeOK
<1>17. CASE LinkLost
  <2>1. heartbeat' \in Optional(Document)
    BY <1>17, PublishType DEF LinkLost, Retries
  <2> QED  BY <1>17, <2>1 DEF LinkLost, Retries, TypeOK
<1>18. CASE WakeUp
  BY <1>18 DEF WakeUp, Take, TypeOK
<1>19. CASE Close
  <2>1. heartbeat' \in Optional(Document)
    BY <1>19, PublishType DEF Close
  <2> QED  BY <1>19, <2>1 DEF Close, TypeOK
<1>20. CASE UNCHANGED vars
  BY <1>20 DEF vars, TypeOK
<1> QED
  BY <1>1, <1>2, <1>3, <1>4, <1>5, <1>6, <1>7, <1>8, <1>9, <1>10, <1>11, <1>12, <1>13, <1>14,
     <1>15, <1>16, <1>17, <1>18, <1>19, <1>20 DEF Next, Poll, Output

\* Every reachable state of the bridge is well typed: the panel only ever shows
\* black and colours of the pictures, for any panel, pictures and options.
THEOREM BridgeTypeCorrect == Spec => []TypeOK
  BY InitType, StepType, PTL DEF Spec

-----------------------------------------------------------------------------
(* The picture on the panel: turning and mirroring.                         *)

LEMMA PointsAre ==
    ASSUME NEW p \in Points
    PROVE  \E x, y \in 0..Side - 1 : p = <<x, y>>
  BY DEF Points

\* Turning by degrees is turning by quarters.
LEMMA TargetIsTurned ==
    ASSUME NEW o \in Options, NEW p \in Points
    PROVE  /\ Target(o, p) = Mirrored(o.mirror_x, o.mirror_y, QuarterTurns(o.rotation \div 90, p))
           /\ Target(o, p) \in Points
<1>1. PICK x, y \in 0..Side - 1 : p = <<x, y>>
  BY PointsAre
<1>2. Side \in Nat \ {0} /\ o.rotation \in {0, 90, 180, 270}
  BY LayoutAssumption, BridgeAssumption
<1>3. /\ x \in Int /\ y \in Int /\ 0 <= x /\ x <= Side - 1 /\ 0 <= y /\ y <= Side - 1
      /\ Side - 1 - (Side - 1 - x) = x /\ Side - 1 - (Side - 1 - y) = y
  BY <1>2
<1>4. /\ 0 \div 90 = 0 /\ 90 \div 90 = 1 /\ 180 \div 90 = 2 /\ 270 \div 90 = 3
  OBVIOUS
<1>5. Rotated(o.rotation, p) = QuarterTurns(o.rotation \div 90, p)
  BY <1>1, <1>2, <1>3, <1>4 DEF Rotated, QuarterTurns, QuarterTurn
<1>6. \E a, b \in 0..Side - 1 : Rotated(o.rotation, p) = <<a, b>>
  <2>1. x \in 0..Side - 1 /\ Side - 1 - x \in 0..Side - 1
    BY <1>2, <1>3
  <2>2. y \in 0..Side - 1 /\ Side - 1 - y \in 0..Side - 1
    BY <1>2, <1>3
  <2>3. \/ Rotated(o.rotation, p) = <<x, y>>
        \/ Rotated(o.rotation, p) = <<Side - 1 - y, x>>
        \/ Rotated(o.rotation, p) = <<Side - 1 - x, Side - 1 - y>>
        \/ Rotated(o.rotation, p) = <<y, Side - 1 - x>>
    BY <1>1, <1>2 DEF Rotated
  <2> QED  BY <2>1, <2>2, <2>3
<1>7. PICK a, b \in 0..Side - 1 : Rotated(o.rotation, p) = <<a, b>>
  BY <1>6
<1>8. /\ a \in 0..Side - 1 /\ Side - 1 - a \in 0..Side - 1
      /\ b \in 0..Side - 1 /\ Side - 1 - b \in 0..Side - 1
  BY <1>2
<1>9. Target(o, p) \in Points
  BY <1>7, <1>8 DEF Target, Mirrored, Points
<1> QED  BY <1>5, <1>9 DEF Target

\* No two points of a frame have the same place on the panel.
LEMMA TargetIsInjective ==
    ASSUME NEW o \in Options, NEW p \in Points, NEW q \in Points, Target(o, p) = Target(o, q)
    PROVE  p = q
<1>1. PICK x, y \in 0..Side - 1 : p = <<x, y>>
  BY PointsAre
<1>2. PICK u, v \in 0..Side - 1 : q = <<u, v>>
  BY PointsAre
<1>3. Side \in Nat \ {0} /\ o.rotation \in {0, 90, 180, 270}
  BY LayoutAssumption, BridgeAssumption
<1>4. x \in Int /\ y \in Int /\ u \in Int /\ v \in Int
  BY <1>3
<1>5. CASE o.rotation = 0
  BY <1>1, <1>2, <1>3, <1>4, <1>5 DEF Target, Mirrored, Rotated
<1>6. CASE o.rotation = 90
  BY <1>1, <1>2, <1>3, <1>4, <1>6 DEF Target, Mirrored, Rotated
<1>7. CASE o.rotation = 180
  BY <1>1, <1>2, <1>3, <1>4, <1>7 DEF Target, Mirrored, Rotated
<1>8. CASE o.rotation = 270
  BY <1>1, <1>2, <1>3, <1>4, <1>8 DEF Target, Mirrored, Rotated
<1> QED  BY <1>3, <1>5, <1>6, <1>7, <1>8

\* A frame that is on the panel as transform_frame gives it is seen as it was meant.
LEMMA TransformedIsSeen ==
    ASSUME options \in Options, NEW pixels, panel = TransformFrame(options, pixels)
    PROVE  Shows(pixels)
<1> SUFFICES ASSUME NEW p \in Points, NEW channel \in 1..3
             PROVE  Seen(p)[channel] = pixels[p][options.color_order[channel]]
  BY DEF Shows
<1> DEFINE q == Target(options, p)
<1>1. Seen(p) = panel[q] /\ q \in Points
  BY TargetIsTurned DEF Seen
<1>2. p = CHOOSE r \in Points : Target(options, r) = q
  BY TargetIsInjective
<1>3. panel[q] = ReorderColor(pixels[p], options.color_order)
  BY <1>1, <1>2 DEF TransformFrame
<1> QED  BY <1>1, <1>3 DEF ReorderColor

-----------------------------------------------------------------------------
(* The picture on the panel: packets.                                       *)

LEMMA Division ==
    ASSUME NEW a \in Nat, NEW b \in Nat \ {0}
    PROVE  /\ a \div b \in Nat /\ (a \div b) * b \in Nat
           /\ (a \div b) * b <= a /\ a < (a \div b) * b + b
           /\ a % b = a - (a \div b) * b
  OBVIOUS

LEMMA Product ==
    ASSUME NEW a \in Nat, NEW b \in Nat, NEW c \in Nat
    PROVE  /\ a * c \in Nat
           /\ (a + 1) * c = a * c + c
           /\ a < b => a * c + c <= b * c
  OBVIOUS

\* The index of a point gives it back.
LEMMA DivisionUndone ==
    ASSUME NEW x \in Nat, NEW y \in Nat, NEW b \in Nat \ {0}, x < b
    PROVE  y * b + x \in Nat /\ (y * b + x) \div b = y /\ (y * b + x) % b = x
<1> DEFINE a == y * b + x
           d == a \div b
<1>1. y * b \in Nat /\ a \in Nat
  BY Product
<1> HIDE DEF a
<1>2. d \in Nat /\ d * b \in Nat /\ d * b <= a /\ a < d * b + b /\ a % b = a - d * b
  BY <1>1, Division
<1> HIDE DEF d
<1>3. a = y * b + x
  BY DEF a
<1>4. ~(d < y)
  <2>1. d < y => d * b + b <= y * b
    BY <1>2, Product
  <2> QED  BY <1>1, <1>2, <1>3, <2>1
<1>5. ~(y < d)
  <2>1. y < d => y * b + b <= d * b
    BY <1>2, Product
  <2> QED  BY <1>1, <1>2, <1>3, <2>1
<1>6. d = y
  BY <1>2, <1>4, <1>5
<1>7. a % b = x
  BY <1>1, <1>2, <1>3, <1>6
<1> QED  BY <1>1, <1>6, <1>7 DEF a, d

LEMMA EveryPointHasIndex ==
    ASSUME NEW p \in Points
    PROVE  \E i \in Indices : PointAt(i) = p
<1>1. PICK x, y \in 0..Side - 1 : p = <<x, y>>
  BY PointsAre
<1>2. Side \in Nat \ {0} /\ x \in Nat /\ y \in Nat /\ x < Side /\ y < Side
  BY LayoutAssumption
<1>3. y * Side + x \in Nat /\ (y * Side + x) \div Side = y /\ (y * Side + x) % Side = x
  BY <1>2, DivisionUndone
<1>4. y * Side + Side <= Side * Side /\ y * Side \in Nat /\ Side * Side \in Nat
  BY <1>2, Product
<1>5. y * Side + x \in Indices
  BY <1>2, <1>3, <1>4 DEF Indices
<1> QED  BY <1>1, <1>3, <1>5 DEF PointAt

\* The packets of either mode leave out no point.
LEMMA EveryPointIsCovered ==
    ASSUME NEW mode \in {"pixel", "block"}, NEW p \in Points
    PROVE  \E k \in PacketsOf(mode) : p \in Covered(mode, k)
<1>1. PICK i \in Indices : PointAt(i) = p
  BY EveryPointHasIndex
<1>2. CASE mode = "pixel"
  BY <1>1, <1>2 DEF PacketsOf, Covered
<1>3. CASE mode = "block"
  <2> DEFINE area == Side * Side
             k == i \div BlockSize
             n == area \div BlockSize
  <2>1. Side \in Nat \ {0} /\ BlockSize \in Nat \ {0} /\ area % BlockSize = 0
    BY LayoutAssumption
  <2>2. area \in Nat /\ i \in Nat /\ i < area
    BY <2>1, Product DEF Indices
  <2> HIDE DEF area
  <2>3. /\ k \in Nat /\ k * BlockSize \in Nat
        /\ k * BlockSize <= i /\ i < k * BlockSize + BlockSize
    BY <2>1, <2>2, Division
  <2>4. n \in Nat /\ n * BlockSize = area
    <3>1. n \in Nat /\ n * BlockSize \in Nat /\ area % BlockSize = area - n * BlockSize
      BY <2>1, <2>2, Division
    <3> QED  BY <2>1, <2>2, <3>1
  <2> HIDE DEF k, n
  <2>5. k < n
    <3>1. n < k => n * BlockSize + BlockSize <= k * BlockSize
      BY <2>1, <2>3, <2>4, Product
    <3>2. k # n
      BY <2>2, <2>3, <2>4
    <3> QED  BY <2>1, <2>2, <2>3, <2>4, <3>1, <3>2
  <2>6. (k + 1) * BlockSize = k * BlockSize + BlockSize
    BY <2>1, <2>3, Product
  <2>7. i \in k * BlockSize..(k + 1) * BlockSize - 1
    BY <2>1, <2>2, <2>3, <2>6
  <2>8. k \in Blocks
    BY <2>3, <2>4, <2>5 DEF Blocks, n, area
  <2> QED  BY <1>1, <1>3, <2>7, <2>8 DEF PacketsOf, Covered
<1> QED  BY <1>2, <1>3

-----------------------------------------------------------------------------
(* The picture on the panel: the writer.                                    *)

Uncovered(p) == \A k \in unwritten : p \notin Covered(options.mode, k)

\* What the writer knows is true as long as the link holds: between frames the panel
\* shows the pixels written last, and during a frame every point of it that no packet
\* still to come will set.
Synced ==
    /\ ~initialized => last_pixels = {}
    /\ output = "writing" => initialized
    /\ link = "up" /\ output \in {"sending", "waiting"} => \A pixels \in last_pixels : panel = pixels
    /\ link = "up" /\ output = "writing" =>
         \A physical \in Physical : \A p \in Points : Uncovered(p) => panel[p] = physical[p]
    /\ output = "waiting" => last_pixels = Physical

LEMMA OnePhysical == TypeOK => \A a, b \in Physical : a = b
  BY DEF TypeOK, Optional, Physical

LEMMA InitSynced == Init => Synced
  BY DEF Init, Synced

\* Steps that end where nothing is asked of the panel.
LEMMA NothingKnown ==
    ASSUME output' \notin {"sending", "writing", "waiting"}, ~initialized' => last_pixels' = {}
    PROVE  Synced'
  BY DEF Synced

\* Steps of somebody else.
LEMMA WriterUntouched ==
    ASSUME Synced, UNCHANGED <<options, output, frame, initialized, last_pixels, unwritten>>,
           UNCHANGED <<link, panel>> \/ link' = "down"
    PROVE  Synced'
<1>1. Physical' = Physical
  BY DEF Physical
<1>2. CASE UNCHANGED <<link, panel>>
  BY <1>1, <1>2 DEF Synced, Uncovered
<1>3. CASE link' = "down"
  BY <1>1, <1>3 DEF Synced
<1> QED  BY <1>2, <1>3

\* A frame begins: what is not sent is on the panel already.
LEMMA BeginSynced ==
    ASSUME TypeOK, Synced, Begin
    PROVE  Synced'
<1>1. PICK physical \in Physical : unwritten' = Changed(physical)
  BY DEF Begin
<1>2. /\ output = "sending" /\ output' = "writing" /\ initialized' = initialized
      /\ UNCHANGED <<options, frame, last_pixels, link, panel>>
  BY DEF Begin, sourceVars, outputVars, panelVars
<1>3. Physical' = Physical
  BY <1>2 DEF Physical
<1>4. ASSUME link = "up", NEW p \in Points, Uncovered(p)' PROVE panel[p] = physical[p]
  <2>1. \A pixels \in last_pixels : panel = pixels
    BY <1>2, <1>4 DEF Synced
  <2>2. CASE physical \in last_pixels
    BY <2>1, <2>2
  <2>3. CASE physical \notin last_pixels
    <3>1. PICK k \in PacketsOf(options.mode) : p \in Covered(options.mode, k)
      BY EveryPointIsCovered, BridgeAssumption DEF TypeOK
    <3>2. k \notin Changed(physical)
      BY <1>1, <1>2, <1>4, <3>1 DEF Uncovered
    <3>3. PICK pixels \in last_pixels :
            ~ \E q \in Covered(options.mode, k) : pixels[q] # physical[q]
      BY <2>3, <3>2 DEF Changed
    <3>4. pixels[p] = physical[p]
      BY <3>1, <3>3
    <3> QED  BY <2>1, <3>3, <3>4
  <2> QED  BY <2>2, <2>3
<1>5. ASSUME link' = "up", NEW other \in Physical', NEW p \in Points, Uncovered(p)'
      PROVE  panel'[p] = other[p]
  <2>1. other = physical
    BY <1>3, OnePhysical
  <2> QED  BY <1>2, <1>4, <1>5, <2>1
<1>6. output' \notin {"sending", "waiting"} /\ initialized'
  BY <1>2 DEF Begin
<1> QED  BY <1>5, <1>6 DEF Synced

\* A packet is drawn: it sets its points, and leaves the others.
LEMMA WriteSynced ==
    ASSUME TypeOK, Synced, Write
    PROVE  Synced'
<1> DEFINE m == Min(unwritten)
<1>1. /\ output = "writing" /\ output' = "writing" /\ link = "up"
      /\ Draw(m) /\ unwritten' = unwritten \ {m}
      /\ UNCHANGED <<options, frame, initialized, last_pixels, link>>
  BY DEF Write, sourceVars, outputVars
<1> HIDE DEF m
<1>2. Physical' = Physical
  BY <1>1 DEF Physical
<1>3. PICK physical \in Physical :
        panel' = [p \in Points |-> IF p \in Covered(options.mode, m) THEN physical[p] ELSE panel[p]]
  BY <1>1 DEF Draw
<1>4. ASSUME NEW other \in Physical', NEW p \in Points, Uncovered(p)'
      PROVE  panel'[p] = other[p]
  <2>1. other = physical
    BY <1>2, OnePhysical
  <2>2. CASE p \in Covered(options.mode, m)
    BY <1>3, <2>1, <2>2
  <2>3. CASE p \notin Covered(options.mode, m)
    <3>1. Uncovered(p)
      BY <1>1, <1>4, <2>3 DEF Uncovered
    <3>2. panel[p] = physical[p]
      BY <1>1, <3>1 DEF Synced
    <3> QED  BY <1>3, <2>1, <2>3, <3>2
  <2> QED  BY <2>2, <2>3
<1>5. output' \notin {"sending", "waiting"} /\ initialized'
  BY <1>1 DEF Synced
<1> QED  BY <1>4, <1>5 DEF Synced

\* A frame is complete: no packet is left, so all of it is on the panel.
LEMMA CompleteSynced ==
    ASSUME TypeOK, Synced, Complete
    PROVE  Synced'
<1>1. /\ output = "writing" /\ output' = "waiting" /\ unwritten = {} /\ last_pixels' = Physical
      /\ UNCHANGED <<options, frame, initialized, link, panel>>
  BY DEF Complete, sourceVars, panelVars
<1>2. Physical' = Physical
  BY <1>1 DEF Physical
<1>3. ASSUME link = "up", NEW physical \in Physical PROVE panel = physical
  <2>1. panel \in [Points -> Colors] /\ physical \in [Points -> Colors]
    BY PhysicalType DEF TypeOK
  <2>2. \A p \in Points : panel[p] = physical[p]
    BY <1>1, <1>3 DEF Synced, Uncovered
  <2> QED  BY <2>1, <2>2
<1>4. initialized
  BY <1>1 DEF Synced
<1> QED  BY <1>1, <1>2, <1>3, <1>4 DEF Synced

LEMMA StepSynced == TypeOK /\ Synced /\ [Next]_vars => Synced'
<1> SUFFICES ASSUME TypeOK, Synced, [Next]_vars PROVE Synced'
  OBVIOUS
<1> USE DEF sourceVars, pollVars, outputVars, writerVars, panelVars
<1>1. CASE Produce \/ Ask \/ Serve \/ Receive \/ FetchFails \/ UNCHANGED vars
  <2>1. UNCHANGED <<options, output, frame, initialized, last_pixels, unwritten, link, panel>>
    BY <1>1 DEF Produce, Ask, Serve, Receive, FetchFails, vars
  <2> QED  BY <2>1, WriterUntouched
<1>2. CASE Disconnects \/ PanelForgets
  <2>1. /\ UNCHANGED <<options, output, frame, initialized, last_pixels, unwritten>>
        /\ link' = "down"
    BY <1>2 DEF Disconnects, PanelForgets
  <2> QED  BY <2>1, WriterUntouched
<1>3. CASE FirstFrame \/ ConnectFails \/ LinkLost \/ WakeUp \/ Close \/ WriteFails
  <2>1. output' \notin {"sending", "writing", "waiting"}
    BY <1>3 DEF FirstFrame, ConnectFails, LinkLost, WakeUp, Close, WriteFails, Retries
  <2>2. ~initialized' => last_pixels' = {}
    BY <1>3 DEF FirstFrame, ConnectFails, LinkLost, WakeUp, Close, WriteFails, Synced
  <2> QED  BY <2>1, <2>2, NothingKnown
<1>4. CASE Connect
  <2>1. output' = "sending" /\ last_pixels' = {}
    BY <1>4 DEF Connect
  <2> QED  BY <2>1 DEF Synced
<1>5. CASE Initialize
  <2>1. output' = "sending" /\ last_pixels' = {}
    BY <1>5 DEF Initialize, Synced
  <2> QED  BY <2>1 DEF Synced
<1>6. CASE NewFrame
  <2>1. /\ output = "waiting" /\ output' = "sending"
        /\ UNCHANGED <<initialized, last_pixels, link, panel>>
    BY <1>6 DEF NewFrame
  <2> QED  BY <2>1 DEF Synced
<1> QED
  BY <1>1, <1>2, <1>3, <1>4, <1>5, <1>6, BeginSynced, WriteSynced, CompleteSynced
  DEF Next, Poll, Output

\* While the bridge rests on a frame over a link that is up, the panel shows just that
\* frame, however it is mounted, in either mode, for any size, pictures and options:
\* sparse writes, failed writes, reconnects and resets leave nothing of another one.
THEOREM PanelIsFaithful == Spec => []PanelShowsFrame
<1>1. Init => TypeOK /\ Synced
  BY InitType, InitSynced
<1>2. TypeOK /\ Synced /\ [Next]_vars => TypeOK' /\ Synced'
  BY StepType, StepSynced
<1>3. TypeOK /\ Synced => PanelShowsFrame
  <2> SUFFICES ASSUME TypeOK, Synced, output = "waiting", link = "up", NEW f \in frame
               PROVE  Shows(f.pixels)
    BY DEF PanelShowsFrame
  <2>1. TransformFrame(options, f.pixels) \in Physical
    BY DEF Physical
  <2>2. panel = TransformFrame(options, f.pixels)
    BY <2>1 DEF Synced
  <2> QED  BY <2>2, TransformedIsSeen DEF TypeOK
<1> QED  BY <1>1, <1>2, <1>3, PTL DEF Spec

===============================================================================
