------------------------------- MODULE MiBridge -------------------------------
(***************************************************************************)
(* The bridge from the HTTP display to the MI Bluetooth panel              *)
(* (tools/mi_ble): one task polls the frame endpoint into a slot that      *)
(* keeps the newest frame, another keeps a connection to the panel and     *)
(* writes one frame after the other, packet by packet.  Tasks interleave   *)
(* where they await.                                                       *)
(*                                                                         *)
(* External are the endpoint (one process; a restart of it is part of      *)
(* HttpDisplay) and the panel: a link that may drop at any time, and       *)
(* pixels that may be anything after they were without a link.             *)
(***************************************************************************)
EXTENDS PanelLayout, FiniteSetsExt

CONSTANTS
    Pictures,     \* the frames the endpoint may serve
    Options,      \* the BridgeOptions the bridge may be started with
    MaxSequence,  \* bound of the model: frames submitted to the endpoint
    MaxFaults     \* bound of the model: requests, writes and links that fail

ASSUME BridgeAssumption ==
    /\ Pictures # {}
    /\ \A o \in Options : o.mode \in {"pixel", "block"} /\ o.rotation \in {0, 90, 180, 270}
    /\ MaxSequence \in Nat
    /\ MaxFaults \in Nat

VARIABLES
    options,
    sequence,      \* the endpoint's newest frame ...
    picture,       \* ... and what it looks like
    poll,          \* where poll_source stands
    answer,        \* the response it waits for: an optional frame
    etag,          \* optional
    slot,          \* LatestFrameSlot: _generation and the optional _frame
    output,        \* where output_frames stands
    generation,    \* its generation and frame, the frame optional
    frame,
    initialized,   \* the MiFrameWriter: _initialized, the optional _last_pixels
    last_pixels,   \* and the packets of the current frame not written yet
    unwritten,
    link,          \* is_connected
    disconnected,  \* the event
    panel,         \* the colours of the panel's points
    heartbeat,     \* the optional document in the status file
    displayed,     \* history: number of the frame written completely last
    faults

sourceVars == <<options, sequence, picture>>
pollVars   == <<poll, answer, etag, slot>>
writerVars == <<initialized, last_pixels, unwritten>>
panelVars  == <<link, disconnected, panel>>
outputVars == <<output, generation, frame>>
vars == <<sourceVars, pollVars, outputVars, writerVars, panelVars, heartbeat, displayed, faults>>

Optional(S) == {{}} \cup {{x} : x \in S}
Frame       == [sequence : 0..MaxSequence, pixels : Pictures]
Colors      == {Black} \cup UNION {{ReorderColor(f[p], o.color_order) : p \in Points} :
                                     f \in Pictures, o \in Options}
Document    == [status       : {"scanning", "connected", "displaying", "retrying"},
                connected    : BOOLEAN,
                source_frame : Optional(0..MaxSequence)]

TypeOK ==
    /\ options \in Options
    /\ sequence \in 0..MaxSequence
    /\ picture \in Pictures
    /\ poll \in {"sleeping", "asked", "answered"}
    /\ answer \in Optional(Frame)
    /\ etag \in Optional(0..MaxSequence)
    /\ slot \in [generation : Nat, frame : Optional(Frame)]
    /\ output \in {"idle", "connecting", "sending", "writing", "waiting", "retrying", "closing"}
    /\ generation \in 0..slot.generation
    /\ frame \in Optional(Frame)
    /\ initialized \in BOOLEAN
    /\ \A pixels \in last_pixels : pixels \in [Points -> Colors]
    /\ unwritten \subseteq PacketsOf(options.mode)
    /\ link \in {"up", "down"}
    /\ disconnected \in BOOLEAN
    /\ panel \in [Points -> Colors]
    /\ heartbeat \in Optional(Document)
    /\ displayed \in -1..MaxSequence
    /\ faults \in 0..MaxFaults

Init ==
    /\ options \in Options
    /\ sequence = 0
    /\ picture \in Pictures
    /\ poll = "sleeping" /\ answer = {} /\ etag = {}
    /\ slot = [generation |-> 0, frame |-> {}]
    /\ output = "idle" /\ generation = 0 /\ frame = {}
    /\ initialized = FALSE /\ last_pixels = {} /\ unwritten = {}
    /\ link = "down" /\ disconnected = FALSE
    /\ panel = [p \in Points |-> Black]
    /\ heartbeat = {}
    /\ displayed = -1
    /\ faults = 0

Fault == faults < MaxFaults /\ faults' = faults + 1

-----------------------------------------------------------------------------
(* The endpoint and the panel, as far as they act by themselves.            *)

Produce ==
    /\ sequence < MaxSequence
    /\ sequence' = sequence + 1
    /\ picture' \in Pictures
    /\ UNCHANGED <<options, pollVars, outputVars, writerVars, panelVars, heartbeat,
                   displayed, faults>>

\* Bleak notes that the link is lost and calls back.
Disconnects ==
    /\ Fault
    /\ link = "up"
    /\ link' = "down"
    /\ disconnected' = TRUE
    /\ UNCHANGED <<sourceVars, pollVars, outputVars, writerVars, panel, heartbeat, displayed>>

\* Without a link the panel may be switched off and on again.
PanelForgets ==
    /\ link = "down"
    /\ panel' = [p \in Points |-> Black]
    /\ UNCHANGED <<sourceVars, pollVars, outputVars, writerVars, link, disconnected,
                   heartbeat, displayed, faults>>

-----------------------------------------------------------------------------
(* poll_source.                                                             *)

Ask ==
    /\ poll = "sleeping"
    /\ poll' = "asked"
    /\ UNCHANGED <<sourceVars, answer, etag, slot, outputVars, writerVars, panelVars,
                   heartbeat, displayed, faults>>

\* The endpoint answers with its newest frame, or 304.
Serve ==
    /\ poll = "asked"
    /\ poll' = "answered"
    /\ answer' = IF etag = {sequence} THEN {}
                 ELSE {[sequence |-> sequence, pixels |-> picture]}
    /\ UNCHANGED <<sourceVars, etag, slot, outputVars, writerVars, panelVars, heartbeat,
                   displayed, faults>>

\* LatestFrameSlot.put
Put(f) ==
    slot' = IF \E g \in slot.frame : g.pixels = f.pixels
            THEN slot
            ELSE [generation |-> slot.generation + 1, frame |-> {f}]

\* The body is parsed, its tag kept and the frame put into the slot.
Receive ==
    /\ poll = "answered"
    /\ poll' = "sleeping"
    /\ answer' = {}
    /\ \/ answer = {} /\ UNCHANGED <<etag, slot>>
       \/ \E f \in answer : etag' = {f.sequence} /\ Put(f)
    /\ UNCHANGED <<sourceVars, outputVars, writerVars, panelVars, heartbeat, displayed, faults>>

\* FrameSourceError: no answer, or one that is not a frame.
FetchFails ==
    /\ Fault
    /\ poll \in {"asked", "answered"}
    /\ poll' = "sleeping"
    /\ answer' = {}
    /\ UNCHANGED <<sourceVars, etag, slot, outputVars, writerVars, panelVars, heartbeat,
                   displayed>>

-----------------------------------------------------------------------------
(* output_frames.                                                           *)

\* BridgeStatusFile.update replaces the file, or logs that it could not.
Publish(status, connected, source_frame) ==
    \/ heartbeat' = {[status |-> status, connected |-> connected, source_frame |-> source_frame]}
    \/ UNCHANGED heartbeat

\* slot.current(), or wait_after when there is something to wait for.
Take == generation' = slot.generation /\ frame' = slot.frame

\* The first frame is there: the loop begins, with a scan.
FirstFrame ==
    /\ output = "idle"
    /\ slot.generation > 0
    /\ output' = "connecting"
    /\ Take
    /\ Publish("scanning", FALSE, {})
    /\ UNCHANGED <<sourceVars, pollVars, writerVars, panelVars, displayed, faults>>

\* Faulty: the writer outlives its connection.
ConnectKeepsWriter ==
    /\ output = "connecting"
    /\ output' = "sending"
    /\ link' = "up" /\ disconnected' = FALSE
    /\ unwritten' = {}
    /\ Publish("connected", TRUE, {})
    /\ UNCHANGED <<sourceVars, pollVars, generation, frame, initialized, last_pixels, panel,
                   displayed, faults>>

\* The panel is found and connected, and gets a writer of its own.
Connect ==
    /\ output = "connecting"
    /\ output' = "sending"
    /\ link' = "up" /\ disconnected' = FALSE
    /\ initialized' = FALSE /\ last_pixels' = {} /\ unwritten' = {}
    /\ Publish("connected", TRUE, {})
    /\ UNCHANGED <<sourceVars, pollVars, generation, frame, panel, displayed, faults>>

\* The handler of every exception, up to its sleep.
Retries ==
    /\ output' = "retrying"
    /\ Publish("retrying", FALSE, {})

ConnectFails ==
    /\ Fault
    /\ output = "connecting"
    /\ Retries
    /\ UNCHANGED <<sourceVars, pollVars, generation, frame, writerVars, panelVars, displayed>>

\* initialize: what the panel shows after its mode was set is up to the panel.
Initialize ==
    /\ output = "sending"
    /\ ~initialized
    /\ link = "up"
    /\ initialized' = TRUE
    /\ panel' \in {panel, [p \in Points |-> Black]}
    /\ UNCHANGED <<sourceVars, pollVars, outputVars, last_pixels, unwritten, link, disconnected,
                   heartbeat, displayed, faults>>

Physical == UNION {{TransformFrame(options, f.pixels)} : f \in frame}

\* What send_frame writes: nothing, every block, every pixel, or those that differ.
Changed(physical) ==
    IF physical \in last_pixels THEN {}
    ELSE {k \in PacketsOf(options.mode) :
            \/ options.mode = "block"
            \/ \A pixels \in last_pixels :
                  \E p \in Covered(options.mode, k) : pixels[p] # physical[p]}

\* Faulty: the frame is reported before it is written.
BeginReporting ==
    /\ output = "sending"
    /\ initialized
    /\ output' = "writing"
    /\ \E physical \in Physical : unwritten' = Changed(physical)
    /\ \E f \in frame : Publish("displaying", TRUE, {f.sequence})
    /\ UNCHANGED <<sourceVars, pollVars, generation, frame, initialized, last_pixels, panelVars,
                   displayed, faults>>

Begin ==
    /\ output = "sending"
    /\ initialized
    /\ output' = "writing"
    /\ \E physical \in Physical : unwritten' = Changed(physical)
    /\ UNCHANGED <<sourceVars, pollVars, generation, frame, initialized, last_pixels, panelVars,
                   heartbeat, displayed, faults>>

\* The panel draws a packet of the frame.
Draw(k) ==
    \E physical \in Physical :
        panel' = [p \in Points |-> IF p \in Covered(options.mode, k) THEN physical[p] ELSE panel[p]]

Write ==
    /\ output = "writing"
    /\ unwritten # {}
    /\ link = "up"
    /\ Draw(Min(unwritten))
    /\ unwritten' = unwritten \ {Min(unwritten)}
    /\ UNCHANGED <<sourceVars, pollVars, outputVars, initialized, last_pixels, link, disconnected,
                   heartbeat, displayed, faults>>

\* A write raises, because the link is lost or although it is not, and the panel may
\* have drawn the packet all the same.  The writer forgets what it knew.
WriteFails ==
    /\ \/ output = "sending" /\ ~initialized /\ panel' \in {panel, [p \in Points |-> Black]}
       \/ output = "writing" /\ unwritten # {} /\ (UNCHANGED panel \/ Draw(Min(unwritten)))
    /\ link = "down" \/ faults < MaxFaults
    /\ faults' = IF link = "up" THEN faults + 1 ELSE faults
    /\ initialized' = FALSE /\ last_pixels' = {} /\ unwritten' = {}
    /\ Retries
    /\ UNCHANGED <<sourceVars, pollVars, generation, frame, link, disconnected, displayed>>

\* send_frame returns.
Complete ==
    /\ output = "writing"
    /\ unwritten = {}
    /\ output' = "waiting"
    /\ last_pixels' = Physical
    /\ \E f \in frame : displayed' = f.sequence /\ Publish("displaying", TRUE, {f.sequence})
    /\ UNCHANGED <<sourceVars, pollVars, generation, frame, initialized, unwritten, panelVars,
                   faults>>

\* _wait_for_frame_or_disconnect: a lost link comes before a new frame.
NewFrame ==
    /\ output = "waiting"
    /\ ~disconnected
    /\ slot.generation > generation
    /\ output' = "sending"
    /\ Take
    /\ UNCHANGED <<sourceVars, pollVars, writerVars, panelVars, heartbeat, displayed, faults>>

LinkLost ==
    /\ output = "waiting"
    /\ disconnected
    /\ Retries
    /\ UNCHANGED <<sourceVars, pollVars, generation, frame, writerVars, panelVars, displayed,
                   faults>>

\* Faulty: the frame the bridge began with is restored after a failure.
WakeUpWithFirst ==
    /\ output = "retrying"
    /\ output' = "closing"
    /\ \E f \in Frame : f.sequence = 0 /\ frame' = {f}
    /\ generation' = slot.generation
    /\ UNCHANGED <<sourceVars, pollVars, writerVars, panelVars, heartbeat, displayed, faults>>

\* The handler's sleep is over.
WakeUp ==
    /\ output = "retrying"
    /\ output' = "closing"
    /\ Take
    /\ UNCHANGED <<sourceVars, pollVars, writerVars, panelVars, heartbeat, displayed, faults>>

\* Faulty: closing a connection that is not lost yet raises, and the task is over.
CloseRaises ==
    /\ output = "closing"
    /\ link = "down"
    /\ output' = "connecting"
    /\ Publish("scanning", FALSE, {})
    /\ UNCHANGED <<sourceVars, pollVars, generation, frame, writerVars, panelVars, displayed,
                   faults>>

\* The finally: the connection is closed, whether or not that raises, and the loop
\* goes round.
Close ==
    /\ output = "closing"
    /\ output' = "connecting"
    /\ link' = "down"
    /\ Publish("scanning", FALSE, {})
    /\ UNCHANGED <<sourceVars, pollVars, generation, frame, writerVars, disconnected, panel,
                   displayed, faults>>

Poll == Ask \/ Serve \/ Receive

Output ==
    \/ FirstFrame
    \/ Connect
    \/ Initialize
    \/ Begin
    \/ Write
    \/ WriteFails
    \/ Complete
    \/ NewFrame
    \/ LinkLost
    \/ WakeUp
    \/ Close

Next ==
    \/ Produce
    \/ Disconnects
    \/ PanelForgets
    \/ Poll
    \/ FetchFails
    \/ Output
    \/ ConnectFails

Spec == Init /\ [][Next]_vars

\* Requests are answered, the panel can be connected and takes writes, except for the
\* faults, and both tasks go on when they can.
FairSpec == Spec /\ WF_vars(Poll) /\ WF_vars(Output)

-----------------------------------------------------------------------------
(* Properties.                                                              *)

\* Where a quarter turn of the panel takes a point, and up to three of them.
QuarterTurn(p) == <<Side - 1 - p[2], p[1]>>
QuarterTurns(n, p) ==
    CASE n = 0 -> p
      [] n = 1 -> QuarterTurn(p)
      [] n = 2 -> QuarterTurn(QuarterTurn(p))
      [] n = 3 -> QuarterTurn(QuarterTurn(QuarterTurn(p)))

\* What somebody sees who looks at a panel mounted as the options say.
Seen(p) ==
    LET q == QuarterTurns(options.rotation \div 90, p)
    IN  panel[Mirrored(options.mirror_x, options.mirror_y, q)]

Shows(pixels) ==
    \A p \in Points : \A channel \in 1..3 :
        Seen(p)[channel] = pixels[p][options.color_order[channel]]

\* While the bridge rests on a frame it has sent over a link that is still up, the
\* panel shows just that frame: sparse writes, failed writes whose packets arrived,
\* reconnects and the panel's own reset leave nothing of another one.
PanelShowsFrame == output = "waiting" /\ link = "up" => \A f \in frame : Shows(f.pixels)

\* docs/windows-mi-ble.md: "older animation frames are never queued for replay".  The
\* bridge is a mirror: it displays whole frames and never one older than the last.
M == INSTANCE Mirror WITH sequence <- sequence, displayed <- displayed
MirrorsTheSource == M!Spec

\* The heartbeat names no frame as displayed that was not, and none newer than the
\* one the panel had been given completely, however updates of the file fail.
HeartbeatHonest ==
    \A d \in heartbeat : \A n \in d.source_frame : n <= displayed

\* The panel gets to show what the endpoint serves, after any of the faults: no
\* frame and no loss of the link goes unnoticed between two waits.
PanelCatchesUp == []<>(output = "waiting" /\ link = "up" /\ Shows(picture))
=============================================================================
