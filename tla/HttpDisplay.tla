----------------------------- MODULE HttpDisplay -----------------------------
(***************************************************************************)
(* The HTTP display (src/host/http_display_driver.cpp): the driver keeps   *)
(* the newest frame the main loop submitted, the frame endpoint serves it  *)
(* with its sequence number as the ETag, and the pages that browsers have  *)
(* loaded from it poll the endpoint and draw what they get.                *)
(*                                                                         *)
(* A page runs on one thread and is interrupted only where it awaits: for  *)
(* the head of a response and for its body.  The process that serves it    *)
(* may end and start again at any time, and a request or response may get  *)
(* lost on the way.                                                        *)
(***************************************************************************)
EXTENDS Integers, Sequences, SequencesExt

CONSTANTS
    Pages,
    Pictures,     \* what a frame may look like
    MaxSequence,  \* bound of the model: frames submitted to one process
    MaxBoots,     \* bound of the model: processes, one after the other
    MaxFaults     \* bound of the model: requests and responses that are lost

\* What a driver shows before its first frame.
CONSTANT Black

ASSUME DisplayAssumption ==
    /\ Black \in Pictures
    /\ MaxSequence \in Nat
    /\ MaxBoots \in Nat \ {0}
    /\ MaxFaults \in Nat

VARIABLES
    boot,          \* which process it is
    is_running,
    sequence,
    latest_frame,
    frame_pending,
    driver_state,  \* its submitted_frames and coalesced_frames
    served,        \* history: the sequence numbers this process has answered with
    faults,
    hidden,        \* per page: document.hidden
    timer,         \* a timeout is set that calls poll
    polling,
    etag,          \* optional
    shown,         \* the optional frame on the canvas
    lost,          \* history: a body was lost after its tag, and none drawn since
    fetches        \* the calls of fetch that poll awaits, oldest first

driverVars == <<boot, is_running, sequence, latest_frame, frame_pending, driver_state, served>>
pageVars   == <<hidden, timer, polling, etag, shown, lost, fetches>>
vars       == <<driverVars, faults, pageVars>>

Frame    == [boot : 1..MaxBoots, sequence : 0..MaxSequence, picture : Pictures]
Optional(S) == {{}} \cup {{x} : x \in S}

Fetch ==
    [if_none_match : Optional(0..MaxSequence),
     stage         : {"sent", "answered", "decoding"},
     status        : {0, 200, 304},
     frame         : Optional(Frame)]

\* Polls do not overlap.
Fetches == {<<>>} \cup {<<f>> : f \in Fetch}

TypeOK ==
    /\ boot \in 1..MaxBoots
    /\ is_running \in BOOLEAN
    /\ sequence \in 0..MaxSequence
    /\ latest_frame \in Pictures
    /\ frame_pending \in BOOLEAN
    /\ driver_state \in [submitted_frames : Nat, coalesced_frames : Nat]
    /\ served \subseteq 0..MaxSequence
    /\ faults \in 0..MaxFaults
    /\ hidden \in [Pages -> BOOLEAN]
    /\ timer \in [Pages -> BOOLEAN]
    /\ polling \in [Pages -> BOOLEAN]
    /\ lost \in [Pages -> BOOLEAN]
    /\ etag \in [Pages -> Optional(0..MaxSequence)]
    /\ shown \in [Pages -> Optional(Frame)]
    /\ fetches \in [Pages -> Fetches]

Request(p) == [if_none_match |-> etag[p], stage |-> "sent", status |-> 0, frame |-> {}]

\* The members of HttpDisplayDriverImpl when it is made.
FreshDriver ==
    /\ sequence' = 0
    /\ latest_frame' = Black
    /\ frame_pending' = FALSE
    /\ driver_state' = [submitted_frames |-> 0, coalesced_frames |-> 0]
    /\ served' = {}

\* Every page has just been loaded, hidden or not, and has called poll.
Init ==
    /\ boot = 1
    /\ is_running = TRUE
    /\ sequence = 0
    /\ latest_frame = Black
    /\ frame_pending = FALSE
    /\ driver_state = [submitted_frames |-> 0, coalesced_frames |-> 0]
    /\ served = {}
    /\ faults = 0
    /\ hidden \in [Pages -> BOOLEAN]
    /\ timer = [p \in Pages |-> FALSE]
    /\ polling = [p \in Pages |-> ~hidden[p]]
    /\ etag = [p \in Pages |-> {}]
    /\ shown = [p \in Pages |-> {}]
    /\ lost = [p \in Pages |-> FALSE]
    /\ fetches = [p \in Pages |-> IF hidden[p] THEN <<>> ELSE <<Request(p)>>]

-----------------------------------------------------------------------------
(* The driver.                                                              *)

\* Faulty: every frame after the first counts as coalesced.
SubmitCountsAll(picture) ==
    /\ is_running
    /\ sequence < MaxSequence
    /\ sequence' = sequence + 1
    /\ latest_frame' = picture
    /\ frame_pending' = TRUE
    /\ driver_state' = [submitted_frames |-> driver_state.submitted_frames + 1,
                        coalesced_frames |-> driver_state.submitted_frames]
    /\ UNCHANGED <<boot, is_running, served, faults, pageVars>>

\* submit_frame of a frame of the right size, under the mutex.
Submit(picture) ==
    /\ is_running
    /\ sequence < MaxSequence
    /\ sequence' = sequence + 1
    /\ latest_frame' = picture
    /\ frame_pending' = TRUE
    /\ driver_state' = [submitted_frames |-> driver_state.submitted_frames + 1,
                        coalesced_frames |-> driver_state.coalesced_frames
                                               + IF frame_pending THEN 1 ELSE 0]
    /\ UNCHANGED <<boot, is_running, served, faults, pageVars>>

\* The process ends ...
Ends ==
    /\ is_running
    /\ boot < MaxBoots
    /\ is_running' = FALSE
    /\ UNCHANGED <<boot, sequence, latest_frame, frame_pending, driver_state, served,
                   faults, pageVars>>

\* ... and another one is started, with a driver of its own that has begun.
Boots ==
    /\ ~is_running
    /\ boot' = boot + 1
    /\ is_running' = TRUE
    /\ FreshDriver
    /\ UNCHANGED <<faults, pageVars>>

Newest == [boot |-> boot, sequence |-> sequence, picture |-> latest_frame]

\* The endpoint reads frame and sequence under the mutex and answers.
Serve(p, i) ==
    /\ is_running
    /\ fetches[p][i].stage = "sent"
    /\ fetches' = [fetches EXCEPT ![p][i] =
          [if_none_match |-> @.if_none_match,
           stage         |-> "answered",
           status        |-> IF @.if_none_match = {sequence} THEN 304 ELSE 200,
           frame         |-> {Newest}]]
    /\ frame_pending' = FALSE
    /\ served' = served \cup {sequence}
    /\ UNCHANGED <<boot, is_running, sequence, latest_frame, driver_state, faults,
                   hidden, timer, polling, etag, shown, lost>>

-----------------------------------------------------------------------------
(* A page.                                                                  *)

\* Faulty: poll does not look whether it is polling.
PollAgain(p, is_hidden) ==
    /\ timer' = [timer EXCEPT ![p] = FALSE]
    /\ IF is_hidden \/ Len(fetches[p]) = 2
       THEN UNCHANGED <<polling, fetches>>
       ELSE /\ polling' = [polling EXCEPT ![p] = TRUE]
            /\ fetches' = [fetches EXCEPT ![p] = Append(@, Request(p))]

\* poll, up to its first await.
Poll(p, is_hidden) ==
    /\ timer' = [timer EXCEPT ![p] = FALSE]
    /\ IF is_hidden \/ polling[p]
       THEN UNCHANGED <<polling, fetches>>
       ELSE /\ polling' = [polling EXCEPT ![p] = TRUE]
            /\ fetches' = [fetches EXCEPT ![p] = Append(@, Request(p))]

TimerFires(p) ==
    /\ timer[p]
    /\ Poll(p, hidden[p])
    /\ UNCHANGED <<driverVars, faults, hidden, etag, shown, lost>>

Hide(p) ==
    /\ ~hidden[p]
    /\ hidden' = [hidden EXCEPT ![p] = TRUE]
    /\ UNCHANGED <<driverVars, faults, timer, polling, etag, shown, lost, fetches>>

\* Faulty: the page waits for a timer that is no longer set.
ShowWithoutPoll(p) ==
    /\ hidden[p]
    /\ hidden' = [hidden EXCEPT ![p] = FALSE]
    /\ UNCHANGED <<driverVars, faults, timer, polling, etag, shown, lost, fetches>>

\* visibilitychange.
Show(p) ==
    /\ hidden[p]
    /\ hidden' = [hidden EXCEPT ![p] = FALSE]
    /\ Poll(p, FALSE)
    /\ UNCHANGED <<driverVars, faults, etag, shown, lost>>

\* schedule: the timer is set anew, or cleared when nobody looks.
Schedule(p) == timer' = [timer EXCEPT ![p] = ~hidden[p]]

\* The user picks another rate.
SelectRate(p) ==
    /\ Schedule(p)
    /\ UNCHANGED <<driverVars, faults, hidden, polling, etag, shown, lost, fetches>>

\* Faulty: the next poll is scheduled by those that succeed.
FinishUnscheduled(p, i) ==
    /\ fetches' = [fetches EXCEPT ![p] = RemoveAt(@, i)]
    /\ polling' = [polling EXCEPT ![p] = FALSE]
    /\ UNCHANGED timer

\* The finally of poll.
Finish(p, i) ==
    /\ fetches' = [fetches EXCEPT ![p] = RemoveAt(@, i)]
    /\ polling' = [polling EXCEPT ![p] = FALSE]
    /\ Schedule(p)

\* fetch resolves with 304: what is shown is still the newest frame.
NotModified(p, i) ==
    /\ fetches[p][i].stage = "answered"
    /\ fetches[p][i].status = 304
    /\ Finish(p, i)
    /\ UNCHANGED <<driverVars, faults, hidden, etag, shown, lost>>

\* fetch resolves with 200: the tag is stored, the body is awaited.
HeadArrives(p, i) ==
    /\ fetches[p][i].stage = "answered"
    /\ fetches[p][i].status = 200
    /\ etag' = [etag EXCEPT ![p] = {f.sequence : f \in fetches[p][i].frame}]
    /\ fetches' = [fetches EXCEPT ![p][i].stage = "decoding"]
    /\ UNCHANGED <<driverVars, faults, hidden, timer, polling, shown, lost>>

\* The body has arrived and is drawn.
Render(p, i) ==
    /\ fetches[p][i].stage = "decoding"
    /\ shown' = [shown EXCEPT ![p] = fetches[p][i].frame]
    /\ lost' = [lost EXCEPT ![p] = FALSE]
    /\ Finish(p, i)
    /\ UNCHANGED <<driverVars, faults, hidden, etag>>

\* The request, the answer or its body does not get through; a tag that came with
\* it stays.
Fails(p, i) ==
    /\ faults < MaxFaults
    /\ faults' = faults + 1
    /\ lost' = [lost EXCEPT ![p] = @ \/ fetches[p][i].stage = "decoding"]
    /\ Finish(p, i)
    /\ UNCHANGED <<driverVars, hidden, etag, shown>>

\* Nobody listens.
Refused(p, i) ==
    /\ ~is_running
    /\ fetches[p][i].stage = "sent"
    /\ Finish(p, i)
    /\ UNCHANGED <<driverVars, faults, hidden, etag, shown, lost>>

\* What happens to a fetch of the page by itself, without faults.
Progress(p) ==
    \E i \in DOMAIN fetches[p] :
        \/ Serve(p, i)
        \/ NotModified(p, i)
        \/ HeadArrives(p, i)
        \/ Render(p, i)
        \/ Refused(p, i)

Next ==
    \/ \E picture \in Pictures : Submit(picture)
    \/ Ends
    \/ Boots
    \/ \E p \in Pages :
          \/ TimerFires(p)
          \/ Hide(p)
          \/ Show(p)
          \/ SelectRate(p)
          \/ Progress(p)
          \/ \E i \in DOMAIN fetches[p] : Fails(p, i)

Spec == Init /\ [][Next]_vars

\* Timeouts fire, a request that is not lost is answered and a process that has
\* ended is started again.
FairSpec ==
    /\ Spec
    /\ WF_vars(Boots)
    /\ \A p \in Pages : WF_vars(TimerFires(p)) /\ WF_vars(Progress(p))

-----------------------------------------------------------------------------
(* Properties.                                                              *)

\* A page that can be seen never falls silent: whatever became of its requests,
\* and however often it was hidden, shown again or told another rate meanwhile, a
\* request is under way or a timeout is set.
VisiblePagePolls == \A p \in Pages : ~hidden[p] => fetches[p] # <<>> \/ timer[p]

\* docs/http-display.md: "Polls do not overlap".  So answers cannot overtake each
\* other, and the picture on a page never goes back to an older frame.
FramesMoveForward ==
    [][\A p \in Pages : \A old \in shown[p] : \A new \in shown'[p] :
          new # old => \/ new.boot > old.boot
                       \/ new.boot = old.boot /\ new.sequence > old.sequence]_vars

\* Every frame submitted was fetched by somebody, replaced before anybody could
\* (and counted as coalesced), or is still waiting, and only one of these.
FramesAccounted ==
    driver_state.submitted_frames =
        Cardinality(served \ {0}) + driver_state.coalesced_frames
            + IF frame_pending THEN 1 ELSE 0

\* docs/http-display.md: a request "whose `If-None-Match` value still names the
\* newest frame receives `304 Not Modified`".  A page that is told so, and has
\* drawn the frame it got the tag with, shows the picture the server has.
NotModifiedMeansShown ==
    \A p \in Pages : \A i \in DOMAIN fetches[p] :
        fetches[p][i].status = 304 /\ ~lost[p]
        => \A f \in fetches[p][i].frame, g \in shown[p] : f.picture = g.picture

\* docs/http-display.md: "failed requests retain the last frame, and the client
\* reconnects automatically."  A page that can be seen gets to show a frame with
\* the newest sequence number, through lost responses and a restart.  (Whether it
\* is the newest process's frame is what NotModifiedMeansShown asks.  If the body
\* of the newest frame was lost after its tag had come, it takes another frame:
\* the tag is sent although its frame was not drawn.)
PageCatchesUp ==
    \A p \in Pages : []<>(hidden[p] \/ lost[p] \/ \E f \in shown[p] : f.sequence = sequence)
=============================================================================
