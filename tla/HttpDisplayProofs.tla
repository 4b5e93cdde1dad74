-------------------------- MODULE HttpDisplayProofs --------------------------
(***************************************************************************)
(* The driver's account of its frames, and the page's polling: for any     *)
(* number of pages, pictures, frames, processes and losses.                *)
(***************************************************************************)
EXTENDS HttpDisplay, FiniteSetTheorems, TLAPS

(* The account.                                                             *)

Account ==
    /\ sequence \in Nat
    /\ served \subseteq 0..sequence
    /\ driver_state.submitted_frames = sequence
    /\ driver_state.coalesced_frames \in Nat
    /\ driver_state = [submitted_frames |-> driver_state.submitted_frames,
                       coalesced_frames |-> driver_state.coalesced_frames]
    /\ IF frame_pending THEN sequence \notin served /\ sequence # 0
       ELSE sequence \in served \cup {0}
    /\ FramesAccounted

LEMMA ServedFinite ==
    ASSUME sequence \in Nat, served \subseteq 0..sequence
    PROVE  IsFiniteSet(served \ {0}) /\ Cardinality(served \ {0}) \in Nat
<1>1. IsFiniteSet(0..sequence) /\ served \ {0} \subseteq 0..sequence
  BY FS_Interval
<1> QED  BY <1>1, FS_Subset, FS_CardinalityType

LEMMA FreshAccount ==
    ASSUME sequence = 0, served = {}, frame_pending = FALSE,
           driver_state = [submitted_frames |-> 0, coalesced_frames |-> 0]
    PROVE  Account
<1>1. served \ {0} = {} /\ Cardinality({}) = 0
  BY FS_EmptySet
<1> QED  BY <1>1 DEF Account, FramesAccounted

LEMMA StepAccount == Account /\ [Next]_vars => Account'
<1> SUFFICES ASSUME Account, [Next]_vars PROVE Account'
  OBVIOUS
<1>0. IsFiniteSet(served \ {0}) /\ Cardinality(served \ {0}) \in Nat
  BY ServedFinite DEF Account
<1>1. ASSUME NEW picture \in Pictures, Submit(picture) PROVE Account'
  <2>1. /\ sequence' = sequence + 1 /\ frame_pending' = TRUE /\ served' = served
        /\ driver_state' = [submitted_frames |-> driver_state.submitted_frames + 1,
                            coalesced_frames |-> driver_state.coalesced_frames
                                                   + IF frame_pending THEN 1 ELSE 0]
    BY <1>1 DEF Submit
  <2>2. served' \subseteq 0..sequence' /\ sequence' \notin served' /\ sequence' # 0
    BY <2>1 DEF Account
  <2>3. FramesAccounted'
    BY <1>0, <2>1 DEF Account, FramesAccounted
  <2> QED  BY <2>1, <2>2, <2>3 DEF Account
<1>2. CASE Boots
  <2>1. /\ sequence' = 0 /\ served' = {} /\ frame_pending' = FALSE
        /\ driver_state' = [submitted_frames |-> 0, coalesced_frames |-> 0]
    BY <1>2 DEF Boots, FreshDriver
  <2>2. served' \ {0} = {} /\ Cardinality({}) = 0
    BY <2>1, FS_EmptySet
  <2> QED  BY <2>1, <2>2 DEF Account, FramesAccounted
<1>3. ASSUME NEW p \in Pages, NEW i \in DOMAIN fetches[p], Serve(p, i) PROVE Account'
  <2>1. /\ frame_pending' = FALSE /\ served' = served \cup {sequence}
        /\ UNCHANGED <<sequence, driver_state>>
    BY <1>3 DEF Serve
  <2>2. CASE frame_pending
    <3>1. served' \ {0} = (served \ {0}) \cup {sequence} /\ sequence \notin served \ {0}
      BY <2>1, <2>2 DEF Account
    <3>2. Cardinality(served' \ {0}) = Cardinality(served \ {0}) + 1
      BY <1>0, <3>1, FS_AddElement
    <3>3. FramesAccounted'
      BY <1>0, <2>1, <2>2, <3>2 DEF Account, FramesAccounted
    <3>4. served' \subseteq 0..sequence' /\ sequence' \in served' \cup {0}
      BY <2>1 DEF Account
    <3> QED  BY <2>1, <3>3, <3>4 DEF Account
  <2>3. CASE ~frame_pending
    <3>1. served' \ {0} = served \ {0}
      BY <2>1, <2>3 DEF Account
    <3>2. FramesAccounted'
      BY <2>1, <2>3, <3>1 DEF Account, FramesAccounted
    <3>3. served' \subseteq 0..sequence' /\ sequence' \in served' \cup {0}
      BY <2>1 DEF Account
    <3> QED  BY <2>1, <3>2, <3>3 DEF Account
  <2> QED  BY <2>2, <2>3
<1>4. CASE UNCHANGED <<sequence, served, frame_pending, driver_state>>
  BY <1>4 DEF Account, FramesAccounted
<1>5. \/ \E picture \in Pictures : Submit(picture)
      \/ Boots
      \/ \E p \in Pages : \E i \in DOMAIN fetches[p] : Serve(p, i)
      \/ UNCHANGED <<sequence, served, frame_pending, driver_state>>
  <2> DEFINE Same == UNCHANGED <<sequence, served, frame_pending, driver_state>>
  <2>1. Ends \/ UNCHANGED vars => Same
    BY DEF Ends, vars, driverVars
  <2>2. ASSUME NEW p \in Pages, TimerFires(p) \/ Hide(p) \/ Show(p) \/ SelectRate(p) PROVE Same
    BY <2>2 DEF TimerFires, Hide, Show, SelectRate, driverVars
  <2>3. ASSUME NEW p \in Pages, NEW i \in DOMAIN fetches[p],
               NotModified(p, i) \/ HeadArrives(p, i) \/ Render(p, i) \/ Refused(p, i) \/ Fails(p, i)
        PROVE  Same
    BY <2>3 DEF NotModified, HeadArrives, Render, Refused, Fails, driverVars
  <2> QED  BY <2>1, <2>2, <2>3 DEF Next, Progress
<1> QED  BY <1>1, <1>2, <1>3, <1>4, <1>5

\* Every frame submitted was fetched by somebody, counted as coalesced or is still
\* waiting, and only one of these (submit_frame and the frame endpoint, which count
\* under the mutex).
THEOREM FramesAreAccounted == Spec => []FramesAccounted
<1>1. Init => Account
  BY FreshAccount DEF Init
<1>2. Account => FramesAccounted
  BY DEF Account
<1> QED  BY <1>1, <1>2, StepAccount, PTL DEF Spec
-----------------------------------------------------------------------------
(* The pages.                                                               *)

\* A page that polls awaits one fetch, and a process that ended is not the last.
Polls ==
    /\ \A p \in Pages : polling[p] <=> fetches[p] # <<>>
    /\ ~is_running => boot < MaxBoots

LEMMA NothingIsOptional == ASSUME NEW S PROVE {} \in Optional(S)
  BY DEF Optional

LEMMA OneFetch ==
    ASSUME TypeOK, NEW p \in Pages, NEW i \in DOMAIN fetches[p]
    PROVE  i = 1 /\ fetches[p][1] \in Fetch /\ fetches[p] = <<fetches[p][1]>>
<1>1. PICK f \in Fetch : fetches[p] = <<f>>
  BY DEF TypeOK, Fetches
<1> QED  BY <1>1

LEMMA RemovesOne == ASSUME NEW f PROVE RemoveAt(<<f>>, 1) = <<>>
<1>1. SubSeq(<<f>>, 1, 0) = <<>> /\ SubSeq(<<f>>, 2, 1) = <<>>
  OBVIOUS
<1>2. <<>> \o <<>> = <<>>
  OBVIOUS
<1>3. RemoveAt(<<f>>, 1) = SubSeq(<<f>>, 1, 1 - 1) \o SubSeq(<<f>>, 1 + 1, Len(<<f>>))
  BY DEF RemoveAt
<1>4. 1 - 1 = 0 /\ 1 + 1 = 2 /\ Len(<<f>>) = 1
  OBVIOUS
<1> QED  BY <1>1, <1>2, <1>3, <1>4

\* A fetch that is over was the only one.
LEMMA OverAndOut ==
    ASSUME TypeOK, NEW p \in Pages, NEW i \in DOMAIN fetches[p], Finish(p, i)
    PROVE  /\ fetches' = [fetches EXCEPT ![p] = <<>>]
           /\ polling' = [polling EXCEPT ![p] = FALSE]
           /\ timer' = [timer EXCEPT ![p] = ~hidden[p]]
<1>1. i = 1 /\ fetches[p] = <<fetches[p][1]>>
  BY OneFetch
<1>2. RemoveAt(fetches[p], i) = <<>>
  BY <1>1, RemovesOne
<1>3. fetches' = [fetches EXCEPT ![p] = RemoveAt(fetches[p], i)]
  BY DEF Finish
<1>4. fetches' = [fetches EXCEPT ![p] = <<>>]
  BY <1>2, <1>3
<1> QED  BY <1>4 DEF Finish, Schedule

\* A poll begins a fetch if there is none.
LEMMA Begins ==
    ASSUME TypeOK, Polls, NEW p \in Pages, NEW is_hidden, Poll(p, is_hidden)
    PROVE  \/ (is_hidden \/ polling[p]) /\ UNCHANGED <<polling, fetches>>
           \/ /\ fetches[p] = <<>>
              /\ polling' = [polling EXCEPT ![p] = TRUE]
              /\ fetches' = [fetches EXCEPT ![p] = <<Request(p)>>]
<1>1. CASE is_hidden \/ polling[p]
  BY <1>1 DEF Poll
<1>2. CASE ~(is_hidden \/ polling[p])
  <2>1. fetches[p] = <<>>
    BY <1>2 DEF Polls
  <2>2. Append(fetches[p], Request(p)) = <<Request(p)>>
    BY <2>1
  <2> QED  BY <1>2, <2>1, <2>2 DEF Poll
<1> QED  BY <1>1, <1>2

\* The one fetch of a page, changed.
LEMMA Changed ==
    ASSUME NEW f, NEW g
    PROVE  [<<f>> EXCEPT ![1] = g] = <<g>>
  OBVIOUS

Served(p) ==
    [if_none_match |-> fetches[p][1].if_none_match,
     stage         |-> "answered",
     status        |-> IF fetches[p][1].if_none_match = {sequence} THEN 304 ELSE 200,
     frame         |-> {Newest}]

LEMMA ServeChanges ==
    ASSUME TypeOK, NEW p \in Pages, NEW i \in DOMAIN fetches[p], Serve(p, i)
    PROVE  fetches' = [fetches EXCEPT ![p] = <<Served(p)>>] /\ fetches[p] # <<>>
<1>1. i = 1 /\ fetches[p] = <<fetches[p][1]>>
  BY OneFetch
<1>2. fetches' = [fetches EXCEPT ![p] = [fetches[p] EXCEPT ![1] = Served(p)]]
  BY <1>1 DEF Serve, Served
<1>3. [fetches[p] EXCEPT ![1] = Served(p)] = <<Served(p)>>
  BY <1>1, Changed
<1>4. fetches' = [fetches EXCEPT ![p] = <<Served(p)>>]
  BY <1>2, <1>3
<1>5. fetches[p] # <<>>
  BY <1>1
<1> QED  BY <1>4, <1>5

Decoding(p) == [fetches[p][1] EXCEPT !.stage = "decoding"]

LEMMA HeadChanges ==
    ASSUME TypeOK, NEW p \in Pages, NEW i \in DOMAIN fetches[p], HeadArrives(p, i)
    PROVE  fetches' = [fetches EXCEPT ![p] = <<Decoding(p)>>] /\ fetches[p] # <<>>
<1>1. i = 1 /\ fetches[p] = <<fetches[p][1]>>
  BY OneFetch
<1>2. fetches' = [fetches EXCEPT ![p] = [fetches[p] EXCEPT ![1] = Decoding(p)]]
  BY <1>1 DEF HeadArrives, Decoding
<1>3. [fetches[p] EXCEPT ![1] = Decoding(p)] = <<Decoding(p)>>
  BY <1>1, Changed
<1>4. fetches' = [fetches EXCEPT ![p] = <<Decoding(p)>>]
  BY <1>2, <1>3
<1>5. fetches[p] # <<>>
  BY <1>1
<1> QED  BY <1>4, <1>5

\* What a page does of itself, by what becomes of its fetch.
LEMMA PageSteps ==
    ASSUME [Next]_vars
    PROVE  \/ \E picture \in Pictures : Submit(picture)
           \/ Ends \/ Boots \/ UNCHANGED vars
           \/ \E p \in Pages : TimerFires(p) \/ Hide(p) \/ Show(p) \/ SelectRate(p)
           \/ \E p \in Pages : \E i \in DOMAIN fetches[p] :
                 \/ Serve(p, i) \/ HeadArrives(p, i)
                 \/ NotModified(p, i) \/ Render(p, i) \/ Refused(p, i) \/ Fails(p, i)
  BY DEF Next, Progress

LEMMA InitPages == Init => TypeOK /\ Polls /\ VisiblePagePolls
<1> SUFFICES ASSUME Init PROVE TypeOK /\ Polls /\ VisiblePagePolls
  OBVIOUS
<1>1. ASSUME NEW p \in Pages PROVE Request(p) \in Fetch
  <2>1. etag[p] = {}
    BY <1>1 DEF Init
  <2> QED  BY <2>1 DEF Request, Fetch, Optional
<1>2. fetches \in [Pages -> Fetches]
  BY <1>1 DEF Init, Fetches
<1>3. etag \in [Pages -> Optional(0..MaxSequence)] /\ shown \in [Pages -> Optional(Frame)]
  BY NothingIsOptional DEF Init
<1>4. /\ boot \in 1..MaxBoots /\ sequence \in 0..MaxSequence /\ faults \in 0..MaxFaults
      /\ latest_frame \in Pictures /\ served \subseteq 0..MaxSequence
      /\ driver_state \in [submitted_frames : Nat, coalesced_frames : Nat]
  BY DisplayAssumption DEF Init
<1>5. /\ is_running \in BOOLEAN /\ frame_pending \in BOOLEAN
      /\ hidden \in [Pages -> BOOLEAN] /\ timer \in [Pages -> BOOLEAN]
      /\ polling \in [Pages -> BOOLEAN] /\ lost \in [Pages -> BOOLEAN]
  BY DEF Init
<1>6. TypeOK
  BY <1>2, <1>3, <1>4, <1>5 DEF TypeOK
<1>7. Polls /\ VisiblePagePolls
  BY DEF Init, Polls, VisiblePagePolls
<1> QED  BY <1>6, <1>7

LEMMA StepPages == TypeOK /\ Polls /\ VisiblePagePolls /\ [Next]_vars
                   => TypeOK' /\ Polls' /\ VisiblePagePolls'
<1> SUFFICES ASSUME TypeOK, Polls, VisiblePagePolls, [Next]_vars
             PROVE  TypeOK' /\ Polls' /\ VisiblePagePolls'
  OBVIOUS
<1>1. ASSUME NEW picture \in Pictures, Submit(picture)
      PROVE  TypeOK' /\ Polls' /\ VisiblePagePolls'
  <2>1. driver_state' \in [submitted_frames : Nat, coalesced_frames : Nat]
    BY <1>1 DEF Submit, TypeOK
  <2>2. sequence' \in 0..MaxSequence
    BY <1>1, DisplayAssumption DEF Submit, TypeOK
  <2> QED  BY <1>1, <2>1, <2>2 DEF Submit, TypeOK, Polls, VisiblePagePolls, pageVars
<1>2. CASE Ends \/ UNCHANGED vars
  BY <1>2 DEF Ends, vars, driverVars, pageVars, TypeOK, Polls, VisiblePagePolls
<1>3. CASE Boots
  <2>1. boot' \in 1..MaxBoots
    BY <1>3, DisplayAssumption DEF Boots, Polls, TypeOK
  <2>2. /\ is_running' = TRUE /\ sequence' \in 0..MaxSequence /\ latest_frame' \in Pictures
        /\ frame_pending' \in BOOLEAN /\ served' \subseteq 0..MaxSequence
        /\ driver_state' \in [submitted_frames : Nat, coalesced_frames : Nat]
    <3>1. /\ is_running' = TRUE /\ sequence' = 0 /\ latest_frame' = Black
          /\ frame_pending' = FALSE /\ served' = {}
          /\ driver_state' = [submitted_frames |-> 0, coalesced_frames |-> 0]
      BY <1>3 DEF Boots, FreshDriver
    <3>2. 0 \in 0..MaxSequence
      BY DisplayAssumption
    <3>3. driver_state' \in [submitted_frames : Nat, coalesced_frames : Nat]
      BY <3>1
    <3> QED  BY <3>1, <3>2, <3>3, DisplayAssumption
  <2>3. UNCHANGED <<faults, pageVars>>
    BY <1>3 DEF Boots
  <2> QED  BY <2>1, <2>2, <2>3 DEF pageVars, TypeOK, Polls, VisiblePagePolls
<1>4. ASSUME NEW p \in Pages, TimerFires(p) \/ Show(p)
      PROVE  TypeOK' /\ Polls' /\ VisiblePagePolls'
  <2>1. Request(p) \in Fetch
    BY DEF Request, Fetch, Optional, TypeOK
  <2>2. PICK is_hidden : /\ Poll(p, is_hidden)
                         /\ is_hidden = hidden'[p]
                         /\ hidden' \in [Pages -> BOOLEAN]
                         /\ \A q \in Pages \ {p} : hidden'[q] = hidden[q]
    BY <1>4 DEF TimerFires, Show, TypeOK
  <2>3. fetches' \in [Pages -> Fetches]
        /\ polling' \in [Pages -> BOOLEAN]
        /\ \A q \in Pages : polling'[q] <=> fetches'[q] # <<>>
    <3>1. CASE UNCHANGED <<polling, fetches>>
      BY <3>1 DEF TypeOK, Polls
    <3>2. CASE /\ polling' = [polling EXCEPT ![p] = TRUE]
               /\ fetches' = [fetches EXCEPT ![p] = <<Request(p)>>]
      <4>1. <<Request(p)>> \in Fetches /\ <<Request(p)>> # <<>>
        BY <2>1 DEF Fetches
      <4>2. fetches' \in [Pages -> Fetches] /\ polling' \in [Pages -> BOOLEAN]
        BY <3>2, <4>1 DEF TypeOK
      <4>3. \A q \in Pages : polling'[q] <=> fetches'[q] # <<>>
        BY <3>2, <4>1 DEF TypeOK, Polls
      <4> QED  BY <4>2, <4>3
    <3> QED  BY <2>2, <3>1, <3>2, Begins
  <2>4. timer' \in [Pages -> BOOLEAN] /\ \A q \in Pages \ {p} : timer'[q] = timer[q]
    BY <2>2 DEF Poll, TypeOK
  <2>5. ~hidden'[p] => fetches'[p] # <<>>
    BY <2>2, <2>3, Begins DEF Polls, TypeOK
  <2>6. \A q \in Pages \ {p} : fetches'[q] = fetches[q]
    BY <2>2, Begins DEF TypeOK
  <2>7. VisiblePagePolls'
    BY <2>2, <2>4, <2>5, <2>6 DEF VisiblePagePolls
  <2>8. UNCHANGED <<driverVars, faults, etag, shown, lost>>
    BY <1>4 DEF TimerFires, Show
  <2> QED  BY <2>2, <2>3, <2>4, <2>7, <2>8 DEF TypeOK, Polls, driverVars
<1>5. ASSUME NEW p \in Pages, Hide(p) \/ SelectRate(p)
      PROVE  TypeOK' /\ Polls' /\ VisiblePagePolls'
  BY <1>5 DEF Hide, SelectRate, Schedule, driverVars, TypeOK, Polls, VisiblePagePolls
<1>6. ASSUME NEW p \in Pages, NEW i \in DOMAIN fetches[p], Serve(p, i)
      PROVE  TypeOK' /\ Polls' /\ VisiblePagePolls'
  <2>1. Served(p) \in Fetch
    <3>1. Newest \in Frame
      BY DEF Newest, Frame, TypeOK
    <3>2. fetches[p][1].if_none_match \in Optional(0..MaxSequence)
      BY OneFetch DEF Fetch
    <3> QED  BY <3>1, <3>2 DEF Served, Fetch, Optional
  <2>2. fetches' = [fetches EXCEPT ![p] = <<Served(p)>>] /\ fetches[p] # <<>>
    BY <1>6, ServeChanges
  <2>3. fetches' \in [Pages -> Fetches] /\ \A q \in Pages : fetches'[q] = <<>> <=> fetches[q] = <<>>
    BY <2>1, <2>2 DEF Fetches, TypeOK
  <2>4. frame_pending' \in BOOLEAN /\ served' \subseteq 0..MaxSequence
    BY <1>6 DEF Serve, TypeOK
  <2> QED  BY <1>6, <2>3, <2>4 DEF Serve, TypeOK, Polls, VisiblePagePolls
<1>7. ASSUME NEW p \in Pages, NEW i \in DOMAIN fetches[p], HeadArrives(p, i)
      PROVE  TypeOK' /\ Polls' /\ VisiblePagePolls'
  <2>1. i = 1 /\ fetches[p][1] \in Fetch
    BY OneFetch
  <2>2. Decoding(p) \in Fetch
    BY <2>1 DEF Decoding, Fetch
  <2>3. fetches' = [fetches EXCEPT ![p] = <<Decoding(p)>>] /\ fetches[p] # <<>>
    BY <1>7, HeadChanges
  <2>4. fetches' \in [Pages -> Fetches] /\ \A q \in Pages : fetches'[q] = <<>> <=> fetches[q] = <<>>
    BY <2>2, <2>3 DEF Fetches, TypeOK
  <2>5. {f.sequence : f \in fetches[p][1].frame} \in Optional(0..MaxSequence)
    <3>1. fetches[p][1].frame \in Optional(Frame)
      BY <2>1 DEF Fetch
    <3> QED  BY <3>1 DEF Optional, Frame
  <2>6. etag' \in [Pages -> Optional(0..MaxSequence)]
    BY <1>7, <2>1, <2>5 DEF HeadArrives, TypeOK
  <2> QED  BY <1>7, <2>4, <2>6 DEF HeadArrives, driverVars, TypeOK, Polls, VisiblePagePolls
<1>8. ASSUME NEW p \in Pages, NEW i \in DOMAIN fetches[p],
             NotModified(p, i) \/ Render(p, i) \/ Refused(p, i) \/ Fails(p, i)
      PROVE  TypeOK' /\ Polls' /\ VisiblePagePolls'
  <2>1. /\ fetches' = [fetches EXCEPT ![p] = <<>>]
        /\ polling' = [polling EXCEPT ![p] = FALSE]
        /\ timer' = [timer EXCEPT ![p] = ~hidden[p]]
    BY <1>8, OverAndOut DEF NotModified, Render, Refused, Fails
  <2>2. fetches' \in [Pages -> Fetches]
    BY <2>1 DEF Fetches, TypeOK
  <2>3. shown' \in [Pages -> Optional(Frame)] /\ lost' \in [Pages -> BOOLEAN]
    <3>1. fetches[p][i].frame \in Optional(Frame) /\ (fetches[p][i].stage = "decoding") \in BOOLEAN
      BY OneFetch DEF Fetch
    <3> QED  BY <1>8, <3>1 DEF NotModified, Render, Refused, Fails, TypeOK
  <2>4. faults' \in 0..MaxFaults
    BY <1>8, DisplayAssumption DEF NotModified, Render, Refused, Fails, TypeOK
  <2>5. UNCHANGED <<driverVars, hidden, etag>>
    BY <1>8 DEF NotModified, Render, Refused, Fails
  <2> QED  BY <2>1, <2>2, <2>3, <2>4, <2>5 DEF driverVars, TypeOK, Polls, VisiblePagePolls
<1> QED  BY <1>1, <1>2, <1>3, <1>4, <1>5, <1>6, <1>7, <1>8, PageSteps

\* The state of driver and pages has its types; in particular the polls of a page do
\* not overlap (the flag `polling` of the page's script).
THEOREM DisplayTypeCorrect == Spec => []TypeOK
  BY InitPages, StepPages, PTL DEF Spec

\* A page that can be seen never falls silent (poll, schedule, its timer and the
\* handlers of visibilitychange and of the rate).
THEOREM PagesKeepPolling == Spec => []VisiblePagePolls
  BY InitPages, StepPages, PTL DEF Spec
-----------------------------------------------------------------------------
(* The order of frames.                                                     *)

\* A frame of an earlier process, an earlier one of this process, or the newest.
Past(f) ==
    \/ f.boot < boot
    \/ f.boot = boot /\ f.sequence < sequence
    \/ f = Newest

Later(f, g) == \/ f.boot > g.boot
               \/ f.boot = g.boot /\ f.sequence > g.sequence

\* No frame is from the future, and the one a page waits for does not precede the one
\* it shows.
Order ==
    \A p \in Pages :
        /\ \A g \in shown[p] : Past(g)
        /\ \A i \in DOMAIN fetches[p] : \A f \in fetches[p][i].frame :
              Past(f) /\ \A g \in shown[p] : f = g \/ Later(f, g)

\* The frames there are.
LEMMA FramesKnown ==
    ASSUME TypeOK, NEW p \in Pages
    PROVE  /\ \A g \in shown[p] : g \in Frame
           /\ \A i \in DOMAIN fetches[p] : \A f \in fetches[p][i].frame : f \in Frame
<1>1. shown[p] \in Optional(Frame)
  BY DEF TypeOK
<1>2. \A i \in DOMAIN fetches[p] : fetches[p][i].frame \in Optional(Frame)
  BY OneFetch DEF Fetch
<1> QED  BY <1>1, <1>2 DEF Optional

\* A step of the process leaves what is past in the past.
LEMMA StaysPast ==
    ASSUME TypeOK, NEW f \in Frame, Past(f),
           \/ \E picture \in Pictures : Submit(picture)
           \/ Boots
           \/ UNCHANGED <<boot, sequence, latest_frame>>
    PROVE  Past(f)'
<1>0. /\ boot \in Nat /\ sequence \in Nat /\ f.boot \in Nat /\ f.sequence \in Nat
  BY DisplayAssumption DEF TypeOK, Frame
<1>1. \/ f.boot < boot
      \/ f.boot = boot /\ f.sequence <= sequence
  BY <1>0 DEF Past, Newest
<1>2. CASE \E picture \in Pictures : Submit(picture)
  <2>1. sequence' = sequence + 1 /\ boot' = boot
    BY <1>2 DEF Submit
  <2> QED  BY <1>0, <1>1, <2>1 DEF Past
<1>3. CASE Boots
  <2>1. boot' = boot + 1
    BY <1>3 DEF Boots
  <2> QED  BY <1>0, <1>1, <2>1 DEF Past
<1>4. CASE UNCHANGED <<boot, sequence, latest_frame>>
  BY <1>4 DEF Past, Newest
<1> QED  BY <1>2, <1>3, <1>4

\* The newest frame does not precede one of the past.
LEMMA NewestLast ==
    ASSUME TypeOK, NEW g \in Frame, Past(g)
    PROVE  Newest = g \/ Later(Newest, g)
<1>0. /\ boot \in Nat /\ sequence \in Nat /\ g.boot \in Nat /\ g.sequence \in Nat
  BY DisplayAssumption DEF TypeOK, Frame
<1>1. Newest.boot = boot /\ Newest.sequence = sequence
  BY DEF Newest
<1> QED  BY <1>0, <1>1 DEF Past, Later

LEMMA InitOrder == Init => Order
<1> SUFFICES ASSUME Init, NEW p \in Pages
             PROVE  shown[p] = {} /\ \A i \in DOMAIN fetches[p] : fetches[p][i].frame = {}
  BY DEF Order
<1>1. shown[p] = {}
  BY DEF Init
<1>2. CASE hidden[p]
  <2>1. fetches[p] = <<>>
    BY <1>2 DEF Init
  <2> QED  BY <1>1, <2>1
<1>3. CASE ~hidden[p]
  <2>1. fetches[p] = <<Request(p)>> /\ Request(p).frame = {}
    BY <1>3 DEF Init, Request
  <2> QED  BY <1>1, <2>1
<1> QED  BY <1>2, <1>3

\* A page whose step is to begin, change or end its one fetch: the others are as they
\* were.
LEMMA OtherPages ==
    ASSUME TypeOK, Order, NEW p \in Pages, NEW q \in Pages \ {p},
           UNCHANGED <<boot, sequence, latest_frame>>,
           fetches'[q] = fetches[q], shown'[q] = shown[q]
    PROVE  /\ \A g \in shown'[q] : Past(g)'
           /\ \A i \in DOMAIN fetches'[q] : \A f \in fetches'[q][i].frame :
                 Past(f)' /\ \A g \in shown'[q] : f = g \/ Later(f, g)
  BY DEF Order, Past, Newest

LEMMA StepOrder == TypeOK /\ Polls /\ Order /\ [Next]_vars => Order'
<1> SUFFICES ASSUME TypeOK, Polls, Order, [Next]_vars PROVE Order'
  OBVIOUS
<1>1. CASE (\E picture \in Pictures : Submit(picture)) \/ Boots \/ Ends \/ UNCHANGED vars
  <2>1. UNCHANGED <<fetches, shown>>
    BY <1>1 DEF Submit, Boots, Ends, vars, pageVars
  <2>2. \A f \in Frame : Past(f) => Past(f)'
    <3>1. \/ \E picture \in Pictures : Submit(picture)
          \/ Boots
          \/ UNCHANGED <<boot, sequence, latest_frame>>
      BY <1>1 DEF Ends, vars, driverVars
    <3> QED  BY <3>1, StaysPast
  <2> QED  BY <2>1, <2>2, FramesKnown DEF Order
<1>2. ASSUME NEW p \in Pages, TimerFires(p) \/ Show(p) \/ Hide(p) \/ SelectRate(p)
      PROVE  Order'
  <2>1. UNCHANGED <<boot, sequence, latest_frame, shown>>
    BY <1>2 DEF TimerFires, Show, Hide, SelectRate, driverVars
  <2>2. \/ fetches' = fetches
        \/ fetches' = [fetches EXCEPT ![p] = <<Request(p)>>]
    BY <1>2, Begins DEF TimerFires, Show, Hide, SelectRate
  <2>3. CASE fetches' = fetches
    BY <2>1, <2>3 DEF Order, Past, Newest
  <2>4. CASE fetches' = [fetches EXCEPT ![p] = <<Request(p)>>]
    <3>1. fetches'[p] = <<Request(p)>> /\ Request(p).frame = {}
      BY <2>4 DEF TypeOK, Request
    <3>2. \A q \in Pages \ {p} : fetches'[q] = fetches[q] /\ shown'[q] = shown[q]
      BY <2>1, <2>4 DEF TypeOK
    <3>3. \A g \in shown'[p] : Past(g)'
      BY <2>1 DEF Order, Past, Newest
    <3>4. \A i \in DOMAIN fetches'[p] : fetches'[p][i].frame = {}
      BY <3>1
    <3> QED  BY <2>1, <3>2, <3>3, <3>4, OtherPages DEF Order
  <2> QED  BY <2>2, <2>3, <2>4
<1>3. ASSUME NEW p \in Pages, NEW i \in DOMAIN fetches[p], Serve(p, i)
      PROVE  Order'
  <2>1. UNCHANGED <<boot, sequence, latest_frame, shown>>
    BY <1>3 DEF Serve
  <2>2. fetches' = [fetches EXCEPT ![p] = <<Served(p)>>]
    BY <1>3, ServeChanges
  <2>3. fetches'[p] = <<Served(p)>> /\ Served(p).frame = {Newest}
    BY <2>2 DEF TypeOK, Served
  <2>4. \A q \in Pages \ {p} : fetches'[q] = fetches[q] /\ shown'[q] = shown[q]
    BY <2>1, <2>2 DEF TypeOK
  <2>5. \A g \in shown'[p] : Past(g)' /\ (Newest = g \/ Later(Newest, g))
    <3>1. \A g \in shown[p] : g \in Frame /\ Past(g)
      BY FramesKnown DEF Order
    <3>2. \A g \in shown[p] : Newest = g \/ Later(Newest, g)
      BY <3>1, NewestLast
    <3> QED  BY <2>1, <3>1, <3>2 DEF Past, Newest
  <2>6. \A j \in DOMAIN fetches'[p] : fetches'[p][j].frame = {Newest}
    BY <2>3
  <2>7. ASSUME NEW j \in DOMAIN fetches'[p], NEW f \in fetches'[p][j].frame
        PROVE  Past(f)' /\ \A g \in shown'[p] : f = g \/ Later(f, g)
    <3>1. f = Newest
      BY <2>6
    <3>2. Past(f)'
      BY <2>1, <3>1 DEF Past, Newest
    <3> QED  BY <2>5, <3>1, <3>2
  <2> QED  BY <2>1, <2>4, <2>5, <2>7, OtherPages DEF Order
<1>4. ASSUME NEW p \in Pages, NEW i \in DOMAIN fetches[p], HeadArrives(p, i)
      PROVE  Order'
  <2>1. UNCHANGED <<boot, sequence, latest_frame, shown>>
    BY <1>4 DEF HeadArrives, driverVars
  <2>2. fetches' = [fetches EXCEPT ![p] = <<Decoding(p)>>]
    BY <1>4, HeadChanges
  <2>3. fetches'[p] = <<Decoding(p)>> /\ Decoding(p).frame = fetches[p][1].frame /\ 1 \in DOMAIN fetches[p]
    <3>1. fetches[p][1] \in Fetch /\ i = 1
      BY OneFetch
    <3> QED  BY <2>2, <3>1 DEF TypeOK, Decoding, Fetch
  <2>4. \A q \in Pages \ {p} : fetches'[q] = fetches[q] /\ shown'[q] = shown[q]
    BY <2>1, <2>2 DEF TypeOK
  <2>5. \A j \in DOMAIN fetches'[p] : fetches'[p][j].frame = fetches[p][1].frame
    BY <2>3
  <2>6. \A g \in shown'[p] : Past(g)'
    BY <2>1 DEF Order, Past, Newest
  <2>7. \A f \in fetches[p][1].frame : Past(f)' /\ \A g \in shown'[p] : f = g \/ Later(f, g)
    BY <2>1, <2>3 DEF Order, Past, Newest
  <2> QED  BY <2>1, <2>4, <2>5, <2>6, <2>7, OtherPages DEF Order
<1>5. ASSUME NEW p \in Pages, NEW i \in DOMAIN fetches[p],
             NotModified(p, i) \/ Render(p, i) \/ Refused(p, i) \/ Fails(p, i)
      PROVE  Order'
  <2>1. UNCHANGED <<boot, sequence, latest_frame>>
    BY <1>5 DEF NotModified, Render, Refused, Fails, driverVars
  <2>2. fetches' = [fetches EXCEPT ![p] = <<>>]
    BY <1>5, OverAndOut DEF NotModified, Render, Refused, Fails
  <2>3. shown' = shown \/ shown' = [shown EXCEPT ![p] = fetches[p][i].frame]
    BY <1>5 DEF NotModified, Render, Refused, Fails
  <2>4. fetches'[p] = <<>>
        /\ \A q \in Pages \ {p} : fetches'[q] = fetches[q] /\ shown'[q] = shown[q]
    BY <2>2, <2>3 DEF TypeOK
  <2>5. \A g \in shown'[p] : Past(g)'
    BY <2>1, <2>3 DEF Order, Past, Newest, TypeOK
  <2>6. DOMAIN fetches'[p] = {}
    BY <2>4
  <2> QED  BY <2>1, <2>4, <2>5, <2>6, OtherPages DEF Order
<1> QED  BY <1>1, <1>2, <1>3, <1>4, <1>5, PageSteps

LEMMA OnlyRenderShows ==
    ASSUME [Next]_vars, shown' # shown
    PROVE  \E p \in Pages : \E i \in DOMAIN fetches[p] : Render(p, i)
  BY DEF Next, Submit, Ends, Boots, TimerFires, Hide, Show, SelectRate, Progress, Serve,
         NotModified, HeadArrives, Refused, Fails, vars, pageVars

\* Whatever was lost, delayed or restarted, the picture on a page never goes back to an
\* older frame (poll, which does not begin while one is under way).
THEOREM PicturesMoveForward == Spec => FramesMoveForward
<1>1. TypeOK /\ Order /\ [Next]_vars
      => [\A p \in Pages : \A old \in shown[p] : \A new \in shown'[p] :
             new # old => \/ new.boot > old.boot
                          \/ new.boot = old.boot /\ new.sequence > old.sequence]_vars
  <2> SUFFICES ASSUME TypeOK, Order, [Next]_vars,
                      NEW q \in Pages, NEW old \in shown[q], NEW new \in shown'[q], new # old
               PROVE  Later(new, old)
    BY DEF Later
  <2>1. CASE shown' = shown
    <3>1. shown[q] \in Optional(Frame)
      BY DEF TypeOK
    <3> QED  BY <2>1, <3>1 DEF Optional
  <2>2. CASE shown' # shown
    <3>1. PICK p \in Pages : \E i \in DOMAIN fetches[p] : Render(p, i)
      BY <2>2, OnlyRenderShows
    <3>2. PICK i \in DOMAIN fetches[p] : Render(p, i)
      BY <3>1
    <3>3. shown' = [shown EXCEPT ![p] = fetches[p][i].frame]
      BY <3>2 DEF Render
    <3>4. CASE p = q
      <4>1. new \in fetches[q][i].frame
        BY <3>3, <3>4 DEF TypeOK
      <4> QED  BY <3>4, <4>1 DEF Order
    <3>5. CASE p # q
      <4>1. shown'[q] = shown[q] /\ shown[q] \in Optional(Frame)
        BY <3>3, <3>5 DEF TypeOK
      <4> QED  BY <4>1 DEF Optional
    <3> QED  BY <3>4, <3>5
  <2> QED  BY <2>1, <2>2
<1> QED
  BY <1>1, InitPages, StepPages, InitOrder, StepOrder, PTL DEF Spec, FramesMoveForward
=============================================================================
