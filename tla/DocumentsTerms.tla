---------------------------- MODULE DocumentsTerms ----------------------------
(***************************************************************************)
(* The terms in which DocumentsProofs speaks: what the parsers of a        *)
(* configuration promise of what they accept, what a picture and a         *)
(* timeline are made of, how far a list or a tree has been read, and       *)
(* DocumentsSound, the inductive invariant of Documents.                   *)
(***************************************************************************)
EXTENDS Documents

-----------------------------------------------------------------------------
(* Recursive functions. *)

\* F[i] is the i-th of n steps within A, the first of which starts at a.
Stepwise(n, A, a, F) == n \in Nat /\ a \in A /\ F \in [1..n -> [A -> A]]

\* f is a function on 0..n.
Upto(n, f) == f = [i \in 0..n |-> f[i]]

-----------------------------------------------------------------------------
(* Optional values and sequences. *)

\* Where each of the sequences begins in one made of them, and where the last
\* ends.
Starting(seqs, starts) ==
    /\ starts[1] = 0
    /\ \A i \in 1..Len(seqs) : starts[i + 1] = starts[i] + Len(seqs[i])

\* The sequences lie in it one after the other.
Joined(seqs, starts, flat, n) ==
    /\ starts[n + 1] = Len(flat)
    /\ \A i \in 1..n : \A t \in 1..Len(seqs[i]) :
          starts[i] \in Nat /\ starts[i] + t <= Len(flat) /\ flat[starts[i] + t] = seqs[i][t]

-----------------------------------------------------------------------------
(* Entries that were kept. *)

\* The first k entries were all sound and were all kept, under ids of their own.
Following(items, ids, parsed, k) ==
    /\ Len(items) = k
    /\ \A i \in 1..k :
          /\ items[i] \in parsed[i].value
          /\ parsed[i].sound
          /\ items[i].id \in ids
          /\ \A j \in 1..i - 1 : items[j].id # items[i].id

\* All that was read, and its ids.
Entries(parsed) == UNION {parsed[i].value : i \in 1..Len(parsed)}
Ids(parsed)     == {v.id : v \in Entries(parsed)}

-----------------------------------------------------------------------------
(* Rectangles. *)

\* Rectangles, and those that lie on a display.
Rects == [x : Nat, y : Nat, width : Nat, height : Nat]

OnDisplay(r, display) == r \in Rects /\ Fits(r, display.width, display.height)

\* The colours of a frame.
Inks == 0..MaxChannel

\* A display of at least one pixel, with a colour.
Sized(display) ==
    display.width \in Nat \ {0} /\ display.height \in Nat \ {0} /\ display.background \in Inks

-----------------------------------------------------------------------------
(* What is drawn. *)

\* Strokes all of which lie on the frame.
Drawn(s, display) == Fits(s.rect, display.width, display.height) /\ s.colour \in Inks

Paintable(strokes, display) == \E S : strokes \in Seq(S) /\ \A s \in S : Drawn(s, display)

\* A widget that can be drawn.
WellMade(w, display) ==
    /\ OnDisplay(w.rect, display)
    /\ \/ w.kind = "indicator"
       \/ /\ w.kind = "clock" /\ w.colour \in Inks
          /\ w.rect.width >= Limit.clock_width /\ w.rect.height >= Limit.clock_height
       \/ /\ w.kind = "bar"
          /\ w.minimum \in Int /\ w.maximum \in Int /\ w.minimum < w.maximum
          /\ w.direction \in Directions /\ w.track \in Inks
       \/ /\ w.kind = "status_grid"
          /\ Len(w.sources) \in Nat /\ w.columns \in 1..Len(w.sources) /\ w.gap \in Nat
          /\ CellsFit(w.rect.width, w.columns, w.gap)
          /\ CellsFit(w.rect.height, Rows(Len(w.sources), w.columns), w.gap)
       \/ /\ w.kind = "bitmap"
          /\ BitmapProper(w.palette, w.pixels, w.rect.width, w.rect.height)
       \/ /\ w.kind = "aggregate_status"
          /\ Len(w.priority) \in Nat /\ w.default \in Inks
          /\ \A name \in DOMAIN w.colors : w.colors[name] \in Inks
          /\ DOMAIN w.colors = {w.priority[i] : i \in 1..Len(w.priority)}

\* The values of the store are numbers where they say so.
Scaled(known) == \A source \in DOMAIN known : \A s \in known[source] : OnScale(s.value)

\* What a configuration shows at an instant of the sources of a store is a colour.
Ready(c, known, at, short) ==
    /\ Scaled(known)
    /\ \A source : SampleSource(c, known, source, at, short) \in SUBSET Inks

\* The content of a card that can be drawn.
Drawable(content, display) ==
    \/ /\ content.kind \in {"indicators", "layout"}
       /\ Len(content.items) \in Nat
       /\ \A i \in 1..Len(content.items) : WellMade(content.items[i], display)
    \/ content.kind = "bitmap"
       /\ BitmapProper(content.palette, content.pixels, display.width, display.height)
    \/ /\ content.kind = "clock" /\ display.height >= Limit.clock_card
       /\ content.local \in Inks /\ content.utc \in Inks

-----------------------------------------------------------------------------
(* Pictures. *)

\* A picture of a display, and what a failure is not.
Shot(display) ==
    [success : {TRUE}, pixels : [Points(display.width, display.height) -> Inks]]

\* A transition takes some time, or none if it is the instant one.
MoveMade(move) ==
    move.duration \in Nat /\ (move.type = "instant" => move.duration = 0)

\* A deck whose cards take some time.
Timed(cards) ==
    /\ \E S : cards \in Seq(S)
    /\ \A i \in 1..Len(cards) :
          cards[i].hold \in Nat \ {0} /\ MoveMade(cards[i].transition)

\* A configuration that can be shown.
Showable(c) ==
    /\ Sized(c.display)
    /\ Timed(c.cards)
    /\ \A i \in 1..Len(c.cards) : Drawable(c.cards[i].content, c.display)
    /\ c.cards = <<>> => /\ Len(c.indicators) \in Nat
                         /\ \A i \in 1..Len(c.indicators) : WellMade(c.indicators[i], c.display)
    /\ \E S : c.indicators \in Seq(S)
    /\ c.indicators # <<>> => c.cards = <<>>
    /\ \A i \in 1..Len(c.indicators) : c.indicators[i].kind = "indicator"

-----------------------------------------------------------------------------
(* Widgets as they are read. *)

\* The places of a layout that are given to an item lie on the display.
Assigned(assigned, display) == \A r \in assigned : OnDisplay(r, display)

-----------------------------------------------------------------------------
(* The places of a layout. *)

\* f gives the sums of the first parts.
Summing(n, parts, f) == f = [i \in 0..n |-> IF i = 0 THEN 0 ELSE f[i - 1] + parts[i]]

\* f gives where each of n shares begins.
Parted(n, shares) == n \in Nat /\ shares \in [1..n -> Nat]
Placing(n, shares, gap, f) ==
    f[0] = 0 /\ \A i \in 1..n : f[i] = f[i - 1] + shares[i] + gap

\* No two of n rectangles have the point p, and at least one of them has it.
Apart(p, n, rects) ==
    \A i, j \in 1..n : i # j => ~(Inside(p, rects[i]) /\ Inside(p, rects[j]))
Met(p, n, rects) == \E i \in 1..n : Inside(p, rects[i])

-----------------------------------------------------------------------------
(* The tree of a layout. *)

\* A call of parse_layout_node that is made has a place on the display.
Callable(call, display) == ~call.refused => OnDisplay(call.bounds, display)

\* What was read of a tree so far.
TreeRead(read, display) ==
    /\ {"nodes", "ids", "widgets", "valid", "sound", "pending"} \subseteq DOMAIN read
    /\ \E S : read.widgets \in Seq(S) /\ \A w \in S : WellMade(w, display)
    /\ \E S : read.pending \in Seq(S) /\ \A call \in S : Callable(call, display)

\* n calls of which each has a place if it is made.
Callables(n, calls, display) ==
    /\ n \in Nat
    /\ calls = [i \in 1..n |-> calls[i]]
    /\ \A i \in 1..n : Callable(calls[i], display)

\* What a tree is read from, before its first call.
FirstRead(call) ==
    [nodes |-> 0, ids |-> {}, widgets |-> <<>>, valid |-> TRUE, sound |-> TRUE,
     pending |-> <<call>>]

\* The calls of parse_layout_node one after the other.
Reads(read, call, display) ==
    /\ read[0] = FirstRead(call)
    /\ \A k \in 0..MaxCalls - 1 : read[k + 1] = ParseNext(display, read[k])

-----------------------------------------------------------------------------
(* Cards and decks as they are read. *)

\* Entries each of which, if it was read, can be drawn.
AllMade(parsed, display) ==
    /\ Len(parsed) \in Nat
    /\ \A i \in 1..Len(parsed) : \A w \in parsed[i].value : WellMade(w, display)

\* A card that can be shown takes some time.
CardMade(card, display) ==
    /\ card.hold \in Nat \ {0} /\ MoveMade(card.transition)
    /\ Drawable(card.content, display)

\* Cards that can be shown.
CardsMade(cards, display) ==
    /\ \E S : cards \in Seq(S)
    /\ \A i \in 1..Len(cards) : CardMade(cards[i], display)

-----------------------------------------------------------------------------
(* Monitors as they are read. *)

\* A policy that was read without an error.
PolicyMade(policy, statuses) ==
    /\ \E U : policy.rules \in Seq(U)
    /\ PolicyValid(policy)
    /\ PolicyStatuses(policy) \subseteq DOMAIN statuses

\* A source that can be made a runner of, on a host that has what it takes.
SourceMade(s) == Creatable(s) \/ RefusedByHost(s)

\* A monitor that can be created and registered, wherever it stands.
MonitorMade(m, statuses) ==
    /\ m.id # ""
    /\ m.interval > 0
    /\ m.ttl \in Optional(Nat \ {0})
    /\ PolicyMade(m.policy, statuses)
    /\ SourceMade(m.source)

\* Monitors each of which can be created and registered after those before it.
MonitorsMade(monitors, statuses) ==
    /\ \E S : monitors \in Seq(S)
    /\ Len(monitors) <= Limit.monitors
    /\ \A i \in 1..Len(monitors) :
          /\ MonitorMade(monitors[i], statuses)
          /\ \A j \in 1..i - 1 : monitors[j].id # monitors[i].id

\* As many monitors as there are entries, each with as many rules as it is written with.
RulesKept(monitors, entries) ==
    /\ Len(monitors) = Len(entries)
    /\ \A i \in 1..Len(monitors) : Len(monitors[i].policy.rules) = Len(entries[i].evaluate)

-----------------------------------------------------------------------------
(* Timelines of colours. *)

\* Colours one after the other, each for a time of its own.
Lasting(lengths) ==
    /\ Len(lengths) \in Nat \ {0} /\ DOMAIN lengths = 1..Len(lengths)
    /\ \A i \in 1..Len(lengths) : lengths[i].colour \in Inks /\ lengths[i].time \in Nat \ {0}

\* Keyframes that show them: one for each, where the one before it ends.
Marked(frames, cycle, lengths, transition) ==
    LET n == Len(lengths)
    IN  /\ frames = [i \in 1..n |-> frames[i]] /\ Len(frames) = n
        /\ frames[1].at = 0
        /\ \A i \in 1..n : /\ frames[i].at \in Nat
                           /\ frames[i].colour = lengths[i].colour
                           /\ frames[i].transition = transition
        /\ \A i \in 1..n - 1 : frames[i + 1].at = frames[i].at + lengths[i].time
        /\ cycle = frames[n].at + lengths[n].time

\* A timeline that shows colours in turn, each for its time.
Follows(t, lengths, transition) ==
    /\ Lasting(lengths)
    /\ Marked(t.keyframes, t.cycle, lengths, transition)
    /\ t.repeat \in BOOLEAN

\* What is sampled is the colour that is due, or one between it and the next.
Due(colour, lengths, i, since, transition) ==
    LET here  == lengths[i].colour
        there == lengths[(i % Len(lengths)) + 1].colour
    IN  IF transition = "linear" /\ since > 0
        THEN colour \in Lowest(here, there)..Highest(here, there)
        ELSE colour = here

\* What is read of an appearance shows the colours the file names.
AppearanceMade(t, a) ==
    \/ /\ a.type = "solid" /\ The(a.colour) \in a.colour \cap Inks
       /\ t.keyframes = <<Keyframe(0, The(a.colour), "step")>>
    \/ /\ a.type \in {"blink", "toggle", "fade", "pulse", "sequence", "cycle"}
       /\ Follows(t, Lengths(a), IF Smooth(a) THEN "linear" ELSE "step")
       /\ t.repeat = ~(a.type = "sequence" /\ a.repeat = {"false"})

\* What a parser of one kind of appearance gives.
KindRead(parsed, a) ==
    /\ DOMAIN parsed = {"value", "sound"}
    /\ parsed.sound => parsed.value # {}
    /\ \A t \in parsed.value : AppearanceMade(t, a)

\* What steps show.
StepLengths(steps) ==
    [i \in 1..Len(steps) |-> [colour |-> The(steps[i].colour),
                              time   |-> The(AppearanceDurations(steps[i].duration))]]

\* The keyframes of one transition.
Frames(transition) == [at : Nat, colour : Inks, transition : {transition}]
Tracks(transition) == [keyframes : Seq(Frames(transition)), cycle : Nat]

\* The keyframes of the first k steps.
Partly(v, lengths, k, transition) ==
    /\ v \in Tracks(transition) /\ Len(v.keyframes) = k
    /\ \A i \in 1..k : /\ lengths[i].colour \in Inks /\ lengths[i].time \in Nat \ {0}
                       /\ v.keyframes[i].colour = lengths[i].colour
    /\ \A i \in 1..k - 1 : v.keyframes[i + 1].at = v.keyframes[i].at + lengths[i].time
    /\ v.cycle = IF k = 0 THEN 0 ELSE v.keyframes[k].at + lengths[k].time
    /\ k # 0 => v.keyframes[1].at = 0

\* What has been read of the first k steps.
StepsRead(parsed, lengths, k, transition) ==
    /\ DOMAIN parsed = {"value", "sound"}
    /\ \/ parsed.value = {} /\ ~parsed.sound
       \/ \E v : parsed.value = {v} /\ Partly(v, lengths, k, transition)

-----------------------------------------------------------------------------
(* What the statuses show. *)

\* The statuses of a configuration look as the objects of a file tell.
StatusesMade(c, objects) ==
    /\ DOMAIN c.statuses = DOMAIN objects
    /\ "unknown" \in DOMAIN c.statuses
    /\ \A name \in DOMAIN c.statuses :
          AppearanceMade(c.statuses[name], The(objects[name].appearance))

\* The entries of a store have been written by now, each source has one at most.
Dated(known, at) ==
    \A source \in DOMAIN known :
        /\ Once(known[source])
        /\ \A s \in known[source] :
              /\ s.entry.updated_at \in 0..at
              /\ s.entry.entered_at \in 0..at
              /\ s.entry.ttl \in Optional(Nat)

\* The status whose appearance shows a source, and for how long it has been in it.
Named(c, seen) ==
    IF \E r \in seen : r.status \in DOMAIN c.statuses THEN The(seen).status ELSE "unknown"
Since(seen, at) == at - (IF seen = {} THEN 0 ELSE The(seen).entered_at)

\* The colour it shows.
Showing(c, seen, at, short) == Sample(c.statuses[Named(c, seen)], Since(seen, at), short)

-----------------------------------------------------------------------------
(* Moments. *)

\* The moments of colours in turn, each numbered within its colour.
MomentsOf(lengths) ==
    FlattenSeq([i \in DOMAIN lengths |->
        [t \in 1..lengths[i].time |-> [step |-> i, moment |-> t]]])

-----------------------------------------------------------------------------
(* What indicators show. *)

\* Sequences of one element each make a sequence of these.
Singles(n, seqs, xs) ==
    /\ n \in Nat \ {0} /\ seqs = [i \in 1..n |-> seqs[i]]
    /\ \A i \in 1..n : seqs[i] = <<xs[i]>>

-----------------------------------------------------------------------------
(* A deck of cards through time. *)

\* The moments of a card and of its way to the next.
Held(cards, i)  == [t \in 1..cards[i].hold |-> [card |-> i, moment |-> 0]]
Moved(cards, i) == [t \in 1..cards[i].transition.duration |-> [card |-> i, moment |-> t]]

-----------------------------------------------------------------------------
(* The program that loads a file: the inductive invariant. *)

\* The phase tells whether there is a configuration, which is one the loader gives.
PhaseSound ==
    /\ case \in Cases
    /\ config \subseteq LoadConfig(case.file)
    /\ phase \in {"accepted", "stopped", "running"} => config # {}
    /\ phase = "stopped" => ~Starts(Config.monitors)

\* The numbers of the store can be compared, and nothing in it is of a later time.
StatesSound == now \in Nat /\ Scaled(states) /\ Dated(states, now)

\* What was observed is a response of the case, judged by the first monitor's rules.
ObservedSound ==
    observed # {} =>
        /\ phase = "running" /\ Config.monitors # <<>>
        /\ \E response \in case.responses :
              observed = {HttpResult(Config.monitors[1].source, response)}
        /\ status \in PolicyStatuses(Config.monitors[1].policy)
        /\ IsOutcome(The(observed), Config.monitors[1].policy, status)

\* A picture is of this instant.
PictureSound ==
    picture # {} =>
        /\ phase = "running"
        /\ \E short \in BOOLEAN : picture = {Render(Config, states, now, short)}

\* What every step of main and of its clients keeps.
DocumentsSound == PhaseSound /\ StatesSound /\ ObservedSound /\ PictureSound

-----------------------------------------------------------------------------
(* The scan of a policy's rules. *)

\* What a scan that begins at the i-th rule stops with is x.
ScansTo(policy, value, i, x) ==
    LET rules == policy.rules
        n     == Len(rules)
    IN  /\ (\A j \in i..n : ~RuleMatches(rules[j], value)) => x = policy.no_match
        /\ \A j \in i..n :
              /\ RuleMatches(rules[j], value)
              /\ \A k \in i..j - 1 : ~RuleMatches(rules[k], value)
              => x = rules[j].status

-----------------------------------------------------------------------------
(* Lists in which one element gives way to several.                        *)

\* t is the list s of n elements, but for the kids in the place of the a-th.
Spliced(n, s, a, m, kids, t) ==
    /\ n \in Nat /\ a \in 1..n /\ m \in Nat \ {0}
    /\ \A i \in 1..a - 1 : t[i] = s[i]
    /\ \A i \in a..a + m - 1 : t[i] = kids[i - a + 1]
    /\ \A i \in a + m..n + m - 1 : t[i] = s[i - m + 1]

\* The first n of the numbers add up to a total.
Summed(n, parts, total) == \E f : Summing(n, parts, f) /\ f[n] = total

-----------------------------------------------------------------------------
(* The levels of a tree and the leaves below them. *)

\* The level Nodes looks at last, and the functions of its definition.
Deepest == Limit.depth + 1

LevelsUpto(root, k, f) ==
    f = [d \in 0..k |->
            IF d = 0 THEN {root} ELSE UNION {ToSet(node.children) : node \in f[d - 1]}]

\* The level functions of Nodes and of Leaves.
Levels(root) == CHOOSE f : LevelsUpto(root, Deepest, f)

\* The leaves below the nodes, as Leaves counts them.
BelowUpto(nodes, k, f) ==
    f = [d \in 0..k |->
            [node \in nodes |->
                IF node.type \subseteq {"row", "column", "stack"}
                THEN LET upto[i \in 0..Len(node.children)] ==
                             IF i = 0 THEN 0
                             ELSE upto[i - 1] + f[d - 1][node.children[i]]
                     IN  IF d = 0 THEN 0 ELSE upto[Len(node.children)]
                ELSE 1]]
Below(root) == CHOOSE f : BelowUpto(Nodes(root), Limit.depth, f)

\* A tree whose nodes have a type each and a list of children.
TreeProper(root) ==
    \A node \in Nodes(root) : Once(node.type) /\ node.children \in Seq(ToSet(node.children))

Inner(node) == node.type \subseteq {"row", "column", "stack"}

\* The leaves at or below a node of level d.
LeavesAt(root, d, node) ==
    IF d > Limit.depth THEN 0 ELSE Below(root)[Limit.depth - d][node]

-----------------------------------------------------------------------------
(* What a call of parse_layout_node does that does not fail. *)

\* The calls for the children of a node.
Descends(call, calls) ==
    LET children == call.item.children
        type     == Or(call.item.type, "")
        gap      == Or(Coordinates(call.item.gap), 0)
        extent   == IF type = "row" THEN call.bounds.width ELSE call.bounds.height
        split    == Allocation(children, gap, extent)
        places   == Places(type, call.bounds, gap, split.shares)
    IN  /\ Len(children) \in 1..Limit.widgets
        /\ calls = [i \in 1..Len(children) |-> calls[i]]
        /\ \A i \in 1..Len(children) :
              calls[i].item = children[i] /\ calls[i].depth = call.depth + 1
        /\ \/ type = "stack" /\ \A i \in 1..Len(children) : calls[i].bounds = call.bounds
           \/ /\ type \in {"row", "column"} /\ split.fits
              /\ \A i \in 1..Len(children) : calls[i].bounds = places[i]

\* The fields of what is read.
Has(read) == {"nodes", "ids", "widgets", "valid", "sound", "pending"} \subseteq DOMAIN read

\* What has been counted, added and put off after it.
LeafAdded(call, display, before, read) ==
    /\ Or(call.item.type, "") \notin {"", "row", "column", "stack"}
    /\ read.pending = before.pending
    /\ \E w \in ParseWidget(call.item, {call.bounds}, display).value :
          read.widgets = Append(before.widgets, w)

ChildrenCalled(call, before, read) ==
    /\ read.widgets = before.widgets
    /\ \E calls : Descends(call, calls) /\ read.pending = calls \o before.pending

-----------------------------------------------------------------------------
(* What a tree that is being read owes. *)

\* The stations of the reading: the widgets that were read and the calls that are
\* pending, the place of each, and how many widgets each stands for.
Stations(widgets, calls) == Len(widgets) + Len(calls)
Spots(widgets, calls) ==
    [i \in 1..Stations(widgets, calls) |->
        IF i <= Len(widgets) THEN widgets[i].rect ELSE calls[i - Len(widgets)].bounds]
Owed(root, widgets, calls) ==
    [i \in 1..Stations(widgets, calls) |->
        IF i <= Len(widgets) THEN 1
        ELSE LeavesAt(root, calls[i - Len(widgets)].depth, calls[i - Len(widgets)].item)]

\* The widgets and the calls that are pending stand for the leaves of the tree, one
\* each, and their places lie as those of the leaves will.
Accounted(root, p, widgets, calls) ==
    /\ \A i \in 1..Len(calls) :
          /\ calls[i].depth \in 0..Deepest
          /\ calls[i].item \in Levels(root)[calls[i].depth]
    /\ Summed(Stations(widgets, calls), Owed(root, widgets, calls), Leaves(root))
    /\ Stackless(root) => Apart(p, Stations(widgets, calls), Spots(widgets, calls))
    /\ Gapless(root) => Met(p, Stations(widgets, calls), Spots(widgets, calls))

\* Unless it failed, what was read has counted its nodes and is accounted for.
Intact(root, p, k, read) ==
    /\ read.nodes \in 0..Limit.nodes
    /\ read.pending # <<>> => k + Len(read.pending) <= 1 + read.nodes * Limit.widgets
    /\ Accounted(root, p, read.widgets, read.pending)

-----------------------------------------------------------------------------
(* Nothing is dropped. *)

\* What is written is what is shown: as many widgets as the tree has leaves, all of them
\* on the display, and no pixel of it in two places nor, but for gaps, in none.
TreeKept(tree, items, display) ==
    /\ Len(items) = Leaves(tree)
    /\ \A w \in DOMAIN items : Fits(items[w].rect, display.width, display.height)
    /\ \A p \in Points(display.width, display.height) :
          /\ Stackless(tree) => Cardinality(Covering(items, p)) <= 1
          /\ Gapless(tree) => Covering(items, p) # {}

\* What a configuration shows is all that the file tells it to show.
ShownKept(c, root) ==
    LET cards == Or(root.cards, <<>>)
    IN  /\ Len(c.indicators) = Len(Or(root.indicators, <<>>))
        /\ Len(c.cards) = Len(cards)
        /\ DOMAIN c.cards = 1..Len(cards)
        /\ \A i \in 1..Len(cards) : \A tree \in cards[i].root :
              TreeKept(tree, c.cards[i].content.items, c.display)
===============================================================================
