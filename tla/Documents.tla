------------------------------- MODULE Documents -------------------------------
(***************************************************************************)
(* The way of a configuration through the program: a file is loaded, its   *)
(* monitors are created and registered (src/simulator/main.cpp), the first *)
(* of them observes a response and is judged, other sources are reported   *)
(* by clients, and pictures are drawn as time passes.                      *)
(*                                                                         *)
(* A case is a file together with what happens to the program that loads   *)
(* it: [file, responses, reports, horizon].                                *)
(***************************************************************************)
EXTENDS ConfigLoader, Renderer

CONSTANTS
    Cases,
    Sources,   \* the sources a case may report or monitor
    Values     \* the values conditions are tried with

\* A number is one on the scale of the comparisons.
OnScale(value) == IsNumber(value) => value.v \in Int /\ NumberValue(value) \in Int

\* The numbers a JSON document holds are numbers, and its arrays have a size.
Measured(node) ==
    /\ OnScale(node)
    /\ node.kind = "huge" => node.v \in Int
    /\ node.kind = "array" => OnScale(Whole(node.size))

\* The nodes of a tree, as deep as it may be read and one level more.
Nodes(root) ==
    LET level[d \in 0..Limit.depth + 1] ==
            IF d = 0 THEN {root} ELSE UNION {ToSet(n.children) : n \in level[d - 1]}
    IN  UNION {level[d] : d \in 0..Limit.depth + 1}

\* A JSON object has at most one value of a name.
Once(field) == \A x, y \in field : x = y

AppearanceOnce(a) ==
    /\ Once(a.colour) /\ Once(a.from) /\ Once(a.to) /\ Once(a.minimum) /\ Once(a.maximum)
    /\ Once(a.repeat) /\ Once(a.transition)
    /\ \A i \in 1..Len(a.steps) : Once(a.steps[i].colour)

\* A card of a type that has no root is `unknown` if it has one.
CardOnce(card) ==
    /\ Once(card.root)
    /\ \A tree \in card.root :
          /\ card.type = {"layout"} \/ card.unknown
          /\ \A node \in Nodes(tree) :
                Once(node.type) /\ node.children \in Seq(ToSet(node.children))

WrittenOnce(root) ==
    /\ \A objects \in root.statuses : \A name \in DOMAIN objects :
          \A a \in objects[name].appearance : AppearanceOnce(a)
    /\ \A monitors \in root.monitors : \A i \in 1..Len(monitors) : Once(monitors[i].ttl)
    /\ \A cards \in root.cards : \A i \in 1..Len(cards) : CardOnce(cards[i])

ASSUME CasesAssumption ==
    /\ \A c \in Cases :
          /\ Once(c.file) /\ \A root \in c.file : WrittenOnce(root)
          /\ \A r \in c.responses :
                /\ OnScale(Whole(r.status)) /\ OnScale(r.text)
                /\ \A json \in r.json : \A p \in DOMAIN json : Measured(json[p])
          /\ \A r \in c.reports : OnScale(r.value) /\ r.ttl \in Optional(Nat)
    /\ \A x \in Values : OnScale(x)

\* The renderer finds room for the digits wherever the loader did.
ASSUME ClocksAssumption ==
    /\ ClockWidth <= Limit.clock_width /\ ClockHeight <= Limit.clock_height
    /\ 2 * ClockHeight <= Limit.clock_card

VARIABLES
    case,
    phase,     \* "written", "rejected", "accepted", "stopped", "running"
    config,    \* the optional configuration
    states,    \* the store: for each source an optional [entry, value]
    now,
    observed,  \* the optional MonitorResult of the first monitor
    status,    \* the status it was given
    picture    \* the optional last picture, until a state changes

vars == <<case, phase, config, states, now, observed, status, picture>>

Init ==
    /\ case \in Cases
    /\ phase = "written"
    /\ config = {}
    /\ states = [source \in Sources |-> {}]
    /\ now = 0
    /\ observed = {}
    /\ status = "none"
    /\ picture = {}

\* load_config_file; main ends if there is no configuration.
Load ==
    /\ phase = "written"
    /\ config' = LoadConfig(case.file)
    /\ phase' = IF config' = {} THEN "rejected" ELSE "accepted"
    /\ UNCHANGED <<case, states, now, observed, status, picture>>

Starts(monitors) ==
    \A i \in DOMAIN monitors : Creatable(monitors[i].source) /\ Registers(monitors, i)

\* main creates and registers every monitor and ends at the first it cannot.
Start ==
    /\ phase = "accepted"
    /\ phase' = IF Starts(The(config).monitors) THEN "running" ELSE "stopped"
    /\ UNCHANGED <<case, config, states, now, observed, status, picture>>

\* A state under `source`, as MonitorEngine::run_due and the status API write it.
Write(source, state, value) ==
    /\ states' = [states EXCEPT ![source] =
            {[entry |-> NewEntry({s.entry : s \in @}, state), value |-> value]}]
    /\ picture' = {}

\* The first monitor observes a response and is judged, once.
Judge ==
    /\ phase = "running"
    /\ The(config).monitors # <<>>
    /\ status = "none"
    /\ LET m == The(config).monitors[1]
       IN  /\ m.source.type = "http"
           /\ \E response \in case.responses : observed' = {HttpResult(m.source, response)}
           /\ \E s \in PolicyStatuses(m.policy) :
                 /\ IsOutcome(The(observed'), m.policy, s)
                 /\ status' = s
                 /\ Write(m.id, [status |-> s, updated_at |-> now, ttl |-> m.ttl],
                          The(observed').value)
    /\ UNCHANGED <<case, phase, config, now>>

\* A client reports a source that has no state yet.
Report ==
    /\ phase = "running"
    /\ \E r \in case.reports :
          /\ states[r.source] = {}
          /\ Write(r.source, [status |-> r.status, updated_at |-> now, ttl |-> r.ttl], r.value)
    /\ UNCHANGED <<case, phase, config, now, observed, status>>

\* A turn of the main loop, a millisecond later; horizon bounds the model.
Draw ==
    /\ phase = "running"
    /\ now < case.horizon
    /\ now' = now + 1
    /\ \E short \in BOOLEAN : picture' = {Render(The(config), states, now', short)}
    /\ UNCHANGED <<case, phase, config, states, observed, status>>

Next == Load \/ Start \/ Judge \/ Report \/ Draw

Spec == Init /\ [][Next]_vars

-----------------------------------------------------------------------------
Loaded  == config # {}
Root    == The(case.file)
Config  == The(config)
Pixels  == The(picture).pixels

\* The rules as their author reads them: a scan that stops at the first match.
Scan(policy, value) ==
    LET from[i \in 1..(Len(policy.rules) + 1)] ==
          IF i > Len(policy.rules) THEN policy.no_match
          ELSE IF \A c \in policy.rules[i].when : ConditionMatches(value, c)
          THEN policy.rules[i].status
          ELSE from[i + 1]
    IN  from[1]

\* From the text of the rules to a status: the status of a judged monitor is the
\* one a scan of its rules in their order stops at, a response that could not be
\* observed never reaches the rules, and a pointer that selects nothing does
\* (Evaluator::evaluate, HttpMonitorRunner::run).
FirstMatchWins ==
    \A result \in observed :
        LET m    == Config.monitors[1]
            json == {r \in case.responses : r.arrived /\ HttpResult(m.source, r) = result}
        IN  /\ status = IF result.transport_success THEN Scan(m.policy, result.value)
                        ELSE m.policy.failure
            /\ \A r \in json :
                  m.source.observe.key = "json_pointer" /\ r.json # {}
                    /\ m.source.observe.pointer \notin DOMAIN The(r.json)
                  => result = Observed(NoValue)

Compare(value, op, operand) ==
    ConditionMatches(value, [op |-> op, expected |-> operand, upper |-> {}])

Between(value, low, high) ==
    ConditionMatches(value, [op |-> "between", expected |-> low, upper |-> {high}])

Numbers == {v \in Values : IsNumber(v)}

OnTheLine(value) ==
    \A x \in Numbers :
        IF IsNumber(value)
        THEN /\ Cardinality({op \in {"less_than", "equals", "greater_than"} :
                                Compare(value, op, x)}) = 1
             /\ Compare(value, "less_or_equal", x)
                  <=> Compare(value, "less_than", x) \/ Compare(value, "equals", x)
             /\ Compare(value, "greater_or_equal", x) <=> ~Compare(value, "less_than", x)
             /\ \A y \in Numbers :
                   Between(value, x, y) <=> /\ Compare(value, "greater_or_equal", x)
                                            /\ Compare(value, "less_or_equal", y)
        ELSE /\ \A op \in OrderedComparisons : ~Compare(value, op, x)
             /\ \A y \in Numbers : ~Between(value, x, y)

\* On numbers of either type the comparisons of an observed value are the ordered
\* line, and no threshold is met by anything else; contains and not_contains divide
\* the texts and are both false of anything that is not a text, and equals and
\* not_equals divide all values (condition_matches).
ThresholdsFollowTheLine ==
    \A result \in observed :
        /\ OnTheLine(result.value)
        /\ \A x \in Values :
              /\ Compare(result.value, "equals", x) <=> ~Compare(result.value, "not_equals", x)
              /\ IsText(x) => (IsText(result.value)
                    <=> (Compare(result.value, "contains", x)
                           <=> ~Compare(result.value, "not_contains", x)))

\* What only the host of the program can refuse: TLS, ICMP, a secret that is not
\* there and one that makes a header too long.
RefusedByHost(s) ==
    \/ s.type = "icmp_ping" /\ ~Icmp
    \/ /\ s.type = "http"
       /\ \/ s.url = "https" /\ ~Tls
          \/ \E i \in DOMAIN s.headers : s.headers[i].secret # {}

\* A configuration that was accepted works: its monitors can be created and
\* registered but for what the host lacks, every picture of it can be drawn, and
\* a monitor never takes a status that has no appearance.
AcceptedWorks ==
    /\ phase = "stopped" => \E i \in DOMAIN Config.monitors :
                                RefusedByHost(Config.monitors[i].source)
    /\ \A p \in picture : p.success
    /\ observed # {} => status \in DOMAIN Config.statuses

\* How many widgets a tree holds: the leaves at most d levels below a node of it.
Leaves(root) ==
    LET nodes == Nodes(root)
        below[d \in 0..Limit.depth] ==
            [node \in nodes |->
                IF node.type \subseteq {"row", "column", "stack"}
                THEN LET upto[i \in 0..Len(node.children)] ==
                             IF i = 0 THEN 0
                             ELSE upto[i - 1] + below[d - 1][node.children[i]]
                     IN  IF d = 0 THEN 0 ELSE upto[Len(node.children)]
                ELSE 1]
    IN  below[Limit.depth][root]

\* A tree has no two places for one pixel (no stack), and leaves no pixel without
\* a place (no gap).
Stackless(root) == \A node \in Nodes(root) : node.type # {"stack"}
Gapless(root)   == \A node \in Nodes(root) : node.gap \subseteq {0}

Covering(items, p) == {i \in DOMAIN items : Inside(p, items[i].rect)}

\* Every entry of an accepted file is in the configuration it gives, none has been
\* left out without an error: statuses, monitors with all their rules, indicators
\* and cards with all their widgets.  The places of a layout's tree lie on the
\* display, apart from each other, and leave out no pixel but the gaps.
NothingDropped ==
    Loaded =>
        /\ DOMAIN Config.statuses = DOMAIN The(Root.statuses)
        /\ Len(Config.monitors) = Len(Or(Root.monitors, <<>>))
        /\ \A i \in DOMAIN Config.monitors :
              Len(Config.monitors[i].policy.rules) = Len(The(Root.monitors)[i].evaluate)
        /\ Len(Config.indicators) = Len(Or(Root.indicators, <<>>))
        /\ Len(Config.cards) = Len(Or(Root.cards, <<>>))
        /\ \A i \in DOMAIN Config.cards :
              LET written == The(Root.cards)[i]
                  items   == Config.cards[i].content.items
              IN  \A tree \in written.root :
                    /\ Len(items) = Leaves(tree)
                    /\ \A w \in DOMAIN items :
                          Fits(items[w].rect, Config.display.width, Config.display.height)
                    /\ \A p \in Points(Config.display.width, Config.display.height) :
                          /\ Stackless(tree) => Cardinality(Covering(items, p)) <= 1
                          /\ Gapless(tree) => Covering(items, p) # {}

-----------------------------------------------------------------------------
\* The deck as its author reads it: for each card as many moments of its own as
\* it holds, then as many of its way to the next, [card, moment] with the moment
\* zero for the card alone.
Schedule(cards) ==
    FlattenSeq([i \in DOMAIN cards |->
        [t \in 1..cards[i].hold |-> [card |-> i, moment |-> 0]]
            \o [t \in 1..cards[i].transition.duration |-> [card |-> i, moment |-> t]]])

Lowest(x, y)  == IF x < y THEN x ELSE y
Highest(x, y) == IF x < y THEN y ELSE x

\* The picture is a window on the two cards laid side by side, from one edge to
\* nearly the other.
SlidesOn(type, from, to, moment, duration) ==
    LET w == Config.display.width
        h == Config.display.height
        extent == IF type \in {"slide_left", "slide_right"} THEN w ELSE h
        exact  == ((moment - 1) * extent) \div duration
        strip(x, y) ==
            CASE type = "slide_left"  -> IF x < w THEN from[<<x, y>>] ELSE to[<<x - w, y>>]
              [] type = "slide_right" -> IF x < w THEN to[<<x, y>>] ELSE from[<<x - w, y>>]
              [] type = "slide_up"    -> IF y < h THEN from[<<x, y>>] ELSE to[<<x, y - h>>]
              [] OTHER                -> IF y < h THEN to[<<x, y>>] ELSE from[<<x, y - h>>]
        window(o, p) ==
            CASE type = "slide_left"  -> strip(p[1] + o, p[2])
              [] type = "slide_right" -> strip(p[1] + w - o, p[2])
              [] type = "slide_up"    -> strip(p[1], p[2] + o)
              [] OTHER                -> strip(p[1], p[2] + h - o)
    IN  \E o \in {exact, Highest(exact - 1, 0)} :
            \A p \in DOMAIN Pixels : Pixels[p] = window(o, p)

FadesBetween(from, to, moment) ==
    \A p \in DOMAIN Pixels :
        /\ moment = 1 => Pixels[p] = from[p]
        /\ Pixels[p] \in Lowest(from[p], to[p])..Highest(from[p], to[p])

\* At every instant the picture of a deck is what its schedule says: a card alone
\* for as long as it holds, then its transition into the next for as long as that
\* takes, from the last card to the first again (Renderer::render).
DeckFollowsSchedule ==
    picture # {} /\ Len(Or(config, [cards |-> <<>>]).cards) > 1 =>
        LET cards == Config.cards
            turns == Schedule(cards)
            turn  == turns[(now % Len(turns)) + 1]
            move  == cards[turn.card].transition
            next  == (turn.card % Len(cards)) + 1
        IN  \E short \in BOOLEAN :
              LET alone(i) == RenderContent(Config, states, cards[i].content, now, short).pixels
              IN  CASE turn.moment = 0 -> Pixels = alone(turn.card)
                    [] turn.moment > 0 /\ move.type = "fade" ->
                         FadesBetween(alone(turn.card), alone(next), turn.moment)
                    [] OTHER -> SlidesOn(move.type, alone(turn.card), alone(next),
                                         turn.moment, move.duration)

\* The colours an appearance names and for how long each is due.
Lengths(a) ==
    LET time(field) == The(AppearanceDurations(field))
        dim(percent) == Dimmed(The(a.colour), percent)
        halves(first, second) ==
            <<[colour |-> first, time |-> time(a.period) \div 2],
              [colour |-> second, time |-> time(a.period) - time(a.period) \div 2]>>
    IN  CASE a.type = "blink"  -> <<[colour |-> The(a.colour), time |-> time(a.on)],
                                    [colour |-> 0, time |-> time(a.off)]>>
          [] a.type = "toggle" -> [i \in 1..Len(a.colours) |->
                                    [colour |-> a.colours[i], time |-> time(a.period)]]
          [] a.type = "fade"   -> halves(The(a.from), The(a.to))
          [] a.type = "pulse"  -> halves(dim(Or(a.minimum, 10)), dim(Or(a.maximum, 100)))
          [] a.type \in {"sequence", "cycle"} ->
                [i \in 1..Len(a.steps) |-> [colour |-> The(a.steps[i].colour),
                                           time   |-> time(a.steps[i].duration)]]

Smooth(a) ==
    a.type \in {"fade", "pulse"} \/ (a.type = "cycle" /\ a.transition # {"step"})

\* The colours an appearance may show after `elapsed`: one of a series of steps,
\* or on the way from one step to the next.
ColoursDue(a, elapsed) ==
    LET moments == FlattenSeq([i \in DOMAIN Lengths(a) |->
                        [t \in 1..Lengths(a)[i].time |-> [step |-> i, moment |-> t]]])
        over    == a.type = "sequence" /\ a.repeat = {"false"} /\ elapsed >= Len(moments)
        due     == IF over THEN moments[Len(moments)] ELSE moments[(elapsed % Len(moments)) + 1]
        here    == Lengths(a)[due.step].colour
        there   == Lengths(a)[(due.step % Len(Lengths(a))) + 1].colour
    IN  IF a.type = "solid" THEN a.colour
        ELSE IF Smooth(a) /\ due.moment > 1
        THEN Lowest(here, there)..Highest(here, there)
        ELSE {here}

\* An indicator nothing is drawn over shows its source's status the way the file
\* describes it: every colour for exactly as long as it is due, counted from when
\* the source entered the status, or went stale, again and again or once; one
\* that has no appearance looks like "unknown"
\* (parse_appearance, TimelineAppearance::sample, sample_source).
AnimationFollowsSteps ==
    \A p \in picture : p.success =>
        \A i \in DOMAIN Config.indicators :
            LET w    == Config.indicators[i]
                at   == <<w.rect.x, w.rect.y>>
                seen == ResolvedState(states, w.source, now)
                name == IF \E r \in seen : r.status \in DOMAIN Config.statuses
                        THEN The(seen).status ELSE "unknown"
                a    == The(The(Root.statuses)[name].appearance)
            IN  (\A j \in DOMAIN Config.indicators :
                    j > i => ~Inside(at, Config.indicators[j].rect))
                => p.pixels[at] \in
                     ColoursDue(a, now - (IF seen = {} THEN 0 ELSE The(seen).entered_at))
===============================================================================
