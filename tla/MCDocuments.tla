----------------------------- MODULE MCDocuments -----------------------------
(***************************************************************************)
(* The instance of Documents for TLC.  Each family of cases varies one     *)
(* part of a small valid document: appearances, policies, monitors,        *)
(* layouts and decks, and errors in each of them.  Limits are scaled down: *)
(* a display of at most 6 by 6, clocks of 3 by 2, colours from 0 to 8,     *)
(* times of a few milliseconds.                                            *)
(***************************************************************************)
EXTENDS Documents

MCLimit ==
    [dimension |-> 6, side |-> 2, pixels |-> 16, indicators |-> 3, widgets |-> 4, nodes |-> 7,
     depth |-> 2, weight |-> 6, cards |-> 3, palette |-> 2, statuses |-> 4, monitors |-> 2,
     appearance |-> 6, steps |-> 3, toggle |-> 3, min_interval |-> 1, interval |-> 5,
     ttl |-> 4, timeout |-> 3, default_timeout |-> 2, min_hold |-> 1, hold |-> 3,
     transition |-> 3, rules |-> 2, response |-> 4, default_response |-> 3, port |-> 3,
     body |-> 2, headers |-> 2, header_value |-> 4, headers_total |-> 6, reference |-> 2,
     send |-> 2, delimiter |-> 4, scale |-> 3, clock_width |-> 3, clock_height |-> 2,
     clock_card |-> 4, int_range |-> 16]

MCUnits   == ("ms" :> 1) @@ ("s" :> 2)
MCSecrets == ("short" :> 1) @@ ("long" :> 4)
Exact(n)  == n

Ms(n)  == {[amount |-> n, unit |-> "ms"]}
Sec(n) == {[amount |-> n, unit |-> "s"]}

-----------------------------------------------------------------------------
NoAppearance ==
    [type |-> "solid", fields |-> 1, unknown |-> FALSE, colour |-> {}, on |-> {}, off |-> {},
     colours |-> <<>>, period |-> {}, from |-> {}, to |-> {}, minimum |-> {}, maximum |-> {},
     repeat |-> {}, transition |-> {}, steps |-> <<>>]

StatusOf(a) == [unknown |-> FALSE, appearance |-> {a}]
SolidOf(c)  == StatusOf([NoAppearance EXCEPT !.colour = {c}])

Step(c, d) == [unknown |-> FALSE, colour |-> {c}, duration |-> d]

Stepped ==
    {<<Step(c, Ms(m)), Step(8, Ms(n))>> : c \in {-1, 2}, m \in 0..3, n \in {1, 4}}
        \cup {<<Step(3, Ms(2))>>, <<Step(1, Ms(1)), Step(6, Sec(1)), Step(2, Ms(3))>>,
              <<[Step(3, Ms(2)) EXCEPT !.unknown = TRUE], Step(5, Ms(1))>>, <<>>}

Appearances ==
    {[NoAppearance EXCEPT !.colour = c] : c \in {{}, {-1}, {5}}}
    \cup {[NoAppearance EXCEPT !.type = "blink", !.colour = {7}, !.on = Ms(m), !.off = n] :
            m \in 0..4, n \in {{}, Ms(1), Ms(3), Sec(4)}}
    \cup {[NoAppearance EXCEPT !.type = "toggle", !.period = Ms(m), !.colours = cs] :
            m \in 1..4, cs \in {<<1>>, <<1, 4>>, <<1, 4, 7>>, <<1, 9>>}}
    \cup {[NoAppearance EXCEPT !.type = "fade", !.from = {1}, !.to = {8}, !.period = Ms(m)] :
            m \in 1..5}
    \cup {[NoAppearance EXCEPT !.type = "pulse", !.colour = {8}, !.period = Ms(m),
                               !.minimum = low, !.maximum = high] :
            m \in {1, 4, 5}, low \in {{}, {50}, {101}}, high \in {{}, {30}}}
    \cup {[NoAppearance EXCEPT !.type = "sequence", !.repeat = r, !.steps = steps] :
            r \in {{}, {"false"}, {"other"}}, steps \in Stepped}
    \cup {[NoAppearance EXCEPT !.type = "cycle", !.transition = t, !.steps = steps] :
            t \in {{}, {"step"}, {"other"}}, steps \in Stepped}
    \cup {[NoAppearance EXCEPT !.colour = {5}, !.fields = 2],
          [NoAppearance EXCEPT !.type = "other"]}

-----------------------------------------------------------------------------
NoItem ==
    [type |-> {"indicator"}, unknown |-> FALSE, id |-> {"w"}, x |-> {}, y |-> {}, width |-> {},
     height |-> {}, size |-> {}, weight |-> {}, source |-> {"s"}, sources |-> <<>>,
     timezone |-> {}, color |-> {}, direction |-> {}, minimum |-> {}, maximum |-> {},
     track_color |-> {}, columns |-> {}, gap |-> {}, palette |-> <<>>, pixels |-> <<>>,
     priority |-> <<>>, colors |-> <<>>, default_color |-> {}, children |-> <<>>]

At(item, x, y, w, h) ==
    [item EXCEPT !.x = {x}, !.y = {y}, !.width = {w}, !.height = {h}]

Base ==
    [unknown |-> FALSE, schema |-> {1},
     display |-> {[unknown |-> FALSE, width |-> {2}, height |-> {1}, background |-> {}]},
     statuses |-> {("unknown" :> SolidOf(1)) @@ ("stale" :> SolidOf(2)) @@ ("a" :> SolidOf(5))},
     monitors |-> {}, indicators |-> {<<At(NoItem, 0, 0, 1, 1)>>}, cards |-> {}]

Display(w, h) == {[unknown |-> FALSE, width |-> {w}, height |-> {h}, background |-> {4}]}

Says(source, name, value) == [source |-> source, status |-> name, value |-> value, ttl |-> {}]
Case(root, reports, horizon) ==
    [file |-> {root}, responses |-> {}, reports |-> reports, horizon |-> horizon]

WithStatus(a) ==
    [Base EXCEPT !.statuses = {("unknown" :> SolidOf(1)) @@ ("stale" :> SolidOf(2)) @@
                               ("a" :> StatusOf(a))}]

AppearanceCases ==
    {Case(WithStatus(a), {Says("s", "a", NoValue)}, 8) : a \in Appearances}
    \cup {Case([Base EXCEPT !.indicators =
                    {<<At(NoItem, 0, 0, 2, 1), At([NoItem EXCEPT !.id = {"v"}], x, 0, 1, 1)>>},
                            !.statuses = {("unknown" :> StatusOf([NoAppearance EXCEPT
                                    !.type = "fade", !.from = {0}, !.to = {8}, !.period = Ms(4)]))
                                @@ ("stale" :> StatusOf([NoAppearance EXCEPT !.type = "blink",
                                    !.colour = {7}, !.on = Ms(1), !.off = Ms(2)]))
                                @@ ("a" :> SolidOf(3))}],
                {[Says("s", n, NoValue) EXCEPT !.ttl = t] : n \in {"a", "undefined"},
                                                            t \in {{}, {0}, {2}}}, 6) :
            x \in 0..2}
    \cup {Case([Base EXCEPT !.statuses = s], {}, 1) :
            s \in {{}, {<<>>}, {("unknown" :> SolidOf(1))},
                   {("unknown" :> SolidOf(1)) @@ ("stale" :> SolidOf(1)) @@ ("" :> SolidOf(1))},
                   {[n \in {"unknown", "stale", "a", "b", "c"} |-> SolidOf(1)]}}}
    \cup {Case([Base EXCEPT !.schema = n], {}, 1) : n \in {{}, {2}, {17}}}
    \cup {Case([Base EXCEPT !.unknown = TRUE], {}, 1),
          Case([Base EXCEPT !.display = {}], {}, 1),
          Case([Base EXCEPT !.display = Display(6, 3)], {}, 1),
          Case([Base EXCEPT !.indicators = {<<>>}], {}, 1),
          Case([Base EXCEPT !.indicators = {<<At(NoItem, 0, 0, 1, 1), At(NoItem, 1, 0, 1, 1)>>}],
               {}, 1),
          [file |-> {}, responses |-> {}, reports |-> {}, horizon |-> 1]}

-----------------------------------------------------------------------------
NoObservation ==
    [fields |-> 1, key |-> "json_pointer", yes |-> TRUE, pointer |-> "/v",
     denominator |-> "/d", scale |-> {}, unknown |-> FALSE]

Rule(op, operand) ==
    [form |-> "when", unknown |-> FALSE, status |-> {"a"},
     when |-> [op |-> op, listed |-> FALSE, operands |-> <<operand>>]]
Range2(low, high) ==
    [Rule("between", low) EXCEPT !.when = [op |-> "between", listed |-> TRUE,
                                           operands |-> <<low, high>>]]
Otherwise == [Rule("exists", Truth(TRUE)) EXCEPT !.form = "otherwise"]

NoMonitor ==
    [id |-> {"s"}, type |-> {"http"}, unknown |-> FALSE, interval |-> Ms(1), ttl |-> {},
     failure |-> {"unknown"}, no_match |-> {}, evaluate |-> <<Otherwise>>, url |-> {"http"},
     method |-> {}, headers |-> <<>>, body |-> {}, timeout |-> {}, response |-> {},
     observe |-> {NoObservation}, host |-> {"host"}, port |-> {1}, send |-> {},
     read_until |-> {1}, family |-> {}]

OneLetter  == Text({"", "a"})
TwoLetters == Text({"", "a", "b", "ab"})
Huge       == [kind |-> "huge", v |-> 9]
Array(n)   == [kind |-> "array", size |-> n]

MCValues ==
    {NoValue, Truth(TRUE), Whole(0), Whole(1), Whole(2), Float(1), Float(2), NaN, Infinity,
     Text({""}), OneLetter, TwoLetters}

Answer(json) == [arrived |-> TRUE, status |-> 2, text |-> OneLetter, json |-> json]
Select(node) == Answer({("/v" :> node)})

Responses2 ==
    {Select(node) : node \in {NoValue, Truth(TRUE), Whole(0), Whole(1), Whole(2), Float(1),
                              Float(2), Text({""}), OneLetter, TwoLetters, Huge, Array(2)}}
    \cup {Answer({}), Answer({<<>>}),
          [Answer({}) EXCEPT !.arrived = FALSE],
          Answer({("/v" :> Whole(2)) @@ ("/d" :> Whole(0))}),
          Answer({("/v" :> Huge) @@ ("/d" :> Float(1))})}

RulesTried ==
    {Rule("exists", Truth(TRUE)), Rule("exists", Whole(1)), Rule("not_exists", Truth(TRUE)),
     Rule("equals", Float(1)), Rule("not_equals", OneLetter), Rule("contains", OneLetter),
     Rule("contains", Whole(1)), Rule("not_contains", OneLetter),
     Rule("greater_than", Whole(1)), Rule("greater_or_equal", Huge),
     Rule("less_than", Float(1)), Rule("less_or_equal", Whole(1)), Rule("between", Whole(0)),
     Range2(Whole(0), Float(1)), Range2(Whole(2), Whole(1)), Rule("matches", Whole(0)),
     Otherwise, [Otherwise EXCEPT !.form = "neither"]}

Second(rule) == [rule EXCEPT !.status = {"stale"}]

Monitored(m) == [Base EXCEPT !.monitors = {<<m>>}]
Judged(m)    == [Case(Monitored(m), {}, 1) EXCEPT !.responses = Responses2]

PolicyCases ==
    {Judged([NoMonitor EXCEPT !.evaluate = <<r, Second(q)>>]) : r, q \in RulesTried}
    \cup {Judged([NoMonitor EXCEPT !.evaluate = <<[r EXCEPT !.status = s]>>]) :
            r \in RulesTried, s \in {{}, {"a"}, {"undefined"}}}
    \cup {Judged([NoMonitor EXCEPT !.evaluate = <<>>]),
          Judged([NoMonitor EXCEPT !.evaluate = <<Rule("exists", Truth(TRUE)), Otherwise, Otherwise>>]),
          Judged([NoMonitor EXCEPT !.evaluate = <<[Otherwise EXCEPT !.unknown = TRUE]>>]),
          Judged([NoMonitor EXCEPT !.failure = {}]),
          Judged([NoMonitor EXCEPT !.no_match = {""}])} 

Observations ==
    {[NoObservation EXCEPT !.key = k, !.scale = s] :
        k \in {"status_code", "body", "json_array_length", "json_ratio", "other"},
        s \in {{}, {0}, {3}}}
    \cup {[NoObservation EXCEPT !.key = "body", !.yes = FALSE],
          [NoObservation EXCEPT !.pointer = "~"], [NoObservation EXCEPT !.fields = 2],
          [NoObservation EXCEPT !.key = "json_ratio", !.denominator = "~"],
          [NoObservation EXCEPT !.key = "json_ratio", !.unknown = TRUE]}

Header(name, plain, secret) == [name |-> name, plain |-> plain, secret |-> secret]

HeaderLists ==
    {<<h>> : h \in {Header("x", 2, {}), Header("x", 5, {}), Header("", 1, {}),
                    Header("host", 1, {}), Header("x", 0, {"short"}), Header("x", 2, {"long"}),
                    Header("x", 1, {"absent"}), Header("x", 1, {""}), Header("x", 3, {"short"})}}
    \cup {<<Header("x", n, {}), Header(y, 2, s)>> : n \in {1, 2}, y \in {"x", "y"},
                                                    s \in {{}, {"long"}}}
    \cup {<<Header("x", 0, {}), Header("y", 0, {}), Header("z", 0, {})>>}

HttpMonitors ==
    {[NoMonitor EXCEPT !.observe = {o}] : o \in Observations}
    \cup {[NoMonitor EXCEPT !.url = u, !.method = v, !.body = b] :
            u \in {{}, {"invalid"}, {"http"}, {"https"}}, v \in {{}, {"POST"}, {"other"}},
            b \in {{}, {1}, {3}}}
    \cup {[NoMonitor EXCEPT !.headers = hs] : hs \in HeaderLists}
    \cup {[NoMonitor EXCEPT !.timeout = Ms(t), !.response = n] : t \in {0, 3, 4},
                                                                 n \in {{}, {0}, {4}}}

SocketMonitors ==
    {[NoMonitor EXCEPT !.type = {t}, !.host = h, !.port = p, !.timeout = o,
                       !.observe = {[NoObservation EXCEPT !.key = "latency_ms"]}] :
        t \in {"tcp_connect", "icmp_ping", "tcp_exchange", "dns", "other"},
        h \in {{}, {"invalid"}, {"host"}}, p \in {{}, {0}, {3}}, o \in {{}, Ms(0), Ms(3)}}
    \cup {[NoMonitor EXCEPT !.type = {"tcp_exchange"}, !.send = s, !.read_until = d,
                            !.response = r, !.observe = {[NoObservation EXCEPT !.key = "body"]}] :
            s \in {{2}, {3}}, d \in {{}, {0}, {2}, {4}}, r \in {{}, {1}, {2}, {5}}}
    \cup {[NoMonitor EXCEPT !.type = {"dns"}, !.family = f,
                            !.observe = {[NoObservation EXCEPT !.key = k]}] :
            f \in {{}, {"ipv4"}, {"other"}}, k \in {"addresses", "body"}}

MonitorCases ==
    {Judged(m) : m \in HttpMonitors}
    \cup {Case(Monitored(m), {}, 0) : m \in SocketMonitors}
    \cup {Judged([NoMonitor EXCEPT !.interval = i, !.ttl = t, !.id = n]) :
            i \in {{}, Ms(0), Ms(5), Ms(6)}, t \in {{}, Ms(0), Ms(4)}, n \in {{""}, {"s"}}}
    \cup {Case([Base EXCEPT !.monitors = {ms}], {}, 0) :
            ms \in {<<NoMonitor, NoMonitor>>, <<NoMonitor, [NoMonitor EXCEPT !.id = {"t"}]>>,
                    <<NoMonitor, NoMonitor, NoMonitor>>,
                    <<[NoMonitor EXCEPT !.unknown = TRUE]>>}}

-----------------------------------------------------------------------------
NoCard ==
    [id |-> {"c"}, type |-> {"layout"}, unknown |-> FALSE, hold |-> Ms(1), transition |-> {},
     palette |-> <<>>, pixels |-> <<>>, local_color |-> {}, utc_color |-> {},
     indicators |-> <<>>, widgets |-> {}, root |-> {}]

Carded(w, h, cards) ==
    [Base EXCEPT !.display = Display(w, h), !.indicators = {}, !.cards = {cards}]

Tree(root)    == [NoCard EXCEPT !.root = {root}]
Placed(items) == [NoCard EXCEPT !.widgets = {items}]

Split(type, gap, children) ==
    [NoItem EXCEPT !.type = {type}, !.id = {}, !.source = {}, !.gap = gap,
                   !.children = children]

Child(name, size, weight) == [NoItem EXCEPT !.id = {name}, !.size = size, !.weight = weight]

ShareKinds ==
    {<<{}, {}>>, <<{0}, {}>>, <<{1}, {}>>, <<{2}, {}>>, <<{}, {2}>>, <<{}, {5}>>, <<{1}, {1}>>}

SplitTrees ==
    {Split(type, gap, <<Child("u", a[1], a[2]), Child("v", b[1], b[2]), Child("w", c[1], c[2])>>) :
        type \in {"row", "column"}, gap \in {{}, {1}},
        a \in ShareKinds, b \in ShareKinds \ {<<{0}, {}>>}, c \in {<<{}, {}>>, <<{2}, {}>>, <<{}, {3}>>}}
    \cup {Split("row", {}, <<Child("u", {}, {}), Split(inner, g, <<Child(n, {}, {2}), Child("w", s, {})>>)>>) :
            inner \in {"row", "column", "stack", "other"}, g \in {{}, {1}, {7}},
            n \in {"", "u", "v"}, s \in {{}, {1}}}
    \cup {Split("stack", {}, <<Child("u", {}, {}), Child(n, {}, {})>>) : n \in {"u", "v"}}
    \cup {Split("row", {}, <<>>), [Split("row", {}, <<Child("u", {}, {})>>) EXCEPT !.size = {1}],
          Child("u", {}, {}),
          Split("row", {}, <<Split("row", {}, <<Split("row", {}, <<Child("u", {}, {})>>)>>)>>)}

Widgets ==
    {[NoItem EXCEPT !.type = {"clock"}, !.timezone = z, !.color = c, !.source = s] :
        z \in {{}, {"utc"}, {"other"}}, c \in {{}, {9}}, s \in {{}, {""}, {"s"}}}
    \cup {[NoItem EXCEPT !.type = {"bar"}, !.minimum = a, !.maximum = b, !.direction = d,
                         !.track_color = {2}] :
            a \in {{}, {1}}, b \in {{1}, {3}}, d \in {{}, {"left"}, {"up"}, {"down"}, {"other"}}}
    \cup {[NoItem EXCEPT !.type = {"status_grid"}, !.source = {}, !.sources = ss,
                         !.columns = n, !.gap = g] :
            ss \in {<<"s">>, <<"s", "t">>, <<"s", "t", "x">>, <<"s", "s">>, <<"s", "">>},
            n \in {{}, {1}, {2}}, g \in {{}, {1}, {7}}}
    \cup {[NoItem EXCEPT !.type = {"bitmap"}, !.source = {}, !.palette = p, !.pixels = q] :
            p \in {<<>>, ("." :> 3), ("." :> 3) @@ ("#" :> 8), ("." :> 9), ("" :> 1)},
            q \in {<<>>, <<<<".", ".", ".">>, <<".", ".", ".">>>>,
                   <<<<".", "#", ".">>, <<".", ".", "#">>>>}}
    \cup {[NoItem EXCEPT !.type = {"aggregate_status"}, !.source = {}, !.sources = ss,
                         !.priority = ps, !.colors = cs] :
            ss \in {<<>>, <<"s", "t">>, <<"s", "s">>},
            ps \in {<<"a">>, <<"a", "unknown">>, <<"undefined">>, <<"a", "a">>},
            cs \in {("a" :> 8), ("a" :> 8) @@ ("unknown" :> 7), ("undefined" :> 1)}}

Reports2 ==
    {Says("s", "a", Whole(n)) : n \in {0, 2, 4}}
        \cup {Says("s", "a", Float(2)), Says("s", "undefined", NoValue)}

WidgetCases ==
    {Case(Carded(4, 3, <<Placed(<<At(w, x, 1, 3, 2)>>)>>), Reports2, 1) :
        w \in Widgets, x \in {0, 2}}
    \cup {Case(Carded(3, 2, <<Tree(w)>>), Reports2, 1) : w \in Widgets}

LayoutCases ==
    {Case(Carded(w, 3, <<Tree(tree)>>), {}, 1) : tree \in SplitTrees, w \in {4, 5}}
    \cup {Case(Carded(2, 2, <<Placed(<<At(NoItem, 0, 0, 1, 1), At([NoItem EXCEPT !.id = {n}], 0, y, 2, 1)>>)>>),
               {}, 1) : n \in {"w", "v"}, y \in 0..2}

-----------------------------------------------------------------------------
PixelsOf(w, h) == [y \in 1..h |-> [x \in 1..w |-> IF x = y THEN "#" ELSE "."]]

BitmapCard(name, c) ==
    [NoCard EXCEPT !.id = {name}, !.type = {"bitmap"}, !.palette = ("." :> c) @@ ("#" :> 8),
                   !.pixels = PixelsOf(3, 2)]

IndicatorCard(name) ==
    [NoCard EXCEPT !.id = {name}, !.type = {"indicators"},
                   !.indicators = <<At(NoItem, 1, 0, 2, 1)>>]

Transitions ==
    {{}} \cup {{[type |-> {t}, duration |-> d, unknown |-> FALSE]} :
                t \in {"instant", "fade", "slide_left", "slide_right", "slide_up", "slide_down",
                       "other"},
                d \in {{}, Ms(2), Ms(3)}}

DeckCases ==
    {Case(Carded(3, 2, <<[BitmapCard("b", 1) EXCEPT !.transition = t, !.hold = hold],
                         [IndicatorCard("i") EXCEPT !.transition = u],
                         [BitmapCard("d", 4) EXCEPT !.hold = Ms(2)]>>),
          {Says("s", "a", NoValue)}, 14) :
        t \in Transitions, u \in Transitions, hold \in {Ms(1), Ms(2), Ms(4)}}
    \cup {Case(Carded(4, 4, <<[NoCard EXCEPT !.type = {type}, !.hold = hold, !.transition = t]>>),
               {}, 2) :
            type \in {"clock", "bitmap", "other"}, hold \in {{}, Ms(0), Ms(1)},
            t \in {{}, {[type |-> {"fade"}, duration |-> Ms(1), unknown |-> FALSE]}}}
    \cup {Case(Carded(3, 2, <<IndicatorCard("i"), BitmapCard(n, 2)>>), {}, 3) : n \in {"", "i", "b"}}
    \cup {Case(Carded(3, 2, <<BitmapCard("a", 1), BitmapCard("b", 2), BitmapCard("c", 3),
                              BitmapCard("d", 4)>>), {}, 1),
          Case([Carded(3, 2, <<BitmapCard("a", 1)>>) EXCEPT !.indicators = Base.indicators], {}, 1),
          Case(Carded(3, 2, <<Placed(<<At(NoItem, 0, 0, 1, 1)>>), Placed(<<>>)>>), {}, 1),
          Case(Carded(4, 1, <<Placed([i \in 1..3 |-> At([NoItem EXCEPT !.id = {<<"u", "v", "w">>[i]}],
                                                        i, 0, 1, 1)]),
                              [Placed(<<At(NoItem, 0, 0, 1, 1),
                                        At([NoItem EXCEPT !.id = {"v"}], 1, 0, 1, 1)>>)
                                 EXCEPT !.id = {"d"}]>>), {}, 1)}

MCCases ==
    AppearanceCases \cup PolicyCases \cup MonitorCases \cup WidgetCases \cup LayoutCases
        \cup DeckCases

MCSources == {"s", "t", "x", ""}
=============================================================================
