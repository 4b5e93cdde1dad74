------------------------------- MODULE Renderer -------------------------------
(***************************************************************************)
(* From a configuration and the shared status store to a picture           *)
(* (src/core/renderer.cpp).  A picture is a function from points to        *)
(* colours.  What a widget draws is a sequence of strokes, rectangles with *)
(* a colour, painted in order; a stroke that does not lie on the frame is  *)
(* the failure of fill_rect or set_pixel that ends the rendering with an   *)
(* error.                                                                  *)
(*                                                                         *)
(* `states` gives for each source the optional entry of the store and the  *)
(* value observed last.  Time zero is the renderer's animation origin.     *)
(* The digits of a clock are abstracted to the box they are drawn in.      *)
(***************************************************************************)
EXTENDS Appearance, Geometry, StateStore, SequencesExt

CONSTANTS
    ClockWidth, ClockHeight,  \* the box of the digits
    MaxEpoch                  \* the last instant a sourced clock can show

ASSUME RendererAssumption ==
    /\ ClockWidth \in Nat \ {0} /\ ClockHeight \in Nat \ {0}
    /\ MaxEpoch \in Nat

Stroke(rect, colour) == [rect |-> rect, colour |-> colour]

\* A widget that "became invalid during rendering".
Broken == Stroke(Rect(0, 0, 0, 0), 0)

\* What the store has of a source.
Stored(states, source) == IF source \in DOMAIN states THEN states[source] ELSE {}

\* StateStore::resolve.
ResolvedState(states, source, now) == {Resolve(s.entry, now) : s \in Stored(states, source)}

\* sample_source: the optional colour of a source.
SampleStatus(config, status, elapsed, short) ==
    {Sample(config.statuses[name], elapsed, short) :
        name \in {IF status \in DOMAIN config.statuses THEN status ELSE "unknown"}
                    \cap DOMAIN config.statuses}

SampleSource(config, states, source, now, short) ==
    LET state == ResolvedState(states, source, now)
    IN  SampleStatus(config, IF state = {} THEN "unknown" ELSE The(state).status,
                     now - (IF state = {} THEN 0 ELSE The(state).entered_at), short)

\* numeric_value of the value a source has, if it is known.
Numeric(states, source) ==
    {s.value.v : s \in {t \in Stored(states, source) : t.value.kind \in {"integer", "real"}}}

Coloured(rect, colours) == IF colours = {} THEN <<>> ELSE <<Stroke(rect, The(colours))>>

IndicatorStrokes(config, states, w, now, short) ==
    Coloured(w.rect, SampleSource(config, states, w.source, now, short))

\* render_bar: its track, and its filled part if the source has a number.
BarStrokes(config, states, w, now, short) ==
    LET horizontal == w.direction \in {"right", "left"}
        extent     == IF horizontal THEN w.rect.width ELSE w.rect.height
        filled(v)  == Filled(extent, v - w.minimum, w.maximum - w.minimum, short)
        colours    == SampleSource(config, states, w.source, now, short)
        parts      == IF ResolvedState(states, w.source, now) = {} THEN {}
                      ELSE {filled(v) : v \in Numeric(states, w.source)} \ {0}
    IN  <<Stroke(w.rect, w.track)>>
            \o IF parts = {} THEN <<>>
               ELSE Coloured(FilledRect(w.rect, w.direction, The(parts)), colours)

\* render_status_grid.
GridStrokes(config, states, w, now, short) ==
    LET count == Len(w.sources)
        cells == [i \in 1..count |->
                    Coloured(GridCell([x |-> w.rect.x, y |-> w.rect.y, width |-> w.rect.width,
                                       height |-> w.rect.height, columns |-> w.columns,
                                       gap |-> w.gap], count, i - 1),
                             SampleSource(config, states, w.sources[i], now, short))]
    IN  IF /\ w.columns \in 1..count
           /\ CellsFit(w.rect.width, w.columns, w.gap)
           /\ CellsFit(w.rect.height, Rows(count, w.columns), w.gap)
        THEN FlattenSeq(cells)
        ELSE <<Broken>>

\* render_aggregate_status: the first status of the priorities that a source is in.
AggregateStrokes(states, w, now) ==
    LET status(source) == IF ResolvedState(states, source, now) = {} THEN "unknown"
                          ELSE The(ResolvedState(states, source, now)).status
        ranks == {i \in 1..Len(w.priority) :
                    \E s \in DOMAIN w.sources : status(w.sources[s]) = w.priority[i]}
        first == CHOOSE i \in ranks : \A j \in ranks : i <= j
    IN  IF ranks = {} THEN <<Stroke(w.rect, w.default)>>
        ELSE IF w.priority[first] \notin DOMAIN w.colors THEN <<Broken>>
        ELSE <<Stroke(w.rect, w.colors[w.priority[first]])>>

\* The pixels of a bitmap at x, y, row by row.
BitmapStrokes(w, x, y) ==
    FlattenSeq([row \in 1..Len(w.pixels) |->
        [column \in 1..Len(w.pixels[row]) |->
            IF w.pixels[row][column] \in DOMAIN w.palette
            THEN Stroke(Rect(x + column - 1, y + row - 1, 1, 1),
                        w.palette[w.pixels[row][column]])
            ELSE Broken]])

\* draw_time can draw in the rectangle r.
ClockFits(r, display) ==
    r.width >= ClockWidth /\ r.height >= ClockHeight /\ Fits(r, display.width, display.height)

Digits(r) ==
    Rect(r.x + (r.width - ClockWidth) \div 2, r.y + (r.height - ClockHeight) \div 2,
         ClockWidth, ClockHeight)

\* A clock with a source shows the instant the source has, and nothing if it has
\* none; a clock without shows the present, which can always be converted.
ClockStrokes(config, states, w, now) ==
    LET shown == \/ w.source = ""
                 \/ /\ ResolvedState(states, w.source, now) # {}
                    /\ \E v \in Numeric(states, w.source) : 0 <= v /\ v <= MaxEpoch
    IN  IF ~shown THEN <<>>
        ELSE IF ClockFits(w.rect, config.display)
        THEN <<Stroke(Digits(w.rect), w.colour)>>
        ELSE <<Broken>>

WidgetStrokes(config, states, w, now, short) ==
    CASE w.kind = "indicator"        -> IndicatorStrokes(config, states, w, now, short)
      [] w.kind = "bar"              -> BarStrokes(config, states, w, now, short)
      [] w.kind = "status_grid"      -> GridStrokes(config, states, w, now, short)
      [] w.kind = "aggregate_status" -> AggregateStrokes(states, w, now)
      [] w.kind = "bitmap"           -> BitmapStrokes(w, w.rect.x, w.rect.y)
      [] w.kind = "clock"            -> ClockStrokes(config, states, w, now)

\* A clock card draws two clocks; one that does not fit is left out.
ClockCardStrokes(content, display) ==
    LET top    == Rect(0, 0, display.width, ClockHeight)
        bottom == Rect(0, display.height - ClockHeight, display.width, ClockHeight)
        face(r, colour) == IF ClockFits(r, display) THEN <<Stroke(Digits(r), colour)>> ELSE <<>>
    IN  face(top, content.local) \o face(bottom, content.utc)

ContentStrokes(config, states, content, now, short) ==
    CASE content.kind \in {"indicators", "layout"} ->
            FlattenSeq([i \in 1..Len(content.items) |->
                WidgetStrokes(config, states, content.items[i], now, short)])
      [] content.kind = "bitmap" -> BitmapStrokes(content, 0, 0)
      [] content.kind = "clock"  -> ClockCardStrokes(content, config.display)

-----------------------------------------------------------------------------
\* Frame::fill_rect of a picture [success, pixels].
Painted(display, picture, stroke) ==
    IF ~picture.success \/ ~Fits(stroke.rect, display.width, display.height)
    THEN [picture EXCEPT !.success = FALSE]
    ELSE [picture EXCEPT !.pixels =
            [p \in DOMAIN @ |-> IF Inside(p, stroke.rect) THEN stroke.colour ELSE @[p]]]

Blank(display) ==
    [success |-> TRUE,
     pixels  |-> [p \in Points(display.width, display.height) |-> display.background]]

\* render_card, and render_indicators of the content "indicators".
RenderContent(config, states, content, now, short) ==
    LET strokes == ContentStrokes(config, states, content, now, short)
        painted[i \in 0..Len(strokes)] ==
            IF i = 0 THEN Blank(config.display)
            ELSE Painted(config.display, painted[i - 1], strokes[i])
    IN  painted[Len(strokes)]

\* Faulty: transitions take no time of the cycle.
HoldOnly(card) == card.hold

\* How long a card and the transition after it take.
Segment(card) == card.hold + card.transition.duration

\* When the i-th card begins in the cycle, and when the cycle ends.
Begins(cards, i) ==
    LET begin[j \in 1..Len(cards) + 1] ==
            IF j = 1 THEN 0 ELSE begin[j - 1] + Segment(cards[j - 1])
    IN  begin[i]

Position(cards, now) == (IF now < 0 THEN 0 ELSE now) % Begins(cards, Len(cards) + 1)

\* The card whose turn it is.
Active(cards, position) ==
    CHOOSE i \in DOMAIN cards :
        /\ Begins(cards, i) <= position
        /\ i = Len(cards) \/ position < Begins(cards, i + 1)

\* compose_transition at n / d of its duration.
Composed(display, from, to, type, n, d, short) ==
    LET extent == IF type \in {"slide_left", "slide_right"} THEN display.width
                  ELSE display.height
        offset == SlideOffset(extent, n, d, short)
        pixel(p) == LET s == SlideSource(type, display.width, display.height, offset, p)
                    IN  IF s.frame = "from" THEN from[s.point] ELSE to[s.point]
    IN  [p \in DOMAIN from |->
            IF type = "fade" THEN Blend(from[p], to[p], n, d, short) ELSE pixel(p)]

\* What a deck shows when its active card has been there `since`, given the
\* pictures of that card and of the next.
DeckPicture(display, active, since, from, to, short) ==
    IF since < active.hold \/ active.transition.duration = 0
          \/ active.transition.type = "instant"
    THEN from
    ELSE IF ~from.success \/ ~to.success THEN [from EXCEPT !.success = FALSE]
    ELSE [success |-> TRUE,
          pixels  |-> Composed(display, from.pixels, to.pixels, active.transition.type,
                               since - active.hold, active.transition.duration, short)]

RenderDeck(config, states, now, short) ==
    LET cards    == config.cards
        position == Position(cards, now)
        i        == Active(cards, position)
        picture(card) == RenderContent(config, states, card.content, now, short)
    IN  DeckPicture(config.display, cards[i], position - Begins(cards, i),
                    picture(cards[i]), picture(cards[(i % Len(cards)) + 1]), short)

\* What is shown where no deck turns: the indicators, or the one card.
Still(config) ==
    IF config.cards = <<>>
    THEN [kind |-> "indicators", items |-> config.indicators]
    ELSE config.cards[1].content

\* Renderer::render on a frame of the display's size.
Render(config, states, now, short) ==
    IF Len(config.cards) <= 1
    THEN RenderContent(config, states, Still(config), now, short)
    ELSE RenderDeck(config, states, now, short)
===============================================================================
