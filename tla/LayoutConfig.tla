----------------------------- MODULE LayoutConfig -----------------------------
(***************************************************************************)
(* The cards of a configuration as the loader reads them: indicators,      *)
(* widgets, the tree of rows, columns and stacks that gives widgets their  *)
(* places, and decks (src/core/config.cpp, from parse_indicator_config to  *)
(* parse_card).  The conventions are those of the module Fields.           *)
(*                                                                         *)
(* A node of a layout is one record with every field any type has; one     *)
(* that has a field only other types list is `unknown`, as one that has a  *)
(* field no type lists.  Lists are sequences, empty where the array is     *)
(* missing, since an empty array is refused like one.                      *)
(***************************************************************************)
EXTENDS Fields, Geometry

Coordinates(field) == Bounded(field, 0, Limit.dimension)
Extents(field) == Bounded(field, 1, Limit.dimension)

\* The x, y, width and height of an item, where they lie on the display.
OwnBounds(item, display) ==
    {r \in {Rect(x, y, w, h) : x \in Coordinates(item.x), y \in Coordinates(item.y),
                               w \in Extents(item.width), h \in Extents(item.height)} :
        Fits(r, display.width, display.height)}

\* parse_indicator_config.
ParseIndicator(item, display) ==
    LET bounds == OwnBounds(item, display)
    IN  IF Identifiers(item.id) = {} \/ Identifiers(item.source) = {} \/ bounds = {}
        THEN Refused
        ELSE Found([kind |-> "indicator", id |-> Or(Identifiers(item.id), ""),
                    source |-> Or(Identifiers(item.source), ""), rect |-> Or(bounds, <<>>)],
                   ~item.unknown)

-----------------------------------------------------------------------------
\* parse_layout_bounds, layout_bounds_are_valid: the place a parent assigned, if
\* it did, and a node's own otherwise.
Bounds(item, assigned, display) ==
    IF assigned # {}
    THEN {r \in assigned : r.width # 0 /\ r.height # 0}
    ELSE OwnBounds(item, display)

\* A placed widget has no coordinates, any other has no share of a parent.
Misplaced(item, assigned) ==
    \/ item.unknown
    \/ assigned # {} /\ item.x \cup item.y \cup item.width \cup item.height # {}
    \/ assigned = {} /\ item.size \cup item.weight # {}

\* A widget that is read: what every kind of widget has, and what its kind has more.
Widget(kind, item, bounds, more) ==
    LET common == [kind |-> kind, id |-> Or(Identifiers(item.id), ""),
                   source |-> Or(Identifiers(item.source), ""), rect |-> Or(bounds, <<>>)]
    IN  [field \in DOMAIN common \cup DOMAIN more |->
            IF field \in DOMAIN common THEN common[field] ELSE more[field]]

IndicatorRead(item, bounds) ==
    IF Identifiers(item.source) = {} THEN {} ELSE {Widget("indicator", item, bounds, <<>>)}

ClockRead(item, bounds) ==
    {Widget("clock", item, bounds, [colour |-> Or(Colours(item.color), 0), timezone |-> zone]) :
        zone \in {z \in item.timezone \cap {"local", "utc"} :
                    /\ Well(item.source, Identifiers(item.source))
                    /\ Well(item.color, Colours(item.color))
                    /\ Or(bounds, <<>>).width >= Limit.clock_width
                    /\ Or(bounds, <<>>).height >= Limit.clock_height}}

Directions == {"right", "left", "up", "down"}

BarRead(item, bounds, display) ==
    IF /\ Identifiers(item.source) # {}
       /\ item.minimum \cup item.maximum \subseteq Int
       /\ Or(item.maximum, 100) > Or(item.minimum, 0)
       /\ item.direction \subseteq Directions
       /\ Well(item.track_color, Colours(item.track_color))
    THEN {Widget("bar", item, bounds,
            [minimum |-> Or(item.minimum, 0), maximum |-> Or(item.maximum, 100),
             direction |-> Or(item.direction, "right"),
             track |-> Or(Colours(item.track_color), display.background)])}
    ELSE {}

\* Faulty: the gaps of a grid are not counted.
GridFitsWithoutGaps(r, count, columns, gap) ==
    CellsFit(r.width, columns, 0) /\ CellsFit(r.height, Rows(count, columns), 0)

GridFits(r, count, columns, gap) ==
    CellsFit(r.width, columns, gap) /\ CellsFit(r.height, Rows(count, columns), gap)

GridRead(item, bounds) ==
    LET count == Len(item.sources)
        gap   == Or(Coordinates(item.gap), 0)
    IN  {Widget("status_grid", item, bounds,
            [sources |-> item.sources, columns |-> columns, gap |-> gap]) :
            columns \in
                {c \in Bounded(item.columns, 1, count) :
                    /\ count \in 1..Limit.widgets
                    /\ Well(item.gap, Coordinates(item.gap))
                    /\ ProperNames(item.sources)
                    /\ GridFits(Or(bounds, <<>>), count, c, gap)}}

\* A palette is a function from characters ("" for a key that is not one
\* printable character), and pixels are rows of characters.
BitmapProper(palette, pixels, width, height) ==
    /\ Cardinality(DOMAIN palette) \in 1..Limit.palette
    /\ "" \notin DOMAIN palette
    /\ \A character \in DOMAIN palette : Colours({palette[character]}) # {}
    /\ Len(pixels) = height
    /\ \A row \in 1..height :
          /\ Len(pixels[row]) = width
          /\ \A column \in 1..width : pixels[row][column] \in DOMAIN palette

BitmapRead(item, bounds) ==
    LET r == Or(bounds, <<>>)
    IN  IF BitmapProper(item.palette, item.pixels, r.width, r.height)
        THEN {Widget("bitmap", item, bounds,
                [palette |-> item.palette, pixels |-> item.pixels])}
        ELSE {}

AggregateRead(item, bounds, display) ==
    IF /\ Len(item.sources) \in 1..Limit.widgets
       /\ Len(item.priority) \in 1..Limit.statuses
       /\ ProperNames(item.sources)
       /\ ProperNames(item.priority)
       /\ DOMAIN item.colors = {item.priority[i] : i \in 1..Len(item.priority)}
       /\ \A status \in DOMAIN item.colors : Colours({item.colors[status]}) # {}
       /\ Well(item.default_color, Colours(item.default_color))
    THEN {Widget("aggregate_status", item, bounds,
            [sources |-> item.sources, priority |-> item.priority, colors |-> item.colors,
             default |-> Or(Colours(item.default_color), display.background)])}
    ELSE {}

\* parse_layout_widget.
ParseWidget(item, assigned, display) ==
    LET bounds == Bounds(item, assigned, display)
        type   == Or(item.type, "")
        read   ==
            CASE Identifiers(item.id) = {} \/ bounds = {} -> {}
              [] OTHER ->
                CASE type = "indicator"        -> IndicatorRead(item, bounds)
                  [] type = "clock"            -> ClockRead(item, bounds)
                  [] type = "bar"              -> BarRead(item, bounds, display)
                  [] type = "status_grid"      -> GridRead(item, bounds)
                  [] type = "bitmap"           -> BitmapRead(item, bounds)
                  [] type = "aggregate_status" -> AggregateRead(item, bounds, display)
                  [] OTHER                     -> {}
    IN  [value |-> read, sound |-> read # {} /\ ~Misplaced(item, assigned)]

-----------------------------------------------------------------------------
(* The tree.  What is read of it is passed from node to node:              *)
(* [nodes, ids, widgets, valid, sound, pending], where `valid` is what     *)
(* parse_layout_node returned so far, and `pending` are the calls of it    *)
(* that are still to be made, the next one first: the stack of the         *)
(* recursion.                                                              *)

Invalid(read) == [read EXCEPT !.valid = FALSE, !.sound = FALSE]

\* A leaf.
AddPlaced(parsed, read) ==
    LET new == {w \in parsed.value : w.id \notin read.ids}
    IN  IF new = {} THEN Invalid(read)
        ELSE [read EXCEPT !.ids = @ \cup {w.id : w \in new},
                          !.widgets = Append(@, Or(new, <<>>)),
                          !.sound = @ /\ parsed.sound]

\* The share of the split a child asks for: a fixed size, or a weight.
Sizes(child)   == Extents(child.size)
Weight(child)  == Or(Bounded(child.weight, 1, Limit.weight), 1)
ShareRead(child) ==
    /\ child.size = {} \/ child.weight = {}
    /\ Well(child.size, Sizes(child))
    /\ Well(child.weight, Bounded(child.weight, 1, Limit.weight))

FixedSize(child)   == Or(Sizes(child), 0)
Weighted(children) == {i \in 1..Len(children) : children[i].size = {}}

\* What the first i children ask for, of each i: fixed sizes, and weights.
FixedSizes(children) ==
    LET upto[i \in 0..Len(children)] ==
            IF i = 0 THEN 0 ELSE upto[i - 1] + FixedSize(children[i])
    IN  upto
Weights(children) ==
    LET upto[i \in 0..Len(children)] ==
            IF i = 0 THEN 0
            ELSE upto[i - 1] + (IF children[i].size = {} THEN Weight(children[i]) ELSE 0)
    IN  upto

\* Faulty: each weighted child gets the quotient, and the remainder is lost.
SharesRounded(children, extent) ==
    [i \in 1..Len(children) |->
        IF children[i].size # {} THEN FixedSize(children[i])
        ELSE (extent * Weight(children[i])) \div Weights(children)[Len(children)]]

\* What each child gets of the extent that is left to the weighted ones: the
\* difference of two rounded prefix sums, so that nothing of it is lost.
Shares(children, extent) ==
    LET weights == Weights(children)
        upto(i) == (extent * weights[i]) \div weights[Len(children)]
    IN  [i \in 1..Len(children) |->
            IF children[i].size # {} THEN FixedSize(children[i])
            ELSE upto(i) - upto(i - 1)]

\* The children can be given places: [fits, shares].
Allocation(children, gap, extent) ==
    LET gaps  == gap * (Len(children) - 1)
        fixed == FixedSizes(children)[Len(children)]
        left  == extent - fixed - gaps
        many  == Cardinality(Weighted(children))
        fits  == /\ \A i \in 1..Len(children) : ShareRead(children[i])
                 /\ gaps <= extent
                 /\ fixed + gaps <= extent
                 /\ many = 0 => left = 0
                 /\ many > 0 => left >= many
    IN  IF ~fits THEN [fits |-> FALSE, shares |-> <<>>]
        ELSE LET shares == Shares(children, left)
             IN  [fits   |-> \A i \in 1..Len(children) : shares[i] # 0,
                  shares |-> shares]

\* Where each of the shares begins, one after the other, and where the next would.
Cursor(gap, shares) ==
    LET after[i \in 0..Len(shares)] ==
            IF i = 0 THEN 0 ELSE after[i - 1] + shares[i] + gap
    IN  after

\* The places of the children of a row or a column.
Places(type, bounds, gap, shares) ==
    LET cursor == Cursor(gap, shares)
    IN  [i \in 1..Len(shares) |->
            IF type = "row"
            THEN [bounds EXCEPT !.x = @ + cursor[i - 1], !.width = shares[i]]
            ELSE [bounds EXCEPT !.y = @ + cursor[i - 1], !.height = shares[i]]]

Shared(child) == child.size \cup child.weight # {}

\* A call of parse_layout_node on a child; one that is `refused` is not made.
Call(item, bounds, depth, refused) ==
    [item |-> item, bounds |-> bounds, depth |-> depth, refused |-> refused]

\* The children are read in their order and before what was pending, each also
\* after another was refused.
Calling(read, calls) == [read EXCEPT !.pending = calls \o @]

\* parse_layout_node up to its calls for the children.
ParseNode(call, display, before) ==
    LET read     == [before EXCEPT !.nodes = @ + 1]
        item     == call.item
        bounds   == call.bounds
        type     == Or(item.type, "")
        known    == [read EXCEPT !.sound = /\ @
                                           /\ ~item.unknown
                                           /\ type = "stack" => item.gap = {}]
        children == item.children
        gap      == Or(Coordinates(item.gap), 0)
        extent   == IF type = "row" THEN bounds.width ELSE bounds.height
        split    == Allocation(children, gap, extent)
        places   == Places(type, bounds, gap, split.shares)
    IN  IF call.refused THEN Invalid(before)
        ELSE IF read.nodes > Limit.nodes \/ call.depth > Limit.depth \/ type = ""
        THEN Invalid(read)
        ELSE IF type \notin {"row", "column", "stack"}
        THEN AddPlaced(ParseWidget(item, {bounds}, display), read)
        ELSE IF Len(children) \notin 1..Limit.widgets THEN Invalid(known)
        ELSE IF type = "stack"
        THEN Calling(known, [i \in 1..Len(children) |->
                                Call(children[i], bounds, call.depth + 1, Shared(children[i]))])
        ELSE IF ~Well(item.gap, Coordinates(item.gap)) \/ ~split.fits THEN Invalid(known)
        ELSE Calling(known, [i \in 1..Len(children) |->
                                Call(children[i], places[i], call.depth + 1, FALSE)])

ParseNext(display, read) ==
    IF read.pending = <<>> THEN read
    ELSE ParseNode(Head(read.pending), display, [read EXCEPT !.pending = Tail(@)])

\* Each of the nodes that are counted adds at most as many calls as there may be
\* widgets.
MaxCalls == 1 + Limit.nodes * Limit.widgets

\* All that is read from a first call.
ParseCalls(call, display) ==
    LET read[k \in 0..MaxCalls] ==
            IF k = 0
            THEN [nodes |-> 0, ids |-> {}, widgets |-> <<>>, valid |-> TRUE, sound |-> TRUE,
                  pending |-> <<call>>]
            ELSE ParseNext(display, read[k - 1])
    IN  read[MaxCalls]

\* The node of a layout's root on the whole display.
ParseRoot(root, display) ==
    ParseCalls(Call(root, Rect(0, 0, display.width, display.height), 0, FALSE), display)

-----------------------------------------------------------------------------
\* Entries parsed one by one into those kept: an entry that is refused, or whose
\* id an earlier one has, is an error and is left out.
Keep(kept, parsed) ==
    LET new == {v \in parsed.value : v.id \notin kept.ids}
    IN  IF new = {} THEN [kept EXCEPT !.sound = FALSE]
        ELSE [items |-> Append(kept.items, Or(new, <<>>)),
              ids   |-> kept.ids \cup {v.id : v \in new},
              sound |-> kept.sound /\ parsed.sound]

KeepAll(parsed) ==
    LET kept[i \in 0..Len(parsed)] ==
            IF i = 0 THEN [items |-> <<>>, ids |-> {}, sound |-> TRUE]
            ELSE Keep(kept[i - 1], parsed[i])
    IN  kept[Len(parsed)]

\* The content of a card of `count` entries, which must all have been kept.
AllKept(kind, count, parsed, limit) ==
    LET kept == KeepAll(parsed)
    IN  IF count \notin 1..limit \/ Len(kept.items) # count
        THEN Refused
        ELSE Found([kind |-> kind, items |-> kept.items], kept.sound)

\* A tree of which `read` was read.
LayoutOf(root, read) ==
    IF Shared(root) \/ ~read.valid \/ Len(read.widgets) \notin 1..Limit.widgets
    THEN Refused
    ELSE Found([kind |-> "layout", items |-> read.widgets], read.sound)

ParseLayout(card, display) ==
    IF card.widgets = {} /\ card.root # {}
    THEN LET root == Or(card.root, <<>>)
         IN  LayoutOf(root, ParseRoot(root, display))
    ELSE IF card.widgets # {} /\ card.root = {}
    THEN LET widgets == Or(card.widgets, <<>>)
         IN  AllKept("layout", Len(widgets),
                     [i \in 1..Len(widgets) |-> ParseWidget(widgets[i], {}, display)],
                     Limit.widgets)
    ELSE Refused

ParseBitmapCard(card, display) ==
    IF BitmapProper(card.palette, card.pixels, display.width, display.height)
    THEN Found([kind |-> "bitmap", palette |-> card.palette, pixels |-> card.pixels], TRUE)
    ELSE Refused

ParseClockCard(card, display) ==
    IF /\ display.width >= Limit.clock_width /\ display.height >= Limit.clock_card
       /\ Well(card.local_color, Colours(card.local_color))
       /\ Well(card.utc_color, Colours(card.utc_color))
    THEN Found([kind |-> "clock", local |-> Or(Colours(card.local_color), 0),
                utc |-> Or(Colours(card.utc_color), 0)], TRUE)
    ELSE Refused

ParseContent(card, display) ==
    CASE card.type = {"bitmap"} -> ParseBitmapCard(card, display)
      [] card.type = {"clock"}  -> ParseClockCard(card, display)
      [] card.type = {"indicators"} ->
            AllKept("indicators", Len(card.indicators),
                    [i \in 1..Len(card.indicators) |->
                        ParseIndicator(card.indicators[i], display)],
                    Limit.indicators)
      [] card.type = {"layout"} -> ParseLayout(card, display)
      [] OTHER                  -> Refused

Animated == {"fade", "slide_left", "slide_right", "slide_up", "slide_down"}

\* parse_card_transition; no duration may stand with "instant", one must with any
\* other type.
ParseTransition(field) ==
    IF field = {} THEN Found([type |-> "instant", duration |-> 0], TRUE)
    ELSE LET t        == Or(field, <<>>)
             duration == Durations(t.duration, 1, Limit.transition)
         IN  CASE t.type = {"instant"} /\ t.duration = {} ->
                    Found([type |-> "instant", duration |-> 0], ~t.unknown)
               [] t.type \cap Animated # {} /\ duration # {} ->
                    Found([type |-> Or(t.type \cap Animated, ""), duration |-> Or(duration, 0)], ~t.unknown)
               [] OTHER -> Refused

\* A card and its parts as they were read.
CardOf(card, hold, transition, content) ==
    IF Identifiers(card.id) = {} \/ hold = {} \/ transition.value = {} \/ content.value = {}
    THEN Refused
    ELSE Found([id |-> Or(Identifiers(card.id), ""), hold |-> Or(hold, 0),
                transition |-> Or(transition.value, <<>>),
                content |-> Or(content.value, <<>>)],
               transition.sound /\ content.sound /\ ~card.unknown)

ParseCard(card, display) ==
    CardOf(card, Durations(card.hold, Limit.min_hold, Limit.hold),
           ParseTransition(card.transition), ParseContent(card, display))
===============================================================================
