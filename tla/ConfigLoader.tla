----------------------------- MODULE ConfigLoader -----------------------------
(***************************************************************************)
(* load_config_file of src/core/config.cpp: from the document in a file to *)
(* the configuration of the program, or to none.  The parsers of its parts *)
(* are in AppearanceConfig, MonitorConfig and LayoutConfig.                *)
(***************************************************************************)
EXTENDS AppearanceConfig, MonitorConfig, LayoutConfig

\* schema_version as `get<int>` reads it: the low bits of a 64-bit integer.
SchemaRead(field) == {n % Limit.int_range : n \in field}

ParseDisplay(field) ==
    LET default == [width |-> Limit.side, height |-> Limit.side, background |-> 0]
    IN  IF field = {} THEN Found(default, FALSE)
        ELSE LET d      == Or(field, <<>>)
                 width  == Extents(d.width)
                 height == Extents(d.height)
             IN  Found([width      |-> Or(width, Limit.side),
                        height     |-> Or(height, Limit.side),
                        background |-> Or(Colours(d.background), 0)],
                       /\ ~d.unknown
                       /\ width # {} /\ height # {}
                       /\ Or(width, 1) <= Limit.pixels \div Or(height, 1)
                       /\ Well(d.background, Colours(d.background)))

\* The statuses whose appearances could be read.
KeepStatuses(parsed) ==
    [value |-> [name \in {n \in Identifiers(DOMAIN parsed) : parsed[n].value # {}} |->
                    Or(parsed[name].value, <<>>)],
     sound |-> /\ {"unknown", "stale"} \subseteq DOMAIN parsed
               /\ "" \notin DOMAIN parsed
               /\ \A name \in DOMAIN parsed : parsed[name].sound]

\* The statuses, a function from names to JSON objects.
ParseStatuses(field) ==
    LET objects == Or(field, <<>>)
    IN  IF field = {} \/ Cardinality(DOMAIN objects) \notin 1..Limit.statuses
        THEN [value |-> <<>>, sound |-> FALSE]
        ELSE KeepStatuses([name \in DOMAIN objects |-> ParseAppearance(objects[name])])

ParseMonitors(field, statuses) ==
    LET entries == Or(field, <<>>)
    IN  IF Len(entries) \notin 0..Limit.monitors
        THEN [items |-> <<>>, sound |-> FALSE]
        ELSE KeepAll([i \in 1..Len(entries) |-> ParseMonitor(entries[i], statuses)])

WidgetCount(content) ==
    IF content.kind \in {"indicators", "layout"} THEN Len(content.items) ELSE 0

\* The statuses the aggregates of a card name.
AggregateStatuses(content) ==
    IF content.kind # "layout" THEN {}
    ELSE UNION {ToSet(w.priority) :
                    w \in {v \in ToSet(content.items) : v.kind = "aggregate_status"}}

\* One more card; one that brings too many widgets is refused.
KeepCard(kept, parsed, statuses) ==
    LET with  == Keep(kept, parsed)
        new   == {c \in parsed.value : c.id \notin kept.ids}
        total == kept.total + (IF new = {} THEN 0 ELSE WidgetCount(Or(new, <<>>).content))
    IN  [items |-> IF total <= Limit.widgets THEN with.items ELSE kept.items,
         ids   |-> with.ids,
         total |-> total,
         sound |-> /\ with.sound
                   /\ total <= Limit.widgets
                   /\ \A c \in new : AggregateStatuses(c.content) \subseteq DOMAIN statuses]

ParseCards(cards, display, statuses) ==
    IF Len(cards) \notin 1..Limit.cards
    THEN [items |-> <<>>, sound |-> FALSE]
    ELSE LET kept[i \in 0..Len(cards)] ==
                 IF i = 0 THEN [items |-> <<>>, ids |-> {}, total |-> 0, sound |-> TRUE]
                 ELSE KeepCard(kept[i - 1], ParseCard(cards[i], display), statuses)
         IN  kept[Len(cards)]

ParseIndicators(indicators, display) ==
    IF Len(indicators) \notin 1..Limit.indicators
    THEN [items |-> <<>>, sound |-> FALSE]
    ELSE KeepAll([i \in 1..Len(indicators) |-> ParseIndicator(indicators[i], display)])

\* result.errors is empty.
ErrorFree(root, display, statuses, monitors, shown) ==
    /\ ~root.unknown /\ SchemaRead(root.schema) = {1}
    /\ display.sound /\ statuses.sound /\ monitors.sound /\ shown.sound

\* What the display shows: either indicators or cards.
ParseShown(root, display, statuses) ==
    CASE root.indicators # {} /\ root.cards = {} ->
            ParseIndicators(Or(root.indicators, <<>>), display)
      [] root.cards # {} /\ root.indicators = {} ->
            ParseCards(Or(root.cards, <<>>), display, statuses)
      [] OTHER -> [items |-> <<>>, sound |-> FALSE]

\* The configuration of a document and of its parts as they were read.
Configuration(root, display, statuses, monitors, shown) ==
    IF ErrorFree(root, display, statuses, monitors, shown)
    THEN {[display    |-> Or(display.value, <<>>),
           statuses   |-> statuses.value,
           monitors   |-> monitors.items,
           indicators |-> IF root.indicators # {} THEN shown.items ELSE <<>>,
           cards      |-> IF root.cards # {} THEN shown.items ELSE <<>>]}
    ELSE {}

ParseRootObject(root, display, statuses) ==
    Configuration(root, display, statuses,
                  ParseMonitors(root.monitors, statuses.value),
                  ParseShown(root, Or(display.value, <<>>), statuses.value))

\* load_config_file.  `file` holds no document if the file cannot be read, is too
\* long or is no JSON object.
LoadConfig(file) ==
    UNION {ParseRootObject(root, ParseDisplay(root.display), ParseStatuses(root.statuses)) :
              root \in file}
===============================================================================
