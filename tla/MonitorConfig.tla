----------------------------- MODULE MonitorConfig -----------------------------
(***************************************************************************)
(* The monitors of a configuration: how the loader reads them              *)
(* (src/core/config.cpp, from scalar_state_value to parse_pull_monitor),   *)
(* which of them the runner factories accept afterwards (src/host), and    *)
(* the value an HTTP monitor makes of a response.                          *)
(*                                                                         *)
(* The conventions are those of the module Fields.  A host is a text that  *)
(* valid_network_host accepts, or "" or "invalid"; a URL is "http",        *)
(* "https", "" or "invalid"; a JSON pointer is a text, "~" one that is     *)
(* malformed; a body, a delimiter or a header value is its length.  A      *)
(* monitor is one record with every field any type has; one that has a     *)
(* field only other types list is `unknown`.                               *)
(***************************************************************************)
EXTENDS Fields, Evaluator

CONSTANTS
    Secrets,  \* the secrets that can be resolved: a function from names to lengths
    Tls,      \* built with OpenSSL, or on Windows
    Icmp      \* built on Windows

ASSUME MonitorConfigAssumption ==
    /\ \A name \in DOMAIN Secrets : Secrets[name] \in Nat
    /\ Tls \in BOOLEAN
    /\ Icmp \in BOOLEAN

OrderedComparisons == {"greater_than", "greater_or_equal", "less_than", "less_or_equal"}

\* comparison_operation.
Comparisons ==
    {"exists", "not_exists", "equals", "not_equals", "contains", "not_contains", "between"}
        \cup OrderedComparisons

Scalars == {"none", "bool", "integer", "real", "text"}

\* scalar_state_value and json_scalar: arrays, objects and integers beyond
\* std::int64_t are values of other kinds.
Scalar(node) == {v \in {node} : v.kind \in Scalars}

\* json_number: an integer beyond std::int64_t is a number here.
JsonNumber(node) == {n.v : n \in {v \in {node} : v.kind \in {"integer", "real", "huge"}}}

Bare(op) == [op |-> op, expected |-> NoValue, upper |-> {}]

\* parse_evaluation_condition of [op, listed, operands]: the operands are the
\* elements of the JSON array if it is `listed`, otherwise the one JSON value.
ParseCondition(when) ==
    CASE when.op \notin Comparisons -> {}
      [] when.op \in {"exists", "not_exists"} ->
            IF ~when.listed /\ when.operands[1] = Truth(TRUE) THEN {Bare(when.op)} ELSE {}
      [] when.op = "between" ->
            IF when.listed /\ Len(when.operands) = 2
            THEN {[op |-> "between", expected |-> low, upper |-> {high}] :
                    low \in Scalar(when.operands[1]), high \in Scalar(when.operands[2])}
            ELSE {}
      [] OTHER ->
            IF when.listed THEN {}
            ELSE {[Bare(when.op) EXCEPT !.expected = v] : v \in Scalar(when.operands[1])}

\* The rule an entry gives, if it gives one; `form` is "when", "otherwise" or
\* "neither".
RuleOf(rule) ==
    CASE rule.form = "when" ->
            {[when |-> {c}, status |-> s] :
                c \in ParseCondition(rule.when), s \in Identifiers(rule.status)}
      [] rule.form = "otherwise" -> {[when |-> {}, status |-> s] : s \in Identifiers(rule.status)}
      [] OTHER -> {}

AddRule(parsed, rule) ==
    IF RuleOf(rule) = {} THEN [parsed EXCEPT !.sound = FALSE]
    ELSE [rules |-> Append(parsed.rules, Or(RuleOf(rule), <<>>)),
          sound |-> parsed.sound /\ ~rule.unknown]

ParseRules(entries) ==
    LET parsed[i \in 0..Len(entries)] ==
            IF i = 0 THEN [rules |-> <<>>, sound |-> TRUE]
            ELSE AddRule(parsed[i - 1], entries[i])
    IN  parsed[Len(entries)]

ParsePolicy(m, statuses) ==
    LET failure  == Identifiers(m.failure)
        no_match == Identifiers(m.no_match)
        parsed   == ParseRules(m.evaluate)
        policy   == [failure  |-> Or(failure, "communication_failure"),
                     no_match |-> Or(no_match, "unknown"),
                     rules    |-> parsed.rules]
    IN  IF Len(m.evaluate) \notin 1..Limit.rules \/ ~PolicyValid(policy)
        THEN Refused
        ELSE Found(policy,
                   /\ parsed.sound
                   /\ Well(m.failure, failure) /\ Well(m.no_match, no_match)
                   /\ PolicyStatuses(policy) \subseteq DOMAIN statuses)

-----------------------------------------------------------------------------
Hosts(field)    == field \ {"", "invalid"}
Urls(field)     == field \cap {"http", "https"}
Timeouts(field) == Durations(field, 1, Limit.timeout)
Ports(field)    == Bounded(field, 1, Limit.port)
Responses(field) == Bounded(field, 1, Limit.response)

OwnedHeaders == {"host", "content-length", "transfer-encoding", "connection"}

\* A header [name, plain, secret]: its name in lower case, the length of its
\* value outside a secret reference, and the name the reference holds ("" for
\* one that is malformed).
Written(header)  == header.plain + (IF header.secret = {} THEN 0 ELSE Limit.reference)
Resolved(header) ==
    header.plain + (IF header.secret = {} THEN 0 ELSE Secrets[Or(header.secret, "")])

\* What the headers take together; `lengths` are those of their values.
Total(lengths) == FoldLeft(LAMBDA n, length : n + 1 + length, 0, lengths)

HeaderNames(headers) == [i \in DOMAIN headers |-> headers[i].name]

HeadersValid(headers) ==
    /\ Len(headers) <= Limit.headers
    /\ ProperNames(HeaderNames(headers))
    /\ \A i \in DOMAIN headers :
          /\ headers[i].name \notin OwnedHeaders
          /\ Written(headers[i]) <= Limit.header_value
          /\ "" \notin headers[i].secret
    /\ Total([i \in DOMAIN headers |-> Written(headers[i])]) <= Limit.headers_total

Methods  == {"GET", "HEAD", "POST", "PUT", "PATCH", "DELETE"}
Bodiless == {"GET", "HEAD"}

\* The observation of an HTTP monitor, [fields, key, yes, pointer, denominator,
\* scale, unknown], or none.  `yes` tells that the value of the key is true.
HttpObservations(field) ==
    {o \in field :
        /\ o.fields = 1
        /\ \/ o.key \in {"status_code", "body"} /\ o.yes
           \/ o.key \in {"json_pointer", "json_array_length"} /\ o.pointer # "~"
           \/ /\ o.key = "json_ratio"
              /\ o.pointer # "~" /\ o.denominator # "~"
              /\ Well(o.scale, Bounded(o.scale, 1, Limit.scale))}

\* A timeout or a response limit that is refused is an error and leaves the
\* default in place; everything else that is refused refuses the monitor.
ParseHttp(m) ==
    LET method  == Or(m.method, "GET")
        timeout == Timeouts(m.timeout)
        maximum == Responses(m.response)
        observe == HttpObservations(m.observe)
        minor   == /\ Well(m.timeout, timeout) /\ Well(m.response, maximum)
                   /\ \A o \in m.observe : ~o.unknown
    IN  IF /\ Urls(m.url) # {}
           /\ method \in Methods
           /\ HeadersValid(m.headers)
           /\ Or(m.body, 0) <= Limit.body
           /\ Or(m.body, 0) > 0 => method \notin Bodiless
           /\ observe # {}
        THEN Found([type |-> "http", url |-> Or(Urls(m.url), ""), method |-> method,
                    headers |-> m.headers, body |-> Or(m.body, 0),
                    timeout |-> Or(timeout, Limit.default_timeout),
                    maximum |-> Or(maximum, Limit.default_response),
                    observe |-> Or(observe, <<>>)], minor)
        ELSE Refused

ParseTcpConnect(m) ==
    IF Hosts(m.host) # {} /\ Ports(m.port) # {} /\ Well(m.timeout, Timeouts(m.timeout))
    THEN Found([type |-> "tcp_connect", host |-> Or(Hosts(m.host), ""), port |-> Or(Ports(m.port), 0),
                timeout |-> Or(Timeouts(m.timeout), Limit.default_timeout)], TRUE)
    ELSE Refused

ParseIcmpPing(m) ==
    IF Hosts(m.host) # {} /\ Well(m.timeout, Timeouts(m.timeout))
    THEN Found([type |-> "icmp_ping", host |-> Or(Hosts(m.host), ""),
                timeout |-> Or(Timeouts(m.timeout), Limit.default_timeout)], TRUE)
    ELSE Refused

\* The one observation of a TCP exchange or a DNS monitor, whose value is true.
Observation(field, keys) == {o.key : o \in {p \in field : p.fields = 1 /\ p.yes}} \cap keys

ParseTcpExchange(m) ==
    LET maximum == Or(Responses(m.response), Limit.default_response)
        until   == Bounded(m.read_until, 1, Limit.delimiter)
        observe == Observation(m.observe, {"body", "latency_ms"})
    IN  IF /\ Hosts(m.host) # {} /\ Ports(m.port) # {}
           /\ Well(m.timeout, Timeouts(m.timeout))
           /\ Or(m.send, 0) <= Limit.send
           /\ until # {}
           /\ Well(m.response, Responses(m.response))
           /\ maximum >= Or(until, 0)
           /\ observe # {}
        THEN Found([type |-> "tcp_exchange", host |-> Or(Hosts(m.host), ""),
                    port |-> Or(Ports(m.port), 0),
                    timeout |-> Or(Timeouts(m.timeout), Limit.default_timeout),
                    send |-> Or(m.send, 0), read_until |-> Or(until, 0),
                    maximum |-> maximum, observe |-> Or(observe, "")], TRUE)
        ELSE Refused

Families == {"any", "ipv4", "ipv6"}

ParseDns(m) ==
    LET observe == Observation(m.observe, {"addresses", "address_count", "latency_ms"})
    IN  IF /\ Hosts(m.host) # {}
           /\ m.family \subseteq Families
           /\ Well(m.timeout, Timeouts(m.timeout))
           /\ observe # {}
        THEN Found([type |-> "dns", host |-> Or(Hosts(m.host), ""), family |-> Or(m.family, "any"),
                    timeout |-> Or(Timeouts(m.timeout), Limit.default_timeout),
                    observe |-> Or(observe, "")], TRUE)
        ELSE Refused

ParseSource(m) ==
    CASE m.type = {"http"}         -> ParseHttp(m)
      [] m.type = {"tcp_connect"}  -> ParseTcpConnect(m)
      [] m.type = {"icmp_ping"}    -> ParseIcmpPing(m)
      [] m.type = {"tcp_exchange"} -> ParseTcpExchange(m)
      [] m.type = {"dns"}          -> ParseDns(m)
      [] OTHER                     -> Refused

\* A monitor and its parts as they were read.
MonitorOf(m, interval, ttl, policy, source) ==
    IF \/ Identifiers(m.id) = {} \/ interval = {} \/ ~Well(m.ttl, ttl)
       \/ policy.value = {} \/ source.value = {}
    THEN Refused
    ELSE Found([id |-> Or(Identifiers(m.id), ""), interval |-> Or(interval, 0), ttl |-> ttl,
                policy |-> Or(policy.value, <<>>), source |-> Or(source.value, <<>>)],
               policy.sound /\ source.sound /\ ~m.unknown)

ParseMonitor(m, statuses) ==
    MonitorOf(m, Durations(m.interval, Limit.min_interval, Limit.interval),
              Durations(m.ttl, 1, Limit.ttl), ParsePolicy(m, statuses), ParseSource(m))

-----------------------------------------------------------------------------
TimeoutAccepted(s) == 1 <= s.timeout /\ s.timeout <= Limit.timeout
HostAccepted(s)    == s.host \notin {"", "invalid"}

SecretsKnown(headers) == \A i \in DOMAIN headers : headers[i].secret \subseteq DOMAIN Secrets

HttpCreatable(s) ==
    /\ s.url = "http" \/ (s.url = "https" /\ Tls)
    /\ s.method \in Methods
    /\ s.body > 0 => s.method \notin Bodiless
    /\ s.body <= Limit.body
    /\ Len(s.headers) <= Limit.headers
    /\ ProperNames(HeaderNames(s.headers))
    /\ \A i \in DOMAIN s.headers : s.headers[i].name \notin OwnedHeaders
    /\ SecretsKnown(s.headers)
    /\ \A i \in DOMAIN s.headers : Resolved(s.headers[i]) <= Limit.header_value
    /\ Total([i \in DOMAIN s.headers |-> Resolved(s.headers[i])]) <= Limit.headers_total
    /\ TimeoutAccepted(s)
    /\ 1 <= s.maximum /\ s.maximum <= Limit.response
    /\ HttpObservations({s.observe}) # {}

\* create_monitor_runner makes a runner of the source.
Creatable(s) ==
    CASE s.type = "http"         -> HttpCreatable(s)
      [] s.type = "tcp_connect"  -> HostAccepted(s) /\ s.port > 0 /\ TimeoutAccepted(s)
      [] s.type = "icmp_ping"    -> HostAccepted(s) /\ TimeoutAccepted(s) /\ Icmp
      [] s.type = "tcp_exchange" ->
            /\ HostAccepted(s) /\ s.port > 0 /\ TimeoutAccepted(s)
            /\ s.send <= Limit.send
            /\ 1 <= s.read_until /\ s.read_until <= Limit.delimiter
            /\ 1 <= s.maximum /\ s.maximum <= Limit.response /\ s.read_until <= s.maximum
      [] s.type = "dns"          ->
            HostAccepted(s) /\ s.family \in Families /\ TimeoutAccepted(s)

\* MonitorEngine::add registers the i-th monitor after those before it.
Registers(monitors, i) ==
    LET m == monitors[i]
    IN  /\ m.id # "" /\ m.interval > 0
        /\ \A t \in m.ttl : t > 0
        /\ PolicyValid(m.policy)
        /\ i <= Limit.monitors
        /\ \A j \in 1..i - 1 : monitors[j].id # m.id

-----------------------------------------------------------------------------
Observed(value) == [transport_success |-> TRUE, value |-> value]
Unobserved      == [transport_success |-> FALSE, value |-> NoValue]

Quotient(n, d) == IF d < 0 THEN (-n) \div (-d) ELSE n \div d

Ratio(numerator, denominator, scale) ==
    IF numerator = {} \/ denominator \in {{}, {0}}
    THEN Unobserved
    ELSE Observed(Float(Quotient(Or(numerator, 0) * scale, Or(denominator, 1))))

\* What an observation selects in a JSON document, a function from the pointers
\* that lead somewhere.  A pointer that does not is a missing value, no failure.
FromJson(o, json) ==
    CASE o.pointer \notin DOMAIN json -> Observed(NoValue)
      [] o.pointer \in DOMAIN json /\ o.key = "json_array_length" ->
            IF json[o.pointer].kind = "array"
            THEN Observed(Whole(json[o.pointer].size)) ELSE Unobserved
      [] o.pointer \in DOMAIN json /\ o.key = "json_ratio" ->
            IF o.denominator \notin DOMAIN json THEN Observed(NoValue)
            ELSE Ratio(JsonNumber(json[o.pointer]), JsonNumber(json[o.denominator]),
                       Or(Bounded(o.scale, 1, Limit.scale), 1))
      [] OTHER ->
            IF Scalar(json[o.pointer]) = {} THEN Unobserved ELSE Observed(json[o.pointer])

\* HttpMonitorRunner::run of a response [arrived, status, text, json], whose text
\* is the JSON document `json` or no JSON at all.
HttpResult(s, response) ==
    CASE ~response.arrived -> Unobserved
      [] response.arrived /\ s.observe.key = "status_code" -> Observed(Whole(response.status))
      [] response.arrived /\ s.observe.key = "body" -> Observed(response.text)
      [] OTHER -> IF response.json = {} THEN Unobserved
                  ELSE FromJson(s.observe, Or(response.json, <<>>))
=============================================================================
