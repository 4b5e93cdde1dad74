------------------------------ MODULE StatusApi ------------------------------
(***************************************************************************)
(* The status API (src/core/status_api.cpp) behind its HTTP server         *)
(* (src/simulator/http_status_server.cpp): requests are handled by several *)
(* threads of the server while monitors publish to the same store.  The    *)
(* store locks each of its operations; update_mutex_ makes one push's      *)
(* find, size, upsert and resolve a unit for other pushes, but not for the *)
(* monitors, which do not take it.                                         *)
(*                                                                         *)
(* A dispatch reads the clock when the request has arrived; parsing it and *)
(* waiting for the mutex come after.                                       *)
(***************************************************************************)
EXTENDS StateStore

CONSTANTS
    Handlers,   \* threads of the HTTP server
    Ids,
    Monitors,   \* the ids that the monitor engine writes
    Seeded,     \* ids in the store from the start
    Statuses,
    Ttls,       \* optional ttls of monitors and pushes, in ticks
    Requests,
    MaxStates,  \* maximum_states
    MaxTime     \* bound of the model: the clock stops here

ASSUME ApiAssumption ==
    /\ IsFiniteSet(Ids)
    /\ Monitors \subseteq Ids
    /\ Seeded \subseteq Ids
    /\ "unknown" \in Statuses
    /\ Ttls \subseteq Optional(Nat \ {0})
    /\ MaxStates \in Nat
    /\ MaxTime \in Nat

ASSUME RequestAssumption ==
    \A r \in Requests :
        /\ r.authorized \in BOOLEAN
        /\ r.route \in {"collection", "item", "other"}
        /\ r.method \in {"get", "post", "other"}
        /\ r.fault \in {"none", "bad id", "too large", "not json", "bad content"}
        /\ r.id \in Ids
        /\ r.status \in Statuses
        /\ r.ttl \in Ttls

VARIABLES
    now,
    store,
    measured,     \* per monitor, the optional state its runner has measured
    update_mutex, \* the optional holder of StatusApi::update_mutex_
    at,           \* where each handler stands
    request,      \* the optional request it handles
    arrived,      \* the instant its dispatch read
    existed,      \* its local of that name
    response,     \* the optional response it gave to its last request
    created       \* history: how often a push of the id was answered 201, up to 2

handlerVars == <<update_mutex, at, request, arrived, existed, response, created>>
vars        == <<now, store, measured, handlerVars>>

Response ==
    [code : {200, 201, 400, 401, 404, 405, 413, 415, 507},
     body : Optional(Statuses \cup {"stale"})]

TypeOK ==
    /\ now \in 0..MaxTime
    /\ store \in [Ids -> Optional(Entry(Statuses))]
    /\ measured \in [Monitors -> Optional(MonitorState(Statuses))]
    /\ update_mutex \in Optional(Handlers)
    /\ at \in [Handlers -> {"idle", "arrived", "locked", "found", "admitted", "written"}]
    /\ request \in [Handlers -> Optional(Requests)]
    /\ arrived \in [Handlers -> Nat]
    /\ existed \in [Handlers -> BOOLEAN]
    /\ response \in [Handlers -> Optional(Response)]
    /\ created \in [Ids -> 0..2]

\* main: every source on the display starts as "unknown", without a ttl.
Seed == [status |-> "unknown", updated_at |-> 0, ttl |-> {}, entered_at |-> 0]

Init ==
    /\ now = 0
    /\ store = [id \in Ids |-> IF id \in Seeded THEN {Seed} ELSE {}]
    /\ measured = [m \in Monitors |-> {}]
    /\ update_mutex = {}
    /\ at = [h \in Handlers |-> "idle"]
    /\ request = [h \in Handlers |-> {}]
    /\ arrived = [h \in Handlers |-> 0]
    /\ existed = [h \in Handlers |-> FALSE]
    /\ response = [h \in Handlers |-> {}]
    /\ created = [id \in Ids |-> 0]

Tick ==
    /\ now < MaxTime
    /\ now' = now + 1
    /\ UNCHANGED <<store, measured, handlerVars>>

-----------------------------------------------------------------------------
(* The monitor engine, as the store sees it: a runner finishes and its       *)
(* result, dated then, is written later; one at a time for each monitor.     *)

RunnerFinishes(m) ==
    /\ measured[m] = {}
    /\ \E status \in Statuses, ttl \in Ttls :
          measured' = [measured EXCEPT ![m] =
                         {[status |-> status, updated_at |-> now, ttl |-> ttl]}]
    /\ UNCHANGED <<now, store, handlerVars>>

MonitorPublishes(m) ==
    /\ \E state \in measured[m] : store' = Upsert(store, m, state)
    /\ measured' = [measured EXCEPT ![m] = {}]
    /\ UNCHANGED <<now, handlerVars>>

-----------------------------------------------------------------------------
(* A request.                                                               *)

MoveTo(h, from, to) == at[h] = from /\ at' = [at EXCEPT ![h] = to]

\* The server hands a request to a thread, which reads the clock and calls handle
\* with locals of its own.
Arrive(h) ==
    /\ MoveTo(h, "idle", "arrived")
    /\ \E r \in Requests : request' = [request EXCEPT ![h] = {r}]
    /\ arrived' = [arrived EXCEPT ![h] = now]
    /\ response' = [response EXCEPT ![h] = {}]
    /\ UNCHANGED <<now, store, measured, update_mutex, existed, created>>

\* The checks of handle that look at the request alone, in their order.
Checks(r) ==
    LET get  == r.method = "get"
        post == r.method = "post"
    IN  <<[fails |-> ~r.authorized,                                 code |-> 401],
          [fails |-> r.route = "other",                             code |-> 404],
          [fails |-> get /\ r.route = "item" /\ r.fault = "bad id", code |-> 400],
          [fails |-> ~get /\ ~post,                                 code |-> 405],
          [fails |-> post /\ r.fault = "too large",                 code |-> 413],
          [fails |-> post /\ r.fault = "not json",                  code |-> 415],
          [fails |-> post /\ r.fault # "none",                      code |-> 400]>>

\* The optional code with which the request is refused.
Refusal(r) ==
    {Checks(r)[i].code : i \in {j \in DOMAIN Checks(r) :
        Checks(r)[j].fails /\ \A k \in 1..(j - 1) : ~Checks(r)[k].fails}}

\* The handler returns, and its locals with it.
Respond(h, code, body) ==
    /\ response' = [response EXCEPT ![h] = {[code |-> code, body |-> body]}]
    /\ request' = [request EXCEPT ![h] = {}]
    /\ arrived' = [arrived EXCEPT ![h] = 0]
    /\ existed' = [existed EXCEPT ![h] = FALSE]

Refuse(h) ==
    /\ MoveTo(h, "arrived", "idle")
    /\ \E r \in request[h] : \E code \in Refusal(r) : Respond(h, code, {})
    /\ UNCHANGED <<now, store, measured, update_mutex, created>>

\* GET of one id: one resolve under the store's lock.
GetItem(h) ==
    /\ MoveTo(h, "arrived", "idle")
    /\ \E r \in request[h] :
          /\ Refusal(r) = {}
          /\ r.method = "get" /\ r.route = "item"
          /\ Respond(h, IF store[r.id] = {} THEN 404 ELSE 200,
                     {EffectiveStatus(e, arrived[h]) : e \in store[r.id]})
    /\ UNCHANGED <<now, store, measured, update_mutex, created>>

\* GET of the collection: one snapshot under the store's lock.
GetCollection(h) ==
    /\ MoveTo(h, "arrived", "idle")
    /\ \E r \in request[h] :
          /\ Refusal(r) = {}
          /\ r.method = "get" /\ r.route = "collection"
          /\ Respond(h, 200, {})
    /\ UNCHANGED <<now, store, measured, update_mutex, created>>

Pushing(h) == \E r \in request[h] : r.method = "post" /\ Refusal(r) = {}

\* Faulty: the mutex is not waited for.
LockAtOnce(h) ==
    /\ Pushing(h)
    /\ MoveTo(h, "arrived", "locked")
    /\ UNCHANGED <<now, store, measured, update_mutex, request, arrived, existed, response, created>>

\* A push whose body was accepted takes the mutex.
Lock(h) ==
    /\ Pushing(h)
    /\ update_mutex = {}
    /\ MoveTo(h, "arrived", "locked")
    /\ update_mutex' = {h}
    /\ UNCHANGED <<now, store, measured, request, arrived, existed, response, created>>

\* states_.find(id).
Find(h) ==
    /\ MoveTo(h, "locked", "found")
    /\ \E r \in request[h] : existed' = [existed EXCEPT ![h] = store[r.id] # {}]
    /\ UNCHANGED <<now, store, measured, update_mutex, request, arrived, response, created>>

Full == Size(store) >= MaxStates

Admit(h) ==
    /\ MoveTo(h, "found", "admitted")
    /\ existed[h] \/ ~Full
    /\ UNCHANGED <<now, store, measured, update_mutex, request, arrived, existed, response, created>>

TurnAway(h) ==
    /\ MoveTo(h, "found", "idle")
    /\ ~existed[h] /\ Full
    /\ Respond(h, 507, {})
    /\ update_mutex' = {}
    /\ UNCHANGED <<now, store, measured, created>>

\* states_.upsert of the pushed state, dated by the dispatch.
Put(h) ==
    /\ MoveTo(h, "admitted", "written")
    /\ \E r \in request[h] :
          store' = Upsert(store, r.id, [status     |-> r.status,
                                        updated_at |-> arrived[h],
                                        ttl        |-> r.ttl])
    /\ UNCHANGED <<now, measured, update_mutex, request, arrived, existed, response, created>>

Counted(n) == IF n < 2 THEN n + 1 ELSE n

\* states_.resolve of what is there now, the answer, and the mutex released.
Answer(h) ==
    /\ MoveTo(h, "written", "idle")
    /\ \E r \in request[h] : \E e \in store[r.id] :
          /\ Respond(h, IF existed[h] THEN 200 ELSE 201, {EffectiveStatus(e, arrived[h])})
          /\ created' = IF existed[h] THEN created
                        ELSE [created EXCEPT ![r.id] = Counted(@)]
    /\ update_mutex' = {}
    /\ UNCHANGED <<now, store, measured>>

Handle(h) ==
    \/ Refuse(h)
    \/ GetItem(h)
    \/ GetCollection(h)
    \/ Lock(h)
    \/ Find(h)
    \/ Admit(h)
    \/ TurnAway(h)
    \/ Put(h)
    \/ Answer(h)

Next ==
    \/ Tick
    \/ \E m \in Monitors : RunnerFinishes(m) \/ MonitorPublishes(m)
    \/ \E h \in Handlers : Arrive(h) \/ Handle(h)

Spec == Init /\ [][Next]_vars

-----------------------------------------------------------------------------
(* Properties.                                                              *)

\* The limit on the number of states, as far as it reaches: pushes alone keep to
\* it however many are handled at once, and monitors, which are not subject to
\* it and can slip between a push's check and its write, exceed it by no more
\* than there are monitors.
StoreBounded ==
    \E limit \in {MaxStates, Cardinality(Seeded)} : Size(store) <= limit + Cardinality(Monitors)

\* At most one push of an id is told that it created it, although several may
\* have been looking for the id at the same time.
CreatedOnce == \A id \in Ids : created[id] <= 1

\* A push of an id that no monitor writes is answered with its own state, and not
\* with that of another push handled at the same time.
PushEchoed ==
    [][\A h \in Handlers : \A r \in request[h] :
          at[h] = "written" /\ at'[h] = "idle" /\ r.id \notin Monitors
          => \A answer \in response'[h] : answer.body = {r.status}]_vars

\* docs/configuration-v1.md: "The animation epoch changes when the effective
\* status changes, including when a push refreshes a stale state."  A push that
\* turns a state shown as stale back to its status starts a new epoch of it.
RefreshStartsEpoch ==
    [][\A h \in Handlers : \A r \in request[h] :
          at[h] = "admitted" /\ at'[h] = "written"
          => \A e \in store[r.id], f \in store'[r.id] :
                Expired(e, now) /\ ~Expired(f, now) => f.entered_at # e.entered_at]_vars
=============================================================================
