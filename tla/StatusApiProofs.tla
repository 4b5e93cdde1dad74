--------------------------- MODULE StatusApiProofs ---------------------------
(***************************************************************************)
(* The limit, the single creation and the echo of StatusApi, for any       *)
(* number of handlers, ids, monitors, requests and instants.  The argument *)
(* is what update_mutex_ is good for: a push knows, from its find to its   *)
(* answer, what the other pushes cannot have done meanwhile.               *)
(***************************************************************************)
EXTENDS StatusApi, FiniteSetTheorems, TLAPS

LEMMA OptionalElement ==
    ASSUME NEW S, NEW o \in Optional(S), NEW x \in o
    PROVE  x \in S /\ o = {x}
  BY DEF Optional

LEMMA SingletonOptional ==
    ASSUME NEW S, NEW x \in S
    PROVE  {x} \in Optional(S)
  BY DEF Optional

LEMMA EmptyOptional ==
    ASSUME NEW S
    PROVE  {} \in Optional(S)
  BY DEF Optional

LEMMA OneThing ==
    ASSUME NEW x
    PROVE  The({x}) = x
  BY DEF The

-----------------------------------------------------------------------------
(* Types.                                                                   *)

Codes == {200, 201, 400, 401, 404, 405, 413, 415, 507}

LEMMA RefusalCode ==
    ASSUME NEW r, NEW code \in Refusal(r)
    PROVE  code \in Codes
<1>1. \A i \in DOMAIN Checks(r) : Checks(r)[i].code \in Codes
  <2>1. DOMAIN Checks(r) = 1..7
    BY DEF Checks
  <2>2. /\ Checks(r)[1].code = 401 /\ Checks(r)[2].code = 404 /\ Checks(r)[3].code = 400
        /\ Checks(r)[4].code = 405 /\ Checks(r)[5].code = 413 /\ Checks(r)[6].code = 415
        /\ Checks(r)[7].code = 400
    BY DEF Checks
  <2> QED  BY <2>1, <2>2 DEF Codes
<1> QED  BY <1>1 DEF Refusal

LEMMA NewEntryType ==
    ASSUME NEW existing \in Optional(Entry(Statuses)), NEW state \in MonitorState(Statuses)
    PROVE  NewEntry(existing, state) \in Entry(Statuses)
<1>1. EnteredAt(existing, state) \in Nat
  <2>1. CASE \E e \in existing : KeepsEpoch(e, state)
    <3>1. PICK e \in existing : KeepsEpoch(e, state)
      BY <2>1
    <3>2. The(existing) = e /\ e \in Entry(Statuses)
      BY <3>1, OptionalElement, OneThing
    <3> QED  BY <2>1, <3>2 DEF EnteredAt, Entry
  <2>2. CASE ~\E e \in existing : KeepsEpoch(e, state)
    BY <2>2 DEF EnteredAt, MonitorState
  <2> QED  BY <2>1, <2>2
<1> QED  BY <1>1 DEF NewEntry, Entry, MonitorState

\* A state written under an id, and the store around it.
LEMMA Written ==
    ASSUME store \in [Ids -> Optional(Entry(Statuses))],
           NEW id \in Ids, NEW state \in MonitorState(Statuses),
           store' = Upsert(store, id, state)
    PROVE  /\ store' \in [Ids -> Optional(Entry(Statuses))]
           /\ store'[id] = {NewEntry(store[id], state)}
           /\ \A other \in Ids \ {id} : store'[other] = store[other]
<1>1. NewEntry(store[id], state) \in Entry(Statuses)
  BY NewEntryType
<1>2. {NewEntry(store[id], state)} \in Optional(Entry(Statuses))
  BY <1>1, SingletonOptional
<1> QED  BY <1>2 DEF Upsert

\* What a push writes is a state.
Pushed(h, r) == [status |-> r.status, updated_at |-> arrived[h], ttl |-> r.ttl]

LEMMA PositiveTtls == \A ttl \in Ttls : ttl \in Optional(Nat) /\ \A d \in ttl : d > 0
<1> SUFFICES ASSUME NEW ttl \in Ttls PROVE ttl \in Optional(Nat) /\ \A d \in ttl : d > 0
  OBVIOUS
<1>1. ttl \in Optional(Nat \ {0})
  BY ApiAssumption
<1> QED  BY <1>1 DEF Optional

LEMMA PushedState ==
    ASSUME TypeOK, NEW h \in Handlers, NEW r \in Requests
    PROVE  Pushed(h, r) \in MonitorState(Statuses)
  BY PositiveTtls, RequestAssumption DEF Pushed, MonitorState, TypeOK

\* The request of a handler.
LEMMA RequestOf ==
    ASSUME TypeOK, NEW h \in Handlers, NEW r \in request[h]
    PROVE  r \in Requests /\ r.id \in Ids /\ request[h] = {r}
<1>1. request[h] \in Optional(Requests)
  BY DEF TypeOK
<1>2. r \in Requests /\ request[h] = {r}
  BY <1>1, OptionalElement
<1> QED  BY <1>2, RequestAssumption

LEMMA InitType == Init => TypeOK
<1> SUFFICES ASSUME Init PROVE TypeOK
  OBVIOUS
<1>1. Seed \in Entry(Statuses)
  BY EmptyOptional, ApiAssumption DEF Seed, Entry
<1>2. {Seed} \in Optional(Entry(Statuses))
  BY <1>1, SingletonOptional
<1> QED
  BY <1>2, EmptyOptional, ApiAssumption DEF Init, TypeOK

LEMMA RespondType ==
    ASSUME TypeOK, NEW h \in Handlers, NEW code \in Codes,
           NEW body \in Optional(Statuses \cup {"stale"}), Respond(h, code, body)
    PROVE  /\ response' \in [Handlers -> Optional(Response)]
           /\ request' \in [Handlers -> Optional(Requests)]
           /\ arrived' \in [Handlers -> Nat]
           /\ existed' \in [Handlers -> BOOLEAN]
<1>1. [code |-> code, body |-> body] \in Response
  BY DEF Response, Codes
<1>2. {[code |-> code, body |-> body]} \in Optional(Response)
  BY <1>1, SingletonOptional
<1> QED  BY <1>2, EmptyOptional DEF Respond, TypeOK

\* The body of an answer that shows an entry.
LEMMA ShownType ==
    ASSUME NEW o \in Optional(Entry(Statuses)), NEW t
    PROVE  {EffectiveStatus(e, t) : e \in o} \in Optional(Statuses \cup {"stale"})
<1>1. \A e \in o : EffectiveStatus(e, t) \in Statuses \cup {"stale"}
  <2>1. \A e \in o : e \in Entry(Statuses)
    BY OptionalElement
  <2> QED  BY <2>1 DEF EffectiveStatus, Entry
<1>2. \A e, f \in o : e = f
  BY OptionalElement
<1> QED  BY <1>1, <1>2 DEF Optional

LEMMA HandleType ==
    ASSUME TypeOK, NEW h \in Handlers, Handle(h)
    PROVE  TypeOK'
<1> USE EmptyOptional
<1>1. \A r \in request[h] : r \in Requests /\ r.id \in Ids
  BY RequestOf
<1>2. at' \in [Handlers -> {"idle", "arrived", "locked", "found", "admitted", "written"}]
  BY DEF Handle, Refuse, GetItem, GetCollection, Lock, Find, Admit, TurnAway, Put, Answer,
         MoveTo, TypeOK
<1>3. CASE Refuse(h)
  <2>1. PICK r \in request[h] : \E code \in Refusal(r) : Respond(h, code, {})
    BY <1>3 DEF Refuse
  <2>2. PICK code \in Refusal(r) : Respond(h, code, {})
    BY <2>1
  <2> QED  BY <1>2, <1>3, <2>2, RefusalCode, RespondType DEF Refuse, TypeOK
<1>4. CASE GetItem(h)
  <2>1. PICK r \in request[h] :
          Respond(h, IF store[r.id] = {} THEN 404 ELSE 200,
                  {EffectiveStatus(e, arrived[h]) : e \in store[r.id]})
    BY <1>4 DEF GetItem
  <2>2. {EffectiveStatus(e, arrived[h]) : e \in store[r.id]} \in Optional(Statuses \cup {"stale"})
    <3>1. store[r.id] \in Optional(Entry(Statuses))
      BY <1>1 DEF TypeOK
    <3> QED  BY <3>1, ShownType
  <2>3. (IF store[r.id] = {} THEN 404 ELSE 200) \in Codes
    BY DEF Codes
  <2>4. PICK code \in Codes, body \in Optional(Statuses \cup {"stale"}) : Respond(h, code, body)
    BY <2>1, <2>2, <2>3
  <2> QED  BY <1>2, <1>4, <2>4, RespondType DEF GetItem, TypeOK
<1>5. CASE GetCollection(h)
  <2>1. Respond(h, 200, {}) /\ 200 \in Codes
    BY <1>5 DEF GetCollection, Codes
  <2> QED  BY <1>2, <1>5, <2>1, RespondType DEF GetCollection, TypeOK
<1>6. CASE Lock(h) \/ Find(h) \/ Admit(h)
  <2>1. {h} \in Optional(Handlers)
    BY SingletonOptional
  <2> QED  BY <1>2, <1>6, <2>1 DEF Lock, Find, Admit, TypeOK
<1>7. CASE TurnAway(h)
  <2>1. Respond(h, 507, {}) /\ 507 \in Codes
    BY <1>7 DEF TurnAway, Codes
  <2> QED  BY <1>2, <1>7, <2>1, RespondType DEF TurnAway, TypeOK
<1>8. CASE Put(h)
  <2>1. PICK r \in request[h] : store' = Upsert(store, r.id, Pushed(h, r))
    BY <1>8 DEF Put, Pushed
  <2>2. store' \in [Ids -> Optional(Entry(Statuses))]
    BY <1>1, <2>1, PushedState, Written DEF TypeOK
  <2> QED  BY <1>2, <1>8, <2>2 DEF Put, TypeOK
<1>9. CASE Answer(h)
  <2> DEFINE Told(r, e) ==
          /\ Respond(h, IF existed[h] THEN 200 ELSE 201, {EffectiveStatus(e, arrived[h])})
          /\ created' = IF existed[h] THEN created
                        ELSE [created EXCEPT ![r.id] = Counted(@)]
  <2>0. PICK r \in request[h] : \E e \in store[r.id] : Told(r, e)
    BY <1>9 DEF Answer
  <2>1. PICK e \in store[r.id] : Told(r, e)
    BY <2>0
  <2>2. store[r.id] \in Optional(Entry(Statuses))
    BY <1>1 DEF TypeOK
  <2>3. EffectiveStatus(e, arrived[h]) \in Statuses \cup {"stale"}
    <3>1. e \in Entry(Statuses)
      BY <2>2, OptionalElement
    <3> QED  BY <3>1 DEF EffectiveStatus, Entry
  <2>4. {EffectiveStatus(e, arrived[h])} \in Optional(Statuses \cup {"stale"})
    BY <2>3, SingletonOptional
  <2>5. (IF existed[h] THEN 200 ELSE 201) \in Codes
    BY DEF Codes
  <2>6. created' \in [Ids -> 0..2]
    BY <1>1, <2>1 DEF Counted, TypeOK
  <2> QED  BY <1>2, <1>9, <2>1, <2>4, <2>5, <2>6, RespondType DEF Answer, TypeOK
<1> QED  BY <1>3, <1>4, <1>5, <1>6, <1>7, <1>8, <1>9 DEF Handle

LEMMA StepType == TypeOK /\ [Next]_vars => TypeOK'
<1> SUFFICES ASSUME TypeOK, [Next]_vars PROVE TypeOK'
  OBVIOUS
<1>1. CASE Tick
  BY <1>1, ApiAssumption DEF Tick, TypeOK, handlerVars
<1>2. ASSUME NEW m \in Monitors, RunnerFinishes(m) PROVE TypeOK'
  <2>1. PICK status \in Statuses, ttl \in Ttls :
          measured' = [measured EXCEPT ![m] =
                         {[status |-> status, updated_at |-> now, ttl |-> ttl]}]
    BY <1>2 DEF RunnerFinishes
  <2>2. [status |-> status, updated_at |-> now, ttl |-> ttl] \in MonitorState(Statuses)
    BY PositiveTtls, ApiAssumption DEF MonitorState, TypeOK
  <2>3. measured' \in [Monitors -> Optional(MonitorState(Statuses))]
    BY <2>1, <2>2, SingletonOptional DEF TypeOK
  <2> QED  BY <1>2, <2>3 DEF RunnerFinishes, TypeOK, handlerVars
<1>3. ASSUME NEW m \in Monitors, MonitorPublishes(m) PROVE TypeOK'
  <2>1. PICK state \in measured[m] : store' = Upsert(store, m, state)
    BY <1>3 DEF MonitorPublishes
  <2>2. state \in MonitorState(Statuses) /\ m \in Ids
    BY OptionalElement, ApiAssumption DEF TypeOK
  <2>3. store' \in [Ids -> Optional(Entry(Statuses))]
    BY <2>1, <2>2, Written DEF TypeOK
  <2>4. measured' \in [Monitors -> Optional(MonitorState(Statuses))]
    BY <1>3, EmptyOptional DEF MonitorPublishes, TypeOK
  <2> QED  BY <1>3, <2>3, <2>4 DEF MonitorPublishes, TypeOK, handlerVars
<1>4. ASSUME NEW h \in Handlers, Arrive(h) PROVE TypeOK'
  <2>1. PICK r \in Requests : request' = [request EXCEPT ![h] = {r}]
    BY <1>4 DEF Arrive
  <2>2. request' \in [Handlers -> Optional(Requests)]
    BY <2>1, SingletonOptional DEF TypeOK
  <2>3. now \in Nat
    BY ApiAssumption DEF TypeOK
  <2> QED  BY <1>4, <2>2, <2>3, EmptyOptional DEF Arrive, MoveTo, TypeOK
<1>5. ASSUME NEW h \in Handlers, Handle(h) PROVE TypeOK'
  BY <1>5, HandleType
<1>6. CASE UNCHANGED vars
  BY <1>6 DEF vars, handlerVars, TypeOK
<1> QED  BY <1>1, <1>2, <1>3, <1>4, <1>5, <1>6 DEF Next

\* Every state of the server and the store has its types: in particular the store
\* holds well-formed entries and a response shows a status or "stale".
THEOREM ApiTypeCorrect == Spec => []TypeOK
  BY InitType, StepType, PTL DEF Spec
-----------------------------------------------------------------------------
(* The critical section.                                                    *)

Inside == {"locked", "found", "admitted", "written"}

\* A handler inside holds the mutex and an accepted push; one that answers has a
\* request.
Held ==
    \A h \in Handlers :
        /\ at[h] \in Inside => update_mutex = {h} /\ Pushing(h)
        /\ at[h] = "idle" => request[h] = {}

\* What a push that found no entry knows: no push has created it yet, and unless a
\* monitor writes it, it is still missing.
Known ==
    \A h \in Handlers : \A r \in request[h] :
        at[h] \in {"found", "admitted", "written"} /\ ~existed[h] => created[r.id] = 0

\* What was created is there, and so is what was found or written.
There ==
    /\ \A id \in Ids : created[id] # 0 => store[id] # {}
    /\ \A h \in Handlers : \A r \in request[h] :
          \/ at[h] \in {"found", "admitted"} /\ existed[h]
          \/ at[h] = "written"
          => store[r.id] # {}

\* A handler that holds the mutex is the only one inside.
LEMMA Alone ==
    ASSUME Held, NEW h \in Handlers, NEW g \in Handlers, at[h] \in Inside, at[g] \in Inside
    PROVE  g = h
  BY DEF Held

\* Entries are never taken away.
LEMMA EntriesStay ==
    ASSUME TypeOK, [Next]_vars, NEW id \in Ids, store[id] # {}
    PROVE  store'[id] # {}
<1>1. CASE store' = store
  BY <1>1
<1>2. CASE store' # store
  <2>1. \E other, state : store' = Upsert(store, other, state)
    BY <1>2 DEF Next, Tick, RunnerFinishes, MonitorPublishes, Arrive, Handle, Refuse, GetItem,
                GetCollection, Lock, Find, Admit, TurnAway, Put, Answer, vars, handlerVars
  <2> QED  BY <2>1 DEF Upsert, TypeOK
<1> QED  BY <1>1, <1>2

\* A handler's step leaves the other handlers alone.
LEMMA OthersStay ==
    ASSUME TypeOK, NEW h \in Handlers, Arrive(h) \/ Handle(h), NEW g \in Handlers \ {h}
    PROVE  /\ at'[g] = at[g] /\ request'[g] = request[g]
           /\ existed'[g] = existed[g] /\ arrived'[g] = arrived[g]
  BY DEF Arrive, Handle, Refuse, GetItem, GetCollection, Lock, Find, Admit, TurnAway, Put, Answer,
         MoveTo, Respond, TypeOK

\* Steps that touch no handler.
Beside == Tick \/ (\E m \in Monitors : RunnerFinishes(m) \/ MonitorPublishes(m)) \/ UNCHANGED vars

LEMMA BesideHandlers == Beside => UNCHANGED handlerVars
  BY DEF Beside, Tick, RunnerFinishes, MonitorPublishes, vars, handlerVars

LEMMA Steps == [Next]_vars => Beside \/ \E h \in Handlers : Arrive(h) \/ Handle(h)
  BY DEF Next, Beside

LEMMA InitHeld == Init => Held /\ Known /\ There
  BY DEF Init, Held, Known, There, Inside

LEMMA StepHeld == TypeOK /\ Held /\ [Next]_vars => Held'
<1> SUFFICES ASSUME TypeOK, Held, [Next]_vars PROVE Held'
  OBVIOUS
<1>1. CASE Beside
  BY <1>1, BesideHandlers DEF Held, Pushing, handlerVars
<1>2. ASSUME NEW h \in Handlers, Arrive(h) \/ Handle(h) PROVE Held'
  <2>1. /\ at'[h] \in Inside => update_mutex' = {h} /\ Pushing(h)'
        /\ at'[h] = "idle" => request'[h] = {}
    <3>1. CASE Arrive(h) \/ Refuse(h) \/ GetItem(h) \/ GetCollection(h)
      BY <3>1 DEF Arrive, Refuse, GetItem, GetCollection, MoveTo, Respond, Inside, TypeOK
    <3>2. CASE Lock(h) \/ Find(h) \/ Admit(h) \/ Put(h)
      BY <3>2 DEF Lock, Find, Admit, Put, MoveTo, Inside, Held, Pushing, TypeOK
    <3>3. CASE TurnAway(h) \/ Answer(h)
      BY <3>3 DEF TurnAway, Answer, MoveTo, Respond, Inside, TypeOK
    <3> QED  BY <1>2, <3>1, <3>2, <3>3 DEF Handle
  <2>2. ASSUME NEW g \in Handlers \ {h}
        PROVE  /\ at'[g] \in Inside => update_mutex' = {g} /\ Pushing(g)'
               /\ at'[g] = "idle" => request'[g] = {}
    <3>1. at'[g] = at[g] /\ request'[g] = request[g]
      BY <1>2, OthersStay
    <3>2. CASE update_mutex' = update_mutex
      BY <3>1, <3>2 DEF Held, Pushing
    <3>3. CASE update_mutex' # update_mutex
      <4>1. update_mutex = {} \/ at[h] \in Inside
        BY <1>2, <3>3 DEF Arrive, Handle, Refuse, GetItem, GetCollection, Lock, Find, Admit,
                          TurnAway, Put, Answer, MoveTo, Inside
      <4>2. update_mutex # {g}
        BY <4>1 DEF Held
      <4> QED  BY <3>1, <4>2 DEF Held
    <3> QED  BY <3>2, <3>3
  <2> QED  BY <2>1, <2>2 DEF Held
<1> QED  BY <1>1, <1>2, Steps

\* What Find(h) finds out.
LEMMA FoundOut ==
    ASSUME TypeOK, NEW h \in Handlers, NEW r \in request[h], Find(h)
    PROVE  existed'[h] <=> store[r.id] # {}
<1>1. PICK s \in request[h] : existed' = [existed EXCEPT ![h] = store[s.id] # {}]
  BY DEF Find
<1>2. s = r
  BY RequestOf
<1> QED  BY <1>1, <1>2 DEF TypeOK

LEMMA StepThere == TypeOK /\ Held /\ There /\ [Next]_vars => There'
<1> SUFFICES ASSUME TypeOK, Held, There, [Next]_vars PROVE There'
  OBVIOUS
<1>0. \A g \in Handlers : \A r \in request[g] : r.id \in Ids
  BY RequestOf
<1>1. CASE Beside
  BY <1>0, <1>1, BesideHandlers, EntriesStay DEF There, handlerVars
<1>2. ASSUME NEW h \in Handlers, Arrive(h) \/ Handle(h) PROVE There'
  <2>1. \A id \in Ids : created'[id] # 0 => store'[id] # {}
    <3>1. CASE created' = created
      BY <3>1, EntriesStay DEF There
    <3>2. CASE created' # created
      <4>1. Answer(h)
        BY <1>2, <3>2 DEF Arrive, Handle, Refuse, GetItem, GetCollection, Lock, Find, Admit,
                          TurnAway, Put
      <4>2. PICK r \in request[h] : created' = [created EXCEPT ![r.id] = Counted(@)]
        BY <3>2, <4>1 DEF Answer
      <4>3. store' = store /\ store[r.id] # {}
        BY <4>1, <4>2 DEF Answer, MoveTo, There
      <4> QED  BY <4>2, <4>3 DEF There, TypeOK
    <3> QED  BY <3>1, <3>2
  <2>2. ASSUME NEW g \in Handlers \ {h}, NEW r \in request'[g],
               \/ at'[g] \in {"found", "admitted"} /\ existed'[g]
               \/ at'[g] = "written"
        PROVE  store'[r.id] # {}
    <3>1. at'[g] = at[g] /\ request'[g] = request[g] /\ existed'[g] = existed[g]
      BY <1>2, OthersStay
    <3>2. store[r.id] # {} /\ r.id \in Ids
      BY <1>0, <2>2, <3>1 DEF There
    <3> QED  BY <3>2, EntriesStay
  <2>3. ASSUME NEW r \in request'[h],
               \/ at'[h] \in {"found", "admitted"} /\ existed'[h]
               \/ at'[h] = "written"
        PROVE  store'[r.id] # {}
    <3>1. CASE Find(h)
      <4>1. r \in request[h] /\ store' = store /\ at'[h] = "found"
        BY <2>3, <3>1 DEF Find, MoveTo, TypeOK
      <4>2. existed'[h] <=> store[r.id] # {}
        BY <3>1, <4>1, FoundOut
      <4> QED  BY <2>3, <4>1, <4>2
    <3>2. CASE Admit(h)
      BY <2>3, <3>2 DEF Admit, MoveTo, There, TypeOK
    <3>3. CASE Put(h)
      <4>1. PICK s \in request[h] : store' = Upsert(store, s.id, Pushed(h, s))
        BY <3>3 DEF Put, Pushed
      <4>2. s = r
        BY <3>3, <2>3, <4>1, RequestOf DEF Put
      <4> QED  BY <1>0, <4>1, <4>2 DEF Upsert, TypeOK
    <3>4. CASE Arrive(h) \/ Refuse(h) \/ GetItem(h) \/ GetCollection(h) \/ Lock(h)
               \/ TurnAway(h) \/ Answer(h)
      BY <2>3, <3>4 DEF Arrive, Refuse, GetItem, GetCollection, Lock, TurnAway, Answer, MoveTo, TypeOK
    <3> QED  BY <1>2, <3>1, <3>2, <3>3, <3>4 DEF Handle
  <2> QED  BY <2>1, <2>2, <2>3 DEF There
<1> QED  BY <1>1, <1>2, Steps

LEMMA StepKnown == TypeOK /\ Held /\ There /\ Known /\ [Next]_vars => Known'
<1> SUFFICES ASSUME TypeOK, Held, There, Known, [Next]_vars PROVE Known'
  OBVIOUS
<1>1. CASE Beside
  BY <1>1, BesideHandlers DEF Known, handlerVars
<1>2. ASSUME NEW h \in Handlers, Arrive(h) \/ Handle(h) PROVE Known'
  <2>1. ASSUME NEW g \in Handlers \ {h}, NEW r \in request'[g],
               at'[g] \in {"found", "admitted", "written"}, ~existed'[g]
        PROVE  created'[r.id] = 0
    <3>1. at'[g] = at[g] /\ request'[g] = request[g] /\ existed'[g] = existed[g]
      BY <1>2, OthersStay
    <3>2. created[r.id] = 0 /\ at[g] \in Inside
      BY <2>1, <3>1 DEF Known, Inside
    <3>3. ~Answer(h)
      BY <3>2, Alone DEF Answer, MoveTo, Inside
    <3>4. created' = created
      BY <1>2, <3>3 DEF Arrive, Handle, Refuse, GetItem, GetCollection, Lock, Find, Admit,
                        TurnAway, Put
    <3> QED  BY <3>2, <3>4
  <2>2. ASSUME NEW r \in request'[h],
               at'[h] \in {"found", "admitted", "written"}, ~existed'[h]
        PROVE  created'[r.id] = 0
    <3>1. CASE Find(h)
      <4>1. r \in request[h] /\ created' = created
        BY <2>2, <3>1 DEF Find
      <4>2. store[r.id] = {} /\ r.id \in Ids
        BY <2>2, <3>1, <4>1, FoundOut, RequestOf
      <4> QED  BY <4>1, <4>2 DEF There
    <3>2. CASE Admit(h) \/ Put(h)
      BY <2>2, <3>2 DEF Admit, Put, MoveTo, Known
    <3>3. CASE Arrive(h) \/ Refuse(h) \/ GetItem(h) \/ GetCollection(h) \/ Lock(h)
               \/ TurnAway(h) \/ Answer(h)
      BY <2>2, <3>3 DEF Arrive, Refuse, GetItem, GetCollection, Lock, TurnAway, Answer, MoveTo, TypeOK
    <3> QED  BY <1>2, <3>1, <3>2, <3>3 DEF Handle
  <2> QED  BY <2>1, <2>2 DEF Known
<1> QED  BY <1>1, <1>2, Steps

PushInv == TypeOK /\ Held /\ Known /\ There

LEMMA InitPush == Init => PushInv
  BY InitType, InitHeld DEF PushInv

LEMMA StepPush == PushInv /\ [Next]_vars => PushInv'
  BY StepType, StepHeld, StepThere, StepKnown DEF PushInv

LEMMA StepCreated == PushInv /\ CreatedOnce /\ [Next]_vars => CreatedOnce'
<1> SUFFICES ASSUME PushInv, CreatedOnce, [Next]_vars PROVE CreatedOnce'
  OBVIOUS
<1>1. CASE created' = created
  BY <1>1 DEF CreatedOnce
<1>2. CASE created' # created
  <2>1. PICK h \in Handlers : Answer(h)
    BY <1>2, BesideHandlers, Steps
    DEF Arrive, Handle, Refuse, GetItem, GetCollection, Lock, Find, Admit, TurnAway, Put, handlerVars
  <2>2. PICK r \in request[h] : created' = [created EXCEPT ![r.id] = Counted(@)]
    BY <1>2, <2>1 DEF Answer
  <2>3. ~existed[h] /\ at[h] = "written"
    BY <1>2, <2>1 DEF Answer, MoveTo
  <2>4. created[r.id] = 0
    BY <2>2, <2>3 DEF PushInv, Known
  <2> QED  BY <2>2, <2>4 DEF CreatedOnce, Counted, PushInv, TypeOK
<1> QED  BY <1>1, <1>2

\* Of any number of pushes of an id handled at the same time at most one is answered
\* 201 (StatusApi::handle, from find to the answer under update_mutex_).
THEOREM SingleCreation == Spec => []CreatedOnce
<1>1. Init => CreatedOnce
  BY DEF Init, CreatedOnce
<1> QED  BY <1>1, InitPush, StepPush, StepCreated, PTL DEF Spec
-----------------------------------------------------------------------------
(* What a push has written is there until it is answered.                   *)

Own ==
    \A h \in Handlers : \A r \in request[h] :
        at[h] = "written" /\ r.id \notin Monitors
        => \A e \in store[r.id] :
              e.status = r.status /\ e.updated_at = arrived[h] /\ e.ttl = r.ttl

\* Only a push that is admitted and the monitors write.
LEMMA Writers ==
    ASSUME [Next]_vars, store' # store
    PROVE  (\E h \in Handlers : Put(h)) \/ (\E m \in Monitors : MonitorPublishes(m))
  BY DEF Next, Tick, RunnerFinishes, Arrive, Handle, Refuse, GetItem, GetCollection, Lock, Find,
         Admit, TurnAway, Answer, vars, handlerVars

\* A monitor leaves the ids of the others alone.
LEMMA MonitorsOwn ==
    ASSUME TypeOK, NEW m \in Monitors, MonitorPublishes(m), NEW id \in Ids \ Monitors
    PROVE  store'[id] = store[id]
  BY DEF MonitorPublishes, Upsert, TypeOK

\* The effect of Put.
LEMMA PutWrites ==
    ASSUME TypeOK, NEW h \in Handlers, NEW r \in request[h], Put(h)
    PROVE  store' = Upsert(store, r.id, Pushed(h, r))
<1>1. PICK s \in request[h] : store' = Upsert(store, s.id, Pushed(h, s))
  BY DEF Put, Pushed
<1>2. s = r
  BY RequestOf
<1> QED  BY <1>1, <1>2

LEMMA StepOwn == PushInv /\ Own /\ [Next]_vars => Own'
<1> SUFFICES ASSUME PushInv, Own, [Next]_vars PROVE Own'
  OBVIOUS
<1>0. TypeOK /\ Held
  BY DEF PushInv
<1>1. CASE Beside
  <2>1. UNCHANGED handlerVars
    BY <1>1, BesideHandlers
  <2>2. \A id \in Ids \ Monitors : store'[id] = store[id]
    BY <1>0, <1>1, MonitorsOwn DEF Beside, Tick, RunnerFinishes, vars
  <2>3. \A h \in Handlers : \A r \in request[h] : r.id \in Ids
    BY <1>0, RequestOf
  <2> QED  BY <2>1, <2>2, <2>3 DEF Own, handlerVars
<1>2. ASSUME NEW h \in Handlers, Arrive(h) \/ Handle(h) PROVE Own'
  <2>1. ASSUME NEW g \in Handlers \ {h}, NEW r \in request'[g],
               at'[g] = "written", r.id \notin Monitors, NEW e \in store'[r.id]
        PROVE  e.status = r.status /\ e.updated_at = arrived'[g] /\ e.ttl = r.ttl
    <3>1. at'[g] = at[g] /\ request'[g] = request[g] /\ arrived'[g] = arrived[g]
      BY <1>0, <1>2, OthersStay
    <3>2. ~Put(h)
      BY <1>0, <2>1, <3>1, Alone DEF Put, MoveTo, Inside
    <3>3. store' = store
      BY <1>2, <3>2 DEF Arrive, Handle, Refuse, GetItem, GetCollection, Lock, Find, Admit,
                        TurnAway, Answer
    <3> QED  BY <2>1, <3>1, <3>3 DEF Own
  <2>2. ASSUME NEW r \in request'[h],
               at'[h] = "written", r.id \notin Monitors, NEW e \in store'[r.id]
        PROVE  e.status = r.status /\ e.updated_at = arrived'[h] /\ e.ttl = r.ttl
    <3>1. Put(h)
      BY <1>0, <1>2, <2>2 DEF Arrive, Handle, Refuse, GetItem, GetCollection, Lock, Find, Admit,
                              TurnAway, Answer, MoveTo, TypeOK
    <3>2. r \in request[h] /\ arrived' = arrived
      BY <2>2, <3>1 DEF Put
    <3>3. r \in Requests /\ r.id \in Ids /\ Pushed(h, r) \in MonitorState(Statuses)
      BY <1>0, <3>2, RequestOf, PushedState
    <3>4. store' = Upsert(store, r.id, Pushed(h, r))
      BY <1>0, <3>1, <3>2, PutWrites
    <3>5. store'[r.id] = {NewEntry(store[r.id], Pushed(h, r))}
      BY <1>0, <3>3, <3>4, Written DEF TypeOK
    <3> QED  BY <2>2, <3>2, <3>5 DEF NewEntry, Pushed
  <2> QED  BY <2>1, <2>2 DEF Own
<1> QED  BY <1>1, <1>2, Steps

\* A push of an id no monitor writes is answered with its own status, whatever is
\* handled at the same time (upsert and resolve of StatusApi::handle, which the
\* instant of the dispatch and a positive ttl keep from being shown as stale).
THEOREM OwnEcho == Spec => PushEchoed
<1>1. Init => Own
  BY DEF Init, Own
<1>2. PushInv /\ Own /\ [Next]_vars
      => [\A h \in Handlers : \A r \in request[h] :
             at[h] = "written" /\ at'[h] = "idle" /\ r.id \notin Monitors
             => \A answer \in response'[h] : answer.body = {r.status}]_vars
  <2> SUFFICES ASSUME PushInv, Own, [Next]_vars,
                      NEW h \in Handlers, NEW r \in request[h],
                      at[h] = "written", at'[h] = "idle", r.id \notin Monitors,
                      NEW answer \in response'[h]
               PROVE  answer.body = {r.status}
    OBVIOUS
  <2>0. TypeOK
    BY DEF PushInv
  <2>1. Answer(h)
    <3>1. Arrive(h) \/ Handle(h)
      BY <2>0, BesideHandlers, Steps, OthersStay DEF handlerVars
    <3> QED  BY <3>1 DEF Arrive, Handle, Refuse, GetItem, GetCollection, Lock, Find, Admit,
                         TurnAway, Put, MoveTo
  <2> DEFINE Told(e) == Respond(h, IF existed[h] THEN 200 ELSE 201, {EffectiveStatus(e, arrived[h])})
  <2>2. PICK e \in store[r.id] : Told(e)
    <3>1. \A s \in request[h] : s = r
      BY <2>0, RequestOf
    <3>2. \E s \in request[h] : \E e \in store[s.id] : Told(e)
      BY <2>1 DEF Answer
    <3> QED  BY <3>1, <3>2
  <2>3. e.status = r.status /\ e.updated_at = arrived[h] /\ e.ttl = r.ttl
    BY <2>2 DEF Own
  <2>4. \A d \in r.ttl : d \in Nat /\ d > 0
    <3>1. r.ttl \in Ttls
      BY <2>0, RequestOf, RequestAssumption
    <3> QED  BY <3>1, PositiveTtls DEF Optional
  <2>5. EffectiveStatus(e, arrived[h]) = r.status
    <3>1. arrived[h] \in Nat
      BY <2>0 DEF TypeOK
    <3> QED  BY <2>3, <2>4, <3>1 DEF EffectiveStatus, Expired
  <2>6. response'[h] = {[code |-> IF existed[h] THEN 200 ELSE 201,
                         body |-> {EffectiveStatus(e, arrived[h])}]}
    BY <2>0, <2>2 DEF Respond, TypeOK
  <2> QED  BY <2>5, <2>6
<1> QED  BY <1>1, <1>2, InitPush, StepPush, StepOwn, PTL DEF Spec, PushEchoed
-----------------------------------------------------------------------------
(* The limit.                                                               *)

\* The ids that only pushes write and that have a state.
PushedIds == {id \in Ids \ Monitors : store[id] # {}}

\* There is room for what has been admitted.
Room ==
    /\ PushedIds \subseteq Seeded \/ Cardinality(PushedIds) <= MaxStates
    /\ \A h \in Handlers : \A r \in request[h] :
          at[h] = "admitted" /\ ~existed[h] /\ r.id \notin Monitors
          => Cardinality(PushedIds) < MaxStates

LEMMA FinitePushed == IsFiniteSet(PushedIds) /\ Cardinality(PushedIds) \in Nat
<1>1. PushedIds \subseteq Ids
  BY DEF PushedIds
<1> QED  BY <1>1, ApiAssumption, FS_Subset, FS_CardinalityType

\* A step that writes no id of theirs leaves the ids of the pushes as they are.
LEMMA SamePushed ==
    ASSUME TypeOK, \A id \in Ids \ Monitors : store'[id] = {} <=> store[id] = {}
    PROVE  PushedIds' = PushedIds
  BY DEF PushedIds

LEMMA StepRoom == PushInv /\ Room /\ [Next]_vars => Room'
<1> SUFFICES ASSUME PushInv, Room, [Next]_vars PROVE Room'
  OBVIOUS
<1>0. TypeOK /\ Held /\ There
  BY DEF PushInv
<1>1. CASE Beside
  <2>1. UNCHANGED handlerVars
    BY <1>1, BesideHandlers
  <2>2. \A id \in Ids \ Monitors : store'[id] = store[id]
    BY <1>0, <1>1, MonitorsOwn DEF Beside, Tick, RunnerFinishes, vars
  <2>3. PushedIds' = PushedIds
    BY <1>0, <2>2, SamePushed
  <2> QED  BY <2>1, <2>3 DEF Room, handlerVars
<1>2. ASSUME NEW h \in Handlers, Put(h) PROVE Room'
  <2>1. PICK r \in request[h] : store' = Upsert(store, r.id, Pushed(h, r))
    BY <1>2 DEF Put, Pushed
  <2>2. r \in Requests /\ r.id \in Ids /\ Pushed(h, r) \in MonitorState(Statuses)
    BY <1>0, <2>1, RequestOf, PushedState
  <2>3. /\ store'[r.id] # {}
        /\ \A other \in Ids \ {r.id} : store'[other] = store[other]
    BY <1>0, <2>1, <2>2, Written DEF TypeOK
  <2>4. \A g \in Handlers : at'[g] # "admitted"
    <3>1. at'[h] = "written"
      BY <1>0, <1>2 DEF Put, MoveTo, TypeOK
    <3>2. ASSUME NEW g \in Handlers \ {h} PROVE at'[g] # "admitted"
      <4>1. at'[g] = at[g]
        BY <1>0, <1>2, OthersStay DEF Handle
      <4> QED  BY <1>0, <1>2, <4>1, Alone DEF Put, MoveTo, Inside
    <3> QED  BY <3>1, <3>2
  <2>5. PushedIds' \subseteq Seeded \/ Cardinality(PushedIds') <= MaxStates
    <3>1. CASE store[r.id] # {} \/ r.id \in Monitors
      <4>1. PushedIds' = PushedIds
        BY <1>0, <2>2, <2>3, <3>1, SamePushed
      <4> QED  BY <4>1 DEF Room
    <3>2. CASE store[r.id] = {} /\ r.id \notin Monitors
      <4>1. ~existed[h] /\ at[h] = "admitted"
        BY <1>0, <1>2, <2>1, <3>2 DEF There, Put, MoveTo
      <4>2. Cardinality(PushedIds) < MaxStates
        BY <2>1, <3>2, <4>1 DEF Room
      <4>3. PushedIds' = PushedIds \cup {r.id} /\ r.id \notin PushedIds
        BY <2>2, <2>3, <3>2 DEF PushedIds
      <4>4. Cardinality(PushedIds') = Cardinality(PushedIds) + 1
        BY <4>3, FinitePushed, FS_AddElement
      <4> QED  BY <4>2, <4>4, FinitePushed, ApiAssumption
    <3> QED  BY <3>1, <3>2
  <2> QED  BY <2>4, <2>5 DEF Room
<1>3. ASSUME NEW h \in Handlers, Arrive(h) \/ Handle(h), ~Put(h) PROVE Room'
  <2>1. store' = store
    BY <1>3 DEF Arrive, Handle, Refuse, GetItem, GetCollection, Lock, Find, Admit, TurnAway, Answer
  <2>2. PushedIds' = PushedIds
    BY <2>1 DEF PushedIds
  <2>3. ASSUME NEW g \in Handlers \ {h}, NEW r \in request'[g],
               at'[g] = "admitted", ~existed'[g], r.id \notin Monitors
        PROVE  Cardinality(PushedIds) < MaxStates
    BY <1>0, <1>3, <2>3, OthersStay DEF Room
  <2>4. ASSUME NEW r \in request'[h], at'[h] = "admitted", ~existed'[h]
        PROVE  Cardinality(PushedIds) < MaxStates
    <3>1. Admit(h)
      BY <1>0, <1>3, <2>4 DEF Arrive, Handle, Refuse, GetItem, GetCollection, Lock, Find,
                              TurnAway, Answer, MoveTo, TypeOK
    <3>2. ~Full
      BY <2>4, <3>1 DEF Admit
    <3> DEFINE present == {id \in DOMAIN store : store[id] # {}}
    <3>3. PushedIds \subseteq present /\ present \subseteq Ids
      BY <1>0 DEF PushedIds, TypeOK
    <3>4. IsFiniteSet(present) /\ Cardinality(present) \in Nat
      BY <3>3, ApiAssumption, FS_Subset, FS_CardinalityType
    <3>5. Cardinality(PushedIds) <= Cardinality(present)
      BY <3>3, <3>4, FS_Subset
    <3>6. Cardinality(present) < MaxStates
      BY <3>2, <3>4, ApiAssumption DEF Full, Size
    <3> QED  BY <3>4, <3>5, <3>6, FinitePushed, ApiAssumption
  <2> QED  BY <2>2, <2>3, <2>4 DEF Room
<1> QED  BY <1>1, <1>2, <1>3, Steps

\* The states that are there are those of the pushes and those of the monitors.
LEMMA RoomBounds == TypeOK /\ Room => StoreBounded
<1> SUFFICES ASSUME TypeOK, Room PROVE StoreBounded
  OBVIOUS
<1> DEFINE present == {id \in DOMAIN store : store[id] # {}}
<1>1. IsFiniteSet(Monitors) /\ IsFiniteSet(Seeded)
  BY ApiAssumption, FS_Subset
<1>2. Cardinality(Monitors) \in Nat /\ Cardinality(Seeded) \in Nat /\ MaxStates \in Nat
  BY <1>1, FS_CardinalityType, ApiAssumption
<1>3. present \subseteq PushedIds \cup Monitors
  BY DEF PushedIds, TypeOK
<1>4. /\ IsFiniteSet(PushedIds \cup Monitors)
      /\ Cardinality(PushedIds \cup Monitors) <= Cardinality(PushedIds) + Cardinality(Monitors)
  <2>1. /\ IsFiniteSet(PushedIds \cup Monitors) /\ IsFiniteSet(PushedIds \cap Monitors)
        /\ Cardinality(PushedIds \cup Monitors)
              = Cardinality(PushedIds) + Cardinality(Monitors) - Cardinality(PushedIds \cap Monitors)
    BY <1>1, FinitePushed, FS_Union, FS_Intersection
  <2>2. Cardinality(PushedIds \cap Monitors) \in Nat
    BY <2>1, FS_CardinalityType
  <2> QED  BY <1>2, <2>1, <2>2, FinitePushed
<1>5. /\ Cardinality(present) \in Nat
      /\ Cardinality(present) <= Cardinality(PushedIds) + Cardinality(Monitors)
  <2>1. Cardinality(PushedIds \cup Monitors) \in Nat
    BY <1>4, FS_CardinalityType
  <2>2. IsFiniteSet(present) /\ Cardinality(present) <= Cardinality(PushedIds \cup Monitors)
    BY <1>3, <1>4, FS_Subset
  <2>3. Cardinality(present) \in Nat
    BY <2>2, FS_CardinalityType
  <2> QED  BY <1>2, <1>4, <2>1, <2>2, <2>3, FinitePushed
<1>6. \E limit \in {MaxStates, Cardinality(Seeded)} : Cardinality(PushedIds) <= limit
  <2>1. CASE PushedIds \subseteq Seeded
    BY <1>1, <2>1, FS_Subset
  <2>2. CASE Cardinality(PushedIds) <= MaxStates
    BY <2>2
  <2> QED  BY <2>1, <2>2 DEF Room
<1>7. PICK limit \in {MaxStates, Cardinality(Seeded)} : Cardinality(PushedIds) <= limit
  BY <1>6
<1>8. Size(store) <= limit + Cardinality(Monitors)
  BY <1>2, <1>5, <1>7, FinitePushed DEF Size
<1> QED  BY <1>8 DEF StoreBounded

\* However many pushes are handled at once the store holds no more than maximum_states
\* states, or those it was seeded with, besides those of the monitors (the check of
\* states_.size() in StatusApi::handle).
THEOREM LimitKept == Spec => []StoreBounded
<1>1. Init => Room
  <2> SUFFICES ASSUME Init PROVE PushedIds \subseteq Seeded /\ \A h \in Handlers : request[h] = {}
    BY DEF Room
  <2> QED  BY DEF Init, PushedIds
<1>2. PushInv /\ Room => StoreBounded
  BY RoomBounds DEF PushInv
<1> QED  BY <1>1, <1>2, InitPush, StepPush, StepRoom, PTL DEF Spec
=============================================================================
