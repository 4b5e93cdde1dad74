----------------------------- MODULE StateStore -----------------------------
(***************************************************************************)
(* The shared status store (src/core/state.cpp): what one entry of the     *)
(* map holds, what an upsert makes of it, and how a reader resolves it     *)
(* against the clock.  StateStore guards the map with one shared_mutex     *)
(* that every operation holds from its first to its last access, so each   *)
(* operation is one atomic step of the modules that use these operators.   *)
(*                                                                         *)
(* An optional value (std::optional, or the result of a map lookup) is a   *)
(* set of at most one element, here and in every module.  observed_at and  *)
(* updated_at are set to the same instant by every writer, so an entry     *)
(* keeps updated_at only; value and message play no part in freshness.     *)
(***************************************************************************)
EXTENDS Integers, FiniteSets

\* The element of a set that stands for a present optional.
The(optional) == CHOOSE x \in optional : TRUE

\* The optionals over a set.
Optional(S) == {s \in SUBSET S : \A x, y \in s : x = y}

\* MonitorState as the writers fill it; ttl is an optional number of ticks.
MonitorState(Statuses) ==
    [status : Statuses, updated_at : Nat, ttl : Optional(Nat)]

\* StateStore::Entry, the state together with the instant it entered its status.
Entry(Statuses) ==
    [status : Statuses, updated_at : Nat, ttl : Optional(Nat), entered_at : Nat]

\* Freshness has run out at instant t: the comparison of resolve_entry and upsert.
Expired(e, t) == \E d \in e.ttl : t >= e.updated_at + d

\* Upsert keeps the animation epoch only of the same status that had not expired.
KeepsEpoch(e, state) == e.status = state.status /\ ~Expired(e, state.updated_at)

EnteredAt(existing, state) ==
    IF \E e \in existing : KeepsEpoch(e, state)
    THEN The(existing).entered_at
    ELSE state.updated_at

\* The entry that replaces `existing` (an optional entry) when `state` is written.
NewEntry(existing, state) ==
    [status     |-> state.status,
     updated_at |-> state.updated_at,
     ttl        |-> state.ttl,
     entered_at |-> EnteredAt(existing, state)]

\* StateStore::upsert of `state` under `id`.  The identifiers, statuses and time
\* limits its callers pass have been validated, so it does not return false.
Upsert(store, id, state) == [store EXCEPT ![id] = {NewEntry(@, state)}]

\* The status and epoch a reader sees at instant t: an expired entry is stale
\* from the instant it expired.
EffectiveStatus(e, t) == IF Expired(e, t) THEN "stale" ELSE e.status

EffectiveEpoch(e, t) ==
    IF Expired(e, t) THEN e.updated_at + The(e.ttl) ELSE e.entered_at

Resolve(e, t) ==
    [status     |-> EffectiveStatus(e, t),
     reported   |-> e.status,
     entered_at |-> EffectiveEpoch(e, t),
     expired    |-> Expired(e, t)]

\* StateStore::size.
Size(store) == Cardinality({id \in DOMAIN store : store[id] # {}})
=============================================================================
