---------------------------- MODULE MonitorEngine ----------------------------
(***************************************************************************)
(* The monitor engine (src/core/monitor_engine.cpp) pumped by several      *)
(* threads at once.  A pump is one call of run_due(now, maximum_runs): the *)
(* caller reads the clock, run_due claims due jobs under the engine's      *)
(* mutex, runs them one after the other without it, publishes each result  *)
(* to the shared StateStore and takes the mutex again to release the job.  *)
(* Between any two of these steps other pumps and the clock move.          *)
(*                                                                         *)
(* Instants are ticks of the steady clock, TicksPerMs of them to the       *)
(* millisecond that interval and ttl are given in.                         *)
(***************************************************************************)
EXTENDS StateStore, Evaluator

CONSTANTS
    Monitors,       \* registered ids; their order as numbers is the order of the ids
    Others,         \* ids in the store that no monitor writes
    Pumps,          \* the threads that call run_due
    Statuses,
    Interval,       \* MonitorDefinition, one function per field
    Ttl,
    Policy,
    FirstDue,       \* first_due of each registration
    Seeded,         \* ids main puts in the store before anything runs
    Results,        \* what a runner may return, without observed_at
    MaxRuns,        \* maximum_runs
    MonitorLimit,   \* maximum_monitor_count
    TicksPerMs,
    MaxTime         \* bound of the model: the clock stops here

Ids == Monitors \cup Others

ASSUME MonitorsAssumption   == Monitors \subseteq Nat /\ IsFiniteSet(Monitors)
ASSUME DefinitionAssumption == /\ Interval \in [Monitors -> Nat]
                               /\ Ttl \in [Monitors -> Optional(Nat)]
                               /\ FirstDue \in [Monitors -> Nat]
ASSUME PolicyAssumption ==
    \A m \in Monitors :
        /\ Policy[m].failure \in Statuses
        /\ Policy[m].no_match \in Statuses
        /\ \A i \in DOMAIN Policy[m].rules : Policy[m].rules[i].status \in Statuses
ASSUME ResultAssumption == \A r \in Results : r.transport_success \in BOOLEAN
ASSUME StatusAssumption == "unknown" \in Statuses /\ Seeded \subseteq Ids
ASSUME BoundAssumption  == /\ MaxRuns \in Nat
                           /\ MonitorLimit \in Nat
                           /\ TicksPerMs \in Nat \ {0}
                           /\ MaxTime \in Nat

VARIABLES
    now,        \* the steady clock
    registered, \* the jobs_ vector, as the set of the ids in it
    next_due,   \* Job::next_due
    in_flight,  \* Job::in_flight
    store,      \* the StateStore: id -> optional entry
    pc,         \* where each pump stands
    seen,       \* the clock reading a pump was called with
    claims,     \* the jobs a pump has still to finish -> the due time it claimed
    result      \* the optional result a pump has still to publish

jobVars   == <<registered, next_due, in_flight>>
pumpVars  == <<pc, seen, claims, result>>
vars      == <<now, jobVars, store, pumpVars>>

Result ==
    [transport_success : BOOLEAN, value : {r.value : r \in Results} \cup {NoValue},
     observed_at : Optional(Nat)]

NoClaims == [m \in {} |-> 0]

TypeOK ==
    /\ now \in Nat
    /\ registered \subseteq Monitors
    /\ next_due \in [Monitors -> Nat]
    /\ in_flight \in [Monitors -> BOOLEAN]
    /\ store \in [Ids -> Optional(Entry(Statuses))]
    /\ pc \in [Pumps -> {"idle", "entered", "running", "publishing", "releasing", "failed"}]
    /\ seen \in [Pumps -> Nat]
    /\ claims = [p \in Pumps |-> claims[p]]
    /\ \A p \in Pumps : \E S \in SUBSET Monitors : claims[p] \in [S -> Nat]
    /\ result \in [Pumps -> Optional(Result)]

\* main: every source on the display starts as "unknown", without a ttl.
Seed == [status |-> "unknown", updated_at |-> 0, ttl |-> {}, entered_at |-> 0]

Init ==
    /\ now = 0
    /\ registered = {}
    /\ next_due = FirstDue
    /\ in_flight = [m \in Monitors |-> FALSE]
    /\ store = [id \in Ids |-> IF id \in Seeded THEN {Seed} ELSE {}]
    /\ pc = [p \in Pumps |-> "idle"]
    /\ seen = [p \in Pumps |-> 0]
    /\ claims = [p \in Pumps |-> NoClaims]
    /\ result = [p \in Pumps |-> {}]

Goto(p, from, to) == pc[p] = from /\ pc' = [pc EXCEPT ![p] = to]

\* Durations are milliseconds; a TimePoint difference is truncated to them.
Ticks(duration)    == duration * TicksPerMs
Milliseconds(span) == span \div TicksPerMs

\* A ttl of the definition, in ticks.
TtlTicks(m) == {Ticks(d) : d \in Ttl[m]}

Tick ==
    /\ now < MaxTime
    /\ now' = now + 1
    /\ UNCHANGED <<jobVars, store, pumpVars>>

\* MonitorEngine::add, when it accepts the definition; a rejection changes nothing.
Register(m) ==
    /\ Interval[m] > 0
    /\ \A d \in Ttl[m] : d > 0
    /\ PolicyValid(Policy[m])
    /\ Cardinality(registered) < MonitorLimit
    /\ m \notin registered
    /\ registered' = registered \cup {m}
    /\ UNCHANGED <<now, next_due, in_flight, store, pumpVars>>

\* The caller reads the clock before run_due takes the mutex.
ReadClock(p) ==
    /\ Goto(p, "idle", "entered")
    /\ seen' = [seen EXCEPT ![p] = now]
    /\ UNCHANGED <<now, jobVars, store, claims, result>>

\* Faulty: a job in flight counts as due.
DueThoughInFlight(t) == {m \in registered : next_due[m] <= t}

Due(t) == {m \in registered : ~in_flight[m] /\ next_due[m] <= t}

\* The order of the due list: by due time, then by id.
Precedes(due, j, m) == due[j] < due[m] \/ (due[j] = due[m] /\ j < m)

\* Faulty: the list is resized before it is sorted, so the lowest ids win.
EarliestUnsorted(jobs, due, n) == {m \in jobs : Cardinality({j \in jobs : j < m}) < n}

\* What the sorted list keeps after resize(min(maximum_runs, size)).
Earliest(jobs, due, n) ==
    {m \in jobs : Cardinality({j \in jobs : Precedes(due, j, m)}) < n}

\* Faulty: the interval is counted from the time of the pump.
AdvanceFromReading(m, t) == t + Ticks(Interval[m])

\* Faulty: one interval, however late the pump is.
AdvanceOnce(m, t) == next_due[m] + Ticks(Interval[m])

\* The due time a claim moves a job to.
Advance(m, t) ==
    LET overdue == Milliseconds(t - next_due[m])
        periods == overdue \div Interval[m] + 1
    IN  next_due[m] + Ticks(Interval[m] * periods)

\* run_due up to the first release of the mutex.
Claim(p) ==
    LET batch == Earliest(Due(seen[p]), next_due, MaxRuns)
    IN  /\ Goto(p, "entered", IF batch = {} THEN "idle" ELSE "running")
        /\ claims' = [claims EXCEPT ![p] = [m \in batch |-> next_due[m]]]
        /\ next_due' = [m \in Monitors |->
                          IF m \in batch THEN Advance(m, seen[p]) ELSE next_due[m]]
        /\ in_flight' = [m \in Monitors |-> m \in batch \/ in_flight[m]]
        /\ UNCHANGED <<now, registered, store, seen, result>>

\* The job a pump is working on: due[index], the first it has not finished.
IsCurrent(p, m) ==
    /\ m \in DOMAIN claims[p]
    /\ \A j \in DOMAIN claims[p] : ~Precedes(claims[p], j, m)

\* runner->run returns; a runner that keeps time reports the instant it finished.
RunnerReturn(p) ==
    /\ Goto(p, "running", "publishing")
    /\ \E r \in Results, observed \in {{}, {now}} :
          result' = [result EXCEPT ![p] =
                       {[transport_success |-> r.transport_success,
                         value             |-> r.value,
                         observed_at       |-> observed]}]
    /\ UNCHANGED <<now, jobVars, store, seen, claims>>

\* runner->run throws: an internal transport failure with no observation time.
RunnerThrow(p) ==
    /\ Goto(p, "running", "publishing")
    /\ result' = [result EXCEPT ![p] =
                    {[transport_success |-> FALSE,
                      value             |-> NoValue,
                      observed_at       |-> {}]}]
    /\ UNCHANGED <<now, jobVars, store, seen, claims>>

\* Faulty: the date of the result is that of the next due time.
ObservedWhenDue(p, r) == The({next_due[m] : m \in {j \in Monitors : IsCurrent(p, j)}})

\* result.observed_at.value_or(now), for the now that run_due was called with.
ObservedAt(p, r) == IF r.observed_at = {} THEN seen[p] ELSE The(r.observed_at)

\* The result is evaluated and written to the store.
Publish(p) ==
    /\ Goto(p, "publishing", "releasing")
    /\ \E m \in Monitors, r \in result[p], status \in Statuses :
          /\ IsCurrent(p, m)
          /\ IsOutcome(r, Policy[m], status)
          /\ store' = Upsert(store, m, [status     |-> status,
                                        updated_at |-> ObservedAt(p, r),
                                        ttl        |-> TtlTicks(m)])
    /\ result' = [result EXCEPT ![p] = {}]
    /\ UNCHANGED <<now, jobVars, seen, claims>>

\* Faulty: only the job whose publication threw is given back.
PublishThrowKeepsBatch(p) ==
    /\ Goto(p, "publishing", "failed")
    /\ in_flight' = [m \in Monitors |-> in_flight[m] /\ ~IsCurrent(p, m)]
    /\ claims' = [claims EXCEPT ![p] = NoClaims]
    /\ result' = [result EXCEPT ![p] = {}]
    /\ UNCHANGED <<now, registered, next_due, store, seen>>

\* Evaluating or writing throws: the claims not yet finished are given back and
\* the exception leaves run_due.
PublishThrow(p) ==
    /\ Goto(p, "publishing", "failed")
    /\ in_flight' = [m \in Monitors |-> in_flight[m] /\ m \notin DOMAIN claims[p]]
    /\ claims' = [claims EXCEPT ![p] = NoClaims]
    /\ result' = [result EXCEPT ![p] = {}]
    /\ UNCHANGED <<now, registered, next_due, store, seen>>

\* The claims of p once job m is done.
Remaining(p, m) == [j \in DOMAIN claims[p] \ {m} |-> claims[p][j]]

\* Faulty: the flag of the finished job is left up.
ReleaseKeepsFlag(p) ==
    \E m \in Monitors :
        /\ IsCurrent(p, m)
        /\ Goto(p, "releasing", IF DOMAIN claims[p] = {m} THEN "idle" ELSE "running")
        /\ claims' = [claims EXCEPT ![p] = Remaining(p, m)]
        /\ UNCHANGED <<now, registered, next_due, in_flight, store, seen, result>>

\* The mutex again: the job is free, and the next one of the batch runs.
Release(p) ==
    \E m \in Monitors :
        /\ IsCurrent(p, m)
        /\ Goto(p, "releasing", IF DOMAIN claims[p] = {m} THEN "idle" ELSE "running")
        /\ in_flight' = [in_flight EXCEPT ![m] = FALSE]
        /\ claims' = [claims EXCEPT ![p] = Remaining(p, m)]
        /\ UNCHANGED <<now, registered, next_due, store, seen, result>>

\* The caller has dealt with the exception and may pump again.
Recover(p) ==
    /\ Goto(p, "failed", "idle")
    /\ UNCHANGED <<now, jobVars, store, seen, claims, result>>

PumpStep(p) ==
    \/ ReadClock(p)
    \/ Claim(p)
    \/ RunnerReturn(p)
    \/ RunnerThrow(p)
    \/ Publish(p)
    \/ PublishThrow(p)
    \/ Release(p)
    \/ Recover(p)

Next ==
    \/ Tick
    \/ \E m \in Monitors : Register(m)
    \/ \E p \in Pumps : PumpStep(p)

Spec == Init /\ [][Next]_vars

-----------------------------------------------------------------------------
(* Safety. *)

\* The in_flight flag of a job is raised exactly while one pump holds the job,
\* and no two pumps hold the same job: a claim neither overlaps another run of
\* its monitor nor is lost on any path out of run_due, the exceptional one
\* included (a lost claim would silence the monitor for good).
ClaimsMatchFlags ==
    /\ \A m \in Monitors : in_flight[m] <=> \E p \in Pumps : m \in DOMAIN claims[p]
    /\ \A p, q \in Pumps : p # q => DOMAIN claims[p] \cap DOMAIN claims[q] = {}

\* The schedule never drifts: however late a job is claimed, its due times stay
\* whole intervals away from its first one.
InPhase ==
    \A m \in registered : (next_due[m] - FirstDue[m]) % Ticks(Interval[m]) = 0

\* A claim moves the job to its first due time strictly after the instant the
\* pump was called with: missed intervals are not replayed and none is skipped,
\* although the lateness is truncated to milliseconds on the way.
ClaimAdvancesPastNow ==
    [][\A m \in Monitors, p \in Pumps :
          m \in DOMAIN claims'[p] /\ m \notin DOMAIN claims[p]
             => /\ next_due'[m] > seen[p]
                /\ next_due'[m] - Ticks(Interval[m]) <= seen[p]]_vars

\* A pump that leaves a due job behind takes only jobs that come before it in
\* the order of the list, and each of those comes after it from then on: under
\* maximum_runs no job is passed twice by the same one, so none is starved.
PassedAtMostOnce ==
    [][\A p \in Pumps :
          LET taken == DOMAIN claims'[p] \ DOMAIN claims[p]
          IN  \A j \in taken, m \in Due(seen[p]) \ taken :
                 /\ Precedes(next_due, j, m)
                 /\ Precedes(next_due', m, j)]_vars

\* The runs of one monitor reach the store in the order they were made: what a
\* runner observed is never replaced by an older observation of a runner.  (A
\* result without its own time is dated by the pump's clock reading, which may
\* be older than the entry it replaces.)
ObservationsInOrder ==
    [][\A p \in Pumps, m \in Monitors :
          /\ pc[p] = "publishing" /\ pc'[p] = "releasing" /\ IsCurrent(p, m)
          /\ \E r \in result[p] : r.observed_at # {}
          => \A e \in store[m] : \A f \in store'[m] : f.updated_at >= e.updated_at]_vars

\* Nothing in the store is dated after the present, so ages and animation
\* times computed from it are never negative, and an entry has entered its
\* status by the time it is resolved.
NothingFromTheFuture ==
    \A id \in Ids : \A e \in store[id] :
        e.updated_at <= now /\ EffectiveEpoch(e, now) <= now
=============================================================================
