------------------------------ MODULE MonitorProofs ---------------------------
(***************************************************************************)
(* What MonitorEngine guarantees for any number of monitors, pumps and     *)
(* statuses, any intervals and ttls, and a clock without a bound, and what *)
(* MonitorExecutor guarantees for any number of threads, workers and       *)
(* starts.  The pool takes only steps of the engine, so everything proved  *)
(* of the engine holds in it; what is added about it is where its threads  *)
(* are while it is stopped, and how many run monitors at once.             *)
(***************************************************************************)
EXTENDS MonitorExecutor, FiniteSetTheorems, TLAPS

-----------------------------------------------------------------------------
(* Optionals. *)

LEMMA OptionalElement ==
    ASSUME NEW S, NEW s \in Optional(S), NEW x \in s
    PROVE  x \in S /\ The(s) = x
  BY DEF Optional, The

LEMMA EmptyOptional == ASSUME NEW S PROVE {} \in Optional(S)
  BY DEF Optional

LEMMA SingletonOptional == ASSUME NEW S, NEW x \in S PROVE {x} \in Optional(S)
  BY DEF Optional

-----------------------------------------------------------------------------
(* Arithmetic of the schedule. *)

LEMMA Division ==
    ASSUME NEW a \in Nat, NEW b \in Nat, b > 0
    PROVE  /\ a \div b \in Nat
           /\ (a \div b) * b <= a
           /\ a < (a \div b + 1) * b
  OBVIOUS

LEMMA ProductMonotone ==
    ASSUME NEW a \in Nat, NEW b \in Nat, NEW c \in Nat, a <= b
    PROVE  a * c <= b * c
  OBVIOUS

LEMMA ProductNat ==
    ASSUME NEW a \in Nat, NEW b \in Nat
    PROVE  a * b \in Nat
  OBVIOUS

LEMMA ProductOfNext ==
    ASSUME NEW a \in Nat, NEW b \in Nat
    PROVE  (a + 1) * b = a * b + b
  OBVIOUS

\* Where a claim moves a job that is due: beyond the reading, by whole intervals,
\* and not further than the first of them that is beyond it.
LEMMA AdvanceIsNextInterval ==
    ASSUME NEW m \in Monitors, NEW t \in Nat, next_due[m] \in Nat,
           next_due[m] <= t, Interval[m] > 0
    PROVE  /\ Advance(m, t) \in Nat
           /\ Advance(m, t) > t
           /\ Advance(m, t) - Ticks(Interval[m]) <= t
           /\ \E k \in Nat : Advance(m, t) = next_due[m] + k * Ticks(Interval[m])
<1> DEFINE late    == t - next_due[m]
           overdue == late \div TicksPerMs
           missed  == overdue \div Interval[m]
           period  == Interval[m] * TicksPerMs
<1>1. Interval[m] \in Nat /\ TicksPerMs \in Nat /\ TicksPerMs > 0 /\ late \in Nat
  BY DefinitionAssumption, BoundAssumption
<1>2. /\ overdue \in Nat
      /\ overdue * TicksPerMs <= late
      /\ late < (overdue + 1) * TicksPerMs
  BY <1>1, Division
<1>3. /\ missed \in Nat
      /\ missed * Interval[m] <= overdue
      /\ overdue + 1 <= (missed + 1) * Interval[m]
  <2>1. /\ missed \in Nat
        /\ missed * Interval[m] <= overdue
        /\ overdue < (missed + 1) * Interval[m]
    BY <1>1, <1>2, Division
  <2>2. (missed + 1) * Interval[m] \in Nat
    BY <1>1, <2>1, ProductNat
  <2> QED  BY <1>2, <2>1, <2>2
<1>4. period \in Nat /\ Ticks(Interval[m]) = period
  BY <1>1, ProductNat DEF Ticks
<1>5. missed * period <= late
  <2>1. (missed * Interval[m]) * TicksPerMs <= overdue * TicksPerMs
    BY <1>1, <1>2, <1>3, ProductNat, ProductMonotone
  <2>2. (missed * Interval[m]) * TicksPerMs = missed * period
    BY <1>1, <1>3
  <2> QED  BY <1>1, <1>2, <1>3, <1>4, <2>1, <2>2, ProductNat
<1>6. late < (missed + 1) * period
  <2>1. (overdue + 1) * TicksPerMs <= ((missed + 1) * Interval[m]) * TicksPerMs
    BY <1>1, <1>2, <1>3, ProductNat, ProductMonotone
  <2>2. ((missed + 1) * Interval[m]) * TicksPerMs = (missed + 1) * period
    BY <1>1, <1>3
  <2> QED  BY <1>1, <1>2, <1>3, <1>4, <2>1, <2>2, ProductNat
<1>7. Advance(m, t) = next_due[m] + (missed + 1) * period
  <2>1. Advance(m, t) = next_due[m] + (Interval[m] * (missed + 1)) * TicksPerMs
    BY DEF Advance, Ticks, Milliseconds
  <2>2. (Interval[m] * (missed + 1)) * TicksPerMs = (missed + 1) * period
    BY <1>1, <1>3
  <2> QED  BY <2>1, <2>2
<1>8. (missed + 1) * period \in Nat /\ (missed + 1) * period = missed * period + period
  <2>1. missed + 1 \in Nat
    BY <1>3
  <2> QED  BY <1>3, <1>4, <2>1, ProductNat, ProductOfNext
<1> QED
  <2>1. /\ Advance(m, t) \in Nat
        /\ Advance(m, t) > t
    BY <1>1, <1>6, <1>7, <1>8
  <2>2. Advance(m, t) - Ticks(Interval[m]) <= t
    BY <1>1, <1>3, <1>4, <1>5, <1>7, <1>8, ProductNat
  <2>3. missed + 1 \in Nat /\ Advance(m, t) = next_due[m] + (missed + 1) * Ticks(Interval[m])
    BY <1>3, <1>4, <1>7
  <2> QED  BY <2>1, <2>2, <2>3

-----------------------------------------------------------------------------
(* Type correctness.  The due times stay natural numbers only because every  *)
(* registered interval is positive and only registered jobs are claimed.     *)

RegisteredAdvance == \A m \in registered : Interval[m] > 0

TInv == TypeOK /\ RegisteredAdvance

LEMMA BatchIsDue ==
    ASSUME TypeOK, NEW t \in Nat, NEW m \in Earliest(Due(t), next_due, MaxRuns)
    PROVE  /\ m \in registered /\ m \in Monitors
           /\ ~in_flight[m]
           /\ next_due[m] \in Nat /\ next_due[m] <= t
  BY DEF Earliest, Due, TypeOK

LEMMA InitTypes == Init => TInv
<1> SUFFICES ASSUME Init PROVE TInv
  OBVIOUS
<1>1. store \in [Ids -> Optional(Entry(Statuses))]
  <2>1. Seed \in Entry(Statuses)
    BY StatusAssumption, EmptyOptional DEF Seed, Entry
  <2> QED  BY <2>1, EmptyOptional, SingletonOptional DEF Init
<1>2. \A p \in Pumps : \E S \in SUBSET Monitors : claims[p] \in [S -> Nat]
  <2>1. NoClaims \in [{} -> Nat]
    BY DEF NoClaims
  <2> QED  BY <2>1 DEF Init
<1>3. result \in [Pumps -> Optional(Result)]
  BY EmptyOptional DEF Init
<1> QED
  BY <1>1, <1>2, <1>3, DefinitionAssumption DEF Init, TInv, TypeOK, RegisteredAdvance

LEMMA ClaimTypes ==
    ASSUME TInv, NEW p \in Pumps, Claim(p)
    PROVE  TInv'
<1> DEFINE batch == Earliest(Due(seen[p]), next_due, MaxRuns)
<1> USE DEF TInv
<1>1. seen[p] \in Nat
  BY DEF TypeOK
<1>2. \A m \in batch : m \in Monitors /\ next_due[m] \in Nat
  BY <1>1, BatchIsDue
<1>3. next_due' \in [Monitors -> Nat]
  <2>1. ASSUME NEW m \in Monitors, m \in batch PROVE Advance(m, seen[p]) \in Nat
    <3>1. m \in registered /\ next_due[m] \in Nat /\ next_due[m] <= seen[p]
      BY <1>1, <2>1, BatchIsDue
    <3>2. Interval[m] > 0
      BY <3>1 DEF RegisteredAdvance
    <3> QED  BY <1>1, <3>1, <3>2, AdvanceIsNextInterval
  <2> QED  BY <2>1 DEF Claim, TypeOK
<1>4. claims'[p] \in [batch -> Nat] /\ batch \in SUBSET Monitors
  BY <1>2 DEF Claim, TypeOK
<1>5. /\ claims' = [q \in Pumps |-> claims'[q]]
      /\ \A q \in Pumps : \E S \in SUBSET Monitors : claims'[q] \in [S -> Nat]
  BY <1>4 DEF Claim, TypeOK
<1>6. in_flight' \in [Monitors -> BOOLEAN]
  BY DEF Claim, TypeOK
<1>7. pc' \in [Pumps -> {"idle", "entered", "running", "publishing", "releasing", "failed"}]
  BY DEF Claim, Goto, TypeOK
<1> QED
  BY <1>3, <1>5, <1>6, <1>7 DEF Claim, TypeOK, RegisteredAdvance

LEMMA RunnerTypes ==
    ASSUME TInv, NEW p \in Pumps, RunnerReturn(p) \/ RunnerThrow(p)
    PROVE  TInv'
<1> USE DEF TInv
<1>1. \E r \in Result : result' = [result EXCEPT ![p] = {r}]
  <2>1. CASE RunnerReturn(p)
    <3>1. PICK r \in Results, observed \in {{}, {now}} :
            result' = [result EXCEPT ![p] = {[transport_success |-> r.transport_success,
                                              value             |-> r.value,
                                              observed_at       |-> observed]}]
      BY <2>1 DEF RunnerReturn
    <3>2. observed \in Optional(Nat)
      <4>1. now \in Nat
        BY DEF TypeOK
      <4>2. {} \in Optional(Nat) /\ {now} \in Optional(Nat)
        BY <4>1, EmptyOptional, SingletonOptional
      <4> QED  BY <4>2
    <3>3. r.transport_success \in BOOLEAN
      BY ResultAssumption
    <3> QED  BY <3>1, <3>2, <3>3 DEF Result
  <2>2. CASE RunnerThrow(p)
    BY <2>2, EmptyOptional DEF RunnerThrow, Result
  <2> QED  BY <2>1, <2>2
<1>2. result' \in [Pumps -> Optional(Result)]
  BY <1>1, SingletonOptional DEF TypeOK
<1>3. pc' \in [Pumps -> {"idle", "entered", "running", "publishing", "releasing", "failed"}]
  BY DEF RunnerReturn, RunnerThrow, Goto, TypeOK
<1> QED
  BY <1>2, <1>3 DEF RunnerReturn, RunnerThrow, TypeOK, RegisteredAdvance, jobVars

LEMMA ResultType ==
    ASSUME TypeOK, NEW p \in Pumps, NEW r \in result[p]
    PROVE  r.observed_at \in Optional(Nat)
<1>1. result[p] \in Optional(Result)
  BY DEF TypeOK
<1>2. r \in Result
  BY <1>1, OptionalElement
<1> QED  BY <1>2 DEF Result

\* The instant a result is dated by, and the entry it leaves in the store.
LEMMA ObservedNat ==
    ASSUME TypeOK, NEW p \in Pumps, NEW r \in result[p]
    PROVE  ObservedAt(p, r) \in Nat
<1>1. r.observed_at \in Optional(Nat)
  BY ResultType
<1>2. r.observed_at # {} => The(r.observed_at) \in Nat
  BY <1>1, OptionalElement
<1> QED  BY <1>2 DEF ObservedAt, TypeOK

LEMMA NewEntryType ==
    ASSUME NEW existing \in Optional(Entry(Statuses)), NEW state \in MonitorState(Statuses)
    PROVE  NewEntry(existing, state) \in Entry(Statuses)
<1>1. EnteredAt(existing, state) \in Nat
  <2>1. CASE \E e \in existing : KeepsEpoch(e, state)
    <3>1. The(existing) \in Entry(Statuses)
      BY <2>1, OptionalElement
    <3> QED  BY <2>1, <3>1 DEF EnteredAt, Entry
  <2>2. CASE ~\E e \in existing : KeepsEpoch(e, state)
    BY <2>2 DEF EnteredAt, MonitorState
  <2> QED  BY <2>1, <2>2
<1> QED  BY <1>1 DEF NewEntry, Entry, MonitorState

LEMMA TtlTicksType == ASSUME NEW m \in Monitors PROVE TtlTicks(m) \in Optional(Nat)
<1>1. Ttl[m] \in Optional(Nat) /\ TicksPerMs \in Nat
  BY DefinitionAssumption, BoundAssumption
<1>2. \A d \in Ttl[m] : Ticks(d) \in Nat
  <2>1. ASSUME NEW d \in Ttl[m] PROVE Ticks(d) \in Nat
    <3>1. d \in Nat
      BY <1>1 DEF Optional
    <3> QED  BY <1>1, <3>1, ProductNat DEF Ticks
  <2> QED  BY <2>1
<1>3. \A x, y \in TtlTicks(m) : x = y
  BY <1>1 DEF TtlTicks, Optional
<1> QED  BY <1>2, <1>3 DEF TtlTicks, Optional

LEMMA PublishTypes ==
    ASSUME TInv, NEW p \in Pumps, Publish(p)
    PROVE  TInv'
<1> USE DEF TInv
<1>1. PICK m \in Monitors, r \in result[p], status \in Statuses :
        store' = Upsert(store, m, [status     |-> status,
                                   updated_at |-> ObservedAt(p, r),
                                   ttl        |-> TtlTicks(m)])
  BY DEF Publish
<1> DEFINE state == [status |-> status, updated_at |-> ObservedAt(p, r), ttl |-> TtlTicks(m)]
<1>2. state \in MonitorState(Statuses)
  BY ObservedNat, TtlTicksType DEF MonitorState
<1>3. m \in Ids /\ store[m] \in Optional(Entry(Statuses))
  BY DEF Ids, TypeOK
<1>4. {NewEntry(store[m], state)} \in Optional(Entry(Statuses))
  BY <1>2, <1>3, NewEntryType, SingletonOptional
<1>5. store' \in [Ids -> Optional(Entry(Statuses))]
  BY <1>1, <1>3, <1>4 DEF Upsert, TypeOK
<1>6. result' \in [Pumps -> Optional(Result)]
  BY EmptyOptional DEF Publish, TypeOK
<1>7. pc' \in [Pumps -> {"idle", "entered", "running", "publishing", "releasing", "failed"}]
  BY DEF Publish, Goto, TypeOK
<1> QED
  BY <1>5, <1>6, <1>7 DEF Publish, TypeOK, RegisteredAdvance, jobVars

LEMMA NoClaimsType == NoClaims \in [{} -> Nat]
  BY DEF NoClaims

LEMMA FinishTypes ==
    ASSUME TInv, NEW p \in Pumps, PublishThrow(p) \/ Release(p)
    PROVE  TInv'
<1> USE DEF TInv
<1>1. /\ claims' = [q \in Pumps |-> claims'[q]]
      /\ \A q \in Pumps : \E S \in SUBSET Monitors : claims'[q] \in [S -> Nat]
  <2>1. CASE PublishThrow(p)
    BY <2>1, NoClaimsType DEF PublishThrow, TypeOK
  <2>2. CASE Release(p)
    <3>1. PICK m \in Monitors : claims' = [claims EXCEPT ![p] = Remaining(p, m)]
      BY <2>2 DEF Release
    <3>2. PICK S \in SUBSET Monitors : claims[p] \in [S -> Nat]
      BY DEF TypeOK
    <3>3. Remaining(p, m) \in [S \ {m} -> Nat]
      BY <3>2 DEF Remaining
    <3> QED  BY <3>1, <3>3 DEF TypeOK
  <2> QED  BY <2>1, <2>2
<1>2. result' \in [Pumps -> Optional(Result)]
  BY EmptyOptional DEF PublishThrow, Release, TypeOK
<1>3. pc' \in [Pumps -> {"idle", "entered", "running", "publishing", "releasing", "failed"}]
  BY DEF PublishThrow, Release, Goto, TypeOK
<1>4. in_flight' \in [Monitors -> BOOLEAN]
  BY DEF PublishThrow, Release, TypeOK
<1> QED
  BY <1>1, <1>2, <1>3, <1>4 DEF PublishThrow, Release, TypeOK, RegisteredAdvance

LEMMA StepTypes == TInv /\ [Next]_vars => TInv'
<1> SUFFICES ASSUME TInv, [Next]_vars PROVE TInv'
  OBVIOUS
<1> USE DEF TInv
<1>1. CASE Tick
  BY <1>1 DEF Tick, TypeOK, RegisteredAdvance, jobVars, pumpVars
<1>2. ASSUME NEW m \in Monitors, Register(m) PROVE TInv'
  <2>1. Interval[m] > 0 /\ registered' \subseteq Monitors
    BY <1>2 DEF Register, TypeOK
  <2> QED  BY <1>2, <2>1 DEF Register, TypeOK, RegisteredAdvance, pumpVars
<1>3. ASSUME NEW p \in Pumps, ReadClock(p) PROVE TInv'
  BY <1>3 DEF ReadClock, Goto, TypeOK, RegisteredAdvance, jobVars
<1>4. ASSUME NEW p \in Pumps, Recover(p) PROVE TInv'
  BY <1>4 DEF Recover, Goto, TypeOK, RegisteredAdvance, jobVars
<1>5. CASE UNCHANGED vars
  BY <1>5 DEF vars, TypeOK, RegisteredAdvance, jobVars, pumpVars
<1> QED
  BY <1>1, <1>2, <1>3, <1>4, <1>5, ClaimTypes, RunnerTypes, PublishTypes, FinishTypes
     DEF Next, PumpStep

\* Every variable keeps its type in every behaviour: in particular no due time
\* leaves the natural numbers, whatever intervals the definitions have.
THEOREM TypeCorrect == Spec => []TypeOK
<1>1. TInv => TypeOK
  BY DEF TInv
<1> QED  BY <1>1, InitTypes, StepTypes, PTL DEF Spec

-----------------------------------------------------------------------------
(* Single flight.  ClaimsMatchFlags is not inductive by itself: a claim       *)
(* replaces what the pump held, so it must have held nothing.                *)

IdleHoldsNothing ==
    \A p \in Pumps : pc[p] \in {"idle", "entered", "failed"} => DOMAIN claims[p] = {}

FlightInv == TInv /\ IdleHoldsNothing /\ ClaimsMatchFlags

LEMMA InitFlight == Init => FlightInv
<1> SUFFICES ASSUME Init PROVE FlightInv
  OBVIOUS
<1>1. \A p \in Pumps : DOMAIN claims[p] = {}
  BY DEF Init, NoClaims
<1> QED
  BY <1>1, InitTypes DEF Init, FlightInv, IdleHoldsNothing, ClaimsMatchFlags

\* The claims of one pump after a step that changes only them.
LEMMA ClaimsOfOthers ==
    ASSUME TypeOK, NEW p \in Pumps, NEW held, claims' = [claims EXCEPT ![p] = held]
    PROVE  claims'[p] = held /\ \A q \in Pumps \ {p} : claims'[q] = claims[q]
  BY DEF TypeOK

LEMMA ClaimFlight ==
    ASSUME FlightInv, NEW p \in Pumps, Claim(p)
    PROVE  IdleHoldsNothing' /\ ClaimsMatchFlags'
<1> DEFINE batch == Earliest(Due(seen[p]), next_due, MaxRuns)
<1> USE DEF FlightInv, TInv
<1>1. DOMAIN claims[p] = {}
  BY DEF Claim, Goto, IdleHoldsNothing
<1>2. DOMAIN claims'[p] = batch /\ \A q \in Pumps \ {p} : claims'[q] = claims[q]
  <2>1. claims' = [claims EXCEPT ![p] = [m \in batch |-> next_due[m]]]
    BY DEF Claim
  <2> QED  BY <2>1, ClaimsOfOthers
<1>3. \A m \in batch : m \in Monitors /\ ~in_flight[m]
  <2>1. seen[p] \in Nat
    BY DEF TypeOK
  <2> QED  BY <2>1, BatchIsDue
<1>4. \A m \in Monitors : in_flight'[m] <=> m \in batch \/ in_flight[m]
  BY DEF Claim
<1>5. IdleHoldsNothing'
  BY <1>2 DEF Claim, Goto, IdleHoldsNothing, TypeOK
<1>6. \A m \in Monitors : in_flight'[m] <=> \E q \in Pumps : m \in DOMAIN claims'[q]
  BY <1>1, <1>2, <1>4 DEF ClaimsMatchFlags
<1>7. \A q, r \in Pumps : q # r => DOMAIN claims'[q] \cap DOMAIN claims'[r] = {}
  BY <1>2, <1>3 DEF ClaimsMatchFlags
<1> QED  BY <1>5, <1>6, <1>7 DEF ClaimsMatchFlags

\* A pump gives up some of its claims, all the others of its flags staying up.
LEMMA GiveBack ==
    ASSUME FlightInv, NEW p \in Pumps, NEW given \in SUBSET DOMAIN claims[p],
           DOMAIN claims'[p] = DOMAIN claims[p] \ given,
           \A q \in Pumps \ {p} : claims'[q] = claims[q],
           \A m \in Monitors : in_flight'[m] <=> in_flight[m] /\ m \notin given
    PROVE  ClaimsMatchFlags'
<1> USE DEF FlightInv
<1>1. \A q, r \in Pumps : q # r => DOMAIN claims'[q] \cap DOMAIN claims'[r] = {}
  BY DEF ClaimsMatchFlags
<1>2. ASSUME NEW m \in Monitors
      PROVE  in_flight'[m] <=> \E q \in Pumps : m \in DOMAIN claims'[q]
  <2>1. CASE m \in given
    BY <2>1 DEF ClaimsMatchFlags
  <2>2. CASE m \notin given
    <3>1. \A q \in Pumps : m \in DOMAIN claims'[q] <=> m \in DOMAIN claims[q]
      BY <2>2
    <3> QED  BY <2>2, <3>1 DEF ClaimsMatchFlags
  <2> QED  BY <2>1, <2>2
<1> QED  BY <1>1, <1>2 DEF ClaimsMatchFlags

LEMMA PublishThrowFlight ==
    ASSUME FlightInv, NEW p \in Pumps, PublishThrow(p)
    PROVE  IdleHoldsNothing' /\ ClaimsMatchFlags'
<1> USE DEF FlightInv, TInv
<1>1. claims'[p] = NoClaims /\ \A q \in Pumps \ {p} : claims'[q] = claims[q]
  <2>1. claims' = [claims EXCEPT ![p] = NoClaims]
    BY DEF PublishThrow
  <2> QED  BY <2>1, ClaimsOfOthers
<1>2. DOMAIN claims'[p] = {}
  BY <1>1 DEF NoClaims
<1>3. IdleHoldsNothing'
  BY <1>1, <1>2 DEF PublishThrow, Goto, IdleHoldsNothing, TypeOK
<1>4. \A m \in Monitors : in_flight'[m] <=> in_flight[m] /\ m \notin DOMAIN claims[p]
  BY DEF PublishThrow
<1> QED  BY <1>1, <1>2, <1>3, <1>4, GiveBack

LEMMA ReleaseFlight ==
    ASSUME FlightInv, NEW p \in Pumps, Release(p)
    PROVE  IdleHoldsNothing' /\ ClaimsMatchFlags'
<1> USE DEF FlightInv, TInv
<1>1. PICK m \in Monitors :
        /\ IsCurrent(p, m)
        /\ Goto(p, "releasing", IF DOMAIN claims[p] = {m} THEN "idle" ELSE "running")
        /\ in_flight' = [in_flight EXCEPT ![m] = FALSE]
        /\ claims' = [claims EXCEPT ![p] = Remaining(p, m)]
  BY DEF Release
<1>2. claims'[p] = Remaining(p, m) /\ \A q \in Pumps \ {p} : claims'[q] = claims[q]
  BY <1>1, ClaimsOfOthers
<1>3. DOMAIN claims'[p] = DOMAIN claims[p] \ {m}
  BY <1>2 DEF Remaining
<1>4. IdleHoldsNothing'
  BY <1>1, <1>2, <1>3 DEF Goto, IdleHoldsNothing, TypeOK
<1>5. \A j \in Monitors : in_flight'[j] <=> in_flight[j] /\ j \notin {m}
  BY <1>1 DEF TypeOK
<1>6. {m} \in SUBSET DOMAIN claims[p]
  BY <1>1 DEF IsCurrent
<1> QED  BY <1>2, <1>3, <1>4, <1>5, <1>6, GiveBack

LEMMA StepFlight == FlightInv /\ [Next]_vars => FlightInv'
<1> SUFFICES ASSUME FlightInv, [Next]_vars PROVE IdleHoldsNothing' /\ ClaimsMatchFlags'
  BY StepTypes DEF FlightInv
<1> USE DEF FlightInv
<1>1. CASE Tick
  BY <1>1 DEF Tick, IdleHoldsNothing, ClaimsMatchFlags, jobVars, pumpVars
<1>2. ASSUME NEW m \in Monitors, Register(m) PROVE IdleHoldsNothing' /\ ClaimsMatchFlags'
  BY <1>2 DEF Register, IdleHoldsNothing, ClaimsMatchFlags, pumpVars
<1>3. ASSUME NEW p \in Pumps,
             ReadClock(p) \/ RunnerReturn(p) \/ RunnerThrow(p) \/ Publish(p) \/ Recover(p)
      PROVE  IdleHoldsNothing' /\ ClaimsMatchFlags'
  <2>1. UNCHANGED <<in_flight, claims>>
    BY <1>3 DEF ReadClock, RunnerReturn, RunnerThrow, Publish, Recover, jobVars
  <2>2. \A q \in Pumps : pc'[q] \in {"idle", "entered", "failed"}
                           => pc[q] \in {"idle", "entered", "failed"}
    BY <1>3 DEF ReadClock, RunnerReturn, RunnerThrow, Publish, Recover, Goto, TInv, TypeOK
  <2> QED  BY <2>1, <2>2 DEF IdleHoldsNothing, ClaimsMatchFlags
<1>4. CASE UNCHANGED vars
  BY <1>4 DEF vars, IdleHoldsNothing, ClaimsMatchFlags, jobVars, pumpVars
<1> QED
  BY <1>1, <1>2, <1>3, <1>4, ClaimFlight, PublishThrowFlight, ReleaseFlight
     DEF Next, PumpStep

\* No monitor is ever run by two pumps at a time and no claim is lost: the flag
\* of a job is up exactly while one pump holds it.
THEOREM SingleFlight == Spec => []ClaimsMatchFlags
<1>1. FlightInv => ClaimsMatchFlags
  BY DEF FlightInv
<1> QED  BY <1>1, InitFlight, StepFlight, PTL DEF Spec

-----------------------------------------------------------------------------
(* The schedule.                                                            *)

\* Only Claim adds to what a pump holds, and only jobs of its batch.
LEMMA NewClaim ==
    ASSUME TypeOK, [Next]_vars, NEW p \in Pumps, NEW m \in DOMAIN claims'[p] \ DOMAIN claims[p]
    PROVE  Claim(p) /\ m \in Earliest(Due(seen[p]), next_due, MaxRuns)
<1>1. CASE \E q \in Pumps : Claim(q)
  <2>1. PICK q \in Pumps : Claim(q)
    BY <1>1
  <2> DEFINE batch == Earliest(Due(seen[q]), next_due, MaxRuns)
  <2>2. claims' = [claims EXCEPT ![q] = [j \in batch |-> next_due[j]]]
    BY <2>1 DEF Claim
  <2>3. q = p
    BY <2>2, ClaimsOfOthers
  <2>4. DOMAIN claims'[p] = batch
    BY <2>2, <2>3, ClaimsOfOthers
  <2> QED  BY <2>1, <2>3, <2>4
<1>2. CASE \E q \in Pumps : PublishThrow(q)
  <2>1. PICK q \in Pumps : claims' = [claims EXCEPT ![q] = NoClaims]
    BY <1>2 DEF PublishThrow
  <2>2. claims'[q] = NoClaims /\ \A r \in Pumps \ {q} : claims'[r] = claims[r]
    BY <2>1, ClaimsOfOthers
  <2> QED  BY <2>2 DEF NoClaims
<1>3. CASE \E q \in Pumps : Release(q)
  <2>1. PICK q \in Pumps, j \in Monitors : claims' = [claims EXCEPT ![q] = Remaining(q, j)]
    BY <1>3 DEF Release
  <2>2. claims'[q] = Remaining(q, j) /\ \A r \in Pumps \ {q} : claims'[r] = claims[r]
    BY <2>1, ClaimsOfOthers
  <2> QED  BY <2>2 DEF Remaining
<1>4. CASE UNCHANGED claims
  BY <1>4
<1> QED
  BY <1>1, <1>2, <1>3, <1>4
     DEF Next, PumpStep, Tick, Register, ReadClock, RunnerReturn, RunnerThrow, Publish,
         Recover, vars, pumpVars

\* Every claim moves its job to the first due time after the pump's reading.
THEOREM ClaimsAdvance == Spec => ClaimAdvancesPastNow
<1>1. TInv /\ [Next]_vars
      => [\A m \in Monitors, p \in Pumps :
            m \in DOMAIN claims'[p] /\ m \notin DOMAIN claims[p]
              => /\ next_due'[m] > seen[p]
                 /\ next_due'[m] - Ticks(Interval[m]) <= seen[p]]_vars
  <2> SUFFICES ASSUME TInv, [Next]_vars, NEW m \in Monitors, NEW p \in Pumps,
                      m \in DOMAIN claims'[p] \ DOMAIN claims[p]
               PROVE  /\ next_due'[m] > seen[p]
                      /\ next_due'[m] - Ticks(Interval[m]) <= seen[p]
    OBVIOUS
  <2> USE DEF TInv
  <2>1. Claim(p) /\ m \in Earliest(Due(seen[p]), next_due, MaxRuns)
    BY NewClaim
  <2>2. next_due'[m] = Advance(m, seen[p])
    BY <2>1 DEF Claim
  <2>3. seen[p] \in Nat
    BY DEF TypeOK
  <2>4. m \in registered /\ next_due[m] \in Nat /\ next_due[m] <= seen[p]
    BY <2>1, <2>3, BatchIsDue
  <2>5. Interval[m] > 0
    BY <2>4 DEF RegisteredAdvance
  <2> QED  BY <2>2, <2>3, <2>4, <2>5, AdvanceIsNextInterval
<1> QED  BY <1>1, InitTypes, StepTypes, PTL DEF Spec, ClaimAdvancesPastNow

\* The due times of a job are whole intervals away from its first one.
Phase ==
    \A m \in Monitors : \E k \in Nat : next_due[m] = FirstDue[m] + k * Ticks(Interval[m])

LEMMA ProductOfSum ==
    ASSUME NEW a \in Nat, NEW b \in Nat, NEW c \in Nat
    PROVE  (a + b) * c = a * c + b * c
  OBVIOUS

LEMMA MultipleLeavesNothing ==
    ASSUME NEW k \in Nat, NEW n \in Nat, n > 0
    PROVE  (k * n) % n = 0
<1>1. k * n \in Nat
  BY ProductNat
<1> QED  BY <1>1, Z3

LEMMA StepPhase == TInv /\ Phase /\ [Next]_vars => Phase'
<1> SUFFICES ASSUME TInv, Phase, [Next]_vars, NEW m \in Monitors
             PROVE  (\E k \in Nat : next_due[m] = FirstDue[m] + k * Ticks(Interval[m]))'
  BY DEF Phase
<1> USE DEF TInv
<1>1. PICK k \in Nat : next_due[m] = FirstDue[m] + k * Ticks(Interval[m])
  BY DEF Phase
<1>2. CASE next_due'[m] = next_due[m]
  BY <1>1, <1>2
<1>3. ASSUME NEW p \in Pumps, Claim(p), next_due'[m] # next_due[m]
      PROVE  \E n \in Nat : next_due'[m] = FirstDue[m] + n * Ticks(Interval[m])
  <2>1. m \in Earliest(Due(seen[p]), next_due, MaxRuns) /\ next_due'[m] = Advance(m, seen[p])
    BY <1>3 DEF Claim
  <2>2. seen[p] \in Nat
    BY DEF TypeOK
  <2>3. m \in registered /\ next_due[m] \in Nat /\ next_due[m] <= seen[p]
    BY <2>1, <2>2, BatchIsDue
  <2>4. Interval[m] > 0
    BY <2>3 DEF RegisteredAdvance
  <2>5. PICK j \in Nat : Advance(m, seen[p]) = next_due[m] + j * Ticks(Interval[m])
    BY <2>2, <2>3, <2>4, AdvanceIsNextInterval
  <2>6. Ticks(Interval[m]) \in Nat /\ FirstDue[m] \in Nat
    BY DefinitionAssumption, BoundAssumption, ProductNat DEF Ticks
  <2>7. /\ k * Ticks(Interval[m]) \in Nat
        /\ j * Ticks(Interval[m]) \in Nat
        /\ (k + j) * Ticks(Interval[m]) = k * Ticks(Interval[m]) + j * Ticks(Interval[m])
    BY <2>6, ProductNat, ProductOfSum
  <2>8. k + j \in Nat /\ next_due'[m] = FirstDue[m] + (k + j) * Ticks(Interval[m])
    BY <1>1, <2>1, <2>5, <2>6, <2>7
  <2> QED  BY <2>8
<1>4. next_due'[m] = next_due[m] \/ \E p \in Pumps : Claim(p)
  BY DEF Next, PumpStep, Tick, Register, ReadClock, RunnerReturn, RunnerThrow, Publish,
         PublishThrow, Release, Recover, vars, jobVars
<1> QED  BY <1>2, <1>3, <1>4

\* However late the pumps are, the schedule of a monitor does not drift.
THEOREM NoDrift == Spec => []InPhase
<1>1. Init => Phase
  <2> SUFFICES ASSUME Init, NEW m \in Monitors
               PROVE  \E k \in Nat : next_due[m] = FirstDue[m] + k * Ticks(Interval[m])
    BY DEF Phase
  <2>1. next_due[m] = FirstDue[m] /\ FirstDue[m] \in Nat /\ Ticks(Interval[m]) \in Nat
    BY DefinitionAssumption, BoundAssumption, ProductNat DEF Init, Ticks
  <2>2. FirstDue[m] = FirstDue[m] + 0 * Ticks(Interval[m])
    BY <2>1
  <2> QED  BY <2>1, <2>2
<1>2. TInv /\ Phase => InPhase
  <2> SUFFICES ASSUME TInv, Phase, NEW m \in registered
               PROVE  (next_due[m] - FirstDue[m]) % Ticks(Interval[m]) = 0
    BY DEF InPhase
  <2>1. m \in Monitors /\ Interval[m] > 0
    BY DEF TInv, TypeOK, RegisteredAdvance
  <2>2. PICK k \in Nat : next_due[m] = FirstDue[m] + k * Ticks(Interval[m])
    BY <2>1 DEF Phase
  <2>3. Interval[m] \in Nat /\ TicksPerMs \in Nat /\ TicksPerMs > 0 /\ FirstDue[m] \in Nat
    BY <2>1, DefinitionAssumption, BoundAssumption
  <2>4. Ticks(Interval[m]) \in Nat /\ Ticks(Interval[m]) > 0
    BY <2>1, <2>3, ProductNat, ProductMonotone DEF Ticks
  <2>5. k * Ticks(Interval[m]) \in Nat
    BY <2>4, ProductNat
  <2>6. next_due[m] - FirstDue[m] = k * Ticks(Interval[m])
    BY <2>2, <2>3, <2>5
  <2> QED  BY <2>4, <2>6, MultipleLeavesNothing
<1> QED  BY <1>1, <1>2, InitTypes, StepTypes, StepPhase, PTL DEF Spec

-----------------------------------------------------------------------------
(* Dates.                                                                   *)

\* Whatever has been read from the clock is not ahead of it.
FromThePast ==
    /\ \A p \in Pumps : seen[p] <= now
    /\ \A p \in Pumps : \A r \in result[p] : \A t \in r.observed_at : t <= now
    /\ \A id \in Ids : \A e \in store[id] : e.updated_at <= now /\ e.entered_at <= now

LEMMA ObservedInThePast ==
    ASSUME TypeOK, FromThePast, NEW p \in Pumps, NEW r \in result[p]
    PROVE  ObservedAt(p, r) <= now
<1>1. r.observed_at # {} => The(r.observed_at) \in r.observed_at
  BY ResultType, OptionalElement
<1> QED  BY <1>1 DEF ObservedAt, FromThePast

\* The entry that an upsert leaves is dated by the state and no later than the
\* state and the entry it replaces.
LEMMA NewEntryDates ==
    ASSUME NEW existing \in Optional(Entry(Statuses)), NEW state \in MonitorState(Statuses),
           NEW t \in Nat, state.updated_at <= t, \A e \in existing : e.entered_at <= t
    PROVE  /\ NewEntry(existing, state).updated_at = state.updated_at
           /\ NewEntry(existing, state).entered_at <= t
<1>1. EnteredAt(existing, state) <= t
  <2>1. CASE \E e \in existing : KeepsEpoch(e, state)
    <3>1. PICK e \in existing : KeepsEpoch(e, state)
      BY <2>1
    <3>2. The(existing) = e
      BY <3>1, OptionalElement
    <3> QED  BY <2>1, <3>2 DEF EnteredAt
  <2>2. CASE ~\E e \in existing : KeepsEpoch(e, state)
    BY <2>2 DEF EnteredAt
  <2> QED  BY <2>1, <2>2
<1> QED  BY <1>1 DEF NewEntry

\* What Publish(p) does to the store.
LEMMA Publication ==
    ASSUME TypeOK, NEW p \in Pumps, Publish(p)
    PROVE  \E m \in Monitors, r \in result[p], state \in MonitorState(Statuses) :
              /\ IsCurrent(p, m)
              /\ state.updated_at = ObservedAt(p, r)
              /\ store[m] \in Optional(Entry(Statuses))
              /\ store'[m] = {NewEntry(store[m], state)}
              /\ \A id \in Ids \ {m} : store'[id] = store[id]
<1>1. PICK m \in Monitors, r \in result[p], status \in Statuses :
        /\ IsCurrent(p, m)
        /\ store' = Upsert(store, m, [status     |-> status,
                                      updated_at |-> ObservedAt(p, r),
                                      ttl        |-> TtlTicks(m)])
  BY DEF Publish
<1> DEFINE state == [status |-> status, updated_at |-> ObservedAt(p, r), ttl |-> TtlTicks(m)]
<1>2. state \in MonitorState(Statuses)
  BY ObservedNat, TtlTicksType DEF MonitorState
<1>3. m \in Ids /\ store[m] \in Optional(Entry(Statuses))
  BY DEF Ids, TypeOK
<1>4. store'[m] = {NewEntry(store[m], state)} /\ \A id \in Ids \ {m} : store'[id] = store[id]
  BY <1>1, <1>3 DEF Upsert, TypeOK
<1>5. state.updated_at = ObservedAt(p, r)
  OBVIOUS
<1> QED  BY <1>1, <1>2, <1>3, <1>4, <1>5

LEMMA PublishFromThePast ==
    ASSUME TypeOK, FromThePast, NEW p \in Pumps, Publish(p)
    PROVE  FromThePast'
<1>1. PICK m \in Monitors, r \in result[p], state \in MonitorState(Statuses) :
        /\ state.updated_at = ObservedAt(p, r)
        /\ store[m] \in Optional(Entry(Statuses))
        /\ store'[m] = {NewEntry(store[m], state)}
        /\ \A id \in Ids \ {m} : store'[id] = store[id]
  BY Publication
<1>2. state.updated_at <= now /\ now \in Nat
  BY <1>1, ObservedInThePast DEF TypeOK
<1>3. \A e \in store[m] : e.entered_at <= now
  BY DEF FromThePast, Ids
<1>4. \A e \in store'[m] : e.updated_at <= now /\ e.entered_at <= now
  BY <1>1, <1>2, <1>3, NewEntryDates
<1>5. \A id \in Ids : \A e \in store'[id] : e.updated_at <= now /\ e.entered_at <= now
  BY <1>1, <1>4 DEF FromThePast
<1>6. \A q \in Pumps : \A s \in result'[q] : s \in result[q]
  BY DEF Publish, TypeOK
<1> QED  BY <1>5, <1>6 DEF Publish, FromThePast

LEMMA StepFromThePast == TInv /\ FromThePast /\ [Next]_vars => FromThePast'
<1> SUFFICES ASSUME TInv, FromThePast, [Next]_vars PROVE FromThePast'
  OBVIOUS
<1> USE DEF TInv
<1>1. now \in Nat
  BY DEF TypeOK
<1>2. CASE Tick
  <2>1. /\ now' = now + 1
        /\ UNCHANGED <<seen, result, store>>
    BY <1>2 DEF Tick, pumpVars
  <2>2. \A p \in Pumps : seen[p] \in Nat
    BY DEF TypeOK
  <2>3. \A p \in Pumps : \A r \in result[p] : \A t \in r.observed_at : t \in Nat
    <3>1. ASSUME NEW p \in Pumps, NEW r \in result[p], NEW t \in r.observed_at PROVE t \in Nat
      <4>1. r.observed_at \in Optional(Nat)
        BY ResultType
      <4> QED  BY <4>1, OptionalElement
    <3> QED  BY <3>1
  <2>4. \A id \in Ids : \A e \in store[id] : e.updated_at \in Nat /\ e.entered_at \in Nat
    <3>1. ASSUME NEW id \in Ids, NEW e \in store[id] PROVE e \in Entry(Statuses)
      <4>1. store[id] \in Optional(Entry(Statuses))
        BY DEF TypeOK
      <4> QED  BY <4>1, OptionalElement
    <3> QED  BY <3>1 DEF Entry
  <2>5. \A p \in Pumps : seen'[p] <= now'
    BY <1>1, <2>1, <2>2 DEF FromThePast
  <2>6. \A p \in Pumps : \A r \in result'[p] : \A t \in r.observed_at : t <= now'
    BY <1>1, <2>1, <2>3 DEF FromThePast
  <2>7. \A id \in Ids : \A e \in store'[id] : e.updated_at <= now' /\ e.entered_at <= now'
    BY <1>1, <2>1, <2>4 DEF FromThePast
  <2> QED  BY <2>5, <2>6, <2>7 DEF FromThePast
<1>3. ASSUME NEW p \in Pumps, ReadClock(p) PROVE FromThePast'
  BY <1>1, <1>3 DEF ReadClock, FromThePast, TypeOK
<1>4. ASSUME NEW p \in Pumps, RunnerReturn(p) \/ RunnerThrow(p) PROVE FromThePast'
  <2>1. \A q \in Pumps : \A r \in result'[q] :
           r \in result[q] \/ r.observed_at \subseteq {now}
    BY <1>4 DEF RunnerReturn, RunnerThrow, TypeOK
  <2> QED  BY <1>1, <1>4, <2>1 DEF RunnerReturn, RunnerThrow, FromThePast
<1>5. ASSUME NEW p \in Pumps,
             Claim(p) \/ PublishThrow(p) \/ Release(p) \/ Recover(p)
      PROVE  FromThePast'
  <2>1. UNCHANGED <<now, seen, store>>
    BY <1>5 DEF Claim, PublishThrow, Release, Recover
  <2>2. \A q \in Pumps : \A r \in result'[q] : r \in result[q]
    BY <1>5 DEF Claim, PublishThrow, Release, Recover, TypeOK
  <2> QED  BY <2>1, <2>2 DEF FromThePast
<1>6. CASE (\E m \in Monitors : Register(m)) \/ UNCHANGED vars
  BY <1>6 DEF Register, vars, pumpVars, FromThePast
<1> QED
  BY <1>2, <1>3, <1>4, <1>5, <1>6, PublishFromThePast DEF Next, PumpStep

\* No entry of the store is dated, or entered its effective status, after the
\* present, although every writer dates it by a clock it read earlier.
THEOREM DatedByNow == Spec => []NothingFromTheFuture
<1>1. Init => FromThePast
  <2> SUFFICES ASSUME Init PROVE FromThePast
    OBVIOUS
  <2> QED  BY DEF Init, FromThePast, Seed
<1>2. TInv /\ FromThePast => NothingFromTheFuture
  <2> SUFFICES ASSUME TInv, FromThePast, NEW id \in Ids, NEW e \in store[id]
               PROVE  e.updated_at <= now /\ EffectiveEpoch(e, now) <= now
    BY DEF NothingFromTheFuture
  <2>1. e.updated_at <= now /\ e.entered_at <= now
    BY DEF FromThePast
  <2>2. e.ttl \in Optional(Nat)
    <3>1. store[id] \in Optional(Entry(Statuses))
      BY DEF TInv, TypeOK
    <3>2. e \in Entry(Statuses)
      BY <3>1, OptionalElement
    <3> QED  BY <3>2 DEF Entry
  <2>3. CASE Expired(e, now)
    <3>1. PICK d \in e.ttl : now >= e.updated_at + d
      BY <2>3 DEF Expired
    <3>2. The(e.ttl) = d
      BY <2>2, OptionalElement
    <3> QED  BY <2>1, <2>3, <3>1, <3>2 DEF EffectiveEpoch
  <2>4. CASE ~Expired(e, now)
    BY <2>1, <2>4 DEF EffectiveEpoch
  <2> QED  BY <2>3, <2>4
<1> QED  BY <1>1, <1>2, InitTypes, StepTypes, StepFromThePast, PTL DEF Spec

-----------------------------------------------------------------------------
(* Order of observations.  It rests on single flight: while a result waits   *)
(* to be published nobody else writes the entry of its monitor, so the entry *)
(* is still as old as it was when the runner finished.                       *)

Fresh ==
    \A p \in Pumps, m \in Monitors :
        pc[p] = "publishing" /\ IsCurrent(p, m)
        => \A r \in result[p] : \A t \in r.observed_at : \A e \in store[m] : e.updated_at <= t

OrderInv == FlightInv /\ FromThePast /\ Fresh

LEMMA RunnerFresh ==
    ASSUME OrderInv, NEW p \in Pumps, RunnerReturn(p) \/ RunnerThrow(p)
    PROVE  Fresh'
<1> USE DEF OrderInv, FlightInv, TInv
<1>1. \A r \in result'[p] : r.observed_at \subseteq {now}
  BY DEF RunnerReturn, RunnerThrow, TypeOK
<1>2. \A q \in Pumps \ {p} : result'[q] = result[q] /\ pc'[q] = pc[q]
  BY DEF RunnerReturn, RunnerThrow, Goto, TypeOK
<1>3. UNCHANGED <<claims, store>>
  BY DEF RunnerReturn, RunnerThrow
<1>4. \A m \in Monitors : \A e \in store[m] : e.updated_at <= now
  BY DEF FromThePast, Ids
<1> QED  BY <1>1, <1>2, <1>3, <1>4 DEF Fresh, IsCurrent

LEMMA PublishFresh ==
    ASSUME OrderInv, NEW p \in Pumps, Publish(p)
    PROVE  Fresh'
<1> USE DEF OrderInv, FlightInv, TInv
<1>1. PICK m \in Monitors :
        IsCurrent(p, m) /\ \A id \in Ids \ {m} : store'[id] = store[id]
  BY Publication
<1>2. \A q \in Pumps \ {p} : result'[q] = result[q] /\ pc'[q] = pc[q]
  BY DEF Publish, Goto, TypeOK
<1>3. pc'[p] = "releasing" /\ UNCHANGED claims
  BY DEF Publish, Goto, TypeOK
<1>4. SUFFICES ASSUME NEW q \in Pumps \ {p}, NEW j \in Monitors,
                      pc[q] = "publishing", IsCurrent(q, j)
               PROVE  store'[j] = store[j]
  BY <1>2, <1>3, <1>4 DEF Fresh, IsCurrent
<1>5. m \in DOMAIN claims[p] /\ j \in DOMAIN claims[q]
  BY <1>1, <1>4 DEF IsCurrent
<1>6. j # m
  BY <1>5 DEF ClaimsMatchFlags
<1> QED  BY <1>1, <1>6 DEF Ids

LEMMA StepFresh == OrderInv /\ [Next]_vars => Fresh'
<1> SUFFICES ASSUME OrderInv, [Next]_vars PROVE Fresh'
  OBVIOUS
<1> USE DEF OrderInv, FlightInv, TInv
<1>1. ASSUME NEW p \in Pumps, NEW held,
             pc'[p] # "publishing",
             UNCHANGED store,
             claims' = [claims EXCEPT ![p] = held],
             \A q \in Pumps \ {p} : pc'[q] = pc[q] /\ result'[q] = result[q]
      PROVE  Fresh'
  <2>1. \A q \in Pumps \ {p} : claims'[q] = claims[q]
    BY <1>1, ClaimsOfOthers
  <2> QED  BY <1>1, <2>1 DEF Fresh, IsCurrent
<1>2. ASSUME NEW p \in Pumps, Claim(p) PROVE Fresh'
  <2> DEFINE batch == Earliest(Due(seen[p]), next_due, MaxRuns)
             held == [j \in batch |-> next_due[j]]
  <2>1. claims' = [claims EXCEPT ![p] = held] /\ UNCHANGED <<store, result>>
    BY <1>2 DEF Claim
  <2>2. pc'[p] # "publishing" /\ \A q \in Pumps \ {p} : pc'[q] = pc[q]
    BY <1>2 DEF Claim, Goto, TypeOK
  <2> HIDE DEF held
  <2> QED  BY <1>1, <2>1, <2>2
<1>3. ASSUME NEW p \in Pumps, PublishThrow(p) PROVE Fresh'
  <2>1. /\ claims' = [claims EXCEPT ![p] = NoClaims]
        /\ UNCHANGED store
        /\ pc'[p] # "publishing"
        /\ \A q \in Pumps \ {p} : pc'[q] = pc[q] /\ result'[q] = result[q]
    BY <1>3 DEF PublishThrow, Goto, TypeOK
  <2> QED  BY <1>1, <2>1
<1>4. ASSUME NEW p \in Pumps, Release(p) PROVE Fresh'
  <2>1. PICK m \in Monitors :
          /\ claims' = [claims EXCEPT ![p] = Remaining(p, m)]
          /\ Goto(p, "releasing", IF DOMAIN claims[p] = {m} THEN "idle" ELSE "running")
          /\ UNCHANGED <<store, result>>
    BY <1>4 DEF Release
  <2>2. pc'[p] # "publishing" /\ \A q \in Pumps \ {p} : pc'[q] = pc[q]
    BY <2>1 DEF Goto, TypeOK
  <2> QED  BY <1>1, <2>1, <2>2
<1>5. ASSUME NEW p \in Pumps, ReadClock(p) \/ Recover(p) PROVE Fresh'
  <2>1. UNCHANGED <<store, claims, result>>
    BY <1>5 DEF ReadClock, Recover
  <2>2. pc'[p] # "publishing" /\ \A q \in Pumps \ {p} : pc'[q] = pc[q]
    BY <1>5 DEF ReadClock, Recover, Goto, TypeOK
  <2> QED  BY <2>1, <2>2 DEF Fresh, IsCurrent
<1>6. CASE Tick \/ (\E m \in Monitors : Register(m)) \/ UNCHANGED vars
  BY <1>6 DEF Tick, Register, vars, pumpVars, Fresh, IsCurrent
<1> QED
  BY <1>2, <1>3, <1>4, <1>5, <1>6, RunnerFresh, PublishFresh DEF Next, PumpStep

\* What a runner has observed is never replaced by something a runner observed
\* before it, however many pumps publish at the same time.
THEOREM NoOldObservation == Spec => ObservationsInOrder
<1>1. Init => OrderInv
  <2> SUFFICES ASSUME Init PROVE FromThePast /\ Fresh
    BY InitFlight DEF OrderInv
  <2> QED  BY DEF Init, FromThePast, Seed, Fresh
<1>2. OrderInv /\ [Next]_vars => OrderInv'
  BY StepFlight, StepFromThePast, StepFresh DEF OrderInv, FlightInv
<1>3. OrderInv /\ [Next]_vars
      => [\A p \in Pumps, m \in Monitors :
            /\ pc[p] = "publishing" /\ pc'[p] = "releasing" /\ IsCurrent(p, m)
            /\ \E r \in result[p] : r.observed_at # {}
            => \A e \in store[m] : \A f \in store'[m] : f.updated_at >= e.updated_at]_vars
  <2> SUFFICES ASSUME OrderInv, [Next]_vars, NEW p \in Pumps, NEW m \in Monitors,
                      pc[p] = "publishing", pc'[p] = "releasing", IsCurrent(p, m),
                      \E r \in result[p] : r.observed_at # {},
                      NEW e \in store[m], NEW f \in store'[m]
               PROVE  f.updated_at >= e.updated_at
    OBVIOUS
  <2> USE DEF OrderInv, FlightInv, TInv
  <2>1. Publish(p)
    <3>1. ASSUME NEW q \in Pumps, PumpStep(q), ~Publish(q) PROVE FALSE
      BY <3>1 DEF PumpStep, ReadClock, Claim, RunnerReturn, RunnerThrow, PublishThrow,
                  Release, Recover, Goto, TypeOK
    <3>2. ASSUME NEW q \in Pumps, Publish(q), q # p PROVE FALSE
      BY <3>2 DEF Publish, Goto, TypeOK
    <3>3. ~Tick /\ ~(\E j \in Monitors : Register(j)) /\ ~UNCHANGED vars
      BY DEF Tick, Register, vars, pumpVars
    <3> QED  BY <3>1, <3>2, <3>3 DEF Next
  <2>2. PICK j \in Monitors, r \in result[p], state \in MonitorState(Statuses) :
          /\ IsCurrent(p, j)
          /\ state.updated_at = ObservedAt(p, r)
          /\ store[j] \in Optional(Entry(Statuses))
          /\ store'[j] = {NewEntry(store[j], state)}
          /\ \A id \in Ids \ {j} : store'[id] = store[id]
    BY <2>1, Publication
  <2>3. store[m] \in Optional(Entry(Statuses))
    BY DEF TypeOK, Ids
  <2>4. e.updated_at \in Nat
    <3>1. e \in Entry(Statuses)
      BY <2>3, OptionalElement
    <3> QED  BY <3>1 DEF Entry
  <2>5. CASE m # j
    <3>1. f \in store[m]
      BY <2>2, <2>5 DEF Ids
    <3>2. f = e
      BY <2>3, <3>1, OptionalElement
    <3> QED  BY <2>4, <3>2
  <2>6. CASE m = j
    <3>1. f.updated_at = ObservedAt(p, r)
      BY <2>2, <2>6 DEF NewEntry
    <3>2. r.observed_at # {}
      <4>1. result[p] \in Optional(Result)
        BY DEF TypeOK
      <4> QED  BY <4>1, OptionalElement
    <3>3. ObservedAt(p, r) \in r.observed_at
      BY <3>2, ResultType, OptionalElement DEF ObservedAt
    <3>4. e.updated_at <= ObservedAt(p, r)
      BY <3>3 DEF Fresh
    <3>5. ObservedAt(p, r) \in Nat
      BY ObservedNat
    <3> QED  BY <2>4, <3>1, <3>4, <3>5
  <2> QED  BY <2>5, <2>6
<1> QED  BY <1>1, <1>2, <1>3, PTL DEF Spec, ObservationsInOrder

-----------------------------------------------------------------------------
(* Fairness of maximum_runs.                                                *)

LEMMA PrecedesTransitive ==
    ASSUME NEW due \in [Monitors -> Nat],
           NEW i \in Monitors, NEW j \in Monitors, NEW m \in Monitors,
           Precedes(due, i, j), Precedes(due, j, m)
    PROVE  Precedes(due, i, m)
  BY MonitorsAssumption DEF Precedes

LEMMA PrecedesTotal ==
    ASSUME NEW due \in [Monitors -> Nat], NEW j \in Monitors, NEW m \in Monitors, j # m
    PROVE  Precedes(due, j, m) \/ Precedes(due, m, j)
  BY MonitorsAssumption DEF Precedes

\* The jobs that are kept come before those that are left.
LEMMA EarliestComeFirst ==
    ASSUME NEW due \in [Monitors -> Nat], NEW jobs \in SUBSET Monitors, NEW n \in Nat,
           NEW j \in Earliest(jobs, due, n), NEW m \in jobs \ Earliest(jobs, due, n)
    PROVE  Precedes(due, j, m)
<1> DEFINE before(k) == {i \in jobs : Precedes(due, i, k)}
<1>1. ASSUME NEW k \in jobs PROVE IsFiniteSet(before(k)) /\ Cardinality(before(k)) \in Nat
  <2>1. before(k) \in SUBSET Monitors /\ IsFiniteSet(Monitors)
    BY MonitorsAssumption
  <2>2. IsFiniteSet(before(k))
    BY <2>1, FS_Subset
  <2> QED  BY <2>2, FS_CardinalityType
<1>2. j \in jobs /\ Cardinality(before(j)) < n /\ ~(Cardinality(before(m)) < n)
  BY DEF Earliest
<1>3. CASE Precedes(due, m, j)
  <2>1. before(m) \in SUBSET before(j)
    BY <1>2, <1>3, PrecedesTransitive
  <2>2. Cardinality(before(m)) <= Cardinality(before(j))
    BY <1>1, <1>2, <2>1, FS_Subset
  <2> QED  BY <1>1, <1>2, <2>2
<1>4. j # m
  BY <1>2
<1> QED  BY <1>2, <1>3, <1>4, PrecedesTotal

\* No job is passed twice by the same other one: claims follow the order of the
\* due times, and a claim sends its job behind all that were due with it.
THEOREM NoStarvation == Spec => PassedAtMostOnce
<1>1. FlightInv /\ [Next]_vars
      => [\A p \in Pumps :
            LET taken == DOMAIN claims'[p] \ DOMAIN claims[p]
            IN  \A j \in taken, m \in Due(seen[p]) \ taken :
                   /\ Precedes(next_due, j, m)
                   /\ Precedes(next_due', m, j)]_vars
  <2> SUFFICES ASSUME FlightInv, [Next]_vars, NEW p \in Pumps,
                      NEW j \in DOMAIN claims'[p] \ DOMAIN claims[p],
                      NEW m \in Due(seen[p]) \ (DOMAIN claims'[p] \ DOMAIN claims[p])
               PROVE  Precedes(next_due, j, m) /\ Precedes(next_due', m, j)
    OBVIOUS
  <2> DEFINE batch == Earliest(Due(seen[p]), next_due, MaxRuns)
  <2> USE DEF FlightInv, TInv
  <2>1. Claim(p) /\ j \in batch
    BY NewClaim
  <2>2. DOMAIN claims[p] = {}
    BY <2>1 DEF Claim, Goto, IdleHoldsNothing
  <2>3. DOMAIN claims'[p] = batch
    <3>1. claims' = [claims EXCEPT ![p] = [i \in batch |-> next_due[i]]]
      BY <2>1 DEF Claim
    <3> QED  BY <3>1, ClaimsOfOthers
  <2>4. m \notin batch
    BY <2>2, <2>3
  <2>5. seen[p] \in Nat /\ Due(seen[p]) \in SUBSET Monitors
    BY DEF TypeOK, Due
  <2>6. Precedes(next_due, j, m)
    BY <2>1, <2>4, <2>5, EarliestComeFirst, BoundAssumption DEF TypeOK
  <2>7. next_due'[m] = next_due[m] /\ next_due[m] \in Nat /\ next_due[m] <= seen[p]
    BY <2>1, <2>4, <2>5 DEF Claim, Due, TypeOK
  <2>8. next_due'[j] = Advance(j, seen[p]) /\ j \in Monitors
    BY <2>1, <2>5, BatchIsDue DEF Claim
  <2>9. Advance(j, seen[p]) \in Nat /\ Advance(j, seen[p]) > seen[p]
    <3>1. j \in registered /\ next_due[j] \in Nat /\ next_due[j] <= seen[p]
      BY <2>1, <2>5, BatchIsDue
    <3>2. Interval[j] > 0
      BY <3>1 DEF RegisteredAdvance
    <3> QED  BY <2>5, <2>8, <3>1, <3>2, AdvanceIsNextInterval
  <2>10. next_due'[m] < next_due'[j]
    BY <2>5, <2>7, <2>8, <2>9
  <2> QED  BY <2>6, <2>10 DEF Precedes
<1> QED  BY <1>1, InitFlight, StepFlight, PTL DEF Spec, PassedAtMostOnce

-----------------------------------------------------------------------------
(* The pool as an environment of the engine.                                *)

LEMMA ExecutorInitIsInit == ExecutorInit => Init
  BY DEF ExecutorInit

\* The steps of the owner leave the engine alone, but for registrations.
LEMMA OwnerIsNext == Owner => [Next]_vars
  BY DEF Owner, StartWhileRunning, StartWithInvalidOptions, StartAccepted, Spawn, StartReturns,
         SpawnFails, StartFails, StopBegins, StopReturns, RegisterFirst, Next

LEMMA WorkerIsNext == ASSUME NEW w \in Pumps, Worker(w) PROVE [Next]_vars
<1>1. CASE LoopEnds(w) \/ RecordFailure(w)
  BY <1>1 DEF LoopEnds, RecordFailure
<1>2. CASE LoopAgain(w) \/ RaiseFailed(w)
  BY <1>2 DEF LoopAgain, RaiseFailed, PumpStep, Next
<1>3. CASE ~(LoopEnds(w) \/ RecordFailure(w) \/ LoopAgain(w) \/ RaiseFailed(w))
  BY <1>3 DEF Worker, Pump, PumpStep, Next
<1> QED  BY <1>1, <1>2, <1>3

LEMMA ExecutorStepIsStep == [ExecutorNext]_allVars => [Next]_vars
<1> SUFFICES ASSUME [ExecutorNext]_allVars PROVE [Next]_vars
  OBVIOUS
<1>1. CASE Tick
  BY <1>1 DEF Next
<1>2. CASE UNCHANGED allVars
  BY <1>2 DEF allVars
<1> QED  BY <1>1, <1>2, OwnerIsNext, WorkerIsNext DEF ExecutorNext

\* Every behaviour of the pool is a behaviour of the engine under concurrent pumps.
THEOREM PoolImplementsEngine == ExecutorSpec => ImplementsEngine
  BY ExecutorInitIsInit, ExecutorStepIsStep, PTL DEF ExecutorSpec, ImplementsEngine, Spec

-----------------------------------------------------------------------------
(* Where the threads of the pool stand.  A thread is in the vector as long   *)
(* as it is anywhere, is inside run_due only while it pumps, and the vector  *)
(* is empty whenever start could be called.                                 *)

Places ==
    /\ \A w \in Pumps : w \notin workers => worker[w] = "none"
    /\ \A w \in Pumps : worker[w] \in {"none", "loop", "exited"} => pc[w] = "idle"
    /\ \A w \in Pumps : worker[w] = "flag" => pc[w] = "failed"

Ownership ==
    /\ control = "outside" /\ ~is_running => workers = {}
    /\ control \in {"spawning", "unwinding"} => is_running

\* The reason of a failure is recorded before the flag is raised.
Explained == failed \/ (\E w \in Pumps : worker[w] = "flag") => last_error # "none"

PoolInv == FlightInv /\ ExecutorTypeOK /\ Places /\ Ownership /\ Explained

LEMMA InitPool == ExecutorInit => PoolInv
<1> SUFFICES ASSUME ExecutorInit PROVE PoolInv
  OBVIOUS
<1>1. FlightInv
  BY InitFlight, ExecutorInitIsInit
<1>2. ExecutorTypeOK
  <2>1. starts \in 0..MaxStarts
    BY ExecutorAssumption DEF ExecutorInit
  <2>2. worker \in [Pumps -> {"none", "loop", "pump", "flag", "exited"}]
    BY DEF ExecutorInit
  <2> QED
    BY <1>1, <2>1, <2>2 DEF ExecutorInit, ExecutorTypeOK, Errors, FlightInv, TInv
<1> QED
  BY <1>1, <1>2 DEF ExecutorInit, Init, PoolInv, Places, Ownership, Explained

\* What the step has done to the variables of the executor.
PoolNext == ExecutorTypeOK' /\ Places' /\ Ownership' /\ Explained'

LEMMA StartPool ==
    ASSUME PoolInv, TypeOK',
           StartWhileRunning \/ StartWithInvalidOptions \/ StartAccepted
    PROVE  PoolNext
<1> USE DEF PoolInv, PoolNext
<1>1. CASE StartWhileRunning
  BY <1>1 DEF StartWhileRunning, ExecutorTypeOK, Errors, Places, Ownership, Explained, vars, pumpVars
<1>2. CASE StartWithInvalidOptions
  BY <1>2 DEF StartWithInvalidOptions, ExecutorTypeOK, Errors, Places, Ownership, Explained,
              vars, pumpVars
<1>3. CASE StartAccepted
  <2>1. ExecutorTypeOK'
    <3>1. starts' \in 0..MaxStarts
      BY <1>3, ExecutorAssumption DEF StartAccepted, ExecutorTypeOK
    <3> QED  BY <1>3, <3>1 DEF StartAccepted, ExecutorTypeOK, Errors
  <2>2. Places' /\ Ownership'
    BY <1>3 DEF StartAccepted, Places, Ownership, vars, pumpVars
  <2>3. Explained'
    <3>1. \A w \in Pumps : worker'[w] = "none"
      BY <1>3 DEF StartAccepted, Places, Ownership
    <3> QED  BY <1>3, <3>1 DEF StartAccepted, Explained
  <2> QED  BY <2>1, <2>2, <2>3
<1> QED  BY <1>1, <1>2, <1>3

LEMMA SpawnPool ==
    ASSUME PoolInv, TypeOK',
           (\E w \in Pumps : Spawn(w)) \/ StartReturns \/ SpawnFails \/ StopBegins
    PROVE  PoolNext
<1> USE DEF PoolInv, PoolNext
<1>1. ASSUME NEW w \in Pumps, Spawn(w) PROVE PoolNext
  <2>1. /\ worker' = [worker EXCEPT ![w] = "loop"]
        /\ workers' = workers \cup {w}
        /\ worker[w] = "none" /\ pc' = pc
    BY <1>1 DEF Spawn, Places, vars, pumpVars
  <2>2. ExecutorTypeOK'
    BY <1>1, <2>1 DEF Spawn, ExecutorTypeOK
  <2>3. Places'
    BY <2>1 DEF Places, ExecutorTypeOK
  <2>4. Ownership' /\ Explained'
    BY <1>1, <2>1 DEF Spawn, Ownership, Explained, ExecutorTypeOK
  <2> QED  BY <2>2, <2>3, <2>4
<1>2. CASE StartReturns \/ SpawnFails \/ StopBegins
  BY <1>2 DEF StartReturns, SpawnFails, StopBegins, ExecutorTypeOK, Places, Ownership, Explained,
              vars, pumpVars
<1> QED  BY <1>1, <1>2

LEMMA ClearPool ==
    ASSUME PoolInv, TypeOK', StartFails \/ StopReturns
    PROVE  PoolNext
<1> USE DEF PoolInv, PoolNext
<1>1. /\ workers' = {} /\ stop_requested' = {} /\ is_running' = FALSE /\ control' = "outside"
      /\ worker' = [w \in Pumps |-> IF w \in workers THEN "none" ELSE worker[w]]
      /\ Joined /\ UNCHANGED <<options, failed, starts, pc>>
      /\ last_error' = last_error \/ last_error' = "unable to start"
  BY DEF StartFails, StopReturns, Cleared, vars, pumpVars
<1>2. \A w \in Pumps : worker'[w] = "none" /\ pc'[w] = "idle"
  BY <1>1 DEF Joined, Places
<1>3. ExecutorTypeOK'
  BY <1>1 DEF ExecutorTypeOK, Errors
<1> QED  BY <1>1, <1>2, <1>3 DEF Places, Ownership, Explained

LEMMA RegisterPool ==
    ASSUME PoolInv, TypeOK',
           (Tick /\ UNCHANGED executorVars) \/ \E m \in Monitors : RegisterFirst(m)
    PROVE  PoolNext
<1>1. UNCHANGED <<executorVars, pc>>
  BY DEF Tick, RegisterFirst, Register, pumpVars
<1> QED
  BY <1>1 DEF PoolInv, PoolNext, executorVars, ExecutorTypeOK, Places, Ownership, Explained

\* A pump moves no other pump.
LEMMA PumpMovesItself ==
    ASSUME TypeOK, NEW p \in Pumps, PumpStep(p), NEW q \in Pumps \ {p}
    PROVE  pc'[q] = pc[q]
  BY DEF TypeOK, PumpStep, Goto, ReadClock, Claim, RunnerReturn, RunnerThrow, Publish,
         PublishThrow, Release, Recover

LEMMA WorkerPool ==
    ASSUME PoolInv, TypeOK', NEW w \in Pumps, Worker(w)
    PROVE  PoolNext
<1> USE DEF PoolInv, PoolNext
<1>1. w \in workers /\ workers' = workers /\ UNCHANGED executorBut
  BY DEF Worker, LoopAgain, LoopEnds, Pump, RecordFailure, RaiseFailed, MoveTo, executorBut, Places
<1>2. PICK to \in {"loop", "pump", "flag", "exited"} : worker' = [worker EXCEPT ![w] = to]
  BY DEF Worker, LoopAgain, LoopEnds, Pump, RecordFailure, RaiseFailed, MoveTo
<1>3. \A q \in Pumps \ {w} : worker'[q] = worker[q] /\ pc'[q] = pc[q]
  <2>1. CASE PumpStep(w)
    BY <1>2, <2>1, PumpMovesItself DEF ExecutorTypeOK
  <2>2. CASE UNCHANGED vars
    BY <1>2, <2>2 DEF ExecutorTypeOK, vars, pumpVars
  <2> QED
    BY <2>1, <2>2 DEF Worker, LoopAgain, LoopEnds, Pump, RecordFailure, RaiseFailed, PumpStep
<1>4. /\ worker'[w] \in {"loop", "exited"} => pc'[w] = "idle"
      /\ worker'[w] = "flag" => pc'[w] = "failed" /\ last_error' # "none"
  <2>1. CASE LoopAgain(w)
    BY <2>1 DEF LoopAgain, MoveTo, ExecutorTypeOK
  <2>2. CASE LoopEnds(w)
    BY <2>2 DEF LoopEnds, MoveTo, ExecutorTypeOK, Places, vars, pumpVars
  <2>3. CASE RecordFailure(w)
    BY <2>3 DEF RecordFailure, MoveTo, ExecutorTypeOK, vars, pumpVars
  <2>4. CASE RaiseFailed(w)
    BY <2>4 DEF RaiseFailed, MoveTo, Recover, Goto, ExecutorTypeOK, TypeOK
  <2>5. CASE worker' = [worker EXCEPT ![w] = IF pc'[w] = "idle" THEN "loop" ELSE "pump"]
    BY <2>5 DEF ExecutorTypeOK
  <2> QED  BY <2>1, <2>2, <2>3, <2>4, <2>5 DEF Worker, Pump, MoveTo
<1>5. /\ last_error' \in Errors
      /\ last_error # "none" => last_error' # "none"
      /\ failed' \in BOOLEAN
      /\ failed' => failed \/ worker[w] = "flag"
  <2>1. CASE RecordFailure(w)
    BY <2>1 DEF RecordFailure, ExecutorTypeOK, Errors
  <2>2. CASE RaiseFailed(w)
    BY <2>2 DEF RaiseFailed, MoveTo, ExecutorTypeOK
  <2>3. CASE UNCHANGED <<failed, last_error>>
    BY <2>3 DEF ExecutorTypeOK
  <2> QED  BY <2>1, <2>2, <2>3 DEF Worker, LoopAgain, LoopEnds, Pump
<1>6. ExecutorTypeOK'
  BY <1>1, <1>2, <1>5 DEF ExecutorTypeOK, executorBut
<1>7. Places' /\ Ownership'
  BY <1>1, <1>2, <1>3, <1>4 DEF Places, Ownership, executorBut, ExecutorTypeOK
<1>8. Explained'
  BY <1>3, <1>4, <1>5 DEF Explained
<1> QED  BY <1>6, <1>7, <1>8

LEMMA StepPool == PoolInv /\ [ExecutorNext]_allVars => PoolInv'
<1> SUFFICES ASSUME PoolInv, [ExecutorNext]_allVars PROVE PoolInv'
  OBVIOUS
<1>1. FlightInv'
  BY ExecutorStepIsStep, StepFlight DEF PoolInv
<1>2. TypeOK'
  BY <1>1 DEF FlightInv, TInv
<1>3. CASE UNCHANGED allVars
  BY <1>1, <1>3 DEF PoolInv, allVars, executorVars, vars, pumpVars, jobVars,
                    ExecutorTypeOK, TypeOK, Places, Ownership, Explained
<1>4. CASE ExecutorNext
  <2>1. PoolNext
    BY <1>2, <1>4, StartPool, SpawnPool, ClearPool, RegisterPool, WorkerPool
       DEF ExecutorNext, Owner
  <2> QED  BY <1>1, <2>1 DEF PoolInv, PoolNext
<1> QED  BY <1>3, <1>4

\* Every variable of the pool keeps its type.
THEOREM ExecutorTypeCorrect == ExecutorSpec => []ExecutorTypeOK
<1>1. PoolInv => ExecutorTypeOK
  BY DEF PoolInv
<1> QED  BY <1>1, InitPool, StepPool, PTL DEF ExecutorSpec

\* A stopped pool has no thread inside run_due and no job in flight.
THEOREM QuietWhenStopped == ExecutorSpec => []StoppedMeansQuiet
<1>1. PoolInv => StoppedMeansQuiet
  <2> SUFFICES ASSUME PoolInv, control = "outside", ~is_running
               PROVE  /\ \A w \in Pumps : worker[w] = "none" /\ pc[w] = "idle"
                      /\ \A m \in Monitors : ~in_flight[m]
    BY DEF StoppedMeansQuiet
  <2>1. \A w \in Pumps : worker[w] = "none" /\ pc[w] = "idle"
    BY DEF PoolInv, Places, Ownership
  <2>2. \A m \in Monitors : ~in_flight[m]
    BY <2>1 DEF PoolInv, FlightInv, IdleHoldsNothing, ClaimsMatchFlags
  <2> QED  BY <2>1, <2>2
<1> QED  BY <1>1, InitPool, StepPool, PTL DEF ExecutorSpec

\* Whoever sees that the pool has failed finds a text.
THEOREM FailuresAreExplained == ExecutorSpec => []FailureIsExplained
<1>1. PoolInv => FailureIsExplained
  BY DEF PoolInv, Explained, FailureIsExplained
<1> QED  BY <1>1, InitPool, StepPool, PTL DEF ExecutorSpec

-----------------------------------------------------------------------------
(* How many monitors run at once.                                           *)

\* With maximum_runs = 1 a batch is one job.
OneEach == \A p \in Pumps : \A i, j \in DOMAIN claims[p] : i = j

\* start makes as many threads as there are to be workers, and no more.
Crew == IsFiniteSet(workers) /\ Cardinality(workers) <= options.worker_count

CrewInv == PoolInv /\ OneEach /\ Crew

LEMMA BatchOfOne ==
    ASSUME NEW due \in [Monitors -> Nat], NEW jobs \in SUBSET Monitors,
           NEW i \in Earliest(jobs, due, 1), NEW j \in Earliest(jobs, due, 1)
    PROVE  i = j
<1> DEFINE before(k) == {h \in jobs : Precedes(due, h, k)}
<1>1. ASSUME NEW h \in jobs, NEW k \in Earliest(jobs, due, 1) PROVE ~Precedes(due, h, k)
  <2>1. IsFiniteSet(before(k))
    <3>1. before(k) \in SUBSET Monitors /\ IsFiniteSet(Monitors)
      BY MonitorsAssumption
    <3> QED  BY <3>1, FS_Subset
  <2>2. Cardinality(before(k)) \in Nat /\ Cardinality(before(k)) < 1
    BY <2>1, FS_CardinalityType DEF Earliest
  <2>3. before(k) = {}
    <3>1. Cardinality(before(k)) = 0
      BY <2>2
    <3> QED  BY <2>1, <3>1, FS_EmptySet
  <2> QED  BY <2>3
<1>2. i \in jobs /\ j \in jobs /\ i \in Monitors /\ j \in Monitors
  BY DEF Earliest
<1> QED  BY <1>1, <1>2, PrecedesTotal

LEMMA InitCrew == ExecutorInit => CrewInv
<1> SUFFICES ASSUME ExecutorInit PROVE CrewInv
  OBVIOUS
<1>1. OneEach
  BY DEF ExecutorInit, Init, NoClaims, OneEach
<1>2. Crew
  <2>1. options.worker_count \in Nat /\ workers = {}
    BY ExecutorAssumption DEF ExecutorInit
  <2> QED  BY <2>1, FS_EmptySet DEF Crew
<1> QED  BY <1>1, <1>2, InitPool DEF CrewInv

LEMMA StepOneEach == FlightInv /\ OneEach /\ [Next]_vars => OneEach'
<1> SUFFICES ASSUME FlightInv, OneEach, [Next]_vars, NEW p \in Pumps,
                    NEW i \in DOMAIN claims'[p], NEW j \in DOMAIN claims'[p]
             PROVE  i = j
  BY DEF OneEach
<1> DEFINE batch == Earliest(Due(seen[p]), next_due, MaxRuns)
<1> USE DEF FlightInv, TInv
<1>1. CASE i \in DOMAIN claims[p] /\ j \in DOMAIN claims[p]
  BY <1>1 DEF OneEach
<1>2. CASE i \notin DOMAIN claims[p] \/ j \notin DOMAIN claims[p]
  <2>1. Claim(p)
    BY <1>2, NewClaim
  <2>2. DOMAIN claims[p] = {}
    BY <2>1 DEF Claim, Goto, IdleHoldsNothing
  <2>3. i \in batch /\ j \in batch
    BY <2>2, NewClaim
  <2>4. next_due \in [Monitors -> Nat] /\ Due(seen[p]) \in SUBSET Monitors
    BY DEF TypeOK, Due
  <2> QED  BY <2>3, <2>4, BatchOfOne, ExecutorAssumption
<1> QED  BY <1>1, <1>2

LEMMA StepCrew == ExecutorTypeOK /\ Crew /\ [ExecutorNext]_allVars => Crew'
<1> SUFFICES ASSUME ExecutorTypeOK, Crew, [ExecutorNext]_allVars PROVE Crew'
  OBVIOUS
<1>1. options' = options /\ options.worker_count \in Nat
  <2>1. options' = options
    BY DEF ExecutorNext, allVars, executorVars, Owner, StartWhileRunning, StartWithInvalidOptions,
           StartAccepted, Spawn, StartReturns, SpawnFails, StartFails, StopBegins, StopReturns,
           RegisterFirst, Worker, LoopAgain, LoopEnds, Pump, RecordFailure, RaiseFailed, executorBut
  <2> QED  BY <2>1, ExecutorAssumption DEF ExecutorTypeOK
<1>2. CASE \E w \in Pumps : Spawn(w)
  <2>1. PICK w \in Pumps : Spawn(w)
    BY <1>2
  <2>2. /\ Cardinality(workers) \in Nat /\ Cardinality(workers) < options.worker_count
        /\ workers' = workers \cup {w} /\ w \notin workers
    BY <2>1, FS_CardinalityType DEF Spawn, Crew
  <2>3. IsFiniteSet(workers') /\ Cardinality(workers') = Cardinality(workers) + 1
    BY <2>2, FS_AddElement DEF Crew
  <2> QED  BY <1>1, <2>2, <2>3 DEF Crew
<1>3. CASE workers' = {}
  BY <1>1, <1>3, FS_EmptySet DEF Crew
<1>4. CASE workers' = workers
  BY <1>1, <1>4 DEF Crew
<1>5. workers' = {} \/ workers' = workers \/ \E w \in Pumps : Spawn(w)
  BY DEF ExecutorNext, allVars, executorVars, Owner, StartWhileRunning, StartWithInvalidOptions,
         StartAccepted, StartReturns, SpawnFails, StartFails, StopBegins, StopReturns, Cleared,
         RegisterFirst, Worker, LoopAgain, LoopEnds, Pump, RecordFailure, RaiseFailed, executorBut
<1> QED  BY <1>2, <1>3, <1>4, <1>5

LEMMA StepCrewInv == CrewInv /\ [ExecutorNext]_allVars => CrewInv'
  BY StepPool, StepCrew, StepOneEach, ExecutorStepIsStep DEF CrewInv, PoolInv

\* No more monitors run at a time than the pool was made for, because each of them
\* is held by a thread of its own and the threads are in the vector.
THEOREM ConcurrencyIsBounded == ExecutorSpec => []BoundedConcurrency
<1>1. CrewInv => BoundedConcurrency
  <2> SUFFICES ASSUME CrewInv PROVE BoundedConcurrency
    OBVIOUS
  <2> DEFINE flying == {m \in Monitors : in_flight[m]}
             holder == [m \in flying |-> CHOOSE p \in Pumps : m \in DOMAIN claims[p]]
  <2>1. ASSUME NEW m \in flying PROVE holder[m] \in workers /\ m \in DOMAIN claims[holder[m]]
    <3>1. holder[m] \in Pumps /\ m \in DOMAIN claims[holder[m]]
      <4>1. \E p \in Pumps : m \in DOMAIN claims[p]
        BY DEF CrewInv, PoolInv, FlightInv, ClaimsMatchFlags
      <4> QED  BY <4>1
    <3>2. pc[holder[m]] # "idle"
      BY <3>1 DEF CrewInv, PoolInv, FlightInv, IdleHoldsNothing
    <3> HIDE DEF holder
    <3>3. holder[m] \in workers
      BY <3>1, <3>2 DEF CrewInv, PoolInv, Places
    <3> QED  BY <3>1, <3>3
  <2>2. holder \in [flying -> workers]
    BY <2>1
  <2>3. \A m, n \in flying : holder[m] = holder[n] => m = n
    <3> HIDE DEF holder
    <3> TAKE m, n \in flying
    <3>1. holder[m] \in Pumps
      BY <2>1 DEF CrewInv, PoolInv, ExecutorTypeOK
    <3> QED  BY <2>1, <3>1 DEF CrewInv, OneEach
  <2>4. holder \in Injection(flying, workers)
    <3> HIDE DEF holder
    <3> QED  BY <2>2, <2>3 DEF Injection, IsInjective
  <2>5. /\ IsFiniteSet(workers) /\ Cardinality(workers) <= options.worker_count
        /\ options.worker_count \in Nat
    BY ExecutorAssumption DEF CrewInv, Crew, PoolInv, ExecutorTypeOK
  <2>6. IsFiniteSet(flying) /\ Cardinality(flying) <= Cardinality(workers)
    BY <2>4, <2>5, FS_Injection
  <2>7. Cardinality(flying) \in Nat /\ Cardinality(workers) \in Nat
    BY <2>5, <2>6, FS_CardinalityType
  <2> HIDE DEF holder
  <2> QED  BY <2>5, <2>6, <2>7 DEF BoundedConcurrency
<1> QED  BY <1>1, InitCrew, StepCrewInv, PTL DEF ExecutorSpec
=============================================================================
