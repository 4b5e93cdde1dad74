--------------------------- MODULE MonitorExecutor ---------------------------
(***************************************************************************)
(* The worker pool that pumps the monitor engine                           *)
(* (src/host/monitor_executor.cpp): the owner of the executor starts and   *)
(* stops it, and every worker thread calls run_due with maximum_runs = 1   *)
(* until it is asked to stop or some worker has failed.  The pumps of      *)
(* MonitorEngine are the workers.                                          *)
(***************************************************************************)
EXTENDS MonitorEngine

CONSTANTS
    Options,      \* the MonitorExecutorOptions the executor may be made with
    MaxWorkers,   \* maximum_monitor_worker_count
    Hanging,      \* monitors whose runner may never return
    MaxStarts     \* bound of the model: successful calls of start

ASSUME ExecutorAssumption ==
    /\ \A o \in Options : o.worker_count \in Nat /\ o.idle_poll_interval \in Nat
    /\ MaxWorkers \in Nat
    /\ MaxRuns = 1
    /\ Hanging \subseteq Monitors
    /\ MaxStarts \in Nat

VARIABLES
    options,
    is_running,
    failed,
    last_error,
    workers,        \* the vector of joinable threads
    stop_requested, \* the threads whose stop token is set
    worker,         \* where each thread stands in its loop
    control,        \* where the owner stands in start or stop
    starts          \* how often start has got past its checks

executorVars == <<options, is_running, failed, last_error, workers,
                  stop_requested, worker, control, starts>>
allVars      == <<vars, executorVars>>

Errors == {"none", "already running", "invalid options", "failure", "unable to start"}

ExecutorTypeOK ==
    /\ TypeOK
    /\ options \in Options
    /\ is_running \in BOOLEAN
    /\ failed \in BOOLEAN
    /\ last_error \in Errors
    /\ workers \subseteq Pumps
    /\ stop_requested \subseteq workers
    /\ worker \in [Pumps -> {"none", "loop", "pump", "flag", "exited"}]
    /\ control \in {"outside", "spawning", "unwinding", "joining"}
    /\ starts \in 0..MaxStarts

ExecutorInit ==
    /\ Init
    /\ options \in Options
    /\ is_running = FALSE
    /\ failed = FALSE
    /\ last_error = "none"
    /\ workers = {}
    /\ stop_requested = {}
    /\ worker = [w \in Pumps |-> "none"]
    /\ control = "outside"
    /\ starts = 0

-----------------------------------------------------------------------------
(* The owner.                                                               *)

OptionsValid ==
    /\ options.worker_count \in 1..MaxWorkers
    /\ options.idle_poll_interval \in 1..1000

\* start() of an executor that has not been stopped.
StartWhileRunning ==
    /\ control = "outside"
    /\ is_running
    /\ last_error' = "already running"
    /\ UNCHANGED <<vars, options, is_running, failed, workers, stop_requested,
                   worker, control, starts>>

StartWithInvalidOptions ==
    /\ control = "outside"
    /\ ~is_running
    /\ ~OptionsValid
    /\ last_error' = "invalid options"
    /\ UNCHANGED <<vars, options, is_running, failed, workers, stop_requested,
                   worker, control, starts>>

\* Faulty: the failure of the previous run is left in place.
StartKeepsFailure ==
    /\ control = "outside"
    /\ ~is_running
    /\ OptionsValid
    /\ starts < MaxStarts
    /\ last_error' = "none"
    /\ is_running' = TRUE
    /\ control' = "spawning"
    /\ starts' = starts + 1
    /\ UNCHANGED <<vars, options, failed, workers, stop_requested, worker>>

\* start() under the mutex, past its checks.
StartAccepted ==
    /\ control = "outside"
    /\ ~is_running
    /\ OptionsValid
    /\ starts < MaxStarts
    /\ failed' = FALSE
    /\ last_error' = "none"
    /\ is_running' = TRUE
    /\ control' = "spawning"
    /\ starts' = starts + 1
    /\ UNCHANGED <<vars, options, workers, stop_requested, worker>>

\* Faulty: one thread too many.
SpawnOneMore(w) ==
    /\ control = "spawning"
    /\ Cardinality(workers) <= options.worker_count
    /\ w \notin workers
    /\ workers' = workers \cup {w}
    /\ worker' = [worker EXCEPT ![w] = "loop"]
    /\ UNCHANGED <<vars, options, is_running, failed, last_error, stop_requested,
                   control, starts>>

\* emplace_back of one thread, which runs from then on.
Spawn(w) ==
    /\ control = "spawning"
    /\ Cardinality(workers) < options.worker_count
    /\ w \notin workers
    /\ workers' = workers \cup {w}
    /\ worker' = [worker EXCEPT ![w] = "loop"]
    /\ UNCHANGED <<vars, options, is_running, failed, last_error, stop_requested,
                   control, starts>>

StartReturns ==
    /\ control = "spawning"
    /\ Cardinality(workers) = options.worker_count
    /\ control' = "outside"
    /\ UNCHANGED <<vars, options, is_running, failed, last_error, workers,
                   stop_requested, worker, starts>>

\* A thread cannot be created: those that were are asked to stop.
SpawnFails ==
    /\ control = "spawning"
    /\ Cardinality(workers) < options.worker_count
    /\ control' = "unwinding"
    /\ stop_requested' = workers
    /\ UNCHANGED <<vars, options, is_running, failed, last_error, workers, worker, starts>>

\* Faulty: the vector is cleared without joining its threads.
Detached == TRUE

\* join has returned for every thread of the vector.
Joined == \A w \in workers : worker[w] = "exited"

\* What joining and clearing the vector leaves, and the unlocking assignment of
\* is_running after it.
Cleared ==
    /\ workers' = {}
    /\ stop_requested' = {}
    /\ worker' = [w \in Pumps |-> IF w \in workers THEN "none" ELSE worker[w]]
    /\ is_running' = FALSE
    /\ control' = "outside"

StartFails ==
    /\ control = "unwinding"
    /\ Joined
    /\ Cleared
    /\ last_error' = "unable to start"
    /\ UNCHANGED <<vars, options, failed, starts>>

\* stop(), which the destructor calls too.
StopBegins ==
    /\ control = "outside"
    /\ stop_requested' = workers
    /\ control' = "joining"
    /\ UNCHANGED <<vars, options, is_running, failed, last_error, workers, worker, starts>>

StopReturns ==
    /\ control = "joining"
    /\ Joined
    /\ Cleared
    /\ UNCHANGED <<vars, options, failed, last_error, starts>>

\* main registers the monitors before it makes the executor.
RegisterFirst(m) ==
    /\ control = "outside"
    /\ starts = 0
    /\ Register(m)
    /\ UNCHANGED executorVars

Owner ==
    \/ StartWhileRunning
    \/ StartWithInvalidOptions
    \/ StartAccepted
    \/ \E w \in Pumps : Spawn(w)
    \/ StartReturns
    \/ SpawnFails
    \/ StartFails
    \/ StopBegins
    \/ StopReturns
    \/ \E m \in Monitors : RegisterFirst(m)

-----------------------------------------------------------------------------
(* A worker.                                                                *)

\* Faulty: the loop looks at one of its two conditions only.
ContinuesUntilFailure(w) == ~failed
ContinuesUntilStopped(w) == w \notin stop_requested

Continues(w) == w \notin stop_requested /\ ~failed

MoveTo(w, from, to) == worker[w] = from /\ worker' = [worker EXCEPT ![w] = to]

executorBut == <<options, is_running, workers, stop_requested, control, starts>>

\* The loop goes round: the clock is read for the next pump.
LoopAgain(w) ==
    /\ Continues(w)
    /\ MoveTo(w, "loop", "pump")
    /\ ReadClock(w)
    /\ UNCHANGED <<executorBut, failed, last_error>>

LoopEnds(w) ==
    /\ ~Continues(w)
    /\ MoveTo(w, "loop", "exited")
    /\ UNCHANGED <<vars, executorBut, failed, last_error>>

\* One step of run_due; when the call returns, the statistics are added up, an
\* idle worker sleeps for the poll interval, and the loop is tested again.
Pump(w, step) ==
    /\ step
    /\ MoveTo(w, "pump", IF pc'[w] = "idle" THEN "loop" ELSE "pump")
    /\ UNCHANGED <<executorBut, failed, last_error>>

\* The handler of an exception that left run_due: first the reason, under the
\* mutex, unless there is one already ...
RecordFailure(w) ==
    /\ pc[w] = "failed"
    /\ MoveTo(w, "pump", "flag")
    /\ last_error' = IF last_error = "none" THEN "failure" ELSE last_error
    /\ UNCHANGED <<vars, executorBut, failed>>

\* Faulty: the pump is repeated with the clock reading it failed with.
RetryAtOnce(w) ==
    /\ MoveTo(w, "flag", "pump")
    /\ Goto(w, "failed", "entered")
    /\ UNCHANGED <<now, jobVars, store, seen, claims, result>>
    /\ UNCHANGED <<executorBut, failed, last_error>>

\* ... then the flag that ends every worker and makes running() false.
RaiseFailed(w) ==
    /\ MoveTo(w, "flag", "loop")
    /\ Recover(w)
    /\ failed' = TRUE
    /\ UNCHANGED <<executorBut, last_error>>

Worker(w) ==
    \/ LoopAgain(w)
    \/ LoopEnds(w)
    \/ Pump(w, Claim(w))
    \/ Pump(w, RunnerReturn(w))
    \/ Pump(w, RunnerThrow(w))
    \/ Pump(w, Publish(w))
    \/ Pump(w, PublishThrow(w))
    \/ Pump(w, Release(w))
    \/ RecordFailure(w)
    \/ RaiseFailed(w)

ExecutorNext ==
    \/ Tick /\ UNCHANGED executorVars
    \/ Owner
    \/ \E w \in Pumps : Worker(w)

ExecutorSpec == ExecutorInit /\ [][ExecutorNext]_allVars

-----------------------------------------------------------------------------
(* Fairness.  Threads are scheduled, join returns, and time passes; a        *)
(* runner that may hang owes nothing.                                        *)

Hangs(w) == pc[w] = "running" /\ \E m \in Hanging : IsCurrent(w, m)

Fairness ==
    /\ WF_allVars(Tick /\ UNCHANGED executorVars)
    /\ WF_allVars((\E w \in Pumps : Spawn(w)) \/ StartReturns \/ StartFails \/ StopReturns)
    /\ \A w \in Pumps : WF_allVars(Worker(w) /\ ~Hangs(w))

FairExecutorSpec == ExecutorSpec /\ Fairness

-----------------------------------------------------------------------------
(* Properties.                                                              *)

\* Once stop has returned, and after a start that failed half-way, no thread of
\* the pool is left anywhere in run_due and no job is in flight: the engine can
\* be destroyed, or started again without a monitor that never runs any more.
StoppedMeansQuiet ==
    control = "outside" /\ ~is_running
    => /\ \A w \in Pumps : worker[w] = "none" /\ pc[w] = "idle"
       /\ \A m \in Monitors : ~in_flight[m]

\* Whoever sees that the executor has failed finds a text in error(), which is all
\* main has to report: it is there before the flag, also when several workers fail
\* at once and when the executor is started again after a failure.  (It need not
\* be the failure's own: a refused start() in between leaves its text instead.)
FailureIsExplained == failed => last_error # "none"

\* No more monitors run at the same time than there are workers, also across a
\* stop and a new start.
BoundedConcurrency == Cardinality({m \in Monitors : in_flight[m]}) <= options.worker_count

\* The pool is one of the environments MonitorEngine was specified for: all that
\* was shown of the engine holds of the engine in the pool.
ImplementsEngine == Spec

\* A runner that some worker waits for and that never returns.
RunnerHangs == <>[](\E w \in Pumps : Hangs(w))

\* stop() returns, although workers may be inside a runner when it is called, as
\* long as no runner hangs.
StopCompletes == RunnerHangs \/ (control = "joining" ~> control = "outside")

\* One worker's failure ends all of them, as long as no runner hangs.
FailureEndsWorkers ==
    RunnerHangs \/ (failed ~> \A w \in Pumps : worker[w] \in {"none", "exited"})

Running == is_running /\ ~failed /\ control = "outside"

Overdue(m) == m \in registered /\ next_due[m] <= now

\* docs/monitor-engine.md: a blocked request "consumes one worker without
\* blocking [...] an available monitor worker".  With fewer hanging monitors than
\* workers, every other monitor that is due gets its turn while the pool runs.
OthersKeepRunning ==
    \A m \in Monitors \ Hanging :
        Overdue(m) ~> \/ ~Overdue(m) \/ ~Running
                      \/ options.worker_count <= Cardinality(Hanging)
=============================================================================
