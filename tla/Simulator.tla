----------------------------- MODULE Simulator -----------------------------
(***************************************************************************)
(* The life of the process: main (src/simulator/main.cpp) makes the web    *)
(* display, the monitors, their executor and the status API one after the  *)
(* other, watches all of them from its loop, and destroys them in the      *)
(* reverse order, on every way out.  The two HTTP services are a listening *)
(* thread each (http_display_driver.cpp, http_status_server.cpp); what the *)
(* HTTP library does between bind, listen and stop is external.  The       *)
(* executor is a pool of workers that main must join (monitor_executor.cpp;*)
(* MonitorExecutor says more of the pool itself).                          *)
(***************************************************************************)
EXTENDS Integers, Sequences, FiniteSets

CONSTANTS
    Options,       \* the command lines and configurations looked at
    EarlyStopLost, \* whether the library may forget a stop that comes before the
                   \* listening thread has begun to listen
    Workers,       \* the worker threads of the executor
    RunnersHang    \* whether a runner may never return

Services == {"display", "api"}

ASSUME SimulatorAssumption ==
    /\ Options \subseteq [Services \cup {"monitors"} -> BOOLEAN]
    /\ EarlyStopLost \in BOOLEAN
    /\ RunnersHang \in BOOLEAN

VARIABLES
    options,        \* which services are enabled, whether there are monitors
    main,           \* where the main thread stands
    alive,          \* the objects of main that exist, in their declaration order
    listener,       \* the listening thread of each service
    is_running,
    stop_requested,
    last_error,     \* the service's error text (HttpDisplayDriver: its detail)
    accepting,      \* whether the library's socket still accepts connections
    worker,         \* where each worker stands in its loop
    failed,         \* the executor's failure flag
    asked,          \* whether the workers were asked to stop
    exit_code,
    blamed,         \* the part whose end made main return
    broken          \* history: services whose accept loop failed by itself

vars == <<options, main, alive, listener, is_running, stop_requested, last_error,
          accepting, worker, failed, asked, exit_code, blamed, broken>>

serviceVars == <<listener, is_running, stop_requested, last_error, accepting, broken>>
executorVars == <<worker, failed, asked>>

\* Faulty: the API is declared after the server that calls it.
ObjectsServerFirst == <<"web_display", "states", "monitor_engine", "monitor_executor",
                        "http_server", "status_api">>

\* The objects main owns, in the order it declares them.
Objects == <<"web_display", "states", "monitor_engine", "monitor_executor", "status_api",
             "http_server">>

ObjectOf(s) == IF s = "display" THEN "web_display" ELSE "http_server"

\* What a thread reaches through references: the dispatch of a service, and a
\* worker through the engine (HttpStatusServerImpl::api, StatusApi, MonitorEngine).
UsedBy(s) == IF s = "display" THEN {"web_display"}
             ELSE {"http_server", "status_api", "states"}
UsedByWorkers == {"monitor_executor", "monitor_engine", "states"}

Starting == {"begin display", "monitors", "start executor", "make workers", "start api"}
Watching == {"look at window", "look at api", "look at display", "look at executor", "frame"}
JoiningWorkers == {"unwind executor", "join workers", "leave executor"}
Stopping == JoiningWorkers \cup {"stop executor", "destroy", "request stop", "stop server", "join"}
Ended == {"exited", "terminated"}

Init ==
    /\ options \in Options
    /\ main = "begin display"
    /\ alive = {}
    /\ listener = [s \in Services |-> "none"]
    /\ is_running = [s \in Services |-> FALSE]
    /\ stop_requested = [s \in Services |-> FALSE]
    /\ last_error = [s \in Services |-> "none"]
    /\ accepting = [s \in Services |-> FALSE]
    /\ worker = [w \in Workers |-> "none"]
    /\ failed = FALSE
    /\ asked = FALSE
    /\ exit_code = 0
    /\ blamed = "none"
    /\ broken = {}

-----------------------------------------------------------------------------
\* return 1: the part at fault is named on the error stream.
Return(part) ==
    /\ main' = "destroy"
    /\ exit_code' = 1
    /\ blamed' = part

GoOn(place) ==
    /\ main' = place
    /\ UNCHANGED <<exit_code, blamed>>

\* HttpDisplayDriver::begin and HttpStatusServer::start after the socket is bound:
\* the service counts as running before its thread is made.
Begin(s) ==
    /\ is_running' = [is_running EXCEPT ![s] = TRUE]
    /\ stop_requested' = [stop_requested EXCEPT ![s] = FALSE]
    /\ accepting' = [accepting EXCEPT ![s] = TRUE]

\* One of main's two calls of them, from one place to the next: refused, begun, or
\* its std::thread cannot be made, an exception nobody catches.
StartService(s, place, next) ==
    /\ main = place
    /\ alive' = alive \cup {ObjectOf(s)} \cup (IF s = "api" THEN {"status_api"} ELSE {})
    /\ \/ /\ Return(s)
          /\ last_error' = [last_error EXCEPT ![s] = "unable to bind"]
          /\ UNCHANGED <<listener, is_running, stop_requested, accepting>>
       \/ /\ Begin(s)
          /\ listener' = [listener EXCEPT ![s] = "created"]
          /\ GoOn(next)
          /\ UNCHANGED last_error
       \/ /\ Begin(s)
          /\ GoOn("terminated")
          /\ UNCHANGED <<listener, last_error>>
    /\ UNCHANGED <<options, executorVars, broken>>

\* A service that is not enabled is not made.
SkipService(s, place, next) ==
    /\ main = place
    /\ ~options[s]
    /\ GoOn(next)
    /\ UNCHANGED <<options, alive, executorVars, serviceVars>>

BeginDisplay ==
    \/ options["display"] /\ StartService("display", "begin display", "monitors")
    \/ SkipService("display", "begin display", "monitors")

\* The store, the engine and the runners of the configured monitors, any of which
\* may be refused.
MakeMonitors ==
    /\ main = "monitors"
    /\ alive' = alive \cup {"states", "monitor_engine"}
    /\ \/ options["monitors"] /\ Return("monitors")
       \/ GoOn(IF options["monitors"] THEN "start executor" ELSE "start api")
    /\ UNCHANGED <<options, executorVars, serviceVars>>

\* MonitorExecutor::start: the command line has seen to it that its options are valid,
\* and the threads are made one after the other.
StartExecutor ==
    /\ main = "start executor"
    /\ alive' = alive \cup {"monitor_executor"}
    /\ GoOn("make workers")
    /\ UNCHANGED <<options, executorVars, serviceVars>>

MakeWorker(w) ==
    /\ main = "make workers"
    /\ worker[w] = "none"
    /\ worker' = [worker EXCEPT ![w] = "loop"]
    /\ UNCHANGED <<options, main, alive, failed, asked, exit_code, blamed, serviceVars>>

WorkersMade ==
    /\ main = "make workers"
    /\ \A w \in Workers : worker[w] # "none"
    /\ GoOn("start api")
    /\ UNCHANGED <<options, alive, executorVars, serviceVars>>

\* A thread cannot be made: those that were are asked to stop, and joined.
WorkerNotMade ==
    /\ main = "make workers"
    /\ \E w \in Workers : worker[w] = "none"
    /\ asked' = TRUE
    /\ GoOn("unwind executor")
    /\ UNCHANGED <<options, alive, worker, failed, serviceVars>>

StartApi ==
    \/ options["api"] /\ StartService("api", "start api", "look at window")
    \/ SkipService("api", "start api", "look at window")

-----------------------------------------------------------------------------
\* The loop: the window is closed or the time to run is over.
LookAtWindow ==
    /\ main = "look at window"
    /\ \/ GoOn("stop executor")
       \/ GoOn("look at api")
    /\ UNCHANGED <<options, alive, executorVars, serviceVars>>

\* Faulty: main does not look at the services it started.
LookAway(s, place, next) ==
    /\ main = place
    /\ GoOn(next)
    /\ UNCHANGED <<options, alive, executorVars, serviceVars>>

LookAtService(s, place, next) ==
    /\ main = place
    /\ IF options[s] /\ ~is_running[s] THEN Return(s) ELSE GoOn(next)
    /\ UNCHANGED <<options, alive, executorVars, serviceVars>>

LookAtExecutor ==
    /\ main = "look at executor"
    /\ IF failed THEN Return("executor") ELSE GoOn("frame")
    /\ UNCHANGED <<options, alive, executorVars, serviceVars>>

\* Rendering may fail; a frame a service does not take is dropped.
RenderFrame ==
    /\ main = "frame"
    /\ Return("renderer") \/ GoOn("look at window")
    /\ UNCHANGED <<options, alive, executorVars, serviceVars>>

\* After the loop, MonitorExecutor::stop if there is an executor: the workers are
\* asked to stop, and joined.
StopExecutor ==
    /\ main = "stop executor"
    /\ IF "monitor_executor" \in alive
       THEN asked' = TRUE /\ GoOn("join workers")
       ELSE asked' = asked /\ GoOn("destroy")
    /\ UNCHANGED <<options, alive, worker, failed, serviceVars>>

\* The object declared last of those that are left.
Latest == CHOOSE o \in alive :
    \E i \in DOMAIN Objects : Objects[i] = o /\ \A j \in DOMAIN Objects :
        j > i => Objects[j] \notin alive

Leaving(s) == main \in Stopping /\ alive # {} /\ Latest = ObjectOf(s)

\* The destructor of the latest object begins: the services and the executor are
\* stopped by theirs, the others are gone at once.
Destroy ==
    /\ main = "destroy"
    /\ alive # {}
    /\ \/ /\ \E s \in Services : Latest = ObjectOf(s)
          /\ GoOn("request stop")
          /\ UNCHANGED <<alive, asked>>
       \/ /\ Latest = "monitor_executor"
          /\ asked' = TRUE
          /\ GoOn("leave executor")
          /\ UNCHANGED alive
       \/ /\ Latest \in {"states", "monitor_engine", "status_api"}
          /\ alive' = alive \ {Latest}
          /\ GoOn("destroy")
          /\ UNCHANGED asked
    /\ UNCHANGED <<options, worker, failed, serviceVars>>

Exit ==
    /\ main = "destroy"
    /\ alive = {}
    /\ GoOn("exited")
    /\ UNCHANGED <<options, alive, executorVars, serviceVars>>

\* Every join has returned and the vector of threads is cleared: in a start that
\* failed, in the stop after the loop, or in the destructor.  A worker inside a
\* runner is waited for.
JoinWorkers ==
    /\ \A w \in Workers : worker[w] \in {"none", "ended"}
    /\ worker' = [w \in Workers |-> "none"]
    /\ \/ main = "unwind executor" /\ Return("executor") /\ UNCHANGED alive
       \/ main = "join workers" /\ GoOn("destroy") /\ UNCHANGED alive
       \/ /\ main = "leave executor"
          /\ GoOn("destroy")
          /\ alive' = alive \ {"monitor_executor"}
    /\ UNCHANGED <<options, failed, asked, serviceVars>>

\* HttpDisplayDriver::stop and HttpStatusServer::stop, as the destructors call
\* them: the flag, the library's stop, the join.
RequestStop(s) ==
    /\ main = "request stop"
    /\ Leaving(s)
    /\ stop_requested' = [stop_requested EXCEPT ![s] = TRUE]
    /\ GoOn("stop server")
    /\ UNCHANGED <<options, alive, executorVars, listener, is_running, last_error, accepting,
                   broken>>

StopServer(s) ==
    /\ main = "stop server"
    /\ Leaving(s)
    /\ \E lost \in {FALSE, EarlyStopLost} :
          accepting' = [accepting EXCEPT ![s] = @ /\ listener[s] = "created" /\ lost]
    /\ GoOn("join")
    /\ UNCHANGED <<options, alive, executorVars, listener, is_running, stop_requested,
                   last_error, broken>>

\* The display says that it was stopped unless it has failed before.
Join(s) ==
    /\ main = "join"
    /\ Leaving(s)
    /\ listener[s] \in {"none", "ended"}
    /\ listener' = [listener EXCEPT ![s] = "none"]
    /\ is_running' = [is_running EXCEPT ![s] = FALSE]
    /\ last_error' = IF s = "display" /\ last_error[s] = "none"
                     THEN [last_error EXCEPT ![s] = "stopped"] ELSE last_error
    /\ alive' = alive \ {ObjectOf(s)}
    /\ GoOn("destroy")
    /\ UNCHANGED <<options, executorVars, stop_requested, accepting, broken>>

MainStep ==
    \/ BeginDisplay \/ MakeMonitors \/ StartExecutor
    \/ (\E w \in Workers : MakeWorker(w)) \/ WorkersMade \/ WorkerNotMade
    \/ StartApi
    \/ LookAtWindow \/ LookAtService("api", "look at api", "look at display")
    \/ LookAtService("display", "look at display", "look at executor")
    \/ LookAtExecutor \/ RenderFrame \/ StopExecutor \/ JoinWorkers \/ Destroy \/ Exit
    \/ \E s \in Services : RequestStop(s) \/ StopServer(s) \/ Join(s)

-----------------------------------------------------------------------------
\* listen_after_bind begins to accept connections.
Listen(s) ==
    /\ listener[s] = "created"
    /\ main \notin Ended
    /\ listener' = [listener EXCEPT ![s] = "listening"]
    /\ UNCHANGED <<options, main, alive, is_running, stop_requested, last_error, accepting,
                   executorVars, exit_code, blamed, broken>>

\* accept fails for good.
Breaks(s) ==
    /\ listener[s] = "listening"
    /\ accepting[s]
    /\ main \notin Ended
    /\ accepting' = [accepting EXCEPT ![s] = FALSE]
    /\ broken' = broken \cup {s}
    /\ UNCHANGED <<options, main, alive, listener, is_running, stop_requested, last_error,
                   executorVars, exit_code, blamed>>

\* Faulty: the thread ends without a word.
ListenerEndsSilently(s) ==
    /\ listener[s] = "listening"
    /\ ~accepting[s]
    /\ main \notin Ended
    /\ listener' = [listener EXCEPT ![s] = "ended"]
    /\ is_running' = [is_running EXCEPT ![s] = FALSE]
    /\ UNCHANGED <<options, main, alive, stop_requested, last_error, accepting, executorVars,
                   exit_code, blamed, broken>>

\* Faulty: the end of a service that was told to stop is reported all the same.
ListenerEndsBlaming(s) ==
    /\ listener[s] = "listening"
    /\ ~accepting[s]
    /\ main \notin Ended
    /\ listener' = [listener EXCEPT ![s] = "ended"]
    /\ is_running' = [is_running EXCEPT ![s] = FALSE]
    /\ last_error' = IF s \in broken
                     THEN [last_error EXCEPT ![s] = "stopped unexpectedly"]
                     ELSE last_error
    /\ UNCHANGED <<options, main, alive, stop_requested, accepting, executorVars, exit_code,
                   blamed, broken>>

\* listen_after_bind returns, and the thread takes the lock and ends: it tells of
\* an end nobody asked for.
ListenerEnds(s) ==
    /\ listener[s] = "listening"
    /\ ~accepting[s]
    /\ main \notin Ended
    /\ listener' = [listener EXCEPT ![s] = "ended"]
    /\ is_running' = [is_running EXCEPT ![s] = FALSE]
    /\ last_error' = IF s \in broken /\ ~stop_requested[s]
                     THEN [last_error EXCEPT ![s] = "stopped unexpectedly"]
                     ELSE last_error
    /\ UNCHANGED <<options, main, alive, stop_requested, accepting, executorVars, exit_code,
                   blamed, broken>>

\* A worker's loop, while the process lives.
MoveWorker(w, from, to) ==
    /\ main \notin Ended
    /\ worker[w] = from
    /\ worker' = [worker EXCEPT ![w] = to]
    /\ UNCHANGED <<options, main, alive, asked, exit_code, blamed, serviceVars>>

\* run_due is called.  It may be inside a runner or a resolver that does not return.
Pump(w) ==
    /\ ~asked /\ ~failed
    /\ \E to \in {"pump"} \cup (IF RunnersHang THEN {"hung"} ELSE {}) : MoveWorker(w, "loop", to)
    /\ UNCHANGED failed

PumpReturns(w) == MoveWorker(w, "pump", "loop") /\ UNCHANGED failed

\* An exception leaves run_due, and its handler ends every worker.
PumpThrows(w) == MoveWorker(w, "pump", "loop") /\ failed' = TRUE

WorkerEnds(w) ==
    /\ asked \/ failed
    /\ MoveWorker(w, "loop", "ended")
    /\ UNCHANGED failed

Worker(w) == Pump(w) \/ PumpReturns(w) \/ PumpThrows(w) \/ WorkerEnds(w)

\* Main waits for a worker that is inside a runner which does not return.
Hung == main \in JoiningWorkers /\ \E w \in Workers : worker[w] = "hung"

\* The process is over, or main waits for ever.
Over == (main \in Ended \/ Hung) /\ UNCHANGED vars

Next ==
    \/ MainStep
    \/ \E s \in Services : Listen(s) \/ Breaks(s) \/ ListenerEnds(s)
    \/ \E w \in Workers : Worker(w)
    \/ Over

Spec == Init /\ [][Next]_vars

\* The threads are scheduled, and a run that is not hung comes to an end; that a
\* socket breaks or a worker fails is left open.
FairSpec ==
    /\ Spec
    /\ WF_vars(MainStep)
    /\ \A s \in Services : WF_vars(Listen(s)) /\ WF_vars(ListenerEnds(s))
    /\ \A w \in Workers : WF_vars(Worker(w))

-----------------------------------------------------------------------------
TypeOK ==
    /\ options \in Options
    /\ main \in Starting \cup Watching \cup Stopping \cup Ended
    /\ alive \subseteq {Objects[i] : i \in DOMAIN Objects}
    /\ listener \in [Services -> {"none", "created", "listening", "ended"}]
    /\ is_running \in [Services -> BOOLEAN]
    /\ stop_requested \in [Services -> BOOLEAN]
    /\ last_error \in [Services -> {"none", "unable to bind", "stopped unexpectedly", "stopped"}]
    /\ accepting \in [Services -> BOOLEAN]
    /\ worker \in [Workers -> {"none", "loop", "pump", "hung", "ended"}]
    /\ failed \in BOOLEAN
    /\ asked \in BOOLEAN
    /\ exit_code \in {0, 1}
    /\ blamed \in Services \cup {"none", "monitors", "executor", "renderer"}
    /\ broken \subseteq Services

\* No thread ever reaches an object that is gone, on no way out of main: a service
\* that may still answer requests has its API and store, a worker its engine.
UsersOutlived ==
    main # "terminated" =>
        /\ \A s \in Services : listener[s] \in {"created", "listening"} => UsedBy(s) \subseteq alive
        /\ \A w \in Workers : worker[w] \in {"loop", "pump", "hung"} => UsedByWorkers \subseteq alive

\* When main returns because of a service there is a text to show, a reason and not
\* the remark that it was stopped, and the stop in the destructor leaves it in place.
BlameHasReason ==
    blamed \in Services => last_error[blamed] \in {"unable to bind", "stopped unexpectedly"}

\* From the moment a service is told to stop, its reason stays as it is: a thread that
\* ends afterwards, even because its accept failed between the request and the stop of
\* the server, does not report a failure, and the stop does not hide one that the
\* thread reported before.
StopKeepsReason ==
    [][\A s \in Services : stop_requested[s] =>
          \/ last_error'[s] = last_error[s]
          \/ last_error[s] = "none" /\ last_error'[s] = "stopped"]_vars

\* Main stops a service whose thread had not begun to listen, and the library forgets
\* the stop.
Stranded ==
    /\ main = "join"
    /\ \E s \in Services : Leaving(s) /\ accepting[s] /\ listener[s] \in {"created", "listening"}

Out == main \in Ended

\* A service or worker that ends by itself ends the process, and a process that has
\* begun to leave gets out, wherever the other threads are.  There are two ways in
\* which it hangs instead, and no third: the join of a service that missed its stop
\* (Stranded), and the join of a worker whose runner does not return (Hung), after the
\* loop, on an early return, or in a start of the executor that fails half-way.
ProcessEnds ==
    /\ (\E s \in Services : listener[s] = "ended") ~> (Out \/ Stranded \/ Hung)
    /\ failed ~> (Out \/ Stranded \/ Hung)
    /\ main \in Stopping ~> (Out \/ Stranded \/ Hung)
=============================================================================
