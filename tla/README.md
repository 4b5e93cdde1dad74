# PixelStatus NX: TLA+ specifications

PixelStatus NX watches services, keeps one status per source and shows the
statuses as coloured regions of a small pixel display. This directory models the
program from its configuration file to the pixels, and every part of it in which
several things happen at once or in an order that matters; checks the models with
TLC on small instances, and proves the properties of its core with TLAPS for
instances of any size.

Paths below are relative to the repository.

## 1. The system

| Part | Code | State it keeps | Operations | Interacts by |
|---|---|---|---|---|
| Configuration loader | `src/core/config.cpp` | none | `load_config_file` and the parsers below it | called once by main |
| State store | `src/core/state.cpp` | map id -> state and the instant it entered its status | `upsert`, `find`, `resolve`, `snapshot`, `size` | shared by engine, API and renderer; one `shared_mutex` per operation |
| Evaluator | `src/core/evaluator.cpp` | none | `validate`, `evaluate` | called by the engine |
| Monitor engine | `src/core/monitor_engine.cpp` | jobs with `next_due`, `in_flight` | `add`, `run_due` | called by many threads; calls runners without its mutex, writes the store |
| Monitor executor | `src/host/monitor_executor.cpp` | worker threads, `is_running`, `failed`, `last_error` | `start`, `stop`, `running`, `error` | pumps the engine; watched by main |
| Runners and transports | `src/host/*_runner.cpp`, `socket_transport.cpp`, `winhttp_http_transport.cpp` | what one exchange has come to | `create`, `run` | called by the engine; wait for resolver and peer; return, throw or take long |
| Status API and its server | `src/core/status_api.cpp`, `src/simulator/http_status_server.cpp` | `update_mutex_`; the listening thread | GET of one or all, POST; `start`, `stop` | several HTTP threads; reads and writes the store |
| Renderer, cards, layouts | `src/core/renderer.cpp`, `appearance.cpp`, `frame.cpp` | start instant | `render` | reads the store from the main loop |
| HTTP display and its page | `src/host/http_display_driver.cpp` | newest frame, `sequence`, `frame_pending`, counters; in the page `etag`, `timer`, `polling` | `begin`, `submit_frame`, `stop`, `GET /api/v1/display`; `poll`, `schedule` | main submits, browsers and the bridge fetch |
| Main | `src/simulator/main.cpp` | all objects of the process, next frame time | load, create, register, start, render, watch, destroy | owns everything |
| MI bridge | `tools/mi_ble/` | latest-frame slot, connection, what the display shows | poll task, output task | fetches frames, writes Bluetooth packets |
| Collectors | `tools/unifi/`, `tools/openwrt/` | last snapshot, last error | refresh thread, HTTP handler | ask an appliance in several calls; polled by HTTP monitors |

What is hard in it:

- **Threads.** `run_due` is called by up to eight workers; it holds its mutex only
  to claim and to release. HTTP handlers write the same store without knowing of
  the engine. Pages, bridge and main loop meet in the display driver. Two listening
  threads and the workers use objects that main destroys.
- **Time.** Instants are read early and used late: before the engine's mutex,
  before a request is parsed, before a frame is rendered. Lateness is truncated
  to milliseconds and divided by the interval. Resolution, connection, sending and
  reading share one deadline. An animation may be looked at before its epoch.
- **Failure.** Runners throw or hang, publishing throws with other jobs of the
  batch still claimed, threads cannot be created, requests and responses are
  lost, peers send piece by piece or stop, the process restarts while clients keep
  what they remember of it.
- **Numbers.** Observations are integers, doubles, NaN and infinities compared in
  one type; percentages, bars and slides are rounded; cells share what does not
  divide.
- **Documents.** The loader promises that what it accepts can be drawn and run:
  limits, references between parts and geometry are checked in one place and
  relied on in others, some of them twice with different rules.

`PROJECT.json` lists each hazard at its line with the properties that watch it,
and the ones no property watches with the reason.

What makes each part correct:

- loader: an accepted document is drawn without an error and its monitors are those
  it wrote; a refused one is refused for a reason;
- renderer: the deck shows the cards in turn, each for its hold, with transitions
  between; an animation is at the step its epoch says; layouts tile without overlap;
- store: an entry's epoch changes when its effective status does; entries are
  never dated after the present;
- evaluator: first match wins, thresholds follow the number line;
- engine: a monitor never overlaps itself, a claim is always given back, a
  schedule neither drifts nor bursts nor starves, runs are published in order;
- executor: quiet after stop, at most `worker_count` runs at a time, failures are
  explained and end all workers, a hung runner costs one worker;
- runners: one deadline for a whole exchange, an observation that is exactly what the
  peer sent, failures that are real, a run that ends whatever the peer does;
- status API: the limit holds, an id is created once, a push gets its own answer;
- display: 304 only for what is shown, pages keep polling and catch up, pictures
  do not go back, counters account for all frames;
- main: no thread reaches a destroyed object, blame has a reason, the process ends;
- MI bridge: at rest the panel shows exactly the frame sent, no older frame follows
  a newer one, the panel catches up after any fault, the heartbeat does not boast;
- collectors: a served "ok" was true, a change for good shows.

## 2. Modules

| Module | Models | Uses |
|---|---|---|
| `StateStore` | entry, `upsert`, `resolve_entry`, `size` as operators | |
| `Evaluator` | values, conditions, `validate`, `evaluate` as operators | |
| `MonitorEngine` | `add` and `run_due` with concurrent pumps | `StateStore`, `Evaluator` |
| `MonitorExecutor` | the worker pool around the engine | `MonitorEngine` |
| `MonitorRunners` | one run of each kind of monitor against its peer | |
| `StatusApi` | requests handled by server threads beside the engine | `StateStore` |
| `HttpDisplay` | frame submission, endpoint, restarts, page script | |
| `Simulator` | the life of the process: main, both listening threads, the pool | |
| `Fields` | fields of documents, durations, identifiers, bounds | |
| `Appearance`, `AppearanceConfig` | colours and timelines; how they are read | `Fields` |
| `MonitorConfig` | monitors and policies as written, read, created and registered | `Fields`, `Evaluator` |
| `Geometry` | rectangles, grid cells, bars, slides | |
| `LayoutConfig` | widgets, layout trees, cards as read | `Fields`, `Geometry` |
| `ConfigLoader` | `load_config_file` | `AppearanceConfig`, `MonitorConfig`, `LayoutConfig` |
| `Renderer` | from configuration and store to a picture | `Appearance`, `Geometry`, `StateStore` |
| `Documents` | a configuration loaded, run and drawn | `ConfigLoader`, `Renderer` |
| `DocumentsTerms` | what `DocumentsProofs` speaks of: promises of the parsers, `DocumentsSound` | `Documents` |
| `Mirror` | what a mirror of a stream of frames promises (abstract) | |
| `PanelLayout` | orientation, colour order and packets of the MI panel as operators | |
| `MiBridge` | poll task, slot, output task, frame writer, heartbeat of the MI bridge | `PanelLayout`, `Mirror` |
| `Collectors` | refresh thread, appliance and served snapshot of both collectors | |
| `...Proofs` | theorems about the module of that name | it, `TLAPS` |
| `MC...` | instances for TLC | |

Conventions. An optional (`std::optional`, a failed lookup) is a set of at most
one element. An operator whose comment begins with "Faulty:" is a plausible bug of
the operator below it; no specification uses it, it serves to show that a property
notices the bug (`PROJECT.json`, "mutants"). History variables are named as such
where they are declared.

### How state and actions correspond to the code

**StateStore.** Each store operation holds the mutex throughout, so it is one
atomic step of whoever calls it. `observed_at` and `updated_at` are always set to
the same instant and one of them is kept; value and message do not influence
freshness.

**Evaluator.** `AsLongDouble` is the conversion of `number_value`: exact where
`long double` has a 64-bit mantissa, rounding where it is a `double`. A text is the
set of fragments it contains. `IsOutcome` is a relation between a result, a policy
and a status; `FirstMatchWins` of `Documents` compares it with a scan of the rules.

**MonitorEngine.** `registered`, `next_due` and `in_flight` are the fields of
`jobs_`. A pump is a call of `run_due` and moves through `pc`:

| `pc` | where `run_due` stands | actions that leave it |
|---|---|---|
| idle | not called | `ReadClock` (the caller reads `steady_clock::now()`) |
| entered | called, waiting for the mutex | `Claim` (due list, sort, resize, advance, flags: one critical section) |
| running | inside `runner->run` | `RunnerReturn`, `RunnerThrow` |
| publishing | between `run` and `upsert` | `Publish`, `PublishThrow` (flags of the rest given back under the mutex) |
| releasing | published, waiting for the mutex | `Release` |
| failed | the exception is with the caller | `Recover` |

`claims[p]` is the local list `due` from the current job on, with the due times
that ordered it. `Tick` may happen anywhere. Durations are milliseconds, instants
are ticks, `TicksPerMs` of them to a millisecond, so that the truncation of
`duration_cast` is part of `Advance`. The counters of the report are left out.

**MonitorExecutor.** Owner actions are the steps of `start` and `stop`, between
which workers move; worker actions wrap the pump's actions and add the loop test
and the two steps of the exception handler (text under the mutex, then flag). The
owner is one thread, as in `main`; `stop` also stands for the destructor.

**StatusApi.** A handler goes idle -> arrived (clock read) -> locked -> found ->
admitted -> written -> idle for a push, and back to idle at once for everything
else. `Checks` is the list of refusals in the order of the code. `Requests` names
what a check can tell apart. The engine appears as two actions per monitor, as
the store sees it: a result is dated, and later written.

**HttpDisplay.** The driver's members are variables of the same names. A page's
script is cut where it awaits: a fetch is sent, answered by the endpoint in one
step (it holds the mutex), its head arrives (the tag is stored), its body is drawn.
`Fails` loses any of these, `Ends` and `Boots` replace the process by a new one. Rates
are left out: a set timeout may fire at any time.

**MonitorRunners.** `at` is the place of the worker thread in `run`: resolving, trying
and awaiting a connection, sending and awaiting room, receiving and awaiting bytes,
or one of the waits of ICMP, httplib and WinHTTP. `Expired` is the deadline fixed when
`run` began, which all waits of the socket transport and of httplib share;
`WaitExpired` is the timeout that WinHTTP and `IcmpSendEcho` give each wait anew.
Resolution cannot be interrupted and is only looked at afterwards. Time passes only
while the thread is blocked. Resolver and peer are the environment: names resolve to
any number of addresses after any time, a peer sends bytes one by one, closes or
resets whenever it likes, and pieces are cut anywhere.

**Simulator.** `main` is the place of the main thread, from its first object to the
return; `Objects` are its local objects in the order of their declaration, which are
destroyed in the reverse order on every way out. `Begin` sets what `begin` and `start`
set before they make the thread; a `std::thread` that cannot be made is an
exception nobody catches ("terminated"). The executor is reduced to its threads: `worker` is
where each stands in its loop ("pump" inside `run_due`, "hung" inside a runner or a resolver that
does not return, where `RunnersHang` allows it), `asked` stands for the stop tokens, `failed` is
the flag that main looks at. Main joins the workers in three places, each a place of its own
from which `JoinWorkers` goes on only when every worker has ended: in a `start` that could not make
all its threads ("unwind executor"), after the loop ("join workers") and in the destructor, which
every early return reaches ("leave executor"). `EarlyStopLost` says whether the HTTP library may
forget a `stop` that comes before `listen_after_bind` has begun.

Main can wait for ever in two states, and `ProcessEnds` names both: `Stranded`, the join of a
listening thread that missed its stop, and `Hung`, the join of a worker that does not return from
its runner. The repository says of the second that shutdown may have to wait for a request, and
that a resolver cannot be cancelled (`docs/monitor-engine.md:91-92`, `:115-116`); whether the first
exists depends on the HTTP library, which is not in the repository. `ProcessEnds` says
that there is no third. `last_error` stands for the texts of both services; the display's remark
that it was stopped, which its `stop` writes unless it has failed, is one of them.

**Documents and the modules below it.** The loader gives each part of the document
[value, sound]: an optional value and whether the part was free of errors, since a
parser may report an error and go on. A field is a set of at most one value; a value of
the wrong type stands with those out of range, which are refused alike. Names, hosts,
URLs and pointers are members of the sets that are accepted or refused; colours are
one channel; lengths are scaled down (`Limit`). `schema_version` is read by
`get<int>()`, which truncates, as `SchemaRead` does. The two ways to write a layout, a list of
widgets and a tree of rows, columns, stacks and margins, are both translated; the recursion
over a tree is a list of the calls still to be made (`pending`), of which `ParseNode` makes the
first and puts those for the children before the rest, for at most `MaxCalls` calls. A picture is what a sequence of strokes, rectangles with a
colour, leaves on the background; a stroke that does not lie on the frame is the
rendering error of `fill_rect`. Products and quotients of doubles that would be exact
may fall short by the last bit: `short` chooses. The digits of a clock are the box they
are drawn in. A behaviour is one case, a file with what happens to the program that loads it:
`Load`, `Start` (create and register the monitors, ending at the first that is
refused), `Judge` (a response observed, converted and evaluated), `Report` (a client
pushes a state), `Draw` (a turn of the main loop, a millisecond later).

**MiBridge.** The two tasks of `run_bridge` interleave where they await. `poll` is
where `poll_source` stands, and `output` where `output_frames` stands:

| `output` | where `output_frames` stands | actions that leave it |
|---|---|---|
| idle | in the first `slot.current()` | `FirstFrame` |
| connecting | in `BleakConnection.connect` | `Connect`, `ConnectFails` |
| sending | at the head of the inner loop, or in `initialize` | `Initialize` (stays), `Begin`, `WriteFails` |
| writing | in the loop of `send_frame`, with the packets `unwritten` ahead | `Write` (stays), `WriteFails`, `Complete` |
| waiting | in `_wait_for_frame_or_disconnect` | `NewFrame`, `LinkLost` |
| retrying | in the handler's `sleep` | `WakeUp` (takes the slot's frame) |
| closing | in the `finally` | `Close` |

`generation` and `frame` are its local variables, `initialized` and `last_pixels` the
members of its `MiFrameWriter`. Packets are written in the order of their numbers;
a packet of pixel mode sets one point, one of block mode `PIXELS_PER_BLOCK` of them.
The panel is external: its link may be lost at any await, what it shows without a
link or after its mode was set may be anything between what it showed and black,
and a write that raises may have been drawn. The endpoint is one process of `HttpDisplay`,
reduced to its newest frame. `Publish` may fail, which only logs; it also stands for
a bridge without a status file. `PanelShowsFrame` does not use `TransformFrame`: it
turns the panel by quarters and looks at it from in front.

**Collectors.** `Calls` lists the calls of `build_snapshot` in their order with what each
answer shows of the appliance, `seen` is what they have shown so far, `document` and
`error` the members of `SnapshotStore`. The appliance may change between any two calls;
`held` remembers what was true at some time in the refresh. The error paths are the
ones caught by `refresh_once` (`Fail`) and the ones that are not (`Lost`).

## 3. Runs

All bounds are CONSTANTs of the configurations. `MaxTime`, `MaxStarts`, `MaxSequence`,
`MaxBoots`, `MaxFaults`, `MaxAddresses`, `MaxResolve`, `MaxStream` and the `horizon` of a
case bound the model only; `MaxRuns`, `MonitorLimit`, `MaxWorkers`, `MaxStates`,
`BufferBytes` and `Limit` are limits of the code, scaled down where they are large.

| Run | Instance | Checks |
|---|---|---|
| `Documents` | documents around small valid ones, varied in one part at a time: appearances, policies, monitors, widgets, layouts, decks | `FirstMatchWins`, `ThresholdsFollowTheLine`, `AcceptedWorks`, `NothingDropped`, `DeckFollowsSchedule`, `AnimationFollowsSteps` |
| `MonitorEngineBatches` | 3 monitors (intervals of 1 and 2 ms, one ttl), 2 pumps, batches of 2, 2 ticks to the ms, 3 ticks | `ClaimsMatchFlags`, `InPhase`, `NothingFromTheFuture`, `ClaimAdvancesPastNow`, `ObservationsInOrder`, `PassedAtMostOnce` |
| `MonitorExecutor` | 2 monitors, 2 threads for 1 or 2 workers, refused options, the runner of monitor 1 may hang, 2 starts, fair | `StoppedMeansQuiet`, `FailureIsExplained`, `BoundedConcurrency`, `ImplementsEngine`, `StopCompletes`, `FailureEndsWorkers`, `OthersKeepRunning` |
| `MonitorRunners` | a monitor of each kind and two exchanges, a timeout of 2, resolution of up to 3, 2 addresses, 4 bytes, a buffer of 2, fair | `ExactAnswer`, `FailuresAreReal`, `DeadlineShared`, `RunEnds` |
| `WinHttpTimeout` | a WinHTTP monitor | finds `OverallTimeout` violated |
| `StatusApi` | 2 handlers, pushes of 2 ids, reads and refusals, 1 monitored id, room for 1 | `StoreBounded`, `CreatedOnce`, `PushEchoed` |
| `StatusApiRefresh` | 2 handlers refreshing a state with a ttl | finds `RefreshStartsEpoch` violated |
| `HttpDisplayPages` | 1 page, 2 processes, 3 frames each, 2 faults, fair | `VisiblePagePolls`, `FramesAccounted`, `FramesMoveForward`, `PageCatchesUp` |
| `HttpDisplayRestart` | 1 page, 2 processes | finds `NotModifiedMeansShown` violated |
| `Simulator` | every combination of display, API and monitors, 2 workers, runners may hang, early stops may be lost, fair | `UsersOutlived`, `BlameHasReason`, `StopKeepsReason`, `ProcessEnds` |
| `MiBridge` | panel of 2x2, pixel mode turned by 90 degrees with channels reordered and block mode mirrored, 2 pictures, 2 frames, 2 faults, fair | `PanelShowsFrame`, `HeartbeatHonest`, `MirrorsTheSource`, `PanelCatchesUp` |
| `Collectors` | both collectors, 3 initial appliances, the route, the association and the gateway may come and go, fair | `OkWasTrue`, `ChangesShow` |

Why the bounds are enough. Two pumps are all it takes for a claim to be made
between another pump's clock reading and its critical section, and for two pumps to
be at each pair of program points; three monitors are needed for one to be passed
by two others. Two ticks to the millisecond make lateness that truncates to zero
occur, and three ticks let a pump be late by more than one interval of two. For the
safety properties of the state machines the bounds do not matter in the end: all are
proved for all values, those of `Documents` among them (section 5). A second start lets a
new pool meet what an old one left behind. One place in the store for three ids makes pushes compete at the limit and
lets the monitor slip in between. Two workers, the default
of the command line, let one hang or fail while the other goes on, and let the second be the one that
cannot be made. Two processes and two frames each are the least in which
sequence numbers collide. Pages do not meet (no request reads what another page has
written), so one page is enough.

A timeout of two lets time pass before and after each of two waits; a resolution of three
outlasts it. Four bytes and a delimiter of two, read in pieces of up to two, cut a
delimiter in the middle, leave bytes after it, and reach a limit of three or two.

Two blocks of two points tell blocks from points and one half of the panel from the
other; a corner and the row it is in differ in some pixels and agree in others, so
that differences matter, and no two of their points can be confused after a turn. Two
faults let a second one hit the recovery from the first.

The cases of `Documents` vary, in each family, every field of the part it is about over
absent, least, greatest, in between and out of range, alone and where fields depend on
each other together: 201 appearances and documents around them (52 accepted), 383
policies (121), 284 monitors (48, of which 37 can be created), 402 widgets (50), 1170 layouts
(188), 1477 decks (291). An accepted one is drawn for as long as its deck or its longest
animation needs to come round; `MCDocuments` names the scaled limits. It is the one run
without a deadlock check: its cases end by themselves.

Symmetry is used over the pumps of `MonitorEngineBatches`, a run of safety properties only;
no action tells pumps apart.

### Fairness

`MonitorExecutor.Fairness`: time passes; the owner finishes a `start` or `stop` it has
begun; every worker takes its next step unless it is inside a runner that may hang.
That is what thread scheduling, `join` and runners with timeouts give. Nothing is
assumed of the order in which workers obtain the mutex, of `start` or `stop` being
called, or of a runner throwing. `MonitorRunners.FairSpec`: the thread is scheduled and time passes while it is
blocked; a resolution ends within `MaxResolve`, as the system's resolver gives up by
itself; nothing is assumed of the peer. `HttpDisplay.FairSpec`: timeouts fire, requests
that are not lost are answered (losses are bounded by `MaxFaults`), a process that
ended is started again (the service units restart it). `Simulator.FairSpec`: main, the
listening threads and the workers are scheduled, so a join returns when its thread has ended and a run
that is not hung comes back; that a socket breaks or a worker fails is left open, and nothing is
assumed of a worker that is hung.
`MiBridge.FairSpec`: each of the two tasks goes on when it can; requests, connections and
writes that do not fail come to an end. They have timeouts in the code, and the event
loop runs whatever is ready. Failures are bounded by `MaxFaults`. `Collectors.FairSpec`: the
refresh thread runs, and its calls come to an end unless they are `Lost`.

## 4. What the runs found

- **Refresh of a stale state** (`state.cpp:38`, `http_status_server.cpp:62`). Whether the
  old state was stale is decided with the instant the push's dispatch read. A push
  that arrives just before the expiry and is written just after it refreshes a state
  readers have seen as stale, and keeps the old animation epoch;
  `docs/configuration-v1.md` says the epoch changes.
- **ETag over a restart** (`http_display_driver.cpp:440`). The tag is the sequence number
  of the process. After a restart it can name another frame, and a page that kept
  the old one is told 304 although it shows a different picture, until its next poll.
- **No overall timeout with WinHTTP** (`winhttp_http_transport.cpp:233`). Each wait gets the
  whole timeout and the read loop looks at no clock, so a server that answers piece by
  piece keeps the worker as long as it likes; `docs/monitor-engine.md:101` says the runner
  enforces an overall timeout, as the httplib transport does.

Differences met while modelling that have no run:

- Comparison goes through `long double` (`evaluator.cpp:14`). Where that is a `double`, as
  with the compiler of the Windows host, two integers above 2^53 that differ may compare
  as equal, against `docs/monitor-engine.md`, by which numbers compare numerically.
- The bridge takes the frame it restores after the retry delay and before the scan and the
  connection (`tools/mi_ble/bridge.py:191`), which may take as long as the panel is away. A
  frame that arrives meanwhile is written only after the old one;
  `docs/windows-mi-ble.md:117` says the newest complete frame is restored.
- `docs/windows-mi-ble.md:169` calls the heartbeat's write count cumulative, `bridge.py:171`
  publishes the count of the last frame.
- `schema_version` is truncated to an `int` before it is compared with 1 (`config.cpp:2747`): a
  number that is 1 modulo 2^32 is accepted.
- A HEAD response with a large `Content-Length` is reported as too large although it has no
  body (`http_monitor_runner.cpp:266`).
- ICMP gets the whole timeout after the resolution (`icmp_ping_monitor_runner.cpp:133`).
- `worker_count()` reads the vector of workers under a mutex that `start` and `stop` do not
  hold (`monitor_executor.cpp:168`): a data race if anyone but the owner called it.

## 5. Proofs

Eight modules hold the proofs, one for each component or pair of components that is
proved about. `MonitorProofs` proves of the engine, from the named assumptions of
`MonitorEngine` alone
(finitely many monitors that are numbers, definitions and limits of the right types),
for every set of pumps, batch size, interval, ttl, policy and clock resolution:

| Theorem | Property | Argument |
|---|---|---|
| `TypeCorrect` | `TypeOK` | `TInv`, the type invariant with the claims' types spelled out, is inductive |
| `SingleFlight` | `ClaimsMatchFlags` | inductive beside the types; one step per action, `GiveBack` for the two ways a claim ends |
| `ClaimsAdvance` | `ClaimAdvancesPastNow` | `AdvanceIsNextInterval`: integer division of the truncated lateness gives the first due time after the instant |
| `NoDrift` | `InPhase` | `Phase`: the distance from the first due time is a multiple of the interval in ticks |
| `DatedByNow` | `NothingFromTheFuture` | needs that readings, waiting results and entries are all dated in the past, and that an entry's epoch lies before its date |
| `NoOldObservation` | `ObservationsInOrder` | `Fresh`: a waiting dated result is newer than the entry it will replace; this needs single flight, as only the one run of a monitor writes its entry |
| `NoStarvation` | `PassedAtMostOnce` | what a claim takes comes first in a total order, and an advanced job comes after everything that was due |

`InPhase` and `NothingFromTheFuture` are not inductive alone; the strengthenings are
named conjuncts of the invariants in the module and each lemma names the action it
is about.

and of the pool, for any number of threads, workers and starts:

| Theorem | Property | Argument |
|---|---|---|
| `PoolImplementsEngine` | `ImplementsEngine` | every step of owner and workers is a step of `MonitorEngine` or leaves its variables alone, so all theorems above hold of the engine in the pool |
| `ExecutorTypeCorrect` | `ExecutorTypeOK` | part of `PoolInv` |
| `QuietWhenStopped` | `StoppedMeansQuiet` | `Places` (a thread outside the vector is nowhere, one outside `run_due` holds no claim) and `Ownership` (the vector is empty when `start` may be called), with `ClaimsMatchFlags` of the engine |
| `FailuresAreExplained` | `FailureIsExplained` | `Explained`: the text is there as soon as one worker is between recording and raising |
| `ConcurrencyIsBounded` | `BoundedConcurrency` | `CrewInv`: a batch is one job (`BatchOfOne`), the vector never exceeds `worker_count`; taking each running monitor to the thread that holds it is then an injection into the vector |

`MiBridgeProofs` proves, for every size of panel, all pictures and options and any
number of frames and faults:

| Theorem | Property | Argument |
|---|---|---|
| `BridgeImplementsMirror` | `MirrorsTheSource` | `Chain`: on the way endpoint, response, slot, output task, panel no frame is newer than one further up, so every completed frame is a later one or the same again |
| `HeartbeatIsHonest` | `HeartbeatHonest` | with `Chain`, as the number of the displayed frame never decreases |
| `PanelIsFaithful` | `PanelShowsFrame` | `Synced`: while the link holds the writer's pixels are on the panel, and during a frame every point that no packet still to come covers; packets of either mode cover every point (`EveryPointIsCovered`, division), and turning and mirroring are injective (`TargetIsInjective`) |

`BridgeTypeCorrect` adds that the panel only ever shows black and colours of the pictures.

`StatusApiProofs` proves, for any number of handlers and pushes, any ids, limit and ttls:

| Theorem | Property | Argument |
|---|---|---|
| `SingleCreation` | `CreatedOnce` | `Held`: only the holder of `update_mutex_` stands between `find` and `upsert`, so what it read is still so (`Known`), and what it reported created is there from then on (`There`) |
| `OwnEcho` | `PushEchoed` | `Own`: between `upsert` and `resolve` nobody else writes an id that no monitor writes |
| `LimitKept` | `StoreBounded` | `Room`: `size` counted every id that only pushes create, and while the mutex is held nobody else creates one |

`CollectorsProofs` proves, for any appliances, labels and number of changes:

| Theorem | Property | Argument |
|---|---|---|
| `ServedIsTrue` | `OkWasTrue` | `Witnessed` and `Founded`: every answer a refresh has got so far, and every snapshot it stored, is what the appliance said at some time in that refresh |

`SimulatorProofs` proves, for any command line, any set of workers, and runners and a library that
may or may not keep main waiting:

| Theorem | Property | Argument |
|---|---|---|
| `ObjectsOutliveUsers` | `UsersOutlived` | `Lifetimes`: before a thread begins, what it uses is alive; the destruction of an object that a thread uses comes after the join of that thread |
| `EveryBlameExplained` | `BlameHasReason` | `Begun`: a service that main looks at has begun, and its reason is there before `is_running` is false; no later step replaces it |
| `StopsAreNoFailures` | `StopKeepsReason` | `Unasked`: no service is told to stop before main leaves, so that only the end of a listening thread and the join meet the request, and the one looks at it and the other at the text |

`HttpDisplayProofs` proves, for any number of pages, processes, frames and faults:

| Theorem | Property | Argument |
|---|---|---|
| `FramesAreAccounted` | `FramesAccounted` | `Account`: a frame is pending exactly while the newest has not been served, and every frame before it is counted |
| `PagesKeepPolling` | `VisiblePagePolls` | `Polls`: a page that polls has exactly one fetch, and a process that ended is started again |
| `PicturesMoveForward` | `FramesMoveForward` | `Order`: no frame is from the future, and the one a page waits for is the one it shows or a later one |

`MonitorRunnersProofs` proves, for any timeouts, limits, buffers, payloads, delimiters and
bytes, and any number of addresses:

| Theorem | Property | Argument |
|---|---|---|
| `OneDeadline` | `DeadlineShared` | `InTime`: in every place after an attempt to connect has begun the deadline is not over, and time passes only where it is waited for |
| `AnswersAreExact` | `ExactAnswer` | `Reads`: what has been read is a beginning of what was sent (`NextPiece`); `Sought`: a run that reads on has not met the delimiter; the first end in a beginning is the first end in the whole (`AnswerInBeginning`) |
| `FailuresAreTrue` | `FailuresAreReal` | from the same invariant |

`DocumentsProofs`, in the terms that `DocumentsTerms` defines (the inductive invariant among
them), proves, for every file, store and clock, and any values of the limits, the scales of
colours and durations and the host's abilities:

| Theorem | Property | Argument |
|---|---|---|
| `DocumentsInvariant` | | `DocumentsSound`: the configuration is one that `LoadConfig` gives, numbers of the store lie on the scale, no entry of it is of a later time, what was observed is an outcome of a response under the first monitor's policy, and a picture is the one `Render` makes of the present |
| `AcceptedAlwaysWorks` | `AcceptedWorks` | `ConfigShowable` (what is loaded can be drawn at every instant) and `ConfigMonitors` (its monitors pass the checks of the factories and of `add`), both below |
| `ThresholdsAlwaysFollow` | `ThresholdsFollowTheLine` | values are on the scale (`RatioScaled`, `ObservedScaled`), so that the comparisons are those of the integers |
| `NothingEverDropped` | `NothingDropped` | `CardsRead`, `MonitorsRead`, `IndicatorsKept`: a list that is read without an error is kept entry by entry; `LeavesPlaced`: the widgets of a tree are its leaves, in places that share out the display |
| `FirstMatchAlwaysWins` | `FirstMatchWins` | `ScanStops`: the recursive scan ends at the rule that `IsOutcome` describes |
| `AnimationAlwaysFollows` | `AnimationFollowsSteps` | `StatusesMade`: a loaded timeline has the colours of its entry at the sums of their times; `ColourDue`: so what `sample` finds is due; `IndicatorShown`: the pixel is painted last by its own indicator |
| `DeckAlwaysFollows` | `DeckFollowsSchedule` | `TurnDue`: the schedule unrolled into moments has the active card where `Render` finds it; `SlideShown` and `FadeShown`: a transition is the window, or the mixture, of the two cards |

`AcceptedWorks` joins four separate pieces of code that check the same things in their own
ways, and the proof follows the data through all of them. Upwards: `WidgetMade` says that the
bounds each widget's parser accepts suffice for what `render_card` will draw of it, cell by cell
(`GridCellFits`), for any fill of a bar (`FilledRectFits`) and for a clock's digits (`DigitsFit`).
`SharesFit` and `PlacesFit` show that the places a row or a column gives its children,
differences of rounded prefix sums, are not empty and lie inside it whatever the weights;
`TreeRead` is the invariant that this keeps over the pending calls (`NodeRead`, `NextRead`), so
that the widgets of a tree of any shape lie on the display (`WidgetsRead`). `CardsRead` joins the
cards of a deck, `Shown` draws them alone and in transitions, at every instant (`CardsBegin`).
Downwards: `PolicyRead`, `HttpMade`, `ExchangeMade` and `SourceRead` carry the limits that the
parsers check to those that the runners' factories check again.

`NothingDropped` compares a loop with a recursion: `ParseCalls` keeps a list of pending calls,
`Leaves` counts down the levels of the tree. The invariant that joins them (`Intact`, kept by
`NextIntact`) sees the widgets that were read and the calls that are pending as stations of one
list. Each station owes the leaves below its node (`Owed`: one for a widget), and what they owe
together is always what the root has (`Accounted`); a call that is answered by one widget, or by
calls for its children, is replaced by stations that owe the same (`Spliced`, `SplicedSum`,
`LeavesOfInner`). For any one pixel, the places of the stations are kept `Apart` if the tree has
no stack, and one of them has it if there are no gaps, because the places of a row's or a column's
children lie one after the other, inside their parent's, and with no gap fill it to the end
(`PlacesPart`, which needs the shares to add up to the extent exactly: `DivisionExact`). The
calls come to an end before `MaxCalls` since each node that is counted adds no more than
`Limit.widgets` of them (`CallsBounded`). At the end nothing is pending: as many widgets as leaves,
each owing one, none on another and none missing.

What is shown is proved in both directions too. From the file: each kind of appearance has a
lemma that the timeline its parser builds `Follows` the colours and times written in the file
(`BlinkRead`, `ToggleRead`, `FadeRead`, `PulseRead`, `SequenceRead`, `CycleRead`; the last two by
a fold over the steps, `StepsRead`), and sorting its keyframes changes nothing (`Marked`). From the
picture: `TimelineMoments` and `ScheduleAt` unroll colours and cards into moments and show that
the first of each stands where the keyframe, or `Begins`, says; then the frame or card that the
code's search finds is the one the moment names (`MomentDue`, `TurnDue`). `BlendBetween` keeps a
mixture between its colours whichever way the doubles round, and `SlideWithin` an offset within
its edge. `LastStroke` reads a pixel off the strokes: the last that covers it.

The module rests on an induction up to a bound (`Induction`) that needs no induction theorem of
the library: if a set held 0 and, with each number below `n`, the next, but not some `m`, the
successor would map the finite set of numbers up to which all are in it into itself one to one
and miss 0, which `FS_Injection` excludes. `Recursion` derives from it that a recursive definition
over `0..n` is the function it reads as; what is folded over lists of any length, kept entries,
prefix sums, cursors, pending calls, is reasoned about with these two.

The proofs assume of the constants of `Documents` that limits and scales are natural numbers,
some of them not zero, and defaults within their limits (`FieldsAssumption`,
`RendererAssumption`, `MonitorConfigAssumption`); that the digits are no larger than what the
loader makes room for (`ClocksAssumption`: the same numbers stand in `config.cpp` and
`renderer.cpp`); and that every number of a case is a value on the common scale or one of the
exceptional ones, that a report's ttl is a number, that an object has at most one value of a
name, as the objects of the JSON library do, that the children of a node of a layout are a list,
and that a card that has a root and is no layout has a field that its type does not know, since
`parse_card` rejects unknown fields type by type (`CasesAssumption`: how a document writes its
values, not which). Reals are
modelled as multiples of one unit, so of the rounding of doubles the proofs say only what
`AsLongDouble` and `short` leave open.

Each of these modules also proves its component's type invariant where the argument needs
it (`ApiTypeCorrect`, `SimulatorTypeCorrect`, `DisplayTypeCorrect`, `RunnersTypeCorrect`).
The proofs assume what the `ASSUME`s of the modules name, and nothing of the bounds but
that they are numbers.

Every safety property that a passing run checks is proved. Only model-checked are liveness and
everything under fairness: the proof system does not reason about ENABLED.

## 6. Not modelled, and why

Pure input and output: the Win32 window (one thread; its frame slot is the one of the HTTP
display), the Claude usage pusher (a script that runs once), deployment scripts and
packaging, the command line, reading environment variables and files for secrets.

Layout of numbers and text, which has no state and which tests reach: JSON syntax, the
characters of identifiers, hosts and URLs, hexadecimal colours, HTTP headers, the bytes of
packets and of frame documents, calibration patterns, log lines, error texts, glyphs.

Hazards that a property excuses: a frame the page stored the tag of and could not draw (`lost` in
`PageCatchesUp`), a refresh thread that an unforeseen exception ended (`ChangesShow`), a service
that missed its stop and a worker that hangs (`Stranded` and `Hung` in `ProcessEnds`), and an HTTP
monitor whose secrets are not there when it starts (`AcceptedWorks`). These properties say that nothing
else goes wrong. Simplified besides: the bridge's `Close` takes the link down even if
disconnecting raises, and in `MonitorRunners` time passes only while a run is blocked.

Parts of modelled components: the counters of the executor, the renderer and of pump
reports; `MonitorEngine::next_due` and `size`, which only read; the changes main makes to its
first source in a demonstration; out-of-memory inside exception handlers. Of the MI bridge:
cancellation, exceptions that end it, the length of its delays, the check of the write size,
the commands of `cli.py` other than `bridge`.

The HTTP libraries, the operating system's resolver, sockets and Bluetooth stack appear through
what the code does with their results.
