--------------------------- MODULE SimulatorProofs ---------------------------
(***************************************************************************)
(* Three facts about the life of the process, for all command lines, any   *)
(* workers, runners that may hang or not and a library that may or may not *)
(* forget an early stop: no thread reaches an object that is gone, main    *)
(* has a text to show when it blames a service, and a stop changes nothing *)
(* about the reason of an end.                                             *)
(***************************************************************************)
EXTENDS Simulator, TLAPS

ObjectSet == {"web_display", "states", "monitor_engine", "monitor_executor", "status_api",
              "http_server"}

LEMMA ObjectsDeclared ==
    /\ DOMAIN Objects = 1..6
    /\ Objects[1] = "web_display" /\ Objects[2] = "states" /\ Objects[3] = "monitor_engine"
    /\ Objects[4] = "monitor_executor" /\ Objects[5] = "status_api" /\ Objects[6] = "http_server"
    /\ {Objects[i] : i \in DOMAIN Objects} = ObjectSet
<1>1. /\ DOMAIN Objects = 1..6
      /\ Objects[1] = "web_display" /\ Objects[2] = "states" /\ Objects[3] = "monitor_engine"
      /\ Objects[4] = "monitor_executor" /\ Objects[5] = "status_api" /\ Objects[6] = "http_server"
  BY DEF Objects
<1> QED  BY <1>1 DEF ObjectSet

\* The object that is destroyed next was declared after all others that are left.
LEMMA LatestObject ==
    ASSUME alive \subseteq ObjectSet, alive # {}
    PROVE  /\ Latest \in alive
           /\ Latest # "http_server" => "http_server" \notin alive
           /\ Latest \in {"states", "monitor_engine"} => "monitor_executor" \notin alive
<1> DEFINE Last(o) == \E i \in DOMAIN Objects : Objects[i] = o /\ \A j \in DOMAIN Objects :
                          j > i => Objects[j] \notin alive
<1>1. \E o \in alive : Last(o)
  <2>1. CASE "http_server" \in alive
    BY <2>1, ObjectsDeclared
  <2>2. CASE "http_server" \notin alive /\ "status_api" \in alive
    BY <2>2, ObjectsDeclared
  <2>3. CASE alive \cap {"http_server", "status_api"} = {} /\ "monitor_executor" \in alive
    BY <2>3, ObjectsDeclared
  <2>4. CASE /\ alive \cap {"http_server", "status_api", "monitor_executor"} = {}
             /\ "monitor_engine" \in alive
    BY <2>4, ObjectsDeclared
  <2>5. CASE /\ alive \cap {"http_server", "status_api", "monitor_executor", "monitor_engine"} = {}
             /\ "states" \in alive
    BY <2>5, ObjectsDeclared
  <2>6. CASE alive = {"web_display"}
    BY <2>6, ObjectsDeclared
  <2> QED  BY <2>1, <2>2, <2>3, <2>4, <2>5, <2>6 DEF ObjectSet
<1>2. Latest \in alive /\ Last(Latest)
  BY <1>1 DEF Latest
<1>3. PICK i \in 1..6 : Objects[i] = Latest /\ \A j \in 1..6 : j > i => Objects[j] \notin alive
  BY <1>2, ObjectsDeclared
<1>4. i = 6 \/ "http_server" \notin alive
  BY <1>3, ObjectsDeclared
<1>5. i \in {2, 3} => "monitor_executor" \notin alive
  BY <1>3, ObjectsDeclared
<1>6. Latest \in {"states", "monitor_engine"} => i \in {2, 3}
  BY <1>3, ObjectsDeclared
<1>7. Latest # "http_server" => i # 6
  BY <1>3, ObjectsDeclared
<1> QED  BY <1>2, <1>4, <1>5, <1>6, <1>7

-----------------------------------------------------------------------------
(* Types.                                                                   *)

LEMMA InitType == Init => TypeOK
  BY DEF Init, TypeOK, Starting

LEMMA StepType == TypeOK /\ [Next]_vars => TypeOK'
<1> SUFFICES ASSUME TypeOK, [Next]_vars PROVE TypeOK'
  OBVIOUS
<1> USE DEF Starting, Watching, Stopping, JoiningWorkers, Ended, Services
<1>0. alive \subseteq ObjectSet
  BY ObjectsDeclared DEF TypeOK
<1>1. ASSUME NEW s \in Services, NEW place \in Starting, NEW next \in Starting \cup Watching,
             StartService(s, place, next)
      PROVE  TypeOK'
  <2>1. alive' \subseteq ObjectSet
    BY <1>0, <1>1 DEF StartService, ObjectOf, ObjectSet
  <2>2. /\ listener' \in [Services -> {"none", "created", "listening", "ended"}]
        /\ is_running' \in [Services -> BOOLEAN]
        /\ stop_requested' \in [Services -> BOOLEAN]
        /\ accepting' \in [Services -> BOOLEAN]
        /\ last_error' \in [Services -> {"none", "unable to bind", "stopped unexpectedly", "stopped"}]
    <3>1. \/ UNCHANGED <<listener, is_running, stop_requested, accepting>>
          \/ Begin(s) /\ (listener' = [listener EXCEPT ![s] = "created"] \/ listener' = listener)
      BY <1>1 DEF StartService
    <3>2. last_error' = [last_error EXCEPT ![s] = "unable to bind"] \/ last_error' = last_error
      BY <1>1 DEF StartService
    <3>3. last_error' \in [Services -> {"none", "unable to bind", "stopped unexpectedly", "stopped"}]
      BY <3>2 DEF TypeOK
    <3>4. CASE UNCHANGED <<listener, is_running, stop_requested, accepting>>
      BY <3>3, <3>4 DEF TypeOK
    <3>5. CASE Begin(s)
      <4>1. listener' = [listener EXCEPT ![s] = "created"] \/ listener' = listener
        BY <3>1
      <4>2. listener' \in [Services -> {"none", "created", "listening", "ended"}]
        BY <4>1 DEF TypeOK
      <4> QED  BY <3>3, <3>5, <4>2 DEF Begin, TypeOK
    <3> QED  BY <3>1, <3>4, <3>5
  <2>3. /\ main' \in Starting \cup Watching \cup Stopping \cup Ended
        /\ exit_code' \in {0, 1}
        /\ blamed' \in Services \cup {"none", "monitors", "executor", "renderer"}
    BY <1>1 DEF StartService, Return, GoOn, TypeOK
  <2>4. UNCHANGED <<options, executorVars, broken>>
    BY <1>1 DEF StartService
  <2> QED  BY <2>1, <2>2, <2>3, <2>4, ObjectsDeclared DEF executorVars, TypeOK
<1>2. ASSUME NEW s \in Services, NEW place \in Starting, NEW next \in Starting \cup Watching,
             SkipService(s, place, next)
      PROVE  TypeOK'
  BY <1>2 DEF SkipService, GoOn, serviceVars, executorVars, TypeOK
<1>3. CASE MakeMonitors
  <2>1. alive' \subseteq ObjectSet
    BY <1>0, <1>3 DEF MakeMonitors, ObjectSet
  <2> QED  BY <1>3, <2>1, ObjectsDeclared DEF MakeMonitors, Return, GoOn, serviceVars, executorVars, TypeOK
<1>4. CASE StartExecutor \/ (\E w \in Workers : MakeWorker(w)) \/ WorkersMade \/ WorkerNotMade
  <2>1. CASE StartExecutor
    <3>1. alive' \subseteq ObjectSet
      BY <1>0, <2>1 DEF StartExecutor, ObjectSet
    <3> QED  BY <2>1, <3>1, ObjectsDeclared DEF StartExecutor, GoOn, serviceVars, executorVars, TypeOK
  <2>2. ASSUME NEW w \in Workers, MakeWorker(w) PROVE TypeOK'
    BY <2>2 DEF MakeWorker, serviceVars, TypeOK
  <2>3. CASE WorkersMade \/ WorkerNotMade
    BY <2>3 DEF WorkersMade, WorkerNotMade, GoOn, serviceVars, executorVars, TypeOK
  <2> QED  BY <1>4, <2>1, <2>2, <2>3
<1>5. CASE LookAtWindow \/ LookAtExecutor \/ RenderFrame \/ StopExecutor
  BY <1>5 DEF LookAtWindow, LookAtExecutor, RenderFrame, StopExecutor, Return, GoOn, serviceVars,
              executorVars, TypeOK
<1>6. ASSUME NEW s \in Services, NEW place \in Watching, NEW next \in Watching,
             LookAtService(s, place, next)
      PROVE  TypeOK'
  BY <1>6 DEF LookAtService, Return, GoOn, serviceVars, executorVars, TypeOK
<1>7. CASE Destroy \/ Exit \/ JoinWorkers
  <2>1. CASE Destroy
    BY <2>1 DEF Destroy, GoOn, serviceVars, TypeOK
  <2>2. CASE Exit
    BY <2>2 DEF Exit, GoOn, serviceVars, executorVars, TypeOK
  <2>3. CASE JoinWorkers
    BY <2>3 DEF JoinWorkers, Return, GoOn, serviceVars, TypeOK
  <2> QED  BY <1>7, <2>1, <2>2, <2>3
<1>8. ASSUME NEW s \in Services, RequestStop(s) \/ StopServer(s) \/ Join(s)
      PROVE  TypeOK'
  <2>1. CASE RequestStop(s)
    BY <2>1 DEF RequestStop, GoOn, executorVars, TypeOK
  <2>2. CASE StopServer(s)
    <3>1. accepting' \in [Services -> BOOLEAN]
      BY <2>2 DEF StopServer, TypeOK
    <3> QED  BY <2>2, <3>1 DEF StopServer, GoOn, executorVars, TypeOK
  <2>3. CASE Join(s)
    BY <2>3 DEF Join, GoOn, executorVars, TypeOK
  <2> QED  BY <1>8, <2>1, <2>2, <2>3
<1>9. ASSUME NEW s \in Services, Listen(s) \/ Breaks(s) \/ ListenerEnds(s)
      PROVE  TypeOK'
  <2>1. CASE Listen(s)
    BY <2>1 DEF Listen, executorVars, TypeOK
  <2>2. CASE Breaks(s)
    BY <2>2 DEF Breaks, executorVars, TypeOK
  <2>3. CASE ListenerEnds(s)
    BY <2>3 DEF ListenerEnds, executorVars, TypeOK
  <2> QED  BY <1>9, <2>1, <2>2, <2>3
<1>10. ASSUME NEW w \in Workers, Worker(w) PROVE TypeOK'
  <2>1. PICK from \in {"loop", "pump"}, to \in {"loop", "pump", "hung", "ended"} :
            MoveWorker(w, from, to)
    BY <1>10 DEF Worker, Pump, PumpReturns, PumpThrows, WorkerEnds
  <2>2. failed' \in BOOLEAN
    BY <1>10 DEF Worker, Pump, PumpReturns, PumpThrows, WorkerEnds, TypeOK
  <2>3. worker' \in [Workers -> {"none", "loop", "pump", "hung", "ended"}]
    BY <2>1 DEF MoveWorker, TypeOK
  <2> QED  BY <2>1, <2>2, <2>3 DEF MoveWorker, serviceVars, TypeOK
<1>11. CASE Over \/ UNCHANGED vars
  BY <1>11 DEF Over, vars, TypeOK
<1> QED
  BY <1>1, <1>2, <1>3, <1>4, <1>5, <1>6, <1>7, <1>8, <1>9, <1>10, <1>11
  DEF Next, MainStep, BeginDisplay, StartApi

\* Every reachable state of the process is well typed, for any options.
THEOREM SimulatorTypeCorrect == Spec => []TypeOK
  BY InitType, StepType, PTL DEF Spec

-----------------------------------------------------------------------------
(* The lifetimes of objects.                                                *)

\* As UsersOutlived, in every place of main; and the store and the engine are there
\* before anything that uses them is started.
Lifetimes ==
    /\ \A s \in Services : listener[s] \in {"created", "listening"} => UsedBy(s) \subseteq alive
    /\ \A w \in Workers : worker[w] \in {"loop", "pump", "hung"} => UsedByWorkers \subseteq alive
    /\ main \in {"start executor", "make workers", "start api"}
          => {"states", "monitor_engine"} \subseteq alive
    /\ main = "make workers" => "monitor_executor" \in alive

LEMMA InitLifetimes == Init => Lifetimes
  BY DEF Init, Lifetimes, Services

LEMMA StepLifetimes == TypeOK /\ Lifetimes /\ [Next]_vars => Lifetimes'
<1> SUFFICES ASSUME TypeOK, Lifetimes, [Next]_vars PROVE Lifetimes'
  OBVIOUS
<1> USE DEF Services, UsedBy, UsedByWorkers, executorVars
<1>0. alive \subseteq ObjectSet
  BY ObjectsDeclared DEF TypeOK
<1>1. CASE StartService("display", "begin display", "monitors")
  BY <1>1 DEF StartService, ObjectOf, Begin, Return, GoOn, Lifetimes, TypeOK
<1>2. CASE StartService("api", "start api", "look at window")
  BY <1>2 DEF StartService, ObjectOf, Begin, Return, GoOn, Lifetimes, TypeOK
<1>3. CASE SkipService("display", "begin display", "monitors")
           \/ SkipService("api", "start api", "look at window")
  BY <1>3 DEF SkipService, GoOn, serviceVars, Lifetimes
<1>4. CASE MakeMonitors
  BY <1>4 DEF MakeMonitors, Return, GoOn, serviceVars, Lifetimes
<1>5. CASE StartExecutor \/ (\E w \in Workers : MakeWorker(w)) \/ WorkersMade \/ WorkerNotMade
  <2>1. CASE StartExecutor \/ WorkersMade \/ WorkerNotMade
    BY <2>1 DEF StartExecutor, WorkersMade, WorkerNotMade, GoOn, serviceVars, Lifetimes
  <2>2. ASSUME NEW w \in Workers, MakeWorker(w) PROVE Lifetimes'
    BY <2>2 DEF MakeWorker, serviceVars, Lifetimes, TypeOK
  <2> QED  BY <1>5, <2>1, <2>2
<1>6. CASE LookAtWindow \/ LookAtExecutor \/ RenderFrame \/ StopExecutor
  BY <1>6 DEF LookAtWindow, LookAtExecutor, RenderFrame, StopExecutor, Return, GoOn, serviceVars,
              Lifetimes
<1>7. CASE LookAtService("api", "look at api", "look at display")
           \/ LookAtService("display", "look at display", "look at executor")
  BY <1>7 DEF LookAtService, Return, GoOn, serviceVars, Lifetimes
<1>8. CASE Destroy
  <2>1. CASE alive' = alive
    BY <1>8, <2>1 DEF Destroy, GoOn, serviceVars, Lifetimes
  <2>2. CASE alive' # alive
    <3>1. /\ alive # {} /\ Latest \in {"states", "monitor_engine", "status_api"}
          /\ alive' = alive \ {Latest}
          /\ main' = "destroy" /\ listener' = listener /\ worker' = worker
      BY <1>8, <2>2 DEF Destroy, GoOn, serviceVars
    <3>2. "http_server" \notin alive
      BY <1>0, <3>1, LatestObject
    <3>3. listener["api"] \notin {"created", "listening"}
      BY <3>2 DEF Lifetimes
    <3>4. \A w \in Workers : worker'[w] \in {"loop", "pump", "hung"} => UsedByWorkers \subseteq alive'
      <4>1. CASE Latest \in {"states", "monitor_engine"}
        <5>1. "monitor_executor" \notin alive
          BY <1>0, <3>1, <4>1, LatestObject
        <5> QED  BY <3>1, <5>1, <4>1 DEF Lifetimes
      <4>2. CASE Latest = "status_api"
        BY <3>1, <4>2 DEF Lifetimes
      <4> QED  BY <3>1, <4>1, <4>2
    <3>5. \A s \in Services : listener'[s] \in {"created", "listening"} => UsedBy(s) \subseteq alive'
      BY <3>1, <3>3 DEF Lifetimes
    <3> QED  BY <3>1, <3>4, <3>5 DEF Lifetimes
  <2> QED  BY <2>1, <2>2
<1>9. ASSUME NEW s \in Services, RequestStop(s) \/ StopServer(s)
      PROVE  Lifetimes'
  BY <1>9 DEF RequestStop, StopServer, GoOn, Lifetimes
<1>10. ASSUME NEW s \in Services, Join(s)
       PROVE  Lifetimes'
  BY <1>10 DEF Join, ObjectOf, GoOn, Lifetimes, TypeOK
<1>11. ASSUME NEW s \in Services, Listen(s) \/ Breaks(s) \/ ListenerEnds(s)
       PROVE  Lifetimes'
  BY <1>11 DEF Listen, Breaks, ListenerEnds, Lifetimes, TypeOK
<1>12. ASSUME NEW w \in Workers, Worker(w) PROVE Lifetimes'
  BY <1>12 DEF Worker, Pump, PumpReturns, PumpThrows, WorkerEnds, MoveWorker, serviceVars, Lifetimes,
               TypeOK
<1>13. CASE Exit \/ JoinWorkers
  BY <1>13 DEF Exit, JoinWorkers, Return, GoOn, serviceVars, Lifetimes
<1>14. CASE Over \/ UNCHANGED vars
  BY <1>14 DEF Over, vars, serviceVars, Lifetimes
<1> QED
  BY <1>1, <1>2, <1>3, <1>4, <1>5, <1>6, <1>7, <1>8, <1>9, <1>10, <1>11, <1>12, <1>13, <1>14
  DEF Next, MainStep, BeginDisplay, StartApi

\* No thread of a service and no worker ever reaches an object that is gone, on no
\* way out of main (the order of the declarations in main, and the stop that every
\* destructor calls).
THEOREM ObjectsOutliveUsers == Spec => []UsersOutlived
<1>1. Lifetimes => UsersOutlived
  BY DEF Lifetimes, UsersOutlived
<1> QED  BY <1>1, InitType, StepType, InitLifetimes, StepLifetimes, PTL DEF Spec

-----------------------------------------------------------------------------
(* The reason of an end.                                                    *)

\* The texts that are a reason.
Reason == {"unable to bind", "stopped unexpectedly"}

\* Where main stands once a service was begun and before anything is stopped.
After(s) == Watching \cup (IF s = "display" THEN Starting \ {"begin display"} ELSE {})

\* A service that main has begun and not stopped runs or has said why it does not;
\* its socket accepts unless it broke.
Begun(s) ==
    main \in After(s) /\ options[s] =>
        /\ is_running[s] \/ last_error[s] \in Reason
        /\ listener[s] \in {"created", "listening"} /\ ~accepting[s] => s \in broken

\* No service is told to stop before main leaves.
Unasked == main \in Starting \cup Watching => \A s \in Services : ~stop_requested[s]

Reasons == BlameHasReason /\ Unasked /\ \A s \in Services : Begun(s)

LEMMA InitReasons == Init => Reasons
  BY DEF Init, Reasons, BlameHasReason, Unasked, Begun, After, Starting, Watching, Services

LEMMA StepReasons == TypeOK /\ Reasons /\ [Next]_vars => Reasons'
<1> SUFFICES ASSUME TypeOK, Reasons, [Next]_vars PROVE Reasons'
  OBVIOUS
<1> USE DEF Services, After, Starting, Watching, Reason
<1>1. CASE StartService("display", "begin display", "monitors")
  <2>1. BlameHasReason' /\ Unasked'
    BY <1>1 DEF StartService, Begin, Return, GoOn, Reasons, BlameHasReason, Unasked, TypeOK
  <2>2. Begun("display")' /\ Begun("api")'
    BY <1>1 DEF StartService, Begin, Return, GoOn, Begun, TypeOK
  <2> QED  BY <2>1, <2>2 DEF Reasons
<1>2. CASE StartService("api", "start api", "look at window")
  <2>1. BlameHasReason' /\ Unasked'
    BY <1>2 DEF StartService, Begin, Return, GoOn, Reasons, BlameHasReason, Unasked, TypeOK
  <2>2. Begun("display")' /\ Begun("api")'
    <3>1. CASE main' \notin Watching
      BY <1>2, <3>1 DEF StartService, Return, GoOn, Begun
    <3>2. CASE main' \in Watching
      <4>1. /\ UNCHANGED <<last_error, options, broken>>
            /\ Begin("api") /\ main = "start api"
            /\ listener'["display"] = listener["display"]
        BY <1>2, <3>2 DEF StartService, Return, GoOn, TypeOK
      <4>2. Begun("api")'
        BY <4>1 DEF Begin, Begun, TypeOK
      <4>3. Begun("display")'
        BY <4>1 DEF Begin, Begun, Reasons, TypeOK
      <4> QED  BY <4>2, <4>3
    <3> QED  BY <3>1, <3>2
  <2> QED  BY <2>1, <2>2 DEF Reasons
<1>3. CASE SkipService("display", "begin display", "monitors")
           \/ SkipService("api", "start api", "look at window")
  BY <1>3 DEF SkipService, GoOn, serviceVars, Reasons, BlameHasReason, Unasked, Begun
<1>4. CASE MakeMonitors \/ StartExecutor \/ (\E w \in Workers : MakeWorker(w))
           \/ WorkersMade \/ WorkerNotMade
  BY <1>4 DEF MakeMonitors, StartExecutor, MakeWorker, WorkersMade, WorkerNotMade, Return, GoOn,
              serviceVars, Reasons, BlameHasReason, Unasked, Begun
<1>5. CASE LookAtWindow \/ LookAtExecutor \/ RenderFrame \/ StopExecutor
  BY <1>5 DEF LookAtWindow, LookAtExecutor, RenderFrame, StopExecutor, Return, GoOn, serviceVars,
              Reasons, BlameHasReason, Unasked, Begun
<1>6. CASE LookAtService("api", "look at api", "look at display")
           \/ LookAtService("display", "look at display", "look at executor")
  BY <1>6 DEF LookAtService, Return, GoOn, serviceVars, Reasons, BlameHasReason, Unasked, Begun
<1>7. CASE Destroy \/ Exit \/ JoinWorkers
  BY <1>7 DEF Destroy, Exit, JoinWorkers, Return, GoOn, serviceVars, Reasons, BlameHasReason,
              Unasked, Begun
<1>8. ASSUME NEW s \in Services, RequestStop(s) \/ StopServer(s) \/ Join(s)
      PROVE  Reasons'
  <2>1. main' \in {"stop server", "join", "destroy"}
    BY <1>8 DEF RequestStop, StopServer, Join, GoOn
  <2>2. Unasked' /\ \A t \in Services : Begun(t)'
    BY <2>1 DEF Unasked, Begun
  <2>3. blamed' = blamed
    BY <1>8 DEF RequestStop, StopServer, Join, GoOn
  <2>4. \A t \in Services : last_error[t] \in Reason => last_error'[t] = last_error[t]
    BY <1>8 DEF RequestStop, StopServer, Join, TypeOK
  <2>5. BlameHasReason'
    BY <2>3, <2>4 DEF Reasons, BlameHasReason
  <2> QED  BY <2>2, <2>5 DEF Reasons
<1>9. ASSUME NEW s \in Services, Listen(s) \/ Breaks(s)
      PROVE  Reasons'
  <2>1. /\ UNCHANGED <<main, options, is_running, stop_requested, last_error, blamed>>
        /\ broken \subseteq broken'
    BY <1>9 DEF Listen, Breaks
  <2>2. BlameHasReason' /\ Unasked'
    BY <2>1 DEF Reasons, BlameHasReason, Unasked
  <2>3. CASE Listen(s)
    <3>1. \A t \in Services : Begun(t)'
      BY <2>1, <2>3 DEF Listen, Reasons, Begun, TypeOK
    <3> QED  BY <2>2, <3>1 DEF Reasons
  <2>4. CASE Breaks(s)
    <3>1. /\ s \in broken' /\ listener' = listener
          /\ \A t \in Services \ {s} : accepting'[t] = accepting[t]
      BY <2>4 DEF Breaks, TypeOK
    <3>2. \A t \in Services : Begun(t)'
      BY <2>1, <3>1 DEF Reasons, Begun
    <3> QED  BY <2>2, <3>2 DEF Reasons
  <2> QED  BY <1>9, <2>3, <2>4
<1>10. ASSUME NEW s \in Services, ListenerEnds(s)
       PROVE  Reasons'
  <2>1. BlameHasReason' /\ Unasked'
    BY <1>10 DEF ListenerEnds, Reasons, BlameHasReason, Unasked, TypeOK
  <2>2. Begun(s)'
    BY <1>10 DEF ListenerEnds, Reasons, Unasked, Begun, TypeOK
  <2>3. ASSUME NEW t \in Services \ {s} PROVE Begun(t)'
    BY <1>10 DEF ListenerEnds, Reasons, Begun, TypeOK
  <2> QED  BY <2>1, <2>2, <2>3 DEF Reasons
<1>11. ASSUME NEW w \in Workers, Worker(w) PROVE Reasons'
  BY <1>11 DEF Worker, Pump, PumpReturns, PumpThrows, WorkerEnds, MoveWorker, serviceVars, Reasons,
               BlameHasReason, Unasked, Begun
<1>12. CASE Over \/ UNCHANGED vars
  BY <1>12 DEF Over, vars, Reasons, BlameHasReason, Unasked, Begun
<1> QED
  BY <1>1, <1>2, <1>3, <1>4, <1>5, <1>6, <1>7, <1>8, <1>9, <1>10, <1>11, <1>12
  DEF Next, MainStep, BeginDisplay, StartApi

\* Whenever main leaves because of a service there is a reason to show, until the
\* process ends (the lock of the listening thread's end, last_error of both services,
\* and what HttpDisplayDriver::stop leaves of it).
THEOREM EveryBlameExplained == Spec => []BlameHasReason
<1>1. Reasons => BlameHasReason
  BY DEF Reasons
<1> QED  BY <1>1, InitType, StepType, InitReasons, StepReasons, PTL DEF Spec

\* Only a start and the end of a listening thread give a reason, and neither does
\* once the service was told to stop; the join has its remark for those without one.
LEMMA ReasonKept ==
    ASSUME TypeOK, Unasked, [Next]_vars, NEW s \in Services, stop_requested[s]
    PROVE  \/ last_error'[s] = last_error[s]
           \/ last_error[s] = "none" /\ last_error'[s] = "stopped"
<1>1. CASE BeginDisplay \/ StartApi
  BY <1>1 DEF BeginDisplay, StartApi, StartService, SkipService, Unasked, Starting, serviceVars
<1>2. CASE \/ MakeMonitors \/ StartExecutor \/ (\E w \in Workers : MakeWorker(w))
           \/ WorkersMade \/ WorkerNotMade \/ StopExecutor \/ JoinWorkers \/ Destroy \/ Exit
  BY <1>2 DEF MakeMonitors, StartExecutor, MakeWorker, WorkersMade, WorkerNotMade, StopExecutor,
              JoinWorkers, Destroy, Exit, serviceVars
<1>3. CASE \/ LookAtWindow \/ LookAtExecutor \/ RenderFrame
           \/ LookAtService("api", "look at api", "look at display")
           \/ LookAtService("display", "look at display", "look at executor")
  BY <1>3 DEF LookAtWindow, LookAtExecutor, RenderFrame, LookAtService, serviceVars
<1>4. ASSUME NEW t \in Services, RequestStop(t) \/ StopServer(t) \/ Join(t)
      PROVE  \/ last_error'[s] = last_error[s]
             \/ last_error[s] = "none" /\ last_error'[s] = "stopped"
  BY <1>4 DEF RequestStop, StopServer, Join, TypeOK
<1>5. ASSUME NEW t \in Services, Listen(t) \/ Breaks(t) \/ ListenerEnds(t)
      PROVE  last_error'[s] = last_error[s]
  <2>1. CASE Listen(t) \/ Breaks(t)
    BY <2>1 DEF Listen, Breaks
  <2>2. CASE ListenerEnds(t) /\ t = s
    BY <2>2 DEF ListenerEnds
  <2>3. CASE ListenerEnds(t) /\ t # s
    BY <2>3 DEF ListenerEnds, TypeOK
  <2> QED  BY <1>5, <2>1, <2>2, <2>3
<1>6. CASE (\E w \in Workers : Worker(w)) \/ Over \/ UNCHANGED vars
  BY <1>6 DEF Worker, Pump, PumpReturns, PumpThrows, WorkerEnds, MoveWorker, serviceVars, Over, vars
<1> QED  BY <1>1, <1>2, <1>3, <1>4, <1>5, <1>6 DEF Next, MainStep

\* A service that was told to stop keeps its reason: its thread's end, late or after a
\* failed accept, is not reported any more, and what was reported is not overwritten
\* (stop_requested under the mutex in both services, and the end of
\* HttpDisplayDriver::stop).
THEOREM StopsAreNoFailures == Spec => StopKeepsReason
<1> DEFINE Kept == \A s \in Services : stop_requested[s] =>
                      \/ last_error'[s] = last_error[s]
                      \/ last_error[s] = "none" /\ last_error'[s] = "stopped"
<1>1. TypeOK /\ Reasons /\ [Next]_vars => [Kept]_vars
  BY ReasonKept DEF Reasons
<1>2. Spec => [][Kept]_vars
  BY <1>1, InitType, StepType, InitReasons, StepReasons, PTL DEF Spec
<1> QED  BY <1>2 DEF StopKeepsReason
=============================================================================
