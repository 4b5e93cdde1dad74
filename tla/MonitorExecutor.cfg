SPECIFICATION FairExecutorSpec
CONSTANTS
    AsLongDouble <- Exact
    p1 = p1
    p2 = p2
    Monitors <- MCMonitors
    Others = {}
    Pumps <- TwoThreads
    Statuses <- MCStatuses
    Interval <- MCInterval
    Ttl <- MCTtl
    Policy <- MCPolicy
    FirstDue <- MCFirstDue
    Seeded = {1}
    Results <- MCResults
    MaxRuns = 1
    MonitorLimit = 2
    TicksPerMs = 1
    MaxTime = 1
    Options <- MCOptions
    MaxWorkers = 8
    Hanging = {1}
    MaxStarts = 2
INVARIANTS StoppedMeansQuiet FailureIsExplained BoundedConcurrency
PROPERTIES ImplementsEngine StopCompletes FailureEndsWorkers OthersKeepRunning
