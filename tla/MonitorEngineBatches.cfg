SPECIFICATION Spec
CONSTANTS
    AsLongDouble <- Exact
    p1 = p1
    p2 = p2
    Monitors <- MCMonitors
    Others = {}
    Pumps <- MCPumps
    Statuses <- MCStatuses
    Interval <- MCInterval
    Ttl <- MCTtl
    Policy <- MCPolicy
    FirstDue <- MCFirstDue
    Seeded = {}
    Results <- MCResults
    MaxRuns = 2
    MonitorLimit = 3
    TicksPerMs = 2
    MaxTime = 3
SYMMETRY Symmetry
INVARIANTS ClaimsMatchFlags InPhase NothingFromTheFuture
PROPERTIES ClaimAdvancesPastNow ObservationsInOrder PassedAtMostOnce
