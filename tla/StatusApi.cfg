SPECIFICATION Spec
CONSTANTS
    h1 = h1
    h2 = h2
    monitored = monitored
    pushed = pushed
    other = other
    Handlers <- MCHandlers
    Ids = {monitored, pushed, other}
    Monitors <- MCMonitors
    Seeded = {}
    Statuses = {"unknown", "ok"}
    Ttls <- NoTtl
    Requests <- Mixed
    MaxStates = 1
    MaxTime = 1
INVARIANTS StoreBounded CreatedOnce
PROPERTIES PushEchoed
