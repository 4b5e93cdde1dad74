SPECIFICATION Spec
CONSTANTS
    h1 = h1
    h2 = h2
    monitored = monitored
    pushed = pushed
    other = other
    Handlers <- MCHandlers
    Ids = {pushed}
    Monitors <- MCNone
    Seeded = {}
    Statuses = {"unknown", "ok", "fail"}
    Ttls <- TwoTtl
    Requests <- Refreshes
    MaxStates = 2
    MaxTime = 4
PROPERTIES RefreshStartsEpoch
