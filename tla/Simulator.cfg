SPECIFICATION FairSpec
CONSTANTS
    Options <- MCOptions
    EarlyStopLost = TRUE
    w1 = w1
    w2 = w2
    Workers <- MCWorkers
    RunnersHang = TRUE
INVARIANTS UsersOutlived BlameHasReason
PROPERTIES StopKeepsReason ProcessEnds
