SPECIFICATION Spec
CONSTANTS
    Limit <- MCLimit
    UnitLength <- MCUnits
    MaxRep = 9
    MaxChannel = 8
    AsLongDouble <- Exact
    Secrets <- MCSecrets
    Tls = FALSE
    Icmp = FALSE
    ClockWidth = 3
    ClockHeight = 2
    MaxEpoch = 3
    Cases <- MCCases
    Sources <- MCSources
    Values <- MCValues
INVARIANTS
    FirstMatchWins
    ThresholdsFollowTheLine
    AcceptedWorks
    NothingDropped
    DeckFollowsSchedule
    AnimationFollowsSteps
CHECK_DEADLOCK FALSE
