SPECIFICATION FairSpec
CONSTANTS
    Configs <- MCConfigs
    Bytes = {"a", "b"}
    BufferBytes = 2
    MaxAddresses = 2
    MaxResolve = 3
    MaxStream = 4
INVARIANTS ExactAnswer FailuresAreReal DeadlineShared
PROPERTIES RunEnds
