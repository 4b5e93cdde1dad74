SPECIFICATION Spec
CONSTANTS
    Configs <- WinHttpOnly
    Bytes = {"a"}
    BufferBytes = 2
    MaxAddresses = 1
    MaxResolve = 0
    MaxStream = 3
INVARIANTS OverallTimeout
