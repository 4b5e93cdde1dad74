SPECIFICATION FairSpec
CONSTANTS
    Side = 2
    BlockSize = 2
    Pictures <- MCPictures
    Options <- MCOptions
    MaxSequence = 2
    MaxFaults = 2
INVARIANTS PanelShowsFrame HeartbeatHonest
PROPERTIES MirrorsTheSource PanelCatchesUp
