SPECIFICATION FairSpec
CONSTANTS
    black = black
    green = green
    tab = tab
    Pages <- OnePage
    Pictures <- MCPictures
    Black = black
    MaxSequence = 3
    MaxBoots = 2
    MaxFaults = 2
INVARIANTS VisiblePagePolls FramesAccounted
PROPERTIES FramesMoveForward PageCatchesUp
