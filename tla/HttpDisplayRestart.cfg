SPECIFICATION Spec
CONSTANTS
    black = black
    green = green
    tab = tab
    Pages <- OnePage
    Pictures <- MCPictures
    Black = black
    MaxSequence = 1
    MaxBoots = 2
    MaxFaults = 0
INVARIANTS NotModifiedMeansShown
