SPECIFICATION FairSpec
CONSTANTS
    Backends = {"thread", "player"}
    loopMode = 1
    MaxStarts = 1
    MaxPending = 2
PROPERTY PlaylistLoops
