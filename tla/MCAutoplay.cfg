SPECIFICATION FairSpec
CONSTANTS
    Backends = {"thread", "player"}
    loopMode = 1
    MaxStarts = 2
    MaxPending = 1
INVARIANTS TypeOK DecidesForOwnSong OneAdvance NextIsComing
PROPERTIES StaysStopped GoesOn

