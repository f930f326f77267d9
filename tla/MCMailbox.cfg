SPECIFICATION FairSpec
CONSTANTS
    MaxPosts = 4
    Kinds = {"jump", "toggle", "stop"}
INVARIANTS
    TypeOK
PROPERTIES
    RefinesSlot
    InOrder
    ReadyMeansTaken
    ArgAge
    WaitEnds
