SPECIFICATION FairSpec
CONSTANTS
    Songs = {"SOX", "MEDIAPLAYER"}
    Commands = {"play", "pause", "seek", "stop"}
    Threads = {t1, t2}
    t1 = t1
    t2 = t2
    MaxAccidents = 7
CHECK_DEADLOCK FALSE
PROPERTIES
    HandlersReturn
    StopEnds
