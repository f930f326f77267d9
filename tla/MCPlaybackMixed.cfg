SPECIFICATION Spec
CONSTANTS
    Songs = {"TIMIDITY", "SOX", "MEDIAPLAYER"}
    Commands = {"play", "pause", "seek", "stop"}
    Threads = {t1, t2}
    t1 = t1
    t2 = t2
    MaxAccidents = 2
CHECK_DEADLOCK FALSE
SYMMETRY ThreadSymmetry
CONSTRAINT FewAccidents
INVARIANTS
    SingleThread
    StateIsTrue
    StopIsKept
    NeverFrozen
