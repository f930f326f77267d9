SPECIFICATION Spec
CONSTANTS
    a = a
    b = b
    c = c
    d = d
    NoSong = NoSong
    Crashed = Crashed
    Lists <- ThreeAndOne
    MaxPending = 2
INVARIANTS TypeOK OrderInv CurrentIsReal NoCrash ShownIsOrder
PROPERTIES HeardIsSelected KeepsPromise
CONSTRAINT OneSlip
CHECK_DEADLOCK FALSE
