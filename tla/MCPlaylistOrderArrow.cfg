SPECIFICATION Spec
CONSTANTS
    a = a
    b = b
    c = c
    d = d
    NoSong = NoSong
    Crashed = Crashed
    Lists <- ThreeAndOne
    MaxPending = 2
PROPERTY StraightArrow
CONSTRAINT OneSlip
CHECK_DEADLOCK FALSE
