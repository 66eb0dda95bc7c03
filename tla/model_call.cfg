CONSTANTS
    Corpora <- AllCorpora
    LocalSize = 2
    Budget = 7
    Fixed = 1
    Strengths = {0, 3, 9}
    Certain = 9
    Stance = 1
SPECIFICATION CallFairSpec
INVARIANTS WireClosed CallSound
PROPERTIES CallEnds
CHECK_DEADLOCK FALSE
