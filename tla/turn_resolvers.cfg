CONSTANTS
    Runner = runner
    NoCall = nocall
    Writers = {w1}
    Calls = {c1}
    Recycled = {}
    ZeroTextBlocks = FALSE
    ReadsFail = TRUE
    MaxTurns = 2
    MaxSeq = 3
    MaxBlocks = 0
    MaxNotes = 1
    MaxCrashes = 0
SPECIFICATION FairSpec
CHECK_DEADLOCK FALSE
PROPERTIES
    StopReturns
