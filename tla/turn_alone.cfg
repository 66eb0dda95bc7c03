CONSTANTS
    Runner = runner
    NoCall = nocall
    Writers = {}
    Calls = {c1, c2}
    Recycled = {}
    ZeroTextBlocks = FALSE
    ReadsFail = FALSE
    MaxTurns = 2
    MaxSeq = 4
    MaxBlocks = 2
    MaxNotes = 0
    MaxCrashes = 1
SPECIFICATION Spec
CHECK_DEADLOCK FALSE
SYMMETRY CallSymmetry
INVARIANTS
    ProtocolClosed
    TurnSettled
    RowsSound
PROPERTIES
    ShownResultDurable
    ImplementsThreadLog
