SPECIFICATION Spec
CONSTANTS
    BufferSize = 1
    Root = root
    Spare = {new}
    Requests = {1, 2, 3}
    Settings = {open, sandboxed}
    Initial = open
    None = none
    FileNames <- MCFiles
    Sizes = {1, 3}
    Limit = 2
    MaxName = 4
    Reserved <- MCReserved
    MaxPositions = 4
    Scripts <- MCScripts
INVARIANTS
    RunnerCurrent
    BranchWhole
    Fanout
    AttachmentsKept
CHECK_DEADLOCK FALSE
