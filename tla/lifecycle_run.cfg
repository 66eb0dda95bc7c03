CONSTANTS
    Clients = {c1, c2}
    Main = main
    Nobody = nobody
    Budget <- Pauses
    MaxRequests = 3
    ToolModes = {}
    BuildsFail = FALSE
    MaxRunners = 2
    MaxLoops = 2
    MaxRounds = 2
    MaxCrashes = 1
SPECIFICATION Spec
SYMMETRY ClientSymmetry
INVARIANTS PauseHolds NoPhantomRun
PROPERTIES RoundsMonotone
CHECK_DEADLOCK FALSE
