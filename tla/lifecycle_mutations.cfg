CONSTANTS
    Clients = {c1, c2}
    Main = main
    Nobody = nobody
    Budget <- Mutations
    MaxRequests = 2
    ToolModes = {"plan"}
    BuildsFail = TRUE
    MaxRunners = 3
    MaxLoops = 2
    MaxRounds = 1
    MaxCrashes = 0
SPECIFICATION FairSpec
PROPERTIES OneRegistered EverythingEnds
CHECK_DEADLOCK FALSE
