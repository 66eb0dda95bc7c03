CONSTANTS
    Calls = {"a", "b", "c"}
    NoCall = nocall
    Ids <- AllIds
    NoId = noid
    Users = {u1, u2}
    Verdicts <- AllVerdicts
    MaxVerdicts = 2
    Reasons = TRUE
    Scripts <- AllScripts
    Sandboxed = {"s"}
    Workspace <- Spaces
    Cwd <- Project
    PlanDir <- Plans
    Hooks <- HookList
    Files <- OnDisk
    Payload <- Payloads
    Nothing = nothing
SPECIFICATION FairToolSpec
INVARIANTS FirstVerdict Registered GatedEffects ResultsMatch
PROPERTIES NoClobber CallsReturn
CHECK_DEADLOCK FALSE
