CONSTANTS
    Malformed = malformed
    Absent = absent
    Torn = torn
    Capabilities <- Adapters
    Producers = {p1, p2}
    Reloaders = {x1, x2}
    Nobody = nobody
    Workers = {w1}
    Buffer = 1
    Plans <- AllPlans
    MaxReloads = 3
    MaxMessages = 2
SPECIFICATION FairSpec
INVARIANTS NothingLost Consistent SettingsKept
PROPERTIES QueuesEnd
CHECK_DEADLOCK FALSE
