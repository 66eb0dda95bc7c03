SPECIFICATION Spec
CONSTANTS
    M = 2
    EfConstr = 2
    t1 = t1
    t2 = t2
    None = None
    Threads = {t1, t2}
    Messages = {1, 2, 3}
    Text <- MCText
    MaxChars = 4
    OverlapChars = 1
    SampleBytes <- MCSampleBytes
    SampleLength = 5
    Code <- MCCode
    Score <- MCScore
    QueryCode = {1}
    Embedders <- MCEmbedders
    Draws <- MCDraws
    Stores <- MCStores
    Overfetch = 1
    Ef = 1
    SearchOverfetch = 1
    MinShortlist = 3
    RandomFetch = 1
    RandomCap = 2
    MaxBuilds = 2
    MaxCrashes = 1
    MaxDeletes = 1
INVARIANTS IndexSound IndexCurrent RetrievalSound
CHECK_DEADLOCK FALSE
