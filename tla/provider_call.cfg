SPECIFICATION FairSpec
CONSTANTS
    c1 = c1
    c2 = c2
    CallIds = {c1, c2}
    Adapters = {"anthropic", "openai", "ollama", "genai"}
    Services = {"tei", "gcpranking", "zerank", "tei embed", "openai embed", "ollama embed", "genai embed"}
    Requests <- MCRequests
    MaxAttempts = 2
    MaxFragments = 2
    MaxEvents = 6
    Candidates = 3
    BatchSize = 2
    Prompts = {0, 4, 30}
    Predicted = {2, 8}
    Budget = 16
    Window = 1
    MaxCrashes = 1
INVARIANTS RequestSound WholeCalls NoReplay Aligned ScaleDurable
PROPERTIES CancelReturns
