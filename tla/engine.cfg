SPECIFICATION Spec
CONSTANTS
    Messages = {1, 2, 3, 4, 5}
    Unit = 4
    Loss = 2
    Beat = 3
    Cap = 2
    t1 = t1
    t2 = t2
    None = None
    Raws = {1, 3}
    Similar <- MCSimilar
    Floors <- MCFloors
    Histories <- MCHistories
    RerankTopK = 2
    MaxSelections = 2
    MaxRestarts = 1
    MaxDeletes = 1
INVARIANTS MassExact SelectionExact GenerationOrdered
CHECK_DEADLOCK FALSE
