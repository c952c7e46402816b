CONSTANTS
    k1 = k1
    k2 = k2
    i1 = i1
    i2 = i2
    Keys <- MCKeys
    Ids <- MCIds
    Models <- MCModels
    Drawdowns <- MCDrawdowns
    TpLevels <- MCTpLevels
    MaxPapers = 2
    StaleLimit = 1
SPECIFICATION Spec
INVARIANTS
    MemoryMatchesRows
    ProfitOnce
    LadderBacked
PROPERTIES
    PaperEnds
