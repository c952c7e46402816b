CONSTANTS
    t1 = t1
    t2 = t2
    t3 = t3
    Tokens <- MCTokens
    MaxBreaks = 2
SPECIFICATION WSSpec
INVARIANTS
    ServerMatches
    OnlyBatchesAreLost
PROPERTIES
    WantedIsStreamed
