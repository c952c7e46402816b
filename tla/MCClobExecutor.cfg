\* Two intents on two tokens: both on one token, or one on each.  Requested 3
\* and Dust 1 give a partial fill (1), a fill within the dust (2) and a full
\* fill (3).
CONSTANTS
    i1 = i1
    i2 = i2
    t1 = t1
    t2 = t2
    Intents <- MCIntents
    Tokens <- MCTokens
    NoIntent = NoIntent
    NoToken = NoToken
    Requested = 3
    Dust = 1
SPECIFICATION Spec
SYMMETRY Symmetry
INVARIANTS
    MoneyIsAccounted
    RowIffOpen
    OneInDoubtPerToken
    WriteAhead
    MemoryIsBacked
    TripIsAudited
PROPERTIES
    TerminalIsFinal
    PauseStopsOrders
    ImplementsLedger
