CONSTANTS
    MaxOpen = 1
    MaxTrades = 2
    NoFillLimit = 2
    MinSubmissions = 2
    FloorInverse = 2
    LossInverse = 1
    BustInverse = 2
    StreakLimit = 6
    Equities = {1, 2}
    Results <- MCResults
    Findings = 2
    MaxDay = 1
    MaxSum = 1
    MaxHidden = 1
SPECIFICATION Spec
INVARIANTS
    CapHolds
PROPERTIES
    KnownLossStops
    PauseReachesScan
    FlattenServed
