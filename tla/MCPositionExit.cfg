\* Two positions of 100 shares.  A sale of 49 is partial, twice it leaves 2, and
\* a sale of 98 is a full close that leaves 2 unsold.  A request and the stream
\* may price a resolution differently: at 0 or 3, at 0 or 4.
CONSTANTS
    p1 = p1
    p2 = p2
    Positions <- MCPositions
    NoPosition = NoPosition
    Initial = 100
    SellSizes <- MCSellSizes
    Prices <- MCPrices
    Payouts <- MCPayouts
    Whole = 4
SPECIFICATION Spec
SYMMETRY Symmetry
INVARIANTS
    NothingOrphaned
    ClosedMeansGone
    BooksMatchCash
PROPERTIES
    ClosedIsFinal
