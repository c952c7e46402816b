CONSTANTS
    Queue <- MCQueue
    Unnamed <- MCUnnamed
    Trades <- MCTrades
    Target = 2
SPECIFICATION ARSpec
INVARIANTS FilledIsProven ZeroFillSound
