SPECIFICATION Spec
CONSTANTS
    Positions = {"held"}
    WindowOf <- MCWindowOf
    EdgeOf <- MCEdgeOf
    AskOf <- MCAskOf
    QuantityOf <- MCQuantityOf
    FeeRate = 10
    Simple <- MCSimple
    Bids <- MCBids
    Fairs = {60}
    MaxStarts = 2
    MaxPolls <- MCMaxPolls
INVARIANTS LegsAddUp FillFollowsTrigger RestartForgetsNothing
CHECK_DEADLOCK FALSE
