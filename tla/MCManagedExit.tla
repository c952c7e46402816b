---------------------------- MODULE MCManagedExit ----------------------------
\* Admitted positions do not interact, so one is followed in depth; its last
\* tranche is twice the others.
EXTENDS ManagedExit
MCWindowOf == [p \in Positions |-> 1]
MCEdgeOf == [p \in Positions |-> IF p = "held" THEN 1 ELSE 2]
MCAskOf == [p \in Positions |-> 50]
MCQuantityOf == [p \in Positions |-> 4]
MCSimple == <<"TIME_STOP_T120", "MODEL_PREMIUM_EXIT">>
MCMaxPolls == [p \in Positions |-> 4]
Bid(price, size) == [price |-> price, size |-> size]
MCBids == {Bid(50, 0), Bid(64, 4), Bid(75, 1)}
=============================================================================
