-------------------------- MODULE MCArafResolution --------------------------
(* An order that two trades may fill, one that a trade fills in part, one without an id. *)
EXTENDS ArafResolution
MCQueue == <<"b", "a", "c">>
MCUnnamed == {"b"}
MCTrades == {[id |-> 1, order |-> "a", role |-> "taker", size |-> 1, price |-> 4],
             [id |-> 2, order |-> "a", role |-> "taker", size |-> 1, price |-> 5],
             [id |-> 3, order |-> "c", role |-> "maker", size |-> 1, price |-> 5]}
=============================================================================
