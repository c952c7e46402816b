--------------------------- MODULE MCClobExecutor ---------------------------
(* Instances of ClobExecutor small enough for TLC. *)
EXTENDS ClobExecutor, TLC

CONSTANTS i1, i2, t1, t2

MCIntents == {i1, i2}
MCTokens  == {t1, t2}

(* Intents and tokens are uuids and opaque ids: neither has an order. *)
Symmetry == Permutations(MCIntents) \cup Permutations(MCTokens)
===========================================================================
