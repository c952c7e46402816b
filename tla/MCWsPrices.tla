----------------------------- MODULE MCWsPrices -----------------------------
(* Instances of WsPrices small enough for TLC. *)
EXTENDS WsPrices

CONSTANTS t1, t2, t3

MCTokens == {t1, t2, t3}
=============================================================================
