--------------------------- MODULE MCPaperTracker ---------------------------
(* Instances of PaperTracker small enough for TLC. *)
EXTENDS PaperTracker

CONSTANTS k1, k2, i1, i2

MCKeys == {k1, k2}
MCIds == {i1, i2}
MCModels == {"mfe_breakeven"}
MCDrawdowns == {-46, 20}
MCTpLevels == {20}
=============================================================================
