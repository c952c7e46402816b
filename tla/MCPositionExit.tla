--------------------------- MODULE MCPositionExit ---------------------------
(* Instances of PositionExit small enough for TLC. *)
EXTENDS PositionExit, TLC

CONSTANTS p1, p2

MCPositions == {p1, p2}
MCSellSizes == {49, 98}
MCPrices    == {2}
MCPayouts   == {0, 3}

(* Positions are uuids: they have no order. *)
Symmetry == Permutations(MCPositions)
=============================================================================
