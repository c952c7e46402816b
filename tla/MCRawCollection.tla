--------------------------- MODULE MCRawCollection ---------------------------
(* Two cycles of the scheduler over two bodies, which either leg may get,  *)
(* and three calls of the raw capture: enough for a repeated body within   *)
(* and across cycles, a second capture of a source between the two reads   *)
(* of an ingestion, and a budget that is used up.                          *)
EXTENDS RawCollection
=============================================================================
