--------------------------- MODULE MCNetEdgeChain ---------------------------
\* Two labels and two units, each the other one padded with a blank.
EXTENDS NetEdgeChain
=============================================================================
