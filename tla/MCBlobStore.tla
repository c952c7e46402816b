----------------------------- MODULE MCBlobStore -----------------------------
(* Two processes that store one blob or two of the same shards.            *)
EXTENDS BlobStore, TLC
CONSTANTS p, q, x, y
MCProcs == {p, q}
MCBlobs == {x, y}
Symmetry == Permutations(MCProcs) \cup Permutations(MCBlobs)
=============================================================================
