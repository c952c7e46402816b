---------------------------- MODULE MCEntryGates ----------------------------
(* Instances of EntryGates small enough for TLC. *)
EXTENDS EntryGates

MCResults == {-1}
=============================================================================
