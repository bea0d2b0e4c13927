----------------------------- MODULE MCPartIter -----------------------------
(* Containers for checking the partition write iterator.                   *)
EXTENDS PartIter, DTShapeSets

=============================================================================
