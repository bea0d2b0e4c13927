---------------------------- MODULE MCWriteIter ----------------------------
(* Containers for checking the write iterator (see DTShapeSets).           *)
EXTENDS WriteIter, DTShapeSets

=============================================================================
