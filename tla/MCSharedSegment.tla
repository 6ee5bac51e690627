--------------------------- MODULE MCSharedSegment ---------------------------
(* Model-checking instances of SharedSegment.                               *)
EXTENDS SharedSegment, TLC

MCGeometry == 1 :> 1 @@ 2 :> 2   \* a leftover segment grows or shrinks
MCRuns == 1 :> 2 @@ 2 :> 1

=============================================================================
