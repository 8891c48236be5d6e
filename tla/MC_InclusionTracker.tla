------------------------- MODULE MC_InclusionTracker -------------------------
(* Small instance of InclusionTracker for TLC.                             *)
EXTENDS InclusionTracker

CONSTANTS f1, nb

MC_Foreign == {f1}
MC_NoBlock == nb
=============================================================================
