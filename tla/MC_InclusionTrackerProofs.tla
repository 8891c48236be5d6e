---------------------- MODULE MC_InclusionTrackerProofs ----------------------
(* Checks the inductive invariant of InclusionTrackerProofs with TLC.      *)
EXTENDS InclusionTrackerProofs

CONSTANTS f1, nb

MC_Foreign == {f1}
MC_NoBlock == nb
=============================================================================
