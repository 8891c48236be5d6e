--------------------------- MODULE MC_InputSelection ---------------------------
EXTENDS InputSelection

CONSTANTS a1, a2, o1, o2, o3

MC_Addresses == {a1, a2}
MC_Outputs == {o1, o2, o3}
=============================================================================
