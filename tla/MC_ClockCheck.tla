---------------------------- MODULE MC_ClockCheck ----------------------------
(* ClockCheck with 4-bit "u32" values and a window of 3 seconds, so that   *)
(* both ends of the range overflow and the clock passes 2^width.           *)
EXTENDS ClockCheck

CONSTANTS noTimestamp

MC_NoTimestamp == noTimestamp
=============================================================================
