CONSTANTS
  noTimestamp = noTimestamp
  NoTimestamp <- MC_NoTimestamp
  U32Modulus = 16
  FiveMinutes = 3
  MaxSeconds = 17
SPECIFICATION Spec
INVARIANTS
  MatchesSpecWindow
