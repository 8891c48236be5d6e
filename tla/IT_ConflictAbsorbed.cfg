CONSTANTS
  f1 = f1
  nb = nb
  Foreign <- MC_Foreign
  NoBlock <- MC_NoBlock
  MaxAttempts = 3
SPECIFICATION Spec
INVARIANTS
  ConflictAbsorbed
CHECK_DEADLOCK FALSE
