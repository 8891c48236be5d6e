CONSTANTS
  t1 = t1
  t2 = t2
  o1 = o1
  o2 = o2
  o3 = o3
  o4 = o4
  x1 = x1
  x2 = x2
  noTask = noTask
  Tasks <- MC_Tasks
  Outputs <- MC_Outputs
  Txs <- MC_Txs
  Genesis <- MC_Genesis
  Produced <- MC_Produced
  NoTask = noTask
  MinSyncInterval = 1
  MaxTime = 1
  TimeModulus = 16
  ConsolidationThreshold = 2
  AutoConsolidate = TRUE
SPECIFICATION Spec
INVARIANT SyncRespectsInterval
CHECK_DEADLOCK FALSE
