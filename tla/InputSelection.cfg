CONSTANTS
  a1 = a1
  a2 = a2
  o1 = o1
  o2 = o2
  o3 = o3
  Addresses <- MC_Addresses
  Outputs <- MC_Outputs
  Amounts = {1, 2}
  MaxAmount = 5
  MaxAddresses = 2
  InputCountMax = 2
SPECIFICATION Spec
INVARIANTS
  SuccessMeetsSpec
  SelectionIsOptimal
CHECK_DEADLOCK FALSE
