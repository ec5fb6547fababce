SPECIFICATION FairSpec
CONSTANTS
  TxSize = 2
  RxSize = 2
  MaxMsg = 2
  MaxSlots = 1
  MaxBlock = 1
  MaxErrors = 0
PROPERTIES DeinitReturns TxDrains RxDrains
CHECK_DEADLOCK FALSE
