SPECIFICATION Spec
CONSTANTS
  TxSize = 3
  RxSize = 2
  MaxMsg = 3
  MaxSlots = 2
  MaxBlock = 2
  MaxErrors = 1
INVARIANTS TypeOK BufferOwnership TeardownAfterWorkers
PROPERTIES TxPipe RxPipe OnlyOverflowLoses ErrorIsFinal
CHECK_DEADLOCK FALSE
