SPECIFICATION FairSpec
CONSTANTS
  MaxCycles = 3
  MaxErrors = 2
  MaxFailures = 2
INVARIANTS SenderStopsFirst
PROPERTIES DeinitReturns
CHECK_DEADLOCK FALSE
