SPECIFICATION Spec
CONSTANTS
  MaxCycles = 1
  MaxErrors = 0
  MaxFailures = 1
PROPERTIES ShutdownEnds
CHECK_DEADLOCK FALSE
