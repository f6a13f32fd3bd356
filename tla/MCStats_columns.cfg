SPECIFICATION Spec
CONSTANTS
  NotANumber = NotANumber
  Lines <- AllLines
  MaxMessages = 1
  MaxSince = 1
  MaxDbFaults = 0
  MaxRestarts = 0
  Retained = 2
CHECK_DEADLOCK FALSE
INVARIANT ColumnsAsTested
