SPECIFICATION FairSpec
CONSTANTS
  NotANumber = NotANumber
  Lines <- AllLines
  MaxMessages = 2
  MaxSince = 0
  MaxDbFaults = 1
  MaxRestarts = 1
  Retained = 1
CHECK_DEADLOCK FALSE
INVARIANT TypeOK
INVARIANT SnapshotsAddUp
INVARIANT NoIndexOutOfRange
PROPERTY MessageIsProcessed
PROPERTY CountsReachTable
