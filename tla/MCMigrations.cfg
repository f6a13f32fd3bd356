SPECIFICATION FairSpec
CONSTANTS
  t1 = t1
  t2 = t2
  o1 = o1
  o2 = o2
  nobody = nobody
  Trackers <- TwoTrackers
  Operators <- TwoOperators
  LastMigration = 3
  Nobody <- nobody
  MaxFaults = 2
  MaxRollbacks = 3
CHECK_DEADLOCK FALSE
INVARIANT TypeOK
INVARIANT RecordedIsApplied
INVARIANT ReadyMeansMigrated
PROPERTY OneAtATime
PROPERTY AllGetReady
