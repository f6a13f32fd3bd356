SPECIFICATION FairSpec
CONSTANTS
  s1 = s1
  s2 = s2
  Sources <- TwoSources
  Capacity = 2
  MaxReads = 2
CHECK_DEADLOCK FALSE
INVARIANT TypeOK
INVARIANT NoSendOnClosedChannel
INVARIANT NothingOpenAfterStop
INVARIANT CapturedInOrder
PROPERTY StopEnds
