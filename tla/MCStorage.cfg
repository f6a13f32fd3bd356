SPECIFICATION FairSpec
CONSTANTS
  m1 = m1
  m2 = m2
  m3 = m3
  Messages <- ThreeMessages
  MaxDay = 2
  MaxFaults = 2
CHECK_DEADLOCK FALSE
INVARIANT TypeOK
INVARIANT OnlyLinkedFileOpen
INVARIANT OnlyPastDaysArchived
INVARIANT NothingOpenAfterStop
PROPERTY StopEnds
