SPECIFICATION Spec
CONSTANTS
  m1 = m1
  m2 = m2
  m3 = m3
  w1 = w1
  w2 = w2
  NoMessage = NoMessage
  Messages <- ThreeMessages
  Writers <- OneWriter
  MaxDay = 1
  MaxFaults = 1
  MaxRestarts = 1
SYMMETRY MessageSymmetry
CHECK_DEADLOCK FALSE
INVARIANT TypeOK
INVARIANT AcceptedSurvivesOneArchive
INVARIANT OpenFilesOnlyCurrent
INVARIANT CurrentFileWritable
