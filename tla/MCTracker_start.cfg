SPECIFICATION Spec
CONSTANTS
  h1 = h1
  NoHex = NoHex
  Null = Null
  Judged <- OneAircraft
  Hexes <- OneAircraft
  MaxAltitude = 1
  StaleAfter = 0
  MaxNow = 1
  MaxMessages = 2
  MaxRedisFaults = 1
  MaxDbFaults = 0
  MaxRestarts = 1
CHECK_DEADLOCK FALSE
PROPERTY StartsWithOpenFlights
