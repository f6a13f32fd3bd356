SPECIFICATION Spec
CONSTANTS
  h1 = h1
  NoHex = NoHex
  Null = Null
  Judged <- OneAircraft
  Hexes <- OneAircraft
  MaxAltitude = 1
  StaleAfter = 0
  MaxNow = 1
  MaxMessages = 2
  MaxRedisFaults = 0
  MaxDbFaults = 0
  MaxRestarts = 0
CHECK_DEADLOCK FALSE
PROPERTY FlightIsTheAircrafts
