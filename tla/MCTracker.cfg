SPECIFICATION Spec
CONSTANTS
  h1 = h1
  NoHex = NoHex
  Null = Null
  Judged <- OneAircraft
  Hexes <- OneAircraft
  MaxAltitude = 0
  StaleAfter = 0
  MaxNow = 1
  MaxMessages = 3
  MaxRedisFaults = 2
  MaxDbFaults = 1
  MaxRestarts = 1
CHECK_DEADLOCK FALSE
INVARIANT TypeOK
INVARIANT SessionBelongsToOneAircraft
INVARIANT PhantomOnlyAfterLostCreate
INVARIANT LocalFlightNotEnded
INVARIANT EndedFlightLeftRedis
PROPERTY TableSpec
