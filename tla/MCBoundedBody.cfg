SPECIFICATION BodySpec
CONSTANTS
  MaxInt = 7
  MaxBody = 9
  MaxBuffer = 4
  TokenCap = 4
INVARIANTS BodyTypeOK VerdictExact WireBounded
PROPERTIES ReadingEnds
CHECK_DEADLOCK FALSE
