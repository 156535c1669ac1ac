SPECIFICATION MemSpec
CONSTANTS
  PageSize = 8
  MaxPages = 8
  WordSize = 64
  SizeSize = 4096
  Initial = {1}
  Segments <- NoSegments
  Address <- MCAddress
  Offset = {0, 1}
  Delta <- MCDelta
INVARIANT RefusedOutside
CHECK_DEADLOCK FALSE
