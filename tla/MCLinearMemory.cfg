SPECIFICATION MemSpec
CONSTANTS
  PageSize = 8
  MaxPages = 8
  WordSize = 64
  SizeSize = 4096
  Initial = {1, 3}
  Segments <- MCSegments
  Address <- MCAddress
  Offset = {0, 1}
  Delta <- MCDelta
INVARIANTS
  MemTypeOK
  SizeWithinLimits
  AccessInside
PROPERTY GrowFaithful
CHECK_DEADLOCK FALSE
