SPECIFICATION NumericSpec
CONSTANTS
  IntInputs <- MCIntInputs
  FloatInputs <- MCFloatInputs
  LebInputs <- MCLebInputs
  Infinity = 80
  Group = 3
  IntWidth = 8
  LongWidth = 16
INVARIANTS
  IntegersAsStandard
  FloatsAsStandard
  ConstantsDecoded
  DriverCallsEntry
CHECK_DEADLOCK FALSE
