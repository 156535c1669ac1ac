SPECIFICATION TwinSpec
CONSTANTS
  ValType <- MCValType
  Arity <- MCArity
  Data = {}
  Addr = {}
  Locals = {}
  Capacity = 16
  Width = 4
  LongWidth = 8
  Threshold = 2
  Modules <- MCModules
INVARIANTS
  TierTypeOK
  TiersExclusive
  Transparent
