SPECIFICATION Spec
CONSTANTS
  ValType <- MCValType
  Arity <- MCArity
  Data = {}
  Addr = {}
  Locals = {}
  Capacity = 64
  Width = 8
  LongWidth = 16
  Modules <- MCModules
PROPERTY RefinesWasm
