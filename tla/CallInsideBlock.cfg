SPECIFICATION Spec
CONSTANTS
  ValType <- MCValType
  Arity <- MCArity
  Data = {}
  Addr = {}
  Locals = {}
  Capacity = 32
  Width = 8
  LongWidth = 16
  Modules <- CallInsideBlock
PROPERTY RefinesWasm
