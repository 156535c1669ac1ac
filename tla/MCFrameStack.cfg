SPECIFICATION FrameSpec
CONSTANTS
  ValType <- MCValType
  Data = {0}
  Addr = {1}
  Arity <- MCArity
  Locals <- MCLocals
  Capacity = 5
INVARIANTS
  FrameTypeOK
  ActivTracked
  EntryAtBottom
  LabelTracked
PROPERTY FrameIsolation
