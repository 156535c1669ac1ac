SPECIFICATION Spec
CONSTANTS
  ValType <- MCValType
  Arity <- MCArity
  Data = {}
  Addr = {}
  Locals = {}
  Capacity = 8
  Width = 4
  LongWidth = 8
  Modules <- MCModules
INVARIANTS
  TypeOK
  ActivTracked
  LabelTracked
  LabelsWithinNesting
  ControlLinked
  ContsStructural
PROPERTY FrameIsolation
