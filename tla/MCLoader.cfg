SPECIFICATION LoadSpec
CONSTANT Files <- MCFiles
INVARIANTS
  LoadTypeOK
  Framed
  OrderChecked
  Complete
  HeaderChecked
PROPERTY LoadingAdvances
