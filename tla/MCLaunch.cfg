SPECIFICATION LaunchSpec
CONSTANTS
  CommandLines <- MCCommandLines
  Files <- MCFiles
  PageSize = 8
  SizeSize = 4096
  Width = 4
  LongWidth = 8
INVARIANTS
  LaunchTypeOK
  LaunchedAsAsked
  TablesFilled
  HandsOver
CHECK_DEADLOCK FALSE
