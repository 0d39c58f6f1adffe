SPECIFICATION Spec

CONSTANTS
  User = User
  Callers = {App}
  Reader = Reader
  Loop = Loop
  NoEvent = NoEvent
  Capacity = 1
  MaxLines = 1
  MaxReads = 0
  MaxReports = 0
  MayCancel = FALSE

PROPERTIES
  StopAlwaysReturns

CHECK_DEADLOCK FALSE
