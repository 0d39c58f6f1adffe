SPECIFICATION Spec

CONSTANTS
  User = User
  Callers = {}
  Reader = Reader
  Loop = Loop
  NoEvent = NoEvent
  Capacity = 1
  MaxLines = 0
  MaxReads = 1
  MaxReports = 1
  MayCancel = TRUE

PROPERTIES
  StopReturns
  LossIsNoticed

CHECK_DEADLOCK FALSE
