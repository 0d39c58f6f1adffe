SPECIFICATION Spec

CONSTANTS
  User = User
  Callers = {App}
  Reader = Reader
  Loop = Loop
  NoEvent = NoEvent
  Capacity = 1
  MaxLines = 2
  MaxReads = 0
  MaxReports = 0
  MayCancel = FALSE

INVARIANTS
  TypeOK
  WrittenAsAnnounced
  LostOnce

PROPERTIES
  StopReturns

CHECK_DEADLOCK FALSE
