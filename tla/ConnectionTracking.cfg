SPECIFICATION Safety

CONSTANTS
  User = User
  Callers = {App}
  Reader = Reader
  Loop = Loop
  NoEvent = NoEvent
  Capacity = 1
  MaxLines = 1
  MaxReads = 1
  MaxReports = 0
  MayCancel = FALSE

INVARIANTS
  TrackedSettles

CHECK_DEADLOCK FALSE
