SPECIFICATION Spec

CONSTANTS
  Loop = Loop
  Main = Main
  Reader = Reader
  Goroutines <- MCGoroutines
  EventLoop = Loop
  Closer = Main
  EventTypes = {raw}
  NoEvent = NoEvent
  Capacity = 1
  MaxEvents = 3
  MaxSubs = 1


PROPERTIES
  EmitReturns
  CloseReturns

CHECK_DEADLOCK FALSE
