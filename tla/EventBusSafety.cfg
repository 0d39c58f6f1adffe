SPECIFICATION Safety

CONSTANTS
  Loop = Loop
  Main = Main
  Reader = Reader
  Goroutines <- MCGoroutines
  EventLoop = Loop
  Closer = Main
  EventTypes = {ping, raw}
  NoEvent = NoEvent
  Capacity = 2
  MaxEvents = 3
  MaxSubs = 2

INVARIANTS
  TypeOK
  ExactlyOnce
  NoCallAfterRemoval

PROPERTIES
  QuietAfterClose
  ImplementsBroadcast

CHECK_DEADLOCK FALSE
