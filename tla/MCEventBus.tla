----------------------------- MODULE MCEventBus -----------------------------
(* The event bus with its own loop, the application's goroutine (which also *)
(* closes the bus) and the connection's reader.                             *)
EXTENDS EventBus

CONSTANTS Loop, Main, Reader

MCGoroutines == {Loop, Main, Reader}
=============================================================================
