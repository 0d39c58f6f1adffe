----------------------------- MODULE Broadcast -----------------------------
(***************************************************************************)
(* What the event bus of parser/eventbus.go promises to the goroutines     *)
(* that use it, without saying how handlers are kept or called:            *)
(*   - accepted events form one log and are taken from it in that order,   *)
(*     one at a time, each exactly once;                                   *)
(*   - at most Capacity accepted events wait to be taken;                  *)
(*   - an Emit returns because its event was accepted or because the bus   *)
(*     was cancelled;                                                      *)
(*   - the channel is closed only after the loop has ended, and only a     *)
(*     goroutine that emits after that can bring the process down.         *)
(* EventBus implements this module.                                        *)
(***************************************************************************)
EXTENDS Integers, Sequences

CONSTANTS Goroutines,   \* goroutines that call the bus, its own loop included
          EventLoop,    \* the goroutine that runs the handlers
          EventTypes,
          NoEvent,      \* "no Emit outstanding", "no event in hand"
          Capacity      \* DefaultEventChannelBuffer

VARIABLES log,      \* every event the bus ever accepted, in order
          pos,      \* how many of them the loop has taken
          current,  \* the event in hand
          status,   \* the loop: "idle", "busy" with current, or "exited"
          out,      \* the event each goroutine is blocked on in Emit
          done,     \* the bus's context is cancelled
          chOpen,   \* the channel is not closed
          crashed   \* a send on the closed channel ended the process

vars == <<log, pos, current, status, out, done, chOpen, crashed>>

Init == /\ log = <<>> /\ pos = 0 /\ current = NoEvent /\ status = "idle"
        /\ out = [g \in Goroutines |-> NoEvent]
        /\ done = FALSE /\ chOpen = TRUE /\ crashed = FALSE

Call(g, e) == /\ out[g] = NoEvent
              /\ g = EventLoop => status = "busy"
              /\ out' = [out EXCEPT ![g] = e]
              /\ UNCHANGED <<log, pos, current, status, done, chOpen, crashed>>

Accept(g) == /\ out[g] # NoEvent
             /\ chOpen
             /\ Len(log) - pos < Capacity
             /\ log' = Append(log, out[g])
             /\ out' = [out EXCEPT ![g] = NoEvent]
             /\ UNCHANGED <<pos, current, status, done, chOpen, crashed>>

Abandon(g) == /\ out[g] # NoEvent
              /\ done
              /\ out' = [out EXCEPT ![g] = NoEvent]
              /\ UNCHANGED <<log, pos, current, status, done, chOpen, crashed>>

Crash(g) == /\ out[g] # NoEvent
            /\ ~chOpen
            /\ crashed' = TRUE
            /\ UNCHANGED <<log, pos, current, status, out, done, chOpen>>

Take == /\ status = "idle"
        /\ pos < Len(log)
        /\ pos' = pos + 1
        /\ current' = log[pos + 1]
        /\ status' = "busy"
        /\ UNCHANGED <<log, out, done, chOpen, crashed>>

Finish == /\ status = "busy"
          /\ out[EventLoop] = NoEvent
          /\ status' = "idle"
          /\ current' = NoEvent
          /\ UNCHANGED <<log, pos, out, done, chOpen, crashed>>

Cancel == /\ done' = TRUE
          /\ UNCHANGED <<log, pos, current, status, out, chOpen, crashed>>

Exit == /\ status = "idle"
        /\ done
        /\ status' = "exited"
        /\ UNCHANGED <<log, pos, current, out, done, chOpen, crashed>>

Shut == /\ status = "exited"
        /\ chOpen' = FALSE
        /\ UNCHANGED <<log, pos, current, status, out, done, crashed>>

Next == \/ \E g \in Goroutines, e \in EventTypes : Call(g, e)
        \/ \E g \in Goroutines : Accept(g) \/ Abandon(g) \/ Crash(g)
        \/ Take \/ Finish \/ Cancel \/ Exit \/ Shut

Spec == Init /\ [][Next]_vars
=============================================================================
