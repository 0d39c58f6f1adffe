------------------------------ MODULE EventBus ------------------------------
(***************************************************************************)
(* The event bus of parser/eventbus.go: a buffered channel, one goroutine  *)
(* (eventLoop) that takes events from it and runs the subscribed handlers, *)
(* and any number of goroutines that emit, subscribe and unsubscribe.      *)
(* Handlers run on the loop's own goroutine and may themselves emit,       *)
(* subscribe and unsubscribe.                                              *)
(*                                                                         *)
(* Each action is a stretch of code that no other goroutine can observe    *)
(* half done: a critical section of mutex or idMutex, or one channel       *)
(* operation.  accepted, seen, since and removedAt are history variables.  *)
(***************************************************************************)
EXTENDS Integers, Sequences, SequencesExt, FiniteSets

CONSTANTS Goroutines,  \* every goroutine that calls the bus, EventLoop included
          EventLoop,   \* the goroutine of eventLoop
          Closer,      \* the goroutine that calls Close (through Parser.Stop)
          EventTypes,
          NoEvent,
          Capacity,    \* DefaultEventChannelBuffer, 100 in the code
          MaxEvents,   \* bound: events accepted or waiting in Emit
          MaxSubs      \* bound: calls of Subscribe

ASSUME BusAssumption ==
  /\ EventLoop \in Goroutines
  /\ Closer \in Goroutines \ {EventLoop}
  /\ NoEvent \notin EventTypes
  /\ Capacity \in Nat \ {0}
  /\ MaxEvents \in Nat
  /\ MaxSubs \in Nat

HandlerIds == 0 .. MaxSubs - 1

VARIABLES handlers,    \* handlers: the subscribed ids of each type, in order
          nextID,      \* nextID
          subscribing, \* Subscribe calls that have an id and no entry yet
          eventCh,     \* eventCh: the buffered events
          chOpen,      \* eventCh is not closed
          done,        \* ctx is cancelled
          loop,        \* where eventLoop is
          current,     \* the event it dispatches
          todo,        \* rest of handlersCopy; its head runs when loop = "handler"
          out,         \* the event each goroutine is blocked on in Emit
          closer,      \* how far Close is: "open", "waiting", "closed"
          crashed,     \* a goroutine panicked sending on the closed channel
          accepted,    \* history: every event the channel took
          seen,        \* history: positions in accepted each handler ran for
          since,       \* history: position after which a handler is subscribed
          removedAt    \* history: position at which it was removed, -1 if not

registry == <<handlers, nextID, subscribing, since, removedAt>>
dispatch == <<loop, current, todo, seen>>
channel  == <<eventCh, accepted>>
ending   == <<chOpen, done, closer, crashed>>
vars == <<registry, dispatch, channel, ending, out>>

\* Events the loop has taken off the channel so far.
Taken == Len(accepted) - Len(eventCh)

Init ==
  /\ handlers = [t \in EventTypes |-> <<>>]
  /\ nextID = 0
  /\ subscribing = {}
  /\ eventCh = <<>>
  /\ chOpen = TRUE
  /\ done = FALSE
  /\ loop = "select"
  /\ current = NoEvent
  /\ todo = <<>>
  /\ out = [g \in Goroutines |-> NoEvent]
  /\ closer = "open"
  /\ crashed = FALSE
  /\ accepted = <<>>
  /\ seen = [h \in HandlerIds |-> <<>>]
  /\ since = [h \in HandlerIds |-> 0]
  /\ removedAt = [h \in HandlerIds |-> -1]

\* g can start a call: the loop's goroutine only from within a handler, the
\* closing goroutine not while it is in Close, nobody from inside another call,
\* and nobody once a panic has ended the process.
Free(g) == /\ ~crashed
           /\ g = EventLoop => loop = "handler"
           /\ g = Closer => closer # "waiting"
           /\ out[g] = NoEvent
           /\ \A s \in subscribing : s.by # g
-----------------------------------------------------------------------------
(* Emit: a select between sending on eventCh and ctx.Done.  Both may be    *)
(* ready, and then either is taken; on a closed channel the send is ready  *)
(* and panics.                                                             *)

Outstanding == Cardinality({g \in Goroutines : out[g] # NoEvent})

Emit(g, e) ==
  /\ Free(g)
  /\ Len(accepted) + Outstanding < MaxEvents
  /\ out' = [out EXCEPT ![g] = e]
  /\ UNCHANGED <<registry, dispatch, channel, ending>>

EmitSendUnbounded(g) ==
  /\ out[g] # NoEvent
  /\ chOpen
  /\ eventCh' = Append(eventCh, out[g])
  /\ accepted' = Append(accepted, out[g])
  /\ out' = [out EXCEPT ![g] = NoEvent]
  /\ UNCHANGED <<registry, dispatch, ending>>

EmitSend(g) ==
  /\ out[g] # NoEvent
  /\ chOpen
  /\ Len(eventCh) < Capacity
  /\ eventCh' = Append(eventCh, out[g])
  /\ accepted' = Append(accepted, out[g])
  /\ out' = [out EXCEPT ![g] = NoEvent]
  /\ UNCHANGED <<registry, dispatch, ending>>

EmitDoneUnwatched(g) == FALSE /\ UNCHANGED vars

EmitDone(g) ==
  /\ ~crashed
  /\ out[g] # NoEvent
  /\ done
  /\ out' = [out EXCEPT ![g] = NoEvent]
  /\ UNCHANGED <<registry, dispatch, channel, ending>>

EmitPanic(g) ==
  /\ ~crashed
  /\ out[g] # NoEvent
  /\ ~chOpen
  /\ crashed' = TRUE
  /\ UNCHANGED <<registry, dispatch, channel, out, chOpen, done, closer>>
-----------------------------------------------------------------------------
(* eventLoop and dispatchEvent.                                            *)

LoopReceiveNewest ==
  /\ loop = "select"
  /\ eventCh # <<>>
  /\ current' = Last(eventCh)
  /\ eventCh' = Front(eventCh)
  /\ loop' = "received"
  /\ UNCHANGED <<registry, ending, out, todo, seen, accepted>>

LoopReceive ==
  /\ loop = "select"
  /\ eventCh # <<>>
  /\ current' = Head(eventCh)
  /\ eventCh' = Tail(eventCh)
  /\ loop' = "received"
  /\ UNCHANGED <<registry, ending, out, todo, seen, accepted>>

LoopExit ==
  /\ loop = "select"
  /\ done
  /\ loop' = "exited"
  /\ UNCHANGED <<registry, channel, ending, out, current, todo, seen>>

LoopCopyReturns ==
  /\ loop = "received"
  /\ todo' = handlers[current]
  /\ current' = IF todo' = <<>> THEN NoEvent ELSE current
  /\ loop' = IF todo' = <<>> THEN "exited" ELSE "dispatch"
  /\ UNCHANGED <<registry, channel, ending, out, seen>>

\* The read-locked part of dispatchEvent: look the type up, copy its handlers.
LoopCopy ==
  /\ loop = "received"
  /\ todo' = handlers[current]
  /\ current' = IF todo' = <<>> THEN NoEvent ELSE current
  /\ loop' = IF todo' = <<>> THEN "select" ELSE "dispatch"
  /\ UNCHANGED <<registry, channel, ending, out, seen>>

CallHandler ==
  /\ loop = "dispatch"
  /\ loop' = "handler"
  /\ seen' = [seen EXCEPT ![Head(todo)] = Append(@, Taken)]
  /\ UNCHANGED <<registry, channel, ending, out, current, todo>>

\* The handler returns, or panics and is recovered: the loop goes on either way.
HandlerReturn ==
  /\ loop = "handler"
  /\ Free(EventLoop)
  /\ todo' = Tail(todo)
  /\ current' = IF todo' = <<>> THEN NoEvent ELSE current
  /\ loop' = IF todo' = <<>> THEN "select" ELSE "dispatch"
  /\ UNCHANGED <<registry, channel, ending, out, seen>>
-----------------------------------------------------------------------------
(* Subscribe takes its id under idMutex and its place under mutex.         *)

SubscribeID(g, t) ==
  /\ Free(g)
  /\ nextID < MaxSubs
  /\ nextID' = nextID + 1
  /\ subscribing' = subscribing \cup {[by |-> g, type |-> t, id |-> nextID]}
  /\ UNCHANGED <<dispatch, channel, ending, out, handlers, since, removedAt>>

SubscribeAppend(s) ==
  /\ ~crashed
  /\ s \in subscribing
  /\ subscribing' = subscribing \ {s}
  /\ handlers' = [handlers EXCEPT ![s.type] = Append(@, s.id)]
  /\ since' = [since EXCEPT ![s.id] = IF loop = "received" THEN Taken - 1 ELSE Taken]
  /\ UNCHANGED <<dispatch, channel, ending, out, nextID, removedAt>>

UnsubscribeShared(g, t, id) ==
  /\ Free(g)
  /\ \E i \in DOMAIN handlers[t] :
       /\ handlers[t][i] = id
       /\ handlers' = [handlers EXCEPT ![t] = RemoveAt(@, i)]
       /\ todo' = IF t = current /\ Len(todo) > 1 THEN RemoveAt(todo, 2) ELSE todo
  /\ removedAt' = [removedAt EXCEPT ![id] = Taken]
  /\ UNCHANGED <<loop, current, seen, channel, ending, out, nextID, subscribing, since>>

UnsubscribeNext(g, t, id) ==
  /\ Free(g)
  /\ \E i \in DOMAIN handlers[t] :
       /\ handlers[t][i] = id
       /\ handlers' = [handlers EXCEPT ![t] = SubSeq(@, 1, i) \o SubSeq(@, i + 2, Len(@))]
  /\ removedAt' = [removedAt EXCEPT ![id] = Taken]
  /\ UNCHANGED <<dispatch, channel, ending, out, nextID, subscribing, since>>

UnsubscribeByID(g, t, id) ==
  /\ Free(g)
  /\ \E i \in DOMAIN handlers[t] :
       /\ handlers[t][i] = id
       /\ handlers' = [handlers EXCEPT ![t] = RemoveAt(@, i)]
  /\ removedAt' = [removedAt EXCEPT ![id] = Taken]
  /\ UNCHANGED <<dispatch, channel, ending, out, nextID, subscribing, since>>
-----------------------------------------------------------------------------
(* Close: cancel, wait for the loop, close the channel.  The context is    *)
(* also cancelled from outside, by Parser.Stop or the application.         *)

CloseCancel ==
  /\ closer = "open"
  /\ Free(Closer)
  /\ closer' = "waiting"
  /\ done' = TRUE
  /\ UNCHANGED <<registry, dispatch, channel, out, chOpen, crashed>>

CloseChannelEarly ==
  /\ closer = "waiting"
  /\ closer' = "closed"
  /\ chOpen' = FALSE
  /\ UNCHANGED <<registry, dispatch, channel, out, done, crashed>>

CloseChannel ==
  /\ closer = "waiting"
  /\ loop = "exited"
  /\ closer' = "closed"
  /\ chOpen' = FALSE
  /\ UNCHANGED <<registry, dispatch, channel, out, done, crashed>>

ParentCancel ==
  /\ ~done
  /\ done' = TRUE
  /\ UNCHANGED <<registry, dispatch, channel, out, chOpen, closer, crashed>>
-----------------------------------------------------------------------------
Next ==
  \/ \E g \in Goroutines :
       \/ \E e \in EventTypes : Emit(g, e)
       \/ EmitSend(g) \/ EmitDone(g) \/ EmitPanic(g)
       \/ \E t \in EventTypes : SubscribeID(g, t)
       \/ \E t \in EventTypes, id \in HandlerIds : UnsubscribeByID(g, t, id)
  \/ \E s \in subscribing : SubscribeAppend(s)
  \/ LoopReceive \/ LoopExit \/ LoopCopy \/ CallHandler \/ HandlerReturn
  \/ CloseCancel \/ CloseChannel \/ ParentCancel

(***************************************************************************)
(* Fairness.  The scheduler runs every runnable goroutine (weak fairness). *)
(* A channel serves its blocked senders first come first served, and a     *)
(* select with several ready cases picks one uniformly, so a sender that   *)
(* finds space and a cancelled context that is offered again and again are *)
(* not passed over for ever (strong fairness).  A handler does not emit    *)
(* for ever, so HandlerReturn is strongly fair.  Nothing makes a goroutine *)
(* emit, subscribe or close.                                               *)
(***************************************************************************)
Fairness ==
  /\ \A g \in Goroutines : /\ SF_vars(EmitSend(g))
                           /\ WF_vars(EmitDone(g))
  /\ WF_vars(\E s \in subscribing : SubscribeAppend(s))
  /\ WF_vars((LoopReceive \/ LoopCopy \/ CallHandler))
  /\ SF_vars(HandlerReturn)
  /\ SF_vars(LoopExit)
  /\ WF_vars(CloseChannel)

Safety == Init /\ [][Next]_vars
Spec == Safety /\ Fairness
-----------------------------------------------------------------------------
TypeOK ==
  /\ handlers \in [EventTypes -> Seq(HandlerIds)]
  /\ nextID \in 0 .. MaxSubs
  /\ subscribing \subseteq [by : Goroutines, type : EventTypes, id : HandlerIds]
  /\ eventCh \in Seq(EventTypes) /\ Len(eventCh) <= Capacity
  /\ chOpen \in BOOLEAN /\ done \in BOOLEAN /\ crashed \in BOOLEAN
  /\ loop \in {"select", "received", "dispatch", "handler", "exited"}
  /\ current \in EventTypes \cup {NoEvent}
  /\ todo \in Seq(HandlerIds)
  /\ out \in [Goroutines -> EventTypes \cup {NoEvent}]
  /\ closer \in {"open", "waiting", "closed"}
  /\ accepted \in Seq(EventTypes)
  /\ seen \in [HandlerIds -> Seq(Nat)]
  /\ since \in [HandlerIds -> Nat]
  /\ removedAt \in [HandlerIds -> Nat \cup {-1}]

(***************************************************************************)
(* The channel holds exactly the accepted events the loop has not taken,   *)
(* in the order they were accepted, and the event being dispatched is the  *)
(* last one taken: Emit and eventLoop neither lose nor reorder events.     *)
(***************************************************************************)
FifoChannel ==
  /\ Len(eventCh) <= Len(accepted)
  /\ \A i \in 1 .. Len(eventCh) : eventCh[i] = accepted[Taken + i]
  /\ loop \in {"received", "dispatch", "handler"} =>
       Taken > 0 /\ current = accepted[Taken]

\* The last position a handler still subscribed must have run for by now.
Through(h) ==
  IF \/ loop = "received"
     \/ loop = "dispatch" /\ h \in ToSet(todo)
     \/ loop = "handler" /\ h \in ToSet(Tail(todo))
  THEN Taken - 1
  ELSE Taken

(***************************************************************************)
(* Exactly-once dispatch: a subscribed handler has run once, and in order, *)
(* for every event of its type taken since it was subscribed, however      *)
(* other goroutines and the handlers themselves subscribe and unsubscribe  *)
(* while a dispatch is under way (dispatchEvent's copy of the handlers).   *)
(***************************************************************************)
ExactlyOnce ==
  \A t \in EventTypes : \A h \in ToSet(handlers[t]) :
    /\ ToSet(seen[h]) = {n \in since[h] + 1 .. Through(h) : accepted[n] = t}
    /\ \A i, j \in DOMAIN seen[h] : i < j => seen[h][i] < seen[h][j]

(***************************************************************************)
(* A handler never runs for an event the loop took after UnsubscribeByID   *)
(* removed it: only the dispatch already under way can still reach it.     *)
(***************************************************************************)
NoCallAfterRemoval ==
  \A h \in HandlerIds : removedAt[h] # -1 =>
    \A i \in DOMAIN seen[h] : seen[h][i] <= removedAt[h]

(***************************************************************************)
(* After Close has returned no handler runs and no event is taken.         *)
(***************************************************************************)
QuietAfterClose == [][closer = "closed" => UNCHANGED dispatch]_vars

\* The loop waits in its own Emit for space that only it could make.
SelfBlocked == /\ out[EventLoop] # NoEvent
               /\ Len(eventCh) = Capacity
               /\ ~done

(***************************************************************************)
(* Every Emit returns, unless the loop itself is blocked in a handler's    *)
(* Emit on the full channel: that is the only way a goroutine stays in     *)
(* Emit for ever (a crashed process aside).                                *)
(***************************************************************************)
EmitReturns ==
  \A g \in Goroutines :
    out[g] # NoEvent ~> (out[g] = NoEvent \/ SelfBlocked \/ crashed)

(***************************************************************************)
(* Close returns, even when the loop is blocked in a handler's Emit on the *)
(* full channel: the cancellation frees it (a crashed process aside).      *)
(***************************************************************************)
CloseReturns == closer = "waiting" ~> (closer = "closed" \/ crashed)
-----------------------------------------------------------------------------
(* The bus does what Broadcast promises.                                   *)

Promise == INSTANCE Broadcast WITH
  log <- accepted,
  pos <- Taken,
  status <- CASE loop = "select" -> "idle"
              [] loop \in {"received", "dispatch", "handler"} -> "busy"
              [] OTHER -> "exited"

(***************************************************************************)
(* EventBus implements Broadcast: one log of accepted events, taken in     *)
(* order one at a time, bounded, closed only after the loop has ended.     *)
(***************************************************************************)
ImplementsBroadcast == Promise!Spec
=============================================================================
