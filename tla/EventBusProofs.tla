--------------------------- MODULE EventBusProofs ---------------------------
(***************************************************************************)
(* What TLAPS proves of the event bus, for any set of goroutines and event *)
(* types, any capacity and any number of events and subscriptions.         *)
(***************************************************************************)
EXTENDS EventBus, SequenceLemmas

\* handlersCopy is not exhausted while a handler of it runs or is about to.
TodoOK == loop \in {"dispatch", "handler"} => todo # <<>>

\* Close closes the channel, and only after the loop has ended.
CloseOK == /\ chOpen <=> closer # "closed"
           /\ closer = "closed" => loop = "exited"

\* The loop's goroutine is inside an Emit only from within a handler.
LoopCallOK == out[EventLoop] # NoEvent => loop = "handler"

IInv == TypeOK /\ FifoChannel /\ TodoOK /\ CloseOK /\ LoopCallOK
-----------------------------------------------------------------------------
\* Removing one element leaves a sequence over the same set.
LEMMA RemoveAtType ==
  ASSUME NEW S, NEW s \in Seq(S), NEW i \in DOMAIN s
  PROVE  RemoveAt(s, i) \in Seq(S)
  BY SubSeqProperties, ConcatProperties DEF RemoveAt

LEMMA TakenNat ==
  ASSUME TypeOK, Len(eventCh) <= Len(accepted)
  PROVE  Taken \in Nat
  BY DEF TypeOK, Taken

LEMMA InitIInv == Init => IInv
<1> SUFFICES ASSUME Init PROVE IInv
  OBVIOUS
<1> USE DEF Init
<1>1. TypeOK
  <2>1. /\ \A S : <<>> \in Seq(S)
        /\ 0 \in 0 .. MaxSubs
        /\ Len(<<>>) <= Capacity
    BY BusAssumption, EmptySeq DEF BusAssumption
  <2>2. QED
    BY <2>1 DEF TypeOK
<1>2. FifoChannel /\ TodoOK /\ CloseOK /\ LoopCallOK
  BY BusAssumption DEF FifoChannel, TodoOK, CloseOK, LoopCallOK, Taken, BusAssumption
<1>3. QED
  BY <1>1, <1>2 DEF IInv

LEMMA NextIInv == IInv /\ [Next]_vars => IInv'
<1> SUFFICES ASSUME IInv, [Next]_vars PROVE IInv'
  OBVIOUS
<1> USE DEF IInv
<1>0. Taken \in Nat
  BY TakenNat DEF FifoChannel
<1>a. EventLoop \in Goroutines
  BY BusAssumption DEF BusAssumption
<1>1. ASSUME NEW g \in Goroutines, NEW e \in EventTypes, Emit(g, e) PROVE IInv'
  BY <1>1, <1>a DEF Emit, Free, TypeOK, FifoChannel, TodoOK, CloseOK, LoopCallOK, Taken,
              registry, dispatch, channel, ending
<1>2. ASSUME NEW g \in Goroutines, EmitSend(g) PROVE IInv'
  <2>1. out[g] \in EventTypes
    BY <1>2 DEF EmitSend, TypeOK
  <2>2. /\ eventCh' \in Seq(EventTypes)
        /\ accepted' \in Seq(EventTypes)
        /\ Len(eventCh') = Len(eventCh) + 1
        /\ Len(accepted') = Len(accepted) + 1
        /\ \A i \in 1 .. Len(eventCh) : eventCh'[i] = eventCh[i]
        /\ eventCh'[Len(eventCh) + 1] = out[g]
        /\ \A i \in 1 .. Len(accepted) : accepted'[i] = accepted[i]
        /\ accepted'[Len(accepted) + 1] = out[g]
    BY <1>2, <2>1, AppendProperties DEF EmitSend, TypeOK
  <2>3. TypeOK'
    BY <1>2, <2>2, BusAssumption
    DEF EmitSend, TypeOK, BusAssumption, registry, dispatch, ending
  <2>4. FifoChannel'
    <3>1. Taken' = Taken /\ Taken <= Len(accepted) /\ Len(accepted) \in Nat
          /\ Len(eventCh) \in Nat /\ Taken + Len(eventCh) = Len(accepted)
      BY <2>2, <1>0 DEF TypeOK, Taken
    <3>2. ASSUME NEW i \in 1 .. Len(eventCh') PROVE eventCh'[i] = accepted'[Taken' + i]
      <4>1. CASE i \in 1 .. Len(eventCh)
        <5>1. eventCh[i] = accepted[Taken + i] /\ Taken + i \in 1 .. Len(accepted)
          BY <1>0, <3>1, <4>1 DEF FifoChannel
        <5>2. QED
          BY <2>2, <3>1, <4>1, <5>1
      <4>2. CASE i = Len(eventCh) + 1
        BY <1>0, <2>2, <3>1, <4>2
      <4>3. QED
        BY <2>2, <3>1, <4>1, <4>2
    <3>3. loop' \in {"received", "dispatch", "handler"} =>
            Taken' > 0 /\ current' = accepted'[Taken']
      BY <1>0, <1>2, <2>2, <3>1 DEF EmitSend, FifoChannel, dispatch
    <3>4. QED
      BY <2>2, <3>1, <3>2, <3>3 DEF FifoChannel
  <2>5. QED
    BY <1>2, <1>a, <2>3, <2>4 DEF EmitSend, TodoOK, CloseOK, LoopCallOK, dispatch, ending
<1>3. ASSUME NEW g \in Goroutines, EmitDone(g) \/ EmitPanic(g) PROVE IInv'
  <2>1. CASE EmitDone(g)
    BY <1>a, <2>1 DEF EmitDone, TypeOK, FifoChannel, TodoOK, CloseOK, LoopCallOK, Taken,
                registry, dispatch, channel, ending
  <2>2. CASE EmitPanic(g)
    BY <2>2 DEF EmitPanic, TypeOK, FifoChannel, TodoOK, CloseOK, LoopCallOK, Taken,
                registry, dispatch, channel
  <2>3. QED
    BY <1>3, <2>1, <2>2
<1>4. CASE LoopReceive
  <2>1. /\ current' \in EventTypes
        /\ eventCh' \in Seq(EventTypes)
        /\ Len(eventCh') = Len(eventCh) - 1
        /\ current' = eventCh[1]
        /\ \A i \in 1 .. Len(eventCh') : eventCh'[i] = eventCh[i + 1]
        /\ Len(eventCh) \in Nat \ {0}
    BY <1>4, HeadTailProperties, EmptySeq DEF LoopReceive, TypeOK
  <2>2. TypeOK'
    BY <1>4, <2>1, BusAssumption
    DEF LoopReceive, TypeOK, BusAssumption, registry, ending
  <2>3. FifoChannel'
    <3>1. accepted' = accepted /\ Taken' = Taken + 1 /\ Len(accepted) \in Nat
          /\ Taken + Len(eventCh) = Len(accepted)
      BY <1>4, <2>1, <1>0 DEF LoopReceive, TypeOK, Taken
    <3>2. ASSUME NEW i \in 1 .. Len(eventCh') PROVE eventCh'[i] = accepted'[Taken' + i]
      <4>1. i + 1 \in 1 .. Len(eventCh) /\ eventCh'[i] = eventCh[i + 1]
        BY <2>1
      <4>2. Taken + (i + 1) = Taken' + i
        BY <1>0, <3>1
      <4>3. QED
        BY <3>1, <4>1, <4>2 DEF FifoChannel
    <3>3. current' = accepted'[Taken']
      BY <1>0, <2>1, <3>1 DEF FifoChannel
    <3>4. QED
      BY <1>0, <2>1, <3>1, <3>2, <3>3 DEF FifoChannel
  <2>4. QED
    BY <1>4, <2>2, <2>3 DEF LoopReceive, TodoOK, CloseOK, LoopCallOK, ending
<1>5. CASE LoopExit
  BY <1>5 DEF LoopExit, TypeOK, FifoChannel, TodoOK, CloseOK, LoopCallOK, Taken,
              registry, channel, ending
<1>6. CASE LoopCopy
  <2>1. todo' \in Seq(HandlerIds)
    <3>1. current \in EventTypes
      BY <1>0, <1>6, ElementOfSeq DEF LoopCopy, FifoChannel, TypeOK, Taken
    <3>2. QED
      BY <1>6, <3>1 DEF LoopCopy, TypeOK
  <2>2. TypeOK'
    BY <1>6, <2>1 DEF LoopCopy, TypeOK, registry, channel, ending
  <2>3. QED
    BY <1>6, <2>2 DEF LoopCopy, FifoChannel, TodoOK, CloseOK, LoopCallOK, Taken, channel, ending
<1>7. CASE CallHandler
  <2>1. Head(todo) \in HandlerIds
    BY <1>7, HeadTailProperties DEF CallHandler, TodoOK, TypeOK
  <2>2. seen' \in [HandlerIds -> Seq(Nat)]
    BY <1>0, <1>7, <2>1, AppendProperties DEF CallHandler, TypeOK
  <2>3. TypeOK'
    BY <1>7, <2>2 DEF CallHandler, TypeOK, registry, channel, ending
  <2>4. QED
    BY <1>7, <2>3 DEF CallHandler, FifoChannel, TodoOK, CloseOK, LoopCallOK, Taken, channel, ending
<1>8. CASE HandlerReturn
  <2>1. todo' \in Seq(HandlerIds)
    BY <1>8, HeadTailProperties DEF HandlerReturn, TodoOK, TypeOK
  <2>2. TypeOK'
    BY <1>8, <2>1 DEF HandlerReturn, TypeOK, registry, channel, ending
  <2>3. QED
    BY <1>8, <2>2 DEF HandlerReturn, Free, FifoChannel, TodoOK, CloseOK, LoopCallOK, Taken, channel, ending
<1>9. ASSUME NEW g \in Goroutines, NEW t \in EventTypes, SubscribeID(g, t) PROVE IInv'
  <2>1. nextID \in HandlerIds /\ nextID' \in 0 .. MaxSubs
    BY <1>9, BusAssumption DEF SubscribeID, TypeOK, BusAssumption, HandlerIds
  <2>a. subscribing' \subseteq [by : Goroutines, type : EventTypes, id : HandlerIds]
    BY <1>9, <2>1 DEF SubscribeID, TypeOK
  <2>b. UNCHANGED <<handlers, eventCh, chOpen, done, crashed, loop, current, todo, out, closer,
                    accepted, seen, since, removedAt>>
    BY <1>9 DEF SubscribeID, dispatch, channel, ending
  <2>2. TypeOK'
    BY <2>1, <2>a, <2>b DEF TypeOK
  <2>3. QED
    BY <1>9, <2>2 DEF SubscribeID, FifoChannel, TodoOK, CloseOK, LoopCallOK, Taken,
                      dispatch, channel, ending
<1>10. ASSUME NEW s \in subscribing, SubscribeAppend(s) PROVE IInv'
  <2>1. s.type \in EventTypes /\ s.id \in HandlerIds
    BY <1>10 DEF TypeOK
  <2>2. handlers' \in [EventTypes -> Seq(HandlerIds)]
    BY <1>10, <2>1, AppendProperties DEF SubscribeAppend, TypeOK
  <2>3. (IF loop = "received" THEN Taken - 1 ELSE Taken) \in Nat
    BY <1>0 DEF FifoChannel
  <2>4. since' \in [HandlerIds -> Nat]
    BY <1>10, <2>3 DEF SubscribeAppend, TypeOK
  <2>5. TypeOK'
    BY <1>10, <2>2, <2>4 DEF SubscribeAppend, TypeOK, dispatch, channel, ending
  <2>6. QED
    BY <1>10, <2>5 DEF SubscribeAppend, FifoChannel, TodoOK, CloseOK, LoopCallOK, Taken,
                       dispatch, channel, ending
<1>11. ASSUME NEW g \in Goroutines, NEW t \in EventTypes, NEW id \in HandlerIds,
              UnsubscribeByID(g, t, id)
       PROVE  IInv'
  <2>1. handlers' \in [EventTypes -> Seq(HandlerIds)]
    BY <1>11, RemoveAtType DEF UnsubscribeByID, TypeOK
  <2>2. TypeOK'
    BY <1>0, <1>11, <2>1 DEF UnsubscribeByID, TypeOK, dispatch, channel, ending
  <2>3. QED
    BY <1>11, <2>2 DEF UnsubscribeByID, FifoChannel, TodoOK, CloseOK, LoopCallOK, Taken,
                       dispatch, channel, ending
<1>12. CASE CloseCancel \/ CloseChannel \/ ParentCancel
  <2>1. TypeOK'
    BY <1>12 DEF CloseCancel, CloseChannel, ParentCancel, TypeOK,
                 registry, dispatch, channel
  <2>2. FifoChannel' /\ TodoOK'
    BY <1>12 DEF CloseCancel, CloseChannel, ParentCancel, FifoChannel, TodoOK,
                 Taken, dispatch, channel
  <2>3. CloseOK' /\ LoopCallOK'
    BY <1>12 DEF CloseCancel, CloseChannel, ParentCancel, CloseOK, LoopCallOK, dispatch
  <2>4. QED
    BY <2>1, <2>2, <2>3
<1>13. CASE UNCHANGED vars
  BY <1>13 DEF vars, TypeOK, FifoChannel, TodoOK, CloseOK, LoopCallOK, Taken,
               registry, dispatch, channel, ending
<1>14. QED
  BY <1>1, <1>2, <1>3, <1>4, <1>5, <1>6, <1>7, <1>8, <1>9, <1>10, <1>11, <1>12, <1>13
  DEF Next

LEMMA SafetyIInv == Safety => []IInv
<1>1. QED
  BY InitIInv, NextIInv, PTL DEF Safety
-----------------------------------------------------------------------------
(***************************************************************************)
(* Type correctness of every variable of the bus.                          *)
(***************************************************************************)
THEOREM SafetyTypeOK == Safety => []TypeOK
<1>1. IInv => TypeOK
  BY DEF IInv
<1>2. QED
  BY <1>1, SafetyIInv, PTL

(***************************************************************************)
(* The channel never loses, invents or reorders an accepted event, for any *)
(* capacity and any number of emitting goroutines.                         *)
(***************************************************************************)
THEOREM SafetyFifoChannel == Safety => []FifoChannel
<1>1. IInv => FifoChannel
  BY DEF IInv
<1>2. QED
  BY <1>1, SafetyIInv, PTL

(***************************************************************************)
(* Once Close has returned the loop takes no event and runs no handler.    *)
(***************************************************************************)
THEOREM SafetyQuietAfterClose == Safety => QuietAfterClose
<1>1. IInv /\ [Next]_vars => [closer = "closed" => UNCHANGED dispatch]_vars
  <2> SUFFICES ASSUME IInv, Next, closer = "closed"
               PROVE  UNCHANGED dispatch
    BY DEF vars
  <2>1. loop = "exited" /\ ~chOpen
    BY DEF IInv, CloseOK
  <2>2. QED
    BY <2>1 DEF Next, Emit, EmitSend, EmitDone, EmitPanic, SubscribeID,
      SubscribeAppend, UnsubscribeByID, LoopReceive, LoopExit, LoopCopy,
      CallHandler, HandlerReturn, CloseCancel, CloseChannel, ParentCancel
<1>2. QED
  BY <1>1, SafetyIInv, PTL DEF Safety, QuietAfterClose
-----------------------------------------------------------------------------
(* The refinement: every step of the bus is a step of Broadcast or leaves  *)
(* its variables alone.                                                    *)

LEMMA InitRefines == Init => Promise!Init
  BY DEF Init, Promise!Init, Taken

LEMMA NextRefines == IInv /\ [Next]_vars => [Promise!Next]_Promise!vars
<1> SUFFICES ASSUME IInv, [Next]_vars PROVE [Promise!Next]_Promise!vars
  OBVIOUS
<1> USE DEF IInv
<1>0. /\ Taken \in Nat /\ Len(accepted) \in Nat /\ Len(eventCh) \in Nat
      /\ Taken + Len(eventCh) = Len(accepted)
  BY TakenNat DEF FifoChannel, TypeOK, Taken
<1>1. ASSUME NEW g \in Goroutines, NEW e \in EventTypes, Emit(g, e)
      PROVE  Promise!Call(g, e)
  BY <1>1 DEF Emit, Free, Promise!Call, Taken, dispatch, channel, ending
<1>2. ASSUME NEW g \in Goroutines, EmitSend(g) PROVE Promise!Accept(g)
  <2>1. Taken' = Taken
    BY <1>0, <1>2, AppendProperties DEF EmitSend, TypeOK, Taken
  <2>2. QED
    BY <1>0, <1>2, <2>1 DEF EmitSend, Promise!Accept, dispatch, ending
<1>3. ASSUME NEW g \in Goroutines, EmitDone(g) PROVE Promise!Abandon(g)
  BY <1>3 DEF EmitDone, Promise!Abandon, Taken, dispatch, channel, ending
<1>4. ASSUME NEW g \in Goroutines, EmitPanic(g) PROVE Promise!Crash(g)
  BY <1>4 DEF EmitPanic, Promise!Crash, Taken, dispatch, channel
<1>5. CASE LoopReceive
  <2>1. /\ Len(eventCh') = Len(eventCh) - 1 /\ Len(eventCh) > 0
        /\ current' = accepted[Taken + 1]
    BY <1>0, <1>5, HeadTailProperties, EmptySeq DEF LoopReceive, FifoChannel, TypeOK
  <2>2. Taken' = Taken + 1
    BY <1>0, <1>5, <2>1 DEF LoopReceive, Taken
  <2>3. Promise!Take
    BY <1>0, <1>5, <2>1, <2>2 DEF LoopReceive, Promise!Take, ending
  <2>4. QED
    BY <2>3 DEF Promise!Next
<1>6. CASE LoopExit
  BY <1>6 DEF LoopExit, Promise!Next, Promise!Exit, Taken, channel, ending
<1>7. CASE LoopCopy
  BY <1>7 DEF LoopCallOK, LoopCopy, Promise!Next, Promise!Finish, Promise!vars, Taken, channel, ending
<1>8. CASE CallHandler
  BY <1>8 DEF CallHandler, Promise!vars, Taken, channel, ending
<1>9. CASE HandlerReturn
  BY <1>9 DEF HandlerReturn, Free, Promise!Next, Promise!Finish, Promise!vars, Taken,
              channel, ending
<1>10. CASE \/ \E g \in Goroutines, t \in EventTypes : SubscribeID(g, t)
            \/ \E s \in subscribing : SubscribeAppend(s)
            \/ \E g \in Goroutines, t \in EventTypes, id \in HandlerIds :
                 UnsubscribeByID(g, t, id)
  BY <1>10 DEF SubscribeID, SubscribeAppend, UnsubscribeByID, Promise!vars, Taken,
               dispatch, channel, ending
<1>11. CASE CloseCancel \/ ParentCancel
  BY <1>11 DEF CloseCancel, ParentCancel, Promise!Next, Promise!Cancel, Taken,
               dispatch, channel
<1>12. CASE CloseChannel
  BY <1>12 DEF CloseChannel, Promise!Next, Promise!Shut, Taken, dispatch, channel
<1>13. CASE UNCHANGED vars
  BY <1>13 DEF vars, Promise!vars, Taken, dispatch, channel, ending
<1>14. QED
  BY <1>1, <1>2, <1>3, <1>4, <1>5, <1>6, <1>7, <1>8, <1>9, <1>10, <1>11, <1>12, <1>13
  DEF Next, Promise!Next

(***************************************************************************)
(* The bus implements Broadcast: Emit, eventLoop, dispatchEvent and Close  *)
(* together keep the promise of one ordered log taken event by event.      *)
(***************************************************************************)
THEOREM SafetyImplementsBroadcast == Safety => ImplementsBroadcast
<1>1. QED
  BY InitRefines, NextRefines, SafetyIInv, PTL
  DEF Safety, ImplementsBroadcast, Promise!Spec
-----------------------------------------------------------------------------
(* The handlers: who is subscribed, who waits for its place, and whom the  *)
(* dispatch under way has still to run.                                    *)

\* A handler has one place, of one type; it was subscribed before now.
Registered ==
  /\ \A t \in EventTypes :
       /\ IsInjective(handlers[t])
       /\ \A h \in ToSet(handlers[t]) :
            /\ h < nextID /\ removedAt[h] = -1
            /\ since[h] <= Taken /\ (loop = "received" => since[h] < Taken)
  /\ \A t, u \in EventTypes : ToSet(handlers[t]) \cap ToSet(handlers[u]) # {} => t = u

\* Ids are given once, and nothing has happened to those not yet in use.
Awaiting ==
  /\ \A s \in subscribing :
       /\ s.id < nextID /\ removedAt[s.id] = -1 /\ seen[s.id] = <<>>
       /\ s.id \notin ToSet(todo) /\ \A t \in EventTypes : s.id \notin ToSet(handlers[t])
  /\ \A r, s \in subscribing : r.id = s.id => r = s
  /\ \A h \in HandlerIds : h >= nextID => removedAt[h] = -1 /\ seen[h] = <<>>

\* The copy has handlers of the event's type and those removed meanwhile.
Dispatching ==
  /\ loop \in {"select", "received", "exited"} => todo = <<>>
  /\ IsInjective(todo)
  /\ \A h \in ToSet(todo) :
       /\ h < nextID /\ since[h] < Taken
       /\ IF removedAt[h] = -1 THEN h \in ToSet(handlers[current]) ELSE removedAt[h] = Taken
  /\ \A h \in HandlerIds : \A i \in DOMAIN seen[h] : seen[h][i] <= Taken

\* h has run once, in order, for every event of type t since it was subscribed.
Once(t, h) ==
  /\ ToSet(seen[h]) = {n \in since[h] + 1 .. Through(h) : accepted[n] = t}
  /\ \A i, j \in DOMAIN seen[h] : i < j => seen[h][i] < seen[h][j]

Books == /\ IInv /\ Registered /\ Awaiting /\ Dispatching
         /\ ExactlyOnce /\ NoCallAfterRemoval

LEMMA OnceFacts ==
  /\ ExactlyOnce <=> \A t \in EventTypes : \A h \in ToSet(handlers[t]) : Once(t, h)
  /\ ExactlyOnce' <=> \A t \in EventTypes : \A h \in ToSet(handlers'[t]) : Once(t, h)'
  BY DEF ExactlyOnce, Once

LEMMA BusFacts ==
  ASSUME IInv
  PROVE  /\ Taken \in Nat /\ Taken <= Len(accepted) /\ Len(accepted) \in Nat
         /\ nextID \in Nat /\ HandlerIds \subseteq Nat
         /\ \A t \in EventTypes : handlers[t] \in Seq(HandlerIds)
                                  /\ ToSet(handlers[t]) \subseteq HandlerIds
         /\ todo \in Seq(HandlerIds) /\ ToSet(todo) \subseteq HandlerIds
         /\ \A h \in HandlerIds : since[h] \in Nat /\ seen[h] \in Seq(Nat) /\ h \in Nat
         /\ \A s \in subscribing : s.id \in HandlerIds /\ s.type \in EventTypes
         /\ \A h : Through(h) = Taken \/ Through(h) = Taken - 1
<1>1. TypeOK /\ FifoChannel /\ MaxSubs \in Nat
  BY BusAssumption DEF IInv, BusAssumption
<1>2. Taken \in Nat /\ Len(accepted) \in Nat /\ Len(eventCh) \in Nat /\ Taken <= Len(accepted)
  BY <1>1, TakenNat DEF FifoChannel, TypeOK, Taken
<1>3. nextID \in Nat /\ HandlerIds \subseteq Nat
  BY <1>1 DEF TypeOK, HandlerIds
<1>4. ASSUME NEW t \in EventTypes
      PROVE  handlers[t] \in Seq(HandlerIds) /\ ToSet(handlers[t]) \subseteq HandlerIds
  <2>1. handlers[t] \in Seq(HandlerIds)
    BY <1>1 DEF TypeOK
  <2> DEFINE own == handlers[t]
  <2> HIDE DEF own
  <2>2. own \in Seq(HandlerIds) => ToSet(own) \subseteq HandlerIds
    BY ToSetFacts
  <2>3. QED
    BY <2>1, <2>2 DEF own
<1>5. todo \in Seq(HandlerIds) /\ ToSet(todo) \subseteq HandlerIds
  <2>1. todo \in Seq(HandlerIds)
    BY <1>1 DEF TypeOK
  <2>2. QED
    BY <2>1, ToSetFacts
<1>6. \A h \in HandlerIds : since[h] \in Nat /\ seen[h] \in Seq(Nat)
  BY <1>1 DEF TypeOK
<1>7. \A s \in subscribing : s.id \in HandlerIds /\ s.type \in EventTypes
  BY <1>1 DEF TypeOK
<1>8. \A h : Through(h) = Taken \/ Through(h) = Taken - 1
  BY DEF Through
<1>9. QED
  BY <1>2, <1>3, <1>4, <1>5, <1>6, <1>7, <1>8

LEMMA InitBooks == Init => Books
<1> SUFFICES ASSUME Init PROVE Books
  OBVIOUS
<1>1. /\ IInv /\ \A t \in EventTypes : handlers[t] = <<>>
      /\ subscribing = {} /\ loop = "select" /\ todo = <<>>
      /\ \A h \in HandlerIds : seen[h] = <<>> /\ removedAt[h] = -1
  BY InitIInv DEF Init
<1>2. IsInjective(<<>>) /\ ToSet(<<>>) = {}
  BY DEF IsInjective, ToSet
<1>3. Registered /\ Awaiting /\ ExactlyOnce /\ NoCallAfterRemoval
  BY <1>1, <1>2 DEF Registered, Awaiting, ExactlyOnce, NoCallAfterRemoval
<1>4. Dispatching
  BY <1>1, <1>2 DEF Dispatching
<1>5. QED
  BY <1>1, <1>3, <1>4 DEF Books

\* Steps that concern no handler: the channel, Emit, Close, the end of the loop.
LEMMA QuietBooks ==
  ASSUME Books, IInv', UNCHANGED <<registry, current, todo, seen>>, Taken' = Taken,
         \A n \in 1 .. Taken : accepted'[n] = accepted[n],
         loop' = loop \/ (loop = "select" /\ loop' = "exited")
  PROVE  Books'
<1>1. Registered' /\ Awaiting' /\ NoCallAfterRemoval'
  BY DEF Books, Registered, Awaiting, NoCallAfterRemoval, registry
<1>2. Dispatching'
  BY DEF Books, Dispatching, registry
<1>3. ASSUME NEW t \in EventTypes, NEW h \in ToSet(handlers'[t]) PROVE Once(t, h)'
  <2>1. h \in HandlerIds /\ handlers' = handlers /\ Once(t, h)
    BY <1>3, BusFacts, OnceFacts DEF Books, registry
  <2>2. Through(h)' = Through(h)
    BY DEF Through
  <2>3. since[h] \in Nat /\ Through(h) \in Int /\ Through(h) <= Taken /\ Taken \in Nat
    <3>1. /\ since[h] \in Nat /\ Taken \in Nat
          /\ Through(h) = Taken \/ Through(h) = Taken - 1
      BY <2>1, BusFacts DEF Books
    <3>2. QED
      BY <3>1
  <2>4. since'[h] = since[h] /\ seen'[h] = seen[h]
    BY DEF registry
  <2>5. {n \in since[h] + 1 .. Through(h) : accepted'[n] = t}
          = {n \in since[h] + 1 .. Through(h) : accepted[n] = t}
    <3>1. \A n \in since[h] + 1 .. Through(h) : n \in 1 .. Taken
      BY <2>3
    <3>2. QED
      BY <3>1
  <2>6. QED
    BY <2>1, <2>2, <2>4, <2>5 DEF Once
<1>4. QED
  BY <1>1, <1>2, <1>3, OnceFacts DEF Books

\* The loop takes an event: every handler has run for the ones before it.
LEMMA ReceiveBooks ==
  ASSUME Books, IInv', LoopReceive
  PROVE  Books'
<1>1. Taken \in Nat /\ Taken' = Taken + 1
  <2>1. /\ Len(eventCh') = Len(eventCh) - 1 /\ accepted' = accepted
        /\ Len(eventCh) \in Nat /\ Len(accepted) \in Nat
    BY HeadTailProperties DEF LoopReceive, Books, IInv, TypeOK
  <2>2. QED
    BY <2>1, BusFacts DEF Books, Taken
<1>2. /\ UNCHANGED <<registry, todo, seen, accepted>> /\ todo = <<>>
      /\ loop = "select" /\ loop' = "received"
  BY DEF LoopReceive, Books, Dispatching
<1>3. \A h \in HandlerIds : since[h] \in Nat /\ \A i \in DOMAIN seen[h] : seen[h][i] \in Nat
  BY BusFacts, ElementOfSeq DEF Books
<1>4. Registered'
  <2>1. \A t \in EventTypes : \A h \in ToSet(handlers[t]) : since[h] \in Nat /\ since[h] <= Taken
    BY <1>3, BusFacts DEF Books, Registered
  <2>2. \A t \in EventTypes : \A h \in ToSet(handlers[t]) :
          since[h] <= Taken + 1 /\ since[h] < Taken + 1
    BY <1>1, <2>1
  <2>3. QED
    BY <1>1, <1>2, <2>2 DEF Books, Registered, registry
<1>5. Awaiting' /\ NoCallAfterRemoval'
  BY <1>2 DEF Books, Awaiting, NoCallAfterRemoval, registry
<1>6. Dispatching'
  <2>1. \A h \in HandlerIds : \A i \in DOMAIN seen[h] : seen[h][i] <= Taken + 1
    BY <1>1, <1>3 DEF Books, Dispatching
  <2>2. ToSet(<<>>) = {} /\ IsInjective(<<>>)
    BY DEF ToSet, IsInjective
  <2>3. QED
    BY <1>1, <1>2, <2>1, <2>2 DEF Dispatching
<1>7. ASSUME NEW t \in EventTypes, NEW h \in ToSet(handlers'[t]) PROVE Once(t, h)'
  <2>1. Once(t, h)
    BY <1>2, <1>7, OnceFacts DEF Books, registry
  <2>2. Through(h) = Taken
    BY <1>2 DEF Through
  <2>3. Through(h)' = Taken
    <3>1. Through(h)' = Taken' - 1
      BY <1>2 DEF Through
    <3>2. QED
      BY <1>1, <3>1
  <2>4. QED
    BY <1>2, <2>1, <2>2, <2>3 DEF Once, registry
<1>8. QED
  BY <1>4, <1>5, <1>6, <1>7, OnceFacts DEF Books

\* dispatchEvent copies the handlers of the event's type.
LEMMA CopyBooks ==
  ASSUME Books, IInv', LoopCopy
  PROVE  Books'
<1>1. /\ UNCHANGED <<registry, seen, accepted>> /\ Taken' = Taken /\ loop = "received"
      /\ todo' = handlers[current]
      /\ \/ todo' = <<>> /\ loop' = "select"
         \/ current' = current /\ loop' = "dispatch"
  BY DEF LoopCopy, channel, Taken
<1>2. /\ Taken \in Nat /\ Taken > 0 /\ current = accepted[Taken] /\ current \in EventTypes
  <2>1. Taken \in Nat /\ Taken > 0 /\ current = accepted[Taken] /\ Taken <= Len(accepted)
        /\ accepted \in Seq(EventTypes)
    BY <1>1, BusFacts DEF Books, IInv, FifoChannel, TypeOK
  <2>2. QED
    BY <2>1, ElementOfSeq
<1>3. Registered' /\ NoCallAfterRemoval'
  BY <1>1 DEF Books, Registered, NoCallAfterRemoval, registry
<1>4. Awaiting'
  BY <1>1, <1>2 DEF Books, Awaiting, registry
<1>5. Dispatching'
  <2>1. /\ IsInjective(handlers[current])
        /\ \A h \in ToSet(handlers[current]) :
             h < nextID /\ since[h] < Taken /\ removedAt[h] = -1
    BY <1>1, <1>2 DEF Books, Registered
  <2>2. ToSet(<<>>) = {} /\ IsInjective(<<>>)
    BY DEF ToSet, IsInjective
  <2>3. \A h \in HandlerIds : \A i \in DOMAIN seen'[h] : seen'[h][i] <= Taken'
    BY <1>1 DEF Books, Dispatching
  <2>4. QED
    BY <1>1, <2>1, <2>2, <2>3 DEF Dispatching, registry
<1>6. ASSUME NEW t \in EventTypes, NEW h \in ToSet(handlers'[t]) PROVE Once(t, h)'
  <2>1. h \in ToSet(handlers[t]) /\ Once(t, h)
    BY <1>1, <1>6, OnceFacts DEF Books, registry
  <2>2. Through(h) = Taken - 1
    BY <1>1 DEF Through
  <2>3. CASE t = current
    <3>1. h \in ToSet(handlers[current]) /\ handlers[current] # <<>>
      BY <2>1, <2>3 DEF ToSet
    <3>2. Through(h)' = Taken - 1
      BY <1>1, <3>1 DEF Through
    <3>3. QED
      BY <1>1, <2>1, <2>2, <3>2 DEF Once, registry
  <2>4. CASE t # current
    <3>1. h \notin ToSet(handlers[current])
      BY <1>2, <2>1, <2>4 DEF Books, Registered
    <3>2. Through(h)' = Taken
      BY <1>1, <3>1 DEF Through
    <3>3. since[h] \in Nat
      BY <2>1, BusFacts DEF Books
    <3>4. {n \in since[h] + 1 .. Taken : accepted[n] = t}
            = {n \in since[h] + 1 .. Taken - 1 : accepted[n] = t}
      <4>1. \A n \in since[h] + 1 .. Taken : n = Taken \/ n \in since[h] + 1 .. Taken - 1
        BY <1>2, <3>3
      <4>2. \A n \in since[h] + 1 .. Taken - 1 : n \in since[h] + 1 .. Taken
        BY <1>2, <3>3
      <4>3. QED
        BY <1>2, <2>4, <4>1, <4>2
    <3>5. QED
      BY <1>1, <2>1, <2>2, <3>2, <3>4 DEF Once, registry
  <2>5. QED
    BY <2>3, <2>4
<1>7. QED
  BY <1>3, <1>4, <1>5, <1>6, OnceFacts DEF Books

\* The handler at the head of the copy runs, for the first time for this event.
LEMMA CallBooks ==
  ASSUME Books, IInv', CallHandler
  PROVE  Books'
<1> DEFINE next == Head(todo)
<1>1. /\ UNCHANGED <<registry, current, todo, accepted>> /\ Taken' = Taken
      /\ loop = "dispatch" /\ loop' = "handler" /\ todo # <<>>
      /\ seen' = [seen EXCEPT ![next] = Append(seen[next], Taken)]
  BY DEF CallHandler, channel, Taken, Books, IInv, TodoOK
<1>2. /\ next \in ToSet(todo) /\ next \notin ToSet(Tail(todo))
      /\ ToSet(todo) = ToSet(Tail(todo)) \cup {next}
      /\ next \in HandlerIds
  BY <1>1, BusFacts, TailDistinct DEF Books, Dispatching
<1>3. /\ Taken \in Nat /\ Taken > 0 /\ current = accepted[Taken] /\ since[next] \in Nat
      /\ since[next] < Taken /\ next < nextID
  BY <1>1, <1>2, BusFacts DEF Books, IInv, FifoChannel, Dispatching
<1> DEFINE was == seen[next]
           now == Append(seen[next], Taken)
<1>4. /\ was \in Seq(Nat) /\ DOMAIN was = 1 .. Len(was) /\ Len(was) \in Nat
      /\ DOMAIN now = 1 .. Len(was) + 1 /\ now[Len(was) + 1] = Taken
      /\ \A i \in 1 .. Len(was) : now[i] = was[i]
      /\ \A i \in 1 .. Len(was) : was[i] \in Nat
  <2>1. was \in Seq(Nat)
    BY <1>2, BusFacts DEF Books
  <2>2. DOMAIN was = 1 .. Len(was) /\ Len(was) \in Nat
    BY <2>1, LenProperties
  <2>3. /\ now \in Seq(Nat) /\ Len(now) = Len(was) + 1 /\ now[Len(was) + 1] = Taken
        /\ \A i \in 1 .. Len(was) : now[i] = was[i]
    BY <1>3, <2>1, AppendProperties
  <2>4. DOMAIN now = 1 .. Len(now)
    BY <2>3, LenProperties
  <2>5. \A i \in 1 .. Len(was) : was[i] \in Nat
    BY <2>1, <2>2, ElementOfSeq
  <2>6. QED
    BY <2>1, <2>2, <2>3, <2>4, <2>5
<1>5. seen'[next] = now /\ \A h \in HandlerIds : h # next => seen'[h] = seen[h]
  BY <1>1, <1>2 DEF Books, IInv, TypeOK
<1> HIDE DEF next, now, was
<1>6. Registered'
  BY <1>1 DEF Books, Registered, registry
<1>7. Awaiting'
  <2>1. \A s \in subscribing : s.id # next
    BY <1>2 DEF Books, Awaiting
  <2>2. \A h \in HandlerIds : h >= nextID => h # next
    BY <1>2, <1>3, BusFacts DEF Books
  <2>3. \A s \in subscribing : seen'[s.id] = <<>>
    BY <1>5, <2>1, BusFacts DEF Books, Awaiting
  <2>4. \A h \in HandlerIds : h >= nextID => seen'[h] = <<>>
    BY <1>5, <2>2 DEF Books, Awaiting
  <2>5. QED
    BY <1>1, <2>3, <2>4 DEF Books, Awaiting, registry
<1>8. Dispatching'
  <2>1. \A i \in DOMAIN now : now[i] <= Taken
    <3>1. \A i \in 1 .. Len(was) : was[i] <= Taken
      BY <1>2, <1>4 DEF Books, Dispatching, was
    <3>2. QED
      BY <1>3, <1>4, <3>1
  <2>2. \A h \in HandlerIds : \A i \in DOMAIN seen'[h] : seen'[h][i] <= Taken
    BY <1>5, <2>1 DEF Books, Dispatching
  <2>3. QED
    BY <1>1, <2>2 DEF Books, Dispatching, registry
<1>9. NoCallAfterRemoval'
  <2>1. ASSUME removedAt[next] # -1 PROVE \A i \in DOMAIN now : now[i] <= removedAt[next]
    <3>1. removedAt[next] = Taken
      BY <1>2, <2>1 DEF Books, Dispatching
    <3>2. \A i \in 1 .. Len(was) : was[i] <= Taken
      BY <1>2, <1>4 DEF Books, Dispatching, was
    <3>3. QED
      BY <1>3, <1>4, <3>1, <3>2
  <2>2. QED
    BY <1>1, <1>5, <2>1 DEF Books, NoCallAfterRemoval, registry
<1>10. ASSUME NEW t \in EventTypes, NEW h \in ToSet(handlers'[t]) PROVE Once(t, h)'
  <2>1. h \in ToSet(handlers[t]) /\ Once(t, h) /\ h \in HandlerIds
    BY <1>1, <1>10, OnceFacts, BusFacts DEF Books, registry
  <2>2. CASE h = next
    <3>1. t = current
      <4>1. removedAt[h] = -1 /\ h \in ToSet(handlers[current])
        BY <1>2, <2>1, <2>2 DEF Books, Registered, Dispatching
      <4>2. current \in EventTypes
        <5>1. accepted \in Seq(EventTypes)
          BY DEF Books, IInv, TypeOK
        <5>2. Taken \in 1 .. Len(accepted)
          BY <1>3, BusFacts DEF Books
        <5>3. QED
          BY <1>3, <5>1, <5>2, ElementOfSeq
      <4>3. QED
        BY <2>1, <4>1, <4>2 DEF Books, Registered
    <3>2. Through(h) = Taken - 1 /\ Through(h)' = Taken
      BY <1>1, <1>2, <2>2 DEF Through, next
    <3>3. /\ ToSet(was) = {n \in since[h] + 1 .. Taken - 1 : accepted[n] = t}
          /\ \A i, j \in DOMAIN was : i < j => was[i] < was[j]
      BY <2>1, <2>2, <3>2 DEF Once, was
    <3>4. ToSet(now) = ToSet(was) \cup {Taken}
      BY <1>4 DEF ToSet
    <3>5. {n \in since[h] + 1 .. Taken - 1 : accepted[n] = t} \cup {Taken}
            = {n \in since[h] + 1 .. Taken : accepted[n] = t}
      <4>1. since[h] \in Nat /\ since[h] < Taken
        BY <1>3, <2>2
      <4>2. \A n \in since[h] + 1 .. Taken : n = Taken \/ n \in since[h] + 1 .. Taken - 1
        BY <1>3, <4>1
      <4>3. Taken \in since[h] + 1 .. Taken
        BY <1>3, <4>1
      <4>4. \A n \in since[h] + 1 .. Taken - 1 : n \in since[h] + 1 .. Taken
        BY <1>3, <4>1
      <4>5. QED
        BY <1>3, <3>1, <4>2, <4>3, <4>4
    <3>6. \A i, j \in DOMAIN now : i < j => now[i] < now[j]
      <4>1. \A i \in DOMAIN was : was[i] < Taken
        <5>1. \A i \in DOMAIN was : was[i] \in since[h] + 1 .. Taken - 1
          BY <3>3 DEF ToSet
        <5>2. QED
          BY <1>3, <2>2, <5>1
      <4>2. QED
        BY <1>3, <1>4, <3>3, <4>1
    <3>7. QED
      BY <1>1, <1>5, <2>2, <3>2, <3>3, <3>4, <3>5, <3>6 DEF Once, registry
  <2>3. CASE h # next
    <3>1. Through(h)' = Through(h)
      <4>1. h \in ToSet(todo) <=> h \in ToSet(Tail(todo))
        BY <1>2, <2>3
      <4>2. QED
        BY <1>1, <4>1 DEF Through
    <3>2. QED
      BY <1>1, <1>5, <2>1, <2>3, <3>1 DEF Once, registry
  <2>4. QED
    BY <2>2, <2>3
<1>11. QED
  BY <1>6, <1>7, <1>8, <1>9, <1>10, OnceFacts DEF Books

LEMMA ReturnBooks ==
  ASSUME Books, IInv', HandlerReturn
  PROVE  Books'
<1>1. /\ UNCHANGED <<registry, seen, accepted>> /\ Taken' = Taken
      /\ loop = "handler" /\ todo # <<>> /\ todo' = Tail(todo)
      /\ \/ todo' = <<>> /\ loop' = "select"
         \/ current' = current /\ loop' = "dispatch"
  BY DEF HandlerReturn, channel, Taken, Books, IInv, TodoOK
<1>2. IsInjective(Tail(todo)) /\ ToSet(Tail(todo)) \subseteq ToSet(todo)
  BY <1>1, BusFacts, TailDistinct DEF Books, Dispatching
<1>3. Registered' /\ NoCallAfterRemoval'
  BY <1>1 DEF Books, Registered, NoCallAfterRemoval, registry
<1>4. Awaiting'
  BY <1>1, <1>2 DEF Books, Awaiting, registry
<1>5. Dispatching'
  <2>1. ToSet(<<>>) = {}
    BY DEF ToSet
  <2>2. QED
    BY <1>1, <1>2, <2>1 DEF Books, Dispatching, registry
<1>6. ASSUME NEW t \in EventTypes, NEW h \in ToSet(handlers'[t]) PROVE Once(t, h)'
  <2>1. Once(t, h)
    BY <1>1, <1>6, OnceFacts DEF Books, registry
  <2>2. Through(h)' = Through(h)
    <3>1. ToSet(<<>>) = {}
      BY DEF ToSet
    <3>2. QED
      BY <1>1, <3>1 DEF Through
  <2>3. QED
    BY <1>1, <2>1, <2>2 DEF Once, registry
<1>7. QED
  BY <1>3, <1>4, <1>5, <1>6, OnceFacts DEF Books

\* A place is asked for: the id is new.
LEMMA AskBooks ==
  ASSUME Books, IInv', NEW g \in Goroutines, NEW t \in EventTypes, SubscribeID(g, t)
  PROVE  Books'
<1>1. /\ UNCHANGED <<dispatch, handlers, since, removedAt, accepted>> /\ Taken' = Taken
      /\ nextID' = nextID + 1 /\ nextID \in HandlerIds
      /\ subscribing' = subscribing \cup {[by |-> g, type |-> t, id |-> nextID]}
  BY BusFacts, BusAssumption
  DEF SubscribeID, channel, Taken, HandlerIds, BusAssumption, Books
<1>2. nextID \in Nat /\ HandlerIds \subseteq Nat /\ ToSet(todo) \subseteq HandlerIds
      /\ \A u \in EventTypes : ToSet(handlers[u]) \subseteq HandlerIds
      /\ \A s \in subscribing : s.id \in HandlerIds
  BY BusFacts DEF Books
<1>3. \A h \in Nat : h < nextID => h < nextID + 1 /\ h # nextID
  BY <1>2
<1>4. Registered'
  <2>1. \A u \in EventTypes : \A h \in ToSet(handlers[u]) : h < nextID + 1
    BY <1>2, <1>3 DEF Books, Registered
  <2>2. QED
    BY <1>1, <2>1 DEF Books, Registered, dispatch
<1>5. Awaiting'
  <2> DEFINE new == [by |-> g, type |-> t, id |-> nextID]
  <2>1. new.id = nextID
    OBVIOUS
  <2>2. removedAt[nextID] = -1 /\ seen[nextID] = <<>>
    BY <1>1, <1>2 DEF Books, Awaiting
  <2>3. nextID \notin ToSet(todo) /\ \A u \in EventTypes : nextID \notin ToSet(handlers[u])
    BY <1>2, <1>3 DEF Books, Dispatching, Registered
  <2>4. \A s \in subscribing : s.id < nextID + 1 /\ s.id # nextID
    BY <1>2, <1>3 DEF Books, Awaiting
  <2>5. subscribing' = subscribing \cup {new}
    BY <1>1
  <2> HIDE DEF new
  <2>6. \A s \in subscribing' :
           /\ s.id < nextID + 1 /\ removedAt[s.id] = -1 /\ seen[s.id] = <<>>
           /\ s.id \notin ToSet(todo) /\ \A u \in EventTypes : s.id \notin ToSet(handlers[u])
    BY <1>2, <2>1, <2>2, <2>3, <2>4, <2>5 DEF Books, Awaiting
  <2>7. \A r, s \in subscribing' : r.id = s.id => r = s
    BY <2>1, <2>4, <2>5 DEF Books, Awaiting
  <2>8. \A h \in HandlerIds : h >= nextID + 1 => h >= nextID
    BY <1>2
  <2>9. \A h \in HandlerIds : h >= nextID + 1 => removedAt[h] = -1 /\ seen[h] = <<>>
    BY <2>8 DEF Books, Awaiting
  <2>10. QED
    BY <1>1, <2>6, <2>7, <2>9 DEF Awaiting, dispatch
<1>6. Dispatching'
  <2>1. \A h \in ToSet(todo) : h < nextID + 1
    BY <1>2, <1>3 DEF Books, Dispatching
  <2>2. QED
    BY <1>1, <2>1 DEF Books, Dispatching, dispatch
<1>7. ASSUME NEW u \in EventTypes, NEW h \in ToSet(handlers'[u]) PROVE Once(u, h)'
  <2>1. Once(u, h) /\ Through(h)' = Through(h)
    BY <1>1, <1>7, OnceFacts DEF Books, Through, dispatch
  <2>2. QED
    BY <1>1, <2>1 DEF Once, dispatch
<1>8. NoCallAfterRemoval'
  BY <1>1 DEF Books, NoCallAfterRemoval, dispatch
<1>9. QED
  BY <1>4, <1>5, <1>6, <1>7, <1>8, OnceFacts DEF Books

\* The handler gets its place, and has run for nothing yet.
LEMMA AppendBooks ==
  ASSUME Books, IInv', NEW s \in subscribing, SubscribeAppend(s)
  PROVE  Books'
<1> DEFINE id == s.id
           start == IF loop = "received" THEN Taken - 1 ELSE Taken
<1>1. /\ UNCHANGED <<dispatch, nextID, removedAt, accepted>> /\ Taken' = Taken
      /\ subscribing' = subscribing \ {s}
      /\ handlers' = [handlers EXCEPT ![s.type] = Append(handlers[s.type], id)]
      /\ since' = [since EXCEPT ![id] = start]
  BY DEF SubscribeAppend, channel, Taken
<1>2. /\ id \in HandlerIds /\ s.type \in EventTypes /\ id < nextID /\ removedAt[id] = -1
      /\ seen[id] = <<>> /\ id \notin ToSet(todo)
      /\ \A t \in EventTypes : id \notin ToSet(handlers[t])
  BY BusFacts DEF Books, Awaiting
<1>3. /\ Taken \in Nat /\ start \in Nat /\ start <= Taken
      /\ loop = "received" => start < Taken /\ start = Taken - 1
      /\ loop # "received" => start = Taken
  <2>1. Taken \in Nat /\ (loop = "received" => Taken > 0)
    BY BusFacts DEF Books, IInv, FifoChannel
  <2>2. QED
    BY <2>1
<1>4. \A t \in EventTypes : handlers[t] \in Seq(HandlerIds) /\ IsInjective(handlers[t])
  BY BusFacts DEF Books, Registered
<1>5. /\ \A t \in EventTypes : t # s.type => handlers'[t] = handlers[t]
      /\ IsInjective(handlers'[s.type])
      /\ ToSet(handlers'[s.type]) = ToSet(handlers[s.type]) \cup {id}
  <2> DEFINE own == handlers[s.type]
  <2>1. own \in Seq(HandlerIds) /\ IsInjective(own) /\ id \notin ToSet(own)
    BY <1>2, <1>4
  <2>2. handlers'[s.type] = Append(own, id) /\ \A t \in EventTypes : t # s.type => handlers'[t] = handlers[t]
    BY <1>1, <1>2 DEF Books, IInv, TypeOK
  <2> HIDE DEF own, id
  <2>3. IsInjective(Append(own, id)) /\ ToSet(Append(own, id)) = ToSet(own) \cup {id}
    BY <1>2, <2>1, AppendDistinct
  <2>4. QED
    BY <2>2, <2>3 DEF own
<1>6. since'[id] = start /\ \A h \in HandlerIds : h # id => since'[h] = since[h]
  BY <1>1, <1>2 DEF Books, IInv, TypeOK
<1> HIDE DEF id, start
<1>7. \A t \in EventTypes : \A h \in ToSet(handlers'[t]) :
        \/ h \in ToSet(handlers[t]) /\ h # id /\ h \in HandlerIds /\ since'[h] = since[h]
        \/ h = id /\ t = s.type
  <2>1. \A t \in EventTypes : ToSet(handlers[t]) \subseteq HandlerIds
    BY BusFacts DEF Books
  <2>2. QED
    BY <1>2, <1>5, <1>6, <2>1
<1>8. Registered'
  <2>1. \A t \in EventTypes : IsInjective(handlers'[t])
    BY <1>4, <1>5
  <2>2. ASSUME NEW t \in EventTypes, NEW h \in ToSet(handlers'[t])
        PROVE  /\ h < nextID /\ removedAt[h] = -1
               /\ since'[h] <= Taken /\ (loop = "received" => since'[h] < Taken)
    <3>1. CASE h = id
      BY <1>2, <1>3, <1>6, <3>1
    <3>2. CASE h # id
      BY <1>7, <2>2, <3>2 DEF Books, Registered
    <3>3. QED
      BY <3>1, <3>2
  <2>3. ASSUME NEW t \in EventTypes, NEW u \in EventTypes,
               NEW h \in ToSet(handlers'[t]), h \in ToSet(handlers'[u])
        PROVE  t = u
    BY <1>7, <2>3 DEF Books, Registered
  <2>4. QED
    BY <1>1, <2>1, <2>2, <2>3 DEF Registered, dispatch
<1>9. Awaiting'
  <2>1. \A r \in subscribing' : r \in subscribing /\ r.id # id
    BY <1>1 DEF Books, Awaiting, id
  <2>2. \A r \in subscribing' : \A t \in EventTypes : r.id \notin ToSet(handlers'[t])
    BY <1>7, <2>1 DEF Books, Awaiting
  <2>3. QED
    BY <1>1, <2>1, <2>2 DEF Books, Awaiting, dispatch
<1>10. Dispatching'
  <2>1. \A h \in ToSet(todo) : h # id /\ since'[h] = since[h]
    BY <1>2, <1>6, BusFacts DEF Books
  <2>2. \A h \in ToSet(todo) : removedAt[h] = -1 => h \in ToSet(handlers'[current])
    <3>1. ASSUME NEW h \in ToSet(todo) PROVE current \in EventTypes
      <4>1. ToSet(<<>>) = {}
        BY DEF ToSet
      <4>2. loop \in {"dispatch", "handler"}
        BY <4>1 DEF Books, Dispatching, IInv, TypeOK
      <4>3. current = accepted[Taken] /\ Taken > 0
        BY <4>2 DEF Books, IInv, FifoChannel
      <4>4. accepted \in Seq(EventTypes)
        BY DEF Books, IInv, TypeOK
      <4>5. Taken \in 1 .. Len(accepted)
        BY <1>3, <4>3, BusFacts DEF Books
      <4>6. QED
        BY <4>3, <4>4, <4>5, ElementOfSeq
    <3>2. \A t \in EventTypes : ToSet(handlers[t]) \subseteq ToSet(handlers'[t])
      BY <1>5
    <3>3. QED
      BY <3>1, <3>2 DEF Books, Dispatching
  <2>3. QED
    BY <1>1, <2>1, <2>2 DEF Books, Dispatching, dispatch
<1>11. ASSUME NEW t \in EventTypes, NEW h \in ToSet(handlers'[t]) PROVE Once(t, h)'
  <2>1. Through(h)' = Through(h)
    BY <1>1 DEF Through, dispatch
  <2>2. CASE h = id
    <3>1. Through(h) = start
      <4>1. h \notin ToSet(todo) /\ (todo # <<>> => h \notin ToSet(Tail(todo)))
        BY <1>2, <2>2, BusFacts, ToSetFacts DEF Books
      <4>2. loop \in {"dispatch", "handler"} => todo # <<>>
        BY DEF Books, IInv, TodoOK
      <4>3. QED
        BY <1>3, <4>1, <4>2 DEF Through
    <3>2. {n \in start + 1 .. start : accepted[n] = t} = {} /\ ToSet(<<>>) = {}
      <4>1. \A n \in start + 1 .. start : FALSE
        BY <1>3
      <4>2. QED
        BY <4>1 DEF ToSet
    <3>3. QED
      BY <1>1, <1>2, <1>6, <2>1, <2>2, <3>1, <3>2 DEF Once, dispatch
  <2>3. CASE h # id
    BY <1>1, <1>7, <1>11, <2>1, <2>3, OnceFacts DEF Books, Once, dispatch
  <2>4. QED
    BY <2>2, <2>3
<1>12. NoCallAfterRemoval'
  BY <1>1 DEF Books, NoCallAfterRemoval, dispatch
<1>13. QED
  BY <1>8, <1>9, <1>10, <1>11, <1>12, OnceFacts DEF Books

\* A handler loses its place; the dispatch under way may still reach it.
LEMMA RemoveBooks ==
  ASSUME Books, IInv', NEW g \in Goroutines, NEW t \in EventTypes, NEW id \in HandlerIds,
         UnsubscribeByID(g, t, id)
  PROVE  Books'
<1>1. PICK i \in DOMAIN handlers[t] :
        handlers[t][i] = id /\ handlers' = [handlers EXCEPT ![t] = RemoveAt(handlers[t], i)]
  BY DEF UnsubscribeByID
<1>2. /\ UNCHANGED <<dispatch, nextID, subscribing, since, accepted>> /\ Taken' = Taken
      /\ removedAt' = [removedAt EXCEPT ![id] = Taken]
  BY DEF UnsubscribeByID, channel, Taken
<1>3. /\ \A u \in EventTypes : u # t => handlers'[u] = handlers[u]
      /\ IsInjective(handlers'[t]) /\ ToSet(handlers'[t]) = ToSet(handlers[t]) \ {id}
  <2> DEFINE own == handlers[t]
  <2>1. own \in Seq(HandlerIds) /\ IsInjective(own) /\ i \in DOMAIN own /\ own[i] = id
    BY <1>1, BusFacts DEF Books, Registered
  <2>2. /\ handlers'[t] = RemoveAt(own, i)
        /\ \A u \in EventTypes : u # t => handlers'[u] = handlers[u]
    BY <1>1 DEF Books, IInv, TypeOK
  <2> HIDE DEF own
  <2>3. IsInjective(RemoveAt(own, i)) /\ ToSet(RemoveAt(own, i)) = ToSet(own) \ {own[i]}
    BY <2>1, RemoveAtDistinct
  <2>4. QED
    BY <2>1, <2>2, <2>3 DEF own
<1>4. /\ removedAt'[id] = Taken /\ \A h \in HandlerIds : h # id => removedAt'[h] = removedAt[h]
      /\ Taken \in Nat
  BY <1>2, BusFacts DEF Books, IInv, TypeOK
<1>5. id \in ToSet(handlers[t]) /\ id < nextID
  <2>1. id \in ToSet(handlers[t])
    BY <1>1 DEF ToSet
  <2>2. QED
    BY <2>1 DEF Books, Registered
<1>6. \A u \in EventTypes : \A h \in ToSet(handlers'[u]) :
        h \in ToSet(handlers[u]) /\ h # id /\ h \in HandlerIds
  <2>1. \A u \in EventTypes : u # t => id \notin ToSet(handlers[u])
    BY <1>5 DEF Books, Registered
  <2>2. \A u \in EventTypes : ToSet(handlers[u]) \subseteq HandlerIds
    BY BusFacts DEF Books
  <2>3. QED
    BY <1>3, <2>1, <2>2
<1>7. Registered'
  <2>1. \A u \in EventTypes : IsInjective(handlers'[u])
    BY <1>3 DEF Books, Registered
  <2>2. \A u \in EventTypes : \A h \in ToSet(handlers'[u]) :
          /\ h < nextID /\ removedAt'[h] = -1
          /\ since[h] <= Taken /\ (loop = "received" => since[h] < Taken)
    BY <1>4, <1>6 DEF Books, Registered
  <2>3. ASSUME NEW u \in EventTypes, NEW v \in EventTypes,
               NEW h \in ToSet(handlers'[u]), h \in ToSet(handlers'[v])
        PROVE  u = v
    BY <1>6, <2>3 DEF Books, Registered
  <2>4. QED
    BY <1>2, <2>1, <2>2, <2>3 DEF Registered, dispatch
<1>8. Awaiting'
  <2>1. \A s \in subscribing : s.id # id /\ s.id \in HandlerIds
    BY <1>5, BusFacts DEF Books, Awaiting
  <2>2. \A h \in HandlerIds : h >= nextID => h # id
    BY <1>5, BusFacts DEF Books
  <2>3. \A s \in subscribing : \A u \in EventTypes : s.id \notin ToSet(handlers'[u])
    BY <1>6 DEF Books, Awaiting
  <2>4. QED
    BY <1>2, <1>4, <2>1, <2>2, <2>3 DEF Books, Awaiting, dispatch
<1>9. Dispatching'
  <2>1. ASSUME NEW h \in ToSet(todo)
        PROVE  IF removedAt'[h] = -1 THEN h \in ToSet(handlers'[current])
                                     ELSE removedAt'[h] = Taken
    <3>1. CASE h = id
      BY <1>4, <3>1
    <3>2. CASE h # id
      <4>1. h \in HandlerIds /\ removedAt'[h] = removedAt[h]
        BY <1>4, <2>1, <3>2, BusFacts DEF Books
      <4>2. removedAt[h] = -1 => h \in ToSet(handlers'[current])
        <5>1. current \in EventTypes
          <6>1. ToSet(<<>>) = {}
            BY DEF ToSet
          <6>2. loop \in {"dispatch", "handler"}
            BY <2>1, <6>1 DEF Books, Dispatching, IInv, TypeOK
          <6>3. current = accepted[Taken] /\ Taken > 0 /\ accepted \in Seq(EventTypes)
            BY <6>2 DEF Books, IInv, FifoChannel, TypeOK
          <6>4. Taken \in 1 .. Len(accepted)
            BY <6>3, BusFacts DEF Books
          <6>5. QED
            BY <6>3, <6>4, ElementOfSeq
        <5>2. removedAt[h] = -1 => h \in ToSet(handlers[current])
          BY <2>1 DEF Books, Dispatching
        <5>3. h \in ToSet(handlers[current]) => h \in ToSet(handlers'[current])
          BY <1>3, <3>2, <5>1
        <5>4. QED
          BY <5>2, <5>3
      <4>3. QED
        BY <2>1, <4>1, <4>2 DEF Books, Dispatching
    <3>3. QED
      BY <3>1, <3>2
  <2>2. QED
    BY <1>2, <2>1 DEF Books, Dispatching, dispatch
<1>10. ASSUME NEW u \in EventTypes, NEW h \in ToSet(handlers'[u]) PROVE Once(u, h)'
  <2>1. Once(u, h) /\ Through(h)' = Through(h)
    BY <1>2, <1>6, <1>10, OnceFacts DEF Books, Through, dispatch
  <2>2. QED
    BY <1>2, <2>1 DEF Once, dispatch
<1>11. NoCallAfterRemoval'
  <2>1. \A i2 \in DOMAIN seen[id] : seen[id][i2] <= Taken
    BY DEF Books, Dispatching
  <2>2. QED
    BY <1>2, <1>4, <2>1 DEF Books, NoCallAfterRemoval, dispatch
<1>12. QED
  BY <1>7, <1>8, <1>9, <1>10, <1>11, OnceFacts DEF Books

LEMMA NextBooks == Books /\ [Next]_vars => Books'
<1> SUFFICES ASSUME Books, [Next]_vars PROVE Books'
  OBVIOUS
<1>1. IInv'
  BY NextIInv DEF Books
<1>2. ASSUME UNCHANGED <<registry, current, todo, seen, accepted, eventCh>>,
             loop' = loop \/ (loop = "select" /\ loop' = "exited")
      PROVE  Books'
  BY <1>1, <1>2, QuietBooks DEF Taken
<1>3. CASE \E g \in Goroutines :
             (\E e \in EventTypes : Emit(g, e)) \/ EmitDone(g) \/ EmitPanic(g)
  BY <1>2, <1>3 DEF Emit, EmitDone, EmitPanic, dispatch, channel
<1>4. ASSUME NEW g \in Goroutines, EmitSend(g) PROVE Books'
  <2>1. eventCh \in Seq(EventTypes) /\ accepted \in Seq(EventTypes) /\ out[g] \in EventTypes
    BY <1>4 DEF EmitSend, Books, IInv, TypeOK
  <2>2. /\ Len(eventCh') = Len(eventCh) + 1 /\ Len(accepted') = Len(accepted) + 1
        /\ \A n \in 1 .. Len(accepted) : accepted'[n] = accepted[n]
        /\ Len(eventCh) \in Nat /\ Len(accepted) \in Nat
    BY <1>4, <2>1, AppendProperties, LenProperties DEF EmitSend
  <2>3. Taken' = Taken
    BY <2>2 DEF Taken
  <2>4. \A n \in 1 .. Taken : n \in 1 .. Len(accepted)
    BY <2>2, BusFacts DEF Books
  <2>5. UNCHANGED <<registry, dispatch>>
    BY <1>4 DEF EmitSend
  <2>6. QED
    BY <1>1, <2>2, <2>3, <2>4, <2>5, QuietBooks DEF dispatch
<1>5. CASE LoopReceive \/ LoopCopy \/ CallHandler \/ HandlerReturn
  BY <1>1, <1>5, ReceiveBooks, CopyBooks, CallBooks, ReturnBooks
<1>6. ASSUME NEW g \in Goroutines, NEW t \in EventTypes,
             SubscribeID(g, t) \/ \E id \in HandlerIds : UnsubscribeByID(g, t, id)
      PROVE  Books'
  BY <1>1, <1>6, AskBooks, RemoveBooks
<1>7. ASSUME NEW s \in subscribing, SubscribeAppend(s) PROVE Books'
  BY <1>1, <1>7, AppendBooks
<1>8. CASE LoopExit \/ CloseCancel \/ CloseChannel \/ ParentCancel
  BY <1>2, <1>8 DEF LoopExit, CloseCancel, CloseChannel, ParentCancel, dispatch, channel
<1>9. CASE UNCHANGED vars
  BY <1>2, <1>9 DEF vars, dispatch, channel
<1>10. QED
  BY <1>3, <1>4, <1>5, <1>6, <1>7, <1>8, <1>9 DEF Next

LEMMA SafetyBooks == Safety => []Books
<1>1. QED
  BY InitBooks, NextBooks, PTL DEF Safety

(***************************************************************************)
(* A subscribed handler runs once, in order, for every event of its type   *)
(* taken since it was subscribed, however handlers and other goroutines    *)
(* subscribe and unsubscribe during a dispatch: dispatchEvent's copy.      *)
(***************************************************************************)
THEOREM SafetyExactlyOnce == Safety => []ExactlyOnce
<1>1. Books => ExactlyOnce
  BY DEF Books
<1>2. QED
  BY <1>1, SafetyBooks, PTL

(***************************************************************************)
(* UnsubscribeByID: no handler runs for an event taken after its removal.  *)
(***************************************************************************)
THEOREM SafetyNoCallAfterRemoval == Safety => []NoCallAfterRemoval
<1>1. Books => NoCallAfterRemoval
  BY DEF Books
<1>2. QED
  BY <1>1, SafetyBooks, PTL
=============================================================================
