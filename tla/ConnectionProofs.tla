-------------------------- MODULE ConnectionProofs --------------------------
(***************************************************************************)
(* What TLAPS proves of a connection's life, for any channel capacity and  *)
(* any number of lines read and sent.                                      *)
(***************************************************************************)
EXTENDS Connection, TLAPS, SequenceTheorems

\* A goroutine in SendRaw is there with a line.
LinesOK == \A s \in Senders : sender[s].pc # "idle" => sender[s].line \in Lines

\* Where Start and Stop are decides what the loops and the socket can be.
StopOK ==
  /\ user \in {"idle", "dial", "dialled", "start"} => reader = "off" /\ writer = "off"
  /\ user \in {"wait", "manual", "drain", "stopped"} => conn # "open"
  /\ StoppedIsFinal

ReaderOK == reader \in {"closing", "done"} => state \notin Live \/ ctxDone

\* Where a goroutine is when it has no Emit outstanding.
EmitOK ==
  /\ user \notin {"connected", "manual"} => Emitted(User)
  /\ reader \in {"off", "read", "done"} => Emitted(Reader)
  /\ \A s \in Senders : sender[s].pc = "lock" => Emitted(s)
  /\ sender[Loop].pc # "idle" => status = "busy"

\* Who emits which events.
KindOK ==
  /\ out[User] \in {NoEvent, Ev("connected"), Ev("manual")}
  /\ out[Reader] # Ev("manual")
  /\ \A s \in Senders :
       Emitted(s) \/ out[s].type \in {"raw_out", "echo", "lost", "report", "welcomed"}

ManualOK ==
  /\ out[User] = Ev("manual") => user = "manual"
  /\ \A i \in DOMAIN log : log[i] = Ev("manual") =>
       user \in {"manual", "drain", "stopped"} /\ Emitted(User)

\* EventRegistered is emitted again only while the first one is handled, and
\* what is handled was accepted.
Welcomed == \E k \in DOMAIN log : log[k] = Ev("registered")
WelcomeOK ==
  /\ current = Ev("registered") => Welcomed
  /\ \A g \in Goroutines : out[g] # NoEvent /\ out[g].type = "welcomed" => Welcomed

Control == StopOK /\ ReaderOK /\ EmitOK /\ KindOK
IInv == TypeOK /\ LinesOK /\ Control /\ ManualOK /\ WelcomeOK
        /\ NothingReceivedAfterManual
-----------------------------------------------------------------------------
\* The goroutines are different ones.
LEMMA Actors ==
  /\ User \in Goroutines /\ Reader \in Goroutines /\ Loop \in Senders
  /\ Senders \subseteq Goroutines /\ User \notin Senders /\ Reader \notin Senders
  /\ User # Reader
  /\ \A g \in Goroutines : g = User \/ g = Reader \/ g \in Senders
  /\ NoEvent \notin EventTypes /\ Capacity \in Nat \ {0}
  /\ MaxLines \in Nat /\ MaxReads \in Nat /\ MaxReports \in Nat
  BY ConnectionAssumption DEF ConnectionAssumption, Goroutines, Senders

USE Actors DEF life, counts, handlers, SetState, Raise, CallerOnly, SenderOnly

\* Names as facts: what goroutines call and the events they emit.
LEMMA Events ==
  /\ \A t \in {"connected", "manual", "lost", "raw_in", "error", "registered", "parsed",
           "welcomed", "report"} : Ev(t) \in EventTypes
  /\ \A n \in Lines : RawOut(n) \in EventTypes /\ Echo(n) \in EventTypes
  BY DEF Ev, RawOut, Echo, EventTypes

\* Emits stores an event where nothing but out changes.
LEMMA EmitsType ==
  ASSUME TypeOK, NEW g \in Goroutines, NEW e \in EventTypes, Emits(g, e)
  PROVE  BusType'
  BY DEF Emits, TypeOK, BusType

\* The lines a flush hands over, and those it leaves.
LEMMA SplitLines ==
  ASSUME TypeOK, NEW k \in 0 .. Len(wbuf)
  PROVE  /\ wire \o SubSeq(wbuf, 1, k) \in Seq(Lines)
         /\ SubSeq(wbuf, k + 1, Len(wbuf)) \in Seq(Lines)
<1>0. wbuf \in Seq(Lines) /\ wire \in Seq(Lines) /\ Len(wbuf) \in Nat
  BY LenProperties DEF TypeOK, OutputType
<1>1. \A i \in 1 .. Len(wbuf) : wbuf[i] \in Lines
  BY <1>0, ElementOfSeq
<1>2. SubSeq(wbuf, 1, k) \in Seq(Lines)
  BY <1>0, <1>1, SubSeqProperties
<1>3. SubSeq(wbuf, k + 1, Len(wbuf)) \in Seq(Lines)
  BY <1>0, <1>1, SubSeqProperties
<1>4. QED
  BY <1>0, <1>2, <1>3, ConcatProperties

\* What does not change keeps its type.
LEMMA SameTypes ==
  ASSUME TypeOK
  PROVE  /\ UNCHANGED bus => BusType'
         /\ UNCHANGED <<state, ctxDone, link, handlers>> => LifeType'
         /\ UNCHANGED <<user, reader, received, reported, revived>> => ProgressType'
         /\ UNCHANGED output => OutputType'
         /\ UNCHANGED <<writer, sender, asked>> => SendType'
         /\ UNCHANGED <<writer, sender>> => OneHolder'
<1>1. UNCHANGED bus => BusType'
  BY DEF TypeOK, BusType, bus
<1>2. /\ UNCHANGED <<state, ctxDone, link, handlers>> => LifeType'
      /\ UNCHANGED <<user, reader, received, reported, revived>> => ProgressType'
  BY DEF TypeOK, LifeType, ProgressType, link
<1>3. UNCHANGED output => OutputType'
  BY DEF TypeOK, OutputType, output
<1>4. /\ UNCHANGED <<writer, sender, asked>> => SendType'
      /\ UNCHANGED <<writer, sender>> => OneHolder'
  BY DEF TypeOK, SendType, OneHolder
<1>5. QED
  BY <1>1, <1>2, <1>3, <1>4

LEMMA FlushType ==
  ASSUME TypeOK, FlushFails
  PROVE  OutputType'
  BY SplitLines DEF FlushFails, OutputType
-----------------------------------------------------------------------------
(* Types.  One lemma per goroutine, one step per action.                   *)

LEMMA InitTypes == Init => TypeOK /\ LinesOK
<1> SUFFICES ASSUME Init PROVE TypeOK /\ LinesOK
  OBVIOUS
<1> USE DEF Init, Bus!Init
<1>1. \A S : <<>> \in Seq(S)
  BY EmptySeq
<1>2. BusType /\ OutputType
  BY <1>1 DEF BusType, OutputType
<1>3. LifeType
  BY DEF LifeType
<1>4. ProgressType
  BY DEF ProgressType
<1>5. Idle \in [pc : SenderPc, line : Nat, echo : BOOLEAN] /\ Idle.pc = "idle"
  BY DEF Idle, SenderPc
<1>6. SendType /\ OneHolder /\ LinesOK
  BY <1>5 DEF SendType, OneHolder, LinesOK
<1>7. QED
  BY <1>2, <1>3, <1>4, <1>6 DEF TypeOK

\* Start, Stop and the reader leave the senders and the writer's lines alone.
LEMMA UserTypes ==
  ASSUME TypeOK, LinesOK, UserStep
  PROVE  TypeOK' /\ LinesOK'
<1>1. OutputType' /\ LinesOK'
  BY SameTypes DEF UserStep, Connect, DialFails, DialSucceeds, Connected, StartLoops, Stop,
    CancelConn,
    CloseConn, Disconnected, CancelBus, CloseBus, LinesOK
<1>2. SendType' /\ OneHolder'
  BY DEF UserStep, Connect, DialFails, DialSucceeds, Connected, StartLoops, Stop, CancelConn,
    CloseConn, Disconnected, CancelBus, CloseBus, TypeOK, SendType, OneHolder
<1>3. LifeType'
  BY DEF UserStep, Connect, DialFails, DialSucceeds, Connected, StartLoops, Stop, CancelConn,
    CloseConn, Disconnected, CancelBus, CloseBus, TypeOK, LifeType, Live, link
<1>4. ProgressType'
  BY DEF UserStep, Connect, DialFails, DialSucceeds, Connected, StartLoops, Stop, CancelConn,
    CloseConn, Disconnected, CancelBus, CloseBus, TypeOK, ProgressType
<1>5. BusType'
  <2>1. CASE StartLoops \/ Disconnected
    BY <2>1, Events, EmitsType DEF StartLoops, Disconnected
  <2>2. CASE CancelBus
    BY <2>2 DEF CancelBus, Bus!Cancel, TypeOK, BusType
  <2>3. CASE CloseBus
    BY <2>3 DEF CloseBus, Bus!Shut, TypeOK, BusType
  <2>4. CASE Connect \/ DialFails \/ DialSucceeds \/ Connected \/ Stop \/ CancelConn \/ CloseConn
    BY <2>4, SameTypes DEF Connect, DialFails, DialSucceeds, Connected, Stop, CancelConn,
      CloseConn
  <2>5. QED
    BY <2>1, <2>2, <2>3, <2>4 DEF UserStep
<1>6. QED
  BY <1>1, <1>2, <1>3, <1>4, <1>5 DEF TypeOK

\* Lose changes the bus by an Emit, and the state, or nothing.
LEMMA LoseTypes ==
  ASSUME TypeOK, NEW g \in Goroutines, Lose(g)
  PROVE  BusType' /\ state' \in {state, "Disconnected"} /\ revived' = revived
<1>1. CASE UNCHANGED <<bus, life>>
  BY <1>1, SameTypes
<1>2. CASE SetState("Disconnected") /\ Emits(g, Ev("lost"))
  BY <1>2, Events, EmitsType DEF SetState
<1>3. QED
  BY <1>1, <1>2 DEF Lose

LEMMA ReaderTypes ==
  ASSUME TypeOK, LinesOK, ReaderStep
  PROVE  TypeOK' /\ LinesOK'
<1>1. OutputType' /\ SendType' /\ OneHolder' /\ LinesOK'
  BY SameTypes DEF ReaderStep, ReaderCheck, ReadBlank, ReadFails, ReadLine, ReportUnparsable,
    HandleWelcome, HandleMessage, ReaderEnds, ReaderOnly, LinesOK
<1>2. BusType'
  BY SameTypes, LoseTypes, EmitsType, Events
  DEF ReaderStep, ReaderCheck, ReadBlank, ReadFails, ReadLine, ReportUnparsable,
    HandleWelcome, HandleMessage, ReaderEnds
<1>3. state' \in {state, "Disconnected", "Registered"}
  BY LoseTypes DEF ReaderStep, ReaderCheck, ReadBlank, ReadFails, ReadLine, ReportUnparsable,
    HandleWelcome, HandleMessage, ReaderEnds
<1>4. LifeType'
  BY <1>3 DEF ReaderStep, ReaderCheck, ReadBlank, ReadFails, ReadLine, ReportUnparsable,
    HandleWelcome, HandleMessage, ReaderEnds, ReaderOnly, TypeOK, LifeType, Live, link
<1>5. ProgressType'
  <2>1. revived' \in {revived, revived + 1}
    BY LoseTypes DEF ReaderStep, ReaderCheck, ReadBlank, ReadFails, ReadLine,
      ReportUnparsable, HandleWelcome, HandleMessage, ReaderEnds
  <2>2. QED
    BY <2>1 DEF ReaderStep, ReaderCheck, ReadBlank, ReadFails, ReadLine, ReportUnparsable,
      HandleWelcome, HandleMessage, ReaderEnds, ReaderOnly, TypeOK, ProgressType
<1>6. QED
  BY <1>1, <1>2, <1>4, <1>5 DEF TypeOK

LEMMA SenderTypes ==
  ASSUME TypeOK, LinesOK, NEW s \in Senders, SenderStep(s)
  PROVE  TypeOK' /\ LinesOK'
<1>1. state' \in {state, "Disconnected"}
  BY LoseTypes DEF SenderStep, Send, Command, Ask, Lock, Write, WriteFails, SendReturns,
    Report, ReemitWelcome
<1>2. LifeType' /\ ProgressType'
  <2>1. CallerOnly
    BY DEF SenderStep, Send, Command, Ask, Lock, Write, WriteFails, SendReturns, Report,
      ReemitWelcome
  <2>2. registering' \in {registering, FALSE}
    BY DEF SenderStep, Send, Command, Ask, Lock, Write, WriteFails, SendReturns, Report,
      ReemitWelcome
  <2>3. reported' \in 0 .. MaxReports
    <3>1. reported' = reported \/ (reported < MaxReports /\ reported' = reported + 1)
      BY DEF SenderStep, Send, Command, Ask, Lock, Write, WriteFails, SendReturns, Report,
        ReemitWelcome
    <3>2. QED
      BY <3>1 DEF TypeOK, ProgressType
  <2>4. revived' = revived
    BY LoseTypes DEF SenderStep, Send, Command, Ask, Lock, Write, WriteFails, SendReturns,
      Report,
      ReemitWelcome
  <2>5. LifeType'
    BY <1>1, <2>1, <2>2 DEF TypeOK, LifeType, link, Live
  <2>6. QED
    BY <2>1, <2>3, <2>4, <2>5 DEF TypeOK, ProgressType
<1>3. SendType' /\ OneHolder' /\ LinesOK'
  <2>1. CASE Send(s) \/ \E echo \in BOOLEAN : Command(s, echo)
    <3>1. PICK echo \in BOOLEAN : MaySend(s) /\ Ask(s, echo)
      BY <2>1 DEF Send, Command
    <3>2. asked + 1 \in Lines /\ asked + 1 \in Nat /\ asked' \in 0 .. MaxLines
      BY <3>1 DEF MaySend, Ask, Lines, TypeOK, SendType
    <3>3. QED
      BY <3>1, <3>2 DEF Ask, SenderOnly, TypeOK, SendType, SenderPc, OneHolder, LinesOK
  <2>2. CASE Lock(s) /\ sender'[s].pc = "write"
    BY <2>2 DEF Lock, MuxFree, SenderOnly, TypeOK, SendType, SenderPc, OneHolder, LinesOK, Idle
  <2>3. CASE Write(s) /\ sender'[s].pc = "echo"
    <3>1. /\ sender[s].pc = "write" /\ UNCHANGED <<writer, asked>>
          /\ sender' = [sender EXCEPT ![s].pc = "echo"]
      BY <2>3 DEF Write, TypeOK, SendType, Idle
    <3>2. QED
      BY <3>1 DEF TypeOK, SendType, SenderPc, OneHolder, LinesOK
  <2>4. CASE (Lock(s) \/ Write(s)) /\ sender' = [sender EXCEPT ![s] = Idle]
    BY <2>4 DEF Lock, Write, SenderOnly, TypeOK, SendType, SenderPc, OneHolder, LinesOK, Idle
  <2>5. Lock(s) => sender'[s].pc = "write" \/ sender' = [sender EXCEPT ![s] = Idle]
    BY DEF Lock, TypeOK, SendType
  <2>6. Write(s) => sender'[s].pc = "echo" \/ sender' = [sender EXCEPT ![s] = Idle]
    BY DEF Write, TypeOK, SendType
  <2>7. CASE WriteFails(s)
    BY <2>7 DEF WriteFails, SenderOnly, TypeOK, SendType, SenderPc, OneHolder, LinesOK
  <2>8. CASE SendReturns(s)
    BY <2>8 DEF SendReturns, SenderOnly, TypeOK, SendType, SenderPc, OneHolder, LinesOK, Idle
  <2>9. CASE Report(s) \/ ReemitWelcome
    BY <2>9, SameTypes DEF Report, ReemitWelcome, LinesOK
  <2>10. QED
    BY <2>1, <2>2, <2>3, <2>4, <2>5, <2>6, <2>7, <2>8, <2>9 DEF SenderStep
<1>4. OutputType'
  <2>1. CASE Write(s)
    <3>1. sender[s].line \in Lines
      BY <2>1 DEF Write, LinesOK
    <3>2. Append(wbuf, sender[s].line) \in Seq(Lines) /\ wire \o wbuf \in Seq(Lines)
          /\ <<sender[s].line>> \in Seq(Lines)
      BY <3>1, AppendProperties, ConcatProperties DEF TypeOK, OutputType
    <3>3. QED
      BY <2>1, <3>2 DEF Write, TypeOK, OutputType
  <2>2. CASE ~Write(s)
    BY <2>2, SameTypes, FlushType
    DEF SenderStep, Send, Command, Ask, Lock, WriteFails, SendReturns, Report, ReemitWelcome
  <2>3. QED
    BY <2>1, <2>2
<1>5. BusType'
  <2>1. CASE Lock(s) \/ Write(s)
    <3>1. sender[s].line \in Lines
      BY <2>1 DEF Lock, Write, LinesOK
    <3>2. QED
      BY <2>1, <3>1, Events, SameTypes, EmitsType DEF Lock, Write
  <2>2. CASE ~Lock(s) /\ ~Write(s)
    BY <2>2, SameTypes, LoseTypes, EmitsType, Events
    DEF SenderStep, Send, Command, Ask, WriteFails, SendReturns, Report, ReemitWelcome
  <2>3. QED
    BY <2>1, <2>2
<1>6. QED
  BY <1>2, <1>3, <1>4, <1>5 DEF TypeOK

LEMMA OtherTypes ==
  ASSUME TypeOK, LinesOK, WriterStep \/ BusStep \/ PeerLeaves \/ AppCancel
  PROVE  TypeOK' /\ LinesOK'
<1>1. CASE WriterStep
  <2>1. OutputType'
    <3>1. CASE FlushEnds
      <4>1. wire \o wbuf \in Seq(Lines) /\ <<>> \in Seq(Lines)
        BY ConcatProperties, EmptySeq DEF TypeOK, OutputType
      <4>2. QED
        BY <3>1, <4>1, FlushType DEF FlushEnds, TypeOK, OutputType
    <3>2. QED
      BY <1>1, <3>1, SameTypes DEF WriterStep, WriterEnds, Tick, FlushStarts
  <2>2. BusType' /\ LifeType' /\ ProgressType' /\ LinesOK'
    BY <1>1, SameTypes
    DEF WriterStep, WriterEnds, Tick, FlushStarts, FlushEnds, WriterOnly, LinesOK
  <2>3. SendType' /\ OneHolder'
    BY <1>1 DEF WriterStep, WriterEnds, Tick, FlushStarts, FlushEnds, WriterOnly, MuxFree,
      TypeOK, SendType, OneHolder
  <2>4. QED
    BY <2>1, <2>2, <2>3 DEF TypeOK
<1>2. CASE BusStep
  <2>1. OutputType' /\ SendType' /\ OneHolder' /\ LinesOK'
    BY <1>2, SameTypes
    DEF BusStep, EmitEnds, Dispatch, HandlersReturn, LoopExits, BusOnly, LinesOK
  <2>2. tracked' \in {tracked, "Disconnected", "Connected", "Registered"}
    BY <1>2 DEF BusStep, EmitEnds, Dispatch, HandlersReturn, LoopExits
  <2>3. LifeType'
    BY <1>2, <2>2 DEF BusStep, EmitEnds, Dispatch, HandlersReturn, LoopExits, BusOnly,
      TypeOK, LifeType, link
  <2>4. ProgressType'
    BY <1>2, SameTypes
    DEF BusStep, EmitEnds, Dispatch, HandlersReturn, LoopExits, BusOnly
  <2>5. ASSUME NEW g \in Goroutines, EmitEnds(g) PROVE BusType'
    <3>1. log' \in Seq(EventTypes)
      <4>1. log \in Seq(EventTypes) /\ out[g] \in EventTypes \cup {NoEvent}
        BY DEF TypeOK, BusType
      <4>2. log' = log \/ (out[g] # NoEvent /\ log' = Append(log, out[g]))
        BY <2>5 DEF EmitEnds, Bus!Accept, Bus!Abandon, Bus!Crash
      <4>3. QED
        BY <4>1, <4>2, AppendProperties
    <3>2. QED
      BY <2>5, <3>1 DEF EmitEnds, Bus!Accept, Bus!Abandon, Bus!Crash, TypeOK, BusType
  <2>6. ASSUME Dispatch PROVE BusType'
    <3>1. pos + 1 \in 1 .. Len(log)
      BY <2>6, LenProperties DEF Dispatch, Bus!Take, TypeOK, BusType
    <3>2. current' \in EventTypes
      BY <2>6, <3>1, ElementOfSeq DEF Dispatch, Bus!Take, TypeOK, BusType
    <3>3. QED
      BY <2>6, <3>2 DEF Dispatch, Bus!Take, TypeOK, BusType
  <2>7. ASSUME HandlersReturn \/ LoopExits PROVE BusType'
    BY <2>7 DEF HandlersReturn, LoopExits, Bus!Finish, Bus!Exit, TypeOK, BusType
  <2>8. BusType'
    BY <1>2, <2>5, <2>6, <2>7 DEF BusStep
  <2>9. QED
    BY <2>1, <2>3, <2>4, <2>8 DEF TypeOK
<1>3. CASE PeerLeaves \/ AppCancel
  <2>1. OutputType' /\ ProgressType' /\ SendType' /\ OneHolder' /\ LinesOK'
    BY <1>3, SameTypes DEF PeerLeaves, AppCancel, LinesOK
  <2>2. ASSUME PeerLeaves PROVE BusType' /\ LifeType'
    BY <2>2, SameTypes DEF PeerLeaves, TypeOK, LifeType
  <2>3. ASSUME AppCancel PROVE BusType' /\ LifeType'
    BY <2>3 DEF AppCancel, Bus!Cancel, TypeOK, BusType, LifeType, link
  <2>4. QED
    BY <1>3, <2>1, <2>2, <2>3 DEF TypeOK
<1>4. QED
  BY <1>1, <1>2, <1>3
-----------------------------------------------------------------------------
(* Control.  Again one lemma per goroutine.                                *)

\* An Emit is outstanding for the goroutine that made it, and no other.
LEMMA EmitsOut ==
  ASSUME TypeOK, NEW g \in Goroutines, NEW e, Emits(g, e)
  PROVE  out'[g] = e /\ \A h \in Goroutines \ {g} : out'[h] = out[h]
  BY DEF Emits, TypeOK, BusType

LEMMA Kinds ==
  /\ \A s, t : Ev(s) = Ev(t) <=> s = t
  /\ Ev("manual") # NoEvent
  /\ \A t : Ev(t).type = t
  /\ \A n : RawOut(n).type = "raw_out" /\ Echo(n).type = "echo"
  BY Events DEF Ev, RawOut, Echo

LEMMA InitControl == Init => Control
<1> SUFFICES ASSUME Init PROVE Control
  OBVIOUS
<1>1. out = [g \in Goroutines |-> NoEvent] /\ sender = [s \in Senders |-> Idle]
  BY DEF Init, Bus!Init
<1>2. StopOK /\ ReaderOK
  BY DEF Init, StopOK, StoppedIsFinal, ReaderOK
<1>3. EmitOK /\ KindOK
  BY <1>1, Kinds DEF EmitOK, KindOK, Emitted, Idle
<1>4. QED
  BY <1>2, <1>3 DEF Control

LEMMA UserControl ==
  ASSUME TypeOK, Control, UserStep
  PROVE  Control'
<1> USE DEF Control
<1>1. StopOK'
  BY DEF UserStep, Connect, DialFails, DialSucceeds, Connected, StartLoops, Stop, CancelConn,
    CloseConn,
    Disconnected, CancelBus, CloseBus, StopOK, StoppedIsFinal, LoopsDone, link
<1>2. ReaderOK'
  BY DEF UserStep, Connect, DialFails, DialSucceeds, Connected, StartLoops, Stop, CancelConn,
    CloseConn,
    Disconnected, CancelBus, CloseBus, StopOK, ReaderOK, Live
<1>3. CASE StartLoops \/ Disconnected
  <2>1. PICK t \in {"connected", "manual"} : Emits(User, Ev(t)) /\ user' = t
    BY <1>3 DEF StartLoops, Disconnected
  <2>2. /\ out'[User] = Ev(t) /\ \A g \in Goroutines \ {User} : out'[g] = out[g]
        /\ UNCHANGED <<status, sender>>
    BY <1>3, <2>1, EmitsOut DEF StartLoops, Disconnected, Emits
  <2>3. reader' \in {"off", "read", "done"} => reader' = reader
    BY <1>3 DEF StartLoops, Disconnected
  <2>4. EmitOK' /\ KindOK'
    BY <2>1, <2>2, <2>3 DEF EmitOK, KindOK, Emitted
  <2>5. QED
    BY <1>1, <1>2, <2>4
<1>4. CASE ~StartLoops /\ ~Disconnected
  <2>1. UNCHANGED <<out, status, reader, sender>>
    BY <1>4 DEF UserStep, Connect, DialFails, DialSucceeds, Connected, Stop, CancelConn,
      CloseConn,
      CancelBus, CloseBus, Bus!Cancel, Bus!Shut, bus
  <2>2. user' \notin {"connected", "manual"} => Emitted(User)
    BY <1>4 DEF UserStep, Connect, DialFails, DialSucceeds, Connected, Stop, CancelConn,
      CloseConn,
      CancelBus, CloseBus, EmitOK
  <2>3. QED
    BY <1>1, <1>2, <2>1, <2>2 DEF EmitOK, KindOK, Emitted
<1>5. QED
  BY <1>3, <1>4

LEMMA LoseOut ==
  ASSUME TypeOK, NEW g \in Goroutines, Lose(g)
  PROVE  /\ out'[g] \in {out[g], Ev("lost")}
         /\ \A h \in Goroutines \ {g} : out'[h] = out[h]
         /\ status' = status
         /\ state' = state \/ state' = "Disconnected"
         /\ state' \notin Live
<1>1. CASE UNCHANGED <<bus, life>> /\ state \in Down
  BY <1>1 DEF bus, Live, Down
<1>2. CASE SetState("Disconnected") /\ Emits(g, Ev("lost"))
  BY <1>2, EmitsOut DEF Emits, Live, SetState
<1>3. QED
  BY <1>1, <1>2 DEF Lose

LEMMA ReaderControl ==
  ASSUME TypeOK, Control, ReaderStep
  PROVE  Control'
<1> USE DEF Control
<1>1. UNCHANGED <<ctxDone, user, writer, sender, status>>
  BY LoseOut DEF ReaderStep, ReaderCheck, ReadBlank, ReadFails, ReadLine, ReportUnparsable,
    HandleWelcome, HandleMessage, ReaderEnds, ReaderOnly, Emits, bus
<1>2. user \notin {"idle", "dial", "dialled", "start", "manual", "drain", "stopped"}
  BY DEF ReaderStep, ReaderCheck, ReadBlank, ReadFails, ReadLine, ReportUnparsable,
    HandleWelcome, HandleMessage, ReaderEnds, StopOK, StoppedIsFinal, LoopsDone
<1>3. conn' = conn \/ conn' = "closed"
  BY DEF ReaderStep, ReaderCheck, ReadBlank, ReadFails, ReadLine, ReportUnparsable,
    HandleWelcome, HandleMessage, ReaderEnds, link
<1>4. StopOK'
  BY <1>1, <1>2, <1>3 DEF StopOK, StoppedIsFinal
<1>5. ReaderOK'
  BY LoseOut DEF ReaderStep, ReaderCheck, ReadBlank, ReadFails, ReadLine, ReportUnparsable,
    HandleWelcome, HandleMessage, ReaderEnds, ReaderOnly, ReaderOK
<1>6. \A g \in Goroutines \ {Reader} : out'[g] = out[g]
  BY LoseOut, EmitsOut DEF ReaderStep, ReaderCheck, ReadBlank, ReadFails, ReadLine,
    ReportUnparsable, HandleWelcome, HandleMessage, ReaderEnds, bus
<1>7. /\ reader' \in {"off", "read", "done"} => out'[Reader] = NoEvent
      /\ out'[Reader] # Ev("manual")
  BY LoseOut, EmitsOut, Kinds DEF ReaderStep, ReaderCheck, ReadBlank, ReadFails, ReadLine,
    ReportUnparsable, HandleWelcome, HandleMessage, ReaderEnds, bus, EmitOK, KindOK, Emitted
<1>8. EmitOK' /\ KindOK'
  BY <1>1, <1>6, <1>7 DEF EmitOK, KindOK, Emitted
<1>9. QED
  BY <1>4, <1>5, <1>8

LEMMA SenderControl ==
  ASSUME TypeOK, LinesOK, Control, NEW s \in Senders, SenderStep(s)
  PROVE  Control'
<1> USE DEF Control
<1>1. CallerOnly
  BY DEF SenderStep, Send, Command, Ask, Lock, Write, WriteFails, SendReturns, Report,
    ReemitWelcome
<1>2. state' = state \/ state' = "Disconnected"
  BY LoseOut DEF SenderStep, Send, Command, Ask, Lock, Write, WriteFails, SendReturns, Report,
    ReemitWelcome
<1>3. StopOK' /\ ReaderOK'
  BY <1>1, <1>2 DEF link, StopOK, StoppedIsFinal, LoopsDone, ReaderOK, Live
<1>4. status' = status /\ \A g \in Goroutines \ {s} : out'[g] = out[g]
  BY LoseOut, EmitsOut DEF SenderStep, Send, Command, Ask, Lock, Write, WriteFails,
    SendReturns, Report, ReemitWelcome, Emits, bus
<1>5. /\ \A t \in Senders \ {s} : sender'[t] = sender[t]
      /\ sender'[s].pc = "lock" => out'[s] = NoEvent
      /\ s = Loop => sender'[s].pc = "idle" \/ status = "busy"
      /\ out'[s] = NoEvent
         \/ out'[s].type \in {"raw_out", "echo", "lost", "report", "welcomed"}
  <2>1. CASE Send(s) \/ \E echo \in BOOLEAN : Command(s, echo)
    BY <2>1 DEF Send, Command, MaySend, Free, Ask, bus, Emitted, TypeOK, SendType
  <2>2. CASE Lock(s)
    <3>1. sender[s].pc = "lock" /\ (s = Loop => status = "busy") /\ Emitted(s)
      BY <2>2 DEF Lock, EmitOK
    <3>2. CASE UNCHANGED bus /\ sender' = [sender EXCEPT ![s] = Idle]
      BY <3>1, <3>2 DEF bus, Emitted, TypeOK, SendType, Idle
    <3>3. CASE Emits(s, RawOut(sender[s].line)) /\ sender' = [sender EXCEPT ![s].pc = "write"]
      BY <3>1, <3>3, EmitsOut, Kinds DEF TypeOK, SendType
    <3>4. QED
      BY <2>2, <3>2, <3>3 DEF Lock
  <2>3. CASE Write(s)
    <3>1. sender[s].pc = "write" /\ (s = Loop => status = "busy") /\ Emitted(s)
      BY <2>3 DEF Write, EmitOK
    <3>2. CASE UNCHANGED bus /\ sender' = [sender EXCEPT ![s] = Idle]
      BY <3>1, <3>2 DEF bus, Emitted, TypeOK, SendType, Idle
    <3>3. CASE Emits(s, Echo(sender[s].line)) /\ sender' = [sender EXCEPT ![s].pc = "echo"]
      BY <3>1, <3>3, EmitsOut, Kinds DEF TypeOK, SendType
    <3>4. QED
      BY <2>3, <3>2, <3>3 DEF Write
  <2>4. CASE WriteFails(s)
    <3>1. sender[s].pc = "write" /\ (s = Loop => status = "busy") /\ Emitted(s)
      BY <2>4 DEF WriteFails, EmitOK
    <3>2. QED
      BY <2>4, <3>1, LoseOut, Kinds DEF WriteFails, TypeOK, SendType, Emitted
  <2>5. CASE SendReturns(s)
    BY <2>5 DEF SendReturns, bus, Emitted, TypeOK, SendType, Idle
  <2>6. CASE Report(s) \/ (s = Loop /\ ReemitWelcome)
    <3>1. /\ sender[s] = Idle /\ sender' = sender
          /\ Emits(s, Ev("report")) \/ Emits(s, Ev("welcomed"))
      BY <2>6 DEF Report, ReemitWelcome, Free
    <3>2. out'[s] = Ev("report") \/ out'[s] = Ev("welcomed")
      BY <3>1, EmitsOut
    <3>3. QED
      BY <3>1, <3>2, Kinds DEF Idle
  <2>7. QED
    BY <2>1, <2>2, <2>3, <2>4, <2>5, <2>6 DEF SenderStep
<1>6. EmitOK' /\ KindOK'
  BY <1>1, <1>4, <1>5 DEF SenderOnly, EmitOK, KindOK, Emitted
<1>7. QED
  BY <1>3, <1>6

LEMMA OtherControl ==
  ASSUME TypeOK, Control, WriterStep \/ BusStep \/ PeerLeaves \/ AppCancel
  PROVE  Control'
<1> USE DEF Control
<1>1. CASE WriterStep
  BY <1>1 DEF WriterStep, WriterEnds, Tick, FlushStarts, FlushEnds, WriterOnly, bus, link,
    StopOK, StoppedIsFinal, LoopsDone, ReaderOK, EmitOK, KindOK, Emitted
<1>2. CASE BusStep
  <2>1. StopOK' /\ ReaderOK'
    BY <1>2 DEF BusStep, EmitEnds, Dispatch, HandlersReturn, LoopExits, BusOnly, link,
      StopOK, StoppedIsFinal, LoopsDone, ReaderOK
  <2>2. \A g \in Goroutines : out'[g] = out[g] \/ out'[g] = NoEvent
    BY <1>2 DEF BusStep, EmitEnds, Dispatch, HandlersReturn, LoopExits, TypeOK, BusType,
      Bus!Accept, Bus!Abandon, Bus!Crash, Bus!Take, Bus!Finish, Bus!Exit
  <2>3. sender[Loop].pc # "idle" => status' = "busy"
    BY <1>2 DEF BusStep, EmitEnds, Dispatch, HandlersReturn, LoopExits, EmitOK, Idle,
      Bus!Accept, Bus!Abandon, Bus!Crash, Bus!Take, Bus!Finish, Bus!Exit
  <2>4. UNCHANGED <<user, reader, sender>>
    BY <1>2 DEF BusStep, EmitEnds, Dispatch, HandlersReturn, LoopExits, BusOnly
  <2>5. EmitOK'
    BY <2>2, <2>3, <2>4 DEF EmitOK, Emitted
  <2>6. KindOK'
    BY <2>2, Kinds DEF KindOK, Emitted
  <2>7. QED
    BY <2>1, <2>5, <2>6
<1>3. CASE PeerLeaves \/ AppCancel
  BY <1>3 DEF PeerLeaves, AppCancel, Bus!Cancel, bus, link,
    StopOK, StoppedIsFinal, LoopsDone, ReaderOK, EmitOK, KindOK, Emitted
<1>4. QED
  BY <1>1, <1>2, <1>3
-----------------------------------------------------------------------------
(* The bus.                                                                *)

\* A goroutine emits only when it has no Emit outstanding, the loop's only
\* from within a handler.
LEMMA EmitsIsCall ==
  ASSUME NEW g \in Goroutines, NEW e \in EventTypes, Emits(g, e), Emitted(g),
         g = Loop => status = "busy"
  PROVE  Bus!Next
  BY DEF Emits, Emitted, Bus!Next, Bus!Call

LEMMA BusNext ==
  ASSUME TypeOK, LinesOK, Control, Next
  PROVE  Bus!Next \/ UNCHANGED bus
<1> USE DEF Control
<1>1. CASE UserStep
  <2>1. CASE StartLoops \/ Disconnected
    BY <2>1, EmitsIsCall, Events DEF StartLoops, Disconnected, EmitOK
  <2>2. CASE CancelBus \/ CloseBus
    BY <2>2 DEF CancelBus, CloseBus, Bus!Next
  <2>3. QED
    BY <1>1, <2>1, <2>2 DEF UserStep, Connect, DialFails, DialSucceeds, Connected, Stop,
      CancelConn,
      CloseConn
<1>2. CASE ReaderStep
  <2>1. Emitted(Reader) \/ UNCHANGED bus
    BY <1>2 DEF ReaderStep, ReaderCheck, ReadBlank, ReadFails, ReadLine, ReportUnparsable,
      HandleWelcome, HandleMessage, ReaderEnds, EmitOK
  <2>2. UNCHANGED bus \/ \E e \in EventTypes : Emits(Reader, e)
    BY <1>2, Events DEF ReaderStep, ReaderCheck, ReadBlank, ReadFails, ReadLine,
      ReportUnparsable, HandleWelcome, HandleMessage, ReaderEnds, Lose
  <2>3. QED
    BY <2>1, <2>2, EmitsIsCall
<1>3. ASSUME NEW s \in Senders, SenderStep(s) PROVE Bus!Next \/ UNCHANGED bus
  <2>1. CASE Send(s) \/ (\E echo \in BOOLEAN : Command(s, echo)) \/ SendReturns(s)
    BY <2>1 DEF Send, Command, Ask, SendReturns
  <2>2. CASE Lock(s) \/ Write(s) \/ WriteFails(s)
    <3>1. sender[s].line \in Lines /\ Emitted(s) /\ (s = Loop => status = "busy")
      BY <2>2 DEF Lock, Write, WriteFails, LinesOK, EmitOK
    <3>2. UNCHANGED bus \/ \E e \in EventTypes : Emits(s, e)
      BY <2>2, <3>1, Events DEF Lock, Write, WriteFails, Lose
    <3>3. QED
      BY <3>1, <3>2, EmitsIsCall
  <2>3. CASE Report(s) \/ (s = Loop /\ ReemitWelcome)
    <3>1. /\ Emitted(s) /\ (s = Loop => status = "busy")
          /\ \E e \in EventTypes : Emits(s, e)
      BY <2>3, Events DEF Report, ReemitWelcome, Free
    <3>2. QED
      BY <3>1, EmitsIsCall
  <2>4. QED
    BY <1>3, <2>1, <2>2, <2>3 DEF SenderStep
<1>4. CASE WriterStep \/ PeerLeaves
  BY <1>4 DEF WriterStep, WriterEnds, Tick, FlushStarts, FlushEnds, WriterOnly, PeerLeaves
<1>5. CASE BusStep \/ AppCancel
  BY <1>5 DEF BusStep, EmitEnds, Dispatch, HandlersReturn, LoopExits, AppCancel, Bus!Next
<1>6. QED
  BY <1>1, <1>2, <1>3, <1>4, <1>5 DEF Next

\* Only a goroutine whose Emit is accepted lengthens the log.
LEMMA LogGrows ==
  ASSUME Bus!Next \/ UNCHANGED bus
  PROVE  log' = log \/ \E g \in Goroutines : Bus!Accept(g)
  BY DEF Bus!Next, Bus!Call, Bus!Abandon, Bus!Crash, Bus!Take, Bus!Finish, Bus!Cancel,
    Bus!Exit, Bus!Shut, bus

\* Nobody but Start and Stop moves User or emits for it.
LEMMA OthersLeaveUser ==
  ASSUME TypeOK, Next, ~UserStep
  PROVE  user' = user /\ (out'[User] = out[User] \/ out'[User] = NoEvent)
<1>1. CASE ReaderStep
  BY <1>1, LoseOut, EmitsOut DEF ReaderStep, ReaderCheck, ReadBlank, ReadFails, ReadLine,
    ReportUnparsable, HandleWelcome, HandleMessage, ReaderEnds, ReaderOnly, bus
<1>2. ASSUME NEW s \in Senders, SenderStep(s)
      PROVE user' = user /\ out'[User] = out[User]
  <2>1. user' = user
    BY <1>2 DEF SenderStep, Send, Command, Ask, Lock, Write, WriteFails, SendReturns, Report,
      ReemitWelcome
  <2>2. out' = out \/ Lose(s) \/ \E e : Emits(s, e)
    BY <1>2 DEF SenderStep, Send, Command, Ask, Lock, Write, WriteFails, SendReturns, Report,
      ReemitWelcome, bus
  <2>3. QED
    BY <2>1, <2>2, LoseOut, EmitsOut
<1>3. CASE WriterStep \/ PeerLeaves \/ AppCancel
  BY <1>3 DEF WriterStep, WriterEnds, Tick, FlushStarts, FlushEnds, WriterOnly, PeerLeaves,
    AppCancel, Bus!Cancel, bus
<1>4. CASE BusStep
  BY <1>4 DEF BusStep, EmitEnds, Dispatch, HandlersReturn, LoopExits, BusOnly, TypeOK, BusType,
    Bus!Accept, Bus!Abandon, Bus!Crash, Bus!Take, Bus!Finish, Bus!Exit
<1>5. QED
  BY <1>1, <1>2, <1>3, <1>4 DEF Next

\* Events called "welcomed" come from the loop, which handles an accepted 001.
LEMMA WelcomeKept ==
  ASSUME TypeOK, LinesOK, Control, WelcomeOK, Next
  PROVE  WelcomeOK'
<1>1. Welcomed => Welcomed'
  <2>1. log' = log \/ \E g \in Goroutines : Bus!Accept(g)
    BY BusNext, LogGrows
  <2>2. ASSUME NEW g \in Goroutines, Bus!Accept(g) PROVE Welcomed => Welcomed'
    <3>1. /\ log' = Append(log, out[g]) /\ log \in Seq(EventTypes) /\ out[g] \in EventTypes
      BY <2>2 DEF Bus!Accept, TypeOK, BusType
    <3>2. DOMAIN log \subseteq DOMAIN log' /\ \A i \in DOMAIN log : log'[i] = log[i]
      BY <3>1, AppendProperties, LenProperties
    <3>3. QED
      BY <3>2 DEF Welcomed
  <2>3. QED
    BY <2>1, <2>2 DEF Welcomed
<1>2. current' = Ev("registered") => Welcomed'
  <2>1. ASSUME Bus!Take PROVE current' # NoEvent => \E k \in DOMAIN log : log[k] = current'
    <3>1. pos + 1 \in DOMAIN log
      BY <2>1, LenProperties DEF Bus!Take, TypeOK, BusType
    <3>2. QED
      BY <2>1, <3>1 DEF Bus!Take
  <2>2. Bus!Take \/ current' \in {current, NoEvent}
    BY BusNext DEF Bus!Next, Bus!Call, Bus!Accept, Bus!Abandon, Bus!Crash, Bus!Finish,
      Bus!Cancel, Bus!Exit, Bus!Shut, bus
  <2>3. CASE Bus!Take
    BY <1>1, <2>1, <2>3, Events DEF Welcomed
  <2>4. CASE current' \in {current, NoEvent}
    BY <1>1, <2>4, Events DEF WelcomeOK
  <2>5. QED
    BY <2>2, <2>3, <2>4
<1>3. ASSUME NEW g \in Goroutines, out'[g] # NoEvent, out'[g].type = "welcomed"
      PROVE  Welcomed'
  <2>1. CASE out'[g] = out[g]
    BY <1>1, <1>3, <2>1 DEF WelcomeOK
  <2>2. CASE out'[g] # out[g]
    <3>1. CASE UserStep
      <4>1. PICK t \in {"connected", "manual"} : Emits(User, Ev(t))
        BY <2>2, <3>1 DEF UserStep, Connect, DialFails, DialSucceeds, Connected, StartLoops,
          Stop,
          CancelConn, CloseConn, Disconnected, CancelBus, CloseBus, Bus!Cancel, Bus!Shut, bus
      <4>2. QED
        BY <1>3, <2>2, <4>1, EmitsOut, Kinds
    <3>2. CASE ReaderStep
      <4>1. PICK t \in {"raw_in", "error", "registered", "parsed", "lost"} :
              Emits(Reader, Ev(t))
        BY <2>2, <3>2 DEF ReaderStep, ReaderCheck, ReadBlank, ReadFails, ReadLine,
          ReportUnparsable, HandleWelcome, HandleMessage, ReaderEnds, Lose, bus
      <4>2. QED
        BY <1>3, <2>2, <4>1, EmitsOut, Kinds
    <3>3. ASSUME NEW s \in Senders, SenderStep(s) PROVE Welcomed'
      <4>1. CASE s = Loop /\ ReemitWelcome
        BY <1>1, <4>1 DEF ReemitWelcome, WelcomeOK
      <4>2. CASE ~(s = Loop /\ ReemitWelcome)
        <5>1. UNCHANGED bus \/ \E e \in EventTypes : (Emits(s, e) /\ e.type # "welcomed")
          <6>1. sender[s].pc # "idle" => sender[s].line \in Lines
            BY DEF LinesOK
          <6>2. CASE Lock(s) \/ Write(s)
            BY <6>1, <6>2, Events, Kinds DEF Lock, Write
          <6>3. CASE ~Lock(s) /\ ~Write(s)
            BY <3>3, <4>2, <6>3, Events, Kinds DEF SenderStep, Send, Command, Ask, WriteFails,
              SendReturns, Report, Lose
          <6>4. QED
            BY <6>2, <6>3
        <5>2. QED
          BY <1>3, <2>2, <5>1, EmitsOut DEF bus
      <4>3. QED
        BY <4>1, <4>2
    <3>4. CASE WriterStep \/ PeerLeaves \/ AppCancel
      BY <2>2, <3>4 DEF WriterStep, WriterEnds, Tick, FlushStarts, FlushEnds, WriterOnly,
        PeerLeaves, AppCancel, Bus!Cancel, bus
    <3>5. CASE BusStep
      BY <1>3, <2>2, <3>5 DEF BusStep, EmitEnds, Dispatch, HandlersReturn, LoopExits, TypeOK,
        BusType, Bus!Accept, Bus!Abandon, Bus!Crash, Bus!Take, Bus!Finish, Bus!Exit
    <3>6. QED
      BY <3>1, <3>2, <3>3, <3>4, <3>5 DEF Next
  <2>3. QED
    BY <2>1, <2>2
<1>4. QED
  BY <1>2, <1>3 DEF WelcomeOK

LEMMA ManualKept ==
  ASSUME TypeOK, LinesOK, Control, ManualOK, WelcomeOK, NothingReceivedAfterManual, Next
  PROVE  ManualOK' /\ NothingReceivedAfterManual'
<1>1. CASE log' = log
  <2>1. NothingReceivedAfterManual'
    BY <1>1 DEF NothingReceivedAfterManual
  <2>2. CASE UserStep
    <3>1. CASE StartLoops \/ Disconnected
      <4>1. user \in {"start", "wait"}
        BY <3>1 DEF StartLoops, Disconnected
      <4>2. \A i \in DOMAIN log : log[i] # Ev("manual")
        BY <4>1 DEF ManualOK
      <4>3. out'[User] = Ev("manual") => user' = "manual"
        BY <3>1, EmitsOut, Kinds DEF StartLoops, Disconnected
      <4>4. QED
        BY <1>1, <2>1, <4>2, <4>3 DEF ManualOK
    <3>2. CASE ~StartLoops /\ ~Disconnected
      <4>1. out' = out
        BY <2>2, <3>2 DEF UserStep, Connect, DialFails, DialSucceeds, Connected, Stop,
          CancelConn,
          CloseConn, CancelBus, CloseBus, Bus!Cancel, Bus!Shut, bus
      <4>2. /\ user \in {"manual", "drain", "stopped"} =>
                 user' \in {"manual", "drain", "stopped"}
            /\ user = "manual" => Emitted(User)
        BY <2>2, <3>2 DEF UserStep, Connect, DialFails, DialSucceeds, Connected, Stop,
          CancelConn,
          CloseConn, CancelBus, CloseBus
      <4>3. out[User] = Ev("manual") => user' = "manual"
        BY <2>2, <3>2, <4>2, Kinds DEF ManualOK, Emitted
      <4>4. QED
        BY <1>1, <2>1, <4>1, <4>2, <4>3 DEF ManualOK, Emitted
    <3>3. QED
      BY <2>1, <3>1, <3>2
  <2>3. CASE ~UserStep
    BY <1>1, <2>1, <2>3, OthersLeaveUser, Kinds DEF ManualOK, Emitted
  <2>4. QED
    BY <2>1, <2>2, <2>3
<1>2. ASSUME NEW g \in Goroutines, Bus!Accept(g)
      PROVE  ManualOK' /\ NothingReceivedAfterManual'
  <2>1. /\ log' = Append(log, out[g]) /\ out[g] # NoEvent
        /\ out' = [out EXCEPT ![g] = NoEvent]
        /\ out[g] \in EventTypes /\ log \in Seq(EventTypes)
    BY <1>2 DEF Bus!Accept, TypeOK, BusType
  <2>2. /\ DOMAIN log = 1 .. Len(log) /\ Len(log) \in Nat
        /\ DOMAIN log' = 1 .. Len(log) + 1
        /\ \A i \in DOMAIN log : log'[i] = log[i]
        /\ log'[Len(log) + 1] = out[g]
    BY <2>1, AppendProperties, LenProperties
  <2>3. user' = user
    <3>1. UserStep => log' = log
      BY DEF UserStep, Connect, DialFails, DialSucceeds, Connected, StartLoops, Stop,
        CancelConn, CloseConn,
        Disconnected, CancelBus, CloseBus, Emits, Bus!Cancel, Bus!Shut, bus
    <3>2. QED
      BY <2>2, <3>1, OthersLeaveUser
  <2>4. out[g] = Ev("manual") => g = User
    BY <2>1, Kinds DEF Control, KindOK, Emitted
  <2>5. ManualOK'
    BY <2>1, <2>2, <2>3, <2>4, Kinds DEF ManualOK, Emitted, TypeOK, BusType
  <2>6. ASSUME NEW i \in DOMAIN log, log[i] = Ev("manual")
        PROVE  /\ out[g].type \in {"raw_out", "echo", "lost", "report", "welcomed"}
               /\ out[g].type = "welcomed" => \E k \in 1 .. i - 1 : log[k] = Ev("registered")
    <3>1. g # User /\ g # Reader
      BY <2>1, <2>6 DEF ManualOK, Control, StopOK, StoppedIsFinal, LoopsDone, EmitOK, Emitted
    <3>2. out[g].type \in {"raw_out", "echo", "lost", "report", "welcomed"}
      BY <2>1, <3>1 DEF Control, KindOK, Emitted
    <3>3. ASSUME out[g].type = "welcomed"
          PROVE  \E k \in 1 .. i - 1 : log[k] = Ev("registered")
      <4>1. PICK k \in DOMAIN log : log[k] = Ev("registered")
        BY <2>1, <3>3 DEF WelcomeOK, Welcomed
      <4>2. ~(i < k) /\ i # k
        BY <2>6, <4>1, Kinds DEF NothingReceivedAfterManual
      <4>3. QED
        BY <2>2, <4>1, <4>2
    <3>4. QED
      BY <3>2, <3>3
  <2>7. NothingReceivedAfterManual'
    <3>1. SUFFICES ASSUME NEW i \in DOMAIN log', NEW j \in DOMAIN log',
                          log'[i] = Ev("manual"), i < j
          PROVE  /\ log'[j].type \in {"raw_out", "echo", "lost", "report", "welcomed"}
                 /\ log'[j].type = "welcomed" =>
                      \E k \in 1 .. i - 1 : log'[k] = Ev("registered")
      BY DEF NothingReceivedAfterManual
    <3>2. i \in DOMAIN log /\ log[i] = Ev("manual") /\ 1 .. i - 1 \subseteq DOMAIN log
      BY <2>2, <3>1
    <3>3. CASE j \in DOMAIN log
      BY <2>2, <3>1, <3>2, <3>3 DEF NothingReceivedAfterManual
    <3>4. CASE j = Len(log) + 1
      BY <2>2, <2>6, <3>2, <3>4
    <3>5. QED
      BY <2>2, <3>3, <3>4
  <2>8. QED
    BY <2>5, <2>7
<1>3. QED
  BY <1>1, <1>2, BusNext, LogGrows
-----------------------------------------------------------------------------
(* The invariant, and what follows from it.                                *)

LEMMA InitIInv == Init => IInv
<1> SUFFICES ASSUME Init PROVE IInv
  OBVIOUS
<1>1. log = <<>> /\ out = [g \in Goroutines |-> NoEvent]
  BY DEF Init, Bus!Init
<1>2. ManualOK /\ NothingReceivedAfterManual
  BY <1>1, Kinds DEF ManualOK, NothingReceivedAfterManual
<1>3. WelcomeOK
  BY <1>1, Events DEF Init, Bus!Init, WelcomeOK
<1>4. QED
  BY <1>2, <1>3, InitTypes, InitControl DEF IInv

LEMMA NextIInv == IInv /\ [Next]_vars => IInv'
<1> SUFFICES ASSUME IInv, [Next]_vars PROVE IInv'
  OBVIOUS
<1> USE DEF IInv
<1>1. CASE UNCHANGED vars
  <2>1. TypeOK' /\ LinesOK'
    BY <1>1, SameTypes DEF vars, TypeOK, LinesOK
  <2>2. Control'
    BY <1>1 DEF vars, bus, link, Control, StopOK, StoppedIsFinal, LoopsDone, ReaderOK, EmitOK,
      KindOK, Emitted
  <2>3. ManualOK' /\ WelcomeOK' /\ NothingReceivedAfterManual'
    BY <1>1 DEF vars, bus, ManualOK, WelcomeOK, Welcomed, NothingReceivedAfterManual, Emitted
  <2>4. QED
    BY <2>1, <2>2, <2>3
<1>2. CASE Next
  <2>1. TypeOK' /\ LinesOK'
    BY <1>2, UserTypes, ReaderTypes, SenderTypes, OtherTypes DEF Next
  <2>2. Control'
    BY <1>2, UserControl, ReaderControl, SenderControl, OtherControl DEF Next
  <2>3. QED
    BY <1>2, <2>1, <2>2, ManualKept, WelcomeKept
<1>3. QED
  BY <1>1, <1>2

LEMMA SafetyIInv == Safety => []IInv
<1>1. QED
  BY InitIInv, NextIInv, PTL DEF Safety

(***************************************************************************)
(* Whatever Start, Stop, the two loops and the senders do, the state stays *)
(* one Connection can be in and writeMux has at most one holder.           *)
(***************************************************************************)
THEOREM SafetyTypeOK == Safety => []TypeOK
<1>1. IInv => TypeOK
  BY DEF IInv
<1>2. QED
  BY <1>1, SafetyIInv, PTL

(***************************************************************************)
(* Disconnect's final state is final: no late 001, read error or write     *)
(* error of any goroutine undoes it, and no loop outlives it.              *)
(***************************************************************************)
THEOREM SafetyStoppedIsFinal == Safety => []StoppedIsFinal
<1>1. IInv => StoppedIsFinal
  BY DEF IInv, Control, StopOK
<1>2. QED
  BY <1>1, SafetyIInv, PTL

(***************************************************************************)
(* Every way out of readLoop but a cancelled context leaves the connection *)
(* reported as down.                                                       *)
(***************************************************************************)
THEOREM SafetyDeadReaderNotLive == Safety => []DeadReaderNotLive
<1>1. IInv => DeadReaderNotLive
  BY DEF IInv, Control, ReaderOK, DeadReaderNotLive
<1>2. QED
  BY <1>1, SafetyIInv, PTL

(***************************************************************************)
(* Nothing the connection receives is delivered after the event of a       *)
(* manual disconnect, for any interleaving of the goroutines that emit;    *)
(* what handlers, timers and senders add of their own may be.              *)
(***************************************************************************)
THEOREM SafetyNothingReceivedAfterManual == Safety => []NothingReceivedAfterManual
<1>1. IInv => NothingReceivedAfterManual
  BY DEF IInv
<1>2. QED
  BY <1>1, SafetyIInv, PTL

(***************************************************************************)
(* Every step of a connection is a step the bus allows, or none of its     *)
(* business: each goroutine has at most one Emit outstanding, the loop     *)
(* emits only from a handler and Close follows the loop's end.  With       *)
(* EventBus implementing Broadcast this joins the two components.          *)
(***************************************************************************)
THEOREM SafetyUsesBus == Safety => UsesBus
<1>1. Init => Bus!Init
  BY DEF Init
<1>2. IInv /\ [Next]_vars => [Bus!Next]_(Bus!vars)
  BY BusNext DEF IInv, vars, bus, Bus!vars
<1>3. QED
  BY <1>1, <1>2, SafetyIInv, PTL DEF Safety, UsesBus, Bus!Spec
=============================================================================
