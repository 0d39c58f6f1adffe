---------------------------- MODULE SendingProofs ----------------------------
(***************************************************************************)
(* What TLAPS proves of a connection's output, for any channel capacity    *)
(* and any number of lines: the order in which lines are announced and     *)
(* written, what is echoed, and how often a loss is reported.              *)
(***************************************************************************)
EXTENDS ConnectionProofs, SequenceLemmas

Written == wire \o wbuf

\* s has announced its line, and is about to write it.
Due(s) == sender[s].pc = "write" /\ Emitted(s)

\* A line is announced by its sender, with writeMux held.
RawOK ==
  /\ \A g \in Goroutines : ~Emitted(g) /\ out[g].type = "raw_out" =>
       g \in Senders /\ sender[g].pc = "write"
  /\ \A s \in Senders : sender[s].pc = "write" =>
       out[s] \in {NoEvent, RawOut(sender[s].line)}

EchoOK ==
  /\ \A g \in Goroutines : ~Emitted(g) /\ out[g].type = "echo" =>
       out[g].line \in ToSet(Written)
  /\ EchoIsWritten

\* How many of the first n elements of l are announcements.
Raws(l, n) == Cardinality({i \in 1 .. n : l[i].type = "raw_out"})

\* What the lines written are, and the line that is due.
InOrder ==
  \A i \in DOMAIN log : log[i].type = "raw_out" =>
    /\ Raws(log, i) <= Len(Written) => Written[Raws(log, i)] = log[i].line
    /\ ~werr => \A s \in Senders :
                  Due(s) /\ Raws(log, i) > Len(Written) => log[i].line = sender[s].line

\* Announced and not written is the line that is due, and no other.
Balanced ==
  /\ Len(Written) <= Raws(log, Len(log))
  /\ ~werr => /\ Raws(log, Len(log)) <= Len(Written) + 1
              /\ \A s \in Senders : Due(s) => Raws(log, Len(log)) = Len(Written) + 1
              /\ (\A s \in Senders : ~Due(s)) => Raws(log, Len(log)) = Len(Written)

Ordered == ~done => InOrder /\ Balanced

Losses == Reports(Ev("lost"))

\* Until the first dial succeeds nothing can be lost; after it, a loss is
\* reported only by the step that takes the state down.
Budget ==
  /\ user \in {"idle", "dial"} =>
       /\ conn = "nil" /\ \A s \in Senders : sender[s].pc \in {"idle", "lock"}
       /\ Losses = 0
  /\ Losses <= 1 + revived
  /\ state \notin Down => Losses <= revived

\* All that the order of lines and echoes rests on.
Sent == IInv /\ RawOK /\ EchoOK /\ Ordered
-----------------------------------------------------------------------------
USE Actors DEF life, counts, handlers, SetState, Raise, CallerOnly, SenderOnly

(* Sequences of events.                                                    *)

LEMMA Associative ==
  ASSUME NEW S, NEW s \in Seq(S), NEW t \in Seq(S), NEW u \in Seq(S)
  PROVE  (s \o t) \o u = s \o (t \o u)
  BY ConcatAssociative

LEMMA RawsFacts ==
  ASSUME NEW S, NEW l \in Seq(S)
  PROVE  /\ \A n \in Nat : Raws(l, n) \in Nat
         /\ \A m, n \in Nat : m <= n => Raws(l, m) <= Raws(l, n)
<1>1. \A n \in Nat : IsFiniteSet({i \in 1 .. n : l[i].type = "raw_out"})
  <2> SUFFICES ASSUME NEW n \in Nat
               PROVE  IsFiniteSet({i \in 1 .. n : l[i].type = "raw_out"})
    OBVIOUS
  <2>1. IsFiniteSet(1 .. n)
    BY FS_Interval
  <2>2. QED
    BY <2>1, FS_Subset
<1>2. \A n \in Nat : Raws(l, n) \in Nat
  BY <1>1, FS_CardinalityType DEF Raws
<1>3. ASSUME NEW m \in Nat, NEW n \in Nat, m <= n
      PROVE  Raws(l, m) <= Raws(l, n)
  <2>1. {i \in 1 .. m : l[i].type = "raw_out"} \subseteq {i \in 1 .. n : l[i].type = "raw_out"}
    BY <1>3
  <2>2. QED
    BY <1>1, <2>1, FS_Subset DEF Raws
<1>4. QED
  BY <1>2, <1>3

LEMMA RawsAppend ==
  ASSUME NEW S, NEW l \in Seq(S), NEW x \in S
  PROVE  /\ \A n \in 0 .. Len(l) : Raws(Append(l, x), n) = Raws(l, n)
         /\ Raws(Append(l, x), Len(l) + 1)
              = Raws(l, Len(l)) + (IF x.type = "raw_out" THEN 1 ELSE 0)
<1> DEFINE k == Append(l, x)
<1>1. /\ \A i \in 1 .. Len(l) : k[i] = l[i]
      /\ k[Len(l) + 1] = x /\ Len(l) \in Nat
  BY AppendProperties, LenProperties
<1> HIDE DEF k
<1>2. \A n \in 0 .. Len(l) : {i \in 1 .. n : k[i].type = "raw_out"} = {i \in 1 .. n : l[i].type = "raw_out"}
  BY <1>1
<1>3. \A n \in 0 .. Len(l) : Raws(k, n) = Raws(l, n)
  BY <1>2 DEF Raws
<1> DEFINE A == {i \in 1 .. Len(l) : l[i].type = "raw_out"}
           B == {i \in 1 .. Len(l) + 1 : k[i].type = "raw_out"}
<1>4. B = IF x.type = "raw_out" THEN A \cup {Len(l) + 1} ELSE A
  <2>1. CASE x.type = "raw_out"
    BY <1>1, <2>1
  <2>2. CASE x.type # "raw_out"
    BY <1>1, <2>2
  <2>3. QED
    BY <2>1, <2>2
<1>5. IsFiniteSet(A) /\ Len(l) + 1 \notin A
  <2>1. 1 \in Int /\ Len(l) \in Int
    BY <1>1
  <2>2. IsFiniteSet(1 .. Len(l))
    BY <2>1, FS_Interval
  <2>3. IsFiniteSet(A)
    BY <2>2, FS_Subset
  <2>4. QED
    BY <1>1, <2>3
<1>6. Cardinality(B) = Cardinality(A) + (IF x.type = "raw_out" THEN 1 ELSE 0)
  <2> HIDE DEF A, B
  <2>1. Cardinality(A) \in Nat
    BY <1>5, FS_CardinalityType
  <2>2. CASE x.type = "raw_out"
    BY <1>4, <1>5, <2>2, FS_AddElement
  <2>3. CASE x.type # "raw_out"
    BY <1>4, <2>1, <2>3
  <2>4. QED
    BY <2>2, <2>3
<1>7. QED
  BY <1>3, <1>6 DEF Raws, k
-----------------------------------------------------------------------------
(* The lines written.                                                      *)

LEMMA WrittenType == IInv => Written \in Seq(Lines)
  BY ConcatProperties DEF IInv, TypeOK, OutputType, Written

\* A flush moves lines from the buffer to the network and loses none on the way.
LEMMA FlushKeeps ==
  ASSUME IInv, FlushFails
  PROVE  Written' = Written
<1>1. wbuf \in Seq(Lines) /\ wire \in Seq(Lines) /\ Len(wbuf) \in Nat
  BY LenProperties DEF IInv, TypeOK, OutputType
<1>2. PICK k \in 0 .. Len(wbuf) : /\ wire' = wire \o SubSeq(wbuf, 1, k)
                                  /\ wbuf' = SubSeq(wbuf, k + 1, Len(wbuf))
  BY DEF FlushFails
<1>3. \A i \in 1 .. Len(wbuf) : wbuf[i] \in Lines
  BY <1>1, ElementOfSeq
<1> DEFINE a == SubSeq(wbuf, 1, k)
           b == SubSeq(wbuf, k + 1, Len(wbuf))
<1>4. a \in Seq(Lines) /\ b \in Seq(Lines)
  BY <1>1, <1>3, SubSeqProperties
<1>5. a \o b = wbuf
  <2>1. /\ 1 \in 1 .. Len(wbuf) + 1 /\ k \in (1 - 1) .. Len(wbuf)
        /\ Len(wbuf) \in k .. Len(wbuf)
    BY <1>1
  <2> HIDE DEF b, a
  <2>2. SubSeq(wbuf, 1, k) \o SubSeq(wbuf, k + 1, Len(wbuf)) = SubSeq(wbuf, 1, Len(wbuf))
    BY <1>1, <2>1, ConcatAdjacentSubSeq
  <2>3. QED
    BY <1>1, <2>2, SubSeqFull DEF a, b
<1> HIDE DEF a, b
<1>6. (wire \o a) \o b = wire \o (a \o b)
  <2>1. wire \in Seq(Lines)
    BY <1>1
  <2>2. a \in Seq(Lines) /\ b \in Seq(Lines)
    BY <1>4
  <2>3. QED
    BY <2>1, <2>2, Associative
<1>7. wire' = wire \o a /\ wbuf' = b
  BY <1>2 DEF a, b
<1>8. QED
  BY <1>5, <1>6, <1>7 DEF Written

\* The output after an action that is not a sender's write.
LEMMA SameOutput ==
  ASSUME IInv,
         \/ UserStep \/ ReaderStep \/ WriterStep \/ BusStep \/ PeerLeaves \/ AppCancel
         \/ \E s \in Senders : SenderStep(s) /\ ~Write(s)
  PROVE  Written' = Written /\ (werr => werr')
<1>1. CASE UNCHANGED output
  BY <1>1 DEF output, Written
<1>2. CASE FlushFails
  BY <1>2, FlushKeeps DEF FlushFails
<1>3. CASE FlushEnds
  <2>1. (wire \o wbuf) \o <<>> = wire \o wbuf
    <3>1. wire \o wbuf \in Seq(Lines)
      BY WrittenType DEF Written
    <3>2. QED
      BY <3>1, ConcatEmptySeq
  <2>2. CASE wire' = wire \o wbuf /\ wbuf' = <<>> /\ werr' = werr
    <3>1. wire' \o wbuf' = (wire \o wbuf) \o <<>>
      BY <2>2
    <3>2. QED
      BY <2>1, <2>2, <3>1 DEF Written
  <2>3. QED
    BY <1>2, <1>3, <2>2 DEF FlushEnds
<1>4. CASE UserStep
  BY <1>1, <1>4 DEF UserStep, Connect, DialFails, DialSucceeds, Connected, StartLoops, Stop,
    CancelConn,
    CloseConn, Disconnected, CancelBus, CloseBus
<1>5. CASE ReaderStep
  BY <1>1, <1>5 DEF ReaderStep, ReaderCheck, ReadBlank, ReadFails, ReadLine, ReportUnparsable,
    HandleWelcome, HandleMessage, ReaderEnds, ReaderOnly
<1>6. ASSUME NEW s \in Senders, SenderStep(s), ~Write(s)
      PROVE  UNCHANGED output \/ FlushFails
  BY <1>6 DEF SenderStep, Send, Command, Ask, Lock, WriteFails, SendReturns, Report,
    ReemitWelcome
<1>7. WriterStep => UNCHANGED output \/ FlushEnds
  BY DEF WriterStep, WriterEnds, Tick, FlushStarts
<1>8. CASE BusStep \/ PeerLeaves \/ AppCancel
  BY <1>1, <1>8 DEF BusStep, EmitEnds, Dispatch, HandlersReturn, LoopExits, BusOnly,
    PeerLeaves, AppCancel
<1>9. QED
  BY <1>1, <1>2, <1>3, <1>4, <1>5, <1>6, <1>7, <1>8

\* A write adds the sender's line after all the others.
LEMMA WriteAppends ==
  ASSUME IInv, NEW s \in Senders, Write(s)
  PROVE  /\ sender[s].line \in Lines /\ ~werr /\ werr' = werr
         /\ Written' = Append(Written, sender[s].line)
<1> DEFINE n == sender[s].line
<1>1. n \in Lines /\ ~werr /\ werr' = werr
  BY DEF Write, IInv, LinesOK
<1>2. wbuf \in Seq(Lines) /\ wire \in Seq(Lines) /\ wire \o wbuf \in Seq(Lines)
  BY ConcatProperties DEF IInv, TypeOK, OutputType
<1>3. \/ wbuf' = Append(wbuf, n) /\ wire' = wire
      \/ wire' = wire \o wbuf /\ wbuf' = <<n>>
  BY DEF Write
<1> HIDE DEF n
<1>4. <<n>> \in Seq(Lines)
  BY <1>1
<1>5. /\ Append(wbuf, n) = wbuf \o <<n>>
      /\ Append(wire \o wbuf, n) = (wire \o wbuf) \o <<n>>
  BY <1>1, <1>2, AppendIsConcat
<1>6. (wire \o wbuf) \o <<n>> = wire \o (wbuf \o <<n>>)
  BY <1>2, <1>4, ConcatAssociative
<1>7. Written' = Append(Written, n)
  BY <1>3, <1>5, <1>6 DEF Written
<1>8. QED
  BY <1>1, <1>7 DEF n

\* What is written stays written.
LEMMA WrittenGrows ==
  ASSUME IInv, Next
  PROVE  ToSet(Written) \subseteq ToSet(Written')
<1>1. ASSUME NEW s \in Senders, Write(s)
      PROVE  ToSet(Written) \subseteq ToSet(Written')
  <2>1. Written \in Seq(Lines) /\ sender[s].line \in Lines /\ <<sender[s].line>> \in Seq(Lines)
    BY <1>1, WrittenType, WriteAppends
  <2>2. Written' = Written \o <<sender[s].line>>
    BY <1>1, <2>1, WriteAppends, AppendIsConcat
  <2> DEFINE w == Written
             x == <<sender[s].line>>
  <2> HIDE DEF w, x
  <2>3. w \in Seq(Lines) /\ x \in Seq(Lines) /\ Written' = w \o x
    BY <2>1, <2>2 DEF w, x
  <2>4. ToSet(w) \subseteq ToSet(w \o x)
    BY <2>3, ToSetFacts
  <2>5. QED
    BY <2>3, <2>4 DEF w
<1>2. QED
  BY <1>1, SameOutput DEF Next
-----------------------------------------------------------------------------
(* The events on their way.                                                *)

\* A sender's step touches no other sender and no other goroutine's Emit.
LEMMA SenderAlone ==
  ASSUME IInv, NEW s \in Senders, SenderStep(s)
  PROVE  /\ CallerOnly /\ UNCHANGED <<log, pos, status, done, chOpen>>
         /\ \A t \in Senders \ {s} : sender'[t] = sender[t]
         /\ \A g \in Goroutines \ {s} : out'[g] = out[g]
<1>1. CallerOnly
  BY DEF SenderStep, Send, Command, Ask, Lock, Write, WriteFails, SendReturns, Report,
    ReemitWelcome
<1>2. \A t \in Senders \ {s} : sender'[t] = sender[t]
  BY DEF SenderStep, Send, Command, Ask, Lock, Write, WriteFails, SendReturns, Report,
    ReemitWelcome,
    IInv, TypeOK, SendType
<1>3. UNCHANGED bus \/ \E e : Emits(s, e)
  BY DEF SenderStep, Send, Command, Ask, Lock, Write, WriteFails, SendReturns, Report,
    ReemitWelcome, Lose
<1>4. TypeOK
  BY DEF IInv
<1>5. \A g \in Goroutines \ {s} : out'[g] = out[g]
  BY <1>3, <1>4, EmitsOut DEF bus
<1>6. UNCHANGED <<log, pos, status, done, chOpen>>
  BY <1>3 DEF Emits, bus
<1>7. QED
  BY <1>1, <1>2, <1>5, <1>6

\* What a sender's step does to the sender and to its Emit.
LEMMA SenderMoves ==
  ASSUME IInv, NEW s \in Senders, SenderStep(s)
  PROVE  \/ /\ sender[s].pc # "write" /\ sender'[s].pc \in {"idle", "lock"}
            /\ out'[s] \in {NoEvent, Ev("report"), Ev("welcomed")}
         \/ /\ Lock(s) /\ MuxFree
            /\ sender'[s] = [sender[s] EXCEPT !.pc = "write"]
            /\ out'[s] = RawOut(sender[s].line)
         \/ /\ Write(s) /\ Due(s)
            /\ \/ sender'[s].pc = "idle" /\ out'[s] = NoEvent
               \/ sender'[s].pc = "echo" /\ out'[s] = Echo(sender[s].line)
         \/ /\ WriteFails(s) /\ Due(s) /\ werr'
            /\ sender'[s].pc = "failed"
            /\ out'[s] \in {NoEvent, Ev("lost")}
<1>0. TypeOK /\ EmitOK /\ Idle.pc = "idle"
  BY DEF IInv, Control, Idle
<1>t. sender \in [Senders -> [pc : SenderPc, line : Nat, echo : BOOLEAN]]
  BY <1>0 DEF TypeOK, SendType
<1>1. CASE Send(s) \/ \E echo \in BOOLEAN : Command(s, echo)
  BY <1>t, <1>1 DEF Send, Command, MaySend, Free, Ask, bus, Emitted, Idle
<1>2. CASE Lock(s)
  <2>1. sender[s].pc = "lock" /\ MuxFree /\ out[s] = NoEvent
    BY <1>0, <1>2 DEF Lock, EmitOK, Emitted
  <2>2. CASE UNCHANGED bus /\ sender' = [sender EXCEPT ![s] = Idle]
    BY <1>0, <1>t, <2>1, <2>2 DEF bus
  <2>3. CASE Emits(s, RawOut(sender[s].line)) /\ sender' = [sender EXCEPT ![s].pc = "write"]
    <3>1. out'[s] = RawOut(sender[s].line)
      BY <1>0, <2>3, EmitsOut
    <3>2. sender'[s] = [sender[s] EXCEPT !.pc = "write"]
      BY <1>t, <2>3
    <3>3. QED
      BY <1>2, <2>1, <3>1, <3>2
  <2>4. QED
    BY <1>2, <2>2, <2>3 DEF Lock
<1>3. CASE Write(s)
  <2>1. Due(s)
    BY <1>3 DEF Write, Due
  <2>2. CASE UNCHANGED bus /\ sender' = [sender EXCEPT ![s] = Idle]
    BY <1>0, <1>t, <1>3, <2>1, <2>2 DEF bus, Due, Emitted
  <2>3. CASE Emits(s, Echo(sender[s].line)) /\ sender' = [sender EXCEPT ![s].pc = "echo"]
    <3>1. out'[s] = Echo(sender[s].line)
      BY <1>0, <2>3, EmitsOut
    <3>2. sender'[s].pc = "echo"
      BY <1>t, <2>3
    <3>3. QED
      BY <1>3, <2>1, <3>1, <3>2
  <2>4. QED
    BY <1>3, <2>2, <2>3 DEF Write
<1>4. CASE WriteFails(s)
  <2>1. Due(s) /\ werr'
    BY <1>0, <1>4 DEF WriteFails, Due, FlushFails, output, TypeOK, OutputType
  <2>2. sender'[s].pc = "failed"
    BY <1>t, <1>4 DEF WriteFails
  <2>3. out'[s] \in {NoEvent, Ev("lost")}
    BY <1>0, <1>4, LoseOut DEF WriteFails, Emitted
  <2>4. QED
    BY <1>4, <2>1, <2>2, <2>3
<1>5. CASE SendReturns(s)
  BY <1>0, <1>t, <1>5 DEF SendReturns, bus, Emitted
<1>6. CASE Report(s) \/ (s = Loop /\ ReemitWelcome)
  <2>1. /\ sender[s] = Idle /\ sender' = sender
        /\ Emits(s, Ev("report")) \/ Emits(s, Ev("welcomed"))
    BY <1>6 DEF Report, ReemitWelcome, Free
  <2>2. QED
    BY <1>0, <2>1, EmitsOut
<1>7. QED
  BY <1>1, <1>2, <1>3, <1>4, <1>5, <1>6 DEF SenderStep

\* Start, Stop and the reader emit neither announcements nor echoes.
LEMMA PlainEvents ==
  ASSUME IInv, UserStep \/ ReaderStep
  PROVE  /\ UNCHANGED <<sender, log>>
         /\ \A g \in Goroutines : out'[g] = out[g] \/ out'[g].type \notin {"raw_out", "echo"}
         /\ \A s \in Senders : out'[s] = out[s]
<1>0. TypeOK
  BY DEF IInv
<1>1. CASE UserStep
  <2>1. UNCHANGED <<sender, log>>
    BY <1>1 DEF UserStep, Connect, DialFails, DialSucceeds, Connected, StartLoops, Stop,
      CancelConn,
      CloseConn, Disconnected, CancelBus, CloseBus, Emits, bus, Bus!Cancel, Bus!Shut
  <2>2. UNCHANGED out \/ Emits(User, Ev("connected")) \/ Emits(User, Ev("manual"))
    BY <1>1 DEF UserStep, Connect, DialFails, DialSucceeds, Connected, StartLoops, Stop,
      CancelConn,
      CloseConn, Disconnected, CancelBus, CloseBus, bus, Bus!Cancel, Bus!Shut
  <2>3. QED
    BY <1>0, <2>1, <2>2, EmitsOut, Kinds
<1>2. CASE ReaderStep
  <2>1. UNCHANGED sender
    BY <1>2 DEF ReaderStep, ReaderCheck, ReadBlank, ReadFails, ReadLine, ReportUnparsable,
      HandleWelcome, HandleMessage, ReaderEnds, ReaderOnly
  <2>2. UNCHANGED bus \/ \E t \in {"lost", "raw_in", "error", "registered", "parsed"} :
                           Emits(Reader, Ev(t))
    BY <1>2 DEF ReaderStep, ReaderCheck, ReadBlank, ReadFails, ReadLine, ReportUnparsable,
      HandleWelcome, HandleMessage, ReaderEnds, Lose
  <2>3. QED
    BY <1>0, <2>1, <2>2, EmitsOut, Kinds DEF Emits, bus
<1>3. QED
  BY <1>1, <1>2

\* The end of an Emit: the bus accepts the event, or drops it after Cancel.
LEMMA EmitEnd ==
  ASSUME IInv, NEW g \in Goroutines, EmitEnds(g)
  PROVE  /\ UNCHANGED <<sender, output, done>>
         /\ \A h \in Goroutines \ {g} : out'[h] = out[h]
         /\ \/ Bus!Accept(g) /\ out'[g] = NoEvent
            \/ done /\ out'[g] = NoEvent /\ log' = log
            \/ UNCHANGED <<out, log>>
<1>1. /\ UNCHANGED <<sender, output, done>>
      /\ Bus!Accept(g) \/ Bus!Abandon(g) \/ Bus!Crash(g)
  BY DEF EmitEnds, BusOnly, Bus!Accept, Bus!Abandon, Bus!Crash
<1>2. out \in [Goroutines -> EventTypes \cup {NoEvent}]
  BY DEF IInv, TypeOK, BusType
<1>3. QED
  BY <1>1, <1>2 DEF Bus!Accept, Bus!Abandon, Bus!Crash

\* The other steps have nothing to do with senders and their events.
LEMMA QuietSteps ==
  ASSUME \/ WriterStep \/ Dispatch \/ HandlersReturn \/ LoopExits \/ PeerLeaves \/ AppCancel
  PROVE  UNCHANGED <<sender, log, out>>
  BY DEF WriterStep, WriterEnds, Tick, FlushStarts, FlushEnds, WriterOnly, Dispatch,
    HandlersReturn, LoopExits, BusOnly, PeerLeaves, AppCancel, bus, Bus!Take, Bus!Finish,
    Bus!Exit, Bus!Cancel

LEMMA Accepted ==
  ASSUME IInv, NEW g \in Goroutines, Bus!Accept(g)
  PROVE  /\ log' = Append(log, out[g]) /\ log \in Seq(EventTypes) /\ Len(log) \in Nat
         /\ out[g] \in EventTypes /\ ~Emitted(g)
         /\ DOMAIN log = 1 .. Len(log) /\ DOMAIN log' = 1 .. Len(log) + 1
         /\ Len(log') = Len(log) + 1
         /\ \A i \in 1 .. Len(log) : log'[i] = log[i]
         /\ log'[Len(log) + 1] = out[g]
<1>1. /\ log' = Append(log, out[g]) /\ out[g] # NoEvent
      /\ out[g] \in EventTypes /\ log \in Seq(EventTypes)
  BY DEF Bus!Accept, IInv, TypeOK, BusType
<1>2. QED
  BY <1>1, AppendProperties, LenProperties DEF Emitted

LEMMA RawKept ==
  ASSUME IInv, RawOK, Next
  PROVE  RawOK'
<1>1. CASE UserStep \/ ReaderStep
  BY <1>1, PlainEvents DEF RawOK, Emitted
<1>2. ASSUME NEW s \in Senders, SenderStep(s) PROVE RawOK'
  <2>1. /\ \A t \in Senders \ {s} : sender'[t] = sender[t]
        /\ \A g \in Goroutines \ {s} : out'[g] = out[g]
    BY <1>2, SenderAlone
  <2>2. /\ out'[s] # NoEvent /\ out'[s].type = "raw_out" => sender'[s].pc = "write"
        /\ sender'[s].pc = "write" => out'[s] \in {NoEvent, RawOut(sender'[s].line)}
    <3>1. sender[s] \in [pc : SenderPc, line : Nat, echo : BOOLEAN]
      BY DEF IInv, TypeOK, SendType
    <3>2. [sender[s] EXCEPT !.pc = "write"].line = sender[s].line
          /\ [sender[s] EXCEPT !.pc = "write"].pc = "write"
      BY <3>1
    <3>3. \/ /\ sender'[s].pc \in {"idle", "lock"}
             /\ out'[s] \in {NoEvent, Ev("report"), Ev("welcomed")}
          \/ /\ sender'[s] = [sender[s] EXCEPT !.pc = "write"]
             /\ out'[s] = RawOut(sender[s].line)
          \/ sender'[s].pc = "idle" /\ out'[s] = NoEvent
          \/ sender'[s].pc = "echo" /\ out'[s] = Echo(sender[s].line)
          \/ sender'[s].pc = "failed" /\ out'[s] \in {NoEvent, Ev("lost")}
      BY <1>2, SenderMoves
    <3>4. /\ Echo(sender[s].line).type = "echo" /\ Ev("lost").type = "lost"
          /\ Ev("report").type = "report" /\ Ev("welcomed").type = "welcomed"
          /\ RawOut(sender[s].line).type = "raw_out"
      BY Kinds
    <3>5. QED
      BY <3>2, <3>3, <3>4
  <2>3. QED
    BY <2>1, <2>2 DEF RawOK, Emitted
<1>3. ASSUME NEW g \in Goroutines, EmitEnds(g) PROVE RawOK'
  BY <1>3, EmitEnd DEF RawOK, Emitted
<1>4. CASE WriterStep \/ Dispatch \/ HandlersReturn \/ LoopExits \/ PeerLeaves \/ AppCancel
  BY <1>4, QuietSteps DEF RawOK, Emitted
<1>5. QED
  BY <1>1, <1>2, <1>3, <1>4 DEF Next, BusStep

\* A new echo is that of the line just written.
LEMMA NewEcho ==
  ASSUME IInv, Next, NEW g \in Goroutines, out'[g] # NoEvent, out'[g].type = "echo"
  PROVE  out'[g] = out[g] \/ out'[g].line \in ToSet(Written')
<1>1. CASE UserStep \/ ReaderStep
  BY <1>1, PlainEvents
<1>2. ASSUME NEW s \in Senders, SenderStep(s), g = s, out'[g] # out[g]
      PROVE  out'[g].line \in ToSet(Written')
  <2>1. Write(s) /\ out'[s] = Echo(sender[s].line)
    <3>1. out'[s] # NoEvent /\ out'[s].type = "echo"
      BY <1>2
    <3>2. \/ out'[s] \in {NoEvent, Ev("report"), Ev("welcomed"), Ev("lost")}
          \/ out'[s] = RawOut(sender[s].line)
          \/ Write(s) /\ out'[s] = Echo(sender[s].line)
      BY <1>2, SenderMoves
    <3>3. QED
      BY <3>1, <3>2, Kinds
  <2>2. Written \in Seq(Lines) /\ sender[s].line \in Lines
        /\ Written' = Append(Written, sender[s].line)
    BY <2>1, WriteAppends, WrittenType
  <2> DEFINE w == Written
             n == sender[s].line
  <2> HIDE DEF w, n
  <2>3. w \in Seq(Lines) /\ n \in Lines /\ Written' = Append(w, n)
    BY <2>2 DEF w, n
  <2>4. Append(w, n)[Len(w) + 1] = n /\ Len(w) + 1 \in DOMAIN Append(w, n)
    BY <2>3, AppendProperties, LenProperties
  <2>5. n \in ToSet(Written')
    BY <2>3, <2>4 DEF ToSet
  <2>6. Echo(sender[s].line).line = sender[s].line
    BY DEF Echo
  <2>7. QED
    BY <1>2, <2>1, <2>5, <2>6 DEF n
<1>3. ASSUME NEW s \in Senders, SenderStep(s), g # s PROVE out'[g] = out[g]
  BY <1>3, SenderAlone
<1>4. ASSUME NEW h \in Goroutines, EmitEnds(h) PROVE out'[g] = out[g]
  BY <1>4, EmitEnd
<1>5. CASE WriterStep \/ Dispatch \/ HandlersReturn \/ LoopExits \/ PeerLeaves \/ AppCancel
  BY <1>5, QuietSteps
<1>6. QED
  BY <1>1, <1>2, <1>3, <1>4, <1>5 DEF Next, BusStep

LEMMA EchoKept ==
  ASSUME IInv, EchoOK, Next
  PROVE  EchoOK'
<1>1. ToSet(Written) \subseteq ToSet(Written')
  BY WrittenGrows
<1>2. ASSUME NEW g \in Goroutines, out'[g] # NoEvent, out'[g].type = "echo"
      PROVE  out'[g].line \in ToSet(Written')
  BY <1>1, <1>2, NewEcho DEF EchoOK, Emitted
<1>3. TypeOK /\ LinesOK /\ Control
  BY DEF IInv
<1>4. log' = log \/ \E g \in Goroutines : Bus!Accept(g)
  BY <1>3, BusNext, LogGrows
<1>5. ASSUME NEW i \in DOMAIN log', log'[i].type = "echo"
      PROVE  log'[i].line \in ToSet(Written')
  <2>1. CASE log' = log
    BY <1>1, <1>5, <2>1 DEF EchoOK, EchoIsWritten, Written
  <2>2. ASSUME NEW g \in Goroutines, Bus!Accept(g)
        PROVE  log'[i].line \in ToSet(Written')
    <3>1. CASE i = Len(log) + 1
      <4>1. log'[i] = out[g] /\ ~Emitted(g)
        BY <2>2, <3>1, Accepted
      <4>2. QED
        BY <1>1, <1>5, <4>1 DEF EchoOK
    <3>2. CASE i # Len(log) + 1
      <4>1. i \in DOMAIN log /\ log'[i] = log[i]
        BY <2>2, <3>2, Accepted
      <4>2. QED
        BY <1>1, <1>5, <4>1 DEF EchoOK, EchoIsWritten, Written
    <3>3. QED
      BY <3>1, <3>2
  <2>3. QED
    BY <1>4, <2>1, <2>2
<1>6. EchoIsWritten'
  BY <1>5 DEF EchoIsWritten, Written
<1>7. QED
  BY <1>2, <1>6 DEF EchoOK, Emitted
-----------------------------------------------------------------------------
(* The order of the lines.  An action either writes, or ends an Emit, or   *)
(* leaves both the lines announced and those written as they are.          *)

LEMMA DoneStays == ASSUME Next, done PROVE done'
  BY DEF Next, UserStep, Connect, DialFails, DialSucceeds, Connected, StartLoops, Stop,
    CancelConn,
    CloseConn, Disconnected, CancelBus, CloseBus, ReaderStep, ReaderCheck, ReadBlank,
    ReadFails, ReadLine, ReportUnparsable, HandleWelcome, HandleMessage, ReaderEnds, Lose,
    SenderStep, Send, Command, Ask, Lock, Write, WriteFails, SendReturns, Report,
    ReemitWelcome, WriterStep,
    WriterEnds, Tick, FlushStarts, FlushEnds, WriterOnly, BusStep, EmitEnds, Dispatch,
    HandlersReturn, LoopExits, PeerLeaves, AppCancel, Emits, bus, Bus!Accept, Bus!Abandon,
    Bus!Crash, Bus!Take, Bus!Finish, Bus!Exit, Bus!Cancel, Bus!Shut

LEMMA LogFacts ==
  ASSUME IInv
  PROVE  /\ log \in Seq(EventTypes) /\ Len(log) \in Nat /\ DOMAIN log = 1 .. Len(log)
         /\ \A n \in Nat : Raws(log, n) \in Nat
         /\ \A i \in 1 .. Len(log) : Raws(log, i) <= Raws(log, Len(log))
<1>1. log \in Seq(EventTypes)
  BY DEF IInv, TypeOK, BusType
<1>2. Len(log) \in Nat /\ DOMAIN log = 1 .. Len(log)
  BY <1>1, LenProperties
<1>3. QED
  BY <1>1, <1>2, RawsFacts

LEMMA AcceptedRaws ==
  ASSUME IInv, NEW g \in Goroutines, Bus!Accept(g)
  PROVE  /\ \A n \in 0 .. Len(log) : Raws(log', n) = Raws(log, n)
         /\ Raws(log', Len(log) + 1)
              = Raws(log, Len(log)) + (IF out[g].type = "raw_out" THEN 1 ELSE 0)
<1>1. log \in Seq(EventTypes) /\ out[g] \in EventTypes /\ log' = Append(log, out[g])
  BY Accepted
<1>2. /\ \A n \in 0 .. Len(log) : Raws(Append(log, out[g]), n) = Raws(log, n)
      /\ Raws(Append(log, out[g]), Len(log) + 1)
           = Raws(log, Len(log)) + (IF out[g].type = "raw_out" THEN 1 ELSE 0)
  BY <1>1, RawsAppend
<1>3. QED
  BY <1>1, <1>2

\* Nothing announced or written: the same lines are due, or writing has failed.
LEMMA OrderStays ==
  ASSUME IInv, Ordered, ~done, log' = log, Written' = Written, werr => werr',
         werr' \/ \A s \in Senders : /\ Due(s)' <=> Due(s)
                                     /\ Due(s) => sender'[s].line = sender[s].line
  PROVE  InOrder' /\ Balanced'
<1>1. InOrder /\ Balanced
  BY DEF Ordered
<1>2. /\ DOMAIN log = 1 .. Len(log) /\ \A i \in 1 .. Len(log) : Raws(log', i) = Raws(log, i)
      /\ Raws(log', Len(log')) = Raws(log, Len(log))
      /\ Raws(log, Len(log)) \in Nat /\ Len(Written) \in Nat
  <2>1. Written \in Seq(Lines)
    BY WrittenType
  <2>2. QED
    BY <2>1, LogFacts, LenProperties
<1>3. InOrder'
  BY <1>1, <1>2 DEF InOrder
<1>4. Balanced'
  BY <1>1, <1>2 DEF Balanced
<1>5. QED
  BY <1>3, <1>4

\* The line that was due is written.
LEMMA OrderWritten ==
  ASSUME IInv, Ordered, ~done, NEW s \in Senders, Write(s), Due(s), sender'[s].pc # "write",
         log' = log, \A t \in Senders \ {s} : sender'[t] = sender[t]
  PROVE  InOrder' /\ Balanced'
<1>1. InOrder /\ Balanced
  BY DEF Ordered
<1> DEFINE w == Written
           n == sender[s].line
<1>2. /\ w \in Seq(Lines) /\ Len(w) \in Nat /\ n \in Lines
      /\ Written' = Append(w, n) /\ ~werr /\ ~werr'
  <2>1. Written \in Seq(Lines)
    BY WrittenType
  <2>2. QED
    BY <2>1, WriteAppends, LenProperties
<1>3. /\ DOMAIN log = 1 .. Len(log) /\ Len(log) \in Nat
      /\ \A i \in Nat : Raws(log', i) = Raws(log, i) /\ Raws(log, i) \in Nat
      /\ \A i \in 1 .. Len(log) : Raws(log, i) <= Raws(log, Len(log))
  BY LogFacts
<1>4. Raws(log, Len(log)) = Len(w) + 1
  BY <1>1, <1>2 DEF Balanced
<1>5. \A i \in 1 .. Len(log) : log[i].type = "raw_out" =>
        /\ Raws(log, i) <= Len(w) => w[Raws(log, i)] = log[i].line
        /\ Raws(log, i) > Len(w) => log[i].line = n
  BY <1>1, <1>2, <1>3 DEF InOrder
<1>6. \A t \in Senders : ~Due(t)'
  <2>1. \A t \in Senders \ {s} : sender[t].pc # "write"
    BY DEF IInv, TypeOK, OneHolder, Due
  <2>2. QED
    BY <2>1 DEF Due
<1>p. \A i \in 1 .. Len(log) : log[i].type = "raw_out" => Raws(log, i) >= 1
  <2> SUFFICES ASSUME NEW i \in 1 .. Len(log), log[i].type = "raw_out", Raws(log, i) = 0
               PROVE  FALSE
    BY <1>3
  <2>1. IsFiniteSet(1 .. i)
    BY <1>3, FS_Interval
  <2>2. IsFiniteSet({j \in 1 .. i : log[j].type = "raw_out"})
    BY <2>1, FS_Subset
  <2>3. {j \in 1 .. i : log[j].type = "raw_out"} = {}
    BY <2>2, FS_EmptySet DEF Raws
  <2>4. i \in {j \in 1 .. i : log[j].type = "raw_out"}
    BY <1>3
  <2>5. QED
    BY <2>3, <2>4
<1> HIDE DEF w, n
<1>7. /\ Len(Append(w, n)) = Len(w) + 1
      /\ \A i \in 1 .. Len(w) : Append(w, n)[i] = w[i]
      /\ Append(w, n)[Len(w) + 1] = n
  BY <1>2, AppendProperties
<1>8. \A i \in 1 .. Len(log) : log[i].type = "raw_out" =>
        (Raws(log, i) <= Len(w) + 1 => Append(w, n)[Raws(log, i)] = log[i].line)
  <2> SUFFICES ASSUME NEW i \in 1 .. Len(log), log[i].type = "raw_out",
                      Raws(log, i) <= Len(w) + 1
               PROVE  Append(w, n)[Raws(log, i)] = log[i].line
    OBVIOUS
  <2>1. Raws(log, i) \in Nat /\ Raws(log, i) >= 1
    <3>1. i \in Nat
      BY <1>3
    <3>2. QED
      BY <1>3, <1>p, <3>1
  <2>2. CASE Raws(log, i) <= Len(w)
    BY <1>2, <1>5, <1>7, <2>1, <2>2
  <2>3. CASE Raws(log, i) = Len(w) + 1
    <3>1. log[i].line = n
      BY <1>2, <1>5, <2>3
    <3>2. QED
      BY <1>7, <2>3, <3>1
  <2>4. QED
    BY <1>2, <2>1, <2>2, <2>3
<1>9. InOrder'
  BY <1>2, <1>3, <1>6, <1>7, <1>8 DEF InOrder
<1>10. Balanced'
  <2>1. Raws(log', Len(log')) = Raws(log, Len(log))
    BY <1>3
  <2>2. QED
    BY <1>2, <1>4, <1>6, <1>7, <2>1 DEF Balanced
<1>11. QED
  BY <1>9, <1>10

\* The bus accepts an event: an announcement makes the announcer's line due.
LEMMA OrderAccepted ==
  ASSUME IInv, RawOK, Ordered, ~done, NEW g \in Goroutines, Bus!Accept(g),
         UNCHANGED <<sender, output>>
  PROVE  InOrder' /\ Balanced'
<1>1. InOrder /\ Balanced
  BY DEF Ordered
<1>2. /\ Written' = Written /\ werr' = werr /\ Len(Written) \in Nat
  <2>1. Written \in Seq(Lines)
    BY WrittenType
  <2>2. QED
    BY <2>1, LenProperties DEF output, Written
<1>3. /\ DOMAIN log = 1 .. Len(log) /\ DOMAIN log' = 1 .. Len(log) + 1
      /\ Len(log) \in Nat /\ Len(log') = Len(log) + 1
      /\ \A i \in 1 .. Len(log) : log'[i] = log[i]
      /\ log'[Len(log) + 1] = out[g]
      /\ out' = [out EXCEPT ![g] = NoEvent] /\ out[g] # NoEvent
  BY Accepted DEF Bus!Accept
<1>4. /\ \A i \in 1 .. Len(log) : Raws(log', i) = Raws(log, i)
      /\ Raws(log', Len(log) + 1)
           = Raws(log, Len(log)) + (IF out[g].type = "raw_out" THEN 1 ELSE 0)
  BY <1>3, AcceptedRaws
<1>5. /\ \A i \in 0 .. Len(log) : Raws(log, i) \in Nat
      /\ \A i \in 1 .. Len(log) : Raws(log, i) <= Raws(log, Len(log))
  BY LogFacts
<1>6. \A h \in Goroutines \ {g} : out'[h] = out[h]
  BY <1>3 DEF IInv, TypeOK, BusType
<1>7. out'[g] = NoEvent
  BY <1>3 DEF IInv, TypeOK, BusType
<1>8. CASE out[g].type = "raw_out"
  <2>1. g \in Senders /\ sender[g].pc = "write" /\ ~Due(g)
    BY <1>3, <1>8 DEF RawOK, Emitted, Due
  <2>2. \A s \in Senders : sender[s].pc = "write" => s = g
    BY <2>1 DEF IInv, TypeOK, OneHolder
  <2>3. out[g].line = sender[g].line
    <3>1. out[g] = RawOut(sender[g].line)
      BY <1>3, <2>1 DEF RawOK
    <3>2. QED
      BY <3>1 DEF RawOut
  <2>4. ~werr => Raws(log, Len(log)) = Len(Written)
    BY <1>1, <2>1, <2>2 DEF Balanced, Due
  <2>5. InOrder'
    <3>1. \A i \in 1 .. Len(log) : log[i].type = "raw_out" /\ Raws(log, i) <= Len(Written)
            => Written[Raws(log, i)] = log[i].line
      BY <1>1, <1>3 DEF InOrder
    <3>2. Raws(log, Len(log)) + 1 > Len(Written)
      BY <1>1, <1>2, <1>3, <1>5 DEF Balanced
    <3>3. ~werr => \A i \in 1 .. Len(log) : ~(Raws(log, i) > Len(Written))
      BY <1>2, <1>3, <1>5, <2>4
    <3>4. \A s \in Senders : Due(s)' => s = g
      BY <2>2 DEF Due
    <3>5. ASSUME NEW i \in 1 .. Len(log) + 1, log'[i].type = "raw_out"
          PROVE  /\ Raws(log', i) <= Len(Written) => Written[Raws(log', i)] = log'[i].line
                 /\ ~werr => (Raws(log', i) > Len(Written) => log'[i].line = sender[g].line)
      <4>1. CASE i = Len(log) + 1
        BY <1>2, <1>3, <1>4, <1>5, <1>8, <2>3, <3>2, <4>1
      <4>2. CASE i \in 1 .. Len(log)
        BY <1>3, <1>4, <3>1, <3>3, <3>5, <4>2
      <4>3. QED
        BY <1>3, <4>1, <4>2
    <3>6. QED
      BY <1>2, <1>3, <3>4, <3>5 DEF InOrder
  <2>6. Balanced'
    <3>1. Raws(log', Len(log')) = Raws(log, Len(log)) + 1 /\ Raws(log, Len(log)) \in Nat
      BY <1>3, <1>4, <1>5, <1>8
    <3>2. Due(g)'
      BY <1>7, <2>1 DEF Due, Emitted
    <3>3. QED
      BY <1>1, <1>2, <2>1, <2>4, <3>1, <3>2 DEF Balanced
  <2>7. QED
    BY <2>5, <2>6
<1>9. CASE out[g].type # "raw_out"
  <2>1. g \in Senders => sender[g].pc # "write"
    <3>1. \A s \in Senders : RawOut(sender[s].line).type = "raw_out"
      BY Kinds
    <3>2. QED
      BY <1>3, <1>9, <3>1 DEF RawOK
  <2>2. \A s \in Senders : Due(s)' <=> Due(s)
    BY <1>6, <2>1 DEF Due, Emitted
  <2>3. InOrder'
    <3>1. ASSUME NEW i \in DOMAIN log', log'[i].type = "raw_out"
          PROVE  i \in 1 .. Len(log) /\ log'[i] = log[i] /\ Raws(log', i) = Raws(log, i)
      BY <1>3, <1>4, <1>9, <3>1
    <3>2. QED
      BY <1>1, <1>2, <1>3, <2>2, <3>1 DEF InOrder
  <2>4. Balanced'
    <3>1. Raws(log', Len(log')) = Raws(log, Len(log)) /\ Raws(log, Len(log)) \in Nat
      BY <1>3, <1>4, <1>5, <1>9
    <3>2. QED
      BY <1>1, <1>2, <2>2, <3>1 DEF Balanced
  <2>5. QED
    BY <2>3, <2>4
<1>10. QED
  BY <1>8, <1>9

LEMMA OrderKept ==
  ASSUME IInv, RawOK, Ordered, Next
  PROVE  Ordered'
<1> SUFFICES ASSUME ~done' PROVE InOrder' /\ Balanced'
  BY DEF Ordered
<1>0. ~done
  BY DoneStays
<1>1. CASE UserStep \/ ReaderStep
  <2>1. UNCHANGED <<sender, log>> /\ \A s \in Senders : out'[s] = out[s]
    BY <1>1, PlainEvents
  <2>2. Written' = Written /\ (werr => werr')
    BY <1>1, SameOutput
  <2>3. \A s \in Senders : (Due(s)' <=> Due(s)) /\ sender'[s].line = sender[s].line
    BY <2>1 DEF Due, Emitted
  <2>4. QED
    BY <1>0, <2>1, <2>2, <2>3, OrderStays
<1>2. ASSUME NEW s \in Senders, SenderStep(s) PROVE InOrder' /\ Balanced'
  <2>1. /\ log' = log /\ \A t \in Senders \ {s} : sender'[t] = sender[t]
        /\ \A g \in Goroutines \ {s} : out'[g] = out[g]
    BY <1>2, SenderAlone
  <2>2. \A t \in Senders \ {s} : Due(t)' <=> Due(t)
    BY <2>1 DEF Due, Emitted
  <2>3. CASE Write(s)
    <3>1. Due(s) /\ sender'[s].pc # "write"
      BY <1>2, <2>3, SenderMoves DEF Due, Write, Lock, WriteFails
    <3>2. QED
      BY <1>0, <2>1, <2>3, <3>1, OrderWritten
  <2>4. CASE ~Write(s)
    <3>1. Written' = Written /\ (werr => werr')
      BY <1>2, <2>4, SameOutput
    <3>2. CASE werr'
      BY <1>0, <2>1, <3>1, <3>2, OrderStays
    <3>3. CASE ~werr'
      <4>1. \/ sender[s].pc # "write" /\ sender'[s].pc \in {"idle", "lock"}
            \/ sender[s].pc = "lock" /\ out'[s] = RawOut(sender[s].line)
        BY <1>2, <2>4, <3>3, SenderMoves DEF Lock
      <4>2. sender[s].pc = "lock" => RawOut(sender[s].line) # NoEvent
        <5>1. sender[s].pc = "lock" => sender[s].line \in Lines
          BY DEF IInv, LinesOK
        <5>2. QED
          BY <5>1, Events
      <4>3. ~Due(s) /\ ~Due(s)'
        BY <4>1, <4>2 DEF Due, Emitted
      <4>4. QED
        BY <1>0, <2>1, <2>2, <3>1, <4>3, OrderStays
    <3>4. QED
      BY <3>2, <3>3
  <2>5. QED
    BY <2>3, <2>4
<1>3. ASSUME NEW g \in Goroutines, EmitEnds(g) PROVE InOrder' /\ Balanced'
  <2>1. UNCHANGED <<sender, output>>
    BY <1>3, EmitEnd
  <2>2. CASE Bus!Accept(g)
    BY <1>0, <2>1, <2>2, OrderAccepted
  <2>3. CASE UNCHANGED <<out, log>>
    <3>1. Written' = Written /\ werr' = werr
      BY <2>1 DEF output, Written
    <3>2. \A s \in Senders : (Due(s)' <=> Due(s)) /\ sender'[s].line = sender[s].line
      BY <2>1, <2>3 DEF Due, Emitted
    <3>3. QED
      BY <1>0, <2>3, <3>1, <3>2, OrderStays
  <2>4. QED
    BY <1>0, <1>3, <2>2, <2>3, EmitEnd
<1>4. CASE WriterStep \/ Dispatch \/ HandlersReturn \/ LoopExits \/ PeerLeaves \/ AppCancel
  <2>1. UNCHANGED <<sender, log, out>>
    BY <1>4, QuietSteps
  <2>2. Written' = Written /\ (werr => werr')
    BY <1>4, SameOutput DEF BusStep
  <2>3. \A s \in Senders : (Due(s)' <=> Due(s)) /\ sender'[s].line = sender[s].line
    BY <2>1 DEF Due, Emitted
  <2>4. QED
    BY <1>0, <2>1, <2>2, <2>3, OrderStays
<1>5. QED
  BY <1>1, <1>2, <1>3, <1>4 DEF Next, BusStep
-----------------------------------------------------------------------------
(* The invariant.                                                          *)

LEMMA InitSent == Init => Sent
<1> SUFFICES ASSUME Init PROVE Sent
  OBVIOUS
<1>1. /\ log = <<>> /\ out = [g \in Goroutines |-> NoEvent] /\ wire = <<>> /\ wbuf = <<>>
      /\ sender = [s \in Senders |-> Idle] /\ Idle.pc = "idle"
  BY DEF Init, Bus!Init, Idle
<1>2. RawOK
  BY <1>1 DEF RawOK, Emitted
<1>3. EchoOK
  BY <1>1 DEF EchoOK, EchoIsWritten, Emitted
<1>4. Len(Written) = 0 /\ Len(log) = 0
  <2>1. <<>> \in Seq(Lines) /\ <<>> \o <<>> = <<>>
    BY ConcatEmptySeq
  <2>2. QED
    BY <1>1, <2>1 DEF Written
<1>5. Raws(log, 0) = 0
  <2>1. {i \in 1 .. 0 : log[i].type = "raw_out"} = {}
    OBVIOUS
  <2>2. QED
    BY <2>1, FS_EmptySet DEF Raws
<1>6. Ordered
  BY <1>1, <1>4, <1>5 DEF Ordered, InOrder, Balanced, Due
<1>7. QED
  BY <1>2, <1>3, <1>6, InitIInv DEF Sent

LEMMA NextSent == Sent /\ [Next]_vars => Sent'
<1> SUFFICES ASSUME Sent, [Next]_vars PROVE Sent'
  OBVIOUS
<1> USE DEF Sent
<1>1. IInv'
  BY NextIInv
<1>2. CASE UNCHANGED vars
  <2>1. UNCHANGED <<log, out, sender, wire, wbuf, werr, done>>
    BY <1>2 DEF vars, bus, output
  <2>2. RawOK' /\ EchoOK'
    BY <2>1 DEF RawOK, EchoOK, EchoIsWritten, Emitted, Written
  <2>3. Ordered'
    BY <2>1 DEF Ordered, InOrder, Balanced, Due, Emitted, Written
  <2>4. QED
    BY <1>1, <2>2, <2>3
<1>3. CASE Next
  BY <1>1, <1>3, RawKept, EchoKept, OrderKept
<1>4. QED
  BY <1>2, <1>3

LEMMA SafetySent == Safety => []Sent
<1>1. QED
  BY InitSent, NextSent, PTL DEF Safety

(***************************************************************************)
(* Whatever the goroutines that send, flush and fail do, lines reach the   *)
(* network in the order in which EventRawOutgoing announced them, and no   *)
(* more than one line is announced and not yet written.                    *)
(***************************************************************************)
THEOREM SafetyWrittenAsAnnounced == Safety => []WrittenAsAnnounced
<1>1. Sent => WrittenAsAnnounced
  <2> SUFFICES ASSUME Sent, ~done PROVE WrittenAsAnnounced
    BY DEF WrittenAsAnnounced
  <2>1. InOrder /\ Balanced
    BY DEF Sent, Ordered
  <2>2. \A n : Announced(n) = Raws(log, n)
    BY DEF Announced, Raws
  <2>3. QED
    BY <2>1, <2>2 DEF WrittenAsAnnounced, InOrder, Balanced, Written
<1>2. QED
  BY <1>1, SafetySent, PTL

(***************************************************************************)
(* An echo the application sees is of a line that went into the output,    *)
(* whichever goroutine sent it and whatever failed in the meantime.        *)
(***************************************************************************)
THEOREM SafetyEchoIsWritten == Safety => []EchoIsWritten
<1>1. Sent => EchoIsWritten
  BY DEF Sent, EchoOK
<1>2. QED
  BY <1>1, SafetySent, PTL
-----------------------------------------------------------------------------
(* How often a loss is reported: accepted by the bus, or on its way.       *)

Pending(f) == Cardinality({g \in Goroutines : f[g] = Ev("lost")})

\* g's Emit may have changed from f to h, and no other.
OnlyAt(g, f, h) == \A k \in Goroutines \ {g} : h[k] = f[k]

LEMMA GoroutinesFinite == IsFiniteSet(Goroutines)
<1>1. IsFiniteSet({User})
  BY FS_Singleton
<1>2. IsFiniteSet({User} \cup {Reader})
  BY <1>1, FS_AddElement
<1>3. IsFiniteSet(({User} \cup {Reader}) \cup {Loop})
  BY <1>2, FS_AddElement
<1>4. IsFiniteSet(Callers)
  BY ConnectionAssumption DEF ConnectionAssumption
<1>5. IsFiniteSet((({User} \cup {Reader}) \cup {Loop}) \cup Callers)
  BY <1>3, <1>4, FS_Union
<1>6. (({User} \cup {Reader}) \cup {Loop}) \cup Callers = Goroutines
  BY DEF Goroutines
<1>7. QED
  BY <1>5, <1>6

LEMMA PendingChange ==
  ASSUME NEW f, NEW h, NEW g \in Goroutines, OnlyAt(g, f, h)
  PROVE  /\ Pending(f) \in Nat /\ Pending(h) \in Nat
         /\ Pending(h) = Pending(f) - One(f[g], {Ev("lost")}) + One(h[g], {Ev("lost")})
<1> DEFINE e == Ev("lost")
           A == {k \in Goroutines : f[k] = e}
           B == {k \in Goroutines : h[k] = e}
<1>1. IsFiniteSet(A) /\ IsFiniteSet(B)
  BY GoroutinesFinite, FS_Subset
<1>2. B \ {g} = A \ {g}
  BY DEF OnlyAt
<1>3. (g \in A <=> f[g] = e) /\ (g \in B <=> h[g] = e)
  OBVIOUS
<1> HIDE DEF A, B, e
<1>4. /\ Cardinality(A \ {g}) = Cardinality(A) - One(f[g], {e})
      /\ Cardinality(A) \in Nat
  <2>1. Cardinality(A) \in Nat
    BY <1>1, FS_CardinalityType
  <2>2. Cardinality(A \ {g}) = IF g \in A THEN Cardinality(A) - 1 ELSE Cardinality(A)
    BY <1>1, FS_RemoveElement
  <2>3. One(f[g], {e}) = IF g \in A THEN 1 ELSE 0
    BY <1>3 DEF One
  <2>4. QED
    BY <2>1, <2>2, <2>3
<1>5. /\ Cardinality(B \ {g}) = Cardinality(B) - One(h[g], {e})
      /\ Cardinality(B) \in Nat
  <2>1. Cardinality(B) \in Nat
    BY <1>1, FS_CardinalityType
  <2>2. Cardinality(B \ {g}) = IF g \in B THEN Cardinality(B) - 1 ELSE Cardinality(B)
    BY <1>1, FS_RemoveElement
  <2>3. One(h[g], {e}) = IF g \in B THEN 1 ELSE 0
    BY <1>3 DEF One
  <2>4. QED
    BY <2>1, <2>2, <2>3
<1>6. Cardinality(B) = Cardinality(A) - One(f[g], {e}) + One(h[g], {e})
  <2>1. One(f[g], {e}) \in {0, 1} /\ One(h[g], {e}) \in {0, 1}
    BY DEF One
  <2>2. Cardinality(A) - One(f[g], {e}) = Cardinality(B) - One(h[g], {e})
    BY <1>2, <1>4, <1>5
  <2>3. QED
    BY <1>4, <1>5, <2>1, <2>2
<1>7. QED
  BY <1>4, <1>5, <1>6 DEF Pending, A, B, e

LEMMA LossesIs ==
  /\ Losses = Count(log, {Ev("lost")}) + Pending(out)
  /\ Losses' = Count(log', {Ev("lost")}) + Pending(out')
<1>1. \A l : {i \in DOMAIN l : l[i] = Ev("lost")} = {i \in DOMAIN l : l[i] \in {Ev("lost")}}
  OBVIOUS
<1>2. QED
  BY <1>1 DEF Losses, Reports, Pending, Count, Places

LEMMA LossesType ==
  ASSUME IInv
  PROVE  Count(log, {Ev("lost")}) \in Nat /\ Pending(out) \in Nat /\ Losses \in Nat
<1>1. log \in Seq(EventTypes)
  BY DEF IInv, TypeOK, BusType
<1>2. Count(log, {Ev("lost")}) \in Nat
  BY <1>1, PlacesFinite
<1>3. Pending(out) \in Nat
  <2>1. IsFiniteSet({g \in Goroutines : out[g] = Ev("lost")})
    BY GoroutinesFinite, FS_Subset
  <2>2. QED
    BY <2>1, FS_CardinalityType DEF Pending
<1>4. QED
  BY <1>2, <1>3, LossesIs

\* The Emit of a loss adds a report, and the Emit of anything else none.
LEMMA EmitsLosses ==
  ASSUME IInv, NEW g \in Goroutines, NEW x \in EventTypes, Emits(g, x), Emitted(g)
  PROVE  Losses' = Losses + One(x, {Ev("lost")})
<1>1. /\ out \in [Goroutines -> EventTypes \cup {NoEvent}] /\ out' = [out EXCEPT ![g] = x]
      /\ log' = log /\ out[g] = NoEvent
  BY DEF Emits, Emitted, IInv, TypeOK, BusType
<1>2. Ev("lost") \in EventTypes
  BY Events
<1> DEFINE h == out'
           f == out
<1> HIDE DEF h, f
<1>3. h[g] = x /\ OnlyAt(g, f, h)
  BY <1>1 DEF h, f, OnlyAt
<1>4. Pending(h) = Pending(f) - One(f[g], {Ev("lost")}) + One(x, {Ev("lost")})
  BY <1>3, PendingChange
<1>5. One(f[g], {Ev("lost")}) = 0 /\ One(x, {Ev("lost")}) \in {0, 1}
  BY <1>1, <1>2 DEF One, f
<1>6. Pending(f) \in Nat /\ Count(log, {Ev("lost")}) \in Nat
  BY LossesType DEF f
<1>7. Losses = Count(log, {Ev("lost")}) + Pending(f)
      /\ Losses' = Count(log, {Ev("lost")}) + Pending(h)
  BY <1>1, LossesIs DEF h, f
<1>8. QED
  BY <1>4, <1>5, <1>6, <1>7

\* An accepted event is still reported, an abandoned one is not.
LEMMA EndLosses ==
  ASSUME IInv, NEW g \in Goroutines, EmitEnds(g)
  PROVE  Losses' \in Nat /\ Losses' <= Losses
<1>1. out \in [Goroutines -> EventTypes \cup {NoEvent}] /\ log \in Seq(EventTypes)
  BY DEF IInv, TypeOK, BusType
<1>2. Ev("lost") \in EventTypes
  BY Events
<1> DEFINE h == out'
           f == out
           x == out[g]
<1>3. OnlyAt(g, out, out')
  BY EmitEnd DEF OnlyAt
<1> HIDE DEF h, f, x
<1>4. OnlyAt(g, f, h) /\ f[g] = x
  BY <1>3 DEF f, h, x
<1>5. /\ Pending(h) \in Nat
      /\ Pending(h) = Pending(f) - One(x, {Ev("lost")}) + One(h[g], {Ev("lost")})
  BY <1>4, PendingChange
<1>6. /\ One(x, {Ev("lost")}) \in {0, 1} /\ One(h[g], {Ev("lost")}) \in {0, 1}
      /\ h[g] = NoEvent => One(h[g], {Ev("lost")}) = 0
      /\ h = f => One(h[g], {Ev("lost")}) = One(x, {Ev("lost")})
  BY <1>2, <1>4 DEF One
<1>7. /\ Pending(f) \in Nat /\ Count(log, {Ev("lost")}) \in Nat
      /\ Losses = Count(log, {Ev("lost")}) + Pending(f)
      /\ Losses' = Count(log', {Ev("lost")}) + Pending(h)
  BY LossesType, LossesIs DEF f, h
<1>8. CASE Bus!Accept(g) /\ out'[g] = NoEvent
  <2>1. log' = Append(log, x) /\ x \in EventTypes
    BY <1>8, Accepted DEF x
  <2>2. Count(log', {Ev("lost")}) = Count(log, {Ev("lost")}) + One(x, {Ev("lost")})
    BY <1>1, <2>1, CountAppend
  <2>3. One(h[g], {Ev("lost")}) = 0
    BY <1>6, <1>8 DEF h
  <2>4. QED
    BY <1>5, <1>6, <1>7, <2>2, <2>3
<1>9. CASE done /\ out'[g] = NoEvent /\ log' = log
  <2>1. One(h[g], {Ev("lost")}) = 0
    BY <1>6, <1>9 DEF h
  <2>2. QED
    BY <1>5, <1>6, <1>7, <1>9, <2>1
<1>10. CASE UNCHANGED <<out, log>>
  <2>1. h = f
    BY <1>10 DEF h, f
  <2>2. QED
    BY <1>5, <1>6, <1>7, <1>10, <2>1
<1>11. QED
  BY <1>8, <1>9, <1>10, EmitEnd

LEMMA SameLosses ==
  ASSUME UNCHANGED <<log, out>>
  PROVE  Losses' = Losses
  BY LossesIs

\* Of most Emits the event is not a loss.
LEMMA EmitsOther ==
  ASSUME IInv, NEW g \in Goroutines, Emitted(g),
         \/ UNCHANGED bus
         \/ \E t \in {"connected", "manual", "raw_in", "error", "registered", "parsed",
                     "report", "welcomed"} : Emits(g, Ev(t))
         \/ \E n \in Lines : Emits(g, RawOut(n)) \/ Emits(g, Echo(n))
  PROVE  Losses' = Losses
<1>1. CASE UNCHANGED bus
  BY <1>1, SameLosses DEF bus
<1>2. ASSUME NEW x \in EventTypes, x # Ev("lost"), Emits(g, x)
      PROVE  Losses' = Losses
  <2>1. One(x, {Ev("lost")}) = 0
    BY <1>2 DEF One
  <2>2. Losses' = Losses + One(x, {Ev("lost")})
    BY <1>2, EmitsLosses
  <2>3. QED
    BY <2>1, <2>2, LossesType
<1>3. ASSUME NEW t \in {"connected", "manual", "raw_in", "error", "registered", "parsed",
                        "report", "welcomed"}, Emits(g, Ev(t))
      PROVE  Losses' = Losses
  BY <1>2, <1>3, Events, Kinds
<1>4. ASSUME NEW n \in Lines, Emits(g, RawOut(n)) \/ Emits(g, Echo(n))
      PROVE  Losses' = Losses
  <2>1. RawOut(n).type = "raw_out" /\ Echo(n).type = "echo" /\ Ev("lost").type = "lost"
    BY Kinds
  <2>2. RawOut(n) \in EventTypes /\ Echo(n) \in EventTypes
    BY Events
  <2>3. QED
    BY <1>2, <1>4, <2>1, <2>2
<1>5. QED
  BY <1>1, <1>3, <1>4

LEMMA LoseLosses ==
  ASSUME IInv, NEW g \in Goroutines, Emitted(g), Lose(g)
  PROVE  \/ Losses' = Losses /\ UNCHANGED life
         \/ /\ state \notin Down /\ state' \in Down
            /\ Losses' = Losses + 1 /\ revived' = revived
<1>1. CASE state \in Down
  <2>1. UNCHANGED <<bus, life>>
    BY <1>1 DEF Lose
  <2>2. QED
    BY <2>1, EmitsOther
<1>2. CASE state \notin Down
  <2>1. state' = "Disconnected" /\ revived' = revived /\ Emits(g, Ev("lost"))
    BY <1>2 DEF Lose
  <2>2. Ev("lost") \in EventTypes
    BY Events
  <2>3. One(Ev("lost"), {Ev("lost")}) = 1
    BY DEF One
  <2>4. Losses' = Losses + One(Ev("lost"), {Ev("lost")})
    BY <2>1, <2>2, EmitsLosses
  <2>5. QED
    BY <1>2, <2>1, <2>3, <2>4 DEF Down
<1>3. QED
  BY <1>1, <1>2

Dialling == user \in {"idle", "dial"}

\* What a step does to the state.
Settles == revived' = revived /\ (state' = state \/ state' \in Down \/ Dialling)
Falls == revived' = revived /\ state \notin Down /\ state' \in Down /\ ~Dialling
Rises == revived' = (IF state \in Down THEN revived + 1 ELSE revived) /\ ~Dialling

\* A step reports no loss; or it takes the state down and reports one; or it
\* sets the state up.
LEMMA StepLosses ==
  ASSUME IInv, Budget, Next
  PROVE  \/ Losses' \in Nat /\ Losses' <= Losses /\ Settles
         \/ Losses' = Losses + 1 /\ Falls
         \/ Losses' = Losses /\ Rises
<1>0. TypeOK /\ StopOK /\ EmitOK /\ LinesOK /\ Losses \in Nat
  BY LossesType DEF IInv, Control
<1> USE DEF Settles, Falls, Rises
<1>1. CASE UserStep
  <2>1. Losses' = Losses
    <3>1. CASE StartLoops \/ Disconnected
      <4>1. Emitted(User) /\ \E t \in {"connected", "manual"} : Emits(User, Ev(t))
        BY <1>0, <3>1 DEF StartLoops, Disconnected, EmitOK
      <4>2. QED
        BY <4>1, EmitsOther
    <3>2. CASE ~StartLoops /\ ~Disconnected
      <4>1. UNCHANGED <<log, out>>
        BY <1>1, <3>2 DEF UserStep, Connect, DialFails, DialSucceeds, Connected, Stop,
          CancelConn, CloseConn, CancelBus, CloseBus, bus, Bus!Cancel, Bus!Shut
      <4>2. QED
        BY <4>1, SameLosses
    <3>3. QED
      BY <3>1, <3>2
  <2>2. Settles \/ Rises
    BY <1>1 DEF UserStep, Connect, DialFails, DialSucceeds, Connected, StartLoops, Stop,
      CancelConn, CloseConn, Disconnected, CancelBus, CloseBus, Down, Dialling
  <2>3. QED
    BY <1>0, <2>1, <2>2
<1>2. CASE ReaderStep
  <2>1. ~Dialling
    BY <1>0, <1>2 DEF ReaderStep, ReaderCheck, ReadBlank, ReadFails, ReadLine,
      ReportUnparsable, HandleWelcome, HandleMessage, ReaderEnds, StopOK, Dialling
  <2>2. Emitted(Reader)
    BY <1>0, <1>2 DEF ReaderStep, ReaderCheck, ReadBlank, ReadFails, ReadLine,
      ReportUnparsable, HandleWelcome, HandleMessage, ReaderEnds, EmitOK
  <2>3. CASE ReadFails
    BY <1>0, <2>1, <2>2, <2>3, LoseLosses DEF ReadFails
  <2>4. CASE ~ReadFails
    <3>1. UNCHANGED life \/ Rises
      BY <1>2, <2>1, <2>4 DEF ReaderStep, ReaderCheck, ReadBlank, ReadLine, ReportUnparsable,
        HandleWelcome, HandleMessage, ReaderEnds
    <3>2. \/ UNCHANGED bus
          \/ \E t \in {"raw_in", "error", "registered", "parsed"} : Emits(Reader, Ev(t))
      BY <1>2, <2>4 DEF ReaderStep, ReaderCheck, ReadBlank, ReadLine, ReportUnparsable,
        HandleWelcome, HandleMessage, ReaderEnds
    <3>3. Losses' = Losses
      BY <2>2, <3>2, EmitsOther
    <3>4. QED
      BY <1>0, <3>1, <3>3
  <2>5. QED
    BY <2>3, <2>4
<1>3. ASSUME NEW s \in Senders, SenderStep(s)
      PROVE  \/ Losses' = Losses /\ UNCHANGED life
             \/ Losses' = Losses + 1 /\ Falls
  <2>1. CASE WriteFails(s)
    <3>1. Emitted(s) /\ Lose(s) /\ sender[s].pc = "write"
      BY <2>1 DEF WriteFails
    <3>2. ~Dialling
      BY <3>1 DEF Budget, Dialling
    <3>3. QED
      BY <3>1, <3>2, LoseLosses
  <2>2. CASE Lock(s) \/ Write(s)
    <3>1. Emitted(s) /\ sender[s].line \in Lines /\ UNCHANGED life
      BY <1>0, <2>2 DEF Lock, Write, EmitOK, LinesOK
    <3>2. \/ UNCHANGED bus
          \/ Emits(s, RawOut(sender[s].line)) \/ Emits(s, Echo(sender[s].line))
      BY <2>2 DEF Lock, Write
    <3>3. QED
      BY <3>1, <3>2, EmitsOther
  <2>3. CASE Report(s) \/ (s = Loop /\ ReemitWelcome)
    <3>1. /\ Emitted(s) /\ UNCHANGED life
          /\ Emits(s, Ev("report")) \/ Emits(s, Ev("welcomed"))
      BY <2>3 DEF Report, ReemitWelcome, Free
    <3>2. QED
      BY <3>1, EmitsOther
  <2>4. CASE Send(s) \/ (\E echo \in BOOLEAN : Command(s, echo)) \/ SendReturns(s)
    <3>1. UNCHANGED <<bus, life>>
      BY <2>4 DEF Send, Command, Ask, SendReturns
    <3>2. QED
      BY <3>1, SameLosses DEF bus
  <2>5. QED
    BY <1>3, <2>1, <2>2, <2>3, <2>4 DEF SenderStep
<1>4. ASSUME NEW g \in Goroutines, EmitEnds(g)
      PROVE  Losses' \in Nat /\ Losses' <= Losses /\ UNCHANGED life
  BY <1>4, EndLosses DEF EmitEnds, BusOnly
<1>5. CASE WriterStep \/ Dispatch \/ HandlersReturn \/ LoopExits \/ PeerLeaves \/ AppCancel
  <2>1. UNCHANGED <<log, out>>
    BY <1>5, QuietSteps
  <2>2. UNCHANGED life
    BY <1>5 DEF WriterStep, WriterEnds, Tick, FlushStarts, FlushEnds, WriterOnly, Dispatch,
      HandlersReturn, LoopExits, BusOnly, PeerLeaves, AppCancel
  <2>3. QED
    BY <1>0, <2>1, <2>2, SameLosses
<1>6. QED
  BY <1>0, <1>1, <1>2, <1>3, <1>4, <1>5 DEF Next, BusStep

\* Dialling goes on, or ends for good, with nothing sent so far.
LEMMA DiallingKept ==
  ASSUME IInv, Budget, Next, Dialling'
  PROVE  /\ Dialling /\ conn' = "nil"
         /\ \A s \in Senders : sender'[s].pc \in {"idle", "lock"}
<1>0. StopOK /\ TypeOK
  BY DEF IInv, Control
<1>1. Dialling
  BY DEF Next, UserStep, Connect, DialFails, DialSucceeds, Connected, StartLoops, Stop,
    CancelConn,
    CloseConn, Disconnected, CancelBus, CloseBus, ReaderStep, ReaderCheck, ReadBlank,
    ReadFails, ReadLine, ReportUnparsable, HandleWelcome, HandleMessage, ReaderEnds,
    ReaderOnly, SenderStep, Send, Command, Ask, Lock, Write, WriteFails, SendReturns, Report,
    ReemitWelcome,
    WriterStep, WriterEnds, Tick, FlushStarts, FlushEnds, WriterOnly, BusStep,
    EmitEnds, Dispatch, HandlersReturn, LoopExits, BusOnly, PeerLeaves, AppCancel, Dialling
<1>2. reader = "off" /\ conn = "nil"
      /\ \A s \in Senders : sender[s].pc \in {"idle", "lock"}
  BY <1>0, <1>1 DEF StopOK, Budget, Dialling
<1>3. conn' = "nil"
  BY <1>2 DEF Next, UserStep, Connect, DialFails, DialSucceeds, Connected, StartLoops, Stop,
    CancelConn,
    CloseConn, Disconnected, CancelBus, CloseBus, ReaderStep, ReaderCheck, ReadBlank,
    ReadFails, ReadLine, ReportUnparsable, HandleWelcome, HandleMessage, ReaderEnds,
    SenderStep, Send, Command, Ask, Lock, Write, WriteFails, SendReturns, Report, ReemitWelcome,
    WriterStep, WriterEnds, Tick, FlushStarts, FlushEnds, WriterOnly, BusStep,
    EmitEnds, Dispatch, HandlersReturn, LoopExits, BusOnly, PeerLeaves, AppCancel, Dialling,
    link
<1>4. ASSUME NEW s \in Senders, SenderStep(s)
      PROVE  \A t \in Senders : sender'[t].pc \in {"idle", "lock"}
  <2>1. sender'[s].pc \in {"idle", "lock"}
    <3>1. ~Due(s)
      BY <1>2 DEF Due
    <3>2. CASE Lock(s)
      BY <1>2, <3>2 DEF Lock, Idle, IInv, TypeOK, SendType
    <3>3. QED
      BY <1>4, <3>1, <3>2, SenderMoves
  <2>2. QED
    BY <1>2, <1>4, <2>1, SenderAlone
<1>5. ASSUME ~(\E s \in Senders : SenderStep(s)) PROVE UNCHANGED sender
  BY <1>5, PlainEvents, EmitEnd, QuietSteps DEF Next, BusStep
<1>6. QED
  BY <1>1, <1>2, <1>3, <1>4, <1>5

LEMMA BudgetKept ==
  ASSUME IInv, Budget, Next
  PROVE  Budget'
<1>1. Dialling' => /\ Dialling /\ conn' = "nil"
                   /\ \A s \in Senders : sender'[s].pc \in {"idle", "lock"}
  BY DiallingKept
<1> DEFINE l == Losses
           r == revived
           m == Losses'
           q == revived'
<1>2. l \in Nat /\ r \in Nat
  BY LossesType DEF IInv, TypeOK, ProgressType
<1>3. l <= 1 + r /\ (Dialling => l = 0) /\ (state \notin Down => l <= r)
  BY DEF Budget, Dialling
<1>4. \/ m \in Nat /\ m <= l /\ q = r /\ (state' = state \/ state' \in Down \/ Dialling)
      \/ q = r /\ state \notin Down /\ state' \in Down /\ ~Dialling /\ m = l + 1
      \/ ~Dialling /\ m = l /\ state \in Down /\ q = r + 1
      \/ ~Dialling /\ m = l /\ state \notin Down /\ q = r
  BY StepLosses DEF Settles, Falls, Rises
<1> HIDE DEF l, r, m, q
<1>5. m <= 1 + q /\ (Dialling' => m = 0) /\ (state' \notin Down => m <= q)
  BY <1>1, <1>2, <1>3, <1>4
<1>6. QED
  BY <1>1, <1>5 DEF m, q, Budget, Dialling, Down

LEMMA InitBudget == Init => Budget
<1> SUFFICES ASSUME Init PROVE Budget
  OBVIOUS
<1>1. /\ log = <<>> /\ out = [g \in Goroutines |-> NoEvent] /\ conn = "nil"
      /\ sender = [s \in Senders |-> Idle] /\ Idle.pc = "idle" /\ revived = 0
  BY DEF Init, Bus!Init, Idle
<1>2. Losses = 0
  <2>1. Ev("lost") # NoEvent
    BY Events
  <2>2. /\ {g \in Goroutines : out[g] = Ev("lost")} = {}
        /\ {i \in DOMAIN log : log[i] = Ev("lost")} = {}
    BY <1>1, <2>1
  <2>3. QED
    BY <2>2, FS_EmptySet DEF Losses, Reports
<1>3. QED
  BY <1>1, <1>2 DEF Budget

LEMMA SafetyBudget == Safety => []Budget
<1>1. IInv /\ Budget /\ [Next]_vars => Budget'
  <2> SUFFICES ASSUME IInv, Budget, [Next]_vars PROVE Budget'
    OBVIOUS
  <2>1. CASE UNCHANGED vars
    BY <2>1, SameLosses DEF vars, bus, link, Budget, Down
  <2>2. QED
    BY <2>1, BudgetKept
<1>2. QED
  BY <1>1, InitBudget, SafetyIInv, PTL DEF Safety

(***************************************************************************)
(* However many goroutines meet an error at once, on whichever side of a   *)
(* late 001, a connection is reported lost once, and once more for each    *)
(* time its state was set up again while it was down:                      *)
(* transitionToDisconnected lets one of them through.                      *)
(***************************************************************************)
THEOREM SafetyLostOnce == Safety => []LostOnce
<1>1. Budget => LostOnce
  BY DEF Budget, Losses, LostOnce
<1>2. QED
  BY <1>1, SafetyBudget, PTL
=============================================================================
