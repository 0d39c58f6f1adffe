----------------------------- MODULE Connection -----------------------------
(***************************************************************************)
(* One IRC connection: Connection of parser/connection.go with its reader  *)
(* and writer goroutines, the Parser of parser/parser.go that starts and   *)
(* stops it and sends commands on it, and the event bus between them and   *)
(* the handlers, used as Broadcast promises it.                            *)
(*                                                                         *)
(* Goroutines: User calls Parser.Start and Parser.Stop; the Callers are    *)
(* the application's own and those of timers and of the capability         *)
(* negotiation; Loop is the bus's loop, whose handlers send (CAP, NICK,    *)
(* PONG ...), emit and keep the Client's view of the connection; Reader is *)
(* readLoop; writeLoop never emits and needs no entry in out.              *)
(*                                                                         *)
(* A line of either direction is one unit: only its order and its fate     *)
(* matter here.  wire is what was handed to the network.  One Parser makes *)
(* one connection: Start may be retried until it succeeds, not repeated.   *)
(***************************************************************************)
EXTENDS Integers, Sequences, SequencesExt, FiniteSets

CONSTANTS User, Reader, Loop,
          Callers,
          NoEvent,
          Capacity,  \* DefaultEventChannelBuffer, 100 in the code
          MaxLines,  \* bound: lines the program tries to send
          MaxReads,  \* bound: lines the server sends
          MaxReports, \* bound: events that handlers and timers emit themselves
          MayCancel  \* the application may cancel the context it passed in

Goroutines == {User, Reader, Loop} \cup Callers
Senders == {Loop} \cup Callers
Lines == 1 .. MaxLines

Ev(type) == [type |-> type, line |-> 0]
RawOut(n) == [type |-> "raw_out", line |-> n]
Echo(n) == [type |-> "echo", line |-> n]

\* "welcomed" is EventRegistered again, without a message: RegistrationHandler
\* emits it; "report" is whatever other event handlers and timers emit.
EventTypes ==
  [type : {"connected", "manual", "lost", "raw_in", "error", "registered", "parsed",
           "welcomed", "report"},
   line : {0}]
  \cup [type : {"raw_out", "echo"}, line : Lines]

ASSUME ConnectionAssumption ==
  /\ NoEvent \notin EventTypes
  /\ User # Reader /\ User # Loop /\ Reader # Loop
  /\ IsFiniteSet(Callers) /\ {User, Reader, Loop} \cap Callers = {}
  /\ Capacity \in Nat \ {0} /\ MaxLines \in Nat /\ MaxReads \in Nat /\ MaxReports \in Nat
  /\ MayCancel \in BOOLEAN

VARIABLES log, pos, current, status, out, done, chOpen, crashed  \* Broadcast's

VARIABLES state,    \* Connection.state
          revived,  \* how often the state was set up again while it was down
          ctxDone,  \* Connection.ctx is cancelled
          conn,     \* Connection.conn (and reader, writer): "nil", "open", "closed"
          peer,     \* the other end: "up", or "gone" as far as a read can tell
          user,     \* where the goroutine in Start or Stop is
          reader,   \* where readLoop is
          writer,   \* where writeLoop is
          sender,   \* where each sending goroutine is in SendRaw, and its line
          wbuf,     \* lines in the bufio.Writer
          werr,     \* the bufio.Writer has failed; it stays failed
          wire,     \* lines handed to the network, in order
          asked,    \* lines the program has tried to send
          received, \* lines read
          reported, \* events emitted by handlers and timers
          tracked,  \* the Client's ConnectionState, kept by its handlers
          registering \* RegistrationHandler.IsActive

bus == <<log, pos, current, status, out, done, chOpen, crashed>>
output == <<wbuf, werr, wire>>
life == <<state, revived>>
link == <<conn, peer>>
counts == <<asked, received, reported>>
handlers == <<tracked, registering>>
vars == <<bus, life, ctxDone, link, user, reader, writer, sender, output,
          counts, handlers>>

Bus == INSTANCE Broadcast WITH EventLoop <- Loop

Live == {"Connected", "Registering", "Registered"}  \* IsConnected
Down == {"Disconnecting", "Disconnected"}
Idle == [pc |-> "idle", line |-> 0, echo |-> FALSE]

Init ==
  /\ Bus!Init
  /\ state = "Disconnected" /\ revived = 0 /\ ctxDone = FALSE
  /\ conn = "nil" /\ peer = "up"
  /\ user = "idle" /\ reader = "off" /\ writer = "off"
  /\ sender = [s \in Senders |-> Idle]
  /\ wbuf = <<>> /\ werr = FALSE /\ wire = <<>>
  /\ asked = 0 /\ received = 0 /\ reported = 0
  /\ tracked = "Disconnected" /\ registering = FALSE

\* g calls Emit; it goes on once the bus has accepted or dropped the event.
Emits(g, e) == /\ out' = [out EXCEPT ![g] = e]
               /\ UNCHANGED <<log, pos, current, status, done, chOpen, crashed>>
Emitted(g) == out[g] = NoEvent

\* setState(up), whatever the state is.
Raise(up) == /\ state' = up
             /\ revived' = IF state \in Down THEN revived + 1 ELSE revived

SetState(new) == state' = new /\ revived' = revived

\* Mutant: no check of the state.
LoseAgain(g) == SetState("Disconnected") /\ Emits(g, Ev("lost"))

\* transitionToDisconnected and the Emit that follows it, by goroutine g.
Lose(g) == IF state \in Down
           THEN UNCHANGED <<bus, life>>
           ELSE SetState("Disconnected") /\ Emits(g, Ev("lost"))
-----------------------------------------------------------------------------
(* Parser.Start: Connection.Connect.                                       *)

Connect ==
  /\ user = "idle"
  /\ SetState("Connecting")
  /\ user' = "dial"
  /\ UNCHANGED <<bus, ctxDone, link, reader, writer, sender, output, counts, handlers>>

DialFails ==
  /\ user = "dial"
  /\ SetState("Disconnected")
  /\ user' = "idle"
  /\ UNCHANGED <<bus, ctxDone, link, reader, writer, sender, output, counts, handlers>>

\* The socket and its reader and writer are there before the state says so.
DialSucceeds ==
  /\ user = "dial"
  /\ conn' = "open"
  /\ user' = "dialled"
  /\ UNCHANGED <<bus, life, ctxDone, peer, reader, writer, sender, output, counts, handlers>>

\* A write error may have come in between; the state is set all the same.
Connected ==
  /\ user = "dialled"
  /\ Raise("Connected")
  /\ user' = "start"
  /\ UNCHANGED <<bus, ctxDone, link, reader, writer, sender, output, counts, handlers>>

\* The two loops run before EventConnected is emitted.
StartLoops ==
  /\ user = "start"
  /\ reader' = "check" /\ writer' = "select"
  /\ Emits(User, Ev("connected"))
  /\ user' = "connected"
  /\ UNCHANGED <<life, ctxDone, link, sender, output, counts, handlers>>
-----------------------------------------------------------------------------
(* Parser.Stop: Connection.Disconnect, then the bus is cancelled and       *)
(* closed.                                                                 *)

Stop ==
  /\ user \in {"idle", "connected"}
  /\ Emitted(User)
  /\ SetState("Disconnecting")
  /\ user' = "cancel"
  /\ UNCHANGED <<bus, ctxDone, link, reader, writer, sender, output, counts, handlers>>

CancelConn ==
  /\ user = "cancel"
  /\ ctxDone' = TRUE
  /\ user' = "close"
  /\ UNCHANGED <<bus, life, link, reader, writer, sender, output, counts, handlers>>

CloseConnForgotten ==
  /\ user = "close"
  /\ user' = "wait"
  /\ UNCHANGED <<bus, life, ctxDone, link, reader, writer, sender, output, counts, handlers>>

CloseConn ==
  /\ user = "close"
  /\ conn' = IF conn = "nil" THEN "nil" ELSE "closed"
  /\ user' = "wait"
  /\ UNCHANGED <<bus, life, ctxDone, peer, reader, writer, sender, output, counts, handlers>>

LoopsDoneWriter == writer \in {"off", "done"}

LoopsDone == reader \in {"off", "done"} /\ writer \in {"off", "done"}

DisconnectedEarly ==
  /\ user = "wait"
  /\ SetState("Disconnected")
  /\ Emits(User, Ev("manual"))
  /\ user' = "manual"
  /\ UNCHANGED <<ctxDone, link, reader, writer, sender, output, counts, handlers>>

\* wg.Wait, then the final state and its event.
Disconnected ==
  /\ user = "wait"
  /\ LoopsDone
  /\ SetState("Disconnected")
  /\ Emits(User, Ev("manual"))
  /\ user' = "manual"
  /\ UNCHANGED <<ctxDone, link, reader, writer, sender, output, counts, handlers>>

CancelBus ==
  /\ user = "manual"
  /\ Emitted(User)
  /\ Bus!Cancel
  /\ user' = "drain"
  /\ UNCHANGED <<life, ctxDone, link, reader, writer, sender, output, counts, handlers>>

CloseBusEarly ==
  /\ user = "drain"
  /\ chOpen' = FALSE
  /\ user' = "stopped"
  /\ UNCHANGED <<log, pos, current, status, out, done, crashed, life, ctxDone, link,
                 reader, writer, sender, output, counts, handlers>>

CloseBus ==
  /\ user = "drain"
  /\ Bus!Shut
  /\ user' = "stopped"
  /\ UNCHANGED <<life, ctxDone, link, reader, writer, sender, output, counts, handlers>>

\* The application cancels the context it passed in: both contexts end.
AppCancel ==
  /\ MayCancel
  /\ ~done
  /\ Bus!Cancel
  /\ ctxDone' = TRUE
  /\ UNCHANGED <<life, link, user, reader, writer, sender, output, counts, handlers>>
-----------------------------------------------------------------------------
(* readLoop and handleMessage.                                             *)

ReaderOnly == UNCHANGED <<ctxDone, user, writer, sender, output, asked, reported, handlers>>

ReaderCheck ==
  /\ reader = "check"
  /\ Emitted(Reader)
  /\ reader' = IF ctxDone THEN "closing" ELSE "read"
  /\ ReaderOnly /\ UNCHANGED <<bus, life, link, received>>

ReadBlank ==
  /\ reader = "read"
  /\ received < MaxReads
  /\ received' = received + 1
  /\ reader' = "check"
  /\ ReaderOnly /\ UNCHANGED <<bus, life, link>>

\* A line may come from the bufio.Reader's buffer after the socket is closed.
ReadLine(kind) ==
  /\ reader = "read"
  /\ received < MaxReads
  /\ received' = received + 1
  /\ Emits(Reader, Ev("raw_in"))
  /\ reader' = kind
  /\ ReaderOnly /\ UNCHANGED <<life, link>>

ReadFailsQuietly ==
  /\ reader = "read"
  /\ conn = "closed" \/ peer = "gone"
  /\ reader' = "closing"
  /\ ReaderOnly /\ UNCHANGED <<bus, life, link, received>>

ReadFailsRetried ==
  /\ reader = "read"
  /\ conn = "closed" \/ peer = "gone"
  /\ reader' = "check"
  /\ ReaderOnly /\ UNCHANGED <<bus, life, link, received>>

\* The socket was closed, the peer left, or the read deadline passed.
ReadFails ==
  /\ reader = "read"
  /\ conn = "closed" \/ peer = "gone"
  /\ Lose(Reader)
  /\ reader' = "closing"
  /\ ReaderOnly /\ UNCHANGED <<link, received>>

ReportUnparsable ==
  /\ reader = "unparsable"
  /\ Emitted(Reader)
  /\ Emits(Reader, Ev("error"))
  /\ reader' = "check"
  /\ ReaderOnly /\ UNCHANGED <<life, link, received>>

\* 001: the state is set whatever it was, then two events are emitted.
HandleWelcome ==
  /\ reader = "welcome"
  /\ Emitted(Reader)
  /\ Raise("Registered")
  /\ Emits(Reader, Ev("registered"))
  /\ reader' = "message"
  /\ ReaderOnly /\ UNCHANGED <<link, received>>

HandleMessage ==
  /\ reader = "message"
  /\ Emitted(Reader)
  /\ Emits(Reader, Ev("parsed"))
  /\ reader' = "check"
  /\ ReaderOnly /\ UNCHANGED <<life, link, received>>

ReaderEnds ==
  /\ reader = "closing"
  /\ Emitted(Reader)
  /\ conn' = "closed"
  /\ reader' = "done"
  /\ ReaderOnly /\ UNCHANGED <<bus, life, peer, received>>
-----------------------------------------------------------------------------
(* SendRaw, and the guarded commands of Parser that call it.  A sender     *)
(* holds writeMux until its line is written or has failed, writeLoop while *)
(* it flushes.                                                             *)

MuxFreeOfWriter == writer # "flush"
MuxFreeOfSenders == \A s \in Senders : sender[s].pc \notin {"write", "failed"}

MuxFree == /\ \A s \in Senders : sender[s].pc \notin {"write", "failed"}
           /\ writer # "flush"

CallerOnly == UNCHANGED <<ctxDone, link, user, reader, writer, received, tracked>>
SenderOnly == CallerOnly /\ UNCHANGED <<reported, registering>>

\* On the bus's loop it is a handler, of whatever event, that sends or emits.
Free(s) == sender[s] = Idle /\ Emitted(s) /\ (s = Loop => status = "busy")

MaySend(s) == Free(s) /\ asked < MaxLines

Ask(s, echo) ==
  /\ asked' = asked + 1
  /\ sender' = [sender EXCEPT ![s] = [pc |-> "lock", line |-> asked + 1, echo |-> echo]]
  /\ SenderOnly /\ UNCHANGED <<bus, life, output>>

\* SendRaw, Send, Nick and Quit: no check before the lock is taken.
Send(s) == MaySend(s) /\ Ask(s, FALSE)

\* Join, Part, Mode ... and, with an echo when echo-message is off, Privmsg.
Command(s, echo) == MaySend(s) /\ state = "Registered" /\ Ask(s, echo)

Lock(s) ==
  /\ sender[s].pc = "lock"
  /\ MuxFree
  /\ IF state = "Disconnected" \/ conn = "nil"
     THEN sender' = [sender EXCEPT ![s] = Idle] /\ UNCHANGED bus
     ELSE /\ sender' = [sender EXCEPT ![s].pc = "write"]
          /\ Emits(s, RawOut(sender[s].line))
  /\ SenderOnly /\ UNCHANGED <<life, output, asked>>

\* WriteString keeps the line in the buffer; when the buffer is full it
\* first flushes what is there.
Write(s) ==
  /\ sender[s].pc = "write"
  /\ Emitted(s)
  /\ ~werr
  /\ \/ wbuf' = Append(wbuf, sender[s].line) /\ wire' = wire
     \/ conn = "open" /\ wire' = wire \o wbuf /\ wbuf' = <<sender[s].line>>
  /\ IF sender[s].echo
     THEN /\ Emits(s, Echo(sender[s].line))
          /\ sender' = [sender EXCEPT ![s].pc = "echo"]
     ELSE sender' = [sender EXCEPT ![s] = Idle] /\ UNCHANGED bus
  /\ SenderOnly /\ UNCHANGED <<life, werr, asked>>

\* A flush that fails may have handed over some of the buffered lines.
FlushFails ==
  /\ werr' = TRUE
  /\ \E k \in 0 .. Len(wbuf) : /\ wire' = wire \o SubSeq(wbuf, 1, k)
                               /\ wbuf' = SubSeq(wbuf, k + 1, Len(wbuf))

WriteFailsEchoed(s) ==
  /\ sender[s].pc = "write"
  /\ Emitted(s)
  /\ IF werr THEN UNCHANGED output ELSE FlushFails
  /\ IF sender[s].echo
     THEN SetState("Disconnected") /\ Emits(s, Echo(sender[s].line))
     ELSE Lose(s)
  /\ sender' = [sender EXCEPT ![s].pc = "failed"]
  /\ SenderOnly /\ UNCHANGED asked

\* handleCriticalWriteError emits with writeMux held.
WriteFails(s) ==
  /\ sender[s].pc = "write"
  /\ Emitted(s)
  /\ IF werr THEN UNCHANGED output ELSE FlushFails
  /\ Lose(s)
  /\ sender' = [sender EXCEPT ![s].pc = "failed"]
  /\ SenderOnly /\ UNCHANGED asked

SendReturns(s) ==
  /\ sender[s].pc \in {"failed", "echo"}
  /\ Emitted(s)
  /\ sender' = [sender EXCEPT ![s] = Idle]
  /\ SenderOnly /\ UNCHANGED <<bus, life, output, asked>>
-----------------------------------------------------------------------------
(* What handlers and timers emit themselves, holding nothing: EventError,  *)
(* and the events of CAP, SASL and NAMES.                                  *)

\* A send that failed, or the timeout, also ends the registration.
Report(s) ==
  /\ Free(s)
  /\ reported < MaxReports
  /\ reported' = reported + 1
  /\ registering' \in {registering, FALSE}
  /\ Emits(s, Ev("report"))
  /\ CallerOnly /\ UNCHANGED <<life, sender, output, asked>>

\* RegistrationHandler.HandleWelcome emits the event it handles again.
ReemitWelcome ==
  /\ Free(Loop)
  /\ current = Ev("registered") /\ registering
  /\ registering' = FALSE
  /\ Emits(Loop, Ev("welcomed"))
  /\ CallerOnly /\ UNCHANGED <<life, sender, output, asked, reported>>
-----------------------------------------------------------------------------
(* writeLoop.                                                              *)

WriterOnly == UNCHANGED <<bus, life, ctxDone, link, user, reader, sender, counts, handlers>>

WriterEnds == /\ writer = "select"
              /\ ctxDone
              /\ writer' = "done"
              /\ WriterOnly /\ UNCHANGED output

Tick == /\ writer = "select"
        /\ writer' = "lock"
        /\ WriterOnly /\ UNCHANGED output

FlushStarts == /\ writer = "lock"
               /\ MuxFree
               /\ writer' = IF wbuf = <<>> \/ werr THEN "select" ELSE "flush"
               /\ WriterOnly /\ UNCHANGED output

FlushEnds == /\ writer = "flush"
             /\ writer' = "select"
             /\ \/ conn = "open" /\ wire' = wire \o wbuf /\ wbuf' = <<>> /\ werr' = werr
                \/ FlushFails
             /\ WriterOnly
-----------------------------------------------------------------------------
(* The bus, and the Client's handlers of the connection events.            *)

BusOnly == UNCHANGED <<life, ctxDone, link, user, reader, writer, sender, output, counts>>

\* A panic on the closed channel ends the process, and every step with it.
EmitEnds(g) == /\ ~crashed
               /\ Bus!Accept(g) \/ Bus!Abandon(g) \/ Bus!Crash(g)
               /\ BusOnly /\ UNCHANGED handlers

\* handleConnected, handleDisconnected and handleRegistered; HandleConnected
\* of RegistrationHandler starts the registration.
Dispatch ==
  /\ Bus!Take
  /\ tracked' = CASE current'.type = "connected" -> "Connected"
                  [] current'.type \in {"manual", "lost"} -> "Disconnected"
                  [] current'.type \in {"registered", "welcomed"} -> "Registered"
                  [] OTHER -> tracked
  /\ registering' = (registering \/ current'.type = "connected")
  /\ BusOnly

HandlersReturn == /\ Bus!Finish
                  /\ sender[Loop] = Idle
                  /\ ~(current = Ev("registered") /\ registering)
                  /\ BusOnly /\ UNCHANGED handlers

LoopExits == Bus!Exit /\ BusOnly /\ UNCHANGED handlers

PeerLeaves == /\ conn = "open" /\ peer = "up"
              /\ peer' = "gone"
              /\ UNCHANGED <<bus, life, ctxDone, conn, user, reader, writer, sender,
                             output, counts, handlers>>
-----------------------------------------------------------------------------
UserStep == \/ Connect \/ DialFails \/ DialSucceeds \/ Connected \/ StartLoops
            \/ Stop \/ CancelConn \/ CloseConn \/ Disconnected \/ CancelBus \/ CloseBus

ReaderStep == \/ ReaderCheck \/ ReadBlank \/ ReadFails
              \/ \E kind \in {"unparsable", "welcome", "message"} : ReadLine(kind)
              \/ ReportUnparsable \/ HandleWelcome \/ HandleMessage \/ ReaderEnds

SenderStep(s) == \/ Send(s) \/ \E echo \in BOOLEAN : Command(s, echo)
                 \/ Lock(s) \/ Write(s) \/ WriteFails(s) \/ SendReturns(s)
                 \/ Report(s)
                 \/ s = Loop /\ ReemitWelcome

WriterStep == WriterEnds \/ Tick \/ FlushStarts \/ FlushEnds

BusStep == \/ \E g \in Goroutines : EmitEnds(g)
           \/ Dispatch \/ HandlersReturn \/ LoopExits

Next == \/ UserStep \/ ReaderStep \/ \E s \in Senders : SenderStep(s)
        \/ WriterStep \/ BusStep \/ PeerLeaves \/ AppCancel

Safety == Init /\ [][Next]_vars

(***************************************************************************)
(* Fairness.  A goroutine that stays able to run does run: mutexes and     *)
(* channels serve their waiters in turn, handlers return, a write ends     *)
(* within the write deadline.  A read ends for certain only when it fails: *)
(* the server need not say anything, and no deadline need pass, for        *)
(* ReadTimeout may be 0.  writeLoop's select, offered the tick and the     *)
(* cancelled context again and again, takes the latter some time (strong   *)
(* fairness).  Nobody has to connect, stop or send.                        *)
(***************************************************************************)
UserGoesOn == EmitEnds(User) \/ Connected \/ StartLoops \/ CancelConn \/ CloseConn
              \/ Disconnected \/ CancelBus \/ CloseBus
ReaderGoesOn == EmitEnds(Reader) \/ ReaderCheck \/ ReadFails \/ ReportUnparsable
                \/ HandleWelcome \/ HandleMessage \/ ReaderEnds
SenderGoesOn(s) == EmitEnds(s) \/ Lock(s) \/ Write(s) \/ WriteFails(s) \/ SendReturns(s)
LoopGoesOn == SenderGoesOn(Loop) \/ Dispatch \/ ReemitWelcome \/ HandlersReturn \/ LoopExits

Fairness ==
  /\ WF_vars(UserGoesOn)
  /\ WF_vars(ReaderGoesOn)
  /\ \A s \in Callers : WF_vars(SenderGoesOn(s))
  /\ WF_vars(LoopGoesOn)
  /\ WF_vars((FlushStarts \/ FlushEnds))
  /\ SF_vars(WriterEnds)

Spec == Safety /\ Fairness
-----------------------------------------------------------------------------
SenderPc == {"idle", "lock", "write", "failed", "echo"}

BusType ==
  /\ log \in Seq(EventTypes) /\ pos \in Nat
  /\ current \in EventTypes \cup {NoEvent}
  /\ status \in {"idle", "busy", "exited"}
  /\ out \in [Goroutines -> EventTypes \cup {NoEvent}]
  /\ done \in BOOLEAN /\ chOpen \in BOOLEAN /\ crashed \in BOOLEAN

LifeType ==
  /\ state \in {"Disconnected", "Connecting", "Disconnecting"} \cup Live
  /\ ctxDone \in BOOLEAN
  /\ conn \in {"nil", "open", "closed"} /\ peer \in {"up", "gone"}
  /\ tracked \in {"Disconnected", "Connected", "Registered"}
  /\ registering \in BOOLEAN

ProgressType ==
  /\ user \in {"idle", "dial", "dialled", "start", "connected", "cancel", "close", "wait",
              "manual", "drain", "stopped"}
  /\ reader \in {"off", "check", "read", "unparsable", "welcome", "message",
                "closing", "done"}
  /\ received \in 0 .. MaxReads /\ reported \in 0 .. MaxReports /\ revived \in Nat

OutputType == wbuf \in Seq(Lines) /\ werr \in BOOLEAN /\ wire \in Seq(Lines)

SendType ==
  /\ writer \in {"off", "select", "lock", "flush", "done"}
  /\ sender \in [Senders -> [pc : SenderPc, line : Nat, echo : BOOLEAN]]
  /\ asked \in 0 .. MaxLines

OneHolder ==
  \A s \in Senders : sender[s].pc \in {"write", "failed"} =>
    writer # "flush" /\ \A t \in Senders \ {s} : sender[t].pc \notin {"write", "failed"}

\* The types, and writeMux has at most one holder.
TypeOK == BusType /\ LifeType /\ ProgressType /\ OutputType /\ SendType /\ OneHolder

(***************************************************************************)
(* Once Disconnect has set the final state, both loops have ended, the     *)
(* socket is not open and nothing sets the state again: wg.Wait comes      *)
(* before setState, so a late 001 or read error is overwritten by it.      *)
(***************************************************************************)
StoppedIsFinal ==
  user \in {"manual", "drain", "stopped"} =>
    state = "Disconnected" /\ LoopsDone /\ conn # "open"

(***************************************************************************)
(* A subscriber that has seen the "manual disconnect" event sees nothing   *)
(* the connection received after it: neither raw nor parsed lines, nor the *)
(* reader's errors, nor a first EventRegistered.  What can still come is   *)
(* from handlers, timers and senders, for which Disconnect does not wait:  *)
(* their own events, a line already past SendRaw's state check, its echo,  *)
(* or a write error that preceded Disconnect.  EventRegistered comes once  *)
(* more if it came before, for RegistrationHandler emits it again.         *)
(***************************************************************************)
NothingReceivedAfterManual ==
  \A i, j \in DOMAIN log : log[i] = Ev("manual") /\ i < j =>
    /\ log[j].type \in {"raw_out", "echo", "lost", "report", "welcomed"}
    /\ log[j].type = "welcomed" => \E k \in 1 .. i - 1 : log[k] = Ev("registered")

(***************************************************************************)
(* A connection whose reader has ended is not reported as connected,       *)
(* unless its context was cancelled: every other way out of readLoop goes  *)
(* through transitionToDisconnected or Disconnect.                         *)
(***************************************************************************)
DeadReaderNotLive == reader = "done" => state \notin Live \/ ctxDone

Reports(e) == Cardinality({i \in DOMAIN log : log[i] = e})
              + Cardinality({g \in Goroutines : out[g] = e})

(***************************************************************************)
(* However many goroutines meet an error at once, a connection is reported *)
(* lost at most once, and once more for each time its state was set up     *)
(* again while it was down: by a 001, and by Connect when a send had       *)
(* failed on the new socket before the state said Connected.               *)
(***************************************************************************)
LostOnce == Reports(Ev("lost")) <= 1 + revived

\* How many of the first n events are an EventRawOutgoing.
Announced(n) == Cardinality({i \in 1 .. n : log[i].type = "raw_out"})

(***************************************************************************)
(* Lines are written in the order EventRawOutgoing announced them, by      *)
(* whichever goroutines they were sent, and each is announced before it is *)
(* written: writeMux covers both.                                          *)
(***************************************************************************)
WrittenAsAnnounced ==
  ~done =>
    LET written == wire \o wbuf
    IN  /\ Len(written) <= Announced(Len(log))
        /\ ~werr => Announced(Len(log)) <= Len(written) + 1
        /\ \A i \in DOMAIN log :
             log[i].type = "raw_out" /\ Announced(i) <= Len(written) =>
               written[Announced(i)] = log[i].line

(***************************************************************************)
(* Privmsg and Notice echo only messages that were written.                *)
(***************************************************************************)
EchoIsWritten ==
  \A i \in DOMAIN log :
    log[i].type = "echo" => log[i].line \in ToSet(wire \o wbuf)

(***************************************************************************)
(* Start, Stop, the loops and the senders use the bus only as it allows:   *)
(* one outstanding Emit each, and the channel closed after the loop.       *)
(***************************************************************************)
UsesBus == Bus!Spec

\* A handler waits, on the bus's loop, for space only the loop can make: in
\* its own Emit, or for writeMux whose holder waits in Emit.
SelfBlocked ==
  /\ Len(log) - pos = Capacity /\ ~done
  /\ \/ out[Loop] # NoEvent
     \/ /\ sender[Loop].pc = "lock"
        /\ \E s \in Senders : sender[s].pc \in {"write", "failed"} /\ ~Emitted(s)

(***************************************************************************)
(* Stop returns, whatever the server and the senders do, unless the bus's  *)
(* loop is blocked behind its own full channel.                            *)
(***************************************************************************)
StopReturns == user = "cancel" ~> user = "stopped" \/ SelfBlocked \/ crashed

(***************************************************************************)
(* When the peer is gone the reader ends and, with that, the connection is *)
(* no longer reported as connected.                                        *)
(***************************************************************************)
LossIsNoticed ==
  user = "connected" /\ peer = "gone" ~>
    \/ reader = "done" /\ (state \notin Live \/ ctxDone)
    \/ SelfBlocked \/ crashed

(***************************************************************************)
(* What Client.Stop is documented to do, without the exception above: it   *)
(* "disconnects from the IRC server and cleans up resources".              *)
(***************************************************************************)
StopAlwaysReturns == user = "cancel" ~> user = "stopped" \/ crashed

\* Nothing is going on and every event has been handled.
Settled == /\ user = "connected" /\ reader = "done" /\ ~done
           /\ \A g \in Goroutines : Emitted(g)
           /\ \A s \in Senders : sender[s] = Idle
           /\ status = "idle" /\ pos = Len(log)

(***************************************************************************)
(* The Client's state tracking agrees with the connection: once a lost     *)
(* connection's events are handled, the Client does not report it as up.   *)
(***************************************************************************)
TrackedSettles == Settled => tracked \notin Live
=============================================================================
