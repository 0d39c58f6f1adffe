# Verification of ircparser

TLA+ models of `github.com/greboid/ircparser`, an IRC client library in Go,
with TLC configurations that check them on small instances and TLAPS proofs of
what holds for every instance.

## The system

The library is one `Parser` (`parser/parser.go`) per connection, and a `Client`
(`client/client.go`) on top that tracks what the server says.

| Component | State | Operations | Talks to |
|---|---|---|---|
| Event bus, `parser/eventbus.go` | handlers per event type, ids, a channel of 100 events, a context | `Emit`, `Subscribe`, `UnsubscribeByID`, `Close`, the loop goroutine | everyone: all handlers run on its one goroutine |
| Connection, `parser/connection.go` | connection state, socket, buffered writer, context, current nick, ISUPPORT | `Connect`, `Disconnect`, `SendRaw`, the goroutines `readLoop` and `writeLoop` | emits on the bus, the network |
| Parser, `parser/parser.go` | the two above | `Start`, `Stop`, one method per IRC command | Connection, bus |
| Capability negotiation, `parser/capabilities.go` | available, requested, acknowledged capabilities, negotiating flag, ready channel | handlers of CAP LS, ACK, NAK, NEW, DEL; a goroutine that ends the negotiation | Connection, SASL through events |
| SASL, `parser/sasl.go` | state, mechanism, timer | handlers of AUTHENTICATE and of the SASL numerics, `StartAuthentication`, `Abort`, timeout | Connection, capability negotiation through events |
| Registration, `parser/registration.go` | state, timer | handlers of EventConnected, 001 and 433, timeout | Connection |
| Ping, `parser/ping.go` | timer | PONG to every PING, PING after a minute of silence | Connection |
| Client, `client/client.go`, `client/state.go`, `parser/types.go` | nick, modes, channels and their users, server limits | one handler per tracked event, getters | bus |
| Messages, `parser/message.go`, `parser/events.go` | none | parse and print a line, tags, CTCP; event of a message | Connection |
| Default handlers, `parser/factory.go` | none | subscribe SASL (if configured), capabilities, registration and ping, in that order | bus |
| Configuration, errors, example | none | validation of settings, error formatting, a demo program | Client |

### How the parts interact

* Everything the parts tell each other goes through **one event bus**. `Emit`
  puts an event on a channel of 100; one goroutine takes events off it and runs
  the handlers of an event one after the other. A handler may send lines and
  emit events itself, on that same goroutine.
* **Emitters** are therefore: the goroutine that calls `Start` and `Stop`
  (`connected`, `manual`), `readLoop` (raw and parsed messages, `registered`,
  `lost`), every goroutine that sends (`raw_out`, the echo of a PRIVMSG, `lost`
  after a write error), the handlers, and the callbacks of three timers (SASL,
  registration, ping).
* **Shared state.** `stateMux` covers the connection's state only for one read
  or one write, `writeMux` the buffered writer, the Emit of `raw_out` and the
  write error's Emit. `readyCh` joins the handlers to the goroutine that waits
  to send CAP END.
* **Life.** `Start` dials, starts `readLoop` and `writeLoop`, emits
  `connected`. `Stop` cancels the connection's context, closes the socket, waits
  for both loops, emits `manual`, cancels the bus, waits for its loop and closes
  the channel.

### What is hard

* *Interleavings.* Reports (`connected`, `lost`, `registered`, `manual`) are
  emitted after the state was changed and outside its lock, by four goroutines.
* *A goroutine that feeds itself.* A handler that emits on a full channel waits
  for itself, possibly while it holds `writeMux`.
* *Shutdown.* Each step of `Stop` waits for someone who may be in `Emit`, on
  `writeMux` or in a read without a deadline.
* *Tokens.* All waiters of the capability negotiation share one buffered
  channel of anonymous signals.
* *Timers.* `timer.Stop` does not wait for a callback that has started.
* *Partial failure.* A write error marks the connection as lost but leaves the
  socket open and the reader running; the buffered writer then fails for good.

### What makes each part correct

| Component | Correct when |
|---|---|
| Event bus | accepted events are dispatched in order, each exactly once to each handler subscribed at that time; nothing runs after `Close`; every `Emit` and `Close` returns |
| Connection, Parser | the state after `Stop` is final; a dead connection is not reported as up, nor its loss reported twice; lines are written as announced; `Stop` returns |
| Capabilities, SASL, Registration | one CAP END, after the authentication; credentials once; the client believes only what the server did; registration and every wait end |
| Ping | one PING per silence, PONG for every PING, nothing after `Stop` |
| Client | members, topics and modes are the server's; the tracked connection state is the connection's |
| Messages, Events | parsing inverts printing; the limits and escapes of the protocol |

## The modules

| Module | Models | State and actions in the code |
|---|---|---|
| `Broadcast` | the promise of the event bus: one bounded log, taken in order | `log` is all that `eventCh` ever took, `pos` how much of it `eventLoop` has received, `out[g]` an `Emit` blocked in its select |
| `EventBus` | `parser/eventbus.go` | `handlers`, `nextID`, `eventCh` as in the struct; `todo` is `handlersCopy`; an action is one critical section or one channel operation: `SubscribeID` and `SubscribeAppend` are the two halves of `Subscribe`, `LoopReceive`, `LoopCopy` and the handler steps are `eventLoop` and `dispatchEvent` |
| `MCEventBus` | instance: the loop, the application, the reader | |
| `EventBusProofs` | theorems about `EventBus` | |
| `Connection` | `parser/connection.go`, `Start`, `Stop` and the commands of `parser/parser.go`, the handlers of connection events in `client/client.go` and `registration.go` | one program counter per goroutine (`user`, `reader`, `writer`, `sender[s]` for the bus's loop and each member of `Callers`); between two of its values there is no point at which another goroutine can come in: an Emit, a lock, a state change, a socket operation. `DialSucceeds` publishes the socket, `Connected` sets the state. What handlers and timers emit is `Report`, the second `EventRegistered` is `ReemitWelcome`; `revived` counts, for `LostOnce`, the times the state was set up while it was down |
| `ConnectionProofs` | theorems about `Connection`: types, states, the order of reports, the bus | |
| `SendingProofs` | theorems about `Connection`: lines, echoes, the number of reports | |
| `Handshake` | `parser/capabilities.go`, `sasl.go`, `registration.go`, `factory.go`, `HandlePing` of `ping.go` | the handlers' fields; one action per event runs the handlers of that event in the order `factory.go` subscribes them; `waiters` and `enders` are the goroutines of `EndCapabilityNegotiation` before and after their select |
| `HandshakeProofs` | theorems about `Handshake` | |
| `ClientState` | the handlers of `client/client.go`, `client/state.go`, `parser/types.go`, the nick in `connection.go`'s `handleMessage` | `nick`, `umodes`, `prefixes`, `chans` are `State.CurrentNick`, `UserModes`, `ServerInfo.ChannelPrefixes`, `Channels`; one action per event type; `srv` is the truth, `queue` the events on their way, `seen` the truth after the last one handled |
| `MCClientState` | instance: three users, two channels, statuses `q` and `o` | |
| `ClientStateProofs` | theorems about `ClientState`: the nick and the table of channels | |
| `RosterProofs` | theorems about `ClientState`: members, status, topic, modes | |
| `SequenceLemmas` | lemmas on sequences that `EventBusProofs`, `SendingProofs`, `HandshakeProofs` and `MessageCodecProofs` share: what appending, removing and taking do to the set of elements, to their number and to distinctness; induction over the length of a sequence | |
| `MessageCodec` | `parser/message.go`, `DetermineEventType`, `CreateEventFromMessage` and the CTCP tests of `events.go`, `sendAuthData` of `sasl.go` | one operator per function, a text is a sequence of symbols; the actions carry one message through `String`, `readLoop`'s trimming and `ParseMessage`, and `CreateEventFromMessage`, or one secret through `sendAuthData` |
| `MCMessageCodec` | instance: the messages and lengths enumerated | |
| `MessageCodecProofs` | theorems about `MessageCodec`: the two round trips, events, credentials | |

`EventBus` implements `Broadcast` (checked and proved). `Connection` uses the bus
through an instance of `Broadcast`, and its own steps on the bus are shown to be
`Broadcast`'s (`UsesBus`, checked and proved). So what is checked of a connection
on the short abstract bus holds on the real one, and the connection's model need
not carry handler ids and subscriptions. `Handshake` keeps only the queue of the
bus: its handlers run on the loop, one event at a time. `ClientState` does the same:
it starts where `Connection` and `Handshake` end, with the events of a registered
connection. `MessageCodec` justifies that those three work with messages and not
with lines: it says exactly for which messages a line stands for what was sent.

### Abstractions

* A line is a number (`Connection`) or a command with a set of capabilities
  (`Handshake`). Texts, nicknames and error values are left out.
* `wbuf`, `wire`: a `WriteString` may or may not flush first, a failing flush may
  have handed over any prefix. A line split in two by a failing write counts as
  not handed over.
* An event that a handler or a timer emits is a `report`: nothing in `Connection`
  depends on which it is, but for `EventRegistered`, which `RegistrationHandler` emits
  again (`welcomed`) while `registering`. That is its `IsActive`: true from
  `EventConnected` on, until 001, a failed send or the timeout.
* A read fails when the socket was closed or the peer has left; the peer may be
  gone only as far as a read can tell (that includes a read deadline).
* `Handshake`: an event's handlers are one action, although they send and emit
  in between. Nothing else changes what they read, but for timers: an expired
  timer's callback stays "fired" and may write at any later time, which covers
  its running in between. A connection that breaks between two lines of
  registration is covered by the prefix `HandleConnected` chooses.
* The IRC server is external. It follows the IRCv3 capability and SASL
  specifications, answers late, may refuse the nick (433), announce or withdraw
  capabilities, judge the credentials either way or never, and leave.
* `Handshake` does not stop: `Stop` is `Connection`'s.
* `ClientState`: a nick, channel or topic is a value of a small set, a channel's
  modes are one flag without argument and the statuses; a user's status is a set
  of letters. Each message carries, for the properties only, the server state it
  leads to. NAMES shows the highest status of a user and may come in two lines. After
  the link is lost the reader emits nothing more. Two history fields of a channel's
  record, `joined` and `mixed`, and `granted`, mark the exceptions below.
* `MessageCodec`: characters that the code does not tell apart are one symbol, and
  so are the words it compares with; `Length` counts their characters. A Go map is written
  in any order. What is sent is `Sendable`: something that fits in one line. Of the
  white space that `TrimSpace` and `Fields` know, the model has the blank, CR and LF, and
  leaves out tabs and the like. The limits of length and the UTF-8 check, which only
  refuse a line, and the server-time tag are left out.

## The runs

| Run | Question | Bounds |
|---|---|---|
| `bus_safety` | Is the bus one ordered, exactly-once broadcast while goroutines and handlers subscribe, unsubscribe, emit and close? | 3 goroutines, 2 event types, channel of 2, 3 events, 2 subscriptions |
| `bus_liveness` | Do `Emit` and `Close` return? | channel of 1, 3 events, 1 subscription |
| `connection_safety` | Is the final state final, are reports ordered, unique and true, echoes only of what was written, and is the bus used as it allows? | 1 line read, 1 sent, channel of 1 |
| `connection_sending` | Is what is written what was announced when two goroutines send while the writer flushes or fails, and again after that? Is the loss reported once? Does `Stop` still return? | 2 lines sent, none read, channel of 1 |
| `connection_liveness` | Does `Stop` return, is a lost peer noticed, with the reader in Emit, a handler that emits an event of its own, `EventRegistered` emitted again, and the context cancelled by the application? | 1 line read, 1 such event, none sent, no `Callers` but the loop |
| `connection_stop` | violation, see below | 1 line sent |
| `connection_tracking` | violation, see below | 1 line read, 1 sent |
| `handshake` | One CAP END, after the authentication, and an end to every wait, with a server that registers nobody before PONG, too? | a server password, capabilities in one line, SASL configured or not, PLAIN offered or not, every set of capabilities, PING cookie or not, 1 refused nick, a link that breaks |
| `handshake_changes` | What still holds when `CAP LS` comes in two lines and a capability comes or goes? | SASL configured, two lines, 1 CAP NEW or DEL, no refused nick, the link holds |
| `handshake_multiline` | violation, see below | |
| `client_state` | Are nick, channels, members, status, topic and modes those of the server after the messages handled? | 3 nicks, 2 channels, 3 changes on the server, made while up to 2 messages are not yet handled, 1 other user in a channel on joining it |
| `codec` | For which messages does reading undo formatting, when is CTCP recognised, when do the credentials end? | up to 3 parameters of up to 2 characters, tag values of up to 4, texts of up to 5 symbols, credentials of up to 3 chunks and one byte |

**Why these bounds are enough to be interesting.** A channel of one is full after
one event, so every Emit of every goroutine is reached in the blocked state; with
100 places the same states come 99 events later. Two subscriptions of one type
are what it takes to remove one handler from under another. Two senders, one of
them the loop, and two lines are what it takes for two holders of `writeMux`, for
a reordering and for a line buffered behind a failed one. `connection_liveness` lets only
the loop send or emit besides `Start`, `Stop` and the reader: a second sender that can
hold `writeMux` against it is in `connection_sending`, which checks `StopReturns` too. One read line is enough
for a 001 that overtakes a write error or `Disconnect`, or that is still queued when
`manual` is accepted. Lines sent, lines read and handlers' events at once are more than
TLC can enumerate (millions of states each); the proofs cover all three together. The handshake has one
capability that matters to it (`sasl`) and one that does not; with two lines of
`CAP LS` the negotiation ends twice in all the ways it can, because each further
line repeats the second. In `client_state` every change of the server may meet a
Client that has yet to handle two messages of earlier ones; a longer queue shows
nothing new, because no handler reads the server's state and no change of it reads the
Client's. Three changes are what it takes to join, to change something about somebody,
and to change it again under another name or in another channel; one other user is
found in a channel, the third joins later. The two other nicks are interchangeable
(`SYMMETRY`; the run has invariants only). In `codec` a value of four symbols has room
for two escapes next to each other, a text of five for delimiters around a word, a
space and another word. The exact values are in the configurations; TLC
checks deadlock nowhere, because every one of these systems may come to rest.

`Capacity`, `MaxLines`, `MaxReads`, `MaxReports` (connection), `MaxEvents`, `MaxSubs` (bus),
`MaxNew` and `MaxClashes` (handshake), `Crowd`, `MaxActs` and `MaxQueue` (client
state) and those of `MCMessageCodec` are the only bounds. In the proofs all are
arbitrary; only the theorems under `OneAnswer` have `MaxNew = 0`.

### Fairness

* *Bus and connection*: weak fairness for each goroutine as a whole, because a
  runnable goroutine is scheduled, mutexes and channels serve their waiters in
  turn, and a write has a deadline. A read need not end while the peer is up
  (`ReadTimeout` may be 0). `writeLoop` has strong fairness for leaving on the
  cancelled context: its select is offered both the tick and the cancellation
  again and again and chooses at random. Nobody must connect, send or stop.
* *Handshake*: the loop, the negotiation's goroutines, the server's reading and
  answering, and the timers, which run down unless stopped. Not fair: the
  server's judgement of the credentials, the breaking link, CAP NEW and DEL.

**The exception `SelfBlocked`.** Liveness holds unless the bus's loop waits on a
full channel for itself: in a handler's own Emit, or for `writeMux` that a sender
holds while it waits in Emit. The second form was found by checking
`StopReturns` with two lines. `connection_stop` shows that the exception is real.

### Findings

1. `connection_stop`: `Stop` does not return once a handler's send has met a full
   channel (`connection.go:118`, `:287`). `client.go:52` says that `Stop`
   "disconnects from the IRC server and cleans up resources".
2. `connection_tracking`: `connected` is emitted after the loops have started, so
   a fast read error's `lost` is handled before it and the Client stays
   "Connected" for good (`connection.go:94`). The second `EventRegistered`
   (`registration.go:243`) can in the same way be handled after `lost`.
3. `handshake_multiline`: each line of a `CAP LS` answer is taken for the last
   (`capabilities.go:104`). The first one's goroutine can send CAP END while the
   second one's authentication is under way.

### What the code does otherwise than one might expect

The properties below hold with exceptions, and the exceptions are what the code does.
Most state both directions (`<=>`) or name the excepted case, so they would also fail
if the code were changed for the better.

* `Misnamed` (`IdentityAgrees` and the others of `ClientState`): the server may register
  the client under another nick. `handleRegistered` (`client.go:287`) does not read it,
  so `State.CurrentNick` stays the configured one and the Client takes its own JOIN for
  somebody else's. The connection's nick is right.
* `joined` (`ChannelsAgree`): an answer to NAMES makes a record for a channel the client
  is not in (`client.go:466`).
* `mixed` (`StatusAgrees`, `TypeOK`): every mode letter takes the next argument
  (`client.go:328`), although `state.go:159` knows that some never have one. In
  `+mo nick` the argument goes to `m`.
* `LostOnce`: a loss is reported again if the state was set up in between, by a 001 that
  was still buffered or by `Connect`, when a send failed on the new socket before
  `connection.go:86`.
* `NothingReceivedAfterManual`: handlers still drain the queue when `manual` is accepted,
  and emit behind it, `EventRegistered` too (`registration.go:243`); timers and senders as
  well. The property says what cannot come: anything the reader received.
* After `Close` an Emit may panic, since the send on the closed channel is one of the
  cases of its select (`eventbus.go:120`). The models have it (`Crash`); nothing in the
  repository says that nobody emits then.
* `WaiterIsOwed`: an aborted or timed out authentication never emits
  `EventCapEndReady` (`sasl.go:303`), against the comment at `sasl.go:594`; the
  negotiation waits out its 30 seconds.
* `MessageRoundTrip`: `String` quotes the last parameter only (`message.go:189`), and
  `readLoop` trims the line, so a text loses its trailing spaces (`connection.go:166`).
* `TagRoundTrip`: a backslash before `:`, `s`, `r`, `n` or `0` comes back as something
  else (`message.go:155`).
* `Misjudged` (`EventFaithful`): ACTION without a text, in lower case, after a space or
  as the beginning of a longer word (`events.go:481`, `:494`, `:505`).
* `CredentialsFramed`: credentials of exactly one chunk lack the final `+`, longer ones
  get it also after a short chunk (`sasl.go:489`, `:527`).
* A PART or KICK without a reason has its last parameter for one, CHANNELLEN sets
  `MaxChannels` (`state.go:71`). No property is about these.

## What is proved

All theorems are for arbitrary constants under the named assumption of the module
(`BusAssumption`, `ConnectionAssumption`: goroutines are distinct, the `Callers` finitely many,
no event is `NoEvent`, the capacity is positive; `HandshakeAssumption`: the types of the
settings; `ClientAssumption`: the preferred nick is a nick, `NoNick` is none, no channel
has a nick's name, and the ranks are a sequence of letters, none of them a flag;
`CodecAssumption`: a chunk has at least one byte, the symbols the protocol gives a meaning
exist, and each message sent is `Sendable`: its command is one word that does not begin
like a source or a tag, no part but the value of a tag has the end of a line in it, and
tags have names without what ends a name. What is not `Sendable` is no single message on
the wire, and the protocol forbids it; everything else is allowed, what does not come back
included). Those
about the bus, the connection and the handshake are about `Safety`, the
specification without fairness, of which `Spec` is a special case.

**`EventBusProofs`.** `IInv` is `TypeOK` and `FifoChannel` (the channel holds what the
log has and the loop has not taken; no run checks it by itself, since
`ImplementsBroadcast` fails with it) with three facts:
`TodoOK` (while a handler runs there is a handler to run), `CloseOK` (the channel
is closed exactly when `Close` has returned, and then the loop has exited),
`LoopCallOK` (the loop's goroutine is in Emit only from within a handler).
`FifoChannel` alone is inductive only with the types; `QuietAfterClose` needs
`CloseOK`, the refinement needs `LoopCallOK`, since `Broadcast` lets the loop
finish only without an Emit outstanding. Theorems: `SafetyTypeOK`,
`SafetyFifoChannel`, `SafetyQuietAfterClose`, `SafetyImplementsBroadcast`.

`ExactlyOnce` speaks of each handler in the table and of a dispatch half done, so its
proof must know everything about ids and places. `Books` adds to `IInv`:

* `Registered`: a handler has one place in one type's list, was not removed, and was
  subscribed no later than the last event taken;
* `Awaiting`: an id is given once. Between the two halves of `Subscribe` it is in no
  list, was never called, and no other goroutine holds it;
* `Dispatching`: `handlersCopy` has no handler twice; each one left in it is still
  subscribed to the event's type, or was removed while this very event was dispatched.
  The removal must be *exactly* then: with "at or before" a stale copy could call a
  handler again, and `NoCallAfterRemoval` would not be preserved.

The delicate step is `LoopCopy`: it turns "every event up to the last but one" into
"every event up to the last, for those not in the copy", and is right only because
`Registered` says that nobody in the list was subscribed after the event was taken.
Theorems: `SafetyExactlyOnce`, `SafetyNoCallAfterRemoval`.

**`ConnectionProofs`.** None of the properties is inductive by itself. `IInv` adds

* `StopOK`: before `StartLoops` no loop exists; from `wg.Wait` on the socket is
  not open (`StoppedIsFinal` then survives because a reader that does not exist
  cannot run);
* `ReaderOK`: a reader that is closing has gone through
  `transitionToDisconnected` or seen the cancelled context. No later write can
  revive the state, because only the reader itself (001) and `Connect` do, and
  the reader is past it;
* `EmitOK`: where a goroutine is when it has no Emit outstanding. It makes each
  Emit a legal call of `Broadcast`, and rules out that a reader that has ended
  still has an event to be accepted;
* `KindOK`: who emits what, so that only `User`'s event can be `manual`, and only the
  reader's what was received;
* `WelcomeOK`: the second `EventRegistered` is on its way, or in the log, only behind the
  first, which the loop was handling when it was emitted;
* `ManualOK`: once `manual` is in the log, or on its way, `Stop` is past it.
  `NothingReceivedAfterManual` follows: when a later event is accepted `User` has none
  outstanding, the reader has ended, and the loop and the callers emit nothing but
  `raw_out`, `echo`, `lost`, `report` and `welcomed`.

The step lemmas are by goroutine (`UserTypes`, `UserControl`, `ReaderControl` ...)
and then by action. Theorems: `SafetyTypeOK` (with `OneHolder`: `writeMux` is a
mutex), `SafetyStoppedIsFinal`, `SafetyDeadReaderNotLive`,
`SafetyNothingReceivedAfterManual`, `SafetyUsesBus`.

**`SendingProofs`.** What is written is the concatenation of `wire` and `wbuf`, and a
write error may lose any part of the buffer, so the properties relate a log that only
grows with a sequence that may stop growing.

* `RawOK`: only a sender in `pc = "write"` has a `raw_out` on its way, of its own line.
  With `OneHolder` there is one such sender;
* `Due(s)`: its line is in the log and not yet written. `Balanced` counts: before a
  write error what is announced is what is written, plus the line that is due, and after
  one at least as much; `InOrder` says that the k-th announcement is the k-th line
  written, and the next one the line that is due. `Ordered` is both, and together with
  `RawOK` it is inductive. `SafetyWrittenAsAnnounced` follows;
* `EchoOK` carries `EchoIsWritten` from the moment an echo is on its way, and gives
  `SafetyEchoIsWritten`;
* `Budget` makes `LostOnce` inductive: nothing is reported lost before the first dial
  succeeds, and while the state is neither "Disconnecting" nor "Disconnected" no more
  losses were reported than states revived. `Lose` is then the only step that spends the
  remaining one, because it takes the state down, and `Connected` and `HandleWelcome` the
  only ones that give one back, when they find it down. `StepLosses` and `EndLosses` say
  this of every step. Theorem: `SafetyLostOnce`.

**`HandshakeProofs`.** The first part is for every server that the model has, with any
number of lines, late changes and refused nicks. `Core` adds to the properties

* `Untouched`: until `EventConnected` is handled nothing else has happened. That makes
  `CAP LS` the first line the server hears;
* `Authentication`: which lines of the exchange can have been sent in which state, how
  many are on the wire, and that the server has gone no further than what it heard.
  `CredentialsOnce` rests on the counts: one `AUTHENTICATE PLAIN` is sent, so one "+"
  can come back;
* `Registration`, `Suspended`: 001 is under way or handled only after the server has
  registered the client; the registration is suspended from the first line on until
  `CAP END` is heard.

Theorems: `SafetyTypeOK`, `SafetyCredentialsOnce`, `SafetyWelcomeAfterEnd`,
`SafetyBelievesServer`, `SafetySuccessStands`.

The second part assumes `OneAnswer`: `CAP LS` is answered in one line, and no
`CAP NEW` or `CAP DEL` comes. This is no matter of convenience: `handshake_multiline`
refutes `EndAwaitsSASL` without it. `Single` says that the negotiation is then in one
place at a time: `OnePlace` adds up the events, lines and parts of the answer that will
make it go on, the goroutines that wait and the `CAP END`s sent, and the sum is at most
one; the same holds with the signals for the waiter in place of the waiter. `Open`,
`NoChange`, `Answered` and `WithoutSASL` say what holds in each place. A token in
`readyCh` therefore belongs to the only waiter and to an authentication that is over,
which is why `CAP END` is sent after it. Theorems: `SafetyEndsOnce`,
`SafetyWaiterIsOwed`, `SafetyCapsAgree`, `SafetyEndAwaitsSASL`, and `SafetyOneToken`:
`readyCh` (capacity 100, `capabilities.go:328`) then never holds more than one signal,
so none is dropped.

**`ClientStateProofs`.** `ChannelsAgree` compares the Client with the server as of the
last message handled, which says nothing about the next. `IInv` adds

* `Chain`: each message in the queue leads from one state of the server to the next,
  from `seen` to `srv`, and says what it does to nick and channels (`Follows`);
* `ServerOK`: the connection's nick is the server's, since the reader handles NICK and
  001 before it emits them;
* `Tracks`: the Client's nick and channels joined are those of `seen`.

A step of the server makes the chain longer at its end (`ChainGrows`), a handler takes
its first link away (`ChainShrinks`) and does to the table what the link says. The
lemmas about the server (`...Preserves`) and about the handlers (`...Keeps`) are one per
action. Theorems: `ChainInvariant`, `ChannelsSafe`, `IdentitySafe`.

**`RosterProofs`.** The same argument for what a channel's record holds. `Roster` adds to
`IInv`

* `Links`: each queued message says what it does to *every* channel's record
  (`ChannelAfter`), and the lines that answer JOIN and NAMES say nothing that is not so
  (`AnswerOK`). `RecordAfter` is the handlers' half: what they make of the Client's
  record;
* `Right`: the Client's record of each channel `Fits` the one it has seen (nobody and
  nothing too many), and once the list is announced it is `Full`. `MessageFits` is the
  heart: a record that fits before a message fits after it, for each type of message, a
  MODE of two letters included;
* `ListsComplete`: whoever is in a channel when 366 is about to come is named in one of
  the lines before it, with nothing but NAMES in between, or is shown already. It is what
  makes `announced` mean something: a JOIN or QUIT that came between two lines of a list
  would break it, and cannot since the server writes them together;
* `TopicLinesFollow`: 332 is followed by 333 at once, and both come only right after the
  client's JOIN. The topic is wrong between those lines, and `TopicRight` says that then
  the next event corrects it; no list is announced before;
* `Informed`: 005 is handled before any other message, so NAMES is always read with the
  server's prefixes. The exception `TypeOK` leaves for unknown prefixes is never used;
* `OwnModesRight`, and the types of the Client's fields (`ClientOK`).

The lemmas `...Grow` show that a step of the server keeps each part, whatever the queue
holds, the lemmas `...Shrink(s)` that it survives the loss of the first message, and
`RightHandled` that the handlers do what `Links` promises. `Misnamed` and `mixed` are
the exceptions the properties make, and no others were needed. Theorems:
`RosterInvariant`, `MembersSafe`, `StatusSafe`, `SettingsSafe`, `TypesSafe`. TLC agrees
with `Roster` on the instance of `client_state` with two changes of the server's state.

**`MessageCodecProofs`.** The inductive invariant, `CodecInv` (lemma `CodecInvariant`),
only says how the stages hang together, and holds by the shape of `Next`: what was read
is what `ParseMessage` makes of a line that `String` may have returned, and the events are
those of what was read. What is hard is what these functions return for a text of any
length.

* *Induction.* The library's induction theorems have a predicate as a parameter, which the
  provers cannot instantiate. `SequenceLemmas` therefore takes the *set* of the numbers, or
  of the texts, for which something holds (`SetInduction`, `AppendInduction`,
  `PrependInduction`), from the fact that a set of numbers has a least one. `FoldExists`
  and `StepsAgree` show in the same way that a recursive function exists and is the only
  one of its kind.
* *Package `strings`.* Each recursive function is first characterised by what it returns for
  one element more: `SplitFacts`, `JoinFacts`, `NonEmptyFacts` at the end of a text,
  `ReplacedOne` and `ReplacedTwo` at its beginning, since `ReplaceAll` reads from there.
  From these: `SplitJoined` (splitting undoes joining if no part has the separator in it) and
  `SplitCut` (the first part is what is before the first separator).
* *Escapes.* A text is `Coded(D, v)` when the symbols in `D` are written as a backslash and
  a letter, the others as themselves. Each replacement of `escapeTagValue` takes one symbol
  into `D` (`EscapePass`), provided that it is not the backslash or `D` is empty: the
  backslash must be the first, and the mutant of `TagRoundTrip` replaces it last. Each
  replacement of `unescapeTagValue` takes one symbol out of `D` again if it is the backslash
  or the value nowhere `Spells` a backslash and the symbol's letter (`UnescapePass`).
  Otherwise the letter is found once less often than before (`UnescapeLoses`), and no pass
  brings it back (`UnescapeAddsNone`). Together: `UnescapeEscaped`, unescaping undoes escaping
  *exactly* for values that are not `Ambiguous`.
* *Lines.* `TrimIs`, `StringIs` and `MessageRead` follow a message through a line: tags and
  source are cut off where they were put in front, and trimming takes nothing but blanks at
  the end. `TagsRead` reads back the pairs in any order. Whatever was sent, the parameters
  read from a line are words but for the last, which does not end in a blank (`ParamsReturn`),
  so no others can come back; and those do (`QuotedReturn`).
* *Events.* `ActionOrCTCP` compares the two tests of `events.go` with the protocol's reading
  (the first word says which command). The exception `Misjudged` was found by TLC on texts
  of five symbols, and is shown to be complete for texts of any length.
* *Credentials.* `ChunkCount` and `FramedChunks`: division with remainder.

Theorems: `MessagesRoundTrip`, `TagsRoundTrip`, `EventsAreFaithful`,
`CredentialsAreFramed`. They are about `Spec`, which has no fairness.

**Only model-checked:** every liveness property (`EmitReturns`, `CloseReturns`,
`StopReturns`, `LossIsNoticed`, `Registers`, `Settles`): fairness is outside what
the prover handles.

## Not modelled, and the plan

The order is by what a fault would cost a user of the library.

1. A second `Connect` after a lost connection, in `Connection`.
2. The statuses below the highest one, which NAMES without multi-prefix does not tell.

Left out for good: the idle timer of `ping.go` (its PING changes no state of the
library, the lack of an answer is noticed by nothing, and nothing says when it must be
sent), the ISUPPORT values other than PREFIX and the Client's copy of the capabilities
(tables the application reads), `connection_config.go` (a record of settings),
`errors.go` (formatting), `example.go` (a demo), TLS and dialling (I/O). `Reset` of the
capability and SASL handlers and of `State` is called by nothing. After a write error
`readLoop` goes on (`Connection` has this); `ClientState` lets nothing follow the loss.
Fields the application reads without a lock (`types.go:169`) are undefined behaviour of
the application's read only; no handler reads what another goroutine writes.
