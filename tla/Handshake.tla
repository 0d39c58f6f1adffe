----------------------------- MODULE Handshake ------------------------------
(***************************************************************************)
(* How a connection gets registered: the default handlers that             *)
(* parser/factory.go subscribes (SASL, capabilities, registration), run    *)
(* one event at a time by the bus's loop, their timers and the goroutines  *)
(* of EndCapabilityNegotiation, against a server that follows the IRC      *)
(* capability and SASL specifications.                                     *)
(*                                                                         *)
(* queue is the bus's channel; what the server sends enters it at once,    *)
(* which loses no behaviour because the server may send late.  wire is     *)
(* the lines the server has not acted on, sent counts all of them.  One    *)
(* action runs all the handlers of an event: between them only a timer can *)
(* interfere, and an expired timer's callback stays pending ("fired").     *)
(***************************************************************************)
EXTENDS Integers, Sequences, SequencesExt, FiniteSets

CONSTANTS SASLUses,   \* whether user and password for SASL are configured: choices
          Password,   \* a server password is configured
          Cookies,    \* whether the server wants a PONG before it registers: choices
          MultiLine,  \* the server may answer CAP LS in two lines
          MayBreak,   \* the connection may break
          MaxNew,     \* bound: CAP NEW and CAP DEL messages
          MaxClashes  \* bound: NICKs refused with 433

ASSUME HandshakeAssumption ==
  /\ SASLUses \subseteq BOOLEAN /\ Cookies \subseteq BOOLEAN
  /\ Password \in BOOLEAN /\ MultiLine \in BOOLEAN /\ MayBreak \in BOOLEAN
  /\ MaxNew \in Nat /\ MaxClashes \in Nat

\* Those of the capabilities a server may have that the client asks for.
RequestedCaps == {"sasl", "echo-message"}

Ev(type) == [type |-> type, caps |-> {}]
CapEv(type, caps) == [type |-> type, caps |-> caps]
Commands == {"CAP_LS", "CAP_REQ", "CAP_END", "PASS", "NICK", "USER", "AUTHENTICATE_PLAIN",
             "AUTHENTICATE_data", "AUTHENTICATE_abort", "PONG"}
Line(cmd) == [cmd |-> cmd, caps |-> {}]
CapReq(caps) == [cmd |-> "CAP_REQ", caps |-> caps]

VARIABLES up,      \* the connection works: sends succeed, the server hears
          queue,   \* events accepted by the bus and not yet dispatched
          wire,    \* lines sent that the server has not acted on
          sent     \* history: how many lines of each command were sent

VARIABLES negotiating, available, pending, acked,  \* CapabilitiesHandler
          readyCh,  \* tokens in readyCh
          waiters,  \* EndCapabilityNegotiation goroutines waiting in their select
          enders,   \* those past send("CAP", "END") and before setNegotiating(false)
          capLate   \* history: a goroutine's 30 seconds ran out

VARIABLES saslState, saslTimer,  \* SASLHandler
          saslLate               \* history: the SASL timer's callback ran

VARIABLES regState, regTimer     \* RegistrationHandler

VARIABLES given,     \* sasl: SASL is configured; plain: the server's mechanisms have PLAIN;
                     \* cookie: it sends PING and waits for the answer
          srvCaps,   \* what the server advertises
          lsLeft,    \* lines of its answer to CAP LS still to be sent
          srvNeg,    \* registration is suspended by CAP LS
          srvAcked,  \* capabilities enabled for the client
          srvAuth,   \* "none", "asked", "checking", "ok"
          srvNick, srvUser, srvReg,
          srvPing,   \* "none", "asked", "answered"
          news, clashes

output == <<wire, sent>>
net == <<up, queue, output>>
caps == <<negotiating, available, pending, acked, readyCh, waiters, enders, capLate>>
sasl == <<saslState, saslTimer, saslLate>>
reg == <<regState, regTimer>>
server == <<given, srvCaps, lsLeft, srvNeg, srvAcked, srvAuth, srvNick, srvUser,
            srvReg, srvPing, news, clashes>>
vars == <<net, caps, sasl, reg, server>>

Init ==
  /\ up = TRUE /\ queue = <<Ev("connected")>> /\ wire = <<>> /\ sent = [c \in Commands |-> 0]
  /\ negotiating = FALSE /\ available = {} /\ pending = {} /\ acked = {}
  /\ readyCh = 0 /\ waiters = 0 /\ enders = 0 /\ capLate = FALSE
  /\ saslState = "Inactive" /\ saslTimer = "off" /\ saslLate = FALSE
  /\ regState = "Inactive" /\ regTimer = "off"
  /\ given \in [sasl : SASLUses, plain : BOOLEAN, cookie : Cookies]
  /\ srvCaps \in SUBSET RequestedCaps
  /\ lsLeft = <<>> /\ srvNeg = FALSE /\ srvAcked = {} /\ srvAuth = "none"
  /\ srvNick = FALSE /\ srvUser = FALSE /\ srvReg = FALSE
  /\ srvPing = "none" /\ news = 0 /\ clashes = 0

SASLUsed == given.sasl

SASLActive == saslState \in {"Requesting", "Authenticating"}
RegActive == regState = "Started"

\* The loop takes an event of this type; its handlers emit es.
On(type) == queue # <<>> /\ Head(queue).type = type
Emits(es) == queue' = Tail(queue) \o es
EmitsFromOutside(es) == queue' = queue \o es

\* One line is sent, or fails because the connection is down.
Sends(line) ==
  IF up THEN /\ wire' = Append(wire, line)
             /\ sent' = [sent EXCEPT ![line.cmd] = @ + 1]
        ELSE UNCHANGED output

\* stopTimeout: a callback that has started runs on.
Stopped(timer) == IF timer = "armed" THEN "off" ELSE timer
-----------------------------------------------------------------------------
(* EventConnected: CAP LS, then PASS, NICK and USER.  The connection may   *)
(* break between two lines.                                                *)

RegLines == (IF Password THEN <<Line("PASS")>> ELSE <<>>) \o <<Line("NICK"), Line("USER")>>

\* Mutant: factory.go subscribes registration before the capabilities.
HandleConnectedLast ==
  /\ On("connected")
  /\ LET lines == RegLines \o <<Line("CAP_LS")>>
     IN  \E k \in 0 .. Len(lines) :
           /\ IF up THEN MayBreak \/ k = Len(lines) ELSE k = 0
           /\ wire' = SubSeq(lines, 1, k)
           /\ sent' = [c \in Commands |-> Cardinality({i \in 1 .. k : lines[i].cmd = c})]
           /\ up' = (k = Len(lines))
           /\ negotiating' = (k > 0)
           /\ regState' = IF k = Len(lines) THEN "Started" ELSE "Failed"
  /\ regTimer' = "armed"
  /\ Emits(<<>>)
  /\ UNCHANGED <<available, pending, acked, readyCh, waiters, enders, capLate,
                 sasl, server>>

HandleConnected ==
  /\ On("connected")
  /\ LET lines == <<Line("CAP_LS")>> \o RegLines
     IN  \E k \in 0 .. Len(lines) :
           /\ IF up THEN MayBreak \/ k = Len(lines) ELSE k = 0
           /\ wire' = SubSeq(lines, 1, k)
           /\ sent' = [c \in Commands |-> Cardinality({i \in 1 .. k : lines[i].cmd = c})]
           /\ up' = (k = Len(lines))
           /\ negotiating' = (k > 0)
           /\ regState' = IF k = Len(lines) THEN "Started" ELSE "Failed"
  /\ regTimer' = "armed"
  /\ Emits(<<>>)
  /\ UNCHANGED <<available, pending, acked, readyCh, waiters, enders, capLate,
                 sasl, server>>
-----------------------------------------------------------------------------
(* CapabilitiesHandler.                                                    *)

CapsOnly == UNCHANGED <<up, readyCh, capLate, sasl, reg, server>>

KeepsOn == Emits(<<>>) /\ UNCHANGED <<waiters, enders, negotiating>>

\* EndCapabilityNegotiation, called with these capabilities active.  Its
\* caller found the negotiation open; an earlier goroutine may just end it.
EndNegotiation(active) ==
  \/ /\ Emits(<<CapEv("cap_pre_end", active)>>)
     /\ waiters' = waiters + 1
     /\ UNCHANGED <<enders, negotiating>>
  \/ /\ enders > 0 /\ enders' = enders - 1
     /\ negotiating' = FALSE
     /\ Emits(<<>>) /\ UNCHANGED waiters

\* Mutant: a further line of capabilities replaces the earlier ones.
RequestReplaces(new) ==
  LET wanted == new \cap RequestedCaps
  IN  /\ available' = new
      /\ pending' = pending \cup wanted
      /\ IF wanted = {} THEN UNCHANGED output ELSE Sends(CapReq(wanted))

\* processNewCapabilities and RequestCapabilities.
Request(new) ==
  LET wanted == new \cap RequestedCaps
  IN  /\ available' = available \cup new
      /\ pending' = pending \cup wanted
      /\ IF wanted = {} THEN UNCHANGED output ELSE Sends(CapReq(wanted))

\* Mutant: the negotiation ends with requests unanswered.
HandleCapLSImpatient ==
  /\ On("cap_ls")
  /\ IF ~negotiating
     THEN KeepsOn /\ UNCHANGED <<available, pending, output>>
     ELSE /\ Request(Head(queue).caps)
          /\ IF TRUE THEN EndNegotiation(acked) ELSE KeepsOn
  /\ CapsOnly /\ UNCHANGED acked

HandleCapLS ==
  /\ On("cap_ls")
  /\ IF ~negotiating
     THEN KeepsOn /\ UNCHANGED <<available, pending, output>>
     ELSE /\ Request(Head(queue).caps)
          /\ IF pending' = {} THEN EndNegotiation(acked) ELSE KeepsOn
  /\ CapsOnly /\ UNCHANGED acked

\* Mutant: a refused capability is counted as active.
HandleCapAnswerAlike(type) ==
  /\ On(type)
  /\ IF ~negotiating
     THEN KeepsOn /\ UNCHANGED <<pending, acked>>
     ELSE /\ acked' = acked \cup Head(queue).caps
          /\ pending' = pending \ Head(queue).caps
          /\ IF pending' = {} THEN EndNegotiation(acked') ELSE KeepsOn
  /\ CapsOnly /\ UNCHANGED <<available, output>>

\* ACK and NAK differ in what becomes active.
HandleCapAnswer(type) ==
  /\ On(type)
  /\ IF ~negotiating
     THEN KeepsOn /\ UNCHANGED <<pending, acked>>
     ELSE /\ acked' = IF type = "cap_ack" THEN acked \cup Head(queue).caps ELSE acked
          /\ pending' = pending \ Head(queue).caps
          /\ IF pending' = {} THEN EndNegotiation(acked') ELSE KeepsOn
  /\ CapsOnly /\ UNCHANGED <<available, output>>

HandleCapACK == HandleCapAnswer("cap_ack")
HandleCapNAK == HandleCapAnswer("cap_nak")

HandleCapDEL ==
  /\ On("cap_del")
  /\ acked' = acked \ Head(queue).caps
  /\ KeepsOn /\ CapsOnly /\ UNCHANGED <<available, pending, output>>

\* Requested whether or not the negotiation is still on.
HandleCapNEW ==
  /\ On("cap_new")
  /\ Request(Head(queue).caps)
  /\ KeepsOn /\ CapsOnly /\ UNCHANGED acked

HandleCapEndReady ==
  /\ On("cap_end_ready")
  /\ readyCh' = readyCh + 1
  /\ Emits(<<>>)
  /\ UNCHANGED <<up, output, negotiating, available, pending, acked, waiters, enders,
                 capLate, sasl, reg, server>>

\* HandleCapEnd: the negotiation stays open if CAP END cannot be sent.
SendCapEnd ==
  /\ waiters' = waiters - 1
  /\ Sends(Line("CAP_END"))
  /\ enders' = IF up THEN enders + 1 ELSE enders
  /\ UNCHANGED <<up, queue, negotiating, available, pending, acked, sasl, reg, server>>

\* Without a SASL handler nobody listens to EventCapPreEnd: no waiting.
WaiterReady == /\ waiters > 0
               /\ SASLUsed => readyCh > 0
               /\ readyCh' = IF SASLUsed THEN readyCh - 1 ELSE readyCh
               /\ SendCapEnd /\ UNCHANGED capLate

\* Mutant: the timeout ends the goroutine without CAP END.
WaiterTimeoutSilent == /\ waiters > 0 /\ SASLUsed
                       /\ capLate' = TRUE
                       /\ waiters' = waiters - 1
                       /\ UNCHANGED <<net, negotiating, available, pending, acked,
                                      readyCh, enders, sasl, reg, server>>

WaiterTimeout == /\ waiters > 0 /\ SASLUsed
                 /\ capLate' = TRUE
                 /\ SendCapEnd /\ UNCHANGED readyCh

NegotiationEnds ==
  /\ enders > 0
  /\ enders' = enders - 1
  /\ negotiating' = FALSE
  /\ UNCHANGED <<net, available, pending, acked, readyCh, waiters, capLate, sasl, reg, server>>
-----------------------------------------------------------------------------
(* SASLHandler, subscribed only when SASLUsed.                             *)

SASLOnly == UNCHANGED <<up, caps, reg, server>>

\* The handler leaves the timer so and emits es.  The callback of an expired
\* timer may set Failed just before the handler sets its own state.
Concludes(timer, es) ==
  \/ saslTimer' = timer /\ Emits(es) /\ UNCHANGED saslLate
  \/ /\ saslTimer = "fired" /\ saslTimer' = "off" /\ saslLate' = TRUE
     /\ Emits(<<Ev("sasl_fail")>> \o es)

\* Mutant: ready as soon as the authentication has started.
HandlePreEndEager ==
  /\ On("cap_pre_end")
  /\ LET fails == <<Ev("sasl_fail"), Ev("cap_end_ready")>>
     IN  CASE ~SASLUsed -> Emits(<<>>) /\ UNCHANGED <<output, saslState, saslTimer>>
           [] SASLUsed /\ "sasl" \notin Head(queue).caps ->
                Emits(<<Ev("cap_end_ready")>>) /\ UNCHANGED <<output, saslState, saslTimer>>
           [] SASLUsed /\ "sasl" \in Head(queue).caps /\ (~given.plain \/ saslState # "Inactive") ->
                Emits(fails) /\ UNCHANGED <<output, saslState, saslTimer>>
           [] OTHER ->
                /\ Sends(Line("AUTHENTICATE_PLAIN"))
                /\ saslState' = IF up THEN "Requesting" ELSE "Failed"
                /\ saslTimer' = IF up THEN "armed" ELSE saslTimer
                /\ Emits(IF up THEN <<Ev("cap_end_ready")>> ELSE fails)
  /\ SASLOnly /\ UNCHANGED saslLate

\* Mutant: a second session may start.
HandlePreEndAgain ==
  /\ On("cap_pre_end")
  /\ LET fails == <<Ev("sasl_fail"), Ev("cap_end_ready")>>
     IN  CASE ~SASLUsed -> Emits(<<>>) /\ UNCHANGED <<output, saslState, saslTimer>>
           [] SASLUsed /\ "sasl" \notin Head(queue).caps ->
                Emits(<<Ev("cap_end_ready")>>) /\ UNCHANGED <<output, saslState, saslTimer>>
           [] SASLUsed /\ "sasl" \in Head(queue).caps /\ ~given.plain ->
                Emits(fails) /\ UNCHANGED <<output, saslState, saslTimer>>
           [] OTHER ->
                /\ Sends(Line("AUTHENTICATE_PLAIN"))
                /\ saslState' = IF up THEN "Requesting" ELSE "Failed"
                /\ saslTimer' = IF up THEN "armed" ELSE saslTimer
                /\ Emits(IF up THEN <<>> ELSE fails)
  /\ SASLOnly /\ UNCHANGED saslLate

\* handleSasl, startPlainAuthentication and StartAuthentication.
HandlePreEnd ==
  /\ On("cap_pre_end")
  /\ LET fails == <<Ev("sasl_fail"), Ev("cap_end_ready")>>
     IN  CASE ~SASLUsed -> Emits(<<>>) /\ UNCHANGED <<output, saslState, saslTimer>>
           [] SASLUsed /\ "sasl" \notin Head(queue).caps ->
                Emits(<<Ev("cap_end_ready")>>) /\ UNCHANGED <<output, saslState, saslTimer>>
           [] SASLUsed /\ "sasl" \in Head(queue).caps /\ (~given.plain \/ saslState # "Inactive") ->
                Emits(fails) /\ UNCHANGED <<output, saslState, saslTimer>>
           [] OTHER ->
                /\ Sends(Line("AUTHENTICATE_PLAIN"))
                /\ saslState' = IF up THEN "Requesting" ELSE "Failed"
                /\ saslTimer' = IF up THEN "armed" ELSE saslTimer
                /\ Emits(IF up THEN <<>> ELSE fails)
  /\ SASLOnly /\ UNCHANGED saslLate

\* A "+" is answered with the credentials, anything else aborts: PLAIN has
\* no further step.
HandleAuthenticate(plus) ==
  /\ On(IF plus THEN "sasl_plus" ELSE "sasl_challenge")
  /\ CASE saslState # "Requesting" -> Emits(<<>>) /\ UNCHANGED <<output, sasl>>
       [] saslState = "Requesting" /\ plus ->
            /\ Sends(Line("AUTHENTICATE_data"))
            /\ saslState' = IF up THEN "Authenticating" ELSE "Failed"
            /\ Concludes(saslTimer, IF up THEN <<>> ELSE <<Ev("sasl_fail")>>)
       [] OTHER ->
            /\ Sends(Line("AUTHENTICATE_abort"))
            /\ saslState' = "Failed"
            /\ Concludes(Stopped(saslTimer), <<>>)
  /\ SASLOnly

\* Mutant: a refused authentication is not signalled.
HandleOutcomeQuiet(type, final) ==
  /\ On(type)
  /\ IF SASLUsed /\ SASLActive
     THEN /\ saslState' = final
          /\ Concludes(Stopped(saslTimer), <<Ev(type)>> \o (IF final = "Failed" THEN <<>> ELSE <<Ev("cap_end_ready")>>))
     ELSE Emits(<<>>) /\ UNCHANGED sasl
  /\ SASLOnly /\ UNCHANGED output

\* HandleSASLSuccess and HandleSASLFail.
HandleOutcome(type, final) ==
  /\ On(type)
  /\ IF SASLUsed /\ SASLActive
     THEN /\ saslState' = final
          /\ Concludes(Stopped(saslTimer), <<Ev(type), Ev("cap_end_ready")>>)
     ELSE Emits(<<>>) /\ UNCHANGED sasl
  /\ SASLOnly /\ UNCHANGED output

HandleSASLSuccess == HandleOutcome("sasl_success", "Success")
\* Mutant: a refusal is taken for success.
HandleSASLFailAsSuccess == HandleOutcome("sasl_fail", "Success")
HandleSASLFail == HandleOutcome("sasl_fail", "Failed")

SASLTimerExpires == /\ saslTimer = "armed"
                    /\ saslTimer' = "fired"
                    /\ UNCHANGED <<net, caps, saslState, saslLate, reg, server>>

SASLTimeout == /\ saslTimer = "fired"
               /\ saslTimer' = "off"
               /\ saslState' = "Failed"
               /\ saslLate' = TRUE
               /\ EmitsFromOutside(<<Ev("sasl_fail")>>)
               /\ UNCHANGED <<up, output, caps, reg, server>>
-----------------------------------------------------------------------------
(* RegistrationHandler.                                                    *)

RegOnly == UNCHANGED <<up, caps, sasl, server>>

\* 433: the nick with an underscore is tried, again at every further 433.
HandleNickInUse ==
  /\ On("nick_in_use")
  /\ IF RegActive
     THEN Sends(Line("NICK")) /\ regState' = IF up THEN regState ELSE "Failed"
     ELSE UNCHANGED <<output, regState>>
  /\ Emits(<<>>)
  /\ RegOnly /\ UNCHANGED regTimer

\* Mutant: the registration timer is not stopped.
HandleWelcomeUnstopped ==
  /\ On("registered")
  /\ IF RegActive
     THEN /\ regState' = "Complete"
          /\ regTimer' = regTimer
          /\ Emits(<<Ev("registered")>>)
     ELSE Emits(<<>>) /\ UNCHANGED reg
  /\ RegOnly /\ UNCHANGED output

\* A callback that has started either runs on, or set Failed just before.
HandleWelcome ==
  /\ On("registered")
  /\ IF RegActive
     THEN /\ regState' = "Complete"
          /\ regTimer' \in {"off", Stopped(regTimer)}
          /\ Emits(<<Ev("registered")>>)
     ELSE Emits(<<>>) /\ UNCHANGED reg
  /\ RegOnly /\ UNCHANGED output

\* PingHandler; without the PONG such a server never registers the client.
HandlePing ==
  /\ On("ping")
  /\ Sends(Line("PONG"))
  /\ Emits(<<>>)
  /\ UNCHANGED <<up, caps, sasl, reg, server>>

RegTimerExpires == /\ regTimer = "armed"
                   /\ regTimer' = "fired"
                   /\ UNCHANGED <<net, caps, sasl, regState, server>>

\* Mutant: the timeout is reported, the state kept.
RegTimeoutReported == /\ regTimer = "fired"
                      /\ regTimer' = "off"
                      /\ UNCHANGED <<regState, net, caps, sasl, server>>

RegTimeout == /\ regTimer = "fired"
              /\ regTimer' = "off"
              /\ regState' = "Failed"
              /\ UNCHANGED <<net, caps, sasl, server>>
-----------------------------------------------------------------------------
(* The server.                                                             *)

ServerOnly == UNCHANGED <<up, sent, caps, sasl, reg>>

Heard(cmd) == sent[cmd] > Cardinality({i \in DOMAIN wire : wire[i].cmd = cmd})

\* The server acts on the client's next line; it is still sending its
\* answer to CAP LS as long as lsLeft is not empty.
Hears(cmd) == /\ up /\ lsLeft = <<>>
              /\ wire # <<>> /\ Head(wire).cmd = cmd
              /\ wire' = Tail(wire)

HearCapLS ==
  /\ Hears("CAP_LS")
  /\ srvNeg' = TRUE
  /\ \/ lsLeft' = <<srvCaps>>
     \/ MultiLine /\ \E first \in SUBSET srvCaps : lsLeft' = <<first, srvCaps \ first>>
  /\ ServerOnly /\ UNCHANGED <<queue, srvCaps, given, srvAcked, srvAuth, srvNick,
                               srvUser, srvReg, srvPing, news, clashes>>

SendCapLS ==
  /\ up /\ lsLeft # <<>>
  /\ lsLeft' = Tail(lsLeft)
  /\ EmitsFromOutside(<<CapEv("cap_ls", Head(lsLeft))>>)
  /\ ServerOnly /\ UNCHANGED <<wire, srvCaps, given, srvNeg, srvAcked, srvAuth, srvNick,
                               srvUser, srvReg, srvPing, news, clashes>>

\* All the capabilities of a request are enabled, or none.  During
\* registration the request suspends it, as CAP LS does.
HearCapReq ==
  /\ Hears("CAP_REQ")
  /\ srvNeg' = (srvNeg \/ ~srvReg)
  /\ LET asked == Head(wire).caps
     IN  \/ /\ asked \subseteq srvCaps
            /\ srvAcked' = srvAcked \cup asked
            /\ EmitsFromOutside(<<CapEv("cap_ack", asked)>>)
         \/ EmitsFromOutside(<<CapEv("cap_nak", asked)>>) /\ UNCHANGED srvAcked
  /\ ServerOnly /\ UNCHANGED <<srvCaps, given, lsLeft, srvAuth, srvNick, srvUser,
                               srvReg, srvPing, news, clashes>>

\* CAP END aborts an authentication that is under way.
HearCapEnd ==
  /\ Hears("CAP_END")
  /\ srvNeg' = FALSE
  /\ IF srvAuth \in {"asked", "checking"}
     THEN srvAuth' = "none" /\ EmitsFromOutside(<<Ev("sasl_fail")>>)
     ELSE UNCHANGED <<srvAuth, queue>>
  /\ ServerOnly /\ UNCHANGED <<srvCaps, given, lsLeft, srvAcked, srvNick, srvUser,
                               srvReg, srvPing, news, clashes>>

HearAuthenticate ==
  /\ Hears("AUTHENTICATE_PLAIN")
  /\ IF "sasl" \in srvAcked
     THEN /\ srvAuth' = "asked"
          /\ \E reply \in {"sasl_plus", "sasl_challenge"} : EmitsFromOutside(<<Ev(reply)>>)
     ELSE UNCHANGED <<srvAuth, queue>>
  /\ ServerOnly /\ UNCHANGED <<srvCaps, given, lsLeft, srvNeg, srvAcked, srvNick, srvUser,
                               srvReg, srvPing, news, clashes>>

HearAuthData ==
  /\ Hears("AUTHENTICATE_data")
  /\ srvAuth' = IF srvAuth = "asked" THEN "checking" ELSE srvAuth
  /\ ServerOnly /\ UNCHANGED <<queue, srvCaps, given, lsLeft, srvNeg, srvAcked, srvNick,
                               srvUser, srvReg, srvPing, news, clashes>>

HearAuthAbort ==
  /\ Hears("AUTHENTICATE_abort")
  /\ IF srvAuth = "asked"
     THEN srvAuth' = "none" /\ EmitsFromOutside(<<Ev("sasl_fail")>>)
     ELSE UNCHANGED <<srvAuth, queue>>
  /\ ServerOnly /\ UNCHANGED <<srvCaps, given, lsLeft, srvNeg, srvAcked, srvNick, srvUser,
                               srvReg, srvPing, news, clashes>>

\* Success is two numerics, 900 and 903.
JudgeAuth ==
  /\ up /\ srvAuth = "checking"
  /\ \/ srvAuth' = "ok" /\ EmitsFromOutside(<<Ev("sasl_success"), Ev("sasl_success")>>)
     \/ srvAuth' = "none" /\ EmitsFromOutside(<<Ev("sasl_fail")>>)
  /\ ServerOnly /\ UNCHANGED <<wire, srvCaps, given, lsLeft, srvNeg, srvAcked, srvNick,
                               srvUser, srvReg, srvPing, news, clashes>>

HearNick ==
  /\ Hears("NICK")
  /\ \/ srvNick' = TRUE /\ UNCHANGED <<queue, clashes>>
     \/ /\ clashes < MaxClashes /\ ~srvReg
        /\ clashes' = clashes + 1
        /\ EmitsFromOutside(<<Ev("nick_in_use")>>)
        /\ UNCHANGED srvNick
  /\ ServerOnly /\ UNCHANGED <<srvCaps, given, lsLeft, srvNeg, srvAcked, srvAuth, srvUser,
                               srvReg, srvPing, news>>

HearUser ==
  /\ Hears("USER") \/ Hears("PASS")
  /\ srvUser' = (srvUser \/ Head(wire).cmd = "USER")
  /\ ServerOnly /\ UNCHANGED <<queue, srvCaps, given, lsLeft, srvNeg, srvAcked, srvAuth,
                               srvNick, srvReg, srvPing, news, clashes>>

\* The server's PING carries a cookie, PONG brings it back.
AskPong ==
  /\ up /\ given.cookie /\ srvPing = "none" /\ (srvNick \/ srvUser)
  /\ srvPing' = "asked"
  /\ EmitsFromOutside(<<Ev("ping")>>)
  /\ ServerOnly /\ UNCHANGED <<wire, srvCaps, given, lsLeft, srvNeg, srvAcked, srvAuth,
                               srvNick, srvUser, srvReg, news, clashes>>

HearPong ==
  /\ Hears("PONG")
  /\ srvPing' = "answered"
  /\ ServerOnly /\ UNCHANGED <<queue, srvCaps, given, lsLeft, srvNeg, srvAcked, srvAuth,
                               srvNick, srvUser, srvReg, news, clashes>>

Welcome ==
  /\ up /\ srvNick /\ srvUser /\ ~srvNeg /\ ~srvReg
  /\ given.cookie => srvPing = "answered"
  /\ srvReg' = TRUE
  /\ EmitsFromOutside(<<Ev("registered")>>)
  /\ ServerOnly /\ UNCHANGED <<wire, srvCaps, given, lsLeft, srvNeg, srvAcked, srvAuth,
                               srvNick, srvUser, srvPing, news, clashes>>

\* A capability comes or goes after CAP LS was answered.
ChangeCaps ==
  /\ up /\ news < MaxNew /\ lsLeft = <<>> /\ Heard("CAP_LS")
  /\ news' = news + 1
  /\ \E c \in RequestedCaps :
       IF c \in srvCaps
       THEN /\ srvCaps' = srvCaps \ {c}
            /\ srvAcked' = srvAcked \ {c}
            /\ EmitsFromOutside(<<CapEv("cap_del", {c})>>)
       ELSE /\ srvCaps' = srvCaps \cup {c}
            /\ UNCHANGED srvAcked
            /\ EmitsFromOutside(<<CapEv("cap_new", {c})>>)
  /\ ServerOnly /\ UNCHANGED <<wire, given, lsLeft, srvNeg, srvAuth, srvNick, srvUser,
                               srvReg, srvPing, clashes>>

LinkLost == /\ up /\ MayBreak
            /\ up' = FALSE
            /\ UNCHANGED <<queue, output, caps, sasl, reg, server>>
-----------------------------------------------------------------------------
Handle == \/ HandleConnected
          \/ HandleCapLS \/ HandleCapACK \/ HandleCapNAK \/ HandleCapDEL \/ HandleCapNEW
          \/ HandleCapEndReady
          \/ HandlePreEnd \/ \E plus \in BOOLEAN : HandleAuthenticate(plus)
          \/ HandleSASLSuccess \/ HandleSASLFail
          \/ HandleNickInUse \/ HandleWelcome \/ HandlePing

Server == \/ HearCapLS \/ SendCapLS \/ HearCapReq \/ HearCapEnd \/ HearAuthenticate
          \/ HearAuthData \/ HearAuthAbort \/ HearNick \/ HearUser
          \/ AskPong \/ HearPong \/ Welcome

Next == \/ Handle
        \/ WaiterReady \/ WaiterTimeout \/ NegotiationEnds
        \/ SASLTimerExpires \/ SASLTimeout \/ RegTimerExpires \/ RegTimeout
        \/ Server \/ JudgeAuth \/ ChangeCaps \/ LinkLost

\* The loop and the goroutines run on, timers that are not stopped expire,
\* and the server reads and answers; but it may never judge credentials.
Fairness == /\ WF_vars(Handle)
            /\ WF_vars(WaiterReady) /\ WF_vars(WaiterTimeout) /\ WF_vars(NegotiationEnds)
            /\ WF_vars(SASLTimerExpires) /\ WF_vars(SASLTimeout)
            /\ WF_vars(RegTimerExpires) /\ WF_vars(RegTimeout)
            /\ WF_vars(Server)

Safety == Init /\ [][Next]_vars
Spec == Safety /\ Fairness
-----------------------------------------------------------------------------
(* Properties.                                                             *)

(***************************************************************************)
(* Types, and the capabilities that can be pending or active at all.       *)
(***************************************************************************)
TypeOK ==
  /\ up \in BOOLEAN /\ negotiating \in BOOLEAN /\ capLate \in BOOLEAN
  /\ \A i \in DOMAIN wire : wire[i].cmd \in Commands /\ wire[i].caps \subseteq RequestedCaps
  /\ sent \in [Commands -> Nat]
  /\ \A i \in DOMAIN queue : queue[i].caps \subseteq RequestedCaps
  /\ pending \subseteq available /\ available \subseteq RequestedCaps
  /\ acked \subseteq RequestedCaps
  /\ readyCh \in Nat /\ waiters \in Nat /\ enders \in Nat
  /\ saslState \in {"Inactive", "Requesting", "Authenticating", "Success", "Failed"}
  /\ regState \in {"Inactive", "Started", "Complete", "Failed"}
  /\ saslTimer \in {"off", "armed", "fired"} /\ regTimer \in {"off", "armed", "fired"}
  /\ srvAuth \in {"none", "asked", "checking", "ok"}

Queued(types) == \E i \in DOMAIN queue : queue[i].type \in types

(***************************************************************************)
(* The credentials go out at most once, and only after the server was      *)
(* asked for PLAIN and has answered "+": StartAuthentication refuses a     *)
(* second session, HandleAuthenticate every state but Requesting.          *)
(***************************************************************************)
CredentialsOnce ==
  /\ sent["AUTHENTICATE_data"] <= sent["AUTHENTICATE_PLAIN"]
  /\ sent["AUTHENTICATE_PLAIN"] <= 1

(***************************************************************************)
(* The server registers the client only after CAP END: CAP LS goes out     *)
(* before NICK and USER, because factory.go subscribes the capabilities    *)
(* handler first, and nothing but CAP END releases the registration.       *)
(***************************************************************************)
WelcomeAfterEnd == srvReg => Heard("CAP_END")

(***************************************************************************)
(* What the client takes for done the server has done: its credentials     *)
(* were accepted, its registration completed.                              *)
(***************************************************************************)
BelievesServer == /\ saslState = "Success" => srvAuth = "ok"
                  /\ regState = "Complete" => srvReg

(***************************************************************************)
(* A success is not undone later: its timer is stopped, and only a         *)
(* callback that had already started may still write Failed over it.       *)
(***************************************************************************)
SuccessStands ==
  [][/\ regState = "Complete" /\ regTimer # "fired" =>
          regState' = "Complete" /\ regTimer' # "fired"
     /\ saslState = "Success" /\ saslTimer # "fired" =>
          saslState' = "Success" /\ saslTimer' # "fired"]_vars

(***************************************************************************)
(* EndCapabilityNegotiation: "Wait for handlers to signal completion or    *)
(* timeout".  CAP END is not sent while an authentication is under way,    *)
(* unless the 30 seconds are over.                                         *)
(***************************************************************************)
EndAwaitsSASL ==
  [][sent'["CAP_END"] > sent["CAP_END"] =>
       capLate' \/ ~SASLActive]_vars

(***************************************************************************)
(* One CAP END ends the negotiation, and one goroutine waits to send it,   *)
(* from when every request was answered.                                   *)
(***************************************************************************)
EndsOnce == /\ waiters + sent["CAP_END"] <= 1
            /\ waiters + sent["CAP_END"] = 1 => pending = {}

(***************************************************************************)
(* Whoever waits for a signal gets it: the token is there, on its way, or  *)
(* an authentication is still under way.  Excepted are the outcomes that   *)
(* the code does not signal: Abort, the SASL timeout, a failed send.       *)
(***************************************************************************)
OnItsWay == \/ readyCh > 0
            \/ SASLActive
            \/ Queued({"cap_pre_end", "cap_end_ready"})

WaiterIsOwed ==
  waiters > 0 /\ SASLUsed =>
    OnItsWay \/ ~up \/ saslLate \/ sent["AUTHENTICATE_abort"] > 0

(***************************************************************************)
(* The capabilities the client counts as active are those the server has   *)
(* enabled, whenever no answer is on its way.                              *)
(***************************************************************************)
CapsAgree == Queued({"cap_ack"}) \/ acked = srvAcked

(***************************************************************************)
(* A server that never judges the credentials does not keep the client     *)
(* from registering: the negotiation ends at the latest by its timeout.    *)
(* A client that gave up on a refused nick sends no other.                 *)
(***************************************************************************)
Registers == <>(srvReg \/ ~up \/ (clashes > 0 /\ regState = "Failed"))

(***************************************************************************)
(* Registration and authentication come to an end, if only by a timeout.   *)
(***************************************************************************)
Settles == (RegActive ~> ~RegActive) /\ (SASLActive ~> ~SASLActive)
=============================================================================
