-------------------------- MODULE HandshakeProofs --------------------------
(***************************************************************************)
(* What TLAPS proves of the handshake, whether or not SASL, a password or  *)
(* a cookie is configured and however many nicks are refused.  The first   *)
(* part holds for every server that the model has; the second for servers  *)
(* that answer CAP LS in one line and change no capability later.          *)
(***************************************************************************)
EXTENDS Handshake, SequenceLemmas

EventTypes == {"connected", "cap_ls", "cap_ack", "cap_nak", "cap_new", "cap_del",
               "cap_pre_end", "cap_end_ready", "sasl_plus", "sasl_challenge",
               "sasl_success", "sasl_fail", "nick_in_use", "registered", "ping"}
Event == [type : EventTypes, caps : SUBSET RequestedCaps]
Lines == [cmd : Commands, caps : SUBSET RequestedCaps]

EventsOf(types) == {e \in Event : e.type \in types}
LinesOf(cmds) == {l \in Lines : l.cmd \in cmds}

QueueHas(type) == \E e \in ToSet(queue) : e.type = type

NetTypes == /\ up \in BOOLEAN /\ queue \in Seq(Event) /\ wire \in Seq(Lines)
            /\ sent \in [Commands -> Nat]

CapsTypes == /\ negotiating \in BOOLEAN /\ capLate \in BOOLEAN
             /\ pending \subseteq available /\ available \subseteq RequestedCaps
             /\ acked \subseteq RequestedCaps
             /\ readyCh \in Nat /\ waiters \in Nat /\ enders \in Nat

HandlerTypes ==
  /\ saslState \in {"Inactive", "Requesting", "Authenticating", "Success", "Failed"}
  /\ regState \in {"Inactive", "Started", "Complete", "Failed"}
  /\ saslTimer \in {"off", "armed", "fired"} /\ regTimer \in {"off", "armed", "fired"}
  /\ saslLate \in BOOLEAN

ServerTypes == /\ given \in [sasl : BOOLEAN, plain : BOOLEAN, cookie : BOOLEAN]
               /\ srvCaps \subseteq RequestedCaps /\ srvAcked \subseteq RequestedCaps
               /\ lsLeft \in Seq(SUBSET RequestedCaps)
               /\ srvNeg \in BOOLEAN /\ srvNick \in BOOLEAN /\ srvUser \in BOOLEAN
               /\ srvReg \in BOOLEAN
               /\ srvAuth \in {"none", "asked", "checking", "ok"}
               /\ news \in Nat

Types == NetTypes /\ CapsTypes /\ HandlerTypes /\ ServerTypes

\* EventConnected comes first and once: until it is handled nothing happens.
Untouched ==
  QueueHas("connected") =>
    /\ queue = <<Ev("connected")>> /\ wire = <<>> /\ sent = [c \in Commands |-> 0]
    /\ lsLeft = <<>> /\ srvAuth = "none" /\ ~srvNick /\ ~srvUser /\ ~srvReg
    /\ regState = "Inactive" /\ saslState = "Inactive"
    /\ regTimer = "off" /\ saslTimer = "off"
    /\ waiters = 0 /\ enders = 0 /\ acked = {} /\ srvAcked = {} /\ pending = {}

\* Where an authentication is, from the client's request to the verdict.
Authentication ==
  /\ saslState = "Inactive" => sent["AUTHENTICATE_PLAIN"] = 0
  /\ saslState \in {"Inactive", "Requesting"} => sent["AUTHENTICATE_data"] = 0
  /\ saslState = "Requesting" => sent["AUTHENTICATE_PLAIN"] = 1
  /\ CredentialsOnce
  /\ Count(wire, LinesOf({"AUTHENTICATE_PLAIN"})) + (IF srvAuth = "none" THEN 0 ELSE 1)
       <= sent["AUTHENTICATE_PLAIN"]
  /\ QueueHas("sasl_success") => srvAuth = "ok"
  /\ saslState = "Success" => srvAuth = "ok" /\ saslTimer # "armed"

\* What is known of the registration.
Registration ==
  /\ QueueHas("registered") => srvReg
  /\ regState = "Complete" => srvReg /\ regTimer # "armed"

\* CAP LS is the first line the server hears; it suspends the registration.
Suspended ==
  /\ Count(wire, LinesOf({"CAP_END"})) <= sent["CAP_END"]
  /\ WelcomeAfterEnd
  /\ \/ ~up
     \/ QueueHas("connected")
     \/ wire # <<>> /\ Head(wire).cmd = "CAP_LS" /\ ~srvNick
     \/ srvNeg \/ Heard("CAP_END")

Core == Types /\ Untouched /\ Authentication /\ Registration /\ Suspended
-----------------------------------------------------------------------------
\* A server that gives its capabilities in one line, once and for all.
OneAnswer == ~MultiLine /\ MaxNew = 0

AskingEvents == EventsOf({"connected", "cap_ls", "cap_ack", "cap_nak"})
AskingLines == LinesOf({"CAP_LS", "CAP_REQ"})
SignalEvents == EventsOf({"cap_pre_end", "cap_end_ready"})

AskedEvents == Count(queue, AskingEvents)
AskedLines == Count(wire, AskingLines)
Signalled == Count(queue, SignalEvents)
Active == IF SASLActive THEN 1 ELSE 0

\* The negotiation's next step: a question or an answer on its way.
Asking == AskedEvents + AskedLines + Len(lsLeft)

Ending == waiters + sent["CAP_END"]

\* The signal that the authentication is over: being prepared, on its way, there.
Signals == Signalled + Active + readyCh

\* The negotiation is in one place, and its end is asked for once.
OnePlace == Asking + Ending <= 1 /\ Asking + Signals <= 1

Open == /\ Asking > 0 => QueueHas("connected") \/ negotiating
        /\ enders > 0 => sent["CAP_END"] > 0

NoChange == news = 0 /\ ~QueueHas("cap_new") /\ ~QueueHas("cap_del")

Answered == \A e \in ToSet(queue) :
              e.type = "cap_ack" => srvAcked = acked \cup e.caps

WithoutSASL == ~SASLUsed => saslState = "Inactive" /\ saslTimer = "off"

Single == /\ OnePlace /\ Open /\ NoChange /\ Answered /\ WithoutSASL
          /\ EndsOnce /\ CapsAgree /\ WaiterIsOwed
-----------------------------------------------------------------------------
(* The channel and the lines.                                              *)

\* A handler's event is taken from the channel and es enters it.
LEMMA EmitsFacts ==
  ASSUME NetTypes, queue # <<>>, NEW es \in Seq(Event), Emits(es)
  PROVE  /\ queue' \in Seq(Event) /\ Head(queue) \in ToSet(queue) /\ Head(queue) \in Event
         /\ ToSet(queue') \subseteq ToSet(queue) \cup ToSet(es)
         /\ ToSet(queue) \cup ToSet(es) \subseteq ToSet(queue') \cup {Head(queue)}
         /\ \A K : Count(queue', K) = Count(queue, K) - One(Head(queue), K) + Count(es, K)
<1>1. /\ queue \in Seq(Event) /\ Tail(queue) \in Seq(Event) /\ Head(queue) \in Event
      /\ queue' = Tail(queue) \o es
  BY HeadTailProperties DEF NetTypes, Emits
<1>2. queue' \in Seq(Event)
  BY <1>1, ConcatProperties
<1>3. /\ Head(queue) \in ToSet(queue)
      /\ ToSet(queue) = ToSet(Tail(queue)) \cup {Head(queue)}
      /\ ToSet(queue') = ToSet(Tail(queue)) \cup ToSet(es)
  <2>1. ToSet(Tail(queue) \o es) = ToSet(Tail(queue)) \cup ToSet(es)
    <3> DEFINE rest == Tail(queue)
    <3>1. rest \in Seq(Event)
      BY <1>1
    <3> HIDE DEF rest
    <3>2. ToSet(rest \o es) = ToSet(rest) \cup ToSet(es)
      BY <3>1, ToSetFacts
    <3>3. QED
      BY <3>2 DEF rest
  <2>2. QED
    BY <1>1, <2>1, ToSetFacts
<1>4. ASSUME NEW K
      PROVE  Count(queue', K) = Count(queue, K) - One(Head(queue), K) + Count(es, K)
  <2>1. Count(Tail(queue), K) = Count(queue, K) - One(Head(queue), K)
    BY <1>1, CountTail
  <2>2. Count(queue', K) = Count(Tail(queue), K) + Count(es, K)
    BY <1>1, CountConcat
  <2>3. QED
    BY <2>1, <2>2
<1>5. QED
  BY <1>1, <1>2, <1>3, <1>4

LEMMA OutsideFacts ==
  ASSUME NetTypes, NEW es \in Seq(Event), EmitsFromOutside(es)
  PROVE  /\ queue' \in Seq(Event) /\ ToSet(queue') = ToSet(queue) \cup ToSet(es)
         /\ \A K : Count(queue', K) = Count(queue, K) + Count(es, K)
  BY ConcatProperties, ToSetFacts, CountConcat DEF NetTypes, EmitsFromOutside

LEMMA SendsFacts ==
  ASSUME NetTypes, NEW line \in Lines, Sends(line)
  PROVE  /\ wire' \in Seq(Lines) /\ sent' \in [Commands -> Nat]
         /\ wire # <<>> => wire' # <<>> /\ Head(wire') = Head(wire)
         /\ ~up => UNCHANGED <<wire, sent>>
         /\ up => /\ sent' = [sent EXCEPT ![line.cmd] = sent[line.cmd] + 1]
                  /\ \A K : Count(wire', K) = Count(wire, K) + One(line, K)
<1>1. wire \in Seq(Lines) /\ sent \in [Commands -> Nat] /\ line.cmd \in Commands
  BY DEF NetTypes, Lines
<1>2. CASE ~up
  BY <1>1, <1>2 DEF Sends, output
<1>3. CASE up
  <2>1. /\ wire' = Append(wire, line)
        /\ sent' = [sent EXCEPT ![line.cmd] = sent[line.cmd] + 1]
    BY <1>3 DEF Sends
  <2>2. wire' \in Seq(Lines) /\ (wire # <<>> => wire' # <<>> /\ Head(wire') = Head(wire))
    BY <1>1, <2>1, AppendProperties, EmptySeq
  <2>3. ASSUME NEW K PROVE Count(wire', K) = Count(wire, K) + One(line, K)
    BY <1>1, <2>1, CountAppend
  <2>4. QED
    BY <1>1, <1>3, <2>1, <2>2, <2>3
<1>4. QED
  BY <1>2, <1>3

LEMMA HearsFacts ==
  ASSUME NetTypes, NEW cmd, Hears(cmd)
  PROVE  /\ wire' \in Seq(Lines) /\ Head(wire) \in Lines /\ Head(wire).cmd = cmd
         /\ up /\ lsLeft = <<>> /\ wire # <<>>
         /\ \A K : Count(wire', K) = Count(wire, K) - One(Head(wire), K)
  BY HeadTailProperties, CountTail DEF NetTypes, Hears
-----------------------------------------------------------------------------
(* EventConnected.                                                         *)

LEMMA FirstLines ==
  LET lines == <<Line("CAP_LS")>> \o RegLines
  IN  /\ lines \in Seq(Lines) /\ Len(lines) \in Nat \ {0} /\ lines[1].cmd = "CAP_LS"
      /\ \A i \in 2 .. Len(lines) : lines[i].cmd \in {"PASS", "NICK", "USER"}
<1> DEFINE first == <<Line("CAP_LS")>>
           names == {l \in Lines : l.cmd \in {"PASS", "NICK", "USER"}}
<1>1. first \in Seq(Lines) /\ Len(first) = 1 /\ first[1].cmd = "CAP_LS"
  BY DEF Line, Lines, Commands
<1>2. RegLines \in Seq(names)
  <2> DEFINE pass == IF Password THEN <<Line("PASS")>> ELSE <<>>
             more == <<Line("NICK"), Line("USER")>>
  <2>1. /\ Line("PASS") \in names /\ Line("NICK") \in names /\ Line("USER") \in names
    BY DEF Line, Lines, Commands
  <2>2. RegLines = pass \o more
    BY DEF RegLines
  <2> HIDE DEF names
  <2>3. pass \in Seq(names)
    <3>1. <<Line("PASS")>> \in Seq(names) /\ <<>> \in Seq(names)
      BY <2>1, ShortSeqs
    <3>2. QED
      BY <3>1
  <2>4. more \in Seq(names)
    BY <2>1, ShortSeqs
  <2> HIDE DEF pass, more
  <2>5. QED
    BY <2>2, <2>3, <2>4, ConcatProperties
<1>3. Len(RegLines) \in Nat /\ \A i \in 1 .. Len(RegLines) : RegLines[i] \in names
  BY <1>2, LenProperties
<1> DEFINE all == first \o RegLines
<1>4. /\ all \in Seq(Lines) /\ Len(all) = Len(first) + Len(RegLines)
      /\ \A i \in 1 .. Len(first) + Len(RegLines) :
           all[i] = IF i <= Len(first) THEN first[i] ELSE RegLines[i - Len(first)]
  <2>1. RegLines \in Seq(Lines)
    BY <1>2, SeqMonotonic
  <2>2. QED
    BY <1>1, <2>1, ConcatProperties
<1>5. all = <<Line("CAP_LS")>> \o RegLines
  OBVIOUS
<1> HIDE DEF first, all, names
<1>6. all[1].cmd = "CAP_LS" /\ Len(all) \in Nat \ {0}
  BY <1>1, <1>3, <1>4
<1>7. ASSUME NEW i \in 2 .. Len(all) PROVE all[i].cmd \in {"PASS", "NICK", "USER"}
  <2>1. i - 1 \in 1 .. Len(RegLines) /\ all[i] = RegLines[i - 1]
    BY <1>1, <1>3, <1>4
  <2>2. QED
    BY <1>3, <2>1 DEF names
<1>8. QED
  BY <1>4, <1>5, <1>6, <1>7

\* The first lines are counted, nothing of them but CAP LS asks for an answer.
LEMMA ConnectedFacts ==
  ASSUME Types, HandleConnected
  PROVE  /\ queue # <<>> /\ Head(queue).type = "connected" /\ Emits(<<>>)
         /\ up' \in BOOLEAN /\ wire' \in Seq(Lines) /\ sent' \in [Commands -> Nat]
         /\ \A c \in Commands : sent'[c] = Count(wire', LinesOf({c}))
         /\ \A c \in Commands \ {"CAP_LS", "PASS", "NICK", "USER"} : sent'[c] = 0
         /\ Count(wire', AskingLines) <= 1
         /\ wire' = <<>> => ~up' /\ Count(wire', AskingLines) = 0
         /\ wire' # <<>> => Head(wire').cmd = "CAP_LS" /\ negotiating'
<1> DEFINE lines == <<Line("CAP_LS")>> \o RegLines
<1>1. /\ lines \in Seq(Lines) /\ Len(lines) \in Nat \ {0} /\ lines[1].cmd = "CAP_LS"
      /\ \A i \in 2 .. Len(lines) : lines[i].cmd \in {"PASS", "NICK", "USER"}
      /\ \A i \in 1 .. Len(lines) : lines[i] \in Lines
  <2>1. /\ lines \in Seq(Lines) /\ Len(lines) \in Nat \ {0} /\ lines[1].cmd = "CAP_LS"
        /\ \A i \in 2 .. Len(lines) : lines[i].cmd \in {"PASS", "NICK", "USER"}
    BY FirstLines
  <2> HIDE DEF lines
  <2>2. \A i \in 1 .. Len(lines) : lines[i] \in Lines
    BY <2>1, LenProperties
  <2>3. QED
    BY <2>1, <2>2
<1> HIDE DEF lines
<1>2. PICK k \in 0 .. Len(lines) :
        /\ wire' = SubSeq(lines, 1, k)
        /\ sent' = [c \in Commands |-> Cardinality({i \in 1 .. k : lines[i].cmd = c})]
        /\ up' = (k = Len(lines)) /\ negotiating' = (k > 0)
  BY DEF HandleConnected, lines
<1>a. queue # <<>> /\ Head(queue).type = "connected" /\ Emits(<<>>) /\ up' \in BOOLEAN
  BY <1>2 DEF HandleConnected, On
<1>3. /\ wire' \in Seq(Lines) /\ Len(wire') = k /\ k \in Nat
      /\ \A i \in 1 .. k : wire'[i] = lines[i]
  <2>1. k \in Nat /\ \A i \in 1 .. k : lines[i] \in Lines
    BY <1>1, <1>2
  <2>2. /\ SubSeq(lines, 1, k) \in Seq(Lines)
        /\ Len(SubSeq(lines, 1, k)) = IF 1 <= k THEN k - 1 + 1 ELSE 0
        /\ \A i \in 1 .. k - 1 + 1 : SubSeq(lines, 1, k)[i] = lines[1 + i - 1]
    BY <2>1, SubSeqProperties
  <2>3. QED
    BY <1>2, <2>1, <2>2
<1>4. DOMAIN wire' = 1 .. k
  BY <1>3, LenProperties
<1>5. ASSUME NEW c \in Commands
      PROVE  sent'[c] = Count(wire', LinesOf({c})) /\ sent'[c] \in Nat
  <2>1. {i \in 1 .. k : lines[i].cmd = c} = Places(wire', LinesOf({c}))
    BY <1>1, <1>2, <1>3, <1>4 DEF Places, LinesOf
  <2>2. sent'[c] = Count(wire', LinesOf({c}))
    BY <1>2, <2>1 DEF Count
  <2>3. QED
    BY <1>3, <2>2, PlacesFinite
<1>6. sent' \in [Commands -> Nat]
  BY <1>2, <1>5
<1>7. ASSUME NEW c \in Commands \ {"CAP_LS", "PASS", "NICK", "USER"}
      PROVE  sent'[c] = 0
  <2>1. \A i \in 1 .. k : wire'[i].cmd # c
    BY <1>1, <1>2, <1>3
  <2>2. Count(wire', LinesOf({c})) = 0
    BY <1>3, <2>1, CountZero DEF LinesOf
  <2>3. QED
    BY <1>5, <2>2
<1>8. Count(wire', AskingLines) <= 1
  <2>1. Places(wire', AskingLines) \in SUBSET {1}
    <3>1. \A i \in 1 .. k : i # 1 => wire'[i].cmd \in {"PASS", "NICK", "USER"}
      BY <1>1, <1>2, <1>3
    <3>2. \A i \in 1 .. k : i # 1 => wire'[i] \notin AskingLines
      BY <3>1 DEF AskingLines, LinesOf
    <3>3. QED
      BY <1>4, <3>2 DEF Places
  <2>2. IsFiniteSet({1}) /\ Cardinality({1}) = 1
    BY FS_Singleton
  <2>3. QED
    BY <2>1, <2>2, FS_Subset DEF Count
<1>9. CASE k = 0
  <2>1. wire' = <<>> /\ ~up'
    BY <1>1, <1>2, <1>3, <1>9, EmptySeq
  <2>2. Count(wire', AskingLines) = 0
    BY <2>1, CountEmpty
  <2>3. QED
    BY <1>3, <1>a, <1>5, <1>6, <1>7, <2>1, <2>2
<1>10. CASE k # 0
  <2>1. wire' # <<>> /\ Head(wire') = wire'[1]
    BY <1>3, <1>10, EmptySeq
  <2>2. Head(wire').cmd = "CAP_LS" /\ negotiating'
    <3>1. k > 0 /\ Head(wire').cmd = "CAP_LS"
      BY <1>1, <1>3, <1>10, <2>1
    <3>2. negotiating' = (k > 0)
      BY <1>2
    <3>3. QED
      BY <3>1, <3>2, Zenon
  <2>3. QED
    BY <1>a, <1>3, <1>5, <1>6, <1>7, <1>8, <2>1, <2>2
<1>11. QED
  BY <1>9, <1>10
-----------------------------------------------------------------------------
(* Types.                                                                  *)

LEMMA EventFacts ==
  /\ \A t \in EventTypes : Ev(t) \in Event
  /\ \A t \in EventTypes : \A c \in SUBSET RequestedCaps : CapEv(t, c) \in Event
  BY DEF Ev, CapEv, Event

\* What the handlers of an event emit.
LEMMA EmittedEvents ==
  /\ <<>> \in Seq(Event) /\ ToSet(<<>>) = {}
  /\ \A t \in EventTypes :
       /\ <<Ev(t)>> \in Seq(Event) /\ ToSet(<<Ev(t)>>) = {Ev(t)}
       /\ \A u \in EventTypes : /\ <<Ev(t), Ev(u)>> \in Seq(Event)
                                /\ ToSet(<<Ev(t), Ev(u)>>) = {Ev(t), Ev(u)}
       /\ \A c \in SUBSET RequestedCaps : /\ <<CapEv(t, c)>> \in Seq(Event)
                                          /\ ToSet(<<CapEv(t, c)>>) = {CapEv(t, c)}
<1>1. <<>> \in Seq(Event) /\ ToSet(<<>>) = {}
  BY EventFacts, ShortSeqs DEF ToSet
<1>2. ASSUME NEW t \in EventTypes
      PROVE  /\ <<Ev(t)>> \in Seq(Event) /\ ToSet(<<Ev(t)>>) = {Ev(t)}
             /\ \A u \in EventTypes : /\ <<Ev(t), Ev(u)>> \in Seq(Event)
                                      /\ ToSet(<<Ev(t), Ev(u)>>) = {Ev(t), Ev(u)}
             /\ \A c \in SUBSET RequestedCaps : /\ <<CapEv(t, c)>> \in Seq(Event)
                                                /\ ToSet(<<CapEv(t, c)>>) = {CapEv(t, c)}
  BY EventFacts, ShortSeqs
<1>3. QED
  BY <1>1, <1>2

LEMMA QueueType ==
  ASSUME NetTypes, NEW es \in Seq(Event),
         (queue # <<>> /\ Emits(es)) \/ EmitsFromOutside(es)
  PROVE  queue' \in Seq(Event)
  BY EmitsFacts, OutsideFacts

LEMMA HandledFacts ==
  ASSUME NetTypes, NEW type, On(type)
  PROVE  /\ queue # <<>> /\ Head(queue).type = type /\ Head(queue) \in Event
         /\ Head(queue).caps \in SUBSET RequestedCaps
<1>1. queue # <<>> /\ Head(queue).type = type /\ queue \in Seq(Event)
  BY DEF NetTypes, On
<1>2. Head(queue) \in Event
  BY <1>1, HeadTailProperties
<1>3. QED
  BY <1>1, <1>2 DEF Event

LEMMA InitTypes == Init => Types
<1> SUFFICES ASSUME Init PROVE Types
  OBVIOUS
<1>1. queue \in Seq(Event) /\ wire \in Seq(Lines) /\ lsLeft \in Seq(SUBSET RequestedCaps)
  BY EmittedEvents DEF Init, EventTypes
<1>2. sent \in [Commands -> Nat]
  BY DEF Init
<1>3. NetTypes /\ CapsTypes /\ HandlerTypes
  BY <1>1, <1>2 DEF Init, NetTypes, CapsTypes, HandlerTypes
<1>4. given \in [sasl : BOOLEAN, plain : BOOLEAN, cookie : BOOLEAN]
  BY HandshakeAssumption DEF Init, HandshakeAssumption
<1>5. QED
  BY <1>1, <1>3, <1>4 DEF Init, Types, ServerTypes

\* The handlers leave what they do not touch; this is the rest of the types.
LEMMA RequestTypes ==
  ASSUME Types, NEW new \in SUBSET RequestedCaps, Request(new)
  PROVE  /\ wire' \in Seq(Lines) /\ sent' \in [Commands -> Nat]
         /\ pending' \subseteq available' /\ available' \subseteq RequestedCaps
<1>1. new \cap RequestedCaps = new /\ CapReq(new) \in Lines
  BY DEF CapReq, Lines, Commands
<1>2. wire' \in Seq(Lines) /\ sent' \in [Commands -> Nat]
  <2>1. CASE new = {}
    BY <1>1, <2>1 DEF Request, Types, NetTypes, output
  <2>2. CASE new # {}
    BY <1>1, <2>2, SendsFacts DEF Request, Types
  <2>3. QED
    BY <2>1, <2>2
<1>3. QED
  BY <1>1, <1>2 DEF Request, Types, CapsTypes

LEMMA EndTypes ==
  ASSUME Types, queue # <<>>, NEW active \in SUBSET RequestedCaps,
         EndNegotiation(active) \/ KeepsOn
  PROVE  queue' \in Seq(Event) /\ waiters' \in Nat /\ enders' \in Nat /\ negotiating' \in BOOLEAN
<1>1. <<>> \in Seq(Event) /\ <<CapEv("cap_pre_end", active)>> \in Seq(Event)
  BY EmittedEvents DEF EventTypes
<1>2. queue' \in Seq(Event)
  BY <1>1, QueueType DEF EndNegotiation, KeepsOn, Types
<1>3. QED
  <2>1. waiters \in Nat /\ enders \in Nat /\ negotiating \in BOOLEAN
    BY DEF Types, CapsTypes
  <2>2. waiters' = waiters \/ waiters' = waiters + 1
    BY DEF EndNegotiation, KeepsOn
  <2>3. UNCHANGED enders \/ (enders > 0 /\ enders' = enders - 1)
    BY Zenon DEF EndNegotiation, KeepsOn
  <2>a. waiters' \in Nat /\ enders' \in Nat
    BY <2>1, <2>2, <2>3
  <2>4. negotiating' \in BOOLEAN
    BY <2>1, Zenon DEF EndNegotiation, KeepsOn
  <2>5. QED
    BY <1>2, <2>a, <2>4

LEMMA CapHandlersTypes ==
  ASSUME Types, HandleCapLS \/ HandleCapACK \/ HandleCapNAK \/ HandleCapDEL \/ HandleCapNEW
                  \/ HandleCapEndReady
  PROVE  Types'
<1> USE DEF Types
<1>1. CASE HandleCapLS
  <2>1. queue # <<>> /\ Head(queue).caps \in SUBSET RequestedCaps
    BY <1>1, HandledFacts DEF HandleCapLS
  <2>2. /\ wire' \in Seq(Lines) /\ sent' \in [Commands -> Nat]
        /\ pending' \subseteq available' /\ available' \subseteq RequestedCaps
    BY <1>1, <2>1, RequestTypes DEF HandleCapLS, NetTypes, CapsTypes, output
  <2>3. acked \in SUBSET RequestedCaps
    BY DEF CapsTypes
  <2>4. queue' \in Seq(Event) /\ waiters' \in Nat /\ enders' \in Nat /\ negotiating' \in BOOLEAN
    BY <1>1, <2>1, <2>3, EndTypes DEF HandleCapLS
  <2>5. QED
    BY <1>1, <2>2, <2>4
    DEF HandleCapLS, CapsOnly, NetTypes, CapsTypes, HandlerTypes, ServerTypes, sasl, reg, server
<1>2. ASSUME NEW type \in {"cap_ack", "cap_nak"}, HandleCapAnswer(type) PROVE Types'
  <2>1. queue # <<>> /\ Head(queue).caps \in SUBSET RequestedCaps
    BY <1>2, HandledFacts DEF HandleCapAnswer
  <2>2. acked' \in SUBSET RequestedCaps /\ pending' \subseteq pending
    BY <1>2, <2>1 DEF HandleCapAnswer, CapsTypes
  <2>3. queue' \in Seq(Event) /\ waiters' \in Nat /\ enders' \in Nat /\ negotiating' \in BOOLEAN
    BY <1>2, <2>1, <2>2, EndTypes DEF HandleCapAnswer
  <2>4. QED
    BY <1>2, <2>2, <2>3
    DEF HandleCapAnswer, CapsOnly, NetTypes, CapsTypes, HandlerTypes, ServerTypes,
        output, sasl, reg, server
<1>3. CASE HandleCapDEL
  <2>1. queue # <<>> /\ acked \in SUBSET RequestedCaps
    BY <1>3, HandledFacts DEF HandleCapDEL, CapsTypes
  <2>2. queue' \in Seq(Event) /\ waiters' \in Nat /\ enders' \in Nat /\ negotiating' \in BOOLEAN
    BY <1>3, <2>1, EndTypes DEF HandleCapDEL
  <2>3. QED
    BY <1>3, <2>2
    DEF HandleCapDEL, CapsOnly, NetTypes, CapsTypes, HandlerTypes, ServerTypes,
        output, sasl, reg, server
<1>4. CASE HandleCapNEW
  <2>1. /\ queue # <<>> /\ acked \in SUBSET RequestedCaps
        /\ Head(queue).caps \in SUBSET RequestedCaps
    BY <1>4, HandledFacts DEF HandleCapNEW, CapsTypes
  <2>2. /\ wire' \in Seq(Lines) /\ sent' \in [Commands -> Nat]
        /\ pending' \subseteq available' /\ available' \subseteq RequestedCaps
    BY <1>4, <2>1, RequestTypes DEF HandleCapNEW
  <2>3. queue' \in Seq(Event) /\ waiters' \in Nat /\ enders' \in Nat /\ negotiating' \in BOOLEAN
    BY <1>4, <2>1, EndTypes DEF HandleCapNEW
  <2>4. QED
    BY <1>4, <2>2, <2>3
    DEF HandleCapNEW, CapsOnly, NetTypes, CapsTypes, HandlerTypes, ServerTypes, sasl, reg, server
<1>5. CASE HandleCapEndReady
  <2>1. queue' \in Seq(Event)
    BY <1>5, HandledFacts, QueueType, EmittedEvents DEF HandleCapEndReady
  <2>2. QED
    BY <1>5, <2>1
    DEF HandleCapEndReady, NetTypes, CapsTypes, HandlerTypes, ServerTypes,
        output, sasl, reg, server
<1>6. QED
  BY <1>1, <1>2, <1>3, <1>4, <1>5 DEF HandleCapACK, HandleCapNAK

\* Concludes: what it emits is es, with the failure of a late callback before.
LEMMA ConcludesFacts ==
  ASSUME Types, queue # <<>>, NEW timer \in {"off", "armed", "fired"},
         NEW es \in Seq(Event), Concludes(timer, es)
  PROVE  /\ \E fs \in {es, <<Ev("sasl_fail")>> \o es} : fs \in Seq(Event) /\ Emits(fs)
         /\ queue' \in Seq(Event) /\ saslLate' \in BOOLEAN
         /\ saslTimer' = timer \/ saslTimer' = "off"
<1>1. <<Ev("sasl_fail")>> \in Seq(Event)
  BY EmittedEvents DEF EventTypes
<1>2. <<Ev("sasl_fail")>> \o es \in Seq(Event)
  BY <1>1, ConcatProperties
<1>3. CASE saslTimer' = timer /\ Emits(es) /\ UNCHANGED saslLate
  BY <1>3, QueueType DEF Types, HandlerTypes
<1>4. CASE saslTimer' = "off" /\ saslLate' = TRUE /\ Emits(<<Ev("sasl_fail")>> \o es)
  BY <1>2, <1>4, QueueType DEF Types
<1>5. QED
  BY <1>3, <1>4 DEF Concludes

LEMMA SASLHandlersTypes ==
  ASSUME Types,
         HandlePreEnd \/ (\E plus \in BOOLEAN : HandleAuthenticate(plus))
           \/ HandleSASLSuccess \/ HandleSASLFail
  PROVE  Types'
<1> USE DEF Types
<1> DEFINE Kept == /\ wire' \in Seq(Lines) /\ sent' \in [Commands -> Nat]
                   /\ queue' \in Seq(Event) /\ saslLate' \in BOOLEAN
                   /\ saslState' \in {"Inactive", "Requesting", "Authenticating", "Success", "Failed"}
                   /\ saslTimer' \in {"off", "armed", "fired"}
<1>a. /\ wire \in Seq(Lines) /\ sent \in [Commands -> Nat] /\ saslLate \in BOOLEAN
      /\ saslState \in {"Inactive", "Requesting", "Authenticating", "Success", "Failed"}
      /\ saslTimer \in {"off", "armed", "fired"} /\ Stopped(saslTimer) \in {"off", "armed", "fired"}
  BY DEF NetTypes, HandlerTypes, Stopped
<1>b. \A cmd \in Commands : Line(cmd) \in Lines
  BY DEF Line, Lines
<1>1. ASSUME SASLOnly, Kept PROVE Types'
  BY <1>1 DEF SASLOnly, NetTypes, CapsTypes, HandlerTypes, ServerTypes, caps, reg, server
<1>2. CASE HandlePreEnd
  <2>1. queue # <<>>
    BY <1>2, HandledFacts DEF HandlePreEnd
  <2>2. queue' \in Seq(Event)
    <3>1. /\ <<>> \in Seq(Event) /\ <<Ev("cap_end_ready")>> \in Seq(Event)
          /\ <<Ev("sasl_fail"), Ev("cap_end_ready")>> \in Seq(Event)
      BY EmittedEvents DEF EventTypes
    <3>2. \E es \in Seq(Event) : Emits(es)
      BY <1>2, <3>1 DEF HandlePreEnd
    <3>3. QED
      BY <2>1, <3>2, QueueType
  <2>3. wire' \in Seq(Lines) /\ sent' \in [Commands -> Nat]
    <3>1. Sends(Line("AUTHENTICATE_PLAIN")) \/ UNCHANGED output
      BY <1>2 DEF HandlePreEnd
    <3>2. QED
      BY <3>1, <1>a, <1>b, SendsFacts DEF Commands, output
  <2>4. /\ saslState' \in {"Inactive", "Requesting", "Authenticating", "Success", "Failed"}
        /\ saslTimer' \in {"off", "armed", "fired"} /\ saslLate' \in BOOLEAN
    BY <1>2, <1>a DEF HandlePreEnd
  <2>5. QED
    BY <1>1, <1>2, <2>2, <2>3, <2>4 DEF HandlePreEnd
<1>3. ASSUME NEW plus \in BOOLEAN, HandleAuthenticate(plus) PROVE Types'
  <2>1. queue # <<>>
    BY <1>3, HandledFacts DEF HandleAuthenticate
  <2>2. <<>> \in Seq(Event) /\ <<Ev("sasl_fail")>> \in Seq(Event)
    BY EmittedEvents DEF EventTypes
  <2>3. CASE Emits(<<>>) /\ UNCHANGED <<output, sasl>>
    <3>1. queue' \in Seq(Event)
      BY <2>1, <2>2, <2>3, QueueType
    <3>2. QED
      BY <1>1, <1>3, <1>a, <2>3, <3>1 DEF HandleAuthenticate, output, sasl
  <2>4. CASE /\ Sends(Line("AUTHENTICATE_data"))
             /\ saslState' = IF up THEN "Authenticating" ELSE "Failed"
             /\ Concludes(saslTimer, IF up THEN <<>> ELSE <<Ev("sasl_fail")>>)
    <3>1. wire' \in Seq(Lines) /\ sent' \in [Commands -> Nat]
      BY <2>4, <1>b, SendsFacts DEF Commands
    <3>2. queue' \in Seq(Event) /\ saslLate' \in BOOLEAN /\ saslTimer' \in {"off", "armed", "fired"}
      BY <2>1, <2>2, <2>4, <1>a, ConcludesFacts
    <3>3. QED
      BY <1>1, <1>3, <2>4, <3>1, <3>2 DEF HandleAuthenticate
  <2>5. CASE /\ Sends(Line("AUTHENTICATE_abort")) /\ saslState' = "Failed"
             /\ Concludes(Stopped(saslTimer), <<>>)
    <3>1. wire' \in Seq(Lines) /\ sent' \in [Commands -> Nat]
      BY <2>5, <1>b, SendsFacts DEF Commands
    <3>2. queue' \in Seq(Event) /\ saslLate' \in BOOLEAN /\ saslTimer' \in {"off", "armed", "fired"}
      BY <2>1, <2>2, <2>5, <1>a, ConcludesFacts
    <3>3. QED
      BY <1>1, <1>3, <2>5, <3>1, <3>2 DEF HandleAuthenticate
  <2>6. QED
    BY <1>3, <2>3, <2>4, <2>5 DEF HandleAuthenticate
<1>4. ASSUME NEW type \in {"sasl_success", "sasl_fail"}, NEW final \in {"Success", "Failed"},
             HandleOutcome(type, final)
      PROVE  Types'
  <2>1. queue # <<>>
    BY <1>4, HandledFacts DEF HandleOutcome
  <2>2. <<>> \in Seq(Event) /\ <<Ev(type), Ev("cap_end_ready")>> \in Seq(Event)
    BY EmittedEvents DEF EventTypes
  <2>3. CASE Emits(<<>>) /\ UNCHANGED sasl
    <3>1. queue' \in Seq(Event)
      BY <2>1, <2>2, <2>3, QueueType
    <3>2. QED
      BY <1>1, <1>4, <1>a, <2>3, <3>1 DEF HandleOutcome, output, sasl
  <2>4. CASE /\ saslState' = final
             /\ Concludes(Stopped(saslTimer), <<Ev(type), Ev("cap_end_ready")>>)
    <3>1. queue' \in Seq(Event) /\ saslLate' \in BOOLEAN /\ saslTimer' \in {"off", "armed", "fired"}
      BY <2>1, <2>2, <2>4, <1>a, ConcludesFacts
    <3>2. QED
      BY <1>1, <1>4, <1>a, <2>4, <3>1 DEF HandleOutcome, output
  <2>5. QED
    BY <1>4, <2>3, <2>4 DEF HandleOutcome
<1>5. QED
  BY <1>2, <1>3, <1>4 DEF HandleSASLSuccess, HandleSASLFail

LEMMA OtherHandlersTypes ==
  ASSUME Types, HandleConnected \/ HandleNickInUse \/ HandleWelcome \/ HandlePing
  PROVE  Types'
<1> USE DEF Types
<1>a. <<>> \in Seq(Event) /\ <<Ev("registered")>> \in Seq(Event)
  BY EmittedEvents DEF EventTypes
<1>b. \A cmd \in Commands : Line(cmd) \in Lines
  BY DEF Line, Lines
<1>1. CASE HandleConnected
  <2>1. /\ queue' \in Seq(Event) /\ up' \in BOOLEAN
        /\ wire' \in Seq(Lines) /\ sent' \in [Commands -> Nat]
    BY <1>1, <1>a, ConnectedFacts, QueueType
  <2>2. /\ regState' \in {"Started", "Failed"} /\ regTimer' = "armed" /\ negotiating' \in BOOLEAN
        /\ UNCHANGED <<available, pending, acked, readyCh, waiters, enders, capLate, sasl, server>>
    BY <1>1 DEF HandleConnected
  <2>3. QED
    BY <2>1, <2>2 DEF NetTypes, CapsTypes, HandlerTypes, ServerTypes, sasl, server
<1>2. CASE HandleNickInUse
  <2>1. queue' \in Seq(Event)
    BY <1>2, <1>a, HandledFacts, QueueType DEF HandleNickInUse
  <2>2. wire' \in Seq(Lines) /\ sent' \in [Commands -> Nat]
    <3>1. Sends(Line("NICK")) \/ UNCHANGED output
      BY <1>2 DEF HandleNickInUse
    <3>2. QED
      BY <3>1, <1>b, SendsFacts DEF Commands, output, NetTypes
  <2>3. QED
    BY <1>2, <2>1, <2>2 DEF HandleNickInUse, RegOnly, NetTypes, CapsTypes, HandlerTypes,
                            ServerTypes, caps, sasl, server
<1>3. CASE HandleWelcome
  <2>1. queue' \in Seq(Event)
    BY <1>3, <1>a, HandledFacts, QueueType DEF HandleWelcome
  <2>2. /\ regState' \in {"Inactive", "Started", "Complete", "Failed"}
        /\ regTimer' \in {"off", "armed", "fired"}
    BY <1>3 DEF HandleWelcome, HandlerTypes, Stopped, reg
  <2>3. QED
    BY <1>3, <2>1, <2>2 DEF HandleWelcome, RegOnly, NetTypes, CapsTypes, HandlerTypes,
                            ServerTypes, caps, sasl, server, output
<1>4. CASE HandlePing
  <2>1. queue' \in Seq(Event)
    BY <1>4, <1>a, HandledFacts, QueueType DEF HandlePing
  <2>2. wire' \in Seq(Lines) /\ sent' \in [Commands -> Nat]
    BY <1>4, <1>b, SendsFacts DEF HandlePing, Commands
  <2>3. QED
    BY <1>4, <2>1, <2>2 DEF HandlePing, NetTypes, CapsTypes, HandlerTypes,
                            ServerTypes, caps, sasl, reg, server
<1>5. QED
  BY <1>1, <1>2, <1>3, <1>4

Timers == SASLTimerExpires \/ SASLTimeout \/ RegTimerExpires \/ RegTimeout

Goroutines == WaiterReady \/ WaiterTimeout \/ NegotiationEnds

LEMMA OutsideTypes ==
  ASSUME Types, Timers \/ Goroutines \/ LinkLost
  PROVE  Types'
<1> USE DEF Types
<1>1. CASE SASLTimeout
  <2>1. queue' \in Seq(Event)
    BY <1>1, EmittedEvents, QueueType DEF SASLTimeout, EventTypes
  <2>2. QED
    BY <1>1, <2>1 DEF SASLTimeout, NetTypes, CapsTypes, HandlerTypes, ServerTypes,
                      output, caps, reg, server
<1>2. CASE SASLTimerExpires \/ RegTimerExpires \/ RegTimeout
  BY <1>2 DEF SASLTimerExpires, RegTimerExpires, RegTimeout, NetTypes, CapsTypes, HandlerTypes,
              ServerTypes, net, output, caps, sasl, reg, server
<1>3. CASE WaiterReady \/ WaiterTimeout
  <2>1. waiters > 0 /\ SendCapEnd
    BY <1>3 DEF WaiterReady, WaiterTimeout
  <2>2. wire' \in Seq(Lines) /\ sent' \in [Commands -> Nat]
    <3>1. Line("CAP_END") \in Lines
      BY DEF Line, Lines, Commands
    <3>2. QED
      BY <2>1, <3>1, SendsFacts DEF SendCapEnd
  <2>3. readyCh' \in Nat /\ capLate' \in BOOLEAN
    <3>1. CASE WaiterReady
      <4>1. (SASLUsed => readyCh > 0) /\ readyCh' = IF SASLUsed THEN readyCh - 1 ELSE readyCh
        BY <3>1 DEF WaiterReady
      <4>2. UNCHANGED capLate /\ readyCh \in Nat /\ capLate \in BOOLEAN
        BY <3>1 DEF WaiterReady, CapsTypes
      <4>3. readyCh' \in Nat
        BY <4>1, <4>2
      <4>4. QED
        BY <4>2, <4>3
    <3>2. CASE WaiterTimeout
      BY <3>2 DEF WaiterTimeout, CapsTypes
    <3>3. QED
      BY <1>3, <3>1, <3>2
  <2>4. QED
    BY <2>1, <2>2, <2>3 DEF SendCapEnd, NetTypes, CapsTypes, HandlerTypes, ServerTypes,
                            sasl, reg, server
<1>4. CASE NegotiationEnds
  <2>1. enders' \in Nat
    BY <1>4 DEF NegotiationEnds, CapsTypes
  <2>2. negotiating' \in BOOLEAN
    BY <1>4 DEF NegotiationEnds
  <2>3. QED
    BY <1>4, <2>1, <2>2 DEF NegotiationEnds, NetTypes, CapsTypes, HandlerTypes, ServerTypes,
              net, output, sasl, reg, server
<1>5. CASE LinkLost
  <2>1. up' \in BOOLEAN
    BY <1>5 DEF LinkLost
  <2>2. QED
    BY <1>5, <2>1 DEF LinkLost, NetTypes, CapsTypes, HandlerTypes, ServerTypes,
              output, caps, sasl, reg, server
<1>6. QED
  BY <1>1, <1>2, <1>3, <1>4, <1>5 DEF Timers, Goroutines

\* The server's steps change its own state, the channel and the lines.
LEMMA ServerTypesKept ==
  ASSUME Types, Server \/ JudgeAuth \/ ChangeCaps
  PROVE  Types'
<1> USE DEF Types
<1>1. queue' \in Seq(Event)
  <2>1. /\ \A t \in EventTypes : <<Ev(t)>> \in Seq(Event)
        /\ \A t \in EventTypes : \A c \in SUBSET RequestedCaps : <<CapEv(t, c)>> \in Seq(Event)
        /\ <<Ev("sasl_success"), Ev("sasl_success")>> \in Seq(Event)
    <3>1. "sasl_success" \in EventTypes
      BY DEF EventTypes
    <3>2. QED
      BY <3>1, EmittedEvents
  <2>2. CASE UNCHANGED queue
    BY <2>2 DEF NetTypes
  <2>4. CASE \E es \in Seq(Event) : EmitsFromOutside(es)
    BY <2>4, QueueType
  <2>5. CASE SendCapLS
    <3>1. Head(lsLeft) \in SUBSET RequestedCaps
      BY <2>5, HeadTailProperties DEF SendCapLS, ServerTypes
    <3>2. QED
      BY <2>1, <2>4, <2>5, <3>1 DEF SendCapLS, EventTypes
  <2>6. CASE HearCapReq
    <3>1. Hears("CAP_REQ")
      BY <2>6 DEF HearCapReq
    <3>2. Head(wire).caps \in SUBSET RequestedCaps
      BY <3>1, HearsFacts DEF Lines
    <3>3. QED
      BY <2>1, <2>4, <2>6, <3>2 DEF HearCapReq, EventTypes
  <2>7. CASE ChangeCaps
    BY <2>1, <2>4, <2>7 DEF ChangeCaps, EventTypes, RequestedCaps
  <2>8. CASE HearCapLS \/ HearCapEnd \/ HearAuthenticate \/ HearAuthData \/ HearAuthAbort
               \/ JudgeAuth
    BY <2>1, <2>2, <2>4, <2>8 DEF HearCapLS, HearCapEnd, HearAuthenticate, HearAuthData,
                        HearAuthAbort, JudgeAuth, EventTypes
  <2>9. CASE HearNick \/ HearUser \/ AskPong \/ HearPong \/ Welcome
    BY <2>1, <2>2, <2>4, <2>9 DEF HearNick, HearUser, AskPong, HearPong, Welcome, EventTypes
  <2>10. QED
    BY <2>5, <2>6, <2>7, <2>8, <2>9 DEF Server
<1>2. wire' \in Seq(Lines)
  <2>1. CASE UNCHANGED wire
    BY <2>1 DEF NetTypes
  <2>2. ASSUME NEW cmd, Hears(cmd) PROVE wire' \in Seq(Lines)
    BY <2>2, HearsFacts
  <2>3. QED
    BY <2>1, <2>2 DEF Server, HearCapLS, SendCapLS, HearCapReq, HearCapEnd, HearAuthenticate,
       HearAuthData, HearAuthAbort, HearNick, HearUser, AskPong, HearPong, Welcome,
       JudgeAuth, ChangeCaps
<1>3. lsLeft' \in Seq(SUBSET RequestedCaps)
  <2>1. CASE HearCapLS
    <3>1. PICK first \in SUBSET RequestedCaps, rest \in SUBSET RequestedCaps :
            lsLeft' = <<first>> \/ lsLeft' = <<first, rest>>
      BY <2>1 DEF HearCapLS, ServerTypes
    <3>2. <<first>> \in Seq(SUBSET RequestedCaps) /\ <<first, rest>> \in Seq(SUBSET RequestedCaps)
      BY ShortSeqs
    <3>3. QED
      BY <3>1, <3>2
  <2>2. CASE SendCapLS
    BY <2>2, HeadTailProperties DEF SendCapLS, ServerTypes
  <2>3. CASE UNCHANGED lsLeft
    BY <2>3 DEF ServerTypes
  <2>4. QED
    BY <2>1, <2>2, <2>3 DEF Server, HearCapReq, HearCapEnd, HearAuthenticate,
       HearAuthData, HearAuthAbort, HearNick, HearUser, AskPong, HearPong, Welcome,
       JudgeAuth, ChangeCaps
<1>4. srvCaps' \subseteq RequestedCaps /\ srvAcked' \subseteq RequestedCaps
  BY DEF ServerTypes, Server, HearCapLS, SendCapLS, HearCapReq, HearCapEnd, HearAuthenticate,
     HearAuthData, HearAuthAbort, HearNick, HearUser, AskPong, HearPong, Welcome,
     JudgeAuth, ChangeCaps
<1>5. /\ srvNeg' \in BOOLEAN /\ srvNick' \in BOOLEAN /\ srvUser' \in BOOLEAN
      /\ srvReg' \in BOOLEAN
  BY DEF ServerTypes, Server, HearCapLS, SendCapLS, HearCapReq, HearCapEnd, HearAuthenticate,
     HearAuthData, HearAuthAbort, HearNick, HearUser, AskPong, HearPong, Welcome,
     JudgeAuth, ChangeCaps
<1>6. srvAuth' \in {"none", "asked", "checking", "ok"} /\ news' \in Nat /\ given' = given
  BY DEF ServerTypes, Server, HearCapLS, SendCapLS, HearCapReq, HearCapEnd, HearAuthenticate,
     HearAuthData, HearAuthAbort, HearNick, HearUser, AskPong, HearPong, Welcome,
     JudgeAuth, ChangeCaps
<1>7. ServerOnly
  BY DEF Server, HearCapLS, SendCapLS, HearCapReq, HearCapEnd, HearAuthenticate,
     HearAuthData, HearAuthAbort, HearNick, HearUser, AskPong, HearPong, Welcome,
     JudgeAuth, ChangeCaps
<1>8. QED
  BY <1>1, <1>2, <1>3, <1>4, <1>5, <1>6, <1>7
  DEF ServerOnly, NetTypes, CapsTypes, HandlerTypes, ServerTypes, caps, sasl, reg

LEMMA NextTypes ==
  ASSUME Types, [Next]_vars
  PROVE  Types'
<1>1. CASE Handle
  BY <1>1, CapHandlersTypes, SASLHandlersTypes, OtherHandlersTypes DEF Handle
<1>2. CASE Goroutines \/ Timers \/ LinkLost
  BY <1>2, OutsideTypes
<1>3. CASE Server \/ JudgeAuth \/ ChangeCaps
  BY <1>3, ServerTypesKept
<1>4. CASE UNCHANGED vars
  <2>1. UNCHANGED <<queue, wire, sent, up>> /\ UNCHANGED <<caps, sasl, reg, server>>
    BY <1>4 DEF vars, net, output
  <2>2. QED
    BY <2>1 DEF Types, NetTypes, CapsTypes, HandlerTypes, ServerTypes, caps, sasl, reg, server
<1>5. QED
  BY <1>1, <1>2, <1>3, <1>4 DEF Next, Goroutines, Timers
-----------------------------------------------------------------------------
(* What enters the channel.                                                *)

\* Nothing enters the channel but events of these types.
Adds(types) == \A e \in ToSet(queue') : e \in ToSet(queue) \/ e.type \in types

LEMMA HandlerAdds ==
  ASSUME NetTypes, queue # <<>>, NEW es \in Seq(Event), Emits(es), NEW types,
         \A e \in ToSet(es) : e.type \in types
  PROVE  Adds(types)
  BY EmitsFacts DEF Adds

LEMMA OutsideAdds ==
  ASSUME NetTypes, NEW es \in Seq(Event), EmitsFromOutside(es), NEW types,
         \A e \in ToSet(es) : e.type \in types
  PROVE  Adds(types)
  BY OutsideFacts DEF Adds

LEMMA SameAdds ==
  ASSUME UNCHANGED queue, NEW types
  PROVE  Adds(types)
  BY DEF Adds

LEMMA EventTypeOf ==
  /\ \A t : Ev(t).type = t
  /\ \A t, c : CapEv(t, c).type = t /\ CapEv(t, c).caps = c
  BY DEF Ev, CapEv

LEMMA HandledAdds ==
  ASSUME Types
  PROVE  /\ HandleConnected \/ HandleCapLS \/ HandleCapACK \/ HandleCapNAK \/ HandleCapDEL
              \/ HandleCapNEW \/ HandleCapEndReady \/ HandleNickInUse \/ HandlePing
              => Adds({"cap_pre_end"})
         /\ HandlePreEnd \/ (\E plus \in BOOLEAN : HandleAuthenticate(plus)) \/ HandleSASLFail
              => Adds({"sasl_fail", "cap_end_ready"})
         /\ HandleSASLSuccess =>
              /\ QueueHas("sasl_success")
              /\ Adds({"sasl_success", "sasl_fail", "cap_end_ready"})
         /\ HandleWelcome => QueueHas("registered") /\ Adds({"registered"})
<1> USE DEF Types
<1>a. ASSUME NEW type, On(type)
      PROVE  queue # <<>> /\ Head(queue) \in ToSet(queue) /\ Head(queue).type = type
  <2>1. queue # <<>> /\ queue \in Seq(Event) /\ Head(queue).type = type
    BY <1>a DEF On, NetTypes
  <2>2. QED
    BY <2>1, ToSetFacts
<1>b. ASSUME queue # <<>>, Emits(<<>>), NEW types PROVE Adds(types)
  BY <1>b, EmittedEvents, HandlerAdds
<1>1. ASSUME HandleConnected \/ HandleCapLS \/ HandleCapACK \/ HandleCapNAK \/ HandleCapDEL
               \/ HandleCapNEW \/ HandleCapEndReady \/ HandleNickInUse \/ HandlePing
      PROVE  Adds({"cap_pre_end"})
  <2>1. queue # <<>>
    BY <1>1, <1>a DEF HandleConnected, HandleCapLS, HandleCapACK, HandleCapNAK, HandleCapAnswer,
       HandleCapDEL, HandleCapNEW, HandleCapEndReady, HandleNickInUse, HandlePing
  <2>2. ASSUME NEW active \in SUBSET RequestedCaps, EndNegotiation(active)
        PROVE  Adds({"cap_pre_end"})
    <3>1. CASE Emits(<<CapEv("cap_pre_end", active)>>)
      <4>1. /\ <<CapEv("cap_pre_end", active)>> \in Seq(Event)
            /\ ToSet(<<CapEv("cap_pre_end", active)>>) = {CapEv("cap_pre_end", active)}
        BY EmittedEvents DEF EventTypes
      <4>2. QED
        BY <2>1, <3>1, <4>1, EventTypeOf, HandlerAdds
    <3>2. CASE Emits(<<>>)
      BY <2>1, <3>2, <1>b
    <3>3. QED
      BY <2>2, <3>1, <3>2 DEF EndNegotiation
  <2>3. CASE Emits(<<>>)
    BY <2>1, <2>3, <1>b
  <2>4. CASE HandleCapLS
    <3>1. EndNegotiation(acked) \/ KeepsOn
      BY <2>4 DEF HandleCapLS
    <3>2. QED
      BY <2>2, <2>3, <3>1 DEF KeepsOn, CapsTypes
  <2>5. CASE HandleCapACK \/ HandleCapNAK
    <3>1. EndNegotiation(acked') \/ KeepsOn
      BY <2>5 DEF HandleCapACK, HandleCapNAK, HandleCapAnswer
    <3>2. acked' \in SUBSET RequestedCaps
      BY <2>5, CapHandlersTypes DEF CapsTypes
    <3>3. QED
      BY <2>2, <2>3, <3>1, <3>2 DEF KeepsOn
  <2>6. QED
    BY <1>1, <2>3, <2>4, <2>5 DEF HandleConnected, HandleCapDEL, HandleCapNEW, KeepsOn,
       HandleCapEndReady, HandleNickInUse, HandlePing
<1>c. /\ \A t \in {"sasl_success", "sasl_fail", "cap_end_ready", "registered"} :
           <<Ev(t)>> \in Seq(Event) /\ ToSet(<<Ev(t)>>) = {Ev(t)}
      /\ \A t \in {"sasl_success", "sasl_fail"} :
           /\ <<Ev(t), Ev("cap_end_ready")>> \in Seq(Event)
           /\ ToSet(<<Ev(t), Ev("cap_end_ready")>>) = {Ev(t), Ev("cap_end_ready")}
      /\ <<>> \in Seq(Event) /\ ToSet(<<>>) = {}
  <2>1. {"sasl_success", "sasl_fail", "cap_end_ready", "registered"} \subseteq EventTypes
    BY DEF EventTypes
  <2>2. QED
    BY <2>1, EmittedEvents
<1>d. ASSUME queue # <<>>, NEW timer \in {"off", "armed", "fired"}, NEW es \in Seq(Event),
             Concludes(timer, es), NEW types, "sasl_fail" \in types,
             \A e \in ToSet(es) : e.type \in types
      PROVE  Adds(types)
  <2>1. PICK fs \in {es, <<Ev("sasl_fail")>> \o es} : fs \in Seq(Event) /\ Emits(fs)
    BY <1>d, ConcludesFacts
  <2>2. ToSet(<<Ev("sasl_fail")>> \o es) = {Ev("sasl_fail")} \cup ToSet(es)
    <3> DEFINE first == <<Ev("sasl_fail")>>
    <3>1. first \in Seq(Event) /\ ToSet(first) = {Ev("sasl_fail")}
      BY <1>c
    <3> HIDE DEF first
    <3>2. ToSet(first \o es) = ToSet(first) \cup ToSet(es)
      BY <3>1, ToSetFacts
    <3>3. QED
      BY <3>1, <3>2 DEF first
  <2>3. \A e \in ToSet(fs) : e.type \in types
    <3>1. Ev("sasl_fail").type \in types
      BY <1>d, EventTypeOf
    <3>2. ToSet(fs) \subseteq {Ev("sasl_fail")} \cup ToSet(es)
      BY <2>1, <2>2
    <3>3. QED
      BY <1>d, <3>1, <3>2
  <2>4. QED
    BY <1>d, <2>1, <2>3, HandlerAdds
<1>e. saslTimer \in {"off", "armed", "fired"} /\ Stopped(saslTimer) \in {"off", "armed", "fired"}
  BY DEF HandlerTypes, Stopped
<1>2. ASSUME HandlePreEnd PROVE Adds({"sasl_fail", "cap_end_ready"})
  <2>1. queue # <<>>
    BY <1>2, <1>a DEF HandlePreEnd
  <2>2. \E es \in {<<>>, <<Ev("cap_end_ready")>>, <<Ev("sasl_fail"), Ev("cap_end_ready")>>} :
          Emits(es)
    BY <1>2 DEF HandlePreEnd
  <2>3. PICK es \in {<<>>, <<Ev("cap_end_ready")>>, <<Ev("sasl_fail"), Ev("cap_end_ready")>>} :
          Emits(es)
    BY <2>2
  <2>4. es \in Seq(Event) /\ ToSet(es) \subseteq {Ev("sasl_fail"), Ev("cap_end_ready")}
    BY <1>c
  <2>5. \A e \in ToSet(es) : e.type \in {"sasl_fail", "cap_end_ready"}
    BY <2>4, EventTypeOf
  <2>6. QED
    BY <2>1, <2>3, <2>4, <2>5, HandlerAdds
<1>3. ASSUME NEW plus \in BOOLEAN, HandleAuthenticate(plus)
      PROVE  Adds({"sasl_fail", "cap_end_ready"})
  <2>1. queue # <<>>
    BY <1>3, <1>a DEF HandleAuthenticate
  <2>2. \/ Emits(<<>>)
        \/ \E es \in {<<>>, <<Ev("sasl_fail")>>} :
             Concludes(saslTimer, es) \/ Concludes(Stopped(saslTimer), es)
    BY <1>3 DEF HandleAuthenticate
  <2>3. ASSUME NEW es \in {<<>>, <<Ev("sasl_fail")>>},
               Concludes(saslTimer, es) \/ Concludes(Stopped(saslTimer), es)
        PROVE  Adds({"sasl_fail", "cap_end_ready"})
    <3>1. es \in Seq(Event) /\ \A e \in ToSet(es) : e.type \in {"sasl_fail", "cap_end_ready"}
      BY <1>c, EventTypeOf
    <3>2. QED
      BY <1>d, <1>e, <2>1, <2>3, <3>1
  <2>4. QED
    BY <1>b, <2>1, <2>2, <2>3
<1>4. ASSUME NEW type \in {"sasl_success", "sasl_fail"}, NEW final, HandleOutcome(type, final)
      PROVE  QueueHas(type) /\ Adds({type, "sasl_fail", "cap_end_ready"})
  <2>1. queue # <<>> /\ QueueHas(type)
    BY <1>4, <1>a DEF HandleOutcome, QueueHas
  <2>2. Emits(<<>>) \/ Concludes(Stopped(saslTimer), <<Ev(type), Ev("cap_end_ready")>>)
    BY <1>4 DEF HandleOutcome
  <2>3. ASSUME Concludes(Stopped(saslTimer), <<Ev(type), Ev("cap_end_ready")>>)
        PROVE  Adds({type, "sasl_fail", "cap_end_ready"})
    <3> DEFINE es == <<Ev(type), Ev("cap_end_ready")>>
    <3>1. /\ es \in Seq(Event) /\ Concludes(Stopped(saslTimer), es)
          /\ \A e \in ToSet(es) : e.type \in {type, "sasl_fail", "cap_end_ready"}
      BY <1>c, <2>3, EventTypeOf
    <3> HIDE DEF es
    <3>2. QED
      BY <1>d, <1>e, <2>1, <3>1
  <2>4. QED
    BY <1>b, <2>1, <2>2, <2>3
<1>5. ASSUME HandleWelcome PROVE QueueHas("registered") /\ Adds({"registered"})
  <2>1. queue # <<>> /\ QueueHas("registered")
    BY <1>5, <1>a DEF HandleWelcome, QueueHas
  <2>2. Emits(<<>>) \/ Emits(<<Ev("registered")>>)
    BY <1>5 DEF HandleWelcome
  <2>3. QED
    BY <1>b, <1>c, <2>1, <2>2, EventTypeOf, HandlerAdds
<1>6. HandleSASLFail => Adds({"sasl_fail", "cap_end_ready"})
  BY <1>4 DEF HandleSASLFail, Adds
<1>7. QED
  BY <1>1, <1>2, <1>3, <1>4, <1>5, <1>6 DEF HandleSASLSuccess

\* The server's steps that ask, answer or refuse, and the timers and goroutines.
LEMMA UnaskedAdds ==
  ASSUME Types
  PROVE  /\ Timers \/ Goroutines \/ LinkLost => Adds({"sasl_fail"})
         /\ Welcome => Adds({"registered"})
         /\ JudgeAuth => Adds({"sasl_fail"}) \/ (srvAuth' = "ok" /\ Adds({"sasl_success"}))
         /\ ChangeCaps => Adds({"cap_new", "cap_del"})
         /\ SendCapLS => Adds({"cap_ls"})
         /\ HearCapReq => Adds({"cap_ack", "cap_nak"})
         /\ HearCapLS \/ HearCapEnd \/ HearAuthenticate \/ HearAuthData \/ HearAuthAbort
              \/ HearNick \/ HearUser \/ AskPong \/ HearPong
              => Adds({"sasl_fail", "sasl_plus", "sasl_challenge", "nick_in_use", "ping"})
<1> USE DEF Types
<1>a. ASSUME NEW t \in EventTypes, EmitsFromOutside(<<Ev(t)>>), NEW types, t \in types
      PROVE  Adds(types)
  <2>1. <<Ev(t)>> \in Seq(Event) /\ ToSet(<<Ev(t)>>) = {Ev(t)}
    BY EmittedEvents
  <2>2. QED
    BY <1>a, <2>1, EventTypeOf, OutsideAdds
<1>b. ASSUME NEW t \in EventTypes, NEW c \in SUBSET RequestedCaps,
             EmitsFromOutside(<<CapEv(t, c)>>), NEW types, t \in types
      PROVE  Adds(types)
  <2>1. <<CapEv(t, c)>> \in Seq(Event) /\ ToSet(<<CapEv(t, c)>>) = {CapEv(t, c)}
    BY EmittedEvents
  <2>2. QED
    BY <1>b, <2>1, EventTypeOf, OutsideAdds
<1>1. ASSUME Timers \/ Goroutines \/ LinkLost PROVE Adds({"sasl_fail"})
  <2>1. EmitsFromOutside(<<Ev("sasl_fail")>>) \/ UNCHANGED queue
    BY <1>1 DEF Timers, Goroutines, LinkLost, SASLTimerExpires, SASLTimeout, RegTimerExpires,
       RegTimeout, WaiterReady, WaiterTimeout, SendCapEnd, NegotiationEnds, net
  <2>2. QED
    BY <1>a, <2>1, SameAdds DEF EventTypes
<1>2. ASSUME Welcome PROVE Adds({"registered"})
  BY <1>2, <1>a DEF Welcome, EventTypes
<1>3. ASSUME JudgeAuth
      PROVE  Adds({"sasl_fail"}) \/ (srvAuth' = "ok" /\ Adds({"sasl_success"}))
  <2>1. CASE EmitsFromOutside(<<Ev("sasl_fail")>>)
    <3>1. Adds({"sasl_fail"})
      BY <2>1, <1>a DEF EventTypes
    <3>2. QED
      BY <3>1
  <2>2. CASE srvAuth' = "ok" /\ EmitsFromOutside(<<Ev("sasl_success"), Ev("sasl_success")>>)
    <3>1. /\ <<Ev("sasl_success"), Ev("sasl_success")>> \in Seq(Event)
          /\ ToSet(<<Ev("sasl_success"), Ev("sasl_success")>>) = {Ev("sasl_success")}
      BY EmittedEvents DEF EventTypes
    <3>2. QED
      BY <2>2, <3>1, EventTypeOf, OutsideAdds
  <2>3. QED
    BY <1>3, <2>1, <2>2 DEF JudgeAuth
<1>4. ASSUME ChangeCaps PROVE Adds({"cap_new", "cap_del"})
  <2>1. PICK c \in RequestedCaps : \/ EmitsFromOutside(<<CapEv("cap_del", {c})>>)
                                   \/ EmitsFromOutside(<<CapEv("cap_new", {c})>>)
    BY <1>4 DEF ChangeCaps
  <2>2. {c} \in SUBSET RequestedCaps
    OBVIOUS
  <2>3. QED
    BY <1>b, <2>1, <2>2 DEF EventTypes
<1>5. ASSUME SendCapLS PROVE Adds({"cap_ls"})
  <2>1. Head(lsLeft) \in SUBSET RequestedCaps
    BY <1>5, HeadTailProperties DEF SendCapLS, ServerTypes
  <2>2. EmitsFromOutside(<<CapEv("cap_ls", Head(lsLeft))>>)
    BY <1>5 DEF SendCapLS
  <2>3. QED
    BY <1>b, <2>1, <2>2 DEF EventTypes
<1>6. ASSUME HearCapReq PROVE Adds({"cap_ack", "cap_nak"})
  <2>1. Hears("CAP_REQ")
    BY <1>6 DEF HearCapReq
  <2>2. Head(wire).caps \in SUBSET RequestedCaps
    BY <2>1, HearsFacts DEF Lines
  <2>3. \/ EmitsFromOutside(<<CapEv("cap_ack", Head(wire).caps)>>)
        \/ EmitsFromOutside(<<CapEv("cap_nak", Head(wire).caps)>>)
    BY <1>6 DEF HearCapReq
  <2>4. QED
    BY <1>b, <2>2, <2>3 DEF EventTypes
<1>7. ASSUME HearCapLS \/ HearCapEnd \/ HearAuthenticate \/ HearAuthData \/ HearAuthAbort
               \/ HearNick \/ HearUser \/ AskPong \/ HearPong
      PROVE  Adds({"sasl_fail", "sasl_plus", "sasl_challenge", "nick_in_use", "ping"})
  <2>1. \/ UNCHANGED queue
        \/ \E t \in {"sasl_fail", "sasl_plus", "sasl_challenge", "nick_in_use", "ping"} :
             EmitsFromOutside(<<Ev(t)>>)
    BY <1>7 DEF HearCapLS, HearCapEnd, HearAuthenticate, HearAuthData, HearAuthAbort,
       HearNick, HearUser, AskPong, HearPong
  <2>2. QED
    BY <1>a, <2>1, SameAdds DEF EventTypes
<1>8. QED
  BY <1>1, <1>2, <1>3, <1>4, <1>5, <1>6, <1>7
-----------------------------------------------------------------------------
(* What is sent and heard.                                                 *)

\* At most one line is sent, with one of these commands.
Sending(cmds) == UNCHANGED <<wire, sent>> \/ \E l \in LinesOf(cmds) : Sends(l)

LEMMA SendingOther ==
  ASSUME Types, NEW cmds, Sending(cmds), NEW c \in Commands, c \notin cmds
  PROVE  sent'[c] = sent[c] /\ Count(wire', LinesOf({c})) = Count(wire, LinesOf({c}))
<1>1. CASE UNCHANGED <<wire, sent>>
  BY <1>1
<1>2. ASSUME NEW l \in LinesOf(cmds), Sends(l)
      PROVE  sent'[c] = sent[c] /\ Count(wire', LinesOf({c})) = Count(wire, LinesOf({c}))
  <2>1. l \in Lines /\ l.cmd \in Commands /\ l.cmd # c /\ One(l, LinesOf({c})) = 0
    BY DEF LinesOf, Lines, One
  <2>2. CASE ~up
    BY <1>2, <2>1, <2>2, SendsFacts DEF Types
  <2>3. CASE up
    <3>1. /\ sent' = [sent EXCEPT ![l.cmd] = sent[l.cmd] + 1]
          /\ Count(wire', LinesOf({c})) = Count(wire, LinesOf({c})) + One(l, LinesOf({c}))
      BY <1>2, <2>1, <2>3, SendsFacts DEF Types
    <3>2. Count(wire, LinesOf({c})) \in Nat /\ sent \in [Commands -> Nat]
      BY PlacesFinite DEF Types, NetTypes
    <3>3. QED
      BY <2>1, <3>1, <3>2
  <2>4. QED
    BY <2>2, <2>3
<1>3. QED
  BY <1>1, <1>2 DEF Sending

LEMMA SendingFirst ==
  ASSUME Types, NEW cmds, Sending(cmds), wire # <<>>
  PROVE  wire' # <<>> /\ Head(wire') = Head(wire)
  BY SendsFacts DEF Sending, Types, LinesOf

\* One more sent is one more on its way.
LEMMA SendingSame ==
  ASSUME Types, NEW cmds, Sending(cmds), NEW c \in Commands
  PROVE  /\ sent'[c] - Count(wire', LinesOf({c})) = sent[c] - Count(wire, LinesOf({c}))
         /\ sent'[c] \in {sent[c], sent[c] + 1} /\ sent[c] \in Nat
         /\ Count(wire, LinesOf({c})) \in Nat
<1>1. sent[c] \in Nat /\ Count(wire, LinesOf({c})) \in Nat
  BY PlacesFinite DEF Types, NetTypes
<1>2. CASE UNCHANGED <<wire, sent>>
  BY <1>1, <1>2
<1>3. ASSUME NEW l \in LinesOf(cmds), Sends(l)
      PROVE  /\ sent'[c] - Count(wire', LinesOf({c})) = sent[c] - Count(wire, LinesOf({c}))
             /\ sent'[c] \in {sent[c], sent[c] + 1}
  <2>1. l \in Lines /\ l.cmd \in Commands /\ sent \in [Commands -> Nat]
    BY DEF LinesOf, Lines, Types, NetTypes
  <2>2. CASE ~up
    BY <1>1, <1>3, <2>1, <2>2, SendsFacts DEF Types
  <2>3. CASE up
    <3>1. /\ sent' = [sent EXCEPT ![l.cmd] = sent[l.cmd] + 1]
          /\ Count(wire', LinesOf({c})) = Count(wire, LinesOf({c})) + One(l, LinesOf({c}))
      BY <1>3, <2>1, <2>3, SendsFacts DEF Types
    <3>2. One(l, LinesOf({c})) = IF l.cmd = c THEN 1 ELSE 0
      BY <2>1 DEF One, LinesOf
    <3>3. sent'[c] = IF l.cmd = c THEN sent[c] + 1 ELSE sent[c]
      BY <2>1, <3>1
    <3>4. QED
      BY <1>1, <3>1, <3>2, <3>3
  <2>4. QED
    BY <2>2, <2>3
<1>4. QED
  BY <1>1, <1>2, <1>3 DEF Sending

LEMMA HearsCount ==
  ASSUME Types, NEW cmd, Hears(cmd), NEW c \in Commands
  PROVE  /\ Count(wire, LinesOf({c})) \in Nat /\ Count(wire', LinesOf({c})) \in Nat
         /\ Count(wire', LinesOf({c})) = Count(wire, LinesOf({c})) - (IF cmd = c THEN 1 ELSE 0)
<1>1. /\ wire \in Seq(Lines) /\ wire' \in Seq(Lines) /\ Head(wire) \in Lines
      /\ Head(wire).cmd = cmd
      /\ Count(wire', LinesOf({c})) = Count(wire, LinesOf({c})) - One(Head(wire), LinesOf({c}))
  BY HearsFacts DEF Types, NetTypes
<1>2. One(Head(wire), LinesOf({c})) = IF cmd = c THEN 1 ELSE 0
  BY <1>1 DEF One, LinesOf
<1>3. QED
  BY <1>1, <1>2, PlacesFinite

\* What each step sends.
LEMMA SendingFacts ==
  ASSUME Types
  PROVE  /\ HandleCapLS \/ HandleCapNEW => Sending({"CAP_REQ"})
         /\ HandleCapACK \/ HandleCapNAK \/ HandleCapDEL \/ HandleCapEndReady \/ HandleSASLSuccess
              \/ HandleSASLFail \/ HandleWelcome \/ Timers \/ NegotiationEnds \/ LinkLost
              => Sending({})
         /\ HandlePreEnd => Sending({"AUTHENTICATE_PLAIN"})
         /\ (\E plus \in BOOLEAN : HandleAuthenticate(plus))
              => Sending({"AUTHENTICATE_data", "AUTHENTICATE_abort"})
         /\ HandleNickInUse => Sending({"NICK"})
         /\ HandlePing => Sending({"PONG"})
         /\ WaiterReady \/ WaiterTimeout => Sending({"CAP_END"})
<1>a. ASSUME UNCHANGED output, NEW cmds PROVE Sending(cmds)
  BY <1>a DEF Sending, output
<1>b. ASSUME NEW cmd \in Commands, Sends(Line(cmd)), NEW cmds, cmd \in cmds PROVE Sending(cmds)
  <2>1. Line(cmd) \in LinesOf(cmds)
    BY <1>b DEF Line, LinesOf, Lines
  <2>2. QED
    BY <1>b, <2>1 DEF Sending
<1>c. ASSUME NEW new, Request(new) PROVE Sending({"CAP_REQ"})
  <2>1. UNCHANGED output \/ Sends(CapReq(new \cap RequestedCaps))
    BY <1>c DEF Request
  <2>2. CapReq(new \cap RequestedCaps) \in LinesOf({"CAP_REQ"})
    BY DEF CapReq, LinesOf, Lines, Commands
  <2>3. QED
    BY <1>a, <2>1, <2>2 DEF Sending
<1>1. ASSUME HandleCapLS \/ HandleCapNEW PROVE Sending({"CAP_REQ"})
  BY <1>1, <1>a, <1>c DEF HandleCapLS, HandleCapNEW
<1>2. ASSUME HandleCapACK \/ HandleCapNAK \/ HandleCapDEL \/ HandleCapEndReady \/ HandleSASLSuccess
               \/ HandleSASLFail \/ HandleWelcome \/ Timers \/ NegotiationEnds \/ LinkLost
      PROVE  Sending({})
  <2>1. UNCHANGED output
    BY <1>2 DEF HandleCapACK, HandleCapNAK, HandleCapAnswer, HandleCapDEL, HandleCapEndReady,
       HandleSASLSuccess, HandleSASLFail, HandleOutcome, HandleWelcome, Timers, SASLTimerExpires,
       SASLTimeout, RegTimerExpires, RegTimeout, NegotiationEnds, LinkLost, net
  <2>2. QED
    BY <1>a, <2>1
<1>3. ASSUME HandlePreEnd PROVE Sending({"AUTHENTICATE_PLAIN"})
  <2>1. UNCHANGED output \/ Sends(Line("AUTHENTICATE_PLAIN"))
    BY <1>3 DEF HandlePreEnd
  <2>2. QED
    BY <1>a, <1>b, <2>1 DEF Commands
<1>4. ASSUME NEW plus \in BOOLEAN, HandleAuthenticate(plus)
      PROVE  Sending({"AUTHENTICATE_data", "AUTHENTICATE_abort"})
  <2>1. \/ UNCHANGED output \/ Sends(Line("AUTHENTICATE_data"))
        \/ Sends(Line("AUTHENTICATE_abort"))
    BY <1>4 DEF HandleAuthenticate
  <2>2. QED
    BY <1>a, <1>b, <2>1 DEF Commands
<1>5. ASSUME HandleNickInUse PROVE Sending({"NICK"})
  <2>1. UNCHANGED output \/ Sends(Line("NICK"))
    BY <1>5 DEF HandleNickInUse, output
  <2>2. QED
    BY <1>a, <1>b, <2>1 DEF Commands
<1>6. ASSUME HandlePing PROVE Sending({"PONG"})
  BY <1>6, <1>b DEF HandlePing, Commands
<1>7. ASSUME WaiterReady \/ WaiterTimeout PROVE Sending({"CAP_END"})
  BY <1>7, <1>b DEF WaiterReady, WaiterTimeout, SendCapEnd, Commands
<1>8. QED
  BY <1>1, <1>2, <1>3, <1>4, <1>5, <1>6, <1>7
-----------------------------------------------------------------------------
(* What holds whatever the server does.                                    *)

HandleOthers == HandleCapLS \/ HandleCapACK \/ HandleCapNAK \/ HandleCapDEL \/ HandleCapNEW
                  \/ HandleCapEndReady \/ HandlePreEnd
                  \/ (\E plus \in BOOLEAN : HandleAuthenticate(plus))
                  \/ HandleSASLSuccess \/ HandleSASLFail \/ HandleNickInUse \/ HandleWelcome
                  \/ HandlePing

LEMMA OnlyConnected ==
  ASSUME Types, Untouched, QueueHas("connected"), Next
  PROVE  HandleConnected \/ LinkLost
<1>1. /\ queue # <<>> /\ Head(queue).type = "connected" /\ wire = <<>> /\ sent["CAP_LS"] = 0
      /\ lsLeft = <<>> /\ srvAuth = "none" /\ ~srvNick /\ ~srvUser
      /\ regTimer = "off" /\ saslTimer = "off" /\ waiters = 0 /\ enders = 0
  BY DEF Untouched, Ev, Commands
<1>2. ~HandleOthers
  BY <1>1 DEF HandleOthers, On, HandleCapLS, HandleCapACK, HandleCapNAK, HandleCapAnswer,
     HandleCapDEL, HandleCapNEW, HandleCapEndReady, HandlePreEnd, HandleAuthenticate,
     HandleSASLSuccess, HandleSASLFail, HandleOutcome, HandleNickInUse, HandleWelcome, HandlePing
<1>3. ~(Timers \/ Goroutines)
  BY <1>1 DEF Timers, SASLTimerExpires, SASLTimeout, RegTimerExpires, RegTimeout, Goroutines,
     WaiterReady, WaiterTimeout, NegotiationEnds
<1>4. ~(Server \/ JudgeAuth)
  BY <1>1 DEF Server, Hears, HearCapLS, SendCapLS, HearCapReq, HearCapEnd, HearAuthenticate,
       HearAuthData, HearAuthAbort, HearNick, HearUser, AskPong, HearPong, Welcome, JudgeAuth
<1>5. ~ChangeCaps
  <2>1. {i \in DOMAIN wire : wire[i].cmd = "CAP_LS"} = {}
    BY <1>1
  <2>2. ~Heard("CAP_LS")
    BY <1>1, <2>1, FS_EmptySet DEF Heard
  <2>3. QED
    BY <2>2 DEF ChangeCaps
<1>6. QED
  BY <1>2, <1>3, <1>4, <1>5 DEF Next, Handle, HandleOthers, Timers, Goroutines

\* Every other step finds EventConnected handled.
LEMMA NextConnected ==
  ASSUME Types, Untouched, Next
  PROVE  /\ QueueHas("connected")' => QueueHas("connected") /\ LinkLost
         /\ HandleConnected => QueueHas("connected")
<1>1. ASSUME HandleConnected PROVE QueueHas("connected")
  <2>1. Head(queue) \in ToSet(queue) /\ Head(queue).type = "connected"
    BY <1>1, ConnectedFacts, EmittedEvents, EmitsFacts DEF Types
  <2>2. QED
    BY <2>1 DEF QueueHas
<1>2. ASSUME HandleConnected PROVE ~QueueHas("connected")'
  <2>1. queue = <<Ev("connected")>> /\ Emits(<<>>)
    BY <1>1, <1>2, ConnectedFacts DEF Untouched
  <2>2. queue' = <<>>
    BY <2>1 DEF Emits
  <2>3. QED
    BY <2>2 DEF QueueHas, ToSet
<1>3. ASSUME NEW types, Adds(types), "connected" \notin types, QueueHas("connected")'
      PROVE  QueueHas("connected")
  BY <1>3 DEF Adds, QueueHas
<1>4. CASE ~QueueHas("connected")
  <2>1. ~HandleConnected
    BY <1>1, <1>4
  <2>2. \E types : "connected" \notin types /\ Adds(types)
    <3>1. CASE HandleOthers
      BY <3>1, HandledAdds DEF HandleOthers
    <3>2. CASE Timers \/ Goroutines \/ LinkLost
      BY <3>2, UnaskedAdds
    <3>3. CASE Server \/ JudgeAuth \/ ChangeCaps
      BY <3>3, UnaskedAdds DEF Server
    <3>4. QED
      BY <2>1, <3>1, <3>2, <3>3 DEF Next, Handle, HandleOthers, Timers, Goroutines
  <2>3. QED
    BY <1>3, <1>4, <2>1, <2>2
<1>5. CASE QueueHas("connected")
  BY <1>1, <1>2, <1>5, OnlyConnected
<1>6. QED
  BY <1>4, <1>5

LEMMA UntouchedKept ==
  ASSUME Types, Untouched, Next
  PROVE  Untouched'
<1>1. CASE ~QueueHas("connected")'
  BY <1>1 DEF Untouched
<1>2. CASE QueueHas("connected")'
  <2>1. QueueHas("connected") /\ LinkLost
    BY <1>2, NextConnected
  <2>2. QED
    BY <2>1 DEF Untouched, LinkLost, output, caps, sasl, reg, server
<1>3. QED
  BY <1>1, <1>2

LEMMA RegistrationKept ==
  ASSUME Types, Untouched, Registration, Next
  PROVE  Registration'
<1>1. srvReg => srvReg'
  BY DEF Next, Handle, HandleConnected, HandleCapLS, HandleCapACK, HandleCapNAK,
     HandleCapAnswer, HandleCapDEL, HandleCapNEW, CapsOnly, HandleCapEndReady, HandlePreEnd,
     HandleAuthenticate, HandleSASLSuccess, HandleSASLFail, HandleOutcome, SASLOnly,
     HandleNickInUse, HandleWelcome, RegOnly, HandlePing, WaiterReady, WaiterTimeout, SendCapEnd,
     NegotiationEnds, SASLTimerExpires, SASLTimeout, RegTimerExpires, RegTimeout, Server,
     HearCapLS, SendCapLS, HearCapReq, HearCapEnd, HearAuthenticate, HearAuthData,
     HearAuthAbort, HearNick, HearUser, AskPong, HearPong, Welcome, JudgeAuth, ChangeCaps,
     LinkLost, server
<1>2. ASSUME NEW types, Adds(types), "registered" \notin types, QueueHas("registered")'
      PROVE  QueueHas("registered")
  BY <1>2 DEF Adds, QueueHas
<1>3. QueueHas("registered")' => srvReg'
  <2>1. CASE Welcome
    BY <2>1 DEF Welcome
  <2>2. CASE HandleWelcome
    BY <2>2, <1>1, HandledAdds DEF Registration
  <2>3. CASE \E types : "registered" \notin types /\ Adds(types)
    BY <2>3, <1>1, <1>2 DEF Registration
  <2>4. CASE HandleConnected \/ (HandleOthers /\ ~HandleWelcome)
    BY <2>3, <2>4, HandledAdds DEF HandleOthers
  <2>5. CASE Timers \/ Goroutines \/ LinkLost
    BY <2>3, <2>5, UnaskedAdds
  <2>6. CASE (Server /\ ~Welcome) \/ JudgeAuth \/ ChangeCaps
    BY <2>3, <2>6, UnaskedAdds DEF Server
  <2>7. QED
    BY <2>1, <2>2, <2>4, <2>5, <2>6 DEF Next, Handle, HandleOthers, Timers, Goroutines
<1>4. regState' = "Complete" => srvReg' /\ regTimer' # "armed"
  <2>1. CASE HandleWelcome
    <3>1. QueueHas("registered")
      BY <2>1, HandledAdds
    <3>2. srvReg'
      BY <1>1, <3>1 DEF Registration
    <3>3. regState' = "Complete" => regTimer' # "armed"
      BY <2>1 DEF HandleWelcome, Stopped, Registration, reg
    <3>4. QED
      BY <3>2, <3>3
  <2>2. CASE HandleConnected
    BY <2>2 DEF HandleConnected
  <2>3. CASE HandleNickInUse
    <3>1. regState' = "Complete" => regState = "Complete"
      BY <2>3 DEF HandleNickInUse, RegActive
    <3>2. UNCHANGED regTimer
      BY <2>3 DEF HandleNickInUse
    <3>3. QED
      BY <1>1, <3>1, <3>2 DEF Registration
  <2>4. CASE RegTimerExpires
    BY <2>4, <1>1 DEF RegTimerExpires, Registration
  <2>5. CASE RegTimeout
    BY <2>5 DEF RegTimeout
  <2>6. CASE UNCHANGED reg
    BY <2>6, <1>1 DEF reg, Registration
  <2>7. QED
    BY <2>1, <2>2, <2>3, <2>4, <2>5, <2>6
    DEF Next, Handle, HandleCapLS, HandleCapACK, HandleCapNAK,
     HandleCapAnswer, HandleCapDEL, HandleCapNEW, CapsOnly, HandleCapEndReady, HandlePreEnd,
     HandleAuthenticate, HandleSASLSuccess, HandleSASLFail, HandleOutcome, SASLOnly,
     HandlePing, WaiterReady, WaiterTimeout, SendCapEnd,
     NegotiationEnds, SASLTimerExpires, SASLTimeout, Server,
     HearCapLS, SendCapLS, HearCapReq, HearCapEnd, HearAuthenticate, HearAuthData,
     HearAuthAbort, HearNick, HearUser, AskPong, HearPong, Welcome, JudgeAuth, ChangeCaps,
     LinkLost, ServerOnly
<1>5. QED
  BY <1>3, <1>4 DEF Registration

\* The lines and the verdicts of the authentication, as the server's steps change them.
Asked == IF srvAuth = "none" THEN 0 ELSE 1
PlainOnWire == Count(wire, LinesOf({"AUTHENTICATE_PLAIN"}))

LEMMA ServerAuth ==
  ASSUME Types, Authentication, Server \/ JudgeAuth \/ ChangeCaps
  PROVE  /\ sent' = sent
         /\ PlainOnWire' + Asked' <= sent["AUTHENTICATE_PLAIN"]
         /\ srvAuth = "ok" => srvAuth' = "ok"
<1> DEFINE P == sent["AUTHENTICATE_PLAIN"]
<1>1. /\ P \in Nat /\ P <= 1 /\ PlainOnWire \in Nat /\ Asked \in {0, 1}
      /\ PlainOnWire + Asked <= P
  BY PlacesFinite DEF Types, NetTypes, Commands, Authentication, CredentialsOnce, Asked, PlainOnWire
<1>2. sent' = sent
  BY DEF Server, HearCapLS, SendCapLS, HearCapReq, HearCapEnd, HearAuthenticate,
     HearAuthData, HearAuthAbort, HearNick, HearUser, AskPong, HearPong, Welcome,
     JudgeAuth, ChangeCaps, ServerOnly
<1>3. ASSUME NEW cmd, Hears(cmd)
      PROVE  /\ PlainOnWire' \in Nat
             /\ PlainOnWire' = PlainOnWire - (IF cmd = "AUTHENTICATE_PLAIN" THEN 1 ELSE 0)
  BY <1>3, HearsCount DEF PlainOnWire, Commands
<1> HIDE DEF P
<1>4. CASE HearAuthenticate
  <2>1. PlainOnWire' = PlainOnWire - 1 /\ PlainOnWire' \in Nat
    BY <1>3, <1>4 DEF HearAuthenticate
  <2>2. PlainOnWire' = 0 /\ P = 1 /\ Asked = 0
    BY <1>1, <2>1
  <2>3. srvAuth # "ok" /\ (Asked' = 0 \/ Asked' = 1)
    BY <2>2 DEF Asked
  <2>4. PlainOnWire' + Asked' <= P
    BY <2>2, <2>3
  <2>5. QED
    BY <1>2, <2>3, <2>4 DEF P
<1>5. CASE ~HearAuthenticate
  <2>1. PlainOnWire' = PlainOnWire
    <3>1. \/ UNCHANGED wire
          \/ \E cmd \in Commands \ {"AUTHENTICATE_PLAIN"} : Hears(cmd)
      BY <1>5 DEF Server, HearCapLS, SendCapLS, HearCapReq, HearCapEnd,
         HearAuthData, HearAuthAbort, HearNick, HearUser, AskPong, HearPong, Welcome,
         JudgeAuth, ChangeCaps, Commands
    <3>2. CASE UNCHANGED wire
      BY <3>2 DEF PlainOnWire
    <3>3. ASSUME NEW cmd \in Commands \ {"AUTHENTICATE_PLAIN"}, Hears(cmd)
          PROVE  PlainOnWire' = PlainOnWire
      BY <1>1, <1>3, <3>3
    <3>4. QED
      BY <3>1, <3>2, <3>3
  <2>2. /\ srvAuth' = "none" \/ srvAuth # "none" \/ UNCHANGED srvAuth
        /\ srvAuth = "ok" => srvAuth' = "ok"
    BY <1>5 DEF Server, HearCapLS, SendCapLS, HearCapReq, HearCapEnd,
       HearAuthData, HearAuthAbort, HearNick, HearUser, AskPong, HearPong, Welcome,
       JudgeAuth, ChangeCaps
  <2>3. Asked' \in {0, 1} /\ Asked' <= Asked
    BY <2>2 DEF Asked
  <2>4. QED
    BY <1>1, <1>2, <2>1, <2>2, <2>3 DEF P
<1>6. QED
  BY <1>4, <1>5

\* A success in the channel is the server's, whatever else the step did.
LEMMA SuccessKept ==
  ASSUME Types, Authentication, Next, srvAuth = "ok" => srvAuth' = "ok",
         QueueHas("sasl_success")'
  PROVE  srvAuth' = "ok"
<1>1. ASSUME NEW types, Adds(types), "sasl_success" \notin types PROVE srvAuth' = "ok"
  <2>1. QueueHas("sasl_success")
    BY <1>1 DEF Adds, QueueHas
  <2>2. QED
    BY <2>1 DEF Authentication
<1>2. CASE HandleConnected \/ (HandleOthers /\ ~HandleSASLSuccess)
  BY <1>1, <1>2, HandledAdds DEF HandleOthers
<1>3. CASE HandleSASLSuccess
  BY <1>3, HandledAdds DEF Authentication
<1>4. CASE Timers \/ Goroutines \/ LinkLost
  BY <1>1, <1>4, UnaskedAdds
<1>5. CASE Server \/ ChangeCaps
  BY <1>1, <1>5, UnaskedAdds DEF Server
<1>6. CASE JudgeAuth
  <2>1. CASE Adds({"sasl_fail"})
    BY <1>1, <2>1
  <2>2. CASE srvAuth' = "ok"
    BY <2>2
  <2>3. QED
    BY <1>6, <2>1, <2>2, UnaskedAdds
<1>7. QED
  BY <1>2, <1>3, <1>4, <1>5, <1>6 DEF Next, Handle, HandleOthers, Timers, Goroutines

LEMMA AuthenticationKept ==
  ASSUME Types, Untouched, Authentication, Next
  PROVE  Authentication'
<1> DEFINE P == sent["AUTHENTICATE_PLAIN"]
           D == sent["AUTHENTICATE_data"]
<1>a. /\ P \in Nat /\ D \in Nat /\ P <= 1 /\ D <= P
      /\ PlainOnWire \in Nat /\ PlainOnWire + Asked <= P /\ (Asked = 0 \/ Asked = 1)
      /\ saslState = "Inactive" => P = 0
      /\ saslState \in {"Inactive", "Requesting"} => D = 0
      /\ saslState = "Requesting" => P = 1
      /\ saslState = "Success" => srvAuth = "ok" /\ saslTimer # "armed"
  BY PlacesFinite DEF Types, NetTypes, Commands, Authentication, CredentialsOnce, Asked, PlainOnWire
<1>b. ASSUME P' \in Nat, D' \in Nat, P' <= 1, D' <= P', PlainOnWire' + Asked' <= P',
             saslState' = "Inactive" => P' = 0,
             saslState' \in {"Inactive", "Requesting"} => D' = 0,
             saslState' = "Requesting" => P' = 1,
             saslState' = "Success" => srvAuth' = "ok" /\ saslTimer' # "armed",
             srvAuth = "ok" => srvAuth' = "ok"
      PROVE  Authentication'
  <2>1. QueueHas("sasl_success")' => srvAuth' = "ok"
    BY <1>b, SuccessKept
  <2>2. QED
    BY <1>b, <2>1 DEF Authentication, CredentialsOnce, Asked, PlainOnWire
<1>c. ASSUME NEW cmds, Sending(cmds), "AUTHENTICATE_PLAIN" \notin cmds
      PROVE  P' = P /\ PlainOnWire' = PlainOnWire
  <2>1. "AUTHENTICATE_PLAIN" \in Commands
    BY DEF Commands
  <2>2. QED
    BY <1>c, <2>1, SendingOther DEF PlainOnWire
<1>d. ASSUME NEW cmds, Sending(cmds), "AUTHENTICATE_data" \notin cmds
      PROVE  D' = D
  <2>1. "AUTHENTICATE_data" \in Commands
    BY DEF Commands
  <2>2. QED
    BY <1>d, <2>1, SendingOther
<1>e. ASSUME UNCHANGED server PROVE srvAuth' = srvAuth /\ Asked' = Asked
  BY <1>e DEF server, Asked
<1>1. CASE HandleConnected
  <2>1. /\ saslState = "Inactive" /\ saslTimer = "off" /\ srvAuth = "none"
    BY <1>1, NextConnected DEF Untouched
  <2>2. /\ UNCHANGED <<saslState, saslTimer, srvAuth>>
    BY <1>1 DEF HandleConnected, sasl, server
  <2>3. P' = 0 /\ D' = 0 /\ PlainOnWire' = 0
    BY <1>1, ConnectedFacts DEF Commands, PlainOnWire
  <2>4. Asked' = 0
    BY <2>1, <2>2 DEF Asked
  <2> HIDE DEF P, D
  <2>5. QED
    BY <1>b, <2>1, <2>2, <2>3, <2>4
<1>2. CASE Server \/ JudgeAuth \/ ChangeCaps
  <2>1. /\ P' = P /\ D' = D /\ PlainOnWire' + Asked' <= P
        /\ srvAuth = "ok" => srvAuth' = "ok"
    BY <1>2, ServerAuth
  <2>2. UNCHANGED <<saslState, saslTimer>>
    BY <1>2 DEF Server, HearCapLS, SendCapLS, HearCapReq, HearCapEnd, HearAuthenticate,
       HearAuthData, HearAuthAbort, HearNick, HearUser, AskPong, HearPong, Welcome,
       JudgeAuth, ChangeCaps, ServerOnly, sasl
  <2> HIDE DEF P, D
  <2>3. QED
    BY <1>a, <1>b, <2>1, <2>2
<1>3. ASSUME UNCHANGED server, P' = P, D' = D, PlainOnWire' = PlainOnWire,
             \/ UNCHANGED saslState
             \/ saslState' \notin {"Inactive", "Requesting", "Success"}
             \/ (saslState' = "Success" /\ srvAuth = "ok"),
             saslState' = "Success" =>
               saslTimer' # "armed" \/ (UNCHANGED <<saslState, saslTimer>>)
      PROVE  Authentication'
  <2>1. srvAuth' = srvAuth /\ Asked' = Asked
    BY <1>3, <1>e
  <2> HIDE DEF P, D
  <2>2. saslState' = "Success" => srvAuth' = "ok" /\ saslTimer' # "armed"
    BY <1>a, <1>3, <2>1
  <2>3. /\ saslState' = "Inactive" => P' = 0
        /\ saslState' \in {"Inactive", "Requesting"} => D' = 0
        /\ saslState' = "Requesting" => P' = 1
    BY <1>a, <1>3
  <2>4. PlainOnWire' + Asked' <= P'
    BY <1>a, <1>3, <2>1
  <2>5. QED
    BY <1>a, <1>b, <1>3, <2>1, <2>2, <2>3, <2>4
<1>4. CASE HandleCapLS \/ HandleCapACK \/ HandleCapNAK \/ HandleCapDEL \/ HandleCapNEW
             \/ HandleCapEndReady \/ HandleNickInUse \/ HandleWelcome \/ HandlePing
             \/ Goroutines \/ RegTimerExpires \/ RegTimeout \/ LinkLost
  <2>1. Sending({"CAP_REQ", "CAP_END", "NICK", "PONG"})
    <3>1. \E cmds \in SUBSET {"CAP_REQ", "CAP_END", "NICK", "PONG"} : Sending(cmds)
      BY <1>4, SendingFacts DEF Goroutines, Timers
    <3>2. QED
      BY <3>1 DEF Sending, LinesOf
  <2>2. P' = P /\ D' = D /\ PlainOnWire' = PlainOnWire
    BY <1>c, <1>d, <2>1
  <2>3. UNCHANGED <<saslState, saslTimer>> /\ UNCHANGED server
    BY <1>4 DEF HandleCapLS, HandleCapACK, HandleCapNAK, HandleCapAnswer, HandleCapDEL,
       HandleCapNEW, CapsOnly, HandleCapEndReady, HandleNickInUse, HandleWelcome, RegOnly,
       HandlePing, Goroutines, WaiterReady, WaiterTimeout, SendCapEnd, NegotiationEnds,
       RegTimerExpires, RegTimeout, LinkLost, sasl
  <2>4. QED
    BY <1>3, <2>2, <2>3
<1>5. CASE HandlePreEnd
  <2>1. UNCHANGED server /\ Sending({"AUTHENTICATE_PLAIN"})
    BY <1>5, SendingFacts DEF HandlePreEnd, SASLOnly
  <2>2. D' = D
    BY <1>d, <2>1
  <2>3. CASE UNCHANGED <<output, saslState, saslTimer>>
    <3>1. P' = P /\ PlainOnWire' = PlainOnWire
      BY <2>3 DEF output, PlainOnWire
    <3>2. QED
      BY <1>3, <2>1, <2>2, <2>3, <3>1
  <2>4. CASE /\ saslState = "Inactive" /\ saslState' = (IF up THEN "Requesting" ELSE "Failed")
             /\ Sends(Line("AUTHENTICATE_PLAIN"))
    <3>1. CASE ~up
      <4>1. UNCHANGED output
        BY <2>4, <3>1 DEF Sends
      <4>2. P' = P /\ PlainOnWire' = PlainOnWire
        BY <4>1 DEF output, PlainOnWire
      <4>3. QED
        BY <1>3, <2>1, <2>2, <2>4, <3>1, <4>2
    <3>2. CASE up
      <4>1. P' = P + 1
        BY <2>4, <3>2 DEF Sends, Line, Types, NetTypes, Commands
      <4>2. PlainOnWire' = PlainOnWire + 1
        <5>1. Line("AUTHENTICATE_PLAIN") \in LinesOf({"AUTHENTICATE_PLAIN"})
          BY DEF Line, LinesOf, Lines, Commands
        <5>2. PlainOnWire' = PlainOnWire + One(Line("AUTHENTICATE_PLAIN"), LinesOf({"AUTHENTICATE_PLAIN"}))
          BY <2>4, <3>2, <5>1, SendsFacts DEF PlainOnWire, LinesOf, Types
        <5>3. QED
          BY <5>1, <5>2 DEF One
      <4>3. Asked' = Asked /\ srvAuth' = srvAuth
        BY <1>e, <2>1
      <4> HIDE DEF P, D
      <4>a. P = 0 /\ D = 0 /\ PlainOnWire = 0 /\ Asked = 0
        BY <1>a, <2>4
      <4>b. P' = 1 /\ D' = 0 /\ Asked' = 0
        BY <2>2, <4>a, <4>1, <4>3
      <4>c. PlainOnWire' = 1
        BY <4>a, <4>2
      <4>4. P' = 1 /\ D' = 0 /\ PlainOnWire' + Asked' <= P'
        BY <4>b, <4>c
      <4>5. saslState' = "Requesting"
        BY <2>4, <3>2
      <4>6. QED
        BY <1>b, <4>3, <4>4, <4>5
    <3>3. QED
      BY <3>1, <3>2
  <2>5. QED
    BY <1>5, <2>3, <2>4 DEF HandlePreEnd
<1>6. ASSUME NEW plus \in BOOLEAN, HandleAuthenticate(plus) PROVE Authentication'
  <2>1. UNCHANGED server /\ Sending({"AUTHENTICATE_data", "AUTHENTICATE_abort"})
    BY <1>6, SendingFacts DEF HandleAuthenticate, SASLOnly
  <2>2. P' = P /\ PlainOnWire' = PlainOnWire
    BY <1>c, <2>1
  <2>3. CASE UNCHANGED <<output, sasl>>
    <3>1. D' = D /\ UNCHANGED <<saslState, saslTimer>>
      BY <2>3 DEF output, sasl
    <3>2. QED
      BY <1>3, <2>1, <2>2, <3>1
  <2>4. CASE saslState = "Requesting" /\ saslState' \in {"Authenticating", "Failed"}
    <3>1. D' \in {D, D + 1}
      <4>1. "AUTHENTICATE_data" \in Commands
        BY DEF Commands
      <4>2. QED
        BY <2>1, <4>1, SendingSame
    <3>2. Asked' = Asked /\ srvAuth' = srvAuth
      BY <1>e, <2>1
    <3> HIDE DEF P, D
    <3>3. D' \in Nat /\ D' <= P' /\ P' = 1 /\ PlainOnWire' + Asked' <= P'
      BY <1>a, <2>2, <2>4, <3>1, <3>2
    <3>4. QED
      BY <1>b, <2>4, <3>2, <3>3
  <2>5. QED
    BY <1>6, <2>3, <2>4 DEF HandleAuthenticate
<1>7. CASE HandleSASLSuccess \/ HandleSASLFail \/ SASLTimerExpires \/ SASLTimeout
  <2>1. UNCHANGED server /\ Sending({})
    BY <1>7, SendingFacts DEF HandleSASLSuccess, HandleSASLFail, HandleOutcome, SASLOnly,
       SASLTimerExpires, SASLTimeout, Timers
  <2>2. P' = P /\ D' = D /\ PlainOnWire' = PlainOnWire
    BY <1>c, <1>d, <2>1
  <2>3. CASE UNCHANGED sasl
    BY <1>3, <2>1, <2>2, <2>3 DEF sasl
  <2>4. ASSUME NEW es, Concludes(Stopped(saslTimer), es) PROVE saslTimer' # "armed"
    BY <2>4 DEF Concludes, Stopped
  <2>5. CASE HandleSASLSuccess /\ ~UNCHANGED sasl
    <3>1. saslState' = "Success" /\ saslTimer' # "armed"
      BY <2>4, <2>5 DEF HandleSASLSuccess, HandleOutcome
    <3>2. srvAuth = "ok"
      BY <2>5, HandledAdds DEF Authentication
    <3>3. QED
      BY <1>3, <2>1, <2>2, <3>1, <3>2
  <2>6. CASE HandleSASLFail /\ ~UNCHANGED sasl
    <3>1. saslState' = "Failed"
      BY <2>6 DEF HandleSASLFail, HandleOutcome
    <3>2. QED
      BY <1>3, <2>1, <2>2, <3>1
  <2>7. CASE SASLTimerExpires
    BY <1>3, <2>1, <2>2, <2>7 DEF SASLTimerExpires
  <2>8. CASE SASLTimeout
    BY <1>3, <2>1, <2>2, <2>8 DEF SASLTimeout
  <2>9. QED
    BY <1>7, <2>3, <2>5, <2>6, <2>7, <2>8
<1>8. QED
  BY <1>1, <1>2, <1>4, <1>5, <1>6, <1>7 DEF Next, Handle, Timers, Goroutines

EndsOnWire == Count(wire, LinesOf({"CAP_END"}))

LEMMA HeardEnd ==
  ASSUME Types
  PROVE  /\ EndsOnWire \in Nat /\ sent["CAP_END"] \in Nat
         /\ Heard("CAP_END") <=> sent["CAP_END"] > EndsOnWire
<1>1. wire \in Seq(Lines) /\ sent["CAP_END"] \in Nat
  BY DEF Types, NetTypes, Commands
<1>2. \A i \in DOMAIN wire : wire[i] \in Lines
  BY <1>1, LenProperties
<1>3. {i \in DOMAIN wire : wire[i].cmd = "CAP_END"} = Places(wire, LinesOf({"CAP_END"}))
  BY <1>2 DEF Places, LinesOf
<1>4. QED
  BY <1>1, <1>3, PlacesFinite DEF Heard, EndsOnWire, Count

\* A CAP END that was heard stays heard, and hearing one makes it so.
LEMMA HeardStays ==
  ASSUME Types, Next, ~HandleConnected, EndsOnWire <= sent["CAP_END"]
  PROVE  /\ EndsOnWire' <= sent'["CAP_END"]
         /\ Heard("CAP_END") => Heard("CAP_END")'
         /\ HearCapEnd => Heard("CAP_END")'
<1>1. Types'
  BY NextTypes
<1>2. /\ EndsOnWire \in Nat /\ sent["CAP_END"] \in Nat
      /\ Heard("CAP_END") <=> sent["CAP_END"] > EndsOnWire
  BY HeardEnd
<1>3. /\ EndsOnWire' \in Nat /\ sent'["CAP_END"] \in Nat
      /\ Heard("CAP_END")' <=> sent'["CAP_END"] > EndsOnWire'
  <2>1. wire' \in Seq(Lines) /\ sent'["CAP_END"] \in Nat
    BY <1>1 DEF Types, NetTypes, Commands
  <2>2. \A i \in DOMAIN wire' : wire'[i] \in Lines
    BY <2>1, LenProperties
  <2>3. {i \in DOMAIN wire' : wire'[i].cmd = "CAP_END"} = Places(wire', LinesOf({"CAP_END"}))
    BY <2>2 DEF Places, LinesOf
  <2>4. QED
    BY <2>1, <2>3, PlacesFinite DEF Heard, EndsOnWire, Count
<1>4. CASE Server \/ JudgeAuth \/ ChangeCaps
  <2>1. sent' = sent
    BY <1>4 DEF Server, HearCapLS, SendCapLS, HearCapReq, HearCapEnd, HearAuthenticate,
       HearAuthData, HearAuthAbort, HearNick, HearUser, AskPong, HearPong, Welcome,
       JudgeAuth, ChangeCaps, ServerOnly
  <2>2. ASSUME NEW cmd, Hears(cmd)
        PROVE  EndsOnWire' = EndsOnWire - (IF cmd = "CAP_END" THEN 1 ELSE 0)
    BY <2>2, HearsCount DEF EndsOnWire, Commands
  <2>3. UNCHANGED wire \/ \E cmd \in Commands : Hears(cmd)
    BY <1>4 DEF Server, HearCapLS, SendCapLS, HearCapReq, HearCapEnd, HearAuthenticate,
       HearAuthData, HearAuthAbort, HearNick, HearUser, AskPong, HearPong, Welcome,
       JudgeAuth, ChangeCaps, Commands
  <2>4. EndsOnWire' <= EndsOnWire
    <3>1. CASE UNCHANGED wire
      BY <3>1, <1>2 DEF EndsOnWire
    <3>2. ASSUME NEW cmd, Hears(cmd) PROVE EndsOnWire' <= EndsOnWire
      BY <3>2, <2>2, <1>2
    <3>3. QED
      BY <2>3, <3>1, <3>2
  <2>5. HearCapEnd => EndsOnWire' = EndsOnWire - 1
    BY <2>2 DEF HearCapEnd
  <2>6. EndsOnWire' <= sent'["CAP_END"]
    BY <1>2, <1>3, <2>1, <2>4
  <2>7. sent["CAP_END"] > EndsOnWire => sent'["CAP_END"] > EndsOnWire'
    BY <1>2, <1>3, <2>1, <2>4
  <2>8. HearCapEnd => sent'["CAP_END"] > EndsOnWire'
    BY <1>2, <1>3, <2>1, <2>5
  <2>9. QED
    BY <1>2, <1>3, <2>6, <2>7, <2>8
<1>5. CASE HandleOthers \/ Timers \/ Goroutines \/ LinkLost
  <2>1. \E cmds : Sending(cmds)
    BY <1>5, SendingFacts DEF HandleOthers, Goroutines
  <2>2. sent'["CAP_END"] - EndsOnWire' = sent["CAP_END"] - EndsOnWire
    BY <2>1, SendingSame DEF EndsOnWire, Commands
  <2>3. ~HearCapEnd
    <3>1. ASSUME HearCapEnd PROVE FALSE
      <4>1. sent' = sent /\ EndsOnWire' = EndsOnWire - 1
        BY <3>1, HearsCount DEF HearCapEnd, ServerOnly, EndsOnWire, Commands
      <4>2. QED
        BY <4>1, <2>2, <1>2, <1>3
    <3>2. QED
      BY <3>1
  <2>4. QED
    BY <1>2, <1>3, <2>2, <2>3
<1>6. QED
  BY <1>4, <1>5 DEF Next, Handle, HandleOthers, Timers, Goroutines

LEMMA SuspendedKept ==
  ASSUME Types, Untouched, Suspended, Next
  PROVE  Suspended'
<1> DEFINE First == wire # <<>> /\ Head(wire).cmd = "CAP_LS" /\ ~srvNick
<1>1. CASE HandleConnected
  <2>1. ~srvNick /\ ~srvReg /\ UNCHANGED <<srvNick, srvReg>>
    BY <1>1, NextConnected DEF Untouched, HandleConnected, server
  <2>2. /\ sent'["CAP_END"] = Count(wire', LinesOf({"CAP_END"})) /\ sent'["CAP_END"] = 0
        /\ wire' = <<>> => ~up'
        /\ wire' # <<>> => Head(wire').cmd = "CAP_LS"
    BY <1>1, ConnectedFacts DEF Commands
  <2>3. Count(wire', LinesOf({"CAP_END"})) <= sent'["CAP_END"]
    BY <2>2
  <2>4. QED
    BY <2>1, <2>2, <2>3 DEF Suspended, WelcomeAfterEnd
<1>2. CASE ~HandleConnected
  <2>1. /\ EndsOnWire' <= sent'["CAP_END"]
        /\ Heard("CAP_END") => Heard("CAP_END")'
        /\ HearCapEnd => Heard("CAP_END")'
    BY <1>2, HeardStays DEF Suspended, EndsOnWire
  <2>2. ~up => ~up'
    BY <1>2 DEF Next, Handle, HandleCapLS, HandleCapACK, HandleCapNAK,
     HandleCapAnswer, HandleCapDEL, HandleCapNEW, CapsOnly, HandleCapEndReady, HandlePreEnd,
     HandleAuthenticate, HandleSASLSuccess, HandleSASLFail, HandleOutcome, SASLOnly,
     HandleNickInUse, HandleWelcome, RegOnly, HandlePing, WaiterReady, WaiterTimeout, SendCapEnd,
     NegotiationEnds, SASLTimerExpires, SASLTimeout, RegTimerExpires, RegTimeout, Server,
     HearCapLS, SendCapLS, HearCapReq, HearCapEnd, HearAuthenticate, HearAuthData,
     HearAuthAbort, HearNick, HearUser, AskPong, HearPong, Welcome, JudgeAuth, ChangeCaps,
     LinkLost, net, ServerOnly
  <2>3. QueueHas("connected") => ~up'
    BY <1>2, OnlyConnected DEF LinkLost
  <2>4. srvNeg => srvNeg' \/ HearCapEnd
    BY <1>2 DEF Next, Handle, HandleCapLS, HandleCapACK, HandleCapNAK,
     HandleCapAnswer, HandleCapDEL, HandleCapNEW, CapsOnly, HandleCapEndReady, HandlePreEnd,
     HandleAuthenticate, HandleSASLSuccess, HandleSASLFail, HandleOutcome, SASLOnly,
     HandleNickInUse, HandleWelcome, RegOnly, HandlePing, WaiterReady, WaiterTimeout, SendCapEnd,
     NegotiationEnds, SASLTimerExpires, SASLTimeout, RegTimerExpires, RegTimeout, Server,
     HearCapLS, SendCapLS, HearCapReq, HearAuthenticate, HearAuthData,
     HearAuthAbort, HearNick, HearUser, AskPong, HearPong, Welcome, JudgeAuth, ChangeCaps,
     LinkLost, server
  <2>5. First => First' \/ srvNeg'
    <3>1. CASE Server \/ JudgeAuth \/ ChangeCaps
      <4>1. CASE HearCapLS
        BY <4>1 DEF HearCapLS
      <4>2. CASE ~HearCapLS
        <5>1. First => UNCHANGED <<wire, srvNick>>
          BY <3>1, <4>2 DEF Server, Hears, SendCapLS, HearCapReq, HearCapEnd, HearAuthenticate,
             HearAuthData, HearAuthAbort, HearNick, HearUser, AskPong, HearPong, Welcome,
             JudgeAuth, ChangeCaps
        <5>2. QED
          BY <5>1
      <4>3. QED
        BY <4>1, <4>2
    <3>2. CASE HandleOthers \/ Timers \/ Goroutines \/ LinkLost
      <4>1. \E cmds : Sending(cmds)
        BY <3>2, SendingFacts DEF HandleOthers, Goroutines
      <4>2. wire # <<>> => wire' # <<>> /\ Head(wire') = Head(wire)
        BY <4>1, SendingFirst
      <4>3. UNCHANGED srvNick
        BY <3>2 DEF HandleOthers, HandleCapLS, HandleCapACK, HandleCapNAK,
         HandleCapAnswer, HandleCapDEL, HandleCapNEW, CapsOnly, HandleCapEndReady, HandlePreEnd,
         HandleAuthenticate, HandleSASLSuccess, HandleSASLFail, HandleOutcome, SASLOnly,
         HandleNickInUse, HandleWelcome, RegOnly, HandlePing, WaiterReady, WaiterTimeout,
         SendCapEnd, NegotiationEnds, SASLTimerExpires, SASLTimeout, RegTimerExpires, RegTimeout,
         Timers, Goroutines, LinkLost, server
      <4>4. QED
        BY <4>2, <4>3
    <3>3. QED
      BY <1>2, <3>1, <3>2 DEF Next, Handle, HandleOthers, Timers, Goroutines
  <2>6. srvReg' => srvReg \/ Welcome
    BY <1>2 DEF Next, Handle, HandleCapLS, HandleCapACK, HandleCapNAK,
     HandleCapAnswer, HandleCapDEL, HandleCapNEW, CapsOnly, HandleCapEndReady, HandlePreEnd,
     HandleAuthenticate, HandleSASLSuccess, HandleSASLFail, HandleOutcome, SASLOnly,
     HandleNickInUse, HandleWelcome, RegOnly, HandlePing, WaiterReady, WaiterTimeout, SendCapEnd,
     NegotiationEnds, SASLTimerExpires, SASLTimeout, RegTimerExpires, RegTimeout, Server,
     HearCapLS, SendCapLS, HearCapReq, HearCapEnd, HearAuthenticate, HearAuthData,
     HearAuthAbort, HearNick, HearUser, AskPong, HearPong, JudgeAuth, ChangeCaps,
     LinkLost, server
  <2>7. Welcome => Heard("CAP_END")
    BY DEF Welcome, Suspended, Untouched
  <2>8. WelcomeAfterEnd'
    BY <2>1, <2>6, <2>7 DEF WelcomeAfterEnd, Suspended
  <2>9. ~up' \/ First' \/ srvNeg' \/ Heard("CAP_END")'
    BY <2>1, <2>2, <2>3, <2>4, <2>5 DEF Suspended
  <2>10. QED
    BY <2>1, <2>8, <2>9 DEF Suspended, EndsOnWire
<1>3. QED
  BY <1>1, <1>2
-----------------------------------------------------------------------------
LEMMA InitCore == Init => Core
<1> SUFFICES ASSUME Init PROVE Core
  OBVIOUS
<1>1. Types
  BY InitTypes
<1>2. /\ wire = <<>> /\ sent = [c \in Commands |-> 0]
      /\ ToSet(queue) = {Ev("connected")} /\ Ev("connected").type = "connected"
  BY EmittedEvents, EventTypeOf DEF Init, EventTypes
<1>3. QueueHas("connected") /\ ~QueueHas("sasl_success") /\ ~QueueHas("registered")
  BY <1>2 DEF QueueHas
<1>4. Untouched
  BY DEF Init, Untouched
<1>5. Count(wire, LinesOf({"AUTHENTICATE_PLAIN"})) = 0 /\ Count(wire, LinesOf({"CAP_END"})) = 0
  BY <1>2, CountEmpty
<1>6. Authentication
  BY <1>2, <1>3, <1>5 DEF Init, Authentication, CredentialsOnce, Commands
<1>7. Registration /\ Suspended
  BY <1>2, <1>3, <1>5 DEF Init, Registration, Suspended, WelcomeAfterEnd, Commands
<1>8. QED
  BY <1>1, <1>4, <1>6, <1>7 DEF Core

LEMMA NextCore == Core /\ [Next]_vars => Core'
<1> SUFFICES ASSUME Core, [Next]_vars PROVE Core'
  OBVIOUS
<1>1. Types'
  BY NextTypes DEF Core
<1>2. CASE Next
  BY <1>1, <1>2, UntouchedKept, AuthenticationKept, RegistrationKept, SuspendedKept DEF Core
<1>3. CASE UNCHANGED vars
  <2>1. UNCHANGED <<up, queue, wire, sent, saslState, saslTimer, regState, regTimer, srvAuth,
                    srvReg, srvNick, srvUser, srvNeg, srvAcked, lsLeft, waiters, enders, acked,
                    pending>>
    BY <1>3 DEF vars, net, output, caps, sasl, reg, server
  <2>2. Untouched' /\ Registration'
    BY <2>1 DEF Core, Untouched, Registration, QueueHas
  <2>3. Authentication'
    BY <2>1 DEF Core, Authentication, QueueHas, CredentialsOnce
  <2>4. Suspended'
    BY <2>1 DEF Core, Suspended, QueueHas, WelcomeAfterEnd, Heard
  <2>5. QED
    BY <1>1, <2>2, <2>3, <2>4 DEF Core
<1>4. QED
  BY <1>2, <1>3

LEMMA SafetyCore == Safety => []Core
  BY InitCore, NextCore, PTL DEF Safety

(***************************************************************************)
(* Every state has its type, and only capabilities that the client knows   *)
(* are available, pending or active, whatever the server lists, adds and   *)
(* takes back (Request, HandleCapAnswer, HandleCapDEL).                    *)
(***************************************************************************)
THEOREM SafetyTypeOK == Safety => []TypeOK
<1>1. ASSUME Core PROVE TypeOK
  <2>1. /\ \A i \in DOMAIN wire : wire[i] \in Lines
        /\ \A i \in DOMAIN queue : queue[i] \in Event
    BY <1>1, LenProperties DEF Core, Types, NetTypes
  <2>2. QED
    BY <1>1, <2>1 DEF Core, Types, NetTypes, CapsTypes, HandlerTypes, ServerTypes, Lines, Event,
       TypeOK
<1>2. QED
  BY <1>1, SafetyCore, PTL

(***************************************************************************)
(* However the events and the timeouts fall, one AUTHENTICATE PLAIN is     *)
(* sent at most, and the credentials at most once after it                 *)
(* (StartAuthentication, HandleAuthenticate).                              *)
(***************************************************************************)
THEOREM SafetyCredentialsOnce == Safety => []CredentialsOnce
  BY SafetyCore, PTL DEF Core, Authentication

(***************************************************************************)
(* The server completes no registration before it has heard CAP END: the   *)
(* order in which factory.go subscribes the handlers puts CAP LS first     *)
(* (HandleConnected), even if the connection breaks between two lines.     *)
(***************************************************************************)
THEOREM SafetyWelcomeAfterEnd == Safety => []WelcomeAfterEnd
  BY SafetyCore, PTL DEF Core, Suspended

(***************************************************************************)
(* The client takes itself for authenticated or registered only if the     *)
(* server does, with any number of late failures and refused nicks         *)
(* (HandleSASLSuccess, HandleWelcome).                                     *)
(***************************************************************************)
THEOREM SafetyBelievesServer == Safety => []BelievesServer
  BY SafetyCore, PTL DEF Core, Authentication, Registration, BelievesServer

(***************************************************************************)
(* A registration or an authentication that succeeded stays so: their      *)
(* handlers stop the timer, and no other handler goes back on a success.   *)
(* Only a callback that had started before may still do that.              *)
(***************************************************************************)
THEOREM SafetySuccessStands == Safety => SuccessStands
<1> DEFINE RegStands == regState = "Complete" /\ regTimer # "fired" =>
                          regState' = "Complete" /\ regTimer' # "fired"
           SASLStands == saslState = "Success" /\ saslTimer # "fired" =>
                           saslState' = "Success" /\ saslTimer' # "fired"
<1>1. ASSUME Core, Next PROVE RegStands
  <2>1. CASE UNCHANGED reg
    BY <2>1 DEF reg
  <2>2. CASE HandleConnected
    BY <1>1, <2>2, NextConnected DEF Core, Untouched
  <2>3. CASE HandleNickInUse \/ HandleWelcome
    BY <2>3 DEF HandleNickInUse, HandleWelcome, RegActive, reg
  <2>4. CASE RegTimerExpires \/ RegTimeout
    BY <1>1, <2>4 DEF RegTimerExpires, RegTimeout, Core, Registration
  <2>5. QED
    BY <1>1, <2>1, <2>2, <2>3, <2>4
    DEF Next, Handle, HandleCapLS, HandleCapACK, HandleCapNAK, HandleCapAnswer, HandleCapDEL,
     HandleCapNEW, CapsOnly, HandleCapEndReady, HandlePreEnd, HandleAuthenticate,
     HandleSASLSuccess, HandleSASLFail, HandleOutcome, SASLOnly, HandlePing, WaiterReady,
     WaiterTimeout, SendCapEnd, NegotiationEnds, SASLTimerExpires, SASLTimeout, Server,
     HearCapLS, SendCapLS, HearCapReq, HearCapEnd, HearAuthenticate, HearAuthData,
     HearAuthAbort, HearNick, HearUser, AskPong, HearPong, Welcome, JudgeAuth, ChangeCaps,
     LinkLost, ServerOnly
<1>2. ASSUME Core, Next PROVE SASLStands
  <2>1. CASE UNCHANGED sasl
    BY <2>1 DEF sasl
  <2>2. CASE HandlePreEnd
    BY <2>2 DEF HandlePreEnd
  <2>3. ASSUME NEW plus \in BOOLEAN, HandleAuthenticate(plus) PROVE SASLStands
    BY <2>3 DEF HandleAuthenticate, sasl
  <2>4. CASE HandleSASLSuccess \/ HandleSASLFail
    BY <2>4 DEF HandleSASLSuccess, HandleSASLFail, HandleOutcome, SASLActive, sasl
  <2>5. CASE SASLTimerExpires \/ SASLTimeout
    BY <1>2, <2>5 DEF SASLTimerExpires, SASLTimeout, Core, Authentication
  <2>6. QED
    BY <1>2, <2>1, <2>2, <2>3, <2>4, <2>5
    DEF Next, Handle, HandleConnected, HandleCapLS, HandleCapACK, HandleCapNAK, HandleCapAnswer,
     HandleCapDEL, HandleCapNEW, CapsOnly, HandleCapEndReady, HandleNickInUse, HandleWelcome,
     RegOnly, HandlePing, WaiterReady, WaiterTimeout, SendCapEnd, NegotiationEnds,
     RegTimerExpires, RegTimeout, Server, HearCapLS, SendCapLS, HearCapReq, HearCapEnd,
     HearAuthenticate, HearAuthData, HearAuthAbort, HearNick, HearUser, AskPong, HearPong,
     Welcome, JudgeAuth, ChangeCaps, LinkLost, ServerOnly
<1>3. ASSUME Core, [Next]_vars PROVE [RegStands /\ SASLStands]_vars
  BY <1>1, <1>2, <1>3
<1>4. QED
  BY <1>3, SafetyCore, PTL DEF Safety, SuccessStands
-----------------------------------------------------------------------------
(* One answer: what the steps of the negotiation do to its counts.         *)

LEMMA OneEvent ==
  ASSUME NEW e \in Event, NEW types
  PROVE  One(e, EventsOf(types)) = IF e.type \in types THEN 1 ELSE 0
  BY DEF One, EventsOf

LEMMA TwoEvents ==
  ASSUME NEW e \in Event, NEW f \in Event, NEW types
  PROVE  Count(<<e, f>>, EventsOf(types))
           = (IF e.type \in types THEN 1 ELSE 0) + (IF f.type \in types THEN 1 ELSE 0)
<1> DEFINE kind == EventsOf(types)
<1>1. Count(<<e, f>>, kind) = One(e, kind) + One(f, kind)
  <2> DEFINE first == <<e>>
  <2>1. first \in Seq(Event) /\ <<e, f>> = Append(first, f)
    OBVIOUS
  <2> HIDE DEF kind
  <2>2. Count(first, kind) = One(e, kind)
    BY CountOne
  <2> HIDE DEF first
  <2>3. Count(Append(first, f), kind) = Count(first, kind) + One(f, kind)
    BY <2>1, CountAppend
  <2>4. QED
    BY <2>1, <2>2, <2>3
<1>2. QED
  BY <1>1, OneEvent

\* What the emitted events count for.
LEMMA EmittedCounts ==
  /\ \A K : Count(<<>>, K) = 0
  /\ \A t \in {"sasl_fail", "registered", "sasl_plus", "sasl_challenge", "nick_in_use", "ping"} :
       Count(<<Ev(t)>>, AskingEvents) = 0 /\ Count(<<Ev(t)>>, SignalEvents) = 0
  /\ Count(<<Ev("cap_end_ready")>>, AskingEvents) = 0
  /\ Count(<<Ev("cap_end_ready")>>, SignalEvents) = 1
  /\ \A t \in {"sasl_fail", "sasl_success"} :
       /\ Count(<<Ev(t), Ev("cap_end_ready")>>, AskingEvents) = 0
       /\ Count(<<Ev(t), Ev("cap_end_ready")>>, SignalEvents) = 1
  /\ Count(<<Ev("sasl_success"), Ev("sasl_success")>>, AskingEvents) = 0
  /\ Count(<<Ev("sasl_success"), Ev("sasl_success")>>, SignalEvents) = 0
  /\ \A c \in SUBSET RequestedCaps :
       /\ Count(<<CapEv("cap_pre_end", c)>>, AskingEvents) = 0
       /\ Count(<<CapEv("cap_pre_end", c)>>, SignalEvents) = 1
       /\ \A t \in {"cap_ls", "cap_ack", "cap_nak"} :
            /\ Count(<<CapEv(t, c)>>, AskingEvents) = 1
            /\ Count(<<CapEv(t, c)>>, SignalEvents) = 0
<1>1. ASSUME NEW t \in EventTypes, NEW c \in SUBSET RequestedCaps, NEW types
      PROVE  Count(<<CapEv(t, c)>>, EventsOf(types)) = IF t \in types THEN 1 ELSE 0
  <2> DEFINE e == CapEv(t, c)
  <2>1. e \in Event /\ e.type = t
    BY EventFacts, EventTypeOf
  <2> HIDE DEF e
  <2>2. Count(<<e>>, EventsOf(types)) = One(e, EventsOf(types))
    BY <2>1, CountOne
  <2>3. QED
    BY <2>1, <2>2, OneEvent DEF e
<1>2. ASSUME NEW t \in EventTypes, NEW types
      PROVE  Count(<<Ev(t)>>, EventsOf(types)) = IF t \in types THEN 1 ELSE 0
  <2> DEFINE e == Ev(t)
  <2>1. e \in Event /\ e.type = t
    BY EventFacts, EventTypeOf
  <2> HIDE DEF e
  <2>2. Count(<<e>>, EventsOf(types)) = One(e, EventsOf(types))
    BY <2>1, CountOne
  <2>3. QED
    BY <2>1, <2>2, OneEvent DEF e
<1>3. ASSUME NEW t \in EventTypes, NEW u \in EventTypes, NEW types
      PROVE  Count(<<Ev(t), Ev(u)>>, EventsOf(types))
               = (IF t \in types THEN 1 ELSE 0) + (IF u \in types THEN 1 ELSE 0)
  <2>1. Ev(t) \in Event /\ Ev(t).type = t /\ Ev(u) \in Event /\ Ev(u).type = u
    BY EventFacts, EventTypeOf
  <2>2. QED
    BY <2>1, TwoEvents
<1>4. ASSUME NEW t \in {"sasl_fail", "sasl_success"}
      PROVE  /\ Count(<<Ev(t), Ev("cap_end_ready")>>, AskingEvents) = 0
             /\ Count(<<Ev(t), Ev("cap_end_ready")>>, SignalEvents) = 1
  <2>1. ASSUME NEW types
        PROVE  Count(<<Ev(t), Ev("cap_end_ready")>>, EventsOf(types))
                 = (IF t \in types THEN 1 ELSE 0) + (IF "cap_end_ready" \in types THEN 1 ELSE 0)
    <3>1. t \in EventTypes /\ "cap_end_ready" \in EventTypes
      BY DEF EventTypes
    <3>2. QED
      BY <1>3, <3>1
  <2>2. QED
    BY <2>1 DEF AskingEvents, SignalEvents
<1>5. /\ Count(<<Ev("sasl_success"), Ev("sasl_success")>>, AskingEvents) = 0
      /\ Count(<<Ev("sasl_success"), Ev("sasl_success")>>, SignalEvents) = 0
  <2>1. ASSUME NEW types
        PROVE  Count(<<Ev("sasl_success"), Ev("sasl_success")>>, EventsOf(types))
                 = (IF "sasl_success" \in types THEN 1 ELSE 0)
                     + (IF "sasl_success" \in types THEN 1 ELSE 0)
    BY <1>3 DEF EventTypes
  <2>2. QED
    BY <2>1 DEF AskingEvents, SignalEvents
<1>6. /\ \A t \in {"sasl_fail", "registered", "sasl_plus", "sasl_challenge", "nick_in_use", "ping"} :
           Count(<<Ev(t)>>, AskingEvents) = 0 /\ Count(<<Ev(t)>>, SignalEvents) = 0
      /\ Count(<<Ev("cap_end_ready")>>, AskingEvents) = 0
      /\ Count(<<Ev("cap_end_ready")>>, SignalEvents) = 1
  BY <1>2 DEF AskingEvents, SignalEvents, EventTypes
<1>7. ASSUME NEW c \in SUBSET RequestedCaps
      PROVE  /\ Count(<<CapEv("cap_pre_end", c)>>, AskingEvents) = 0
             /\ Count(<<CapEv("cap_pre_end", c)>>, SignalEvents) = 1
             /\ \A t \in {"cap_ls", "cap_ack", "cap_nak"} :
                  /\ Count(<<CapEv(t, c)>>, AskingEvents) = 1
                  /\ Count(<<CapEv(t, c)>>, SignalEvents) = 0
  BY <1>1 DEF AskingEvents, SignalEvents, EventTypes
<1>8. QED
  BY <1>4, <1>5, <1>6, <1>7, CountEmpty

LEMMA NatCounts ==
  ASSUME Types
  PROVE  /\ AskedEvents \in Nat /\ AskedLines \in Nat /\ Signalled \in Nat
         /\ Active \in Nat /\ Len(lsLeft) \in Nat
         /\ waiters \in Nat /\ sent["CAP_END"] \in Nat /\ readyCh \in Nat
         /\ Asking \in Nat /\ Ending \in Nat /\ Signals \in Nat
<1>1. /\ AskedEvents \in Nat /\ AskedLines \in Nat /\ Signalled \in Nat
  BY PlacesFinite DEF Types, NetTypes, AskedEvents, AskedLines, Signalled
<1>2. Len(lsLeft) \in Nat /\ waiters \in Nat /\ sent["CAP_END"] \in Nat /\ readyCh \in Nat
  BY LenProperties DEF Types, NetTypes, CapsTypes, ServerTypes, Commands
<1>3. Active \in Nat
  BY DEF Active
<1>4. QED
  BY <1>1, <1>2, <1>3 DEF Asking, Ending, Signals

LEMMA NatCountsNext ==
  ASSUME Types'
  PROVE  /\ AskedEvents' \in Nat /\ AskedLines' \in Nat /\ Signalled' \in Nat
         /\ Active' \in Nat /\ Len(lsLeft') \in Nat
         /\ waiters' \in Nat /\ sent'["CAP_END"] \in Nat /\ readyCh' \in Nat
         /\ Asking' \in Nat /\ Ending' \in Nat /\ Signals' \in Nat
<1>1. /\ AskedEvents' \in Nat /\ AskedLines' \in Nat /\ Signalled' \in Nat
  BY PlacesFinite DEF Types, NetTypes, AskedEvents, AskedLines, Signalled
<1>2. Len(lsLeft') \in Nat /\ waiters' \in Nat /\ sent'["CAP_END"] \in Nat /\ readyCh' \in Nat
  BY LenProperties DEF Types, NetTypes, CapsTypes, ServerTypes, Commands
<1>3. Active' = 0 \/ Active' = 1
  BY DEF Active
<1>4. Asking' \in Nat
  BY <1>1, <1>2 DEF Asking
<1>5. Ending' \in Nat
  BY <1>2 DEF Ending
<1>6. Signals' \in Nat
  <2>1. Signals' = Signalled' + Active' + readyCh'
    BY DEF Signals
  <2>2. Signalled' + Active' \in Nat
    BY <1>1, <1>3
  <2>3. QED
    BY <1>2, <2>1, <2>2
<1>7. Active' \in Nat
  BY <1>3
<1>8. QED
  BY <1>1, <1>2, <1>4, <1>5, <1>6, <1>7

\* A handler takes an event of this type and emits es.
LEMMA HandledCounts ==
  ASSUME Types, NEW type, On(type), NEW es \in Seq(Event), Emits(es)
  PROVE  /\ AskedEvents' = AskedEvents
              - (IF type \in {"connected", "cap_ls", "cap_ack", "cap_nak"} THEN 1 ELSE 0)
              + Count(es, AskingEvents)
         /\ Signalled' = Signalled
              - (IF type \in {"cap_pre_end", "cap_end_ready"} THEN 1 ELSE 0)
              + Count(es, SignalEvents)
<1>1. queue # <<>> /\ Head(queue).type = type /\ Head(queue) \in Event
  BY HandledFacts DEF Types
<1>2. /\ One(Head(queue), AskingEvents)
           = IF type \in {"connected", "cap_ls", "cap_ack", "cap_nak"} THEN 1 ELSE 0
      /\ One(Head(queue), SignalEvents)
           = IF type \in {"cap_pre_end", "cap_end_ready"} THEN 1 ELSE 0
  BY <1>1, OneEvent DEF AskingEvents, SignalEvents
<1>3. \A K : Count(queue', K) = Count(queue, K) - One(Head(queue), K) + Count(es, K)
  BY <1>1, EmitsFacts DEF Types
<1>4. QED
  BY <1>2, <1>3 DEF AskedEvents, Signalled

LEMMA OutsideCounts ==
  ASSUME Types, NEW es \in Seq(Event), EmitsFromOutside(es)
  PROVE  /\ AskedEvents' = AskedEvents + Count(es, AskingEvents)
         /\ Signalled' = Signalled + Count(es, SignalEvents)
  BY OutsideFacts DEF Types, AskedEvents, Signalled

\* The failure that a late callback adds counts for nothing.
LEMMA ConcludesCounts ==
  ASSUME Types, queue # <<>>, NEW timer, NEW es \in Seq(Event), Concludes(timer, es)
  PROVE  \E fs \in Seq(Event) : /\ Emits(fs)
                                /\ Count(fs, AskingEvents) = Count(es, AskingEvents)
                                /\ Count(fs, SignalEvents) = Count(es, SignalEvents)
<1>1. CASE Emits(es)
  BY <1>1
<1>2. CASE Emits(<<Ev("sasl_fail")>> \o es)
  <2> DEFINE first == <<Ev("sasl_fail")>>
  <2>1. /\ first \in Seq(Event) /\ Count(first, AskingEvents) = 0 /\ Count(first, SignalEvents) = 0
    BY EmittedEvents, EmittedCounts DEF EventTypes
  <2> HIDE DEF first
  <2>2. /\ first \o es \in Seq(Event)
        /\ Count(first \o es, AskingEvents) = Count(first, AskingEvents) + Count(es, AskingEvents)
        /\ Count(first \o es, SignalEvents) = Count(first, SignalEvents) + Count(es, SignalEvents)
    BY <2>1, CountConcat, ConcatProperties
  <2>3. Count(es, AskingEvents) \in Nat /\ Count(es, SignalEvents) \in Nat
    BY PlacesFinite
  <2> DEFINE all == first \o es
  <2>4. Emits(all)
    BY <1>2 DEF first
  <2>5. /\ all \in Seq(Event) /\ Count(all, AskingEvents) = Count(es, AskingEvents)
        /\ Count(all, SignalEvents) = Count(es, SignalEvents)
    BY <2>1, <2>2, <2>3
  <2> HIDE DEF all
  <2>6. QED
    BY <2>4, <2>5
<1>3. QED
  BY <1>1, <1>2 DEF Concludes

\* A line that asks nothing of the server.
LEMMA SendingUnasked ==
  ASSUME Types, NEW cmds, Sending(cmds), "CAP_LS" \notin cmds, "CAP_REQ" \notin cmds
  PROVE  AskedLines' = AskedLines
<1>1. CASE UNCHANGED <<wire, sent>>
  BY <1>1 DEF AskedLines
<1>2. ASSUME NEW l \in LinesOf(cmds), Sends(l) PROVE AskedLines' = AskedLines
  <2>1. l \in Lines /\ One(l, AskingLines) = 0
    BY DEF LinesOf, One, AskingLines
  <2>2. AskedLines \in Nat
    BY NatCounts
  <2>3. QED
    BY <1>2, <2>1, <2>2, SendsFacts DEF Types, AskedLines
<1>3. QED
  BY <1>1, <1>2 DEF Sending

\* A waiting goroutine may lose its signal: not signalled by the code.
Excused == ~up \/ saslLate \/ sent["AUTHENTICATE_abort"] > 0

\* No step asks more than it answers, and none loses a signal that is waited for.
Moved == /\ Asking' <= Asking
         /\ Asking' + Ending' <= Asking + Ending
         /\ Asking' + Signals' <= Asking + Signals
         /\ Signals' >= Signals \/ waiters' = 0 \/ ~SASLUsed \/ Excused'
         /\ waiters' <= waiters \/ Signals' > 0

LEMMA Balance ==
  ASSUME NEW a \in Nat, NEW b \in Nat, NEW a2 \in Nat, NEW b2 \in Nat, a2 <= a, b2 <= b
  PROVE  a2 + b2 <= a + b
  OBVIOUS

LEMMA NoMoreMoved ==
  ASSUME Types, Types', Asking' <= Asking, Ending' <= Ending, Signals' <= Signals,
         waiters' <= waiters,
         Signals' >= Signals \/ waiters' = 0 \/ ~SASLUsed \/ Excused'
  PROVE  Moved
<1>1. /\ Asking \in Nat /\ Ending \in Nat /\ Signals \in Nat
      /\ Asking' \in Nat /\ Ending' \in Nat /\ Signals' \in Nat
  BY NatCounts, NatCountsNext
<1>2. Asking' + Ending' <= Asking + Ending /\ Asking' + Signals' <= Asking + Signals
  BY <1>1, Balance
<1>3. QED
  BY <1>2 DEF Moved

LEMMA QuietMoved ==
  ASSUME Types, Types', UNCHANGED lsLeft, AskedEvents' = AskedEvents, AskedLines' = AskedLines,
         Ending' <= Ending, Signals' <= Signals, waiters' <= waiters,
         Signals' >= Signals \/ waiters' = 0 \/ ~SASLUsed \/ Excused'
  PROVE  Moved
<1>1. Asking' = Asking
  BY DEF Asking
<1>2. Asking \in Nat
  BY NatCounts
<1>3. QED
  BY <1>1, <1>2, NoMoreMoved

\* EventConnected becomes the question CAP LS, if that could be sent.
LEMMA ConnectedMoved ==
  ASSUME Types, Types', Untouched, OnePlace, HandleConnected
  PROVE  /\ Moved
         /\ Asking' > 0 => negotiating'
         /\ enders' = 0
<1>1. /\ queue # <<>> /\ Emits(<<>>) /\ AskedLines' <= 1
      /\ wire' = <<>> => AskedLines' = 0
      /\ wire' # <<>> => negotiating' /\ TRUE
      /\ sent'["CAP_END"] = 0 /\ On("connected")
  BY ConnectedFacts DEF Commands, AskedLines, HandleConnected
<1>2. QueueHas("connected")
  BY NextConnected DEF Next, Handle
<1>3. /\ queue = <<Ev("connected")>> /\ wire = <<>> /\ sent = [c \in Commands |-> 0]
      /\ lsLeft = <<>> /\ waiters = 0 /\ enders = 0 /\ saslState = "Inactive"
  BY <1>2 DEF Untouched
<1>4. UNCHANGED <<waiters, enders, readyCh, lsLeft, saslState>>
  BY DEF HandleConnected, sasl, server
<1>5. queue' = <<>>
  BY <1>1, <1>3 DEF Emits
<1>6. AskedEvents' = 0 /\ Signalled' = 0
  BY <1>5, CountEmpty DEF AskedEvents, Signalled
<1>7. AskedEvents = 1 /\ Signalled = 0
  <2>1. <<>> \in Seq(Event) /\ Count(<<>>, AskingEvents) = 0 /\ Count(<<>>, SignalEvents) = 0
    BY EmittedEvents, EmittedCounts
  <2>2. AskedEvents' = AskedEvents - 1 + 0 /\ Signalled' = Signalled - 0 + 0
    BY <1>1, <2>1, HandledCounts
  <2>3. QED
    BY <1>6, <2>2, NatCounts
<1>8. Len(lsLeft) = 0 /\ sent["CAP_END"] = 0 /\ Active = 0 /\ Active' = 0 /\ AskedLines = 0
  BY <1>3, <1>4, CountEmpty, EmptySeq DEF Active, SASLActive, Commands, AskedLines
<1>9. Asking = 1 /\ Ending = 0
  BY <1>3, <1>7, <1>8 DEF Asking, Ending
<1>10. Asking' = AskedLines' /\ AskedLines' \in Nat
  <2>1. AskedLines' \in Nat /\ Len(lsLeft') = 0
    BY <1>4, <1>8, NatCountsNext
  <2> DEFINE lines == AskedLines'
  <2>2. Asking' = 0 + lines + 0 /\ lines \in Nat
    BY <1>6, <2>1 DEF Asking
  <2> HIDE DEF lines
  <2>3. Asking' = lines
    BY <2>2
  <2>4. QED
    BY <2>1, <2>3 DEF lines
<1>11. Ending' = 0
  BY <1>1, <1>3, <1>4 DEF Ending
<1>12. Signals = readyCh /\ Signals' = readyCh
  <2>1. readyCh \in Nat
    BY NatCounts
  <2>2. QED
    BY <1>4, <1>6, <1>7, <1>8, <2>1 DEF Signals
<1>13. readyCh = 0
  BY <1>9, <1>12, NatCounts DEF OnePlace
<1>14. Moved
  <2>1. /\ Asking' \in Nat /\ Asking' <= 1 /\ Asking = 1 /\ Ending = 0 /\ Ending' = 0
        /\ Signals = 0 /\ Signals' = 0 /\ waiters' = 0
    BY <1>1, <1>3, <1>4, <1>9, <1>10, <1>11, <1>12, <1>13
  <2>2. QED
    BY <2>1, NoMoreMoved, <1>3, <1>4
<1>15. Asking' > 0 => negotiating'
  BY <1>1, <1>10
<1>16. QED
  BY <1>3, <1>4, <1>14, <1>15

\* The end of the negotiation is asked for when nothing else is.
LEMMA AnswerMoved ==
  ASSUME Types, Types', OnePlace, Open,
         NEW type \in {"cap_ls", "cap_ack", "cap_nak"}, On(type),
         NEW active \in SUBSET RequestedCaps,
         \/ EndNegotiation(active) /\ AskedLines' = AskedLines
         \/ KeepsOn /\ (AskedLines' = AskedLines \/ AskedLines' = AskedLines + 1),
         UNCHANGED <<lsLeft, readyCh, saslState>>, sent'["CAP_END"] = sent["CAP_END"]
  PROVE  /\ Moved /\ Ending = 0 /\ UNCHANGED <<negotiating, enders>>
         /\ EndNegotiation(active) \/ Ending' = 0
<1>1. queue # <<>>
  BY HandledFacts DEF Types
<1>2. /\ AskedEvents \in Nat /\ AskedLines \in Nat /\ Signalled \in Nat /\ Active \in Nat
      /\ Len(lsLeft) \in Nat /\ waiters \in Nat /\ sent["CAP_END"] \in Nat /\ readyCh \in Nat
  BY NatCounts
<1>3. /\ <<>> \in Seq(Event) /\ Count(<<>>, AskingEvents) = 0 /\ Count(<<>>, SignalEvents) = 0
      /\ <<CapEv("cap_pre_end", active)>> \in Seq(Event)
      /\ Count(<<CapEv("cap_pre_end", active)>>, AskingEvents) = 0
      /\ Count(<<CapEv("cap_pre_end", active)>>, SignalEvents) = 1
  BY EmittedEvents, EmittedCounts DEF EventTypes
<1>4. AskedEvents' \in Nat /\ AskedLines' \in Nat
  BY NatCountsNext
<1>5. AskedEvents > 0
  <2>1. \E es \in Seq(Event) : Emits(es) /\ Count(es, AskingEvents) = 0
    BY <1>3 DEF EndNegotiation, KeepsOn
  <2>2. AskedEvents' = AskedEvents - 1
    BY <1>2, <2>1, HandledCounts
  <2>3. QED
    BY <1>2, <1>4, <2>2
<1>6. Asking > 0 /\ Ending = 0 /\ Asking = 1 /\ Signals = 0 /\ waiters = 0
  <2>1. Asking \in Nat /\ Asking > 0 /\ Ending \in Nat /\ Signals \in Nat
    BY <1>2, <1>5, NatCounts DEF Asking
  <2>2. Asking = 1 /\ Ending = 0 /\ Signals = 0
    BY <2>1 DEF OnePlace
  <2>3. waiters = 0
    BY <1>2, <2>2 DEF Ending
  <2>4. QED
    BY <2>1, <2>2, <2>3
<1>7. enders = 0
  <2>1. sent["CAP_END"] = 0
    BY <1>2, <1>6 DEF Ending
  <2>2. QED
    BY <2>1 DEF Open, Types, CapsTypes
<1>8. Active' = Active
  BY DEF Active, SASLActive
<1>9. CASE EndNegotiation(active) /\ AskedLines' = AskedLines
  <2>1. /\ Emits(<<CapEv("cap_pre_end", active)>>) /\ waiters' = waiters + 1
        /\ UNCHANGED <<enders, negotiating>>
    BY <1>7, <1>9 DEF EndNegotiation
  <2>a. /\ AskedEvents' = AskedEvents - 1 + Count(<<CapEv("cap_pre_end", active)>>, AskingEvents)
        /\ Signalled' = Signalled - 0 + Count(<<CapEv("cap_pre_end", active)>>, SignalEvents)
    BY <1>3, <2>1, HandledCounts
  <2>2. AskedEvents' = AskedEvents - 1 /\ Signalled' = Signalled + 1
    BY <1>2, <1>3, <2>a
  <2>3. Asking' + 1 = Asking
    BY <1>2, <1>9, <2>2 DEF Asking
  <2>4. Ending' = Ending + 1
    BY <1>2, <2>1 DEF Ending
  <2>5. Signals' = Signals + 1
    <3>1. Signals' = Signalled' + Active' + readyCh'
      BY DEF Signals
    <3>2. Signals = Signalled + Active + readyCh
      BY DEF Signals
    <3>3. QED
      BY <1>2, <1>8, <2>2, <3>1, <3>2
  <2>6. Asking' = 0 /\ Asking' + Ending' = 1 /\ Asking' + Signals' = 1
    BY <1>6, <2>3, <2>4, <2>5, NatCountsNext
  <2>7. QED
    BY <1>6, <1>9, <2>1, <2>5, <2>6 DEF Moved
<1>10. CASE KeepsOn /\ (AskedLines' = AskedLines \/ AskedLines' = AskedLines + 1)
  <2>1. Emits(<<>>) /\ UNCHANGED <<waiters, enders, negotiating>>
    BY <1>10 DEF KeepsOn
  <2>a. /\ AskedEvents' = AskedEvents - 1 + Count(<<>>, AskingEvents)
        /\ Signalled' = Signalled - 0 + Count(<<>>, SignalEvents)
    BY <1>3, <2>1, HandledCounts
  <2>2. AskedEvents' = AskedEvents - 1 /\ Signalled' = Signalled
    BY <1>2, <1>3, <2>a
  <2> DEFINE lines == AskedLines'
  <2>b. lines \in Nat /\ lines <= AskedLines + 1
    BY <1>2, <1>4, <1>10
  <2>c. Asking' = AskedEvents - 1 + lines + Len(lsLeft)
    BY <2>2 DEF Asking
  <2> HIDE DEF lines
  <2>3. Asking' <= Asking /\ Asking' \in Nat
    BY <1>2, <1>5, <2>b, <2>c DEF Asking
  <2>4. Ending' = 0 /\ Signals' = 0
    <3>1. Ending' = Ending /\ Signals' = Signals
      BY <1>8, <2>1, <2>2 DEF Ending, Signals
    <3>2. QED
      BY <1>6, <3>1
  <2>5. Asking' \in 0 .. 1
    BY <1>6, <2>3
  <2>6. Asking' + Ending' <= 1 /\ Asking' + Signals' <= 1
    <3> DEFINE a == Asking'
               e == Ending'
               s == Signals'
    <3>1. a \in 0 .. 1 /\ e = 0 /\ s = 0
      BY <2>4, <2>5
    <3> HIDE DEF a, e, s
    <3>2. a + e <= 1 /\ a + s <= 1
      BY <3>1
    <3>3. QED
      BY <3>2 DEF a, e, s
  <2>7. waiters' <= waiters /\ Signals' >= Signals /\ Asking' <= Asking
    BY <1>2, <1>6, <2>1, <2>4, <2>5
  <2>8. QED
    BY <1>6, <2>1, <2>4, <2>6, <2>7 DEF Moved
<1>11. QED
  BY <1>9, <1>10

LEMMA SignalsNext ==
  ASSUME NEW s, NEW a, NEW r, Signalled' = s, Active' = a, readyCh' = r
  PROVE  Signals' = s + a + r
  BY DEF Signals

LEMMA SendingNoEnd ==
  ASSUME Types, NEW cmds, Sending(cmds), "CAP_END" \notin cmds
  PROVE  sent'["CAP_END"] = sent["CAP_END"]
<1>1. "CAP_END" \in Commands
  BY DEF Commands
<1>2. QED
  BY <1>1, SendingOther

\* An answer on its way finds the negotiation open.
LEMMA NegotiationOn ==
  ASSUME Types, Untouched, Open, NEW type \in {"cap_ls", "cap_ack", "cap_nak"}, On(type)
  PROVE  negotiating /\ Asking > 0 /\ ~QueueHas("connected")
<1>1. /\ queue # <<>> /\ Head(queue).type = type /\ Head(queue) \in Event /\ queue \in Seq(Event)
  BY HandledFacts DEF Types, NetTypes
<1>2. ~QueueHas("connected")
  BY <1>1 DEF Untouched, Ev
<1>3. 1 \in 1 .. Len(queue) /\ queue[1] \in AskingEvents
  BY <1>1, EmptySeq, LenProperties, HeadTailProperties DEF AskingEvents, EventsOf
<1>4. AskedEvents # 0
  BY <1>1, <1>3, CountZero DEF AskedEvents
<1>5. Asking > 0
  BY <1>4, NatCounts DEF Asking
<1>6. QED
  BY <1>2, <1>5 DEF Open

LEMMA CapMoved ==
  ASSUME Types, Types', Untouched, OnePlace, Open, HandleCapLS \/ HandleCapACK \/ HandleCapNAK
  PROVE  /\ Moved /\ Ending = 0 /\ UNCHANGED <<negotiating, enders>>
         /\ pending' = {} \/ Ending' = 0
<1>1. CASE HandleCapLS
  <2> DEFINE new == Head(queue).caps
  <2>1. /\ On("cap_ls") /\ new \in SUBSET RequestedCaps /\ negotiating
        /\ acked \in SUBSET RequestedCaps
    BY <1>1, HandledFacts, NegotiationOn DEF HandleCapLS, Types, CapsTypes
  <2>2. /\ Request(new)
        /\ IF pending' = {} THEN EndNegotiation(acked) ELSE KeepsOn
        /\ UNCHANGED <<lsLeft, readyCh, saslState>>
    BY <1>1, <2>1 DEF HandleCapLS, CapsOnly, sasl, server
  <2>3. sent'["CAP_END"] = sent["CAP_END"]
    BY <1>1, SendingFacts, SendingNoEnd
  <2>4. AskedLines' = AskedLines \/ AskedLines' = AskedLines + 1
    <3>1. CASE UNCHANGED output
      BY <3>1 DEF output, AskedLines
    <3>2. CASE Sends(CapReq(new))
      <4>1. CapReq(new) \in Lines /\ One(CapReq(new), AskingLines) = 1
        BY <2>1 DEF CapReq, Lines, Commands, One, AskingLines, LinesOf
      <4>2. CASE ~up
        BY <3>2, <4>1, <4>2, SendsFacts DEF Types, AskedLines
      <4>3. CASE up
        BY <3>2, <4>1, <4>3, SendsFacts DEF Types, AskedLines
      <4>4. QED
        BY <4>2, <4>3
    <3>3. new \cap RequestedCaps = new
      BY <2>1
    <3>4. QED
      BY <2>2, <3>1, <3>2, <3>3 DEF Request
  <2>5. pending' = {} => AskedLines' = AskedLines
    <3>1. pending' = {} => UNCHANGED output
      BY <2>2 DEF Request
    <3>2. QED
      BY <3>1 DEF output, AskedLines
  <2>6. /\ Moved /\ Ending = 0 /\ UNCHANGED <<negotiating, enders>>
        /\ EndNegotiation(acked) \/ Ending' = 0
    <3>1. \/ EndNegotiation(acked) /\ AskedLines' = AskedLines
          \/ KeepsOn /\ (AskedLines' = AskedLines \/ AskedLines' = AskedLines + 1)
      BY <2>2, <2>4, <2>5
    <3>2. QED
      BY <2>1, <2>2, <2>3, <3>1, AnswerMoved
  <2>7. pending' # {} => Ending' = 0
    <3>1. pending' # {} => waiters' = waiters
      BY <2>2 DEF KeepsOn
    <3>2. pending' # {} => Ending' = Ending
      BY <2>3, <3>1 DEF Ending
    <3>3. QED
      BY <2>6, <3>2
  <2>8. QED
    BY <2>6, <2>7
<1>2. ASSUME NEW type \in {"cap_ack", "cap_nak"}, HandleCapAnswer(type)
      PROVE  /\ Moved /\ Ending = 0 /\ UNCHANGED <<negotiating, enders>>
             /\ pending' = {} \/ Ending' = 0
  <2>1. On(type) /\ negotiating /\ acked' \in SUBSET RequestedCaps
    BY <1>2, NegotiationOn DEF HandleCapAnswer, Types, CapsTypes
  <2>2. /\ IF pending' = {} THEN EndNegotiation(acked') ELSE KeepsOn
        /\ UNCHANGED <<lsLeft, readyCh, saslState, output>>
    BY <1>2, <2>1 DEF HandleCapAnswer, CapsOnly, sasl, server
  <2>3. sent'["CAP_END"] = sent["CAP_END"] /\ AskedLines' = AskedLines
    BY <2>2 DEF output, AskedLines
  <2>4. /\ Moved /\ Ending = 0 /\ UNCHANGED <<negotiating, enders>>
    <3> DEFINE active == acked'
    <3>1. /\ active \in SUBSET RequestedCaps
          /\ \/ EndNegotiation(active) /\ AskedLines' = AskedLines
             \/ KeepsOn /\ (AskedLines' = AskedLines \/ AskedLines' = AskedLines + 1)
      BY <2>1, <2>2, <2>3
    <3> HIDE DEF active
    <3>2. QED
      BY <2>1, <2>2, <2>3, <3>1, AnswerMoved
  <2>5. pending' # {} => Ending' = 0
    <3>1. pending' # {} => waiters' = waiters
      BY <2>2 DEF KeepsOn
    <3>2. pending' # {} => Ending' = Ending
      BY <2>3, <3>1 DEF Ending
    <3>3. QED
      BY <2>4, <3>2
  <2>6. QED
    BY <2>4, <2>5
<1>3. QED
  BY <1>1, <1>2 DEF HandleCapACK, HandleCapNAK

LEMMA EndReadyMoved ==
  ASSUME Types, Types', HandleCapEndReady
  PROVE  Moved
<1>1. /\ On("cap_end_ready") /\ Emits(<<>>) /\ readyCh' = readyCh + 1
      /\ UNCHANGED <<wire, sent, waiters, saslState, lsLeft>>
  BY DEF HandleCapEndReady, output, sasl, server
<1>2. <<>> \in Seq(Event) /\ Count(<<>>, AskingEvents) = 0 /\ Count(<<>>, SignalEvents) = 0
  BY EmittedEvents, EmittedCounts
<1>3. AskedEvents' = AskedEvents - 0 + 0 /\ Signalled' = Signalled - 1 + 0
  BY <1>1, <1>2, HandledCounts
<1>4. /\ AskedEvents \in Nat /\ Signalled \in Nat /\ Active \in Nat /\ readyCh \in Nat
      /\ Ending \in Nat /\ waiters \in Nat
  BY NatCounts
<1>5. AskedEvents' = AskedEvents /\ AskedLines' = AskedLines /\ Ending' = Ending /\ Active' = Active
  BY <1>1, <1>3, <1>4 DEF AskedLines, Ending, Active, SASLActive
<1>6. Signals' = Signals /\ Signals \in Nat
  <2>1. Signals' = (Signalled - 1) + Active + (readyCh + 1)
    BY <1>1, <1>3, <1>4, <1>5, SignalsNext
  <2>2. QED
    BY <1>4, <2>1, NatCounts DEF Signals
<1>7. QED
  BY <1>1, <1>4, <1>5, <1>6, QuietMoved

\* A handler that asks nothing and ends nothing.
LEMMA HandlerQuiet ==
  ASSUME Types, Types', NEW type, On(type), NEW es \in Seq(Event), Emits(es),
         type \notin {"connected", "cap_ls", "cap_ack", "cap_nak"}, Count(es, AskingEvents) = 0,
         NEW cmds, Sending(cmds), {"CAP_LS", "CAP_REQ", "CAP_END"} \cap cmds = {},
         UNCHANGED <<waiters, lsLeft>>,
         Signals' <= Signals, Signals' >= Signals \/ ~SASLUsed \/ Excused'
  PROVE  Moved
<1>1. AskedEvents' = AskedEvents
  <2>1. AskedEvents' = AskedEvents - 0 + 0 /\ AskedEvents \in Nat
    BY HandledCounts, NatCounts
  <2>2. QED
    BY <2>1
<1>2. AskedLines' = AskedLines /\ sent'["CAP_END"] = sent["CAP_END"]
  BY SendingUnasked, SendingNoEnd
<1>3. Ending' = Ending /\ Ending \in Nat /\ waiters \in Nat
  BY <1>2, NatCounts DEF Ending
<1>4. QED
  BY <1>1, <1>2, <1>3, QuietMoved

LEMMA PreEndMoved ==
  ASSUME Types, Types', HandlePreEnd
  PROVE  Moved
<1>1. /\ On("cap_pre_end") /\ UNCHANGED <<waiters, lsLeft, readyCh>>
      /\ Sending({"AUTHENTICATE_PLAIN"})
  BY SendingFacts DEF HandlePreEnd, SASLOnly, caps, server
<1>2. /\ Signalled \in Nat /\ Active \in Nat /\ readyCh \in Nat /\ Signals \in Nat
      /\ Signals = Signalled + Active + readyCh
  BY NatCounts DEF Signals
<1>3. ASSUME NEW es \in {<<>>, <<Ev("cap_end_ready")>>, <<Ev("sasl_fail"), Ev("cap_end_ready")>>},
             Emits(es), Signals' <= Signals, Signals' >= Signals \/ ~SASLUsed
      PROVE  Moved
  <2>1. /\ <<>> \in Seq(Event) /\ Count(<<>>, AskingEvents) = 0
        /\ <<Ev("cap_end_ready")>> \in Seq(Event)
        /\ Count(<<Ev("cap_end_ready")>>, AskingEvents) = 0
        /\ <<Ev("sasl_fail"), Ev("cap_end_ready")>> \in Seq(Event)
        /\ Count(<<Ev("sasl_fail"), Ev("cap_end_ready")>>, AskingEvents) = 0
    BY EmittedEvents, EmittedCounts DEF EventTypes
  <2>2. es \in Seq(Event) /\ Count(es, AskingEvents) = 0
    BY <2>1
  <2>3. QED
    BY <1>1, <1>3, <2>2, HandlerQuiet
<1>4. CASE Emits(<<>>) /\ ~SASLUsed /\ UNCHANGED saslState
  <2>1. Signalled' = Signalled - 1 + 0 /\ Active' = Active
    BY <1>1, <1>4, EmittedEvents, EmittedCounts, HandledCounts DEF Active, SASLActive
  <2>2. Signals' = (Signalled - 1 + 0) + Active + readyCh
    BY <1>1, <2>1, SignalsNext
  <2>3. QED
    BY <1>2, <1>3, <1>4, <2>2
<1>5. ASSUME NEW es \in {<<Ev("cap_end_ready")>>, <<Ev("sasl_fail"), Ev("cap_end_ready")>>},
             Emits(es), Active' = Active
      PROVE  Moved
  <2>1. es \in Seq(Event) /\ Count(es, SignalEvents) = 1
    <3>1. "cap_end_ready" \in EventTypes /\ "sasl_fail" \in EventTypes
      BY DEF EventTypes
    <3>2. /\ <<Ev("cap_end_ready")>> \in Seq(Event)
          /\ <<Ev("sasl_fail"), Ev("cap_end_ready")>> \in Seq(Event)
      BY <3>1, EmittedEvents
    <3>3. Count(es, SignalEvents) = 1
      BY EmittedCounts
    <3>4. QED
      BY <1>5, <3>2, <3>3
  <2>2. Signalled' = Signalled - 1 + 1
    BY <1>1, <1>5, <2>1, HandledCounts
  <2>3. Signals' = (Signalled - 1 + 1) + Active + readyCh
    BY <1>1, <1>5, <2>2, SignalsNext
  <2>4. QED
    BY <1>2, <1>3, <1>5, <2>3
<1>6. CASE saslState = "Inactive" /\ saslState' = "Requesting" /\ Emits(<<>>)
  <2>1. Signalled' = Signalled - 1 + 0
    BY <1>1, <1>6, EmittedEvents, EmittedCounts, HandledCounts
  <2>2. Active = 0 /\ Active' = 1
    BY <1>6 DEF Active, SASLActive
  <2>3. Signals' = (Signalled - 1 + 0) + 1 + readyCh
    BY <1>1, <2>1, <2>2, SignalsNext
  <2>4. QED
    BY <1>2, <1>3, <1>6, <2>2, <2>3
<1>7. CASE saslState = "Inactive" /\ saslState' = "Failed"
             /\ Emits(<<Ev("sasl_fail"), Ev("cap_end_ready")>>)
  <2>1. Active' = Active
    BY <1>7 DEF Active, SASLActive
  <2>2. QED
    BY <1>5, <1>7, <2>1
<1>8. UNCHANGED saslState => Active' = Active
  BY DEF Active, SASLActive
<1>9. QED
  BY <1>4, <1>5, <1>6, <1>7, <1>8 DEF HandlePreEnd

LEMMA AuthenticateMoved ==
  ASSUME Types, Types', NEW plus \in BOOLEAN, HandleAuthenticate(plus)
  PROVE  Moved
<1> DEFINE type == IF plus THEN "sasl_plus" ELSE "sasl_challenge"
<1>1. /\ On(type) /\ UNCHANGED <<waiters, lsLeft, readyCh, up>> /\ type \in {"sasl_plus", "sasl_challenge"}
      /\ Sending({"AUTHENTICATE_data", "AUTHENTICATE_abort"})
  BY SendingFacts DEF HandleAuthenticate, SASLOnly, caps, server
<1>2. /\ Signalled \in Nat /\ Active \in Nat /\ readyCh \in Nat /\ Signals \in Nat
      /\ Signals = Signalled + Active + readyCh
  BY NatCounts DEF Signals
<1>a. queue # <<>>
  BY <1>1, HandledFacts DEF Types
<1> HIDE DEF type
<1>3. ASSUME NEW es \in Seq(Event), Emits(es), Count(es, AskingEvents) = 0,
             Count(es, SignalEvents) = 0, NEW a, Active' = a, a \in {0, Active},
             a = Active \/ Excused'
      PROVE  Moved
  <2>1. Signalled' = Signalled - 0 + 0
    BY <1>1, <1>3, HandledCounts
  <2>2. Signals' = (Signalled - 0 + 0) + a + readyCh
    BY <1>1, <1>3, <2>1, SignalsNext
  <2>3. Signals' <= Signals /\ (Signals' >= Signals \/ Excused')
    BY <1>2, <1>3, <2>2
  <2>4. QED
    BY <1>1, <1>3, <2>3, HandlerQuiet
<1>4. /\ <<>> \in Seq(Event) /\ Count(<<>>, AskingEvents) = 0 /\ Count(<<>>, SignalEvents) = 0
      /\ <<Ev("sasl_fail")>> \in Seq(Event) /\ Count(<<Ev("sasl_fail")>>, AskingEvents) = 0
      /\ Count(<<Ev("sasl_fail")>>, SignalEvents) = 0
  BY EmittedEvents, EmittedCounts DEF EventTypes
<1>5. ASSUME NEW timer, NEW es \in {<<>>, <<Ev("sasl_fail")>>}, Concludes(timer, es)
      PROVE  \E fs \in Seq(Event) : /\ Emits(fs) /\ Count(fs, AskingEvents) = 0
                                    /\ Count(fs, SignalEvents) = 0
  BY <1>a, <1>4, <1>5, ConcludesCounts
<1>6. CASE Emits(<<>>) /\ UNCHANGED sasl
  <2>1. Active' = Active
    BY <1>6 DEF sasl, Active, SASLActive
  <2>2. QED
    BY <1>3, <1>4, <1>6, <2>1
<1>7. CASE /\ saslState = "Requesting" /\ saslState' = (IF up THEN "Authenticating" ELSE "Failed")
           /\ Concludes(saslTimer, IF up THEN <<>> ELSE <<Ev("sasl_fail")>>)
  <2>1. CASE up
    <3>1. Active' = Active
      BY <1>7, <2>1 DEF Active, SASLActive
    <3>2. QED
      BY <1>3, <1>5, <1>7, <2>1, <3>1
  <2>2. CASE ~up
    <3>1. Active' = 0 /\ Excused'
      BY <1>1, <1>7, <2>2 DEF Active, SASLActive, Excused
    <3>2. QED
      BY <1>3, <1>5, <1>7, <2>2, <3>1
  <2>3. QED
    BY <2>1, <2>2
<1>8. CASE /\ saslState = "Requesting" /\ saslState' = "Failed"
           /\ Sends(Line("AUTHENTICATE_abort")) /\ Concludes(Stopped(saslTimer), <<>>)
  <2>1. Active' = 0
    BY <1>8 DEF Active, SASLActive
  <2>2. Excused'
    <3>1. CASE up
      <4>1. sent'["AUTHENTICATE_abort"] = sent["AUTHENTICATE_abort"] + 1 /\ sent["AUTHENTICATE_abort"] \in Nat
        BY <1>8, <3>1 DEF Sends, Line, Types, NetTypes, Commands
      <4>2. QED
        BY <4>1 DEF Excused
    <3>2. CASE ~up
      BY <1>1, <3>2 DEF Excused
    <3>3. QED
      BY <3>1, <3>2
  <2>3. QED
    BY <1>3, <1>5, <1>8, <2>1, <2>2
<1>9. QED
  BY <1>6, <1>7, <1>8 DEF HandleAuthenticate

LEMMA OutcomeMoved ==
  ASSUME Types, Types', NEW type \in {"sasl_success", "sasl_fail"},
         NEW final \in {"Success", "Failed"}, HandleOutcome(type, final)
  PROVE  Moved
<1>1. /\ On(type) /\ UNCHANGED <<waiters, lsLeft, readyCh>> /\ Sending({})
  BY DEF HandleOutcome, SASLOnly, caps, server, Sending, output
<1>2. /\ Signalled \in Nat /\ Active \in Nat /\ readyCh \in Nat /\ Signals \in Nat
      /\ Signals = Signalled + Active + readyCh
  BY NatCounts DEF Signals
<1>3. queue # <<>>
  BY <1>1, HandledFacts DEF Types
<1>4. ASSUME NEW es \in Seq(Event), Emits(es), Count(es, AskingEvents) = 0, Signals' = Signals
      PROVE  Moved
  BY <1>1, <1>2, <1>4, HandlerQuiet
<1>5. CASE Emits(<<>>) /\ UNCHANGED sasl
  <2>1. <<>> \in Seq(Event) /\ Count(<<>>, AskingEvents) = 0 /\ Count(<<>>, SignalEvents) = 0
    BY EmittedEvents, EmittedCounts
  <2>2. Signalled' = Signalled - 0 + 0
    BY <1>1, <1>5, <2>1, HandledCounts
  <2>3. Active' = Active
    BY <1>5 DEF sasl, Active, SASLActive
  <2>4. Signals' = (Signalled - 0 + 0) + Active + readyCh
    BY <1>1, <2>2, <2>3, SignalsNext
  <2>5. Signals' = Signals
    BY <1>2, <2>4
  <2>6. QED
    BY <1>4, <1>5, <2>1, <2>5
<1>6. CASE /\ SASLActive /\ saslState' = final
           /\ Concludes(Stopped(saslTimer), <<Ev(type), Ev("cap_end_ready")>>)
  <2> DEFINE es == <<Ev(type), Ev("cap_end_ready")>>
  <2>1. /\ es \in Seq(Event) /\ Count(es, AskingEvents) = 0 /\ Count(es, SignalEvents) = 1
        /\ Concludes(Stopped(saslTimer), es)
    BY <1>6, EmittedEvents, EmittedCounts DEF EventTypes
  <2> HIDE DEF es
  <2>2. PICK fs \in Seq(Event) : /\ Emits(fs) /\ Count(fs, AskingEvents) = 0
                                 /\ Count(fs, SignalEvents) = 1
    BY <1>3, <2>1, ConcludesCounts
  <2>3. Signalled' = Signalled - 0 + 1
    BY <1>1, <2>2, HandledCounts
  <2>4. Active' = 0 /\ Active = 1
    BY <1>6 DEF Active, SASLActive
  <2>5. Signals' = (Signalled - 0 + 1) + 0 + readyCh
    BY <1>1, <2>3, <2>4, SignalsNext
  <2>6. QED
    BY <1>2, <1>4, <2>2, <2>4, <2>5
<1>7. QED
  BY <1>5, <1>6 DEF HandleOutcome

LEMMA OtherMoved ==
  ASSUME Types, Types', HandleNickInUse \/ HandleWelcome \/ HandlePing
  PROVE  Moved
<1>1. PICK type \in {"nick_in_use", "registered", "ping"} : On(type)
  BY DEF HandleNickInUse, HandleWelcome, HandlePing
<1>2. \E cmds : Sending(cmds) /\ {"CAP_LS", "CAP_REQ", "CAP_END"} \cap cmds = {}
  <2>1. Sending({"NICK"}) \/ Sending({"PONG"}) \/ Sending({})
    BY SendingFacts
  <2>2. QED
    BY <2>1
<1>3. PICK es \in {<<>>, <<Ev("registered")>>} : Emits(es)
  BY DEF HandleNickInUse, HandleWelcome, HandlePing
<1>4. /\ <<>> \in Seq(Event) /\ Count(<<>>, AskingEvents) = 0 /\ Count(<<>>, SignalEvents) = 0
      /\ <<Ev("registered")>> \in Seq(Event) /\ Count(<<Ev("registered")>>, AskingEvents) = 0
      /\ Count(<<Ev("registered")>>, SignalEvents) = 0
  BY EmittedEvents, EmittedCounts DEF EventTypes
<1>5. es \in Seq(Event) /\ Count(es, AskingEvents) = 0 /\ Count(es, SignalEvents) = 0
  BY <1>3, <1>4
<1>6. UNCHANGED <<waiters, lsLeft, readyCh, saslState>>
  BY DEF HandleNickInUse, HandleWelcome, HandlePing, RegOnly, caps, sasl, server
<1>7. Signalled' = Signalled - 0 + 0
  BY <1>1, <1>3, <1>5, HandledCounts
<1>8. Active' = Active
  BY <1>6 DEF Active, SASLActive
<1>9. Signals' = (Signalled - 0 + 0) + Active + readyCh
  BY <1>6, <1>7, <1>8, SignalsNext
<1>10. Signals' = Signals /\ Signals \in Nat
  BY <1>9, NatCounts DEF Signals
<1>11. QED
  BY <1>1, <1>2, <1>3, <1>5, <1>6, <1>10, HandlerQuiet

LEMMA GoroutinesMoved ==
  ASSUME Types, Types', OnePlace, Goroutines
  PROVE  Moved
<1>1. /\ Signalled \in Nat /\ Active \in Nat /\ readyCh \in Nat /\ Signals \in Nat
      /\ waiters \in Nat /\ sent["CAP_END"] \in Nat /\ Asking \in Nat /\ Ending \in Nat
      /\ Signals = Signalled + Active + readyCh /\ Ending = waiters + sent["CAP_END"]
  BY NatCounts DEF Signals, Ending
<1>2. UNCHANGED <<queue, lsLeft, saslState>>
  BY DEF Goroutines, WaiterReady, WaiterTimeout, SendCapEnd, NegotiationEnds, net, sasl, server
<1>3. AskedEvents' = AskedEvents /\ Signalled' = Signalled /\ Active' = Active
  BY <1>2 DEF AskedEvents, Signalled, Active, SASLActive
<1>4. CASE NegotiationEnds
  <2>1. UNCHANGED <<wire, sent, waiters, readyCh>>
    BY <1>4 DEF NegotiationEnds, net, output
  <2>2. AskedLines' = AskedLines /\ Ending' = Ending /\ Signals' = Signals
    BY <1>3, <2>1 DEF AskedLines, Ending, Signals
  <2>3. QED
    BY <1>1, <1>2, <1>3, <2>1, <2>2, QuietMoved
<1>5. CASE WaiterReady \/ WaiterTimeout
  <2>1. waiters > 0 /\ SendCapEnd /\ waiters' = waiters - 1
    BY <1>5 DEF WaiterReady, WaiterTimeout, SendCapEnd
  <2>2. AskedLines' = AskedLines
    <3>1. Sending({"CAP_END"})
      BY <1>5, SendingFacts
    <3>2. QED
      BY <3>1, SendingUnasked
  <2>3. sent'["CAP_END"] = sent["CAP_END"] \/ sent'["CAP_END"] = sent["CAP_END"] + 1
    BY <2>1 DEF SendCapEnd, Sends, Line, output, Types, NetTypes, Commands
  <2>4. waiters' = 0
    <3>1. waiters = 1
      BY <1>1, <2>1 DEF OnePlace
    <3>2. QED
      BY <2>1, <3>1
  <2>5. Ending' <= Ending
    <3>1. Ending' = sent["CAP_END"] \/ Ending' = sent["CAP_END"] + 1
      BY <1>1, <2>3, <2>4 DEF Ending
    <3>2. QED
      BY <1>1, <2>1, <3>1
  <2>6. readyCh' = readyCh \/ readyCh' = readyCh - 1
    BY <1>5 DEF WaiterReady, WaiterTimeout
  <2>7. Signals' <= Signals
    <3>1. Signals' = Signalled + Active + readyCh \/ Signals' = Signalled + Active + (readyCh - 1)
      BY <1>3, <2>6, SignalsNext
    <3>2. QED
      BY <1>1, <3>1
  <2>8. waiters' <= waiters
    BY <1>1, <2>1, <2>4
  <2>9. QED
    BY <1>2, <1>3, <2>2, <2>4, <2>5, <2>7, <2>8, QuietMoved
<1>6. QED
  BY <1>4, <1>5 DEF Goroutines

LEMMA TimersMoved ==
  ASSUME Types, Types', Timers \/ LinkLost
  PROVE  Moved
<1>1. /\ Signalled \in Nat /\ Active \in Nat /\ readyCh \in Nat /\ Signals \in Nat
      /\ waiters \in Nat /\ Ending \in Nat /\ AskedEvents \in Nat
      /\ Signals = Signalled + Active + readyCh
  BY NatCounts DEF Signals
<1>2. UNCHANGED <<wire, sent, lsLeft, waiters, readyCh>>
  BY DEF Timers, SASLTimerExpires, SASLTimeout, RegTimerExpires, RegTimeout, LinkLost,
     net, output, caps, server
<1>3. AskedLines' = AskedLines /\ Ending' = Ending
  BY <1>2 DEF AskedLines, Ending
<1>4. CASE SASLTimeout
  <2>1. /\ EmitsFromOutside(<<Ev("sasl_fail")>>) /\ saslState' = "Failed" /\ saslLate' = TRUE
    BY <1>4 DEF SASLTimeout
  <2>2. /\ <<Ev("sasl_fail")>> \in Seq(Event) /\ Count(<<Ev("sasl_fail")>>, AskingEvents) = 0
        /\ Count(<<Ev("sasl_fail")>>, SignalEvents) = 0
    BY EmittedEvents, EmittedCounts DEF EventTypes
  <2>3. AskedEvents' = AskedEvents + 0 /\ Signalled' = Signalled + 0
    BY <2>1, <2>2, OutsideCounts
  <2>4. AskedEvents' = AskedEvents /\ Active' = 0 /\ Excused'
    BY <1>1, <2>1, <2>3 DEF Active, SASLActive, Excused
  <2>5. Signals' = (Signalled + 0) + 0 + readyCh
    BY <1>2, <2>3, <2>4, SignalsNext
  <2>6. Signals' <= Signals
    BY <1>1, <2>5
  <2>7. QED
    BY <1>1, <1>2, <1>3, <2>4, <2>6, QuietMoved
<1>5. CASE ~SASLTimeout
  <2>1. UNCHANGED <<queue, saslState>>
    BY <1>5 DEF Timers, SASLTimerExpires, RegTimerExpires, RegTimeout, LinkLost, net, sasl
  <2>2. AskedEvents' = AskedEvents /\ Signals' = Signals
    BY <1>2, <2>1 DEF AskedEvents, Signals, Signalled, Active, SASLActive
  <2>3. QED
    BY <1>1, <1>2, <1>3, <2>2, QuietMoved
<1>6. QED
  BY <1>4, <1>5

LEMMA AskingNext ==
  ASSUME NEW a, NEW l, NEW n, AskedEvents' = a, AskedLines' = l, Len(lsLeft') = n
  PROVE  Asking' = a + l + n
  BY DEF Asking

LEMMA HearsAsked ==
  ASSUME Types, NEW cmd, Hears(cmd)
  PROVE  /\ AskedLines' = AskedLines - (IF cmd \in {"CAP_LS", "CAP_REQ"} THEN 1 ELSE 0)
         /\ lsLeft = <<>>
<1>1. /\ Head(wire) \in Lines /\ Head(wire).cmd = cmd /\ lsLeft = <<>>
      /\ AskedLines' = AskedLines - One(Head(wire), AskingLines)
  BY HearsFacts DEF Types, AskedLines
<1>2. One(Head(wire), AskingLines) = IF cmd \in {"CAP_LS", "CAP_REQ"} THEN 1 ELSE 0
  BY <1>1 DEF One, AskingLines, LinesOf
<1>3. QED
  BY <1>1, <1>2

\* The server answers a question with one step less to go.
LEMMA ServerMoved ==
  ASSUME OneAnswer, Types, Types', Server \/ JudgeAuth
  PROVE  Moved
<1>1. ServerOnly
  BY DEF Server, HearCapLS, SendCapLS, HearCapReq, HearCapEnd, HearAuthenticate,
     HearAuthData, HearAuthAbort, HearNick, HearUser, AskPong, HearPong, Welcome, JudgeAuth
<1>2. UNCHANGED <<waiters, readyCh, saslState, sent>>
  BY <1>1 DEF ServerOnly, caps, sasl
<1>3. Ending' = Ending /\ Active' = Active
  BY <1>2 DEF Ending, Active, SASLActive
<1>4. /\ AskedEvents \in Nat /\ AskedLines \in Nat /\ Len(lsLeft) \in Nat /\ Signalled \in Nat
      /\ Ending \in Nat /\ Signals \in Nat /\ waiters \in Nat /\ Asking \in Nat
      /\ Asking = AskedEvents + AskedLines + Len(lsLeft)
  BY NatCounts DEF Asking
<1>5. ASSUME Asking' <= Asking, Signalled' = Signalled PROVE Moved
  <2>1. Signals' = Signals
    BY <1>2, <1>3, <1>5 DEF Signals
  <2>2. QED
    BY <1>2, <1>3, <1>4, <1>5, <2>1, NoMoreMoved
<1>6. ASSUME NEW es \in Seq(Event), EmitsFromOutside(es), Count(es, SignalEvents) = 0,
             NEW n \in {0, 1}, Count(es, AskingEvents) = n
      PROVE  Signalled' = Signalled /\ AskedEvents' = AskedEvents + n
  <2>1. Signalled' = Signalled + 0 /\ AskedEvents' = AskedEvents + n
    BY <1>6, OutsideCounts
  <2>2. QED
    BY <1>4, <2>1
<1>7. UNCHANGED queue => AskedEvents' = AskedEvents /\ Signalled' = Signalled
  BY DEF AskedEvents, Signalled
<1>8. CASE HearCapLS
  <2>1. UNCHANGED queue /\ lsLeft' = <<srvCaps>> /\ Hears("CAP_LS")
    BY <1>8 DEF HearCapLS, OneAnswer
  <2>2. AskedEvents' = AskedEvents /\ Signalled' = Signalled
    BY <1>7, <2>1
  <2>3. AskedLines' = AskedLines - 1 /\ lsLeft = <<>>
    BY <2>1, HearsAsked
  <2>4. Len(lsLeft') = 1 /\ Len(lsLeft) = 0
    BY <2>1, <2>3
  <2>5. Asking' = AskedEvents + (AskedLines - 1) + 1
    BY <2>2, <2>3, <2>4, AskingNext
  <2>6. Asking' <= Asking
    BY <1>4, <2>4, <2>5
  <2>7. QED
    BY <1>5, <2>2, <2>6
<1>9. CASE SendCapLS
  <2>1. /\ UNCHANGED wire /\ lsLeft # <<>> /\ lsLeft' = Tail(lsLeft)
        /\ EmitsFromOutside(<<CapEv("cap_ls", Head(lsLeft))>>)
    BY <1>9 DEF SendCapLS
  <2>2. Len(lsLeft') = Len(lsLeft) - 1 /\ Head(lsLeft) \in SUBSET RequestedCaps
    BY <2>1, HeadTailProperties DEF Types, ServerTypes
  <2> DEFINE es == <<CapEv("cap_ls", Head(lsLeft))>>
  <2>3. es \in Seq(Event) /\ Count(es, AskingEvents) = 1 /\ Count(es, SignalEvents) = 0
    BY <2>2, EmittedEvents, EmittedCounts DEF EventTypes
  <2>4. EmitsFromOutside(es)
    BY <2>1
  <2> HIDE DEF es
  <2>5. Signalled' = Signalled /\ AskedEvents' = AskedEvents + 1
    BY <1>6, <2>3, <2>4
  <2>6. AskedLines' = AskedLines
    BY <2>1 DEF AskedLines
  <2>7. Asking' = (AskedEvents + 1) + AskedLines + (Len(lsLeft) - 1)
    BY <2>2, <2>5, <2>6, AskingNext
  <2>8. Asking' <= Asking
    BY <1>4, <2>7
  <2>9. QED
    BY <1>5, <2>5, <2>8
<1>10. CASE HearCapReq
  <2> DEFINE asked == Head(wire).caps
  <2>1. /\ Hears("CAP_REQ") /\ UNCHANGED lsLeft
        /\ \/ EmitsFromOutside(<<CapEv("cap_ack", asked)>>)
           \/ EmitsFromOutside(<<CapEv("cap_nak", asked)>>)
    BY <1>10 DEF HearCapReq
  <2>2. AskedLines' = AskedLines - 1 /\ asked \in SUBSET RequestedCaps
    BY <2>1, HearsAsked, HearsFacts DEF Types, Lines
  <2> HIDE DEF asked
  <2>3. ASSUME NEW type \in {"cap_ack", "cap_nak"}, EmitsFromOutside(<<CapEv(type, asked)>>)
        PROVE  Signalled' = Signalled /\ AskedEvents' = AskedEvents + 1
    <3> DEFINE es == <<CapEv(type, asked)>>
    <3>1. /\ es \in Seq(Event) /\ Count(es, AskingEvents) = 1 /\ Count(es, SignalEvents) = 0
          /\ EmitsFromOutside(es)
      <4>1. type \in EventTypes
        BY DEF EventTypes
      <4>2. es \in Seq(Event)
        BY <2>2, <4>1, EmittedEvents
      <4>3. Count(es, AskingEvents) = 1 /\ Count(es, SignalEvents) = 0
        BY <2>2, EmittedCounts
      <4>4. QED
        BY <2>3, <4>2, <4>3
    <3> HIDE DEF es
    <3>2. QED
      BY <1>6, <3>1
  <2>4. Signalled' = Signalled /\ AskedEvents' = AskedEvents + 1
    BY <2>1, <2>3
  <2>5. Asking' = (AskedEvents + 1) + (AskedLines - 1) + Len(lsLeft)
    BY <2>1, <2>2, <2>4, AskingNext
  <2>6. Asking' <= Asking
    BY <1>4, <2>5
  <2>7. QED
    BY <1>5, <2>4, <2>6
<1>11. CASE ~(HearCapLS \/ SendCapLS \/ HearCapReq)
  <2>1. /\ UNCHANGED lsLeft
        /\ \/ UNCHANGED wire
           \/ \E cmd \in Commands \ {"CAP_LS", "CAP_REQ"} : Hears(cmd)
    BY <1>11 DEF Server, HearCapEnd, HearAuthenticate, HearAuthData, HearAuthAbort, HearNick,
       HearUser, AskPong, HearPong, Welcome, JudgeAuth, Commands
  <2>2. AskedLines' = AskedLines
    <3>1. CASE UNCHANGED wire
      BY <3>1 DEF AskedLines
    <3>2. ASSUME NEW cmd \in Commands \ {"CAP_LS", "CAP_REQ"}, Hears(cmd)
          PROVE  AskedLines' = AskedLines
      <4>1. AskedLines' = AskedLines - 0
        BY <3>2, HearsAsked
      <4>2. QED
        BY <1>4, <4>1
    <3>3. QED
      BY <2>1, <3>1, <3>2
  <2>3. \/ UNCHANGED queue
        \/ \E t \in {"sasl_fail", "registered", "sasl_plus", "sasl_challenge", "nick_in_use", "ping"} :
             EmitsFromOutside(<<Ev(t)>>)
        \/ EmitsFromOutside(<<Ev("sasl_success"), Ev("sasl_success")>>)
    BY <1>11 DEF Server, HearCapEnd, HearAuthenticate, HearAuthData, HearAuthAbort, HearNick,
       HearUser, AskPong, HearPong, Welcome, JudgeAuth
  <2>4. ASSUME NEW es \in Seq(Event), EmitsFromOutside(es), Count(es, SignalEvents) = 0,
               Count(es, AskingEvents) = 0
        PROVE  Signalled' = Signalled /\ AskedEvents' = AskedEvents
    <3>1. Signalled' = Signalled /\ AskedEvents' = AskedEvents + 0
      BY <1>6, <2>4
    <3>2. QED
      BY <1>4, <3>1
  <2>5. Signalled' = Signalled /\ AskedEvents' = AskedEvents
    <3>1. ASSUME NEW t \in {"sasl_fail", "registered", "sasl_plus", "sasl_challenge", "nick_in_use", "ping"},
                 EmitsFromOutside(<<Ev(t)>>)
          PROVE  Signalled' = Signalled /\ AskedEvents' = AskedEvents
      <4>1. /\ <<Ev(t)>> \in Seq(Event) /\ Count(<<Ev(t)>>, AskingEvents) = 0
            /\ Count(<<Ev(t)>>, SignalEvents) = 0
        BY EmittedEvents, EmittedCounts DEF EventTypes
      <4>2. QED
        BY <2>4, <3>1, <4>1
    <3>2. CASE EmitsFromOutside(<<Ev("sasl_success"), Ev("sasl_success")>>)
      <4>1. /\ <<Ev("sasl_success"), Ev("sasl_success")>> \in Seq(Event)
            /\ Count(<<Ev("sasl_success"), Ev("sasl_success")>>, AskingEvents) = 0
            /\ Count(<<Ev("sasl_success"), Ev("sasl_success")>>, SignalEvents) = 0
        BY EmittedEvents, EmittedCounts DEF EventTypes
      <4>2. QED
        BY <2>4, <3>2, <4>1
    <3>3. QED
      BY <1>7, <2>3, <3>1, <3>2
  <2>6. Asking' = Asking
    BY <2>1, <2>2, <2>5 DEF Asking
  <2>7. QED
    BY <1>4, <1>5, <2>5, <2>6
<1>12. QED
  BY <1>8, <1>9, <1>10, <1>11

LEMMA NextMoved ==
  ASSUME OneAnswer, Core, Types', OnePlace, Open, NoChange, Next
  PROVE  Moved
<1>1. ~(HandleCapDEL \/ HandleCapNEW \/ ChangeCaps)
  <2>1. ASSUME NEW type, On(type) PROVE QueueHas(type)
    <3>1. queue # <<>> /\ queue \in Seq(Event) /\ Head(queue).type = type
      BY <2>1 DEF On, Core, Types, NetTypes
    <3>2. QED
      BY <3>1, ToSetFacts DEF QueueHas
  <2>2. ~HandleCapDEL /\ ~HandleCapNEW
    BY <2>1 DEF HandleCapDEL, HandleCapNEW, NoChange
  <2>3. ~ChangeCaps
    BY DEF ChangeCaps, OneAnswer, NoChange
  <2>4. QED
    BY <2>2, <2>3
<1>2. CASE HandleConnected
  BY <1>2, ConnectedMoved DEF Core
<1>3. CASE HandleCapLS \/ HandleCapACK \/ HandleCapNAK
  BY <1>3, CapMoved DEF Core
<1>4. CASE HandleCapEndReady
  BY <1>4, EndReadyMoved DEF Core
<1>5. CASE HandlePreEnd \/ (\E plus \in BOOLEAN : HandleAuthenticate(plus))
  BY <1>5, PreEndMoved, AuthenticateMoved DEF Core
<1>6. CASE HandleSASLSuccess \/ HandleSASLFail
  BY <1>6, OutcomeMoved DEF Core, HandleSASLSuccess, HandleSASLFail
<1>7. CASE HandleNickInUse \/ HandleWelcome \/ HandlePing
  BY <1>7, OtherMoved DEF Core
<1>8. CASE Goroutines \/ Timers \/ LinkLost
  BY <1>8, GoroutinesMoved, TimersMoved DEF Core
<1>9. CASE Server \/ JudgeAuth
  BY <1>9, ServerMoved DEF Core
<1>10. QED
  BY <1>1, <1>2, <1>3, <1>4, <1>5, <1>6, <1>7, <1>8, <1>9 DEF Next, Handle, Goroutines, Timers
-----------------------------------------------------------------------------
(* One answer: the negotiation stays in one place.                         *)

LEMMA SentGrows ==
  ASSUME Types, Next, ~HandleConnected, NEW c \in Commands
  PROVE  sent[c] \in Nat /\ (sent'[c] = sent[c] \/ sent'[c] = sent[c] + 1)
<1>1. sent[c] \in Nat
  BY DEF Types, NetTypes
<1>2. CASE Server \/ JudgeAuth \/ ChangeCaps
  <2>1. sent' = sent
    BY <1>2 DEF Server, HearCapLS, SendCapLS, HearCapReq, HearCapEnd, HearAuthenticate,
       HearAuthData, HearAuthAbort, HearNick, HearUser, AskPong, HearPong, Welcome,
       JudgeAuth, ChangeCaps, ServerOnly
  <2>2. QED
    BY <1>1, <2>1
<1>3. CASE HandleOthers \/ Timers \/ Goroutines \/ LinkLost
  <2>1. \E cmds : Sending(cmds)
    BY <1>3, SendingFacts DEF HandleOthers, Goroutines
  <2>2. QED
    BY <1>1, <2>1, SendingSame
<1>4. QED
  BY <1>2, <1>3 DEF Next, Handle, HandleOthers, Timers, Goroutines

LEMMA OpenKept ==
  ASSUME OneAnswer, Core, Types', OnePlace, Open, NoChange, Next
  PROVE  Open'
<1>1. CASE HandleConnected
  <2>1. (Asking' > 0 => negotiating') /\ enders' = 0
    BY <1>1, ConnectedMoved DEF Core
  <2>2. QED
    BY <2>1 DEF Open
<1>2. CASE QueueHas("connected") /\ ~HandleConnected
  <2>1. LinkLost
    BY <1>2, OnlyConnected DEF Core
  <2>2. QueueHas("connected")' /\ enders' = enders /\ sent' = sent
    BY <1>2, <2>1 DEF LinkLost, QueueHas, output, caps
  <2>3. QED
    BY <2>2 DEF Open
<1>3. CASE ~QueueHas("connected") /\ ~HandleConnected
  <2>1. /\ Asking' <= Asking /\ Asking' \in Nat /\ Asking \in Nat /\ Ending \in Nat
        /\ waiters \in Nat /\ sent["CAP_END"] \in Nat /\ enders \in Nat
    BY NextMoved, NatCounts, NatCountsNext DEF Moved, Core, Types, CapsTypes
  <2>2. Asking' > 0 => negotiating /\ enders = 0
    <3>1. Asking' > 0 => Asking > 0
      BY <2>1
    <3>2. Asking > 0 => Ending = 0
      BY <2>1 DEF OnePlace
    <3>3. Ending = 0 => sent["CAP_END"] = 0
      BY <2>1 DEF Ending
    <3>4. sent["CAP_END"] = 0 => enders = 0
      BY <2>1 DEF Open
    <3>5. QED
      BY <1>3, <3>1, <3>2, <3>3, <3>4 DEF Open
  <2>3. sent'["CAP_END"] = sent["CAP_END"] \/ sent'["CAP_END"] = sent["CAP_END"] + 1
    BY <1>3, SentGrows DEF Core, Commands
  <2>4. CASE Goroutines
    <3>1. CASE NegotiationEnds
      <4>1. enders > 0 /\ enders' = enders - 1 /\ sent' = sent
        BY <3>1 DEF NegotiationEnds, net, output
      <4>2. QED
        BY <2>1, <2>2, <4>1 DEF Open
    <3>2. CASE WaiterReady \/ WaiterTimeout
      <4>1. /\ UNCHANGED negotiating
            /\ up => sent'["CAP_END"] = sent["CAP_END"] + 1
            /\ ~up => UNCHANGED <<sent, enders>>
        BY <3>2 DEF WaiterReady, WaiterTimeout, SendCapEnd, Sends, Line, output, Core, Types,
                    NetTypes, Commands
      <4>2. Asking' > 0 => negotiating'
        BY <2>2, <4>1
      <4>3. enders' > 0 => sent'["CAP_END"] > 0
        <5>1. CASE up
          BY <2>1, <4>1, <5>1
        <5>2. CASE ~up
          BY <2>1, <4>1, <5>2 DEF Open
        <5>3. QED
          BY <5>1, <5>2
      <4>4. QED
        BY <4>2, <4>3 DEF Open
    <3>3. QED
      BY <2>4, <3>1, <3>2 DEF Goroutines
  <2>5. CASE ~Goroutines
    <3>1. UNCHANGED <<negotiating, enders>>
      <4>1. CASE HandleCapLS \/ HandleCapACK \/ HandleCapNAK
        BY <4>1, CapMoved DEF Core
      <4>2. CASE ~(HandleCapLS \/ HandleCapACK \/ HandleCapNAK)
        BY <1>3, <2>5, <4>2 DEF Next, Handle, HandleCapDEL, HandleCapNEW, KeepsOn,
         HandleCapEndReady, HandlePreEnd, HandleAuthenticate, HandleSASLSuccess, HandleSASLFail,
         HandleOutcome, SASLOnly, HandleNickInUse, HandleWelcome, RegOnly, HandlePing, Goroutines,
         SASLTimerExpires, SASLTimeout, RegTimerExpires, RegTimeout, Server,
         HearCapLS, SendCapLS, HearCapReq, HearCapEnd, HearAuthenticate, HearAuthData,
         HearAuthAbort, HearNick, HearUser, AskPong, HearPong, Welcome, JudgeAuth, ChangeCaps,
         LinkLost, ServerOnly, caps
      <4>3. QED
        BY <4>1, <4>2
    <3>2. Asking' > 0 => negotiating'
      BY <2>2, <3>1
    <3>3. enders' > 0 => sent'["CAP_END"] > 0
      BY <2>1, <2>3, <3>1 DEF Open
    <3>4. QED
      BY <3>2, <3>3 DEF Open
  <2>6. QED
    BY <2>4, <2>5
<1>4. QED
  BY <1>1, <1>2, <1>3

\* Without changes the capabilities come and go by no event.
LEMMA NoChangeKept ==
  ASSUME OneAnswer, Types, NoChange, Next
  PROVE  NoChange' /\ ~ChangeCaps /\ ~HandleCapDEL /\ ~HandleCapNEW
<1>1. ~ChangeCaps
  BY DEF ChangeCaps, OneAnswer, NoChange
<1>2. ~HandleCapDEL /\ ~HandleCapNEW
  <2>1. ASSUME NEW type, On(type) PROVE QueueHas(type)
    <3>1. queue # <<>> /\ queue \in Seq(Event) /\ Head(queue).type = type
      BY <2>1 DEF On, Types, NetTypes
    <3>2. QED
      BY <3>1, ToSetFacts DEF QueueHas
  <2>2. QED
    BY <2>1 DEF HandleCapDEL, HandleCapNEW, NoChange
<1>3. news' = news
  BY <1>1 DEF Next, Handle, HandleConnected, HandleCapLS, HandleCapACK, HandleCapNAK,
     HandleCapAnswer, HandleCapDEL, HandleCapNEW, CapsOnly, HandleCapEndReady, HandlePreEnd,
     HandleAuthenticate, HandleSASLSuccess, HandleSASLFail, HandleOutcome, SASLOnly,
     HandleNickInUse, HandleWelcome, RegOnly, HandlePing, WaiterReady, WaiterTimeout, SendCapEnd,
     NegotiationEnds, SASLTimerExpires, SASLTimeout, RegTimerExpires, RegTimeout, Server,
     HearCapLS, SendCapLS, HearCapReq, HearCapEnd, HearAuthenticate, HearAuthData,
     HearAuthAbort, HearNick, HearUser, AskPong, HearPong, Welcome, JudgeAuth,
     LinkLost, server
<1>4. ASSUME NEW types, Adds(types), "cap_new" \notin types, "cap_del" \notin types
      PROVE  ~QueueHas("cap_new")' /\ ~QueueHas("cap_del")'
  BY <1>4 DEF Adds, QueueHas, NoChange
<1>5. \E types : Adds(types) /\ "cap_new" \notin types /\ "cap_del" \notin types
  <2>1. CASE HandleConnected \/ HandleOthers
    BY <2>1, HandledAdds DEF HandleOthers
  <2>2. CASE Timers \/ Goroutines \/ LinkLost
    BY <2>2, UnaskedAdds
  <2>3. CASE Server \/ JudgeAuth
    BY <2>3, UnaskedAdds DEF Server
  <2>4. QED
    BY <1>1, <2>1, <2>2, <2>3 DEF Next, Handle, HandleOthers, Timers, Goroutines
<1>6. QED
  BY <1>1, <1>2, <1>3, <1>4, <1>5 DEF NoChange

LEMMA GivenKept == ASSUME Next PROVE UNCHANGED given
  BY DEF Next, Handle, HandleConnected, HandleCapLS, HandleCapACK, HandleCapNAK,
     HandleCapAnswer, HandleCapDEL, HandleCapNEW, CapsOnly, HandleCapEndReady, HandlePreEnd,
     HandleAuthenticate, HandleSASLSuccess, HandleSASLFail, HandleOutcome, SASLOnly,
     HandleNickInUse, HandleWelcome, RegOnly, HandlePing, WaiterReady, WaiterTimeout, SendCapEnd,
     NegotiationEnds, SASLTimerExpires, SASLTimeout, RegTimerExpires, RegTimeout, Server,
     HearCapLS, SendCapLS, HearCapReq, HearCapEnd, HearAuthenticate, HearAuthData,
     HearAuthAbort, HearNick, HearUser, AskPong, HearPong, Welcome, JudgeAuth, ChangeCaps,
     LinkLost, server

\* The SASL handler is subscribed only with credentials.
LEMMA WithoutSASLKept ==
  ASSUME WithoutSASL, Next
  PROVE  WithoutSASL'
<1>1. UNCHANGED given
  BY GivenKept
<1>2. SUFFICES ASSUME ~SASLUsed, saslState = "Inactive", saslTimer = "off"
               PROVE  saslState' = "Inactive" /\ saslTimer' = "off"
  BY <1>1 DEF WithoutSASL, SASLUsed
<1>3. CASE UNCHANGED sasl
  BY <1>2, <1>3 DEF sasl
<1>4. CASE HandlePreEnd
  BY <1>2, <1>4 DEF HandlePreEnd
<1>5. ASSUME NEW plus \in BOOLEAN, HandleAuthenticate(plus) PROVE UNCHANGED sasl
  BY <1>2, <1>5 DEF HandleAuthenticate
<1>6. CASE HandleSASLSuccess \/ HandleSASLFail
  BY <1>2, <1>3, <1>6 DEF HandleSASLSuccess, HandleSASLFail, HandleOutcome
<1>7. ~SASLTimerExpires /\ ~SASLTimeout
  BY <1>2 DEF SASLTimerExpires, SASLTimeout
<1>8. QED
  BY <1>3, <1>4, <1>5, <1>6, <1>7
  DEF Next, Handle, HandleConnected, HandleCapLS, HandleCapACK, HandleCapNAK,
     HandleCapAnswer, HandleCapDEL, HandleCapNEW, CapsOnly, HandleCapEndReady,
     HandleNickInUse, HandleWelcome, RegOnly, HandlePing, WaiterReady, WaiterTimeout, SendCapEnd,
     NegotiationEnds, RegTimerExpires, RegTimeout, Server,
     HearCapLS, SendCapLS, HearCapReq, HearCapEnd, HearAuthenticate, HearAuthData,
     HearAuthAbort, HearNick, HearUser, AskPong, HearPong, Welcome, JudgeAuth, ChangeCaps,
     LinkLost, ServerOnly

\* A handler takes an event and emits a sequence of events.
LEMMA HandlersEmit ==
  ASSUME Types, HandleOthers
  PROVE  queue # <<>> /\ \E es \in Seq(Event) : Emits(es)
<1> DEFINE Emitting == \E es \in Seq(Event) : Emits(es)
<1>1. /\ <<>> \in Seq(Event)
      /\ \A t \in {"sasl_success", "sasl_fail", "cap_end_ready", "registered"} :
           <<Ev(t)>> \in Seq(Event) /\ <<Ev(t), Ev("cap_end_ready")>> \in Seq(Event)
      /\ \A c \in SUBSET RequestedCaps : <<CapEv("cap_pre_end", c)>> \in Seq(Event)
  BY EmittedEvents DEF EventTypes
<1>a. ASSUME NEW es \in Seq(Event), Emits(es) PROVE Emitting
  BY <1>a
<1>2. queue # <<>>
  BY DEF HandleOthers, HandleCapLS, HandleCapACK, HandleCapNAK, HandleCapAnswer,
     HandleCapDEL, HandleCapNEW, HandleCapEndReady, HandlePreEnd, HandleAuthenticate,
     HandleSASLSuccess, HandleSASLFail, HandleOutcome, HandleNickInUse, HandleWelcome,
     HandlePing, On
<1>c. SUFFICES Emitting
  BY <1>2
<1>3. ASSUME NEW active \in SUBSET RequestedCaps, EndNegotiation(active) \/ KeepsOn
      PROVE  Emitting
  BY <1>1, <1>3 DEF EndNegotiation, KeepsOn
<1> HIDE DEF Emitting
<1>4. CASE HandleCapLS
  <2>1. EndNegotiation(acked) \/ KeepsOn
    BY <1>4 DEF HandleCapLS
  <2>2. acked \in SUBSET RequestedCaps
    BY DEF Types, CapsTypes
  <2>3. QED
    BY <1>3, <2>1, <2>2
<1>5. CASE HandleCapACK \/ HandleCapNAK
  <2>1. EndNegotiation(acked') \/ KeepsOn
    BY <1>5 DEF HandleCapACK, HandleCapNAK, HandleCapAnswer
  <2>2. acked' \in SUBSET RequestedCaps
    BY <1>5, CapHandlersTypes DEF Types, CapsTypes
  <2>3. QED
    BY <1>3, <2>1, <2>2
<1>6. CASE HandlePreEnd
  <2>1. \E es \in {<<>>, <<Ev("cap_end_ready")>>, <<Ev("sasl_fail"), Ev("cap_end_ready")>>} :
          Emits(es)
    BY <1>6 DEF HandlePreEnd
  <2>2. QED
    BY <1>1, <1>a, <2>1
<1>7. ASSUME NEW timer, NEW es \in Seq(Event), Concludes(timer, es) PROVE Emitting
  BY <1>2, <1>7, ConcludesCounts DEF Emitting
<1>8. ASSUME NEW plus \in BOOLEAN, HandleAuthenticate(plus) PROVE Emitting
  <2>1. \/ Emits(<<>>)
        \/ \E es \in {<<>>, <<Ev("sasl_fail")>>} :
             Concludes(saslTimer, es) \/ Concludes(Stopped(saslTimer), es)
    BY <1>8 DEF HandleAuthenticate
  <2>2. QED
    BY <1>1, <1>7, <1>a, <2>1
<1>9. CASE HandleSASLSuccess \/ HandleSASLFail
  <2>1. \/ Emits(<<>>)
        \/ \E t \in {"sasl_success", "sasl_fail"} :
             Concludes(Stopped(saslTimer), <<Ev(t), Ev("cap_end_ready")>>)
    BY <1>9 DEF HandleSASLSuccess, HandleSASLFail, HandleOutcome
  <2>2. ASSUME NEW t \in {"sasl_success", "sasl_fail"},
               Concludes(Stopped(saslTimer), <<Ev(t), Ev("cap_end_ready")>>)
        PROVE  Emitting
    <3> DEFINE es == <<Ev(t), Ev("cap_end_ready")>>
    <3>1. es \in Seq(Event) /\ Concludes(Stopped(saslTimer), es)
      BY <1>1, <2>2
    <3> HIDE DEF es
    <3>2. QED
      BY <1>7, <3>1
  <2>3. QED
    BY <1>1, <1>a, <2>1, <2>2
<1>10. CASE HandleWelcome
  <2>1. \E es \in {<<>>, <<Ev("registered")>>} : Emits(es)
    BY <1>10 DEF HandleWelcome
  <2>2. QED
    BY <1>1, <1>a, <2>1
<1>b. CASE Emits(<<>>)
  BY <1>1, <1>a, <1>b
<1>11. QED
  BY <1>b, <1>4, <1>5, <1>6, <1>8, <1>9, <1>10 DEF HandleOthers, HandleCapDEL,
     HandleCapNEW, KeepsOn, HandleCapEndReady, HandleNickInUse, HandlePing

\* Only its handler takes an ACK out of the channel, only the answer to CAP REQ is one.
LEMMA AcksKept ==
  ASSUME Core, Next, ~HandleConnected, ~HandleCapACK, ~HandleCapNAK, ~HearCapReq
  PROVE  /\ \A e \in ToSet(queue') : e.type = "cap_ack" => e \in ToSet(queue)
         /\ QueueHas("cap_ack") => QueueHas("cap_ack")'
<1>1. Types /\ NetTypes
  BY DEF Core, Types
<1>2. CASE HandleOthers
  <2>1. \E types : Adds(types) /\ "cap_ack" \notin types
    BY <1>1, <1>2, HandledAdds DEF HandleOthers
  <2>2. PICK es \in Seq(Event) : Emits(es)
    BY <1>1, <1>2, HandlersEmit
  <2>3. queue # <<>> /\ Head(queue).type # "cap_ack"
    BY <1>2 DEF HandleOthers, HandleCapLS, HandleCapACK, HandleCapNAK,
     HandleCapDEL, HandleCapNEW, HandleCapEndReady, HandlePreEnd, HandleAuthenticate,
     HandleSASLSuccess, HandleSASLFail, HandleOutcome, HandleNickInUse, HandleWelcome,
     HandlePing, On
  <2>4. ToSet(queue) \subseteq ToSet(queue') \cup {Head(queue)}
    BY <1>1, <2>2, <2>3, EmitsFacts
  <2>5. QED
    BY <2>1, <2>3, <2>4 DEF Adds, QueueHas
<1>3. CASE Timers \/ Goroutines \/ LinkLost \/ Server \/ JudgeAuth \/ ChangeCaps
  <2>1. \E types : Adds(types) /\ "cap_ack" \notin types
    BY <1>1, <1>3, UnaskedAdds DEF Server
  <2>2. queue' = queue \/ \E es \in Seq(Event) : EmitsFromOutside(es)
    <3>1. /\ \A t \in EventTypes : <<Ev(t)>> \in Seq(Event)
          /\ \A t \in EventTypes : \A c \in SUBSET RequestedCaps : <<CapEv(t, c)>> \in Seq(Event)
          /\ <<Ev("sasl_success"), Ev("sasl_success")>> \in Seq(Event)
      <4>1. "sasl_success" \in EventTypes
        BY DEF EventTypes
      <4>2. QED
        BY <4>1, EmittedEvents
    <3>2. CASE SendCapLS
      <4>1. Head(lsLeft) \in SUBSET RequestedCaps
        BY <1>1, <3>2, HeadTailProperties DEF SendCapLS, Types, ServerTypes
      <4>2. QED
        BY <3>1, <3>2, <4>1 DEF SendCapLS, EventTypes
    <3>3. CASE ChangeCaps
      <4>1. \E c \in RequestedCaps : \E t \in {"cap_del", "cap_new"} :
              EmitsFromOutside(<<CapEv(t, {c})>>)
        BY <3>3 DEF ChangeCaps
      <4>2. QED
        BY <3>1, <4>1 DEF EventTypes
    <3>4. CASE SASLTimeout \/ HearCapEnd \/ HearAuthenticate \/ HearAuthAbort \/ JudgeAuth
                 \/ HearNick \/ AskPong \/ Welcome
      <4>1. \/ queue' = queue
            \/ \E t \in {"sasl_fail", "sasl_plus", "sasl_challenge", "nick_in_use", "ping",
                         "registered"} : EmitsFromOutside(<<Ev(t)>>)
            \/ EmitsFromOutside(<<Ev("sasl_success"), Ev("sasl_success")>>)
        BY <3>4 DEF SASLTimeout, HearCapEnd, HearAuthenticate, HearAuthAbort, JudgeAuth,
           HearNick, AskPong, Welcome
      <4>2. QED
        BY <3>1, <4>1 DEF EventTypes
    <3>5. QED
      BY <1>3, <3>2, <3>3, <3>4
      DEF Timers, Goroutines, Server, SASLTimerExpires, RegTimerExpires, RegTimeout, WaiterReady,
         WaiterTimeout, SendCapEnd, NegotiationEnds, LinkLost, HearCapLS, HearCapReq, HearAuthData,
         HearUser, HearPong, net
  <2>3. ToSet(queue) \subseteq ToSet(queue')
    BY <1>1, <2>2, OutsideFacts
  <2>4. QED
    BY <2>1, <2>3 DEF Adds, QueueHas
<1>4. QED
  BY <1>2, <1>3 DEF Next, Handle, HandleOthers, Timers, Goroutines

\* The server's answer is on its way when it has enabled what the client has not.
LEMMA AgreementKept ==
  ASSUME OneAnswer, Core, Types', OnePlace, Open, NoChange, Answered, CapsAgree, Next
  PROVE  Answered' /\ CapsAgree'
<1>1. NetTypes /\ Types
  BY DEF Core, Types
<1>2. /\ Queued({"cap_ack"}) <=> QueueHas("cap_ack")
      /\ Queued({"cap_ack"})' <=> QueueHas("cap_ack")'
  BY DEF Queued, QueueHas, ToSet
<1>3. ASSUME UNCHANGED <<acked, srvAcked>>,
             \A e \in ToSet(queue') : e.type = "cap_ack" => e \in ToSet(queue),
             QueueHas("cap_ack") => QueueHas("cap_ack")'
      PROVE  Answered' /\ CapsAgree'
  BY <1>2, <1>3 DEF Answered, CapsAgree
<1>4. CASE HandleConnected
  <2>1. QueueHas("connected") /\ queue # <<>> /\ Emits(<<>>)
    <3>1. queue # <<>> /\ Emits(<<>>) /\ Head(queue).type = "connected"
      BY <1>1, <1>4, ConnectedFacts
    <3>2. Head(queue) \in ToSet(queue)
      BY <1>1, <3>1, ToSetFacts DEF NetTypes
    <3>3. QED
      BY <3>1, <3>2 DEF QueueHas
  <2>2. queue = <<Ev("connected")>> /\ acked = {} /\ srvAcked = {}
    BY <2>1 DEF Core, Untouched
  <2>3. \A e \in ToSet(queue) : e.type = "connected"
    <3>1. ToSet(<<Ev("connected")>>) = {Ev("connected")}
      BY EmittedEvents DEF EventTypes
    <3>2. QED
      BY <2>2, <3>1, EventTypeOf
  <2>4. ToSet(queue') \subseteq ToSet(queue)
    <3>1. ToSet(queue') \subseteq ToSet(queue) \cup ToSet(<<>>)
      BY <1>1, <2>1, EmittedEvents, EmitsFacts
    <3>2. QED
      BY <3>1, EmittedEvents
  <2>5. UNCHANGED <<acked, srvAcked>>
    BY <1>4 DEF HandleConnected, server
  <2>6. QED
    BY <2>2, <2>3, <2>4, <2>5 DEF Answered, CapsAgree
<1>5. CASE HandleCapACK
  <2> DEFINE granted == Head(queue).caps
  <2>1. /\ On("cap_ack") /\ negotiating
    BY <1>1, <1>5, NegotiationOn DEF HandleCapACK, HandleCapAnswer, Core
  <2>2. acked' = acked \cup granted /\ srvAcked' = srvAcked
    BY <1>5, <2>1 DEF HandleCapACK, HandleCapAnswer, CapsOnly, server
  <2>3. Head(queue) \in ToSet(queue) /\ Head(queue).type = "cap_ack"
    <3>1. queue # <<>> /\ Head(queue).type = "cap_ack"
      BY <2>1 DEF On
    <3>2. QED
      BY <1>1, <3>1, ToSetFacts DEF NetTypes
  <2>4. srvAcked = acked \cup granted
    BY <2>3 DEF Answered
  <2>5. \A e \in ToSet(queue') : e.type = "cap_ack" => e \in ToSet(queue)
    BY <1>1, <1>5, HandledAdds DEF Adds
  <2> HIDE DEF granted
  <2>6. Answered'
    BY <2>2, <2>4, <2>5 DEF Answered
  <2>7. QED
    BY <2>2, <2>4, <2>6 DEF CapsAgree
<1>6. CASE HandleCapNAK
  <2>1. /\ On("cap_nak") /\ negotiating
    BY <1>1, <1>6, NegotiationOn DEF HandleCapNAK, HandleCapAnswer, Core
  <2>2. acked' = acked /\ srvAcked' = srvAcked
    BY <1>6, <2>1 DEF HandleCapNAK, HandleCapAnswer, CapsOnly, server
  <2>3. \A e \in ToSet(queue') : e.type = "cap_ack" => e \in ToSet(queue)
    BY <1>1, <1>6, HandledAdds DEF Adds
  <2>4. PICK es \in Seq(Event) : Emits(es)
    BY <1>1, <1>6, HandlersEmit DEF HandleOthers
  <2>5. queue # <<>> /\ Head(queue).type = "cap_nak"
    BY <2>1 DEF On
  <2>6. QueueHas("cap_ack") => QueueHas("cap_ack")'
    <3>1. ToSet(queue) \subseteq ToSet(queue') \cup {Head(queue)}
      BY <1>1, <2>4, <2>5, EmitsFacts
    <3>2. QED
      BY <2>5, <3>1 DEF QueueHas
  <2>7. QED
    BY <1>3, <2>2, <2>3, <2>6
<1>7. CASE HearCapReq
  <2> DEFINE asked == Head(wire).caps
  <2>1. /\ Hears("CAP_REQ") /\ UNCHANGED acked
        /\ \/ /\ srvAcked' = srvAcked \cup asked
              /\ EmitsFromOutside(<<CapEv("cap_ack", asked)>>)
           \/ EmitsFromOutside(<<CapEv("cap_nak", asked)>>) /\ UNCHANGED srvAcked
    BY <1>7 DEF HearCapReq, ServerOnly, caps
  <2>2. asked \in SUBSET RequestedCaps
    BY <1>1, <2>1, HearsFacts DEF Lines
  <2>3. ~QueueHas("cap_ack")
    <3>1. AskedLines' = AskedLines - 1
      BY <1>1, <2>1, HearsAsked
    <3>2. AskedLines # 0
      BY <1>1, <3>1, NatCountsNext, NatCounts
    <3>3. AskedEvents = 0
      <4>1. Asking <= 1
        BY <1>1, NatCounts DEF OnePlace
      <4>2. Asking = AskedEvents + AskedLines + Len(lsLeft)
        BY DEF Asking
      <4>3. AskedEvents \in Nat /\ AskedLines \in Nat /\ Len(lsLeft) \in Nat
        BY <1>1, NatCounts
      <4>4. QED
        BY <3>2, <4>1, <4>2, <4>3
    <3>4. \A i \in 1 .. Len(queue) : queue[i] \notin AskingEvents
      BY <1>1, <3>3, CountZero DEF AskedEvents, NetTypes
    <3>5. queue \in Seq(Event) /\ DOMAIN queue = 1 .. Len(queue)
      BY <1>1, LenProperties DEF NetTypes
    <3>6. \A i \in DOMAIN queue : queue[i].type # "cap_ack"
      BY <3>4, <3>5 DEF AskingEvents, EventsOf
    <3>7. QED
      BY <3>6 DEF QueueHas, ToSet
  <2>4. acked = srvAcked
    BY <1>2, <2>3 DEF CapsAgree
  <2> HIDE DEF asked
  <2>5. ASSUME NEW type \in {"cap_ack", "cap_nak"}, EmitsFromOutside(<<CapEv(type, asked)>>)
        PROVE  ToSet(queue') = ToSet(queue) \cup {CapEv(type, asked)}
    <3> DEFINE es == <<CapEv(type, asked)>>
    <3>1. es \in Seq(Event) /\ ToSet(es) = {CapEv(type, asked)}
      <4>1. type \in EventTypes
        BY DEF EventTypes
      <4>2. \A c \in SUBSET RequestedCaps :
              <<CapEv(type, c)>> \in Seq(Event) /\ ToSet(<<CapEv(type, c)>>) = {CapEv(type, c)}
        BY <4>1, EmittedEvents
      <4>3. QED
        BY <2>2, <4>2
    <3>2. EmitsFromOutside(es)
      BY <2>5
    <3> HIDE DEF es
    <3>3. QED
      BY <1>1, <3>1, <3>2, OutsideFacts
  <2>6. CASE srvAcked' = srvAcked \cup asked /\ EmitsFromOutside(<<CapEv("cap_ack", asked)>>)
    <3>1. ToSet(queue') = ToSet(queue) \cup {CapEv("cap_ack", asked)}
      BY <2>5, <2>6
    <3>2. /\ CapEv("cap_ack", asked).type = "cap_ack" /\ CapEv("cap_ack", asked).caps = asked
      BY EventTypeOf
    <3>3. QueueHas("cap_ack")'
      BY <3>1, <3>2 DEF QueueHas
    <3>4. Answered'
      BY <2>1, <2>3, <2>4, <2>6, <3>1, <3>2 DEF Answered, QueueHas
    <3>5. QED
      BY <1>2, <3>3, <3>4 DEF CapsAgree
  <2>7. CASE srvAcked' = srvAcked /\ EmitsFromOutside(<<CapEv("cap_nak", asked)>>)
    <3>1. ToSet(queue') = ToSet(queue) \cup {CapEv("cap_nak", asked)}
      BY <2>5, <2>7
    <3>2. CapEv("cap_nak", asked).type = "cap_nak"
      BY EventTypeOf
    <3>3. Answered'
      BY <2>3, <3>1, <3>2 DEF Answered, QueueHas
    <3>4. QED
      BY <2>1, <2>4, <2>7, <3>3 DEF CapsAgree
  <2>8. QED
    BY <2>1, <2>6, <2>7
<1>8. CASE ~(HandleConnected \/ HandleCapACK \/ HandleCapNAK \/ HearCapReq)
  <2>1. /\ \A e \in ToSet(queue') : e.type = "cap_ack" => e \in ToSet(queue)
        /\ QueueHas("cap_ack") => QueueHas("cap_ack")'
    BY <1>8, AcksKept
  <2>2. ~ChangeCaps /\ ~HandleCapDEL
    BY <1>1, NoChangeKept
  <2>3. UNCHANGED <<acked, srvAcked>>
    BY <1>8, <2>2 DEF Next, Handle, HandleCapLS, HandleCapNEW, CapsOnly, HandleCapEndReady,
     HandlePreEnd, HandleAuthenticate, HandleSASLSuccess, HandleSASLFail, HandleOutcome, SASLOnly,
     HandleNickInUse, HandleWelcome, RegOnly, HandlePing, WaiterReady, WaiterTimeout, SendCapEnd,
     NegotiationEnds, SASLTimerExpires, SASLTimeout, RegTimerExpires, RegTimeout, Server,
     HearCapLS, SendCapLS, HearCapReq, HearCapEnd, HearAuthenticate, HearAuthData,
     HearAuthAbort, HearNick, HearUser, AskPong, HearPong, Welcome, JudgeAuth,
     LinkLost, ServerOnly, caps, server
  <2>4. QED
    BY <1>3, <2>1, <2>3
<1>9. QED
  BY <1>4, <1>5, <1>6, <1>7, <1>8

LEMMA EndsOnceKept ==
  ASSUME OneAnswer, Core, Types', OnePlace, Open, NoChange, EndsOnce, Next
  PROVE  EndsOnce'
<1>1. Types
  BY DEF Core
<1>2. /\ Asking \in Nat /\ Ending \in Nat /\ Asking' \in Nat /\ Ending' \in Nat
      /\ waiters \in Nat /\ sent["CAP_END"] \in Nat
  BY <1>1, NatCounts, NatCountsNext
<1>3. Ending' = 0 \/ Ending' = 1
  <2> DEFINE asking2 == Asking'
             ending2 == Ending'
  <2>1. /\ asking2 + ending2 <= Asking + Ending /\ asking2 \in Nat /\ ending2 \in Nat
        /\ Asking + Ending <= 1
    BY <1>2, NextMoved DEF Moved, OnePlace
  <2> HIDE DEF asking2, ending2
  <2>2. ending2 = 0 \/ ending2 = 1
    BY <1>2, <2>1
  <2>3. QED
    BY <2>2 DEF ending2
<1>4. Ending' = 1 => pending' = {}
  <2>1. CASE HandleConnected
    <3>1. QueueHas("connected")
      <4>1. queue # <<>> /\ Head(queue).type = "connected" /\ queue \in Seq(Event)
        BY <1>1, <2>1, ConnectedFacts DEF Types, NetTypes
      <4>2. QED
        BY <4>1, ToSetFacts DEF QueueHas
    <3>2. pending' = pending /\ pending = {}
      BY <2>1, <3>1 DEF HandleConnected, Core, Untouched
    <3>3. QED
      BY <3>2
  <2>2. CASE HandleCapLS \/ HandleCapACK \/ HandleCapNAK
    <3>1. pending' = {} \/ Ending' = 0
      BY <1>1, <2>2, CapMoved DEF Core
    <3>2. QED
      BY <3>1
  <2>3. CASE ~(HandleConnected \/ HandleCapLS \/ HandleCapACK \/ HandleCapNAK)
    <3>1. ~HandleCapNEW /\ ~HandleCapDEL /\ ~ChangeCaps
      BY <1>1, NoChangeKept
    <3>2. UNCHANGED pending
      BY <2>3, <3>1 DEF Next, Handle, HandleCapEndReady,
       HandlePreEnd, HandleAuthenticate, HandleSASLSuccess, HandleSASLFail, HandleOutcome, SASLOnly,
       HandleNickInUse, HandleWelcome, RegOnly, HandlePing, WaiterReady, WaiterTimeout, SendCapEnd,
       NegotiationEnds, SASLTimerExpires, SASLTimeout, RegTimerExpires, RegTimeout, Server,
       HearCapLS, SendCapLS, HearCapReq, HearCapEnd, HearAuthenticate, HearAuthData,
       HearAuthAbort, HearNick, HearUser, AskPong, HearPong, Welcome, JudgeAuth,
       LinkLost, ServerOnly, caps
    <3>3. Ending' = Ending \/ Ending # 0
      <4>1. CASE WaiterReady \/ WaiterTimeout
        <5>1. waiters > 0
          BY <4>1 DEF WaiterReady, WaiterTimeout
        <5>2. QED
          BY <1>2, <5>1 DEF Ending
      <4>2. CASE ~(WaiterReady \/ WaiterTimeout)
        <5>1. UNCHANGED waiters
          BY <2>3, <3>1, <4>2 DEF Next, Handle, HandleCapEndReady,
           HandlePreEnd, HandleAuthenticate, HandleSASLSuccess, HandleSASLFail, HandleOutcome,
           SASLOnly, HandleNickInUse, HandleWelcome, RegOnly, HandlePing,
           NegotiationEnds, SASLTimerExpires, SASLTimeout, RegTimerExpires, RegTimeout, Server,
           HearCapLS, SendCapLS, HearCapReq, HearCapEnd, HearAuthenticate, HearAuthData,
           HearAuthAbort, HearNick, HearUser, AskPong, HearPong, Welcome, JudgeAuth,
           LinkLost, ServerOnly, caps
        <5>2. sent'["CAP_END"] = sent["CAP_END"]
          <6>1. CASE Server \/ JudgeAuth
            BY <6>1 DEF Server, HearCapLS, SendCapLS, HearCapReq, HearCapEnd, HearAuthenticate,
               HearAuthData, HearAuthAbort, HearNick, HearUser, AskPong, HearPong, Welcome,
               JudgeAuth, ServerOnly
          <6>2. CASE ~(Server \/ JudgeAuth)
            <7>1. \E cmds : Sending(cmds) /\ "CAP_END" \notin cmds
              BY <1>1, <2>3, <3>1, <4>2, <6>2, SendingFacts DEF Next, Handle, Timers
            <7>2. QED
              BY <1>1, <7>1, SendingNoEnd
          <6>3. QED
            BY <6>1, <6>2
        <5>3. QED
          BY <5>1, <5>2 DEF Ending
      <4>3. QED
        BY <4>1, <4>2
    <3>4. Ending = 0 \/ Ending = 1
      BY <1>2 DEF OnePlace
    <3>5. Ending = 1 => pending = {}
      BY DEF EndsOnce, Ending
    <3>6. QED
      BY <3>2, <3>3, <3>4, <3>5
  <2>4. QED
    BY <2>1, <2>2, <2>3
<1>5. Ending' <= 1
  BY <1>3
<1>6. QED
  BY <1>4, <1>5 DEF EndsOnce, Ending

\* A signal that counts is there or on its way, and conversely.
LEMMA SignalCount ==
  ASSUME NEW q \in Seq(Event)
  PROVE  Count(q, SignalEvents) # 0
           <=> \E i \in DOMAIN q : q[i].type \in {"cap_pre_end", "cap_end_ready"}
<1>1. DOMAIN q = 1 .. Len(q) /\ \A i \in 1 .. Len(q) : q[i] \in Event
  BY LenProperties
<1>2. Count(q, SignalEvents) = 0 <=> \A i \in 1 .. Len(q) : q[i] \notin SignalEvents
  BY CountZero
<1>3. QED
  BY <1>1, <1>2 DEF SignalEvents, EventsOf

LEMMA WaiterIsOwedKept ==
  ASSUME OneAnswer, Core, Types', OnePlace, Open, NoChange, WaiterIsOwed, Next
  PROVE  WaiterIsOwed'
<1>1. Types /\ queue \in Seq(Event) /\ queue' \in Seq(Event)
  BY DEF Core, Types, NetTypes
<1>2. /\ Signalled \in Nat /\ Active \in Nat /\ readyCh \in Nat /\ Signals \in Nat
      /\ Signalled' \in Nat /\ Active' \in Nat /\ readyCh' \in Nat /\ Signals' \in Nat
      /\ waiters \in Nat /\ waiters' \in Nat
  BY <1>1, NatCounts, NatCountsNext
<1>3. SUFFICES ASSUME waiters' > 0, SASLUsed, ~Excused'
               PROVE  OnItsWay'
  BY GivenKept DEF WaiterIsOwed, SASLUsed, Excused
<1>4. Signals' # 0 => OnItsWay'
  <2>1. Signals' # 0 => Signalled' # 0 \/ Active' # 0 \/ readyCh' # 0
    <3>1. Signalled' = 0 /\ Active' = 0 /\ readyCh' = 0 => Signals' = 0 + 0 + 0
      BY DEF Signals
    <3>2. QED
      BY <3>1
  <2>2. Signalled' # 0 => Queued({"cap_pre_end", "cap_end_ready"})'
    BY <1>1, SignalCount DEF Signalled, Queued
  <2>3. Active' # 0 => SASLActive'
    BY DEF Active
  <2>4. readyCh' # 0 => readyCh' > 0
    BY <1>2
  <2>5. QED
    BY <2>1, <2>2, <2>3, <2>4 DEF OnItsWay
<1>5. OnItsWay => Signals > 0
  <2>1. Queued({"cap_pre_end", "cap_end_ready"}) => Signalled # 0
    BY <1>1, SignalCount DEF Signalled, Queued
  <2>2. SASLActive => Active # 0
    BY DEF Active
  <2>3. QED
    BY <1>2, <2>1, <2>2 DEF OnItsWay, Signals
<1>6. CASE waiters = 0
  <2>1. Signals' > 0
    BY <1>2, <1>3, <1>6, NextMoved DEF Moved
  <2>2. QED
    BY <1>4, <2>1
<1>7. CASE waiters > 0
  <2>1. ~HandleConnected
    <3>1. ASSUME HandleConnected PROVE FALSE
      <4>1. queue # <<>> /\ Head(queue).type = "connected"
        BY <1>1, <3>1, ConnectedFacts
      <4>2. QueueHas("connected")
        BY <1>1, <4>1, ToSetFacts DEF QueueHas
      <4>3. QED
        BY <1>7, <4>2 DEF Core, Untouched
    <3>2. QED
      BY <3>1
  <2>2. ~Excused
    <3>1. up' => up
      BY <2>1 DEF Next, Handle, HandleCapLS, HandleCapACK, HandleCapNAK,
       HandleCapAnswer, HandleCapDEL, HandleCapNEW, CapsOnly, HandleCapEndReady, HandlePreEnd,
       HandleAuthenticate, HandleSASLSuccess, HandleSASLFail, HandleOutcome, SASLOnly,
       HandleNickInUse, HandleWelcome, RegOnly, HandlePing, WaiterReady, WaiterTimeout, SendCapEnd,
       NegotiationEnds, SASLTimerExpires, SASLTimeout, RegTimerExpires, RegTimeout, Server,
       HearCapLS, SendCapLS, HearCapReq, HearCapEnd, HearAuthenticate, HearAuthData,
       HearAuthAbort, HearNick, HearUser, AskPong, HearPong, Welcome, JudgeAuth, ChangeCaps,
       LinkLost, ServerOnly, net
    <3>2. saslLate' = saslLate \/ saslLate' = TRUE
      BY <2>1 DEF Next, Handle, HandleCapLS, HandleCapACK, HandleCapNAK,
       HandleCapAnswer, HandleCapDEL, HandleCapNEW, CapsOnly, HandleCapEndReady, HandlePreEnd,
       HandleAuthenticate, HandleSASLSuccess, HandleSASLFail, HandleOutcome, Concludes,
       HandleNickInUse, HandleWelcome, RegOnly, HandlePing, WaiterReady, WaiterTimeout, SendCapEnd,
       NegotiationEnds, SASLTimerExpires, SASLTimeout, RegTimerExpires, RegTimeout, Server,
       HearCapLS, SendCapLS, HearCapReq, HearCapEnd, HearAuthenticate, HearAuthData,
       HearAuthAbort, HearNick, HearUser, AskPong, HearPong, Welcome, JudgeAuth, ChangeCaps,
       LinkLost, ServerOnly, sasl
    <3>3. sent["AUTHENTICATE_abort"] > 0 => sent'["AUTHENTICATE_abort"] > 0
      <4>1. /\ sent["AUTHENTICATE_abort"] \in Nat
            /\ \/ sent'["AUTHENTICATE_abort"] = sent["AUTHENTICATE_abort"]
               \/ sent'["AUTHENTICATE_abort"] = sent["AUTHENTICATE_abort"] + 1
        BY <1>1, <2>1, SentGrows DEF Commands
      <4>2. QED
        BY <4>1
    <3>4. QED
      BY <1>3, <3>1, <3>2, <3>3 DEF Excused
  <2>3. Signals > 0
    BY <1>3, <1>5, <1>7, <2>2 DEF WaiterIsOwed, Excused
  <2>4. Signals' >= Signals
    BY <1>3, NextMoved DEF Moved
  <2>5. Signals' # 0
    BY <1>2, <2>3, <2>4
  <2>6. QED
    BY <1>4, <2>5
<1>8. QED
  BY <1>2, <1>6, <1>7

LEMMA OnePlaceKept ==
  ASSUME OneAnswer, Core, Types', OnePlace, Open, NoChange, Next
  PROVE  OnePlace'
<1> DEFINE asking2 == Asking'
           ending2 == Ending'
           signals2 == Signals'
<1>1. /\ Asking \in Nat /\ Ending \in Nat /\ Signals \in Nat
      /\ asking2 \in Nat /\ ending2 \in Nat /\ signals2 \in Nat
  BY NatCounts, NatCountsNext DEF Core
<1>2. asking2 + ending2 <= Asking + Ending /\ asking2 + signals2 <= Asking + Signals
  BY NextMoved DEF Moved
<1>3. asking2 + ending2 <= 1 /\ asking2 + signals2 <= 1
  <2> HIDE DEF asking2, ending2, signals2
  <2>1. QED
    BY <1>1, <1>2 DEF OnePlace
<1>4. QED
  BY <1>3 DEF OnePlace

LEMMA InitSingle == ASSUME Init PROVE Single
<1>1. /\ queue = <<Ev("connected")>> /\ wire = <<>> /\ lsLeft = <<>>
      /\ waiters = 0 /\ sent["CAP_END"] = 0 /\ readyCh = 0 /\ enders = 0
      /\ saslState = "Inactive" /\ saslTimer = "off" /\ acked = {} /\ srvAcked = {} /\ news = 0
  BY DEF Init, Commands
<1>2. ToSet(queue) = {Ev("connected")}
  BY <1>1, EmittedEvents DEF EventTypes
<1>3. Count(<<Ev("connected")>>, AskingEvents) = 1 /\ Count(<<Ev("connected")>>, SignalEvents) = 0
  <2> DEFINE first == Ev("connected")
  <2>1. first \in Event /\ first.type = "connected"
    BY EventFacts, EventTypeOf DEF EventTypes
  <2> HIDE DEF first
  <2>2. \A K : Count(<<first>>, K) = One(first, K)
    BY <2>1, CountOne
  <2>3. One(first, AskingEvents) = 1 /\ One(first, SignalEvents) = 0
    BY <2>1, OneEvent DEF AskingEvents, SignalEvents
  <2>4. QED
    BY <2>2, <2>3 DEF first
<1>4. AskedEvents = 1 /\ Signalled = 0 /\ AskedLines = 0 /\ Active = 0 /\ Len(lsLeft) = 0
  <2>1. AskedEvents = 1 /\ Signalled = 0
    BY <1>1, <1>3 DEF AskedEvents, Signalled
  <2>2. AskedLines = 0
    BY <1>1, CountEmpty DEF AskedLines
  <2>3. Active = 0
    BY <1>1 DEF Active, SASLActive
  <2>4. QED
    BY <1>1, <2>1, <2>2, <2>3
<1>5. OnePlace
  BY <1>1, <1>4 DEF OnePlace, Asking, Ending, Signals
<1>6. QueueHas("connected") /\ ~QueueHas("cap_new") /\ ~QueueHas("cap_del")
  BY <1>2, EventTypeOf DEF QueueHas
<1>7. Open /\ NoChange /\ WithoutSASL
  BY <1>1, <1>6 DEF Open, NoChange, WithoutSASL
<1>8. Answered
  BY <1>2, EventTypeOf DEF Answered
<1>9. EndsOnce /\ CapsAgree /\ WaiterIsOwed
  BY <1>1 DEF EndsOnce, CapsAgree, WaiterIsOwed
<1>10. QED
  BY <1>5, <1>7, <1>8, <1>9 DEF Single

LEMMA NextSingle ==
  ASSUME OneAnswer, Core, Core', Single, [Next]_vars
  PROVE  Single'
<1>1. CASE Next
  <2>1. OnePlace /\ Open /\ NoChange /\ Answered /\ WithoutSASL /\ EndsOnce /\ CapsAgree
        /\ WaiterIsOwed /\ Types /\ Types'
    BY DEF Single, Core
  <2>2. OnePlace' /\ Open' /\ NoChange'
    BY <1>1, <2>1, OnePlaceKept, OpenKept, NoChangeKept
  <2>3. Answered' /\ CapsAgree'
    BY <1>1, <2>1, AgreementKept
  <2>4. WithoutSASL' /\ EndsOnce' /\ WaiterIsOwed'
    BY <1>1, <2>1, WithoutSASLKept, EndsOnceKept, WaiterIsOwedKept
  <2>5. QED
    BY <2>2, <2>3, <2>4 DEF Single
<1>2. CASE UNCHANGED vars
  BY <1>2 DEF Single, OnePlace, Asking, AskedEvents, AskedLines, Ending, Signals, Signalled, Active,
     SASLActive, Open, QueueHas, NoChange, Answered, WithoutSASL, SASLUsed, EndsOnce, CapsAgree,
     Queued, WaiterIsOwed, OnItsWay, vars, net, output, caps, sasl, reg, server
<1>3. QED
  BY <1>1, <1>2

LEMMA SafetySingle ==
  ASSUME OneAnswer
  PROVE  Safety => []Single
<1>1. Init => Single
  BY InitSingle
<1>2. Core /\ Core' /\ Single /\ [Next]_vars => Single'
  BY NextSingle
<1>3. QED
  BY <1>1, <1>2, SafetyCore, PTL DEF Safety
-----------------------------------------------------------------------------
(* The properties that need the one answer: HandshakeMultiLine.cfg and     *)
(* HandshakeChanges.cfg have servers without it.                           *)

\* One CAP END is sent and one goroutine waits to send it, after every
\* request was answered: processNewCapabilities and the ACK and NAK handlers
\* call EndCapabilityNegotiation once between them.
THEOREM SafetyEndsOnce ==
  ASSUME OneAnswer
  PROVE  Safety => []EndsOnce
<1>1. Single => EndsOnce
  BY DEF Single
<1>2. QED
  BY <1>1, SafetySingle, PTL

\* The goroutine of EndCapabilityNegotiation gets the signal it waits for,
\* but for the outcomes that the SASL handler does not signal.
THEOREM SafetyWaiterIsOwed ==
  ASSUME OneAnswer
  PROVE  Safety => []WaiterIsOwed
<1>1. Single => WaiterIsOwed
  BY DEF Single
<1>2. QED
  BY <1>1, SafetySingle, PTL

\* The capabilities that HandleCapACK counts as active are those that the
\* server has enabled, unless its answer is still on the way.
THEOREM SafetyCapsAgree ==
  ASSUME OneAnswer
  PROVE  Safety => []CapsAgree
<1>1. Single => CapsAgree
  BY DEF Single
<1>2. QED
  BY <1>1, SafetySingle, PTL

\* readyCh never holds a second token, so the default branch of
\* HandleCapEndReady's select, which drops one, is never taken.
THEOREM SafetyOneToken ==
  ASSUME OneAnswer
  PROVE  Safety => [](readyCh <= 1)
<1>1. ASSUME Core, Single PROVE readyCh <= 1
  <2>1. /\ Signalled \in Nat /\ Active \in Nat /\ readyCh \in Nat /\ Signals \in Nat
        /\ Asking \in Nat
    BY <1>1, NatCounts DEF Core
  <2>2. Signals <= 1
    BY <1>1, <2>1 DEF Single, OnePlace
  <2>3. QED
    BY <2>1, <2>2 DEF Signals
<1>2. QED
  BY <1>1, SafetyCore, SafetySingle, PTL

\* CAP END is not sent while an authentication is under way, unless the 30
\* seconds of EndCapabilityNegotiation are over: a token in readyCh belongs
\* to the only goroutine that waits, and to an authentication that ended.
THEOREM SafetyEndAwaitsSASL ==
  ASSUME OneAnswer
  PROVE  Safety => EndAwaitsSASL
<1> DEFINE Awaits == sent'["CAP_END"] > sent["CAP_END"] => capLate' \/ ~SASLActive
<1>1. ASSUME Core, Core', Single, Next PROVE Awaits
  <2>1. /\ Types /\ Types' /\ sent["CAP_END"] \in Nat /\ "CAP_END" \in Commands
    BY <1>1, NatCounts DEF Core, Commands
  <2>2. CASE WaiterReady
    <3>1. CASE SASLUsed
      <4>1. readyCh > 0
        BY <2>2, <3>1 DEF WaiterReady
      <4>2. /\ Signalled \in Nat /\ Active \in Nat /\ readyCh \in Nat /\ Signals \in Nat
            /\ Asking \in Nat
        BY <2>1, NatCounts
      <4>3. Signals <= 1
        BY <1>1, <4>2 DEF Single, OnePlace
      <4>4. Active = 0
        BY <4>1, <4>2, <4>3 DEF Signals
      <4>5. QED
        BY <4>4 DEF Active
    <3>2. CASE ~SASLUsed
      BY <1>1, <3>2 DEF Single, WithoutSASL, SASLActive
    <3>3. QED
      BY <3>1, <3>2
  <2>3. CASE WaiterTimeout
    BY <2>3 DEF WaiterTimeout
  <2>4. CASE ~(WaiterReady \/ WaiterTimeout)
    <3>1. sent'["CAP_END"] = sent["CAP_END"] \/ sent'["CAP_END"] = 0
      <4>1. CASE HandleConnected
        BY <2>1, <4>1, ConnectedFacts
      <4>2. CASE Server \/ JudgeAuth \/ ChangeCaps
        BY <4>2 DEF Server, HearCapLS, SendCapLS, HearCapReq, HearCapEnd, HearAuthenticate,
           HearAuthData, HearAuthAbort, HearNick, HearUser, AskPong, HearPong, Welcome,
           JudgeAuth, ChangeCaps, ServerOnly
      <4>3. CASE ~(HandleConnected \/ Server \/ JudgeAuth \/ ChangeCaps)
        <5>1. \E cmds : Sending(cmds) /\ "CAP_END" \notin cmds
          BY <1>1, <2>1, <2>4, <4>3, SendingFacts DEF Next, Handle, Timers
        <5>2. QED
          BY <2>1, <5>1, SendingNoEnd
      <4>4. QED
        BY <4>1, <4>2, <4>3
    <3>2. QED
      BY <2>1, <3>1
  <2>5. QED
    BY <2>2, <2>3, <2>4
<1>2. ASSUME Core, Core', Single, [Next]_vars PROVE [Awaits]_vars
  BY <1>1, <1>2
<1>3. QED
  BY <1>2, SafetyCore, SafetySingle, PTL DEF Safety, EndAwaitsSASL
=============================================================================
