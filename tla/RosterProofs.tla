---------------------------- MODULE RosterProofs -----------------------------
(***************************************************************************)
(* What TLAPS proves of the channels' records, for any set of nicks,       *)
(* channels, statuses and topics and any length of the queue: members,     *)
(* status, topic and modes are the server's.                               *)
(***************************************************************************)
EXTENDS ClientStateProofs

(* Records.                                                                *)

ChannelOK(a) ==
  /\ DOMAIN a = {"users", "flags", "topic"}
  /\ DOMAIN a.users \subseteq Nicks
  /\ \A n \in DOMAIN a.users : a.users[n] \subseteq Letters
  /\ a.topic \in [text : Topics \cup {NoTopic}, by : Nicks \cup {NoNick}]

StateOK(s) ==
  /\ DOMAIN s = Fields /\ s.modes \subseteq {"i"}
  /\ DOMAIN s.chans \subseteq Channels
  /\ \A c \in DOMAIN s.chans : ChannelOK(s.chans[c])

RecordOK(ch) ==
  /\ DOMAIN ch = {"users", "modes", "topic", "joined", "mixed"} /\ ch.mixed \in BOOLEAN
  /\ DOMAIN ch.users \subseteq Nicks /\ ch.modes \subseteq Letters \cup Flags
  /\ \A n \in DOMAIN ch.users :
       ch.users[n] \subseteq IF ch.mixed THEN Letters \cup Flags ELSE Letters

\* The Client's record ch shows nobody and nothing that the server's a has not.
Fits(a, ch) ==
  /\ DOMAIN ch.users \subseteq DOMAIN a.users
  /\ ~ch.mixed => \A n \in DOMAIN ch.users : ch.users[n] \subseteq a.users[n]
  /\ ch.modes \cap Flags \subseteq a.flags

\* It shows u, with the highest status if u has it.
Shows(a, ch, u) ==
  /\ u \in DOMAIN ch.users
  /\ ~ch.mixed /\ Head(Ranks) \in a.users[u] => Head(Ranks) \in ch.users[u]

Full(a, ch) == \A u \in DOMAIN a.users : Shows(a, ch, u)

(* Messages.                                                               *)

Is(m, type, c) == m.type = type /\ m.chan = c

MessageOK(m) ==
  /\ m.type \in {"registered", "nick"} => m.new \in Nicks
  /\ m.type = "isupport" => m.ranks = Letters
  /\ m.type \in {"join", "part", "kick"} => m.chan \in Channels /\ m.nick \in Nicks
  /\ m.type \in {"topic", "rpl_topic", "rpl_topicinfo", "names", "names_end"} =>
       m.chan \in Channels
  /\ m.type = "names" => /\ DOMAIN m.list \subseteq Nicks
                         /\ \A n \in DOMAIN m.list : m.list[n] \subseteq Letters
  /\ m.type = "mode" =>
       \/ /\ m.target \in Channels
          /\ \E changes \in ModeChanges(Nicks) : m = ModeLine(m.target, changes)
       \/ m.target \in Nicks /\ \E on \in BOOLEAN : m = OwnModeLine(m.target, on)

\* m changes the record of a channel c that the client is in and stays in.
Concerns(m, c) ==
  \/ m.type \in {"quit", "nick"}
  \/ m.type \in {"join", "part", "kick", "topic"} /\ m.chan = c
  \/ m.type = "mode" /\ m.target = c

\* The server's record of c was a and is b after m.
ChannelAfter(m, c, a, b) ==
  /\ ~Concerns(m, c) => b = a
  /\ Is(m, "join", c) => b = [a EXCEPT !.users = With(a.users, m.nick, {})]
  /\ Is(m, "part", c) \/ Is(m, "kick", c) \/ m.type = "quit" =>
       b = [a EXCEPT !.users = Without(a.users, m.nick)]
  /\ m.type = "nick" => /\ m.new # m.old /\ m.new \notin DOMAIN a.users
                        /\ b = [a EXCEPT !.users = Renamed(a.users, m.old, m.new)]
  /\ m.type = "mode" /\ m.target = c =>
       \E changes \in ModeChanges(DOMAIN a.users) :
         m = ModeLine(c, changes) /\ b = AllMeant(a, changes)
  /\ Is(m, "topic", c) => b = [a EXCEPT !.topic = [text |-> m.text, by |-> m.by]]

\* The Client's record of c was ch and is d after m.
RecordAfter(m, c, ch, d) ==
  /\ ~Concerns(m, c) /\ m.type \notin {"rpl_topic", "rpl_topicinfo", "names"} => d = ch
  /\ m.type \in {"rpl_topic", "rpl_topicinfo", "names"} /\ m.chan # c => d = ch
  /\ Is(m, "join", c) => d = [ch EXCEPT !.users = With(ch.users, m.nick, {})]
  /\ Is(m, "part", c) \/ Is(m, "kick", c) \/ m.type = "quit" =>
       d = [ch EXCEPT !.users = Without(ch.users, m.nick)]
  /\ m.type = "nick" => d = [ch EXCEPT !.users = RenameUser(ch.users, m.old, m.new)]
  /\ m.type = "mode" /\ m.target = c => d = WithModes(m, ch)
  /\ Is(m, "topic", c) => d = [ch EXCEPT !.topic = [text |-> m.text, by |-> m.by]]
  /\ Is(m, "rpl_topic", c) => d = [ch EXCEPT !.topic = [text |-> m.text, by |-> NoNick]]
  /\ Is(m, "rpl_topicinfo", c) =>
       d = [ch EXCEPT !.topic = [text |-> ch.topic.text, by |-> m.by]]
  /\ Is(m, "names", c) =>
       d = [ch EXCEPT !.users = [n \in DOMAIN m.list \cup DOMAIN ch.users |->
                                   IF n \in DOMAIN m.list THEN m.list[n] ELSE ch.users[n]]]

\* What the answers to JOIN and NAMES say is so.
AnswerOK(m, t) ==
  m.type \in {"names", "rpl_topic", "rpl_topicinfo"} /\ m.chan \in DOMAIN t.chans =>
    LET b == t.chans[m.chan]
    IN  /\ m.type = "rpl_topic" => m.text = b.topic.text
        /\ m.type = "rpl_topicinfo" => m.by = b.topic.by
        /\ m.type = "names" => /\ DOMAIN m.list \subseteq DOMAIN b.users
                               /\ \A n \in DOMAIN m.list : m.list[n] = Highest(b.users[n])

ModesAfter(s, m, t) ==
  IF m.type = "mode" /\ m.target \in Nicks
  THEN \E on \in BOOLEAN : /\ m = OwnModeLine(s.nick, on)
                           /\ t.modes = Toggled(s.modes, on, "i")
  ELSE m.type # "lost" => t.modes = s.modes

\* m tells of the server's change from s to t.
Tells(s, m, t) ==
  /\ MessageOK(m) /\ StateOK(t) /\ AnswerOK(m, t) /\ ModesAfter(s, m, t)
  /\ m.type = "join" /\ m.nick = s.nick => m.chan \notin DOMAIN s.chans
  /\ \A c \in DOMAIN t.chans :
       IF c \in DOMAIN s.chans THEN ChannelAfter(m, c, s.chans[c], t.chans[c])
       ELSE Is(m, "join", c) /\ m.nick = s.nick /\ s.nick \in DOMAIN t.chans[c].users

(* The queue.                                                              *)

Links == /\ StateOK(seen)
         /\ \A i \in DOMAIN queue : Tells(Before(i), queue[i].msg, queue[i].after)

\* The prefixes are known, or 005 comes before anything else.
Informed ==
  \/ link = "new"
  \/ prefixes = Letters
  \/ Len(queue) >= 1 /\ queue[1].msg.type = "isupport"
  \/ Len(queue) >= 2 /\ queue[1].msg.type = "registered" /\ queue[2].msg.type = "isupport"

OwnJoinAt(i, c) == Is(queue[i].msg, "join", c) /\ queue[i].msg.nick = Before(i).nick

\* The topic's two lines follow the client's JOIN, and nothing else.
TopicLinesAt(i) ==
  LET m == queue[i].msg
  IN  /\ OwnJoinAt(i, m.chan) /\ m.chan \in DOMAIN queue[i].after.chans =>
           \/ queue[i].after.chans[m.chan].topic = Untitled
           \/ i + 1 \in DOMAIN queue /\ Is(queue[i + 1].msg, "rpl_topic", m.chan)
      /\ m.type = "rpl_topic" =>
           /\ i + 1 \in DOMAIN queue /\ Is(queue[i + 1].msg, "rpl_topicinfo", m.chan)
           /\ i > 1 => OwnJoinAt(i - 1, m.chan)
      /\ m.type = "rpl_topicinfo" /\ i > 1 => Is(queue[i - 1].msg, "rpl_topic", m.chan)

TopicLinesFollow == \A i \in DOMAIN queue : TopicLinesAt(i)

\* From j to i there are lines of NAMES only, with the state t.
NamesUpTo(j, i, t) == \A k \in j .. i - 1 : queue[k].msg.type = "names" /\ queue[k].after = t

\* Before NAMES of c ends at i, with the state t, u is listed or is shown already.
ListedBefore(i, c, t, u) ==
  \/ \E j \in 1 .. i - 1 : /\ Is(queue[j].msg, "names", c) /\ u \in DOMAIN queue[j].msg.list
                           /\ NamesUpTo(j, i, t)
  \/ NamesUpTo(1, i, t) /\ c \in DOMAIN chans /\ Shows(t.chans[c], chans[c], u)

ListsComplete ==
  \A i \in DOMAIN queue, c \in Channels : \A t \in {queue[i].after} :
    Is(queue[i].msg, "names_end", c) /\ c \in DOMAIN t.chans =>
      \A u \in DOMAIN t.chans[c].users : ListedBefore(i, c, t, u)

(* The Client.                                                             *)

ClientOK ==
  /\ link \in {"new", "registered", "lost"} /\ granted \in Nicks \cup {NoNick}
  /\ connNick \in Nicks /\ nick \in Nicks /\ umodes \subseteq {"i"}
  /\ prefixes \in {{"o", "v"}, Letters}
  /\ DOMAIN chans \subseteq Channels /\ announced \subseteq Channels
  /\ \A c \in DOMAIN chans : RecordOK(chans[c])

\* The topic of c is the server's, or its lines come next.
TopicRight(c) ==
  \/ chans[c].topic = seen.chans[c].topic
  \/ queue # <<>> /\ Is(Event, "rpl_topic", c)
  \/ /\ queue # <<>> /\ Is(Event, "rpl_topicinfo", c)
     /\ chans[c].topic.text = seen.chans[c].topic.text

Right ==
  \A c \in DOMAIN seen.chans :
    /\ c \in DOMAIN chans /\ Fits(seen.chans[c], chans[c]) /\ TopicRight(c)
    /\ c \in announced =>
         /\ Full(seen.chans[c], chans[c])
         /\ queue # <<>> => ~Is(Event, "rpl_topic", c) /\ ~Is(Event, "rpl_topicinfo", c)

OwnModesRight ==
  link # "lost" => /\ \A i \in DOMAIN queue : queue[i].msg.type # "lost"
                   /\ ~Misnamed => umodes = seen.modes

Roster == /\ IInv /\ ClientOK /\ Links /\ Informed /\ TopicLinesFollow /\ ListsComplete
          /\ OwnModesRight /\ (~Misnamed => Right)
-----------------------------------------------------------------------------
(* The letters of a MODE message, one after the other.                     *)

\* What one letter does to the Client's record, given the argument it gets.
Letter(ch, on, letter, arg) ==
  [ch EXCEPT !.modes = Toggled(@, on, letter),
             !.mixed = @ \/ (letter \in Flags /\ arg # NoNick),
             !.users = [n \in DOMAIN @ |-> IF n = arg THEN Toggled(@[n], on, letter) ELSE @[n]]]

LEMMA OneLetter ==
  ASSUME NEW m, NEW ch, RecordOK(ch), Len(m.letters) = 1
  PROVE  WithModes(m, ch) = ModeApplied(m, ch, 1)
<1> DEFINE f == CHOOSE g : g = [i \in 0 .. 1 |-> IF i = 0 THEN ch ELSE ModeApplied(m, g[i - 1], i)]
<1>1. f = [i \in 0 .. 1 |-> IF i = 0 THEN ch ELSE ModeApplied(m, f[i - 1], i)]
  <2> DEFINE w == [i \in 0 .. 1 |-> IF i = 0 THEN ch ELSE ModeApplied(m, ch, 1)]
  <2>1. w = [i \in 0 .. 1 |-> IF i = 0 THEN ch ELSE ModeApplied(m, w[i - 1], i)]
    OBVIOUS
  <2>2. QED
    BY <2>1
<1>2. WithModes(m, ch) = [ch EXCEPT !.modes = f[1].modes, !.users = f[1].users,
                                    !.mixed = f[1].mixed]
  BY DEF WithModes
<1> HIDE DEF f
<1>3. f[1] = ModeApplied(m, ch, 1)
  BY <1>1
<1>4. PICK end : end = ModeApplied(m, ch, 1)
  OBVIOUS
<1>5. end = [ch EXCEPT !.modes = end.modes, !.users = end.users, !.mixed = end.mixed]
  BY <1>4 DEF ModeApplied, RecordOK
<1>6. QED
  BY <1>2, <1>3, <1>4, <1>5

LEMMA TwoLetters ==
  ASSUME NEW m, NEW ch, RecordOK(ch), Len(m.letters) = 2
  PROVE  WithModes(m, ch) = ModeApplied(m, ModeApplied(m, ch, 1), 2)
<1> DEFINE f == CHOOSE g : g = [i \in 0 .. 2 |-> IF i = 0 THEN ch ELSE ModeApplied(m, g[i - 1], i)]
           first == ModeApplied(m, ch, 1)
           end == ModeApplied(m, first, 2)
<1>1. f = [i \in 0 .. 2 |-> IF i = 0 THEN ch ELSE ModeApplied(m, f[i - 1], i)]
  <2> DEFINE w == [i \in 0 .. 2 |-> IF i = 0 THEN ch ELSE IF i = 1 THEN first ELSE end]
  <2>1. w = [i \in 0 .. 2 |-> IF i = 0 THEN ch ELSE ModeApplied(m, w[i - 1], i)]
    OBVIOUS
  <2>2. QED
    BY <2>1
<1>2. WithModes(m, ch) = [ch EXCEPT !.modes = f[2].modes, !.users = f[2].users,
                                    !.mixed = f[2].mixed]
  BY DEF WithModes
<1> HIDE DEF f
<1>3. f[2] = end
  <2>1. f[1] = first
    BY <1>1
  <2>2. QED
    BY <2>1, <1>1
<1>4. end = [first EXCEPT !.modes = end.modes, !.users = end.users, !.mixed = end.mixed]
  <2>1. DOMAIN first = DOMAIN ch
    BY DEF ModeApplied
  <2> HIDE DEF first
  <2>2. QED
    BY <2>1 DEF ModeApplied, RecordOK
<1>5. PICK x, y, z : first = [ch EXCEPT !.modes = x, !.mixed = y, !.users = z]
  BY DEF ModeApplied
<1> HIDE DEF first, end
<1>6. [first EXCEPT !.modes = end.modes, !.users = end.users, !.mixed = end.mixed]
        = [ch EXCEPT !.modes = end.modes, !.users = end.users, !.mixed = end.mixed]
  BY <1>5 DEF RecordOK
<1>7. QED
  BY <1>2, <1>3, <1>4, <1>6 DEF end, first

\* The fields of a record that a letter has changed.
LEMMA LetterFields ==
  ASSUME NEW ch, RecordOK(ch), NEW on, NEW letter, NEW arg, NEW d,
         d = Letter(ch, on, letter, arg)
  PROVE  /\ DOMAIN d = {"users", "modes", "topic", "joined", "mixed"}
         /\ d.topic = ch.topic /\ d.joined = ch.joined
         /\ d.modes = Toggled(ch.modes, on, letter)
         /\ d.mixed \in BOOLEAN
         /\ d.mixed <=> (ch.mixed \/ (letter \in Flags /\ arg # NoNick))
         /\ DOMAIN d.users = DOMAIN ch.users
         /\ \A n \in DOMAIN ch.users :
              d.users[n] = IF n = arg THEN Toggled(ch.users[n], on, letter) ELSE ch.users[n]
<1> DEFINE users == [n \in DOMAIN ch.users |->
                      IF n = arg THEN Toggled(ch.users[n], on, letter) ELSE ch.users[n]]
           modes == Toggled(ch.modes, on, letter)
           mixed == ch.mixed \/ (letter \in Flags /\ arg # NoNick)
<1>1. DOMAIN ch = {"users", "modes", "topic", "joined", "mixed"} /\ ch.mixed \in BOOLEAN
  BY DEF RecordOK
<1>2. d = [ch EXCEPT !.modes = modes, !.mixed = mixed, !.users = users]
  BY DEF Letter
<1>3. /\ DOMAIN users = DOMAIN ch.users
      /\ \A n \in DOMAIN ch.users :
           users[n] = IF n = arg THEN Toggled(ch.users[n], on, letter) ELSE ch.users[n]
  OBVIOUS
<1>4. mixed \in BOOLEAN /\ (mixed <=> (ch.mixed \/ (letter \in Flags /\ arg # NoNick)))
  BY <1>1
<1> HIDE DEF users, mixed
<1>5. d.modes = modes /\ d.mixed = mixed /\ d.users = users
  BY <1>1, <1>2
<1>6. QED
  BY <1>1, <1>2, <1>3, <1>4, <1>5

\* The fields of a channel after what a letter means.
AsMeant(a, x, b) ==
  /\ DOMAIN b = {"users", "flags", "topic"} /\ b.topic = a.topic
  /\ b.flags = IF x.arg = NoNick THEN Toggled(a.flags, x.on, x.letter) ELSE a.flags
  /\ DOMAIN b.users = DOMAIN a.users
  /\ \A n \in DOMAIN a.users :
       b.users[n] = IF n = x.arg THEN Toggled(a.users[n], x.on, x.letter) ELSE a.users[n]

LEMMA MeantFields ==
  ASSUME NEW a, ChannelOK(a), NEW x, NEW b, b = Meant(a, x)
  PROVE  AsMeant(a, x, b)
<1>1. DOMAIN a = {"users", "flags", "topic"} /\ NoNick \notin DOMAIN a.users
  BY ClientAssumption DEF ChannelOK, ClientAssumption
<1>2. CASE x.arg = NoNick
  BY <1>1, <1>2 DEF Meant, AsMeant
<1>3. CASE x.arg # NoNick
  <2>1. PICK users : users = [a.users EXCEPT ![x.arg] = Toggled(@, x.on, x.letter)]
    OBVIOUS
  <2>2. b = [a EXCEPT !.users = users]
    BY <1>3, <2>1 DEF Meant
  <2>3. QED
    BY <1>1, <1>3, <2>1, <2>2 DEF AsMeant
<1>4. QED
  BY <1>2, <1>3

\* The argument that the letter of x gets is its own, unless a flag took it.
Gets(ch, x, arg) ==
  /\ x.on \in BOOLEAN
  /\ \/ x.letter \in Letters /\ x.arg \in Nicks /\ (arg = x.arg \/ (ch.mixed /\ arg = NoNick))
     \/ x.letter \in Flags /\ x.arg = NoNick /\ arg \in Nicks \cup {NoNick}

\* The channel goes from a to b and the record from ch to d; d is as right as ch was.
Kept(a, ch, b, d) ==
  /\ ChannelOK(b) /\ RecordOK(d) /\ d.joined = ch.joined
  /\ Fits(a, ch) => Fits(b, d) /\ (Full(a, ch) => Full(b, d))

LEMMA LetterKept ==
  ASSUME NEW a, ChannelOK(a), NEW ch, RecordOK(ch), NEW x, NEW arg, Gets(ch, x, arg),
         NEW b, b = Meant(a, x), NEW d, d = Letter(ch, x.on, x.letter, arg)
  PROVE  Kept(a, ch, b, d) /\ d.topic = ch.topic /\ b.topic = a.topic
<1>1. /\ DOMAIN d = {"users", "modes", "topic", "joined", "mixed"}
      /\ d.topic = ch.topic /\ d.joined = ch.joined
      /\ d.modes = Toggled(ch.modes, x.on, x.letter)
      /\ d.mixed \in BOOLEAN
      /\ d.mixed <=> (ch.mixed \/ (x.letter \in Flags /\ arg # NoNick))
      /\ DOMAIN d.users = DOMAIN ch.users
      /\ \A n \in DOMAIN ch.users :
           d.users[n] = IF n = arg THEN Toggled(ch.users[n], x.on, x.letter) ELSE ch.users[n]
  BY LetterFields
<1>0. AsMeant(a, x, b)
  BY MeantFields
<1>2. /\ DOMAIN b = {"users", "flags", "topic"} /\ b.topic = a.topic
      /\ b.flags = IF x.arg = NoNick THEN Toggled(a.flags, x.on, x.letter) ELSE a.flags
      /\ DOMAIN b.users = DOMAIN a.users
      /\ \A n \in DOMAIN a.users :
           b.users[n] = IF n = x.arg THEN Toggled(a.users[n], x.on, x.letter) ELSE a.users[n]
  BY <1>0 DEF AsMeant
<1>3. /\ DOMAIN a.users \subseteq Nicks /\ \A n \in DOMAIN a.users : a.users[n] \subseteq Letters
      /\ a.topic \in [text : Topics \cup {NoTopic}, by : Nicks \cup {NoNick}]
  BY DEF ChannelOK
<1>4. /\ DOMAIN ch.users \subseteq Nicks /\ ch.modes \subseteq Letters \cup Flags
      /\ ch.mixed \in BOOLEAN
      /\ \A n \in DOMAIN ch.users :
           ch.users[n] \subseteq IF ch.mixed THEN Letters \cup Flags ELSE Letters
  BY DEF RecordOK
<1>5. x.arg = NoNick \/ (x.arg \in Nicks /\ x.letter \in Letters)
  BY DEF Gets
<1>6. ChannelOK(b)
  <2>1. ASSUME NEW n \in DOMAIN b.users PROVE b.users[n] \subseteq Letters
    <3>1. /\ n \in Nicks /\ a.users[n] \subseteq Letters
          /\ b.users[n] = IF n = x.arg THEN Toggled(a.users[n], x.on, x.letter) ELSE a.users[n]
      BY <1>2, <1>3
    <3>2. n = x.arg => x.letter \in Letters
      BY <1>5, <3>1, ClientAssumption DEF ClientAssumption
    <3>3. QED
      BY <3>1, <3>2 DEF Toggled
  <2>2. QED
    BY <1>2, <1>3, <2>1 DEF ChannelOK
<1>7. RecordOK(d)
  <2>1. d.modes \subseteq Letters \cup Flags
    BY <1>1, <1>4 DEF Gets, Toggled
  <2>2. ASSUME NEW n \in DOMAIN d.users
        PROVE  d.users[n] \subseteq IF d.mixed THEN Letters \cup Flags ELSE Letters
    <3>1. CASE n = arg
      <4>1. d.users[n] = Toggled(ch.users[n], x.on, x.letter)
        BY <3>1, <1>1
      <4>2. x.letter \in Letters \/ (x.letter \in Flags /\ d.mixed)
        <5>1. n \in Nicks
          BY <1>1, <1>4
        <5>2. arg # NoNick
          BY <5>1, <3>1, ClientAssumption DEF ClientAssumption
        <5>3. QED
          BY <5>2, <1>1 DEF Gets
      <4>3. ch.users[n] \subseteq IF d.mixed THEN Letters \cup Flags ELSE Letters
        BY <1>1, <1>4
      <4>4. QED
        BY <4>1, <4>2, <4>3 DEF Toggled
    <3>2. CASE n # arg
      BY <3>2, <1>1, <1>4
    <3>3. QED
      BY <3>1, <3>2
  <2>3. QED
    BY <1>1, <1>4, <2>1, <2>2 DEF RecordOK
<1>8. ~d.mixed => ~ch.mixed /\ arg = x.arg
  BY <1>1, <1>4 DEF Gets
<1>9. ASSUME Fits(a, ch) PROVE Fits(b, d)
  <2>1. DOMAIN d.users \subseteq DOMAIN b.users
    BY <1>1, <1>2, <1>9 DEF Fits
  <2>2. ASSUME ~d.mixed, NEW n \in DOMAIN d.users PROVE d.users[n] \subseteq b.users[n]
    <3>1. ch.users[n] \subseteq a.users[n] /\ n \in DOMAIN ch.users /\ n \in DOMAIN a.users
      BY <1>1, <1>8, <1>9, <2>2 DEF Fits
    <3>2. arg = x.arg
      BY <1>8, <2>2
    <3>3. d.users[n] = IF n = arg THEN Toggled(ch.users[n], x.on, x.letter) ELSE ch.users[n]
      BY <1>1, <3>1
    <3>4. b.users[n] = IF n = arg THEN Toggled(a.users[n], x.on, x.letter) ELSE a.users[n]
      BY <1>2, <3>1, <3>2
    <3>5. QED
      BY <3>1, <3>3, <3>4 DEF Toggled
  <2>3. d.modes \cap Flags \subseteq b.flags
    BY <1>1, <1>2, <1>9, ClientAssumption DEF Fits, Gets, Toggled, ClientAssumption
  <2>4. QED
    BY <2>1, <2>2, <2>3 DEF Fits
<1>10. ASSUME Fits(a, ch), Full(a, ch) PROVE Full(b, d)
  <2>1. SUFFICES ASSUME NEW u \in DOMAIN b.users PROVE Shows(b, d, u)
    BY DEF Full
  <2>2. u \in DOMAIN a.users /\ u \in DOMAIN ch.users /\ u \in DOMAIN d.users
    BY <1>1, <1>2, <1>10, <2>1 DEF Full, Shows
  <2>3. ASSUME ~d.mixed, Head(Ranks) \in b.users[u] PROVE Head(Ranks) \in d.users[u]
    <3>1. Head(Ranks) \in a.users[u] => Head(Ranks) \in ch.users[u]
      BY <1>8, <1>10, <2>2, <2>3 DEF Full, Shows
    <3>2. arg = x.arg
      BY <1>8, <2>3
    <3>3. d.users[u] = IF u = arg THEN Toggled(ch.users[u], x.on, x.letter) ELSE ch.users[u]
      BY <1>1, <2>2
    <3>4. b.users[u] = IF u = arg THEN Toggled(a.users[u], x.on, x.letter) ELSE a.users[u]
      BY <1>2, <2>2, <3>2
    <3>5. QED
      BY <2>3, <3>1, <3>3, <3>4 DEF Toggled
  <2>4. QED
    BY <2>2, <2>3 DEF Shows
<1>11. QED
  BY <1>1, <1>2, <1>6, <1>7, <1>9, <1>10 DEF Kept

LEMMA KeptTwice ==
  ASSUME NEW a, NEW ch, NEW b, NEW d, NEW e, NEW f, Kept(a, ch, b, d), Kept(b, d, e, f)
  PROVE  Kept(a, ch, e, f)
  BY DEF Kept

Status(x, users) == x.on \in BOOLEAN /\ x.letter \in Letters /\ x.arg \in users
Flag(x) == x.on \in BOOLEAN /\ x.letter \in Flags /\ x.arg = NoNick

\* The i-th letter of m is that of x and gets the argument arg.
Reads(m, i, x, arg) ==
  m.letters[i].on = x.on /\ m.letters[i].letter = x.letter /\ Argument(m, i) = arg

LEMMA LetterRead ==
  ASSUME NEW m, NEW i, NEW x, NEW arg, Reads(m, i, x, arg), NEW ch
  PROVE  ModeApplied(m, ch, i) = Letter(ch, x.on, x.letter, arg)
<1>1. ModeApplied(m, ch, i)
        = Letter(ch, m.letters[i].on, m.letters[i].letter, Argument(m, i))
  BY DEF ModeApplied, Letter
<1>2. QED
  BY <1>1 DEF Reads

LEMMA ModeForms ==
  ASSUME NEW users, NEW changes \in ModeChanges(users)
  PROVE  \/ \E x : (Status(x, users) \/ Flag(x)) /\ changes = <<x>>
         \/ \E x, y : /\ (Status(x, users) /\ Flag(y)) \/ (Flag(x) /\ Status(y, users))
                      /\ changes = <<x, y>>
<1> DEFINE status == [on : BOOLEAN, letter : Letters, arg : users]
           flag == [on : BOOLEAN, letter : Flags, arg : {NoNick}]
<1>1. (\A x \in status : Status(x, users)) /\ (\A x \in flag : Flag(x))
  BY DEF Status, Flag
<1>2. changes \in {<<s>> : s \in status} \cup {<<f>> : f \in flag}
                    \cup {<<s, f>> : s \in status, f \in flag}
                    \cup {<<f, s>> : f \in flag, s \in status}
  BY DEF ModeChanges
<1> HIDE DEF status, flag
<1>3. CASE \/ \E s \in status : changes = <<s>>
           \/ \E f \in flag : changes = <<f>>
  BY <1>1, <1>3
<1>4. CASE \E s \in status, f \in flag : changes = <<s, f>>
  BY <1>1, <1>4
<1>5. CASE \E f \in flag, s \in status : changes = <<f, s>>
  BY <1>1, <1>5
<1>6. QED
  BY <1>2, <1>3, <1>4, <1>5

LEMMA OneLetterLine ==
  ASSUME NEW c, NEW x, Status(x, Nicks) \/ Flag(x), NEW m, m = ModeLine(c, <<x>>)
  PROVE  m.type = "mode" /\ m.target = c /\ Len(m.letters) = 1 /\ Reads(m, 1, x, x.arg)
<1>1. PICK s : s = <<x>>
  OBVIOUS
<1>2. DOMAIN s = 1 .. 1 /\ s[1] = x
  BY <1>1
<1>3. PICK letters : letters = [i \in DOMAIN s |-> [on |-> s[i].on, letter |-> s[i].letter]]
  OBVIOUS
<1>4. Len(letters) = 1 /\ letters[1].on = x.on /\ letters[1].letter = x.letter
  <2>1. DOMAIN letters = 1 .. 1 /\ letters = [i \in 1 .. 1 |-> letters[i]]
    BY <1>2, <1>3
  <2>2. QED
    BY <2>1, <1>2, <1>3, Written
<1>5. PICK args : args = Arguments(s)
  OBVIOUS
<1>6. /\ m.type = "mode" /\ m.target = c /\ m.letters = letters /\ m.args = args
  BY <1>1, <1>3, <1>5 DEF ModeLine
<1>7. Argument(m, 1) = x.arg
  <2>1. CASE x.arg = NoNick
    <3>1. args = <<>>
      BY <2>1, <1>2, <1>5 DEF Arguments
    <3>2. QED
      BY <3>1, <2>1, <1>6 DEF Argument
  <2>2. CASE x.arg # NoNick
    <3>1. {i \in DOMAIN s : s[i].arg # NoNick} = {1}
      BY <2>2, <1>2
    <3>2. args = <<x.arg>>
      BY <3>1, <1>2, <1>5 DEF Arguments
    <3>3. QED
      BY <3>2, <1>6 DEF Argument
  <2>3. QED
    BY <2>1, <2>2
<1>8. QED
  BY <1>4, <1>6, <1>7 DEF Reads

LEMMA TwoLetterLine ==
  ASSUME NEW c, NEW x, NEW y, NEW m, m = ModeLine(c, <<x, y>>),
         (Status(x, Nicks) /\ Flag(y)) \/ (Flag(x) /\ Status(y, Nicks)),
         NEW arg, arg = IF x.arg # NoNick THEN x.arg ELSE y.arg
  PROVE  /\ m.type = "mode" /\ m.target = c /\ Len(m.letters) = 2
         /\ arg \in Nicks /\ Reads(m, 1, x, arg) /\ Reads(m, 2, y, NoNick)
<1>1. PICK s : s = <<x, y>>
  OBVIOUS
<1>2. DOMAIN s = 1 .. 2 /\ s[1] = x /\ s[2] = y
  BY <1>1
<1>3. PICK letters : letters = [i \in DOMAIN s |-> [on |-> s[i].on, letter |-> s[i].letter]]
  OBVIOUS
<1>4. /\ Len(letters) = 2 /\ letters[1].on = x.on /\ letters[1].letter = x.letter
      /\ letters[2].on = y.on /\ letters[2].letter = y.letter
  <2>1. DOMAIN letters = 1 .. 2 /\ letters = [i \in 1 .. 2 |-> letters[i]]
    BY <1>2, <1>3
  <2>2. QED
    BY <2>1, <1>2, <1>3, Written
<1>5. PICK args : args = Arguments(s)
  OBVIOUS
<1>6. /\ m.type = "mode" /\ m.target = c /\ m.letters = letters /\ m.args = args
  BY <1>1, <1>3, <1>5 DEF ModeLine
<1>7. /\ arg \in Nicks
      /\ (x.arg # NoNick /\ y.arg = NoNick) \/ (x.arg = NoNick /\ y.arg # NoNick)
  BY ClientAssumption DEF Status, Flag, ClientAssumption
<1>8. args = <<arg>>
  <2>1. CASE x.arg # NoNick
    <3>1. {i \in DOMAIN s : s[i].arg # NoNick} = {1}
      BY <2>1, <1>2, <1>7
    <3>2. QED
      BY <3>1, <2>1, <1>2, <1>5 DEF Arguments
  <2>2. CASE x.arg = NoNick
    <3>1. {i \in DOMAIN s : s[i].arg # NoNick} = {2}
      BY <2>2, <1>2, <1>7
    <3>2. QED
      BY <3>1, <2>2, <1>2, <1>5 DEF Arguments
  <2>3. QED
    BY <2>1, <2>2
<1>9. Argument(m, 1) = arg /\ Argument(m, 2) = NoNick
  <2>1. Len(args) = 1 /\ args[1] = arg
    BY <1>8
  <2>2. /\ Argument(m, 1) = IF 1 <= Len(args) THEN args[1] ELSE NoNick
        /\ Argument(m, 2) = IF 2 <= Len(args) THEN args[2] ELSE NoNick
    BY <1>6 DEF Argument
  <2>3. 1 <= Len(args) /\ ~(2 <= Len(args))
    BY <2>1
  <2>4. QED
    BY <2>1, <2>2, <2>3
<1>10. QED
  BY <1>4, <1>6, <1>7, <1>9 DEF Reads

\* A line of one or two letters, as the server meant it and as the Client takes it.
LEMMA ModesKept ==
  ASSUME NEW a, ChannelOK(a), NEW ch, RecordOK(ch), NEW c,
         NEW changes \in ModeChanges(DOMAIN a.users), NEW m, m = ModeLine(c, changes),
         NEW b, b = AllMeant(a, changes), NEW d, d = WithModes(m, ch)
  PROVE  Kept(a, ch, b, d) /\ d.topic = ch.topic /\ b.topic = a.topic
<1>1. DOMAIN a.users \subseteq Nicks
  BY DEF ChannelOK
<1>2. ASSUME NEW x, Status(x, DOMAIN a.users) \/ Flag(x), changes = <<x>>
      PROVE  Kept(a, ch, b, d) /\ d.topic = ch.topic /\ b.topic = a.topic
  <2>1. Status(x, Nicks) \/ Flag(x)
    BY <1>1, <1>2 DEF Status
  <2>2. Len(m.letters) = 1 /\ Reads(m, 1, x, x.arg)
    BY <1>2, <2>1, OneLetterLine
  <2>3. d = ModeApplied(m, ch, 1)
    BY <2>2, OneLetter
  <2>4. d = Letter(ch, x.on, x.letter, x.arg)
    BY <2>2, <2>3, LetterRead
  <2>5. b = Meant(a, x)
    BY <1>2 DEF AllMeant
  <2>6. Gets(ch, x, x.arg)
    BY <2>1 DEF Gets, Status, Flag
  <2>7. QED
    BY <2>4, <2>5, <2>6, LetterKept
<1>3. ASSUME NEW x, NEW y, changes = <<x, y>>,
             \/ Status(x, DOMAIN a.users) /\ Flag(y)
             \/ Flag(x) /\ Status(y, DOMAIN a.users)
      PROVE  Kept(a, ch, b, d) /\ d.topic = ch.topic /\ b.topic = a.topic
  <2>1. (Status(x, Nicks) /\ Flag(y)) \/ (Flag(x) /\ Status(y, Nicks))
    BY <1>1, <1>3 DEF Status
  <2>2. PICK arg : arg = IF x.arg # NoNick THEN x.arg ELSE y.arg
    OBVIOUS
  <2>3. Len(m.letters) = 2 /\ Reads(m, 1, x, arg) /\ Reads(m, 2, y, NoNick) /\ arg \in Nicks
    BY <1>3, <2>1, <2>2, TwoLetterLine
  <2>4. PICK e, f : e = Letter(ch, x.on, x.letter, arg) /\ f = Meant(a, x)
    OBVIOUS
  <2>5. e = ModeApplied(m, ch, 1)
    BY <2>3, <2>4, LetterRead
  <2>6. Gets(ch, x, arg)
    BY <2>1, <2>2, <2>3 DEF Gets, Status, Flag
  <2>7. Kept(a, ch, f, e) /\ e.topic = ch.topic /\ f.topic = a.topic
    BY <2>4, <2>6, LetterKept
  <2>8. d = ModeApplied(m, e, 2)
    BY <2>3, <2>5, TwoLetters
  <2>9. d = Letter(e, y.on, y.letter, NoNick)
    BY <2>3, <2>8, LetterRead
  <2>10. b = Meant(f, y)
    BY <1>3, <2>4 DEF AllMeant
  <2>11. Gets(e, y, NoNick)
    <3>1. CASE Flag(y)
      BY <3>1 DEF Gets, Flag
    <3>2. CASE Flag(x) /\ Status(y, Nicks)
      <4>1. e.mixed
        <5>1. e.mixed <=> (ch.mixed \/ (x.letter \in Flags /\ arg # NoNick))
          BY <2>4, LetterFields
        <5>2. QED
          BY <5>1, <3>2, <2>3, ClientAssumption DEF Flag, ClientAssumption
      <4>2. QED
        BY <3>2, <4>1 DEF Gets, Status
    <3>3. QED
      BY <2>1, <3>1, <3>2
  <2>12. Kept(f, e, b, d) /\ d.topic = e.topic /\ b.topic = f.topic
    BY <2>7, <2>9, <2>10, <2>11, LetterKept DEF Kept
  <2>13. QED
    BY <2>7, <2>12, KeptTwice
<1>4. QED
  BY <1>2, <1>3, ModeForms
-----------------------------------------------------------------------------
(* One message, on the server's record and on the Client's.                *)

\* m is about the members of c; about its topic; an answer that the Client takes over.
Membership(m, c) ==
  \/ Is(m, "join", c) \/ Is(m, "part", c) \/ Is(m, "kick", c)
  \/ m.type = "quit" \/ m.type = "nick"
TopicOf(m, c) == Is(m, "topic", c) \/ Is(m, "rpl_topic", c) \/ Is(m, "rpl_topicinfo", c)
ModesOf(m, c) == m.type = "mode" /\ m.target = c

LEMMA UsersChanged ==
  ASSUME NEW ch, RecordOK(ch), NEW users, DOMAIN users \subseteq Nicks,
         \A n \in DOMAIN users :
           users[n] \subseteq IF ch.mixed THEN Letters \cup Flags ELSE Letters,
         NEW d, d = [ch EXCEPT !.users = users]
  PROVE  /\ RecordOK(d) /\ d.users = users /\ d.modes = ch.modes /\ d.topic = ch.topic
         /\ d.joined = ch.joined /\ (d.mixed <=> ch.mixed)
<1>1. DOMAIN ch = {"users", "modes", "topic", "joined", "mixed"}
  BY DEF RecordOK
<1>2. /\ DOMAIN d = {"users", "modes", "topic", "joined", "mixed"}
      /\ d.users = users /\ d.modes = ch.modes /\ d.topic = ch.topic
      /\ d.joined = ch.joined /\ d.mixed = ch.mixed
  BY <1>1
<1>3. QED
  BY <1>2 DEF RecordOK

LEMMA TopicChanged ==
  ASSUME NEW ch, RecordOK(ch), NEW topic, NEW d, d = [ch EXCEPT !.topic = topic]
  PROVE  /\ RecordOK(d) /\ d.topic = topic /\ d.users = ch.users /\ d.modes = ch.modes
         /\ d.joined = ch.joined /\ (d.mixed <=> ch.mixed)
<1>1. DOMAIN ch = {"users", "modes", "topic", "joined", "mixed"}
  BY DEF RecordOK
<1>2. /\ DOMAIN d = {"users", "modes", "topic", "joined", "mixed"}
      /\ d.users = ch.users /\ d.modes = ch.modes /\ d.topic = topic
      /\ d.joined = ch.joined /\ d.mixed = ch.mixed
  BY <1>1
<1>3. QED
  BY <1>2 DEF RecordOK

\* The users of the Client's record after a message about members.
LEMMA MembersAfter ==
  ASSUME NEW m, MessageOK(m), NEW c, NEW ch, RecordOK(ch), NEW d, RecordAfter(m, c, ch, d),
         Membership(m, c)
  PROVE  /\ RecordOK(d) /\ d.modes = ch.modes /\ d.topic = ch.topic
         /\ d.joined = ch.joined /\ (d.mixed <=> ch.mixed)
         /\ Is(m, "join", c) => d.users = With(ch.users, m.nick, {})
         /\ Is(m, "part", c) \/ Is(m, "kick", c) \/ m.type = "quit" =>
              d.users = Without(ch.users, m.nick)
         /\ m.type = "nick" => d.users = RenameUser(ch.users, m.old, m.new)
<1>1. DOMAIN ch.users \subseteq Nicks
  BY DEF RecordOK
<1>2. \A n \in DOMAIN ch.users :
        ch.users[n] \subseteq IF ch.mixed THEN Letters \cup Flags ELSE Letters
  BY DEF RecordOK
<1>3. CASE Is(m, "join", c)
  <2>1. PICK users : users = With(ch.users, m.nick, {})
    OBVIOUS
  <2>2. m.nick \in Nicks
    BY <1>3 DEF MessageOK, Is
  <2>3. /\ DOMAIN users = DOMAIN ch.users \cup {m.nick}
        /\ \A n \in DOMAIN users : users[n] = IF n = m.nick THEN {} ELSE ch.users[n]
    BY <2>1 DEF With
  <2>4. DOMAIN users \subseteq Nicks
    BY <1>1, <2>2, <2>3
  <2>5. \A n \in DOMAIN users :
          users[n] \subseteq IF ch.mixed THEN Letters \cup Flags ELSE Letters
    BY <1>2, <2>3
  <2>6. d = [ch EXCEPT !.users = users]
    BY <1>3, <2>1 DEF RecordAfter
  <2>7. QED
    BY <1>3, <2>1, <2>4, <2>5, <2>6, UsersChanged DEF Is
<1>4. CASE Is(m, "part", c) \/ Is(m, "kick", c) \/ m.type = "quit"
  <2>1. PICK users : users = Without(ch.users, m.nick)
    OBVIOUS
  <2>2. /\ DOMAIN users \subseteq DOMAIN ch.users
        /\ \A n \in DOMAIN users : users[n] = ch.users[n]
    BY <2>1 DEF Without
  <2>3. d = [ch EXCEPT !.users = users]
    BY <1>4, <2>1 DEF RecordAfter
  <2>4. DOMAIN users \subseteq Nicks
    BY <1>1, <2>2
  <2>5. \A n \in DOMAIN users :
          users[n] \subseteq IF ch.mixed THEN Letters \cup Flags ELSE Letters
    BY <1>2, <2>2
  <2>6. QED
    BY <1>4, <2>1, <2>3, <2>4, <2>5, UsersChanged DEF Is
<1>5. CASE m.type = "nick"
  <2>1. PICK users : users = RenameUser(ch.users, m.old, m.new)
    OBVIOUS
  <2>2. m.new \in Nicks
    BY <1>5 DEF MessageOK
  <2>3. /\ DOMAIN users \subseteq DOMAIN ch.users \cup {m.new}
        /\ \A n \in DOMAIN users : \E o \in DOMAIN ch.users : users[n] = ch.users[o]
    BY <2>1 DEF RenameUser, With, Without
  <2>4. DOMAIN users \subseteq Nicks
    BY <1>1, <2>2, <2>3
  <2>5. \A n \in DOMAIN users :
          users[n] \subseteq IF ch.mixed THEN Letters \cup Flags ELSE Letters
    BY <1>2, <2>3
  <2>6. d = [ch EXCEPT !.users = users]
    BY <1>5, <2>1 DEF RecordAfter
  <2>7. QED
    BY <1>5, <2>1, <2>4, <2>5, <2>6, UsersChanged DEF Is
<1>6. QED
  BY <1>3, <1>4, <1>5 DEF Membership

\* After an answer to NAMES.
LEMMA ListTaken ==
  ASSUME NEW m, MessageOK(m), NEW c, NEW ch, RecordOK(ch), NEW d, RecordAfter(m, c, ch, d),
         Is(m, "names", c)
  PROVE  /\ RecordOK(d) /\ d.modes = ch.modes /\ d.topic = ch.topic
         /\ d.joined = ch.joined /\ (d.mixed <=> ch.mixed)
         /\ DOMAIN d.users = DOMAIN m.list \cup DOMAIN ch.users
         /\ \A n \in DOMAIN d.users :
              d.users[n] = IF n \in DOMAIN m.list THEN m.list[n] ELSE ch.users[n]
<1>1. DOMAIN ch.users \subseteq Nicks
  BY DEF RecordOK
<1>2. \A n \in DOMAIN ch.users :
        ch.users[n] \subseteq IF ch.mixed THEN Letters \cup Flags ELSE Letters
  BY DEF RecordOK
<1>3. PICK users : users = [n \in DOMAIN m.list \cup DOMAIN ch.users |->
                              IF n \in DOMAIN m.list THEN m.list[n] ELSE ch.users[n]]
  OBVIOUS
<1>4. DOMAIN m.list \subseteq Nicks /\ \A n \in DOMAIN m.list : m.list[n] \subseteq Letters
  BY DEF MessageOK, Is
<1>5. DOMAIN users \subseteq Nicks
  BY <1>1, <1>3, <1>4
<1>6. \A n \in DOMAIN users :
        users[n] \subseteq IF ch.mixed THEN Letters \cup Flags ELSE Letters
  BY <1>2, <1>3, <1>4
<1>7. d = [ch EXCEPT !.users = users]
  BY <1>3 DEF RecordAfter
<1>8. /\ RecordOK(d) /\ d.users = users /\ d.modes = ch.modes /\ d.topic = ch.topic
      /\ d.joined = ch.joined /\ (d.mixed <=> ch.mixed)
  BY <1>5, <1>6, <1>7, UsersChanged
<1>9. QED
  BY <1>3, <1>8

\* d's topic is what m says.
TopicSet(m, c, ch, d) ==
  /\ Is(m, "topic", c) => d.topic = [text |-> m.text, by |-> m.by]
  /\ Is(m, "rpl_topic", c) => d.topic = [text |-> m.text, by |-> NoNick]
  /\ Is(m, "rpl_topicinfo", c) => d.topic = [text |-> ch.topic.text, by |-> m.by]

\* After a message about the topic.
LEMMA TopicTaken ==
  ASSUME NEW m, NEW c, NEW ch, RecordOK(ch), NEW d, RecordAfter(m, c, ch, d), TopicOf(m, c)
  PROVE  RecordOK(d) /\ TopicSet(m, c, ch, d)
<1>1. CASE Is(m, "topic", c)
  <2>1. PICK topic : topic = [text |-> m.text, by |-> m.by]
    OBVIOUS
  <2>2. d = [ch EXCEPT !.topic = topic]
    BY <1>1, <2>1 DEF RecordAfter
  <2>3. QED
    BY <1>1, <2>1, <2>2, TopicChanged DEF TopicSet, Is
<1>2. CASE Is(m, "rpl_topic", c)
  <2>1. PICK topic : topic = [text |-> m.text, by |-> NoNick]
    OBVIOUS
  <2>2. d = [ch EXCEPT !.topic = topic]
    BY <1>2, <2>1 DEF RecordAfter
  <2>3. QED
    BY <1>2, <2>1, <2>2, TopicChanged DEF TopicSet, Is
<1>3. CASE Is(m, "rpl_topicinfo", c)
  <2>1. PICK topic : topic = [text |-> ch.topic.text, by |-> m.by]
    OBVIOUS
  <2>2. d = [ch EXCEPT !.topic = topic]
    BY <1>3, <2>1 DEF RecordAfter
  <2>3. QED
    BY <1>3, <2>1, <2>2, TopicChanged DEF TopicSet, Is
<1>4. QED
  BY <1>1, <1>2, <1>3 DEF TopicOf

LEMMA TopicKeepsRest ==
  ASSUME NEW m, NEW c, NEW ch, RecordOK(ch), NEW d, RecordAfter(m, c, ch, d), TopicOf(m, c)
  PROVE  d.users = ch.users /\ d.modes = ch.modes /\ (d.mixed <=> ch.mixed)
<1>1. PICK topic : d = [ch EXCEPT !.topic = topic]
  BY DEF RecordAfter, TopicOf
<1>2. QED
  BY <1>1, TopicChanged

LEMMA Untouched ==
  ASSUME NEW m, NEW c, NEW ch, NEW d, RecordAfter(m, c, ch, d), ~Membership(m, c),
         ~TopicOf(m, c), ~ModesOf(m, c), ~Is(m, "names", c)
  PROVE  d = ch
<1>1. CASE m.type \in {"rpl_topic", "rpl_topicinfo", "names"}
  BY <1>1 DEF TopicOf, Is, RecordAfter
<1>2. CASE m.type \notin {"rpl_topic", "rpl_topicinfo", "names"}
  <2>1. ~Concerns(m, c)
    BY DEF Membership, TopicOf, ModesOf, Is, Concerns
  <2>2. QED
    BY <1>2, <2>1 DEF RecordAfter
<1>3. QED
  BY <1>1, <1>2

LEMMA RecordKept ==
  ASSUME NEW m, MessageOK(m), NEW c \in Channels, NEW ch, RecordOK(ch),
         NEW d, RecordAfter(m, c, ch, d)
  PROVE  RecordOK(d)
<1>1. CASE Membership(m, c)
  BY <1>1, MembersAfter
<1>2. CASE Is(m, "names", c)
  BY <1>2, ListTaken
<1>3. CASE TopicOf(m, c)
  BY <1>3, TopicTaken
<1>4. CASE ModesOf(m, c)
  <2>1. c \notin Nicks
    BY ClientAssumption DEF ClientAssumption
  <2>2. PICK changes \in ModeChanges(Nicks) : m = ModeLine(c, changes)
    BY <1>4, <2>1 DEF ModesOf, MessageOK
  <2>3. PICK a : a = [users |-> [n \in Nicks |-> {}], flags |-> {}, topic |-> Untitled]
    OBVIOUS
  <2>4. ChannelOK(a) /\ DOMAIN a.users = Nicks
    BY <2>3 DEF ChannelOK, Untitled
  <2>5. d = WithModes(m, ch)
    BY <1>4 DEF RecordAfter, ModesOf
  <2>6. QED
    BY <2>2, <2>4, <2>5, ModesKept DEF Kept
<1>5. QED
  BY <1>1, <1>2, <1>3, <1>4, Untouched

\* The users of the server's record after a message about members.
LEMMA MembersChange ==
  ASSUME NEW m, NEW c, NEW a, ChannelOK(a), NEW b, ChannelAfter(m, c, a, b),
         Membership(m, c)
  PROVE  /\ b.flags = a.flags /\ b.topic = a.topic
         /\ Is(m, "join", c) => b.users = With(a.users, m.nick, {})
         /\ Is(m, "part", c) \/ Is(m, "kick", c) \/ m.type = "quit" =>
              b.users = Without(a.users, m.nick)
         /\ m.type = "nick" => /\ m.new # m.old /\ m.new \notin DOMAIN a.users
                               /\ b.users = Renamed(a.users, m.old, m.new)
<1>1. DOMAIN a = {"users", "flags", "topic"}
  BY DEF ChannelOK
<1>2. ASSUME NEW users, b = [a EXCEPT !.users = users]
      PROVE  b.users = users /\ b.flags = a.flags /\ b.topic = a.topic
  BY <1>1, <1>2
<1>3. CASE Is(m, "join", c)
  BY <1>2, <1>3 DEF ChannelAfter, Is
<1>4. CASE Is(m, "part", c) \/ Is(m, "kick", c) \/ m.type = "quit"
  BY <1>2, <1>4 DEF ChannelAfter, Is
<1>5. CASE m.type = "nick"
  BY <1>2, <1>5 DEF ChannelAfter, Is
<1>6. QED
  BY <1>3, <1>4, <1>5 DEF Membership

\* g is f with the one who was old under the name new.
UnderNew(f, old, new, g) ==
  /\ old \in DOMAIN f => /\ DOMAIN g = (DOMAIN f \ {old}) \cup {new}
                         /\ \A n \in DOMAIN g : g[n] = f[IF n = new THEN old ELSE n]
  /\ old \notin DOMAIN f => g = f

LEMMA RenamedFacts ==
  ASSUME NEW f, NEW old, NEW new, new # old, new \notin DOMAIN f, NEW g,
         g = Renamed(f, old, new) \/ g = RenameUser(f, old, new)
  PROVE  UnderNew(f, old, new, g)
<1>1. CASE g = Renamed(f, old, new)
  BY <1>1 DEF UnderNew, Renamed
<1>2. CASE g = RenameUser(f, old, new)
  BY <1>2 DEF UnderNew, RenameUser, With, Without
<1>3. QED
  BY <1>1, <1>2

\* The highest status is what NAMES shows.
LEMMA HighestFacts ==
  ASSUME NEW letters
  PROVE  /\ Highest(letters) \subseteq letters
         /\ Head(Ranks) \in letters => Head(Ranks) \in Highest(letters)
<1>1. Highest(letters) \subseteq letters
  BY DEF Highest
<1>2. ASSUME Head(Ranks) \in letters PROVE Head(Ranks) \in Highest(letters)
  <2>1. Head(Ranks) = Ranks[1] /\ 1 \in DOMAIN Ranks
    <3>1. Sequential(Ranks) /\ Ranks # <<>>
      BY SeqIsSequential, ClientAssumption DEF ClientAssumption
    <3>2. QED
      BY <3>1, SequentialFacts
  <2>2. \A k \in 1 .. 1 - 1 : FALSE
    OBVIOUS
  <2>3. QED
    BY <1>2, <2>1, <2>2 DEF Highest
<1>3. QED
  BY <1>1, <1>2

\* m's list of c is part of the server's b.
Lists(m, b) ==
  /\ DOMAIN m.list \subseteq DOMAIN b.users
  /\ \A n \in DOMAIN m.list : m.list[n] = Highest(b.users[n])

\* An answer to NAMES shows nobody and nothing that is not so, and those that it lists.
LEMMA ListFits ==
  ASSUME NEW m, MessageOK(m), NEW c, NEW a, Lists(m, a), NEW ch, RecordOK(ch),
         NEW d, RecordAfter(m, c, ch, d), Is(m, "names", c)
  PROVE  /\ Fits(a, ch) => Fits(a, d)
         /\ \A u : Shows(a, ch, u) => Shows(a, d, u)
         /\ \A u \in DOMAIN m.list : Shows(a, d, u)
<1>1. /\ d.modes = ch.modes /\ (d.mixed <=> ch.mixed)
      /\ DOMAIN d.users = DOMAIN m.list \cup DOMAIN ch.users
      /\ \A n \in DOMAIN d.users :
           d.users[n] = IF n \in DOMAIN m.list THEN m.list[n] ELSE ch.users[n]
  BY ListTaken
<1>2. ASSUME NEW n \in DOMAIN m.list
      PROVE  /\ n \in DOMAIN a.users /\ m.list[n] \subseteq a.users[n]
             /\ Head(Ranks) \in a.users[n] => Head(Ranks) \in m.list[n]
  BY HighestFacts DEF Lists
<1>3. Fits(a, ch) => Fits(a, d)
  BY <1>1, <1>2 DEF Fits
<1>4. \A u : Shows(a, ch, u) => Shows(a, d, u)
  BY <1>1, <1>2 DEF Shows
<1>5. \A u \in DOMAIN m.list : Shows(a, d, u)
  BY <1>1, <1>2 DEF Shows
<1>6. QED
  BY <1>3, <1>4, <1>5

\* Where members change on both sides in the same way.
LEMMA MembersFit ==
  ASSUME NEW m, MessageOK(m), NEW c, NEW a, ChannelOK(a), NEW b, ChannelAfter(m, c, a, b),
         NEW ch, RecordOK(ch), NEW d, RecordAfter(m, c, ch, d), Membership(m, c), Fits(a, ch)
  PROVE  Fits(b, d) /\ (Full(a, ch) => Full(b, d))
<1>1. /\ b.flags = a.flags
      /\ Is(m, "join", c) => b.users = With(a.users, m.nick, {})
      /\ Is(m, "part", c) \/ Is(m, "kick", c) \/ m.type = "quit" =>
           b.users = Without(a.users, m.nick)
      /\ m.type = "nick" => /\ m.new # m.old /\ m.new \notin DOMAIN a.users
                            /\ b.users = Renamed(a.users, m.old, m.new)
  BY MembersChange
<1>2. /\ d.modes = ch.modes /\ (d.mixed <=> ch.mixed)
      /\ Is(m, "join", c) => d.users = With(ch.users, m.nick, {})
      /\ Is(m, "part", c) \/ Is(m, "kick", c) \/ m.type = "quit" =>
           d.users = Without(ch.users, m.nick)
      /\ m.type = "nick" => d.users = RenameUser(ch.users, m.old, m.new)
  BY MembersAfter
<1>3. /\ DOMAIN ch.users \subseteq DOMAIN a.users
      /\ ~ch.mixed => \A n \in DOMAIN ch.users : ch.users[n] \subseteq a.users[n]
      /\ ch.modes \cap Flags \subseteq a.flags
  BY DEF Fits
<1>4. d.modes \cap Flags \subseteq b.flags
  BY <1>1, <1>2, <1>3
<1>5. CASE Is(m, "join", c)
  <2>1. b.users = With(a.users, m.nick, {}) /\ d.users = With(ch.users, m.nick, {})
    BY <1>1, <1>2, <1>5
  <2>2. /\ DOMAIN b.users = DOMAIN a.users \cup {m.nick}
        /\ \A n \in DOMAIN b.users : b.users[n] = IF n = m.nick THEN {} ELSE a.users[n]
        /\ DOMAIN d.users = DOMAIN ch.users \cup {m.nick}
        /\ \A n \in DOMAIN d.users : d.users[n] = IF n = m.nick THEN {} ELSE ch.users[n]
    BY <2>1 DEF With
  <2>3. Fits(b, d)
    BY <2>2, <1>2, <1>3, <1>4 DEF Fits
  <2>4. Full(a, ch) => Full(b, d)
    BY <2>2, <1>2, <1>3 DEF Full, Shows
  <2>5. QED
    BY <2>3, <2>4
<1>6. CASE Is(m, "part", c) \/ Is(m, "kick", c) \/ m.type = "quit"
  <2>1. /\ DOMAIN b.users = DOMAIN a.users \ {m.nick}
        /\ \A n \in DOMAIN b.users : b.users[n] = a.users[n]
        /\ DOMAIN d.users = DOMAIN ch.users \ {m.nick}
        /\ \A n \in DOMAIN d.users : d.users[n] = ch.users[n]
    BY <1>1, <1>2, <1>6 DEF Without
  <2>2. Fits(b, d)
    BY <2>1, <1>2, <1>3, <1>4 DEF Fits
  <2>3. Full(a, ch) => Full(b, d)
    BY <2>1, <1>2, <1>3 DEF Full, Shows
  <2>4. QED
    BY <2>2, <2>3
<1>7. CASE m.type = "nick"
  <2>1. PICK old, new : old = m.old /\ new = m.new
    OBVIOUS
  <2>2. /\ new # old /\ new \notin DOMAIN a.users /\ new \notin DOMAIN ch.users
        /\ b.users = Renamed(a.users, old, new) /\ d.users = RenameUser(ch.users, old, new)
    BY <2>1, <1>1, <1>2, <1>3, <1>7
  <2>3. UnderNew(a.users, old, new, b.users) /\ UnderNew(ch.users, old, new, d.users)
    BY <2>2, RenamedFacts
  <2>4. CASE old \notin DOMAIN a.users
    <3>1. b.users = a.users /\ d.users = ch.users
      BY <2>3, <2>4, <1>3 DEF UnderNew
    <3>2. QED
      BY <3>1, <1>2, <1>3, <1>4 DEF Fits, Full, Shows
  <2>5. CASE old \in DOMAIN a.users
    <3>1. /\ DOMAIN b.users = (DOMAIN a.users \ {old}) \cup {new}
          /\ \A n \in DOMAIN b.users : b.users[n] = a.users[IF n = new THEN old ELSE n]
      BY <2>3, <2>5 DEF UnderNew
    <3>2. CASE old \in DOMAIN ch.users
      <4>1. /\ DOMAIN d.users = (DOMAIN ch.users \ {old}) \cup {new}
            /\ \A n \in DOMAIN d.users : d.users[n] = ch.users[IF n = new THEN old ELSE n]
        BY <2>3, <3>2 DEF UnderNew
      <4>2. Fits(b, d)
        BY <3>1, <3>2, <4>1, <1>2, <1>3, <1>4 DEF Fits
      <4>3. Full(a, ch) => Full(b, d)
        BY <2>5, <3>1, <3>2, <4>1, <1>2, <1>3 DEF Full, Shows
      <4>4. QED
        BY <4>2, <4>3
    <3>3. CASE old \notin DOMAIN ch.users
      <4>1. d.users = ch.users
        BY <2>3, <3>3 DEF UnderNew
      <4>2. Fits(b, d)
        BY <2>2, <3>1, <3>3, <4>1, <1>2, <1>3, <1>4 DEF Fits
      <4>3. ~Full(a, ch)
        BY <2>5, <3>3 DEF Full, Shows
      <4>4. QED
        BY <4>2, <4>3
    <3>4. QED
      BY <3>2, <3>3
  <2>6. QED
    BY <2>4, <2>5
<1>8. QED
  BY <1>5, <1>6, <1>7 DEF Membership

\* Any message.
LEMMA MessageFits ==
  ASSUME NEW m, MessageOK(m), NEW c, NEW a, ChannelOK(a), NEW b, ChannelAfter(m, c, a, b),
         NEW ch, RecordOK(ch), NEW d, RecordAfter(m, c, ch, d), Fits(a, ch),
         Is(m, "names", c) => Lists(m, b)
  PROVE  Fits(b, d) /\ (Full(a, ch) => Full(b, d))
<1>1. CASE Membership(m, c)
  BY <1>1, MembersFit
<1>2. CASE Is(m, "names", c)
  <2>1. b = a
    BY <1>2 DEF ChannelAfter, Concerns, Is
  <2>2. QED
    BY <1>2, <2>1, ListFits DEF Full
<1>3. CASE TopicOf(m, c)
  <2>1. /\ d.users = ch.users /\ d.modes = ch.modes /\ (d.mixed <=> ch.mixed)
    BY <1>3, TopicKeepsRest
  <2>2. b.users = a.users /\ b.flags = a.flags
    <3>1. CASE Is(m, "topic", c)
      BY <3>1 DEF ChannelAfter, ChannelOK
    <3>2. CASE ~Is(m, "topic", c)
      BY <3>2, <1>3 DEF ChannelAfter, TopicOf, Is, Concerns
    <3>3. QED
      BY <3>1, <3>2
  <2>3. QED
    BY <2>1, <2>2 DEF Fits, Full, Shows
<1>4. CASE ModesOf(m, c)
  <2>1. PICK changes \in ModeChanges(DOMAIN a.users) :
          m = ModeLine(c, changes) /\ b = AllMeant(a, changes)
    BY <1>4 DEF ModesOf, ChannelAfter
  <2>2. d = WithModes(m, ch)
    BY <1>4 DEF RecordAfter, ModesOf
  <2>3. QED
    BY <2>1, <2>2, ModesKept DEF Kept
<1>5. CASE ~Membership(m, c) /\ ~TopicOf(m, c) /\ ~ModesOf(m, c) /\ ~Is(m, "names", c)
  <2>1. d = ch
    BY <1>5, Untouched
  <2>2. b = a
    BY <1>5 DEF ChannelAfter, Concerns, Membership, TopicOf, ModesOf, Is
  <2>3. QED
    BY <2>1, <2>2
<1>6. QED
  BY <1>1, <1>2, <1>3, <1>4, <1>5
-----------------------------------------------------------------------------
(* The queue grows.                                                        *)

\* The lines of NAMES in msgs list everybody before they end.
Complete(msgs, state) ==
  \A i \in 1 .. Len(msgs) :
    msgs[i].type = "names_end" /\ msgs[i].chan \in DOMAIN state.chans =>
      \A u \in DOMAIN state.chans[msgs[i].chan].users : \E j \in 1 .. i - 1 :
        /\ Is(msgs[j], "names", msgs[i].chan) /\ u \in DOMAIN msgs[j].list
        /\ \A l \in j .. i - 1 : msgs[l].type = "names"

OwnJoinLine(m) == m.type = "join" /\ m.nick = srv.nick

\* The topic's lines come second and third, after the client's JOIN.
Topical(msgs, state) ==
  /\ OwnJoinLine(msgs[1]) /\ msgs[1].chan \in DOMAIN state.chans =>
       \/ state.chans[msgs[1].chan].topic = Untitled
       \/ Len(msgs) >= 2 /\ Is(msgs[2], "rpl_topic", msgs[1].chan)
  /\ \A i \in 1 .. Len(msgs) :
       /\ msgs[i].type = "rpl_topic" =>
            /\ i = 2 /\ OwnJoinLine(msgs[1]) /\ msgs[1].chan = msgs[i].chan
            /\ Len(msgs) >= 3 /\ Is(msgs[3], "rpl_topicinfo", msgs[i].chan)
       /\ msgs[i].type = "rpl_topicinfo" => i = 3 /\ Is(msgs[2], "rpl_topic", msgs[i].chan)

\* What the server sends on its way from srv to state.
Telling(msgs, state) ==
  /\ Tells(srv, msgs[1], state)
  /\ \A i \in 2 .. Len(msgs) : msgs[i].type \in Neutral /\ Tells(state, msgs[i], state)
  /\ Complete(msgs, state) /\ Topical(msgs, state)

LEMMA LinksGrow ==
  ASSUME Links, NEW n, NEW state, NEW msgs, Grown(n, Len(msgs), state, msgs),
         Telling(msgs, state)
  PROVE  Links'
<1>1. PICK k : k = Len(msgs)
  OBVIOUS
<1>2. /\ n \in Nat /\ k \in Nat /\ k >= 1 /\ seen' = seen
      /\ DOMAIN queue = 1 .. n /\ DOMAIN queue' = 1 .. n + k
      /\ \A i \in 1 .. n : queue'[i] = queue[i] /\ Before(i)' = Before(i)
      /\ \A i \in 1 .. k : /\ queue'[n + i].msg = msgs[i] /\ queue'[n + i].after = state
                           /\ Before(n + i)' = IF i = 1 THEN srv ELSE state
  BY <1>1 DEF Grown
<1>3. ASSUME NEW i \in 1 .. n PROVE Tells(Before(i)', queue'[i].msg, queue'[i].after)
  <2>1. Tells(Before(i), queue[i].msg, queue[i].after)
    BY <1>2 DEF Links
  <2>2. QED
    BY <1>2, <2>1
<1>4. ASSUME NEW i \in 1 .. k PROVE Tells(Before(n + i)', queue'[n + i].msg, queue'[n + i].after)
  <2>1. /\ queue'[n + i].msg = msgs[i] /\ queue'[n + i].after = state
        /\ Before(n + i)' = IF i = 1 THEN srv ELSE state
    BY <1>2
  <2>2. Tells(IF i = 1 THEN srv ELSE state, msgs[i], state)
    <3>1. CASE i = 1
      BY <3>1 DEF Telling
    <3>2. CASE i # 1
      <4>1. i \in 2 .. Len(msgs)
        BY <3>2, <1>1, <1>2
      <4>2. QED
        BY <4>1, <3>2 DEF Telling
    <3>3. QED
      BY <3>1, <3>2
  <2>3. QED
    BY <2>1, <2>2
<1>5. \A i \in DOMAIN queue' : Tells(Before(i)', queue'[i].msg, queue'[i].after)
  <2>1. SUFFICES ASSUME NEW i \in 1 .. n + k
                 PROVE  Tells(Before(i)', queue'[i].msg, queue'[i].after)
    BY <1>2
  <2>2. CASE i \in 1 .. n
    BY <1>3, <2>2
  <2>3. CASE i \notin 1 .. n
    <3>1. PICK j \in 1 .. k : i = n + j
      <4>1. i - n \in 1 .. k /\ i = n + (i - n)
        BY <1>2, <2>3
      <4>2. QED
        BY <4>1
    <3>2. QED
      BY <1>4, <3>1
  <2>4. QED
    BY <2>2, <2>3
<1>6. QED
  BY <1>2, <1>5 DEF Links

LEMMA TopicLinesGrow ==
  ASSUME TopicLinesFollow, NEW n, NEW state, NEW msgs, Grown(n, Len(msgs), state, msgs),
         Telling(msgs, state)
  PROVE  TopicLinesFollow'
<1>1. PICK k : k = Len(msgs)
  OBVIOUS
<1>2. /\ n \in Nat /\ k \in Nat /\ k >= 1
      /\ DOMAIN queue = 1 .. n /\ DOMAIN queue' = 1 .. n + k
      /\ \A i \in 1 .. n : queue'[i] = queue[i] /\ Before(i)' = Before(i)
      /\ \A i \in 1 .. k : /\ queue'[n + i].msg = msgs[i] /\ queue'[n + i].after = state
                           /\ Before(n + i)' = IF i = 1 THEN srv ELSE state
  BY <1>1 DEF Grown
<1>3. ASSUME NEW i \in 1 .. n PROVE TopicLinesAt(i)'
  <2>1. TopicLinesAt(i)
    BY <1>2 DEF TopicLinesFollow
  <2>2. /\ queue'[i] = queue[i] /\ Before(i)' = Before(i)
        /\ i + 1 \in DOMAIN queue => i + 1 \in DOMAIN queue' /\ queue'[i + 1] = queue[i + 1]
        /\ i > 1 => queue'[i - 1] = queue[i - 1] /\ Before(i - 1)' = Before(i - 1)
    BY <1>2
  <2>3. QED
    BY <2>1, <2>2 DEF TopicLinesAt, OwnJoinAt
<1>4. ASSUME NEW i \in 1 .. k PROVE TopicLinesAt(n + i)'
  <2>1. PICK m : m = msgs[i]
    OBVIOUS
  <2>2. PICK p : p = n + i
    OBVIOUS
  <2>3. /\ queue'[p].msg = m /\ queue'[p].after = state
        /\ Before(p)' = IF i = 1 THEN srv ELSE state
    BY <1>2, <2>1, <2>2
  <2>4. /\ i < k => p + 1 \in DOMAIN queue' /\ queue'[p + 1].msg = msgs[i + 1]
        /\ i > 1 => p - 1 \in DOMAIN queue' /\ queue'[p - 1].msg = msgs[i - 1]
                    /\ Before(p - 1)' = IF i = 2 THEN srv ELSE state
    <3>1. ASSUME i < k PROVE p + 1 \in DOMAIN queue' /\ queue'[p + 1].msg = msgs[i + 1]
      <4>1. i + 1 \in 1 .. k /\ p + 1 = n + (i + 1)
        BY <1>2, <2>2, <3>1
      <4>2. QED
        BY <4>1, <1>2
    <3>2. ASSUME i > 1
          PROVE  p - 1 \in DOMAIN queue' /\ queue'[p - 1].msg = msgs[i - 1]
                 /\ Before(p - 1)' = IF i = 2 THEN srv ELSE state
      <4>1. i - 1 \in 1 .. k /\ p - 1 = n + (i - 1)
        BY <1>2, <2>2, <3>2
      <4>2. p - 1 \in DOMAIN queue' /\ queue'[p - 1].msg = msgs[i - 1]
        BY <4>1, <1>2
      <4>3. Before(n + (i - 1))' = IF i - 1 = 1 THEN srv ELSE state
        BY <4>1, <1>2
      <4>4. Before(p - 1)' = IF i - 1 = 1 THEN srv ELSE state
        BY <4>1, <4>3
      <4>5. QED
        BY <4>2, <4>4, <1>2
    <3>3. QED
      BY <3>1, <3>2
  <2>5. /\ m.type = "rpl_topic" =>
             /\ i = 2 /\ OwnJoinLine(msgs[1]) /\ msgs[1].chan = m.chan
             /\ k >= 3 /\ Is(msgs[3], "rpl_topicinfo", m.chan)
        /\ m.type = "rpl_topicinfo" => i = 3 /\ Is(msgs[2], "rpl_topic", m.chan)
    BY <1>1, <2>1 DEF Telling, Topical
  <2>6. OwnJoinAt(p, m.chan)' /\ m.chan \in DOMAIN state.chans =>
             \/ state.chans[m.chan].topic = Untitled
             \/ p + 1 \in DOMAIN queue' /\ Is(queue'[p + 1].msg, "rpl_topic", m.chan)
    <3>1. SUFFICES ASSUME OwnJoinAt(p, m.chan)', m.chan \in DOMAIN state.chans
                   PROVE  \/ state.chans[m.chan].topic = Untitled
                          \/ /\ p + 1 \in DOMAIN queue'
                             /\ Is(queue'[p + 1].msg, "rpl_topic", m.chan)
      OBVIOUS
    <3>2. m.type = "join" /\ m.nick = Before(p)'.nick
      BY <3>1, <2>3 DEF OwnJoinAt, Is
    <3>3. i = 1
      <4>1. ASSUME i # 1 PROVE FALSE
        <5>1. i \in 2 .. Len(msgs)
          BY <4>1, <1>1, <1>2
        <5>2. m.type \in Neutral
          BY <5>1, <2>1 DEF Telling
        <5>3. QED
          BY <5>2, <3>2 DEF Neutral
      <4>2. QED
        BY <4>1
    <3>4. OwnJoinLine(m)
      BY <3>2, <3>3, <2>3 DEF OwnJoinLine
    <3>5. \/ state.chans[m.chan].topic = Untitled
          \/ k >= 2 /\ Is(msgs[2], "rpl_topic", m.chan)
      BY <3>1, <3>3, <3>4, <2>1, <1>1 DEF Telling, Topical
    <3>6. QED
      BY <3>3, <3>5, <2>4, <1>2
  <2>7. m.type = "rpl_topic" =>
             /\ p + 1 \in DOMAIN queue' /\ Is(queue'[p + 1].msg, "rpl_topicinfo", m.chan)
             /\ p > 1 => OwnJoinAt(p - 1, m.chan)'
    <3>1. SUFFICES ASSUME m.type = "rpl_topic"
                   PROVE  /\ p + 1 \in DOMAIN queue'
                          /\ Is(queue'[p + 1].msg, "rpl_topicinfo", m.chan)
                          /\ OwnJoinAt(p - 1, m.chan)'
      OBVIOUS
    <3>2. /\ i = 2 /\ k >= 3 /\ OwnJoinLine(msgs[1]) /\ msgs[1].chan = m.chan
          /\ Is(msgs[3], "rpl_topicinfo", m.chan)
      BY <3>1, <2>5
    <3>3. /\ p + 1 \in DOMAIN queue' /\ queue'[p + 1].msg = msgs[3]
          /\ queue'[p - 1].msg = msgs[1] /\ Before(p - 1)' = srv
      <4>1. i > 1 /\ i < k /\ i + 1 = 3 /\ i - 1 = 1 /\ i = 2
        BY <3>2, <1>2
      <4>2. p + 1 \in DOMAIN queue' /\ queue'[p + 1].msg = msgs[i + 1]
        BY <4>1, <2>4
      <4>3. queue'[p - 1].msg = msgs[i - 1] /\ Before(p - 1)' = srv
        BY <4>1, <2>4
      <4>4. QED
        BY <4>1, <4>2, <4>3
    <3>4. QED
      BY <3>2, <3>3 DEF OwnJoinAt, OwnJoinLine, Is
  <2>8. m.type = "rpl_topicinfo" => Is(queue'[p - 1].msg, "rpl_topic", m.chan)
    BY <2>4, <2>5
  <2>9. TopicLinesAt(p)'
    BY <2>3, <2>6, <2>7, <2>8 DEF TopicLinesAt
  <2>10. QED
    BY <2>2, <2>9
<1>5. \A i \in DOMAIN queue' : TopicLinesAt(i)'
  <2>1. SUFFICES ASSUME NEW i \in 1 .. n + k PROVE TopicLinesAt(i)'
    BY <1>2
  <2>2. CASE i \in 1 .. n
    BY <1>3, <2>2
  <2>3. CASE i \notin 1 .. n
    <3>1. PICK j \in 1 .. k : i = n + j
      <4>1. i - n \in 1 .. k /\ i = n + (i - n)
        BY <1>2, <2>3
      <4>2. QED
        BY <4>1
    <3>2. QED
      BY <1>4, <3>1
  <2>4. QED
    BY <2>2, <2>3
<1>6. QED
  BY <1>5 DEF TopicLinesFollow

LEMMA ListsGrow ==
  ASSUME ListsComplete, NEW n, NEW state, NEW msgs, Grown(n, Len(msgs), state, msgs),
         Telling(msgs, state), chans' = chans
  PROVE  ListsComplete'
<1>1. PICK k : k = Len(msgs)
  OBVIOUS
<1>2. /\ n \in Nat /\ k \in Nat /\ k >= 1
      /\ DOMAIN queue = 1 .. n /\ DOMAIN queue' = 1 .. n + k
      /\ \A i \in 1 .. n : queue'[i] = queue[i]
      /\ \A i \in 1 .. k : queue'[n + i].msg = msgs[i] /\ queue'[n + i].after = state
  BY <1>1 DEF Grown
<1>3. ASSUME NEW i \in 1 .. n, NEW c \in Channels, Is(queue'[i].msg, "names_end", c),
             NEW t, t = queue'[i].after, c \in DOMAIN t.chans, NEW u \in DOMAIN t.chans[c].users
      PROVE  ListedBefore(i, c, t, u)'
  <2>1. queue'[i] = queue[i] /\ i \in DOMAIN queue
    BY <1>2
  <2>2. t \in {queue[i].after} /\ Is(queue[i].msg, "names_end", c)
    BY <1>3, <2>1
  <2>3. ListedBefore(i, c, t, u)
    BY <1>3, <2>1, <2>2 DEF ListsComplete
  <2>4. ListedBefore(i, c, t, u)'
    <3>1. CASE \E j \in 1 .. i - 1 :
                 /\ Is(queue[j].msg, "names", c) /\ u \in DOMAIN queue[j].msg.list
                 /\ NamesUpTo(j, i, t)
      <4>1. PICK j \in 1 .. i - 1 :
                 /\ Is(queue[j].msg, "names", c) /\ u \in DOMAIN queue[j].msg.list
                 /\ NamesUpTo(j, i, t)
        BY <3>1
      <4>2. Is(queue'[j].msg, "names", c) /\ u \in DOMAIN queue'[j].msg.list
        BY <4>1, <1>2
      <4>3. NamesUpTo(j, i, t)'
        BY <4>1, <1>2 DEF NamesUpTo
      <4>4. QED
        BY <4>2, <4>3 DEF ListedBefore
    <3>2. CASE NamesUpTo(1, i, t) /\ c \in DOMAIN chans /\ Shows(t.chans[c], chans[c], u)
      <4>1. NamesUpTo(1, i, t)'
        BY <3>2, <1>2 DEF NamesUpTo
      <4>2. QED
        BY <4>1, <3>2 DEF ListedBefore
    <3>3. QED
      BY <2>3, <3>1, <3>2 DEF ListedBefore
  <2>5. QED
    BY <2>4
<1>4. ASSUME NEW i \in 1 .. k, NEW c \in Channels, Is(msgs[i], "names_end", c),
             c \in DOMAIN state.chans, NEW u \in DOMAIN state.chans[c].users,
             NEW p, p = n + i
      PROVE  ListedBefore(p, c, state, u)'
  <2>1. PICK j \in 1 .. i - 1 : /\ Is(msgs[j], "names", c) /\ u \in DOMAIN msgs[j].list
                                /\ \A l \in j .. i - 1 : msgs[l].type = "names"
    BY <1>1, <1>4 DEF Telling, Complete, Is
  <2>2. PICK q : q = n + j
    OBVIOUS
  <2>3. q \in 1 .. p - 1 /\ j \in 1 .. k
    BY <1>2, <1>4, <2>1, <2>2
  <2>4. Is(queue'[q].msg, "names", c) /\ u \in DOMAIN queue'[q].msg.list
    BY <1>2, <2>1, <2>2, <2>3
  <2>5. ASSUME NEW l \in q .. p - 1
        PROVE  queue'[l].msg.type = "names" /\ queue'[l].after = state
    <3>1. l - n \in j .. i - 1 /\ l - n \in 1 .. k /\ l = n + (l - n)
      BY <1>2, <1>4, <2>1, <2>2
    <3>2. queue'[l].msg = msgs[l - n] /\ queue'[l].after = state
      BY <3>1, <1>2
    <3>3. QED
      BY <3>1, <3>2, <2>1
  <2>6. NamesUpTo(q, p, state)'
    BY <2>5 DEF NamesUpTo
  <2>7. QED
    BY <2>3, <2>4, <2>6 DEF ListedBefore
<1>5. ASSUME NEW i \in DOMAIN queue', NEW c \in Channels, NEW t \in {queue'[i].after},
             Is(queue'[i].msg, "names_end", c),
             c \in DOMAIN t.chans, NEW u \in DOMAIN t.chans[c].users
      PROVE  ListedBefore(i, c, t, u)'
  <2>1. CASE i \in 1 .. n
    BY <1>3, <1>5, <2>1
  <2>2. CASE i \notin 1 .. n
    <3>1. PICK j \in 1 .. k : i = n + j
      <4>1. i - n \in 1 .. k /\ i = n + (i - n)
        BY <1>2, <2>2
      <4>2. QED
        BY <4>1
    <3>2. queue'[i].msg = msgs[j] /\ t = state
      BY <3>1, <1>2, <1>5
    <3>3. QED
      BY <1>4, <1>5, <3>1, <3>2
  <2>3. QED
    BY <2>1, <2>2
<1>6. QED
  BY <1>5 DEF ListsComplete

LEMMA HeadIs ==
  ASSUME Sequential(queue), queue # <<>>
  PROVE  Event = queue[1].msg /\ 1 \in DOMAIN queue
  BY SequentialFacts DEF Event

LEMMA RightGrows ==
  ASSUME Right, Sequential(queue), NEW n, NEW state, NEW msgs,
         Grown(n, Len(msgs), state, msgs), Telling(msgs, state),
         chans' = chans, announced' = announced
  PROVE  Right'
<1>1. PICK k : k = Len(msgs)
  OBVIOUS
<1>2. /\ n \in Nat /\ k \in Nat /\ k >= 1 /\ seen' = seen
      /\ DOMAIN queue = 1 .. n /\ DOMAIN queue' = 1 .. n + k
      /\ \A i \in 1 .. n : queue'[i] = queue[i]
      /\ \A i \in 1 .. k : queue'[n + i].msg = msgs[i]
      /\ (n = 0) <=> (queue = <<>>)
  BY <1>1 DEF Grown
<1>3. queue' # <<>> /\ Event' = queue'[1].msg
  <2>1. Sequential(queue') /\ Len(queue') = n + k
    BY <1>1 DEF Grown
  <2>2. queue' # <<>>
    BY <2>1, <1>2, EmptySeq
  <2>3. QED
    BY <2>1, <2>2, SequentialFacts DEF Event
<1>4. CASE n >= 1
  <2>1. queue # <<>> /\ Event' = Event
    BY <1>2, <1>3, <1>4, HeadIs
  <2>2. ASSUME NEW c PROVE TopicRight(c)' <=> TopicRight(c)
    BY <2>1, <1>2, <1>3 DEF TopicRight
  <2>3. QED
    BY <2>1, <2>2, <1>2, <1>3 DEF Right
<1>5. CASE n = 0
  <2>1. Event' = msgs[1] /\ queue = <<>>
    BY <1>2, <1>3, <1>5
  <2>2. msgs[1].type # "rpl_topic" /\ msgs[1].type # "rpl_topicinfo"
    <3>1. 1 \in 1 .. Len(msgs) /\ 1 # 2 /\ 1 # 3
      BY <1>1, <1>2
    <3>2. QED
      BY <3>1 DEF Telling, Topical
  <2>3. ASSUME NEW c, TopicRight(c) PROVE TopicRight(c)'
    BY <2>1, <2>3, <1>2 DEF TopicRight
  <2>4. \A c : ~Is(msgs[1], "rpl_topic", c) /\ ~Is(msgs[1], "rpl_topicinfo", c)
    BY <2>2 DEF Is
  <2>5. QED
    BY <2>1, <2>3, <2>4, <1>2 DEF Right
<1>6. QED
  BY <1>2, <1>4, <1>5

LEMMA InformedGrows ==
  ASSUME Informed, link # "new", NEW n, n = Len(queue), NEW state, NEW msgs,
         Grown(n, Len(msgs), state, msgs), prefixes' = prefixes
  PROVE  Informed'
<1>1. PICK k : k = Len(msgs)
  OBVIOUS
<1>2. /\ n \in Nat /\ k \in Nat /\ k >= 1 /\ Len(queue') = n + k
      /\ \A i \in 1 .. n : queue'[i] = queue[i]
  BY <1>1 DEF Grown
<1>3. CASE prefixes = Letters
  BY <1>3 DEF Informed
<1>4. CASE n >= 1 /\ queue[1].msg.type = "isupport"
  BY <1>2, <1>4 DEF Informed
<1>5. CASE n >= 2 /\ queue[1].msg.type = "registered" /\ queue[2].msg.type = "isupport"
  BY <1>2, <1>5 DEF Informed
<1>6. QED
  BY <1>3, <1>4, <1>5 DEF Informed

LEMMA OwnModesGrow ==
  ASSUME OwnModesRight, link # "lost", NEW n, NEW state, NEW msgs,
         Grown(n, Len(msgs), state, msgs),
         \A i \in 1 .. Len(msgs) : msgs[i].type # "lost",
         Misnamed => Misnamed', umodes' = umodes
  PROVE  OwnModesRight'
<1>1. PICK k : k = Len(msgs)
  OBVIOUS
<1>2. /\ n \in Nat /\ k \in Nat /\ k >= 1 /\ seen' = seen
      /\ DOMAIN queue = 1 .. n /\ DOMAIN queue' = 1 .. n + k
      /\ \A i \in 1 .. n : queue'[i] = queue[i]
      /\ \A i \in 1 .. k : queue'[n + i].msg = msgs[i]
  BY <1>1 DEF Grown
<1>3. ASSUME NEW i \in DOMAIN queue' PROVE queue'[i].msg.type # "lost"
  <2>1. CASE i \in 1 .. n
    BY <1>2, <2>1 DEF OwnModesRight
  <2>2. CASE i \notin 1 .. n
    <3>1. i - n \in 1 .. k /\ i = n + (i - n)
      BY <1>2, <2>2
    <3>2. queue'[i].msg = msgs[i - n]
      BY <3>1, <1>2
    <3>3. QED
      BY <3>1, <3>2, <1>1
  <2>3. QED
    BY <2>1, <2>2
<1>4. QED
  BY <1>2, <1>3 DEF OwnModesRight

\* A step of the server that says what it did.
LEMMA ActKeepsRoster ==
  ASSUME Roster, IInv', NEW state, NEW msgs, Sends(state, msgs), Sequential(msgs),
         msgs # <<>>, Telling(msgs, state), link # "new", granted' = granted,
         \/ link' = "lost"
         \/ /\ link = "registered" /\ link' = "registered"
            /\ \A i \in 1 .. Len(msgs) : msgs[i].type # "lost"
  PROVE  Roster'
<1>1. PICK n : n = Len(queue)
  OBVIOUS
<1>2. Grown(n, Len(msgs), state, msgs)
  BY <1>1, QueueGrows DEF Roster, IInv
<1>3. /\ nick' = nick /\ umodes' = umodes /\ prefixes' = prefixes /\ chans' = chans
      /\ announced' = announced /\ seen' = seen
  BY DEF Sends, client
<1>4. ClientOK'
  <2>1. link' \in {"registered", "lost"} /\ connNick' \in Nicks
    BY DEF IInv, ServerOK
  <2>2. QED
    BY <1>3, <2>1 DEF Roster, ClientOK
<1>5. Links' /\ TopicLinesFollow' /\ ListsComplete'
  BY <1>2, <1>3, LinksGrow, TopicLinesGrow, ListsGrow DEF Roster
<1>6. Informed'
  BY <1>1, <1>2, <1>3, InformedGrows DEF Roster
<1>7. OwnModesRight'
  <2>1. CASE link' = "lost"
    BY <2>1 DEF OwnModesRight
  <2>2. CASE link = "registered" /\ \A i \in 1 .. Len(msgs) : msgs[i].type # "lost"
    <3>1. Misnamed' <=> Misnamed
      BY DEF Misnamed
    <3>2. QED
      BY <2>2, <3>1, <1>2, <1>3, OwnModesGrow DEF Roster
  <2>3. QED
    BY <2>1, <2>2
<1>8. ~Misnamed' => Right'
  <2>1. Sequential(queue)
    BY DEF Roster, IInv, Chain
  <2>2. Misnamed' <=> Misnamed
    BY DEF Misnamed
  <2>3. QED
    BY <2>1, <2>2, <1>2, <1>3, RightGrows DEF Roster
<1>9. QED
  BY <1>4, <1>5, <1>6, <1>7, <1>8 DEF Roster
-----------------------------------------------------------------------------
(* The server's steps.                                                     *)

LEMMA ServerKnown ==
  ASSUME Chain, Links
  PROVE  StateOK(srv)
<1>1. CASE queue = <<>>
  BY <1>1 DEF Chain, Final, Links
<1>2. CASE queue # <<>>
  <2>1. Len(queue) \in DOMAIN queue
    BY <1>2, SequentialFacts DEF Chain
  <2>2. queue[Len(queue)].after = srv
    BY <1>2 DEF Chain, Final
  <2>3. QED
    BY <2>1, <2>2 DEF Links, Tells
<1>3. QED
  BY <1>1, <1>2

LEMMA FreshRecord ==
  ASSUME NEW joined
  PROVE  /\ RecordOK(NewChannel(joined)) /\ DOMAIN NewChannel(joined).users = {}
         /\ NewChannel(joined).modes = {} /\ NewChannel(joined).topic = Untitled
         /\ NewChannel(joined).joined = joined /\ NewChannel(joined).mixed = FALSE
<1>1. PICK ch : ch = NewChannel(joined)
  OBVIOUS
<1>2. /\ DOMAIN ch = {"users", "modes", "topic", "joined", "mixed"}
      /\ DOMAIN ch.users = {} /\ ch.modes = {} /\ ch.mixed = FALSE
      /\ ch.topic = Untitled /\ ch.joined = joined
  BY <1>1 DEF NewChannel, Nothing
<1>3. RecordOK(ch)
  BY <1>2 DEF RecordOK
<1>4. QED
  BY <1>1, <1>2, <1>3

\* The server's record of a channel stays one.
LEMMA UsersStayOK ==
  ASSUME NEW a, ChannelOK(a), NEW users, DOMAIN users \subseteq Nicks,
         \A n \in DOMAIN users : users[n] \subseteq Letters
  PROVE  ChannelOK([a EXCEPT !.users = users])
<1>1. PICK b : b = [a EXCEPT !.users = users]
  OBVIOUS
<1>2. DOMAIN a = {"users", "flags", "topic"}
  BY DEF ChannelOK
<1>3. DOMAIN b = {"users", "flags", "topic"} /\ b.users = users /\ b.topic = a.topic
  BY <1>1, <1>2
<1>4. QED
  BY <1>1, <1>3 DEF ChannelOK

LEMMA MembersStayOK ==
  ASSUME NEW a, ChannelOK(a), NEW n \in Nicks, NEW o
  PROVE  /\ ChannelOK([a EXCEPT !.users = With(a.users, n, {})])
         /\ ChannelOK([a EXCEPT !.users = Without(a.users, o)])
         /\ n # o /\ n \notin DOMAIN a.users =>
              ChannelOK([a EXCEPT !.users = Renamed(a.users, o, n)])
<1>1. DOMAIN a.users \subseteq Nicks /\ \A u \in DOMAIN a.users : a.users[u] \subseteq Letters
  BY DEF ChannelOK
<1>2. ChannelOK([a EXCEPT !.users = With(a.users, n, {})])
  <2>1. PICK users : users = With(a.users, n, {})
    OBVIOUS
  <2>2. DOMAIN users \subseteq Nicks /\ \A u \in DOMAIN users : users[u] \subseteq Letters
    BY <1>1, <2>1 DEF With
  <2>3. QED
    BY <2>1, <2>2, UsersStayOK
<1>3. ChannelOK([a EXCEPT !.users = Without(a.users, o)])
  <2>1. PICK users : users = Without(a.users, o)
    OBVIOUS
  <2>2. DOMAIN users \subseteq Nicks /\ \A u \in DOMAIN users : users[u] \subseteq Letters
    BY <1>1, <2>1 DEF Without
  <2>3. QED
    BY <2>1, <2>2, UsersStayOK
<1>4. ASSUME n # o, n \notin DOMAIN a.users
      PROVE  ChannelOK([a EXCEPT !.users = Renamed(a.users, o, n)])
  <2>1. PICK users : users = Renamed(a.users, o, n)
    OBVIOUS
  <2>2. UnderNew(a.users, o, n, users)
    BY <1>4, <2>1, RenamedFacts
  <2>3. DOMAIN users \subseteq Nicks /\ \A u \in DOMAIN users : users[u] \subseteq Letters
    BY <1>1, <2>2 DEF UnderNew
  <2>4. QED
    BY <2>1, <2>3, UsersStayOK
<1>5. QED
  BY <1>2, <1>3, <1>4

\* The server's state with one channel changed.
LEMMA OneChanged ==
  ASSUME StateOK(srv), NEW c \in DOMAIN srv.chans, NEW w,
         NEW state, state = [srv EXCEPT !.chans[c] = w]
  PROVE  /\ DOMAIN state = Fields /\ state.nick = srv.nick /\ state.modes = srv.modes
         /\ DOMAIN state.chans = DOMAIN srv.chans
         /\ \A d \in DOMAIN state.chans : state.chans[d] = IF d = c THEN w ELSE srv.chans[d]
<1>1. PICK chs : chs = [srv.chans EXCEPT ![c] = w]
  OBVIOUS
<1>2. state = [srv EXCEPT !.chans = chs]
  BY <1>1
<1>3. DOMAIN srv = Fields
  BY DEF StateOK
<1>4. /\ DOMAIN state = Fields /\ state.nick = srv.nick /\ state.modes = srv.modes
      /\ state.chans = chs
  BY <1>2, <1>3 DEF Fields
<1>5. QED
  BY <1>1, <1>4

\* Of the message that says what the server did, where the client's own JOIN is not it.
LEMMA ChangeTold ==
  ASSUME StateOK(srv), NEW m, MessageOK(m),
         m.type \notin {"names", "rpl_topic", "rpl_topicinfo"}, ~OwnJoinLine(m),
         m.type = "mode" => m.target \notin Nicks,
         NEW state, DOMAIN state = Fields, state.modes = srv.modes,
         DOMAIN state.chans \subseteq DOMAIN srv.chans,
         \A c \in DOMAIN state.chans :
           ChannelOK(state.chans[c]) /\ ChannelAfter(m, c, srv.chans[c], state.chans[c])
  PROVE  Tells(srv, m, state)
<1>1. StateOK(state)
  BY DEF StateOK
<1>2. AnswerOK(m, state) /\ ModesAfter(srv, m, state)
  BY DEF AnswerOK, ModesAfter
<1>3. QED
  BY <1>1, <1>2 DEF Tells, OwnJoinLine

\* A step with that message alone.
LEMMA OneMessageKeepsRoster ==
  ASSUME Roster, IInv', May, NEW state, NEW m, Sends(state, <<m>>), Tells(srv, m, state),
         m.type \notin {"names_end", "rpl_topic", "rpl_topicinfo", "lost"}, ~OwnJoinLine(m)
  PROVE  Roster'
<1>1. PICK msgs : msgs = <<m>>
  OBVIOUS
<1>2. Sequential(msgs) /\ Len(msgs) = 1 /\ msgs # <<>> /\ msgs[1] = m
  BY <1>1, OneMessage
<1>3. \A i \in 1 .. Len(msgs) : msgs[i] = m
  BY <1>2
<1>4. Complete(msgs, state) /\ Topical(msgs, state)
  BY <1>2, <1>3 DEF Complete, Topical
<1>5. Telling(msgs, state)
  BY <1>2, <1>4 DEF Telling
<1>6. QED
  BY <1>1, <1>2, <1>3, <1>5, ActKeepsRoster DEF May

LEMMA RosterFacts ==
  ASSUME Roster
  PROVE  /\ StateOK(srv) /\ DOMAIN srv = Fields /\ DOMAIN srv.chans \subseteq Channels
         /\ \A c \in DOMAIN srv.chans : ChannelOK(srv.chans[c])
         /\ link # "new" => srv.nick \in Nicks
  BY ServerKnown DEF Roster, IInv, StateOK, ServerOK

LEMMA OtherJoinKeeps ==
  ASSUME Roster, IInv', NEW n \in Nicks, NEW c \in Channels, OtherJoin(n, c)
  PROVE  Roster'
<1>1. May /\ c \in DOMAIN srv.chans /\ n # srv.nick
  BY DEF OtherJoin, Mine, Others
<1>2. PICK a, w : a = srv.chans[c] /\ w = [a EXCEPT !.users = With(a.users, n, {})]
  OBVIOUS
<1>3. PICK state : state = [srv EXCEPT !.chans[c] = w]
  OBVIOUS
<1>4. PICK m : m = [type |-> "join", nick |-> n, chan |-> c]
  OBVIOUS
<1>5. Sends(state, <<m>>)
  BY <1>2, <1>3, <1>4 DEF OtherJoin
<1>6. /\ DOMAIN state = Fields /\ state.nick = srv.nick /\ state.modes = srv.modes
      /\ DOMAIN state.chans = DOMAIN srv.chans
      /\ \A d \in DOMAIN state.chans : state.chans[d] = IF d = c THEN w ELSE srv.chans[d]
  BY <1>1, <1>3, RosterFacts, OneChanged
<1>7. MessageOK(m) /\ ~OwnJoinLine(m)
  BY <1>1, <1>4 DEF MessageOK, OwnJoinLine
<1>8. ASSUME NEW d \in DOMAIN state.chans
      PROVE  ChannelOK(state.chans[d]) /\ ChannelAfter(m, d, srv.chans[d], state.chans[d])
  <2>1. CASE d = c
    <3>1. ChannelOK(a) /\ ChannelOK(w)
      BY <1>1, <1>2, RosterFacts, MembersStayOK
    <3>2. m.type = "join" /\ m.nick = n /\ m.chan = c
      BY <1>4
    <3>3. QED
      BY <2>1, <3>1, <3>2, <1>2, <1>6 DEF ChannelAfter, Concerns, Is
  <2>2. CASE d # c
    BY <2>2, <1>4, <1>6, RosterFacts DEF ChannelAfter, Concerns, Is
  <2>3. QED
    BY <2>1, <2>2
<1>9. Tells(srv, m, state)
  BY <1>4, <1>6, <1>7, <1>8, RosterFacts, ChangeTold
<1>10. QED
  BY <1>1, <1>4, <1>5, <1>7, <1>9, OneMessageKeepsRoster

LEMMA LeaveKeeps ==
  ASSUME Roster, IInv', NEW type \in {"part", "kick"}, NEW n \in Nicks, NEW c \in Channels,
         Leave(type, n, c)
  PROVE  Roster'
<1>1. May /\ c \in DOMAIN srv.chans
  BY DEF Leave, Mine
<1>2. PICK m : m = [type |-> type, nick |-> n, chan |-> c]
  OBVIOUS
<1>3. MessageOK(m) /\ m.type = type /\ m.nick = n /\ m.chan = c
  BY <1>2 DEF MessageOK
<1>4. PICK state : state = Left(n, c)
  OBVIOUS
<1>5. Sends(state, <<m>>)
  BY <1>2, <1>4 DEF Leave
<1>6. /\ DOMAIN state = Fields /\ state.modes = srv.modes
      /\ DOMAIN state.chans \subseteq DOMAIN srv.chans
      /\ \A d \in DOMAIN state.chans :
           /\ ChannelOK(state.chans[d])
           /\ ChannelAfter(m, d, srv.chans[d], state.chans[d])
  <2>1. CASE n = srv.nick
    <3>1. PICK chs : chs = Without(srv.chans, c)
      OBVIOUS
    <3>2. DOMAIN chs = DOMAIN srv.chans \ {c} /\ \A d \in DOMAIN chs : chs[d] = srv.chans[d]
      BY <3>1 DEF Without
    <3>3. state = [srv EXCEPT !.chans = chs]
      BY <1>4, <2>1, <3>1 DEF Left
    <3>4. DOMAIN state = Fields /\ state.modes = srv.modes /\ state.chans = chs
      BY <3>3, RosterFacts DEF Fields
    <3>5. ASSUME NEW d \in DOMAIN chs
          PROVE  ChannelOK(chs[d]) /\ ChannelAfter(m, d, srv.chans[d], chs[d])
      BY <1>3, <3>2, RosterFacts DEF ChannelAfter, Concerns, Is
    <3>6. QED
      BY <3>2, <3>4, <3>5
  <2>2. CASE n # srv.nick
    <3>1. PICK a, w : a = srv.chans[c] /\ w = [a EXCEPT !.users = Without(a.users, n)]
      OBVIOUS
    <3>2. state = [srv EXCEPT !.chans[c] = w]
      BY <1>4, <2>2, <3>1 DEF Left
    <3>3. /\ DOMAIN state = Fields /\ state.modes = srv.modes
          /\ DOMAIN state.chans = DOMAIN srv.chans
          /\ \A d \in DOMAIN state.chans :
               state.chans[d] = IF d = c THEN w ELSE srv.chans[d]
      BY <1>1, <3>2, RosterFacts, OneChanged
    <3>4. ChannelOK(a) /\ ChannelOK(w)
      BY <1>1, <3>1, RosterFacts, MembersStayOK
    <3>5. ASSUME NEW d \in DOMAIN state.chans
          PROVE  ChannelOK(state.chans[d]) /\ ChannelAfter(m, d, srv.chans[d], state.chans[d])
      <4>1. CASE d = c
        BY <4>1, <1>3, <3>1, <3>3, <3>4 DEF ChannelAfter, Concerns, Is
      <4>2. CASE d # c
        BY <4>2, <1>3, <3>3, RosterFacts DEF ChannelAfter, Concerns, Is
      <4>3. QED
        BY <4>1, <4>2
    <3>6. QED
      BY <3>3, <3>5
  <2>3. QED
    BY <2>1, <2>2
<1>7. ~OwnJoinLine(m) /\ m.type \notin {"names", "rpl_topic", "rpl_topicinfo", "mode"}
  BY <1>3 DEF OwnJoinLine
<1>8. Tells(srv, m, state)
  BY <1>3, <1>6, <1>7, RosterFacts, ChangeTold
<1>9. QED
  BY <1>1, <1>3, <1>5, <1>7, <1>8, OneMessageKeepsRoster

LEMMA QuitKeeps ==
  ASSUME Roster, IInv', NEW n \in Nicks, Quit(n)
  PROVE  Roster'
<1>1. May
  BY DEF Quit
<1>2. PICK m : m = [type |-> "quit", nick |-> n]
  OBVIOUS
<1>3. MessageOK(m) /\ m.type = "quit" /\ m.nick = n /\ ~OwnJoinLine(m)
  BY <1>2 DEF MessageOK, OwnJoinLine
<1>4. PICK chs : chs = [c \in DOMAIN srv.chans |->
                          [srv.chans[c] EXCEPT !.users = Without(srv.chans[c].users, n)]]
  OBVIOUS
<1>5. PICK state : state = [srv EXCEPT !.chans = chs]
  OBVIOUS
<1>6. Sends(state, <<m>>)
  BY <1>2, <1>4, <1>5 DEF Quit, Mine
<1>7. DOMAIN state = Fields /\ state.modes = srv.modes /\ state.chans = chs
  BY <1>5, RosterFacts DEF Fields
<1>8. ASSUME NEW d \in DOMAIN chs
      PROVE  ChannelOK(chs[d]) /\ ChannelAfter(m, d, srv.chans[d], chs[d])
  <2>1. PICK a : a = srv.chans[d]
    OBVIOUS
  <2>2. ChannelOK(a) /\ chs[d] = [a EXCEPT !.users = Without(a.users, n)]
    BY <1>4, <2>1, RosterFacts
  <2>3. ChannelOK([a EXCEPT !.users = Without(a.users, n)])
    BY <2>2, MembersStayOK
  <2>4. QED
    BY <1>3, <2>1, <2>2, <2>3 DEF ChannelAfter, Concerns, Is
<1>9. DOMAIN chs = DOMAIN srv.chans
  BY <1>4
<1>10. Tells(srv, m, state)
  BY <1>3, <1>7, <1>8, <1>9, RosterFacts, ChangeTold
<1>11. QED
  BY <1>1, <1>3, <1>6, <1>10, OneMessageKeepsRoster

LEMMA ChangeNickKeeps ==
  ASSUME Roster, IInv', NEW old \in Nicks, NEW new \in Nicks, ChangeNick(old, new)
  PROVE  Roster'
<1>1. May /\ old # new /\ \A c \in DOMAIN srv.chans : new \notin DOMAIN srv.chans[c].users
  BY DEF ChangeNick, Visible, Mine, UsersOf
<1>2. PICK m : m = [type |-> "nick", old |-> old, new |-> new]
  OBVIOUS
<1>3. MessageOK(m) /\ m.type = "nick" /\ m.old = old /\ m.new = new /\ ~OwnJoinLine(m)
  BY <1>2 DEF MessageOK, OwnJoinLine
<1>4. PICK chs : chs = [c \in DOMAIN srv.chans |->
                          [srv.chans[c] EXCEPT !.users = Renamed(srv.chans[c].users, old, new)]]
  OBVIOUS
<1>5. PICK name : name = IF srv.nick = old THEN new ELSE srv.nick
  OBVIOUS
<1>6. PICK state : state = [srv EXCEPT !.nick = name, !.chans = chs]
  OBVIOUS
<1>7. Sends(state, <<m>>)
  BY <1>2, <1>4, <1>5, <1>6 DEF ChangeNick, Mine
<1>8. DOMAIN state = Fields /\ state.modes = srv.modes /\ state.chans = chs
  BY <1>6, RosterFacts DEF Fields
<1>9. ASSUME NEW d \in DOMAIN chs
      PROVE  ChannelOK(chs[d]) /\ ChannelAfter(m, d, srv.chans[d], chs[d])
  <2>1. PICK a : a = srv.chans[d]
    OBVIOUS
  <2>2. /\ ChannelOK(a) /\ chs[d] = [a EXCEPT !.users = Renamed(a.users, old, new)]
        /\ new \notin DOMAIN a.users
    BY <1>1, <1>4, <2>1, RosterFacts
  <2>3. ChannelOK([a EXCEPT !.users = Renamed(a.users, old, new)])
    BY <1>1, <2>2, MembersStayOK
  <2>4. QED
    BY <1>1, <1>3, <2>1, <2>2, <2>3 DEF ChannelAfter, Concerns, Is
<1>10. DOMAIN chs = DOMAIN srv.chans
  BY <1>4
<1>11. Tells(srv, m, state)
  BY <1>3, <1>8, <1>9, <1>10, RosterFacts, ChangeTold
<1>12. QED
  BY <1>1, <1>3, <1>7, <1>11, OneMessageKeepsRoster

LEMMA ChangeTopicKeeps ==
  ASSUME Roster, IInv', NEW n \in Nicks, NEW c \in Channels, ChangeTopic(c, n)
  PROVE  Roster'
<1>1. May /\ c \in DOMAIN srv.chans
  BY DEF ChangeTopic, Mine
<1>2. PICK text \in Topics \cup {NoTopic} :
        Sends([srv EXCEPT !.chans[c].topic = [text |-> text, by |-> n]],
              <<[type |-> "topic", chan |-> c, text |-> text, by |-> n]>>)
  BY DEF ChangeTopic
<1>3. PICK topic : topic = [text |-> text, by |-> n]
  OBVIOUS
<1>4. PICK a, w : a = srv.chans[c] /\ w = [a EXCEPT !.topic = topic]
  OBVIOUS
<1>5. PICK state : state = [srv EXCEPT !.chans[c] = w]
  OBVIOUS
<1>6. PICK m : m = [type |-> "topic", chan |-> c, text |-> text, by |-> n]
  OBVIOUS
<1>7. Sends(state, <<m>>)
  BY <1>2, <1>3, <1>4, <1>5, <1>6
<1>8. /\ DOMAIN state = Fields /\ state.nick = srv.nick /\ state.modes = srv.modes
      /\ DOMAIN state.chans = DOMAIN srv.chans
      /\ \A d \in DOMAIN state.chans : state.chans[d] = IF d = c THEN w ELSE srv.chans[d]
  BY <1>1, <1>5, RosterFacts, OneChanged
<1>9. /\ MessageOK(m) /\ ~OwnJoinLine(m) /\ m.type = "topic" /\ m.chan = c
      /\ m.text = text /\ m.by = n
  BY <1>6 DEF MessageOK, OwnJoinLine
<1>10. ChannelOK(w)
  <2>1. ChannelOK(a)
    BY <1>1, <1>4, RosterFacts
  <2>2. DOMAIN w = DOMAIN a /\ w.users = a.users /\ w.topic = topic
    BY <1>4, <2>1 DEF ChannelOK
  <2>3. topic \in [text : Topics \cup {NoTopic}, by : Nicks \cup {NoNick}]
    BY <1>3
  <2>4. QED
    BY <2>1, <2>2, <2>3 DEF ChannelOK
<1>11. ASSUME NEW d \in DOMAIN state.chans
       PROVE  ChannelOK(state.chans[d]) /\ ChannelAfter(m, d, srv.chans[d], state.chans[d])
  <2>1. CASE d = c
    BY <2>1, <1>3, <1>4, <1>8, <1>9, <1>10 DEF ChannelAfter, Concerns, Is
  <2>2. CASE d # c
    BY <2>2, <1>8, <1>9, RosterFacts DEF ChannelAfter, Concerns, Is
  <2>3. QED
    BY <2>1, <2>2
<1>12. Tells(srv, m, state)
  BY <1>8, <1>9, <1>11, RosterFacts, ChangeTold
<1>13. QED
  BY <1>1, <1>7, <1>9, <1>12, OneMessageKeepsRoster

LEMMA ChangeModesKeeps ==
  ASSUME Roster, IInv', NEW c \in Channels, ChangeModes(c)
  PROVE  Roster'
<1>1. PICK changes \in ModeChanges(UsersOf(c)) :
        Sends([srv EXCEPT !.chans[c] = AllMeant(srv.chans[c], changes)], <<ModeLine(c, changes)>>)
  BY DEF ChangeModes
<1>2. May /\ c \in DOMAIN srv.chans
  BY DEF ChangeModes, Mine
<1>3. PICK a, w : a = srv.chans[c] /\ w = AllMeant(a, changes)
  OBVIOUS
<1>4. PICK state : state = [srv EXCEPT !.chans[c] = w]
  OBVIOUS
<1>5. PICK m : m = ModeLine(c, changes)
  OBVIOUS
<1>6. Sends(state, <<m>>)
  BY <1>1, <1>3, <1>4, <1>5
<1>7. /\ DOMAIN state = Fields /\ state.nick = srv.nick /\ state.modes = srv.modes
      /\ DOMAIN state.chans = DOMAIN srv.chans
      /\ \A d \in DOMAIN state.chans : state.chans[d] = IF d = c THEN w ELSE srv.chans[d]
  BY <1>2, <1>4, RosterFacts, OneChanged
<1>8. ChannelOK(a) /\ changes \in ModeChanges(DOMAIN a.users)
  BY <1>2, <1>3, RosterFacts DEF UsersOf
<1>9. ChannelOK(w)
  <2>1. PICK ch : ch = NewChannel(TRUE)
    OBVIOUS
  <2>2. PICK d : d = WithModes(m, ch)
    OBVIOUS
  <2>3. RecordOK(ch)
    BY <2>1, FreshRecord
  <2>4. w = AllMeant(a, changes)
    BY <1>3
  <2>5. Kept(a, ch, w, d)
    BY <1>5, <1>8, <2>2, <2>3, <2>4, ModesKept
  <2>6. QED
    BY <2>5 DEF Kept
<1>10. changes \in ModeChanges(Nicks)
  <2>1. DOMAIN a.users \subseteq Nicks
    BY <1>8 DEF ChannelOK
  <2>2. QED
    BY <1>8, <2>1 DEF ModeChanges
<1>11. m.type = "mode" /\ m.target = c
  BY <1>5 DEF ModeLine
<1>12. MessageOK(m) /\ ~OwnJoinLine(m) /\ m.target \notin Nicks
  BY <1>5, <1>10, <1>11, ClientAssumption DEF MessageOK, OwnJoinLine, ClientAssumption
<1>13. ASSUME NEW d \in DOMAIN state.chans
       PROVE  ChannelOK(state.chans[d]) /\ ChannelAfter(m, d, srv.chans[d], state.chans[d])
  <2>1. CASE d = c
    BY <2>1, <1>3, <1>5, <1>7, <1>8, <1>9, <1>11 DEF ChannelAfter, Concerns, Is
  <2>2. CASE d # c
    BY <2>2, <1>7, <1>11, RosterFacts DEF ChannelAfter, Concerns, Is
  <2>3. QED
    BY <2>1, <2>2
<1>14. Tells(srv, m, state)
  BY <1>7, <1>11, <1>12, <1>13, RosterFacts, ChangeTold
<1>15. QED
  BY <1>2, <1>6, <1>11, <1>12, <1>14, OneMessageKeepsRoster

LEMMA ChangeOwnModeKeeps ==
  ASSUME Roster, IInv', NEW on \in BOOLEAN, ChangeOwnMode(on)
  PROVE  Roster'
<1>1. May
  BY DEF ChangeOwnMode
<1>2. PICK modes : modes = Toggled(srv.modes, on, "i")
  OBVIOUS
<1>3. PICK state : state = [srv EXCEPT !.modes = modes]
  OBVIOUS
<1>4. PICK m : m = OwnModeLine(srv.nick, on)
  OBVIOUS
<1>5. Sends(state, <<m>>)
  BY <1>2, <1>3, <1>4 DEF ChangeOwnMode
<1>6. /\ DOMAIN state = Fields /\ state.nick = srv.nick /\ state.modes = modes
      /\ state.chans = srv.chans
  BY <1>3, RosterFacts DEF Fields
<1>7. m.type = "mode" /\ m.target = srv.nick /\ srv.nick \in Nicks
  BY <1>1, <1>4, RosterFacts DEF OwnModeLine, May
<1>8. MessageOK(m) /\ ~OwnJoinLine(m)
  BY <1>4, <1>7 DEF MessageOK, OwnJoinLine
<1>9. StateOK(state)
  <2>1. modes \subseteq {"i"}
    BY <1>2, RosterFacts DEF StateOK, Toggled
  <2>2. QED
    BY <1>6, <2>1, RosterFacts DEF StateOK
<1>10. ModesAfter(srv, m, state) /\ AnswerOK(m, state)
  BY <1>2, <1>4, <1>6, <1>7 DEF ModesAfter, AnswerOK
<1>11. ASSUME NEW d \in DOMAIN state.chans
       PROVE  d \in DOMAIN srv.chans /\ ChannelAfter(m, d, srv.chans[d], state.chans[d])
  <2>1. d # srv.nick
    BY <1>6, <1>7, RosterFacts, ClientAssumption DEF ClientAssumption
  <2>2. QED
    BY <2>1, <1>6, <1>7 DEF ChannelAfter, Concerns, Is
<1>12. Tells(srv, m, state)
  BY <1>7, <1>8, <1>9, <1>10, <1>11 DEF Tells
<1>13. QED
  BY <1>1, <1>5, <1>7, <1>8, <1>12, OneMessageKeepsRoster

LEMMA LostKeeps ==
  ASSUME Roster, IInv', Lost
  PROVE  Roster'
<1>1. link = "registered" /\ link' = "lost" /\ granted' = granted
  BY DEF Lost
<1>2. PICK state : state = [srv EXCEPT !.modes = {}, !.chans = Nothing]
  OBVIOUS
<1>3. DOMAIN state = Fields /\ state.modes = {} /\ DOMAIN state.chans = {}
  BY <1>2, RosterFacts DEF Fields, Nothing
<1>4. PICK m, msgs : m = [type |-> "lost"] /\ msgs = <<m>>
  OBVIOUS
<1>5. Sends(state, msgs)
  BY <1>2, <1>4 DEF Lost
<1>6. Sequential(msgs) /\ Len(msgs) = 1 /\ msgs # <<>> /\ msgs[1] = m /\ m.type = "lost"
  BY <1>4, OneMessage
<1>7. Tells(srv, m, state)
  <2>1. StateOK(state)
    BY <1>3 DEF StateOK
  <2>2. QED
    BY <1>3, <1>6, <2>1 DEF Tells, MessageOK, AnswerOK, ModesAfter
<1>8. \A i \in 1 .. Len(msgs) : msgs[i] = m
  BY <1>6
<1>9. Complete(msgs, state) /\ Topical(msgs, state)
  BY <1>6, <1>8 DEF Complete, Topical, OwnJoinLine
<1>10. Telling(msgs, state)
  BY <1>6, <1>7, <1>9 DEF Telling
<1>11. QED
  BY <1>1, <1>5, <1>6, <1>10, ActKeepsRoster

\* An answer that the server gives, as it is, in the state t.
LEMMA AnswerTells ==
  ASSUME NEW m, MessageOK(m), NEW t, StateOK(t), AnswerOK(m, t),
         m.type \in {"isupport", "names", "names_end", "rpl_topic", "rpl_topicinfo"}
  PROVE  Tells(t, m, t)
<1>1. \A c : ~Concerns(m, c) /\ ~Is(m, "join", c)
  BY DEF Concerns, Is
<1>2. \A c, a : ChannelAfter(m, c, a, a)
  BY <1>1 DEF ChannelAfter, Concerns, Is
<1>3. ModesAfter(t, m, t)
  BY DEF ModesAfter
<1>4. QED
  BY <1>2, <1>3 DEF Tells

LEMMA NewIsEmpty ==
  ASSUME IInv, link = "new"
  PROVE  queue = <<>> /\ srv = seen
<1>1. srv.nick = NoNick
  BY DEF IInv, ServerOK
<1>2. ASSUME queue # <<>> PROVE FALSE
  <2>1. Len(queue) \in DOMAIN queue /\ queue[Len(queue)].after = srv
    BY <1>2, SequentialFacts DEF IInv, Chain, Final
  <2>2. srv.nick # NoNick
    BY <2>1 DEF IInv, Chain, Follows, NickAfter
  <2>3. QED
    BY <1>1, <2>2
<1>3. QED
  BY <1>2 DEF IInv, Chain, Final

LEMMA WelcomeKeeps ==
  ASSUME Roster, IInv', Welcome
  PROVE  Roster'
<1>1. PICK u \in Nicks :
        /\ granted' = u
        /\ Sends([srv EXCEPT !.nick = u],
                 <<[type |-> "registered", new |-> u], [type |-> "isupport", ranks |-> Letters]>>)
  BY DEF Welcome
<1>2. PICK state : state = [srv EXCEPT !.nick = u]
  OBVIOUS
<1>3. /\ DOMAIN state = Fields /\ state.modes = srv.modes /\ state.chans = srv.chans
      /\ StateOK(state)
  BY <1>2, RosterFacts DEF Fields, StateOK
<1>4. PICK first, second : /\ first = [type |-> "registered", new |-> u]
                           /\ second = [type |-> "isupport", ranks |-> Letters]
  OBVIOUS
<1>5. PICK msgs : msgs = <<first, second>>
  OBVIOUS
<1>6. DOMAIN msgs = 1 .. 2 /\ msgs = [i \in 1 .. 2 |-> msgs[i]]
  BY <1>5
<1>7. Sequential(msgs) /\ Len(msgs) = 2 /\ msgs # <<>> /\ msgs[1] = first /\ msgs[2] = second
  BY <1>5, <1>6, Written
<1>8. /\ link = "new" /\ link' = "registered" /\ granted = NoNick /\ DOMAIN srv.chans = {}
      /\ queue = <<>>
  BY NewIsEmpty DEF Welcome, Roster, IInv, ServerOK
<1>9. Sends(state, msgs)
  BY <1>1, <1>2, <1>4, <1>5
<1>10. PICK n : n = Len(queue)
  OBVIOUS
<1>11. Grown(n, Len(msgs), state, msgs)
  BY <1>7, <1>9, <1>10, QueueGrows DEF Roster, IInv
<1>12. \A i \in 1 .. Len(msgs) : msgs[i].type \in {"registered", "isupport"}
  BY <1>4, <1>7
<1>13. Telling(msgs, state)
  <2>1. Tells(srv, first, state)
    BY <1>3, <1>4, <1>8 DEF Tells, MessageOK, AnswerOK, ModesAfter
  <2>2. Tells(state, second, state)
    BY <1>3, <1>4, AnswerTells DEF MessageOK, AnswerOK
  <2>3. Complete(msgs, state) /\ Topical(msgs, state)
    BY <1>4, <1>7, <1>12 DEF Complete, Topical, OwnJoinLine
  <2>4. second.type \in Neutral
    BY <1>4 DEF Neutral
  <2>5. QED
    BY <1>7, <2>1, <2>2, <2>3, <2>4 DEF Telling
<1>14. /\ nick' = nick /\ umodes' = umodes /\ prefixes' = prefixes /\ chans' = chans
       /\ announced' = announced /\ seen' = seen
  BY <1>9 DEF Sends, client
<1>15. ClientOK'
  <2>1. connNick' \in Nicks
    BY <1>8 DEF IInv, ServerOK
  <2>2. QED
    BY <1>1, <1>8, <1>14, <2>1 DEF Roster, ClientOK
<1>16. Links' /\ TopicLinesFollow' /\ ListsComplete'
  BY <1>11, <1>13, <1>14, LinksGrow, TopicLinesGrow, ListsGrow DEF Roster
<1>17. Informed'
  <2>1. n = 0
    BY <1>8, <1>11 DEF Grown
  <2>2. 1 \in 1 .. Len(msgs) /\ 2 \in 1 .. Len(msgs)
    BY <1>7
  <2>3. /\ queue'[n + 1].msg = msgs[1] /\ queue'[n + 2].msg = msgs[2]
        /\ Len(queue') = n + Len(msgs)
    BY <2>2, <1>11 DEF Grown
  <2>4. QED
    BY <2>1, <2>3, <1>4, <1>7 DEF Informed
<1>18. ~Misnamed
  BY <1>8 DEF Misnamed
<1>19. OwnModesRight'
  <2>1. link # "lost" /\ \A i \in 1 .. Len(msgs) : msgs[i].type # "lost"
    BY <1>8, <1>12
  <2>2. QED
    BY <2>1, <1>11, <1>14, <1>18, OwnModesGrow DEF Roster
<1>20. Right'
  BY <1>11, <1>13, <1>14, <1>18, RightGrows DEF Roster, IInv, Chain
<1>21. QED
  BY <1>15, <1>16, <1>17, <1>19, <1>20 DEF Roster

\* The lines of an answer to NAMES, the last of them its end, list everybody.
Listing(names, c, users) ==
  /\ Sequential(names) /\ Len(names) >= 2 /\ Is(names[Len(names)], "names_end", c)
  /\ \A i \in 1 .. Len(names) - 1 :
       /\ Is(names[i], "names", c) /\ DOMAIN names[i].list \subseteq DOMAIN users
       /\ \A n \in DOMAIN names[i].list : names[i].list[n] = Highest(users[n])
  /\ \A n \in DOMAIN users : \E i \in 1 .. Len(names) - 1 : n \in DOMAIN names[i].list

LEMMA NamesListing ==
  ASSUME NEW c, NEW users, NEW names \in NamesLines(c, users)
  PROVE  Listing(names, c, users)
<1> DEFINE line(part) == [type |-> "names", chan |-> c,
                          list |-> [n \in part |-> Highest(users[n])]]
           end == [type |-> "names_end", chan |-> c]
<1>1. \/ names = <<line(DOMAIN users), end>>
      \/ \E part \in SUBSET DOMAIN users : names = <<line(part), line(DOMAIN users \ part), end>>
  BY DEF NamesLines
<1>2. ASSUME NEW part
      PROVE  /\ Is(line(part), "names", c) /\ DOMAIN line(part).list = part
             /\ \A n \in part : line(part).list[n] = Highest(users[n])
  BY DEF Is
<1>3. Is(end, "names_end", c)
  BY DEF Is
<1> HIDE DEF line, end
<1>4. CASE names = <<line(DOMAIN users), end>>
  <2>1. DOMAIN names = 1 .. 2 /\ names = [i \in 1 .. 2 |-> names[i]]
    BY <1>4
  <2>2. Sequential(names) /\ Len(names) = 2
    BY <2>1, Written
  <2>3. names[1] = line(DOMAIN users) /\ names[2] = end
    BY <1>4
  <2>4. 1 .. Len(names) - 1 = {1}
    BY <2>2
  <2>5. QED
    BY <2>2, <2>3, <2>4, <1>2, <1>3 DEF Listing
<1>5. ASSUME NEW part \in SUBSET DOMAIN users,
             names = <<line(part), line(DOMAIN users \ part), end>>
      PROVE  Listing(names, c, users)
  <2>1. DOMAIN names = 1 .. 3 /\ names = [i \in 1 .. 3 |-> names[i]]
    BY <1>5
  <2>2. Sequential(names) /\ Len(names) = 3
    BY <2>1, Written
  <2>3. names[1] = line(part) /\ names[2] = line(DOMAIN users \ part) /\ names[3] = end
    BY <1>5
  <2>4. 1 .. Len(names) - 1 = {1, 2}
    BY <2>2
  <2>5. \A n \in DOMAIN users : n \in DOMAIN names[1].list \/ n \in DOMAIN names[2].list
    BY <2>3, <1>2
  <2>6. \A i \in {1, 2} :
          /\ Is(names[i], "names", c) /\ DOMAIN names[i].list \subseteq DOMAIN users
          /\ \A n \in DOMAIN names[i].list : names[i].list[n] = Highest(users[n])
    BY <2>3, <1>2
  <2>7. Is(names[Len(names)], "names_end", c) /\ Len(names) >= 2
    BY <2>2, <2>3, <1>3
  <2>8. \A n \in DOMAIN users : \E i \in {1, 2} : n \in DOMAIN names[i].list
    BY <2>5
  <2>9. QED
    BY <2>2, <2>4, <2>6, <2>7, <2>8 DEF Listing
<1>6. QED
  BY <1>1, <1>4, <1>5

\* They say what is so in the state t.
LEMMA NamesTell ==
  ASSUME NEW t, StateOK(t), NEW c \in Channels, NEW users, NEW names, Listing(names, c, users),
         DOMAIN users \subseteq Nicks, \A n \in DOMAIN users : users[n] \subseteq Letters,
         c \in DOMAIN t.chans => users = t.chans[c].users
  PROVE  /\ Complete(names, t)
         /\ \A i \in 1 .. Len(names) : /\ names[i].type \in {"names", "names_end"}
                                       /\ Tells(t, names[i], t)
<1>1. PICK k : k = Len(names)
  OBVIOUS
<1>2. /\ k \in Nat /\ k >= 2 /\ Is(names[k], "names_end", c)
      /\ \A i \in 1 .. k - 1 :
           /\ Is(names[i], "names", c) /\ DOMAIN names[i].list \subseteq DOMAIN users
           /\ \A n \in DOMAIN names[i].list : names[i].list[n] = Highest(users[n])
      /\ \A n \in DOMAIN users : \E i \in 1 .. k - 1 : n \in DOMAIN names[i].list
  BY <1>1, SequentialFacts DEF Listing
<1>3. ASSUME NEW i \in 1 .. k, names[i].type = "names_end", names[i].chan \in DOMAIN t.chans,
             NEW u \in DOMAIN t.chans[names[i].chan].users
      PROVE  \E j \in 1 .. i - 1 :
               /\ Is(names[j], "names", names[i].chan) /\ u \in DOMAIN names[j].list
               /\ \A l \in j .. i - 1 : names[l].type = "names"
  <2>1. i = k
    <3>1. i \notin 1 .. k - 1
      BY <1>2, <1>3 DEF Is
    <3>2. QED
      BY <3>1, <1>2
  <2>2. names[i].chan = c
    BY <2>1, <1>2 DEF Is
  <2>3. PICK j \in 1 .. k - 1 : u \in DOMAIN names[j].list
    BY <2>2, <1>2, <1>3
  <2>4. \A l \in j .. i - 1 : names[l].type = "names"
    BY <2>1, <2>3, <1>2 DEF Is
  <2>5. QED
    BY <2>1, <2>2, <2>3, <2>4, <1>2
<1>4. Complete(names, t)
  BY <1>1, <1>3 DEF Complete
<1>5. ASSUME NEW i \in 1 .. k
      PROVE  names[i].type \in {"names", "names_end"} /\ Tells(t, names[i], t)
  <2>1. PICK m : m = names[i]
    OBVIOUS
  <2>2. CASE i = k
    <3>1. m.type = "names_end" /\ m.chan = c
      BY <2>1, <2>2, <1>2 DEF Is
    <3>2. QED
      BY <2>1, <3>1, AnswerTells DEF MessageOK, AnswerOK
  <2>3. CASE i # k
    <3>1. i \in 1 .. k - 1
      BY <2>3, <1>2
    <3>2. /\ m.type = "names" /\ m.chan = c /\ DOMAIN m.list \subseteq DOMAIN users
          /\ \A n \in DOMAIN m.list : m.list[n] = Highest(users[n])
      BY <2>1, <3>1, <1>2 DEF Is
    <3>3. \A n \in DOMAIN m.list : m.list[n] \subseteq Letters
      BY <3>2, HighestFacts
    <3>4. MessageOK(m)
      BY <3>2, <3>3 DEF MessageOK
    <3>5. AnswerOK(m, t)
      BY <3>2 DEF AnswerOK
    <3>6. QED
      BY <2>1, <3>2, <3>4, <3>5, AnswerTells
  <2>4. QED
    BY <2>2, <2>3
<1>6. QED
  BY <1>1, <1>4, <1>5

LEMMA NamesKeeps ==
  ASSUME Roster, IInv', NEW c \in Channels, Names(c)
  PROVE  Roster'
<1>1. May
  BY DEF Names
<1>2. PICK users, names :
        /\ names \in NamesLines(c, users) /\ Sends(srv, names)
        /\ DOMAIN users \subseteq Nicks /\ \A n \in DOMAIN users : users[n] \subseteq Letters
        /\ c \in DOMAIN srv.chans => users = srv.chans[c].users
  <2>1. CASE c \in DOMAIN srv.chans
    <3>1. PICK names \in NamesLines(c, srv.chans[c].users) : Sends(srv, names)
      BY <2>1 DEF Names, Mine
    <3>2. ChannelOK(srv.chans[c])
      BY <2>1, RosterFacts
    <3>3. QED
      BY <3>1, <3>2 DEF ChannelOK
  <2>2. CASE c \notin DOMAIN srv.chans
    <3>1. PICK there \in Crowds : \E names \in NamesLines(c, [n \in there |-> {}]) :
            Sends(srv, names)
      BY <2>2 DEF Names, Mine
    <3>2. PICK users : users = [n \in there |-> {}]
      OBVIOUS
    <3>3. DOMAIN users \subseteq Nicks /\ \A n \in DOMAIN users : users[n] \subseteq Letters
      BY <3>1, <3>2 DEF Crowds, Others
    <3>4. QED
      BY <2>2, <3>1, <3>2, <3>3
  <2>3. QED
    BY <2>1, <2>2
<1>3. Listing(names, c, users)
  BY <1>2, NamesListing
<1>4. /\ Complete(names, srv)
      /\ \A i \in 1 .. Len(names) : /\ names[i].type \in {"names", "names_end"}
                                    /\ Tells(srv, names[i], srv)
  BY <1>2, <1>3, RosterFacts, NamesTell
<1>5. Sequential(names) /\ names # <<>> /\ Len(names) \in Nat /\ Len(names) >= 2
  <2>1. names # <<>>
    BY <1>3, EmptySeq DEF Listing
  <2>2. QED
    BY <2>1, <1>3, SequentialFacts DEF Listing
<1>6. 1 \in 1 .. Len(names) /\ \A i \in 2 .. Len(names) : i \in 1 .. Len(names)
  BY <1>5
<1>7. Topical(names, srv)
  BY <1>4, <1>6 DEF Topical, OwnJoinLine
<1>8. \A i \in 2 .. Len(names) : names[i].type \in Neutral
  BY <1>4, <1>6 DEF Neutral
<1>9. Telling(names, srv)
  BY <1>4, <1>6, <1>7, <1>8 DEF Telling
<1>10. \A i \in 1 .. Len(names) : names[i].type # "lost"
  BY <1>4
<1>11. QED
  BY <1>1, <1>2, <1>5, <1>9, <1>10, ActKeepsRoster DEF May

\* An answer to JOIN: the join, the topic if there is one, and the names.
Answered(m, topics, t, names, k, msgs) ==
  /\ t \in Nat /\ k \in Nat /\ Len(msgs) = 1 + t + k
  /\ Sequential(msgs) /\ msgs # <<>> /\ msgs[1] = m
  /\ \A i \in 1 .. t : msgs[1 + i] = topics[i]
  /\ \A i \in 1 .. k : msgs[1 + t + i] = names[i]

LEMMA JoinLines ==
  ASSUME NEW m, NEW topics, NEW names, Sequential(topics), Sequential(names),
         NEW msgs, msgs = <<m>> \o topics \o names
  PROVE  Answered(m, topics, Len(topics), names, Len(names), msgs)
<1>1. PICK first : first = <<m>> \o topics
  OBVIOUS
<1>2. Sequential(<<m>>) /\ Len(<<m>>) = 1 /\ <<m>>[1] = m
  BY OneMessage
<1>3. PICK t, k : t = Len(topics) /\ k = Len(names)
  OBVIOUS
<1>4. t \in Nat /\ k \in Nat
  BY <1>3, SequentialFacts
<1>5. PICK one : one = <<m>>
  OBVIOUS
<1>6. /\ Sequential(first) /\ Len(first) = 1 + t
      /\ \A i \in 1 .. 1 + t : first[i] = IF i <= 1 THEN one[i] ELSE topics[i - 1]
  <2>1. /\ Sequential(one \o topics) /\ Len(one \o topics) = Len(one) + Len(topics)
        /\ \A i \in 1 .. Len(one) + Len(topics) :
             (one \o topics)[i] = IF i <= Len(one) THEN one[i] ELSE topics[i - Len(one)]
    BY <1>2, <1>5, SequentialConcat
  <2>2. Len(one) = 1 /\ first = one \o topics
    BY <1>1, <1>2, <1>5
  <2>3. QED
    BY <2>1, <2>2, <1>3
<1>7. /\ Sequential(msgs) /\ Len(msgs) = (1 + t) + k
      /\ \A i \in 1 .. (1 + t) + k :
           msgs[i] = IF i <= 1 + t THEN first[i] ELSE names[i - (1 + t)]
  <2>1. /\ Sequential(first \o names) /\ Len(first \o names) = Len(first) + Len(names)
        /\ \A i \in 1 .. Len(first) + Len(names) :
             (first \o names)[i] = IF i <= Len(first) THEN first[i] ELSE names[i - Len(first)]
    BY <1>6, SequentialConcat
  <2>2. msgs = first \o names
    BY <1>1
  <2>3. QED
    BY <2>1, <2>2, <1>3, <1>6
<1>8. msgs[1] = m
  <2>1. 1 \in 1 .. (1 + t) + k /\ 1 <= 1 + t /\ 1 \in 1 .. 1 + t
    BY <1>4
  <2>2. msgs[1] = first[1] /\ first[1] = one[1]
    BY <2>1, <1>6, <1>7
  <2>3. QED
    BY <2>2, <1>2, <1>5
<1>9. ASSUME NEW i \in 1 .. t PROVE msgs[1 + i] = topics[i]
  <2>1. 1 + i \in 1 .. (1 + t) + k /\ 1 + i <= 1 + t /\ ~(1 + i <= 1) /\ (1 + i) - 1 = i
    BY <1>4
  <2>2. QED
    BY <2>1, <1>4, <1>6, <1>7
<1>10. ASSUME NEW i \in 1 .. k PROVE msgs[1 + t + i] = names[i]
  <2>1. /\ 1 + t + i \in 1 .. (1 + t) + k /\ ~(1 + t + i <= 1 + t)
        /\ (1 + t + i) - (1 + t) = i
    BY <1>4
  <2>2. QED
    BY <2>1, <1>7
<1>11. msgs # <<>>
  BY <1>4, <1>7, EmptySeq
<1>12. QED
  BY <1>3, <1>4, <1>7, <1>8, <1>9, <1>10, <1>11 DEF Answered

\* topics says what the topic of c is in the state s, in no line or in two.
TopicSaid(topics, s, c) ==
  /\ Sequential(topics)
  /\ \A i \in 1 .. Len(topics) : /\ topics[i].type \in {"rpl_topic", "rpl_topicinfo"}
                                 /\ Tells(s, topics[i], s)
  /\ \/ Len(topics) = 0 /\ s.chans[c].topic.text = NoTopic
     \/ /\ Len(topics) = 2 /\ Is(topics[1], "rpl_topic", c)
        /\ Is(topics[2], "rpl_topicinfo", c)

LEMMA TopicTell ==
  ASSUME NEW t, StateOK(t), NEW c \in DOMAIN t.chans, NEW topic, topic = t.chans[c].topic,
         NEW topics, topics = TopicLines(c, topic)
  PROVE  TopicSaid(topics, t, c)
<1>1. c \in Channels
  BY DEF StateOK
<1>2. CASE topic.text = NoTopic
  <2>1. topics = <<>>
    BY <1>2 DEF TopicLines
  <2>2. topics \in Seq({}) /\ Len(topics) = 0
    BY <2>1, EmptySeq
  <2>3. Sequential(topics)
    BY <2>2, SeqIsSequential
  <2>4. \A i \in 1 .. Len(topics) : FALSE
    BY <2>2
  <2>5. QED
    BY <1>2, <2>2, <2>3, <2>4 DEF TopicSaid
<1>3. CASE topic.text # NoTopic
  <2>1. PICK one, two : /\ one = [type |-> "rpl_topic", chan |-> c, text |-> topic.text]
                        /\ two = [type |-> "rpl_topicinfo", chan |-> c, by |-> topic.by]
    OBVIOUS
  <2>2. topics = <<one, two>>
    BY <1>3, <2>1 DEF TopicLines
  <2>3. DOMAIN topics = 1 .. 2 /\ topics = [i \in 1 .. 2 |-> topics[i]]
    BY <2>2
  <2>4. Sequential(topics) /\ Len(topics) = 2 /\ topics[1] = one /\ topics[2] = two
    <3>1. topics[1] = one /\ topics[2] = two
      BY <2>2
    <3>2. Sequential(topics) /\ Len(topics) = 2
      BY <2>3, Written
    <3>3. QED
      BY <3>1, <3>2
  <2>5. Is(one, "rpl_topic", c) /\ Is(two, "rpl_topicinfo", c)
    BY <2>1 DEF Is
  <2>6. Tells(t, one, t)
    BY <1>1, <2>1, AnswerTells DEF MessageOK, AnswerOK
  <2>7. Tells(t, two, t)
    BY <1>1, <2>1, AnswerTells DEF MessageOK, AnswerOK
  <2>8. \A i \in 1 .. Len(topics) : topics[i] = one \/ topics[i] = two
    BY <2>4
  <2>9. QED
    BY <2>4, <2>5, <2>6, <2>7, <2>8 DEF TopicSaid, Is
<1>4. QED
  BY <1>2, <1>3

\* The line i of msgs is the first, one of the topic's or one of the names.
Line(i, topics, t, names, k, msgs) ==
  \/ i = 1
  \/ \E j \in 1 .. t : i = 1 + j /\ msgs[i] = topics[j]
  \/ \E j \in 1 .. k : i = 1 + t + j /\ msgs[i] = names[j]

LEMMA AnsweredBy ==
  ASSUME NEW m, NEW topics, NEW t, NEW names, NEW k, NEW msgs,
         Answered(m, topics, t, names, k, msgs), NEW i \in 1 .. Len(msgs)
  PROVE  Line(i, topics, t, names, k, msgs)
<1>1. t \in Nat /\ k \in Nat /\ Len(msgs) = 1 + t + k
  BY DEF Answered
<1>2. CASE i > 1 /\ i <= 1 + t
  <2>1. PICK j : j = i - 1
    OBVIOUS
  <2>2. j \in 1 .. t /\ i = 1 + j
    BY <1>1, <1>2, <2>1
  <2>3. msgs[1 + j] = topics[j]
    BY <2>2 DEF Answered
  <2>4. QED
    BY <2>2, <2>3 DEF Line
<1>3. CASE i > 1 + t
  <2>1. PICK j : j = i - (1 + t)
    OBVIOUS
  <2>2. j \in 1 .. k /\ i = 1 + t + j
    BY <1>1, <1>3, <2>1
  <2>3. msgs[1 + t + j] = names[j]
    BY <2>2 DEF Answered
  <2>4. QED
    BY <2>2, <2>3 DEF Line
<1>4. QED
  BY <1>1, <1>2, <1>3 DEF Line

\* Where the names list everybody, the whole does.
LEMMA AnsweredComplete ==
  ASSUME NEW state, NEW m, m.type = "join", NEW topics, NEW t, NEW names, NEW k, NEW msgs,
         Answered(m, topics, t, names, k, msgs),
         \A i \in 1 .. t : topics[i].type \in {"rpl_topic", "rpl_topicinfo"},
         k = Len(names), Complete(names, state)
  PROVE  Complete(msgs, state)
<1>1. t \in Nat /\ k \in Nat /\ Len(msgs) = 1 + t + k /\ msgs[1] = m
  BY DEF Answered
<1>2. ASSUME NEW i \in 1 .. Len(msgs), msgs[i].type = "names_end",
             msgs[i].chan \in DOMAIN state.chans,
             NEW u \in DOMAIN state.chans[msgs[i].chan].users
      PROVE  \E j \in 1 .. i - 1 :
               /\ Is(msgs[j], "names", msgs[i].chan) /\ u \in DOMAIN msgs[j].list
               /\ \A l \in j .. i - 1 : msgs[l].type = "names"
  <2>1. PICK p \in 1 .. k : i = 1 + t + p /\ msgs[i] = names[p]
    <3>1. i # 1
      BY <1>1, <1>2
    <3>2. ~\E j \in 1 .. t : msgs[i] = topics[j]
      BY <1>2
    <3>3. QED
      BY <3>1, <3>2, AnsweredBy DEF Line
  <2>2. PICK j \in 1 .. p - 1 :
              /\ Is(names[j], "names", names[p].chan) /\ u \in DOMAIN names[j].list
              /\ \A l \in j .. p - 1 : names[l].type = "names"
    BY <1>2, <2>1 DEF Complete
  <2>3. p \in Int /\ j \in Int /\ i \in Int /\ j \in 1 .. k
    BY <1>1, <2>1, <2>2
  <2>4. PICK q : q = 1 + t + j
    OBVIOUS
  <2>5. q \in 1 .. i - 1
    BY <1>1, <2>1, <2>2, <2>3, <2>4
  <2>6. msgs[q] = names[j]
    BY <2>3, <2>4 DEF Answered
  <2>7. ASSUME NEW l \in q .. i - 1 PROVE msgs[l].type = "names"
    <3>1. PICK r : r = l - (1 + t)
      OBVIOUS
    <3>2. r \in j .. p - 1 /\ r \in 1 .. k /\ l = 1 + t + r
      BY <1>1, <2>1, <2>2, <2>3, <2>4, <3>1
    <3>3. msgs[l] = names[r]
      BY <3>2 DEF Answered
    <3>4. QED
      BY <2>2, <3>2, <3>3
  <2>8. QED
    BY <2>1, <2>2, <2>5, <2>6, <2>7
<1>3. QED
  BY <1>2 DEF Complete

\* msgs tells of the way to state, and not of the end of the connection.
Answer(msgs, state) ==
  /\ Telling(msgs, state) /\ Sequential(msgs) /\ msgs # <<>>
  /\ \A i \in 1 .. Len(msgs) : msgs[i].type # "lost"

\* The topic's lines are where they belong.
LEMMA AnsweredTopical ==
  ASSUME NEW state, NEW c, NEW m, m.type = "join", m.nick = srv.nick, m.chan = c,
         NEW topics, NEW t, NEW names, NEW k, NEW msgs, Answered(m, topics, t, names, k, msgs),
         \A i \in 1 .. k : names[i].type \in {"names", "names_end"},
         \/ t = 0 /\ state.chans[c].topic = Untitled
         \/ t = 2 /\ Is(topics[1], "rpl_topic", c) /\ Is(topics[2], "rpl_topicinfo", c)
  PROVE  Topical(msgs, state)
<1>1. t \in Nat /\ k \in Nat /\ Len(msgs) = 1 + t + k /\ msgs[1] = m
  BY DEF Answered
<1>2. CASE t = 0 /\ state.chans[c].topic = Untitled
  <2>1. ASSUME NEW i \in 1 .. Len(msgs) PROVE msgs[i].type \in {"join", "names", "names_end"}
    <3>1. ~\E j \in 1 .. t : i = 1 + j /\ msgs[i] = topics[j]
      BY <1>2
    <3>2. i = 1 \/ \E j \in 1 .. k : msgs[i] = names[j]
      BY <3>1, AnsweredBy DEF Line
    <3>3. QED
      BY <3>2, <1>1
  <2>2. QED
    BY <2>1, <1>1, <1>2 DEF Topical
<1>3. CASE t = 2 /\ Is(topics[1], "rpl_topic", c) /\ Is(topics[2], "rpl_topicinfo", c)
  <2>1. 1 \in 1 .. t /\ 2 \in 1 .. t /\ 1 + 1 = 2 /\ 1 + 2 = 3 /\ Len(msgs) >= 3
    BY <1>1, <1>3
  <2>2. msgs[1 + 1] = topics[1] /\ msgs[1 + 2] = topics[2]
    BY <2>1 DEF Answered
  <2>3. Is(msgs[2], "rpl_topic", c) /\ Is(msgs[3], "rpl_topicinfo", c)
    BY <2>1, <2>2, <1>3
  <2>4. ASSUME NEW i \in 1 .. Len(msgs)
        PROVE  i = 1 \/ i = 2 \/ i = 3 \/ msgs[i].type \in {"names", "names_end"}
    <3>1. ASSUME NEW j \in 1 .. t, i = 1 + j PROVE i = 2 \/ i = 3
      BY <1>3, <3>1
    <3>2. QED
      BY <3>1, AnsweredBy DEF Line
  <2>5. \A i \in 1 .. Len(msgs) : /\ msgs[i].type = "rpl_topic" => i = 2
                                  /\ msgs[i].type = "rpl_topicinfo" => i = 3
    BY <2>3, <2>4, <1>1 DEF Is
  <2>6. OwnJoinLine(msgs[1]) /\ msgs[1].chan = c
    BY <1>1 DEF OwnJoinLine
  <2>7. msgs[2].chan = c /\ msgs[3].chan = c
    BY <2>3 DEF Is
  <2>8. ASSUME NEW i \in 1 .. Len(msgs)
        PROVE  /\ msgs[i].type = "rpl_topic" =>
                    /\ i = 2 /\ msgs[1].chan = msgs[i].chan
                    /\ Is(msgs[3], "rpl_topicinfo", msgs[i].chan)
               /\ msgs[i].type = "rpl_topicinfo" =>
                    i = 3 /\ Is(msgs[2], "rpl_topic", msgs[i].chan)
    <3>1. /\ msgs[i].type = "rpl_topic" => i = 2 /\ msgs[i].chan = c
          /\ msgs[i].type = "rpl_topicinfo" => i = 3 /\ msgs[i].chan = c
      <4>1. /\ msgs[i].type = "rpl_topic" => i = 2
            /\ msgs[i].type = "rpl_topicinfo" => i = 3
        BY <2>5
      <4>2. (i = 2 => msgs[i].chan = c) /\ (i = 3 => msgs[i].chan = c)
        BY <2>7
      <4>3. QED
        BY <4>1, <4>2
    <3>2. QED
      BY <2>3, <2>6, <3>1
  <2>9. QED
    BY <2>1, <2>3, <2>6, <2>8 DEF Topical
<1>4. QED
  BY <1>2, <1>3

LEMMA JoinTelling ==
  ASSUME NEW state, NEW c \in DOMAIN state.chans, NEW m,
         m = [type |-> "join", nick |-> srv.nick, chan |-> c], Tells(srv, m, state),
         state.chans[c].topic.text = NoTopic => state.chans[c].topic = Untitled,
         NEW topics, topics = TopicLines(c, state.chans[c].topic),
         NEW names, Listing(names, c, state.chans[c].users),
         NEW msgs, msgs = <<m>> \o topics \o names
  PROVE  Answer(msgs, state)
<1>1. PICK t, k : t = Len(topics) /\ k = Len(names)
  OBVIOUS
<1>2. StateOK(state)
  BY DEF Tells
<1>3. c \in Channels /\ ChannelOK(state.chans[c])
  BY <1>2 DEF StateOK
<1>4. /\ Sequential(topics)
      /\ \A i \in 1 .. t : /\ topics[i].type \in {"rpl_topic", "rpl_topicinfo"}
                           /\ Tells(state, topics[i], state)
      /\ \/ t = 0 /\ state.chans[c].topic.text = NoTopic
         \/ t = 2 /\ Is(topics[1], "rpl_topic", c) /\ Is(topics[2], "rpl_topicinfo", c)
  <2>1. TopicSaid(topics, state, c)
    BY <1>2, TopicTell
  <2>2. QED
    BY <2>1, <1>1 DEF TopicSaid
<1>5. /\ Complete(names, state)
      /\ \A i \in 1 .. k : /\ names[i].type \in {"names", "names_end"}
                           /\ Tells(state, names[i], state)
  <2>1. PICK users : users = state.chans[c].users
    OBVIOUS
  <2>2. DOMAIN users \subseteq Nicks /\ \A n \in DOMAIN users : users[n] \subseteq Letters
    BY <1>3, <2>1 DEF ChannelOK
  <2>3. QED
    BY <1>1, <1>2, <1>3, <2>1, <2>2, NamesTell
<1>6. Answered(m, topics, t, names, k, msgs)
  <2>1. Sequential(names)
    BY DEF Listing
  <2>2. Answered(m, topics, Len(topics), names, Len(names), msgs)
    BY <1>4, <2>1, JoinLines
  <2>3. QED
    BY <2>2, <1>1
<1>7. t \in Nat /\ k \in Nat /\ Len(msgs) = 1 + t + k /\ msgs[1] = m
  BY <1>6 DEF Answered
<1>8. m.type = "join" /\ m.nick = srv.nick /\ m.chan = c
  OBVIOUS
<1>9. ASSUME NEW i \in 1 .. Len(msgs), i # 1
      PROVE  /\ msgs[i].type \in {"rpl_topic", "rpl_topicinfo", "names", "names_end"}
             /\ Tells(state, msgs[i], state)
  <2>1. CASE \E j \in 1 .. t : msgs[i] = topics[j]
    BY <2>1, <1>4
  <2>2. CASE \E j \in 1 .. k : msgs[i] = names[j]
    BY <2>2, <1>5
  <2>3. \/ \E j \in 1 .. t : i = 1 + j /\ msgs[i] = topics[j]
        \/ \E j \in 1 .. k : i = 1 + t + j /\ msgs[i] = names[j]
    <3>1. Line(i, topics, t, names, k, msgs)
      BY <1>6, AnsweredBy
    <3>2. QED
      BY <1>9, <3>1 DEF Line
  <2>4. QED
    BY <2>1, <2>2, <2>3
<1>10. Complete(msgs, state)
  BY <1>1, <1>4, <1>5, <1>6, <1>8, AnsweredComplete
<1>11. Topical(msgs, state)
  <2>1. \A i \in 1 .. k : names[i].type \in {"names", "names_end"}
    BY <1>5
  <2>2. \/ t = 0 /\ state.chans[c].topic = Untitled
        \/ t = 2 /\ Is(topics[1], "rpl_topic", c) /\ Is(topics[2], "rpl_topicinfo", c)
    BY <1>4
  <2>3. QED
    BY <2>1, <2>2, <1>6, <1>8, AnsweredTopical
<1>12. ASSUME NEW i \in 2 .. Len(msgs)
       PROVE  msgs[i].type \in Neutral /\ Tells(state, msgs[i], state)
  <2>1. i \in 1 .. Len(msgs) /\ i # 1
    BY <1>7
  <2>2. QED
    BY <2>1, <1>9 DEF Neutral
<1>13. ASSUME NEW i \in 1 .. Len(msgs) PROVE msgs[i].type # "lost"
  <2>1. CASE i = 1
    BY <2>1, <1>7, <1>8
  <2>2. CASE i # 1
    BY <2>2, <1>9
  <2>3. QED
    BY <2>1, <2>2
<1>14. Telling(msgs, state)
  BY <1>7, <1>10, <1>11, <1>12 DEF Telling
<1>15. QED
  BY <1>6, <1>13, <1>14 DEF Answered, Answer

LEMMA OwnJoinKeeps ==
  ASSUME Roster, IInv', NEW c \in Channels, OwnJoin(c)
  PROVE  Roster'
<1>1. PICK there \in Crowds :
        \E users \in [there -> SUBSET Letters] : \E topic \in TopicsOf(there) :
          LET all == With(users, srv.nick, IF there = {} THEN {Head(Ranks)} ELSE {})
              found == [users |-> all, flags |-> {}, topic |-> topic]
          IN  \E names \in NamesLines(c, all) :
                Sends([srv EXCEPT !.chans = With(@, c, found)],
                      <<[type |-> "join", nick |-> srv.nick, chan |-> c]>>
                        \o TopicLines(c, topic) \o names)
  BY DEF OwnJoin
<1>2. May /\ c \notin DOMAIN srv.chans /\ link # "new"
  BY DEF OwnJoin, Mine, May
<1>3. PICK own : own = IF there = {} THEN {Head(Ranks)} ELSE {}
  OBVIOUS
<1>4. PICK topic, all, found :
        /\ topic \in TopicsOf(there)
        /\ \E users \in [there -> SUBSET Letters] : all = With(users, srv.nick, own)
        /\ found = [users |-> all, flags |-> {}, topic |-> topic]
        /\ \E names \in NamesLines(c, all) :
             Sends([srv EXCEPT !.chans = With(srv.chans, c, found)],
                   <<[type |-> "join", nick |-> srv.nick, chan |-> c]>>
                     \o TopicLines(c, topic) \o names)
  BY <1>1, <1>3
<1>5. PICK chs : chs = With(srv.chans, c, found)
  OBVIOUS
<1>6. PICK state : state = [srv EXCEPT !.chans = chs]
  OBVIOUS
<1>7. PICK m : m = [type |-> "join", nick |-> srv.nick, chan |-> c]
  OBVIOUS
<1>8. PICK topics : topics = TopicLines(c, topic)
  OBVIOUS
<1>9. PICK names \in NamesLines(c, all) : Sends(state, <<m>> \o topics \o names)
  BY <1>4, <1>5, <1>6, <1>7, <1>8
<1>10. PICK msgs : msgs = <<m>> \o topics \o names
  OBVIOUS
<1>11. /\ DOMAIN chs = DOMAIN srv.chans \cup {c} /\ chs[c] = found
       /\ \A d \in DOMAIN srv.chans : chs[d] = srv.chans[d]
  BY <1>2, <1>5 DEF With
<1>12. DOMAIN state = Fields /\ state.modes = srv.modes /\ state.chans = chs
  BY <1>6, RosterFacts DEF Fields
<1>13. ChannelOK(found)
  <2>1. own \subseteq Letters
    <3>1. Sequential(Ranks) /\ Ranks # <<>>
      BY SeqIsSequential, ClientAssumption DEF ClientAssumption
    <3>2. Head(Ranks) \in Letters
      BY <3>1, SequentialFacts DEF Letters, ToSet
    <3>3. QED
      BY <1>3, <3>2
  <2>2. there \subseteq Nicks /\ srv.nick \in Nicks
    BY <1>2, RosterFacts DEF Crowds, Others
  <2>3. DOMAIN all \subseteq Nicks /\ \A n \in DOMAIN all : all[n] \subseteq Letters
    BY <1>4, <2>1, <2>2 DEF With
  <2>4. topic \in [text : Topics \cup {NoTopic}, by : Nicks \cup {NoNick}]
    BY <1>4, <2>2 DEF TopicsOf, Untitled
  <2>5. QED
    BY <1>4, <2>3, <2>4 DEF ChannelOK
<1>14. m.type = "join" /\ m.nick = srv.nick /\ m.chan = c
  BY <1>7
<1>15. Tells(srv, m, state)
  <2>1. StateOK(state)
    BY <1>11, <1>12, <1>13, RosterFacts DEF StateOK
  <2>2. MessageOK(m)
    BY <1>2, <1>14, RosterFacts DEF MessageOK
  <2>3. AnswerOK(m, state) /\ ModesAfter(srv, m, state)
    BY <1>12, <1>14 DEF AnswerOK, ModesAfter
  <2>4. ASSUME NEW d \in DOMAIN srv.chans PROVE ChannelAfter(m, d, srv.chans[d], chs[d])
    <3>1. d # c /\ chs[d] = srv.chans[d]
      BY <1>2, <1>11
    <3>2. QED
      BY <3>1, <1>14 DEF ChannelAfter, Concerns, Is
  <2>5. srv.nick \in DOMAIN chs[c].users
    BY <1>4, <1>11 DEF With
  <2>6. ASSUME NEW d \in DOMAIN state.chans
        PROVE  IF d \in DOMAIN srv.chans THEN ChannelAfter(m, d, srv.chans[d], state.chans[d])
               ELSE Is(m, "join", d) /\ m.nick = srv.nick /\ srv.nick \in DOMAIN state.chans[d].users
    BY <1>11, <1>12, <1>14, <2>4, <2>5 DEF Is
  <2>7. QED
    BY <1>2, <1>14, <2>1, <2>2, <2>3, <2>6 DEF Tells
<1>16. c \in DOMAIN state.chans /\ state.chans[c].users = all /\ state.chans[c].topic = topic
  BY <1>4, <1>11, <1>12
<1>17. topic.text = NoTopic => topic = Untitled
  <2>1. topic = Untitled \/ topic.text \in Topics
    BY <1>4 DEF TopicsOf
  <2>2. QED
    BY <2>1, ClientAssumption DEF ClientAssumption
<1>18. Listing(names, c, all)
  BY <1>9, NamesListing
<1>19. /\ Telling(msgs, state) /\ Sequential(msgs) /\ msgs # <<>>
       /\ \A i \in 1 .. Len(msgs) : msgs[i].type # "lost"
  <2>1. topics = TopicLines(c, state.chans[c].topic) /\ Listing(names, c, state.chans[c].users)
    BY <1>8, <1>16, <1>18
  <2>2. Answer(msgs, state)
    BY <1>7, <1>10, <1>15, <1>16, <1>17, <2>1, JoinTelling
  <2>3. QED
    BY <2>2 DEF Answer
<1>20. Sends(state, msgs)
  BY <1>9, <1>10
<1>21. QED
  BY <1>2, <1>19, <1>20, ActKeepsRoster DEF May

\* Whatever the server does, the invariant is kept.
LEMMA ActsKeepRoster ==
  ASSUME Roster, Act
  PROVE  Roster'
<1>1. IInv'
  BY ActKeepsIInv DEF Roster
<1>2. CASE Welcome \/ Lost
  BY <1>1, <1>2, WelcomeKeeps, LostKeeps
<1>3. ASSUME NEW c \in Channels, OwnJoin(c) \/ ChangeModes(c) \/ Names(c)
      PROVE  Roster'
  BY <1>1, <1>3, OwnJoinKeeps, ChangeModesKeeps, NamesKeeps
<1>4. ASSUME NEW c \in Channels, NEW n \in Nicks, OtherJoin(n, c) \/ ChangeTopic(c, n)
      PROVE  Roster'
  BY <1>1, <1>4, OtherJoinKeeps, ChangeTopicKeeps
<1>5. ASSUME NEW c \in Channels, NEW n \in Nicks, NEW type \in {"part", "kick"},
             Leave(type, n, c)
      PROVE  Roster'
  BY <1>1, <1>5, LeaveKeeps
<1>6. ASSUME NEW n \in Nicks, Quit(n)
      PROVE  Roster'
  BY <1>1, <1>6, QuitKeeps
<1>7. ASSUME NEW n \in Nicks, NEW new \in Nicks, ChangeNick(n, new)
      PROVE  Roster'
  BY <1>1, <1>7, ChangeNickKeeps
<1>8. ASSUME NEW on \in BOOLEAN, ChangeOwnMode(on)
      PROVE  Roster'
  BY <1>1, <1>8, ChangeOwnModeKeeps
<1>9. QED
  BY <1>2, <1>3, <1>4, <1>5, <1>6, <1>7, <1>8 DEF Act
-----------------------------------------------------------------------------
(* The queue shrinks.                                                      *)

LEMMA HandledTells ==
  ASSUME Roster, queue # <<>>, Handled
  PROVE  /\ Tells(seen, Event, seen') /\ MessageOK(Event) /\ StateOK(seen) /\ StateOK(seen')
         /\ Follows(granted, seen, Event, seen') /\ (Misnamed' <=> Misnamed)
<1>1. PICK n : n = Len(queue)
  OBVIOUS
<1>2. Shrunk(n)
  BY <1>1, QueueShrinks DEF Roster, IInv
<1>3. 1 \in DOMAIN queue /\ Before(1) = seen /\ Event = queue[1].msg /\ seen' = queue[1].after
  BY <1>2 DEF Shrunk
<1>4. Tells(Before(1), queue[1].msg, queue[1].after)
  BY <1>3 DEF Roster, Links
<1>5. Tells(seen, Event, seen')
  BY <1>3, <1>4
<1>6. StateOK(seen) /\ Follows(granted, seen, Event, seen') /\ (Misnamed' <=> Misnamed)
  BY HandledFacts DEF Roster, Links
<1>7. QED
  BY <1>5, <1>6 DEF Tells

LEMMA LinksShrink ==
  ASSUME Links, NEW n, Shrunk(n)
  PROVE  Links'
<1>1. /\ n \in Nat /\ n >= 1 /\ DOMAIN queue = 1 .. n /\ DOMAIN queue' = 1 .. n - 1
      /\ seen' = queue[1].after
      /\ \A i \in 1 .. n - 1 : queue'[i] = queue[i + 1] /\ Before(i)' = Before(i + 1)
  BY DEF Shrunk
<1>2. StateOK(seen')
  <2>1. 1 \in DOMAIN queue
    BY <1>1
  <2>2. Tells(Before(1), queue[1].msg, queue[1].after)
    BY <2>1 DEF Links
  <2>3. QED
    BY <1>1, <2>2 DEF Tells
<1>3. ASSUME NEW i \in DOMAIN queue'
      PROVE  Tells(Before(i)', queue'[i].msg, queue'[i].after)
  <2>1. i \in 1 .. n - 1 /\ i + 1 \in DOMAIN queue
    BY <1>1
  <2>2. Tells(Before(i + 1), queue[i + 1].msg, queue[i + 1].after)
    BY <2>1 DEF Links
  <2>3. QED
    BY <1>1, <2>1, <2>2
<1>4. QED
  BY <1>2, <1>3 DEF Links

LEMMA TopicLinesShrink ==
  ASSUME TopicLinesFollow, NEW n, Shrunk(n)
  PROVE  TopicLinesFollow'
<1>1. /\ n \in Nat /\ n >= 1 /\ DOMAIN queue = 1 .. n /\ DOMAIN queue' = 1 .. n - 1
      /\ \A i \in 1 .. n - 1 : queue'[i] = queue[i + 1] /\ Before(i)' = Before(i + 1)
  BY DEF Shrunk
<1>2. ASSUME NEW i \in DOMAIN queue' PROVE TopicLinesAt(i)'
  <2>1. PICK p : p = i + 1
    OBVIOUS
  <2>2. /\ i \in 1 .. n - 1 /\ p \in 1 .. n /\ p > 1 /\ p \in DOMAIN queue
        /\ queue'[i] = queue[p] /\ Before(i)' = Before(p)
    BY <1>1, <2>1
  <2>3. i + 1 \in DOMAIN queue' <=> p + 1 \in DOMAIN queue
    BY <1>1, <2>1, <2>2
  <2>4. i + 1 \in DOMAIN queue' => queue'[i + 1] = queue[p + 1]
    BY <1>1, <2>1, <2>2
  <2>5. i > 1 => /\ queue'[i - 1] = queue[p - 1] /\ Before(i - 1)' = Before(p - 1)
    <3>1. ASSUME i > 1 PROVE i - 1 \in 1 .. n - 1 /\ (i - 1) + 1 = p - 1
      BY <1>1, <2>1, <2>2, <3>1
    <3>2. QED
      BY <1>1, <3>1
  <2>6. TopicLinesAt(p)
    BY <2>2 DEF TopicLinesFollow
  <2>7. QED
    BY <2>2, <2>3, <2>4, <2>5, <2>6 DEF TopicLinesAt, OwnJoinAt
<1>3. QED
  BY <1>2 DEF TopicLinesFollow
-----------------------------------------------------------------------------
(* The Client's steps.                                                     *)

\* The client's own JOIN, as its handler tells it.
Entry(m, c) == Is(m, "join", c) /\ m.nick = nick

\* What the handler of m does to the table.
TableAfter(m) ==
  /\ \A c \in DOMAIN chans' :
       \/ Entry(m, c) /\ chans'[c] = AddUser(NewChannel(TRUE), nick, {})
       \/ /\ c \in DOMAIN chans /\ ~Entry(m, c)
          /\ RecordAfter(m, c, chans[c], chans'[c])
       \/ /\ c \notin DOMAIN chans /\ Is(m, "names", c)
          /\ RecordAfter(m, c, NewChannel(FALSE), chans'[c])
  /\ m.type = "names" => DOMAIN chans \cup {m.chan} \subseteq DOMAIN chans'

\* And to the rest.
RestAfter(m) ==
  /\ prefixes' = IF m.type = "isupport" THEN m.ranks ELSE prefixes
  /\ nick' = IF m.type = "nick" /\ m.old = nick THEN m.new ELSE nick
  /\ ~(m.type = "mode" /\ m.target = nick) => umodes' = umodes
  /\ m.type = "mode" /\ m.target = nick /\ m.target \notin Channels =>
       umodes' = WithUserModes(m, umodes)
  /\ announced' \subseteq announced \cup {c \in DOMAIN chans : Is(m, "names_end", c)}
  /\ \A c : Entry(m, c) => c \notin announced'

\* A table that m leaves alone.
LEMMA TableStays ==
  ASSUME NEW m, \A c \in DOMAIN chans : ~Concerns(m, c) /\ ~Entry(m, c),
         m.type \notin {"names", "rpl_topic", "rpl_topicinfo"}, chans' = chans
  PROVE  TableAfter(m)
<1>1. \A c \in DOMAIN chans : RecordAfter(m, c, chans[c], chans[c])
  BY DEF RecordAfter, Concerns, Is
<1>2. QED
  BY <1>1 DEF TableAfter

\* A table where the record of one channel changes.
LEMMA TablePut ==
  ASSUME NEW m, NEW c \in DOMAIN chans, NEW d, Put(c, d), RecordAfter(m, c, chans[c], d),
         \A e \in DOMAIN chans \ {c} : ~Concerns(m, e),
         m.type \notin {"quit", "nick"}, ~Entry(m, c),
         m.type \in {"join", "part", "kick", "topic", "rpl_topic", "rpl_topicinfo", "names"} =>
           m.chan = c
  PROVE  TableAfter(m)
<1>1. /\ DOMAIN chans' = DOMAIN chans
      /\ \A e \in DOMAIN chans : chans'[e] = IF e = c THEN d ELSE chans[e]
  BY DEF Put, With
<1>2. ASSUME NEW e \in DOMAIN chans, e # c
      PROVE  RecordAfter(m, e, chans[e], chans[e]) /\ ~Entry(m, e)
  <2>1. ~Concerns(m, e) /\ m.type \notin {"quit", "nick"}
    BY <1>2
  <2>2. /\ ~Is(m, "join", e) /\ ~Is(m, "rpl_topic", e) /\ ~Is(m, "rpl_topicinfo", e)
        /\ ~Is(m, "names", e)
    BY <1>2 DEF Is
  <2>3. QED
    BY <2>1, <2>2 DEF RecordAfter, Concerns, Is, Entry
<1>3. m.type = "names" => m.chan \in DOMAIN chans
  OBVIOUS
<1>4. QED
  BY <1>1, <1>2, <1>3 DEF TableAfter

LEMMA HandleRegisteredDoes ==
  ASSUME Roster, HandleRegistered
  PROVE  TableAfter(Event) /\ RestAfter(Event)
<1>1. PICK m : m = Event
  OBVIOUS
<1>2. m.type = "registered" /\ UNCHANGED client
  BY <1>1 DEF HandleRegistered, On
<1>3. TableAfter(m)
  BY <1>2, TableStays DEF client, Concerns, Entry, Is
<1>4. RestAfter(m)
  BY <1>2 DEF client, RestAfter, Entry, Is
<1>5. QED
  BY <1>1, <1>3, <1>4

LEMMA HandleISupportDoes ==
  ASSUME Roster, HandleISupport
  PROVE  TableAfter(Event) /\ RestAfter(Event)
<1>1. PICK m : m = Event
  OBVIOUS
<1>2. /\ m.type = "isupport" /\ prefixes' = m.ranks
      /\ UNCHANGED <<nick, umodes, chans, announced>>
  BY <1>1 DEF HandleISupport, On
<1>3. TableAfter(m)
  BY <1>2, TableStays DEF Concerns, Entry, Is
<1>4. RestAfter(m)
  BY <1>2 DEF RestAfter, Entry, Is
<1>5. QED
  BY <1>1, <1>3, <1>4

LEMMA HandleNickDoes ==
  ASSUME Roster, HandleNick
  PROVE  TableAfter(Event) /\ RestAfter(Event)
<1>1. PICK m : m = Event
  OBVIOUS
<1>2. /\ m.type = "nick" /\ nick' = IF m.old = nick THEN m.new ELSE nick
      /\ chans' = [c \in DOMAIN chans |->
                     [chans[c] EXCEPT !.users = RenameUser(chans[c].users, m.old, m.new)]]
      /\ UNCHANGED <<umodes, prefixes, announced>>
  BY <1>1 DEF HandleNick, On
<1>3. \A c : ~Entry(m, c)
  BY <1>2 DEF Entry, Is
<1>4. ASSUME NEW c \in DOMAIN chans PROVE RecordAfter(m, c, chans[c], chans'[c])
  <2>1. chans'[c] = [chans[c] EXCEPT !.users = RenameUser(chans[c].users, m.old, m.new)]
    BY <1>2
  <2>2. QED
    BY <2>1, <1>2 DEF RecordAfter, Concerns, Is
<1>5. TableAfter(m)
  BY <1>2, <1>3, <1>4 DEF TableAfter
<1>6. RestAfter(m)
  BY <1>2, <1>3 DEF RestAfter
<1>7. QED
  BY <1>1, <1>5, <1>6

LEMMA HandleModeDoes ==
  ASSUME Roster, HandleMode
  PROVE  TableAfter(Event) /\ RestAfter(Event)
<1>1. PICK m : m = Event
  OBVIOUS
<1>2. /\ m.type = "mode" /\ UNCHANGED <<nick, prefixes, announced>>
      /\ \/ /\ m.target \in Channels /\ m.target \in DOMAIN chans
            /\ Put(m.target, WithModes(m, chans[m.target])) /\ UNCHANGED umodes
         \/ /\ ~(m.target \in Channels /\ m.target \in DOMAIN chans) /\ m.target = nick
            /\ umodes' = WithUserModes(m, umodes) /\ UNCHANGED chans
         \/ /\ ~(m.target \in Channels /\ m.target \in DOMAIN chans) /\ m.target # nick
            /\ UNCHANGED <<umodes, chans>>
  <2>1. ~(m.target \in Channels /\ m.target = nick)
    BY ClientAssumption DEF Roster, ClientOK, ClientAssumption
  <2>2. QED
    BY <1>1, <2>1 DEF HandleMode, On, Known
<1>3. \A c : ~Entry(m, c)
  BY <1>2 DEF Entry, Is
<1>4. DOMAIN chans \subseteq Channels
  BY DEF Roster, ClientOK
<1>5. TableAfter(m)
  <2>1. CASE /\ m.target \in DOMAIN chans
             /\ Put(m.target, WithModes(m, chans[m.target]))
    <3>1. PICK c, d : c = m.target /\ d = WithModes(m, chans[c])
      OBVIOUS
    <3>2. RecordAfter(m, c, chans[c], d)
      BY <3>1, <1>2 DEF RecordAfter, Concerns, Is
    <3>3. \A e \in DOMAIN chans \ {c} : ~Concerns(m, e)
      BY <3>1, <1>2 DEF Concerns
    <3>4. QED
      BY <2>1, <3>1, <3>2, <3>3, <1>2, <1>3, TablePut
  <2>2. CASE m.target \notin DOMAIN chans /\ chans' = chans
    <3>1. \A c \in DOMAIN chans : ~Concerns(m, c)
      BY <2>2, <1>2 DEF Concerns
    <3>2. QED
      BY <2>2, <3>1, <1>2, <1>3, TableStays
  <2>3. QED
    BY <2>1, <2>2, <1>2, <1>4
<1>6. RestAfter(m)
  BY <1>2, <1>3 DEF RestAfter
<1>7. QED
  BY <1>1, <1>5, <1>6

LEMMA HandleJoinDoes ==
  ASSUME Roster, HandleJoin
  PROVE  TableAfter(Event) /\ RestAfter(Event)
<1>1. PICK m, c : m = Event /\ c = m.chan
  OBVIOUS
<1>2. /\ m.type = "join" /\ UNCHANGED <<nick, umodes, prefixes>>
      /\ \/ /\ m.nick = nick /\ Put(c, AddUser(NewChannel(TRUE), nick, {}))
            /\ announced' = announced \ {c}
         \/ /\ m.nick # nick /\ c \in DOMAIN chans
            /\ Put(c, AddUser(chans[c], m.nick, {})) /\ UNCHANGED announced
         \/ m.nick # nick /\ c \notin DOMAIN chans /\ UNCHANGED <<chans, announced>>
  BY <1>1 DEF HandleJoin, On, Known
<1>3. \A e : Entry(m, e) <=> e = c /\ m.nick = nick
  BY <1>1, <1>2 DEF Entry, Is
<1>4. \A e : e # c => ~Concerns(m, e)
  BY <1>1, <1>2 DEF Concerns
<1>5. TableAfter(m)
  <2>1. CASE m.nick = nick
    <3>1. PICK new : new = AddUser(NewChannel(TRUE), nick, {})
      OBVIOUS
    <3>2. Put(c, new)
      BY <2>1, <3>1, <1>2
    <3>3. /\ DOMAIN chans' = DOMAIN chans \cup {c}
          /\ \A e \in DOMAIN chans' : chans'[e] = IF e = c THEN new ELSE chans[e]
      BY <3>2 DEF Put, With
    <3>4. \A e \in DOMAIN chans' \ {c} : RecordAfter(m, e, chans[e], chans[e])
      BY <1>1, <1>2, <1>4 DEF RecordAfter, Concerns, Is
    <3>5. QED
      BY <2>1, <3>1, <3>3, <3>4, <1>2, <1>3 DEF TableAfter
  <2>2. CASE m.nick # nick /\ c \in DOMAIN chans
    <3>1. PICK ch, d : ch = chans[c] /\ d = [ch EXCEPT !.users = With(ch.users, m.nick, {})]
      OBVIOUS
    <3>2. Put(c, d)
      BY <2>2, <3>1, <1>2 DEF AddUser
    <3>3. RecordAfter(m, c, ch, d)
      BY <3>1, <1>1, <1>2 DEF RecordAfter, Concerns, Is
    <3>4. QED
      BY <2>2, <3>1, <3>2, <3>3, <1>1, <1>2, <1>3, <1>4, TablePut
  <2>3. CASE m.nick # nick /\ c \notin DOMAIN chans
    <3>1. \A e \in DOMAIN chans : ~Concerns(m, e) /\ ~Entry(m, e)
      BY <2>3, <1>3, <1>4
    <3>2. QED
      BY <2>3, <3>1, <1>2, TableStays
  <2>4. QED
    BY <2>1, <2>2, <2>3
<1>6. RestAfter(m)
  BY <1>2, <1>3 DEF RestAfter
<1>7. QED
  BY <1>1, <1>5, <1>6

LEMMA HandleLeaveDoes ==
  ASSUME Roster, NEW type \in {"part", "kick"}, HandleLeave(type)
  PROVE  TableAfter(Event) /\ RestAfter(Event)
<1>1. PICK m, c : m = Event /\ c = m.chan
  OBVIOUS
<1>2. /\ m.type \in {"part", "kick"} /\ UNCHANGED <<nick, umodes, prefixes, announced>>
      /\ \/ chans' = Without(chans, c)
         \/ /\ c \in DOMAIN chans
            /\ Put(c, [chans[c] EXCEPT !.users = Without(chans[c].users, m.nick)])
         \/ c \notin DOMAIN chans /\ UNCHANGED chans
  BY <1>1 DEF HandleLeave, On, Known
<1>3. \A e : ~Entry(m, e) /\ (e # c => ~Concerns(m, e))
  BY <1>1, <1>2 DEF Entry, Is, Concerns
<1>4. TableAfter(m)
  <2>1. CASE chans' = Without(chans, c)
    <3>1. \A e \in DOMAIN chans' : e \in DOMAIN chans /\ e # c /\ chans'[e] = chans[e]
      BY <2>1 DEF Without
    <3>2. \A e \in DOMAIN chans' : RecordAfter(m, e, chans[e], chans[e])
      BY <3>1, <1>1, <1>2, <1>3 DEF RecordAfter, Concerns, Is
    <3>3. QED
      BY <3>1, <3>2, <1>2, <1>3 DEF TableAfter
  <2>2. CASE /\ c \in DOMAIN chans
             /\ Put(c, [chans[c] EXCEPT !.users = Without(chans[c].users, m.nick)])
    <3>1. PICK ch, d : ch = chans[c] /\ d = [ch EXCEPT !.users = Without(ch.users, m.nick)]
      OBVIOUS
    <3>2. RecordAfter(m, c, ch, d)
      BY <3>1, <1>1, <1>2 DEF RecordAfter, Concerns, Is
    <3>3. QED
      BY <2>2, <3>1, <3>2, <1>1, <1>2, <1>3, TablePut
  <2>3. CASE c \notin DOMAIN chans /\ UNCHANGED chans
    <3>1. \A e \in DOMAIN chans : ~Concerns(m, e)
      BY <2>3, <1>3
    <3>2. QED
      BY <2>3, <3>1, <1>2, <1>3, TableStays
  <2>4. QED
    BY <2>1, <2>2, <2>3, <1>2
<1>5. RestAfter(m)
  BY <1>2, <1>3 DEF RestAfter
<1>6. QED
  BY <1>1, <1>4, <1>5

LEMMA HandleQuitDoes ==
  ASSUME Roster, HandleQuit
  PROVE  TableAfter(Event) /\ RestAfter(Event)
<1>1. PICK m : m = Event
  OBVIOUS
<1>2. /\ m.type = "quit" /\ UNCHANGED <<nick, umodes, prefixes, announced>>
      /\ chans' = [c \in DOMAIN chans |->
                     [chans[c] EXCEPT !.users = Without(chans[c].users, m.nick)]]
  BY <1>1 DEF HandleQuit, On
<1>3. \A c : ~Entry(m, c)
  BY <1>2 DEF Entry, Is
<1>4. ASSUME NEW c \in DOMAIN chans PROVE RecordAfter(m, c, chans[c], chans'[c])
  <2>1. chans'[c] = [chans[c] EXCEPT !.users = Without(chans[c].users, m.nick)]
    BY <1>2
  <2>2. QED
    BY <2>1, <1>2 DEF RecordAfter, Concerns, Is
<1>5. TableAfter(m)
  BY <1>2, <1>3, <1>4 DEF TableAfter
<1>6. RestAfter(m)
  BY <1>2, <1>3 DEF RestAfter
<1>7. QED
  BY <1>1, <1>5, <1>6

LEMMA HandleTopicsDo ==
  ASSUME Roster, HandleTopic \/ HandleTopicReply \/ HandleTopicInfo
  PROVE  TableAfter(Event) /\ RestAfter(Event)
<1>1. PICK m, c : m = Event /\ c = m.chan
  OBVIOUS
<1>2. PICK ch, topic :
        /\ ch = chans[c]
        /\ m.type \in {"topic", "rpl_topic", "rpl_topicinfo"} /\ SetTopic(topic)
        /\ m.type = "topic" => topic = [text |-> m.text, by |-> m.by]
        /\ m.type = "rpl_topic" => topic = [text |-> m.text, by |-> NoNick]
        /\ m.type = "rpl_topicinfo" /\ c \in DOMAIN chans =>
             topic = [text |-> ch.topic.text, by |-> m.by]
  BY <1>1 DEF HandleTopic, HandleTopicReply, HandleTopicInfo, On, Known
<1>3. /\ UNCHANGED <<nick, umodes, prefixes, announced>>
      /\ \/ c \in DOMAIN chans /\ Put(c, [ch EXCEPT !.topic = topic])
         \/ c \notin DOMAIN chans /\ UNCHANGED chans
  BY <1>1, <1>2 DEF SetTopic, Known
<1>4. \A e : ~Entry(m, e) /\ (e # c => ~Concerns(m, e))
  BY <1>1, <1>2 DEF Entry, Is, Concerns
<1>5. TableAfter(m)
  <2>1. CASE c \in DOMAIN chans /\ Put(c, [ch EXCEPT !.topic = topic])
    <3>1. PICK d : d = [ch EXCEPT !.topic = topic]
      OBVIOUS
    <3>2. RecordAfter(m, c, ch, d)
      BY <2>1, <3>1, <1>1, <1>2 DEF RecordAfter, Concerns, Is
    <3>3. QED
      BY <2>1, <3>1, <3>2, <1>1, <1>2, <1>4, TablePut
  <2>2. CASE c \notin DOMAIN chans /\ UNCHANGED chans
    <3>1. \A e \in DOMAIN chans : RecordAfter(m, e, chans[e], chans[e])
      BY <2>2, <1>1, <1>2, <1>4 DEF RecordAfter, Concerns, Is
    <3>2. QED
      BY <2>2, <3>1, <1>2, <1>4 DEF TableAfter
  <2>3. QED
    BY <2>1, <2>2, <1>3
<1>6. RestAfter(m)
  BY <1>2, <1>3, <1>4 DEF RestAfter
<1>7. QED
  BY <1>1, <1>5, <1>6

LEMMA HandleNamesEndDoes ==
  ASSUME Roster, HandleNamesEnd
  PROVE  TableAfter(Event) /\ RestAfter(Event)
<1>1. PICK m : m = Event
  OBVIOUS
<1>2. /\ m.type = "names_end" /\ UNCHANGED <<nick, umodes, prefixes, chans>>
      /\ announced' = IF m.chan \in DOMAIN chans THEN announced \cup {m.chan} ELSE announced
  BY <1>1 DEF HandleNamesEnd, On, Known
<1>3. \A c : ~Entry(m, c) /\ ~Concerns(m, c)
  BY <1>2 DEF Entry, Is, Concerns
<1>4. TableAfter(m)
  BY <1>2, <1>3, TableStays
<1>5. RestAfter(m)
  BY <1>2, <1>3 DEF RestAfter, Is
<1>6. QED
  BY <1>1, <1>4, <1>5

LEMMA HandleDisconnectedDoes ==
  ASSUME Roster, HandleDisconnected
  PROVE  TableAfter(Event) /\ RestAfter(Event)
<1>1. PICK m : m = Event
  OBVIOUS
<1>2. /\ m.type = "lost" /\ chans' = Nothing /\ announced' = {}
      /\ UNCHANGED <<nick, umodes, prefixes>>
  BY <1>1 DEF HandleDisconnected, On
<1>3. DOMAIN chans' = {}
  BY <1>2 DEF Nothing
<1>4. TableAfter(m) /\ RestAfter(m)
  BY <1>2, <1>3 DEF TableAfter, RestAfter
<1>5. QED
  BY <1>1, <1>4

\* NAMES comes after 005.
LEMMA NamesInformed ==
  ASSUME Roster, queue # <<>>, Event.type = "names"
  PROVE  prefixes = Letters
<1>1. Event = queue[1].msg
  BY HeadIs DEF Roster, IInv, Chain
<1>2. link # "new"
  BY NewIsEmpty DEF Roster
<1>3. QED
  BY <1>1, <1>2 DEF Roster, Informed

\* The names in listed are those of list, with their status.
SameNames(listed, list) ==
  /\ {u.nick : u \in listed} = DOMAIN list
  /\ \A n \in DOMAIN list : (CHOOSE u \in listed : u.nick = n).letters = list[n]

\* All prefixes known, a name in the list is a nick and its prefix the status.
LEMMA NamesTaken ==
  ASSUME prefixes = Letters, NEW list, \A n \in DOMAIN list : list[n] \subseteq Letters,
         NEW listed,
         listed = {[nick |-> Stripped(n, list[n]), letters |-> list[n] \cap prefixes] :
                     n \in DOMAIN list}
  PROVE  SameNames(listed, list)
<1>1. ASSUME NEW n \in DOMAIN list
      PROVE  Stripped(n, list[n]) = n /\ list[n] \cap prefixes = list[n]
  BY <1>1 DEF Stripped
<1>2. listed = {[nick |-> n, letters |-> list[n]] : n \in DOMAIN list}
  BY <1>1
<1>3. {u.nick : u \in listed} = DOMAIN list
  <2>1. \A u \in listed : u.nick \in DOMAIN list
    BY <1>2
  <2>2. ASSUME NEW n \in DOMAIN list PROVE \E u \in listed : n = u.nick
    <3>1. PICK w : w = [nick |-> n, letters |-> list[n]]
      OBVIOUS
    <3>2. w \in listed /\ w.nick = n
      BY <3>1, <1>2
    <3>3. QED
      BY <3>2
  <2>3. QED
    BY <2>1, <2>2
<1>4. ASSUME NEW n \in DOMAIN list
      PROVE  (CHOOSE u \in listed : u.nick = n).letters = list[n]
  <2>1. PICK w : w = [nick |-> n, letters |-> list[n]]
    OBVIOUS
  <2>2. w \in listed /\ w.nick = n /\ w.letters = list[n]
    BY <2>1, <1>2
  <2>3. \A u \in listed : u.nick = n => u.letters = list[n]
    BY <1>2
  <2>4. QED
    BY <2>2, <2>3
<1>5. QED
  BY <1>3, <1>4 DEF SameNames

LEMMA HandleNamesDoes ==
  ASSUME Roster, HandleNames
  PROVE  TableAfter(Event) /\ RestAfter(Event)
<1>1. PICK m, c : m = Event /\ c = m.chan
  OBVIOUS
<1>2. m.type = "names" /\ queue # <<>> /\ UNCHANGED <<nick, umodes, prefixes, announced>>
  BY <1>1 DEF HandleNames, On
<1>3. PICK list, listed, named :
        /\ list = m.list
        /\ listed = {[nick |-> Stripped(n, list[n]), letters |-> list[n] \cap prefixes] :
                       n \in DOMAIN list}
        /\ named = {u.nick : u \in listed}
  OBVIOUS
<1>4. PICK ch : ch = IF c \in DOMAIN chans THEN chans[c] ELSE NewChannel(FALSE)
  OBVIOUS
<1>5. Put(c, [ch EXCEPT !.users =
            [n \in named \cup DOMAIN ch.users |->
               IF n \in named THEN (CHOOSE u \in listed : u.nick = n).letters ELSE ch.users[n]]])
  BY <1>1, <1>3, <1>4 DEF HandleNames, Known
<1>6. named = DOMAIN list /\ \A n \in named : (CHOOSE u \in listed : u.nick = n).letters = list[n]
  <2>1. prefixes = Letters
    BY <1>1, <1>2, NamesInformed
  <2>2. \A n \in DOMAIN list : list[n] \subseteq Letters
    <3>1. MessageOK(Event)
      BY <1>2, HandledTells DEF HandleNames
    <3>2. QED
      BY <3>1, <1>1, <1>2, <1>3 DEF MessageOK
  <2>3. SameNames(listed, list)
    BY <2>1, <2>2, <1>3, NamesTaken
  <2>4. QED
    BY <2>3, <1>3 DEF SameNames
<1>7. PICK users : users = [n \in DOMAIN list \cup DOMAIN ch.users |->
                              IF n \in DOMAIN list THEN list[n] ELSE ch.users[n]]
  OBVIOUS
<1>8. PICK d : d = [ch EXCEPT !.users = users]
  OBVIOUS
<1>9. Put(c, d)
  <2>1. users = [n \in named \cup DOMAIN ch.users |->
                   IF n \in named THEN (CHOOSE u \in listed : u.nick = n).letters
                   ELSE ch.users[n]]
    BY <1>6, <1>7
  <2>2. QED
    BY <2>1, <1>5, <1>8
<1>10. RecordAfter(m, c, ch, d)
  BY <1>1, <1>2, <1>3, <1>7, <1>8 DEF RecordAfter, Concerns, Is
<1>11. \A e : ~Entry(m, e) /\ ~Concerns(m, e)
  BY <1>2 DEF Entry, Is, Concerns
<1>12. /\ DOMAIN chans' = DOMAIN chans \cup {c}
       /\ \A e \in DOMAIN chans' : chans'[e] = IF e = c THEN d ELSE chans[e]
  BY <1>9 DEF Put, With
<1>13. ASSUME NEW e, e # c PROVE RecordAfter(m, e, chans[e], chans[e])
  BY <1>1, <1>2, <1>13 DEF RecordAfter, Concerns, Is
<1>14. TableAfter(m)
  BY <1>1, <1>2, <1>4, <1>10, <1>11, <1>12, <1>13 DEF TableAfter, Is
<1>15. RestAfter(m)
  BY <1>2, <1>11 DEF RestAfter
<1>16. QED
  BY <1>1, <1>14, <1>15

\* Of every handler.
LEMMA HandlersDo ==
  ASSUME Roster, Handle
  PROVE  TableAfter(Event) /\ RestAfter(Event) /\ queue # <<>> /\ Handled
<1>1. CASE HandleRegistered \/ HandleISupport \/ HandleNick \/ HandleMode
  BY <1>1, HandleRegisteredDoes, HandleISupportDoes, HandleNickDoes, HandleModeDoes
     DEF HandleRegistered, HandleISupport, HandleNick, HandleMode, On
<1>2. CASE HandleJoin \/ HandleQuit \/ HandleDisconnected
  BY <1>2, HandleJoinDoes, HandleQuitDoes, HandleDisconnectedDoes
     DEF HandleJoin, HandleQuit, HandleDisconnected, On
<1>3. CASE HandlePart \/ HandleKick
  BY <1>3, HandleLeaveDoes DEF HandlePart, HandleKick, HandleLeave, On
<1>4. CASE HandleTopic \/ HandleTopicReply \/ HandleTopicInfo
  BY <1>4, HandleTopicsDo DEF HandleTopic, HandleTopicReply, HandleTopicInfo, SetTopic, On
<1>5. CASE HandleNames \/ HandleNamesEnd
  BY <1>5, HandleNamesDoes, HandleNamesEndDoes DEF HandleNames, HandleNamesEnd, On
<1>6. QED
  BY <1>1, <1>2, <1>3, <1>4, <1>5 DEF Handle

\* The client's own record, just made.
LEMMA EntryFacts ==
  ASSUME NEW n \in Nicks, NEW d, d = AddUser(NewChannel(TRUE), n, {})
  PROVE  /\ RecordOK(d) /\ DOMAIN d.users = {n} /\ d.users[n] = {} /\ d.modes = {}
         /\ d.topic = Untitled
<1>1. PICK ch, users : ch = NewChannel(TRUE) /\ users = With(ch.users, n, {})
  OBVIOUS
<1>2. RecordOK(ch)
  BY <1>1, FreshRecord
<1>3. DOMAIN ch.users = {} /\ ch.modes = {} /\ ch.topic = Untitled /\ ch.mixed = FALSE
  BY <1>1 DEF NewChannel, Nothing
<1>4. DOMAIN users = {n} /\ users[n] = {}
  BY <1>1, <1>3 DEF With
<1>5. d = [ch EXCEPT !.users = users]
  BY <1>1 DEF AddUser
<1>6. DOMAIN ch = {"users", "modes", "topic", "joined", "mixed"}
  BY <1>2 DEF RecordOK
<1>7. /\ DOMAIN d = DOMAIN ch /\ d.users = users /\ d.modes = {} /\ d.topic = Untitled
      /\ d.mixed = FALSE
  BY <1>3, <1>5, <1>6
<1>8. QED
  BY <1>4, <1>6, <1>7 DEF RecordOK

\* One letter of the client's own modes.
LEMMA OwnModeTaken ==
  ASSUME NEW n, NEW on, NEW m, m = OwnModeLine(n, on), NEW modes
  PROVE  WithUserModes(m, modes) = Toggled(modes, on, "i")
<1> DEFINE f == CHOOSE g : g = [i \in 0 .. 1 |->
                  IF i = 0 THEN modes ELSE Toggled(g[i - 1], m.letters[i].on, m.letters[i].letter)]
           w == [i \in 0 .. 1 |-> IF i = 0 THEN modes ELSE Toggled(modes, on, "i")]
<1>1. /\ Len(m.letters) = 1 /\ m.letters[1].on = on /\ m.letters[1].letter = "i"
  BY DEF OwnModeLine
<1>2. WithUserModes(m, modes) = f[1]
  BY <1>1 DEF WithUserModes
<1>3. w = [i \in 0 .. 1 |->
             IF i = 0 THEN modes ELSE Toggled(w[i - 1], m.letters[i].on, m.letters[i].letter)]
  BY <1>1
<1>4. f = [i \in 0 .. 1 |->
             IF i = 0 THEN modes ELSE Toggled(f[i - 1], m.letters[i].on, m.letters[i].letter)]
  BY <1>3
<1> HIDE DEF f
<1>5. f[0] = modes /\ f[1] = Toggled(f[0], on, "i")
  BY <1>1, <1>4
<1>6. QED
  BY <1>2, <1>5

LEMMA ClientStaysOK ==
  ASSUME Roster, Handle, IInv'
  PROVE  ClientOK'
<1>1. PICK m : m = Event
  OBVIOUS
<1>2. TableAfter(m) /\ RestAfter(m) /\ queue # <<>> /\ Handled
  BY <1>1, HandlersDo
<1>3. MessageOK(m)
  BY <1>1, <1>2, HandledTells
<1>4. /\ link \in {"new", "registered", "lost"} /\ granted \in Nicks \cup {NoNick}
      /\ connNick \in Nicks /\ nick \in Nicks /\ umodes \subseteq {"i"}
      /\ prefixes \in {{"o", "v"}, Letters}
      /\ DOMAIN chans \subseteq Channels /\ announced \subseteq Channels
      /\ \A c \in DOMAIN chans : RecordOK(chans[c])
  BY DEF Roster, ClientOK
<1>5. link' = link /\ granted' = granted /\ connNick' = connNick
  BY <1>2 DEF Handled, server
<1>6. ASSUME NEW c \in DOMAIN chans' PROVE c \in Channels /\ RecordOK(chans'[c])
  <2>1. CASE Entry(m, c) /\ chans'[c] = AddUser(NewChannel(TRUE), nick, {})
    BY <2>1, <1>3, <1>4, EntryFacts DEF Entry, Is, MessageOK
  <2>2. CASE c \in DOMAIN chans /\ RecordAfter(m, c, chans[c], chans'[c])
    BY <2>2, <1>3, <1>4, RecordKept
  <2>3. CASE Is(m, "names", c) /\ RecordAfter(m, c, NewChannel(FALSE), chans'[c])
    <3>1. c \in Channels
      BY <2>3, <1>3 DEF Is, MessageOK
    <3>2. RecordOK(NewChannel(FALSE))
      BY FreshRecord
    <3>3. QED
      BY <2>3, <3>1, <3>2, <1>3, RecordKept
  <2>4. QED
    BY <2>1, <2>2, <2>3, <1>2 DEF TableAfter
<1>7. umodes' \subseteq {"i"}
  <2>1. CASE m.type = "mode" /\ m.target = nick
    <3>1. m.target \notin Channels
      BY <2>1, <1>4, ClientAssumption DEF ClientAssumption
    <3>2. PICK on : m = OwnModeLine(m.target, on)
      BY <2>1, <3>1, <1>3 DEF MessageOK
    <3>3. umodes' = Toggled(umodes, on, "i")
      BY <2>1, <3>1, <3>2, <1>2, OwnModeTaken DEF RestAfter
    <3>4. QED
      BY <3>3, <1>4 DEF Toggled
  <2>2. CASE ~(m.type = "mode" /\ m.target = nick)
    BY <2>2, <1>2, <1>4 DEF RestAfter
  <2>3. QED
    BY <2>1, <2>2
<1>8. nick' \in Nicks /\ prefixes' \in {{"o", "v"}, Letters} /\ announced' \subseteq Channels
  BY <1>2, <1>3, <1>4 DEF RestAfter, MessageOK
<1>9. QED
  BY <1>4, <1>5, <1>6, <1>7, <1>8 DEF ClientOK

LEMMA InformedShrinks ==
  ASSUME Roster, Handle, NEW n, Shrunk(n)
  PROVE  Informed'
<1>1. PICK m : m = Event
  OBVIOUS
<1>2. RestAfter(m) /\ queue # <<>> /\ Handled
  BY <1>1, HandlersDo
<1>3. MessageOK(m)
  BY <1>1, <1>2, HandledTells
<1>4. /\ n \in Nat /\ n >= 1 /\ DOMAIN queue = 1 .. n /\ Len(queue') = n - 1
      /\ m = queue[1].msg /\ \A i \in 1 .. n - 1 : queue'[i] = queue[i + 1]
  BY <1>1 DEF Shrunk
<1>5. Len(queue) = n
  BY <1>4, SequentialFacts DEF Roster, IInv, Chain
<1>6. link # "new"
  BY <1>2, NewIsEmpty DEF Roster
<1>7. CASE prefixes = Letters \/ m.type = "isupport"
  BY <1>7, <1>2, <1>3 DEF RestAfter, MessageOK, Informed
<1>8. CASE n >= 2 /\ queue[2].msg.type = "isupport"
  <2>1. queue'[1] = queue[1 + 1]
    BY <1>4, <1>8
  <2>2. QED
    BY <2>1, <1>4, <1>8 DEF Informed
<1>9. QED
  BY <1>4, <1>5, <1>6, <1>7, <1>8 DEF Roster, Informed

LEMMA OwnModesShrink ==
  ASSUME Roster, Handle, NEW n, Shrunk(n)
  PROVE  OwnModesRight'
<1>1. PICK m, s, t : m = Event /\ s = seen /\ t = seen'
  OBVIOUS
<1>2. RestAfter(m) /\ queue # <<>> /\ Handled
  BY <1>1, HandlersDo
<1>3. Tells(s, m, t) /\ Follows(granted, s, m, t) /\ (Misnamed' <=> Misnamed)
  BY <1>1, <1>2, HandledTells
<1>4. /\ n \in Nat /\ n >= 1 /\ DOMAIN queue = 1 .. n /\ DOMAIN queue' = 1 .. n - 1
      /\ m = queue[1].msg /\ \A i \in 1 .. n - 1 : queue'[i] = queue[i + 1]
  BY <1>1 DEF Shrunk
<1>5. link' = link
  BY <1>2 DEF Handled, server
<1>6. ASSUME link # "lost", NEW i \in DOMAIN queue' PROVE queue'[i].msg.type # "lost"
  <2>1. i \in 1 .. n - 1 /\ i + 1 \in DOMAIN queue
    BY <1>4
  <2>2. QED
    BY <2>1, <1>4, <1>6 DEF Roster, OwnModesRight
<1>7. ASSUME link # "lost", ~Misnamed PROVE umodes' = t.modes
  <2>1. umodes = s.modes /\ m.type # "lost"
    <3>1. 1 \in DOMAIN queue
      BY <1>4
    <3>2. QED
      BY <3>1, <1>1, <1>4, <1>7 DEF Roster, OwnModesRight
  <2>2. CASE m.type = "mode" /\ m.target \in Nicks
    <3>1. PICK on : m = OwnModeLine(s.nick, on) /\ t.modes = Toggled(s.modes, on, "i")
      BY <2>2, <1>3 DEF Tells, ModesAfter
    <3>2. m.target = s.nick
      BY <3>1 DEF OwnModeLine
    <3>3. nick = s.nick
      BY <2>2, <1>1, <1>3, <1>7 DEF Follows, NickAfter, Roster, IInv, Tracks
    <3>4. m.target \notin Channels
      BY <2>2, ClientAssumption DEF ClientAssumption
    <3>5. umodes' = WithUserModes(m, umodes)
      BY <2>2, <3>2, <3>3, <3>4, <1>2 DEF RestAfter
    <3>6. QED
      BY <2>1, <3>1, <3>5, OwnModeTaken
  <2>3. CASE ~(m.type = "mode" /\ m.target \in Nicks)
    <3>1. t.modes = s.modes
      BY <2>1, <2>3, <1>3 DEF Tells, ModesAfter
    <3>2. ~(m.type = "mode" /\ m.target = nick)
      BY <2>3 DEF Roster, ClientOK
    <3>3. QED
      BY <2>1, <3>1, <3>2, <1>2 DEF RestAfter
  <2>4. QED
    BY <2>2, <2>3
<1>8. QED
  BY <1>1, <1>3, <1>5, <1>6, <1>7 DEF OwnModesRight

\* What was listed, or shown, before the end of NAMES is so still.
LEMMA ListsShrink ==
  ASSUME Roster, Handle, NEW n, Shrunk(n)
  PROVE  ListsComplete'
<1>1. PICK m : m = Event
  OBVIOUS
<1>2. TableAfter(m) /\ queue # <<>> /\ Handled
  BY <1>1, HandlersDo
<1>3. MessageOK(m) /\ AnswerOK(m, seen')
  BY <1>1, <1>2, HandledTells DEF Tells
<1>4. /\ n \in Nat /\ n >= 1 /\ DOMAIN queue = 1 .. n /\ DOMAIN queue' = 1 .. n - 1
      /\ m = queue[1].msg /\ seen' = queue[1].after
      /\ \A i \in 1 .. n - 1 : queue'[i] = queue[i + 1]
  BY <1>1 DEF Shrunk
<1>5. SUFFICES ASSUME NEW i \in 1 .. n - 1, NEW c \in Channels, NEW t, t = queue'[i].after,
                      Is(queue'[i].msg, "names_end", c), c \in DOMAIN t.chans,
                      NEW u \in DOMAIN t.chans[c].users
               PROVE  ListedBefore(i, c, t, u)'
  BY <1>4 DEF ListsComplete
<1>6. SUFFICES \/ \E j \in 1 .. i - 1 :
                    /\ Is(queue'[j].msg, "names", c) /\ u \in DOMAIN queue'[j].msg.list
                    /\ \A k \in j .. i - 1 :
                         queue'[k].msg.type = "names" /\ queue'[k].after = t
               \/ /\ \A k \in 1 .. i - 1 :
                       queue'[k].msg.type = "names" /\ queue'[k].after = t
                  /\ c \in DOMAIN chans' /\ Shows(t.chans[c], chans'[c], u)
  BY DEF ListedBefore, NamesUpTo, Shows
<1>7. PICK p : p = i + 1
  OBVIOUS
<1>8. /\ p \in 1 .. n /\ p > 1 /\ p \in DOMAIN queue /\ i \in Int
      /\ queue'[i] = queue[p]
  BY <1>4, <1>5, <1>7
<1>9. ListedBefore(p, c, t, u)
  BY <1>5, <1>8 DEF Roster, ListsComplete
<1>10. ASSUME NEW j \in 1 .. p - 1, NamesUpTo(j, p, t), NEW k \in 1 .. i - 1, j <= k + 1
      PROVE  queue'[k].msg.type = "names" /\ queue'[k].after = t
  <2>1. k \in 1 .. n - 1 /\ k + 1 \in j .. p - 1
    BY <1>4, <1>5, <1>7, <1>8, <1>10
  <2>2. QED
    BY <2>1, <1>4, <1>10 DEF NamesUpTo
<1>11. ASSUME NamesUpTo(1, p, t)
       PROVE  \A k \in 1 .. i - 1 : queue'[k].msg.type = "names" /\ queue'[k].after = t
  <2>1. 1 \in 1 .. p - 1 /\ \A k \in 1 .. i - 1 : 1 <= k + 1
    BY <1>4, <1>5, <1>8
  <2>2. QED
    BY <2>1, <1>10, <1>11
<1>12. ASSUME NamesUpTo(1, p, t)
       PROVE  /\ m.type = "names" /\ seen' = t
              /\ m.chan = c => Lists(m, t.chans[c])
  <2>1. 1 \in 1 .. p - 1
    BY <1>8
  <2>2. m.type = "names" /\ seen' = t
    BY <2>1, <1>4, <1>12 DEF NamesUpTo
  <2>3. QED
    BY <2>2, <1>3, <1>5 DEF AnswerOK, Lists
<1>13. CASE \E j \in 2 .. p - 1 : /\ Is(queue[j].msg, "names", c)
                                  /\ u \in DOMAIN queue[j].msg.list /\ NamesUpTo(j, p, t)
  <2>1. PICK j \in 2 .. p - 1 : /\ Is(queue[j].msg, "names", c)
                                /\ u \in DOMAIN queue[j].msg.list /\ NamesUpTo(j, p, t)
    BY <1>13
  <2>2. PICK q : q = j - 1
    OBVIOUS
  <2>3. /\ j \in 1 .. p - 1 /\ q \in 1 .. i - 1 /\ q \in 1 .. n - 1 /\ q + 1 = j
        /\ \A k \in q .. i - 1 : k \in 1 .. i - 1 /\ j <= k + 1
    BY <2>1, <2>2, <1>4, <1>5, <1>7, <1>8
  <2>4. queue'[q] = queue[j]
    BY <2>3, <1>4
  <2>5. \A k \in q .. i - 1 : queue'[k].msg.type = "names" /\ queue'[k].after = t
    BY <2>1, <2>3, <1>10
  <2>6. QED
    BY <2>1, <2>3, <2>4, <2>5
<1>14. CASE Is(m, "names", c) /\ u \in DOMAIN m.list /\ NamesUpTo(1, p, t)
  <2>1. c \in DOMAIN chans' /\ Lists(m, t.chans[c])
    BY <1>2, <1>12, <1>14 DEF Is, TableAfter
  <2>2. PICK ch, d : /\ RecordOK(ch) /\ RecordAfter(m, c, ch, d) /\ d = chans'[c]
    <3>1. ~Entry(m, c)
      BY <1>14 DEF Entry, Is
    <3>2. \A e \in DOMAIN chans : RecordOK(chans[e])
      BY DEF Roster, ClientOK
    <3>3. RecordOK(NewChannel(FALSE))
      BY FreshRecord
    <3>4. QED
      BY <2>1, <3>1, <3>2, <3>3, <1>2 DEF TableAfter
  <2>3. Shows(t.chans[c], d, u)
    BY <2>1, <2>2, <1>3, <1>14, ListFits
  <2>4. QED
    BY <2>1, <2>2, <2>3, <1>11, <1>14
<1>15. CASE NamesUpTo(1, p, t) /\ c \in DOMAIN chans /\ Shows(t.chans[c], chans[c], u)
  <2>1. m.type = "names" /\ c \in DOMAIN chans'
    BY <1>2, <1>12, <1>15 DEF TableAfter
  <2>2. PICK ch, d : ch = chans[c] /\ d = chans'[c]
    OBVIOUS
  <2>3. RecordOK(ch) /\ RecordAfter(m, c, ch, d)
    <3>1. ~Entry(m, c)
      BY <2>1 DEF Entry, Is
    <3>2. QED
      BY <2>1, <2>2, <3>1, <1>2, <1>15 DEF TableAfter, Roster, ClientOK
  <2>4. Shows(t.chans[c], d, u)
    <3>1. CASE m.chan = c
      <4>1. Is(m, "names", c) /\ Lists(m, t.chans[c])
        BY <2>1, <3>1, <1>12, <1>15 DEF Is
      <4>2. QED
        BY <2>2, <2>3, <4>1, <1>3, <1>15, ListFits
    <3>2. CASE m.chan # c
      BY <2>1, <2>2, <2>3, <3>2, <1>15 DEF RecordAfter
    <3>3. QED
      BY <3>1, <3>2
  <2>5. QED
    BY <2>1, <2>2, <2>4, <1>11, <1>15
<1>16. QED
  <2>1. ASSUME NEW j \in 1 .. p - 1, Is(queue[j].msg, "names", c),
               u \in DOMAIN queue[j].msg.list, NamesUpTo(j, p, t)
        PROVE  \/ j \in 2 .. p - 1
               \/ Is(m, "names", c) /\ u \in DOMAIN m.list /\ NamesUpTo(1, p, t)
    BY <2>1, <1>4, <1>8
  <2>2. QED
    BY <2>1, <1>9, <1>13, <1>14, <1>15 DEF ListedBefore

\* The messages at the front of the queue, as the properties of a channel need them.
AtFront(m, c) ==
  /\ m.type = "rpl_topic" => queue' # <<>> /\ Is(Event', "rpl_topicinfo", m.chan)
  /\ Is(m, "join", c) /\ m.nick = seen.nick /\ c \in DOMAIN seen'.chans =>
       \/ seen'.chans[c].topic = Untitled
       \/ queue' # <<>> /\ Is(Event', "rpl_topic", c)
  /\ queue' # <<>> /\ Is(Event', "rpl_topic", c) => Is(m, "join", c) /\ m.nick = seen.nick
  /\ queue' # <<>> /\ Is(Event', "rpl_topicinfo", c) => Is(m, "rpl_topic", c)
  /\ Is(m, "names_end", c) /\ c \in Channels /\ c \in DOMAIN seen'.chans =>
       \A u \in DOMAIN seen'.chans[c].users :
         c \in DOMAIN chans /\ Shows(seen'.chans[c], chans[c], u)

LEMMA AtFrontIs ==
  ASSUME Roster, queue # <<>>, Handled, NEW n, Shrunk(n), NEW m, m = Event, NEW c
  PROVE  AtFront(m, c)
<1>1. /\ n \in Nat /\ n >= 1 /\ DOMAIN queue = 1 .. n /\ Len(queue') = n - 1
      /\ Sequential(queue') /\ Before(1) = seen
      /\ m = queue[1].msg /\ seen' = queue[1].after
      /\ \A i \in 1 .. n - 1 : queue'[i] = queue[i + 1]
  BY DEF Shrunk
<1>2. queue' # <<>> => n >= 2 /\ Event' = queue[2].msg
  <2>1. ASSUME queue' # <<>> PROVE Len(queue') >= 1 /\ Head(queue') = queue'[1]
    BY <2>1, <1>1, SequentialFacts
  <2>2. ASSUME n >= 2 PROVE queue'[1] = queue[2]
    <3>1. 1 \in 1 .. n - 1 /\ 1 + 1 = 2
      BY <2>2, <1>1
    <3>2. QED
      BY <3>1, <1>1
  <2>3. QED
    BY <2>1, <2>2, <1>1 DEF Event
<1>3. n >= 2 => queue' # <<>>
  BY <1>1, EmptySeq
<1>4. 1 \in DOMAIN queue /\ (2 \in DOMAIN queue <=> n >= 2) /\ 1 + 1 = 2 /\ 2 - 1 = 1 /\ 2 > 1
  BY <1>1
<1>5. TopicLinesAt(1) /\ (n >= 2 => TopicLinesAt(2))
  BY <1>4 DEF Roster, TopicLinesFollow
<1>6. OwnJoinAt(1, c) <=> Is(m, "join", c) /\ m.nick = seen.nick
  BY <1>1 DEF OwnJoinAt
<1>7. m.type = "rpl_topic" => queue' # <<>> /\ Is(Event', "rpl_topicinfo", m.chan)
  BY <1>1, <1>2, <1>3, <1>4, <1>5 DEF TopicLinesAt
<1>8. OwnJoinAt(1, c) /\ c \in DOMAIN seen'.chans =>
        \/ seen'.chans[c].topic = Untitled
        \/ queue' # <<>> /\ Is(Event', "rpl_topic", c)
  <2>1. OwnJoinAt(1, c) => m.chan = c
    BY <1>6 DEF Is
  <2>2. QED
    BY <2>1, <1>1, <1>2, <1>3, <1>4, <1>5 DEF TopicLinesAt
<1>9. /\ queue' # <<>> /\ Is(Event', "rpl_topic", c) => OwnJoinAt(1, c)
      /\ queue' # <<>> /\ Is(Event', "rpl_topicinfo", c) => Is(m, "rpl_topic", c)
  <2>1. SUFFICES ASSUME queue' # <<>>
                 PROVE  /\ Is(Event', "rpl_topic", c) => OwnJoinAt(1, c)
                        /\ Is(Event', "rpl_topicinfo", c) => Is(m, "rpl_topic", c)
    OBVIOUS
  <2>2. Event' = queue[2].msg /\ TopicLinesAt(2)
    BY <2>1, <1>2, <1>5
  <2>3. QED
    BY <2>2, <1>1, <1>4 DEF TopicLinesAt, Is
<1>10. ASSUME Is(m, "names_end", c), c \in Channels, c \in DOMAIN seen'.chans,
              NEW u \in DOMAIN seen'.chans[c].users
       PROVE  c \in DOMAIN chans /\ Shows(seen'.chans[c], chans[c], u)
  <2>1. PICK t : t = queue[1].after
    OBVIOUS
  <2>2. ListedBefore(1, c, t, u)
    BY <2>1, <1>1, <1>4, <1>10 DEF Roster, ListsComplete
  <2>3. \A j \in 1 .. 1 - 1 : FALSE
    OBVIOUS
  <2>4. QED
    BY <2>1, <2>2, <2>3, <1>1 DEF ListedBefore
<1>11. QED
  BY <1>6, <1>7, <1>8, <1>9, <1>10 DEF AtFront

\* The topic of a channel the client is in and stays in.
LEMMA TopicStaysRight ==
  ASSUME NEW m, NEW c, NEW a, ChannelOK(a), NEW b, ChannelAfter(m, c, a, b), ChannelOK(b),
         NEW ch, RecordOK(ch), NEW d, RecordAfter(m, c, ch, d), MessageOK(m),
         Is(m, "rpl_topic", c) => m.text = b.topic.text,
         Is(m, "rpl_topicinfo", c) => m.by = b.topic.by,
         \/ ch.topic = a.topic \/ Is(m, "rpl_topic", c)
         \/ Is(m, "rpl_topicinfo", c) /\ ch.topic.text = a.topic.text
  PROVE  \/ d.topic = b.topic
         \/ Is(m, "rpl_topic", c) /\ d.topic.text = b.topic.text
<1>1. TopicOf(m, c) => TopicSet(m, c, ch, d)
  BY TopicTaken
<1>2. CASE Is(m, "topic", c)
  <2>1. d.topic = [text |-> m.text, by |-> m.by]
    BY <1>1, <1>2 DEF TopicSet, TopicOf
  <2>2. b = [a EXCEPT !.topic = [text |-> m.text, by |-> m.by]]
    BY <1>2 DEF ChannelAfter
  <2>3. QED
    BY <2>1, <2>2 DEF ChannelOK
<1>3. CASE Is(m, "rpl_topic", c)
  <2>1. d.topic = [text |-> m.text, by |-> NoNick]
    BY <1>1, <1>3 DEF TopicSet, TopicOf
  <2>2. QED
    BY <2>1, <1>3
<1>4. CASE Is(m, "rpl_topicinfo", c)
  <2>1. d.topic = [text |-> ch.topic.text, by |-> m.by]
    BY <1>1, <1>4 DEF TopicSet, TopicOf
  <2>2. b = a
    BY <1>4 DEF ChannelAfter, Concerns, Is
  <2>3. ch.topic.text = a.topic.text
    BY <1>4 DEF Is
  <2>4. b.topic = [text |-> b.topic.text, by |-> b.topic.by]
    BY DEF ChannelOK
  <2>5. QED
    BY <2>1, <2>2, <2>3, <2>4, <1>4
<1>5. CASE ~TopicOf(m, c)
  <2>1. ch.topic = a.topic
    BY <1>5 DEF TopicOf
  <2>2. d.topic = ch.topic /\ b.topic = a.topic
    <3>1. CASE Membership(m, c)
      BY <3>1, MembersAfter, MembersChange
    <3>2. CASE Is(m, "names", c)
      <4>1. b = a
        BY <3>2 DEF ChannelAfter, Concerns, Is
      <4>2. QED
        BY <3>2, <4>1, ListTaken
    <3>3. CASE ModesOf(m, c)
      <4>1. PICK changes \in ModeChanges(DOMAIN a.users) :
              m = ModeLine(c, changes) /\ b = AllMeant(a, changes)
        BY <3>3 DEF ModesOf, ChannelAfter
      <4>2. d = WithModes(m, ch)
        BY <3>3 DEF ModesOf, RecordAfter
      <4>3. QED
        BY <4>1, <4>2, ModesKept
    <3>4. CASE ~Membership(m, c) /\ ~Is(m, "names", c) /\ ~ModesOf(m, c)
      <4>1. b = a
        BY <3>4, <1>5 DEF ChannelAfter, Concerns, Membership, ModesOf, TopicOf, Is
      <4>2. QED
        BY <3>4, <4>1, <1>5, Untouched
    <3>5. QED
      BY <3>1, <3>2, <3>3, <3>4
  <2>3. QED
    BY <2>1, <2>2
<1>6. QED
  BY <1>2, <1>3, <1>4, <1>5 DEF TopicOf

\* A channel that the client was in and stays in.
LEMMA StayRight ==
  ASSUME Roster, ~Misnamed, Handle, IInv', NEW c \in DOMAIN seen'.chans, c \in DOMAIN seen.chans,
         c \in DOMAIN chans'
  PROVE  /\ Fits(seen'.chans[c], chans'[c]) /\ TopicRight(c)'
         /\ c \in announced' =>
              /\ Full(seen'.chans[c], chans'[c])
              /\ queue' # <<>> => ~Is(Event', "rpl_topic", c) /\ ~Is(Event', "rpl_topicinfo", c)
<1>1. PICK m, a, b, ch, d : /\ m = Event /\ a = seen.chans[c] /\ b = seen'.chans[c]
                            /\ ch = chans[c] /\ d = chans'[c]
  OBVIOUS
<1>2. TableAfter(m) /\ RestAfter(m) /\ queue # <<>> /\ Handled
  BY <1>1, HandlersDo
<1>3. /\ Tells(seen, m, seen') /\ MessageOK(m) /\ StateOK(seen) /\ StateOK(seen')
      /\ Follows(granted, seen, m, seen')
  BY <1>1, <1>2, HandledTells
<1>4. AtFront(m, c)
  <2>1. PICK n : n = Len(queue)
    OBVIOUS
  <2>2. Shrunk(n)
    BY <2>1, <1>2, QueueShrinks DEF Roster, IInv
  <2>3. QED
    BY <2>2, <1>1, <1>2, AtFrontIs
<1>5. ChannelOK(a) /\ ChannelOK(b) /\ ChannelAfter(m, c, a, b) /\ c \in Channels
  BY <1>1, <1>3 DEF Tells, StateOK
<1>6. /\ c \in DOMAIN chans /\ Fits(a, ch) /\ TopicRight(c)
      /\ c \in announced =>
           Full(a, ch) /\ ~Is(m, "rpl_topic", c) /\ ~Is(m, "rpl_topicinfo", c)
  BY <1>1, <1>2 DEF Roster, Right
<1>7. RecordOK(ch)
  BY <1>1, <1>6 DEF Roster, ClientOK
<1>8. ~(Is(m, "join", c) /\ m.nick = seen.nick)
  BY <1>3 DEF Tells, Is
<1>9. ~Entry(m, c)
  <2>1. Is(m, "join", c) => nick = seen.nick
    BY <1>3 DEF Is, Follows, NickAfter, Roster, IInv, Tracks
  <2>2. QED
    BY <2>1, <1>8 DEF Entry
<1>10. RecordAfter(m, c, ch, d)
  BY <1>1, <1>2, <1>6, <1>9 DEF TableAfter
<1>11. Is(m, "names", c) => Lists(m, b)
  BY <1>1, <1>3 DEF Tells, AnswerOK, Is, Lists
<1>12. Fits(b, d) /\ (Full(a, ch) => Full(b, d))
  BY <1>3, <1>5, <1>6, <1>7, <1>10, <1>11, MessageFits
<1>13. TopicRight(c)'
  <2>1. Is(m, "rpl_topic", c) => m.text = b.topic.text
    BY <1>1, <1>3 DEF Tells, AnswerOK, Is
  <2>2. Is(m, "rpl_topicinfo", c) => m.by = b.topic.by
    BY <1>1, <1>3 DEF Tells, AnswerOK, Is
  <2>3. \/ ch.topic = a.topic \/ Is(m, "rpl_topic", c)
        \/ Is(m, "rpl_topicinfo", c) /\ ch.topic.text = a.topic.text
    BY <1>1, <1>6 DEF TopicRight
  <2>4. \/ d.topic = b.topic
        \/ Is(m, "rpl_topic", c) /\ d.topic.text = b.topic.text
    BY <2>1, <2>2, <2>3, <1>3, <1>5, <1>7, <1>10, TopicStaysRight
  <2>5. Is(m, "rpl_topic", c) => queue' # <<>> /\ Is(Event', "rpl_topicinfo", c)
    BY <1>4 DEF AtFront, Is
  <2>6. QED
    BY <2>4, <2>5, <1>1 DEF TopicRight
<1>14. ASSUME c \in announced'
       PROVE  /\ Full(b, d)
              /\ queue' # <<>> => ~Is(Event', "rpl_topic", c) /\ ~Is(Event', "rpl_topicinfo", c)
  <2>1. c \in announced \/ Is(m, "names_end", c)
    BY <1>2, <1>14 DEF RestAfter
  <2>2. ~Is(m, "rpl_topic", c)
    BY <2>1, <1>6 DEF Is
  <2>3. queue' # <<>> => ~Is(Event', "rpl_topic", c) /\ ~Is(Event', "rpl_topicinfo", c)
    BY <2>2, <1>4, <1>8 DEF AtFront
  <2>4. CASE c \in announced
    BY <2>3, <2>4, <1>6, <1>12
  <2>5. CASE Is(m, "names_end", c)
    <3>1. d = ch
      BY <2>5, <1>10 DEF RecordAfter, Concerns, Is
    <3>2. \A u \in DOMAIN b.users : Shows(b, ch, u)
      BY <2>5, <1>1, <1>4, <1>5 DEF AtFront
    <3>3. QED
      BY <2>3, <3>1, <3>2 DEF Full
  <2>6. QED
    BY <2>1, <2>4, <2>5
<1>15. QED
  BY <1>1, <1>12, <1>13, <1>14

\* A channel that the client has just joined.
LEMMA EntryRight ==
  ASSUME Roster, ~Misnamed, Handle, IInv', NEW c \in DOMAIN seen'.chans,
         c \notin DOMAIN seen.chans, c \in DOMAIN chans'
  PROVE  Fits(seen'.chans[c], chans'[c]) /\ TopicRight(c)' /\ c \notin announced'
<1>1. PICK m, b, d : m = Event /\ b = seen'.chans[c] /\ d = chans'[c]
  OBVIOUS
<1>2. TableAfter(m) /\ RestAfter(m) /\ queue # <<>> /\ Handled
  BY <1>1, HandlersDo
<1>3. Tells(seen, m, seen') /\ Follows(granted, seen, m, seen')
  BY <1>1, <1>2, HandledTells
<1>4. AtFront(m, c)
  <2>1. PICK n : n = Len(queue)
    OBVIOUS
  <2>2. Shrunk(n)
    BY <2>1, <1>2, QueueShrinks DEF Roster, IInv
  <2>3. QED
    BY <2>2, <1>1, <1>2, AtFrontIs
<1>5. Is(m, "join", c) /\ m.nick = seen.nick /\ seen.nick \in DOMAIN b.users
  BY <1>1, <1>3 DEF Tells
<1>6. nick = seen.nick
  BY <1>3, <1>5 DEF Is, Follows, NickAfter, Roster, IInv, Tracks
<1>7. Entry(m, c)
  BY <1>5, <1>6 DEF Entry
<1>8. d = AddUser(NewChannel(TRUE), nick, {})
  BY <1>1, <1>2, <1>5, <1>7 DEF TableAfter, Is
<1>9. DOMAIN d.users = {nick} /\ d.users[nick] = {} /\ d.modes = {} /\ d.topic = Untitled
  BY <1>8, EntryFacts DEF Roster, ClientOK
<1>10. Fits(b, d)
  BY <1>5, <1>6, <1>9 DEF Fits
<1>11. TopicRight(c)'
  BY <1>1, <1>4, <1>5, <1>9 DEF AtFront, TopicRight
<1>12. c \notin announced'
  BY <1>2, <1>7 DEF RestAfter
<1>13. QED
  BY <1>1, <1>10, <1>11, <1>12

LEMMA RightHandled ==
  ASSUME Roster, Handle, IInv', ~Misnamed
  PROVE  Right'
<1>1. queue # <<>> /\ Handled
  BY HandlersDo
<1>2. ~Misnamed'
  BY <1>1, HandledTells
<1>3. DOMAIN seen'.chans \subseteq DOMAIN chans'
  BY <1>2 DEF IInv, Tracks, Joined
<1>4. ASSUME NEW c \in DOMAIN seen'.chans
      PROVE  /\ c \in DOMAIN chans' /\ Fits(seen'.chans[c], chans'[c]) /\ TopicRight(c)'
             /\ c \in announced' =>
                  /\ Full(seen'.chans[c], chans'[c])
                  /\ queue' # <<>> =>
                       ~Is(Event', "rpl_topic", c) /\ ~Is(Event', "rpl_topicinfo", c)
  <2>1. c \in DOMAIN chans'
    BY <1>3
  <2>2. CASE c \in DOMAIN seen.chans
    BY <2>1, <2>2, StayRight
  <2>3. CASE c \notin DOMAIN seen.chans
    BY <2>1, <2>3, EntryRight
  <2>4. QED
    BY <2>2, <2>3
<1>5. QED
  BY <1>4 DEF Right, Fits, Full, Shows, Is

LEMMA HandlesKeepRoster ==
  ASSUME Roster, Handle
  PROVE  Roster'
<1>1. IInv'
  BY HandleKeepsIInv DEF Roster
<1>2. PICK n : n = Len(queue)
  OBVIOUS
<1>3. queue # <<>> /\ Handled
  BY HandlersDo
<1>4. Shrunk(n)
  BY <1>2, <1>3, QueueShrinks DEF Roster, IInv
<1>5. Links' /\ TopicLinesFollow'
  BY <1>4, LinksShrink, TopicLinesShrink DEF Roster
<1>6. Informed' /\ ListsComplete' /\ OwnModesRight'
  BY <1>4, InformedShrinks, ListsShrink, OwnModesShrink
<1>7. ClientOK'
  BY <1>1, ClientStaysOK
<1>8. ~Misnamed' => Right'
  BY <1>1, <1>3, HandledTells, RightHandled
<1>9. QED
  BY <1>1, <1>5, <1>6, <1>7, <1>8 DEF Roster
-----------------------------------------------------------------------------
(* The theorems.                                                           *)

LEMMA InitRoster ==
  ASSUME Init
  PROVE  Roster
<1>1. /\ srv.modes = {} /\ DOMAIN srv = Fields /\ DOMAIN srv.chans = {} /\ seen = srv
      /\ link = "new" /\ granted = NoNick /\ queue = <<>> /\ DOMAIN chans = {}
      /\ connNick = Preferred /\ nick = Preferred /\ umodes = {} /\ prefixes = {"o", "v"}
      /\ announced = {}
  BY DEF Init, Nothing, Fields
<1>2. \A i \in DOMAIN queue : FALSE
  <2>1. queue \in Seq({}) /\ Len(queue) = 0
    BY <1>1, EmptySeq
  <2>2. DOMAIN queue = 1 .. 0
    BY <2>1, SeqIsSequential, SequentialFacts
  <2>3. QED
    BY <2>2
<1>3. IInv
  BY InitIInv
<1>4. ClientOK
  BY <1>1, ClientAssumption DEF ClientOK, ClientAssumption
<1>5. StateOK(seen)
  BY <1>1 DEF StateOK
<1>6. Links
  BY <1>2, <1>5 DEF Links
<1>7. TopicLinesFollow
  BY <1>2 DEF TopicLinesFollow
<1>8. ListsComplete
  BY <1>2 DEF ListsComplete
<1>9. Informed
  BY <1>1 DEF Informed
<1>10. OwnModesRight
  BY <1>1, <1>2 DEF OwnModesRight
<1>11. Right
  BY <1>1 DEF Right
<1>12. QED
  BY <1>3, <1>4, <1>6, <1>7, <1>8, <1>9, <1>10, <1>11 DEF Roster

LEMMA StutterKeepsRoster ==
  ASSUME Roster, UNCHANGED vars
  PROVE  Roster'
<1>1. /\ link' = link /\ granted' = granted /\ queue' = queue /\ connNick' = connNick
      /\ nick' = nick /\ umodes' = umodes /\ prefixes' = prefixes /\ chans' = chans
      /\ announced' = announced /\ seen' = seen
  BY DEF vars, server, client
<1>2. IInv'
  BY StutterKeepsIInv DEF Roster
<1>3. ClientOK'
  BY <1>1 DEF Roster, ClientOK
<1>4. Links' /\ Informed'
  BY <1>1 DEF Roster, Links, Before, Informed
<1>5. TopicLinesFollow'
  BY <1>1 DEF Roster, TopicLinesFollow, TopicLinesAt, OwnJoinAt, Before
<1>6. ListsComplete'
  BY <1>1 DEF Roster, ListsComplete, ListedBefore, NamesUpTo
<1>7. OwnModesRight'
  BY <1>1 DEF Roster, OwnModesRight, Misnamed
<1>8. ~Misnamed' => Right'
  BY <1>1 DEF Roster, Misnamed, Right, TopicRight, Event
<1>9. QED
  BY <1>2, <1>3, <1>4, <1>5, <1>6, <1>7, <1>8 DEF Roster

\* In every reachable state each queued message tells of the change between two states
\* of the server, the answers to JOIN and NAMES are complete, and each record of the
\* Client's is what the messages it has handled make of the server's.
THEOREM RosterInvariant == Spec => []Roster
<1>1. Init => Roster
  BY InitRoster
<1>2. Roster /\ [Next]_vars => Roster'
  <2>1. SUFFICES ASSUME Roster, [Next]_vars PROVE Roster'
    OBVIOUS
  <2>2. CASE Handle
    BY <2>1, <2>2, HandlesKeepRoster
  <2>3. CASE Act
    BY <2>1, <2>3, ActsKeepRoster
  <2>4. CASE UNCHANGED vars
    BY <2>1, <2>4, StutterKeepsRoster
  <2>5. QED
    BY <2>1, <2>2, <2>3, <2>4 DEF Next
<1>3. QED
  BY <1>1, <1>2, PTL DEF Spec

\* The handlers keep nicks in the nick's and the tables' places and status letters in a
\* user's: 005 is handled before any NAMES, so that no prefix stays part of a nick.
THEOREM TypesSafe == Spec => []TypeOK
<1>1. Roster => TypeOK
  <2>1. SUFFICES ASSUME Roster PROVE TypeOK
    OBVIOUS
  <2>2. Nicks \subseteq Mentioned
    BY DEF Mentioned
  <2>3. ASSUME NEW c \in DOMAIN chans
        PROVE  /\ DOMAIN chans[c].users \subseteq IF prefixes = Letters THEN Nicks ELSE Mentioned
               /\ chans[c].modes \subseteq Letters \cup Flags
               /\ \A n \in DOMAIN chans[c].users :
                    chans[c].users[n] \subseteq
                      IF chans[c].mixed THEN Letters \cup Flags ELSE Letters
    <3>1. RecordOK(chans[c])
      BY <2>1 DEF Roster, ClientOK
    <3>2. QED
      BY <2>2, <3>1 DEF RecordOK
  <2>4. QED
    BY <2>1, <2>3 DEF Roster, ClientOK, TypeOK
<1>2. QED
  BY <1>1, RosterInvariant, PTL

\* JOIN, PART, KICK, QUIT, NICK and NAMES in parts leave in a channel's record nobody
\* the server does not have there and, from EventNamesComplete on, everybody it has.
THEOREM MembersSafe == Spec => []MembersAgree
<1>1. Roster => MembersAgree
  <2>1. SUFFICES ASSUME Roster, ~Misnamed, NEW c \in DOMAIN chans \cap DOMAIN seen.chans
                 PROVE  /\ DOMAIN chans[c].users \subseteq DOMAIN seen.chans[c].users
                        /\ c \in announced => DOMAIN chans[c].users = DOMAIN seen.chans[c].users
    BY DEF MembersAgree
  <2>2. /\ Fits(seen.chans[c], chans[c])
        /\ c \in announced => Full(seen.chans[c], chans[c])
    BY <2>1 DEF Roster, Right
  <2>3. QED
    BY <2>2 DEF Fits, Full, Shows
<1>2. QED
  BY <1>1, RosterInvariant, PTL

\* MODE, NAMES and NICK leave nobody with a status the server did not give and, once the
\* list is complete, everybody with the highest one, unless a flag took its argument.
THEOREM StatusSafe == Spec => []StatusAgrees
<1>1. Roster => StatusAgrees
  <2>1. SUFFICES ASSUME Roster, ~Misnamed, NEW c \in DOMAIN chans \cap DOMAIN seen.chans,
                        ~chans[c].mixed,
                        NEW n \in DOMAIN chans[c].users \cap DOMAIN seen.chans[c].users
                 PROVE  /\ chans[c].users[n] \subseteq seen.chans[c].users[n]
                        /\ c \in announced /\ Head(Ranks) \in seen.chans[c].users[n] =>
                             Head(Ranks) \in chans[c].users[n]
    BY DEF StatusAgrees
  <2>2. /\ Fits(seen.chans[c], chans[c])
        /\ c \in announced => Full(seen.chans[c], chans[c])
    BY <2>1 DEF Roster, Right
  <2>3. QED
    BY <2>1, <2>2 DEF Fits, Full, Shows
<1>2. QED
  BY <1>1, RosterInvariant, PTL

\* From EventNamesComplete on the topic and who set it are the server's and no mode is
\* shown that the server does not have; the client's own modes are the server's.
THEOREM SettingsSafe == Spec => []SettingsAgree
<1>1. Roster => SettingsAgree
  <2>1. SUFFICES ASSUME Roster, ~Misnamed PROVE SettingsAgree
    BY DEF SettingsAgree
  <2>2. ASSUME NEW c \in announced \cap DOMAIN chans \cap DOMAIN seen.chans
        PROVE  /\ chans[c].topic = seen.chans[c].topic
               /\ chans[c].modes \cap Flags \subseteq seen.chans[c].flags
    <3>1. /\ Fits(seen.chans[c], chans[c]) /\ TopicRight(c)
          /\ queue # <<>> => ~Is(Event, "rpl_topic", c) /\ ~Is(Event, "rpl_topicinfo", c)
      BY <2>1 DEF Roster, Right
    <3>2. QED
      BY <3>1 DEF Fits, TopicRight
  <2>3. link = "registered" => umodes = seen.modes
    BY <2>1 DEF Roster, OwnModesRight
  <2>4. QED
    BY <2>2, <2>3 DEF SettingsAgree
<1>2. QED
  BY <1>1, RosterInvariant, PTL
=============================================================================
