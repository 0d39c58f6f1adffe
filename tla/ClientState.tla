---------------------------- MODULE ClientState -----------------------------
(***************************************************************************)
(* What the Client of client/client.go knows of the network: its nick and  *)
(* modes, the channels it is in, their users with their status, topic and  *)
(* modes (client/state.go, parser/types.go), against a server that is the  *)
(* truth about them.                                                       *)
(*                                                                         *)
(* srv is the part of the server's state the client is told of.  A change  *)
(* of it sends messages, each with the state it leads to (after, which     *)
(* only the properties read); the handlers of the Client see them in that  *)
(* order, later.  seen is the state after the last message handled.        *)
(*                                                                         *)
(* A channel is a record on both sides; users maps the nick of each user   *)
(* to the letters of its status.                                           *)
(***************************************************************************)
EXTENDS Integers, Sequences, SequencesExt, FiniteSets

CONSTANTS Nicks,
          Preferred,  \* the configured nick
          Channels,
          Ranks,      \* the server's status letters, the highest first
          Topics, NoTopic,
          NoNick,     \* "", no nick and no argument
          NamesForAll,\* the server answers NAMES of a channel the client is not in
          Crowd,      \* bound: others in a channel when the client joins it
          MaxActs,    \* bound: changes of the server's state
          MaxQueue    \* bound: messages not yet handled when one happens

Letters == ToSet(Ranks)
Flags == {"m"}  \* channel modes that take no argument

ASSUME ClientAssumption ==
  /\ Preferred \in Nicks /\ NoNick \notin Nicks /\ NoTopic \notin Topics
  /\ Channels \cap Nicks = {}
  /\ Ranks \in Seq(Letters) \ {<<>>} /\ Letters \cap Flags = {}
  /\ NamesForAll \in BOOLEAN
  /\ Crowd \in Nat /\ MaxActs \in Nat /\ MaxQueue \in Nat

VARIABLES srv,       \* nick, user modes, and the channels the client is in
          link,      \* "new", "registered" or "lost"
          granted,   \* the nick of the server's 001
          acts,
          queue      \* events accepted by the bus and not yet dispatched

VARIABLES connNick   \* Connection.currentNick, kept by the reader

VARIABLES nick, umodes,  \* State.CurrentNick, UserModes
          prefixes,      \* ServerInfo.ChannelPrefixes: the letters it knows
          chans,         \* State.Channels, a function of the channels known
          announced,     \* channels with EventNamesComplete since their JOIN
          seen

server == <<srv, link, granted, acts>>
client == <<nick, umodes, prefixes, chans, announced>>
vars == <<server, queue, connNick, client, seen>>

Nothing == [x \in {} |-> x]
Without(f, x) == [y \in DOMAIN f \ {x} |-> f[y]]
With(f, x, e) == [y \in DOMAIN f \cup {x} |-> IF y = x THEN e ELSE f[y]]
Toggled(S, on, x) == IF on THEN S \cup {x} ELSE S \ {x}

Init ==
  /\ srv = [nick |-> NoNick, modes |-> {}, chans |-> Nothing]
  /\ link = "new" /\ granted = NoNick /\ acts = 0
  /\ queue = <<>>
  /\ connNick = Preferred
  /\ nick = Preferred /\ umodes = {} /\ prefixes = {"o", "v"} /\ chans = Nothing
  /\ announced = {}
  /\ seen = srv
-----------------------------------------------------------------------------
(* The reader: handleMessage keeps the connection's nick, then emits.      *)

Told(msgs, state) == [i \in DOMAIN msgs |-> [msg |-> msgs[i], after |-> state]]

\* Mutant: anybody's change of nick is taken for the client's.
ReaderNickOfAnyone(m) ==
  IF m.type \in {"registered", "nick"} THEN m.new ELSE connNick

ReaderNick(m) ==
  CASE m.type = "registered" -> m.new
    [] m.type = "nick" /\ m.old = connNick -> m.new
    [] OTHER -> connNick

\* The server goes to state and sends msgs; the reader emits an event for each.
Sends(state, msgs) ==
  /\ srv' = state
  /\ queue' = queue \o Told(msgs, state)
  /\ connNick' = ReaderNick(Head(msgs))
  /\ UNCHANGED <<client, seen>>
-----------------------------------------------------------------------------
(* The server.                                                             *)

Mine == DOMAIN srv.chans
UsersOf(c) == DOMAIN srv.chans[c].users
Visible == UNION {UsersOf(c) : c \in Mine}
Others == Nicks \ {srv.nick}

May == /\ link = "registered" /\ acts < MaxActs /\ Len(queue) <= MaxQueue
       /\ acts' = acts + 1
       /\ UNCHANGED <<link, granted>>

\* The server registers the client, if need be under another nick.
Welcome ==
  /\ link = "new"
  /\ link' = "registered"
  /\ \E n \in Nicks :
       /\ granted' = n
       /\ Sends([srv EXCEPT !.nick = n],
                <<[type |-> "registered", new |-> n],
                  [type |-> "isupport", ranks |-> Letters]>>)
  /\ UNCHANGED acts

\* Without multi-prefix NAMES shows the highest status only.
Highest(letters) ==
  IF letters = {} THEN {}
  ELSE {Ranks[i] : i \in {j \in DOMAIN Ranks :
                            Ranks[j] \in letters /\ \A k \in 1 .. j - 1 : Ranks[k] \notin letters}}

\* 353 in one line or two, then 366.
NamesLines(c, users) ==
  LET line(part) == [type |-> "names", chan |-> c, list |-> [n \in part |-> Highest(users[n])]]
      end == [type |-> "names_end", chan |-> c]
  IN  {<<line(DOMAIN users), end>>}
      \cup {<<line(part), line(DOMAIN users \ part), end>> :
              part \in SUBSET DOMAIN users \ {{}, DOMAIN users}}

TopicLines(c, topic) ==
  IF topic.text = NoTopic THEN <<>>
  ELSE <<[type |-> "rpl_topic", chan |-> c, text |-> topic.text],
         [type |-> "rpl_topicinfo", chan |-> c, by |-> topic.by]>>

Untitled == [text |-> NoTopic, by |-> NoNick]
TopicsOf(nicks) == {Untitled} \cup [text : Topics, by : nicks]

Crowds == {S \in SUBSET Others : Cardinality(S) <= Crowd}

\* The client joins and finds these others there, with any status and topic.
OwnJoin(c) ==
  /\ May
  /\ c \notin Mine
  /\ \E there \in Crowds : \E users \in [there -> SUBSET Letters] :
     \E topic \in TopicsOf(there) :
       LET all == With(users, srv.nick, IF there = {} THEN {Head(Ranks)} ELSE {})
           found == [users |-> all, flags |-> {}, topic |-> topic]
       IN  \E names \in NamesLines(c, all) :
             Sends([srv EXCEPT !.chans = With(@, c, found)],
                   <<[type |-> "join", nick |-> srv.nick, chan |-> c]>>
                     \o TopicLines(c, topic) \o names)

OtherJoin(n, c) ==
  /\ May
  /\ c \in Mine /\ n \in Others \ UsersOf(c)
  /\ Sends([srv EXCEPT !.chans[c].users = With(@, n, {})],
           <<[type |-> "join", nick |-> n, chan |-> c]>>)

Left(n, c) == IF n = srv.nick THEN [srv EXCEPT !.chans = Without(@, c)]
              ELSE [srv EXCEPT !.chans[c].users = Without(@, n)]

Leave(type, n, c) ==
  /\ May
  /\ c \in Mine /\ n \in UsersOf(c)
  /\ Sends(Left(n, c), <<[type |-> type, nick |-> n, chan |-> c]>>)

Quit(n) ==
  /\ May
  /\ n \in Visible \cap Others
  /\ Sends([srv EXCEPT !.chans = [c \in Mine |-> [srv.chans[c] EXCEPT !.users = Without(@, n)]]],
           <<[type |-> "quit", nick |-> n]>>)

\* The nicks of users who were old are now new.
Renamed(users, old, new) ==
  LET was(n) == IF n = new THEN old ELSE n
  IN  IF old \in DOMAIN users
      THEN [n \in (DOMAIN users \ {old}) \cup {new} |-> users[was(n)]]
      ELSE users

ChangeNick(old, new) ==
  /\ May
  /\ old \in Visible \cup {srv.nick}
  /\ new \in Nicks \ (Visible \cup {srv.nick})
  /\ Sends([srv EXCEPT !.nick = IF @ = old THEN new ELSE @,
                       !.chans = [c \in Mine |->
                                    [srv.chans[c] EXCEPT !.users = Renamed(@, old, new)]]],
           <<[type |-> "nick", old |-> old, new |-> new]>>)

Change(on, letter, arg) == [on |-> on, letter |-> letter, arg |-> arg]

\* The changes of one MODE message: a status, a flag, or both in either order.
ModeChanges(users) ==
  LET status == [on : BOOLEAN, letter : Letters, arg : users]
      flag == [on : BOOLEAN, letter : Flags, arg : {NoNick}]
  IN  {<<s>> : s \in status} \cup {<<f>> : f \in flag}
      \cup {<<s, f>> : s \in status, f \in flag} \cup {<<f, s>> : f \in flag, s \in status}

Meant(ch, change) ==
  IF change.arg = NoNick
  THEN [ch EXCEPT !.flags = Toggled(@, change.on, change.letter)]
  ELSE [ch EXCEPT !.users[change.arg] = Toggled(@, change.on, change.letter)]

AllMeant(ch, changes) ==
  LET first == Meant(ch, changes[1])
  IN  IF Len(changes) = 1 THEN first ELSE Meant(first, changes[2])

\* A status has an argument, a flag has none.
Arguments(changes) ==
  LET given == {i \in DOMAIN changes : changes[i].arg # NoNick}
  IN  IF given = {} THEN <<>> ELSE <<changes[CHOOSE i \in given : TRUE].arg>>

ModeLine(c, changes) ==
  [type |-> "mode", target |-> c,
   letters |-> [i \in DOMAIN changes |-> [on |-> changes[i].on, letter |-> changes[i].letter]],
   args |-> Arguments(changes)]

ChangeModes(c) ==
  /\ May
  /\ c \in Mine
  /\ \E changes \in ModeChanges(UsersOf(c)) :
       Sends([srv EXCEPT !.chans[c] = AllMeant(@, changes)], <<ModeLine(c, changes)>>)

OwnModeLine(n, on) ==
  [type |-> "mode", target |-> n, letters |-> <<[on |-> on, letter |-> "i"]>>, args |-> <<>>]

\* The client's own user modes.
ChangeOwnMode(on) ==
  /\ May
  /\ Sends([srv EXCEPT !.modes = Toggled(@, on, "i")], <<OwnModeLine(srv.nick, on)>>)

ChangeTopic(c, n) ==
  /\ May
  /\ c \in Mine /\ n \in UsersOf(c)
  /\ \E text \in Topics \cup {NoTopic} :
       Sends([srv EXCEPT !.chans[c].topic = [text |-> text, by |-> n]],
             <<[type |-> "topic", chan |-> c, text |-> text, by |-> n]>>)

\* An answer to NAMES.
Names(c) ==
  /\ May
  /\ \/ c \in Mine /\ \E names \in NamesLines(c, srv.chans[c].users) : Sends(srv, names)
     \/ /\ c \notin Mine /\ NamesForAll
        /\ \E there \in Crowds : \E names \in NamesLines(c, [n \in there |-> {}]) :
             Sends(srv, names)

\* The reader meets the end of the connection; it emits nothing after that.
Lost ==
  /\ link = "registered"
  /\ link' = "lost"
  /\ Sends([srv EXCEPT !.modes = {}, !.chans = Nothing], <<[type |-> "lost"]>>)
  /\ UNCHANGED <<granted, acts>>
-----------------------------------------------------------------------------
(* The Client's handlers, run by the bus's loop.                           *)

Event == Head(queue).msg
On(type) == queue # <<>> /\ Event.type = type
Handled == /\ queue' = Tail(queue)
           /\ seen' = Head(queue).after
           /\ UNCHANGED <<server, connNick>>

Known(c) == c \in DOMAIN chans

\* Only the properties read joined, whether a JOIN made the record and not NAMES,
\* and mixed, whether a flag has taken an argument.
NewChannel(joined) ==
  [users |-> Nothing, modes |-> {}, topic |-> Untitled, joined |-> joined, mixed |-> FALSE]

\* c changes to ch in the table, or enters it.
Put(c, ch) == chans' = With(chans, c, ch)

HandleRegistered ==
  /\ On("registered")
  /\ Handled /\ UNCHANGED client

\* Mutant: the default prefixes stay.
HandleISupportAdds ==
  /\ On("isupport")
  /\ prefixes' = prefixes \cup Event.ranks
  /\ Handled /\ UNCHANGED <<nick, umodes, chans, announced>>

\* 005 with PREFIX: parseChannelPrefixes.
HandleISupport ==
  /\ On("isupport")
  /\ prefixes' = Event.ranks
  /\ Handled /\ UNCHANGED <<nick, umodes, chans, announced>>

\* Mutant: the user under the old name stays.
RenameUserKeeping(users, old, new) ==
  IF old \in DOMAIN users THEN With(users, new, users[old]) ELSE users

\* Mutant: a new record, without the status.
RenameUserAnew(users, old, new) ==
  IF old \in DOMAIN users THEN Without(With(users, new, {}), old) ELSE users

RenameUser(users, old, new) ==
  IF old \in DOMAIN users THEN Without(With(users, new, users[old]), old) ELSE users

\* Mutant: the client's own change is not recorded.
HandleNickOfOthers ==
  /\ On("nick")
  /\ chans' = [c \in DOMAIN chans |->
                 [chans[c] EXCEPT !.users = RenameUser(@, Event.old, Event.new)]]
  /\ Handled /\ UNCHANGED <<nick, umodes, prefixes, announced>>

HandleNick ==
  /\ On("nick")
  /\ nick' = IF Event.old = nick THEN Event.new ELSE nick
  /\ chans' = [c \in DOMAIN chans |->
                 [chans[c] EXCEPT !.users = RenameUser(@, Event.old, Event.new)]]
  /\ Handled /\ UNCHANGED <<umodes, prefixes, announced>>

\* The next argument goes to the next letter, whatever the letter.
Argument(m, i) == IF i <= Len(m.args) THEN m.args[i] ELSE NoNick

ModeApplied(m, ch, i) ==
  LET l == m.letters[i]
      arg == Argument(m, i)
  IN  [ch EXCEPT !.modes = Toggled(@, l.on, l.letter),
                 !.mixed = @ \/ (l.letter \in Flags /\ arg # NoNick),
                 !.users = [n \in DOMAIN @ |->
                              IF n = arg THEN Toggled(@[n], l.on, l.letter) ELSE @[n]]]

\* A letter after the other.
WithModes(m, ch) ==
  LET upTo[i \in 0 .. Len(m.letters)] ==
        IF i = 0 THEN ch ELSE ModeApplied(m, upTo[i - 1], i)
      end == upTo[Len(m.letters)]
  IN  [ch EXCEPT !.modes = end.modes, !.users = end.users, !.mixed = end.mixed]

\* State.AddUserMode and RemoveUserMode.
WithUserModes(m, modes) ==
  LET upTo[i \in 0 .. Len(m.letters)] ==
        IF i = 0 THEN modes ELSE Toggled(upTo[i - 1], m.letters[i].on, m.letters[i].letter)
  IN  upTo[Len(m.letters)]

HandleMode ==
  /\ On("mode")
  /\ CASE Event.target \in Channels /\ Known(Event.target) ->
            /\ Put(Event.target, WithModes(Event, chans[Event.target]))
            /\ UNCHANGED umodes
       [] Event.target = nick ->
            /\ umodes' = WithUserModes(Event, umodes)
            /\ UNCHANGED chans
       [] OTHER -> UNCHANGED <<umodes, chans>>
  /\ Handled /\ UNCHANGED <<nick, prefixes, announced>>

AddUser(ch, n, letters) == [ch EXCEPT !.users = With(@, n, letters)]

HandleJoin ==
  /\ On("join")
  /\ LET c == Event.chan
     IN  CASE Event.nick = nick ->
                /\ Put(c, AddUser(NewChannel(TRUE), nick, {}))
                /\ announced' = announced \ {c}
           [] Event.nick # nick /\ Known(c) ->
                Put(c, AddUser(chans[c], Event.nick, {})) /\ UNCHANGED announced
           [] OTHER -> UNCHANGED <<chans, announced>>
  /\ Handled /\ UNCHANGED <<nick, umodes, prefixes>>

\* PART and KICK; nick is who leaves.
HandleLeave(type) ==
  /\ On(type)
  /\ LET c == Event.chan
     IN  CASE Event.nick = nick -> chans' = Without(chans, c)
           [] Event.nick # nick /\ Known(c) ->
                Put(c, [chans[c] EXCEPT !.users = Without(@, Event.nick)])
           [] OTHER -> UNCHANGED chans
  /\ Handled /\ UNCHANGED <<nick, umodes, prefixes, announced>>

HandlePart == HandleLeave("part")
HandleKick == HandleLeave("kick")

HandleQuit ==
  /\ On("quit")
  /\ chans' = [c \in DOMAIN chans |->
                 [chans[c] EXCEPT !.users = Without(@, Event.nick)]]
  /\ Handled /\ UNCHANGED <<nick, umodes, prefixes, announced>>

SetTopic(topic) ==
  /\ IF Known(Event.chan)
     THEN Put(Event.chan, [chans[Event.chan] EXCEPT !.topic = topic])
     ELSE UNCHANGED chans
  /\ Handled /\ UNCHANGED <<nick, umodes, prefixes, announced>>

HandleTopic == On("topic") /\ SetTopic([text |-> Event.text, by |-> Event.by])
HandleTopicReply == On("rpl_topic") /\ SetTopic([text |-> Event.text, by |-> NoNick])

\* Mutant: who set the topic, without its text.
HandleTopicInfoAlone ==
  /\ On("rpl_topicinfo")
  /\ SetTopic([text |-> NoTopic, by |-> Event.by])

HandleTopicInfo ==
  /\ On("rpl_topicinfo")
  /\ SetTopic([text |-> IF Known(Event.chan) THEN chans[Event.chan].topic.text ELSE NoTopic,
               by |-> Event.by])

\* A prefix that is not known stays part of the nick.
Stripped(n, shown) == IF shown \subseteq prefixes THEN n ELSE <<shown, n>>

HandleNames ==
  /\ On("names")
  /\ LET c == Event.chan
         ch == IF Known(c) THEN chans[c] ELSE NewChannel(FALSE)
         listed == {[nick |-> Stripped(n, Event.list[n]), letters |-> Event.list[n] \cap prefixes] :
                      n \in DOMAIN Event.list}
         named == {u.nick : u \in listed}
     IN  Put(c, [ch EXCEPT !.users =
               [n \in named \cup DOMAIN @ |->
                  IF n \in named THEN (CHOOSE u \in listed : u.nick = n).letters ELSE @[n]]])
  /\ Handled /\ UNCHANGED <<nick, umodes, prefixes, announced>>

\* EventNamesComplete tells the application that the list is complete.
HandleNamesEnd ==
  /\ On("names_end")
  /\ announced' = IF Known(Event.chan) THEN announced \cup {Event.chan} ELSE announced
  /\ Handled /\ UNCHANGED <<nick, umodes, prefixes, chans>>

HandleDisconnected ==
  /\ On("lost")
  /\ chans' = Nothing
  /\ announced' = {}
  /\ Handled /\ UNCHANGED <<nick, umodes, prefixes>>
-----------------------------------------------------------------------------
Handle == \/ HandleRegistered \/ HandleISupport
          \/ HandleNick \/ HandleMode
          \/ HandleJoin \/ HandlePart \/ HandleKick \/ HandleQuit
          \/ HandleTopic \/ HandleTopicReply \/ HandleTopicInfo
          \/ HandleNames \/ HandleNamesEnd
          \/ HandleDisconnected

Act == \/ Welcome \/ Lost
       \/ \E c \in Channels :
            \/ OwnJoin(c) \/ ChangeModes(c) \/ Names(c)
            \/ \E n \in Nicks : \/ OtherJoin(n, c) \/ ChangeTopic(c, n)
                                \/ \E type \in {"part", "kick"} : Leave(type, n, c)
       \/ \E n \in Nicks : Quit(n) \/ \E new \in Nicks : ChangeNick(n, new)
       \/ \E on \in BOOLEAN : ChangeOwnMode(on)

Next == Handle \/ Act

Spec == Init /\ [][Next]_vars
-----------------------------------------------------------------------------
(* Properties.  Each relates what the Client knows to seen, the state of   *)
(* the server after the messages it has handled.                           *)

Mentioned == Nicks \cup {<<shown, n>> : shown \in SUBSET Letters, n \in Nicks}

\* Names in the tables are nicks, apart from a status prefix the client did not know;
\* a user's letters are status letters, apart from a flag that took its nick.
TypeOK ==
  /\ link \in {"new", "registered", "lost"} /\ granted \in Nicks \cup {NoNick}
  /\ connNick \in Nicks /\ nick \in Nicks /\ umodes \subseteq {"i"}
  /\ prefixes \in {{"o", "v"}, Letters}
  /\ DOMAIN chans \subseteq Channels /\ announced \subseteq Channels
  /\ \A c \in DOMAIN chans :
       LET ch == chans[c]
       IN  /\ DOMAIN ch.users \subseteq IF prefixes = Letters THEN Nicks ELSE Mentioned
           /\ ch.modes \subseteq Letters \cup Flags
           /\ \A n \in DOMAIN ch.users :
                ch.users[n] \subseteq IF ch.mixed THEN Letters \cup Flags ELSE Letters

\* The server has registered the client under a nick it did not ask for:
\* handleRegistered leaves State.CurrentNick as it was configured.
Misnamed == granted \notin {NoNick, Preferred}

Joined == {c \in DOMAIN chans : chans[c].joined}

\* The table of channels holds those the client is in (state.go: Channels the
\* user is in), whoever is kicked, renamed or parts, in any order; apart from
\* records that an answer to NAMES alone has made, and after a nick it was not given.
ChannelsAgree == ~Misnamed => Joined = DOMAIN seen.chans

\* A channel's users are the server's: nobody who left, quit, was kicked or renamed
\* stays or comes back, and from EventNamesComplete on nobody is missing.
MembersAgree ==
  ~Misnamed =>
    \A c \in DOMAIN chans \cap DOMAIN seen.chans :
      LET known == DOMAIN chans[c].users
          there == DOMAIN seen.chans[c].users
      IN  known \subseteq there /\ (c \in announced => known = there)

\* Nobody is shown with a status the server did not give, and once the list is
\* complete everybody with the highest status has it: through renames, NAMES in
\* parts and mode changes, unless a flag took the argument of a status.
StatusAgrees ==
  ~Misnamed =>
    \A c \in DOMAIN chans \cap DOMAIN seen.chans : ~chans[c].mixed =>
      \A n \in DOMAIN chans[c].users \cap DOMAIN seen.chans[c].users :
        LET known == chans[c].users[n]
            given == seen.chans[c].users[n]
        IN  /\ known \subseteq given
            /\ c \in announced /\ Head(Ranks) \in given => Head(Ranks) \in known

\* Once the list is complete the topic and its author are the server's, whether
\* the channel had one on joining, got one or lost it, and no mode is shown that
\* the server does not have; the client's own modes are the server's.
SettingsAgree ==
  ~Misnamed =>
    /\ \A c \in announced \cap DOMAIN chans \cap DOMAIN seen.chans :
         /\ chans[c].topic = seen.chans[c].topic
         /\ chans[c].modes \cap Flags \subseteq seen.chans[c].flags
    /\ link = "registered" => umodes = seen.modes

\* The connection's nick is the server's at once, the Client's is that of the
\* messages it has handled, whoever changes nick, and to whichever.
IdentityAgrees ==
  /\ link # "new" => connNick = srv.nick
  /\ ~Misnamed /\ seen.nick # NoNick => nick = seen.nick
=============================================================================
