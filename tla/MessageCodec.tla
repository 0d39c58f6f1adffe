---------------------------- MODULE MessageCodec ----------------------------
(***************************************************************************)
(* A message on its way from one program to another: String formats it,    *)
(* readLoop trims the line, ParseMessage reads it, CreateEventFromMessage  *)
(* makes the event (parser/message.go, connection.go, events.go); and the  *)
(* credentials of SASL, which sendAuthData (parser/sasl.go) cuts into      *)
(* chunks.                                                                 *)
(*                                                                         *)
(* A text is a sequence of symbols: characters, and the words that the     *)
(* code compares with as one symbol each.                                  *)
(***************************************************************************)
EXTENDS Integers, Sequences, SequencesExt, FiniteSets, FiniteSetsExt

CONSTANTS Symbols,
          Messages,    \* those sent, records of tags, source, command, params
          Lengths,     \* of the credentials sent, after base64
          MaxChunk     \* sh.maxChunkSize

VARIABLES stage,  \* "new", "line", "parsed", "emitted", "panicked"; "secret", "chunks"
          msg,    \* what is sent: a message, or the length of credentials
          line,   \* what goes over the network: a text, or lengths of chunks
          got,    \* the message read, or an error, Unreadable
          events

vars == <<stage, msg, line, got, events>>

Space == " "
Delimiter == "^A"
Empty == <<>>
Unreadable == [unreadable |-> TRUE]

Blanks == {Space, "\r", "\n"}
Special == {Space, Delimiter, ":", ";", "=", "@", "!", "\\", "\r", "\n", "NUL", "s", "r", "n", "0"}

\* Words in lower case become words in upper case.
Upper == [action |-> "ACTION", privmsg |-> "PRIVMSG"]
ToUpper(text) == [i \in DOMAIN text |-> IF text[i] \in DOMAIN Upper THEN Upper[text[i]] ELSE text[i]]

\* len(text), of which a word is more than one character.
Length(text) ==
  Len(text) + 5 * Cardinality({i \in DOMAIN text : text[i] \in {"ACTION", "action"}})
            + 6 * Cardinality({i \in DOMAIN text : text[i] = "VERSION"})

(***************************************************************************)
(* A message fits in a line: its command is a word, no part has the end of *)
(* a line in it, and its tags have names.                                  *)
(***************************************************************************)
Sendable(m) ==
  LET Text == Seq(Symbols \ {"\r", "\n"})
  IN  /\ m \in [tags : {m.tags}, source : Text, params : Seq(Text),
                command : {<<word>> : word \in Symbols \ (Blanks \cup {":", "@"})}]
      /\ m.tags \in [DOMAIN m.tags -> Seq(Symbols)] /\ IsFiniteSet(DOMAIN m.tags)
      /\ DOMAIN m.tags \subseteq Seq(Symbols \ (Blanks \cup {";", "="})) \ {Empty}

ASSUME CodecAssumption ==
  /\ Special \subseteq Symbols
  /\ \A m \in Messages : Sendable(m)
  /\ MaxChunk \in Nat \ {0} /\ Lengths \subseteq Nat
-----------------------------------------------------------------------------
(* package strings.                                                        *)

\* The first place of sym in text, 0 if there is none.
Index(text, sym) == SelectInSeq(text, LAMBDA c : c = sym)
StartsWith(text, sym) == text # Empty /\ Head(text) = sym
EndsWith(text, sym) == text # Empty /\ Last(text) = sym

Split(text, sym) ==
  LET upTo[i \in 0 .. Len(text)] ==
        IF i = 0 THEN <<Empty>>
        ELSE LET parts == upTo[i - 1]
             IN  IF text[i] = sym THEN Append(parts, Empty)
                 ELSE Append(Front(parts), Append(Last(parts), text[i]))
  IN  upTo[Len(text)]

Join(parts, sep) ==
  LET upTo[i \in 0 .. Len(parts)] ==
        IF i = 0 THEN Empty
        ELSE IF i = 1 THEN parts[1] ELSE upTo[i - 1] \o sep \o parts[i]
  IN  upTo[Len(parts)]

NonEmpty(parts) ==
  LET upTo[i \in 0 .. Len(parts)] ==
        IF i = 0 THEN <<>>
        ELSE IF parts[i] = Empty THEN upTo[i - 1] ELSE Append(upTo[i - 1], parts[i])
  IN  upTo[Len(parts)]

Fields(text) == NonEmpty(Split(text, Space))

Replaced(text, old, new) ==
  LET found(i) == i + Len(old) - 1 <= Len(text) /\ SubSeq(text, i, i + Len(old) - 1) = old
      from[i \in 1 .. Len(text) + 1] ==
        IF i = Len(text) + 1 THEN Empty
        ELSE IF found(i) THEN new \o from[i + Len(old)] ELSE <<text[i]>> \o from[i + 1]
  IN  from[1]

\* One replacement after another, each over the whole text.
AllReplaced(text, pairs) ==
  LET upTo[k \in 0 .. Len(pairs)] ==
        IF k = 0 THEN text ELSE Replaced(upTo[k - 1], pairs[k].old, pairs[k].new)
  IN  upTo[Len(pairs)]
-----------------------------------------------------------------------------
(* Tags.                                                                   *)

Escapes == <<[old |-> <<"\\">>, new |-> <<"\\", "\\">>],
             [old |-> <<";">>, new |-> <<"\\", ":">>],
             [old |-> <<Space>>, new |-> <<"\\", "s">>],
             [old |-> <<"\r">>, new |-> <<"\\", "r">>],
             [old |-> <<"\n">>, new |-> <<"\\", "n">>],
             [old |-> <<"NUL">>, new |-> <<"\\", "0">>]>>

\* The escaped backslash is the third to be replaced.
Unescapes == <<[old |-> <<"\\", ":">>, new |-> <<";">>],
               [old |-> <<"\\", "s">>, new |-> <<Space>>],
               [old |-> <<"\\", "\\">>, new |-> <<"\\">>],
               [old |-> <<"\\", "r">>, new |-> <<"\r">>],
               [old |-> <<"\\", "n">>, new |-> <<"\n">>],
               [old |-> <<"\\", "0">>, new |-> <<"NUL">>]>>

\* Mutant: the backslashes of the other escapes are escaped again.
EscapeTagValueLate(value) == AllReplaced(value, Reverse(Escapes))

EscapeTagValue(value) == AllReplaced(value, Escapes)
UnescapeTagValue(value) == AllReplaced(value, Unescapes)

Key(pair) == IF Index(pair, "=") = 0 THEN pair ELSE SubSeq(pair, 1, Index(pair, "=") - 1)
Value(pair) == IF Index(pair, "=") = 0 THEN Empty
               ELSE UnescapeTagValue(SubSeq(pair, Index(pair, "=") + 1, Len(pair)))

Pairs(text) == NonEmpty(Split(text, ";"))
TagsReadable(text) == \A i \in DOMAIN Pairs(text) : Key(Pairs(text)[i]) # Empty

\* Of pairs with the same key the last one stays.
ParseTags(text) ==
  LET pairs == Pairs(text)
      with(key) == {i \in DOMAIN pairs : Key(pairs[i]) = key}
  IN  [key \in {Key(pairs[i]) : i \in DOMAIN pairs} |-> Value(pairs[Max(with(key))])]
-----------------------------------------------------------------------------
(* Formatting.  The order of the tags is that of a Go map: any.            *)

\* Mutant: an empty last parameter is written as it is.
TrailingUnlessEmpty(param) == Index(param, Space) > 0 \/ StartsWith(param, ":")

Trailing(param) == Index(param, Space) > 0 \/ param = Empty \/ StartsWith(param, ":")

FormattedTags(tags, keys) ==
  LET pair(key) == IF tags[key] = Empty THEN key ELSE key \o <<"=">> \o EscapeTagValue(tags[key])
  IN  <<"@">> \o Join([i \in DOMAIN keys |-> pair(keys[i])], <<";">>)

\* The lines String may return.
String(m) ==
  LET params == [i \in DOMAIN m.params |->
                   IF i = Len(m.params) /\ Trailing(m.params[i])
                   THEN <<":">> \o m.params[i] ELSE m.params[i]]
      rest == (IF m.source = Empty THEN <<>> ELSE <<(<<":">> \o m.source)>>)
                \o <<m.command>> \o params
  IN  IF m.tags = Empty THEN {Join(rest, <<Space>>)}
      ELSE {Join(<<FormattedTags(m.tags, keys)>> \o rest, <<Space>>) :
              keys \in SetToSeqs(DOMAIN m.tags)}
-----------------------------------------------------------------------------
(* Parsing.                                                                *)

TrimSpace(text) ==
  LET kept == {i \in DOMAIN text : text[i] \notin Blanks}
  IN  IF kept = {} THEN Empty ELSE SubSeq(text, Min(kept), Max(kept))

TrimSuffix(raw) ==
  IF Len(raw) >= 2 /\ SubSeq(raw, Len(raw) - 1, Len(raw)) = <<"\r", "\n">>
  THEN SubSeq(raw, 1, Len(raw) - 2) ELSE raw

\* The text up to its first space, and what follows that space.
Cut(text) == LET i == Index(text, Space)
             IN  <<SubSeq(text, 1, i - 1), SubSeq(text, i + 1, Len(text))>>

\* What parts after the command stand for; one that starts with ":" and all
\* after it are the last parameter.
ParamsOf(parts) ==
  LET k == SelectInSeq(parts, LAMBDA part : StartsWith(part, ":"))
      middle == IF k = 0 THEN parts ELSE SubSeq(parts, 1, k - 1)
      last == IF k = 0 THEN <<>> ELSE <<Tail(Join(SubSeq(parts, k, Len(parts)), <<Space>>))>>
  IN  NonEmpty(middle) \o last

ParseMessage(raw) ==
  LET text == TrimSuffix(raw)
      tagged == StartsWith(text, "@")
      untagged == IF tagged THEN Cut(text)[2] ELSE text
      sourced == StartsWith(untagged, ":")
      rest == IF sourced THEN Cut(untagged)[2] ELSE untagged
      parts == Split(rest, Space)
  IN  IF \/ tagged /\ (Index(text, Space) = 0 \/ ~TagsReadable(Tail(Cut(text)[1])))
         \/ sourced /\ Index(untagged, Space) = 0
         \/ rest = Empty
      THEN Unreadable
      ELSE [tags |-> IF tagged THEN ParseTags(Tail(Cut(text)[1])) ELSE Empty,
            source |-> IF sourced THEN Tail(Cut(untagged)[1]) ELSE Empty,
            command |-> ToUpper(Head(parts)),
            params |-> ParamsOf(Tail(parts))]
-----------------------------------------------------------------------------
(* Events.                                                                 *)

ExtractNick(source) == IF Index(source, "!") = 0 THEN source
                       ELSE SubSeq(source, 1, Index(source, "!") - 1)

Delimited(text) == StartsWith(text, Delimiter) /\ EndsWith(text, Delimiter)
Content(text) == SubSeq(text, 2, Len(text) - 1)

\* Mutant: ACTION is a CTCP message like any other.
IsValidCTCPOfAnyKind(text) ==
  Length(text) >= 2 /\ Delimited(text) /\ Fields(Content(text)) # <<>>

IsValidCTCP(text) == /\ Length(text) >= 2 /\ Delimited(text)
                     /\ Fields(Content(text)) # <<>>
                     /\ ToUpper(Head(Fields(Content(text)))) # <<"ACTION">>

IsActionMessage(text) == Length(text) >= 9 /\ Delimited(text) /\ StartsWith(Content(text), "ACTION")

\* The commands with an event type of their own.
Named == [PING |-> "ping", PONG |-> "pong", ERROR |-> "error", NICK |-> "nick", JOIN |-> "join",
          PART |-> "part", QUIT |-> "quit", KICK |-> "kick", MODE |-> "mode", TOPIC |-> "topic",
          NOTICE |-> "notice", INVITE |-> "invite", AUTHENTICATE |-> "sasl_auth"]
Subcommands == [LS |-> "cap_ls", ACK |-> "cap_ack", NAK |-> "cap_nak", DEL |-> "cap_del"]
Replies == [reply \in {"001", "353", "903", "904", "311", "352", "322", "433"} |->
              CASE reply = "001" -> <<"registered", "numeric">>
                [] reply = "353" -> <<"names", "numeric">>
                [] reply = "903" -> <<"sasl_success">>
                [] reply = "904" -> <<"sasl_fail">>
                [] reply = "311" -> <<"whois">>
                [] reply = "352" -> <<"who">>
                [] reply = "322" -> <<"list">>
                [] reply = "433" -> <<"numeric">>]

Param(m, i) == IF i \in DOMAIN m.params THEN m.params[i] ELSE Empty
GetTrailing(m) == IF m.params = <<>> THEN Empty ELSE Last(m.params)

DetermineEventType(m) ==
  LET cmd == IF Len(m.command) = 1 THEN Head(m.command) ELSE Empty
      sub == Param(m, 2)
  IN  CASE cmd \in DOMAIN Named -> <<Named[cmd]>>
        [] cmd \in DOMAIN Replies -> Replies[cmd]
        [] cmd = "PRIVMSG" -> <<IF Len(m.params) >= 2 /\ IsActionMessage(GetTrailing(m))
                                THEN "action" ELSE "privmsg">>
        [] cmd = "CAP" /\ Len(sub) = 1 /\ Head(sub) \in DOMAIN Subcommands ->
             <<Subcommands[Head(sub)]>>
        [] cmd = "CAP" /\ sub = <<"NEW">> -> <<"cap_new">>
        [] OTHER -> <<"unknown">>

\* Of this data an event has what its type needs.
CreateEvents(m) ==
  LET types == DetermineEventType(m)
  IN  [k \in DOMAIN types |->
         [type |-> types[k], nick |-> ExtractNick(m.source),
          target |-> Param(m, 1), other |-> Param(m, 2), text |-> GetTrailing(m),
          ctcp |-> IsValidCTCP(GetTrailing(m))]]

\* The arguments of a MODE are a slice of its parameters, from the third on.
Panics(m) == m.command = <<"MODE">> /\ Len(m.params) < 2
-----------------------------------------------------------------------------
(* Credentials.                                                            *)

\* Mutant: nothing after the last chunk.
ChunksAlone(n) == [k \in 1 .. (n + MaxChunk - 1) \div MaxChunk |->
                     IF k * MaxChunk <= n THEN MaxChunk ELSE n % MaxChunk]

\* The lengths of the lines sendAuthData sends; "+" has length 0.
Chunks(n) ==
  LET full == [k \in 1 .. (n + MaxChunk - 1) \div MaxChunk |->
                 IF k * MaxChunk <= n THEN MaxChunk ELSE n % MaxChunk]
  IN  CASE n = 0 -> <<0>>
        [] n \in 1 .. MaxChunk -> <<n>>
        [] OTHER -> full \o <<0>>

\* The line with which a server takes the credentials for complete: the first
\* shorter than MaxChunk; 0 if it waits for more.
Terminator(chunks) == SelectInSeq(chunks, LAMBDA len : len < MaxChunk)
-----------------------------------------------------------------------------
Init ==
  /\ \/ stage = "new" /\ msg \in Messages
     \/ stage = "secret" /\ msg \in Lengths
  /\ line = Empty /\ got = Unreadable /\ events = <<>>

Format == /\ stage = "new"
          /\ line' \in String(msg)
          /\ stage' = "line"
          /\ UNCHANGED <<msg, got, events>>

\* readLoop, once it has a line.
Parse == /\ stage = "line"
         /\ got' = ParseMessage(TrimSpace(line))
         /\ stage' = "parsed"
         /\ UNCHANGED <<msg, line, events>>

Emit == /\ stage = "parsed" /\ got # Unreadable
        /\ ~Panics(got)
        /\ events' = CreateEvents(got)
        /\ stage' = "emitted"
        /\ UNCHANGED <<msg, line, got>>

\* The goroutine of the reader panics, and the program with it.
Panic == /\ stage = "parsed" /\ got # Unreadable
         /\ Panics(got)
         /\ stage' = "panicked"
         /\ UNCHANGED <<msg, line, got, events>>

SendAuthData == /\ stage = "secret"
                /\ line' = Chunks(msg)
                /\ stage' = "chunks"
                /\ UNCHANGED <<msg, got, events>>

Next == Format \/ Parse \/ Emit \/ Panic \/ SendAuthData
Spec == Init /\ [][Next]_vars
-----------------------------------------------------------------------------
(* Properties.                                                             *)

Arrived == stage \in {"parsed", "emitted", "panicked"}

Plain(param) == param # Empty /\ Index(param, Space) = 0 /\ ~StartsWith(param, ":")

(***************************************************************************)
(* A message comes back as it was exactly if its parameters but the last   *)
(* are not empty, have no space and do not start with a colon, its command *)
(* is in upper case, its source has no space and its last parameter does   *)
(* not end in one: String quotes the last parameter only, and readLoop     *)
(* trims the line.                                                         *)
(***************************************************************************)
MessageRoundTrip ==
  Arrived =>
    ((got # Unreadable /\ [got EXCEPT !.tags = msg.tags] = msg)
       <=> /\ \A i \in 1 .. Len(msg.params) - 1 : Plain(msg.params[i])
           /\ msg.command = ToUpper(msg.command) /\ Index(msg.source, Space) = 0
           /\ ~EndsWith(GetTrailing(msg), Space))

\* A backslash before what the code takes for the rest of an escape.
Ambiguous(value) ==
  \E i \in 1 .. Len(value) - 1 : value[i] = "\\" /\ value[i + 1] \in {":", "s", "r", "n", "0"}

(***************************************************************************)
(* Tags come back as they were, in whatever order they were written,       *)
(* exactly if no value has a backslash before a letter of an escape:       *)
(* unescapeTagValue replaces one escape after another and takes the second *)
(* half of an escaped backslash for the first of the next.                 *)
(***************************************************************************)
TagRoundTrip ==
  Arrived => ((got # Unreadable /\ got.tags = msg.tags)
                <=> \A key \in DOMAIN msg.tags : ~Ambiguous(msg.tags[key]))

\* CTCP: delimited, and the first word says which command.
Asks(text, words) == Delimited(text) /\ Len(text) > 1 /\ Head(Split(Content(text), Space)) \in words

\* What the code takes neither for an action nor for CTCP, or for an action wrongly.
Misjudged(text) ==
  /\ Delimited(text) /\ Fields(Content(text)) # <<>>
  /\ LET word == Head(Fields(Content(text)))
     IN  \/ text = <<Delimiter, "ACTION", Delimiter>>
         \/ word = <<"action">>
         \/ word = <<"ACTION">> /\ StartsWith(Content(text), Space)
         \/ Len(word) > 1 /\ StartsWith(Content(text), "ACTION")

(***************************************************************************)
(* The events say who sent what to whom.  "/me" is an action, other CTCP   *)
(* is CTCP, nothing is both: but for ACTION without a text (9 is one more  *)
(* than the length of "\001ACTION\001"), in lower case, after a space or   *)
(* as the beginning of a longer word.                                      *)
(***************************************************************************)
EventFaithful ==
  stage = "emitted" /\ [got EXCEPT !.tags = msg.tags] = msg =>
    \A k \in DOMAIN events :
      LET e == events[k]
          cmd == Head(msg.command)
          text == GetTrailing(msg)
          ctcp == Delimited(text) /\ Fields(Content(text)) # <<>>
      IN  /\ e.nick = Head(Split(msg.source, "!"))
          /\ cmd \in {"PRIVMSG", "NOTICE"} /\ Len(msg.params) >= 2 =>
               /\ e.target = msg.params[1] /\ e.text = text
               /\ ~Misjudged(text) =>
                    /\ e.type = "action" <=> cmd = "PRIVMSG" /\ Asks(text, {<<"ACTION">>})
                    /\ e.ctcp <=> ctcp /\ ~Asks(text, {<<"ACTION">>})

(***************************************************************************)
(* The server takes the credentials for complete with the last line sent,  *)
(* neither earlier nor never, exactly if they are shorter than a chunk, or *)
(* longer and a multiple of one: credentials of one full chunk lack the    *)
(* "+", and longer ones get it also after a short chunk.                   *)
(***************************************************************************)
CredentialsFramed ==
  stage = "chunks" =>
    ((Terminator(line) = Len(line)) <=> (msg < MaxChunk \/ (msg > MaxChunk /\ msg % MaxChunk = 0)))
=============================================================================
