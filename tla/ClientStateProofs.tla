------------------------- MODULE ClientStateProofs --------------------------
(***************************************************************************)
(* What TLAPS proves of the Client's picture of the network, for any set   *)
(* of nicks, channels and statuses and any length of the queue: it knows   *)
(* its own nick and the channels it is in.                                 *)
(*                                                                         *)
(* The messages in the queue form a chain of server states, from the one   *)
(* the Client has seen to the present one.                                 *)
(***************************************************************************)
EXTENDS ClientState, TLAPS, SequenceTheorems

Sequential(s) == s \in Seq({s[i] : i \in DOMAIN s})

Fields == {"nick", "modes", "chans"}

\* The types of messages that change neither the client's nick nor its channels.
Neutral == {"isupport", "mode", "quit", "topic", "rpl_topic", "rpl_topicinfo", "names",
            "names_end"}

\* t is the server's nick and channels after m when they were those of s; g is the
\* nick it has granted.
NickAfter(g, s, m, t) ==
  /\ (m.type = "registered") <=> (s.nick = NoNick)
  /\ m.type = "registered" => t.nick = m.new /\ t.nick = g /\ DOMAIN t.chans = {}
  /\ m.type = "nick" => t.nick = IF s.nick = m.old THEN m.new ELSE s.nick
  /\ m.type \notin {"registered", "nick"} => t.nick = s.nick
  /\ t.nick # NoNick

ChansAfter(s, m, t) ==
  /\ m.type = "join" =>
       DOMAIN t.chans = IF m.nick = s.nick THEN DOMAIN s.chans \cup {m.chan} ELSE DOMAIN s.chans
  /\ m.type \in {"part", "kick"} =>
       DOMAIN t.chans = IF m.nick = s.nick THEN DOMAIN s.chans \ {m.chan} ELSE DOMAIN s.chans
  /\ m.type = "lost" => DOMAIN t.chans = {}
  /\ m.type \in Neutral \cup {"nick", "registered"} => DOMAIN t.chans = DOMAIN s.chans

Types == Neutral \cup {"registered", "nick", "join", "part", "kick", "lost"}
Follows(g, s, m, t) == m.type \in Types /\ NickAfter(g, s, m, t) /\ ChansAfter(s, m, t)

Before(i) == IF i = 1 THEN seen ELSE queue[i - 1].after
Final == IF queue = <<>> THEN seen ELSE queue[Len(queue)].after

Chain == /\ Sequential(queue)
         /\ \A i \in DOMAIN queue : Follows(granted, Before(i), queue[i].msg, queue[i].after)
         /\ Final = srv

ServerOK ==
  /\ DOMAIN srv = Fields
  /\ link = "new" => srv.nick = NoNick /\ granted = NoNick /\ DOMAIN srv.chans = {}
  /\ link # "new" => srv.nick \in Nicks /\ connNick = srv.nick

\* The Client's records are records, and what it tracks is what it has seen.
Tracks ==
  /\ \A c \in DOMAIN chans : "joined" \in DOMAIN chans[c]
  /\ ~Misnamed => /\ Joined = DOMAIN seen.chans
                  /\ nick = IF seen.nick = NoNick THEN Preferred ELSE seen.nick

IInv == ServerOK /\ Chain /\ Tracks
-----------------------------------------------------------------------------
(* Sequences of whatever.                                                  *)

LEMMA SeqIsSequential ==
  ASSUME NEW S, NEW s \in Seq(S)
  PROVE  Sequential(s)
<1> DEFINE R == {s[i] : i \in DOMAIN s}
<1>1. Len(s) \in Nat /\ s \in [1 .. Len(s) -> S]
  BY LenProperties
<1>2. \A i \in 1 .. Len(s) : s[i] \in R
  BY <1>1
<1> HIDE DEF R
<1>3. s \in [1 .. Len(s) -> R]
  BY <1>1, <1>2
<1>4. s \in Seq(R)
  BY <1>1, <1>3
<1>5. QED
  BY <1>4 DEF R, Sequential

LEMMA SequentialFacts ==
  ASSUME NEW s, Sequential(s)
  PROVE  /\ Len(s) \in Nat /\ DOMAIN s = 1 .. Len(s)
         /\ s # <<>> => /\ Len(s) >= 1 /\ Head(s) = s[1]
                       /\ Sequential(Tail(s)) /\ Len(Tail(s)) = Len(s) - 1
                       /\ \A i \in 1 .. Len(s) - 1 : Tail(s)[i] = s[i + 1]
<1> DEFINE R == {s[i] : i \in DOMAIN s}
<1>1. s \in Seq(R)
  BY DEF Sequential
<1> HIDE DEF R
<1>2. Len(s) \in Nat /\ DOMAIN s = 1 .. Len(s)
  BY <1>1, LenProperties
<1>3. ASSUME s # <<>>
      PROVE  /\ Len(s) >= 1 /\ Head(s) = s[1] /\ Len(Tail(s)) = Len(s) - 1
             /\ Tail(s) \in Seq(R)
             /\ \A i \in 1 .. Len(s) - 1 : Tail(s)[i] = s[i + 1]
  <2>1. Head(s) \in R /\ Tail(s) \in Seq(R)
    BY <1>1, <1>3, HeadTailProperties
  <2>2. Len(Tail(s)) = Len(s) - 1 /\ \A i \in 1 .. Len(Tail(s)) : Tail(s)[i] = s[i + 1]
    BY <1>1, <1>3, HeadTailProperties
  <2>3. Len(s) # 0
    BY <1>1, <1>3, EmptySeq
  <2>4. QED
    BY <1>1, <1>2, <2>1, <2>2, <2>3
<1>4. ASSUME s # <<>> PROVE Sequential(Tail(s))
  BY <1>3, <1>4, SeqIsSequential
<1>5. QED
  BY <1>2, <1>3, <1>4
LEMMA SequentialConcat ==
  ASSUME NEW s, NEW t, Sequential(s), Sequential(t)
  PROVE  /\ Sequential(s \o t) /\ Len(s \o t) = Len(s) + Len(t)
         /\ \A i \in 1 .. Len(s) + Len(t) :
              (s \o t)[i] = IF i <= Len(s) THEN s[i] ELSE t[i - Len(s)]
<1> DEFINE R == {s[i] : i \in DOMAIN s} \cup {t[i] : i \in DOMAIN t}
<1>1. s \in Seq(R) /\ t \in Seq(R)
  BY SeqMonotonic DEF Sequential
<1> HIDE DEF R
<1>2. QED
  BY <1>1, ConcatProperties, SeqIsSequential

\* A sequence written down.
LEMMA Written ==
  ASSUME NEW n \in Nat, NEW s, DOMAIN s = 1 .. n, s = [i \in 1 .. n |-> s[i]]
  PROVE  Sequential(s) /\ Len(s) = n
<1> DEFINE R == {s[i] : i \in DOMAIN s}
<1>1. \A i \in 1 .. n : s[i] \in R
  OBVIOUS
<1> HIDE DEF R
<1>2. s \in [1 .. n -> R]
  BY <1>1
<1>3. s \in Seq(R)
  BY <1>2
<1>4. Len(s) \in Nat /\ DOMAIN s = 1 .. Len(s)
  BY <1>3, LenProperties
<1>5. Len(s) = n
  BY <1>4
<1>6. QED
  BY <1>3, <1>5, SeqIsSequential
-----------------------------------------------------------------------------
(* The chain.                                                              *)

LEMMA NeutralFollows ==
  ASSUME NEW g, NEW t, NEW m, t.nick # NoNick, m.type \in Neutral
  PROVE  Follows(g, t, m, t)
  BY DEF Follows, NickAfter, ChansAfter, Types, Neutral

LEMMA ToldFacts ==
  ASSUME NEW msgs, Sequential(msgs), NEW state
  PROVE  /\ Sequential(Told(msgs, state)) /\ Len(Told(msgs, state)) = Len(msgs)
         /\ \A i \in 1 .. Len(msgs) : /\ Told(msgs, state)[i].msg = msgs[i]
                                      /\ Told(msgs, state)[i].after = state
<1>1. Len(msgs) \in Nat /\ DOMAIN msgs = 1 .. Len(msgs)
  BY SequentialFacts
<1>2. Told(msgs, state) = [i \in 1 .. Len(msgs) |-> [msg |-> msgs[i], after |-> state]]
  BY <1>1 DEF Told
<1>3. /\ DOMAIN Told(msgs, state) = 1 .. Len(msgs)
      /\ Told(msgs, state) = [i \in 1 .. Len(msgs) |-> Told(msgs, state)[i]]
  BY <1>2
<1>4. QED
  BY <1>1, <1>2, <1>3, Written

\* The queue had n messages and got the k of msgs, sent with state.
Grown(n, k, state, msgs) ==
  /\ n \in Nat /\ k \in Nat /\ k >= 1 /\ seen' = seen /\ srv' = state
  /\ DOMAIN queue = 1 .. n /\ DOMAIN queue' = 1 .. n + k
  /\ Sequential(queue') /\ Len(queue') = n + k
  /\ \A i \in 1 .. n : queue'[i] = queue[i] /\ Before(i)' = Before(i)
  /\ \A i \in 1 .. k : /\ queue'[n + i].msg = msgs[i] /\ queue'[n + i].after = state
                       /\ Before(n + i)' = IF i = 1 THEN srv ELSE state
  /\ (n = 0) <=> (queue = <<>>)

\* What is sent enters the queue at its end.
LEMMA QueueGrows ==
  ASSUME Chain, NEW state, NEW msgs, Sends(state, msgs), Sequential(msgs), msgs # <<>>,
         NEW n, n = Len(queue), NEW k, k = Len(msgs)
  PROVE  Grown(n, k, state, msgs)
<1> DEFINE told == Told(msgs, state)
<1>1. /\ Sequential(told) /\ Len(told) = k /\ k \in Nat /\ k >= 1
      /\ \A i \in 1 .. k : told[i].msg = msgs[i] /\ told[i].after = state
  BY ToldFacts, SequentialFacts
<1>2. Sequential(queue) /\ n \in Nat /\ DOMAIN queue = 1 .. n
  BY SequentialFacts DEF Chain
<1>3. queue' = queue \o told /\ seen' = seen /\ srv' = state
  BY DEF Sends
<1> HIDE DEF told
<1>4. /\ Sequential(queue') /\ Len(queue') = n + k
      /\ \A i \in 1 .. n + k : queue'[i] = IF i <= n THEN queue[i] ELSE told[i - n]
  <2>1. /\ Sequential(queue \o told) /\ Len(queue \o told) = Len(queue) + Len(told)
        /\ \A i \in 1 .. Len(queue) + Len(told) :
             (queue \o told)[i] = IF i <= Len(queue) THEN queue[i] ELSE told[i - Len(queue)]
    BY <1>1, <1>2, SequentialConcat
  <2>2. QED
    BY <2>1, <1>1, <1>3
<1>5. DOMAIN queue' = 1 .. n + k
  BY <1>4, SequentialFacts
<1>6. n > 0 => queue # <<>> /\ queue[n].after = srv
  <2>1. ASSUME n > 0, queue = <<>> PROVE FALSE
    BY <2>1, EmptySeq
  <2>2. QED
    BY <2>1 DEF Chain, Final
<1>7. n = 0 => queue = <<>> /\ seen = srv
  <2>1. ASSUME n = 0, queue # <<>> PROVE FALSE
    BY <2>1, SequentialFacts, <1>2
  <2>2. QED
    BY <2>1 DEF Chain, Final
<1>8. ASSUME NEW i \in 1 .. n PROVE queue'[i] = queue[i] /\ Before(i)' = Before(i)
  BY <1>1, <1>2, <1>3, <1>4 DEF Before
<1>9. ASSUME NEW i \in 1 .. k
      PROVE  /\ queue'[n + i].msg = msgs[i] /\ queue'[n + i].after = state
             /\ Before(n + i)' = IF i = 1 THEN srv ELSE state
  <2>1. queue'[n + i] = told[i]
    BY <1>1, <1>2, <1>4
  <2>2. CASE i = 1
    <3>1. CASE n = 0
      BY <3>1, <2>1, <2>2, <1>1, <1>3, <1>7 DEF Before
    <3>2. CASE n > 0
      <4>1. queue'[n] = queue[n]
        BY <3>2, <1>1, <1>2, <1>4
      <4>2. QED
        BY <3>2, <4>1, <2>1, <2>2, <1>1, <1>2, <1>6 DEF Before
    <3>3. QED
      BY <3>1, <3>2, <1>2
  <2>3. CASE i # 1
    <3>1. queue'[n + i - 1] = told[i - 1] /\ i - 1 \in 1 .. k
      BY <2>3, <1>1, <1>2, <1>4
    <3>2. QED
      BY <3>1, <2>1, <2>3, <1>1, <1>2 DEF Before
  <2>4. QED
    BY <2>2, <2>3
<1>10. QED
  BY <1>1, <1>2, <1>3, <1>4, <1>5, <1>6, <1>7, <1>8, <1>9 DEF Grown

\* What the server sends continues the chain, when the first message tells of
\* its new state and the others add nothing to nick and channels.
LEMMA ChainGrows ==
  ASSUME Chain, NEW state, NEW msgs, Sends(state, msgs),
         Sequential(msgs), msgs # <<>>,
         \A i \in 2 .. Len(msgs) : msgs[i].type \in Neutral,
         Follows(granted', srv, msgs[1], state),
         granted' = granted \/ queue = <<>>
  PROVE  Chain'
<1>1. PICK n, k : n = Len(queue) /\ k = Len(msgs)
  OBVIOUS
<1>0. Grown(n, k, state, msgs)
  BY <1>1, QueueGrows
<1>2. /\ n \in Nat /\ k \in Nat /\ k >= 1 /\ seen' = seen /\ srv' = state
      /\ DOMAIN queue = 1 .. n /\ DOMAIN queue' = 1 .. n + k
      /\ Sequential(queue') /\ Len(queue') = n + k
      /\ \A i \in 1 .. n : queue'[i] = queue[i] /\ Before(i)' = Before(i)
      /\ \A i \in 1 .. k : /\ queue'[n + i].msg = msgs[i] /\ queue'[n + i].after = state
                           /\ Before(n + i)' = IF i = 1 THEN srv ELSE state
      /\ (n = 0) <=> (queue = <<>>)
  BY <1>0 DEF Grown
<1>3. ASSUME NEW i \in 1 .. n
      PROVE  Follows(granted', Before(i)', queue'[i].msg, queue'[i].after)
  <2>1. Follows(granted, Before(i), queue[i].msg, queue[i].after)
    BY <1>2 DEF Chain
  <2>2. granted' = granted
    BY <1>2
  <2>3. QED
    BY <1>2, <2>1, <2>2
<1>4. ASSUME NEW i \in 1 .. k
      PROVE  Follows(granted', Before(n + i)', queue'[n + i].msg, queue'[n + i].after)
  <2>1. /\ queue'[n + i].msg = msgs[i] /\ queue'[n + i].after = state
        /\ Before(n + i)' = IF i = 1 THEN srv ELSE state
    BY <1>2
  <2>2. CASE i = 1
    BY <2>1, <2>2
  <2>3. CASE i # 1
    <3>1. msgs[i].type \in Neutral /\ state.nick # NoNick
      BY <1>1, <1>2, <2>3 DEF Follows, NickAfter
    <3>2. QED
      BY <2>1, <2>3, <3>1, NeutralFollows
  <2>4. QED
    BY <2>2, <2>3
<1>5. \A i \in DOMAIN queue' : Follows(granted', Before(i)', queue'[i].msg, queue'[i].after)
  <2>1. SUFFICES ASSUME NEW i \in 1 .. n + k
                 PROVE  Follows(granted', Before(i)', queue'[i].msg, queue'[i].after)
    BY <1>2
  <2>2. CASE i \in 1 .. n
    BY <1>3, <2>2
  <2>3. CASE ~(i \in 1 .. n)
    <3>1. PICK j \in 1 .. k : i = n + j
      <4>1. i - n \in 1 .. k /\ i = n + (i - n)
        BY <1>2, <2>3
      <4>2. QED
        BY <4>1
    <3>2. QED
      BY <1>4, <3>1
  <2>4. QED
    BY <2>2, <2>3
<1>6. Final' = srv'
  <2>1. queue' # <<>>
    BY <1>2, EmptySeq
  <2>2. queue'[Len(queue')].after = state
    <3>1. k \in 1 .. k
      BY <1>2
    <3>2. queue'[n + k].after = state
      BY <3>1, <1>2
    <3>3. QED
      BY <3>2, <1>2
  <2>3. QED
    BY <2>1, <2>2, <1>2 DEF Final
<1>7. QED
  BY <1>2, <1>5, <1>6 DEF Chain

\* The queue had n messages and lost the first.
Shrunk(n) ==
  /\ n \in Nat /\ n >= 1 /\ DOMAIN queue = 1 .. n /\ DOMAIN queue' = 1 .. n - 1
  /\ Sequential(queue') /\ Len(queue') = n - 1
  /\ Event = queue[1].msg /\ seen' = queue[1].after /\ Before(1) = seen
  /\ srv' = srv /\ granted' = granted
  /\ \A i \in 1 .. n - 1 : queue'[i] = queue[i + 1] /\ Before(i)' = Before(i + 1)

\* A message handled leaves the queue at its front.
LEMMA QueueShrinks ==
  ASSUME Chain, queue # <<>>, Handled, NEW n, n = Len(queue)
  PROVE  Shrunk(n)
<1>1. /\ n \in Nat /\ DOMAIN queue = 1 .. n /\ n >= 1
      /\ Head(queue) = queue[1] /\ Sequential(queue') /\ Len(queue') = n - 1
      /\ \A i \in 1 .. n - 1 : queue'[i] = queue[i + 1]
  BY SequentialFacts DEF Chain, Handled
<1>2. DOMAIN queue' = 1 .. n - 1
  BY <1>1, SequentialFacts
<1>3. seen' = queue[1].after /\ srv' = srv /\ granted' = granted /\ Event = queue[1].msg
  BY <1>1 DEF Handled, server, Event
<1>4. ASSUME NEW i \in 1 .. n - 1 PROVE Before(i)' = Before(i + 1)
  <2>1. CASE i = 1
    BY <2>1, <1>3 DEF Before
  <2>2. CASE i # 1
    BY <2>2, <1>1, <1>2 DEF Before
  <2>3. QED
    BY <2>1, <2>2
<1>5. QED
  BY <1>1, <1>2, <1>3, <1>4 DEF Shrunk, Before

\* Handling a message shortens the chain at its front.
LEMMA ChainShrinks ==
  ASSUME Chain, queue # <<>>, Handled
  PROVE  Chain' /\ Follows(granted, seen, Event, seen')
<1>1. PICK n : n = Len(queue)
  OBVIOUS
<1>2. /\ n \in Nat /\ n >= 1 /\ DOMAIN queue = 1 .. n /\ DOMAIN queue' = 1 .. n - 1
      /\ Sequential(queue') /\ Len(queue') = n - 1
      /\ Event = queue[1].msg /\ seen' = queue[1].after /\ Before(1) = seen
      /\ srv' = srv /\ granted' = granted
      /\ \A i \in 1 .. n - 1 : queue'[i] = queue[i + 1] /\ Before(i)' = Before(i + 1)
  BY <1>1, QueueShrinks DEF Shrunk
<1>3. Follows(granted, seen, Event, seen')
  BY <1>2 DEF Chain
<1>4. ASSUME NEW i \in 1 .. n - 1
      PROVE  Follows(granted', Before(i)', queue'[i].msg, queue'[i].after)
  <2>1. i + 1 \in DOMAIN queue /\ queue'[i] = queue[i + 1] /\ Before(i)' = Before(i + 1)
    BY <1>2
  <2>2. Follows(granted, Before(i + 1), queue[i + 1].msg, queue[i + 1].after)
    BY <2>1 DEF Chain
  <2>3. QED
    BY <1>2, <2>1, <2>2
<1>5. Final' = srv'
  <2>1. CASE n = 1
    <3>1. queue' = <<>>
      BY <2>1, <1>2, SequentialFacts
    <3>2. QED
      BY <3>1, <2>1, <1>1, <1>2 DEF Chain, Final
  <2>2. CASE n > 1
    <3>1. queue' # <<>>
      BY <2>2, <1>2, EmptySeq
    <3>2. queue'[n - 1] = queue[n] /\ queue[n].after = srv
      BY <2>2, <1>1, <1>2 DEF Chain, Final
    <3>3. QED
      BY <3>1, <3>2, <1>2 DEF Final
  <2>3. QED
    BY <2>1, <2>2, <1>2
<1>6. QED
  BY <1>2, <1>3, <1>4, <1>5 DEF Chain
-----------------------------------------------------------------------------
(* The server's steps.                                                     *)

USE ClientAssumption DEF ClientAssumption

LEMMA OneMessage ==
  ASSUME NEW m
  PROVE  Sequential(<<m>>) /\ Len(<<m>>) = 1 /\ <<m>> # <<>> /\ <<m>>[1] = m
<1>1. DOMAIN <<m>> = 1 .. 1 /\ <<m>> = [i \in 1 .. 1 |-> <<m>>[i]] /\ <<m>>[1] = m
  OBVIOUS
<1>2. QED
  BY <1>1, Written

LEMMA NamesFacts ==
  ASSUME NEW c, NEW users, NEW names \in NamesLines(c, users)
  PROVE  /\ Sequential(names) /\ names # <<>>
         /\ \A i \in 1 .. Len(names) : names[i].type \in Neutral
<1> DEFINE line(part) == [type |-> "names", chan |-> c,
                          list |-> [n \in part |-> Highest(users[n])]]
           end == [type |-> "names_end", chan |-> c]
<1>1. /\ \A part : line(part).type \in Neutral
      /\ end.type \in Neutral
  BY DEF Neutral
<1>2. \/ names = <<line(DOMAIN users), end>>
      \/ \E part \in SUBSET DOMAIN users : names = <<line(part), line(DOMAIN users \ part), end>>
  BY DEF NamesLines
<1> HIDE DEF line, end
<1>3. CASE names = <<line(DOMAIN users), end>>
  <2>1. DOMAIN names = 1 .. 2 /\ names = [i \in 1 .. 2 |-> names[i]]
    BY <1>3
  <2>2. Sequential(names) /\ Len(names) = 2
    BY <2>1, Written
  <2>3. QED
    BY <2>1, <2>2, <1>1, <1>3
<1>4. ASSUME NEW part \in SUBSET DOMAIN users,
             names = <<line(part), line(DOMAIN users \ part), end>>
      PROVE  /\ Sequential(names) /\ names # <<>>
             /\ \A i \in 1 .. Len(names) : names[i].type \in Neutral
  <2>1. DOMAIN names = 1 .. 3 /\ names = [i \in 1 .. 3 |-> names[i]]
    BY <1>4
  <2>2. Sequential(names) /\ Len(names) = 3
    BY <2>1, Written
  <2>3. QED
    BY <2>1, <2>2, <1>1, <1>4
<1>5. QED
  BY <1>2, <1>3, <1>4

LEMMA TopicFacts ==
  ASSUME NEW c, NEW topic
  PROVE  /\ Sequential(TopicLines(c, topic))
         /\ \A i \in 1 .. Len(TopicLines(c, topic)) : TopicLines(c, topic)[i].type \in Neutral
<1>1. PICK lines : lines = TopicLines(c, topic)
  OBVIOUS
<1>2. CASE topic.text = NoTopic
  <2>1. lines = <<>>
    BY <1>1, <1>2 DEF TopicLines
  <2>2. lines \in Seq({}) /\ Len(lines) = 0
    BY <2>1, EmptySeq
  <2>3. Sequential(lines)
    BY <2>2, SeqIsSequential
  <2>4. \A i \in 1 .. Len(lines) : FALSE
    BY <2>2
  <2>5. QED
    BY <1>1, <2>3, <2>4
<1>3. CASE topic.text # NoTopic
  <2>1. lines = <<[type |-> "rpl_topic", chan |-> c, text |-> topic.text],
                  [type |-> "rpl_topicinfo", chan |-> c, by |-> topic.by]>>
    BY <1>1, <1>3 DEF TopicLines
  <2>2. DOMAIN lines = 1 .. 2 /\ lines = [i \in 1 .. 2 |-> lines[i]]
    BY <2>1
  <2>3. Sequential(lines) /\ Len(lines) = 2
    BY <2>2, Written
  <2>4. QED
    BY <1>1, <2>1, <2>3 DEF Neutral
<1>4. QED
  BY <1>2, <1>3

\* A step of the server that says first what it did, and nothing of nick and
\* channels after that.
LEMMA ActPreserves ==
  ASSUME IInv, NEW state, NEW msgs, Sends(state, msgs),
         Sequential(msgs), msgs # <<>>,
         \A i \in 2 .. Len(msgs) : msgs[i].type \in Neutral,
         link # "new", link' # "new", granted' = granted,
         DOMAIN state = Fields, state.nick \in Nicks,
         Follows(granted, srv, msgs[1], state)
  PROVE  IInv'
<1>1. Chain'
  BY ChainGrows DEF IInv
<1>2. ServerOK'
  <2>1. srv' = state /\ connNick' = ReaderNick(msgs[1])
    BY SequentialFacts DEF Sends
  <2>2. srv.nick # NoNick /\ srv.nick = connNick
    BY DEF IInv, ServerOK
  <2>3. msgs[1].type # "registered"
    BY <2>2 DEF Follows, NickAfter
  <2>4. connNick' = state.nick
    <3>1. CASE msgs[1].type = "nick"
      BY <3>1, <2>1, <2>2, <2>3 DEF Follows, NickAfter, ReaderNick
    <3>2. CASE msgs[1].type # "nick"
      BY <3>2, <2>1, <2>2, <2>3 DEF Follows, NickAfter, ReaderNick
    <3>3. QED
      BY <3>1, <3>2
  <2>5. QED
    BY <2>1, <2>4 DEF ServerOK
<1>3. Tracks'
  BY DEF IInv, Tracks, Sends, client, Misnamed, Joined
<1>4. QED
  BY <1>1, <1>2, <1>3 DEF IInv
\* The same with one message only.
LEMMA OneActPreserves ==
  ASSUME IInv, NEW state, NEW m, Sends(state, <<m>>),
         link # "new", link' # "new", granted' = granted,
         DOMAIN state = Fields, state.nick \in Nicks,
         Follows(granted, srv, m, state)
  PROVE  IInv'
<1>1. /\ Sequential(<<m>>) /\ <<m>> # <<>> /\ <<m>>[1] = m
      /\ \A i \in 2 .. Len(<<m>>) : FALSE
  BY OneMessage
<1>2. PICK msgs : msgs = <<m>>
  OBVIOUS
<1>3. QED
  BY <1>1, <1>2, ActPreserves

LEMMA MayFacts ==
  ASSUME IInv, May
  PROVE  /\ link # "new" /\ link' # "new" /\ granted' = granted
         /\ DOMAIN srv = Fields /\ srv.nick \in Nicks /\ srv.nick # NoNick
  BY DEF IInv, ServerOK, May

\* What changes neither nick nor channels.
LEMMA NeutralAct ==
  ASSUME IInv, May, NEW state, NEW m, Sends(state, <<m>>), m.type \in Neutral,
         DOMAIN state = Fields, state.nick = srv.nick, DOMAIN state.chans = DOMAIN srv.chans
  PROVE  IInv'
<1>1. Follows(granted, srv, m, state)
  BY MayFacts DEF Follows, NickAfter, ChansAfter, Types, Neutral
<1>2. QED
  BY <1>1, MayFacts, OneActPreserves

\* The server's state with another value for channels, or for one of them.
LEMMA ChansChanged ==
  ASSUME DOMAIN srv = Fields, NEW v
  PROVE  /\ DOMAIN [srv EXCEPT !.chans = v] = Fields
         /\ [srv EXCEPT !.chans = v].nick = srv.nick
         /\ [srv EXCEPT !.chans = v].chans = v
  BY DEF Fields

LEMMA OneChanChanged ==
  ASSUME DOMAIN srv = Fields, NEW c, NEW v, NEW state, state = [srv EXCEPT !.chans[c] = v]
  PROVE  DOMAIN state = Fields /\ state.nick = srv.nick /\ DOMAIN state.chans = DOMAIN srv.chans
<1>1. state = [srv EXCEPT !.chans = [srv.chans EXCEPT ![c] = v]]
  OBVIOUS
<1>2. DOMAIN [srv.chans EXCEPT ![c] = v] = DOMAIN srv.chans
  OBVIOUS
<1>3. QED
  BY <1>1, <1>2, ChansChanged

LEMMA ChangeModesPreserves ==
  ASSUME IInv, NEW c \in Channels, ChangeModes(c)
  PROVE  IInv'
<1>1. PICK changes \in ModeChanges(UsersOf(c)) :
        Sends([srv EXCEPT !.chans[c] = AllMeant(srv.chans[c], changes)], <<ModeLine(c, changes)>>)
  BY DEF ChangeModes
<1>2. May /\ c \in DOMAIN srv.chans
  BY DEF ChangeModes, Mine
<1>3. PICK w : w = AllMeant(srv.chans[c], changes)
  OBVIOUS
<1>4. PICK state : state = [srv EXCEPT !.chans[c] = w]
  OBVIOUS
<1>5. PICK m : m = ModeLine(c, changes)
  OBVIOUS
<1>6. Sends(state, <<m>>)
  BY <1>1, <1>3, <1>4, <1>5
<1>7. m.type \in Neutral
  BY <1>5 DEF Neutral, ModeLine
<1>8. DOMAIN state = Fields /\ state.nick = srv.nick /\ DOMAIN state.chans = DOMAIN srv.chans
  BY <1>2, <1>4, MayFacts, OneChanChanged
<1>9. QED
  BY <1>2, <1>6, <1>7, <1>8, NeutralAct

LEMMA WelcomePreserves ==
  ASSUME IInv, Welcome
  PROVE  IInv'
<1>1. PICK n \in Nicks :
        /\ granted' = n
        /\ Sends([srv EXCEPT !.nick = n],
                 <<[type |-> "registered", new |-> n], [type |-> "isupport", ranks |-> Letters]>>)
  BY DEF Welcome
<1>2. PICK state : state = [srv EXCEPT !.nick = n]
  OBVIOUS
<1>3. DOMAIN state = Fields /\ state.nick = n /\ state.chans = srv.chans
  BY <1>2 DEF IInv, ServerOK, Fields
<1>4. PICK first, second : /\ first = [type |-> "registered", new |-> n]
                           /\ second = [type |-> "isupport", ranks |-> Letters]
  OBVIOUS
<1>5. PICK msgs : msgs = <<first, second>>
  OBVIOUS
<1>6. DOMAIN msgs = 1 .. 2 /\ msgs = [i \in 1 .. 2 |-> msgs[i]]
  BY <1>5
<1>7. Sequential(msgs) /\ Len(msgs) = 2 /\ msgs # <<>> /\ msgs[1] = first /\ msgs[2] = second
  BY <1>5, <1>6, Written
<1>8. link = "new" /\ srv.nick = NoNick /\ granted = NoNick /\ DOMAIN srv.chans = {}
  BY DEF Welcome, IInv, ServerOK
<1>9. queue = <<>>
  <2>1. ASSUME queue # <<>> PROVE FALSE
    <3>1. Len(queue) \in DOMAIN queue /\ queue[Len(queue)].after = srv
      BY <2>1, SequentialFacts DEF IInv, Chain, Final
    <3>2. srv.nick # NoNick
      BY <3>1 DEF IInv, Chain, Follows, NickAfter
    <3>3. QED
      BY <3>2, <1>8
  <2>2. QED
    BY <2>1
<1>10. Follows(granted', srv, msgs[1], state)
  BY <1>1, <1>3, <1>4, <1>7, <1>8 DEF Follows, NickAfter, ChansAfter, Types, Neutral
<1>11. Sends(state, msgs)
  BY <1>1, <1>2, <1>4, <1>5
<1>12. \A i \in 2 .. Len(msgs) : msgs[i].type \in Neutral
  BY <1>4, <1>7 DEF Neutral
<1>13. Chain'
  BY <1>7, <1>9, <1>10, <1>11, <1>12, ChainGrows DEF IInv
<1>14. ServerOK'
  <2>1. srv' = state /\ connNick' = ReaderNick(first)
    BY <1>7, <1>11, SequentialFacts DEF Sends
  <2>2. connNick' = n
    BY <2>1, <1>4 DEF ReaderNick
  <2>3. QED
    BY <2>1, <2>2, <1>3 DEF ServerOK, Welcome
<1>15. Tracks'
  BY <1>8, <1>11 DEF IInv, Tracks, Sends, client, Misnamed, Joined
<1>16. QED
  BY <1>13, <1>14, <1>15 DEF IInv

LEMMA LostPreserves ==
  ASSUME IInv, Lost
  PROVE  IInv'
<1>1. PICK state : state = [srv EXCEPT !.modes = {}, !.chans = Nothing]
  OBVIOUS
<1>2. DOMAIN srv = Fields /\ srv.nick \in Nicks /\ srv.nick # NoNick
  BY DEF IInv, ServerOK, Lost
<1>3. DOMAIN state = Fields /\ state.nick = srv.nick /\ state.chans = Nothing
  BY <1>1, <1>2 DEF Fields
<1>4. PICK m : m = [type |-> "lost"]
  OBVIOUS
<1>5. Sends(state, <<m>>)
  BY <1>1, <1>4 DEF Lost
<1>6. Follows(granted, srv, m, state)
  BY <1>2, <1>3, <1>4 DEF Follows, NickAfter, ChansAfter, Types, Neutral, Nothing
<1>7. QED
  BY <1>2, <1>3, <1>5, <1>6, OneActPreserves DEF Lost

LEMMA OwnJoinPreserves ==
  ASSUME IInv, NEW c \in Channels, OwnJoin(c)
  PROVE  IInv'
<1>1. PICK found, names, topic, all :
        /\ names \in NamesLines(c, all)
        /\ Sends([srv EXCEPT !.chans = With(@, c, found)],
                 <<[type |-> "join", nick |-> srv.nick, chan |-> c]>>
                   \o TopicLines(c, topic) \o names)
  BY DEF OwnJoin
<1>2. May
  BY DEF OwnJoin
<1>3. PICK chs : chs = With(srv.chans, c, found)
  OBVIOUS
<1>4. DOMAIN chs = DOMAIN srv.chans \cup {c}
  BY <1>3 DEF With
<1>5. PICK state : state = [srv EXCEPT !.chans = chs]
  OBVIOUS
<1>6. DOMAIN state = Fields /\ state.nick = srv.nick /\ state.chans = chs
  BY <1>2, <1>5, MayFacts, ChansChanged
<1>7. PICK m : m = [type |-> "join", nick |-> srv.nick, chan |-> c]
  OBVIOUS
<1>8. PICK topics : topics = TopicLines(c, topic)
  OBVIOUS
<1>9. /\ Sequential(<<m>>) /\ Len(<<m>>) = 1 /\ <<m>>[1] = m
      /\ Sequential(topics) /\ \A i \in 1 .. Len(topics) : topics[i].type \in Neutral
      /\ Sequential(names) /\ \A i \in 1 .. Len(names) : names[i].type \in Neutral
      /\ Len(topics) \in Nat /\ Len(names) \in Nat
  BY <1>1, <1>8, OneMessage, TopicFacts, NamesFacts, SequentialFacts
<1>10. PICK head : head = <<m>> \o topics
  OBVIOUS
<1>11. /\ Sequential(head) /\ Len(head) = 1 + Len(topics) /\ head[1] = m
       /\ \A i \in 2 .. Len(head) : head[i].type \in Neutral
  <2>1. /\ Sequential(<<m>> \o topics) /\ Len(<<m>> \o topics) = Len(<<m>>) + Len(topics)
        /\ \A i \in 1 .. Len(<<m>>) + Len(topics) :
             (<<m>> \o topics)[i] = IF i <= Len(<<m>>) THEN <<m>>[i] ELSE topics[i - Len(<<m>>)]
    BY <1>9, SequentialConcat
  <2>2. QED
    BY <2>1, <1>9, <1>10
<1>12. PICK msgs : msgs = head \o names
  OBVIOUS
<1>13. /\ Sequential(msgs) /\ Len(msgs) = Len(head) + Len(names) /\ msgs[1] = m
       /\ \A i \in 2 .. Len(msgs) : msgs[i].type \in Neutral
  <2>1. /\ Sequential(head \o names) /\ Len(head \o names) = Len(head) + Len(names)
        /\ \A i \in 1 .. Len(head) + Len(names) :
             (head \o names)[i] = IF i <= Len(head) THEN head[i] ELSE names[i - Len(head)]
    BY <1>9, <1>11, SequentialConcat
  <2>2. QED
    BY <2>1, <1>9, <1>11, <1>12
<1>14. msgs # <<>>
  BY <1>9, <1>11, <1>13, EmptySeq
<1>15. Sends(state, msgs)
  BY <1>1, <1>3, <1>5, <1>7, <1>8, <1>10, <1>12
<1>16. Follows(granted, srv, m, state)
  BY <1>2, <1>4, <1>6, <1>7, MayFacts DEF Follows, NickAfter, ChansAfter, Types, Neutral
<1>17. QED
  BY <1>2, <1>6, <1>13, <1>14, <1>15, <1>16, MayFacts, ActPreserves

LEMMA OtherJoinPreserves ==
  ASSUME IInv, NEW c \in Channels, NEW n \in Nicks, OtherJoin(n, c)
  PROVE  IInv'
<1>1. PICK v : v = [srv.chans[c] EXCEPT !.users = With(srv.chans[c].users, n, {})]
  OBVIOUS
<1>2. PICK state : state = [srv EXCEPT !.chans[c] = v]
  OBVIOUS
<1>3. PICK m : m = [type |-> "join", nick |-> n, chan |-> c]
  OBVIOUS
<1>4. May /\ n # srv.nick /\ c \in DOMAIN srv.chans
  BY DEF OtherJoin, Others, Mine
<1>5. Sends(state, <<m>>)
  BY <1>1, <1>2, <1>3, <1>4 DEF OtherJoin
<1>6. DOMAIN state = Fields /\ state.nick = srv.nick /\ DOMAIN state.chans = DOMAIN srv.chans
  BY <1>2, <1>4, MayFacts, OneChanChanged
<1>7. Follows(granted, srv, m, state)
  BY <1>3, <1>4, <1>6, MayFacts DEF Follows, NickAfter, ChansAfter, Types, Neutral
<1>8. QED
  BY <1>4, <1>5, <1>6, <1>7, MayFacts, OneActPreserves

LEMMA LeavePreserves ==
  ASSUME IInv, NEW c \in Channels, NEW n \in Nicks, NEW type \in {"part", "kick"},
         Leave(type, n, c)
  PROVE  IInv'
<1>1. PICK state : state = Left(n, c)
  OBVIOUS
<1>2. PICK m : m = [type |-> type, nick |-> n, chan |-> c]
  OBVIOUS
<1>3. May /\ c \in DOMAIN srv.chans
  BY DEF Leave, Mine
<1>4. Sends(state, <<m>>)
  BY <1>1, <1>2 DEF Leave
<1>5. /\ DOMAIN state = Fields /\ state.nick = srv.nick
      /\ DOMAIN state.chans = IF n = srv.nick THEN DOMAIN srv.chans \ {c} ELSE DOMAIN srv.chans
  <2>1. CASE n = srv.nick
    <3>1. PICK chs : chs = Without(srv.chans, c)
      OBVIOUS
    <3>2. state = [srv EXCEPT !.chans = chs] /\ DOMAIN chs = DOMAIN srv.chans \ {c}
      BY <2>1, <1>1, <3>1 DEF Left, Without
    <3>3. QED
      BY <2>1, <1>3, <3>2, MayFacts, ChansChanged
  <2>2. CASE n # srv.nick
    <3>1. PICK v : v = [srv.chans[c] EXCEPT !.users = Without(srv.chans[c].users, n)]
      OBVIOUS
    <3>2. state = [srv EXCEPT !.chans[c] = v]
      BY <2>2, <1>1, <3>1 DEF Left
    <3>3. QED
      BY <2>2, <1>3, <3>2, MayFacts, OneChanChanged
  <2>3. QED
    BY <2>1, <2>2
<1>6. Follows(granted, srv, m, state)
  BY <1>2, <1>3, <1>5, MayFacts DEF Follows, NickAfter, ChansAfter, Types, Neutral
<1>7. QED
  BY <1>3, <1>4, <1>5, <1>6, MayFacts, OneActPreserves

LEMMA QuitPreserves ==
  ASSUME IInv, NEW n \in Nicks, Quit(n)
  PROVE  IInv'
<1>1. PICK chs : chs = [c \in Mine |-> [srv.chans[c] EXCEPT !.users = Without(@, n)]]
  OBVIOUS
<1>2. PICK state : state = [srv EXCEPT !.chans = chs]
  OBVIOUS
<1>3. PICK m : m = [type |-> "quit", nick |-> n]
  OBVIOUS
<1>4. May /\ Sends(state, <<m>>)
  BY <1>1, <1>2, <1>3 DEF Quit
<1>5. DOMAIN chs = DOMAIN srv.chans
  BY <1>1 DEF Mine
<1>6. DOMAIN state = Fields /\ state.nick = srv.nick /\ state.chans = chs
  BY <1>2, <1>4, MayFacts, ChansChanged
<1>7. m.type \in Neutral
  BY <1>3 DEF Neutral
<1>8. QED
  BY <1>4, <1>5, <1>6, <1>7, NeutralAct

LEMMA ChangeNickPreserves ==
  ASSUME IInv, NEW old \in Nicks, NEW new \in Nicks, ChangeNick(old, new)
  PROVE  IInv'
<1>1. PICK chs : chs = [c \in Mine |-> [srv.chans[c] EXCEPT !.users = Renamed(@, old, new)]]
  OBVIOUS
<1>2. PICK now : now = IF srv.nick = old THEN new ELSE srv.nick
  OBVIOUS
<1>3. PICK state : state = [srv EXCEPT !.nick = now, !.chans = chs]
  OBVIOUS
<1>4. PICK m : m = [type |-> "nick", old |-> old, new |-> new]
  OBVIOUS
<1>5. May
  BY DEF ChangeNick
<1>6. Sends(state, <<m>>)
  BY <1>1, <1>2, <1>3, <1>4 DEF ChangeNick
<1>7. DOMAIN chs = DOMAIN srv.chans
  BY <1>1 DEF Mine
<1>8. DOMAIN state = Fields /\ state.nick = now /\ state.chans = chs
  BY <1>3, <1>5, MayFacts DEF Fields
<1>9. now \in Nicks /\ now # NoNick
  BY <1>2, <1>5, MayFacts
<1>10. Follows(granted, srv, m, state)
  BY <1>2, <1>4, <1>5, <1>7, <1>8, <1>9, MayFacts
     DEF Follows, NickAfter, ChansAfter, Types, Neutral
<1>11. QED
  BY <1>5, <1>6, <1>8, <1>9, <1>10, MayFacts, OneActPreserves

LEMMA ChangeOwnModePreserves ==
  ASSUME IInv, NEW on \in BOOLEAN, ChangeOwnMode(on)
  PROVE  IInv'
<1>1. PICK state : state = [srv EXCEPT !.modes = Toggled(@, on, "i")]
  OBVIOUS
<1>2. PICK m : m = OwnModeLine(srv.nick, on)
  OBVIOUS
<1>3. May /\ Sends(state, <<m>>)
  BY <1>1, <1>2 DEF ChangeOwnMode
<1>4. DOMAIN state = Fields /\ state.nick = srv.nick /\ state.chans = srv.chans
  BY <1>1, <1>3, MayFacts DEF Fields
<1>5. m.type \in Neutral
  BY <1>2 DEF Neutral, OwnModeLine
<1>6. QED
  BY <1>3, <1>4, <1>5, NeutralAct

LEMMA ChangeTopicPreserves ==
  ASSUME IInv, NEW c \in Channels, NEW n \in Nicks, ChangeTopic(c, n)
  PROVE  IInv'
<1>1. PICK text \in Topics \cup {NoTopic} :
        Sends([srv EXCEPT !.chans[c].topic = [text |-> text, by |-> n]],
              <<[type |-> "topic", chan |-> c, text |-> text, by |-> n]>>)
  BY DEF ChangeTopic
<1>2. May /\ c \in DOMAIN srv.chans
  BY DEF ChangeTopic, Mine
<1>3. PICK v : v = [srv.chans[c] EXCEPT !.topic = [text |-> text, by |-> n]]
  OBVIOUS
<1>4. PICK state : state = [srv EXCEPT !.chans[c] = v]
  OBVIOUS
<1>5. PICK m : m = [type |-> "topic", chan |-> c, text |-> text, by |-> n]
  OBVIOUS
<1>6. Sends(state, <<m>>)
  BY <1>1, <1>2, <1>3, <1>4, <1>5
<1>7. DOMAIN state = Fields /\ state.nick = srv.nick /\ DOMAIN state.chans = DOMAIN srv.chans
  BY <1>2, <1>4, MayFacts, OneChanChanged
<1>8. m.type \in Neutral
  BY <1>5 DEF Neutral
<1>9. QED
  BY <1>2, <1>6, <1>7, <1>8, NeutralAct

LEMMA NamesPreserves ==
  ASSUME IInv, NEW c \in Channels, Names(c)
  PROVE  IInv'
<1>1. PICK users, names : names \in NamesLines(c, users) /\ Sends(srv, names)
  BY DEF Names
<1>2. May
  BY DEF Names
<1>3. /\ Sequential(names) /\ names # <<>> /\ Len(names) \in Nat /\ Len(names) >= 1
      /\ \A i \in 1 .. Len(names) : names[i].type \in Neutral
  BY <1>1, NamesFacts, SequentialFacts
<1>4. Follows(granted, srv, names[1], srv)
  BY <1>2, <1>3, MayFacts, NeutralFollows
<1>5. QED
  BY <1>1, <1>2, <1>3, <1>4, MayFacts, ActPreserves

LEMMA ActKeepsIInv ==
  ASSUME IInv, Act
  PROVE  IInv'
<1>1. CASE Welcome
  BY <1>1, WelcomePreserves
<1>2. CASE Lost
  BY <1>2, LostPreserves
<1>3. ASSUME NEW c \in Channels, OwnJoin(c) \/ ChangeModes(c) \/ Names(c)
      PROVE  IInv'
  BY <1>3, OwnJoinPreserves, ChangeModesPreserves, NamesPreserves
<1>4. ASSUME NEW c \in Channels, NEW n \in Nicks, OtherJoin(n, c) \/ ChangeTopic(c, n)
      PROVE  IInv'
  BY <1>4, OtherJoinPreserves, ChangeTopicPreserves
<1>5. ASSUME NEW c \in Channels, NEW n \in Nicks, NEW type \in {"part", "kick"},
             Leave(type, n, c)
      PROVE  IInv'
  BY <1>5, LeavePreserves
<1>6. ASSUME NEW n \in Nicks, Quit(n)
      PROVE  IInv'
  BY <1>6, QuitPreserves
<1>7. ASSUME NEW n \in Nicks, NEW new \in Nicks, ChangeNick(n, new)
      PROVE  IInv'
  BY <1>7, ChangeNickPreserves
<1>8. ASSUME NEW on \in BOOLEAN, ChangeOwnMode(on)
      PROVE  IInv'
  BY <1>8, ChangeOwnModePreserves
<1>9. QED
  BY <1>1, <1>2, <1>3, <1>4, <1>5, <1>6, <1>7, <1>8 DEF Act
-----------------------------------------------------------------------------
(* The Client's steps.                                                     *)

\* Of a handled message only what it does to nick and channels is left to show.
LEMMA HandledFacts ==
  ASSUME IInv, queue # <<>>, Handled
  PROVE  /\ ServerOK' /\ Chain' /\ granted' = granted /\ (Misnamed' <=> Misnamed)
         /\ Follows(granted, seen, Event, seen')
<1>1. Chain' /\ Follows(granted, seen, Event, seen')
  BY ChainShrinks DEF IInv
<1>2. ServerOK' /\ granted' = granted
  BY DEF IInv, ServerOK, Handled, server
<1>3. QED
  BY <1>1, <1>2 DEF Misnamed

\* The nick and the set of channels joined, as the properties need them.
LEMMA TracksLater ==
  ASSUME IInv, queue # <<>>, Handled,
         \A c \in DOMAIN chans' : "joined" \in DOMAIN chans'[c],
         ~Misnamed => /\ Joined' = DOMAIN seen'.chans
                      /\ nick' = seen'.nick
  PROVE  IInv'
<1>1. seen'.nick # NoNick
  BY HandledFacts DEF Follows, NickAfter
<1>2. QED
  BY <1>1, HandledFacts DEF IInv, Tracks

\* A table of the same channels, each with its joined kept.
LEMMA SameJoined ==
  ASSUME IInv, DOMAIN chans' = DOMAIN chans,
         \A c \in DOMAIN chans : /\ "joined" \in DOMAIN chans'[c]
                                 /\ chans'[c].joined = chans[c].joined
  PROVE  /\ \A c \in DOMAIN chans' : "joined" \in DOMAIN chans'[c]
         /\ Joined' = Joined
  BY DEF Joined

\* After a message that is neutral the nick and the table stay what they are.
LEMMA NeutralHandled ==
  ASSUME IInv, queue # <<>>, Handled, Event.type \in Neutral, nick' = nick,
         \A c \in DOMAIN chans' : "joined" \in DOMAIN chans'[c],
         Joined' = Joined
  PROVE  IInv'
<1>1. Follows(granted, seen, Event, seen')
  BY HandledFacts
<1>2. /\ seen.nick # NoNick /\ seen'.nick = seen.nick
      /\ DOMAIN seen'.chans = DOMAIN seen.chans
  BY <1>1 DEF Follows, NickAfter, ChansAfter, Neutral
<1>3. QED
  BY <1>2, TracksLater DEF IInv, Tracks

\* The record of a channel already known changes, and keeps joined.
LEMMA PutKnown ==
  ASSUME IInv, NEW c, c \in DOMAIN chans, NEW ch, Put(c, ch),
         "joined" \in DOMAIN ch, ch.joined = chans[c].joined
  PROVE  /\ \A d \in DOMAIN chans' : "joined" \in DOMAIN chans'[d]
         /\ Joined' = Joined
<1>1. DOMAIN chans' = DOMAIN chans
  BY DEF Put, With
<1>2. \A d \in DOMAIN chans : chans'[d] = IF d = c THEN ch ELSE chans[d]
  BY DEF Put, With
<1>3. QED
  BY <1>1, <1>2, SameJoined DEF IInv, Tracks

LEMMA HandleRegisteredKeeps ==
  ASSUME IInv, HandleRegistered
  PROVE  IInv'
<1>1. queue # <<>> /\ Event.type = "registered" /\ Handled /\ nick' = nick /\ chans' = chans
  BY DEF HandleRegistered, On, client
<1>2. Follows(granted, seen, Event, seen')
  BY <1>1, HandledFacts
<1>3. /\ seen.nick = NoNick /\ seen'.nick = granted /\ granted # NoNick
      /\ DOMAIN seen'.chans = DOMAIN seen.chans
  BY <1>1, <1>2 DEF Follows, NickAfter, ChansAfter, Neutral
<1>4. Joined' = Joined
  BY <1>1 DEF Joined
<1>5. QED
  BY <1>1, <1>3, <1>4, TracksLater DEF IInv, Tracks, Misnamed

LEMMA HandleISupportKeeps ==
  ASSUME IInv, HandleISupport
  PROVE  IInv'
<1>1. /\ queue # <<>> /\ Event.type \in Neutral /\ Handled /\ nick' = nick
      /\ chans' = chans
  BY DEF HandleISupport, On, Neutral
<1>2. Joined' = Joined
  BY <1>1 DEF Joined
<1>3. QED
  BY <1>1, <1>2, NeutralHandled DEF IInv, Tracks

LEMMA HandleNickKeeps ==
  ASSUME IInv, HandleNick
  PROVE  IInv'
<1>1. /\ queue # <<>> /\ Event.type = "nick" /\ Handled
      /\ nick' = IF Event.old = nick THEN Event.new ELSE nick
      /\ chans' = [c \in DOMAIN chans |->
                     [chans[c] EXCEPT !.users = RenameUser(@, Event.old, Event.new)]]
  BY DEF HandleNick, On
<1>2. Follows(granted, seen, Event, seen')
  BY <1>1, HandledFacts
<1>3. /\ seen.nick # NoNick /\ DOMAIN seen'.chans = DOMAIN seen.chans
      /\ seen'.nick = IF seen.nick = Event.old THEN Event.new ELSE seen.nick
  BY <1>1, <1>2 DEF Follows, NickAfter, ChansAfter, Neutral
<1>4. /\ \A c \in DOMAIN chans' : "joined" \in DOMAIN chans'[c]
      /\ Joined' = Joined
  <2>1. DOMAIN chans' = DOMAIN chans
    BY <1>1
  <2>2. \A c \in DOMAIN chans : /\ "joined" \in DOMAIN chans'[c]
                                /\ chans'[c].joined = chans[c].joined
    BY <1>1 DEF IInv, Tracks
  <2>3. QED
    BY <2>1, <2>2, SameJoined
<1>5. QED
  BY <1>1, <1>3, <1>4, TracksLater DEF IInv, Tracks

LEMMA HandleModeKeeps ==
  ASSUME IInv, HandleMode
  PROVE  IInv'
<1>1. queue # <<>> /\ Event.type \in Neutral /\ Handled /\ nick' = nick
  BY DEF HandleMode, On, Neutral
<1>2. \/ /\ Event.target \in DOMAIN chans
         /\ Put(Event.target, WithModes(Event, chans[Event.target]))
      \/ chans' = chans
  BY DEF HandleMode, Known
<1>3. CASE /\ Event.target \in DOMAIN chans
           /\ Put(Event.target, WithModes(Event, chans[Event.target]))
  <2>1. PICK ch : ch = chans[Event.target]
    OBVIOUS
  <2>2. "joined" \in DOMAIN ch
    BY <1>3, <2>1 DEF IInv, Tracks
  <2>3. PICK m : m = Event
    OBVIOUS
  <2>4. PICK now : now = WithModes(m, ch)
    OBVIOUS
  <2>5. "joined" \in DOMAIN now /\ now.joined = ch.joined
    <3>1. PICK end : now = [ch EXCEPT !.modes = end.modes, !.users = end.users,
                                      !.mixed = end.mixed]
      BY <2>4 DEF WithModes
    <3>2. QED
      BY <3>1, <2>2
  <2>6. QED
    BY <1>1, <1>3, <2>1, <2>3, <2>4, <2>5, PutKnown, NeutralHandled
<1>4. CASE chans' = chans
  <2>1. Joined' = Joined
    BY <1>4 DEF Joined
  <2>2. QED
    BY <1>1, <1>4, <2>1, NeutralHandled DEF IInv, Tracks
<1>5. QED
  BY <1>2, <1>3, <1>4

LEMMA HandleJoinKeeps ==
  ASSUME IInv, HandleJoin
  PROVE  IInv'
<1>1. queue # <<>> /\ Event.type = "join" /\ Handled /\ nick' = nick
  BY DEF HandleJoin, On
<1>2. PICK c : c = Event.chan
  OBVIOUS
<1>3. Follows(granted, seen, Event, seen')
  BY <1>1, HandledFacts
<1>4. /\ seen.nick # NoNick /\ seen'.nick = seen.nick
      /\ DOMAIN seen'.chans = IF Event.nick = seen.nick THEN DOMAIN seen.chans \cup {c}
                              ELSE DOMAIN seen.chans
  BY <1>1, <1>2, <1>3 DEF Follows, NickAfter, ChansAfter
<1>5. CASE Event.nick = nick
  <2>1. PICK ch : ch = AddUser(NewChannel(TRUE), nick, {})
    OBVIOUS
  <2>2. "joined" \in DOMAIN ch /\ ch.joined = TRUE
    BY <2>1 DEF AddUser, NewChannel
  <2>3. Put(c, ch)
    BY <1>2, <1>5, <2>1 DEF HandleJoin
  <2>4. /\ DOMAIN chans' = DOMAIN chans \cup {c}
        /\ \A d \in DOMAIN chans' : chans'[d] = IF d = c THEN ch ELSE chans[d]
    BY <2>3 DEF Put, With
  <2>5. /\ \A d \in DOMAIN chans' : "joined" \in DOMAIN chans'[d]
        /\ Joined' = Joined \cup {c}
    BY <2>2, <2>4 DEF IInv, Tracks, Joined
  <2>6. QED
    BY <1>1, <1>4, <1>5, <2>5, TracksLater DEF IInv, Tracks
<1>6. CASE Event.nick # nick
  <2>1. /\ \A d \in DOMAIN chans' : "joined" \in DOMAIN chans'[d]
        /\ Joined' = Joined
    <3>1. CASE Known(c)
      <4>1. PICK ch : ch = AddUser(chans[c], Event.nick, {})
        OBVIOUS
      <4>2. Put(c, ch)
        BY <1>2, <1>6, <3>1, <4>1 DEF HandleJoin
      <4>3. "joined" \in DOMAIN chans[c]
        BY <3>1 DEF Known, IInv, Tracks
      <4>4. "joined" \in DOMAIN ch /\ ch.joined = chans[c].joined
        BY <4>1, <4>3 DEF AddUser
      <4>5. QED
        BY <3>1, <4>2, <4>4, PutKnown DEF Known
    <3>2. CASE ~Known(c)
      BY <1>2, <1>6, <3>2 DEF HandleJoin, Joined, IInv, Tracks
    <3>3. QED
      BY <3>1, <3>2
  <2>2. QED
    BY <1>1, <1>4, <1>6, <2>1, TracksLater DEF IInv, Tracks
<1>7. QED
  BY <1>5, <1>6

LEMMA HandleLeaveKeeps ==
  ASSUME IInv, NEW type \in {"part", "kick"}, HandleLeave(type)
  PROVE  IInv'
<1>1. queue # <<>> /\ Event.type \in {"part", "kick"} /\ Handled /\ nick' = nick
  BY DEF HandleLeave, On
<1>2. PICK c : c = Event.chan
  OBVIOUS
<1>3. Follows(granted, seen, Event, seen')
  BY <1>1, HandledFacts
<1>4. /\ seen.nick # NoNick /\ seen'.nick = seen.nick
      /\ DOMAIN seen'.chans = IF Event.nick = seen.nick THEN DOMAIN seen.chans \ {c}
                              ELSE DOMAIN seen.chans
  BY <1>1, <1>2, <1>3 DEF Follows, NickAfter, ChansAfter
<1>5. CASE Event.nick = nick
  <2>1. chans' = Without(chans, c)
    BY <1>2, <1>5 DEF HandleLeave
  <2>2. /\ DOMAIN chans' = DOMAIN chans \ {c}
        /\ \A d \in DOMAIN chans' : chans'[d] = chans[d]
    BY <2>1 DEF Without
  <2>3. /\ \A d \in DOMAIN chans' : "joined" \in DOMAIN chans'[d]
        /\ Joined' = Joined \ {c}
    BY <2>2 DEF IInv, Tracks, Joined
  <2>4. QED
    BY <1>1, <1>4, <1>5, <2>3, TracksLater DEF IInv, Tracks
<1>6. CASE Event.nick # nick
  <2>1. /\ \A d \in DOMAIN chans' : "joined" \in DOMAIN chans'[d]
        /\ Joined' = Joined
    <3>1. CASE Known(c)
      <4>1. PICK ch : ch = [chans[c] EXCEPT !.users = Without(chans[c].users, Event.nick)]
        OBVIOUS
      <4>2. Put(c, ch)
        BY <1>2, <1>6, <3>1, <4>1 DEF HandleLeave
      <4>3. "joined" \in DOMAIN chans[c]
        BY <3>1 DEF Known, IInv, Tracks
      <4>4. "joined" \in DOMAIN ch /\ ch.joined = chans[c].joined
        BY <4>1, <4>3
      <4>5. QED
        BY <3>1, <4>2, <4>4, PutKnown DEF Known
    <3>2. CASE ~Known(c)
      BY <1>2, <1>6, <3>2 DEF HandleLeave, Joined, IInv, Tracks
    <3>3. QED
      BY <3>1, <3>2
  <2>2. QED
    BY <1>1, <1>4, <1>6, <2>1, TracksLater DEF IInv, Tracks
<1>7. QED
  BY <1>5, <1>6

LEMMA HandleQuitKeeps ==
  ASSUME IInv, HandleQuit
  PROVE  IInv'
<1>1. /\ queue # <<>> /\ Event.type \in Neutral /\ Handled /\ nick' = nick
      /\ chans' = [c \in DOMAIN chans |->
                     [chans[c] EXCEPT !.users = Without(@, Event.nick)]]
  BY DEF HandleQuit, On, Neutral
<1>2. DOMAIN chans' = DOMAIN chans
  BY <1>1
<1>3. \A c \in DOMAIN chans : /\ "joined" \in DOMAIN chans'[c]
                              /\ chans'[c].joined = chans[c].joined
  BY <1>1 DEF IInv, Tracks
<1>4. QED
  BY <1>1, <1>2, <1>3, SameJoined, NeutralHandled

LEMMA SetTopicKeeps ==
  ASSUME IInv, NEW topic, SetTopic(topic), queue # <<>>, Event.type \in Neutral
  PROVE  IInv'
<1>1. Handled /\ nick' = nick
  BY DEF SetTopic
<1>2. CASE Known(Event.chan)
  <2>1. PICK c : c = Event.chan
    OBVIOUS
  <2>2. PICK ch : ch = [chans[c] EXCEPT !.topic = topic]
    OBVIOUS
  <2>3. c \in DOMAIN chans /\ Put(c, ch) /\ "joined" \in DOMAIN chans[c]
    BY <1>2, <2>1, <2>2 DEF SetTopic, Known, IInv, Tracks
  <2>4. "joined" \in DOMAIN ch /\ ch.joined = chans[c].joined
    BY <2>2, <2>3
  <2>5. QED
    BY <1>1, <2>3, <2>4, PutKnown, NeutralHandled
<1>3. CASE ~Known(Event.chan)
  <2>1. chans' = chans
    BY <1>3 DEF SetTopic
  <2>2. Joined' = Joined
    BY <2>1 DEF Joined
  <2>3. QED
    BY <1>1, <2>1, <2>2, NeutralHandled DEF IInv, Tracks
<1>4. QED
  BY <1>2, <1>3

LEMMA HandleTopicsKeep ==
  ASSUME IInv, HandleTopic \/ HandleTopicReply \/ HandleTopicInfo
  PROVE  IInv'
<1>1. queue # <<>> /\ Event.type \in Neutral
  BY DEF HandleTopic, HandleTopicReply, HandleTopicInfo, On, Neutral
<1>2. PICK topic : SetTopic(topic)
  BY DEF HandleTopic, HandleTopicReply, HandleTopicInfo
<1>3. QED
  BY <1>1, <1>2, SetTopicKeeps

LEMMA HandleNamesKeeps ==
  ASSUME IInv, HandleNames
  PROVE  IInv'
<1>1. queue # <<>> /\ Event.type \in Neutral /\ Handled /\ nick' = nick
  BY DEF HandleNames, On, Neutral
<1>2. PICK c : c = Event.chan
  OBVIOUS
<1>3. PICK old : old = IF Known(c) THEN chans[c] ELSE NewChannel(FALSE)
  OBVIOUS
<1>4. PICK users : Put(c, [old EXCEPT !.users = users])
  BY <1>2, <1>3 DEF HandleNames
<1>5. PICK ch : ch = [old EXCEPT !.users = users]
  OBVIOUS
<1>6. "joined" \in DOMAIN old
  BY <1>3 DEF Known, NewChannel, IInv, Tracks
<1>7. "joined" \in DOMAIN ch /\ ch.joined = old.joined
  BY <1>5, <1>6
<1>8. /\ \A d \in DOMAIN chans' : "joined" \in DOMAIN chans'[d]
      /\ Joined' = Joined
  <2>1. CASE Known(c)
    BY <2>1, <1>3, <1>4, <1>5, <1>7, PutKnown DEF Known
  <2>2. CASE ~Known(c)
    <3>1. ch.joined = FALSE /\ c \notin DOMAIN chans
      BY <2>2, <1>3, <1>7 DEF NewChannel, Known
    <3>2. /\ DOMAIN chans' = DOMAIN chans \cup {c}
          /\ \A d \in DOMAIN chans' : chans'[d] = IF d = c THEN ch ELSE chans[d]
      BY <1>4, <1>5 DEF Put, With
    <3>3. QED
      BY <3>1, <3>2, <1>7 DEF IInv, Tracks, Joined
  <2>3. QED
    BY <2>1, <2>2
<1>9. QED
  BY <1>1, <1>8, NeutralHandled

LEMMA HandleNamesEndKeeps ==
  ASSUME IInv, HandleNamesEnd
  PROVE  IInv'
<1>1. /\ queue # <<>> /\ Event.type \in Neutral /\ Handled /\ nick' = nick
      /\ chans' = chans
  BY DEF HandleNamesEnd, On, Neutral
<1>2. Joined' = Joined
  BY <1>1 DEF Joined
<1>3. QED
  BY <1>1, <1>2, NeutralHandled DEF IInv, Tracks

LEMMA HandleDisconnectedKeeps ==
  ASSUME IInv, HandleDisconnected
  PROVE  IInv'
<1>1. queue # <<>> /\ Event.type = "lost" /\ Handled /\ nick' = nick /\ chans' = Nothing
  BY DEF HandleDisconnected, On
<1>2. Follows(granted, seen, Event, seen')
  BY <1>1, HandledFacts
<1>3. seen.nick # NoNick /\ seen'.nick = seen.nick /\ DOMAIN seen'.chans = {}
  BY <1>1, <1>2 DEF Follows, NickAfter, ChansAfter
<1>4. DOMAIN chans' = {}
  BY <1>1 DEF Nothing
<1>5. Joined' = {}
  BY <1>4 DEF Joined
<1>6. QED
  BY <1>1, <1>3, <1>4, <1>5, TracksLater DEF IInv, Tracks

LEMMA HandleKeepsIInv ==
  ASSUME IInv, Handle
  PROVE  IInv'
<1>1. CASE HandleRegistered \/ HandleISupport \/ HandleNick \/ HandleMode
  BY <1>1, HandleRegisteredKeeps, HandleISupportKeeps, HandleNickKeeps, HandleModeKeeps
<1>2. CASE HandleJoin \/ HandleQuit \/ HandleDisconnected
  BY <1>2, HandleJoinKeeps, HandleQuitKeeps, HandleDisconnectedKeeps
<1>3. CASE HandlePart \/ HandleKick
  BY <1>3, HandleLeaveKeeps DEF HandlePart, HandleKick
<1>4. CASE HandleTopic \/ HandleTopicReply \/ HandleTopicInfo
  BY <1>4, HandleTopicsKeep
<1>5. CASE HandleNames \/ HandleNamesEnd
  BY <1>5, HandleNamesKeeps, HandleNamesEndKeeps
<1>6. QED
  BY <1>1, <1>2, <1>3, <1>4, <1>5 DEF Handle
-----------------------------------------------------------------------------
(* The theorems.                                                           *)

LEMMA InitIInv ==
  ASSUME Init
  PROVE  IInv
<1>1. /\ DOMAIN srv = Fields /\ srv.nick = NoNick /\ DOMAIN srv.chans = {} /\ seen = srv
      /\ link = "new" /\ granted = NoNick /\ queue = <<>> /\ DOMAIN chans = {}
      /\ nick = Preferred
  BY DEF Init, Nothing, Fields
<1>2. Sequential(queue) /\ \A i \in DOMAIN queue : FALSE
  <2>1. queue \in Seq({}) /\ Len(queue) = 0
    BY <1>1, EmptySeq
  <2>2. Sequential(queue)
    BY <2>1, SeqIsSequential
  <2>3. DOMAIN queue = 1 .. 0
    BY <2>1, <2>2, SequentialFacts
  <2>4. QED
    BY <2>2, <2>3
<1>3. Chain
  BY <1>1, <1>2 DEF Chain, Final
<1>4. Joined = {}
  BY <1>1 DEF Joined
<1>5. QED
  BY <1>1, <1>3, <1>4 DEF IInv, ServerOK, Tracks

LEMMA StutterKeepsIInv ==
  ASSUME IInv, UNCHANGED vars
  PROVE  IInv'
<1>1. ServerOK'
  BY DEF IInv, ServerOK, vars, server
<1>2. Chain'
  BY DEF IInv, Chain, Final, Before, vars, server
<1>3. Tracks'
  BY DEF IInv, Tracks, Joined, Misnamed, vars, server, client
<1>4. QED
  BY <1>1, <1>2, <1>3 DEF IInv

\* In every reachable state the queued messages lead from what the Client has seen to
\* the server's present state, and its nick and channels are those it has seen.
THEOREM ChainInvariant == Spec => []IInv
<1>1. Init => IInv
  BY InitIInv
<1>2. IInv /\ [Next]_vars => IInv'
  <2>1. SUFFICES ASSUME IInv, [Next]_vars PROVE IInv'
    OBVIOUS
  <2>2. CASE Handle
    BY <2>1, <2>2, HandleKeepsIInv
  <2>3. CASE Act
    BY <2>1, <2>3, ActKeepsIInv
  <2>4. CASE UNCHANGED vars
    BY <2>1, <2>4, StutterKeepsIInv
  <2>5. QED
    BY <2>1, <2>2, <2>3, <2>4 DEF Next
<1>3. QED
  BY <1>1, <1>2, PTL DEF Spec

\* The handlers of JOIN, PART, KICK and NICK keep the table of channels that of the
\* server, in any order and number of messages, when the client got the nick it asked.
THEOREM ChannelsSafe == Spec => []ChannelsAgree
<1>1. IInv => ChannelsAgree
  BY DEF IInv, Tracks, ChannelsAgree
<1>2. QED
  BY <1>1, ChainInvariant, PTL

\* The connection's nick is the server's at once; State.CurrentNick is, as soon as the
\* messages have been handled.
THEOREM IdentitySafe == Spec => []IdentityAgrees
<1>1. IInv => IdentityAgrees
  BY DEF IInv, ServerOK, Tracks, IdentityAgrees
<1>2. QED
  BY <1>1, ChainInvariant, PTL
=============================================================================
