---- MODULE MCMessageCodec ----
EXTENDS MessageCodec

CONSTANTS MaxParams, MaxParam, MaxValue, MaxText

\* Messages that differ in source, command and parameters,
Framed ==
  [tags : {<<>>}, source : {<<>>, <<"n">>, <<"n", "!", "u">>, <<"n", " ">>},
   command : {<<"PRIVMSG">>, <<"privmsg">>, <<"NOTICE">>},
   params : BoundedSeq(BoundedSeq({"x", ":", " "}, MaxParam), MaxParams)]

\* in the values of their tags,
Values == BoundedSeq({"\\", ":", ";", " ", "s", "\r", "r", "NUL"}, MaxValue)
Tagged ==
  [tags : [{<<"k">>} -> Values] \cup [{<<"k">>, <<"m">>} -> BoundedSeq({"\\", ";", ":"}, 1)],
   source : {<<>>}, command : {<<"NOTICE">>}, params : {<<<<"x">>>>}]

\* in their text,
Spoken ==
  [tags : {<<>>}, source : {<<"n", "!", "u">>}, command : {<<"PRIVMSG">>, <<"NOTICE">>},
   params : {<<<<"x">>, text>> :
               text \in BoundedSeq({"^A", "ACTION", "action", "VERSION", " ", "x"}, MaxText)}]

\* and in their command.
Commands == {"NICK", "JOIN", "PART", "QUIT", "KICK", "MODE", "INVITE", "PING", "CAP",
             "001", "353", "903", "904", "433", "PRIVMSG", "NOTICE", "WALLOPS"}
Commanded ==
  [tags : {<<>>}, source : {<<>>, <<"n">>, <<"n", "!", "u">>}, command : {<<c>> : c \in Commands},
   params : BoundedSeq({<<"x">>, <<"LS">>, <<"NEW">>, <<>>}, MaxParams)]

AllSymbols == Special \cup Commands
                      \cup {"x", "u", "k", "m", "ACTION", "action", "VERSION", "LS", "NEW", "privmsg"}
AllMessages == Framed \cup Tagged \cup Spoken \cup Commanded
AllLengths == 0 .. 3 * MaxChunk + 1
====
