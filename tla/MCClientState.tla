---- MODULE MCClientState ----
EXTENDS ClientState, TLC

RanksOfFounders == <<"q", "o">>
Alike == Permutations(Nicks \ {Preferred})
====
