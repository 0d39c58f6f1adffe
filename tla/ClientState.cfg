SPECIFICATION Spec

CONSTANTS
  me = me
  ann = ann
  bo = bo
  Nicks = {me, ann, bo}
  Preferred = me
  Channels = {"#a", "#b"}
  Ranks <- RanksOfFounders
  Topics = {"t1"}
  NoTopic = "none"
  NoNick = "no one"
  NamesForAll = TRUE
  Crowd = 1
  MaxActs = 3
  MaxQueue = 2

INVARIANTS
  TypeOK
  ChannelsAgree
  MembersAgree
  StatusAgrees
  SettingsAgree
  IdentityAgrees

SYMMETRY Alike

CHECK_DEADLOCK FALSE
