SPECIFICATION Safety

CONSTANTS
  SASLUses = {TRUE}
  Password = FALSE
  Cookies = {FALSE}
  MayBreak = FALSE
  MultiLine = TRUE
  MaxNew = 1
  MaxClashes = 0

INVARIANTS
  TypeOK
  CredentialsOnce
  WelcomeAfterEnd
  BelievesServer

PROPERTIES
  SuccessStands

CHECK_DEADLOCK FALSE
