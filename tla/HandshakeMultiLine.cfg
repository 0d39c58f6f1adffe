SPECIFICATION Safety

CONSTANTS
  SASLUses = {TRUE}
  Password = FALSE
  Cookies = {FALSE}
  MayBreak = TRUE
  MultiLine = TRUE
  MaxNew = 0
  MaxClashes = 0

PROPERTIES
  EndAwaitsSASL

CHECK_DEADLOCK FALSE
