SPECIFICATION Spec

CONSTANTS
  SASLUses = {TRUE, FALSE}
  Password = TRUE
  Cookies = {TRUE, FALSE}
  MayBreak = TRUE
  MultiLine = FALSE
  MaxNew = 0
  MaxClashes = 1

INVARIANTS
  WaiterIsOwed
  EndsOnce
  CapsAgree

PROPERTIES
  EndAwaitsSASL
  Registers
  Settles

CHECK_DEADLOCK FALSE
