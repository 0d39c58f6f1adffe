SPECIFICATION Spec

CONSTANTS
  Symbols <- AllSymbols
  Messages <- AllMessages
  Lengths <- AllLengths
  MaxChunk = 3
  MaxParams = 3
  MaxParam = 2
  MaxValue = 4
  MaxText = 5

INVARIANTS
  MessageRoundTrip
  TagRoundTrip
  EventFaithful
  CredentialsFramed

CHECK_DEADLOCK FALSE
