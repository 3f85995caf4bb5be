\* Every length, framing and way to break; a client that reads or does not.
SPECIFICATION Spec
CONSTANTS
  MaxLen = 9
  MaxChunk = 3
  Cap = 6
  EventLen = 3
  SendBuffer = 4
INVARIANTS
  TypeOK
  HeldBounded
  PrefixThenEvent
  CompleteIsWhole
PROPERTIES
  ResponseEnds
