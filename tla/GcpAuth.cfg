\* Three callers: one detecting, one about to, one behind it.
SPECIFICATION Spec
CONSTANTS
  Callers = {c1, c2, c3}
  AuthTimeout = 2
INVARIANTS
  TypeOK
  NobodyStranded
  WaitBounded
PROPERTIES
  CallsEnd
