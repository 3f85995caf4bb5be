\* The pin's check and /status against answers in any order.
SPECIFICATION Spec
CONSTANTS
  AlphaNum = 3
  AlphaDen = 10
  RateMax = 100
  Threshold = 50
  NoSample = NoSample
  Requests = {r1, r2, r3}
  Modes = {"streaming", "nonstreaming"}
  Tolerated = 2
SYMMETRY Symmetry
INVARIANTS
  TypeOK
  PinBreaksInTime
  StatusTellsSlot
