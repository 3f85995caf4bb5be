\* The whole cycle of a 13-bit counter, under every interleaving of the two modes.
SPECIFICATION Spec
CONSTANTS
  Weights <- MCTwo
  Resolution = 1000
  Floor = 10
  Probed = 2
  Slack = 3
  MaxMissed = 2
  WordSize = 8192
  WeylStep = 5063
INVARIANTS
  TypeOK
  ProbedInProportion
PROPERTIES
  ProbesSpread
