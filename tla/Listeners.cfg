\* With and without the observability listener, three connections.
SPECIFICATION Spec
CONSTANTS
  Conns = {k1, k2, k3}
  ShutdownTimeout = 2
INVARIANTS
  TypeOK
  ScrapesSurviveDrain
  CutOnlyAfterTimeout
  ExitInTime
PROPERTIES
  SignalEnds
