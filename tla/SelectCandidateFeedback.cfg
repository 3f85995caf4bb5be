\* One selection against a tracker that moves at every step.
SPECIFICATION Spec
CONSTANTS
  Selectors = {s1}
  N = 3
  StatsOf <- MCSharedStatsOf
  Stats = {"x", "y"}
  Modes = {"streaming"}
  Cold = Cold
  MaxLatency = 2
  RateScale = 2
  MinRate = 1
  Resolution = 10
  Floor = 1
  ColdDivisor = 4
  Share <- MCShare
  WordSize = 16
  WeylStep = 9
INVARIANTS
  TypeOK
  LoadedLatencyIsReal
  WalkPicksItsSlice
  WeightsWithinBounds
