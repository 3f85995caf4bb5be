\* Any history of trouble, with clients that wait and with clients that give up.
SPECIFICATION Spec
CONSTANTS
  Slots = {1, 2}
  TrueLat <- MCTrueLat
  Troubled = {2}
  SlowLat = 6
  AlphaNum = 3
  AlphaDen = 10
  Threshold = 5
  Cold = Cold
  MaxLatency = 6
  RateScale = 10
  MinRate = 1
  Resolution = 16
  Floor = 1
  ColdDivisor = 4
  Share <- MCShare
  WordSize = 32
  WeylStep = 19
INVARIANTS
  TypeOK
PROPERTIES
  Recovers
  HungAvoided
