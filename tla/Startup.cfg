\* Every configuration and host of MCStartup, and one request.
SPECIFICATION Spec
CONSTANTS
  Starts <- MCStarts
  Inputs <- MCInputs
  MaxUsize = 60
  Unbounded = 100
INVARIANTS
  TypeOK
  SlotsFollowPairs
  ServesEveryCandidate
  AcceptedMeansResolvable
  BudgetWithinHost
  SentAsIntended
