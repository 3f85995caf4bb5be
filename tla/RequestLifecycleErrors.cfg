\* Expected to be violated: see the findings.
SPECIFICATION Spec
CONSTANTS
  PermitBytes = 2
  BudgetBytes = 7
  MaxPermits = 8
  WantCap = 8
  ConfiguredMaxBody = 9
  Permits = {p1, p2, p3}
  Requests = {r1, r2}
  Lengths = {3, 6}
  Growths = {0}
  Aliases = {chat, empty}
  chat = chat
  empty = empty
  keyed = keyed
  gcp = gcp
  CandidatesOf <- MCCandidatesOf
  GcpCandidates = {gcp}
  NoCandidate = NoCandidate
INVARIANT ErrorsHadNoResponse
