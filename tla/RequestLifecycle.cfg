\* Safety, liveness and the refinement of Admission: two requests, every length class.
SPECIFICATION Spec
CONSTANTS
  PermitBytes = 2
  BudgetBytes = 7
  MaxPermits = 8
  WantCap = 8
  ConfiguredMaxBody = 9
  Permits = {p1, p2, p3}
  Requests = {r1, r2}
  Lengths = {0, 3, 6, 7}
  Growths = {1}
  Aliases = {chat, empty}
  chat = chat
  empty = empty
  keyed = keyed
  gcp = gcp
  CandidatesOf <- MCCandidatesOf
  GcpCandidates = {gcp}
  NoCandidate = NoCandidate
PROPERTIES
  AdmittedAnswered
  ImplementsAdmission
  ShedOnlyUnderLoad
INVARIANTS
  TypeOK
  PermitsPartitioned
  CopiesCovered
  FeedbackMatchesAnswers
