\* Expected to be violated: see the findings.
SPECIFICATION Spec
CONSTANTS
  Starts <- MCListings
  Inputs <- MCInputs
  MaxUsize = 60
  Unbounded = 100
INVARIANT PinsComeBack
