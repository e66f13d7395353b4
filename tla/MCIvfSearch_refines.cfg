\* Seven records in two clusters: the search implements BruteForce.
SPECIFICATION Spec
CONSTANTS
  FixScale = 2
  Int32Max = 16
  MaxDist = 300
  MaxId = 9
  K = 2
  Lanes = 4
  FltMax = 2
  Problems <- SevenRecordProblems
  Penalties <- TwoPenalties
  NProbes <- OneProbe
  Kernels <- TwoKernels
PROPERTY
  ImplementsBruteForce
CHECK_DEADLOCK FALSE
