\* Six records, every placement on three spots, two clusters, one probe.
SPECIFICATION Spec
CONSTANTS
  FixScale = 2
  Int32Max = 16
  MaxDist = 300
  MaxId = 9
  K = 2
  Lanes = 2
  FltMax = 2
  Problems <- SixRecordProblems
  Penalties <- TwoPenalties
  NProbes <- OneProbe
  Kernels <- AllKernels
INVARIANTS
  TypeOK
  TopHoldsTheBest
  ExactAnswer
PROPERTY
  WorstOnlyImproves
CHECK_DEADLOCK FALSE
