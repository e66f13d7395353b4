\* Zero to three records in three clusters, every number of probes and every
\* order of the centroids, ties included.
SPECIFICATION Spec
CONSTANTS
  FixScale = 2
  Int32Max = 16
  MaxDist = 300
  MaxId = 9
  K = 3
  Lanes = 2
  FltMax = 3
  Problems <- FewRecordProblems
  Penalties <- AllPenalties
  NProbes <- AnyNProbe
  Kernels <- AllKernels
INVARIANTS
  ScanContext
  NoProbeRepeats
  ProbesAreClosest
  WorkIsCountedOnce
  ExactAnswer
CHECK_DEADLOCK FALSE
