\* Zero to four records, three clusters, every assignment.
SPECIFICATION Spec
CONSTANTS
  FixScale = 2
  Fine = 2
  Int32Max = 16
  Int16Max = 3
  MaxDist = 300
  MaxId = 9
  K = 3
  SampleN = 2
  Files <- FewRecords
INVARIANTS
  TypeOK
  SeedsAreSpread
  ClustersDoNotSpill
  BuiltIsWellFormed
  BuiltIsTheLayout
CHECK_DEADLOCK FALSE
