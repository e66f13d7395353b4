\* One to three vectors of two coordinates; the buffer overflows several times.
SPECIFICATION Spec
CONSTANTS
  D = 2
  K = 1
  Magic = 6
  FixScale = 10
  Scales = {10, 11}
  BufSize = 5
  Chunk = 2
  Indexes <- OneToThree
  Foreign <- Others
  None = None
INVARIANTS
  TypeOK
  SuccessMeansStored
PROPERTIES
  ImplementsIndexStore
  LoadAcceptsEveryIndex
