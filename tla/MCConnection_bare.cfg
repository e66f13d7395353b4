\* A client whose first request is a bare request line.
SPECIFICATION Spec
CONSTANTS
  Cap = 6
  NoLength = NoLength
  Scripts <- BareReadyFirst
INVARIANT
  ReadyGets200
CHECK_DEADLOCK FALSE
