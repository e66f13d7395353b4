\* A client that may send three requests at once: what is answered is right, and
\* all is if it waits for each reply.
SPECIFICATION Spec
CONSTANTS
  Cap = 6
  NoLength = NoLength
  Scripts <- ThreeRequests
INVARIANTS
  TypeOK
  BufferStartsAtRequest
PROPERTIES
  ImplementsRequestReply
  WaitingClientsAreAnswered
CHECK_DEADLOCK FALSE
