\* A client that may send three requests at once: one can stay unanswered.
SPECIFICATION Spec
CONSTANTS
  Cap = 6
  NoLength = NoLength
  Scripts <- ThreeRequests
PROPERTY
  EveryRequestAnswered
CHECK_DEADLOCK FALSE
