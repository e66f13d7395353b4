\* Three goroutines, four requests, a log entry every two.
SPECIFICATION Spec
CONSTANTS
  Conns = {c1, c2, c3}
  Every = 2
  Counters <- TwoCounters
  OfSearch = {"searchNs"}
  MaxRequests = 4
INVARIANTS
  TypeOK
  SumsSettle
  NoMultipleTwice
  AveragesMissAtMostTheOthers
PROPERTY
  EveryMultipleIsLogged
\* All requests have been served.
CHECK_DEADLOCK FALSE
