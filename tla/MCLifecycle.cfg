\* Two processes that end twice in all, three connections for two descriptors.
SPECIFICATION Spec
CONSTANTS
  Servers = {s1, s2}
  Clients = {c1, c2, c3}
  MaxFds = 2
  MaxStops = 2
  None = None
INVARIANTS
  TypeOK
  ServingIsReachable
PROPERTIES
  BrokenOnlyAtTheEnd
  StartEndsInServing
  QueueDrains
