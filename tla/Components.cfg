CONSTANTS
  Services = {"s1", "s2"}
  Uris = {"u1", "u2"}
  Metadata = {"m1", "m2"}
  Publishers = {"p1", "p2"}
  Subscribers = {"b1"}
  Ownership <- Shared
  EventBufferSize = 2
  Requests = {r1, r2}
  Nodes = {n1, n2}
SPECIFICATION MCSpec
SYMMETRY ComponentSymmetry
INVARIANTS TypesOK RegistryExact  AuthenticationAgrees ExtractionTold LimitsKept LogKept StaleIsExplained RedisKept
PROPERTIES  ImplementsLru
CHECK_DEADLOCK FALSE
