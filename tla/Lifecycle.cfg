CONSTANTS
  Workers = {w1, w2}
  Capacity = 2
  MaxMessages = 3
  MaxPauses = 1
  Services = {"s1", "s2", "s3"}
  WithSignal = TRUE
  Updaters = {"u1", "u2"}
  Subscribers = {"b1", "b2"}
  Values = {"v1", "v2"}
  Invalid = "invalid"
  MaxGeneration = 4
  Buffer = 2
  Endpoints = 2
  MaxReads = 5
  MaxBreaks = 2
  MaxFailures = 1
  Takers = {"c1", "c2"}
  Identities = {"k1", "k2"}
  quota = 1
  max_keys = 1
  MaxWindow = 1
SPECIFICATION MCSpec
INVARIANTS TypesOK MessagesKept  UpdatesConverge RescueKept
PROPERTIES StopsPromptly CallsReturn
CHECK_DEADLOCK FALSE
