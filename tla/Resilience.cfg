CONSTANTS
  Calls = {c1, c2, c3, c4, c5}
  MaxFailures = 2
  HalfOpenMaxCalls = 2
  Callers = {c1, c2, c3}
  Keys = {"k1", "k2"}
  Results = {"ok", "err"}
  LeaderCancelled = "LeaderCancelled"
  Takers = {c1, c2}
  Threshold = 1
  MaxTriggers = 4
  MaxClock = 4
  Interval = 1
  Duration = 2
  MaxProfile = 8
  Items = {"i1", "i2", "i3"}
  Weights <- MCWeights
  Flushers = {c1, c2}
  Limit = 2
  BatchCapacity = 2
  Inputs <- MCInputs
  Mapped <- MCMapped
  MaxConcurrent = 2
SPECIFICATION MCSpec
INVARIANTS TypesOK RejectingMeansWaiting CountsExplained FlightsLed WorkDoneExactly ReducedExactly
PROPERTIES EveryWaitEnds
CHECK_DEADLOCK FALSE
