CONSTANTS
  Requests = {r1, r2, r3}
  Modes = {"Latency", "CpuThroughput"}
  MaxConcurrency = 2
  TargetLatency = 1
  SampleWindow = 2
  BucketDuration = 2
  BucketCount = 2
  Latencies = {0, 3}
  MaxCompleted = 2
  Calls = {c1, c2}
SPECIFICATION MCSpec
SYMMETRY ServerSymmetry
INVARIANTS TypesOK PermitsWithinCapacity InFlightExact OutcomesBalanced FailuresStayHome RoutedRight EndsTold
PROPERTIES NoCauselessLoss
CHECK_DEADLOCK FALSE
