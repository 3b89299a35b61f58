CONSTANTS
  Requests = {r1, r2, r3}
  Routes = {a, b}
  Workers = {w1, w2}
  Protected = {a}
  Priority = {a}
  Sse = {b}
  MaxConcurrent = 1
  ReserveSize = 1
  Burst = 1
  MaxTicks = 1
SPECIFICATION Spec
INVARIANTS ProcessRate
CHECK_DEADLOCK FALSE
