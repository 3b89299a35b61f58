CONSTANTS
  Updaters = {u1, u2}
  Subscribers = {s1, s2}
  Values = {v1, v2}
  Invalid = Invalid
  MaxGeneration = 4
SPECIFICATION Spec
INVARIANTS Converges
CHECK_DEADLOCK FALSE
