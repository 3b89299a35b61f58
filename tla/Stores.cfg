CONSTANTS
  Keys = {k1, k2}
  Indexes = {i1, i2}
  Payloads = {p1}
  Finders = {f1, f2}
  Mutators = {m1}
  NotFoundTtl = TRUE
  MaxGeneration = 2
SPECIFICATION MCSpec
SYMMETRY StoreSymmetry
INVARIANTS TypesOK CacheCoherent IndexCoherent
CHECK_DEADLOCK FALSE
