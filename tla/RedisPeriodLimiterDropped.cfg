CONSTANTS
  Callers = {c1, c2}
  Identities = {k1}
  quota = 1
  max_keys = 1
  MaxWindow = 0
SPECIFICATION FairSpec
PROPERTIES Recovers
