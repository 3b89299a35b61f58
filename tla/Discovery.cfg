CONSTANTS
  Servers = {s1, s2}
  Keys = {"k1"}
  KeyOf <- MCKeyOf
  Foreign = "foreign"
  None = None
  EtcdBreaks = 2
  Slices = {"n1", "n2"}
  Contents <- MCContents
  Absent = Absent
  MaxChanges = 2
  KubeBreaks = 1
  Uris = {"a", "b", "m"}
  Malformed = {"m"}
  Snapshots <- MCSnapshots
  Rank <- MCRank
  SubsetSize = 2
  ChannelCallers = {"c1"}
  MaxPublishes = 2
  MaxProbes = 1
  Locks = {"l1", "l2"}
  Free = "free"
  MaxCalls = 3
SPECIFICATION MCSpec
INVARIANTS TypesOK SnapshotsWereTrue ReportsTrue
PROPERTIES DiscoverySettles
CHECK_DEADLOCK FALSE
