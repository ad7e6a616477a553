SPECIFICATION StructuresSpec
CONSTANTS
  Kinds = {"DynDeque"}
  Items = {a, b}
  Raw = Raw
  Garbage = Garbage
  MIN_SIZE = 3
  WordSize = 256
  MaxItems = 6
  CopyEmpty = TRUE
  Caches = {c1, c2}
  CacheKeys = {q1, q2, q3}
  Values = {v, w}
  Nodes = {n1, n2, n3}
  None = None
  NoValue = NoValue
  Caps = {0, 2}
  k1 = k1
  k2 = k2
  k3 = k3
  k4 = k4
  k5 = k5
  Keys = {k1, k2, k3, k4, k5}
  Hash <- KeyHash
  HashBits = 4
  DFT_SIZE = 2
  EMPTY = EMPTY
  DELETED = DELETED
  ChainedSizes = {1, 2, 3}
  OpenSizes = {2, 4}
  MaxCap = 8
  BUCKET_CAPACITY = 2
  ListItems = {1, 2, 3}
  Directed = {FALSE, TRUE}
  NodeInfos = {1, 2}
  MaxArcs = 2
  AdjacentDel = FALSE
  Members = {1, 2, 3, 4}
  Rooms = {3, 4}
  SearchArcs = 8
  WeightedArcs = 7
INVARIANT DynLiveRange
