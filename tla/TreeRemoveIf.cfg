SPECIFICATION SetSpec
CONSTANTS
  Kinds = {"avl"}
  BagKinds = {}
  Keys = {1, 2, 3, 4, 5, 6, 7}
  BagKeys = 3
  TreapKeys = {1, 2, 3, 4}
  TreapItems = 4
  PlainKeys = {1, 2, 3, 4, 5}
  BTreeKeys = {1, 2, 3, 4, 5, 6, 7, 8, 9}
  BTreeItems = 9
  PlusItems = 7
  MinDegree = 2
  MAX_LEVEL = 3
  Priors = {1, 2}
  MaxItems = 5
  HeapKeys = {1, 2, 3}
  HeapItems = 8
  QuicksortThreshold = 2
  SortKeys = {2, 10, 12}
  SortItems = 6
PROPERTY RemovalReachesEveryKey
