SPECIFICATION Spec
CONSTANTS
  Threads = {t1, t2}
  Nobody = Nobody
  Key = {k1, k2}
  v0 = v0
  v1 = v1
  v2 = v2
  Value = {v0, v1, v2}
  Default = v0
  Absent = Absent
  Modify <- CountUp
  NoAnswer = NoAnswer
  MaxCalls = 2
INVARIANTS TypeOK FoundStaysTrue
PROPERTY ImplementsAtomicMap
CHECK_DEADLOCK FALSE
