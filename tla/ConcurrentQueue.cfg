SPECIFICATION Spec
CONSTANTS
  Threads = {t1, t2, t3}
  Nobody = Nobody
  MaxCalls = 2
  MaxSpurious = 1
INVARIANTS TypeOK NoLostWakeup TakeFindsItem
PROPERTY ImplementsFIFO
CHECK_DEADLOCK FALSE
