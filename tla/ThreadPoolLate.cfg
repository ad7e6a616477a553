SPECIFICATION Spec
CONSTANTS
  a = a
  b = b
  c = c
  p = p
  q = q
  Stop = Stop
  NoTask = NoTask
  NumThreads = 2
  Tasks <- MCTasks
  MayThrow = {a, q}
  Child <- MCChild
  Waits = {p}
INVARIANT AcceptedTasksRun
CHECK_DEADLOCK FALSE
