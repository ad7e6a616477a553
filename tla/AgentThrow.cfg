SPECIFICATION AgentSpec
CONSTANTS
  Stop = Stop
  NoTask = NoTask
  NumThreads = 2
  Callers = {c1, c2}
  Nodes = {n1, n2}
  Arcs = {x1}
  Ends <- MCEnds
  SubmitMayThrow = FALSE
  MaxChanges = 4
  Tasks <- MCTasks
  MayThrow <- MCTasks
  Child <- MCChild
  Waits = {}
INVARIANT TasksEndBeforeTheCall
CHECK_DEADLOCK FALSE
