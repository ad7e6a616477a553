SPECIFICATION AgentSpec
CONSTANTS
  Stop = Stop
  NoTask = NoTask
  NumThreads = 2
  Callers = {c1, c2}
  Nodes = {n1, n2}
  Arcs = {x1}
  Ends <- MCEnds
  SubmitMayThrow = TRUE
  MaxChanges = 4
  Tasks <- MCTasks
  MayThrow <- MCTasks
  Child <- MCChild
  Waits = {}
INVARIANTS AgentTypeOK ReturnMeansAllRan FirstFailureThrown RunsOnLiveData
PROPERTY CallsEnd
CHECK_DEADLOCK FALSE
