---------------------------- MODULE MCGraphAgent ----------------------------
(* GraphAgent with two callers, two workers, two nodes and one arc.         *)
EXTENDS GraphAgent

MCTasks == Callers \X (1..3)
MCChild == [t \in MCTasks |-> NoTask]
MCEnds == [x \in Arcs |-> Nodes]

ASSUME AgentIsLegal == Legal
=============================================================================
