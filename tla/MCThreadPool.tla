---------------------------- MODULE MCThreadPool ----------------------------
(* ThreadPool with two workers: a is an ordinary task that may throw, b      *)
(* submits c, and p submits q and waits for it.                            *)
EXTENDS ThreadPool, TLC

CONSTANTS a, b, c, p, q

MCTasks == {a, b, c, p, q}
MCChild == (b :> c) @@ (p :> q) @@ [t \in MCTasks |-> NoTask]
=============================================================================
