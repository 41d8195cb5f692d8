------------------------------ MODULE MCWorker ------------------------------
(* Values of the constants of Worker for TLC.                              *)
EXTENDS WorkerLifecycle

\* The second task is more urgent than the first, so that claim order and
\* creation order differ.
MCPriority == [t \in Tasks |-> NumTasks - t]
=============================================================================
