--------------------------- MODULE WorkerLifecycle --------------------------
(***************************************************************************)
(* The daemon implements TaskLifecycle: the lifecycle of a task is what    *)
(* its row and its pull request say, and every step of every loop, of the  *)
(* operator, of an outage or of a recovery is a step of it or none.        *)
(***************************************************************************)
EXTENDS Worker

Merged == {t \in Tasks : gh[t].state = "merged"}

\* Taken with its theorems, for the proofs to cite.
Lifecycle == INSTANCE TaskLifecycleProofs
                WITH status <- [t \in Tasks |-> row[t].status],
                     dep    <- [t \in Tasks |-> {row[t].dep} \ {NoTask}],
                     landed <- Merged

\* Refinement: rows only move along the edges of the lifecycle, start behind a
\* complete dependency and never go back once merged, although each loop
\* writes status without looking at it and acts on lists read earlier.
ImplementsLifecycle == Lifecycle!Spec
=============================================================================
