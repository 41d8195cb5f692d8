--------------------------- MODULE TaskLifecycle ----------------------------
(***************************************************************************)
(* What the pipeline promises of its tasks, whoever does the work: which   *)
(* status may follow which, when a task may start, and when its change     *)
(* lands.  There are no loops here, no lists, no pull requests, no holds   *)
(* and no outages.  WorkerLifecycle shows that the daemon implements it.   *)
(***************************************************************************)
CONSTANT Tasks

VARIABLES
    status,   \* the status of each task
    dep,      \* the tasks it waits for: none, or one
    landed    \* the tasks whose change is on the main branch

lifecycle == <<status, dep, landed>>

Met(t) == \A u \in dep[t] : status[u] = "completed"

\* No set of tasks waits in a circle.
Acyclic == \A S \in SUBSET Tasks : S # {} => \E t \in S : dep[t] \cap S = {}

Init ==
    /\ status = [t \in Tasks |-> "queued"]
    /\ dep \in [Tasks -> SUBSET Tasks]
    /\ Acyclic
    /\ landed = {}

Start(t) ==
    /\ status[t] = "queued"
    /\ Met(t)
    /\ status' = [status EXCEPT ![t] = "working"]
    /\ UNCHANGED <<dep, landed>>

\* A started task goes back behind one whose own dependency is complete.
Serialize(t, u) ==
    /\ status[t] = "working"
    /\ u # t /\ Met(u)
    /\ status' = [status EXCEPT ![t] = "queued"]
    /\ dep' = [dep EXCEPT ![t] = {u}]
    /\ UNCHANGED landed

\* Where a task may go from each status while its change is not on main.
After(s) ==
    CASE s = "working"    -> {"queued", "pr_created", "completed", "failed"}
      [] s = "pr_created" -> {"reviewing"}
      [] s = "reviewing"  -> {"reviewed", "queued", "failed"}
      [] s = "reviewed"   -> {"ci_passed", "retrying", "failed"}
      [] s = "retrying"   -> {"pr_created", "failed"}
      [] s = "ci_passed"  -> {"queued", "failed"}
      [] OTHER            -> {}

Advance(t) ==
    /\ t \notin landed
    /\ \E s \in After(status[t]) : status' = [status EXCEPT ![t] = s]
    /\ UNCHANGED <<dep, landed>>

Land(t) ==
    /\ status[t] = "ci_passed"
    /\ landed' = landed \union {t}
    /\ UNCHANGED <<status, dep>>

\* A landed task is completed, or failed when the merge was not acknowledged.
Finish(t) ==
    /\ status[t] = "ci_passed"
    /\ t \in landed
    /\ \E s \in {"completed", "failed"} : status' = [status EXCEPT ![t] = s]
    /\ UNCHANGED <<dep, landed>>

\* A failure reaches all the queued tasks that wait for u.
Cascade(u) ==
    /\ status[u] = "failed"
    /\ status' = [t \in Tasks |->
                    IF status[t] = "queued" /\ u \in dep[t] THEN "failed" ELSE status[t]]
    /\ UNCHANGED <<dep, landed>>

\* Interrupted reviews are repeated, and interrupted tasks run again (some may
\* be left to agents that still run).
Recover ==
    /\ \E S \in SUBSET Tasks :
          status' = [t \in Tasks |->
                       CASE status[t] = "working" /\ t \in S -> "queued"
                         [] status[t] = "reviewing"          -> "pr_created"
                         [] OTHER                            -> status[t]]
    /\ UNCHANGED <<dep, landed>>

Next ==
    \/ \E t \in Tasks : Start(t) \/ Advance(t) \/ Land(t) \/ Finish(t) \/ Cascade(t)
    \/ \E t, u \in Tasks : Serialize(t, u)
    \/ Recover

Spec == Init /\ [][Next]_lifecycle

-----------------------------------------------------------------------------
(* What follows from the lifecycle alone.                                  *)

Statuses == {"queued", "working", "pr_created", "reviewing", "reviewed",
             "ci_passed", "retrying", "completed", "failed"}

Types ==
    /\ status \in [Tasks -> Statuses]
    /\ dep \in [Tasks -> SUBSET Tasks]
    /\ landed \in SUBSET Tasks

\* A task that was started, and has not failed or gone back, had what it
\* waits for complete, and it is complete still.
StartedInOrder ==
    \A t \in Tasks : status[t] \notin {"queued", "failed"} => Met(t)

\* Changes land in the order of the dependencies, and for good.
LandedInOrder ==
    \A t \in landed : status[t] \in {"ci_passed", "completed", "failed"} /\ Met(t)

Safe == Types /\ Acyclic /\ StartedInOrder /\ LandedInOrder
=============================================================================
