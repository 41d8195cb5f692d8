---------------------------- MODULE TimeWindows -----------------------------
(***************************************************************************)
(* The two queries that ask how long ago a task ended: check_circuit, for  *)
(* the failures of the last hour, and list_cleanable_tasks, for worktrees  *)
(* ten minutes old.  completed_at is written by isoformat(), which puts a  *)
(* T between date and time; datetime('now', ...) puts a blank there.  The  *)
(* columns are compared as text, and a blank sorts before T.               *)
(***************************************************************************)
EXTENDS Naturals, FiniteSets

CONSTANTS
    Tasks,            \* of one repository
    Day,              \* units of time in a day
    Window,           \* circuit_breaker.WINDOW_SECONDS
    Cooldown,         \* circuit_breaker.COOLDOWN_SECONDS
    MinAge,           \* CLEANUP_MIN_AGE_MINUTES
    MinTasksForTrip,  \* circuit_breaker.MIN_TASKS_FOR_TRIP
    MaxTime           \* bound: the clock stops here

VARIABLES
    now,    \* the clock
    task,   \* the rows: status, completed_at, hold, worktree_path
    dirty   \* the tasks whose worktree is on disk

vars == <<now, task, dirty>>

-----------------------------------------------------------------------------
Ended == {t \in Tasks : task[t].status \in {"completed", "failed"}}

\* completed_at > datetime('now', '-w'), as text: of two moments of the same
\* day the one from isoformat() is the greater.
TextAfter(at, w) == now < w \/ at \div Day >= (now - w) \div Day

Counted == {t \in Ended : TextAfter(task[t].at, Window)}
Failed  == {t \in Counted : task[t].status = "failed"}

\* check_circuit: open at 70 per cent of failures, until the last task that
\* ended has done so long enough ago.
Open ==
    /\ Cardinality(Counted) >= MinTasksForTrip
    /\ 10 * Cardinality(Failed) >= 7 * Cardinality(Counted)
    /\ \E t \in Counted : now - task[t].at < Cooldown

Init ==
    /\ now = Day
    /\ task = [t \in Tasks |-> [status |-> "queued", at |-> 0, held |-> FALSE]]
    /\ dirty = {}

Tick == now < MaxTime /\ now' = now + 1 /\ UNCHANGED <<task, dirty>>

\* A claimed task is held by the breaker (apply_circuit_breaker), or runs.
Claim(t) ==
    /\ task[t].status = "queued" /\ ~task[t].held
    /\ IF Open THEN task' = [task EXCEPT ![t].held = TRUE] /\ UNCHANGED dirty
               ELSE /\ task' = [task EXCEPT ![t].status = "working"]
                    /\ dirty' = dirty \cup {t}
    /\ UNCHANGED now

End(t) ==
    /\ task[t].status = "working"
    /\ \E status \in {"completed", "failed"} :
          task' = [task EXCEPT ![t].status = status, ![t].at = now]
    /\ UNCHANGED <<now, dirty>>

\* list_cleanable_tasks, and the removal: completed_at < datetime('now', ...).
Sweep(t) ==
    /\ t \in Ended \cap dirty
    /\ ~TextAfter(task[t].at, MinAge)
    /\ dirty' = dirty \ {t}
    /\ UNCHANGED <<now, task>>

Next == Tick \/ \E t \in Tasks : Claim(t) \/ End(t) \/ Sweep(t)

Spec == Init /\ [][Next]_vars

-----------------------------------------------------------------------------
\* The breaker holds a task only when enough tasks ended in the last hour:
\* "Look at tasks from the last hour" (WINDOW_SECONDS).
TripsOnRecent ==
    [][\A t \in Tasks :
         task'[t].held /\ ~task[t].held =>
             Cardinality({u \in Ended : now - task[u].at < Window}) >= MinTasksForTrip
      ]_vars
=============================================================================
