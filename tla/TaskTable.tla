----------------------------- MODULE TaskTable ------------------------------
(***************************************************************************)
(* The "tasks" table of one repository, the variables of the worker daemon *)
(* and what every loop uses of db.py.  The modules of the loops extend     *)
(* this one; Worker puts them together.                                    *)
(*                                                                         *)
(* A step is what happens between two awaits that another actor can        *)
(* observe: one commit to the database, or one effect on GitHub.  The task *)
(* dictionaries the loops carry are not copied: while a loop owns a row    *)
(* (SingleOwner, in Worker) nobody else writes the columns the loop reads  *)
(* back from its copy.                                                     *)
(*                                                                         *)
(* A definition X_Y headed "Variant", here and in the other modules, is a  *)
(* faulty form of X: nothing refers to it, and putting it in the place of  *)
(* X must break a property some run checks.                                *)
(***************************************************************************)
EXTENDS Naturals, FiniteSets

CONSTANTS
    NumTasks,         \* tasks are numbered in creation order
    Priority,         \* Priority[t]: smaller is claimed first
    MaxWorkers,       \* permits of the semaphore
    Modes,            \* approval modes the daemon may be started in
    MaxTaskRetries,   \* config.max_task_retries
    MaxCIRetries,     \* config.max_ci_retries
    MaxVerifyRetries, \* config.max_verify_retries
    ChainLength,      \* length of config.fallback_chain without opencode
    Backends,         \* positions of the chain whose backend was discovered
    MinTasksForTrip,  \* circuit_breaker.MIN_TASKS_FOR_TRIP
    Commands,         \* operator commands that may be issued
    MaxFaults,        \* bound: merge conflicts, rate limits, spawn errors in a run
    MaxCrashes        \* bound: outages of the daemon in a run

Tasks  == 1..NumTasks
NoTask == 0
Slots  == 1..MaxWorkers
Agents == 1..ChainLength

ASSUME SizeAssumption ==
    /\ NumTasks \in Nat \ {0}
    /\ MaxWorkers \in Nat \ {0}
    /\ ChainLength \in Nat \ {0}
    /\ Backends \subseteq Agents
    /\ Priority \in [Tasks -> Nat]
ASSUME BudgetAssumption ==
    /\ MaxTaskRetries \in Nat
    /\ MaxCIRetries \in Nat
    /\ MaxVerifyRetries \in Nat
    /\ MinTasksForTrip \in Nat \ {0}
    /\ MaxFaults \in Nat
    /\ MaxCrashes \in Nat
ASSUME ChoiceAssumption ==
    /\ Modes \subseteq {"full-auto", "review-merge", "review-all"}
    /\ Modes # {}
    /\ Commands \subseteq {"approve", "hold", "release", "pause", "resume"}

VARIABLES
    row,      \* the tasks table
    gh,       \* each task's newest pull request on GitHub, and what was seen of it
    mode,     \* config.approval_mode, fixed for the run
    paused,   \* system_state.queue_paused
    up,       \* the daemon is running
    adrift,   \* ghost: working rows that were left to nobody, by what was done
    exec,     \* the executor loop
    slot,     \* the dispatch coroutines
    rev,      \* the coordinator review loop
    mon,      \* the CI monitor loop
    cmd,      \* the operator command that has read its row and not yet written
    faults,   \* environment faults still allowed
    crashes   \* outages still allowed

vars == <<row, gh, mode, paused, up, adrift, exec, slot, rev, mon, cmd,
          faults, crashes>>

-----------------------------------------------------------------------------
(* The rows and the state of each actor.                                   *)

Status   == {"queued", "working", "pr_created", "reviewing", "reviewed",
             "ci_passed", "retrying", "completed", "failed"}
Terminal == {"completed", "failed"}
Hold     == {"none", "user_hold", "merge_approval", "dispatch_approval",
             "circuit_breaker"}

\* branch stands for branch_name IS NOT NULL (worktree_path is cleared with it);
\* pid for agent_pid IS NOT NULL: the number outlives the agent and the run;
\* stamped for completed_at IS NOT NULL; error for the origin that
\* error_message names (CI failures leave it NULL).
Row == [status   : Status,
        hold     : Hold,
        dep      : Tasks \union {NoTask},
        retry    : Nat,
        agent    : Agents,
        fallback : Nat,
        branch   : BOOLEAN,
        pid      : BOOLEAN,
        pr       : Nat,
        stamped  : BOOLEAN,
        error    : {"none", "dispatch", "review", "dependency", "merge", "retry"}]

\* num counts the pull requests opened for the task.  reviewed and green
\* record that the coordinator approved, and that the monitor accepted the
\* checks of, the commits now on the pull request; consent that an operator
\* ran "approve" since the merge gate was last set.
PullRequest == [num      : Nat,
                state    : {"none", "open", "closed", "merged"},
                reviewed : BOOLEAN,
                green    : BOOLEAN,
                consent  : BOOLEAN]

Executor  == [pc   : {"poll", "claim", "vet", "trip", "conflict"},
              task : Tasks \union {NoTask},
              snap : SUBSET Tasks]
Coroutine == [pc      : {"idle", "setup", "worktree", "agent", "verify", "fix", "publish",
                         "opened", "clean", "cascade"},
              task    : Tasks \union {NoTask},
              attempt : Nat,
              todo    : SUBSET Tasks]
Reviewer  == [pc   : {"idle", "review", "closed", "cascade", "clean"},
              task : Tasks \union {NoTask},
              todo : SUBSET Tasks,
              fell : SUBSET Tasks]
Monitor   == [sweep : {"reviewed", "stuck", "approved", "retrying"},
              pc    : {"each", "gate", "merge", "acked", "refused", "requeue",
                       "pushed", "clean"},
              task  : Tasks \union {NoTask},
              todo  : SUBSET Tasks]
\* check: the conflict check of the task raised; pid: at the last restart some
\* process had the number that the row stores for its agent.
Adrift == [check : SUBSET Tasks, pid : SUBSET Tasks]

IdleExec == [pc |-> "poll", task |-> NoTask, snap |-> {}]
IdleSlot == [pc |-> "idle", task |-> NoTask, attempt |-> 0, todo |-> {}]
IdleRev  == [pc |-> "idle", task |-> NoTask, todo |-> {}, fell |-> {}]
IdleMon  == [sweep |-> "retrying", pc |-> "each", task |-> NoTask, todo |-> {}]
NoCmd    == [op |-> "none", task |-> NoTask]

Command == {NoCmd} \union [op : {"approve", "hold", "release"}, task : Tasks]

\* Groups of variables, for UNCHANGED.
outage   == <<up, adrift, crashes>>
operator == <<paused, cmd>>

DepMet(t) == row[t].dep = NoTask \/ row[row[t].dep].status = "completed"

\* handle_dependency_failure: one commit per failed task; the recursion visits
\* the tasks it failed, in some order.
Dependents(u) == {t \in Tasks : row[t].dep = u /\ row[t].status = "queued"}

CascadeFrom(u) ==
    row' = [t \in Tasks |->
              IF t \in Dependents(u)
                THEN [row[t] EXCEPT !.status = "failed", !.error = "dependency",
                                    !.stamped = TRUE]
                ELSE row[t]]
=============================================================================
