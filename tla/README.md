# Backporcher in TLA+

A formal model of the Backporcher worker: the daemon that takes labelled GitHub
issues through an agent, a pull request, a review, CI and a merge, with what
surrounds it: its start, its database, its operators and its worktrees. The
modules are translated from the Python source (`src/src/*.py`), model-checked with TLC
on small instances, and the main safety results are proved with TLAPS for every
value of the constants.

Contents

1. The system
2. Components: state, operations, hard behaviour, what makes them correct
3. The modules and how they correspond to the code
4. What each run checks and shows
5. Disagreements between code and documentation
6. What is proved, and how
7. What is only model-checked
8. Assumptions, and what is not modelled
9. Plan

## 1. The system

One asyncio process (`worker.py`) runs several loops over one SQLite table,
`tasks`. The loops never call each other: they meet in the `status` column.

    issue --(poller)--> queued --(executor)--> working --(dispatch)--> pr_created
      pr_created --(coordinator)--> reviewing --> reviewed --(CI monitor)--> ci_passed
      ci_passed --(CI monitor: merge)--> completed          anything --> failed

and back: a coordinator rejection, an agent failure or a merge conflict sends a
task back to `queued`; a CI failure sends it to `retrying` and from there to
`pr_created`. Every write is `UPDATE tasks SET status=... WHERE id=...`
(`db.py` `update_task`) *without* a condition on the status it replaces.
Correctness therefore rests on a protocol nobody wrote down: at any moment at
most one loop may believe a task is in its hands. Besides the loops, operator
commands are processes of their own that write the same rows, agents run in
sessions of their own and outlive the daemon, and the daemon may stop between
any two commits and be restarted by systemd.

The same two habits, files and rows that are read, judged and then written
blindly, return around the pipeline: a worker checks the PID file and then
writes it; whoever connects reads the schema version and then runs the stages
that follow it; the poller asks for an issue's task and then creates one; a
command reads a row and then cancels it; the cleanup reads a path and then
removes it.

## 2. Components

| component | state it keeps | operations | interacts through | hard behaviour | correct when |
|---|---|---|---|---|---|
| task table (`db.py`) | rows, holds, pause flag | claim, blind update, cascade, lists | everything reads and writes it | no conditional writes; cascade is one commit per task | a row is written only by the loop that owns it; final is final |
| executor (`worker.py`, `worker_poller.py`, `circuit_breaker.py`, `triage.py`) | the task just claimed, the in-flight list | poll, claim, circuit breaker, dependency re-check, conflict check, start | table; starts coroutines under a semaphore | flag, claim, vet and start are separate steps; the conflict check takes up to 30 s on an old list and rewrites dependencies | dependencies are met at the start; no circular waits; no claimed task is dropped |
| dispatch coroutine (`dispatch.py`) | task copy, verify attempt, cascade work | worktree, agent, retry, fallback, verify, scan, publish, error handler, cleanup, cascade | table, GitHub, agent processes | any step may raise after any commit | the row ends in a status some loop picks up; retries are bounded |
| coordinator (`worker_review.py`) | list of `pr_created` tasks, task under review | review, approve, reject, retry, fail, cascade | table, GitHub | list is minutes old when its tail is reached; PR closed before the row is written | only its own tasks are written |
| CI monitor (`worker_ci.py`, `worker_merge.py`) | current sweep, list, task in hand | CI results, gate, stuck conflicts, merges, CI retries | table, GitHub | status and hold are two commits; merge answers get lost; close results are ignored; agents run inside the sweep | nothing unreviewed or unapproved is merged; nothing merged runs again |
| operator holds (`cli_control.py`) | the row it read | approve, hold, release, pause, resume | table | read and write apart, daemon going on in between | approval is needed where the mode says so |
| daemon, recovery (`worker.py`, `worker_startup.py`) | pid, signals | start, stop, recover | all of the above | outage between any two steps; agents that survive; stored pids that are old, or another process's by now | interrupted tasks are picked up again |
| issue poller, batch intake (`worker_poller.py`, `triage.py`) | issues seen in a poll, the plan, tasks made from it | list, dedup, plan, create, claim the issue, set the gate | table, GitHub labels | row, label and gate are three steps; the executor may claim in between; plans name a task made a moment ago | one unfinished task per issue; no task of an issue passes the gate unseen in review-all |
| operator task actions (`cli_tasks.py`, `dashboard_actions.py`, `dashboard_api.py`) | the row it read, and the dispatches it was asked for | cancel, reject, edit, requeue, dispatch, approve, create | table, agent processes, labels | the row may be in a loop's hands or change after the read; a command ends with its process, a dispatch in the dashboard may outlive the daemon | a cancelled task stays cancelled; its dependents are told |
| artifact cleanup (`worker_ci.py`, `git_ops.py`, `cli_tasks.py`) | the rows it listed | remove worktrees and branches, forget their paths | table, disk | the list is old; whoever cleans goes by a copy of the row | no worktree in use is removed; none is forgotten |
| PID lock (`worker_startup.py`) | the PID file | check, take a stale one away, write, remove | file system, process table | check and write are separate system calls; pids are recycled, containers replaced | one worker at a time; refusals are justified |
| migrations (`db_migrations.py`) | schema version and shape | table rebuilds, new columns | database, whoever connects | several commits per stage, each stage enters the final version; tools migrate without the lock | no data is lost; who has connected finds today's tables |
| failure and cleanup windows (`circuit_breaker.py`, `db.py`) | none | which tasks ended lately | table, clock | two formats of a timestamp compared as text | only recent failures trip the breaker |
| CI status rollup (`github_pr.py`) | none | summarise checks | GitHub | two kinds of entries, many conclusions | passed means finished and green |
| dashboard server, agent backends, code graph, reflection and prompts, safety scan, notifications, configuration | none of the pipeline's | presentation, command lines, derived context, pattern matching | | | not protocol state |

The hazards this code is exposed to, each at its line and with the properties
that watch it, are listed in `PROJECT.json`.

## 3. Modules

There are three state machines and two smaller models. The first is the pipeline:

    TaskTable ── Executor ─────┐
        │     ── Dispatch ─────┤
        │     ── Coordinator ──┼── Worker ── WorkerLifecycle ── MCWorker (+ *.cfg)
        │     ── CIMonitor ────┤      │            │
        │     ── OperatorHolds ┘      │      INSTANCE of TaskLifecycle
        │                             │
        └ rows, actor states    WorkerProofs ── WorkerLifecycleProofs ── WorkerVettingProofs
                                                (uses TaskLifecycleProofs)

**TaskTable** declares the constants, their assumptions and all variables:
`row` (the table), `gh` (each task's newest pull request), one variable per
actor with its program counter (`exec`, `slot`, `rev`, `mon`, `cmd`), `mode`,
`paused`, `up`, `adrift` (the rows that a conflict check which raised, or a
recovery that found a process with their pid, has left alone), and the bounds `faults` and `crashes`. `CascadeFrom`
is one commit of `handle_dependency_failure`.

**Executor** is `_task_executor_loop` with `try_claim_and_dispatch`: `PollQueue`
(pause flag and a free permit), `Claim` (the claim query, with its order),
`TripBreaker` / `ReturnTripped` (the two commits of `apply_circuit_breaker`),
`Vet` (dependency read again, in-flight list read), then `NoConflict`,
`Serialize` or `ConflictCheckRaises`.

**Dispatch** is `dispatch_task`, one `slot` per permit of the semaphore. `Raise`
is its outer exception handler, which may run at every step that may raise.

**Coordinator** is `review_pending_tasks`; **CIMonitor** is `monitor_ci` with its
four sweeps in order, `handle_ci_passed`, `handle_ci_failure`, `try_merge`,
`process_retry`; **OperatorHolds** is `approve`, `hold`, `release`, `pause`,
`resume`, each a read and a later write.

**Worker** composes them: `Init`, `Next`, `Crash` (every loop lost), `Restart`
(`recover_stale_tasks`), fairness, and the properties. A row keeps its stored
`agent_pid` (`row[t].pid`) through retries and requeues, since only recovery
clears it; which of the stored pids answer at a restart, for the agent of the
row, a survivor of an earlier attempt or a stranger, is open.

**TaskLifecycle** is the abstract specification: which status may follow which,
when a task may start (everything it waits for is complete), when its change
lands, how failures cascade, what recovery may do. It has no loops, lists, pull
requests, holds or outages. It is a promise rather than a translation, so its
definitions are not mapped to lines. **WorkerLifecycle** instantiates it with

    status <- row[t].status,   dep <- {row[t].dep} \ {NoTask},
    landed <- the tasks whose pull request is merged

and states `ImplementsLifecycle`.

**Size of a step.** A step is what happens between two awaits that another actor
can observe: one commit to the database or one effect on GitHub. Logging,
metrics, comments and labels are left out. The dictionaries the loops carry are
not copied: that is sound because of `SingleOwner`, which is proved. While a
loop owns a row nobody else writes the columns the loop reads back from its
copy; where the copy's age matters (the lists of the sweeps, the hold in the
list, the in-flight list, the pause flag, the operator's read) it is a variable.

**The start of a worker.**

    PidLock ────┐
    Migrations ─┴─ Startup ── MCStartup (+ startup.cfg)
                      └── StartupProofs

**PidLock** is `acquire_pid_lock` system call by system call (`Exists`, `Read`,
`Signal`, `CompareStart`, `Unlink`, `Truncate`, `Fill`) and the `finally` block
that removes the file (`Release`). A process is a pid and a start time;
`Unrelated` gives freed pids to other processes, `NewContainer` replaces the
container, and `LockInit` allows a file of each older format. The file has an
inode, since a writer goes on with the file it opened although another file may
have taken its name. **Migrations** is `_migrate_sync` commit by commit: sqlite3
commits DDL at once and opens a transaction at the first INSERT or UPDATE. A
stage's columns are one element, the number of the stage; `Save` is any insert
or update of a task by a process that has connected. **Startup** is
`_run_worker`: a worker migrates and serves under the lock (`Serving`), tools
migrate without it (`UseTool`), and either may die at every step.

**The daemon around its pipeline.**

    Ledger ── Intake ───────┐
        │  ── TaskActions ──┼── Operations ── MCOperations (+ *.cfg)
        │  ── Artifacts ────┘        └── OperationsProofs ── OperationsTaskProofs
        └ rows, labels, copies in hand

**Ledger** declares the rows and labels as those see them who come from outside.
`hands[t]` is the set of copies of row `t` that somebody works from, each by what
its holder takes the task to be: unlike in the pipeline alone, where ownership
is proved, a command may write a row that a loop holds, and the loop then writes
over it. **Intake** is `poll_issues` with `orchestrate_batch`; **TaskActions** is
cancel, reject, requeue, edit, single dispatch, approve and manual creation,
each as its read, the kill, its write, the cascade and the labels;
**Artifacts** is the removal of worktrees by the loop that ended a task, by
`cleanup_terminal_tasks` and by `backporcher cleanup`. **Operations** composes
them with the loops, reduced to the writes they do from their copies, and with
outages.

Three processes hold the copies. The daemon holds those of its loops. The
dashboard carries out its commands and drives the dispatches it was asked for
(`single`), whether it is embedded in the daemon (`worker.py:85-94`) or a
service of its own (`backporcher-dashboard.service`). The command line carries
out its own commands. `Outage(gone)` ends any set of them, with the copies, the
cascades and the command they had in hand: daemon and dashboard together is the
embedded one, either alone the two services, the command alone a process that
was killed. `Recover` is a step of its own, so that a dispatch of the dashboard
may go on over the time without a daemon and through the recovery, which puts
its row back in the queue if the pid does not answer. `CascadeSingle` is the
cascade of a dispatch in the dashboard. What the cleanup can find is `Cleanable`:
`list_cleanable_tasks` asks for a path *and* for `completed_at` (`db.py:208`),
which the row field `stamped` follows.

Abstractions: one operator command runs at a time; two holders that
take a task to be the same count as one; serialization, pause and the breaker
are left to the pipeline's model; a remote branch is removed together with its
worktree; edits that change only prompt, model or priority change nothing here;
a cleanup command that finds neither worktree nor branch, and so leaves the
path, is left out. Label edits may fail, as the code expects
them to.

**TimeWindows** is `check_circuit` and `list_cleanable_tasks` as functions of a
clock, with the textual comparison of timestamps. **CIStatus** is
`get_pr_ci_status` as a function of the rollup, with theorems in place of runs.

**Ghosts.** `gh[t].reviewed`, `.green` and `.consent` record what was seen of
the commits now on the pull request; no action reads them. `raced`, `overlapped` and
`interrupted` (Startup) record that two starts or migrations overlapped, or that
one was cut off at a certain point. `note` (Ledger) records what happened to a
task that the properties make allowance for, each entry a race or a loss of the
code: its comment in `Ledger` says which. One entry is read, to bound the state
space: nobody takes up a `disputed` task again (`Followed`), about which
no property says anything from then on.

**Variants.** A definition `X_Y` under the heading "Variant" is a faulty form
of `X` (a dropped guard, a missing step, swapped arguments). Nothing uses it. For
each property of each passing run, `PROJECT.json` names the variant that must
break it when it takes the place of `X`.

## 4. Runs

The runs of the pipeline use `MCWorker`, which only gives the priorities (a later
task is more urgent, so that claim order and creation order differ).
Dependencies are chosen in `Init`: every graph in which a task waits for at most
one earlier task, as `create_task_from_issue` and `batch_create_tasks` produce.

| run | instance | shows |
|---|---|---|
| `pipeline_safety` | 2 tasks, 2 coroutines, full-auto and review-merge, one retry of each kind, 1 fault, approve, breaker threshold 1 | `TypeOK`; the row names the newest PR (`RowMatchesPR`); nothing is merged without approval (`MergeNeedsApproval`) or without review and CI of its last push (`MergedWasVetted`); final is final (`TerminalIsFinal`) |
| `pipeline_crash` | 2 tasks, 2 coroutines, review-merge, no CI retry, 1 fault, 1 outage with any of the stored pids answering afterwards, breaker threshold 1 | one owner per task (`SingleOwner`); started tasks have their dependency (`DependenciesMet`); merged tasks never run again (`MergedNeverRerun`); no working task without an owner, but for a conflict check that raised and a pid that answered (`NoneStranded`); the daemon implements the lifecycle (`ImplementsLifecycle`) |
| `pipeline_chain` | 3 tasks, 2 coroutines, no faults | no circular waits (`NoDependencyCycle`); cascades reach the whole chain (`CascadeComplete`) |
| `pipeline_single` | 1 task, verify, CI, agent and fallback retries, all commands, 1 fault, 1 outage | the shared retry budget (`RetryBudget`) |
| `pipeline_live` | 2 tasks, full-auto and review-merge, approve, 1 fault, 1 outage, fairness | every task settles (`EveryTaskSettles`) |
| `startup` | 2 workers in a container, 1 tool, 2 pids, 2 processes or containers created on top of what is there, 1 row, databases that are new, of version 2, of version 5, and of version 7 upgraded by 8 | types, and only a worker with the lock is connected (`TypeOK`); only overlapping starts defeat the lock (`OneWorker`); refusals are justified (`RefusedByWorker`); no migration loses data (`DataKept`); who has connected finds every column (`ReadyMeansCurrent`); what leaves a database that nobody can open (`BlockedOnlyBy`) |
| `operations` | seven scenarios (`MCScenarios`) of up to 2 rows, 2 issues, 2 commands, 1 outage (of any processes, of the command line, or of the daemon), 1 failed label edit, 1 repeated label; 2.4 million states | `TypeOK`; one unfinished task per issue (`OneTaskPerIssue`); the gate of review-all (`GateHolds`); who waits behind a dead task (`DependentsOfDead`); no worktree is lost (`TreesRemembered`) or removed in use (`TreeSpared`); cancelled stays cancelled (`CancelledHolds`) |
| `cascade_gap`, `gate_lost`, `restart_stranded`, `relabel_ignored`, `window_day` | minimal | the five findings of section 5 |

**Bounds.** Two tasks are the smallest instance with a dependency, a conflict and
two loops on different tasks; three are needed for a dependent of a dependent
and for circles longer than two. Two coroutines give interleavings of two
dispatches; more would only repeat them, since coroutines meet only in the
table. One retry of each kind shows both sides of each budget test, and retries
of different kinds add up. `MaxFaults` bounds what the environment may do any
number of times (merge conflicts, rate limits, spawn errors of the conflict
check), `MaxCrashes` the outages. `MinTasksForTrip` is 1 where the breaker is to
trip on few tasks, 2 or more where it is not the subject. Each passing run
explores its instance completely, and together the passing runs take every
action and every disjunct.

Two workers are the smallest instance in which one start meets another, and two
pids let one be recycled while the other lives; `MaxBirths` is the clock of
process starts, and `startup` may create two beyond the two that the initial
file may name. One row is enough, since no stage treats rows differently. The
four histories are the four entries into the chain of stages: creation, both
rebuilds, columns only, and several version rows.
Once two migrations have overlapped no further one begins there (`Aftermath`):
the tables may be anything by then, and of the properties only that no task is
lost still speaks of it. In `operations` the scenario
says which commands, outages and failures one behaviour may have, so that every
pair of hazards meets without all of them multiplying: two commands on one task;
a command and an outage of any set of processes, in both gate modes; a task that is
cancelled while another waits for it (`MCWaiting` leaves out that it does not),
with the command killed before its cascade is over; a cancelled task queued again beside its successor; an outage of the daemon among
two tasks; a repeated label with a lost edit; a manual task. Wider
scenarios (two tasks with a reject or a dispatch and an outage of any
processes), which take longer than a run should, were checked once without an
error; that the properties hold in all scenarios is proved. An outage
that ends nothing in hand is left out, since nothing tells it from none. Deadlock is not checked in `operations`,
whose bounds run out, nor in `TimeWindows`, whose clock stops.

**Fairness** (`Fairness` in `Worker`, used by `pipeline_live` only). asyncio
schedules every runnable coroutine again, and each loop of the daemon sleeps
and repeats, hence weak fairness of each loop and of each coroutine. An agent
ends: `run_agent` has `task_timeout`, so the `agent` step is not exempt. systemd
restarts the daemon (`Restart`). A command that was accepted is carried out; no
fairness makes the operator issue one. Strong fairness says that the checks of
a pull request that is asked about again and again eventually answer: without
it the code promises nothing, because pending checks are asked about for ever.

`EveryTaskSettles` names all the ways in which the code lets a task rest:
final, held (an operator must act), behind a dependency that is not complete
(section 5, first finding), or working with nobody to go on with it, because a
recovery found a process with its stored pid (third finding; the agent, or
whoever has the pid by then) or the conflict check could not be started (first
observation). The run has the fault and the outage that both take.

`MergeNeedsApproval` is checked without outages and with `approve` as the only
command: with an outage it is false (`gate_lost`), and `hold` followed by
`release` clears a merge gate by design. `CascadeComplete` is about full-auto:
elsewhere a conflict may be serialized behind a task whose cascade is over.

## 5. Disagreements found

* **`cascade_gap`**: README.md:225 says that the queued dependents of a failed
  task are failed too. The CI monitor's failure paths (`worker_ci.py:201`, 242,
  256, `worker_merge.py:87`, `dispatch_helpers.py:221`) do not cascade, so the
  dependents wait for ever.
* **`gate_lost`**: README.md:36 says that the merge requires an approval.
  `handle_ci_passed` commits `ci_passed` (`worker_ci.py:142`) before the hold
  (148); after an outage in between, the next sweep merges.
* **`restart_stranded`**: README.md:223 says that working tasks are requeued on
  restart with no manual intervention. A row whose stored `agent_pid` is that of
  some process (`worker_startup.py:163-172`) stays `working`, and no coroutine
  waits for it. The process may be the agent, which has outlived the daemon, or a
  stranger with a recycled pid, or the survivor of an earlier attempt: the pid
  is written at `agent.py:138`, and no retry or requeue of the loops clears it.
* **`relabel_ignored`**: the comment on the issue of a failed task says "Re-add
  the `backporcher` label to retry." (`dispatch_helpers.py:44`), but
  `get_task_by_issue` (`db.py:161`) takes a failed task for an existing one, and
  the poller passes over the issue.
* **`window_day`**: `circuit_breaker.py:27` says the breaker looks at tasks from
  the last hour. `completed_at` has a `T` where `datetime('now', ...)` has a
  blank (`circuit_breaker.py:49`), so every task that ended since midnight UTC
  counts. By the same comparison `list_cleanable_tasks` (`db.py:209`) returns no
  task that ended today, where its docstring (`db.py:202`) speaks of minutes.

Observations that contradict no single sentence, and have no run of their own:

* `check_task_conflict` says it returns None on any error (`triage.py:306`), but
  starts its process outside the `try` block (343). If it cannot be spawned, the
  exception ends in the executor loop and the claimed task stays `working`
  (`ConflictCheckRaises`; `adrift.check` in `NoneStranded`).
* Cancelling a task that a loop has in hand is undone by the loop's next write;
  `note.disputed` in `CancelledHolds` is that case. README.md:91 describes
  cancel as "Kill agent, cancel task, restore labels".
* Single dispatch (`dashboard_api.py:66`) writes `working` over whatever the row
  is by then: two coroutines may drive one task.
* A dispatch in a dashboard of its own (`dashboard_api.py:94`) survives a restart
  of the worker, whose recovery puts the row back in the queue
  (`worker_startup.py:173-179`) if the stored pid does not answer, as before the
  agent has been started. The worker then claims it: two drivers again, with
  everything that comes of it, another task for the same issue, a worktree
  removed under an agent, a worktree that no row names. `note.disputed` is that
  case too.
* A cancel or reject that ends with its process between the write and the cascade
  (`dashboard_actions.py:74` and 78, `cli_tasks.py:222` and 228) leaves the
  dependents queued behind a cancelled task for ever: the embedded dashboard ends
  with the daemon, and a command is killed. `note.unheard` is that case, as it
  is that of a cascade of the daemon's.
* In full-auto an empty rollup passes (`worker_ci.py:110-117`): a pull request
  asked about before its first check has been registered is merged without any.

## 6. What is proved

The proofs are checked by TLAPS for any number of tasks, coroutines, retries,
agents, faults and outages, and of workers, pids, processes, issues and commands,
under assumptions on the constants that say no more than of what kind they are:
`SizeAssumption`, `BudgetAssumption` and `ChoiceAssumption` of the pipeline,
`LockAssumption`, `HistoryAssumption` and `ClientsAssumption` of the start,
`LedgerAssumption` of the operations. TLC evaluates them in the runs.

| theorem | module | statement |
|---|---|---|
| `TypeCorrect` | WorkerProofs | `Spec => []TypeOK` |
| `OwnershipHolds` | WorkerProofs | `Spec => []SingleOwner` |
| `TerminalFinality` | WorkerProofs | `Spec => TerminalIsFinal` |
| `LifecycleSafe` | TaskLifecycleProofs | the lifecycle keeps starts and merges in dependency order, without circles |
| `LifecycleImplemented` | WorkerLifecycleProofs | `Spec => ImplementsLifecycle` |
| `StartsInOrder` | WorkerLifecycleProofs | `Spec => []DependenciesMet` |
| `NoCircularWait` | WorkerLifecycleProofs | `Spec => []NoDependencyCycle` |
| `MergesAreFinal` | WorkerLifecycleProofs | `Spec => []MergedNeverRerun` |
| `CascadesComplete` | WorkerLifecycleProofs | `Spec => []CascadeComplete`, if `MaxCrashes = 0` |
| `OnlyTwoStrand` | WorkerLifecycleProofs | of all steps only `ConflictCheckRaises`, and `Restart` of a row whose pid answers, leave a working task to nobody |
| `NobodyStranded` | WorkerLifecycleProofs | `Spec => []NoneStranded` |
| `OnlyVettedIsMerged` | WorkerVettingProofs | `Spec => []MergedWasVetted` |
| `RowsMatch` | WorkerVettingProofs | `Spec => []RowMatchesPR` |
| `BudgetHolds` | WorkerVettingProofs | `Spec => []RetryBudget` |
| `MergesNeedApproval` | WorkerVettingProofs | `Spec => []MergeNeedsApproval`, if `MaxCrashes = 0` and `Commands \subseteq {"approve"}` |
| `LockExcludes` | StartupProofs | `Spec => []OneWorker` |
| `RefusalsJustified` | StartupProofs | `Spec => RefusedByWorker` |
| `StartupTypes` | StartupProofs | `Spec => []TypeOK` |
| `ReadyIsCurrent` | StartupProofs | `Spec => []ReadyMeansCurrent` |
| `OnlyThoseBlock` | StartupProofs | `Spec => []BlockedOnlyBy` |
| `DataIsKept` | StartupProofs | `Spec => DataKept` |
| `TypeCorrect` | OperationsProofs | `Spec => []TypeOK` |
| `GateNeedsOperator` | OperationsProofs | `Spec => []GateHolds` |
| `OneTaskEach` | OperationsTaskProofs | `Spec => []OneTaskPerIssue` |
| `DependentsHear` | OperationsTaskProofs | `Spec => []DependentsOfDead` |
| `TreesAreFound` | OperationsTaskProofs | `Spec => []TreesRemembered` |
| `CancellationHolds` | OperationsTaskProofs | `Spec => CancelledHolds` |
| `TreesAreSpared` | OperationsTaskProofs | `Spec => TreeSpared` |
| `PassedIsGreen`, `FailureIsFinal`, `PendingIsRunning` | CIStatus | what each answer of `get_pr_ci_status` says of the rollup |

**Ownership.** The inductive invariant is `IInv == TypeOK /\ SingleOwner`. Neither
half is inductive alone: that `row[rev.task]` is a row needs the reviewer to
hold a task, and who holds a task needs the types. `SingleOwner` says, loop by
loop, in which status the tasks in its hands and on its lists are. The argument
is a frame argument. The `...Writes` lemmas say which statuses a step of an
actor may move (`WritesOnly`): the coordinator `queued`, `pr_created` and
`reviewing`; the monitor `reviewed`, `ci_passed` and `retrying`; an executor or
coroutine `queued` rows and the one `working` row it drives. The `Frame...`
lemmas turn that into the other actors' parts of the invariant, because no two
of them hold tasks in the same status. What remains, per action, is the actor's
own part. `TerminalFinality` follows from the `...Writes` lemmas: none contains
a final status.

**Refinement.** `TaskLifecycleProofs` proves `Safe` of the abstract specification
alone: what a task waits for is completed before it starts, and completed is
final. The one interesting case is `Serialize(t, u)`, which gives a task another
dependency: if it closed a circle, the circle would hold a completed task that
`u` waits for, completed tasks wait for completed tasks only, and so the
completed ones would form a circle already. `WorkerLifecycleProofs` then shows
with

    WInv == IInv /\ Lifecycle!Safe /\ ListsAgree

that each action maps to a lifecycle step or a stutter. `ListsAgree` is what the
loops remember of earlier queries: the tasks on the executor's in-flight list
have their dependencies met, a merge that was acknowledged is a merge, and a
task that is to be sent back for a conflict is not merged. The abstract
invariant is used in the proof (a task that is not in `ci_passed` or final is
not merged, so moving it is allowed) and is carried over each step by the
lemma `SafeStep` of the instance, so nothing is proved twice. `StartsInOrder`,
`NoCircularWait` and `MergesAreFinal` are read off `WInv`. That initial
dependencies point to earlier tasks, and so form no circle, uses the
well-foundedness of `<` from the library.

**Cascades.** `CascadeComplete` says who waits and who is being told, and is not
inductive: a second error written over the first, or a coroutine that leaves
with work in hand, would break it. `Blamed` (an error that is passed on is that of
a failed task) and `Told` (work left of a cascade is in the hands of a loop that is
in one) exclude both, with `Checking`, by which no dependency is rewritten in
full-auto. Each actor's steps are shown to obey one law (`Spread`): who fails a
task with such an error begins to tell its dependents, and who ends has told them
all. The rest is one argument for all steps: a task that comes back to the queue has
been started, so that its dependency is completed (`MetWhenStarted`), and completed
is final (`FinalStep`); one that was in the queue is told, or has been. The
premise is needed: an outage in the middle of a cascade loses what is left of it.

**Nobody's tasks.** `OnlyTwoStrand` looks at the steps that let go of a working
row. The executor hands it to a coroutine or puts it back, a coroutine moves the
row on as it leaves (`Outcome`, the five things a coroutine's step can amount
to), an outage leaves it to recovery, and recovery requeues it unless its pid
answers. The two exceptions are the conflict check that raises and that recovery.
`adrift` is what they have left alone. `NobodyStranded` follows without a
premise: a task left alone stays in `adrift` as long as it is working and the
daemon runs (`LeftAloneStays`), and whoever loses its last owner has entered it
(`StrandsNobody`).

**Vetting.** `VInv` adds to `WInv` what a status promises of the commits on the
pull request (`Vetted`: reviewed from `reviewed` on, with accepted checks in
`ci_passed`, both once merged), that the row names the newest pull request and
its branch (`Published`), and what a coroutine has already stored (`Branched`).
Ownership is what makes it inductive: a CI retry pushes new commits and so
takes both ghosts away, which is harmless only because nobody else can move the
row out of `retrying` meanwhile. Most steps change nothing these parts look at
(`Unseen`); the coordinator, the monitor, a coroutine and the restart have a
lemma each. `MergedWasVetted` and `RowMatchesPR` follow.

**Budget.** `RetryBudget` is inductive with the types alone: every step keeps a
task's counter, clears it, or adds one where there was room under one of the two
limits (`Counted`).

**Approval.** `MergesNeedApproval` has two premises besides the assumptions, because
without them it is false (section 4): no outage, and no command but `approve`.
`Approval` says that outside full-auto a task in `ci_passed` shows a hold, was
approved, or is the one the monitor is about to hold (`Gated`), and that what
the monitor has listed for merging, or is merging, was approved
(`ApprovedListed`). Of the other actors it is enough to know that they move
nothing to `ci_passed`, clear no hold there without a consent and take no
consent away from it (`GateKept`); ownership says which rows those are.

**The PID lock.** The lock is a text, so `LockInv` is about what the file, and
the copies of it in the hands of starting workers, say. `Identity`: a pid
names one live process, and a start time belongs to one process ever, whether
it is in a file, in a copy or in the process table. `Guarded`, as long as no two
workers were between check and write at once: the file names the worker that
is past it (`FileNames`), a worker that has read it since has read that name
(`ReadersSee`), and nobody is about to remove or write a file (`NoWriters`). None
is inductive alone: a reader turns into a writer when the process it asks about
seems gone or recycled, and only with the name it has read and with `Identity`
can that be excluded. `OneWorker` follows, because two workers past the lock
would both be named by one file and one pid names one process.
`RefusedByWorker` is read off the two steps that refuse.

**The migrations.** The version table says little: each stage enters the final
version before the later stages have run, so that a version in it does not mean
that its columns are there. `SchemaInv` therefore follows the process that
migrates. `Progress(p)` says which columns there are, given the stage it is
at and how far it has come; `Complete` adds that this holds as long as no
migration was interrupted and no two overlapped, and that with nobody migrating
a database of the final version has every column. `Apart` is what makes one
process's progress survive the steps of the others: until two migrations
have overlapped, there is one at a time, and nobody is connected beside it.
`Entered` and `Staged` hold whatever overlaps; they are what `DataKept` needs,
because a rebuild copies the columns it knows, and a row may hold no others
while the final version has not been entered. `ReadyMeansCurrent` is `Complete`
at the moment a process has connected; `BlockedOnlyBy` reads the causes off
it, case by case. The induction is over steps, not over stages, and so
needs no induction over data. `HistoryAssumption` is part of the argument: a
database is new or has been through versions 1 to 8.

**The gate.** `GateInv` says that in review-all a queued task of an issue with no
hold is being entered by the poller or was let through, and that nobody has a
copy in hand of a task that was neither let through nor cut off. Every write
goes by such a copy or is a command of the operator, and thus the
statuses follow. `TypeCorrect` of OperationsProofs is proved beside it.

**Tasks and worktrees under operators.** Unlike in the pipeline, a task has
no single owner here: a command writes a row whatever loop has a copy of it.
`TaskOK(t)` says how much of ownership is left: until a command, or a recovery,
has met somebody's copy (`note.disputed`, `note.swept`), all busy copies of `t` are one and agree
with the row, whoever tidies up after a task finds it ended, and its worktree
can be found by its row (`Cleanable`, for which `completed_at` is followed
through every write). While the daemon is down the only busy copies left are
those of dispatches in the dashboard, and these are what a recovery may meet. `CommandOK` says what a command may still rely on of
the row it read. From these follows a law for every step, proved action by
action (`Lawful(t)`): a task keeps its issue and its dependency; what is
completed or cancelled stays so, a command apart; nobody starts a task whose
dependency is not met, and none returns to the queue unnoticed behind a dead
one; whose task dies, that cascade is under way in one of
the three processes (`Telling`). An outage and a recovery obey the law as well
(`OutageKeeps`, `RecoverKeeps`): what the first takes away is noted, and what
the second writes over is. The relations between two
tasks are then carried over once, from the law alone and for all steps
together (`WaitersKept`, `IssuesKept`): `Waits` and `Follows` for a task and the one
it waits for, `IssueOK` for the tasks of an issue and the issues the poller still
has before it. `Orderly`, the law, was checked by TLC on the instance of the run
`operations` before it was proved, and so was the invariant `OpsInv`.
`CancelledHolds` and `TreeSpared` speak of single steps and follow from `TaskOK`
and `CommandOK` directly.

**The rollup.** `CountsAgree` shows, entry by entry, that the loop's bookkeeping
agrees with GitHub's meaning of an entry (running, red); the three theorems lift
it to the answers. `PassedIsGreen` is about what the monitor takes for a
pass (`Passes`), which is more than the answer `success`: no answer of GitHub,
an unfinished or a red check never passes, and a rollup with no check at all
passes in full-auto and nowhere else.

## 7. Only model-checked

* Liveness (`EveryTaskSettles`): temporal reasoning under fairness is out of the
  prover's reach, and so is ENABLED.
* Nothing else of the runs' properties. Two of the theorems have premises,
  because without them they are false: `MergesNeedApproval` and
  `CascadesComplete`. The ways in which they fail are findings and observations of
  section 5, but for the outage within a cascade, which the hazards list.
* The findings themselves: a counterexample is a run.

## 8. Assumptions, and what is not modelled

* `gh` and `git` can be spawned, though their answers may be failures, timeouts
  and lost. Agents and the conflict check may fail to start.
* Writes to SQLite succeed and are atomic. A failing write in the exception
  handler of a dispatch would leave the task working; the hazard is listed.
* An exception of a GitHub call that ends a sweep before its list is done is not
  modelled: the rest of the list is taken up by the next sweep. A row's
  `pr_number` is always recorded with its `pr_url`, so the backfill of a missing
  number has nothing to do.
* In the pipeline time is nondeterministic: which rows fall in the breaker's
  window, when an agent or a check times out. Which rows really do is the
  subject of `TimeWindows`.
* A graceful stop only narrows the moments at which an outage may strike. A
  working row whose agent runs as another user is taken for dead at restart and
  requeued; the models allow that, but follow only one agent of a task.
* Which stored pid some process has at a restart is open, for any row that has
  one; neither model follows the processes behind the pids. Setting up a
  worktree, storing its path and storing the pid are one step: an outage of the
  daemon in between comes to the same as one afterwards, with no process found,
  since recovery clears path and pid then.
* The pipeline's own model and `Operations` meet in the rows but are checked
  apart: `Worker` has no cancellation and no dashboard, `Operations` no reviews.
  Once a task is disputed (a command or a recovery met somebody's copy of it)
  its holders go on, but nobody takes it up again, and no property speaks of
  it. That two drivers are possible is thus found, and what the two then do to
  each other is not followed.
* Which process a copy belongs to is told from the task: `single.drives` has the
  tasks whose latest dispatch ran in the dashboard, and a cleanup of a task named
  in a cleanup command counts as the command line's. The dashboard's refusal of
  a task it is just dispatching (`dashboard_api.py`, 409) is left out, which
  allows more. A dashboard that ends is there again at once, and does no recovery.
  A scenario has at most one outage.
* `escalate`, and edits of prompt, model and priority, touch no modelled column.
  The repair of a missing `pr_number` and the preflight (clones, graphs) decide
  nothing the properties tell apart.
* Column types, defaults and indexes of the schema are left out: a stage either
  has been applied or not.
* The dashboard's presentation and event stream, the agent backends, the vendored
  code graph, reflection, learnings and prompts, the safety patterns,
  notifications and the configuration keep no state of the pipeline; what they
  answer is a nondeterministic choice.

## 9. Plan

Done: the pipeline with its outages, the abstract lifecycle and the refinement;
the start with lock and migrations; intake, operator actions and cleanup; the
time windows and the rollup; proofs of all invariants and action properties of the
runs (section 6).

1. Cascades through outages and outside full-auto: what a waiting task can still
   be waiting for, instead of the premises of `CascadesComplete`.
2. Two commands at a time, and the second driver that a single dispatch starts,
   as an actor with a copy of its own.
