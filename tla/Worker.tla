------------------------------- MODULE Worker -------------------------------
(***************************************************************************)
(* The worker daemon: its actors run side by side, may all be lost between *)
(* two steps, and are started again by recover_stale_tasks.                *)
(***************************************************************************)
EXTENDS Executor, Dispatch, Coordinator, CIMonitor, OperatorHolds

\* Every task is queued, behind at most one earlier task (create_task_from_issue,
\* batch_create_tasks); in review-all it is held for dispatch approval.
Init ==
    /\ mode \in Modes
    /\ \E d \in [Tasks -> Tasks \union {NoTask}] :
          /\ \A t \in Tasks : d[t] < t
          /\ row = [t \in Tasks |->
                      [status |-> "queued",
                       hold   |-> IF mode = "review-all" THEN "dispatch_approval"
                                                         ELSE "none",
                       dep    |-> d[t],
                       retry  |-> 0, agent |-> 1, fallback |-> 0,
                       branch |-> FALSE, pid |-> FALSE, pr |-> 0, stamped |-> FALSE,
                       error  |-> "none"]]
    /\ gh = [t \in Tasks |-> [num |-> 0, state |-> "none", reviewed |-> FALSE,
                              green |-> FALSE, consent |-> FALSE]]
    /\ paused = FALSE
    /\ up = TRUE
    /\ adrift = [check |-> {}, pid |-> {}]
    /\ exec = IdleExec
    /\ slot = [s \in Slots |-> IdleSlot]
    /\ rev = IdleRev
    /\ mon = IdleMon
    /\ cmd = NoCmd
    /\ faults = MaxFaults
    /\ crashes = MaxCrashes

-----------------------------------------------------------------------------
(* Outage: every loop is lost between two steps.  Agents are started in    *)
(* sessions of their own and may outlive the daemon; the pid of one that   *)
(* has not may be another process's by the time of the restart.            *)

\* Bound: outages are drawn from crashes.
Crash ==
    /\ up /\ crashes > 0
    /\ crashes' = crashes - 1
    /\ up' = FALSE
    /\ exec' = IdleExec
    /\ slot' = [s \in Slots |-> IdleSlot]
    /\ rev' = IdleRev
    /\ mon' = IdleMon
    /\ UNCHANGED <<row, gh, mode, adrift, operator, faults>>

\* Variants: reviews, or agents, interrupted by the outage are not recovered.
Recovered_NoReviews(t, answered) ==
    IF row[t].status = "working" /\ t \notin answered
      THEN [row[t] EXCEPT !.status = "queued", !.error = "none", !.branch = FALSE,
                          !.pid = FALSE]
      ELSE row[t]
Recovered_NoAgents(t, answered) ==
    IF row[t].status = "reviewing" THEN [row[t] EXCEPT !.status = "pr_created"] ELSE row[t]

\* recover_stale_tasks: one transaction.  A working row keeps its status when a
\* process has the stored pid; pr_number and hold are left as they are.
Recovered(t, answered) ==
    CASE row[t].status = "reviewing" -> [row[t] EXCEPT !.status = "pr_created"]
      [] row[t].status = "working" /\ t \notin answered ->
            [row[t] EXCEPT !.status = "queued", !.error = "none", !.branch = FALSE,
                           !.pid = FALSE]
      [] OTHER -> row[t]

\* Which of the stored pids answer, and to whom they belong by now, is open: the
\* agent of the row, any process since, or nobody who may be signalled.
Restart ==
    /\ ~up
    /\ up' = TRUE
    /\ \E answered \in SUBSET {t \in Tasks : row[t].status = "working" /\ row[t].pid} :
          /\ row' = [t \in Tasks |-> Recovered(t, answered)]
          /\ adrift' = [check |-> {}, pid |-> answered]
    /\ UNCHANGED <<gh, mode, crashes, exec, slot, rev, mon, operator, faults>>

-----------------------------------------------------------------------------
Next == \/ ExecutorStep \/ DispatchStep \/ CoordinatorStep \/ MonitorStep
        \/ OperatorStep \/ Crash \/ Restart

Spec == Init /\ [][Next]_vars

\* Fairness: every loop of a running daemon is scheduled again, a stopped
\* daemon is started again, a command that was accepted is carried out, and
\* the checks of a pull request that is asked about again and again answer.
Fairness ==
    /\ WF_vars(ExecutorStep)
    /\ \A s \in Slots : WF_vars(CoroutineStep(s))
    /\ WF_vars(CoordinatorStep)
    /\ WF_vars(MonitorStep)
    /\ WF_vars(SetHold \/ ClearHold)
    /\ WF_vars(Restart)
    /\ \A t \in Tasks : SF_vars(ChecksPass(t) \/ ChecksFail(t))

LiveSpec == Spec /\ Fairness

-----------------------------------------------------------------------------
(* Properties.                                                             *)

TypeOK ==
    /\ row \in [Tasks -> Row]
    /\ gh \in [Tasks -> PullRequest]
    /\ mode \in Modes
    /\ paused \in BOOLEAN
    /\ up \in BOOLEAN
    /\ adrift \in Adrift
    /\ exec \in Executor
    /\ slot \in [Slots -> Coroutine]
    /\ rev \in Reviewer
    /\ mon \in Monitor
    /\ cmd \in Command
    /\ faults \in Nat
    /\ crashes \in Nat

Driving == {"setup", "worktree", "agent", "verify", "fix", "publish", "opened"}

\* Each loop writes status without looking at it (db.py update_task): this is
\* safe only while a task is in one loop's hands at a time, and the row says
\* in whose.  The parts of SingleOwner say so loop by loop.
ExecutorOwns ==
    IF exec.pc \in {"poll", "claim"}
      THEN exec.task = NoTask /\ exec.snap = {}
      ELSE /\ exec.task \in Tasks \ exec.snap
           /\ row[exec.task].status = "working"
           /\ \A s \in Slots : slot[s].task # exec.task
CoroutineOwns(s) ==
    /\ slot[s].pc # "idle" => slot[s].task \in Tasks
    /\ slot[s].pc \in Driving => row[slot[s].task].status = "working"
    /\ slot[s].pc \in {"clean", "cascade"} => row[slot[s].task].status \in Terminal
    /\ slot[s].pc = "idle" => slot[s] = IdleSlot
    /\ \A u \in slot[s].todo : row[u].status = "failed"
CoroutinesOwn == \A s \in Slots : CoroutineOwns(s)
CoroutinesDisjoint ==
    \A s1, s2 \in Slots :
        s1 # s2 /\ slot[s1].pc # "idle" => slot[s1].task # slot[s2].task
ReviewerOwns ==
    /\ \A t \in rev.todo : row[t].status = "pr_created"
    /\ rev.pc # "idle" => rev.task \in Tasks
    /\ rev.pc \in {"review", "closed"} => row[rev.task].status = "reviewing"
    /\ rev.pc \in {"cascade", "clean"} => row[rev.task].status = "failed"
    /\ \A u \in rev.fell : row[u].status = "failed"
MonitorOwns ==
    /\ \A t \in mon.todo : row[t].status = SweepStatus(mon.sweep)
    /\ mon.pc # "each" => mon.task \in Tasks /\ mon.task \notin mon.todo
    /\ mon.pc \in {"gate", "merge", "acked", "refused", "requeue"} =>
          row[mon.task].status = "ci_passed"
    /\ mon.pc = "pushed" => row[mon.task].status = "retrying"
    /\ mon.pc = "clean" => row[mon.task].status \in Terminal

OutageReleases ==
    ~up => /\ exec = IdleExec
           /\ \A s \in Slots : slot[s] = IdleSlot
           /\ rev = IdleRev
           /\ mon = IdleMon

SingleOwner ==
    /\ ExecutorOwns
    /\ CoroutinesOwn
    /\ CoroutinesDisjoint
    /\ ReviewerOwns
    /\ MonitorOwns
    /\ OutageReleases

\* A task is started, and stays beyond "queued", only behind a dependency that
\* is complete, although the conflict check rewrites dependencies while other
\* tasks move (claim_next_queued, try_claim_and_dispatch).
DependenciesMet ==
    \A t \in Tasks : row[t].status \notin {"queued", "failed"} => DepMet(t)

\* No set of tasks waits in a circle: serializing a conflict never closes one.
NoDependencyCycle ==
    \A S \in SUBSET Tasks : S # {} => \E t \in S : row[t].dep \notin S

\* What is merged was approved by the coordinator and had its checks accepted
\* after the last push, through CI retries, conflicts, rejections and outages.
MergedWasVetted ==
    \A t \in Tasks : gh[t].state = "merged" => gh[t].reviewed /\ gh[t].green

\* A task whose pull request is merged is never run again.
MergedNeverRerun ==
    \A t \in Tasks :
        gh[t].state = "merged" => row[t].status \in {"ci_passed", "completed", "failed"}

\* From pr_created to completion the row names the newest pull request, and a
\* task that may be sent to a CI retry still has its branch.
RowMatchesPR ==
    \A t \in Tasks :
        row[t].status \in {"pr_created", "reviewing", "reviewed", "ci_passed", "retrying"} =>
            /\ row[t].branch
            /\ row[t].pr = gh[t].num
            /\ row[t].pr # 0

\* README.md:36: outside full-auto nothing is merged without "approve".  It
\* holds while the daemon is not interrupted and no other command clears holds.
MergeNeedsApproval ==
    \A t \in Tasks :
        mode # "full-auto" /\ gh[t].state = "merged" => gh[t].consent

\* The failures whose code path calls handle_dependency_failure reach every
\* queued dependent: none is left waiting once no cascade is under way.  (In
\* full-auto; elsewhere the conflict check may add an edge afterwards.)
CascadeComplete ==
    \A t \in Tasks :
        /\ mode = "full-auto"
        /\ row[t].status = "queued"
        /\ row[t].dep # NoTask
        /\ row[row[t].dep].status = "failed"
        /\ row[row[t].dep].error \in {"dispatch", "review", "dependency"}
        => \/ \E s \in Slots : row[t].dep \in slot[s].todo
           \/ row[t].dep \in rev.fell

\* One retry budget is shared by agent failures, errors, rejections and CI.
RetryBudget ==
    \A t \in Tasks : row[t].retry <= MaxTaskRetries \/ row[t].retry <= MaxCIRetries

\* Completed and failed are final, whatever a loop still holds of the task.
TerminalIsFinal ==
    [][\A t \in Tasks : row[t].status \in Terminal => row'[t].status = row[t].status]_vars

\* A working task is in somebody's hands, through outages, retries and the trips
\* of the circuit breaker.  Two steps of the code leave one to nobody: the
\* conflict check that raises, and the recovery that finds a process, be it the
\* agent or a stranger, with the pid stored in the row.
Attended(t) ==
    \/ exec.pc \in {"vet", "trip", "conflict"} /\ exec.task = t
    \/ \E s \in Slots : slot[s].pc \in Driving /\ slot[s].task = t
LeftAlone == adrift.check \union adrift.pid
NoneStranded ==
    \A t \in Tasks :
        up /\ row[t].status = "working" => Attended(t) \/ t \in LeftAlone

\* No task is left in limbo: again and again it is finished, held, waiting for
\* a dependency, or left to nobody in one of those two ways.
Settled(t) ==
    \/ row[t].status \in Terminal
    \/ row[t].hold # "none"
    \/ row[t].status = "queued" /\ ~DepMet(t)
    \/ row[t].status = "working" /\ t \in LeftAlone
EveryTaskSettles == \A t \in Tasks : []<>Settled(t)

-----------------------------------------------------------------------------
(* What the documentation says and the code does not do.                   *)

\* README.md:225: when a task fails, the queued tasks that depend on it are
\* failed: here, once no cascade is under way.
FailureReachesDependents ==
    \A t \in Tasks :
        /\ row[t].status = "queued"
        /\ row[t].dep # NoTask
        /\ row[row[t].dep].status = "failed"
        /\ up /\ exec.pc = "poll" /\ rev.pc = "idle" /\ mon.pc = "each"
        => \E s \in Slots : slot[s].pc # "idle"

\* README.md:223: on restart stale working tasks go back to the queue, and no
\* manual intervention is needed.
RestartRequeuesWorking ==
    \A t \in Tasks :
        up /\ row[t].status = "working" =>
            \/ exec.task = t
            \/ \E s \in Slots : slot[s].task = t
=============================================================================
