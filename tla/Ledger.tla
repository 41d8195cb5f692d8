------------------------------- MODULE Ledger -------------------------------
(***************************************************************************)
(* The task rows and the labels of the issues, as those see them who come  *)
(* from outside the pipeline: the issue poller, the operator's task        *)
(* commands and the removal of worktrees.  A step is one commit to the     *)
(* database, one "gh issue edit", or one removal.                          *)
(*                                                                         *)
(* Nobody looks at a row when it is written (update_task): each actor has  *)
(* read it before and goes by its copy.  hands[t] are the copies of row t  *)
(* in somebody's hands, each by what its holder takes the task to be; two  *)
(* holders that take it to be the same count as one.                       *)
(*                                                                         *)
(* Three processes hold them: the worker daemon; the dashboard, with the    *)
(* commands and the single dispatches it was asked for; and the command     *)
(* line.  A dashboard embedded in the daemon ends with it, one that is a    *)
(* service of its own may outlive it.                                       *)
(***************************************************************************)
EXTENDS Naturals, FiniteSets

CONSTANTS
    NumTasks,   \* rows the table has room for, numbered in creation order
    Issues,     \* the issues
    NoIssue,    \* github_issue_number is NULL
    AgentUser,  \* whether agents run as another user, who cannot be signalled
    Scenarios   \* bounds: what a run may have

Tasks  == 1..NumTasks
NoTask == 0

Modes    == {"full-auto", "review-merge", "review-all"}
AllKinds == {"cancel", "reject", "requeue", "edit", "dispatch", "approve",
             "create", "cleanup"}

Processes == {"daemon", "dashboard", "command"}

\* The approval modes; how many issues are labelled to begin with; how many
\* rows and pull requests a run may create; which commands the operator may
\* give and how many; how many label edits may fail; how many outages, and of
\* which processes at a time; how many issues are labelled again.
Scenario == [modes: SUBSET Modes, issues: Nat, rows: 1..NumTasks, prs: Nat,
             kinds: SUBSET AllKinds, commands: Nat, edits: Nat, outages: Nat,
             ends: SUBSET SUBSET Processes, labels: Nat]

ASSUME LedgerAssumption ==
    /\ NumTasks \in Nat \ {0}
    /\ NoIssue \notin Issues
    /\ AgentUser \subseteq BOOLEAN
    /\ Scenarios \subseteq Scenario

VARIABLES
    row,      \* the tasks table
    issue,    \* the labels and the state of each issue on GitHub
    hands,    \* who works from a copy of a row
    falling,  \* tasks whose dependents are still to be failed by the daemon
    single,   \* what the dispatches have in hand that run in the dashboard
    tree,     \* tasks whose worktree is on disk
    poll,     \* the issue poller
    op,       \* the operator's command
    up,       \* the daemon runs
    mode,     \* config.approval_mode
    denied,   \* config.agent_user is set
    note,     \* ghost: what happened that the properties make allowance for
    left      \* what is left of the scenario

vars == <<row, issue, hands, falling, single, tree, poll, op, up, mode, denied, note, left>>

-----------------------------------------------------------------------------
\* "none" is a number not yet given out.
Status   == {"none", "queued", "working", "pr_created", "reviewing", "reviewed",
             "ci_passed", "retrying", "completed", "failed", "cancelled"}
Terminal == {"completed", "failed", "cancelled"}
Dead     == {"failed", "cancelled"}

\* named: worktree_path or branch_name is set; pr: pr_url is set; pid: agent_pid
\* is set; stamped: completed_at is set.  Of the holds only the dispatch gate is
\* kept here.
Row   == [status: Status, held: BOOLEAN, dep: 0..NumTasks,
          issue: Issues \cup {NoIssue}, named: BOOLEAN, pr: BOOLEAN, pid: BOOLEAN,
          stamped: BOOLEAN]
Issue == [todo: BOOLEAN, progress: BOOLEAN, open: BOOLEAN]

\* "setup" and "agent": the dispatch coroutine; "listed": in the coordinator's
\* list; "reviewed", "ci_passed", "retrying": in a list of the CI monitor;
\* "unlabel", "close": about to edit the issue; "clean", "forget": about to
\* remove the worktree, and to clear its path.
Hands == {"setup", "agent", "listed", "reviewing", "reviewed", "ci_passed",
          "retrying", "unlabel", "close", "clean", "forget"}

\* drives: tasks whose latest dispatch runs, or ran, in the dashboard; falling:
\* tasks whose dependents such a dispatch is still to fail.
Single == [drives: SUBSET Tasks, falling: SUBSET Tasks]

\* disputed: written by a command although the row was in somebody's hands or
\* had changed since the command read it, or by a recovery although a dispatch in
\* the dashboard goes on with it; revived: queued again after they were completed
\* or cancelled; consent: let through the gate by the operator; ungated:
\* interrupted before the gate was set; late: put behind a task that was dead, or
\* started ahead of its dependency; unheard: died with nobody telling the
\* dependents, or whose teller was cut off by an outage; leaked: died with a
\* worktree of an earlier run that the row did not name; swept: named in a
\* cleanup command; twice: planned twice in one batch; relabelled: issues
\* labelled again.
Notes == [disputed: SUBSET Tasks, revived: SUBSET Tasks, consent: SUBSET Tasks,
          ungated: SUBSET Tasks, late: SUBSET Tasks, unheard: SUBSET Tasks,
          leaked: SUBSET Tasks, swept: SUBSET Tasks, twice: SUBSET Issues,
          relabelled: SUBSET Issues]

IdlePoll == [pc |-> "idle", todo |-> {}, plan |-> {}, made |-> {}, task |-> NoTask]
IdleOp   == [pc |-> "idle", kind |-> "none", task |-> NoTask, seen |-> "none",
             fell |-> {}]

Poller   == [pc: {"idle", "create", "claim", "gate"}, todo: SUBSET Issues,
             plan: SUBSET Issues, made: SUBSET Tasks, task: 0..NumTasks]
Operator == [pc: {"idle", "kill", "reset", "write", "cascade", "label"},
             kind: AllKinds \cup {"none"}, task: 0..NumTasks, seen: Status,
             fell: SUBSET Tasks]

NewRow(i, d) == [status |-> "queued", held |-> FALSE, dep |-> d, issue |-> i,
                 named |-> FALSE, pr |-> FALSE, pid |-> FALSE, stamped |-> FALSE]

\* Bound: rows.
Unused == {t \in 1..left.rows : row[t].status = "none"}
IsFree(t) == t \in Unused /\ \A u \in Unused : t <= u

\* The row of a task that is to run again, with nothing left of the last run.
Afresh(r) == [r EXCEPT !.status = "queued", !.named = FALSE, !.pr = FALSE]

BehindDead(t) == row[t].dep # NoTask /\ row[row[t].dep].status \in Dead

\* Bound: nobody takes up a disputed task again, about which no property says
\* anything any more; who has it in hand goes on with it.
Followed(t) == t \notin note.disputed

PassOn(t, from, to) == hands' = [hands EXCEPT ![t] = (@ \ {from}) \cup to]

\* Variant: whatever their status.
Dependents_All(u) == {t \in Tasks : row[t].dep = u}

\* handle_dependency_failure for one task: one commit.
Dependents(u) == {t \in Tasks : row[t].dep = u /\ row[t].status = "queued"}
CascadeFrom(u) ==
    row' = [t \in Tasks |-> IF t \in Dependents(u)
                              THEN [row[t] EXCEPT !.status = "failed", !.stamped = TRUE]
                              ELSE row[t]]
Leaking(fell) == note' = [note EXCEPT !.leaked = @ \cup fell]

\* update_issue_labels; a failure is logged and forgotten.  Bound: drawn from
\* left.edits.
EditLabels(i, after) ==
    \/ /\ issue' = IF i = NoIssue THEN issue ELSE [issue EXCEPT ![i] = after]
       /\ UNCHANGED left
    \/ /\ i # NoIssue
       /\ left.edits > 0
       /\ left' = [left EXCEPT !.edits = @ - 1]
       /\ UNCHANGED issue
=============================================================================
