----------------------------- MODULE Operations -----------------------------
(***************************************************************************)
(* The daemon around its pipeline: issues become tasks, operators act on   *)
(* them, worktrees come and go.  The loops of the pipeline are here no     *)
(* more than the writes they do from their copies; Worker has them in full. *)
(***************************************************************************)
EXTENDS Intake, TaskActions, Artifacts

OnlyLoops == UNCHANGED <<poll, op, up, mode, denied>>

Init ==
    /\ denied \in AgentUser
    /\ row = [t \in Tasks |-> [NewRow(NoIssue, NoTask) EXCEPT !.status = "none"]]
    /\ hands = [t \in Tasks |-> {}]
    /\ falling = {}
    /\ single = [drives |-> {}, falling |-> {}]
    /\ tree = {}
    /\ poll = IdlePoll
    /\ op = IdleOp
    /\ up = TRUE
    /\ note = [disputed |-> {}, revived |-> {}, consent |-> {}, ungated |-> {},
               late |-> {}, unheard |-> {}, leaked |-> {}, swept |-> {},
               twice |-> {}, relabelled |-> {}]
    /\ left \in Scenarios
    /\ mode \in left.modes
    /\ \E labelled \in SUBSET Issues :
        /\ Cardinality(labelled) = left.issues
        /\ issue = [i \in Issues |-> [todo |-> i \in labelled, progress |-> FALSE,
                                     open |-> TRUE]]

-----------------------------------------------------------------------------
(* The loops.                                                              *)

DepMet(t) == row[t].dep # NoTask => row[row[t].dep].status = "completed"

\* claim_next_queued, up to the start of the coroutine.  A task that is picked
\* up between its creation and its gate is noted.
Claim(t) ==
    /\ up /\ Followed(t)
    /\ row[t].status = "queued" /\ ~row[t].held /\ DepMet(t)
    /\ row' = [row EXCEPT ![t].status = "working"]
    /\ PassOn(t, "none", {"setup"})
    /\ single' = [single EXCEPT !.drives = @ \ {t}]
    /\ note' = [note EXCEPT
         !.ungated = IF poll.task = t /\ poll.pc \in {"claim", "gate"}
                       THEN @ \cup {t} ELSE @]
    /\ OnlyLoops /\ UNCHANGED <<issue, falling, tree, left>>

\* setup_worktree removes what is there, and the path is stored; then the pid of
\* the agent.
SetUpTree(t) ==
    /\ "setup" \in hands[t]
    /\ tree' = tree \cup {t}
    /\ row' = [row EXCEPT ![t].named = TRUE, ![t].pid = TRUE]
    /\ PassOn(t, "setup", {"agent"})
    /\ OnlyLoops /\ UNCHANGED <<issue, falling, single, note, left>>

\* Retries, fallbacks, rejections and merge conflicts; the worktree stays where
\* it is for the next setup_worktree, and so does the pid.
Again(t, from) ==
    /\ from \in {"setup", "agent", "reviewing", "ci_passed"}
    /\ from \in hands[t]
    /\ row' = [row EXCEPT ![t] =
         [Afresh(@) EXCEPT !.pr = from \in {"setup", "agent"} /\ row[t].pr,
                           !.stamped = from # "ci_passed" /\ row[t].stamped]]
    /\ PassOn(t, from, {})
    /\ OnlyLoops /\ UNCHANGED <<issue, falling, single, tree, note, left>>

\* Only dispatch and the coordinator tell the dependents.
Tells(from) == from \in {"setup", "agent", "reviewing"}

\* Who still has the row as it was claimed does not know of a worktree, and
\* leaves it: dispatch reads its row again only before it publishes.
Knows(from) == IF from = "setup" THEN {FALSE}
               ELSE IF from = "agent" THEN BOOLEAN ELSE {TRUE}

InDashboard(t, from) == t \in single.drives /\ from \in {"setup", "agent"}

\* The failures after the pull request leave completed_at as the dispatch has set
\* it (that of a retry's agent sets it once more).
GiveUp(t, from) ==
    /\ from \in {"setup", "agent", "reviewing", "reviewed", "ci_passed", "retrying"}
    /\ from \in hands[t]
    /\ row' = [row EXCEPT ![t].status = "failed",
                          ![t].stamped = @ \/ from \in {"setup", "agent"}]
    /\ \E knows \in Knows(from) :
          PassOn(t, from, {"unlabel"} \cup (IF knows THEN {"clean"} ELSE {}))
    /\ falling' = IF Tells(from) /\ ~InDashboard(t, from) THEN falling \cup {t}
                                                          ELSE falling
    /\ single' = IF InDashboard(t, from) THEN [single EXCEPT !.falling = @ \cup {t}]
                                         ELSE single
    /\ note' = [note EXCEPT
         !.unheard = IF Tells(from) \/ Dependents(t) = {} THEN @ ELSE @ \cup {t},
         !.leaked  = IF from = "setup" THEN @ \cup ({t} \cap tree) ELSE @]
    /\ OnlyLoops /\ UNCHANGED <<issue, tree, left>>

\* The agent has changed nothing, or what it changed could not be published.
NoChanges(t) ==
    /\ "agent" \in hands[t]
    /\ row' = [row EXCEPT ![t].status = "completed", ![t].stamped = TRUE]
    /\ PassOn(t, "agent", {"unlabel", "clean"})
    /\ OnlyLoops /\ UNCHANGED <<issue, falling, single, tree, note, left>>

\* The dispatch is over, and completed_at says when.  Bound: drawn from left.prs.
OpenPR(t) ==
    /\ left.prs > 0
    /\ "agent" \in hands[t]
    /\ row' = [row EXCEPT ![t].status = "pr_created", ![t].pr = TRUE, ![t].stamped = TRUE]
    /\ single' = [single EXCEPT !.drives = @ \ {t}]
    /\ left' = [left EXCEPT !.prs = @ - 1]
    /\ PassOn(t, "agent", {})
    /\ OnlyLoops /\ UNCHANGED <<issue, falling, tree, note>>

\* The coordinator and the monitor list the tasks that wait for them, when they
\* are through with the last list; a task may turn out to wait longer.
Coordinators == {"listed", "reviewing"}
Monitors     == {"reviewed", "ci_passed", "retrying"}

ListPending(t) ==
    /\ up /\ Followed(t) /\ row[t].status = "pr_created"
    /\ hands[t] \cap Coordinators = {}
    /\ PassOn(t, "none", {"listed"})
    /\ OnlyLoops /\ UNCHANGED <<row, issue, falling, single, tree, note, left>>

ListChecked(t) ==
    /\ up /\ Followed(t) /\ row[t].status \in Monitors
    /\ hands[t] \cap Monitors = {}
    /\ PassOn(t, "none", {row[t].status})
    /\ OnlyLoops /\ UNCHANGED <<row, issue, falling, single, tree, note, left>>

PutBack(t, from) ==
    /\ from \in {"reviewed", "ci_passed"} \cap hands[t]
    /\ PassOn(t, from, {})
    /\ OnlyLoops /\ UNCHANGED <<row, issue, falling, single, tree, note, left>>

\* What a loop makes of a task it has listed, and who goes on.
Advance(t, from, status, to) ==
    /\ from \in hands[t]
    /\ row' = [row EXCEPT ![t].status = status, ![t].stamped = @ \/ status = "completed"]
    /\ PassOn(t, from, to)
    /\ OnlyLoops /\ UNCHANGED <<issue, falling, single, tree, note, left>>

Proceed(t) ==
    \/ Advance(t, "listed", "reviewing", {"reviewing"})
    \/ Advance(t, "reviewing", "reviewed", {})
    \/ Advance(t, "reviewed", "ci_passed", {"ci_passed"})
    \/ Advance(t, "reviewed", "retrying", {})
    \/ Advance(t, "retrying", "pr_created", {})
    \/ Advance(t, "ci_passed", "completed", {"close", "clean"})

CascadeFailed(u) ==
    /\ u \in falling
    /\ CascadeFrom(u)
    /\ falling' = (falling \ {u}) \cup Dependents(u)
    /\ Leaking(Dependents(u) \cap tree)
    /\ OnlyLoops /\ UNCHANGED <<issue, hands, single, tree, left>>

\* The same by a dispatch that runs in the dashboard.
CascadeSingle(u) ==
    /\ u \in single.falling
    /\ CascadeFrom(u)
    /\ single' = [single EXCEPT !.falling = (@ \ {u}) \cup Dependents(u)]
    /\ Leaking(Dependents(u) \cap tree)
    /\ OnlyLoops /\ UNCHANGED <<issue, hands, falling, tree, left>>

\* _mark_issue_failed, _mark_issue_no_changes
Unlabel(t) ==
    LET i == row[t].issue IN
    /\ "unlabel" \in hands[t]
    /\ EditLabels(i, [issue[i] EXCEPT !.progress = FALSE])
    /\ PassOn(t, "unlabel", {})
    /\ OnlyLoops /\ UNCHANGED <<row, falling, single, tree, note>>

\* A merged task: its issue is closed.
CloseIssue(t) ==
    LET i == row[t].issue IN
    /\ "close" \in hands[t]
    /\ EditLabels(i, [issue[i] EXCEPT !.progress = FALSE, !.open = FALSE])
    /\ PassOn(t, "close", {})
    /\ OnlyLoops /\ UNCHANGED <<row, falling, single, tree, note>>

PipelineStep ==
    \/ \E t \in Tasks : \/ Claim(t) \/ SetUpTree(t) \/ NoChanges(t) \/ OpenPR(t)
                        \/ ListPending(t) \/ ListChecked(t) \/ Proceed(t) \/ CascadeFailed(t)
                        \/ CascadeSingle(t) \/ Unlabel(t) \/ CloseIssue(t)
    \/ \E t \in Tasks, from \in Hands : Again(t, from) \/ GiveUp(t, from) \/ PutBack(t, from)

-----------------------------------------------------------------------------
(* Outages, and what is done about them.                                   *)

\* Which process has a copy: the command line that of a cleanup, the dashboard
\* those of its dispatches, the daemon all others.
Holder(t, h) ==
    IF h \in {"clean", "forget"} /\ t \in note.swept THEN "command"
    ELSE IF /\ t \in single.drives
            /\ h \in {"setup", "agent", "unlabel", "clean", "forget"} THEN "dashboard"
    ELSE "daemon"

\* Which process carries out a command.
Gives(kind) ==
    CASE kind = "cancel"  -> {"command"}
      [] kind = "approve" -> {"dashboard", "command"}
      [] OTHER            -> {"dashboard"}

\* The tasks whose dependents nobody is left to tell.
Lost(gone) == (IF "daemon" \in gone THEN falling ELSE {})
                \cup (IF "dashboard" \in gone THEN single.falling ELSE {})

\* Some of the processes end, and what they have in hand is gone.  Bound: outages
\* are drawn from left.outages, and one that makes no difference is left out.
Outage(gone) ==
    /\ left.outages > 0 /\ gone \in left.ends /\ ("daemon" \in gone => up)
    /\ left' = [left EXCEPT !.outages = @ - 1]
    /\ up' = (up /\ "daemon" \notin gone)
    /\ hands' = [t \in Tasks |-> {h \in hands[t] : Holder(t, h) \notin gone}]
    /\ falling' = IF "daemon" \in gone THEN {} ELSE falling
    /\ single' = IF "dashboard" \in gone THEN [drives |-> {}, falling |-> {}] ELSE single
    /\ poll' = IF "daemon" \in gone THEN IdlePoll ELSE poll
    /\ \E by \in Gives(op.kind) :
          /\ op' = IF by \in gone THEN IdleOp ELSE op
          /\ note' = [note EXCEPT
               !.unheard = @ \cup Lost(gone) \cup (IF by \in gone THEN op.fell ELSE {}),
               !.ungated = IF "daemon" \in gone /\ poll.pc \in {"claim", "gate"}
                             THEN @ \cup {poll.task} ELSE @]
    /\ <<hands, falling, single, poll, op, up>>' # <<hands, falling, single, poll, op, up>>
    /\ UNCHANGED <<row, issue, tree, mode, denied>>

\* recover_stale_tasks, when the daemon is started again: a working row stays as
\* it is when some process has its pid, otherwise it goes back to the queue,
\* whether or not a dispatch goes on with it in the dashboard.
Recover ==
    /\ ~up
    /\ up' = TRUE
    /\ \E alive \in SUBSET {t \in Tasks : row[t].status = "working" /\ row[t].pid} :
          LET stale == {t \in Tasks : row[t].status = "working"} \ alive IN
          /\ row' = [t \in Tasks |->
                       IF row[t].status = "reviewing"
                         THEN [row[t] EXCEPT !.status = "pr_created"]
                       ELSE IF t \in stale
                         THEN [row[t] EXCEPT !.status = "queued", !.named = FALSE,
                                             !.pid = FALSE]
                       ELSE row[t]]
          /\ note' = [note EXCEPT
               !.disputed = @ \cup {t \in stale : {"setup", "agent"} \cap hands[t] # {}}]
    /\ UNCHANGED <<issue, hands, falling, single, tree, poll, op, mode, denied, left>>

\* Who reads "Re-add the backporcher label to retry" does so.  Bound: drawn
\* from left.labels.
LabelAgain(i) ==
    /\ left.labels > 0
    /\ issue[i].open /\ ~issue[i].todo /\ ~issue[i].progress
    /\ issue' = [issue EXCEPT ![i].todo = TRUE]
    /\ left' = [left EXCEPT !.labels = @ - 1]
    /\ note' = [note EXCEPT !.relabelled = @ \cup {i}]
    /\ UNCHANGED <<row, hands, falling, single, tree, poll, op, up, mode, denied>>

Next ==
    \/ PollerStep
    \/ OperatorStep
    \/ ArtifactStep
    \/ PipelineStep
    \/ \E gone \in SUBSET Processes : Outage(gone)
    \/ Recover
    \/ \E i \in Issues : LabelAgain(i)

Spec == Init /\ [][Next]_vars

-----------------------------------------------------------------------------
\* Types.
TypeOK ==
    /\ row \in [Tasks -> Row]
    /\ issue \in [Issues -> Issue]
    /\ hands \in [Tasks -> SUBSET Hands]
    /\ falling \in SUBSET Tasks
    /\ single \in Single
    /\ tree \in SUBSET Tasks
    /\ poll \in Poller
    /\ op \in Operator
    /\ up \in BOOLEAN
    /\ mode \in Modes
    /\ denied \in BOOLEAN
    /\ note \in Notes
    /\ left \in Scenario

\* A cancelled task stays cancelled until somebody queues it again, unless the
\* command met a task that a loop had in hand ("Kill agent, cancel task"): the
\* holder of a copy writes whatever it comes to over the cancellation.  A task
\* that a dispatch in the dashboard went on with over a recovery counts as in
\* somebody's hands from then on.
CancelledHolds ==
    [][\A t \in Tasks :
         row[t].status = "cancelled" /\ row'[t].status # "cancelled" =>
           \/ op.pc = "write" /\ op.kind = "requeue" /\ op.task = t
           \/ t \in note.disputed]_vars

\* get_task_by_issue keeps an issue from having two unfinished tasks.  It takes
\* a task that was queued again after its issue was free, one with two holders (a
\* command met a copy in a loop's hands, or a recovery one in the dashboard's), or
\* a plan that names the issue twice, to get around it.
OneTaskPerIssue ==
    \A t, u \in {x \in Tasks : row[x].status \notin Terminal \cup {"none"}} :
        t # u /\ row[t].issue = row[u].issue /\ row[t].issue # NoIssue =>
            \/ {t, u} \cap (note.revived \cup note.disputed) # {}
            \/ row[t].issue \in note.twice

\* In review-all no task of an issue gets past the queue without the operator,
\* except one that was claimed, or cut off by an outage, between its creation
\* and its hold.
GateHolds ==
    mode = "review-all" =>
        \A t \in Tasks :
            /\ row[t].issue # NoIssue
            /\ row[t].status \notin {"none", "queued"} \cup Dead
            => t \in note.consent \cup note.ungated

\* A task waits behind a dead one only while the dependents of that one are
\* about to be told, or when it was put there too late to hear of it, or when
\* the dead one fell where nobody tells (the CI monitor), or its teller was cut
\* off by an outage (a daemon, a dashboard or a command that was killed), or it
\* had been completed before, or had two holders.
DependentsOfDead ==
    \A t \in Tasks :
        row[t].status = "queued" /\ BehindDead(t) =>
            \/ row[t].dep \in falling \cup single.falling \cup op.fell
            \/ t \in note.late
            \/ row[t].dep \in note.unheard \cup note.revived \cup note.disputed

\* The worktree of a task is taken away only when the task is over and nobody
\* works in it; a task that was queued again while its removal was under way or
\* an agent of the dashboard was at work in it, or that the operator names in a
\* cleanup, is not safe from it.
Busy == {"setup", "agent", "listed", "reviewing", "reviewed", "ci_passed", "retrying"}
TreeSpared ==
    [][\A t \in tree \ tree' :
         \/ row[t].status \in Terminal /\ hands[t] \cap Busy = {}
         \/ t \in note.disputed \cup note.swept]_vars

\* The worktree of a finished task is still on the list of the periodic sweep,
\* which "catches stragglers": the row names it and says when the task ended.
\* Except that of a task that came back to the queue and died there or before its
\* next run set up a worktree, that had two holders, or was named in a cleanup.
TreesRemembered ==
    \A t \in tree :
        row[t].status \in Terminal /\ hands[t] = {} =>
            Cleanable(t) \/ t \in note.leaked \cup note.disputed \cup note.swept

\* "Re-add the `backporcher` label to retry" (_mark_issue_failed): when every
\* task of the issue is over, the next poll takes it for a new one.
RelabelledIsNew ==
    \A i \in note.relabelled :
        /\ poll.pc = "idle" /\ Listed(i)
        /\ \A t \in Tasks : row[t].issue = i => row[t].status \in Terminal
        => ~Exists(i)
=============================================================================
