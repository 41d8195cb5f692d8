---------------------------- MODULE TaskActions -----------------------------
(***************************************************************************)
(* What an operator does to tasks: "backporcher cancel" and "cleanup"      *)
(* (cli_tasks.py) and the actions of the dashboard (dashboard_actions.py,  *)
(* dashboard_api.py).  A command reads the row, decides, and writes; its   *)
(* write does not look at the row again.  One command runs at a time.      *)
(* Edits of prompt, model or priority alone are left out.                  *)
(***************************************************************************)
EXTENDS Ledger

OnlyOperator == UNCHANGED <<poll, up, mode, denied>>

\* The statuses in which a command is accepted.
Accepts(kind) ==
    CASE kind = "cancel"   -> {"queued", "working", "reviewing", "retrying"}
      [] kind = "reject"   -> {"working", "pr_created", "reviewing", "reviewed",
                               "ci_passed"}
      [] kind = "requeue"  -> Terminal
      [] kind = "edit"     -> {"failed"}
      [] kind = "dispatch" -> {"queued", "failed"}
      [] kind = "approve"  -> Status \ {"none"}
      [] OTHER             -> {}

\* Where a command goes after its read.
FirstStep(kind, status) ==
    CASE kind = "cancel" /\ status # "queued"    -> "kill"
      [] kind = "reject" /\ status = "working"   -> "kill"
      [] kind = "dispatch" /\ status = "failed"  -> "reset"
      [] OTHER                                   -> "write"

\* Bound: commands are drawn from left.commands.
ReadTask(kind, t) ==
    /\ op.pc = "idle"
    /\ Followed(t) /\ kind \in left.kinds /\ left.commands > 0
    /\ row[t].status \in Accepts(kind)
    /\ kind = "approve" => row[t].held
    /\ op' = [IdleOp EXCEPT !.pc = FirstStep(kind, row[t].status), !.kind = kind,
                            !.task = t, !.seen = row[t].status]
    /\ left' = [left EXCEPT !.commands = @ - 1]
    /\ OnlyOperator /\ UNCHANGED <<row, issue, hands, falling, single, tree, note>>

\* killpg, then kill: a PermissionError of the second ends the command.
SignalAgent ==
    /\ op.pc = "kill"
    /\ \/ op' = [op EXCEPT !.pc = "write"]
       \/ denied /\ op' = IdleOp
    /\ OnlyOperator /\ UNCHANGED <<row, issue, hands, falling, single, tree, note, left>>

\* The row was in somebody's hands, or is not what the command has read.
Disputed(t) == hands[t] # {} \/ row[t].status # op.seen

Noting(t, extra) ==
    note' = [extra EXCEPT !.disputed = IF Disputed(t) THEN @ \cup {t} ELSE @]

\* Variant: the dependents are not told.
WriteCancelled_NoCascade ==
    LET t == op.task IN
    /\ op.pc = "write" /\ op.kind \in {"cancel", "reject"}
    /\ row' = [row EXCEPT ![t].status = "cancelled", ![t].stamped = TRUE,
                          ![t].held = op.kind = "cancel" /\ @]
    /\ op' = [op EXCEPT !.pc = "label"]
    /\ Noting(t, [note EXCEPT
         !.leaked = IF row[t].named THEN @ ELSE @ \cup ({t} \cap tree)])
    /\ OnlyOperator /\ UNCHANGED <<issue, hands, falling, single, tree, left>>

\* Variant: a status that no query knows.
WriteCancelled_Misspelt ==
    LET t == op.task IN
    /\ op.pc = "write" /\ op.kind \in {"cancel", "reject"}
    /\ row' = [row EXCEPT ![t].status = "canceled"]
    /\ op' = [op EXCEPT !.pc = "cascade", !.fell = {t}]
    /\ OnlyOperator /\ UNCHANGED <<issue, hands, falling, single, tree, note, left>>

\* cancel leaves the hold in place, reject clears it.
WriteCancelled ==
    LET t == op.task IN
    /\ op.pc = "write" /\ op.kind \in {"cancel", "reject"}
    /\ row' = [row EXCEPT ![t].status = "cancelled", ![t].stamped = TRUE,
                          ![t].held = op.kind = "cancel" /\ @]
    /\ op' = [op EXCEPT !.pc = "cascade", !.fell = {t}]
    /\ Noting(t, [note EXCEPT
         !.leaked = IF row[t].named THEN @ ELSE @ \cup ({t} \cap tree)])
    /\ OnlyOperator /\ UNCHANGED <<issue, hands, falling, single, tree, left>>

CascadeCancelled(u) ==
    LET rest == (op.fell \ {u}) \cup Dependents(u) IN
    /\ op.pc = "cascade" /\ u \in op.fell
    /\ CascadeFrom(u)
    /\ Leaking(Dependents(u) \cap tree)
    /\ op' = [op EXCEPT !.fell = rest, !.pc = IF rest = {} THEN "label" ELSE "cascade"]
    /\ OnlyOperator /\ UNCHANGED <<issue, hands, falling, single, tree, left>>

RestoreLabels ==
    LET i == row[op.task].issue IN
    /\ op.pc = "label"
    /\ EditLabels(i, [issue[i] EXCEPT !.todo = TRUE, !.progress = FALSE])
    /\ op' = IdleOp
    /\ OnlyOperator /\ UNCHANGED <<row, hands, falling, single, tree, note>>

\* requeue clears the hold and the pid, editing a failed task does not.
WriteQueued ==
    LET t == op.task IN
    /\ op.pc = "write" /\ op.kind \in {"requeue", "edit"}
    /\ row' = [row EXCEPT ![t] =
         [Afresh(@) EXCEPT !.held = op.kind = "edit" /\ row[t].held,
                           !.pid  = op.kind = "edit" /\ row[t].pid, !.stamped = FALSE]]
    /\ op' = IdleOp
    /\ Noting(t, [note EXCEPT
         !.revived = IF op.seen \in {"completed", "cancelled"} THEN @ \cup {t} ELSE @,
         !.late = IF BehindDead(t) THEN @ \cup {t} ELSE @,
         !.consent = IF op.kind = "requeue" THEN @ \cup {t} ELSE @])
    /\ OnlyOperator /\ UNCHANGED <<issue, hands, falling, single, tree, left>>

\* Single dispatch of a failed task: it is in the queue for a moment.
ResetFailed ==
    LET t == op.task IN
    /\ op.pc = "reset"
    /\ row' = [row EXCEPT ![t] =
         [Afresh(@) EXCEPT !.held = FALSE, !.pid = FALSE, !.stamped = FALSE]]
    /\ op' = [op EXCEPT !.pc = "write", !.seen = "queued"]
    /\ Noting(t, [note EXCEPT !.consent = @ \cup {t},
                              !.late = IF BehindDead(t) THEN @ \cup {t} ELSE @])
    /\ OnlyOperator /\ UNCHANGED <<issue, hands, falling, single, tree, left>>

\* ... and is started, in the dashboard's process, whatever it depends on and
\* whoever has claimed it since.
WriteDispatched ==
    LET t == op.task IN
    /\ op.pc = "write" /\ op.kind = "dispatch"
    /\ row' = [row EXCEPT ![t].status = "working", ![t].held = FALSE]
    /\ hands' = [hands EXCEPT ![t] = @ \cup {"setup"}]
    /\ single' = [single EXCEPT !.drives = @ \cup {t}]
    /\ op' = IdleOp
    /\ Noting(t, [note EXCEPT !.consent = @ \cup {t},
         !.late = IF row[t].dep # NoTask THEN @ \cup {t} ELSE @])
    /\ OnlyOperator /\ UNCHANGED <<issue, falling, tree, left>>

WriteApproved ==
    /\ op.pc = "write" /\ op.kind = "approve"
    /\ row' = [row EXCEPT ![op.task].held = FALSE]
    /\ op' = IdleOp
    /\ note' = [note EXCEPT !.consent = @ \cup {op.task}]
    /\ OnlyOperator /\ UNCHANGED <<issue, hands, falling, single, tree, left>>

\* A task with no issue; the gate is not for it.
CreateManually(t) ==
    /\ "create" \in left.kinds
    /\ left.commands > 0
    /\ IsFree(t)
    /\ row' = [row EXCEPT ![t] = NewRow(NoIssue, NoTask)]
    /\ left' = [left EXCEPT !.commands = @ - 1]
    /\ OnlyOperator /\ UNCHANGED <<issue, hands, falling, single, tree, op, note>>

OperatorStep ==
    \/ \E kind \in AllKinds, t \in Tasks : ReadTask(kind, t)
    \/ SignalAgent \/ WriteCancelled \/ RestoreLabels
    \/ WriteQueued \/ ResetFailed \/ WriteDispatched \/ WriteApproved
    \/ \E u \in Tasks : CascadeCancelled(u) \/ CreateManually(u)
=============================================================================
