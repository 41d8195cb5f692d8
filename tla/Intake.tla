------------------------------- MODULE Intake -------------------------------
(***************************************************************************)
(* The issue poller (worker_poller.py): lists the labelled issues, plans   *)
(* them, and creates and claims one task after the other.                  *)
(***************************************************************************)
EXTENDS Ledger

OnlyPoller == UNCHANGED <<hands, falling, single, tree, op, up, mode, denied>>

\* find_new_issues, in a listing that may be cut off or fail; of authors who are
\* allowed.
Listed(i) == issue[i].open /\ issue[i].todo /\ ~issue[i].progress

\* Variant: the label is trusted to say so.
Exists_Label(i) == issue[i].progress

\* get_task_by_issue
Exists(i) ==
    \E t \in Tasks :
        /\ row[t].issue = i
        /\ row[t].status # "cancelled"
        /\ ~(row[t].status = "completed" /\ ~row[t].pr)

\* orchestrate_batch, for two or more issues: a plan that names each of them,
\* and no others, but maybe one more than once; or none.  Without a plan each
\* issue is triaged by itself.
Plans(new) == IF Cardinality(new) > 1 THEN {{}, new} ELSE {{}}

\* Bound: there is a number for each issue.
Poll ==
    /\ up /\ poll.pc = "idle"
    /\ \E new \in SUBSET {i \in Issues : Listed(i) /\ ~Exists(i)} :
        /\ new # {}
        /\ Cardinality(new) <= Cardinality(Unused)
        /\ \E plan \in Plans(new) :
            poll' = [IdlePoll EXCEPT !.pc = "create", !.todo = new, !.plan = plan]
    /\ OnlyPoller /\ UNCHANGED <<row, issue, note, left>>

\* The plan may put an issue behind one that was created before it, and may
\* name an issue more than once.
CreateFromIssue(i) ==
    /\ poll.pc = "create"
    /\ i \in poll.todo \cup poll.plan
    /\ \E t \in Tasks, d \in poll.made \cup {NoTask} :
        /\ IsFree(t)
        /\ row' = [row EXCEPT ![t] = NewRow(i, d)]
        /\ poll' = [poll EXCEPT !.pc = "claim", !.todo = @ \ {i}, !.task = t,
                                !.made = IF poll.plan = {} THEN {} ELSE @ \cup {t}]
        /\ note' = [note EXCEPT
             !.twice = IF i \in poll.todo THEN @ ELSE @ \cup {i},
             !.late  = IF d # NoTask /\ row[d].status \in Dead THEN @ \cup {t} ELSE @]
    /\ OnlyPoller /\ UNCHANGED <<issue, left>>

\* Variant: a task whose issue could not be claimed is left at that.
ClaimIssue_GivesUp ==
    LET i == row[poll.task].issue IN
    /\ poll.pc = "claim"
    /\ EditLabels(i, [issue[i] EXCEPT !.todo = FALSE, !.progress = TRUE])
    /\ poll' = [poll EXCEPT !.pc = IF mode = "review-all" /\ issue' # issue
                                     THEN "gate" ELSE "create"]
    /\ OnlyPoller /\ UNCHANGED <<row, note>>

\* claim_issue, whose result is not looked at.
ClaimIssue ==
    LET i == row[poll.task].issue IN
    /\ poll.pc = "claim"
    /\ EditLabels(i, [issue[i] EXCEPT !.todo = FALSE, !.progress = TRUE])
    /\ poll' = [poll EXCEPT !.pc = IF mode = "review-all" THEN "gate" ELSE "create"]
    /\ OnlyPoller /\ UNCHANGED <<row, note>>

\* set_hold(dispatch_approval)
SetGate ==
    /\ poll.pc = "gate"
    /\ row' = [row EXCEPT ![poll.task].held = TRUE]
    /\ poll' = [poll EXCEPT !.pc = "create"]
    /\ OnlyPoller /\ UNCHANGED <<issue, note, left>>

PollDone ==
    /\ poll.pc = "create" /\ poll.todo = {}
    /\ poll' = IdlePoll
    /\ OnlyPoller /\ UNCHANGED <<row, issue, note, left>>

PollerStep ==
    \/ Poll \/ ClaimIssue \/ SetGate \/ PollDone
    \/ \E i \in Issues : CreateFromIssue(i)
=============================================================================
