---------------------------- MODULE Coordinator -----------------------------
(***************************************************************************)
(* The coordinator: review_pending_tasks lists the tasks with a new pull   *)
(* request and reviews them in turn.                                       *)
(***************************************************************************)
EXTENDS TaskTable

OnlyReviewer == UNCHANGED <<mode, outage, exec, slot, mon, operator, faults>>

NextReview == rev' = [rev EXCEPT !.pc = "idle", !.task = NoTask]

ListPending ==
    /\ up /\ rev.pc = "idle" /\ rev.todo = {}
    /\ rev' = [rev EXCEPT !.todo = {t \in Tasks : row[t].status = "pr_created"}]
    /\ OnlyReviewer /\ UNCHANGED <<row, gh>>

\* Variant: the task stays on the list.
BeginReview_KeepsListed(t) ==
    /\ up /\ rev.pc = "idle" /\ t \in rev.todo
    /\ row' = [row EXCEPT ![t].status = "reviewing"]
    /\ rev' = [rev EXCEPT !.pc = "review", !.task = t]
    /\ OnlyReviewer /\ UNCHANGED gh

BeginReview(t) ==
    /\ up /\ rev.pc = "idle" /\ t \in rev.todo
    /\ row' = [row EXCEPT ![t].status = "reviewing"]
    /\ rev' = [rev EXCEPT !.pc = "review", !.task = t, !.todo = @ \ {t}]
    /\ OnlyReviewer /\ UNCHANGED gh

\* An exception of run_review counts as an approval.
ReviewApproves ==
    /\ up /\ rev.pc = "review"
    /\ row' = [row EXCEPT ![rev.task].status = "reviewed"]
    /\ gh' = [gh EXCEPT ![rev.task].reviewed = TRUE]
    /\ NextReview
    /\ OnlyReviewer

\* Rejected, timed out, or the review agent failed: the pull request is closed
\* first (the result of the call is not looked at), the row written next.
ReviewRejects ==
    /\ up /\ rev.pc = "review"
    /\ \E after \in {gh[rev.task].state, "closed"} :
          gh' = [gh EXCEPT ![rev.task].state = after]
    /\ rev' = [rev EXCEPT !.pc = "closed"]
    /\ OnlyReviewer /\ UNCHANGED row

\* Variant: the budget is not looked at.
RetryRejected_Unbounded ==
    /\ up /\ rev.pc = "closed"
    /\ row' = [row EXCEPT ![rev.task].status = "queued", ![rev.task].branch = FALSE,
                          ![rev.task].pr = 0, ![rev.task].retry = @ + 1]
    /\ NextReview
    /\ OnlyReviewer /\ UNCHANGED gh

RetryRejected ==
    LET t == rev.task IN
    /\ up /\ rev.pc = "closed"
    /\ row[t].retry < MaxTaskRetries
    /\ row' = [row EXCEPT ![t].status = "queued", ![t].branch = FALSE,
                          ![t].pr = 0, ![t].retry = @ + 1]
    /\ NextReview
    /\ OnlyReviewer /\ UNCHANGED gh

FailRejected ==
    /\ up /\ rev.pc = "closed"
    /\ row[rev.task].retry >= MaxTaskRetries
    /\ row' = [row EXCEPT ![rev.task].status = "failed", ![rev.task].error = "review"]
    /\ rev' = [rev EXCEPT !.pc = "cascade", !.fell = {rev.task}]
    /\ OnlyReviewer /\ UNCHANGED gh

CascadeReview(u) ==
    LET rest == (rev.fell \ {u}) \union Dependents(u) IN
    /\ up /\ rev.pc = "cascade" /\ u \in rev.fell
    /\ CascadeFrom(u)
    /\ rev' = [rev EXCEPT !.fell = rest,
                          !.pc = IF rest = {} THEN "clean" ELSE "cascade"]
    /\ OnlyReviewer /\ UNCHANGED gh

CleanRejected ==
    /\ up /\ rev.pc = "clean"
    /\ row' = [row EXCEPT ![rev.task].branch = FALSE]
    /\ NextReview
    /\ OnlyReviewer /\ UNCHANGED gh

CoordinatorStep ==
    \/ ListPending \/ ReviewApproves \/ ReviewRejects
    \/ RetryRejected \/ FailRejected \/ CleanRejected
    \/ \E t \in Tasks : BeginReview(t) \/ CascadeReview(t)
=============================================================================
