----------------------------- MODULE CIMonitor ------------------------------
(***************************************************************************)
(* The CI monitor: monitor_ci makes four sweeps in a fixed order (CI       *)
(* results, conflicts, approved merges, CI retries); try_merge merges a    *)
(* pull request or sends its task back.                                    *)
(***************************************************************************)
EXTENDS TaskTable

OnlyMonitor == UNCHANGED <<mode, outage, exec, slot, rev, operator>>

Sweeping(sweep) == up /\ mon.pc = "each" /\ mon.sweep = sweep

\* The sweep is done with t, which it took, or is about to take, from its list.
Done(t)     == mon' = [mon EXCEPT !.pc = "each", !.task = NoTask, !.todo = @ \ {t}]
Take(t, pc) == mon' = [mon EXCEPT !.pc = pc, !.task = t, !.todo = @ \ {t}]
Then(pc)    == mon' = [mon EXCEPT !.pc = pc]

NextSweep(sweep) == CASE sweep = "reviewed" -> "stuck"
                      [] sweep = "stuck"    -> "approved"
                      [] sweep = "approved" -> "retrying"
                      [] OTHER              -> "reviewed"

\* The status of the tasks a sweep is about.
SweepStatus(sweep) == CASE sweep = "reviewed" -> "reviewed"
                        [] sweep = "retrying" -> "retrying"
                        [] OTHER              -> "ci_passed"

\* Variant: held rows are merged too.
Listed_IgnoresHold(sweep) ==
    {t \in Tasks : /\ row[t].status = SweepStatus(sweep)
                   /\ row[t].pr # 0}

\* The rows a sweep lists when it begins; held rows are left out of the merges
\* by the hold they show in the list.
Listed(sweep) ==
    {t \in Tasks : /\ row[t].status = SweepStatus(sweep)
                   /\ sweep # "retrying" => row[t].pr # 0
                   /\ sweep = "approved" => row[t].hold = "none"}

BeginSweep ==
    /\ up /\ mon.pc = "each" /\ mon.todo = {}
    /\ mon' = [mon EXCEPT !.sweep = NextSweep(mon.sweep),
                          !.todo = Listed(NextSweep(mon.sweep))]
    /\ OnlyMonitor /\ UNCHANGED <<row, gh, faults>>

\* Pending, gh failed, or (outside full-auto) no checks are configured.
ChecksPending(t) ==
    /\ Sweeping("reviewed") /\ t \in mon.todo
    /\ Done(t)
    /\ OnlyMonitor /\ UNCHANGED <<row, gh, faults>>

\* Success, or in full-auto no checks at all.
ChecksPass(t) ==
    /\ Sweeping("reviewed") /\ t \in mon.todo
    /\ row' = [row EXCEPT ![t].status = "ci_passed"]
    /\ gh' = [gh EXCEPT ![t].green = TRUE]
    /\ Take(t, IF mode = "full-auto" THEN "merge" ELSE "gate")
    /\ OnlyMonitor /\ UNCHANGED faults

ChecksFail(t) ==
    /\ Sweeping("reviewed") /\ t \in mon.todo
    /\ IF row[t].retry < MaxCIRetries
         THEN /\ row' = [row EXCEPT ![t].status = "retrying", ![t].retry = @ + 1]
              /\ Done(t)
         ELSE /\ row' = [row EXCEPT ![t].status = "failed"]
              /\ Take(t, "clean")
    /\ OnlyMonitor /\ UNCHANGED <<gh, faults>>

\* The merge gate is a commit of its own, after the status.
SetGate ==
    /\ up /\ mon.pc = "gate"
    /\ row' = [row EXCEPT ![mon.task].hold = "merge_approval"]
    /\ gh' = [gh EXCEPT ![mon.task].consent = FALSE]
    /\ Done(mon.task)
    /\ OnlyMonitor /\ UNCHANGED faults

NotStuck(t) ==
    /\ Sweeping("stuck") /\ t \in mon.todo
    /\ Done(t)
    /\ OnlyMonitor /\ UNCHANGED <<row, gh, faults>>

\* A conflicting pull request is closed (or not: the result is not looked at).
\* Bound: conflicts are drawn from faults.
CloseConflicting(t) ==
    /\ faults > 0
    /\ gh[t].state \in {"open", "closed"}
    /\ \E after \in {gh[t].state, "closed"} : gh' = [gh EXCEPT ![t].state = after]
    /\ faults' = faults - 1

StuckConflict(t) ==
    /\ Sweeping("stuck") /\ t \in mon.todo
    /\ CloseConflicting(t)
    /\ Take(t, "requeue")
    /\ OnlyMonitor /\ UNCHANGED row

TakeApproved(t) ==
    /\ Sweeping("approved") /\ t \in mon.todo
    /\ Take(t, "merge")
    /\ OnlyMonitor /\ UNCHANGED <<row, gh, faults>>

Merging == up /\ mon.pc = "merge"

\* merge_pr reports success; merging a merged pull request again may do so too.
MergeAcknowledged ==
    /\ Merging
    /\ gh[mon.task].state \in {"open", "merged"}
    /\ gh' = [gh EXCEPT ![mon.task].state = "merged"]
    /\ Then("acked")
    /\ OnlyMonitor /\ UNCHANGED <<row, faults>>

\* The merge went through, but gh ran into its timeout and reports failure.
MergeAnswerLost ==
    /\ Merging
    /\ gh[mon.task].state = "open"
    /\ gh' = [gh EXCEPT ![mon.task].state = "merged"]
    /\ Then("refused")
    /\ OnlyMonitor /\ UNCHANGED <<row, faults>>

MergeRefused ==
    /\ Merging
    /\ Then("refused")
    /\ OnlyMonitor /\ UNCHANGED <<row, gh, faults>>

MergeConflicts ==
    /\ Merging
    /\ CloseConflicting(mon.task)
    /\ Then("requeue")
    /\ OnlyMonitor /\ UNCHANGED row

FinalizeMerge ==
    /\ up /\ mon.pc = "acked"
    /\ row' = [row EXCEPT ![mon.task].status = "completed", ![mon.task].stamped = TRUE]
    /\ Then("clean")
    /\ OnlyMonitor /\ UNCHANGED <<gh, faults>>

\* Variant: any refusal is taken for a conflict.
FailMerge_Requeues ==
    /\ up /\ mon.pc = "refused"
    /\ row' = [row EXCEPT ![mon.task].status = "queued"]
    /\ Then("clean")
    /\ OnlyMonitor /\ UNCHANGED <<gh, faults>>

FailMerge ==
    /\ up /\ mon.pc = "refused"
    /\ row' = [row EXCEPT ![mon.task].status = "failed", ![mon.task].error = "merge"]
    /\ Then("clean")
    /\ OnlyMonitor /\ UNCHANGED <<gh, faults>>

\* Only merge_approved_task asks for the hold to be cleared as well.
RequeueConflicting ==
    LET t == mon.task IN
    /\ up /\ mon.pc = "requeue"
    /\ row' = [row EXCEPT ![t].status = "queued", ![t].branch = FALSE, ![t].pr = 0,
                          ![t].stamped = FALSE,
                          ![t].hold = IF mon.sweep = "approved" THEN "none" ELSE @]
    /\ Done(t)
    /\ OnlyMonitor /\ UNCHANGED <<gh, faults>>

\* process_retry runs the agent on the existing branch inside the sweep and
\* pushes: what was reviewed and checked is no longer what is on the branch.
RetryPushes(t) ==
    /\ Sweeping("retrying") /\ t \in mon.todo
    /\ row[t].branch
    /\ gh' = [gh EXCEPT ![t].reviewed = FALSE, ![t].green = FALSE]
    /\ Take(t, "pushed")
    /\ OnlyMonitor /\ UNCHANGED <<row, faults>>

\* Variant: the pushed fix is not reviewed again.
RecordRetry_SkipsReview ==
    /\ up /\ mon.pc = "pushed"
    /\ row' = [row EXCEPT ![mon.task].status = "reviewed"]
    /\ Done(mon.task)
    /\ OnlyMonitor /\ UNCHANGED <<gh, faults>>

RecordRetry ==
    /\ up /\ mon.pc = "pushed"
    /\ row' = [row EXCEPT ![mon.task].status = "pr_created"]
    /\ Done(mon.task)
    /\ OnlyMonitor /\ UNCHANGED <<gh, faults>>

\* No branch, no worktree, the agent or the push failed.
RetryFails(t) ==
    /\ Sweeping("retrying") /\ t \in mon.todo
    /\ row' = [row EXCEPT ![t].status = "failed", ![t].error = "retry"]
    /\ Take(t, "clean")
    /\ OnlyMonitor /\ UNCHANGED <<gh, faults>>

CleanMonitored ==
    /\ up /\ mon.pc = "clean"
    /\ row' = [row EXCEPT ![mon.task].branch = FALSE]
    /\ Done(mon.task)
    /\ OnlyMonitor /\ UNCHANGED <<gh, faults>>

MonitorStep ==
    \/ BeginSweep \/ SetGate \/ MergeAcknowledged \/ MergeAnswerLost \/ MergeRefused
    \/ MergeConflicts \/ FinalizeMerge \/ FailMerge \/ RequeueConflicting
    \/ RecordRetry \/ CleanMonitored
    \/ \E t \in Tasks : \/ ChecksPending(t) \/ ChecksPass(t) \/ ChecksFail(t)
                        \/ NotStuck(t) \/ StuckConflict(t) \/ TakeApproved(t)
                        \/ RetryPushes(t) \/ RetryFails(t)
=============================================================================
