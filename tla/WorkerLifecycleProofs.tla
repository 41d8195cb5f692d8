------------------------ MODULE WorkerLifecycleProofs -----------------------
(***************************************************************************)
(* The daemon implements TaskLifecycle.  Each action is shown to be a step *)
(* of the lifecycle or none, under single ownership, the safety of the     *)
(* lifecycle (which SafeStep carries over the step) and ListsAgree: what   *)
(* the executor and the monitor remember of an earlier query still holds.  *)
(* On the same invariant rest two results about handing over: cascades     *)
(* reach everybody they should, and no working task is left to nobody.     *)
(***************************************************************************)
EXTENDS WorkerLifecycle, WorkerProofs, WellFoundedInduction

\* The tasks listed for the conflict check have started; the monitor knows
\* whether the pull request it merged, or sends back, is merged.
ListsAgree ==
    /\ \A u \in exec.snap : DepMet(u)
    /\ mon.pc = "acked" => gh[mon.task].state = "merged"
    /\ mon.pc = "requeue" => gh[mon.task].state # "merged"

WInv == IInv /\ Lifecycle!Safe /\ ListsAgree

SameDeps   == \A u \in Tasks : row'[u].dep = row[u].dep
SameMerged == \A u \in Tasks : gh'[u].state = "merged" <=> gh[u].state = "merged"

\* A step that no lifecycle sees, and one that moves a single row.
Still       == SameDeps /\ \A u \in Tasks : Kept(u)
Moves(t, s) == SameDeps /\ row'[t].status = s /\ \A u \in Tasks \ {t} : Kept(u)

LEMMA DepMetIsMet ==
  ASSUME TypeOK, NEW t \in Tasks
  PROVE  DepMet(t) <=> Lifecycle!Met(t)
BY DEF TypeOK, Row, DepMet, Lifecycle!Met, Tasks, NoTask

\* Only what passed its checks is merged.
LEMMA NotMerged ==
  ASSUME Lifecycle!Safe, NEW t \in Tasks,
         row[t].status \notin {"ci_passed", "completed", "failed"}
  PROVE  gh[t].state # "merged"
BY DEF Lifecycle!Safe, Lifecycle!LandedInOrder, Merged

LEMMA StillRefines ==
  ASSUME Still, SameMerged
  PROVE  UNCHANGED Lifecycle!lifecycle
BY DEF Still, SameDeps, SameMerged, Kept, Merged, Lifecycle!lifecycle

LEMMA MoveRefines ==
  ASSUME NEW t \in Tasks, NEW s, Moves(t, s), SameMerged, gh[t].state # "merged",
         s \in Lifecycle!After(row[t].status)
  PROVE  Lifecycle!Next
<1>1. Lifecycle!Advance(t)
  BY DEF Moves, SameDeps, SameMerged, Kept, Merged, Lifecycle!Advance
<1> QED
  BY <1>1 DEF Lifecycle!Next

LEMMA CascadeRefines ==
  ASSUME TypeOK, NEW u \in Tasks, CascadeFrom(u), row[u].status = "failed", SameMerged
  PROVE  Lifecycle!Next /\ SameDeps
<1>1. SameDeps
  BY DEF SameDeps, CascadeFrom, TypeOK, Row
<1>2. \A t \in Tasks :
         row'[t].status = IF row[t].status = "queued" /\ u \in {row[t].dep} \ {NoTask}
                            THEN "failed" ELSE row[t].status
  <2> TAKE t \in Tasks
  <2>1. t \in Dependents(u) <=> row[t].status = "queued" /\ u \in {row[t].dep} \ {NoTask}
    BY DEF Dependents, Tasks, NoTask
  <2>2. row'[t].status = IF t \in Dependents(u) THEN "failed" ELSE row[t].status
    BY CascadeFails DEF CascadeFrom
  <2> QED BY <2>1, <2>2
<1>3. Lifecycle!Cascade(u)
  BY <1>1, <1>2 DEF SameDeps, SameMerged, Merged, Lifecycle!Cascade
<1> QED
  BY <1>1, <1>3 DEF Lifecycle!Next

-----------------------------------------------------------------------------
(* The steps of the executor.                                              *)

LEMMA ExecutorRefines ==
  ASSUME WInv, ExecutorStep
  PROVE  [Lifecycle!Next]_(Lifecycle!lifecycle) /\ SameMerged
<1> USE DEF WInv, IInv
<1>a. exec.pc \notin {"poll", "claim"} =>
         /\ exec.task \in Tasks \ exec.snap
         /\ row[exec.task].status = "working"
  BY DEF SingleOwner, ExecutorOwns
<1>b. row \in [Tasks -> Row]
  BY DEF TypeOK
<1>c. SameMerged
  BY DEF SameMerged, ExecutorStep, PollQueue, NothingToClaim, TripBreaker, ReturnTripped, Vet,
         NoConflict, ConflictCheckRaises, Claim, Serialize
<1>1. ASSUME NEW t \in Tasks, Claim(t)
      PROVE  Lifecycle!Next
  <2>1. row[t].status = "queued" /\ DepMet(t) /\ Moves(t, "working")
    BY <1>1, <1>b DEF Claim, Claimable, Moves, SameDeps, Kept, Row
  <2>2. Lifecycle!Start(t)
    BY <2>1, <1>c, DepMetIsMet DEF Moves, SameDeps, SameMerged, Kept, Merged, Lifecycle!Start
  <2> QED BY <2>2 DEF Lifecycle!Next
<1>2. ASSUME NEW u \in Tasks, Serialize(u)
      PROVE  Lifecycle!Next
  <2> DEFINE t == exec.task
  <2>1. /\ t \in Tasks /\ u # t /\ DepMet(u)
        /\ row[t].status = "working"
        /\ row'[t].status = "queued" /\ row'[t].dep = u
        /\ \A x \in Tasks \ {t} : row'[x] = row[x]
    BY <1>2, <1>a, <1>b DEF Serialize, ListsAgree, Row
  <2>2. {u} \ {NoTask} = {u}
    BY DEF Tasks, NoTask
  <2>3. Lifecycle!Serialize(t, u)
    BY <2>1, <2>2, <1>c, DepMetIsMet DEF SameMerged, Merged, Lifecycle!Serialize
  <2> QED BY <2>1, <2>3 DEF Lifecycle!Next
<1>3. CASE ReturnTripped \/ Vet
  <2>1. Still \/ (exec.task \in Tasks /\ Moves(exec.task, "queued") /\ row[exec.task].status = "working")
    BY <1>3, <1>a, <1>b DEF ReturnTripped, Vet, Still, Moves, SameDeps, Kept, Row
  <2> QED BY <2>1, <1>c, StillRefines, MoveRefines, NotMerged DEF Lifecycle!After
<1>4. CASE PollQueue \/ NothingToClaim \/ TripBreaker \/ NoConflict \/ ConflictCheckRaises
  <2>1. Still
    BY <1>4, <1>b DEF PollQueue, NothingToClaim, TripBreaker, NoConflict,
                      ConflictCheckRaises, Still, SameDeps, Kept, Row
  <2> QED BY <2>1, <1>c, StillRefines
<1> QED
  BY <1>c, <1>1, <1>2, <1>3, <1>4 DEF ExecutorStep

-----------------------------------------------------------------------------
(* The steps of the coroutines and of the coordinator.                     *)

LEMMA OneAgain ==
  ASSUME row \in [Tasks -> Row], NEW t \in Tasks, NEW n, NEW a, NEW f,
         row' = [row EXCEPT ![t] = Again(row[t], n, a, f)]
  PROVE  Moves(t, "queued")
BY DEF Again, Moves, SameDeps, Kept, Row

LEMMA OneGivenUp ==
  ASSUME row \in [Tasks -> Row], NEW t \in Tasks,
         row' = [row EXCEPT ![t] = GivenUp(row[t])]
  PROVE  Moves(t, "failed")
BY DEF GivenUp, Moves, SameDeps, Kept, Row

LEMMA CoroutineRefines ==
  ASSUME WInv, NEW s \in Slots, CoroutineStep(s)
  PROVE  [Lifecycle!Next]_(Lifecycle!lifecycle) /\ SameDeps /\ SameMerged
<1> DEFINE t == slot[s].task
           Goal == [Lifecycle!Next]_(Lifecycle!lifecycle) /\ SameDeps /\ SameMerged
<1> USE DEF WInv, IInv, At
<1>a. /\ slot[s].pc # "idle" => t \in Tasks
      /\ slot[s].pc \in Driving => row[t].status = "working"
      /\ \A u \in slot[s].todo : row[u].status = "failed"
  BY DEF SingleOwner, CoroutinesOwn, CoroutineOwns
<1>b. row \in [Tasks -> Row] /\ gh \in [Tasks -> PullRequest]
  BY DEF TypeOK
<1>c. ASSUME Still, SameMerged
      PROVE  Goal
  BY <1>c, StillRefines DEF Still
<1>d. ASSUME slot[s].pc \in Driving, gh' = gh,
             \/ Moves(t, "queued") \/ Moves(t, "pr_created")
             \/ Moves(t, "completed") \/ Moves(t, "failed")
      PROVE  Goal
  <2>1. SameMerged /\ SameDeps
    BY <1>d DEF SameMerged, Moves
  <2>2. t \in Tasks /\ row[t].status = "working" /\ gh[t].state # "merged"
    BY <1>d, <1>a, NotMerged DEF Driving
  <2>3. {"queued", "pr_created", "completed", "failed"} = Lifecycle!After(row[t].status)
    BY <2>2 DEF Lifecycle!After
  <2> HIDE DEF t
  <2> QED BY <1>d, <2>1, <2>2, <2>3, MoveRefines
<1> SUFFICES Goal
  OBVIOUS
<1> HIDE DEF Goal
<1>1. CASE AgentSucceeds(s) \/ VerifyPasses(s) \/ VerifyFails(s) \/ FixAgentSucceeds(s)
  BY <1>1, <1>c DEF AgentSucceeds, VerifyPasses, VerifyFails, FixAgentSucceeds,
                    Still, SameDeps, SameMerged, Kept
<1>2. CASE NameBranch(s) \/ AddWorktree(s) \/ CleanCoroutine(s)
  BY <1>2, <1>b, <1>c DEF NameBranch, AddWorktree, CleanCoroutine, Still, SameDeps, SameMerged, Kept, Row
<1>3. CASE CoroutineError(s)
  <2>1. Moves(t, "queued") \/ Moves(t, "failed")
    <3>1. /\ t \in Tasks
          /\ \/ \E n : row' = [row EXCEPT ![t] = Again(row[t], n, row[t].agent, row[t].fallback)]
             \/ row' = [row EXCEPT ![t] = GivenUp(row[t])]
      BY <1>3, <1>a DEF CoroutineError, Raise
    <3> QED BY <3>1, <1>b, OneAgain, OneGivenUp
  <2> QED BY <2>1, <1>3, <1>d DEF CoroutineError, Driving
<1>4. CASE AgentRateLimited(s)
  <2>1. Moves(t, "queued")
    BY <1>4, <1>a, <1>b DEF AgentRateLimited, Again, Moves, SameDeps, Kept, Row, Driving
  <2> QED BY <2>1, <1>4, <1>d DEF AgentRateLimited, Driving
<1>5. CASE AgentFails(s)
  <2>1. Moves(t, "queued") \/ Moves(t, "failed")
    <3>1. /\ t \in Tasks
          /\ \/ \E n, a, f : row' = [row EXCEPT ![t] = Again(row[t], n, a, f)]
             \/ row' = [row EXCEPT ![t] = GivenUp(row[t])]
      BY <1>5, <1>a DEF AgentFails
    <3> QED BY <3>1, <1>b, OneAgain, OneGivenUp
  <2> QED BY <2>1, <1>5, <1>d DEF AgentFails, Driving
<1>6. CASE VerifyOrScanBlocks(s)
  <2>1. Moves(t, "failed")
    BY <1>6, <1>a, <1>b DEF VerifyOrScanBlocks, GivenUp, Moves, SameDeps, Kept, Row, Driving
  <2> QED BY <2>1, <1>6, <1>d DEF VerifyOrScanBlocks, Driving
<1>7. CASE NothingPublished(s)
  <2>1. Moves(t, "completed")
    BY <1>7, <1>a, <1>b DEF NothingPublished, Moves, SameDeps, Kept, Row, Driving
  <2> QED BY <2>1, <1>7, <1>d DEF NothingPublished, Driving
<1>8. CASE RecordPR(s)
  <2>1. Moves(t, "pr_created")
    BY <1>8, <1>a, <1>b DEF RecordPR, Moves, SameDeps, Kept, Row, Driving
  <2> QED BY <2>1, <1>8, <1>d DEF RecordPR, Driving
<1>9. CASE OpenPR(s)
  <2>1. t \in Tasks /\ gh[t].state # "merged"
    BY <1>9, <1>a, NotMerged DEF OpenPR, Driving
  <2>2. Still /\ SameMerged
    BY <1>9, <2>1, <1>b DEF OpenPR, Still, SameDeps, SameMerged, Kept, Row, PullRequest
  <2> QED BY <2>2, <1>c
<1>10. ASSUME NEW u \in Tasks, CascadeCoroutine(s, u)
       PROVE  Goal
  <2>1. CascadeFrom(u) /\ row[u].status = "failed" /\ SameMerged
    BY <1>10, <1>a DEF CascadeCoroutine, SameMerged
  <2> QED BY <2>1, CascadeRefines DEF Goal
<1> QED
  BY <1>1, <1>2, <1>3, <1>4, <1>5, <1>6, <1>7, <1>8, <1>9, <1>10 DEF CoroutineStep

LEMMA CoordinatorRefines ==
  ASSUME WInv, CoordinatorStep
  PROVE  [Lifecycle!Next]_(Lifecycle!lifecycle) /\ SameDeps /\ SameMerged
<1> DEFINE Goal == [Lifecycle!Next]_(Lifecycle!lifecycle) /\ SameDeps /\ SameMerged
<1> USE DEF WInv, IInv
<1>a. /\ \A t \in rev.todo : row[t].status = "pr_created"
      /\ rev.pc # "idle" => rev.task \in Tasks
      /\ rev.pc \in {"review", "closed"} => row[rev.task].status = "reviewing"
      /\ \A u \in rev.fell : row[u].status = "failed"
  BY DEF SingleOwner, ReviewerOwns
<1>b. row \in [Tasks -> Row] /\ gh \in [Tasks -> PullRequest]
  BY DEF TypeOK
<1>c. ASSUME Still, SameMerged
      PROVE  Goal
  BY <1>c, StillRefines DEF Still
<1>d. ASSUME NEW t \in Tasks, NEW after, Moves(t, after), SameMerged,
             \/ row[t].status = "pr_created" /\ after = "reviewing"
             \/ row[t].status = "reviewing" /\ after \in {"reviewed", "queued", "failed"}
      PROVE  Goal
  <2>1. gh[t].state # "merged" /\ after \in Lifecycle!After(row[t].status)
    BY <1>d, NotMerged DEF Lifecycle!After
  <2> QED BY <1>d, <2>1, MoveRefines DEF Moves
<1> SUFFICES Goal
  OBVIOUS
<1> HIDE DEF Goal
<1>1. CASE ListPending
  BY <1>1, <1>c DEF ListPending, Still, SameDeps, SameMerged, Kept
<1>2. CASE CleanRejected
  BY <1>2, <1>b, <1>c DEF CleanRejected, Still, SameDeps, SameMerged, Kept, Row
<1>3. CASE ReviewApproves
  <2>1. Moves(rev.task, "reviewed") /\ SameMerged
    BY <1>3, <1>a, <1>b DEF ReviewApproves, Moves, SameDeps, SameMerged, Kept, Row, PullRequest
  <2> QED BY <2>1, <1>3, <1>a, <1>d DEF ReviewApproves
<1>4. CASE ReviewRejects
  <2>1. rev.task \in Tasks /\ gh[rev.task].state # "merged"
    BY <1>4, <1>a, NotMerged DEF ReviewRejects
  <2>2. Still /\ SameMerged
    BY <1>4, <2>1, <1>b DEF ReviewRejects, Still, SameDeps, SameMerged, Kept, PullRequest
  <2> QED BY <2>2, <1>c
<1>5. CASE RetryRejected
  <2>1. Moves(rev.task, "queued") /\ SameMerged
    BY <1>5, <1>a, <1>b DEF RetryRejected, Moves, SameDeps, SameMerged, Kept, Row
  <2> QED BY <2>1, <1>5, <1>a, <1>d DEF RetryRejected
<1>6. CASE FailRejected
  <2>1. Moves(rev.task, "failed") /\ SameMerged
    BY <1>6, <1>a, <1>b DEF FailRejected, Moves, SameDeps, SameMerged, Kept, Row
  <2> QED BY <2>1, <1>6, <1>a, <1>d DEF FailRejected
<1>7. ASSUME NEW t \in Tasks, BeginReview(t)
      PROVE  Goal
  <2>1. Moves(t, "reviewing") /\ SameMerged
    BY <1>7, <1>b DEF BeginReview, Moves, SameDeps, SameMerged, Kept, Row
  <2> QED BY <2>1, <1>7, <1>a, <1>d DEF BeginReview
<1>8. ASSUME NEW u \in Tasks, CascadeReview(u)
      PROVE  Goal
  <2>1. CascadeFrom(u) /\ row[u].status = "failed" /\ SameMerged
    BY <1>8, <1>a DEF CascadeReview, SameMerged
  <2> QED BY <2>1, CascadeRefines DEF Goal
<1> QED
  BY <1>1, <1>2, <1>3, <1>4, <1>5, <1>6, <1>7, <1>8 DEF CoordinatorStep

-----------------------------------------------------------------------------
(* The steps of the monitor, of the operator and of an outage.             *)

LEMMA MonitorRefines ==
  ASSUME WInv, MonitorStep
  PROVE  [Lifecycle!Next]_(Lifecycle!lifecycle) /\ SameDeps
<1> DEFINE Goal == [Lifecycle!Next]_(Lifecycle!lifecycle) /\ SameDeps
<1> USE DEF WInv, IInv, Merging
<1>a. /\ \A t \in mon.todo : row[t].status = SweepStatus(mon.sweep)
      /\ mon.pc # "each" => mon.task \in Tasks
      /\ mon.pc \in {"gate", "merge", "acked", "refused", "requeue"} =>
            row[mon.task].status = "ci_passed"
      /\ mon.pc = "pushed" => row[mon.task].status = "retrying"
  BY DEF SingleOwner, MonitorOwns
<1>b. row \in [Tasks -> Row] /\ gh \in [Tasks -> PullRequest]
  BY DEF TypeOK
<1>c. ASSUME Still, SameMerged
      PROVE  Goal
  BY <1>c, StillRefines DEF Still
<1>d. ASSUME NEW t \in Tasks, NEW after, Moves(t, after), SameMerged,
             \/ row[t].status = "reviewed" /\ after \in {"ci_passed", "retrying", "failed"}
             \/ row[t].status = "retrying" /\ after \in {"pr_created", "failed"}
             \/ /\ row[t].status = "ci_passed" /\ gh[t].state # "merged"
                /\ after \in {"queued", "failed"}
      PROVE  Goal
  <2>1. gh[t].state # "merged" /\ after \in Lifecycle!After(row[t].status)
    BY <1>d, NotMerged DEF Lifecycle!After
  <2> QED BY <1>d, <2>1, MoveRefines DEF Moves
<1>e. ASSUME NEW t \in Tasks, NEW after \in {"completed", "failed"}, Moves(t, after), SameMerged,
             row[t].status = "ci_passed", gh[t].state = "merged"
      PROVE  Goal
  <2>1. Lifecycle!Finish(t)
    BY <1>e DEF Moves, SameDeps, SameMerged, Kept, Merged, Lifecycle!Finish
  <2> QED BY <1>e, <2>1 DEF Moves, Lifecycle!Next
<1>f. ASSUME NEW t \in Tasks, Still, gh' = [gh EXCEPT ![t].state = "merged"],
             row[t].status = "ci_passed"
      PROVE  Goal
  <2>1. Merged' = Merged \union {t}
    BY <1>f, <1>b DEF Merged, PullRequest
  <2>2. Lifecycle!Land(t)
    BY <1>f, <2>1 DEF Still, SameDeps, Kept, Lifecycle!Land
  <2> QED BY <1>f, <2>2 DEF Still, Lifecycle!Next
<1> SUFFICES Goal
  OBVIOUS
<1> HIDE DEF Goal
<1>1. CASE BeginSweep \/ MergeRefused
  BY <1>1, <1>c DEF BeginSweep, MergeRefused, Still, SameDeps, SameMerged, Kept
<1>2. CASE SetGate \/ CleanMonitored
  <2>1. Still
    BY <1>2, <1>b DEF SetGate, CleanMonitored, Still, SameDeps, Kept, Row
  <2>2. SameMerged
    BY <1>2, <1>b DEF SetGate, CleanMonitored, SameMerged, PullRequest
  <2> QED BY <2>1, <2>2, <1>c
<1>3. CASE MergeAcknowledged \/ MergeAnswerLost
  <2>1. /\ mon.task \in Tasks /\ row[mon.task].status = "ci_passed"
        /\ gh' = [gh EXCEPT ![mon.task].state = "merged"]
        /\ row' = row
    BY <1>3, <1>a DEF MergeAcknowledged, MergeAnswerLost
  <2>2. Still
    BY <2>1 DEF Still, SameDeps, Kept
  <2> QED BY <2>1, <2>2, <1>f
<1>4. CASE MergeConflicts
  <2>1. Still /\ SameMerged
    BY <1>4, <1>a, <1>b
    DEF MergeConflicts, CloseConflicting, Still, SameDeps, SameMerged, Kept, PullRequest
  <2> QED BY <2>1, <1>c
<1>5. CASE FinalizeMerge
  <2>1. Moves(mon.task, "completed") /\ SameMerged
    BY <1>5, <1>a, <1>b DEF FinalizeMerge, Moves, SameDeps, SameMerged, Kept, Row
  <2> QED BY <2>1, <1>5, <1>a, <1>e DEF FinalizeMerge, ListsAgree
<1>6. CASE FailMerge
  <2>1. Moves(mon.task, "failed") /\ SameMerged
    BY <1>6, <1>a, <1>b DEF FailMerge, Moves, SameDeps, SameMerged, Kept, Row
  <2> QED BY <2>1, <1>6, <1>a, <1>d, <1>e DEF FailMerge
<1>7. CASE RequeueConflicting
  <2>1. Moves(mon.task, "queued") /\ SameMerged
    BY <1>7, <1>a, <1>b DEF RequeueConflicting, Moves, SameDeps, SameMerged, Kept, Row
  <2> QED BY <2>1, <1>7, <1>a, <1>d DEF RequeueConflicting, ListsAgree
<1>8. CASE RecordRetry
  <2>1. Moves(mon.task, "pr_created") /\ SameMerged
    BY <1>8, <1>a, <1>b DEF RecordRetry, Moves, SameDeps, SameMerged, Kept, Row
  <2> QED BY <2>1, <1>8, <1>a, <1>d DEF RecordRetry
<1>9. ASSUME NEW t \in Tasks, ChecksPending(t) \/ NotStuck(t) \/ TakeApproved(t)
      PROVE  Goal
  BY <1>9, <1>c DEF ChecksPending, NotStuck, TakeApproved, Still, SameDeps, SameMerged, Kept
<1>10. ASSUME NEW t \in Tasks, StuckConflict(t)
       PROVE  Goal
  <2>1. Still /\ SameMerged
    BY <1>10, <1>b
    DEF StuckConflict, CloseConflicting, Still, SameDeps, SameMerged, Kept, PullRequest
  <2> QED BY <2>1, <1>c
<1>11. ASSUME NEW t \in Tasks, RetryPushes(t)
       PROVE  Goal
  <2>1. Still /\ SameMerged
    BY <1>11, <1>b DEF RetryPushes, Still, SameDeps, SameMerged, Kept, PullRequest
  <2> QED BY <2>1, <1>c
<1>12. ASSUME NEW t \in Tasks, ChecksPass(t)
       PROVE  Goal
  <2>1. /\ Moves(t, "ci_passed") /\ SameMerged
        /\ row[t].status = "reviewed"
    BY <1>12, <1>a, <1>b
    DEF ChecksPass, Sweeping, SweepStatus, Moves, SameDeps, SameMerged, Kept, Row, PullRequest
  <2> QED BY <2>1, <1>d
<1>13. ASSUME NEW t \in Tasks, ChecksFail(t)
       PROVE  Goal
  <2>1. /\ Moves(t, "retrying") \/ Moves(t, "failed")
        /\ SameMerged
        /\ row[t].status = "reviewed"
    BY <1>13, <1>a, <1>b
    DEF ChecksFail, Sweeping, SweepStatus, Moves, SameDeps, SameMerged, Kept, Row
  <2> QED BY <2>1, <1>d
<1>14. ASSUME NEW t \in Tasks, RetryFails(t)
       PROVE  Goal
  <2>1. /\ Moves(t, "failed") /\ SameMerged
        /\ row[t].status = "retrying"
    BY <1>14, <1>a, <1>b
    DEF RetryFails, Sweeping, SweepStatus, Moves, SameDeps, SameMerged, Kept, Row
  <2> QED BY <2>1, <1>d
<1> QED
  BY <1>1, <1>2, <1>3, <1>4, <1>5, <1>6, <1>7, <1>8, <1>9, <1>10, <1>11, <1>12, <1>13, <1>14
  DEF MonitorStep

LEMMA OperatorRefines ==
  ASSUME WInv, OperatorStep
  PROVE  Still /\ SameMerged
<1> USE DEF WInv, IInv
<1>b. row \in [Tasks -> Row] /\ gh \in [Tasks -> PullRequest]
  BY DEF TypeOK
<1>1. CASE SetHold
  BY <1>1, <1>b DEF SetHold, Still, SameDeps, SameMerged, Kept, Row
<1>2. CASE ClearHold
  BY <1>2, <1>b DEF ClearHold, Still, SameDeps, SameMerged, Kept, Row, PullRequest
<1>3. CASE SetPaused \/ \E t \in Tasks, op \in {"approve", "hold", "release"} : ReadTask(op, t)
  BY <1>3 DEF SetPaused, ReadTask, Still, SameDeps, SameMerged, Kept
<1> QED
  BY <1>1, <1>2, <1>3 DEF OperatorStep

LEMMA RestartRefines ==
  ASSUME WInv, Restart
  PROVE  Lifecycle!Next /\ SameDeps /\ SameMerged
<1> USE DEF WInv, IInv
<1>1. SameMerged
  BY DEF Restart, SameMerged
<1>a. PICK answered : row' = [t \in Tasks |-> Recovered(t, answered)]
  BY DEF Restart
<1>2. \A t \in Tasks :
         /\ row'[t].dep = row[t].dep
         /\ row[t].status = "reviewing" => row'[t].status = "pr_created"
         /\ row[t].status = "working" =>
               row'[t].status = IF t \in answered THEN "working" ELSE "queued"
         /\ row[t].status \notin {"reviewing", "working"} => row'[t].status = row[t].status
  BY <1>a DEF Recovered, TypeOK, Row
<1> DEFINE S == Tasks \ answered
           After(t) == CASE row[t].status = "working" /\ t \in S -> "queued"
                         [] row[t].status = "reviewing"          -> "pr_created"
                         [] OTHER                                -> row[t].status
<1>3. \A t \in Tasks : row'[t].status = After(t)
  BY <1>2
<1>4. Lifecycle!Recover
  <2>1. S \in SUBSET Tasks
    OBVIOUS
  <2> QED BY <1>1, <1>2, <1>3, <2>1 DEF SameMerged, Merged, Lifecycle!Recover
<1> QED BY <1>1, <1>2, <1>4 DEF SameDeps, Lifecycle!Next

-----------------------------------------------------------------------------
(* The invariant and the theorems.                                         *)

LEMMA StepRefines ==
  ASSUME WInv, [Next]_vars
  PROVE  [Lifecycle!Next]_(Lifecycle!lifecycle)
<1>1. CASE Crash \/ UNCHANGED vars
  <2>1. row' = row /\ gh' = gh
    BY <1>1 DEF Crash, vars
  <2>2. Still /\ SameMerged
    BY <2>1 DEF Still, SameDeps, SameMerged, Kept
  <2> QED BY <2>2, StillRefines
<1> QED
  BY <1>1, ExecutorRefines, CoroutineRefines, CoordinatorRefines, MonitorRefines,
     OperatorRefines, RestartRefines, StillRefines DEF Next, DispatchStep

\* What was met stays met, unless the step gives the task another dependency.
LEMMA DepMetStays ==
  ASSUME WInv, [Next]_vars, NEW u \in Tasks, DepMet(u), row'[u].dep = row[u].dep
  PROVE  DepMet(u)'
<1>1. CASE Lifecycle!Next
  <2>1. \A t \in Tasks : row[t].status = "completed" => row'[t].status = "completed"
    BY <1>1, Lifecycle!CompletedStays DEF WInv, Lifecycle!Safe
  <2> QED BY <2>1 DEF DepMet, WInv, IInv, TypeOK, Row
<1>2. CASE UNCHANGED Lifecycle!lifecycle
  <2>1. \A t \in Tasks : row'[t].status = row[t].status
    BY <1>2 DEF Lifecycle!lifecycle
  <2> QED BY <2>1 DEF DepMet, WInv, IInv, TypeOK, Row
<1> QED BY <1>1, <1>2, StepRefines

\* The executor's list is made from started tasks, when no row changes.
LEMMA ExecutorAgrees ==
  ASSUME WInv, ExecutorStep
  PROVE  \A u \in exec'.snap : u \in Tasks /\ DepMet(u) /\ row'[u].dep = row[u].dep
<1> USE DEF WInv, IInv
<1>a. exec \in Executor /\ row \in [Tasks -> Row]
  BY DEF TypeOK
<1>b. exec.snap \subseteq Tasks
  BY <1>a DEF Executor
<1>c. IdleExec.snap = {}
  BY DEF IdleExec
<1>1. CASE Vet
  <2>1. CASE exec'.snap = Inflight(exec.task) /\ row' = row
    <3>1. \A u \in Inflight(exec.task) :
             u \in Tasks /\ row[u].status \notin {"queued", "failed"}
      BY DEF Inflight
    <3> QED BY <2>1, <3>1, DepMetIsMet DEF Lifecycle!Safe, Lifecycle!StartedInOrder
  <2>2. CASE exec'.snap = {}
    BY <2>2
  <2>3. \/ exec' = IdleExec
        \/ exec' = [exec EXCEPT !.pc = "conflict", !.snap = Inflight(exec.task)] /\ row' = row
    BY <1>1 DEF Vet, StartCoroutine
  <2> QED BY <1>a, <1>c, <2>1, <2>2, <2>3 DEF Executor
<1>2. CASE NothingToClaim \/ ReturnTripped \/ NoConflict \/ ConflictCheckRaises
           \/ \E u \in Tasks : Serialize(u)
  <2>1. exec' = IdleExec
    BY <1>2 DEF NothingToClaim, ReturnTripped, NoConflict, ConflictCheckRaises, Serialize,
                StartCoroutine
  <2> QED BY <2>1, <1>c
<1>3. CASE PollQueue \/ TripBreaker \/ \E t \in Tasks : Claim(t)
  <2>1. exec'.snap = exec.snap
    BY <1>3, <1>a DEF PollQueue, TripBreaker, Claim, Executor
  <2>2. \A u \in Tasks : row'[u].dep = row[u].dep
    <3>1. CASE PollQueue
      BY <3>1 DEF PollQueue
    <3>2. CASE TripBreaker
      BY <3>2, <1>a DEF TripBreaker, Row
    <3>3. ASSUME NEW t \in Tasks, Claim(t)
          PROVE  \A u \in Tasks : row'[u].dep = row[u].dep
      BY <3>3, <1>a DEF Claim, Row
    <3> QED BY <1>3, <3>1, <3>2, <3>3
  <2> QED BY <2>1, <2>2, <1>b DEF ListsAgree
<1> QED BY <1>1, <1>2, <1>3 DEF ExecutorStep

LEMMA MonitorAgrees ==
  ASSUME WInv, MonitorStep
  PROVE  /\ mon'.pc = "acked" => gh'[mon'.task].state = "merged"
         /\ mon'.pc = "requeue" => gh'[mon'.task].state # "merged"
<1> USE DEF WInv, IInv, Merging, Done, Take, Then
<1>a. mon \in Monitor /\ gh \in [Tasks -> PullRequest]
  BY DEF TypeOK
<1>b. mon.pc # "each" => mon.task \in Tasks
  BY DEF SingleOwner, MonitorOwns
<1>1. CASE MergeAcknowledged
  BY <1>1, <1>a, <1>b DEF MergeAcknowledged, Monitor, PullRequest
<1>2. CASE MergeConflicts
  BY <1>2, <1>a, <1>b DEF MergeConflicts, CloseConflicting, Monitor, PullRequest
<1>3. ASSUME NEW t \in Tasks, StuckConflict(t)
      PROVE  mon'.pc = "requeue" /\ gh'[mon'.task].state # "merged"
  BY <1>3, <1>a DEF StuckConflict, CloseConflicting, Monitor, PullRequest
<1>4. CASE MergeAnswerLost \/ MergeRefused \/ FinalizeMerge \/ FailMerge
  BY <1>4, <1>a DEF MergeAnswerLost, MergeRefused, FinalizeMerge, FailMerge, Monitor
<1>5. CASE BeginSweep \/ SetGate \/ RequeueConflicting \/ RecordRetry \/ CleanMonitored
  BY <1>5, <1>a DEF BeginSweep, SetGate, RequeueConflicting, RecordRetry, CleanMonitored,
                    Sweeping, Monitor
<1>6. ASSUME NEW t \in Tasks,
             \/ ChecksPending(t) \/ ChecksPass(t) \/ ChecksFail(t) \/ NotStuck(t)
             \/ TakeApproved(t) \/ RetryPushes(t) \/ RetryFails(t)
      PROVE  mon'.pc \notin {"acked", "requeue"}
  BY <1>6, <1>a DEF ChecksPending, ChecksPass, ChecksFail, NotStuck, TakeApproved,
                    RetryPushes, RetryFails, Sweeping, Monitor
<1> QED BY <1>1, <1>2, <1>3, <1>4, <1>5, <1>6 DEF MonitorStep

LEMMA AgreeStep ==
  ASSUME WInv, [Next]_vars
  PROVE  ListsAgree'
<1> USE DEF WInv, IInv
<1>a. /\ exec.snap \subseteq Tasks
      /\ mon.pc # "each" => mon.task \in Tasks
  BY DEF TypeOK, Executor, SingleOwner, MonitorOwns
<1>1. CASE ExecutorStep
  <2>1. \A u \in exec'.snap : DepMet(u)'
    BY <1>1, ExecutorAgrees, DepMetStays
  <2>2. mon' = mon /\ SameMerged
    BY <1>1, ExecutorRefines
    DEF ExecutorStep, PollQueue, NothingToClaim, TripBreaker, ReturnTripped, Vet,
        NoConflict, ConflictCheckRaises, Claim, Serialize
  <2> QED BY <2>1, <2>2, <1>a DEF ListsAgree, SameMerged
<1>2. CASE SameDeps /\ SameMerged /\ exec' = exec /\ mon' = mon
  <2>1. \A u \in exec'.snap : DepMet(u)'
    BY <1>2, <1>a, DepMetStays DEF ListsAgree, SameDeps
  <2> QED BY <1>2, <2>1, <1>a DEF ListsAgree, SameMerged
<1>3. CASE MonitorStep
  <2>1. SameDeps /\ exec' = exec
    BY <1>3, MonitorRefines
    DEF MonitorStep, OnlyMonitor, BeginSweep, SetGate, MergeAcknowledged, MergeAnswerLost,
        MergeRefused, MergeConflicts, FinalizeMerge, FailMerge, RequeueConflicting,
        RecordRetry, CleanMonitored, ChecksPending, ChecksPass, ChecksFail, NotStuck,
        StuckConflict, TakeApproved, RetryPushes, RetryFails
  <2>2. \A u \in exec'.snap : DepMet(u)'
    BY <2>1, <1>a, DepMetStays DEF ListsAgree, SameDeps
  <2> QED BY <1>3, <2>2, MonitorAgrees DEF ListsAgree
<1>4. ASSUME NEW s \in Slots, CoroutineStep(s)
      PROVE  exec' = exec /\ mon' = mon
  BY <1>4 DEF CoroutineStep, OnlyCoroutine, NameBranch, AddWorktree, CoroutineError,
     AgentSucceeds, AgentRateLimited, AgentFails, VerifyPasses, VerifyFails,
     FixAgentSucceeds, VerifyOrScanBlocks, NothingPublished, OpenPR, RecordPR,
     CleanCoroutine, CascadeCoroutine
<1>5. CASE CoordinatorStep
  <2>1. exec' = exec /\ mon' = mon
    BY <1>5 DEF CoordinatorStep, OnlyReviewer, ListPending, ReviewApproves, ReviewRejects,
       RetryRejected, FailRejected, CleanRejected, BeginReview, CascadeReview
  <2> QED BY <1>2, <1>5, <2>1, CoordinatorRefines
<1>6. CASE OperatorStep
  <2>1. exec' = exec /\ mon' = mon
    BY <1>6 DEF OperatorStep, OnlyOperator, SetHold, ClearHold, SetPaused, ReadTask
  <2> QED BY <1>2, <1>6, <2>1, OperatorRefines DEF Still
<1>7. CASE Crash
  BY <1>7 DEF Crash, ListsAgree, IdleExec, IdleMon
<1>8. CASE Restart
  BY <1>2, <1>8, RestartRefines DEF Restart
<1>9. CASE UNCHANGED vars
  BY <1>2, <1>9 DEF vars, SameDeps, SameMerged
<1> QED
  BY <1>1, <1>2, <1>3, <1>4, <1>5, <1>6, <1>7, <1>8, <1>9, CoroutineRefines
  DEF Next, DispatchStep

LEMMA LeastTask ==
  ASSUME NEW S \in SUBSET Nat, S # {}
  PROVE  \E x \in S : \A y \in S : x <= y
<1> DEFINE R == {ss \in Nat \X Nat : ss[1] < ss[2]}
<1>1. IsWellFoundedOn(R, Nat)
  BY NatLessThanWellFounded DEF OpToRel
<1>2. \A x, y \in Nat : <<y, x>> \in R <=> y < x
  OBVIOUS
<1> HIDE DEF R
<1>3. PICK x \in S : \A y \in S : ~ (<<y, x>> \in R)
  BY <1>1, WFMin
<1>4. \A y \in S : x <= y
  <2> SUFFICES ASSUME NEW y \in S
               PROVE  x <= y
    OBVIOUS
  <2>1. x \in Nat /\ y \in Nat
    OBVIOUS
  <2>2. ~ (y < x)
    BY <1>2, <1>3, <2>1, Zenon
  <2> QED BY <2>1, <2>2, SMT
<1> QED BY <1>4

\* Dependencies start towards earlier tasks: the first task of a set waits for
\* none of the set.
LEMMA InitRefines == Init => Lifecycle!Init
<1> SUFFICES ASSUME Init
             PROVE  Lifecycle!Init
  OBVIOUS
<1>1. \A t \in Tasks : row[t].status = "queued" /\ gh[t].state = "none"
  BY DEF Init
<1>2. \A t \in Tasks : row[t].dep \in Tasks \union {NoTask} /\ row[t].dep < t
  BY DEF Init
<1>3. ASSUME NEW S \in SUBSET Tasks, S # {}
      PROVE  \E t \in S : ({row[t].dep} \ {NoTask}) \cap S = {}
  <2>1. S \in SUBSET Nat
    BY SizeAssumption DEF Tasks
  <2>2. PICK t \in S : \A u \in S : t <= u
    BY <1>3, <2>1, LeastTask
  <2>3. row[t].dep \notin S
    BY <1>2, <2>1, <2>2 DEF Tasks, NoTask
  <2> QED BY <2>3
<1>4. Merged = {}
  BY <1>1 DEF Merged
<1>5. [t \in Tasks |-> {row[t].dep} \ {NoTask}] \in [Tasks -> SUBSET Tasks]
  BY <1>2
<1> QED
  BY <1>1, <1>3, <1>4, <1>5 DEF Lifecycle!Init, Lifecycle!Acyclic

LEMMA WInvariance == Spec => []WInv
<1>1. Init => WInv
  <2>1. Init => ListsAgree
    BY DEF Init, ListsAgree, IdleExec, IdleMon
  <2> QED BY <2>1, InitType, InitOwnership, InitRefines, Lifecycle!InitSafe DEF WInv, IInv
<1>2. ASSUME WInv, [Next]_vars
      PROVE  WInv'
  <2>1. IInv'
    BY <1>2, Inductive DEF WInv
  <2>2. Lifecycle!Safe'
    BY <1>2, StepRefines, Lifecycle!SafeStep DEF WInv
  <2> QED BY <1>2, <2>1, <2>2, AgreeStep DEF WInv
<1>3. WInv /\ [Next]_vars => WInv'
  BY <1>2
<1> QED
  BY <1>1, <1>3, PTL DEF Spec

\* Whatever the loops, the operator, the environment and outages do, the rows
\* and the pull requests of the daemon go through the lifecycle and no other way.
THEOREM LifecycleImplemented == Spec => ImplementsLifecycle
<1>1. WInv /\ [Next]_vars => [Lifecycle!Next]_(Lifecycle!lifecycle)
  BY StepRefines
<1> QED
  BY <1>1, InitRefines, WInvariance, PTL DEF Spec, ImplementsLifecycle, Lifecycle!Spec

LEMMA MetWhenStarted ==
  ASSUME WInv, NEW t \in Tasks, row[t].status \notin {"queued", "failed"}
  PROVE  DepMet(t)
BY DepMetIsMet DEF WInv, IInv, Lifecycle!Safe, Lifecycle!StartedInOrder

\* A task is started, and stays beyond "queued", only behind a complete
\* dependency, although the conflict check rewrites dependencies.
THEOREM StartsInOrder == Spec => []DependenciesMet
<1>1. WInv => DependenciesMet
  BY MetWhenStarted DEF DependenciesMet
<1> QED
  BY <1>1, WInvariance, PTL

\* A task whose pull request is merged is never run again.
THEOREM MergesAreFinal == Spec => []MergedNeverRerun
<1>1. WInv => MergedNeverRerun
  BY DEF WInv, MergedNeverRerun, Lifecycle!Safe, Lifecycle!LandedInOrder, Merged
<1> QED
  BY <1>1, WInvariance, PTL

\* Serializing conflicts never makes tasks wait in a circle.
THEOREM NoCircularWait == Spec => []NoDependencyCycle
<1>1. ASSUME WInv
      PROVE  NoDependencyCycle
  <2> SUFFICES ASSUME NEW S \in SUBSET Tasks, S # {}
               PROVE  \E t \in S : row[t].dep \notin S
    BY DEF NoDependencyCycle
  <2>1. PICK t \in S : ({row[t].dep} \ {NoTask}) \cap S = {}
    BY <1>1 DEF WInv, Lifecycle!Safe, Lifecycle!Acyclic
  <2>2. NoTask \notin S
    BY DEF Tasks, NoTask
  <2> QED BY <2>1, <2>2
<1> QED
  BY <1>1, WInvariance, PTL

-----------------------------------------------------------------------------
(* Cascades.  Whoever fails a task goes on to tell those behind it, and an *)
(* outage apart nothing stops it; and nobody comes to wait behind a task   *)
(* that has failed, in full-auto, where the conflict check does not run.   *)

Heard == {"dispatch", "review", "dependency"}

\* The dependents of t are about to be failed.
Telling(t) == t \in rev.fell \/ \E s \in Slots : t \in slot[s].todo

\* When a conflict check runs.
Checking == /\ mode \in Modes
            /\ faults <= MaxFaults
            /\ exec.pc = "conflict" => mode # "full-auto" /\ exec.snap # {}

\* An error that dependents are to hear of is that of a failed task.
Blamed == \A t \in Tasks : row[t].error \in Heard => row[t].status = "failed"

\* Whoever has dependents to tell is about to.
Told == /\ \A s \in Slots : slot[s].todo # {} => slot[s].pc \in {"clean", "cascade"}
        /\ rev.fell # {} => rev.pc = "cascade"

\* A step that fails a task with such an error begins to tell its dependents,
\* and whoever ends has told them all.
Spread == /\ \A t \in Tasks : row'[t].error \in Heard =>
               row'[t].status = "failed" /\ (row[t].error \in Heard \/ Telling(t)')
          /\ \A t \in Tasks :
               Telling(t) => Telling(t)' \/ \A u \in Dependents(t) : row'[u].status # "queued"

\* The rows but the one of t, and of all rows what these properties look at.
OthersSame(t) == \A u \in Tasks \ {t} : row'[u] = row[u]
AllSame       == \A u \in Tasks : Kept(u) /\ row'[u].error = row[u].error

\* What a step makes of a coroutine and its task: it goes on, hands the task on,
\* gives it up, tidies up after it, or fails dependents.
Outcome(s) ==
    LET t == slot[s].task
    IN  \/ /\ slot'[s].pc \in Driving /\ slot'[s].task = t /\ slot'[s].todo = slot[s].todo
           /\ slot[s].pc \in Driving /\ AllSame
        \/ /\ slot[s].pc \in Driving /\ slot'[s].todo = {}
           /\ row'[t].status \notin {"working", "failed"}
           /\ row'[t].error \in {row[t].error, "none"} /\ OthersSame(t)
        \/ /\ slot[s].pc \in Driving /\ slot'[s].todo = {t}
           /\ slot'[s].pc \in {"clean", "cascade"}
           /\ row'[t].status = "failed" /\ OthersSame(t)
        \/ /\ slot[s].pc = "clean" /\ slot'[s].todo = slot[s].todo
           /\ slot'[s].todo # {} => slot'[s].pc = "cascade"
           /\ AllSame
        \/ \E u \in slot[s].todo :
              /\ slot[s].pc = "cascade" /\ CascadeFrom(u)
              /\ slot'[s].todo = (slot[s].todo \ {u}) \union Dependents(u)
              /\ slot'[s].todo # {} => slot'[s].pc = "cascade"

LEMMA CoroutineOutcome ==
  ASSUME IInv, Told, NEW s \in Slots, CoroutineStep(s)
  PROVE  /\ Outcome(s)
         /\ \A x \in Slots \ {s} : slot'[x] = slot[x]
<1> DEFINE t == slot[s].task
           Others == \A x \in Slots \ {s} : slot'[x] = slot[x]
<1> USE DEF At
<1>a. /\ slot[s].pc # "idle" => t \in Tasks
      /\ slot[s].pc \in Driving => row[t].status = "working" /\ slot[s].todo = {}
  BY DEF IInv, SingleOwner, CoroutinesOwn, CoroutineOwns, Told, Driving
<1>b. row \in [Tasks -> Row] /\ slot \in [Slots -> Coroutine]
  BY DEF IInv, TypeOK
<1>c. ASSUME NEW pc, Goto(s, pc)
      PROVE  /\ slot'[s].pc = pc /\ slot'[s].task = t /\ slot'[s].todo = slot[s].todo
             /\ Others
  BY <1>c, <1>b DEF Goto, Coroutine
<1>d. ASSUME Leave(s)
      PROVE  slot'[s].pc = "idle" /\ slot'[s].todo = {} /\ Others
  BY <1>d, <1>b DEF Leave, IdleSlot
<1>e. ASSUME t \in Tasks, slot[s].pc \in Driving, Leave(s),
             NEW n, NEW a, NEW f, row' = [row EXCEPT ![t] = Again(row[t], n, a, f)]
      PROVE  Outcome(s) /\ Others
  <2>1. row'[t].status = "queued" /\ row'[t].error = "none" /\ OthersSame(t)
    BY <1>e, <1>b DEF Again, OthersSame, Row
  <2> QED BY <2>1, <1>e, <1>d DEF Outcome
<1>f. ASSUME t \in Tasks, slot[s].pc \in Driving, NEW pc \in {"clean", "cascade"},
             row' = [row EXCEPT ![t] = GivenUp(row[t])],
             slot' = [slot EXCEPT ![s].pc = pc, ![s].todo = {t}]
      PROVE  Outcome(s) /\ Others
  <2>1. row'[t].status = "failed" /\ OthersSame(t)
    BY <1>f, <1>b DEF GivenUp, OthersSame, Row
  <2>2. slot'[s].pc = pc /\ slot'[s].todo = {t} /\ Others
    BY <1>f, <1>b DEF Coroutine
  <2> QED BY <2>1, <2>2, <1>f DEF Outcome
<1>1. CASE NameBranch(s) \/ AddWorktree(s)
  <2>1. AllSame
    BY <1>1, <1>a, <1>b DEF NameBranch, AddWorktree, AllSame, Kept, Row
  <2> QED BY <2>1, <1>1, <1>c DEF NameBranch, AddWorktree, Outcome, Driving
<1>2. CASE VerifyPasses(s) \/ VerifyFails(s)
  <2>1. AllSame
    BY <1>2 DEF VerifyPasses, VerifyFails, AllSame, Kept
  <2> QED BY <2>1, <1>2, <1>c DEF VerifyPasses, VerifyFails, Outcome, Driving
<1>3. CASE AgentSucceeds(s) \/ FixAgentSucceeds(s)
  <2>1. AllSame
    BY <1>3 DEF AgentSucceeds, FixAgentSucceeds, AllSame, Kept
  <2>2. /\ slot'[s].pc = "verify" /\ slot'[s].task = t /\ slot'[s].todo = slot[s].todo
        /\ Others /\ slot[s].pc \in {"agent", "fix"}
    BY <1>3, <1>b DEF AgentSucceeds, FixAgentSucceeds, Coroutine
  <2> QED BY <2>1, <2>2 DEF Outcome, Driving
<1>4. CASE CoroutineError(s)
  <2>1. slot[s].pc \in Driving /\ t \in Tasks
    BY <1>4, <1>a DEF CoroutineError, Driving
  <2> QED BY <2>1, <1>4, <1>e, <1>f DEF CoroutineError, Raise
<1>5. CASE AgentRateLimited(s) \/ AgentFails(s)
  <2>1. slot[s].pc \in Driving /\ t \in Tasks
    BY <1>5, <1>a DEF AgentRateLimited, AgentFails, Driving
  <2> QED BY <2>1, <1>5, <1>e, <1>f DEF AgentRateLimited, AgentFails
<1>6. CASE VerifyOrScanBlocks(s)
  <2>1. slot[s].pc \in Driving /\ t \in Tasks
    BY <1>6, <1>a DEF VerifyOrScanBlocks, Driving
  <2> QED BY <2>1, <1>6, <1>f DEF VerifyOrScanBlocks
<1>7. CASE NothingPublished(s)
  <2>1. /\ t \in Tasks /\ row'[t].status = "completed" /\ row'[t].error = row[t].error
        /\ OthersSame(t)
    BY <1>7, <1>a, <1>b DEF NothingPublished, OthersSame, Row
  <2> QED BY <2>1, <1>7, <1>a, <1>c DEF NothingPublished, Outcome, Driving
<1>8. CASE OpenPR(s)
  <2>1. AllSame
    BY <1>8, <1>a, <1>b DEF OpenPR, AllSame, Kept, Row
  <2> QED BY <2>1, <1>8, <1>c DEF OpenPR, Outcome, Driving
<1>9. CASE RecordPR(s)
  <2>1. /\ t \in Tasks /\ row'[t].status = "pr_created" /\ row'[t].error = row[t].error
        /\ OthersSame(t)
    BY <1>9, <1>a, <1>b DEF RecordPR, OthersSame, Row
  <2> QED BY <2>1, <1>9, <1>d DEF RecordPR, Outcome, Driving
<1>10. CASE CleanCoroutine(s)
  <2>1. AllSame
    BY <1>10, <1>a, <1>b DEF CleanCoroutine, AllSame, Kept, Row
  <2> QED BY <2>1, <1>10, <1>c, <1>d DEF CleanCoroutine, Outcome
<1>11. ASSUME NEW u \in Tasks, CascadeCoroutine(s, u)
       PROVE  Outcome(s) /\ Others
  <2> DEFINE rest == (slot[s].todo \ {u}) \union Dependents(u)
  <2>1. /\ slot'[s].todo = rest
        /\ rest # {} => slot'[s].pc = "cascade"
        /\ Others
    BY <1>11, <1>b DEF CascadeCoroutine, IdleSlot, Coroutine
  <2> HIDE DEF rest
  <2>2. u \in slot[s].todo /\ CascadeFrom(u) /\ slot[s].pc = "cascade"
    BY <1>11 DEF CascadeCoroutine
  <2> QED BY <2>1, <2>2 DEF Outcome, rest
<1> QED
  BY <1>1, <1>2, <1>3, <1>4, <1>5, <1>6, <1>7, <1>8, <1>9, <1>10, <1>11 DEF CoroutineStep

\* The conflict check: its state changes hands with the executor's only.
LEMMA CheckingStep ==
  ASSUME IInv, Checking, [Next]_vars
  PROVE  Checking'
<1> DEFINE Drawn == mode' = mode /\ (faults' = faults \/ (faults > 0 /\ faults' = faults - 1))
<1>a. exec \in Executor /\ IdleExec.pc = "poll"
  BY DEF IInv, TypeOK, IdleExec
<1>b. ASSUME Drawn, exec'.pc = "conflict" => mode # "full-auto" /\ exec'.snap # {}
      PROVE  Checking'
  BY <1>b, BudgetAssumption DEF Checking, IInv, TypeOK
<1>c. ASSUME Drawn, exec' = exec
      PROVE  Checking'
  BY <1>c, <1>b DEF Checking
<1>1. CASE Vet
  <2>1. exec' = IdleExec \/ (mode # "full-auto" /\ Inflight(exec.task) # {}
                             /\ exec' = [exec EXCEPT !.pc = "conflict",
                                                    !.snap = Inflight(exec.task)])
        \/ exec' = exec
    BY <1>1 DEF Vet, StartCoroutine
  <2>2. Drawn
    BY <1>1 DEF Vet
  <2> QED BY <2>1, <2>2, <1>a, <1>b, <1>c DEF Executor
<1>2. CASE NoConflict \/ NothingToClaim \/ ReturnTripped
  BY <1>2, <1>a, <1>b DEF NoConflict, StartCoroutine, NothingToClaim, ReturnTripped
<1>3. CASE PollQueue \/ TripBreaker
  BY <1>3, <1>a, <1>b DEF PollQueue, TripBreaker, Executor
<1>4. CASE ConflictCheckRaises
  BY <1>4, <1>a, <1>b DEF ConflictCheckRaises
<1>5. ASSUME NEW u \in Tasks, Serialize(u) \/ Claim(u)
      PROVE  Checking'
  BY <1>5, <1>a, <1>b DEF Serialize, Claim, Executor
<1>6. ASSUME NEW s \in Slots, CoroutineStep(s)
      PROVE  Checking'
  <2> USE DEF OnlyCoroutine
  <2>1. CASE AgentRateLimited(s)
    BY <2>1, <1>c DEF AgentRateLimited
  <2>2. CASE CoroutineError(s) \/ AgentFails(s) \/ VerifyOrScanBlocks(s)
    BY <2>2, <1>c DEF CoroutineError, AgentFails, VerifyOrScanBlocks
  <2>3. CASE NameBranch(s) \/ AddWorktree(s) \/ AgentSucceeds(s) \/ VerifyPasses(s)
             \/ VerifyFails(s) \/ FixAgentSucceeds(s)
    BY <2>3, <1>c DEF NameBranch, AddWorktree, AgentSucceeds, VerifyPasses, VerifyFails,
                      FixAgentSucceeds
  <2>4. CASE NothingPublished(s) \/ OpenPR(s) \/ RecordPR(s) \/ CleanCoroutine(s)
    BY <2>4, <1>c DEF NothingPublished, OpenPR, RecordPR, CleanCoroutine
  <2>5. ASSUME NEW u \in Tasks, CascadeCoroutine(s, u)
        PROVE  Checking'
    BY <2>5, <1>c DEF CascadeCoroutine
  <2> QED BY <1>6, <2>1, <2>2, <2>3, <2>4, <2>5 DEF CoroutineStep
<1>7. CASE MonitorStep
  <2> USE DEF OnlyMonitor
  <2>1. CASE MergeConflicts \/ \E t \in Tasks : StuckConflict(t)
    BY <2>1, <1>c DEF MergeConflicts, StuckConflict, CloseConflicting
  <2>2. CASE BeginSweep \/ SetGate \/ MergeAcknowledged \/ MergeAnswerLost \/ MergeRefused
    BY <2>2, <1>c DEF BeginSweep, SetGate, MergeAcknowledged, MergeAnswerLost, MergeRefused
  <2>3. CASE FinalizeMerge \/ FailMerge \/ RequeueConflicting \/ RecordRetry \/ CleanMonitored
    BY <2>3, <1>c DEF FinalizeMerge, FailMerge, RequeueConflicting, RecordRetry, CleanMonitored
  <2>4. ASSUME NEW t \in Tasks,
               \/ ChecksPending(t) \/ ChecksPass(t) \/ ChecksFail(t) \/ NotStuck(t)
               \/ TakeApproved(t) \/ RetryPushes(t) \/ RetryFails(t)
        PROVE  Checking'
    BY <2>4, <1>c DEF ChecksPending, ChecksPass, ChecksFail, NotStuck, TakeApproved,
                      RetryPushes, RetryFails
  <2> QED BY <1>7, <2>1, <2>2, <2>3, <2>4 DEF MonitorStep
<1>8. CASE CoordinatorStep
  BY <1>8, <1>c
  DEF CoordinatorStep, OnlyReviewer, ListPending, ReviewApproves, ReviewRejects, RetryRejected,
      FailRejected, CleanRejected, BeginReview, CascadeReview
<1>9. CASE OperatorStep
  BY <1>9, <1>c DEF OperatorStep, OnlyOperator, SetHold, ClearHold, SetPaused, ReadTask
<1>10. CASE Restart \/ UNCHANGED vars
  BY <1>10, <1>c DEF Restart, vars
<1>11. CASE Crash
  BY <1>11, <1>a, <1>b DEF Crash
<1> QED
  BY <1>1, <1>2, <1>3, <1>4, <1>5, <1>6, <1>7, <1>8, <1>9, <1>10, <1>11
  DEF Next, ExecutorStep, DispatchStep

\* The errors of the executor's task and of the others are left alone, and in
\* full-auto it gives no task another dependency.
LEMMA ExecutorSpreads ==
  ASSUME IInv, Checking, Told, ExecutorStep
  PROVE  /\ \A u \in Tasks : row'[u].error = row[u].error
         /\ rev' = rev /\ \A s \in Slots : slot'[s].todo = slot[s].todo
         /\ \A u \in Tasks : row'[u].status = "failed" <=> row[u].status = "failed"
         /\ Told'
         /\ mode = "full-auto" => SameDeps
<1>a. exec.pc \notin {"poll", "claim"} =>
         exec.task \in Tasks /\ row[exec.task].status = "working"
  BY DEF IInv, SingleOwner, ExecutorOwns
<1>b. row \in [Tasks -> Row] /\ slot \in [Slots -> Coroutine]
  BY DEF IInv, TypeOK
<1>c. rev' = rev
  BY DEF ExecutorStep, PollQueue, NothingToClaim, TripBreaker, ReturnTripped, Vet,
         NoConflict, ConflictCheckRaises, Claim, Serialize
<1>d. ASSUME UNCHANGED slot \/ \E t \in Tasks : StartCoroutine(t)
      PROVE  Told' /\ \A s \in Slots : slot'[s].todo = slot[s].todo
  <2>1. CASE UNCHANGED slot
    BY <2>1, <1>c DEF Told
  <2>2. ASSUME NEW t \in Tasks, StartCoroutine(t)
        PROVE  Told' /\ \A s \in Slots : slot'[s].todo = slot[s].todo
    <3>1. PICK s \in Slots :
            /\ slot[s].pc = "idle"
            /\ slot' = [slot EXCEPT ![s] = [IdleSlot EXCEPT !.pc = "setup", !.task = t]]
      BY <2>2 DEF StartCoroutine
    <3>2. slot[s].todo = {}
      BY <3>1 DEF Told
    <3>3. slot'[s].todo = {} /\ \A x \in Slots \ {s} : slot'[x] = slot[x]
      BY <3>1, <1>b DEF IdleSlot
    <3> QED BY <3>2, <3>3, <1>c DEF Told
  <2> QED BY <1>d, <2>1, <2>2
<1>1. CASE Vet \/ NoConflict
  <2>1. UNCHANGED slot \/ \E t \in Tasks : StartCoroutine(t)
    BY <1>1, <1>a DEF Vet, NoConflict
  <2> QED BY <2>1, <1>1, <1>a, <1>b, <1>c, <1>d DEF Vet, NoConflict, SameDeps, Row
<1>2. CASE ReturnTripped \/ TripBreaker
  BY <1>2, <1>a, <1>b, <1>c, <1>d DEF ReturnTripped, TripBreaker, SameDeps, Row
<1>3. ASSUME NEW t \in Tasks, Claim(t)
      PROVE  /\ \A u \in Tasks : row'[u].error = row[u].error
             /\ UNCHANGED slot
             /\ \A u \in Tasks : row'[u].status = "failed" <=> row[u].status = "failed"
             /\ SameDeps
  BY <1>3, <1>b DEF Claim, Claimable, SameDeps, Row
<1>4. CASE PollQueue \/ NothingToClaim \/ ConflictCheckRaises
  BY <1>4, <1>c, <1>d DEF PollQueue, NothingToClaim, ConflictCheckRaises, SameDeps
<1>5. ASSUME NEW u \in Tasks, Serialize(u)
      PROVE  /\ \A x \in Tasks : row'[x].error = row[x].error
             /\ UNCHANGED slot /\ mode # "full-auto"
             /\ \A x \in Tasks : row'[x].status = "failed" <=> row[x].status = "failed"
  BY <1>5, <1>a, <1>b DEF Serialize, Checking, Row
<1> QED
  BY <1>1, <1>2, <1>3, <1>4, <1>5, <1>c, <1>d DEF ExecutorStep

LEMMA CascadeWritesErrors ==
  ASSUME TypeOK, NEW v \in Tasks, CascadeFrom(v)
  PROVE  /\ \A u \in Dependents(v) : u \in Tasks /\ row'[u].status = "failed"
         /\ \A u \in Tasks \ Dependents(v) : row'[u] = row[u]
<1>1. \A u \in Tasks \ Dependents(v) : row'[u] = row[u]
  BY DEF CascadeFrom
<1>2. Dependents(v) \subseteq Tasks
  BY DEF Dependents
<1> QED
  BY <1>1, <1>2, CascadeFails

LEMMA CoroutineSpreads ==
  ASSUME WInv, Blamed, Told, NEW s \in Slots, CoroutineStep(s)
  PROVE  Spread /\ Told' /\ SameDeps
<1>t. PICK t : t = slot[s].task
  OBVIOUS
<1>a. Outcome(s) /\ \A x \in Slots \ {s} : slot'[x] = slot[x]
  BY CoroutineOutcome DEF WInv
<1>b. SameDeps
  BY CoroutineRefines
<1>c. rev' = rev
  BY DEF CoroutineStep, OnlyCoroutine, NameBranch, AddWorktree, CoroutineError, AgentSucceeds,
         AgentRateLimited, AgentFails, VerifyPasses, VerifyFails, FixAgentSucceeds,
         VerifyOrScanBlocks, NothingPublished, OpenPR, RecordPR, CleanCoroutine,
         CascadeCoroutine
<1>d. slot[s].pc \in Driving => t \in Tasks /\ row[t].status = "working" /\ slot[s].todo = {}
  BY <1>t DEF WInv, IInv, SingleOwner, CoroutinesOwn, CoroutineOwns, Told, Driving
<1>1. CASE AllSame /\ slot'[s].todo = slot[s].todo
           /\ (slot'[s].todo # {} => slot'[s].pc \in {"clean", "cascade"})
  <2>1. \A x \in Slots : slot'[x].todo = slot[x].todo
    BY <1>1, <1>a
  <2>2. \A u \in Tasks : Telling(u)' <=> Telling(u)
    BY <2>1, <1>c DEF Telling
  <2>3. Told'
    BY <1>1, <1>a, <1>c DEF Told
  <2> QED BY <2>2, <2>3, <1>1, <1>b DEF Spread, AllSame, Kept, Blamed
<1>2. CASE /\ slot[s].pc \in Driving /\ slot'[s].todo = {}
           /\ row'[t].error \in {row[t].error, "none"} /\ OthersSame(t)
  <2>0. \A x \in Slots : slot'[x].todo = slot[x].todo
    BY <1>2, <1>a, <1>d
  <2>1. row'[t].error \notin Heard
    BY <1>2, <1>d DEF Blamed, Heard
  <2>2. \A u \in Tasks : Telling(u)' <=> Telling(u)
    BY <2>0, <1>c DEF Telling
  <2>3. Told'
    BY <1>2, <1>a, <1>c DEF Told
  <2> QED BY <2>1, <2>2, <2>3, <1>2, <1>b DEF Spread, OthersSame, Blamed
<1>3. CASE /\ slot[s].pc \in Driving /\ slot'[s].todo = {t}
           /\ slot'[s].pc \in {"clean", "cascade"}
           /\ row'[t].status = "failed" /\ OthersSame(t)
  <2>1. Telling(t)' /\ \A u \in Tasks : Telling(u) => Telling(u)'
    BY <1>3, <1>a, <1>c, <1>d DEF Telling
  <2>2. Told'
    BY <1>3, <1>a, <1>c DEF Told
  <2> QED BY <2>1, <2>2, <1>3, <1>b DEF Spread, OthersSame, Blamed
<1>4. ASSUME NEW v \in slot[s].todo, CascadeFrom(v),
             slot'[s].todo = (slot[s].todo \ {v}) \union Dependents(v),
             slot'[s].todo # {} => slot'[s].pc = "cascade"
      PROVE  Spread /\ Told'
  <2>1. v \in Tasks /\ TypeOK
    BY DEF WInv, IInv, TypeOK, Coroutine
  <2>2. /\ \A u \in Dependents(v) : u \in Tasks /\ row'[u].status = "failed"
        /\ \A u \in Tasks \ Dependents(v) : row'[u] = row[u]
    BY <2>1, <1>4, CascadeWritesErrors
  <2>3. \A u \in Dependents(v) : Telling(u)'
    BY <1>4 DEF Telling
  <2>4. ASSUME NEW u \in Tasks, Telling(u), u # v
        PROVE  Telling(u)'
    BY <2>4, <1>4, <1>a, <1>c DEF Telling
  <2>5. Told'
    BY <1>4, <1>a, <1>c DEF Told
  <2> QED BY <2>2, <2>3, <2>4, <2>5 DEF Spread, Blamed
<1> QED
  <2>1. slot[s].pc \in Driving => slot[s].todo = {}
    BY <1>d
  <2> QED BY <2>1, <1>t, <1>a, <1>b, <1>1, <1>2, <1>3, <1>4 DEF Outcome

LEMMA CoordinatorSpreads ==
  ASSUME WInv, Blamed, Told, CoordinatorStep
  PROVE  Spread /\ Told' /\ SameDeps
<1>a. /\ rev.pc # "idle" => rev.task \in Tasks
      /\ rev.pc \in {"review", "closed"} => row[rev.task].status = "reviewing"
      /\ \A t \in rev.todo : row[t].status = "pr_created"
      /\ rev.pc # "cascade" => rev.fell = {}
  BY DEF WInv, IInv, SingleOwner, ReviewerOwns, Told
<1>b. row \in [Tasks -> Row] /\ rev \in Reviewer /\ TypeOK
  BY DEF WInv, IInv, TypeOK
<1>c. SameDeps
  BY CoordinatorRefines
<1>d. slot' = slot
  BY DEF CoordinatorStep, OnlyReviewer, ListPending, ReviewApproves, ReviewRejects,
         RetryRejected, FailRejected, CleanRejected, BeginReview, CascadeReview
<1>e. ASSUME \A u \in Tasks : row'[u].error = row[u].error,
             rev.pc # "cascade", rev'.fell = rev.fell
      PROVE  Spread /\ Told'
  <2>1. \A u \in Tasks : row[u].status = "failed" => row'[u].status = "failed"
    BY CoordinatorWrites DEF WInv, WritesOnly, Kept
  <2> QED BY <2>1, <1>e, <1>a, <1>d DEF Spread, Told, Telling, Blamed
<1>1. CASE ListPending \/ ReviewRejects
  <2>1. rev.pc # "cascade" /\ rev'.fell = rev.fell /\ row' = row
    BY <1>1, <1>b DEF ListPending, ReviewRejects, Reviewer
  <2> QED BY <2>1, <1>c, <1>e
<1>2. CASE ReviewApproves \/ RetryRejected \/ CleanRejected
  <2>1. rev.pc # "cascade" /\ rev'.fell = rev.fell
    BY <1>2, <1>b DEF ReviewApproves, RetryRejected, CleanRejected, NextReview, Reviewer
  <2>2. \A u \in Tasks : row'[u].error = row[u].error
    BY <1>2, <1>a, <1>b DEF ReviewApproves, RetryRejected, CleanRejected, Row
  <2> QED BY <2>1, <2>2, <1>c, <1>e
<1>3. ASSUME NEW t \in Tasks, BeginReview(t)
      PROVE  Spread /\ Told'
  BY <1>3, <1>b, <1>e DEF BeginReview, Reviewer, Row
<1>4. CASE FailRejected
  <2>1. /\ row'[rev.task].status = "failed"
        /\ \A u \in Tasks \ {rev.task} : row'[u] = row[u]
        /\ rev'.fell = {rev.task} /\ rev'.pc = "cascade"
    BY <1>4, <1>a, <1>b DEF FailRejected, Reviewer, Row
  <2>2. rev.fell = {}
    BY <1>4, <1>a DEF FailRejected
  <2>3. \A u \in Tasks : Telling(u) \/ u = rev.task => Telling(u)'
    BY <2>1, <2>2, <1>d DEF Telling
  <2>4. Told'
    BY <2>1, <1>d DEF Told
  <2> QED BY <2>1, <2>3, <2>4, <1>c DEF Spread, Blamed
<1>5. ASSUME NEW v \in Tasks, CascadeReview(v)
      PROVE  Spread /\ Told'
  <2>1. /\ \A u \in Dependents(v) : u \in Tasks /\ row'[u].status = "failed"
        /\ \A u \in Tasks \ Dependents(v) : row'[u] = row[u]
    BY <1>5, <1>b, CascadeWritesErrors DEF CascadeReview
  <2>2. /\ rev'.fell = (rev.fell \ {v}) \union Dependents(v)
        /\ rev'.fell # {} => rev'.pc = "cascade"
    BY <1>5, <1>b DEF CascadeReview, Reviewer
  <2>3. \A u \in Tasks : u \in Dependents(v) \/ (Telling(u) /\ u # v) => Telling(u)'
    BY <2>2, <1>d DEF Telling
  <2> QED BY <2>1, <2>2, <2>3, <1>d DEF Spread, Told, Blamed
<1> QED
  BY <1>1, <1>2, <1>3, <1>4, <1>5, <1>c DEF CoordinatorStep

LEMMA MonitorErrors ==
  ASSUME IInv, MonitorStep
  PROVE  /\ \A u \in Tasks : row'[u].error \in {row[u].error, "merge", "retry"}
         /\ slot' = slot /\ rev' = rev
<1> USE DEF OnlyMonitor
<1>a. row \in [Tasks -> Row]
  BY DEF IInv, TypeOK
<1>b. mon.pc # "each" => mon.task \in Tasks
  BY DEF IInv, SingleOwner, MonitorOwns
<1>1. CASE BeginSweep \/ MergeAcknowledged \/ MergeAnswerLost \/ MergeRefused
           \/ MergeConflicts
  BY <1>1 DEF BeginSweep, MergeAcknowledged, MergeAnswerLost, MergeRefused, MergeConflicts
<1>2. CASE SetGate \/ RequeueConflicting
  BY <1>2, <1>a, <1>b DEF SetGate, RequeueConflicting, Row
<1>3. CASE FinalizeMerge \/ FailMerge \/ RecordRetry \/ CleanMonitored
  BY <1>3, <1>a, <1>b DEF FinalizeMerge, FailMerge, RecordRetry, CleanMonitored, Row
<1>4. ASSUME NEW t \in Tasks, ChecksPass(t) \/ ChecksFail(t) \/ RetryFails(t)
      PROVE  /\ \A u \in Tasks : row'[u].error \in {row[u].error, "merge", "retry"}
             /\ slot' = slot /\ rev' = rev
  BY <1>4, <1>a DEF ChecksPass, ChecksFail, RetryFails, Row
<1>5. ASSUME NEW t \in Tasks, \/ ChecksPending(t) \/ NotStuck(t) \/ StuckConflict(t)
                              \/ TakeApproved(t) \/ RetryPushes(t)
      PROVE  row' = row /\ slot' = slot /\ rev' = rev
  BY <1>5 DEF ChecksPending, NotStuck, StuckConflict, TakeApproved, RetryPushes
<1> QED
  BY <1>1, <1>2, <1>3, <1>4, <1>5 DEF MonitorStep

LEMMA MonitorSpreads ==
  ASSUME WInv, Blamed, Told, MonitorStep
  PROVE  Spread /\ Told' /\ SameDeps
<1>1. SameDeps
  BY MonitorRefines
<1>2. /\ \A u \in Tasks : row'[u].error \in {row[u].error, "merge", "retry"}
      /\ slot' = slot /\ rev' = rev
  BY MonitorErrors DEF WInv
<1>3. \A u \in Tasks : row[u].status = "failed" => row'[u].status = "failed"
  BY MonitorWrites DEF WInv, WritesOnly, Kept
<1> QED
  BY <1>1, <1>2, <1>3 DEF Spread, Told, Telling, Blamed, Heard

LEMMA OperatorSpreads ==
  ASSUME WInv, Blamed, Told, OperatorStep
  PROVE  Spread /\ Told' /\ SameDeps
<1>1. Still
  BY OperatorRefines
<1>2. row \in [Tasks -> Row] /\ cmd \in Command
  BY DEF WInv, IInv, TypeOK
<1>3. /\ \A u \in Tasks : row'[u].error = row[u].error
      /\ slot' = slot /\ rev' = rev
  BY <1>2 DEF OperatorStep, OnlyOperator, SetHold, ClearHold, SetPaused, ReadTask, Row,
              Command, NoCmd
<1> QED
  BY <1>1, <1>3 DEF Still, Kept, Spread, Told, Telling, Blamed

Bookkeeping == Checking /\ Blamed /\ Told

LEMMA StepSpreads ==
  ASSUME WInv, Bookkeeping, [Next]_vars
  PROVE  \/ Spread /\ Told' /\ (mode = "full-auto" => SameDeps)
         \/ Crash \/ Restart
<1> USE DEF Bookkeeping
<1>1. CASE ExecutorStep
  BY <1>1, ExecutorSpreads DEF WInv, Spread, Telling, Dependents, Blamed
<1>2. CASE UNCHANGED vars
  BY <1>2 DEF vars, Spread, Told, Telling, SameDeps, Blamed
<1> QED
  BY <1>1, <1>2, CoroutineSpreads, CoordinatorSpreads, MonitorSpreads, OperatorSpreads
  DEF Next, DispatchStep

LEMMA BookkeepingStep ==
  ASSUME WInv, Bookkeeping, [Next]_vars
  PROVE  Bookkeeping'
<1>1. Checking'
  BY CheckingStep DEF WInv, Bookkeeping
<1>2. CASE Spread /\ Told'
  BY <1>1, <1>2 DEF Bookkeeping, Spread, Blamed
<1>3. CASE Crash
  BY <1>1, <1>3 DEF Bookkeeping, Crash, Blamed, Told, IdleSlot, IdleRev
<1>4. CASE Restart
  <2>1. ASSUME NEW t \in Tasks, row'[t].error \in Heard
        PROVE  row'[t].status = "failed"
    <3>a. PICK answered : row' = [x \in Tasks |-> Recovered(x, answered)]
      BY <1>4 DEF Restart
    <3>1. row'[t].error = row[t].error
      BY <3>a, <2>1 DEF Recovered, WInv, IInv, TypeOK, Row, Heard
    <3>2. row[t].status = "failed"
      BY <2>1, <3>1 DEF Bookkeeping, Blamed
    <3> QED BY <3>a, <3>2 DEF Recovered
  <2> QED BY <1>1, <1>4, <2>1 DEF Bookkeeping, Restart, Blamed, Told
<1> QED
  BY <1>2, <1>3, <1>4, StepSpreads

LEMMA BookkeepingHolds == Spec => []Bookkeeping
<1>1. Init => Bookkeeping
  <2> SUFFICES ASSUME Init
               PROVE  Bookkeeping
    OBVIOUS
  <2>1. \A t \in Tasks : row[t].error = "none"
    BY DEF Init
  <2> QED BY <2>1, BudgetAssumption
          DEF Init, Bookkeeping, Checking, Blamed, Heard, Told, IdleExec, IdleSlot, IdleRev
<1>2. WInv /\ Bookkeeping /\ [Next]_vars => Bookkeeping'
  BY BookkeepingStep
<1> QED
  BY <1>1, <1>2, WInvariance, PTL DEF Spec

LEMMA NoOutage ==
  ASSUME up, crashes = 0, [Next]_vars
  PROVE  up' /\ crashes' = 0 /\ mode' = mode
<1>1. CASE ExecutorStep
  BY <1>1 DEF ExecutorStep, PollQueue, NothingToClaim, TripBreaker, ReturnTripped, Vet,
              NoConflict, ConflictCheckRaises, Claim, Serialize, outage
<1>2. ASSUME NEW s \in Slots, CoroutineStep(s)
      PROVE  up' /\ crashes' = 0 /\ mode' = mode
  <2>1. OnlyCoroutine
    BY <1>2 DEF CoroutineStep, NameBranch, AddWorktree, CoroutineError, AgentSucceeds,
                AgentRateLimited, AgentFails, VerifyPasses, VerifyFails, FixAgentSucceeds,
                VerifyOrScanBlocks, NothingPublished, OpenPR, RecordPR, CleanCoroutine,
                CascadeCoroutine
  <2> QED BY <2>1 DEF OnlyCoroutine, outage
<1>3. CASE MonitorStep
  <2>1. OnlyMonitor
    BY <1>3 DEF MonitorStep, BeginSweep, SetGate, MergeAcknowledged, MergeAnswerLost,
                MergeRefused, MergeConflicts, FinalizeMerge, FailMerge, RequeueConflicting,
                RecordRetry, CleanMonitored, ChecksPending, ChecksPass, ChecksFail, NotStuck,
                StuckConflict, TakeApproved, RetryPushes, RetryFails
  <2> QED BY <2>1 DEF OnlyMonitor, outage
<1>4. CASE CoordinatorStep
  <2>1. OnlyReviewer
    BY <1>4 DEF CoordinatorStep, ListPending, ReviewApproves, ReviewRejects, RetryRejected,
                FailRejected, CleanRejected, BeginReview, CascadeReview
  <2> QED BY <2>1 DEF OnlyReviewer, outage
<1>5. CASE OperatorStep
  BY <1>5 DEF OperatorStep, OnlyOperator, SetHold, ClearHold, SetPaused, ReadTask, outage
<1>6. CASE Crash \/ Restart \/ UNCHANGED vars
  BY <1>6 DEF Crash, Restart, vars
<1> QED
  BY <1>1, <1>2, <1>3, <1>4, <1>5, <1>6 DEF Next, DispatchStep

\* Without outages nobody forgets whom to tell.
Undisturbed == up /\ crashes = 0 /\ CascadeComplete

\* A task that comes back to the queue has its dependency met, by MetWhenStarted;
\* one that was there is behind a task that was known to have failed, and whose
\* cascade goes on or has reached it, or behind one that has just failed.
LEMMA UndisturbedStep ==
  ASSUME WInv, Bookkeeping, Undisturbed, [Next]_vars
  PROVE  Undisturbed'
<1>1. up' /\ crashes' = 0 /\ mode' = mode
  BY NoOutage DEF Undisturbed
<1>2. Spread /\ (mode = "full-auto" => SameDeps)
  BY StepSpreads DEF Undisturbed, Crash, Restart
<1>3. \A t \in Tasks : row'[t].dep \in Tasks \union {NoTask}
  BY Inductive DEF WInv, IInv, TypeOK, Row
<1>4. CascadeComplete'
  <2> SUFFICES ASSUME NEW t \in Tasks, mode = "full-auto", row'[t].status = "queued",
                      NEW d \in Tasks, row'[t].dep = d,
                      row'[d].status = "failed", row'[d].error \in Heard
               PROVE  Telling(d)'
    BY <1>1, <1>3 DEF CascadeComplete, Telling, Heard, Undisturbed
  <2>1. row[t].dep = d
    BY <1>2 DEF SameDeps
  <2>2. CASE row[d].error \notin Heard
    BY <2>2, <1>2 DEF Spread
  <2>3. CASE row[d].error \in Heard /\ row[t].status = "queued"
    <3>1. row[d].status = "failed"
      BY <2>3 DEF Bookkeeping, Blamed
    <3>2. Telling(d)
      BY <3>1, <2>1, <2>3 DEF Undisturbed, CascadeComplete, Telling, Heard, Tasks, NoTask
    <3> QED BY <3>2, <2>1, <2>3, <1>2 DEF Spread, Dependents
  <2>4. CASE row[d].error \in Heard /\ row[t].status # "queued"
    <3>1. row[d].status = "failed"
      BY <2>4 DEF Bookkeeping, Blamed
    <3>2. row[t].status \notin Terminal
      BY FinalStep DEF WInv, Terminal
    <3>3. DepMet(t)
      BY <2>4, <3>2, MetWhenStarted DEF Terminal
    <3> QED BY <3>1, <3>3, <2>1 DEF DepMet, Tasks, NoTask
  <2> QED BY <2>2, <2>3, <2>4
<1> QED
  BY <1>1, <1>4 DEF Undisturbed

\* The failures whose path calls handle_dependency_failure reach every queued
\* dependent, in full-auto, while the daemon is not interrupted: none is left
\* waiting once no cascade is under way.
THEOREM CascadesComplete ==
  ASSUME MaxCrashes = 0
  PROVE  Spec => []CascadeComplete
<1>1. Init => Undisturbed
  <2> SUFFICES ASSUME Init
               PROVE  Undisturbed
    OBVIOUS
  <2>1. \A t \in Tasks : row[t].status = "queued" /\ row[t].dep \in Tasks \union {NoTask}
    BY DEF Init
  <2>2. CascadeComplete
    BY <2>1 DEF CascadeComplete
  <2> QED BY <2>2 DEF Init, Undisturbed
<1>2. WInv /\ Bookkeeping /\ Undisturbed /\ [Next]_vars => Undisturbed'
  BY UndisturbedStep
<1>3. Undisturbed => CascadeComplete
  BY DEF Undisturbed
<1> QED
  BY <1>1, <1>2, <1>3, WInvariance, BookkeepingHolds, PTL DEF Spec

-----------------------------------------------------------------------------
(* No working task without an owner.                                       *)

\* Nobody who is at work on t waits for it to get on.
Stranded(t) == up /\ row[t].status = "working" /\ ~Attended(t)

\* Who starts a coroutine hands its task over.
LEMMA StartAttends ==
  ASSUME IInv, NEW t \in Tasks, StartCoroutine(t),
         NEW u \in Tasks, (u = t) \/ (Attended(u) /\ u # exec.task)
  PROVE  Attended(u)'
<1>1. PICK s \in Slots :
        /\ slot[s].pc = "idle"
        /\ slot' = [slot EXCEPT ![s] = [IdleSlot EXCEPT !.pc = "setup", !.task = t]]
  BY DEF StartCoroutine
<1>2. /\ slot'[s].pc \in Driving /\ slot'[s].task = t
      /\ \A x \in Slots : slot[x].pc \in Driving => slot'[x] = slot[x]
  BY <1>1 DEF IInv, TypeOK, IdleSlot, Driving
<1> QED
  BY <1>2 DEF Attended

LEMMA ExecutorAttends ==
  ASSUME IInv, ExecutorStep, NEW u \in Tasks, ~(ConflictCheckRaises /\ exec.task = u),
         row'[u].status = "working", row[u].status = "working" => Attended(u)
  PROVE  Attended(u)'
<1>b. exec.pc \notin {"poll", "claim"} =>
         exec.task \in Tasks /\ row[exec.task].status = "working"
  BY DEF IInv, SingleOwner, ExecutorOwns
<1>c. row \in [Tasks -> Row] /\ exec \in Executor
  BY DEF IInv, TypeOK
<1>d. exec.pc \in {"poll", "claim"} => exec.task # u
  BY DEF IInv, SingleOwner, ExecutorOwns, Tasks, NoTask
\* Back to the queue.
<1>1. ASSUME row'[exec.task].status = "queued", slot' = slot,
             \A t \in Tasks \ {exec.task} : row'[t] = row[t]
      PROVE  Attended(u)'
  <2>1. u # exec.task
    BY <1>1
  <2>2. Attended(u)
    BY <1>1, <2>1
  <2> QED BY <2>1, <2>2, <1>1 DEF Attended
<1>2. CASE ReturnTripped
  <2>1. row'[exec.task].status = "queued" /\ \A t \in Tasks \ {exec.task} : row'[t] = row[t]
    BY <1>2, <1>b, <1>c DEF ReturnTripped, Row
  <2> QED BY <2>1, <1>1, <1>2 DEF ReturnTripped
<1>3. ASSUME NEW v \in Tasks, Serialize(v)
      PROVE  Attended(u)'
  <2>1. row'[exec.task].status = "queued" /\ \A t \in Tasks \ {exec.task} : row'[t] = row[t]
    BY <1>3, <1>b, <1>c DEF Serialize, Row
  <2> QED BY <2>1, <1>1, <1>3 DEF Serialize
<1>4. CASE Vet /\ ~DepMet(exec.task)
  <2>1. row'[exec.task].status = "queued" /\ \A t \in Tasks \ {exec.task} : row'[t] = row[t]
    BY <1>4, <1>b, <1>c DEF Vet, Row
  <2> QED BY <2>1, <1>1, <1>4 DEF Vet
\* Handed over.
<1>5. ASSUME NEW t \in Tasks, t = exec.task, StartCoroutine(t), row' = row
      PROVE  Attended(u)'
  <2>1. Attended(u)
    BY <1>5
  <2> QED BY <2>1, <1>5, StartAttends
\* Kept in hand.
<1>6. CASE Vet /\ UNCHANGED row /\ UNCHANGED slot
           /\ exec' = [exec EXCEPT !.pc = "conflict", !.snap = Inflight(exec.task)]
  BY <1>6, <1>c DEF Vet, Attended, Executor
<1>7. CASE TripBreaker
  <2>1. row'[u].status = row[u].status
    BY <1>7, <1>b, <1>c DEF TripBreaker, Row
  <2> QED BY <2>1, <1>7, <1>c DEF TripBreaker, Attended, Executor
\* Taken in hand.
<1>8. ASSUME NEW t \in Tasks, Claim(t)
      PROVE  Attended(u)'
  <2>1. u # t => row'[u] = row[u]
    BY <1>8, <1>c DEF Claim
  <2>2. exec'.pc = "vet" /\ exec'.task = t /\ slot' = slot
    BY <1>8, <1>c DEF Claim, Executor
  <2>3. u # t => Attended(u) /\ exec.pc = "claim"
    BY <2>1, <1>8 DEF Claim
  <2> QED BY <2>2, <2>3 DEF Attended
<1>9. CASE PollQueue \/ NothingToClaim
  BY <1>9, <1>d DEF PollQueue, NothingToClaim, Attended
<1>10. CASE NoConflict
  <2>1. PICK t \in Tasks : t = exec.task
    BY <1>10, <1>b DEF NoConflict
  <2>2. StartCoroutine(t) /\ row' = row
    BY <1>10, <2>1 DEF NoConflict
  <2> QED BY <2>1, <2>2, <1>5
<1>11. CASE Vet
  <2>1. PICK t \in Tasks : t = exec.task
    BY <1>11, <1>b DEF Vet
  <2>2. CASE StartCoroutine(t) /\ row' = row
    BY <2>1, <2>2, <1>5
  <2>3. CASE ~DepMet(exec.task)
    BY <2>3, <1>4, <1>11
  <2>4. CASE /\ UNCHANGED row /\ UNCHANGED slot
             /\ exec' = [exec EXCEPT !.pc = "conflict", !.snap = Inflight(exec.task)]
    BY <2>4, <1>6, <1>11
  <2> QED BY <1>11, <2>1, <2>2, <2>3, <2>4 DEF Vet
\* Forgotten, another one.
<1>12. CASE ConflictCheckRaises
  <2>1. exec.task # u /\ row' = row /\ slot' = slot
    BY <1>12 DEF ConflictCheckRaises
  <2> QED BY <2>1 DEF Attended
<1> QED
  BY <1>2, <1>3, <1>7, <1>8, <1>9, <1>10, <1>11, <1>12 DEF ExecutorStep

LEMMA CoroutineAttends ==
  ASSUME IInv, Told, NEW s \in Slots, CoroutineStep(s),
         NEW u \in Tasks, row'[u].status = "working", row[u].status = "working" => Attended(u)
  PROVE  Attended(u)'
<1>t. PICK t : t = slot[s].task
  OBVIOUS
<1>a. Outcome(s) /\ \A x \in Slots \ {s} : slot'[x] = slot[x]
  BY CoroutineOutcome
<1>b. exec' = exec
  <2>1. OnlyCoroutine
    BY DEF CoroutineStep, NameBranch, AddWorktree, CoroutineError, AgentSucceeds,
           AgentRateLimited, AgentFails, VerifyPasses, VerifyFails, FixAgentSucceeds,
           VerifyOrScanBlocks, NothingPublished, OpenPR, RecordPR, CleanCoroutine,
           CascadeCoroutine
  <2> QED BY <2>1 DEF OnlyCoroutine
\* A coroutine that does not let go of the task does not strand it.
<1>c. ASSUME row[u].status = "working",
             slot[s].pc \in Driving /\ u = t => slot'[s].pc \in Driving /\ slot'[s].task = t
      PROVE  Attended(u)'
  BY <1>c, <1>t, <1>a, <1>b DEF Attended
<1>1. CASE AllSame /\ (slot[s].pc \in Driving => slot'[s].pc \in Driving /\ slot'[s].task = t)
  BY <1>1, <1>c DEF AllSame, Kept
<1>2. CASE row'[t].status # "working" /\ OthersSame(t)
  <2>1. u # t /\ row[u].status = "working"
    BY <1>2 DEF OthersSame
  <2> QED BY <2>1, <1>c
<1>3. ASSUME NEW v \in slot[s].todo, CascadeFrom(v), slot[s].pc = "cascade"
      PROVE  Attended(u)'
  <2>1. v \in Tasks /\ TypeOK
    BY DEF IInv, TypeOK, Coroutine
  <2>2. row[u].status = "working"
    BY <2>1, <1>3, CascadeWritesErrors
  <2> QED BY <2>2, <1>3, <1>c DEF Driving
<1> QED
  BY <1>1, <1>2, <1>3, <1>t, <1>a DEF Outcome, Driving

LEMMA OnlyExecutorStarts ==
  ASSUME IInv, CoordinatorStep \/ MonitorStep, NEW u \in Tasks, row'[u].status = "working"
  PROVE  row[u].status = "working"
<1>a. row \in [Tasks -> Row] /\ TypeOK
  BY DEF IInv, TypeOK
<1>b. /\ rev.pc # "idle" => rev.task \in Tasks
      /\ mon.pc # "each" => mon.task \in Tasks
  BY DEF IInv, SingleOwner, ReviewerOwns, MonitorOwns
<1>1. CASE ListPending \/ ReviewApproves \/ ReviewRejects
  BY <1>1, <1>a, <1>b DEF ListPending, ReviewApproves, ReviewRejects, Row
<1>2. CASE RetryRejected \/ FailRejected \/ CleanRejected
  BY <1>2, <1>a, <1>b DEF RetryRejected, FailRejected, CleanRejected, Row
<1>3. ASSUME NEW t \in Tasks, BeginReview(t)
      PROVE  row[u].status = "working"
  BY <1>3, <1>a DEF BeginReview, Row
<1>4. ASSUME NEW t \in Tasks, CascadeReview(t)
      PROVE  row[u].status = "working"
  BY <1>4, <1>a, CascadeWritesErrors DEF CascadeReview
<1>5. CASE BeginSweep \/ MergeAcknowledged \/ MergeAnswerLost \/ MergeRefused
           \/ MergeConflicts
  BY <1>5 DEF BeginSweep, MergeAcknowledged, MergeAnswerLost, MergeRefused, MergeConflicts
<1>6. CASE SetGate \/ RequeueConflicting \/ CleanMonitored
  BY <1>6, <1>a, <1>b DEF SetGate, RequeueConflicting, CleanMonitored, Row
<1>7. CASE FinalizeMerge \/ FailMerge \/ RecordRetry
  BY <1>7, <1>a, <1>b DEF FinalizeMerge, FailMerge, RecordRetry, Row
<1>8. ASSUME NEW t \in Tasks, ChecksPass(t) \/ ChecksFail(t) \/ RetryFails(t)
      PROVE  row[u].status = "working"
  BY <1>8, <1>a DEF ChecksPass, ChecksFail, RetryFails, Row
<1>9. ASSUME NEW t \in Tasks, \/ ChecksPending(t) \/ NotStuck(t) \/ StuckConflict(t)
                              \/ TakeApproved(t) \/ RetryPushes(t)
      PROVE  row[u].status = "working"
  BY <1>9 DEF ChecksPending, NotStuck, StuckConflict, TakeApproved, RetryPushes
<1> QED
  BY <1>1, <1>2, <1>3, <1>4, <1>5, <1>6, <1>7, <1>8, <1>9 DEF CoordinatorStep, MonitorStep

\* The steps that leave t to nobody: the conflict check that cannot be started,
\* and the recovery that finds a process with the pid in t's row.
Abandons(t) == \/ ConflictCheckRaises /\ exec.task = t
               \/ Restart /\ row[t].pid /\ t \in adrift'.pid

\* The others' steps, and all together.
LEMMA StrandsNobody ==
  ASSUME WInv, Bookkeeping, [Next]_vars, NEW u \in Tasks, Stranded(u)', ~Stranded(u)
  PROVE  Abandons(u)
<1> SUFFICES ASSUME ~Abandons(u)
             PROVE  Attended(u)'
  BY DEF Stranded
<1> USE DEF WInv, Bookkeeping
<1>a. /\ up /\ row[u].status = "working" => Attended(u)
      /\ up' /\ row'[u].status = "working"
  BY DEF Stranded
<1>1. CASE ExecutorStep
  <2>1. up
    BY <1>1 DEF ExecutorStep, PollQueue, NothingToClaim, TripBreaker, ReturnTripped, Vet,
                NoConflict, ConflictCheckRaises, Claim, Serialize
  <2> QED BY <2>1, <1>1, <1>a, ExecutorAttends DEF Abandons
<1>2. ASSUME NEW s \in Slots, CoroutineStep(s)
      PROVE  Attended(u)'
  <2>1. up
    BY <1>2 DEF CoroutineStep, At, NameBranch, AddWorktree, CoroutineError, AgentSucceeds,
                AgentRateLimited, AgentFails, VerifyPasses, VerifyFails, FixAgentSucceeds,
                VerifyOrScanBlocks, NothingPublished, OpenPR, RecordPR, CleanCoroutine,
                CascadeCoroutine
  <2> QED BY <2>1, <1>2, <1>a, CoroutineAttends
\* The others leave working rows, and those who hold them, alone.
<1>3. ASSUME row[u].status = "working", up' = up, exec' = exec, slot' = slot
      PROVE  Attended(u)'
  BY <1>3, <1>a DEF Attended
<1>4. CASE CoordinatorStep
  <2>1. row[u].status = "working"
    BY <1>4, <1>a, OnlyExecutorStarts
  <2>2. OnlyReviewer
    BY <1>4 DEF CoordinatorStep, ListPending, ReviewApproves, ReviewRejects, RetryRejected,
                FailRejected, CleanRejected, BeginReview, CascadeReview
  <2> QED BY <2>1, <2>2, <1>3 DEF OnlyReviewer, outage
<1>5. CASE MonitorStep
  <2>1. row[u].status = "working"
    BY <1>5, <1>a, OnlyExecutorStarts
  <2>2. OnlyMonitor
    BY <1>5 DEF MonitorStep, BeginSweep, SetGate, MergeAcknowledged, MergeAnswerLost,
                MergeRefused, MergeConflicts, FinalizeMerge, FailMerge, RequeueConflicting,
                RecordRetry, CleanMonitored, ChecksPending, ChecksPass, ChecksFail, NotStuck,
                StuckConflict, TakeApproved, RetryPushes, RetryFails
  <2> QED BY <2>1, <2>2, <1>3 DEF OnlyMonitor, outage
<1>6. CASE OperatorStep
  <2>1. Kept(u)
    BY <1>6, OperatorRefines DEF Still
  <2> QED BY <2>1, <1>a, <1>3, <1>6
          DEF Kept, OperatorStep, OnlyOperator, SetHold, ClearHold, SetPaused, ReadTask, outage
<1>7. CASE Crash
  BY <1>7, <1>a DEF Crash
\* recover_stale_tasks leaves those working whose stored pid is a process's.
<1>8. CASE Restart
  <2>1. PICK answered \in SUBSET {t \in Tasks : row[t].status = "working" /\ row[t].pid} :
           /\ row' = [t \in Tasks |-> Recovered(t, answered)]
           /\ adrift' = [check |-> {}, pid |-> answered]
    BY <1>8 DEF Restart
  <2>2. u \in answered
    BY <2>1, <1>a DEF Recovered, IInv, TypeOK, Row
  <2> QED BY <2>1, <2>2, <1>8 DEF Abandons
<1>9. CASE UNCHANGED vars
  BY <1>9, <1>a, <1>3 DEF vars
<1> QED
  BY <1>1, <1>2, <1>4, <1>5, <1>6, <1>7, <1>8, <1>9 DEF Next, DispatchStep

\* The loops hand a task over without a gap, through retries, outages and
\* restarts.  Two steps alone leave a working task to nobody: the executor's, when
\* the conflict check cannot be started (triage.py:343), and the recovery's, when a
\* process has the pid stored in the task's row (worker_startup.py:163-172).
THEOREM OnlyTwoStrand ==
  Spec => [][\A u \in Tasks : Stranded(u)' => Stranded(u) \/ Abandons(u)]_vars
<1>1. WInv /\ Bookkeeping /\ [Next]_vars =>
        [\A u \in Tasks : Stranded(u)' => Stranded(u) \/ Abandons(u)]_vars
  BY StrandsNobody
<1> QED
  BY <1>1, WInvariance, BookkeepingHolds, PTL DEF Spec

\* While the daemon runs, who was left alone is not forgotten.
LEMMA LeftAloneStays ==
  ASSUME IInv, [Next]_vars, up, up'
  PROVE  LeftAlone \subseteq LeftAlone'
<1> USE DEF outage
<1>a. adrift \in Adrift
  BY DEF IInv, TypeOK
<1>1. CASE ConflictCheckRaises
  BY <1>1, <1>a DEF ConflictCheckRaises, LeftAlone, Adrift
<1>2. CASE ExecutorStep /\ ~ConflictCheckRaises
  BY <1>2 DEF ExecutorStep, PollQueue, NothingToClaim, TripBreaker, ReturnTripped, Vet,
              NoConflict, Claim, Serialize, LeftAlone
<1>3. ASSUME NEW s \in Slots, CoroutineStep(s)
      PROVE  LeftAlone \subseteq LeftAlone'
  <2>1. OnlyCoroutine
    BY <1>3 DEF CoroutineStep, NameBranch, AddWorktree, CoroutineError, AgentSucceeds,
                AgentRateLimited, AgentFails, VerifyPasses, VerifyFails, FixAgentSucceeds,
                VerifyOrScanBlocks, NothingPublished, OpenPR, RecordPR, CleanCoroutine,
                CascadeCoroutine
  <2> QED BY <2>1 DEF OnlyCoroutine, LeftAlone
<1>4. CASE MonitorStep
  <2>1. OnlyMonitor
    BY <1>4 DEF MonitorStep, BeginSweep, SetGate, MergeAcknowledged, MergeAnswerLost,
                MergeRefused, MergeConflicts, FinalizeMerge, FailMerge, RequeueConflicting,
                RecordRetry, CleanMonitored, ChecksPending, ChecksPass, ChecksFail, NotStuck,
                StuckConflict, TakeApproved, RetryPushes, RetryFails
  <2> QED BY <2>1 DEF OnlyMonitor, LeftAlone
<1>5. CASE CoordinatorStep
  <2>1. OnlyReviewer
    BY <1>5 DEF CoordinatorStep, ListPending, ReviewApproves, ReviewRejects, RetryRejected,
                FailRejected, CleanRejected, BeginReview, CascadeReview
  <2> QED BY <2>1 DEF OnlyReviewer, LeftAlone
<1>6. CASE OperatorStep
  BY <1>6 DEF OperatorStep, OnlyOperator, SetHold, ClearHold, SetPaused, ReadTask, LeftAlone
<1>7. CASE Crash \/ Restart \/ UNCHANGED vars
  BY <1>7 DEF Crash, Restart, vars, LeftAlone
<1> QED
  BY <1>1, <1>2, <1>3, <1>4, <1>5, <1>6, <1>7 DEF Next, DispatchStep

\* At any moment a working task is in somebody's hands, unless its conflict check
\* raised or the last recovery found a process with the pid stored in its row.
THEOREM NobodyStranded == Spec => []NoneStranded
<1>1. NoneStranded <=> \A u \in Tasks : Stranded(u) => u \in LeftAlone
  BY DEF NoneStranded, Stranded
<1>2. Init => NoneStranded
  BY DEF Init, NoneStranded
<1>3. ASSUME WInv, Bookkeeping, NoneStranded, [Next]_vars
      PROVE  NoneStranded'
  <2>1. ASSUME NEW u \in Tasks, Stranded(u)'
        PROVE  u \in LeftAlone'
    <3>1. CASE Stranded(u)
      <4>1. u \in LeftAlone /\ up /\ up'
        BY <3>1, <2>1, <1>1, <1>3 DEF Stranded
      <4> QED BY <4>1, <1>3, LeftAloneStays DEF WInv
    <3>2. CASE ~Stranded(u)
      <4>1. Abandons(u)
        BY <3>2, <2>1, <1>3, StrandsNobody
      <4>2. CASE ConflictCheckRaises /\ exec.task = u
        BY <4>2, <1>3 DEF ConflictCheckRaises, LeftAlone, Adrift, WInv, IInv, TypeOK
      <4>3. CASE u \in adrift'.pid
        BY <4>3 DEF LeftAlone
      <4> QED BY <4>1, <4>2, <4>3 DEF Abandons
    <3> QED BY <3>1, <3>2
  <2> QED BY <2>1 DEF NoneStranded, Stranded
<1> QED
  BY <1>2, <1>3, WInvariance, BookkeepingHolds, PTL DEF Spec
=============================================================================
