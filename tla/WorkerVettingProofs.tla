------------------------ MODULE WorkerVettingProofs -------------------------
(***************************************************************************)
(* What a row and a pull request say of each other: what is merged was     *)
(* reviewed and checked after its last push, the row names the newest pull *)
(* request, the retry budget holds, and a merge needs an approval.         *)
(***************************************************************************)
EXTENDS WorkerLifecycleProofs

InPipeline == {"pr_created", "reviewing", "reviewed", "ci_passed", "retrying"}

\* A status promises what was seen of the commits now on the pull request.
Vetted(t) ==
    /\ row[t].status \in {"reviewed", "ci_passed"} => gh[t].reviewed
    /\ row[t].status = "ci_passed" => gh[t].green
    /\ gh[t].state = "merged" => gh[t].reviewed /\ gh[t].green

Published(t) ==
    row[t].status \in InPipeline =>
        row[t].branch /\ row[t].pr = gh[t].num /\ row[t].pr # 0

\* A coroutine past its first step has named the branch; one that has opened a
\* pull request has stored its number.
Branched(s) ==
    /\ slot[s].pc \in Driving \ {"setup"} => row[slot[s].task].branch
    /\ slot[s].pc = "opened" =>
          row[slot[s].task].pr = gh[slot[s].task].num /\ row[slot[s].task].pr # 0

Fine(t) == Vetted(t) /\ Published(t)

VInv == WInv /\ (\A t \in Tasks : Fine(t)) /\ (\A s \in Slots : Branched(s))

\* The step changes nothing of t that Branched, or Fine, depends on.
SamePR(t) ==
    row'[t].branch = row[t].branch /\ row'[t].pr = row[t].pr /\ gh'[t].num = gh[t].num
Unseen(t) ==
    /\ SamePR(t)
    /\ gh'[t].reviewed = gh[t].reviewed /\ gh'[t].green = gh[t].green
    /\ gh'[t].state = "merged" => gh[t].state = "merged"
    /\ Kept(t) \/ row'[t].status \notin InPipeline

LEMMA UnseenFine ==
  ASSUME NEW t \in Tasks, Fine(t), Unseen(t)
  PROVE  Fine(t)'
BY DEF Fine, Vetted, Published, Unseen, SamePR, Kept, InPipeline

LEMMA SameBranched ==
  ASSUME NEW s \in Slots, Branched(s), slot'[s] = slot[s], SamePR(slot[s].task)
  PROVE  Branched(s)'
BY DEF Branched, SamePR

LEMMA CascadeUnseen ==
  ASSUME TypeOK, NEW u \in Tasks, CascadeFrom(u), gh' = gh
  PROVE  \A t \in Tasks : Unseen(t)
<1> SUFFICES ASSUME NEW t \in Tasks
             PROVE  Unseen(t)
  OBVIOUS
<1>1. CASE t \in Dependents(u)
  <2>1. row'[t].status = "failed"
    BY <1>1, CascadeFails
  <2>2. row'[t].branch = row[t].branch /\ row'[t].pr = row[t].pr
    BY <1>1 DEF CascadeFrom, TypeOK, Row
  <2> QED BY <2>1, <2>2 DEF Unseen, SamePR, InPipeline
<1>2. CASE t \notin Dependents(u)
  <2>1. row'[t] = row[t]
    BY <1>2 DEF CascadeFrom
  <2> QED BY <2>1 DEF Unseen, SamePR, Kept
<1> QED BY <1>1, <1>2

-----------------------------------------------------------------------------
LEMMA ExecutorUnseen ==
  ASSUME WInv, ExecutorStep
  PROVE  \A t \in Tasks : Unseen(t)
<1> USE DEF WInv, IInv, Unseen, SamePR, Kept, InPipeline
<1>a. row \in [Tasks -> Row]
  BY DEF TypeOK
<1>b. exec.pc \notin {"poll", "claim"} => exec.task \in Tasks
  BY DEF SingleOwner, ExecutorOwns
<1>1. CASE TripBreaker
  BY <1>1, <1>a DEF TripBreaker, Row
<1>2. CASE ReturnTripped
  BY <1>2, <1>a DEF ReturnTripped, Row
<1>3. CASE Vet
  BY <1>3, <1>a DEF Vet, Row
<1>4. ASSUME NEW t \in Tasks, Claim(t)
      PROVE  \A u \in Tasks : Unseen(u)
  BY <1>4, <1>a DEF Claim, Row
<1>5. ASSUME NEW u \in Tasks, Serialize(u)
      PROVE  \A t \in Tasks : Unseen(t)
  BY <1>5, <1>a DEF Serialize, Row
<1>6. CASE PollQueue \/ NothingToClaim \/ NoConflict \/ ConflictCheckRaises
  BY <1>6 DEF PollQueue, NothingToClaim, NoConflict, ConflictCheckRaises
<1> QED
  BY <1>1, <1>2, <1>3, <1>4, <1>5, <1>6 DEF ExecutorStep

LEMMA ExecutorSlots ==
  ASSUME ExecutorStep, TypeOK
  PROVE  \A s \in Slots : slot'[s] = slot[s] \/ slot'[s].pc = "setup"
<1>1. ASSUME NEW t, StartCoroutine(t)
      PROVE  \A s \in Slots : slot'[s] = slot[s] \/ slot'[s].pc = "setup"
  BY <1>1 DEF StartCoroutine, TypeOK, IdleSlot
<1> QED
  BY <1>1 DEF ExecutorStep, PollQueue, NothingToClaim, TripBreaker, ReturnTripped, Vet,
     NoConflict, ConflictCheckRaises, Claim, Serialize

LEMMA CoordinatorFine ==
  ASSUME VInv, CoordinatorStep
  PROVE  \A t \in Tasks : Fine(t)' /\ (row[t].status = "working" => SamePR(t))
<1> SUFFICES ASSUME NEW t \in Tasks
             PROVE  Fine(t)' /\ (row[t].status = "working" => SamePR(t))
  OBVIOUS
<1> USE DEF VInv, WInv, IInv
<1>a. /\ \A x \in rev.todo : row[x].status = "pr_created"
      /\ rev.pc # "idle" => rev.task \in Tasks
      /\ rev.pc \in {"review", "closed"} => row[rev.task].status = "reviewing"
      /\ rev.pc \in {"cascade", "clean"} => row[rev.task].status = "failed"
  BY DEF SingleOwner, ReviewerOwns
<1>b. row \in [Tasks -> Row] /\ gh \in [Tasks -> PullRequest]
  BY DEF TypeOK
<1>c. Fine(t)
  OBVIOUS
<1>d. ASSUME Unseen(t)
      PROVE  Fine(t)' /\ (row[t].status = "working" => SamePR(t))
  BY <1>c, <1>d, UnseenFine DEF Unseen
<1>1. CASE ListPending
  BY <1>1, <1>d DEF ListPending, Unseen, SamePR, Kept
<1>2. CASE ReviewApproves
  BY <1>2, <1>a, <1>b, <1>c
  DEF ReviewApproves, Fine, Vetted, Published, SamePR, InPipeline, Row, PullRequest
<1>3. CASE ReviewRejects
  <2>1. rev.task \in Tasks /\ gh[rev.task].state # "merged"
    BY <1>3, <1>a, NotMerged DEF ReviewRejects
  <2>2. Unseen(t)
    BY <1>3, <2>1, <1>b DEF ReviewRejects, Unseen, SamePR, Kept, PullRequest
  <2> QED BY <2>2, <1>d
<1>4. CASE RetryRejected
  <2>1. CASE t = rev.task
    BY <1>4, <2>1, <1>a, <1>b, <1>c
    DEF RetryRejected, Fine, Vetted, Published, SamePR, InPipeline, Row
  <2>2. CASE t # rev.task
    BY <1>4, <2>2, <1>b, <1>d DEF RetryRejected, Unseen, SamePR, Kept
  <2> QED BY <2>1, <2>2
<1>5. CASE FailRejected
  <2>1. Unseen(t)
    BY <1>5, <1>b DEF FailRejected, Unseen, SamePR, Kept, InPipeline, Row
  <2> QED BY <2>1, <1>d
<1>6. CASE CleanRejected
  <2>1. CASE t = rev.task
    BY <1>6, <2>1, <1>a, <1>b, <1>c
    DEF CleanRejected, Fine, Vetted, Published, SamePR, InPipeline, Row
  <2>2. CASE t # rev.task
    BY <1>6, <2>2, <1>b, <1>d DEF CleanRejected, Unseen, SamePR, Kept
  <2> QED BY <2>1, <2>2
<1>7. ASSUME NEW x \in Tasks, BeginReview(x)
      PROVE  Fine(t)' /\ (row[t].status = "working" => SamePR(t))
  BY <1>7, <1>a, <1>b, <1>c
  DEF BeginReview, Fine, Vetted, Published, SamePR, InPipeline, Row
<1>8. ASSUME NEW u \in Tasks, CascadeReview(u)
      PROVE  Unseen(t)
  BY <1>8, CascadeUnseen DEF CascadeReview
<1> QED
  BY <1>1, <1>2, <1>3, <1>4, <1>5, <1>6, <1>7, <1>8, <1>d DEF CoordinatorStep

LEMMA MonitorFine ==
  ASSUME VInv, MonitorStep
  PROVE  \A t \in Tasks : Fine(t)' /\ (row[t].status = "working" => SamePR(t))
<1> SUFFICES ASSUME NEW t \in Tasks
             PROVE  Fine(t)' /\ (row[t].status = "working" => SamePR(t))
  OBVIOUS
<1> USE DEF VInv, WInv, IInv, Merging
<1>a. /\ \A x \in mon.todo : row[x].status = SweepStatus(mon.sweep)
      /\ mon.pc # "each" => mon.task \in Tasks
      /\ mon.pc \in {"gate", "merge", "acked", "refused", "requeue"} =>
            row[mon.task].status = "ci_passed"
      /\ mon.pc = "pushed" => row[mon.task].status = "retrying"
      /\ mon.pc = "clean" => row[mon.task].status \in Terminal
  BY DEF SingleOwner, MonitorOwns
<1>b. row \in [Tasks -> Row] /\ gh \in [Tasks -> PullRequest]
  BY DEF TypeOK
<1>c. Fine(t)
  OBVIOUS
<1>d. ASSUME Unseen(t)
      PROVE  Fine(t)' /\ (row[t].status = "working" => SamePR(t))
  BY <1>c, <1>d, UnseenFine DEF Unseen
<1>1. ASSUME row' = row, gh' = gh
      PROVE  Unseen(t)
  BY <1>1 DEF Unseen, SamePR, Kept
<1>2. CASE SetGate
  <2>1. Unseen(t)
    BY <1>2, <1>b DEF SetGate, Unseen, SamePR, Kept, Row, PullRequest
  <2> QED BY <2>1, <1>d
<1>3. CASE MergeAcknowledged \/ MergeAnswerLost
  <2>1. /\ mon.task \in Tasks /\ row[mon.task].status = "ci_passed"
        /\ gh' = [gh EXCEPT ![mon.task].state = "merged"]
        /\ row' = row
    BY <1>3, <1>a DEF MergeAcknowledged, MergeAnswerLost
  <2>2. gh'[t].reviewed = gh[t].reviewed /\ gh'[t].green = gh[t].green /\ gh'[t].num = gh[t].num
    BY <2>1, <1>b DEF PullRequest
  <2>3. gh'[t].state = "merged" => gh[t].state = "merged" \/ row[t].status = "ci_passed"
    BY <2>1, <1>b DEF PullRequest
  <2> QED BY <2>1, <2>2, <2>3, <1>c DEF Fine, Vetted, Published, SamePR
<1>4. ASSUME NEW x \in Tasks, CloseConflicting(x), row' = row
      PROVE  Unseen(t)
  BY <1>4, <1>b DEF CloseConflicting, Unseen, SamePR, Kept, PullRequest
<1>5. CASE FinalizeMerge \/ FailMerge
  <2>1. Unseen(t)
    BY <1>5, <1>b DEF FinalizeMerge, FailMerge, Unseen, SamePR, Kept, InPipeline, Row
  <2> QED BY <2>1, <1>d
<1>6. CASE RequeueConflicting
  <2>1. CASE t = mon.task
    BY <1>6, <2>1, <1>a, <1>b, <1>c
    DEF RequeueConflicting, Fine, Vetted, Published, SamePR, InPipeline, Row
  <2>2. CASE t # mon.task
    BY <1>6, <2>2, <1>b, <1>d DEF RequeueConflicting, Unseen, SamePR, Kept
  <2> QED BY <2>1, <2>2
<1>7. CASE RecordRetry
  <2>1. CASE t = mon.task
    BY <1>7, <2>1, <1>a, <1>b, <1>c
    DEF RecordRetry, Fine, Vetted, Published, SamePR, InPipeline, Row
  <2>2. CASE t # mon.task
    BY <1>7, <2>2, <1>b, <1>d DEF RecordRetry, Unseen, SamePR, Kept
  <2> QED BY <2>1, <2>2
<1>8. CASE CleanMonitored
  <2>1. CASE t = mon.task
    BY <1>8, <2>1, <1>a, <1>b, <1>c
    DEF CleanMonitored, Fine, Vetted, Published, SamePR, InPipeline, Row, Terminal
  <2>2. CASE t # mon.task
    BY <1>8, <2>2, <1>b, <1>d DEF CleanMonitored, Unseen, SamePR, Kept
  <2> QED BY <2>1, <2>2
<1>9. ASSUME NEW x \in Tasks, ChecksPass(x)
      PROVE  Fine(t)' /\ (row[t].status = "working" => SamePR(t))
  <2>1. row[x].status = "reviewed"
    BY <1>9, <1>a DEF ChecksPass, Sweeping, SweepStatus
  <2>2. CASE t = x
    BY <1>9, <2>1, <2>2, <1>b, <1>c
    DEF ChecksPass, Fine, Vetted, Published, SamePR, InPipeline, Row, PullRequest
  <2>3. CASE t # x
    BY <1>9, <2>3, <1>b, <1>d DEF ChecksPass, Unseen, SamePR, Kept
  <2> QED BY <2>2, <2>3
<1>10. ASSUME NEW x \in Tasks, ChecksFail(x)
       PROVE  Fine(t)' /\ (row[t].status = "working" => SamePR(t))
  <2>1. row[x].status = "reviewed"
    BY <1>10, <1>a DEF ChecksFail, Sweeping, SweepStatus
  <2>2. CASE t = x
    <3>1. /\ row'[t].status \in {"retrying", "failed"}
          /\ row'[t].branch = row[t].branch /\ row'[t].pr = row[t].pr
          /\ gh' = gh
      BY <1>10, <2>2, <1>b DEF ChecksFail, Row
    <3> QED BY <3>1, <2>1, <2>2, <1>c DEF Fine, Vetted, Published, SamePR, InPipeline
  <2>3. CASE t # x
    BY <1>10, <2>3, <1>b, <1>d DEF ChecksFail, Unseen, SamePR, Kept
  <2> QED BY <2>2, <2>3
<1>11. ASSUME NEW x \in Tasks, RetryPushes(x)
       PROVE  Fine(t)' /\ (row[t].status = "working" => SamePR(t))
  <2>1. row[x].status = "retrying" /\ gh[x].state # "merged"
    BY <1>11, <1>a, NotMerged DEF RetryPushes, Sweeping, SweepStatus
  <2>2. CASE t = x
    BY <1>11, <2>1, <2>2, <1>b, <1>c
    DEF RetryPushes, Fine, Vetted, Published, SamePR, InPipeline, PullRequest
  <2>3. CASE t # x
    BY <1>11, <2>3, <1>b, <1>d DEF RetryPushes, Unseen, SamePR, Kept
  <2> QED BY <2>2, <2>3
<1>12. ASSUME NEW x \in Tasks, RetryFails(x)
       PROVE  Unseen(t)
  BY <1>12, <1>b DEF RetryFails, Unseen, SamePR, Kept, InPipeline, Row
<1>13. ASSUME BeginSweep \/ MergeRefused
       PROVE  row' = row /\ gh' = gh
  BY <1>13 DEF BeginSweep, MergeRefused
<1>14. ASSUME NEW x \in Tasks, ChecksPending(x) \/ NotStuck(x) \/ TakeApproved(x)
       PROVE  row' = row /\ gh' = gh
  BY <1>14 DEF ChecksPending, NotStuck, TakeApproved
<1>15. CASE MergeConflicts
  BY <1>15, <1>4, <1>a, <1>d DEF MergeConflicts
<1>16. ASSUME NEW x \in Tasks, StuckConflict(x)
       PROVE  Unseen(t)
  BY <1>16, <1>4 DEF StuckConflict
<1> QED
  BY <1>1, <1>2, <1>3, <1>5, <1>6, <1>7, <1>8, <1>9, <1>10, <1>11, <1>12, <1>13, <1>14,
     <1>15, <1>16, <1>d DEF MonitorStep

\* A row that leaves the pipeline promises nothing.
LEMMA MovedOut ==
  ASSUME \A u \in Tasks : Fine(u), NEW t \in Tasks, gh' = gh,
         row'[t].status \notin InPipeline,
         \A u \in Tasks \ {t} : row'[u] = row[u]
  PROVE  /\ \A u \in Tasks : Fine(u)'
         /\ \A u \in Tasks \ {t} : SamePR(u)
BY DEF Fine, Vetted, Published, SamePR, InPipeline

LEMMA CoroutineFine ==
  ASSUME VInv, NEW s \in Slots, CoroutineStep(s)
  PROVE  /\ \A u \in Tasks : Fine(u)'
         /\ \A u \in Tasks \ {slot[s].task} : SamePR(u)
         /\ Branched(s)'
<1> DEFINE t == slot[s].task
           Rows == /\ \A u \in Tasks : Fine(u)'
                   /\ \A u \in Tasks \ {t} : SamePR(u)
           Out == /\ t \in Tasks /\ gh' = gh
                  /\ row'[t].status \notin InPipeline
                  /\ \A u \in Tasks \ {t} : row'[u] = row[u]
<1> USE DEF VInv, WInv, IInv, At
<1>a. /\ slot[s].pc # "idle" => t \in Tasks
      /\ slot[s].pc \in Driving => row[t].status = "working"
      /\ slot[s].pc \in {"clean", "cascade"} => row[t].status \in Terminal
  BY DEF SingleOwner, CoroutinesOwn, CoroutineOwns
<1>b. row \in [Tasks -> Row] /\ gh \in [Tasks -> PullRequest] /\ slot \in [Slots -> Coroutine]
  BY DEF TypeOK
<1>c. Branched(s) /\ \A u \in Tasks : Fine(u)
  OBVIOUS
<1>d. ASSUME Out
      PROVE  Rows
  BY <1>c, <1>d, MovedOut
<1>e. ASSUME slot'[s].pc \notin Driving
      PROVE  Branched(s)'
  BY <1>e DEF Branched, Driving
<1>f. ASSUME row' = row, gh' = gh
      PROVE  Rows
  BY <1>c, <1>f DEF Fine, Vetted, Published, SamePR
<1>g. IdleSlot.pc = "idle"
  BY DEF IdleSlot
<1>1. ASSUME AgentSucceeds(s) \/ VerifyPasses(s) \/ VerifyFails(s) \/ FixAgentSucceeds(s)
      PROVE  Rows /\ Branched(s)'
  <2>1. row' = row /\ gh' = gh
    BY <1>1 DEF AgentSucceeds, VerifyPasses, VerifyFails, FixAgentSucceeds
  <2>2. /\ slot'[s].pc # "opened" /\ slot'[s].task = slot[s].task
        /\ slot[s].pc \in Driving \ {"setup"}
    BY <1>1, <1>b DEF AgentSucceeds, VerifyPasses, VerifyFails, FixAgentSucceeds,
                      Goto, Coroutine, Driving
  <2> QED BY <2>1, <2>2, <1>c, <1>f DEF Branched
<1>2. ASSUME NameBranch(s)
      PROVE  Rows /\ Branched(s)'
  <2>1. /\ t \in Tasks /\ row[t].status = "working"
        /\ gh' = gh /\ row' = [row EXCEPT ![t].branch = TRUE]
    BY <1>2, <1>a DEF NameBranch, Driving
  <2>2. row'[t].status = "working" /\ row'[t].branch
    BY <2>1, <1>b DEF Row
  <2>3. slot'[s].pc = "worktree" /\ slot'[s].task = t
    BY <1>2, <1>b DEF NameBranch, Goto, Coroutine
  <2>4. Out
    BY <2>1, <2>2, <1>b DEF InPipeline
  <2> QED BY <2>2, <2>3, <2>4, <1>d DEF Branched
<1>10. ASSUME AddWorktree(s)
       PROVE  Rows /\ Branched(s)'
  <2>1. /\ t \in Tasks /\ row[t].status = "working" /\ row[t].branch
        /\ gh' = gh /\ row' = [row EXCEPT ![t].pid = TRUE]
    BY <1>10, <1>a, <1>c DEF AddWorktree, Driving, Branched
  <2>2. row'[t].status = "working" /\ row'[t].branch
    BY <2>1, <1>b DEF Row
  <2>3. slot'[s].pc = "agent" /\ slot'[s].task = t
    BY <1>10, <1>b DEF AddWorktree, Goto, Coroutine
  <2>4. Out
    BY <2>1, <2>2, <1>b DEF InPipeline
  <2> QED BY <2>2, <2>3, <2>4, <1>d DEF Branched
<1>3. ASSUME CoroutineError(s)
      PROVE  Rows /\ Branched(s)'
  <2>1. /\ t \in Tasks /\ gh' = gh
        /\ \/ \E n : row' = [row EXCEPT ![t] = Again(row[t], n, row[t].agent, row[t].fallback)]
           \/ row' = [row EXCEPT ![t] = GivenUp(row[t])]
    BY <1>3, <1>a DEF CoroutineError, Raise
  <2>2. row'[t].status \in {"queued", "failed"}
    BY <2>1, <1>b, OneAgain, OneGivenUp DEF Moves
  <2>3. slot'[s].pc \in {"idle", "clean", "cascade"}
    BY <1>3, <1>b, <1>g DEF CoroutineError, Raise, Leave, Coroutine
  <2>4. Out
    BY <2>1, <2>2, <1>b DEF InPipeline
  <2> QED BY <2>3, <2>4, <1>d, <1>e DEF Driving
<1>4. ASSUME AgentRateLimited(s) \/ AgentFails(s) \/ VerifyOrScanBlocks(s)
      PROVE  Rows /\ Branched(s)'
  <2>1. /\ t \in Tasks /\ gh' = gh
        /\ \/ \E n, a, f : row' = [row EXCEPT ![t] = Again(row[t], n, a, f)]
           \/ row' = [row EXCEPT ![t] = GivenUp(row[t])]
    BY <1>4, <1>a DEF AgentRateLimited, AgentFails, VerifyOrScanBlocks
  <2>2. row'[t].status \in {"queued", "failed"}
    BY <2>1, <1>b, OneAgain, OneGivenUp DEF Moves
  <2>3. slot'[s].pc \in {"idle", "cascade"}
    BY <1>4, <1>b, <1>g DEF AgentRateLimited, AgentFails, VerifyOrScanBlocks, Leave, Coroutine
  <2>4. Out
    BY <2>1, <2>2, <1>b DEF InPipeline
  <2> QED BY <2>3, <2>4, <1>d, <1>e DEF Driving
<1>5. ASSUME NothingPublished(s)
      PROVE  Rows /\ Branched(s)'
  <2>1. t \in Tasks /\ row'[t].status = "completed" /\ gh' = gh
        /\ \A u \in Tasks \ {t} : row'[u] = row[u]
    BY <1>5, <1>a, <1>b DEF NothingPublished, Row
  <2>2. slot'[s].pc = "clean"
    BY <1>5, <1>b DEF NothingPublished, Goto, Coroutine
  <2> QED BY <2>1, <2>2, <1>d, <1>e DEF InPipeline, Driving
<1>6. ASSUME OpenPR(s)
      PROVE  Rows /\ Branched(s)'
  <2>1. t \in Tasks /\ row[t].status = "working" /\ row[t].branch
    BY <1>6, <1>a, <1>c DEF OpenPR, Branched, Driving
  <2>2. /\ row'[t].status = "working" /\ row'[t].branch
        /\ row'[t].pr = gh[t].num + 1
        /\ gh'[t].num = gh[t].num + 1 /\ gh'[t].state = "open"
        /\ \A u \in Tasks \ {t} : row'[u] = row[u] /\ gh'[u] = gh[u]
    BY <1>6, <2>1, <1>b DEF OpenPR, Row, PullRequest
  <2>3. gh[t].num + 1 # 0
    BY <2>1, <1>b DEF PullRequest
  <2>4. slot'[s].pc = "opened" /\ slot'[s].task = t
    BY <1>6, <1>b DEF OpenPR, Goto, Coroutine
  <2>5. Rows
    BY <2>2, <1>c DEF Fine, Vetted, Published, SamePR, InPipeline
  <2> QED BY <2>2, <2>3, <2>4, <2>5 DEF Branched
<1>7. ASSUME RecordPR(s)
      PROVE  Rows /\ Branched(s)'
  <2>1. t \in Tasks /\ row[t].branch /\ row[t].pr = gh[t].num /\ row[t].pr # 0
    BY <1>7, <1>a, <1>c DEF RecordPR, Branched, Driving
  <2>2. /\ row'[t].status = "pr_created"
        /\ row'[t].branch = row[t].branch /\ row'[t].pr = row[t].pr
        /\ gh' = gh
        /\ \A u \in Tasks \ {t} : row'[u] = row[u]
    BY <1>7, <2>1, <1>b DEF RecordPR, Row
  <2>3. slot'[s].pc = "idle"
    BY <1>7, <1>b, <1>g DEF RecordPR, Leave
  <2>4. Rows
    BY <2>1, <2>2, <1>c DEF Fine, Vetted, Published, SamePR
  <2> QED BY <2>3, <2>4, <1>e DEF Driving
<1>8. ASSUME CleanCoroutine(s)
      PROVE  Rows /\ Branched(s)'
  <2>1. t \in Tasks /\ row[t].status \in Terminal /\ gh' = gh
        /\ row'[t].status = row[t].status
        /\ \A u \in Tasks \ {t} : row'[u] = row[u]
    BY <1>8, <1>a, <1>b DEF CleanCoroutine, Row
  <2>2. slot'[s].pc \in {"idle", "cascade"}
    BY <1>8, <1>b, <1>g DEF CleanCoroutine, Leave, Goto, Coroutine
  <2> QED BY <2>1, <2>2, <1>d, <1>e DEF InPipeline, Driving, Terminal
<1>9. ASSUME NEW u \in Tasks, CascadeCoroutine(s, u)
      PROVE  Rows /\ Branched(s)'
  <2>1. \A x \in Tasks : Unseen(x)
    BY <1>9, CascadeUnseen DEF CascadeCoroutine
  <2>2. slot'[s].pc \in {"idle", "cascade"}
    BY <1>9, <1>b, <1>g DEF CascadeCoroutine, Coroutine
  <2> QED BY <2>1, <2>2, <1>c, <1>e, UnseenFine DEF Unseen, Driving
<1> QED
  BY <1>1, <1>2, <1>3, <1>4, <1>5, <1>6, <1>7, <1>8, <1>9, <1>10 DEF CoroutineStep

LEMMA OperatorUnseen ==
  ASSUME WInv, OperatorStep \/ Crash
  PROVE  \A t \in Tasks : Unseen(t)
<1> USE DEF WInv, IInv, Unseen, SamePR, Kept
<1>b. row \in [Tasks -> Row] /\ gh \in [Tasks -> PullRequest]
  BY DEF TypeOK
<1>1. CASE SetHold
  BY <1>1, <1>b DEF SetHold, Row
<1>2. CASE ClearHold
  BY <1>2, <1>b DEF ClearHold, Row, PullRequest
<1>3. CASE Crash \/ SetPaused
           \/ \E t \in Tasks, op \in {"approve", "hold", "release"} : ReadTask(op, t)
  BY <1>3 DEF Crash, SetPaused, ReadTask
<1> QED
  BY <1>1, <1>2, <1>3 DEF OperatorStep

LEMMA RestartFine ==
  ASSUME VInv, Restart
  PROVE  /\ \A t \in Tasks : Fine(t)'
         /\ \A s \in Slots : Branched(s)'
<1> USE DEF VInv, WInv, IInv
<1>1. \A s \in Slots : slot'[s].pc = "idle"
  BY DEF Restart, SingleOwner, OutageReleases, IdleSlot
<1>2. \A t \in Tasks : \/ row'[t] = row[t]
                       \/ row'[t].status = "queued"
                       \/ /\ row[t].status = "reviewing" /\ row'[t].status = "pr_created"
                          /\ row'[t].branch = row[t].branch /\ row'[t].pr = row[t].pr
  <2> TAKE t \in Tasks
  <2>0. row[t] \in Row /\ \E answered : row'[t] = Recovered(t, answered)
    BY DEF Restart, TypeOK
  <2>1. CASE row[t].status = "reviewing"
    BY <2>0, <2>1 DEF Recovered, Row
  <2>2. CASE row[t].status = "working"
    BY <2>0, <2>2 DEF Recovered, Row
  <2>3. CASE row[t].status \notin {"reviewing", "working"}
    BY <2>0, <2>3 DEF Recovered
  <2> QED BY <2>1, <2>2, <2>3
<1>3. gh' = gh
  BY DEF Restart
<1>4. \A t \in Tasks : Fine(t)'
  BY <1>2, <1>3 DEF Fine, Vetted, Published, InPipeline
<1> QED BY <1>1, <1>4 DEF Branched, Driving

LEMMA BranchedStays ==
  ASSUME VInv, NEW s \in Slots, slot'[s] = slot[s],
         \A t \in Tasks : row[t].status = "working" => SamePR(t)
  PROVE  Branched(s)'
<1>1. CASE slot[s].pc \in Driving
  <2>1. slot[s].task \in Tasks /\ row[slot[s].task].status = "working"
    BY <1>1 DEF VInv, WInv, IInv, SingleOwner, CoroutinesOwn, CoroutineOwns, Driving
  <2> QED BY <2>1, SameBranched DEF VInv
<1>2. CASE slot[s].pc \notin Driving
  BY <1>2 DEF Branched, Driving
<1> QED BY <1>1, <1>2

LEMMA VettingStep ==
  ASSUME VInv, [Next]_vars
  PROVE  (\A t \in Tasks : Fine(t)') /\ (\A s \in Slots : Branched(s)')
<1> USE DEF VInv
<1>1. CASE ExecutorStep
  <2>1. \A t \in Tasks : Unseen(t)
    BY <1>1, ExecutorUnseen
  <2>2. ASSUME NEW s \in Slots
        PROVE  Branched(s)'
    <3>1. CASE slot'[s] = slot[s]
      BY <2>1, <3>1, BranchedStays DEF Unseen
    <3>2. CASE slot'[s].pc = "setup"
      BY <3>2 DEF Branched
    <3> QED BY <1>1, <3>1, <3>2, ExecutorSlots DEF WInv, IInv
  <2> QED BY <2>1, <2>2, UnseenFine
<1>2. ASSUME NEW s \in Slots, CoroutineStep(s)
      PROVE  (\A t \in Tasks : Fine(t)') /\ (\A x \in Slots : Branched(x)')
  <2>1. /\ \A u \in Tasks : Fine(u)'
        /\ \A u \in Tasks \ {slot[s].task} : SamePR(u)
        /\ Branched(s)'
    BY <1>2, CoroutineFine
  <2>2. slot[s].pc # "idle"
    BY <1>2 DEF CoroutineStep, At, NameBranch, AddWorktree, CoroutineError,
       AgentSucceeds, AgentRateLimited, AgentFails, VerifyPasses, VerifyFails,
       FixAgentSucceeds, VerifyOrScanBlocks, NothingPublished, OpenPR, RecordPR,
       CleanCoroutine, CascadeCoroutine
  <2>3. ASSUME NEW x \in Slots \ {s}
        PROVE  Branched(x)'
    <3>1. slot'[x] = slot[x]
      BY <1>2 DEF CoroutineStep, Raise, Leave, Goto, NameBranch, AddWorktree, CoroutineError,
         AgentSucceeds, AgentRateLimited, AgentFails, VerifyPasses, VerifyFails,
         FixAgentSucceeds, VerifyOrScanBlocks, NothingPublished, OpenPR, RecordPR,
         CleanCoroutine, CascadeCoroutine, WInv, IInv, TypeOK
    <3>2. CASE slot[x].pc = "idle"
      BY <3>1, <3>2 DEF Branched, Driving
    <3>3. CASE slot[x].pc # "idle"
      <4>1. slot[x].task \in Tasks \ {slot[s].task}
        BY <2>2, <3>3 DEF WInv, IInv, SingleOwner, CoroutinesDisjoint, CoroutinesOwn, CoroutineOwns
      <4> QED BY <2>1, <3>1, <4>1, SameBranched
    <3> QED BY <3>2, <3>3
  <2> QED BY <2>1, <2>3
<1>3. ASSUME CoordinatorStep \/ MonitorStep
      PROVE  (\A t \in Tasks : Fine(t)') /\ (\A s \in Slots : Branched(s)')
  <2>1. \A t \in Tasks : Fine(t)' /\ (row[t].status = "working" => SamePR(t))
    BY <1>3, CoordinatorFine, MonitorFine
  <2>2. slot' = slot
    BY <1>3
    DEF CoordinatorStep, OnlyReviewer, ListPending, ReviewApproves, ReviewRejects,
        RetryRejected, FailRejected, CleanRejected, BeginReview, CascadeReview,
        MonitorStep, OnlyMonitor, BeginSweep, SetGate, MergeAcknowledged, MergeAnswerLost,
        MergeRefused, MergeConflicts, FinalizeMerge, FailMerge, RequeueConflicting,
        RecordRetry, CleanMonitored, ChecksPending, ChecksPass, ChecksFail, NotStuck,
        StuckConflict, TakeApproved, RetryPushes, RetryFails
  <2> QED BY <2>1, <2>2, BranchedStays
<1>4. CASE OperatorStep
  <2>1. \A t \in Tasks : Unseen(t)
    BY <1>4, OperatorUnseen
  <2>2. slot' = slot
    BY <1>4 DEF OperatorStep, OnlyOperator, SetHold, ClearHold, SetPaused, ReadTask
  <2> QED BY <2>1, <2>2, UnseenFine, BranchedStays DEF Unseen
<1>5. CASE Crash
  <2>1. \A s \in Slots : slot'[s].pc = "idle"
    BY <1>5 DEF Crash, IdleSlot
  <2> QED BY <1>5, <2>1, OperatorUnseen, UnseenFine DEF Branched, Driving
<1>6. CASE UNCHANGED vars
  BY <1>6 DEF vars, Fine, Vetted, Published, Branched
<1> QED
  BY <1>1, <1>2, <1>3, <1>4, <1>5, <1>6, RestartFine DEF Next, DispatchStep

LEMMA VettingInvariance == Spec => []VInv
<1>1. Init => (\A t \in Tasks : Fine(t)) /\ (\A s \in Slots : Branched(s))
  <2> SUFFICES ASSUME Init
               PROVE  (\A t \in Tasks : Fine(t)) /\ (\A s \in Slots : Branched(s))
    OBVIOUS
  <2>1. \A t \in Tasks : row[t].status = "queued" /\ gh[t].state = "none"
    BY DEF Init
  <2>2. \A s \in Slots : slot[s].pc = "idle"
    BY DEF Init, IdleSlot
  <2> QED BY <2>1, <2>2 DEF Fine, Vetted, Published, Branched, InPipeline, Driving
<1>2. ASSUME VInv, [Next]_vars, WInv'
      PROVE  VInv'
  BY <1>2, VettingStep DEF VInv
<1>3. VInv /\ [Next]_vars /\ WInv' => VInv'
  BY <1>2
<1>4. Init /\ WInv => VInv
  BY <1>1 DEF VInv
<1> QED
  BY <1>3, <1>4, WInvariance, PTL DEF Spec

\* What is merged was approved by the coordinator, and had its checks
\* accepted, after its last push.
THEOREM OnlyVettedIsMerged == Spec => []MergedWasVetted
<1>1. VInv => MergedWasVetted
  BY DEF VInv, MergedWasVetted, Fine, Vetted
<1> QED
  BY <1>1, VettingInvariance, PTL

\* From pr_created to completion the row names the newest pull request and
\* its branch, through rejections, conflicts, CI retries and outages.
THEOREM RowsMatch == Spec => []RowMatchesPR
<1>1. VInv => RowMatchesPR
  BY DEF VInv, RowMatchesPR, Fine, Published, InPipeline
<1> QED
  BY <1>1, VettingInvariance, PTL

-----------------------------------------------------------------------------
(* The retry budget.  The counter is shared by four kinds of retries with  *)
(* two limits; each step keeps it, clears it, or finds room for one more.  *)

Room(n)     == n < MaxTaskRetries \/ n < MaxCIRetries
Within(n)   == n <= MaxTaskRetries \/ n <= MaxCIRetries
Counted(t)  == \/ row'[t].retry = row[t].retry
               \/ row'[t].retry = 0
               \/ row'[t].retry = row[t].retry + 1 /\ Room(row[t].retry)

LEMMA CountedWithin ==
  ASSUME NEW t \in Tasks, TypeOK, Within(row[t].retry), Counted(t)
  PROVE  Within(row'[t].retry)
<1>1. row[t].retry \in Nat
  BY DEF TypeOK, Row
<1>2. MaxTaskRetries \in Nat /\ MaxCIRetries \in Nat
  BY BudgetAssumption
<1> QED BY <1>1, <1>2 DEF Counted, Room, Within

LEMMA AgainRetry ==
  ASSUME NEW r \in Row, NEW n, NEW a, NEW f
  PROVE  Again(r, n, a, f).retry = n
BY DEF Again, Row

LEMMA GivenUpRetry ==
  ASSUME NEW r \in Row
  PROVE  GivenUp(r).retry = r.retry
BY DEF GivenUp, Row

LEMMA CascadeCounted ==
  ASSUME TypeOK, NEW u \in Tasks, CascadeFrom(u)
  PROVE  \A t \in Tasks : Counted(t)
BY DEF CascadeFrom, TypeOK, Row, Counted

LEMMA CoroutineCounted ==
  ASSUME TypeOK, NEW s \in Slots, CoroutineStep(s)
  PROVE  \A t \in Tasks : Counted(t)
<1> SUFFICES ASSUME NEW t \in Tasks
             PROVE  Counted(t)
  OBVIOUS
<1>a. row \in [Tasks -> Row]
  BY DEF TypeOK
<1>1. CASE CoroutineError(s)
  <2>1. Raise(s)
    BY <1>1 DEF CoroutineError
  <2>2. CASE row[slot[s].task].retry < MaxTaskRetries
    <3>1. row' = [row EXCEPT ![slot[s].task] =
                    Again(row[slot[s].task], row[slot[s].task].retry + 1,
                          row[slot[s].task].agent, row[slot[s].task].fallback)]
      BY <2>1, <2>2 DEF Raise
    <3> QED BY <2>2, <3>1, <1>a, AgainRetry DEF Counted, Room
  <2>3. CASE ~(row[slot[s].task].retry < MaxTaskRetries)
    <3>1. row' = [row EXCEPT ![slot[s].task] = GivenUp(row[slot[s].task])]
      BY <2>1, <2>3 DEF Raise
    <3> QED BY <3>1, <1>a, GivenUpRetry DEF Counted
  <2> QED BY <2>2, <2>3
<1>2. CASE AgentRateLimited(s)
  <2>1. PICK b : row' = [row EXCEPT ![slot[s].task] =
                    Again(row[slot[s].task], 0, b, row[slot[s].task].fallback + 1)]
    BY <1>2 DEF AgentRateLimited
  <2> QED BY <2>1, <1>a, AgainRetry DEF Counted
<1>3. CASE AgentFails(s)
  <2>1. CASE /\ row[slot[s].task].retry < MaxTaskRetries
             /\ row' = [row EXCEPT ![slot[s].task] =
                    Again(row[slot[s].task], row[slot[s].task].retry + 1,
                          row[slot[s].task].agent, row[slot[s].task].fallback)]
    BY <2>1, <1>a, AgainRetry DEF Counted, Room
  <2>2. ASSUME NEW b, row' = [row EXCEPT ![slot[s].task] =
                    Again(row[slot[s].task], 0, b, row[slot[s].task].fallback + 1)]
        PROVE  Counted(t)
    BY <2>2, <1>a, AgainRetry DEF Counted
  <2>3. CASE row' = [row EXCEPT ![slot[s].task] = GivenUp(row[slot[s].task])]
    BY <2>3, <1>a, GivenUpRetry DEF Counted
  <2> QED BY <1>3, <2>1, <2>2, <2>3 DEF AgentFails
<1>4. CASE VerifyOrScanBlocks(s)
  <2>1. row' = [row EXCEPT ![slot[s].task] = GivenUp(row[slot[s].task])]
    BY <1>4 DEF VerifyOrScanBlocks
  <2> QED BY <2>1, <1>a, GivenUpRetry DEF Counted
<1>5. CASE \/ NameBranch(s) \/ AddWorktree(s) \/ NothingPublished(s) \/ OpenPR(s) \/ RecordPR(s)
           \/ CleanCoroutine(s)
  BY <1>5, <1>a
  DEF NameBranch, AddWorktree, NothingPublished, OpenPR, RecordPR, CleanCoroutine, Row, Counted
<1>6. ASSUME NEW u \in Tasks, CascadeCoroutine(s, u)
      PROVE  Counted(t)
  BY <1>6, CascadeCounted DEF CascadeCoroutine
<1>7. CASE AgentSucceeds(s) \/ VerifyPasses(s) \/ VerifyFails(s) \/ FixAgentSucceeds(s)
  BY <1>7 DEF AgentSucceeds, VerifyPasses, VerifyFails, FixAgentSucceeds, Counted
<1> QED
  BY <1>1, <1>2, <1>3, <1>4, <1>5, <1>6, <1>7 DEF CoroutineStep

LEMMA CoordinatorCounted ==
  ASSUME TypeOK, CoordinatorStep
  PROVE  \A t \in Tasks : Counted(t)
<1>a. row \in [Tasks -> Row]
  BY DEF TypeOK
<1>1. CASE RetryRejected
  BY <1>1, <1>a DEF RetryRejected, Row, Counted, Room
<1>2. CASE ListPending \/ ReviewApproves \/ ReviewRejects \/ FailRejected \/ CleanRejected
  BY <1>2, <1>a
  DEF ListPending, ReviewApproves, ReviewRejects, FailRejected, CleanRejected, Row, Counted
<1>3. ASSUME NEW u \in Tasks, BeginReview(u)
      PROVE  \A t \in Tasks : Counted(t)
  BY <1>3, <1>a DEF BeginReview, Row, Counted
<1>4. ASSUME NEW u \in Tasks, CascadeReview(u)
      PROVE  \A t \in Tasks : Counted(t)
  BY <1>4, CascadeCounted DEF CascadeReview
<1> QED
  BY <1>1, <1>2, <1>3, <1>4 DEF CoordinatorStep

LEMMA MonitorCounted ==
  ASSUME TypeOK, MonitorStep
  PROVE  \A t \in Tasks : Counted(t)
<1>a. row \in [Tasks -> Row]
  BY DEF TypeOK
<1>1. ASSUME NEW u \in Tasks, ChecksFail(u)
      PROVE  \A t \in Tasks : Counted(t)
  BY <1>1, <1>a DEF ChecksFail, Row, Counted, Room
<1>2. ASSUME NEW u \in Tasks, ChecksPass(u) \/ RetryFails(u)
      PROVE  \A t \in Tasks : Counted(t)
  BY <1>2, <1>a DEF ChecksPass, RetryFails, Row, Counted
<1>3. ASSUME NEW u \in Tasks,
             ChecksPending(u) \/ NotStuck(u) \/ StuckConflict(u) \/ TakeApproved(u) \/ RetryPushes(u)
      PROVE  \A t \in Tasks : Counted(t)
  BY <1>3 DEF ChecksPending, NotStuck, StuckConflict, TakeApproved, RetryPushes, Counted
<1>4. CASE \/ SetGate \/ FinalizeMerge \/ FailMerge \/ RecordRetry \/ CleanMonitored
  BY <1>4, <1>a
  DEF SetGate, FinalizeMerge, FailMerge, RecordRetry, CleanMonitored, Row, Counted
<1>5. CASE RequeueConflicting
  BY <1>5, <1>a DEF RequeueConflicting, Row, Counted
<1>6. CASE \/ BeginSweep \/ MergeAcknowledged \/ MergeAnswerLost \/ MergeRefused
           \/ MergeConflicts
  BY <1>6 DEF BeginSweep, MergeAcknowledged, MergeAnswerLost, MergeRefused, MergeConflicts,
              Counted
<1> QED
  BY <1>1, <1>2, <1>3, <1>4, <1>5, <1>6 DEF MonitorStep

LEMMA OthersCounted ==
  ASSUME TypeOK, ExecutorStep \/ OperatorStep \/ Crash \/ Restart \/ UNCHANGED vars
  PROVE  \A t \in Tasks : Counted(t)
<1>a. row \in [Tasks -> Row]
  BY DEF TypeOK
<1>1. CASE PollQueue \/ NothingToClaim \/ NoConflict \/ ConflictCheckRaises
  BY <1>1 DEF PollQueue, NothingToClaim, NoConflict, ConflictCheckRaises, Counted
<1>2. CASE TripBreaker \/ ReturnTripped \/ Vet
  BY <1>2, <1>a DEF TripBreaker, ReturnTripped, Vet, Row, Counted
<1>3. ASSUME NEW u \in Tasks, Claim(u) \/ Serialize(u)
      PROVE  \A t \in Tasks : Counted(t)
  BY <1>3, <1>a DEF Claim, Serialize, Row, Counted
<1>4. CASE OperatorStep
  BY <1>4, <1>a DEF OperatorStep, SetHold, ClearHold, SetPaused, ReadTask, Row, Counted
<1>5. CASE Restart
  <2>1. PICK answered : row' = [t \in Tasks |-> Recovered(t, answered)]
    BY <1>5 DEF Restart
  <2>2. \A t \in Tasks : Recovered(t, answered).retry = row[t].retry
    BY <1>a DEF Recovered, Row
  <2> QED BY <2>1, <2>2 DEF Counted
<1>6. CASE Crash \/ UNCHANGED vars
  BY <1>6 DEF Crash, vars, Counted
<1> QED
  BY <1>1, <1>2, <1>3, <1>4, <1>5, <1>6 DEF ExecutorStep

\* The retry budget holds however agent failures, errors, rejections and failed
\* checks of one task follow each other, and whichever limit is the larger.
THEOREM BudgetHolds == Spec => []RetryBudget
<1>1. Init => RetryBudget
  <2> SUFFICES ASSUME Init, NEW t \in Tasks
               PROVE  Within(row[t].retry)
    BY DEF RetryBudget, Within
  <2>1. row[t].retry = 0
    BY DEF Init
  <2> QED BY <2>1, BudgetAssumption DEF Within
<1>2. ASSUME TypeOK, RetryBudget, [Next]_vars
      PROVE  RetryBudget'
  <2>1. \A t \in Tasks : Counted(t)
    BY <1>2, CoroutineCounted, CoordinatorCounted, MonitorCounted, OthersCounted
    DEF Next, DispatchStep
  <2>2. \A t \in Tasks : Within(row[t].retry)
    BY <1>2 DEF RetryBudget, Within
  <2>3. \A t \in Tasks : Within(row'[t].retry)
    BY <1>2, <2>1, <2>2, CountedWithin
  <2> QED BY <2>3 DEF RetryBudget, Within
<1>3. TypeOK /\ RetryBudget /\ [Next]_vars => RetryBudget'
  BY <1>2
<1> QED
  BY <1>1, <1>3, TypeCorrect, PTL DEF Spec
-----------------------------------------------------------------------------
(* The merge gate.  Outside full-auto nothing is merged without "approve", *)
(* as long as the daemon is not interrupted and nobody gives the commands  *)
(* that clear holds for other reasons.                                     *)

Calm == crashes = 0 /\ up /\ cmd.op \in {"none", "approve"}

\* A task in ci_passed shows its hold, was approved, or is about to be held.
Gated(t) ==
    /\ row[t].status = "ci_passed" =>
         \/ row[t].hold # "none"
         \/ gh[t].consent
         \/ mon.pc = "gate" /\ mon.task = t
    /\ gh[t].state = "merged" => gh[t].consent

\* The tasks the monitor takes for approved were.
ApprovedListed ==
    /\ mon.sweep = "approved" => \A t \in mon.todo : gh[t].consent
    /\ mon.pc = "merge" => gh[mon.task].consent
    /\ mon.pc = "gate" => gh[mon.task].state # "merged"

GateParts == (\A t \in Tasks : Gated(t)) /\ ApprovedListed
Approval  == Calm /\ (mode # "full-auto" => GateParts)

\* A step that leaves the gate of t alone.
GateKept(t) ==
    /\ row'[t].status = "ci_passed" =>
         /\ row[t].status = "ci_passed"
         /\ row[t].hold # "none" => row'[t].hold # "none" \/ gh'[t].consent
    /\ gh'[t].state = "merged" => gh[t].state = "merged"
    /\ gh[t].consent => gh'[t].consent \/ row[t].status = "working"

LEMMA GatesKept ==
  ASSUME WInv, GateParts, mon' = mon, \A t \in Tasks : GateKept(t)
  PROVE  GateParts'
<1> USE DEF WInv, IInv
<1>1. ASSUME NEW t \in Tasks
      PROVE  Gated(t)'
  <2>1. gh'[t].state = "merged" => gh'[t].consent
    BY NotMerged DEF GateParts, Gated, GateKept
  <2>2. row'[t].status = "ci_passed" =>
          \/ row'[t].hold # "none" \/ gh'[t].consent \/ (mon'.pc = "gate" /\ mon'.task = t)
    <3> SUFFICES ASSUME row'[t].status = "ci_passed"
                 PROVE  \/ row'[t].hold # "none" \/ gh'[t].consent
                        \/ (mon'.pc = "gate" /\ mon'.task = t)
      OBVIOUS
    <3>1. /\ row[t].status = "ci_passed"
          /\ row[t].hold # "none" => row'[t].hold # "none" \/ gh'[t].consent
      BY DEF GateKept
    <3>2. row[t].hold # "none" \/ gh[t].consent \/ (mon.pc = "gate" /\ mon.task = t)
      BY <3>1 DEF GateParts, Gated
    <3>3. gh[t].consent => gh'[t].consent
      BY <3>1 DEF GateKept
    <3> QED BY <3>1, <3>2, <3>3
  <2> QED BY <2>1, <2>2 DEF Gated
<1>2. mon.sweep = "approved" => \A t \in mon.todo : t \in Tasks /\ row[t].status = "ci_passed"
  BY DEF SingleOwner, MonitorOwns, SweepStatus, TypeOK, Monitor
<1>3. mon.pc \in {"merge", "gate"} => mon.task \in Tasks /\ row[mon.task].status = "ci_passed"
  BY DEF SingleOwner, MonitorOwns
<1>4. ApprovedListed'
  BY <1>2, <1>3 DEF GateParts, ApprovedListed, GateKept
<1> QED BY <1>1, <1>4 DEF GateParts

LEMMA CascadeGate ==
  ASSUME TypeOK, NEW u \in Tasks, CascadeFrom(u), gh' = gh
  PROVE  \A t \in Tasks : GateKept(t)
<1>1. \A t \in Tasks : row'[t] = row[t] \/ row'[t].status = "failed"
  BY CascadeFails DEF CascadeFrom
<1> QED BY <1>1 DEF GateKept

LEMMA ExecutorGate ==
  ASSUME WInv, ExecutorStep
  PROVE  mon' = mon /\ \A t \in Tasks : GateKept(t)
<1> USE DEF WInv, IInv, GateKept
<1>a. row \in [Tasks -> Row]
  BY DEF TypeOK
<1>b. exec.pc \notin {"poll", "claim"} => row[exec.task].status = "working"
  BY DEF SingleOwner, ExecutorOwns
<1>1. CASE TripBreaker
  BY <1>1, <1>a, <1>b DEF TripBreaker, Row
<1>2. CASE ReturnTripped
  BY <1>2, <1>a DEF ReturnTripped, Row
<1>3. CASE Vet
  BY <1>3, <1>a DEF Vet, Row
<1>4. ASSUME NEW t \in Tasks, Claim(t)
      PROVE  mon' = mon /\ \A u \in Tasks : GateKept(u)
  BY <1>4, <1>a DEF Claim, Row
<1>5. ASSUME NEW u \in Tasks, Serialize(u)
      PROVE  mon' = mon /\ \A t \in Tasks : GateKept(t)
  BY <1>5, <1>a DEF Serialize, Row
<1>6. CASE PollQueue \/ NothingToClaim \/ NoConflict \/ ConflictCheckRaises
  BY <1>6 DEF PollQueue, NothingToClaim, NoConflict, ConflictCheckRaises
<1> QED
  BY <1>1, <1>2, <1>3, <1>4, <1>5, <1>6 DEF ExecutorStep

LEMMA CoroutineGate ==
  ASSUME WInv, NEW s \in Slots, CoroutineStep(s)
  PROVE  mon' = mon /\ \A t \in Tasks : GateKept(t)
<1> DEFINE t == slot[s].task
<1> USE DEF WInv, IInv, At, OnlyCoroutine
<1>a. /\ slot[s].pc # "idle" => t \in Tasks
      /\ slot[s].pc \in Driving => row[t].status = "working"
      /\ slot[s].pc \in {"clean", "cascade"} => row[t].status \in Terminal
  BY DEF SingleOwner, CoroutinesOwn, CoroutineOwns
<1>b. row \in [Tasks -> Row] /\ gh \in [Tasks -> PullRequest]
  BY DEF TypeOK
<1>c. mon' = mon
  BY DEF CoroutineStep, NameBranch, AddWorktree, CoroutineError, AgentSucceeds,
         AgentRateLimited, AgentFails, VerifyPasses, VerifyFails, FixAgentSucceeds,
         VerifyOrScanBlocks, NothingPublished, OpenPR, RecordPR, CleanCoroutine,
         CascadeCoroutine
<1>d. ASSUME t \in Tasks, gh' = gh, row'[t].status # "ci_passed",
             \A u \in Tasks \ {t} : row'[u] = row[u]
      PROVE  \A u \in Tasks : GateKept(u)
  BY <1>d DEF GateKept
<1>1. CASE AgentSucceeds(s) \/ VerifyPasses(s) \/ VerifyFails(s) \/ FixAgentSucceeds(s)
  BY <1>1 DEF AgentSucceeds, VerifyPasses, VerifyFails, FixAgentSucceeds, GateKept
<1>2. CASE \/ CoroutineError(s) \/ AgentRateLimited(s) \/ AgentFails(s) \/ VerifyOrScanBlocks(s)
  <2>1. /\ t \in Tasks /\ gh' = gh
        /\ \/ \E n, a, f : row' = [row EXCEPT ![t] = Again(row[t], n, a, f)]
           \/ row' = [row EXCEPT ![t] = GivenUp(row[t])]
    BY <1>2, <1>a DEF CoroutineError, Raise, AgentRateLimited, AgentFails, VerifyOrScanBlocks
  <2>2. row'[t].status \in {"queued", "failed"}
    BY <2>1, <1>b, OneAgain, OneGivenUp DEF Moves
  <2> QED BY <2>1, <2>2, <1>b, <1>c, <1>d
<1>3. CASE \/ NameBranch(s) \/ AddWorktree(s) \/ NothingPublished(s) \/ RecordPR(s)
           \/ CleanCoroutine(s)
  <2>1. t \in Tasks /\ gh' = gh /\ \A u \in Tasks \ {t} : row'[u] = row[u]
    BY <1>3, <1>a, <1>b DEF NameBranch, AddWorktree, NothingPublished, RecordPR, CleanCoroutine
  <2>2. row'[t].status # "ci_passed"
    BY <1>3, <1>a, <1>b
    DEF NameBranch, AddWorktree, NothingPublished, RecordPR, CleanCoroutine, Driving, Terminal, Row
  <2> QED BY <2>1, <2>2, <1>c, <1>d
<1>4. CASE OpenPR(s)
  <2>1. t \in Tasks /\ row[t].status = "working"
    BY <1>4, <1>a DEF OpenPR, Driving
  <2>2. /\ row'[t].status = "working" /\ gh'[t].state = "open"
        /\ \A u \in Tasks \ {t} : row'[u] = row[u] /\ gh'[u] = gh[u]
    BY <1>4, <2>1, <1>b DEF OpenPR, Row, PullRequest
  <2> QED BY <2>1, <2>2, <1>c DEF GateKept
<1>5. ASSUME NEW u \in Tasks, CascadeCoroutine(s, u)
      PROVE  \A x \in Tasks : GateKept(x)
  BY <1>5, CascadeGate DEF CascadeCoroutine
<1> QED
  BY <1>c, <1>1, <1>2, <1>3, <1>4, <1>5 DEF CoroutineStep

LEMMA CoordinatorGate ==
  ASSUME WInv, CoordinatorStep
  PROVE  mon' = mon /\ \A t \in Tasks : GateKept(t)
<1> USE DEF WInv, IInv, OnlyReviewer
<1>a. /\ \A x \in rev.todo : row[x].status = "pr_created"
      /\ rev.pc # "idle" => rev.task \in Tasks
      /\ rev.pc \in {"cascade", "clean"} => row[rev.task].status = "failed"
  BY DEF SingleOwner, ReviewerOwns
<1>b. row \in [Tasks -> Row] /\ gh \in [Tasks -> PullRequest]
  BY DEF TypeOK
<1>1. CASE ListPending
  BY <1>1 DEF ListPending, GateKept
<1>2. CASE ReviewApproves
  BY <1>2, <1>b DEF ReviewApproves, GateKept, Row, PullRequest
<1>3. CASE ReviewRejects
  BY <1>3, <1>b DEF ReviewRejects, GateKept, PullRequest
<1>4. CASE RetryRejected \/ FailRejected
  BY <1>4, <1>b DEF RetryRejected, FailRejected, GateKept, Row
<1>5. CASE CleanRejected
  BY <1>5, <1>a, <1>b DEF CleanRejected, GateKept, Row
<1>6. ASSUME NEW x \in Tasks, BeginReview(x)
      PROVE  mon' = mon /\ \A t \in Tasks : GateKept(t)
  BY <1>6, <1>b DEF BeginReview, GateKept, Row
<1>7. ASSUME NEW u \in Tasks, CascadeReview(u)
      PROVE  mon' = mon /\ \A t \in Tasks : GateKept(t)
  BY <1>7, CascadeGate DEF CascadeReview
<1> QED
  BY <1>1, <1>2, <1>3, <1>4, <1>5, <1>6, <1>7 DEF CoordinatorStep

\* approve clears a hold and is a consent; nobody else writes here.
LEMMA OperatorGate ==
  ASSUME WInv, Calm, Commands \subseteq {"approve"}, OperatorStep
  PROVE  mon' = mon /\ Calm' /\ \A t \in Tasks : GateKept(t)
<1> USE DEF WInv, IInv, OnlyOperator, outage, Calm, NoCmd
<1>b. row \in [Tasks -> Row] /\ gh \in [Tasks -> PullRequest]
  BY DEF TypeOK
<1>c. cmd.op = "approve" => cmd.task \in Tasks
  BY DEF TypeOK, Command
<1>1. CASE SetHold \/ SetPaused
  BY <1>1 DEF SetHold, SetPaused
<1>2. CASE ClearHold
  <2>1. cmd.op = "approve" /\ cmd.task \in Tasks
    BY <1>2, <1>c DEF ClearHold
  <2>2. /\ row' = [row EXCEPT ![cmd.task].hold = "none"]
        /\ gh' = [gh EXCEPT ![cmd.task].consent = TRUE]
    BY <1>2, <2>1 DEF ClearHold
  <2>3. \A t \in Tasks :
          /\ row'[t].status = row[t].status /\ gh'[t].state = gh[t].state
          /\ t # cmd.task => row'[t] = row[t] /\ gh'[t] = gh[t]
          /\ t = cmd.task => gh'[t].consent
    BY <2>1, <2>2, <1>b DEF Row, PullRequest
  <2> QED BY <1>2, <2>3 DEF ClearHold, GateKept
<1>3. ASSUME NEW t \in Tasks, NEW op \in {"approve", "hold", "release"}, ReadTask(op, t)
      PROVE  mon' = mon /\ Calm' /\ \A u \in Tasks : GateKept(u)
  BY <1>3 DEF ReadTask, GateKept
<1> QED
  BY <1>1, <1>2, <1>3 DEF OperatorStep
LEMMA MonitorGate ==
  ASSUME WInv, GateParts, mode # "full-auto", MonitorStep
  PROVE  GateParts'
<1> USE DEF WInv, IInv, Merging, OnlyMonitor
<1>a. /\ \A x \in mon.todo : x \in Tasks /\ row[x].status = SweepStatus(mon.sweep)
      /\ mon.pc # "each" => mon.task \in Tasks /\ mon.task \notin mon.todo
      /\ mon.pc = "clean" => row[mon.task].status \in Terminal
  BY DEF SingleOwner, MonitorOwns, TypeOK, Monitor
<1>b. row \in [Tasks -> Row] /\ gh \in [Tasks -> PullRequest] /\ mon \in Monitor
  BY DEF TypeOK
<1>c. ASSUME mon'.sweep = mon.sweep, mon'.todo \subseteq mon.todo,
             mon'.pc \notin {"merge", "gate"},
             \A x \in mon.todo : gh[x].consent => gh'[x].consent
      PROVE  ApprovedListed'
  BY <1>c DEF GateParts, ApprovedListed
<1>d. ASSUME NEW t \in Tasks, GateKept(t), ~(mon.pc = "gate" /\ mon.task = t)
      PROVE  Gated(t)'
  <2>1. gh'[t].state = "merged" => gh'[t].consent
    BY <1>d, NotMerged DEF GateParts, Gated, GateKept
  <2>2. row'[t].status = "ci_passed" => row'[t].hold # "none" \/ gh'[t].consent
    <3> SUFFICES ASSUME row'[t].status = "ci_passed"
                 PROVE  row'[t].hold # "none" \/ gh'[t].consent
      OBVIOUS
    <3>1. /\ row[t].status = "ci_passed"
          /\ row[t].hold # "none" => row'[t].hold # "none" \/ gh'[t].consent
          /\ gh[t].consent => gh'[t].consent
      BY <1>d DEF GateKept
    <3>2. row[t].hold # "none" \/ gh[t].consent
      BY <1>d, <3>1 DEF GateParts, Gated
    <3> QED BY <3>1, <3>2
  <2> QED BY <2>1, <2>2 DEF Gated
<1>1. CASE SetGate
  <2>1. /\ mon.task \in Tasks /\ gh[mon.task].state # "merged"
        /\ row' = [row EXCEPT ![mon.task].hold = "merge_approval"]
        /\ gh' = [gh EXCEPT ![mon.task].consent = FALSE]
    BY <1>1, <1>a DEF SetGate, GateParts, ApprovedListed
  <2>2. row'[mon.task].hold # "none" /\ gh'[mon.task].state # "merged"
    BY <2>1, <1>b DEF Row, PullRequest
  <2>3. ASSUME NEW t \in Tasks
        PROVE  Gated(t)'
    <3>1. CASE t = mon.task
      BY <2>2, <3>1 DEF Gated
    <3>2. CASE t # mon.task
      BY <2>1, <3>2, <1>d DEF GateKept
    <3> QED BY <3>1, <3>2
  <2>4. ApprovedListed'
    <3>1. /\ mon'.sweep = mon.sweep /\ mon'.todo \subseteq mon.todo /\ mon'.pc = "each"
          /\ mon.task \notin mon.todo
      BY <1>1, <1>a, <1>b DEF SetGate, Done, Monitor
    <3>2. \A x \in mon.todo : gh'[x] = gh[x]
      BY <2>1, <3>1, <1>a
    <3> QED BY <3>1, <3>2, <1>c
  <2> QED BY <2>3, <2>4 DEF GateParts
<1>2. CASE MergeAcknowledged \/ MergeAnswerLost
  <2>1. /\ mon.task \in Tasks /\ mon.pc = "merge" /\ gh[mon.task].consent
        /\ row' = row
        /\ gh' = [gh EXCEPT ![mon.task].state = "merged"]
    BY <1>2, <1>a DEF MergeAcknowledged, MergeAnswerLost, GateParts, ApprovedListed
  <2>2. /\ \A t \in Tasks : gh'[t].consent = gh[t].consent
        /\ \A t \in Tasks : t # mon.task => gh'[t] = gh[t]
    BY <2>1, <1>b DEF PullRequest
  <2>3. ASSUME NEW t \in Tasks
        PROVE  Gated(t)'
    <3>1. CASE t = mon.task
      BY <2>1, <2>2, <3>1 DEF Gated
    <3>2. CASE t # mon.task
      BY <2>1, <2>2, <3>2, <1>d DEF GateKept
    <3> QED BY <3>1, <3>2
  <2>4. ApprovedListed'
    BY <1>2, <2>2, <1>a, <1>b, <1>c DEF MergeAcknowledged, MergeAnswerLost, Then, Monitor
  <2> QED BY <2>3, <2>4 DEF GateParts
<1>3. CASE BeginSweep
  <2>1. mon.pc = "each" /\ row' = row /\ gh' = gh /\ mon'.pc = "each"
        /\ mon'.sweep = NextSweep(mon.sweep) /\ mon'.todo = Listed(NextSweep(mon.sweep))
    BY <1>3, <1>b DEF BeginSweep, Monitor
  <2>2. \A t \in Tasks : Gated(t)'
    BY <2>1, <1>d DEF GateKept
  <2>3. \A t \in Listed("approved") :
          t \in Tasks /\ row[t].status = "ci_passed" /\ row[t].hold = "none"
    BY DEF Listed, SweepStatus
  <2>4. \A t \in Listed("approved") : gh[t].consent
    BY <2>1, <2>3 DEF GateParts, Gated
  <2>5. ApprovedListed'
    BY <2>1, <2>4 DEF ApprovedListed
  <2> QED BY <2>2, <2>5 DEF GateParts
<1>4. ASSUME NEW x \in Tasks, TakeApproved(x)
      PROVE  GateParts'
  <2>1. /\ mon.pc = "each" /\ mon.sweep = "approved" /\ x \in mon.todo
        /\ row' = row /\ gh' = gh
        /\ mon'.pc = "merge" /\ mon'.task = x /\ mon'.todo \subseteq mon.todo
    BY <1>4, <1>b DEF TakeApproved, Sweeping, Take, Monitor
  <2>2. \A t \in Tasks : Gated(t)'
    BY <2>1, <1>d DEF GateKept
  <2>3. ApprovedListed'
    BY <2>1 DEF GateParts, ApprovedListed
  <2> QED BY <2>2, <2>3 DEF GateParts
<1>5. ASSUME NEW x \in Tasks, ChecksPass(x)
      PROVE  GateParts'
  <2>1. /\ mon.pc = "each" /\ mon.sweep = "reviewed" /\ row[x].status = "reviewed"
        /\ mon'.pc = "gate" /\ mon'.task = x /\ mon'.sweep = "reviewed"
    BY <1>5, <1>a, <1>b DEF ChecksPass, Sweeping, SweepStatus, Take, Monitor
  <2>2. gh[x].state # "merged"
    BY <2>1, NotMerged
  <2>3. gh'[x].state = gh[x].state /\ \A t \in Tasks \ {x} : row'[t] = row[t] /\ gh'[t] = gh[t]
    BY <1>5, <1>b DEF ChecksPass, PullRequest
  <2>4. ASSUME NEW t \in Tasks
        PROVE  Gated(t)'
    <3>1. CASE t = x
      BY <2>1, <2>2, <2>3, <3>1 DEF Gated
    <3>2. CASE t # x
      BY <2>1, <2>3, <3>2, <1>d DEF GateKept
    <3> QED BY <3>1, <3>2
  <2>5. ApprovedListed'
    BY <2>1, <2>2, <2>3 DEF ApprovedListed
  <2> QED BY <2>4, <2>5 DEF GateParts
\* All the others move nothing to ci_passed, and nobody's consent.
<1>6. ASSUME \A t \in Tasks : GateKept(t), \A t \in Tasks : gh'[t].consent = gh[t].consent,
             mon.pc # "gate", mon'.sweep = mon.sweep, mon'.todo \subseteq mon.todo,
             mon'.pc \notin {"merge", "gate"}
      PROVE  GateParts'
  BY <1>6, <1>a, <1>c, <1>d DEF GateParts
<1>7. ASSUME NEW x \in Tasks, ChecksPending(x) \/ NotStuck(x)
      PROVE  GateParts'
  <2>1. row' = row /\ gh' = gh
    BY <1>7 DEF ChecksPending, NotStuck
  <2>2. /\ mon.pc # "gate" /\ mon'.sweep = mon.sweep /\ mon'.todo \subseteq mon.todo
        /\ mon'.pc = "each"
    BY <1>7, <1>b DEF ChecksPending, NotStuck, Sweeping, Done, Monitor
  <2> QED BY <2>1, <2>2, <1>6 DEF GateKept
<1>8. ASSUME NEW x \in Tasks, ChecksFail(x) \/ RetryFails(x) \/ RetryPushes(x)
      PROVE  GateParts'
  <2>1. \A t \in Tasks : GateKept(t) /\ gh'[t].consent = gh[t].consent
    <3>1. CASE ChecksFail(x)
      BY <3>1, <1>b DEF ChecksFail, GateKept, Row
    <3>2. CASE RetryFails(x)
      BY <3>2, <1>b DEF RetryFails, GateKept, Row
    <3>3. CASE RetryPushes(x)
      BY <3>3, <1>b DEF RetryPushes, GateKept, PullRequest
    <3> QED BY <1>8, <3>1, <3>2, <3>3
  <2>2. /\ mon.pc # "gate" /\ mon'.sweep = mon.sweep /\ mon'.todo \subseteq mon.todo
        /\ mon'.pc \in {"each", "clean", "pushed"}
    BY <1>8, <1>b DEF ChecksFail, RetryFails, RetryPushes, Sweeping, Done, Take, Monitor
  <2> QED BY <2>1, <2>2, <1>6
<1>9. ASSUME NEW x \in Tasks, CloseConflicting(x), row' = row
      PROVE  \A t \in Tasks : GateKept(t) /\ gh'[t].consent = gh[t].consent
  BY <1>9, <1>b DEF CloseConflicting, GateKept, PullRequest
<1>10. ASSUME NEW x \in Tasks, StuckConflict(x)
       PROVE  GateParts'
  <2>1. /\ mon.pc # "gate" /\ mon'.sweep = mon.sweep /\ mon'.todo \subseteq mon.todo
        /\ mon'.pc = "requeue"
    BY <1>10, <1>b DEF StuckConflict, Sweeping, Take, Monitor
  <2> QED BY <1>10, <2>1, <1>9, <1>6 DEF StuckConflict
<1>11. CASE MergeConflicts
  <2>1. /\ mon.task \in Tasks
        /\ mon.pc # "gate" /\ mon'.sweep = mon.sweep /\ mon'.todo \subseteq mon.todo
        /\ mon'.pc = "requeue"
    BY <1>11, <1>a, <1>b DEF MergeConflicts, Then, Monitor
  <2> QED BY <1>11, <2>1, <1>9, <1>6 DEF MergeConflicts
<1>12. CASE MergeRefused
  <2>1. /\ mon.pc # "gate" /\ mon'.sweep = mon.sweep /\ mon'.todo \subseteq mon.todo
        /\ mon'.pc = "refused" /\ row' = row /\ gh' = gh
    BY <1>12, <1>b DEF MergeRefused, Then, Monitor
  <2> QED BY <2>1, <1>6 DEF GateKept
<1>13. CASE FinalizeMerge \/ FailMerge \/ RequeueConflicting \/ RecordRetry \/ CleanMonitored
  <2>1. mon.task \in Tasks /\ gh' = gh /\ \A t \in Tasks \ {mon.task} : row'[t] = row[t]
    <3>1. mon.task \in Tasks /\ gh' = gh
      BY <1>13, <1>a
      DEF FinalizeMerge, FailMerge, RequeueConflicting, RecordRetry, CleanMonitored
    <3>2. CASE FinalizeMerge \/ FailMerge \/ RecordRetry \/ CleanMonitored
      BY <3>1, <3>2, <1>b DEF FinalizeMerge, FailMerge, RecordRetry, CleanMonitored
    <3>3. CASE RequeueConflicting
      BY <3>1, <3>3, <1>b DEF RequeueConflicting
    <3> QED BY <1>13, <3>1, <3>2, <3>3
  <2>2. row'[mon.task].status # "ci_passed"
    BY <1>13, <1>a, <1>b
    DEF FinalizeMerge, FailMerge, RequeueConflicting, RecordRetry, CleanMonitored, Row, Terminal
  <2>3. /\ mon.pc # "gate" /\ mon'.sweep = mon.sweep /\ mon'.todo \subseteq mon.todo
        /\ mon'.pc \in {"each", "clean"}
    BY <1>13, <1>b DEF FinalizeMerge, FailMerge, RequeueConflicting, RecordRetry,
                       CleanMonitored, Done, Then, Monitor
  <2> QED BY <2>1, <2>2, <2>3, <1>6 DEF GateKept
<1> QED
  BY <1>1, <1>2, <1>3, <1>4, <1>5, <1>7, <1>8, <1>10, <1>11, <1>12, <1>13 DEF MonitorStep

LEMMA ApprovalStep ==
  ASSUME WInv, Approval, [Next]_vars, MaxCrashes = 0, Commands \subseteq {"approve"}
  PROVE  Approval'
<1> USE DEF Approval
<1>1. CASE ExecutorStep \/ CoordinatorStep \/ MonitorStep \/ DispatchStep
  <2>1. mode' = mode /\ UNCHANGED <<up, crashes, cmd>>
    BY <1>1
    DEF ExecutorStep, PollQueue, NothingToClaim, TripBreaker, ReturnTripped, Vet,
        NoConflict, ConflictCheckRaises, Claim, Serialize,
        DispatchStep, CoroutineStep, OnlyCoroutine, NameBranch, AddWorktree, CoroutineError,
        AgentSucceeds, AgentRateLimited, AgentFails, VerifyPasses, VerifyFails,
        FixAgentSucceeds, VerifyOrScanBlocks, NothingPublished, OpenPR, RecordPR,
        CleanCoroutine, CascadeCoroutine,
        CoordinatorStep, OnlyReviewer, ListPending, ReviewApproves, ReviewRejects,
        RetryRejected, FailRejected, CleanRejected, BeginReview, CascadeReview,
        MonitorStep, OnlyMonitor, BeginSweep, SetGate, MergeAcknowledged, MergeAnswerLost,
        MergeRefused, MergeConflicts, FinalizeMerge, FailMerge, RequeueConflicting,
        RecordRetry, CleanMonitored, ChecksPending, ChecksPass, ChecksFail, NotStuck,
        StuckConflict, TakeApproved, RetryPushes, RetryFails, operator, outage
  <2>2. Calm'
    BY <2>1 DEF Calm
  <2> QED
    BY <1>1, <2>1, <2>2, GatesKept, ExecutorGate, CoroutineGate, CoordinatorGate, MonitorGate
    DEF DispatchStep
<1>2. CASE OperatorStep
  <2>1. mode' = mode
    BY <1>2 DEF OperatorStep, OnlyOperator, SetHold, ClearHold, SetPaused, ReadTask
  <2> QED BY <1>2, <2>1, OperatorGate, GatesKept
<1>3. CASE Crash \/ Restart
  BY <1>3 DEF Crash, Restart, Calm, WInv, IInv, TypeOK
<1>4. CASE UNCHANGED vars
  BY <1>4 DEF vars, Calm, GateParts, Gated, ApprovedListed
<1> QED BY <1>1, <1>2, <1>3, <1>4 DEF Next

\* Outside full-auto the monitor merges only what the operator approved after
\* the gate was last set, although the hold is read in a list, cleared by
\* another process and set a commit later than the status; provided the daemon
\* is not interrupted, and approve is the only command that clears holds.
THEOREM MergesNeedApproval ==
  ASSUME MaxCrashes = 0, Commands \subseteq {"approve"}
  PROVE  Spec => []MergeNeedsApproval
<1>1. Init => Approval
  <2> SUFFICES ASSUME Init
               PROVE  Approval
    OBVIOUS
  <2>1. \A t \in Tasks : row[t].status = "queued" /\ gh[t].state = "none"
    BY DEF Init
  <2>2. Calm
    BY DEF Init, Calm, NoCmd
  <2> QED BY <2>1, <2>2 DEF Approval, GateParts, Gated, ApprovedListed, Init, IdleMon
<1>2. WInv /\ Approval /\ [Next]_vars => Approval'
  BY ApprovalStep
<1>3. Approval => MergeNeedsApproval
  BY DEF Approval, GateParts, Gated, MergeNeedsApproval
<1> QED
  BY <1>1, <1>2, <1>3, WInvariance, PTL DEF Spec
=============================================================================
