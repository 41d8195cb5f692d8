---------------------------- MODULE WorkerProofs ----------------------------
(***************************************************************************)
(* The types and the safety of Worker.  The inductive invariant is IInv:   *)
(* types and single ownership need each other, because the actors write    *)
(* the row their own pointer names, and that it names a task is a part of  *)
(* SingleOwner.  Types have one lemma per actor.  Single ownership is      *)
(* shown actor by actor: WritesOnly says which rows a step of the actor    *)
(* may move to another status, and the frame lemmas turn that into the     *)
(* other actors' parts of SingleOwner.                                     *)
(***************************************************************************)
EXTENDS Worker, TLAPS

(* Types.                                                                  *)

\* The idle state of each actor has the actor's type.
LEMMA IdleTypes ==
    /\ IdleExec \in Executor
    /\ IdleSlot \in Coroutine
    /\ IdleRev \in Reviewer
    /\ IdleMon \in Monitor
    /\ NoCmd \in Command
BY DEF IdleExec, IdleSlot, IdleRev, IdleMon, NoTask,
       Executor, Coroutine, Reviewer, Monitor, Command

\* The columns the retry arithmetic reads.
LEMMA RowFields ==
  ASSUME TypeOK, NEW t \in Tasks
  PROVE  /\ row[t] \in Row
         /\ row[t].retry \in Nat /\ row[t].retry + 1 \in Nat
         /\ row[t].fallback \in Nat /\ row[t].fallback + 1 \in Nat
         /\ row[t].agent \in Agents
BY DEF TypeOK, Row

\* A row that goes back to the queue, or that is given up, is a row.
LEMMA AgainType ==
  ASSUME NEW r \in Row, NEW retry \in Nat, NEW agent \in Agents, NEW fallback \in Nat
  PROVE  Again(r, retry, agent, fallback) \in Row
BY DEF Again, Row, Status

LEMMA GivenUpType ==
  ASSUME NEW r \in Row
  PROVE  GivenUp(r) \in Row
BY DEF GivenUp, Row, Status

LEMMA RowAfterFailure ==
  ASSUME TypeOK, NEW t \in Tasks
  PROVE  /\ Again(row[t], row[t].retry + 1, row[t].agent, row[t].fallback) \in Row
         /\ \A b \in Agents : Again(row[t], 0, b, row[t].fallback + 1) \in Row
         /\ GivenUp(row[t]) \in Row
BY RowFields, AgainType, GivenUpType

\* Naming and forgetting the branch leaves the row a row.
LEMMA BranchType ==
  ASSUME row \in [Tasks -> Row], NEW t \in Tasks, NEW b \in BOOLEAN,
         row' = [row EXCEPT ![t].branch = b]
  PROVE  row' \in [Tasks -> Row]
<1>1. ASSUME NEW r \in Row
      PROVE  [r EXCEPT !.branch = b] \in Row
  BY DEF Row
<1>2. row' = [row EXCEPT ![t] = [row[t] EXCEPT !.branch = b]]
  OBVIOUS
<1> QED
  BY <1>1, <1>2

\* So does storing a pid.
LEMMA PidType ==
  ASSUME row \in [Tasks -> Row], NEW t \in Tasks,
         row' = [row EXCEPT ![t].pid = TRUE]
  PROVE  row' \in [Tasks -> Row]
<1>1. ASSUME NEW r \in Row
      PROVE  [r EXCEPT !.pid = TRUE] \in Row
  BY DEF Row
<1>2. row' = [row EXCEPT ![t] = [row[t] EXCEPT !.pid = TRUE]]
  OBVIOUS
<1> QED
  BY <1>1, <1>2

\* handle_dependency_failure writes rows of the table's type.
LEMMA CascadeType ==
  ASSUME TypeOK, NEW u \in Tasks, CascadeFrom(u)
  PROVE  row' \in [Tasks -> Row]
<1>1. ASSUME NEW r \in Row
      PROVE  [r EXCEPT !.status = "failed", !.error = "dependency", !.stamped = TRUE]
                \in Row
  BY DEF Row, Status
<1> QED
  BY <1>1 DEF TypeOK, CascadeFrom

\* Starting a coroutine fills a slot with a value of its type.
LEMMA StartCoroutineType ==
  ASSUME TypeOK, NEW t \in Tasks, StartCoroutine(t)
  PROVE  slot' \in [Slots -> Coroutine] /\ exec' \in Executor
<1>1. [IdleSlot EXCEPT !.pc = "setup", !.task = t] \in Coroutine
  BY DEF IdleSlot, Coroutine, NoTask
<1> QED
  BY <1>1, IdleTypes DEF StartCoroutine, TypeOK

\* A step of the executor (_task_executor_loop, try_claim_and_dispatch).
LEMMA ExecutorType ==
  ASSUME TypeOK, SingleOwner, ExecutorStep
  PROVE  TypeOK'
<1> USE DEF outage, operator
<1>a. exec.pc \notin {"poll", "claim"} => exec.task \in Tasks
  BY DEF SingleOwner, ExecutorOwns
<1>1. CASE PollQueue
  <2>1. exec' \in Executor
    BY <1>1, <1>a DEF PollQueue, TypeOK, Executor
  <2> QED
    BY <1>1, <2>1 DEF PollQueue, TypeOK
<1>2. ASSUME NEW t \in Tasks, Claim(t) PROVE TypeOK'
  <2>1. row' \in [Tasks -> Row]
    BY <1>2, <1>a DEF Claim, TypeOK, Row, Status
  <2>2. exec' \in Executor
    BY <1>2, <1>a DEF Claim, TypeOK, Executor
  <2> QED
    BY <1>2, <2>1, <2>2 DEF Claim, TypeOK
<1>3. CASE NothingToClaim
  <2>1. exec' \in Executor
    BY <1>3, <1>a, IdleTypes DEF NothingToClaim, TypeOK
  <2> QED
    BY <1>3, <2>1 DEF NothingToClaim, TypeOK
<1>4. CASE TripBreaker
  <2>1. row' \in [Tasks -> Row]
    BY <1>4, <1>a DEF TripBreaker, TypeOK, Row, Hold
  <2>2. exec' \in Executor
    BY <1>4, <1>a DEF TripBreaker, TypeOK, Executor
  <2> QED
    BY <1>4, <2>1, <2>2 DEF TripBreaker, TypeOK
<1>5. CASE ReturnTripped
  <2>1. row' \in [Tasks -> Row]
    BY <1>5, <1>a DEF ReturnTripped, TypeOK, Row, Status
  <2>2. exec' \in Executor
    BY <1>5, <1>a, IdleTypes DEF ReturnTripped, TypeOK
  <2> QED
    BY <1>5, <2>1, <2>2 DEF ReturnTripped, TypeOK
<1>6. CASE Vet
  <2>1. row' \in [Tasks -> Row]
    BY <1>6, <1>a DEF Vet, TypeOK, Row, Status
  <2>2. exec' \in Executor
    <3>1. exec.task \in Tasks
      BY <1>6, <1>a DEF Vet
    <3>2. [exec EXCEPT !.pc = "conflict", !.snap = Inflight(exec.task)] \in Executor
      BY DEF TypeOK, Executor, Inflight
    <3> QED
      BY <1>6, <3>1, <3>2, IdleTypes, StartCoroutineType DEF Vet
  <2>3. slot' \in [Slots -> Coroutine]
    BY <1>6, <1>a, StartCoroutineType DEF Vet, TypeOK
  <2> QED
    BY <1>6, <2>1, <2>2, <2>3 DEF Vet, TypeOK
<1>7. CASE NoConflict
  <2>1. exec' \in Executor
    BY <1>7, <1>a, StartCoroutineType DEF NoConflict, TypeOK
  <2>2. slot' \in [Slots -> Coroutine]
    BY <1>7, <1>a, StartCoroutineType DEF NoConflict, TypeOK
  <2> QED
    BY <1>7, <2>1, <2>2 DEF NoConflict, TypeOK
<1>8. CASE ConflictCheckRaises
  <2>1. exec' \in Executor
    BY <1>8, <1>a, IdleTypes DEF ConflictCheckRaises, TypeOK
  <2>2. adrift' \in Adrift
    BY <1>8, <1>a DEF ConflictCheckRaises, TypeOK, Adrift
  <2> QED
    BY <1>8, <2>1, <2>2 DEF ConflictCheckRaises, TypeOK
<1>9. ASSUME NEW u \in Tasks, Serialize(u) PROVE TypeOK'
  <2>1. row' \in [Tasks -> Row]
    BY <1>9, <1>a DEF Serialize, TypeOK, Row, Status
  <2>2. exec' \in Executor
    BY <1>9, <1>a, IdleTypes DEF Serialize, TypeOK
  <2> QED
    BY <1>9, <2>1, <2>2 DEF Serialize, TypeOK
<1> QED
  BY <1>1, <1>2, <1>3, <1>4, <1>5, <1>6, <1>7, <1>8, <1>9 DEF ExecutorStep

\* A step of a dispatch coroutine (dispatch_task).
LEMMA CoroutineType ==
  ASSUME TypeOK, SingleOwner, NEW s \in Slots, CoroutineStep(s)
  PROVE  TypeOK'
<1> USE DEF outage, operator, At, OnlyCoroutine
<1>a. slot[s].pc # "idle" => slot[s].task \in Tasks
  BY DEF SingleOwner, CoroutinesOwn, CoroutineOwns
<1>1. CASE NameBranch(s)
  <2>1. row' \in [Tasks -> Row]
    BY <1>1, <1>a, BranchType DEF NameBranch, TypeOK
  <2>2. slot' \in [Slots -> Coroutine]
    BY <1>1, <1>a DEF NameBranch, TypeOK, Coroutine, Goto
  <2> QED
    BY <1>1, <2>1, <2>2 DEF NameBranch, TypeOK
<1>2. CASE AddWorktree(s)
  <2>1. slot' \in [Slots -> Coroutine]
    BY <1>2, <1>a DEF AddWorktree, TypeOK, Coroutine, Goto
  <2>2. row' \in [Tasks -> Row]
    BY <1>2, <1>a, PidType DEF AddWorktree, TypeOK
  <2> QED
    BY <1>2, <2>1, <2>2 DEF AddWorktree, TypeOK
<1>3. CASE CoroutineError(s)
  <2>1. row' \in [Tasks -> Row]
    <3>1. slot[s].task \in Tasks
      BY <1>3, <1>a DEF CoroutineError
    <3> QED
      BY <1>3, <3>1, RowAfterFailure DEF CoroutineError, TypeOK, Raise
  <2>2. slot' \in [Slots -> Coroutine]
    BY <1>3, <1>a, IdleTypes DEF CoroutineError, TypeOK, Raise, Leave, Coroutine
  <2> QED
    BY <1>3, <2>1, <2>2 DEF CoroutineError, TypeOK
<1>4. CASE AgentSucceeds(s)
  <2>1. slot' \in [Slots -> Coroutine]
    <3>1. [slot[s] EXCEPT !.pc = "verify", !.attempt = 1] \in Coroutine
      BY DEF TypeOK, Coroutine
    <3>2. slot' = [slot EXCEPT ![s] = [slot[s] EXCEPT !.pc = "verify", !.attempt = 1]]
      BY <1>4 DEF AgentSucceeds, TypeOK
    <3> QED
      BY <3>1, <3>2 DEF TypeOK
  <2> QED
    BY <1>4, <2>1 DEF AgentSucceeds, TypeOK
<1>5. CASE AgentRateLimited(s)
  <2>1. row' \in [Tasks -> Row]
    <3>1. slot[s].task \in Tasks
      BY <1>5, <1>a DEF AgentRateLimited
    <3>2. RateLimitFallback(row[slot[s].task].agent) \subseteq Agents
      BY SizeAssumption DEF RateLimitFallback
    <3> QED
      BY <1>5, <3>1, <3>2, RowAfterFailure DEF AgentRateLimited, TypeOK
  <2>2. slot' \in [Slots -> Coroutine]
    BY <1>5, <1>a, IdleTypes DEF AgentRateLimited, TypeOK, Leave
  <2> QED
    BY <1>5, <2>1, <2>2 DEF AgentRateLimited, TypeOK
<1>6. CASE AgentFails(s)
  <2>1. row' \in [Tasks -> Row]
    <3>1. slot[s].task \in Tasks
      BY <1>6, <1>a DEF AgentFails
    <3>2. ChainFallback(row[slot[s].task].agent) \subseteq Agents
      BY SizeAssumption DEF ChainFallback
    <3> QED
      BY <1>6, <3>1, <3>2, RowAfterFailure DEF AgentFails, TypeOK
  <2>2. slot' \in [Slots -> Coroutine]
    BY <1>6, <1>a, IdleTypes DEF AgentFails, TypeOK, Leave, Coroutine
  <2> QED
    BY <1>6, <2>1, <2>2 DEF AgentFails, TypeOK
<1>7. CASE VerifyPasses(s)
  <2>1. slot' \in [Slots -> Coroutine]
    BY <1>7, <1>a DEF VerifyPasses, TypeOK, Coroutine, Goto
  <2> QED
    BY <1>7, <2>1 DEF VerifyPasses, TypeOK
<1>8. CASE VerifyFails(s)
  <2>1. slot' \in [Slots -> Coroutine]
    BY <1>8, <1>a DEF VerifyFails, TypeOK, Coroutine, Goto
  <2> QED
    BY <1>8, <2>1 DEF VerifyFails, TypeOK
<1>9. CASE FixAgentSucceeds(s)
  <2>1. slot' \in [Slots -> Coroutine]
    BY <1>9, <1>a DEF FixAgentSucceeds, TypeOK, Coroutine
  <2> QED
    BY <1>9, <2>1 DEF FixAgentSucceeds, TypeOK
<1>10. CASE VerifyOrScanBlocks(s)
  <2>1. row' \in [Tasks -> Row]
    BY <1>10, <1>a, GivenUpType DEF VerifyOrScanBlocks, TypeOK
  <2>2. slot' \in [Slots -> Coroutine]
    BY <1>10, <1>a DEF VerifyOrScanBlocks, TypeOK, Coroutine
  <2> QED
    BY <1>10, <2>1, <2>2 DEF VerifyOrScanBlocks, TypeOK
<1>11. CASE NothingPublished(s)
  <2>1. row' \in [Tasks -> Row]
    BY <1>11, <1>a DEF NothingPublished, TypeOK, Row, Status
  <2>2. slot' \in [Slots -> Coroutine]
    BY <1>11, <1>a DEF NothingPublished, TypeOK, Coroutine, Goto
  <2> QED
    BY <1>11, <2>1, <2>2 DEF NothingPublished, TypeOK
<1>12. CASE OpenPR(s)
  <2>1. row' \in [Tasks -> Row]
    <3>1. gh[slot[s].task].num + 1 \in Nat
      BY <1>12, <1>a DEF OpenPR, TypeOK, PullRequest
    <3>2. [row[slot[s].task] EXCEPT !.pr = gh[slot[s].task].num + 1] \in Row
      BY <1>12, <1>a, <3>1, RowFields DEF OpenPR, Row
    <3> QED
      BY <1>12, <1>a, <3>2 DEF OpenPR, TypeOK
  <2>2. gh' \in [Tasks -> PullRequest]
    BY <1>12, <1>a DEF OpenPR, TypeOK, PullRequest
  <2>3. slot' \in [Slots -> Coroutine]
    BY <1>12, <1>a DEF OpenPR, TypeOK, Coroutine, Goto
  <2> QED
    BY <1>12, <2>1, <2>2, <2>3 DEF OpenPR, TypeOK
<1>13. CASE RecordPR(s)
  <2>1. row' \in [Tasks -> Row]
    BY <1>13, <1>a DEF RecordPR, TypeOK, Row, Status
  <2>2. slot' \in [Slots -> Coroutine]
    BY <1>13, <1>a, IdleTypes DEF RecordPR, TypeOK, Leave
  <2> QED
    BY <1>13, <2>1, <2>2 DEF RecordPR, TypeOK
<1>14. CASE CleanCoroutine(s)
  <2>1. row' \in [Tasks -> Row]
    BY <1>14, <1>a, BranchType DEF CleanCoroutine, TypeOK
  <2>2. slot' \in [Slots -> Coroutine]
    BY <1>14, <1>a, IdleTypes DEF CleanCoroutine, TypeOK, Leave, Goto, Coroutine
  <2> QED
    BY <1>14, <2>1, <2>2 DEF CleanCoroutine, TypeOK
<1>15. ASSUME NEW u \in Tasks, CascadeCoroutine(s, u) PROVE TypeOK'
  <2>1. row' \in [Tasks -> Row]
    BY <1>15, <1>a, CascadeType DEF CascadeCoroutine, TypeOK
  <2>2. slot' \in [Slots -> Coroutine]
    BY <1>15, <1>a, IdleTypes DEF CascadeCoroutine, TypeOK, Coroutine, Dependents
  <2> QED
    BY <1>15, <2>1, <2>2 DEF CascadeCoroutine, TypeOK
<1> QED
  BY <1>1, <1>2, <1>3, <1>4, <1>5, <1>6, <1>7, <1>8, <1>9, <1>10, <1>11, <1>12, <1>13, <1>14, <1>15 DEF CoroutineStep

\* A step of the coordinator (review_pending_tasks).
LEMMA CoordinatorType ==
  ASSUME TypeOK, SingleOwner, CoordinatorStep
  PROVE  TypeOK'
<1> USE DEF outage, operator, OnlyReviewer
<1>a. rev.pc # "idle" => rev.task \in Tasks
  BY DEF SingleOwner, ReviewerOwns
<1>1. CASE ListPending
  <2>1. rev' \in Reviewer
    BY <1>1, <1>a DEF ListPending, TypeOK, Reviewer
  <2> QED
    BY <1>1, <2>1 DEF ListPending, TypeOK
<1>2. CASE ReviewApproves
  <2>1. row' \in [Tasks -> Row]
    BY <1>2, <1>a DEF ReviewApproves, TypeOK, Row, Status
  <2>2. gh' \in [Tasks -> PullRequest]
    BY <1>2, <1>a DEF ReviewApproves, TypeOK, PullRequest
  <2>3. rev' \in Reviewer
    BY <1>2, <1>a DEF ReviewApproves, TypeOK, Reviewer, NextReview, NoTask
  <2> QED
    BY <1>2, <2>1, <2>2, <2>3 DEF ReviewApproves, TypeOK
<1>3. CASE ReviewRejects
  <2>1. gh' \in [Tasks -> PullRequest]
    BY <1>3, <1>a DEF ReviewRejects, TypeOK, PullRequest
  <2>2. rev' \in Reviewer
    BY <1>3, <1>a DEF ReviewRejects, TypeOK, Reviewer
  <2> QED
    BY <1>3, <2>1, <2>2 DEF ReviewRejects, TypeOK
<1>4. CASE RetryRejected
  <2>1. row' \in [Tasks -> Row]
    BY <1>4, <1>a DEF RetryRejected, TypeOK, Row, Status
  <2>2. rev' \in Reviewer
    BY <1>4, <1>a DEF RetryRejected, TypeOK, Reviewer, NextReview, NoTask
  <2> QED
    BY <1>4, <2>1, <2>2 DEF RetryRejected, TypeOK
<1>5. CASE FailRejected
  <2>1. row' \in [Tasks -> Row]
    BY <1>5, <1>a DEF FailRejected, TypeOK, Row, Status
  <2>2. rev' \in Reviewer
    BY <1>5, <1>a DEF FailRejected, TypeOK, Reviewer
  <2> QED
    BY <1>5, <2>1, <2>2 DEF FailRejected, TypeOK
<1>6. CASE CleanRejected
  <2>1. row' \in [Tasks -> Row]
    BY <1>6, <1>a, BranchType DEF CleanRejected, TypeOK
  <2>2. rev' \in Reviewer
    BY <1>6, <1>a DEF CleanRejected, TypeOK, Reviewer, NextReview, NoTask
  <2> QED
    BY <1>6, <2>1, <2>2 DEF CleanRejected, TypeOK
<1>7. ASSUME NEW t \in Tasks, BeginReview(t) PROVE TypeOK'
  <2>1. row' \in [Tasks -> Row]
    BY <1>7, <1>a DEF BeginReview, TypeOK, Row, Status
  <2>2. rev' \in Reviewer
    BY <1>7, <1>a DEF BeginReview, TypeOK, Reviewer
  <2> QED
    BY <1>7, <2>1, <2>2 DEF BeginReview, TypeOK
<1>8. ASSUME NEW t \in Tasks, CascadeReview(t) PROVE TypeOK'
  <2>1. row' \in [Tasks -> Row]
    BY <1>8, <1>a, CascadeType DEF CascadeReview, TypeOK
  <2>2. rev' \in Reviewer
    BY <1>8, <1>a DEF CascadeReview, TypeOK, Reviewer, Dependents
  <2> QED
    BY <1>8, <2>1, <2>2 DEF CascadeReview, TypeOK
<1> QED
  BY <1>1, <1>2, <1>3, <1>4, <1>5, <1>6, <1>7, <1>8 DEF CoordinatorStep

\* A step of the CI monitor (monitor_ci, try_merge, process_retry).
LEMMA MonitorType ==
  ASSUME TypeOK, SingleOwner, MonitorStep
  PROVE  TypeOK'
<1> USE DEF outage, operator, OnlyMonitor, Merging
<1>a. mon.pc # "each" => mon.task \in Tasks
  BY DEF SingleOwner, MonitorOwns
<1>1. CASE BeginSweep
  <2>1. mon' \in Monitor
    BY <1>1, <1>a DEF BeginSweep, TypeOK, Monitor, NextSweep, Listed
  <2> QED
    BY <1>1, <2>1 DEF BeginSweep, TypeOK
<1>2. CASE SetGate
  <2>1. row' \in [Tasks -> Row]
    BY <1>2, <1>a DEF SetGate, TypeOK, Row, Hold
  <2>2. gh' \in [Tasks -> PullRequest]
    BY <1>2, <1>a DEF SetGate, TypeOK, PullRequest
  <2>3. mon' \in Monitor
    BY <1>2, <1>a DEF SetGate, TypeOK, Monitor, Done, NoTask
  <2> QED
    BY <1>2, <2>1, <2>2, <2>3 DEF SetGate, TypeOK
<1>3. CASE MergeAcknowledged
  <2>1. gh' \in [Tasks -> PullRequest]
    BY <1>3, <1>a DEF MergeAcknowledged, TypeOK, PullRequest
  <2>2. mon' \in Monitor
    BY <1>3, <1>a DEF MergeAcknowledged, TypeOK, Monitor, Then
  <2> QED
    BY <1>3, <2>1, <2>2 DEF MergeAcknowledged, TypeOK
<1>4. CASE MergeAnswerLost
  <2>1. gh' \in [Tasks -> PullRequest]
    BY <1>4, <1>a DEF MergeAnswerLost, TypeOK, PullRequest
  <2>2. mon' \in Monitor
    BY <1>4, <1>a DEF MergeAnswerLost, TypeOK, Monitor, Then
  <2> QED
    BY <1>4, <2>1, <2>2 DEF MergeAnswerLost, TypeOK
<1>5. CASE MergeRefused
  <2>1. mon' \in Monitor
    BY <1>5, <1>a DEF MergeRefused, TypeOK, Monitor, Then
  <2> QED
    BY <1>5, <2>1 DEF MergeRefused, TypeOK
<1>6. CASE MergeConflicts
  <2>1. gh' \in [Tasks -> PullRequest]
    BY <1>6, <1>a DEF MergeConflicts, TypeOK, PullRequest, CloseConflicting
  <2>2. mon' \in Monitor
    BY <1>6, <1>a DEF MergeConflicts, TypeOK, Monitor, Then
  <2> QED
    BY <1>6, <2>1, <2>2 DEF MergeConflicts, TypeOK, CloseConflicting
<1>7. CASE FinalizeMerge
  <2>1. row' \in [Tasks -> Row]
    BY <1>7, <1>a DEF FinalizeMerge, TypeOK, Row, Status
  <2>2. mon' \in Monitor
    BY <1>7, <1>a DEF FinalizeMerge, TypeOK, Monitor, Then
  <2> QED
    BY <1>7, <2>1, <2>2 DEF FinalizeMerge, TypeOK
<1>8. CASE FailMerge
  <2>1. row' \in [Tasks -> Row]
    BY <1>8, <1>a DEF FailMerge, TypeOK, Row, Status
  <2>2. mon' \in Monitor
    BY <1>8, <1>a DEF FailMerge, TypeOK, Monitor, Then
  <2> QED
    BY <1>8, <2>1, <2>2 DEF FailMerge, TypeOK
<1>9. CASE RequeueConflicting
  <2>1. row' \in [Tasks -> Row]
    BY <1>9, <1>a DEF RequeueConflicting, TypeOK, Row, Status, Hold
  <2>2. mon' \in Monitor
    BY <1>9, <1>a DEF RequeueConflicting, TypeOK, Monitor, Done, NoTask
  <2> QED
    BY <1>9, <2>1, <2>2 DEF RequeueConflicting, TypeOK
<1>10. CASE RecordRetry
  <2>1. row' \in [Tasks -> Row]
    BY <1>10, <1>a DEF RecordRetry, TypeOK, Row, Status
  <2>2. mon' \in Monitor
    BY <1>10, <1>a DEF RecordRetry, TypeOK, Monitor, Done, NoTask
  <2> QED
    BY <1>10, <2>1, <2>2 DEF RecordRetry, TypeOK
<1>11. CASE CleanMonitored
  <2>1. row' \in [Tasks -> Row]
    BY <1>11, <1>a, BranchType DEF CleanMonitored, TypeOK
  <2>2. mon' \in Monitor
    BY <1>11, <1>a DEF CleanMonitored, TypeOK, Monitor, Done, NoTask
  <2> QED
    BY <1>11, <2>1, <2>2 DEF CleanMonitored, TypeOK
<1>12. ASSUME NEW t \in Tasks, ChecksPending(t) PROVE TypeOK'
  <2>1. mon' \in Monitor
    BY <1>12, <1>a DEF ChecksPending, TypeOK, Monitor, Done, NoTask
  <2> QED
    BY <1>12, <2>1 DEF ChecksPending, TypeOK
<1>13. ASSUME NEW t \in Tasks, ChecksPass(t) PROVE TypeOK'
  <2>1. row' \in [Tasks -> Row]
    BY <1>13, <1>a DEF ChecksPass, TypeOK, Row, Status
  <2>2. gh' \in [Tasks -> PullRequest]
    BY <1>13, <1>a DEF ChecksPass, TypeOK, PullRequest
  <2>3. mon' \in Monitor
    BY <1>13, <1>a DEF ChecksPass, TypeOK, Monitor, Take
  <2> QED
    BY <1>13, <2>1, <2>2, <2>3 DEF ChecksPass, TypeOK
<1>14. ASSUME NEW t \in Tasks, ChecksFail(t) PROVE TypeOK'
  <2>1. row' \in [Tasks -> Row]
    BY <1>14, <1>a DEF ChecksFail, TypeOK, Row, Status
  <2>2. mon' \in Monitor
    <3>1. CASE Done(t)
      BY <3>1 DEF Done, TypeOK, Monitor, NoTask
    <3>2. CASE Take(t, "clean")
      BY <3>2, <1>14 DEF Take, TypeOK, Monitor
    <3> QED
      BY <1>14, <3>1, <3>2 DEF ChecksFail
  <2> QED
    BY <1>14, <2>1, <2>2 DEF ChecksFail, TypeOK
<1>15. ASSUME NEW t \in Tasks, NotStuck(t) PROVE TypeOK'
  <2>1. mon' \in Monitor
    BY <1>15, <1>a DEF NotStuck, TypeOK, Monitor, Done, NoTask
  <2> QED
    BY <1>15, <2>1 DEF NotStuck, TypeOK
<1>16. ASSUME NEW t \in Tasks, StuckConflict(t) PROVE TypeOK'
  <2>1. gh' \in [Tasks -> PullRequest]
    BY <1>16, <1>a DEF StuckConflict, TypeOK, PullRequest, CloseConflicting
  <2>2. mon' \in Monitor
    BY <1>16, <1>a DEF StuckConflict, TypeOK, Monitor, Take
  <2> QED
    BY <1>16, <2>1, <2>2 DEF StuckConflict, TypeOK, CloseConflicting
<1>17. ASSUME NEW t \in Tasks, TakeApproved(t) PROVE TypeOK'
  <2>1. mon' \in Monitor
    BY <1>17, <1>a DEF TakeApproved, TypeOK, Monitor, Take
  <2> QED
    BY <1>17, <2>1 DEF TakeApproved, TypeOK
<1>18. ASSUME NEW t \in Tasks, RetryPushes(t) PROVE TypeOK'
  <2>1. gh' \in [Tasks -> PullRequest]
    BY <1>18, <1>a DEF RetryPushes, TypeOK, PullRequest
  <2>2. mon' \in Monitor
    BY <1>18, <1>a DEF RetryPushes, TypeOK, Monitor, Take
  <2> QED
    BY <1>18, <2>1, <2>2 DEF RetryPushes, TypeOK
<1>19. ASSUME NEW t \in Tasks, RetryFails(t) PROVE TypeOK'
  <2>1. row' \in [Tasks -> Row]
    <3>1. [row[t] EXCEPT !.status = "failed", !.error = "retry"] \in Row
      BY <1>19, RowFields DEF Row, Status
    <3> QED
      BY <1>19, <3>1 DEF RetryFails, TypeOK
  <2>2. mon' \in Monitor
    BY <1>19, <1>a DEF RetryFails, TypeOK, Monitor, Take
  <2> QED
    BY <1>19, <2>1, <2>2 DEF RetryFails, TypeOK
<1> QED
  BY <1>1, <1>2, <1>3, <1>4, <1>5, <1>6, <1>7, <1>8, <1>9, <1>10, <1>11, <1>12, <1>13, <1>14, <1>15, <1>16, <1>17, <1>18, <1>19 DEF MonitorStep


\* A step of an operator command.
LEMMA OperatorType ==
  ASSUME TypeOK, OperatorStep
  PROVE  TypeOK'
<1> USE DEF outage, OnlyOperator
<1>a. cmd.op \in {"approve", "hold", "release"} => cmd.task \in Tasks
  BY DEF TypeOK, Command, NoCmd
<1>1. CASE SetHold
  <2>1. row' \in [Tasks -> Row]
    BY <1>1, <1>a DEF SetHold, TypeOK, Row, Hold
  <2> QED
    BY <1>1, <2>1, IdleTypes DEF SetHold, TypeOK
<1>2. CASE ClearHold
  <2>1. row' \in [Tasks -> Row]
    BY <1>2, <1>a DEF ClearHold, TypeOK, Row, Hold
  <2>2. gh' \in [Tasks -> PullRequest]
    BY <1>2, <1>a DEF ClearHold, TypeOK, PullRequest
  <2> QED
    BY <1>2, <2>1, <2>2, IdleTypes DEF ClearHold, TypeOK
<1>3. CASE SetPaused
  BY <1>3 DEF SetPaused, TypeOK
<1>4. ASSUME NEW t \in Tasks, NEW op \in {"approve", "hold", "release"}, ReadTask(op, t)
      PROVE  TypeOK'
  <2>1. cmd' \in Command
    BY <1>4 DEF ReadTask, Command
  <2> QED
    BY <1>4, <2>1 DEF ReadTask, TypeOK
<1> QED
  BY <1>1, <1>2, <1>3, <1>4 DEF OperatorStep

\* The outage and the recovery after it.
LEMMA OutageType ==
  ASSUME TypeOK, SingleOwner, Crash \/ Restart
  PROVE  TypeOK'
<1> USE DEF outage, operator
<1>1. CASE Crash
  <2>2. slot'  \in [Slots -> Coroutine]
    BY <1>1, IdleTypes DEF Crash
  <2>4. crashes' \in Nat
    BY <1>1 DEF Crash, TypeOK
  <2> QED
    BY <1>1, <2>2, <2>4, IdleTypes DEF Crash, TypeOK
<1>2. CASE Restart
  <2>1. PICK answered \in SUBSET Tasks :
          /\ row' = [t \in Tasks |-> Recovered(t, answered)]
          /\ adrift' = [check |-> {}, pid |-> answered]
    BY <1>2 DEF Restart
  <2>2. ASSUME NEW t \in Tasks PROVE Recovered(t, answered) \in Row
    BY DEF Recovered, TypeOK, Row, Status
  <2>3. row' \in [Tasks -> Row] /\ adrift' \in Adrift
    BY <2>1, <2>2 DEF Adrift
  <2> QED
    BY <1>2, <2>3 DEF Restart, TypeOK
<1> QED
  BY <1>1, <1>2

\* The rows the intake leaves behind, and the idle daemon.
LEMMA InitType == Init => TypeOK
<1> SUFFICES ASSUME Init PROVE TypeOK
  OBVIOUS
<1>1. row \in [Tasks -> Row]
  <2>1. PICK d \in [Tasks -> Tasks \union {NoTask}] :
          row = [t \in Tasks |->
                      [status |-> "queued",
                       hold   |-> IF mode = "review-all" THEN "dispatch_approval"
                                                         ELSE "none",
                       dep    |-> d[t],
                       retry  |-> 0, agent |-> 1, fallback |-> 0,
                       branch |-> FALSE, pid |-> FALSE, pr |-> 0, stamped |-> FALSE,
                       error  |-> "none"]]
    BY DEF Init
  <2>2. 1 \in Agents
    BY SizeAssumption DEF Agents
  <2> QED
    BY <2>1, <2>2 DEF Row, Status, Hold
<1>2. gh \in [Tasks -> PullRequest]
  BY DEF Init, PullRequest
<1>3. faults \in Nat /\ crashes \in Nat /\ adrift \in Adrift
  BY BudgetAssumption DEF Init, Adrift
<1> QED
  BY <1>1, <1>2, <1>3, IdleTypes DEF Init, TypeOK

\* Whoever takes the step.
LEMMA TypeStep ==
  ASSUME TypeOK, SingleOwner, [Next]_vars
  PROVE  TypeOK'
<1>1. CASE Next
  BY <1>1, ExecutorType, CoroutineType, CoordinatorType, MonitorType, OperatorType,
     OutageType DEF Next, DispatchStep
<1>2. CASE UNCHANGED vars
  BY <1>2 DEF vars, TypeOK
<1> QED
  BY <1>1, <1>2

-----------------------------------------------------------------------------
(* Ownership.                                                              *)

IInv == TypeOK /\ SingleOwner

Kept(u) == row'[u].status = row[u].status

\* The step changes the status of rows in one of these statuses, at most.
WritesOnly(statuses) == \A u \in Tasks : Kept(u) \/ row[u].status \in statuses

\* A step that leaves an actor's state alone, and the status of the rows in
\* its hands, leaves its part of SingleOwner alone.
LEMMA FrameExecutor ==
  ASSUME ExecutorOwns, exec' = exec,
         exec.pc \notin {"poll", "claim"} => Kept(exec.task),
         \A s \in Slots : slot'[s].task \in {slot[s].task, NoTask}
  PROVE  ExecutorOwns'
BY DEF ExecutorOwns, Kept, Tasks, NoTask

LEMMA FrameCoroutine ==
  ASSUME TypeOK, NEW s \in Slots, CoroutineOwns(s), slot'[s] = slot[s],
         slot[s].pc # "idle" => Kept(slot[s].task),
         \A u \in Tasks : row[u].status = "failed" => Kept(u)
  PROVE  CoroutineOwns(s)'
BY DEF CoroutineOwns, Kept, TypeOK, Coroutine, Driving

LEMMA FrameReviewer ==
  ASSUME TypeOK, ReviewerOwns, rev' = rev,
         \A u \in Tasks :
            row[u].status \in {"pr_created", "reviewing", "failed"} => Kept(u)
  PROVE  ReviewerOwns'
BY DEF ReviewerOwns, Kept, TypeOK, Reviewer

LEMMA FrameMonitor ==
  ASSUME TypeOK, MonitorOwns, mon' = mon,
         \A u \in Tasks :
            row[u].status \in {"reviewed", "ci_passed", "retrying"} \union Terminal => Kept(u)
  PROVE  MonitorOwns'
BY DEF MonitorOwns, Kept, TypeOK, Monitor, SweepStatus, Terminal

\* handle_dependency_failure touches queued rows only.
LEMMA CascadeWrites ==
  ASSUME NEW u \in Tasks, CascadeFrom(u)
  PROVE  WritesOnly({"queued"})
BY DEF CascadeFrom, Dependents, WritesOnly, Kept

LEMMA CascadeFails ==
  ASSUME TypeOK, NEW u \in Tasks, CascadeFrom(u)
  PROVE  \A t \in Dependents(u) : row'[t].status = "failed"
<1>1. \A r \in Row :
        [r EXCEPT !.status = "failed", !.error = "dependency", !.stamped = TRUE].status
           = "failed"
  BY DEF Row
<1> QED
  BY <1>1 DEF TypeOK, CascadeFrom, Dependents

LEMMA ExecutorWrites ==
  ASSUME IInv, ExecutorStep
  PROVE  \A u \in Tasks : \/ Kept(u)
                          \/ row[u].status = "queued"
                          \/ row[u].status = "working" /\ u = exec.task
<1> USE DEF Kept
<1>a. exec.pc \notin {"poll", "claim"} =>
         exec.task \in Tasks /\ row[exec.task].status = "working"
  BY DEF IInv, SingleOwner, ExecutorOwns
<1>b. row \in [Tasks -> Row]
  BY DEF IInv, TypeOK
<1>1. CASE TripBreaker
  BY <1>1, <1>a, <1>b DEF TripBreaker, Row
<1>2. CASE ReturnTripped
  BY <1>2, <1>a, <1>b DEF ReturnTripped, Row
<1>3. CASE Vet
  BY <1>3, <1>a, <1>b DEF Vet, Row
<1>4. ASSUME NEW t \in Tasks, Claim(t)
      PROVE  \A u \in Tasks : Kept(u) \/ row[u].status = "queued"
  BY <1>4, <1>b DEF Claim, Claimable, Row
<1>5. ASSUME NEW t \in Tasks, Serialize(t)
      PROVE  \A u \in Tasks : Kept(u) \/ (row[u].status = "working" /\ u = exec.task)
  BY <1>5, <1>a, <1>b DEF Serialize, Row
<1>6. CASE PollQueue \/ NothingToClaim \/ NoConflict \/ ConflictCheckRaises
  BY <1>6 DEF PollQueue, NothingToClaim, NoConflict, ConflictCheckRaises
<1> QED
  BY <1>1, <1>2, <1>3, <1>4, <1>5, <1>6 DEF ExecutorStep

LEMMA CoroutineWrites ==
  ASSUME IInv, NEW s \in Slots, CoroutineStep(s)
  PROVE  \A u \in Tasks : \/ Kept(u)
                          \/ row[u].status = "queued"
                          \/ row[u].status = "working" /\ u = slot[s].task
<1> USE DEF Kept, At
<1>a. /\ slot[s].pc # "idle" => slot[s].task \in Tasks
      /\ slot[s].pc \in Driving => row[slot[s].task].status = "working"
  BY DEF IInv, SingleOwner, CoroutinesOwn, CoroutineOwns
<1>b. row \in [Tasks -> Row]
  BY DEF IInv, TypeOK
<1>1. CASE NameBranch(s) \/ AddWorktree(s) \/ CleanCoroutine(s)
  BY <1>1, <1>b DEF NameBranch, AddWorktree, CleanCoroutine, Row
<1>2. CASE CoroutineError(s)
  BY <1>2, <1>a, <1>b DEF CoroutineError, Raise, Driving
<1>3. CASE AgentRateLimited(s)
  BY <1>3, <1>a, <1>b DEF AgentRateLimited, Driving
<1>4. CASE AgentFails(s)
  BY <1>4, <1>a, <1>b DEF AgentFails, Driving
<1>5. CASE VerifyOrScanBlocks(s)
  BY <1>5, <1>a, <1>b DEF VerifyOrScanBlocks, Driving
<1>6. CASE NothingPublished(s)
  BY <1>6, <1>a, <1>b DEF NothingPublished, Driving
<1>7. CASE OpenPR(s)
  BY <1>7, <1>a, <1>b DEF OpenPR, Driving
<1>8. CASE RecordPR(s)
  BY <1>8, <1>a, <1>b DEF RecordPR, Driving
<1>9. ASSUME NEW u \in Tasks, CascadeCoroutine(s, u)
      PROVE  WritesOnly({"queued"})
  BY <1>9, CascadeWrites DEF CascadeCoroutine
<1>10. CASE UNCHANGED row
  BY <1>10
<1> QED
  BY <1>1, <1>2, <1>3, <1>4, <1>5, <1>6, <1>7, <1>8, <1>9, <1>10
  DEF CoroutineStep, WritesOnly, AgentSucceeds, VerifyPasses, VerifyFails,
      FixAgentSucceeds

LEMMA CoordinatorWrites ==
  ASSUME IInv, CoordinatorStep
  PROVE  WritesOnly({"queued", "pr_created", "reviewing"})
<1> USE DEF Kept, WritesOnly
<1>a. /\ \A t \in rev.todo : row[t].status = "pr_created"
      /\ rev.pc # "idle" => rev.task \in Tasks
      /\ rev.pc \in {"review", "closed"} => row[rev.task].status = "reviewing"
  BY DEF IInv, SingleOwner, ReviewerOwns
<1>b. row \in [Tasks -> Row]
  BY DEF IInv, TypeOK
<1>1. CASE ReviewApproves
  BY <1>1, <1>a, <1>b DEF ReviewApproves
<1>2. CASE RetryRejected
  BY <1>2, <1>a, <1>b DEF RetryRejected
<1>3. CASE FailRejected
  BY <1>3, <1>a, <1>b DEF FailRejected
<1>4. CASE CleanRejected
  BY <1>4, <1>b DEF CleanRejected, Row
<1>5. ASSUME NEW t \in Tasks, BeginReview(t)
      PROVE  WritesOnly({"pr_created"})
  BY <1>5, <1>a, <1>b DEF BeginReview
<1>6. ASSUME NEW t \in Tasks, CascadeReview(t)
      PROVE  WritesOnly({"queued"})
  BY <1>6, CascadeWrites DEF CascadeReview
<1>7. CASE UNCHANGED row
  BY <1>7
<1> QED
  BY <1>1, <1>2, <1>3, <1>4, <1>5, <1>6, <1>7 DEF CoordinatorStep, ListPending, ReviewRejects

LEMMA MonitorWrites ==
  ASSUME IInv, MonitorStep
  PROVE  WritesOnly({"reviewed", "ci_passed", "retrying"})
<1> USE DEF Kept, WritesOnly
<1>a. /\ \A t \in mon.todo : row[t].status = SweepStatus(mon.sweep)
      /\ mon.pc # "each" => mon.task \in Tasks
      /\ mon.pc \in {"gate", "merge", "acked", "refused", "requeue"} =>
            row[mon.task].status = "ci_passed"
      /\ mon.pc = "pushed" => row[mon.task].status = "retrying"
  BY DEF IInv, SingleOwner, MonitorOwns
<1>b. row \in [Tasks -> Row]
  BY DEF IInv, TypeOK
<1>1. CASE SetGate \/ CleanMonitored
  BY <1>1, <1>b DEF SetGate, CleanMonitored, Row
<1>2. CASE FinalizeMerge
  BY <1>2, <1>a, <1>b DEF FinalizeMerge
<1>3. CASE FailMerge
  BY <1>3, <1>a, <1>b DEF FailMerge
<1>4. CASE RequeueConflicting
  BY <1>4, <1>a, <1>b DEF RequeueConflicting
<1>5. CASE RecordRetry
  BY <1>5, <1>a, <1>b DEF RecordRetry
<1>6. ASSUME NEW t \in Tasks, ChecksPass(t) PROVE WritesOnly({"reviewed"})
  BY <1>6, <1>a, <1>b DEF ChecksPass, Sweeping, SweepStatus
<1>7. ASSUME NEW t \in Tasks, ChecksFail(t) PROVE WritesOnly({"reviewed"})
  BY <1>7, <1>a, <1>b DEF ChecksFail, Sweeping, SweepStatus
<1>8. ASSUME NEW t \in Tasks, RetryFails(t) PROVE WritesOnly({"retrying"})
  BY <1>8, <1>a, <1>b DEF RetryFails, Sweeping, SweepStatus
<1>9. CASE UNCHANGED row
  BY <1>9
<1>10. ASSUME NEW t \in Tasks,
              \/ ChecksPending(t) \/ NotStuck(t) \/ StuckConflict(t)
              \/ TakeApproved(t) \/ RetryPushes(t)
       PROVE  UNCHANGED row
  BY <1>10 DEF ChecksPending, NotStuck, StuckConflict, TakeApproved, RetryPushes
<1>11. ASSUME \/ BeginSweep \/ MergeAcknowledged \/ MergeAnswerLost \/ MergeRefused
              \/ MergeConflicts
       PROVE  UNCHANGED row
  BY <1>11 DEF BeginSweep, MergeAcknowledged, MergeAnswerLost, MergeRefused, MergeConflicts
<1> QED
  BY <1>1, <1>2, <1>3, <1>4, <1>5, <1>6, <1>7, <1>8, <1>9, <1>10, <1>11 DEF MonitorStep

\* The outage and the operator's commands move no status; the
\* restart moves what the outage interrupted.
LEMMA OperatorWrites ==
  ASSUME IInv, OperatorStep
  PROVE  WritesOnly({})
<1> USE DEF Kept, WritesOnly
<1>b. row \in [Tasks -> Row]
  BY DEF IInv, TypeOK
<1>1. CASE SetHold
  BY <1>1, <1>b DEF SetHold, Row
<1>2. CASE ClearHold
  BY <1>2, <1>b DEF ClearHold, Row
<1>3. CASE SetPaused \/ \E t \in Tasks, op \in {"approve", "hold", "release"} : ReadTask(op, t)
  BY <1>3 DEF SetPaused, ReadTask
<1> QED
  BY <1>1, <1>2, <1>3 DEF OperatorStep

LEMMA OutageWrites ==
  ASSUME IInv, Crash \/ Restart
  PROVE  WritesOnly({"working", "reviewing"})
<1>1. CASE Crash
  BY <1>1 DEF Crash, WritesOnly, Kept
<1>2. ASSUME NEW answered, row' = [t \in Tasks |-> Recovered(t, answered)]
      PROVE  WritesOnly({"working", "reviewing"})
  BY <1>2 DEF IInv, TypeOK, Recovered, WritesOnly, Kept, Row
<1> QED
  BY <1>1, <1>2 DEF Restart

\* A coroutine's task has a status that no other actor writes.
LEMMA CoroutineTasks ==
  ASSUME IInv, NEW s \in Slots, slot[s].pc # "idle"
  PROVE  /\ slot[s].task \in Tasks
         /\ row[slot[s].task].status \in {"working"} \union Terminal
BY DEF IInv, SingleOwner, TypeOK, CoroutinesOwn, CoroutineOwns, Driving, Terminal, Coroutine

LEMMA ExecutorOwnership ==
  ASSUME IInv, ExecutorStep
  PROVE  SingleOwner'
<1> DEFINE Goal == ExecutorOwns' /\ CoroutinesOwn' /\ CoroutinesDisjoint'
<1> USE DEF outage, operator
<1>a. /\ ExecutorOwns /\ CoroutinesOwn /\ CoroutinesDisjoint
      /\ ReviewerOwns /\ MonitorOwns /\ TypeOK
  BY DEF IInv, SingleOwner
<1>b. rev' = rev /\ mon' = mon /\ up' = up /\ up
  BY DEF ExecutorStep, PollQueue, NothingToClaim, TripBreaker, ReturnTripped, Vet, NoConflict,
         ConflictCheckRaises, Claim, Serialize, outage
<1>c. \A s \in Slots : slot[s].pc # "idle" => Kept(slot[s].task)
  <2> TAKE s \in Slots
  <2>1. slot[s].pc # "idle" => slot[s].task # exec.task
    BY <1>a, CoroutineTasks DEF ExecutorOwns, NoTask, Tasks
  <2> QED
    BY <2>1, CoroutineTasks, ExecutorWrites DEF Terminal
<1>d. \A u \in Tasks : row[u].status = "failed" => Kept(u)
  BY ExecutorWrites
<1>1. ReviewerOwns'
  BY <1>a, <1>b, ExecutorWrites, FrameReviewer
<1>2. MonitorOwns'
  BY <1>a, <1>b, ExecutorWrites, FrameMonitor DEF Terminal
<1>3. ASSUME slot' = slot PROVE CoroutinesOwn' /\ CoroutinesDisjoint'
  <2>1. \A s \in Slots : CoroutineOwns(s)'
    BY <1>a, <1>c, <1>d, <1>3, FrameCoroutine DEF CoroutinesOwn
  <2> QED
    BY <1>a, <1>3, <2>1 DEF CoroutinesOwn, CoroutinesDisjoint
<1>4. ASSUME NEW t \in Tasks, t = exec.task, exec.pc \in {"vet", "conflict"},
             StartCoroutine(t), UNCHANGED row
      PROVE  Goal
  <2>1. PICK s \in Slots :
          /\ slot[s].pc = "idle"
          /\ slot' = [slot EXCEPT ![s] = [IdleSlot EXCEPT !.pc = "setup", !.task = t]]
    BY <1>4 DEF StartCoroutine
  <2>2. \A x \in Slots \ {s} : slot'[x] = slot[x]
    BY <2>1, <1>a DEF TypeOK
  <2>3. slot'[s] = [pc |-> "setup", task |-> t, attempt |-> 0, todo |-> {}]
    BY <2>1, <1>a DEF TypeOK, IdleSlot
  <2>4. CoroutineOwns(s)'
    BY <1>4, <1>a, <2>3 DEF CoroutineOwns, ExecutorOwns, Driving
  <2>5. \A x \in Slots \ {s} : CoroutineOwns(x)'
    BY <1>a, <1>c, <1>d, <2>2, FrameCoroutine DEF CoroutinesOwn
  <2>6. CoroutinesDisjoint'
    BY <1>4, <1>a, <2>2, <2>3 DEF CoroutinesDisjoint, ExecutorOwns
  <2>7. ExecutorOwns'
    BY <1>4 DEF StartCoroutine, ExecutorOwns, IdleExec
  <2> QED
    BY <2>4, <2>5, <2>6, <2>7 DEF CoroutinesOwn
<1>5. ASSUME PollQueue PROVE Goal
  <2>1. ExecutorOwns'
    BY <1>5, <1>a DEF PollQueue, ExecutorOwns, TypeOK, Executor
  <2> QED
    BY <1>5, <2>1, <1>3 DEF PollQueue
<1>6. ASSUME NEW t \in Tasks, Claim(t)
      PROVE  ExecutorOwns' /\ slot' = slot
  <2>1. exec' = [exec EXCEPT !.pc = "vet", !.task = t] /\ row'[t].status = "working"
    BY <1>6, <1>a DEF Claim, TypeOK
  <2>2. \A s \in Slots : slot[s].task # t
    BY <1>6, <1>a, CoroutineTasks
    DEF Claim, Claimable, CoroutinesOwn, CoroutineOwns, IdleSlot, NoTask, Tasks, Terminal
  <2>3. exec.snap = {}
    BY <1>6, <1>a DEF Claim, ExecutorOwns
  <2> QED
    BY <1>6, <1>a, <2>1, <2>2, <2>3 DEF Claim, ExecutorOwns, TypeOK, Executor
<1>7. ASSUME TripBreaker PROVE Goal
  <2>1. exec'.task = exec.task /\ exec'.snap = exec.snap /\ exec'.pc = "trip"
    BY <1>7, <1>a DEF TripBreaker, TypeOK, Executor
  <2>2. row'[exec.task].status = row[exec.task].status
    BY <1>7, <1>a DEF TripBreaker, ExecutorOwns, TypeOK, Row
  <2> QED
    BY <1>7, <1>a, <1>3, <2>1, <2>2 DEF TripBreaker, ExecutorOwns
<1>8. ASSUME exec' = IdleExec PROVE ExecutorOwns'
  BY <1>8 DEF IdleExec, ExecutorOwns
<1>9. ASSUME Vet PROVE Goal
  <2>1. CASE ~DepMet(exec.task)
    BY <1>9, <2>1, <1>3, <1>8 DEF Vet
  <2>2. CASE DepMet(exec.task) /\ StartCoroutine(exec.task)
    BY <1>9, <2>2, <1>a, <1>4 DEF Vet, ExecutorOwns
  <2>3. CASE /\ DepMet(exec.task)
             /\ exec' = [exec EXCEPT !.pc = "conflict", !.snap = Inflight(exec.task)]
             /\ UNCHANGED slot
    <3>1. exec'.task = exec.task /\ exec'.snap = Inflight(exec.task) /\ exec'.pc = "conflict"
      BY <2>3, <1>a DEF TypeOK, Executor
    <3> QED
      BY <1>9, <2>3, <3>1, <1>a, <1>3 DEF Vet, ExecutorOwns, Inflight
  <2> QED
    BY <1>9, <2>1, <2>2, <2>3 DEF Vet
<1>10. ASSUME NoConflict PROVE Goal
  BY <1>10, <1>a, <1>4 DEF NoConflict, ExecutorOwns
<1>11. OutageReleases'
  BY <1>b DEF OutageReleases
<1> QED
  BY <1>1, <1>2, <1>3, <1>5, <1>6, <1>7, <1>8, <1>9, <1>10, <1>11
  DEF ExecutorStep, SingleOwner, NothingToClaim, ReturnTripped, ConflictCheckRaises, Serialize

LEMMA CoroutineOwnership ==
  ASSUME IInv, NEW s \in Slots, CoroutineStep(s)
  PROVE  SingleOwner'
<1> DEFINE t == slot[s].task
           OthersKept == \A x \in Slots \ {s} : slot'[x] = slot[x]
           Goal == /\ CoroutineOwns(s)'
                   /\ slot'[s].task \in {t, NoTask}
                   /\ OthersKept
<1> USE DEF outage, operator, At
<1>a. /\ ExecutorOwns /\ CoroutinesOwn /\ CoroutinesDisjoint
      /\ ReviewerOwns /\ MonitorOwns /\ TypeOK
  BY DEF IInv, SingleOwner
<1>b. exec' = exec /\ rev' = rev /\ mon' = mon /\ up' = up /\ up /\ slot[s].pc # "idle"
  BY DEF CoroutineStep, OnlyCoroutine, NameBranch, AddWorktree, CoroutineError,
         AgentSucceeds, AgentRateLimited, AgentFails, VerifyPasses, VerifyFails,
         FixAgentSucceeds, VerifyOrScanBlocks, NothingPublished, OpenPR, RecordPR,
         CleanCoroutine, CascadeCoroutine
<1>c. /\ t \in Tasks
      /\ slot[s].pc \in Driving => row[t].status = "working"
      /\ slot[s].pc \in {"clean", "cascade"} => row[t].status \in Terminal
      /\ \A u \in slot[s].todo : u \in Tasks /\ row[u].status = "failed"
      /\ row[t] \in Row
      /\ slot[s] \in Coroutine
  BY <1>a, <1>b DEF CoroutinesOwn, CoroutineOwns, TypeOK, Coroutine
<1>d. \A u \in Tasks : row[u].status = "failed" => Kept(u)
  BY CoroutineWrites
<1>1. ReviewerOwns'
  BY <1>a, <1>b, CoroutineWrites, FrameReviewer
<1>2. MonitorOwns'
  BY <1>a, <1>b, CoroutineWrites, FrameMonitor DEF Terminal
\* Leaving the slot, and moving on in it.
<1>3. ASSUME Leave(s) PROVE Goal
  BY <1>3, <1>a DEF Leave, TypeOK, CoroutineOwns, IdleSlot, Driving
<1>4. ASSUME NEW pc,
             slot'[s].pc = pc, slot'[s].task = t, slot'[s].todo \subseteq slot[s].todo, OthersKept,
             \/ pc \in Driving /\ row'[t].status = "working"
             \/ pc \in {"clean", "cascade"} /\ row'[t].status \in Terminal
      PROVE  Goal
  BY <1>4, <1>c, <1>d DEF CoroutineOwns, Kept, Driving
<1>5. ASSUME NEW pc, Goto(s, pc),
             \/ pc \in Driving /\ row'[t].status = "working"
             \/ pc \in {"clean", "cascade"} /\ row'[t].status \in Terminal
      PROVE  Goal
  <2>1. /\ slot'[s].pc = pc /\ slot'[s].task = t /\ slot'[s].todo = slot[s].todo
        /\ OthersKept
    BY <1>5, <1>a DEF Goto, TypeOK, Coroutine
  <2> QED
    BY <1>4, <1>5, <2>1
\* Giving the task up: it becomes the first of the cascade.
<1>6. ASSUME NEW pc \in {"clean", "cascade"},
             row'[t].status = "failed",
             slot' = [slot EXCEPT ![s].pc = pc, ![s].todo = {t}]
      PROVE  Goal
  <2>1. /\ slot'[s].pc = pc /\ slot'[s].task = t /\ slot'[s].todo = {t} /\ OthersKept
    BY <1>6, <1>a, <1>c DEF TypeOK, Coroutine
  <2> QED
    BY <1>6, <1>c, <2>1 DEF CoroutineOwns, Driving, Terminal
<1>7. ASSUME NameBranch(s) \/ AddWorktree(s) PROVE Goal
  <2>1. row'[t].status = "working"
    BY <1>7, <1>a, <1>c DEF NameBranch, AddWorktree, Driving, TypeOK, Row
  <2> QED
    BY <1>5, <1>7, <2>1 DEF NameBranch, AddWorktree, Driving
<1>8. ASSUME VerifyPasses(s) \/ VerifyFails(s) PROVE Goal
  <2>1. row'[t].status = "working"
    BY <1>8, <1>c DEF VerifyPasses, VerifyFails, Driving
  <2> QED
    BY <1>5, <1>8, <2>1 DEF VerifyPasses, VerifyFails, Driving
<1>9. ASSUME AgentSucceeds(s) \/ FixAgentSucceeds(s) PROVE Goal
  <2>1. row'[t].status = "working"
    BY <1>9, <1>c DEF AgentSucceeds, FixAgentSucceeds, Driving
  <2>2. /\ slot'[s].pc = "verify" /\ slot'[s].task = t /\ slot'[s].todo = slot[s].todo
        /\ OthersKept
    BY <1>9, <1>a DEF AgentSucceeds, FixAgentSucceeds, TypeOK, Coroutine
  <2> QED
    BY <1>4, <2>1, <2>2 DEF Driving
<1>10. ASSUME CoroutineError(s) PROVE Goal
  <2>1. CASE Leave(s)
    BY <1>3, <2>1
  <2>2. CASE /\ row' = [row EXCEPT ![t] = GivenUp(row[t])]
             /\ slot' = [slot EXCEPT ![s].pc = IF slot[s].pc = "publish" THEN "clean"
                                                                         ELSE "cascade",
                                     ![s].todo = {t}]
    <3>1. row'[t].status = "failed"
      BY <2>2, <1>a, <1>c DEF GivenUp, TypeOK, Row
    <3> QED
      BY <1>6, <2>2, <3>1
  <2> QED
    BY <1>10, <2>1, <2>2 DEF CoroutineError, Raise
<1>11. ASSUME AgentFails(s) \/ VerifyOrScanBlocks(s) PROVE Goal
  <2>1. CASE Leave(s)
    BY <1>3, <2>1
  <2>2. CASE /\ row' = [row EXCEPT ![t] = GivenUp(row[t])]
             /\ slot' = [slot EXCEPT ![s].pc = "cascade", ![s].todo = {t}]
    <3>1. row'[t].status = "failed"
      BY <2>2, <1>a, <1>c DEF GivenUp, TypeOK, Row
    <3> QED
      BY <1>6, <2>2, <3>1
  <2> QED
    BY <1>11, <2>1, <2>2 DEF AgentFails, VerifyOrScanBlocks
<1>12. ASSUME AgentRateLimited(s) \/ RecordPR(s) PROVE Goal
  BY <1>3, <1>12 DEF AgentRateLimited, RecordPR
<1>13. ASSUME NothingPublished(s) PROVE Goal
  <2>1. row'[t].status = "completed"
    BY <1>13, <1>a, <1>c DEF NothingPublished, TypeOK, Row
  <2> QED
    BY <1>5, <1>13, <2>1 DEF NothingPublished, Terminal
<1>14. ASSUME OpenPR(s) PROVE Goal
  <2>1. row'[t].status = "working"
    BY <1>14, <1>a, <1>c DEF OpenPR, Driving, TypeOK, Row
  <2> QED
    BY <1>5, <1>14, <2>1 DEF OpenPR, Driving
<1>15. ASSUME CleanCoroutine(s) PROVE Goal
  <2>1. row'[t].status \in Terminal
    BY <1>15, <1>a, <1>c DEF CleanCoroutine, TypeOK, Row
  <2> QED
    BY <1>3, <1>5, <1>15, <2>1 DEF CleanCoroutine
<1>16. ASSUME NEW u \in Tasks, CascadeCoroutine(s, u) PROVE Goal
  <2>1. row'[t].status \in Terminal
    BY <1>16, <1>c, CascadeWrites DEF CascadeCoroutine, WritesOnly, Kept, Terminal
  <2>2. \A x \in Dependents(u) : row'[x].status = "failed"
    BY <1>16, <1>a, CascadeFails DEF CascadeCoroutine
  <2>3. CASE slot' = [slot EXCEPT ![s] = IdleSlot]
    BY <1>3, <2>3 DEF Leave
  <2>4. CASE slot' = [slot EXCEPT ![s] = [slot[s] EXCEPT
                        !.todo = (slot[s].todo \ {u}) \union Dependents(u)]]
    <3>1. /\ slot'[s].pc = "cascade" /\ slot'[s].task = t
          /\ slot'[s].todo = (slot[s].todo \ {u}) \union Dependents(u)
          /\ OthersKept
      BY <1>16, <2>4, <1>a DEF CascadeCoroutine, TypeOK, Coroutine
    <3> QED
      BY <1>c, <1>d, <2>1, <2>2, <3>1 DEF CoroutineOwns, Driving, Kept
  <2> QED
    BY <1>16, <2>3, <2>4 DEF CascadeCoroutine
<1>17. Goal
  BY <1>7, <1>8, <1>9, <1>10, <1>11, <1>12, <1>13, <1>14, <1>15, <1>16 DEF CoroutineStep
<1>18. \A x \in Slots \ {s} : slot[x].pc # "idle" => Kept(slot[x].task)
  <2> TAKE x \in Slots \ {s}
  <2>1. slot[x].pc # "idle" => slot[x].task # t
    BY <1>a, <1>b DEF CoroutinesDisjoint
  <2> QED
    BY <2>1, CoroutineTasks, CoroutineWrites DEF Terminal
<1>19. CoroutinesOwn'
  <2>1. \A x \in Slots \ {s} : CoroutineOwns(x)'
    BY <1>a, <1>d, <1>17, <1>18, FrameCoroutine DEF CoroutinesOwn
  <2> QED
    BY <1>17, <2>1 DEF CoroutinesOwn
<1>20. CoroutinesDisjoint'
  <2>1. NoTask \notin Tasks
    BY DEF NoTask, Tasks
  <2>2. \A x \in Slots \ {s} : slot[x].task # t
    BY <1>a, <1>b DEF CoroutinesDisjoint
  <2>3. \A x \in Slots : slot'[x].pc # "idle" => slot'[x].task \in Tasks
    BY <1>19 DEF CoroutinesOwn, CoroutineOwns
  <2>4. /\ slot'[s].task \in {t, NoTask}
        /\ \A x \in Slots \ {s} : slot'[x] = slot[x]
    BY <1>17
  <2>5. ASSUME NEW x \in Slots, NEW y \in Slots, x # y, slot'[x].pc # "idle"
        PROVE  slot'[x].task # slot'[y].task
    BY <1>a, <2>1, <2>2, <2>3, <2>4, <2>5 DEF CoroutinesDisjoint
  <2> QED
    BY <2>5 DEF CoroutinesDisjoint
<1>21. ExecutorOwns'
  <2>1. exec.pc \notin {"poll", "claim"} => Kept(exec.task)
    BY <1>a, <1>b, CoroutineWrites DEF ExecutorOwns
  <2> QED
    BY <1>a, <1>b, <1>17, <2>1, FrameExecutor
<1> QED
  BY <1>1, <1>2, <1>b, <1>19, <1>20, <1>21 DEF SingleOwner, OutageReleases

LEMMA CoordinatorOwnership ==
  ASSUME IInv, CoordinatorStep
  PROVE  SingleOwner'
<1> USE DEF outage, operator, OnlyReviewer
<1>a. /\ ExecutorOwns /\ CoroutinesOwn /\ CoroutinesDisjoint
      /\ ReviewerOwns /\ MonitorOwns /\ TypeOK
  BY DEF IInv, SingleOwner
<1>b. exec' = exec /\ slot' = slot /\ mon' = mon /\ up' = up /\ up
  BY DEF CoordinatorStep, ListPending, ReviewApproves, ReviewRejects, RetryRejected,
         FailRejected, CleanRejected, BeginReview, CascadeReview
<1>c. /\ row \in [Tasks -> Row] /\ rev \in Reviewer
      /\ \A u \in rev.todo : u \in Tasks /\ row[u].status = "pr_created"
      /\ \A u \in rev.fell : u \in Tasks /\ row[u].status = "failed"
      /\ rev.pc # "idle" => rev.task \in Tasks
      /\ rev.pc \in {"review", "closed"} => row[rev.task].status = "reviewing"
      /\ rev.pc \in {"cascade", "clean"} => row[rev.task].status = "failed"
  BY <1>a DEF ReviewerOwns, TypeOK, Reviewer
<1>d. \A u \in Tasks : row[u].status \notin {"queued", "pr_created", "reviewing"} => Kept(u)
  BY CoordinatorWrites DEF WritesOnly
<1>1. ExecutorOwns'
  BY <1>a, <1>b, <1>d, FrameExecutor DEF ExecutorOwns
<1>2. CoroutinesOwn' /\ CoroutinesDisjoint'
  <2>1. \A s \in Slots : slot[s].pc # "idle" => Kept(slot[s].task)
    BY <1>d, CoroutineTasks DEF Terminal
  <2>2. \A s \in Slots : CoroutineOwns(s)'
    BY <1>a, <1>b, <1>d, <2>1, FrameCoroutine DEF CoroutinesOwn
  <2> QED
    BY <1>a, <1>b, <2>2 DEF CoroutinesOwn, CoroutinesDisjoint
<1>3. MonitorOwns'
  BY <1>a, <1>b, <1>d, FrameMonitor DEF Terminal
\* The reviewer moves on to pc while it rewrites the row of the task it has.
<1>4. ASSUME NextReview, \A u \in Tasks : Kept(u) \/ u = rev.task, rev.pc # "idle",
             rev.pc \in {"review", "closed", "clean"}
      PROVE  ReviewerOwns'
  <2>1. rev'.pc = "idle" /\ rev'.todo = rev.todo /\ rev'.fell \subseteq rev.fell
    BY <1>4, <1>c DEF NextReview, Reviewer
  <2>2. \A u \in rev.todo : u # rev.task
    BY <1>4, <1>c
  <2> QED
    BY <1>4, <1>c, <1>d, <2>1, <2>2 DEF ReviewerOwns, Kept
<1>5. ASSUME ListPending PROVE ReviewerOwns'
  BY <1>5, <1>c DEF ListPending, ReviewerOwns, Reviewer
<1>6. ASSUME ReviewApproves PROVE ReviewerOwns'
  BY <1>4, <1>6, <1>c DEF ReviewApproves, Kept
<1>7. ASSUME ReviewRejects PROVE ReviewerOwns'
  BY <1>7, <1>c DEF ReviewRejects, ReviewerOwns, Reviewer
<1>8. ASSUME RetryRejected PROVE ReviewerOwns'
  BY <1>4, <1>8, <1>c DEF RetryRejected, Kept
<1>9. ASSUME FailRejected PROVE ReviewerOwns'
  <2>1. rev'.pc = "cascade" /\ rev'.todo = rev.todo /\ rev'.fell = {rev.task}
        /\ rev'.task = rev.task
    BY <1>9, <1>c DEF FailRejected, Reviewer
  <2>2. row'[rev.task].status = "failed" /\ \A u \in Tasks : u # rev.task => Kept(u)
    BY <1>9, <1>c DEF FailRejected, Kept, Row
  <2> QED
    BY <1>9, <1>c, <2>1, <2>2 DEF FailRejected, ReviewerOwns, Kept
<1>10. ASSUME CleanRejected PROVE ReviewerOwns'
  BY <1>4, <1>10, <1>c DEF CleanRejected, Kept
<1>11. ASSUME NEW t \in Tasks, BeginReview(t) PROVE ReviewerOwns'
  <2>1. rev'.pc = "review" /\ rev'.todo = rev.todo \ {t} /\ rev'.fell = rev.fell
        /\ rev'.task = t
    BY <1>11, <1>c DEF BeginReview, Reviewer
  <2>2. row'[t].status = "reviewing" /\ \A u \in Tasks : u # t => Kept(u)
    BY <1>11, <1>c DEF BeginReview, Kept, Row
  <2> QED
    BY <1>11, <1>c, <2>1, <2>2 DEF BeginReview, ReviewerOwns, Kept
<1>12. ASSUME NEW t \in Tasks, CascadeReview(t) PROVE ReviewerOwns'
  <2>1. /\ rev'.pc \in {"cascade", "clean"} /\ rev'.todo = rev.todo
        /\ rev'.fell = (rev.fell \ {t}) \union Dependents(t)
        /\ rev'.task = rev.task
    BY <1>12, <1>c DEF CascadeReview, Reviewer
  <2>2. \A u \in Tasks : Kept(u) \/ row[u].status = "queued"
    BY <1>12, CascadeWrites DEF CascadeReview, WritesOnly
  <2>3. \A u \in Dependents(t) : row'[u].status = "failed"
    BY <1>12, <1>a, CascadeFails DEF CascadeReview
  <2> QED
    BY <1>12, <1>c, <2>1, <2>2, <2>3 DEF CascadeReview, ReviewerOwns, Kept
<1>13. ReviewerOwns'
  BY <1>5, <1>6, <1>7, <1>8, <1>9, <1>10, <1>11, <1>12 DEF CoordinatorStep
<1> QED
  BY <1>1, <1>2, <1>3, <1>13, <1>b DEF SingleOwner, OutageReleases

LEMMA MonitorOwnership ==
  ASSUME IInv, MonitorStep
  PROVE  SingleOwner'
<1> USE DEF outage, operator, OnlyMonitor, Merging, Sweeping
<1>a. /\ ExecutorOwns /\ CoroutinesOwn /\ CoroutinesDisjoint
      /\ ReviewerOwns /\ MonitorOwns /\ TypeOK
  BY DEF IInv, SingleOwner
<1>b. exec' = exec /\ slot' = slot /\ rev' = rev /\ up' = up /\ up
  BY DEF MonitorStep, BeginSweep, SetGate, MergeAcknowledged, MergeAnswerLost, MergeRefused,
         MergeConflicts, FinalizeMerge, FailMerge, RequeueConflicting, RecordRetry,
         CleanMonitored, ChecksPending, ChecksPass, ChecksFail, NotStuck, StuckConflict,
         TakeApproved, RetryPushes, RetryFails
<1>c. /\ row \in [Tasks -> Row] /\ mon \in Monitor
      /\ \A u \in mon.todo : u \in Tasks /\ row[u].status = SweepStatus(mon.sweep)
      /\ mon.pc # "each" => mon.task \in Tasks /\ mon.task \notin mon.todo
      /\ mon.pc \in {"gate", "merge", "acked", "refused", "requeue"} =>
            row[mon.task].status = "ci_passed"
      /\ mon.pc = "pushed" => row[mon.task].status = "retrying"
      /\ mon.pc = "clean" => row[mon.task].status \in Terminal
  BY <1>a DEF MonitorOwns, TypeOK, Monitor
<1>d. \A u \in Tasks : row[u].status \notin {"reviewed", "ci_passed", "retrying"} => Kept(u)
  BY MonitorWrites DEF WritesOnly
<1>1. ExecutorOwns'
  BY <1>a, <1>b, <1>d, FrameExecutor DEF ExecutorOwns
<1>2. CoroutinesOwn' /\ CoroutinesDisjoint'
  <2>1. \A s \in Slots : slot[s].pc # "idle" => Kept(slot[s].task)
    BY <1>d, CoroutineTasks DEF Terminal
  <2>2. \A s \in Slots : CoroutineOwns(s)'
    BY <1>a, <1>b, <1>d, <2>1, FrameCoroutine DEF CoroutinesOwn
  <2> QED
    BY <1>a, <1>b, <2>2 DEF CoroutinesOwn, CoroutinesDisjoint
<1>3. ReviewerOwns'
  BY <1>a, <1>b, <1>d, FrameReviewer
\* Done with t, taking t from the list, moving on with the task at hand: the
\* rows still listed are not touched.
<1>4. ASSUME NEW t \in Tasks, Done(t), \A u \in Tasks \ {t} : Kept(u)
      PROVE  MonitorOwns'
  <2>1. mon'.pc = "each" /\ mon'.todo = mon.todo \ {t} /\ mon'.sweep = mon.sweep
    BY <1>4, <1>c DEF Done, Monitor
  <2> QED
    BY <1>4, <1>c, <2>1 DEF MonitorOwns, Kept
<1>5. ASSUME NEW t \in Tasks, NEW pc, Take(t, pc), \A u \in Tasks \ {t} : Kept(u),
             \/ pc \in {"gate", "merge", "requeue"} /\ row'[t].status = "ci_passed"
             \/ pc = "pushed" /\ row'[t].status = "retrying"
             \/ pc = "clean" /\ row'[t].status \in Terminal
      PROVE  MonitorOwns'
  <2>1. mon'.pc = pc /\ mon'.todo = mon.todo \ {t} /\ mon'.sweep = mon.sweep /\ mon'.task = t
    BY <1>5, <1>c DEF Take, Monitor
  <2> QED
    BY <1>5, <1>c, <2>1 DEF MonitorOwns, Kept
<1>6. ASSUME NEW pc, Then(pc), mon.pc # "each", \A u \in Tasks \ {mon.task} : Kept(u),
             \/ /\ pc \in {"acked", "refused", "requeue"}
                /\ row'[mon.task].status = "ci_passed"
             \/ pc = "clean" /\ row'[mon.task].status \in Terminal
      PROVE  MonitorOwns'
  <2>1. mon'.pc = pc /\ mon'.todo = mon.todo /\ mon'.sweep = mon.sweep
        /\ mon'.task = mon.task
    BY <1>6, <1>c DEF Then, Monitor
  <2> QED
    BY <1>6, <1>c, <2>1 DEF MonitorOwns, Kept
<1>7. ASSUME BeginSweep PROVE MonitorOwns'
  <2>1. /\ mon'.pc = "each" /\ mon'.sweep = NextSweep(mon.sweep)
        /\ mon'.todo = Listed(NextSweep(mon.sweep))
    BY <1>7, <1>c DEF BeginSweep, Monitor
  <2> QED
    BY <1>7, <2>1 DEF BeginSweep, MonitorOwns, Listed
<1>8. ASSUME SetGate \/ RequeueConflicting \/ RecordRetry \/ CleanMonitored PROVE MonitorOwns'
  <2>1. Done(mon.task) /\ mon.task \in Tasks
    BY <1>8, <1>c DEF SetGate, RequeueConflicting, RecordRetry, CleanMonitored
  <2>2. \A u \in Tasks \ {mon.task} : Kept(u)
    BY <1>8, <1>c DEF SetGate, RequeueConflicting, RecordRetry, CleanMonitored, Kept
  <2> QED
    BY <1>4, <2>1, <2>2
<1>9. ASSUME MergeAcknowledged \/ MergeAnswerLost \/ MergeRefused \/ MergeConflicts
      PROVE  MonitorOwns'
  BY <1>6, <1>9, <1>c DEF MergeAcknowledged, MergeAnswerLost, MergeRefused, MergeConflicts, Kept
<1>10. ASSUME FinalizeMerge \/ FailMerge PROVE MonitorOwns'
  <2>1. row'[mon.task].status \in Terminal
    BY <1>10, <1>c DEF FinalizeMerge, FailMerge, Terminal, Row
  <2>2. \A u \in Tasks \ {mon.task} : Kept(u)
    BY <1>10, <1>c DEF FinalizeMerge, FailMerge, Kept
  <2> QED
    BY <1>6, <1>10, <2>1, <2>2 DEF FinalizeMerge, FailMerge
<1>11. ASSUME NEW t \in Tasks, ChecksPending(t) \/ NotStuck(t) PROVE MonitorOwns'
  BY <1>4, <1>11 DEF ChecksPending, NotStuck, Kept
<1>12. ASSUME NEW t \in Tasks, ChecksPass(t) PROVE MonitorOwns'
  <2>1. row'[t].status = "ci_passed" /\ \A u \in Tasks \ {t} : Kept(u)
    BY <1>12, <1>c DEF ChecksPass, Kept, Row
  <2> QED
    BY <1>5, <1>12, <2>1 DEF ChecksPass
<1>13. ASSUME NEW t \in Tasks, ChecksFail(t) PROVE MonitorOwns'
  <2>1. \A u \in Tasks \ {t} : Kept(u)
    BY <1>13, <1>c DEF ChecksFail, Kept
  <2>2. Done(t) \/ (Take(t, "clean") /\ row'[t].status = "failed")
    BY <1>13, <1>c DEF ChecksFail, Row
  <2> QED
    BY <1>4, <1>5, <2>1, <2>2 DEF Terminal
<1>14. ASSUME NEW t \in Tasks, StuckConflict(t) \/ TakeApproved(t) PROVE MonitorOwns'
  BY <1>5, <1>14, <1>c DEF StuckConflict, TakeApproved, SweepStatus, Kept
<1>15. ASSUME NEW t \in Tasks, RetryPushes(t) PROVE MonitorOwns'
  BY <1>5, <1>15, <1>c DEF RetryPushes, SweepStatus, Kept
<1>16. ASSUME NEW t \in Tasks, RetryFails(t) PROVE MonitorOwns'
  <2>1. row'[t].status = "failed" /\ \A u \in Tasks \ {t} : Kept(u)
    BY <1>16, <1>c DEF RetryFails, Kept, Row
  <2> QED
    BY <1>5, <1>16, <2>1 DEF RetryFails, Terminal
<1>17. MonitorOwns'
  BY <1>7, <1>8, <1>9, <1>10, <1>11, <1>12, <1>13, <1>14, <1>15, <1>16 DEF MonitorStep
<1> QED
  BY <1>1, <1>2, <1>3, <1>17, <1>b DEF SingleOwner, OutageReleases

\* Commands leave every status alone; the outage empties every hand, and the
\* restart finds them empty.
LEMMA OutsideOwnership ==
  ASSUME IInv, OperatorStep \/ Crash \/ Restart
  PROVE  SingleOwner'
<1>1. CASE OperatorStep
  <2>1. /\ exec' = exec /\ slot' = slot /\ rev' = rev /\ mon' = mon /\ up' = up
    BY <1>1 DEF OperatorStep, SetHold, ClearHold, SetPaused, ReadTask, OnlyOperator, outage
  <2>2. \A u \in Tasks : Kept(u)
    BY <1>1, OperatorWrites DEF WritesOnly
  <2>3. /\ ExecutorOwns /\ CoroutinesOwn /\ CoroutinesDisjoint
        /\ ReviewerOwns /\ MonitorOwns /\ OutageReleases /\ TypeOK
    BY DEF IInv, SingleOwner
  <2>4. \A s \in Slots : CoroutineOwns(s)'
    BY <2>1, <2>2, <2>3, CoroutineTasks, FrameCoroutine DEF CoroutinesOwn
  <2>5. ExecutorOwns'
    BY <2>1, <2>2, <2>3, FrameExecutor DEF ExecutorOwns
  <2> QED
    BY <2>1, <2>2, <2>3, <2>4, <2>5, FrameReviewer, FrameMonitor
    DEF SingleOwner, CoroutinesOwn, CoroutinesDisjoint, OutageReleases
<1>2. ASSUME exec' = IdleExec, slot' = [s \in Slots |-> IdleSlot], rev' = IdleRev, mon' = IdleMon
      PROVE  SingleOwner'
  BY <1>2 DEF SingleOwner, ExecutorOwns, CoroutinesOwn, CoroutineOwns, CoroutinesDisjoint,
              ReviewerOwns, MonitorOwns, OutageReleases, Driving,
              IdleExec, IdleSlot, IdleRev, IdleMon
<1>3. CASE Crash
  BY <1>2, <1>3 DEF Crash
<1>4. CASE Restart
  <2>1. exec' = IdleExec /\ slot' = [s \in Slots |-> IdleSlot] /\ rev' = IdleRev /\ mon' = IdleMon
    BY <1>4 DEF Restart, IInv, SingleOwner, OutageReleases, TypeOK
  <2> QED
    BY <1>2, <2>1
<1> QED
  BY <1>1, <1>3, <1>4

LEMMA InitOwnership == Init => SingleOwner
BY DEF Init, SingleOwner, ExecutorOwns, CoroutinesOwn, CoroutineOwns, CoroutinesDisjoint,
       ReviewerOwns, MonitorOwns, OutageReleases, Driving,
       IdleExec, IdleSlot, IdleRev, IdleMon

\* The inductive invariant is preserved by every step.
LEMMA Inductive ==
  ASSUME IInv, [Next]_vars
  PROVE  IInv'
<1>1. TypeOK'
  BY TypeStep DEF IInv
<1>2. CASE Next
  <2>1. SingleOwner'
    BY <1>2, ExecutorOwnership, CoroutineOwnership, CoordinatorOwnership, MonitorOwnership,
       OutsideOwnership DEF Next, DispatchStep
  <2> QED
    BY <1>1, <2>1 DEF IInv
<1>3. CASE UNCHANGED vars
  BY <1>3 DEF vars, IInv, TypeOK, SingleOwner, ExecutorOwns, CoroutinesOwn, CoroutineOwns,
              CoroutinesDisjoint, ReviewerOwns, MonitorOwns, OutageReleases
<1> QED
  BY <1>2, <1>3

LEMMA Invariance == Spec => []IInv
<1>1. Init => IInv
  BY InitType, InitOwnership DEF IInv
<1>2. IInv /\ [Next]_vars => IInv'
  BY Inductive
<1> QED
  BY <1>1, <1>2, PTL DEF Spec

\* Every variable keeps its type, for any number of tasks, workers, retries,
\* backends, faults and outages.
THEOREM TypeCorrect == Spec => []TypeOK
<1>1. IInv => TypeOK
  BY DEF IInv
<1> QED
  BY <1>1, Invariance, PTL

\* A task is in the hands of one loop at a time, and its row says in whose:
\* the blind writes of db.py update_task never hit a row of another loop.
THEOREM OwnershipHolds == Spec => []SingleOwner
<1>1. IInv => SingleOwner
  BY DEF IInv
<1> QED
  BY <1>1, Invariance, PTL

\* None of the ...Writes lemmas has a final status.
LEMMA FinalStep ==
  ASSUME IInv, [Next]_vars, NEW t \in Tasks, row[t].status \in Terminal
  PROVE  row'[t].status = row[t].status
<1>1. CASE UNCHANGED vars
  BY <1>1 DEF vars
<1> QED
  BY <1>1, ExecutorWrites, CoroutineWrites, CoordinatorWrites, MonitorWrites, OperatorWrites,
     OutageWrites DEF Next, DispatchStep, WritesOnly, Kept, Terminal

\* Completed and failed are final: no loop, coroutine, command or restart
\* moves a row out of them.
THEOREM TerminalFinality == Spec => TerminalIsFinal
<1>1. IInv /\ [Next]_vars =>
         [\A t \in Tasks : row[t].status \in Terminal => row'[t].status = row[t].status]_vars
  BY FinalStep
<1> QED
  BY <1>1, Invariance, PTL DEF Spec, TerminalIsFinal
=============================================================================
