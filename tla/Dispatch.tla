------------------------------ MODULE Dispatch ------------------------------
(***************************************************************************)
(* The dispatch coroutines: dispatch_task, one per permit of the           *)
(* semaphore, takes a working task through worktree, agent, verification   *)
(* and safety scan to a pull request, back to the queue, or to failure.    *)
(***************************************************************************)
EXTENDS TaskTable

At(s, pc) == up /\ slot[s].pc = pc

Leave(s)     == slot' = [slot EXCEPT ![s] = IdleSlot]
Goto(s, pc)  == slot' = [slot EXCEPT ![s].pc = pc]
OnlyCoroutine == UNCHANGED <<mode, outage, exec, rev, mon, operator>>

\* A row sent back to the queue by the coroutine: the error is cleared, the
\* branch forgotten; pr_number, completed_at and hold are left as they are.
Again(r, retry, agent, fallback) ==
    [r EXCEPT !.status = "queued", !.error = "none", !.branch = FALSE,
              !.retry = retry, !.agent = agent, !.fallback = fallback]

GivenUp(r) == [r EXCEPT !.status = "failed", !.error = "dispatch", !.stamped = TRUE]

\* The repository is fetched and the branch named, then the worktree made and
\* the agent started: its pid is stored, and no retry forgets it.
NameBranch(s) ==
    /\ At(s, "setup")
    /\ row' = [row EXCEPT ![slot[s].task].branch = TRUE]
    /\ Goto(s, "worktree")
    /\ OnlyCoroutine /\ UNCHANGED <<gh, faults>>

AddWorktree(s) ==
    /\ At(s, "worktree")
    /\ row' = [row EXCEPT ![slot[s].task].pid = TRUE]
    /\ Goto(s, "agent")
    /\ OnlyCoroutine /\ UNCHANGED <<gh, faults>>

\* The outer exception handler: a retry while the budget lasts, else failure.
\* cleanup_task_artifacts works only if the task was read again after the
\* branch was named, that is, from publish on.
Raise(s) ==
    LET t == slot[s].task IN
    IF row[t].retry < MaxTaskRetries
      THEN /\ row' = [row EXCEPT ![t] = Again(row[t], row[t].retry + 1,
                                              row[t].agent, row[t].fallback)]
           /\ Leave(s)
      ELSE /\ row' = [row EXCEPT ![t] = GivenUp(row[t])]
           /\ slot' = [slot EXCEPT ![s].pc = IF slot[s].pc = "publish" THEN "clean"
                                                                      ELSE "cascade",
                                   ![s].todo = {t}]

\* Fetch, worktree, spawning, verifying, the fixing agent or the push failed.
CoroutineError(s) ==
    /\ up /\ slot[s].pc \in {"setup", "worktree", "agent", "verify", "fix", "publish"}
    /\ Raise(s)
    /\ OnlyCoroutine /\ UNCHANGED <<gh, faults>>

AgentSucceeds(s) ==
    /\ At(s, "agent")
    /\ slot' = [slot EXCEPT ![s].pc = "verify", ![s].attempt = 1]
    /\ OnlyCoroutine /\ UNCHANGED <<row, gh, faults>>

\* _pick_rate_limit_fallback: the first other agent of the chain.
RateLimitFallback(a) == {b \in Backends \ {a} : \A c \in Backends \ {a} : b <= c}

\* Variant: the backend is not looked up.
ChainFallback_Unchecked(a) == {a + 1}

\* _pick_fallback_agent, and the caller's check that its backend exists.
ChainFallback(a) == {a + 1} \cap Backends

\* Bound: rate limits are drawn from faults.
AgentRateLimited(s) ==
    LET t == slot[s].task IN
    /\ At(s, "agent")
    /\ faults > 0
    /\ \E b \in RateLimitFallback(row[t].agent) :
          row' = [row EXCEPT ![t] = Again(row[t], 0, b, row[t].fallback + 1)]
    /\ Leave(s)
    /\ faults' = faults - 1
    /\ OnlyCoroutine /\ UNCHANGED gh

\* Same agent while retries last, then the next one of the chain, then failure.
AgentFails(s) ==
    LET t    == slot[s].task
        next == ChainFallback(row[t].agent)
    IN
    /\ At(s, "agent")
    /\ \/ /\ row[t].retry < MaxTaskRetries
          /\ row' = [row EXCEPT ![t] = Again(row[t], row[t].retry + 1,
                                             row[t].agent, row[t].fallback)]
          /\ Leave(s)
       \/ /\ row[t].retry >= MaxTaskRetries
          /\ \E b \in next :
                row' = [row EXCEPT ![t] = Again(row[t], 0, b, row[t].fallback + 1)]
          /\ Leave(s)
       \/ /\ row[t].retry >= MaxTaskRetries /\ next = {}
          /\ row' = [row EXCEPT ![t] = GivenUp(row[t])]
          /\ slot' = [slot EXCEPT ![s].pc = "cascade", ![s].todo = {t}]
    /\ OnlyCoroutine /\ UNCHANGED <<gh, faults>>

\* The build passes (or there is no verify command) and the scan is clean.
VerifyPasses(s) ==
    /\ At(s, "verify")
    /\ Goto(s, "publish")
    /\ OnlyCoroutine /\ UNCHANGED <<row, gh, faults>>

VerifyFails(s) ==
    /\ At(s, "verify")
    /\ slot[s].attempt <= MaxVerifyRetries
    /\ Goto(s, "fix")
    /\ OnlyCoroutine /\ UNCHANGED <<row, gh, faults>>

FixAgentSucceeds(s) ==
    /\ At(s, "fix")
    /\ slot' = [slot EXCEPT ![s].pc = "verify", ![s].attempt = @ + 1]
    /\ OnlyCoroutine /\ UNCHANGED <<row, gh, faults>>

\* The last verification failed, or the safety scan found a blocker.  The
\* build may pass and the scan block at any attempt.
VerifyOrScanBlocks(s) ==
    LET t == slot[s].task IN
    /\ At(s, "verify")
    /\ row' = [row EXCEPT ![t] = GivenUp(row[t])]
    /\ slot' = [slot EXCEPT ![s].pc = "cascade", ![s].todo = {t}]
    /\ OnlyCoroutine /\ UNCHANGED <<gh, faults>>

\* No commits, a failed commit, or "gh pr create" refused: create_pr gives None.
NothingPublished(s) ==
    /\ At(s, "publish")
    /\ row' = [row EXCEPT ![slot[s].task].status = "completed",
                          ![slot[s].task].stamped = TRUE]
    /\ Goto(s, "clean")
    /\ OnlyCoroutine /\ UNCHANGED <<gh, faults>>

\* Variant: the number is not stored.
OpenPR_NoNumber(s) ==
    LET t == slot[s].task IN
    /\ At(s, "publish")
    /\ gh' = [gh EXCEPT ![t] = [num |-> @.num + 1, state |-> "open", reviewed |-> FALSE,
                                green |-> FALSE, consent |-> FALSE]]
    /\ Goto(s, "opened")
    /\ OnlyCoroutine /\ UNCHANGED <<row, faults>>

\* create_pr pushes, opens the pull request and stores its number.
OpenPR(s) ==
    LET t == slot[s].task
        n == gh[t].num + 1
    IN
    /\ At(s, "publish")
    /\ gh' = [gh EXCEPT ![t] = [num |-> n, state |-> "open", reviewed |-> FALSE,
                                green |-> FALSE, consent |-> FALSE]]
    /\ row' = [row EXCEPT ![t].pr = n]
    /\ Goto(s, "opened")
    /\ OnlyCoroutine /\ UNCHANGED faults

RecordPR(s) ==
    /\ At(s, "opened")
    /\ row' = [row EXCEPT ![slot[s].task].status = "pr_created",
                          ![slot[s].task].stamped = TRUE]
    /\ Leave(s)
    /\ OnlyCoroutine /\ UNCHANGED <<gh, faults>>

CleanCoroutine(s) ==
    /\ At(s, "clean")
    /\ row' = [row EXCEPT ![slot[s].task].branch = FALSE]
    /\ IF slot[s].todo = {} THEN Leave(s) ELSE Goto(s, "cascade")
    /\ OnlyCoroutine /\ UNCHANGED <<gh, faults>>

\* Variant: only the direct dependents are failed.
CascadeCoroutine_OneLevel(s, u) ==
    LET rest == slot[s].todo \ {u} IN
    /\ At(s, "cascade")
    /\ u \in slot[s].todo
    /\ CascadeFrom(u)
    /\ slot' = [slot EXCEPT ![s] = IF rest = {} THEN IdleSlot
                                                ELSE [slot[s] EXCEPT !.todo = rest]]
    /\ OnlyCoroutine /\ UNCHANGED <<gh, faults>>

CascadeCoroutine(s, u) ==
    LET rest == (slot[s].todo \ {u}) \union Dependents(u) IN
    /\ At(s, "cascade")
    /\ u \in slot[s].todo
    /\ CascadeFrom(u)
    /\ slot' = [slot EXCEPT ![s] = IF rest = {} THEN IdleSlot
                                                ELSE [slot[s] EXCEPT !.todo = rest]]
    /\ OnlyCoroutine /\ UNCHANGED <<gh, faults>>

CoroutineStep(s) ==
    \/ NameBranch(s) \/ AddWorktree(s) \/ CoroutineError(s)
    \/ AgentSucceeds(s) \/ AgentRateLimited(s) \/ AgentFails(s)
    \/ VerifyPasses(s) \/ VerifyFails(s) \/ FixAgentSucceeds(s)
    \/ VerifyOrScanBlocks(s)
    \/ NothingPublished(s) \/ OpenPR(s) \/ RecordPR(s) \/ CleanCoroutine(s)
    \/ \E u \in Tasks : CascadeCoroutine(s, u)

DispatchStep == \E s \in Slots : CoroutineStep(s)
=============================================================================
