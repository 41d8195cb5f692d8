------------------------------ MODULE Executor ------------------------------
(***************************************************************************)
(* The task executor of the worker: _task_executor_loop claims a queued    *)
(* row, vets it (try_claim_and_dispatch) and starts a dispatch coroutine   *)
(* for it.                                                                 *)
(***************************************************************************)
EXTENDS TaskTable

\* Variants: no dependency test; published rows taken for queued ones.
Claimable_NoDependency == {t \in Tasks : row[t].status = "queued" /\ row[t].hold = "none"}
Claimable_Published == {t \in Tasks : /\ row[t].status \in {"queued", "pr_created"}
                                      /\ row[t].hold = "none"
                                      /\ DepMet(t)}

Claimable == {t \in Tasks : /\ row[t].status = "queued"
                            /\ row[t].hold = "none"
                            /\ DepMet(t)}

\* The pause flag is read in one query, the claim is a later one.
PollQueue ==
    /\ up /\ exec.pc = "poll" /\ ~paused
    /\ \E s \in Slots : slot[s].pc = "idle"
    /\ exec' = [exec EXCEPT !.pc = "claim"]
    /\ UNCHANGED <<row, gh, mode, outage, slot, rev, mon, operator, faults>>

\* Creation times have a resolution of a second, so equal priorities may tie.
Claim(t) ==
    /\ up /\ exec.pc = "claim"
    /\ t \in Claimable
    /\ \A u \in Claimable : Priority[t] <= Priority[u]
    /\ row' = [row EXCEPT ![t].status = "working"]
    /\ exec' = [exec EXCEPT !.pc = "vet", !.task = t]
    /\ UNCHANGED <<gh, mode, outage, slot, rev, mon, operator, faults>>

NothingToClaim ==
    /\ up /\ exec.pc = "claim"
    /\ Claimable = {}
    /\ exec' = IdleExec
    /\ UNCHANGED <<row, gh, mode, outage, slot, rev, mon, operator, faults>>

\* Which stamped rows fall in the window is a matter of time: the circuit may
\* be found open when some choice of them reaches the failure threshold of
\* seven in ten, and closed in any case (older rows, half-open after cooldown).
CircuitMayBeOpen ==
    \E recent \in SUBSET {t \in Tasks : row[t].stamped} :
        /\ Cardinality(recent) >= MinTasksForTrip
        /\ 10 * Cardinality({t \in recent : row[t].status = "failed"})
             >= 7 * Cardinality(recent)

\* apply_circuit_breaker commits the hold first and the status second.
TripBreaker ==
    /\ up /\ exec.pc = "vet"
    /\ CircuitMayBeOpen
    /\ row' = [row EXCEPT ![exec.task].hold = "circuit_breaker"]
    /\ exec' = [exec EXCEPT !.pc = "trip"]
    /\ UNCHANGED <<gh, mode, outage, slot, rev, mon, operator, faults>>

ReturnTripped ==
    /\ up /\ exec.pc = "trip"
    /\ row' = [row EXCEPT ![exec.task].status = "queued"]
    /\ exec' = IdleExec
    /\ UNCHANGED <<gh, mode, outage, slot, rev, mon, operator, faults>>

StartCoroutine(t) ==
    /\ \E s \in Slots :
          /\ slot[s].pc = "idle"
          /\ slot' = [slot EXCEPT ![s] = [IdleSlot EXCEPT !.pc = "setup", !.task = t]]
    /\ exec' = IdleExec

\* Variant: queued tasks count as in flight.
Inflight_Queued(t) == {u \in Tasks \ {t} : row[u].status \notin Terminal}

Inflight(t) == {u \in Tasks \ {t} :
                  row[u].status \in {"working", "pr_created", "reviewing", "reviewed"}}

\* The dependency is read again, the row goes back if it is no longer met;
\* outside full-auto the tasks in flight are listed for the conflict check.
Vet ==
    LET t == exec.task IN
    /\ up /\ exec.pc = "vet"
    /\ IF ~DepMet(t)
         THEN /\ row' = [row EXCEPT ![t].status = "queued"]
              /\ exec' = IdleExec
              /\ UNCHANGED slot
         ELSE /\ UNCHANGED row
              /\ IF mode = "full-auto" \/ Inflight(t) = {}
                   THEN StartCoroutine(t)
                   ELSE /\ exec' = [exec EXCEPT !.pc = "conflict", !.snap = Inflight(t)]
                        /\ UNCHANGED slot
    /\ UNCHANGED <<gh, mode, outage, rev, mon, operator, faults>>

NoConflict ==
    /\ up /\ exec.pc = "conflict"
    /\ StartCoroutine(exec.task)
    /\ UNCHANGED <<row, gh, mode, outage, rev, mon, operator, faults>>

\* Variant: the task in flight is made to wait for the claimed one.
Serialize_Swapped(u) ==
    /\ up /\ exec.pc = "conflict"
    /\ u \in exec.snap
    /\ row' = [row EXCEPT ![exec.task].status = "queued", ![u].dep = exec.task]
    /\ exec' = IdleExec
    /\ UNCHANGED <<gh, mode, outage, slot, rev, mon, operator, faults>>

\* The model's answer names a task of the list, or is replaced by one of it.
Serialize(u) ==
    /\ up /\ exec.pc = "conflict"
    /\ u \in exec.snap
    /\ row' = [row EXCEPT ![exec.task].status = "queued", ![exec.task].dep = u]
    /\ exec' = IdleExec
    /\ UNCHANGED <<gh, mode, outage, slot, rev, mon, operator, faults>>

\* check_task_conflict cannot spawn its process: the exception passes through
\* try_claim_and_dispatch to the loop, which logs it and forgets the task.
\* Bound: drawn from faults.
ConflictCheckRaises ==
    /\ up /\ exec.pc = "conflict"
    /\ faults > 0
    /\ faults' = faults - 1
    /\ exec' = IdleExec
    /\ adrift' = [adrift EXCEPT !.check = @ \union {exec.task}]
    /\ UNCHANGED <<row, gh, mode, up, crashes, slot, rev, mon, operator>>

ExecutorStep ==
    \/ PollQueue \/ NothingToClaim \/ TripBreaker \/ ReturnTripped \/ Vet \/ NoConflict
    \/ ConflictCheckRaises
    \/ \E t \in Tasks : Claim(t)
    \/ \E u \in Tasks : Serialize(u)
=============================================================================
