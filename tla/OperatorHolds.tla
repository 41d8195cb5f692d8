--------------------------- MODULE OperatorHolds ----------------------------
(***************************************************************************)
(* The operator's commands on holds and on the queue: approve, hold,       *)
(* release, pause, resume.  Each is a process of its own: it reads the     *)
(* row, decides, and writes later, while the daemon goes on, or is down.   *)
(***************************************************************************)
EXTENDS TaskTable

OnlyOperator == UNCHANGED <<mode, outage, exec, slot, rev, mon, faults>>

Accepts(op, r) ==
    CASE op = "approve" -> r.hold # "none"
      [] op = "hold"    -> r.status \notin Terminal
      [] op = "release" -> r.hold = "user_hold"

ReadTask(op, t) ==
    /\ cmd = NoCmd
    /\ op \in Commands \ {"pause", "resume"}
    /\ Accepts(op, row[t])
    /\ cmd' = [op |-> op, task |-> t]
    /\ OnlyOperator /\ UNCHANGED <<row, gh, paused>>

SetHold ==
    /\ cmd.op = "hold"
    /\ row' = [row EXCEPT ![cmd.task].hold = "user_hold"]
    /\ cmd' = NoCmd
    /\ OnlyOperator /\ UNCHANGED <<gh, paused>>

ClearHold ==
    LET t == cmd.task IN
    /\ cmd.op \in {"approve", "release"}
    /\ row' = [row EXCEPT ![t].hold = "none"]
    /\ gh' = [gh EXCEPT ![t].consent = IF cmd.op = "approve" THEN TRUE ELSE @]
    /\ cmd' = NoCmd
    /\ OnlyOperator /\ UNCHANGED paused

SetPaused ==
    /\ \/ "pause" \in Commands /\ ~paused
       \/ "resume" \in Commands /\ paused
    /\ paused' = ~paused
    /\ OnlyOperator /\ UNCHANGED <<row, gh, cmd>>

OperatorStep ==
    \/ SetHold \/ ClearHold \/ SetPaused
    \/ \E t \in Tasks, op \in {"approve", "hold", "release"} : ReadTask(op, t)
=============================================================================
