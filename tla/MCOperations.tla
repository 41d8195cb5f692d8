---------------------------- MODULE MCOperations ----------------------------
(* Values of the constants of Operations for TLC.                          *)
EXTENDS Operations, TLC

Plain(issues, rows) ==
    [modes |-> {"full-auto"}, issues |-> issues, rows |-> rows, prs |-> 0,
     kinds |-> {}, commands |-> 0, edits |-> 0, outages |-> 0,
     ends |-> SUBSET Processes, labels |-> 0]

Gated == {"full-auto", "review-all"}

\* Every pair of commands on one task; a command and an outage of any processes;
\* a task that is cancelled while another waits for it, with the command killed;
\* one that is cancelled and queued again beside its successor; an outage of the
\* daemon with two tasks; an issue that is labelled again, with a label edit that
\* fails; a manual task.
MCScenarios ==
    {[Plain(1, 1) EXCEPT !.prs = 1, !.kinds = AllKinds \ {"create"}, !.commands = 2],
     [Plain(1, 1) EXCEPT !.modes = Gated, !.prs = 1, !.kinds = AllKinds \ {"create"},
                         !.commands = 1, !.outages = 1],
     [Plain(2, 2) EXCEPT !.kinds = {"cancel"}, !.commands = 1, !.outages = 1,
                         !.ends = {{"command"}}],
     [Plain(1, 2) EXCEPT !.kinds = {"cancel", "requeue"}, !.commands = 2],
     [Plain(2, 2) EXCEPT !.modes = Gated, !.outages = 1, !.ends = {{"daemon"}}],
     [Plain(1, 2) EXCEPT !.modes = Gated, !.edits = 1, !.labels = 1],
     [Plain(1, 2) EXCEPT !.prs = 1, !.kinds = {"create"}, !.commands = 1]}

\* The issue of relabel_ignored.
MCRelabelled == {[Plain(1, 1) EXCEPT !.labels = 1]}

\* Bound: where the command may be killed, the second task waits for the first,
\* so that there is a cascade to lose.
MCWaiting == left.ends = {{"command"}} => row[2].status = "none" \/ row[2].dep = 1

MCSymmetry == Permutations(Issues)
=============================================================================
