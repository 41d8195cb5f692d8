----------------------------- MODULE Artifacts ------------------------------
(***************************************************************************)
(* The removal of worktrees: by the loop that ended a task, by the cleanup *)
(* loop (cleanup_terminal_tasks), and by "backporcher cleanup".  All three *)
(* go by the row they have read, and clear its path when they are done.    *)
(***************************************************************************)
EXTENDS Ledger

OnlyTrees == UNCHANGED <<issue, falling, poll, op, up, mode, denied>>

\* Variant: the status is not looked at.
SweepCleanup_Any(t) ==
    /\ up /\ row[t].named
    /\ hands[t] = {}
    /\ PassOn(t, "none", {"clean"})
    /\ single' = [single EXCEPT !.drives = @ \ {t}]
    /\ OnlyTrees /\ UNCHANGED <<row, tree, note, left>>

\* list_cleanable_tasks: the row is on the list of the cleanup loop.  It
\* must have ended some time ago: who ended it is through with it by then.
Cleanable(t) == row[t].status \in Terminal /\ row[t].named /\ row[t].stamped
SweepCleanup(t) ==
    /\ up /\ Followed(t) /\ Cleanable(t)
    /\ hands[t] = {}
    /\ PassOn(t, "none", {"clean"})
    /\ single' = [single EXCEPT !.drives = @ \ {t}]
    /\ OnlyTrees /\ UNCHANGED <<row, tree, note, left>>

\* cmd_cleanup: with a task id, whatever its status; without, every task that
\* is reviewed, ci_passed or terminal and has a path.
CommandCleanup(t) ==
    /\ "cleanup" \in left.kinds
    /\ left.commands > 0
    /\ Followed(t) /\ row[t].status # "none" /\ row[t].named
    /\ "clean" \notin hands[t]
    /\ PassOn(t, "none", {"clean"})
    /\ note' = [note EXCEPT !.swept = @ \cup {t}]
    /\ left' = [left EXCEPT !.commands = @ - 1]
    /\ OnlyTrees /\ UNCHANGED <<row, single, tree>>

\* Variant: without --force and rmtree a worktree with changes stays.
RemoveTree_Gently(t) ==
    /\ "clean" \in hands[t] /\ {"unlabel", "close"} \cap hands[t] = {}
    /\ tree' \in {tree, tree \ {t}}
    /\ PassOn(t, "clean", {"forget"})
    /\ OnlyTrees /\ UNCHANGED <<row, single, note, left>>

\* git worktree remove --force, or rmtree
RemoveTree(t) ==
    /\ "clean" \in hands[t] /\ {"unlabel", "close"} \cap hands[t] = {}
    /\ tree' = tree \ {t}
    /\ PassOn(t, "clean", {"forget"})
    /\ OnlyTrees /\ UNCHANGED <<row, single, note, left>>

\* Left out: a command that finds neither worktree nor branch leaves the path.
Forget(t) ==
    /\ "forget" \in hands[t]
    /\ row' = [row EXCEPT ![t].named = FALSE]
    /\ PassOn(t, "forget", {})
    /\ OnlyTrees /\ UNCHANGED <<single, tree, note, left>>

ArtifactStep ==
    \E t \in Tasks :
        SweepCleanup(t) \/ CommandCleanup(t) \/ RemoveTree(t) \/ Forget(t)
=============================================================================
