------------------------------ MODULE CIStatus ------------------------------
(***************************************************************************)
(* get_pr_ci_status (github_pr.py): what the monitor is told about the     *)
(* checks of a pull request, "gh pr view --json statusCheckRollup".  The   *)
(* rollup has two kinds of entries: check runs, with a status and, once    *)
(* completed, a conclusion; and commit statuses of the older interface     *)
(* (StatusContext), which have a state only.                               *)
(***************************************************************************)
EXTENDS TLAPS

Bad       == {"FAILURE", "TIMED_OUT", "CANCELLED", "ACTION_REQUIRED"}
Good      == {"SUCCESS", "NEUTRAL", "SKIPPED"}
Uncommon  == {"STALE", "STARTUP_FAILURE"}    \* conclusions the code does not name
Statuses  == {"QUEUED", "IN_PROGRESS", "WAITING", "COMPLETED"}
States    == {"SUCCESS", "FAILURE", "ERROR", "PENDING", "EXPECTED"}

\* ignored: the name is that of a bot (_is_ignored_check).  A field the entry
\* does not have is read as "".
CheckRun == [ignored: BOOLEAN, kind: {"CheckRun"}, status: Statuses,
             conclusion: Good \cup Bad \cup Uncommon \cup {""}, state: {""}]
StatusContext == [ignored: BOOLEAN, kind: {"StatusContext"}, status: {""},
                  conclusion: {""}, state: States]

\* A check run has a conclusion from the moment it is completed.
Check == {c \in CheckRun : c.conclusion = "" <=> c.status # "COMPLETED"}
           \cup StatusContext

\* What an entry says, in GitHub's terms.
Running(c) == \/ c.kind = "CheckRun" /\ c.status # "COMPLETED"
              \/ c.kind = "StatusContext" /\ c.state \in {"PENDING", "EXPECTED"}
Red(c)     == \/ c.kind = "CheckRun" /\ c.conclusion \in Bad \cup Uncommon
              \/ c.kind = "StatusContext" /\ c.state \in {"FAILURE", "ERROR"}

-----------------------------------------------------------------------------
\* The entries the code looks at.
Considered(rollup) == {c \in rollup : ~c.ignored}

\* The branches of the loop, in their order.
CountsFailed(c) ==
    \/ c.conclusion \in Bad
    \/ /\ c.conclusion \notin Good \cup Bad
       /\ IF c.status = "COMPLETED" THEN c.conclusion # ""
          ELSE c.kind = "StatusContext" /\ c.state \in {"FAILURE", "ERROR"}

CountsCompleted(c) ==
    \/ c.conclusion \in Good \cup Bad
    \/ c.status = "COMPLETED"
    \/ c.kind = "StatusContext" /\ c.state \in {"SUCCESS", "NEUTRAL", "FAILURE", "ERROR"}

\* An error of gh, or an answer that cannot be parsed, is "pending".
CIState(answered, rollup) ==
    IF ~answered THEN "pending"
    ELSE IF Considered(rollup) = {} THEN "no_checks"
    ELSE IF \E c \in Considered(rollup) : ~CountsCompleted(c) THEN "pending"
    ELSE IF \E c \in Considered(rollup) : CountsFailed(c) THEN "failure"
    ELSE "success"

\* monitor_ci: the answers that it takes for a pass.
Passes(mode, ci) == ci = "success" \/ (ci = "no_checks" /\ mode = "full-auto")

-----------------------------------------------------------------------------
\* The loop's bookkeeping agrees with GitHub's meaning, entry by entry.
LEMMA CountsAgree ==
    ASSUME NEW c \in Check
    PROVE  /\ CountsCompleted(c) <=> ~Running(c)
           /\ CountsFailed(c) <=> Red(c)
<1>1. CASE c \in CheckRun
  <2>1. /\ c.kind = "CheckRun" /\ c.status \in Statuses
        /\ c.conclusion \in Good \cup Bad \cup Uncommon \cup {""}
    BY <1>1 DEF CheckRun
  <2>2. c.conclusion = "" <=> c.status # "COMPLETED"
    BY <2>1 DEF Check, StatusContext
  <2>3. CountsCompleted(c) <=> ~Running(c)
    BY <2>1, <2>2 DEF Statuses, Good, Bad, Uncommon, CountsCompleted, Running
  <2>4. CountsFailed(c) <=> Red(c)
    BY <2>1, <2>2 DEF Statuses, Good, Bad, Uncommon, CountsFailed, Red
  <2> QED
    BY <2>3, <2>4
<1>2. CASE c \in StatusContext
    BY <1>2 DEF StatusContext, States, Good, Bad, Uncommon, CountsCompleted,
                CountsFailed, Running, Red
<1> QED
    BY <1>1, <1>2 DEF Check

\* A pull request passes CI, and goes on to the merge or to its gate, only with
\* an answer from GitHub in which every check that is not a bot's has finished
\* and none is red; and, except in full-auto, only when there is one.  In
\* full-auto an answer with no check in it is enough (_handle_no_checks), whether
\* the repository has none or GitHub has not yet registered them.
THEOREM PassedIsGreen ==
    ASSUME NEW mode, NEW rollup \in SUBSET Check, NEW answered \in BOOLEAN,
           Passes(mode, CIState(answered, rollup))
    PROVE  /\ answered
           /\ \A c \in rollup : ~c.ignored => ~Running(c) /\ ~Red(c)
           /\ (\A c \in rollup : c.ignored) => mode = "full-auto"
<1>1. /\ answered
      /\ \A c \in Considered(rollup) : CountsCompleted(c) /\ ~CountsFailed(c)
    BY DEF CIState, Passes
<1>2. \A c \in Considered(rollup) : c \in Check
    BY DEF Considered
<1>3. \A c \in rollup : ~c.ignored => ~Running(c) /\ ~Red(c)
    BY <1>1, <1>2, CountsAgree DEF Considered
<1>4. (\A c \in rollup : c.ignored) => mode = "full-auto"
    BY DEF CIState, Passes, Considered
<1> QED
    BY <1>1, <1>3, <1>4

\* A retry of the agent is asked for (and counted) only when every check has
\* finished and one of them is red: never because GitHub did not answer, and
\* never while a check is running that may still turn red.
THEOREM FailureIsFinal ==
    ASSUME NEW rollup \in SUBSET Check, NEW answered \in BOOLEAN,
           CIState(answered, rollup) = "failure"
    PROVE  /\ answered
           /\ \E c \in rollup : ~c.ignored /\ Red(c)
           /\ \A c \in rollup : ~c.ignored => ~Running(c)
<1>1. /\ answered
      /\ \A c \in Considered(rollup) : CountsCompleted(c)
      /\ \E c \in Considered(rollup) : CountsFailed(c)
    BY DEF CIState
<1>2. \A c \in Considered(rollup) : c \in Check
    BY DEF Considered
<1> QED
    BY <1>1, <1>2, CountsAgree DEF Considered

\* A finished rollup does not keep the monitor waiting: "pending" is GitHub's
\* silence or a check that runs.  (A commit status that is EXPECTED and never
\* reported keeps its task waiting for ever.)
THEOREM PendingIsRunning ==
    ASSUME NEW rollup \in SUBSET Check, NEW answered \in BOOLEAN,
           CIState(answered, rollup) = "pending"
    PROVE  ~answered \/ \E c \in rollup : ~c.ignored /\ Running(c)
<1>1. \/ ~answered
      \/ \E c \in Considered(rollup) : ~CountsCompleted(c)
    BY DEF CIState
<1>2. \A c \in Considered(rollup) : c \in Check
    BY DEF Considered
<1> QED
    BY <1>1, <1>2, CountsAgree DEF Considered
=============================================================================
