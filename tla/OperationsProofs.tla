-------------------------- MODULE OperationsProofs --------------------------
(***************************************************************************)
(* The dispatch gate of review-all holds, for any number of issues, tasks, *)
(* commands and outages.                                                   *)
(*                                                                         *)
(* The gate is a flag that the poller sets after it has created the task.  *)
(* GateInv says what becomes of a task of an issue that has the flag       *)
(* cleared (it is being entered by the poller, or somebody let it          *)
(* through), and that no loop and no command has a task in hand that was   *)
(* not let through: every writer goes by such a copy.                      *)
(***************************************************************************)
EXTENDS Operations, TLAPS

(* Types.                                                                  *)

LEMMA RowFields ==
    ASSUME NEW r \in Row
    PROVE  /\ \A s \in Status : [r EXCEPT !.status = s] \in Row
           /\ \A b \in BOOLEAN : [r EXCEPT !.held = b] \in Row
           /\ \A b \in BOOLEAN : [r EXCEPT !.named = b] \in Row
           /\ \A b \in BOOLEAN : [r EXCEPT !.pr = b] \in Row
           /\ \A b \in BOOLEAN : [r EXCEPT !.pid = b] \in Row
           /\ \A b \in BOOLEAN : [r EXCEPT !.stamped = b] \in Row
           /\ Afresh(r) \in Row
<1>1. ASSUME NEW s \in Status PROVE [r EXCEPT !.status = s] \in Row
    BY <1>1 DEF Row
<1>2. ASSUME NEW b \in BOOLEAN PROVE [r EXCEPT !.held = b] \in Row
    BY <1>2 DEF Row
<1>3. ASSUME NEW b \in BOOLEAN PROVE [r EXCEPT !.named = b] \in Row
    BY <1>3 DEF Row
<1>4. ASSUME NEW b \in BOOLEAN PROVE [r EXCEPT !.pr = b] \in Row
    BY <1>4 DEF Row
<1>5. ASSUME NEW b \in BOOLEAN PROVE [r EXCEPT !.pid = b] \in Row
    BY <1>5 DEF Row
<1>6. ASSUME NEW b \in BOOLEAN PROVE [r EXCEPT !.stamped = b] \in Row
    BY <1>6 DEF Row
<1>7. Afresh(r) \in Row
    BY DEF Afresh, Row, Status
<1> QED
    BY <1>1, <1>2, <1>3, <1>4, <1>5, <1>6, <1>7

LEMMA RowPut ==
    ASSUME row \in [Tasks -> Row], NEW t \in Tasks, NEW r \in Row,
           row' = [row EXCEPT ![t] = r]
    PROVE  row' \in [Tasks -> Row]
    OBVIOUS

LEMMA NewRowTyped ==
    ASSUME NEW i \in Issues \cup {NoIssue}, NEW d \in 0..NumTasks
    PROVE  NewRow(i, d) \in Row
    BY DEF NewRow, Row, Status

LEMMA CascadeTyped ==
    ASSUME row \in [Tasks -> Row], NEW u \in Tasks, CascadeFrom(u)
    PROVE  row' \in [Tasks -> Row]
<1>1. "failed" \in Status
    BY DEF Status
<1>2. \A t \in Tasks :
        row[t] \in Row /\ [row[t] EXCEPT !.status = "failed", !.stamped = TRUE] \in Row
    BY <1>1 DEF Row
<1> QED
    BY <1>2 DEF CascadeFrom

LEMMA HandsTyped ==
    ASSUME hands \in [Tasks -> SUBSET Hands], NEW t \in Tasks, NEW from,
           NEW to \in SUBSET Hands, PassOn(t, from, to)
    PROVE  hands' \in [Tasks -> SUBSET Hands]
    BY DEF PassOn

LEMMA EditTyped ==
    ASSUME issue \in [Issues -> Issue], left \in Scenario,
           NEW i \in Issues \cup {NoIssue}, NEW after,
           i # NoIssue => after \in Issue, EditLabels(i, after)
    PROVE  issue' \in [Issues -> Issue] /\ left' \in Scenario
<1>1. issue' \in [Issues -> Issue]
    BY DEF EditLabels
<1>2. left' \in Scenario
    BY DEF EditLabels, Scenario
<1> QED
    BY <1>1, <1>2

LEMMA LeftTyped ==
    ASSUME left \in Scenario
    PROVE  /\ left.commands > 0 => [left EXCEPT !.commands = @ - 1] \in Scenario
           /\ left.prs > 0 => [left EXCEPT !.prs = @ - 1] \in Scenario
           /\ left.outages > 0 => [left EXCEPT !.outages = @ - 1] \in Scenario
           /\ left.labels > 0 => [left EXCEPT !.labels = @ - 1] \in Scenario
    BY DEF Scenario

LEMMA IssueFields ==
    ASSUME NEW r \in Issue
    PROVE  /\ [r EXCEPT !.todo = FALSE, !.progress = TRUE] \in Issue
           /\ [r EXCEPT !.todo = TRUE, !.progress = FALSE] \in Issue
           /\ [r EXCEPT !.progress = FALSE] \in Issue
           /\ [r EXCEPT !.progress = FALSE, !.open = FALSE] \in Issue
           /\ [r EXCEPT !.todo = TRUE] \in Issue
    BY DEF Issue

\* The task of a command, and of the poller, is one.
InHand == /\ op.pc # "idle" => op.task \in Tasks
          /\ poll.pc \in {"claim", "gate"} => poll.task \in Tasks

TypeInv == TypeOK /\ InHand

LEMMA TasksAre ==
    /\ NoTask \notin Tasks /\ Tasks \subseteq 0..NumTasks /\ NoTask \in 0..NumTasks
    /\ NumTasks \in Nat
    BY LedgerAssumption DEF Tasks, NoTask

LEMMA Constants ==
    /\ {"none", "queued", "working", "pr_created", "reviewing", "reviewed", "ci_passed",
        "retrying", "completed", "failed", "cancelled"} \subseteq Status
    /\ {"setup", "agent", "listed", "reviewing", "reviewed", "ci_passed", "retrying",
        "unlabel", "close", "clean", "forget"} \subseteq Hands
    /\ IdleOp \in Operator /\ IdlePoll \in Poller
    /\ IdleOp.pc = "idle" /\ IdlePoll.pc = "idle"
<1>1. IdleOp \in Operator
    BY TasksAre DEF IdleOp, Operator, Status
<1>2. IdlePoll \in Poller
    BY TasksAre DEF IdlePoll, Poller
<1> QED
    BY <1>1, <1>2 DEF Status, Hands, IdleOp, IdlePoll

LEMMA NoteFields ==
    ASSUME NEW n \in Notes, NEW S \in SUBSET Tasks, NEW I \in SUBSET Issues
    PROVE  /\ [n EXCEPT !.disputed = S] \in Notes
           /\ [n EXCEPT !.revived = S] \in Notes
           /\ [n EXCEPT !.consent = S] \in Notes
           /\ [n EXCEPT !.ungated = S] \in Notes
           /\ [n EXCEPT !.late = S] \in Notes
           /\ [n EXCEPT !.unheard = S] \in Notes
           /\ [n EXCEPT !.leaked = S] \in Notes
           /\ [n EXCEPT !.swept = S] \in Notes
           /\ [n EXCEPT !.twice = I] \in Notes
           /\ [n EXCEPT !.relabelled = I] \in Notes
    BY DEF Notes

-----------------------------------------------------------------------------
LEMMA InitTyped ==
    ASSUME Init
    PROVE  TypeInv
<1>1. row \in [Tasks -> Row]
    <2>1. NewRow(NoIssue, NoTask) \in Row
        BY NewRowTyped, TasksAre
    <2>2. [NewRow(NoIssue, NoTask) EXCEPT !.status = "none"] \in Row
        BY <2>1, RowFields, Constants
    <2> QED
        BY <2>2 DEF Init
<1>2. issue \in [Issues -> Issue]
    BY DEF Init, Issue
<1>3. hands \in [Tasks -> SUBSET Hands] /\ falling \in SUBSET Tasks /\ tree \in SUBSET Tasks
    BY DEF Init
<1>4. poll \in Poller /\ op \in Operator /\ InHand /\ single \in Single /\ up \in BOOLEAN
    BY Constants DEF Init, InHand, Single
<1>5. left \in Scenario /\ mode \in Modes /\ denied \in BOOLEAN
    BY LedgerAssumption DEF Init, Scenario
<1>6. note \in Notes
    BY DEF Init, Notes
<1> QED
    BY <1>1, <1>2, <1>3, <1>4, <1>5, <1>6 DEF TypeInv, TypeOK

\* What the actors have in common: all but the rows and one or two others stays.
LEMMA IntakeTyped ==
    ASSUME TypeInv, PollerStep
    PROVE  TypeInv'
<1>0. /\ row \in [Tasks -> Row] /\ issue \in [Issues -> Issue]
      /\ poll \in Poller /\ note \in Notes /\ left \in Scenario
      /\ poll.todo \in SUBSET Issues /\ poll.plan \in SUBSET Issues
      /\ poll.made \in SUBSET Tasks
    BY DEF TypeInv, TypeOK, Poller
<1> SUFFICES /\ row' \in [Tasks -> Row] /\ issue' \in [Issues -> Issue]
             /\ poll' \in Poller /\ note' \in Notes /\ left' \in Scenario
             /\ poll'.pc \in {"claim", "gate"} => poll'.task \in Tasks
    <2>1. UNCHANGED <<hands, falling, single, tree, op, up, mode, denied>>
        BY DEF PollerStep, Poll, CreateFromIssue, ClaimIssue, SetGate, PollDone, OnlyPoller
    <2> QED
        BY <2>1 DEF TypeInv, TypeOK, InHand
<1> DEFINE Typed == /\ row' \in [Tasks -> Row] /\ issue' \in [Issues -> Issue]
                    /\ poll' \in Poller /\ note' \in Notes /\ left' \in Scenario
                    /\ poll'.pc \in {"claim", "gate"} => poll'.task \in Tasks
<1>1. CASE Poll
    <2>1. UNCHANGED <<row, issue, note, left>>
        BY <1>1 DEF Poll, Plans
    <2>2. PICK new \in SUBSET Issues, plan \in SUBSET Issues :
            poll' = [IdlePoll EXCEPT !.pc = "create", !.todo = new, !.plan = plan]
        BY <1>1 DEF Poll, Plans
    <2>3. poll' \in Poller /\ poll'.pc = "create"
        BY <2>2, Constants DEF Poller
    <2> QED
        BY <1>0, <2>1, <2>3
<1>2. ASSUME NEW i \in Issues, CreateFromIssue(i) PROVE Typed
    <2>1. UNCHANGED <<issue, left>>
        BY <1>2 DEF CreateFromIssue
    <2>2. PICK t \in Tasks, d \in poll.made \cup {NoTask} :
        /\ row' = [row EXCEPT ![t] = NewRow(i, d)]
        /\ poll' = [poll EXCEPT !.pc = "claim", !.todo = @ \ {i}, !.task = t,
                                !.made = IF poll.plan = {} THEN {} ELSE @ \cup {t}]
        /\ note' = [note EXCEPT
             !.twice = IF i \in poll.todo THEN @ ELSE @ \cup {i},
             !.late  = IF d # NoTask /\ row[d].status \in Dead THEN @ \cup {t} ELSE @]
        BY <1>2 DEF CreateFromIssue
    <2>3. row' \in [Tasks -> Row]
        BY <1>0, <2>2, NewRowTyped, RowPut, TasksAre
    <2>4. poll' \in Poller /\ poll'.task = t
        <3>1. t \in 0..NumTasks
            BY TasksAre
        <3> QED
            BY <1>0, <2>2, <3>1 DEF Poller
    <2>5. note' \in Notes
        BY <1>0, <2>2 DEF Notes
    <2> QED
        BY <1>0, <2>1, <2>3, <2>4, <2>5
<1>3. CASE ClaimIssue
    <2> DEFINE i == row[poll.task].issue
    <2>1. poll.task \in Tasks
        BY <1>3 DEF ClaimIssue, TypeInv, InHand
    <2>2. i \in Issues \cup {NoIssue}
        BY <1>0, <2>1 DEF Row
    <2>3. issue' \in [Issues -> Issue] /\ left' \in Scenario
        <3>1. i # NoIssue => [issue[i] EXCEPT !.todo = FALSE, !.progress = TRUE] \in Issue
            BY <1>0, <2>2, IssueFields
        <3>2. EditLabels(i, [issue[i] EXCEPT !.todo = FALSE, !.progress = TRUE])
            BY <1>3 DEF ClaimIssue
        <3> HIDE DEF i
        <3> QED
            BY <1>0, <2>2, <3>1, <3>2, EditTyped
    <2>4. poll' \in Poller /\ poll'.task = poll.task
        BY <1>0, <1>3 DEF ClaimIssue, Poller
    <2> QED
        BY <1>0, <1>3, <2>1, <2>3, <2>4 DEF ClaimIssue
<1>4. CASE SetGate
    <2>1. poll.task \in Tasks /\ UNCHANGED <<issue, note, left>>
        BY <1>4 DEF SetGate, TypeInv, InHand
    <2>2. row' \in [Tasks -> Row]
        <3>1. row' = [row EXCEPT ![poll.task] = [row[poll.task] EXCEPT !.held = TRUE]]
            BY <1>4 DEF SetGate
        <3> QED
            BY <1>0, <2>1, <3>1, RowFields
    <2>3. poll' \in Poller /\ poll'.pc = "create"
        BY <1>0, <1>4 DEF SetGate, Poller
    <2> QED
        BY <1>0, <2>1, <2>2, <2>3
<1>5. CASE PollDone
    BY <1>0, <1>5, Constants DEF PollDone
<1> QED
    BY <1>1, <1>2, <1>3, <1>4, <1>5 DEF PollerStep

LEMMA ArtifactsTyped ==
    ASSUME TypeInv, ArtifactStep
    PROVE  TypeInv'
<1>0. /\ row \in [Tasks -> Row] /\ hands \in [Tasks -> SUBSET Hands]
      /\ tree \in SUBSET Tasks /\ note \in Notes /\ left \in Scenario /\ single \in Single
    BY DEF TypeInv, TypeOK
<1> SUFFICES /\ row' \in [Tasks -> Row] /\ hands' \in [Tasks -> SUBSET Hands]
             /\ tree' \in SUBSET Tasks /\ note' \in Notes /\ left' \in Scenario
             /\ single' \in Single
    <2>1. UNCHANGED <<issue, falling, poll, op, up, mode, denied>>
        BY DEF ArtifactStep, SweepCleanup, CommandCleanup, RemoveTree, Forget, OnlyTrees
    <2> QED
        BY <2>1 DEF TypeInv, TypeOK, InHand
<1>1. PICK t \in Tasks : SweepCleanup(t) \/ CommandCleanup(t) \/ RemoveTree(t) \/ Forget(t)
    BY DEF ArtifactStep
<1>2. hands' \in [Tasks -> SUBSET Hands]
    BY <1>0, <1>1, HandsTyped, Constants DEF SweepCleanup, CommandCleanup, RemoveTree, Forget
<1>3. row' \in [Tasks -> Row]
    <2>1. CASE Forget(t)
        <3>1. row' = [row EXCEPT ![t] = [row[t] EXCEPT !.named = FALSE]]
            BY <2>1 DEF Forget
        <3> QED
            BY <1>0, <3>1, RowFields
    <2>2. CASE row' = row
        BY <1>0, <2>2
    <2> QED
        BY <1>1, <2>1, <2>2 DEF SweepCleanup, CommandCleanup, RemoveTree
<1>4. note' \in Notes
    BY <1>0, <1>1, NoteFields DEF SweepCleanup, CommandCleanup, RemoveTree, Forget, Notes
<1>5. left' \in Scenario
    BY <1>0, <1>1, LeftTyped DEF SweepCleanup, CommandCleanup, RemoveTree, Forget
<1>6. tree' \in SUBSET Tasks /\ single' \in Single
    BY <1>0, <1>1 DEF SweepCleanup, CommandCleanup, RemoveTree, Forget, Single
<1> QED
    BY <1>2, <1>3, <1>4, <1>5, <1>6

LEMMA NotingTyped ==
    ASSUME NEW t \in Tasks, NEW extra \in Notes, note \in Notes, Noting(t, extra)
    PROVE  note' \in Notes
<1>1. (IF Disputed(t) THEN extra.disputed \cup {t} ELSE extra.disputed) \in SUBSET Tasks
    BY DEF Notes
<1> QED
    BY <1>1, NoteFields DEF Noting

LEMMA OperatorTyped ==
    ASSUME TypeInv, OperatorStep
    PROVE  TypeInv'
<1>0. /\ row \in [Tasks -> Row] /\ issue \in [Issues -> Issue]
      /\ hands \in [Tasks -> SUBSET Hands] /\ falling \in SUBSET Tasks
      /\ tree \in SUBSET Tasks /\ op \in Operator /\ note \in Notes /\ left \in Scenario
      /\ op.fell \in SUBSET Tasks /\ single \in Single
      /\ op.pc # "idle" => op.task \in Tasks
    BY DEF TypeInv, TypeOK, Operator, InHand
<1> DEFINE Typed == /\ row' \in [Tasks -> Row] /\ issue' \in [Issues -> Issue]
                    /\ hands' \in [Tasks -> SUBSET Hands] /\ falling' \in SUBSET Tasks
                    /\ tree' \in SUBSET Tasks /\ op' \in Operator
                    /\ note' \in Notes /\ left' \in Scenario
                    /\ op'.pc # "idle" => op'.task \in Tasks
                    /\ single' \in Single
<1> SUFFICES Typed
    <2>1. UNCHANGED <<poll, up, mode, denied>>
        BY DEF OperatorStep, ReadTask, SignalAgent, WriteCancelled, CascadeCancelled,
            RestoreLabels, WriteQueued, ResetFailed, WriteDispatched, WriteApproved,
            CreateManually, OnlyOperator
    <2> QED
        BY <2>1 DEF TypeInv, TypeOK, InHand
<1>1. ASSUME NEW kind \in AllKinds, NEW t \in Tasks, ReadTask(kind, t) PROVE Typed
    <2>1. UNCHANGED <<row, issue, hands, falling, single, tree, note>>
        BY <1>1 DEF ReadTask
    <2>2. left' \in Scenario
        BY <1>0, <1>1, LeftTyped DEF ReadTask
    <2>3. FirstStep(kind, row[t].status) \in {"kill", "reset", "write"}
        BY DEF FirstStep
    <2>4. row[t].status \in Status /\ t \in 0..NumTasks
        BY <1>0, TasksAre DEF Row
    <2>5. op' = [IdleOp EXCEPT !.pc = FirstStep(kind, row[t].status), !.kind = kind,
                               !.task = t, !.seen = row[t].status]
        BY <1>1 DEF ReadTask
    <2>6. op' \in Operator /\ op'.task = t
        BY <2>3, <2>4, <2>5, Constants DEF Operator
    <2> QED
        BY <1>0, <2>1, <2>2, <2>6
<1>2. CASE SignalAgent
    <2>1. op' \in Operator /\ (op'.pc # "idle" => op'.task \in Tasks)
        BY <1>0, <1>2, Constants DEF SignalAgent, Operator
    <2> QED
        BY <1>0, <1>2, <2>1 DEF SignalAgent
<1>3. CASE WriteCancelled
    <2> DEFINE t == op.task
    <2>1. t \in Tasks /\ UNCHANGED <<issue, hands, falling, single, tree, left>>
        BY <1>0, <1>3 DEF WriteCancelled
    <2>2. row' \in [Tasks -> Row]
        <3> DEFINE h == op.kind = "cancel" /\ row[t].held
                   r == [[[row[t] EXCEPT !.status = "cancelled"] EXCEPT !.stamped = TRUE]
                           EXCEPT !.held = h]
        <3>1. row' = [row EXCEPT ![t] = r]
            BY <1>0, <1>3, <2>1 DEF WriteCancelled, Row
        <3>2. h \in BOOLEAN
            OBVIOUS
        <3> HIDE DEF h
        <3>3. [row[t] EXCEPT !.status = "cancelled"] \in Row
            BY <1>0, <2>1, RowFields, Constants
        <3>4. [[row[t] EXCEPT !.status = "cancelled"] EXCEPT !.stamped = TRUE] \in Row
            BY <3>3, RowFields
        <3>5. r \in Row
            BY <3>2, <3>4, RowFields
        <3> HIDE DEF r
        <3> QED
            BY <1>0, <2>1, <3>1, <3>5
    <2>3. op' \in Operator /\ op'.task = t
        BY <1>0, <1>3, <2>1 DEF WriteCancelled, Operator
    <2>4. note' \in Notes
        <3>1. PICK S \in SUBSET Tasks : Noting(t, [note EXCEPT !.leaked = S])
            <4> DEFINE S == IF row[t].named THEN note.leaked ELSE note.leaked \cup ({t} \cap tree)
            <4>1. S \in SUBSET Tasks
                BY <1>0 DEF Notes
            <4>2. Noting(t, [note EXCEPT !.leaked = S])
                BY <1>3 DEF WriteCancelled
            <4> QED
                BY <4>1, <4>2
        <3> QED
            BY <1>0, <2>1, <3>1, NoteFields, NotingTyped
    <2> QED
        BY <1>0, <2>1, <2>2, <2>3, <2>4
<1>4. ASSUME NEW u \in Tasks, CascadeCancelled(u) PROVE Typed
    <2>1. UNCHANGED <<issue, hands, falling, single, tree, left>>
        BY <1>4 DEF CascadeCancelled
    <2>2. row' \in [Tasks -> Row]
        BY <1>0, <1>4, CascadeTyped DEF CascadeCancelled
    <2>3. Dependents(u) \in SUBSET Tasks
        BY DEF Dependents
    <2>4. note' \in Notes
        BY <1>0, <1>4, <2>3, NoteFields DEF CascadeCancelled, Leaking, Notes
    <2>5. op' \in Operator /\ op'.task = op.task
        BY <1>0, <1>4, <2>3 DEF CascadeCancelled, Operator
    <2>6. op.pc # "idle"
        BY <1>4 DEF CascadeCancelled
    <2> QED
        BY <1>0, <2>1, <2>2, <2>4, <2>5, <2>6
<1>5. CASE RestoreLabels
    <2> DEFINE i == row[op.task].issue
    <2>1. op.task \in Tasks /\ UNCHANGED <<row, hands, falling, single, tree, note>>
        BY <1>0, <1>5 DEF RestoreLabels
    <2>2. i \in Issues \cup {NoIssue}
        BY <1>0, <2>1 DEF Row
    <2>3. i # NoIssue => [issue[i] EXCEPT !.todo = TRUE, !.progress = FALSE] \in Issue
        BY <1>0, <2>2, IssueFields
    <2>4. EditLabels(i, [issue[i] EXCEPT !.todo = TRUE, !.progress = FALSE]) /\ op' = IdleOp
        BY <1>5 DEF RestoreLabels
    <2> HIDE DEF i
    <2>5. issue' \in [Issues -> Issue] /\ left' \in Scenario
        BY <1>0, <2>2, <2>3, <2>4, EditTyped
    <2> QED
        BY <1>0, <2>1, <2>4, <2>5, Constants
<1>6. CASE WriteQueued
    <2> DEFINE t == op.task
    <2>1. t \in Tasks /\ op' = IdleOp /\ UNCHANGED <<issue, hands, falling, single, tree, left>>
        BY <1>0, <1>6 DEF WriteQueued
    <2>2. row' \in [Tasks -> Row]
        <3> DEFINE h == op.kind = "edit" /\ row[t].held
                   p == op.kind = "edit" /\ row[t].pid
                   r == [Afresh(row[t]) EXCEPT !.held = h, !.pid = p, !.stamped = FALSE]
        <3>1. row' = [row EXCEPT ![t] = r]
            BY <1>6 DEF WriteQueued
        <3>2. Afresh(row[t]) \in Row /\ h \in BOOLEAN /\ p \in BOOLEAN
            BY <1>0, <2>1, RowFields
        <3> HIDE DEF h, p
        <3>3. r \in Row
            BY <3>2 DEF Row
        <3> HIDE DEF r
        <3> QED
            BY <1>0, <2>1, <3>1, <3>3
    <2>3. note' \in Notes
        <3> DEFINE R == IF op.seen \in {"completed", "cancelled"} THEN note.revived \cup {t}
                        ELSE note.revived
                   L == IF BehindDead(t) THEN note.late \cup {t} ELSE note.late
                   A == IF op.kind = "requeue" THEN note.consent \cup {t} ELSE note.consent
        <3>1. Noting(t, [note EXCEPT !.revived = R, !.late = L, !.consent = A])
            BY <1>6 DEF WriteQueued
        <3>2. R \in SUBSET Tasks /\ L \in SUBSET Tasks /\ A \in SUBSET Tasks
            BY <1>0, <2>1 DEF Notes
        <3> HIDE DEF R, L, A
        <3>3. [note EXCEPT !.revived = R, !.late = L, !.consent = A] \in Notes
            BY <1>0, <3>2 DEF Notes
        <3> QED
            BY <1>0, <2>1, <3>1, <3>3, NotingTyped
    <2> QED
        BY <1>0, <2>1, <2>2, <2>3, Constants
<1>7. CASE ResetFailed
    <2> DEFINE t == op.task
    <2>1. t \in Tasks /\ UNCHANGED <<issue, hands, falling, single, tree, left>>
        BY <1>0, <1>7 DEF ResetFailed
    <2>2. row' \in [Tasks -> Row]
        <3> DEFINE r == [Afresh(row[t]) EXCEPT !.held = FALSE, !.pid = FALSE, !.stamped = FALSE]
        <3>1. row' = [row EXCEPT ![t] = r]
            BY <1>7 DEF ResetFailed
        <3>2. Afresh(row[t]) \in Row
            BY <1>0, <2>1, RowFields
        <3>3. r \in Row
            BY <3>2 DEF Row
        <3> HIDE DEF r
        <3> QED
            BY <1>0, <2>1, <3>1, <3>3
    <2>3. note' \in Notes
        <3>1. PICK A \in SUBSET Tasks, L \in SUBSET Tasks :
                Noting(t, [note EXCEPT !.consent = A, !.late = L])
            BY <1>0, <1>7, <2>1 DEF ResetFailed, Notes
        <3>2. [note EXCEPT !.consent = A, !.late = L] \in Notes
            BY <1>0 DEF Notes
        <3> QED
            BY <1>0, <2>1, <3>1, <3>2, NotingTyped
    <2>4. op' \in Operator /\ op'.task = t
        BY <1>0, <1>7, Constants DEF ResetFailed, Operator
    <2> QED
        BY <1>0, <2>1, <2>2, <2>3, <2>4
<1>8. CASE WriteDispatched
    <2> DEFINE t == op.task
    <2>1. t \in Tasks /\ op' = IdleOp /\ UNCHANGED <<issue, falling, tree, left>>
        BY <1>0, <1>8 DEF WriteDispatched
    <2>5. single' \in Single
        BY <1>0, <1>8, <2>1 DEF WriteDispatched, Single
    <2>2. row' \in [Tasks -> Row]
        <3>1. row' = [row EXCEPT ![t].status = "working", ![t].held = FALSE]
            BY <1>8 DEF WriteDispatched
        <3>2. row' = [row EXCEPT ![t] = [[row[t] EXCEPT !.status = "working"]
                                           EXCEPT !.held = FALSE]]
            BY <1>0, <2>1, <3>1 DEF Row
        <3>3. [[row[t] EXCEPT !.status = "working"] EXCEPT !.held = FALSE] \in Row
            BY <1>0, <2>1, RowFields, Constants
        <3> QED
            BY <1>0, <2>1, <3>2, <3>3
    <2>3. hands' \in [Tasks -> SUBSET Hands]
        BY <1>0, <1>8, Constants DEF WriteDispatched
    <2>4. note' \in Notes
        <3>1. PICK A \in SUBSET Tasks, L \in SUBSET Tasks :
                Noting(t, [note EXCEPT !.consent = A, !.late = L])
            BY <1>0, <1>8, <2>1 DEF WriteDispatched, Notes
        <3>2. [note EXCEPT !.consent = A, !.late = L] \in Notes
            BY <1>0 DEF Notes
        <3> QED
            BY <1>0, <2>1, <3>1, <3>2, NotingTyped
    <2> QED
        BY <1>0, <2>1, <2>2, <2>3, <2>4, <2>5, Constants
<1>9. CASE WriteApproved
    <2>1. op.task \in Tasks /\ op' = IdleOp /\ UNCHANGED <<issue, hands, falling, single, tree, left>>
        BY <1>0, <1>9 DEF WriteApproved
    <2>2. row' = [row EXCEPT ![op.task] = [row[op.task] EXCEPT !.held = FALSE]]
        BY <1>9 DEF WriteApproved
    <2>3. row' \in [Tasks -> Row]
        BY <1>0, <2>1, <2>2, RowFields
    <2>4. note' \in Notes
        BY <1>0, <1>9, <2>1 DEF WriteApproved, Notes
    <2> QED
        BY <1>0, <2>1, <2>3, <2>4, Constants
<1>10. ASSUME NEW t \in Tasks, CreateManually(t) PROVE Typed
    <2>1. UNCHANGED <<issue, hands, falling, single, tree, op, note>>
        BY <1>10 DEF CreateManually
    <2>2. row' \in [Tasks -> Row]
        BY <1>0, <1>10, NewRowTyped, TasksAre DEF CreateManually
    <2>3. left' \in Scenario
        BY <1>0, <1>10, LeftTyped DEF CreateManually
    <2> QED
        BY <1>0, <2>1, <2>2, <2>3
<1> QED
    BY <1>1, <1>2, <1>3, <1>4, <1>5, <1>6, <1>7, <1>8, <1>9, <1>10 DEF OperatorStep

\* A loop writes a status over one row, and passes the task on.
LEMMA StatusTyped ==
    ASSUME row \in [Tasks -> Row], NEW t \in Tasks, NEW status \in Status,
           row' = [row EXCEPT ![t].status = status]
    PROVE  row' \in [Tasks -> Row]
<1>1. row' = [row EXCEPT ![t] = [row[t] EXCEPT !.status = status]]
    OBVIOUS
<1> QED
    BY <1>1, RowFields

\* ... and may say that the task has ended.
LEMMA StampTyped ==
    ASSUME row \in [Tasks -> Row], NEW t \in Tasks, NEW status \in Status,
           NEW stamp \in BOOLEAN,
           row' = [row EXCEPT ![t].status = status, ![t].stamped = stamp]
    PROVE  row' \in [Tasks -> Row]
<1>1. row' = [row EXCEPT ![t] = [[row[t] EXCEPT !.status = status] EXCEPT !.stamped = stamp]]
    BY DEF Row
<1>2. [row[t] EXCEPT !.status = status] \in Row
    BY RowFields
<1>3. [[row[t] EXCEPT !.status = status] EXCEPT !.stamped = stamp] \in Row
    BY <1>2, RowFields
<1> QED
    BY <1>1, <1>3

LEMMA PipelineTyped ==
    ASSUME TypeInv, PipelineStep
    PROVE  TypeInv'
<1>0. /\ row \in [Tasks -> Row] /\ issue \in [Issues -> Issue]
      /\ hands \in [Tasks -> SUBSET Hands] /\ falling \in SUBSET Tasks
      /\ tree \in SUBSET Tasks /\ note \in Notes /\ left \in Scenario
      /\ single \in Single
    BY DEF TypeInv, TypeOK
<1> DEFINE Typed == /\ row' \in [Tasks -> Row] /\ issue' \in [Issues -> Issue]
                    /\ hands' \in [Tasks -> SUBSET Hands] /\ falling' \in SUBSET Tasks
                    /\ tree' \in SUBSET Tasks /\ note' \in Notes /\ left' \in Scenario
                    /\ single' \in Single
<1> SUFFICES Typed
    <2>1. UNCHANGED <<poll, op, up, mode, denied>>
        BY DEF PipelineStep, Claim, SetUpTree, NoChanges, OpenPR, ListPending, ListChecked,
            Proceed, Advance, CascadeFailed, CascadeSingle, Unlabel, CloseIssue, Again, GiveUp, PutBack,
            OnlyLoops
    <2> QED
        BY <2>1 DEF TypeInv, TypeOK, InHand
<1>1. ASSUME NEW t \in Tasks, Claim(t) PROVE Typed
    <2>1. row' \in [Tasks -> Row]
        BY <1>0, <1>1, StatusTyped, Constants DEF Claim
    <2>2. hands' \in [Tasks -> SUBSET Hands]
        BY <1>0, <1>1, HandsTyped, Constants DEF Claim
    <2>3. note' \in Notes
        BY <1>0, <1>1 DEF Claim, Notes
    <2>4. single' \in Single
        BY <1>0, <1>1 DEF Claim, Single
    <2> QED
        BY <1>0, <1>1, <2>1, <2>2, <2>3, <2>4 DEF Claim
<1>2. ASSUME NEW t \in Tasks, SetUpTree(t) PROVE Typed
    <2> DEFINE r == [[row[t] EXCEPT !.named = TRUE] EXCEPT !.pid = TRUE]
    <2>1. row' = [row EXCEPT ![t] = r]
        BY <1>0, <1>2 DEF SetUpTree, Row
    <2>a. [row[t] EXCEPT !.named = TRUE] \in Row
        BY <1>0, RowFields
    <2>b. r \in Row
        BY <2>a, RowFields
    <2> HIDE DEF r
    <2>2. row' \in [Tasks -> Row]
        BY <1>0, <2>1, <2>b
    <2>3. hands' \in [Tasks -> SUBSET Hands]
        BY <1>0, <1>2, HandsTyped, Constants DEF SetUpTree
    <2> QED
        BY <1>0, <1>2, <2>2, <2>3 DEF SetUpTree
<1>3. ASSUME NEW t \in Tasks, NEW from \in Hands, Again(t, from) PROVE Typed
    <2> DEFINE p == from \in {"setup", "agent"} /\ row[t].pr
               e == from # "ci_passed" /\ row[t].stamped
               r == [Afresh(row[t]) EXCEPT !.pr = p, !.stamped = e]
    <2>1. row' = [row EXCEPT ![t] = r]
        BY <1>3 DEF Again
    <2>2. r \in Row
        <3>1. Afresh(row[t]) \in Row /\ p \in BOOLEAN /\ e \in BOOLEAN
            BY <1>0, RowFields DEF Row
        <3> HIDE DEF p, e
        <3> QED
            BY <3>1 DEF Row
    <2> HIDE DEF r
    <2>3. hands' \in [Tasks -> SUBSET Hands]
        BY <1>0, <1>3, HandsTyped DEF Again
    <2> QED
        BY <1>0, <1>3, <2>1, <2>2, <2>3 DEF Again
<1>4. ASSUME NEW t \in Tasks, NEW from \in Hands, GiveUp(t, from) PROVE Typed
    <2>1. row' \in [Tasks -> Row]
        <3> DEFINE e == row[t].stamped \/ from \in {"setup", "agent"}
        <3>1. row' = [row EXCEPT ![t].status = "failed", ![t].stamped = e]
            BY <1>0, <1>4 DEF GiveUp, Row
        <3>2. e \in BOOLEAN
            BY <1>0 DEF Row
        <3> HIDE DEF e
        <3> QED
            BY <1>0, <3>1, <3>2, StampTyped, Constants
    <2>2. hands' \in [Tasks -> SUBSET Hands]
        <3>1. PICK to \in SUBSET Hands : PassOn(t, from, to)
            BY <1>4, Constants DEF GiveUp
        <3> QED
            BY <1>0, <3>1, HandsTyped
    <2>3. falling' \in SUBSET Tasks /\ single' \in Single
        BY <1>0, <1>4 DEF GiveUp, Single
    <2>4. note' \in Notes
        <3> DEFINE U == IF Tells(from) \/ Dependents(t) = {} THEN note.unheard
                        ELSE note.unheard \cup {t}
                   L == IF from = "setup" THEN note.leaked \cup ({t} \cap tree) ELSE note.leaked
        <3>1. note' = [note EXCEPT !.unheard = U, !.leaked = L]
            BY <1>4 DEF GiveUp
        <3>2. U \in SUBSET Tasks /\ L \in SUBSET Tasks
            BY <1>0 DEF Notes
        <3> HIDE DEF U, L
        <3> QED
            BY <1>0, <3>1, <3>2 DEF Notes
    <2> QED
        BY <1>0, <1>4, <2>1, <2>2, <2>3, <2>4 DEF GiveUp
<1>5. ASSUME NEW t \in Tasks, NoChanges(t) PROVE Typed
    <2>1. row' \in [Tasks -> Row]
        BY <1>0, <1>5, StampTyped, Constants DEF NoChanges
    <2>2. hands' \in [Tasks -> SUBSET Hands]
        BY <1>0, <1>5, HandsTyped, Constants DEF NoChanges
    <2> QED
        BY <1>0, <1>5, <2>1, <2>2 DEF NoChanges
<1>6. ASSUME NEW t \in Tasks, OpenPR(t) PROVE Typed
    <2> DEFINE q == [[row[t] EXCEPT !.status = "pr_created"] EXCEPT !.pr = TRUE]
               r == [q EXCEPT !.stamped = TRUE]
    <2>1. row' = [row EXCEPT ![t] = r]
        BY <1>0, <1>6 DEF OpenPR, Row
    <2>2. r \in Row
        <3>1. q \in Row
            BY <1>0, RowFields, Constants
        <3> HIDE DEF q
        <3> QED
            BY <3>1, RowFields
    <2> HIDE DEF r
    <2>3. hands' \in [Tasks -> SUBSET Hands]
        BY <1>0, <1>6, HandsTyped DEF OpenPR
    <2>4. left' \in Scenario /\ single' \in Single
        BY <1>0, <1>6, LeftTyped DEF OpenPR, Single
    <2> QED
        BY <1>0, <1>6, <2>1, <2>2, <2>3, <2>4 DEF OpenPR
<1>7. ASSUME NEW t \in Tasks, ListPending(t) \/ ListChecked(t) PROVE Typed
    <2>1. PICK to \in SUBSET Hands : PassOn(t, "none", to)
        BY <1>7, Constants DEF ListPending, ListChecked, Monitors
    <2>2. hands' \in [Tasks -> SUBSET Hands]
        BY <1>0, <2>1, HandsTyped
    <2> QED
        BY <1>0, <1>7, <2>2 DEF ListPending, ListChecked
<1>8. ASSUME NEW t \in Tasks, NEW from \in Hands, PutBack(t, from) PROVE Typed
    <2>1. hands' \in [Tasks -> SUBSET Hands]
        BY <1>0, <1>8, HandsTyped DEF PutBack
    <2> QED
        BY <1>0, <1>8, <2>1 DEF PutBack
<1>9. ASSUME NEW t \in Tasks, Proceed(t) PROVE Typed
    <2>1. PICK from \in Hands, status \in Status, to \in SUBSET Hands :
            Advance(t, from, status, to)
        BY <1>9, Constants DEF Proceed
    <2>2. row' \in [Tasks -> Row]
        <3> DEFINE e == row[t].stamped \/ status = "completed"
        <3>1. row' = [row EXCEPT ![t].status = status, ![t].stamped = e]
            BY <1>0, <2>1 DEF Advance, Row
        <3>2. e \in BOOLEAN
            BY <1>0 DEF Row
        <3> HIDE DEF e
        <3> QED
            BY <1>0, <3>1, <3>2, StampTyped
    <2>3. hands' \in [Tasks -> SUBSET Hands]
        BY <1>0, <2>1, HandsTyped DEF Advance
    <2> QED
        BY <1>0, <2>1, <2>2, <2>3 DEF Advance
<1>10. ASSUME NEW u \in Tasks, CascadeFailed(u) PROVE Typed
    <2>1. row' \in [Tasks -> Row]
        BY <1>0, <1>10, CascadeTyped DEF CascadeFailed
    <2>2. Dependents(u) \in SUBSET Tasks
        BY DEF Dependents
    <2>3. note' \in Notes
        BY <1>0, <1>10, <2>2 DEF CascadeFailed, Leaking, Notes
    <2> QED
        BY <1>0, <1>10, <2>1, <2>2, <2>3 DEF CascadeFailed
<1>12. ASSUME NEW u \in Tasks, CascadeSingle(u) PROVE Typed
    <2>1. row' \in [Tasks -> Row]
        BY <1>0, <1>12, CascadeTyped DEF CascadeSingle
    <2>2. Dependents(u) \in SUBSET Tasks
        BY DEF Dependents
    <2>3. note' \in Notes
        BY <1>0, <1>12, <2>2 DEF CascadeSingle, Leaking, Notes
    <2>4. single' \in Single
        BY <1>0, <1>12, <2>2 DEF CascadeSingle, Single
    <2> QED
        BY <1>0, <1>12, <2>1, <2>3, <2>4 DEF CascadeSingle
<1>11. ASSUME NEW t \in Tasks, Unlabel(t) \/ CloseIssue(t) PROVE Typed
    <2> DEFINE i == row[t].issue
    <2>1. i \in Issues \cup {NoIssue}
        BY <1>0 DEF Row
    <2>2. i # NoIssue => /\ [issue[i] EXCEPT !.progress = FALSE] \in Issue
                         /\ [issue[i] EXCEPT !.progress = FALSE, !.open = FALSE] \in Issue
        BY <1>0, <2>1, IssueFields
    <2>3. \/ EditLabels(i, [issue[i] EXCEPT !.progress = FALSE])
          \/ EditLabels(i, [issue[i] EXCEPT !.progress = FALSE, !.open = FALSE])
        BY <1>11 DEF Unlabel, CloseIssue
    <2> HIDE DEF i
    <2>4. issue' \in [Issues -> Issue] /\ left' \in Scenario
        BY <1>0, <2>1, <2>2, <2>3, EditTyped
    <2>5. hands' \in [Tasks -> SUBSET Hands]
        BY <1>0, <1>11, HandsTyped DEF Unlabel, CloseIssue
    <2> QED
        BY <1>0, <1>11, <2>4, <2>5 DEF Unlabel, CloseIssue
<1> QED
    BY <1>1, <1>2, <1>3, <1>4, <1>5, <1>6, <1>7, <1>8, <1>9, <1>10, <1>11, <1>12
        DEF PipelineStep

LEMMA OutageTyped ==
    ASSUME TypeInv, NEW gone \in SUBSET Processes, Outage(gone)
    PROVE  TypeInv'
<1>0. /\ note \in Notes /\ left \in Scenario /\ falling \in SUBSET Tasks
      /\ hands \in [Tasks -> SUBSET Hands] /\ single \in Single
      /\ op \in Operator /\ op.fell \in SUBSET Tasks /\ poll \in Poller
      /\ single.falling \in SUBSET Tasks /\ up \in BOOLEAN
      /\ poll.pc \in {"claim", "gate"} => poll.task \in Tasks
    BY DEF TypeInv, TypeOK, InHand, Operator, Single
<1>1. PICK by \in Gives(op.kind) :
        /\ op' = IF by \in gone THEN IdleOp ELSE op
        /\ note' = [note EXCEPT
             !.unheard = @ \cup Lost(gone) \cup (IF by \in gone THEN op.fell ELSE {}),
             !.ungated = IF "daemon" \in gone /\ poll.pc \in {"claim", "gate"}
                           THEN @ \cup {poll.task} ELSE @]
    BY Zenon DEF Outage
<1>2. note' \in Notes
    <2> DEFINE G == IF "daemon" \in gone /\ poll.pc \in {"claim", "gate"}
                      THEN note.ungated \cup {poll.task} ELSE note.ungated
               U == note.unheard \cup Lost(gone) \cup (IF by \in gone THEN op.fell ELSE {})
    <2>1. note' = [note EXCEPT !.unheard = U, !.ungated = G]
        BY <1>1
    <2>2. G \in SUBSET Tasks /\ U \in SUBSET Tasks
        BY <1>0 DEF Notes, Lost
    <2> HIDE DEF G, U
    <2> QED
        BY <1>0, <2>1, <2>2 DEF Notes
<1>3. left' \in Scenario
    BY <1>0, LeftTyped DEF Outage
<1>4. hands' \in [Tasks -> SUBSET Hands]
    BY <1>0 DEF Outage
<1>5. falling' \in SUBSET Tasks /\ single' \in Single /\ up' \in BOOLEAN
    BY <1>0 DEF Outage, Single
<1>6. poll' \in Poller /\ (poll'.pc \in {"claim", "gate"} => poll'.task \in Tasks)
    BY <1>0, Constants DEF Outage
<1>7. op' \in Operator /\ (op'.pc # "idle" => op'.task \in Tasks)
    BY <1>0, <1>1, Constants DEF TypeInv, InHand
<1>8. UNCHANGED <<row, issue, tree, mode, denied>>
    BY DEF Outage
<1> QED
    BY <1>2, <1>3, <1>4, <1>5, <1>6, <1>7, <1>8 DEF TypeInv, TypeOK, InHand

\* What a recovery does to the rows and to the notes.
Recovering(stale) ==
    /\ stale \subseteq {t \in Tasks : row[t].status = "working"}
    /\ row' = [t \in Tasks |->
                 IF row[t].status = "reviewing" THEN [row[t] EXCEPT !.status = "pr_created"]
                 ELSE IF t \in stale
                   THEN [row[t] EXCEPT !.status = "queued", !.named = FALSE, !.pid = FALSE]
                 ELSE row[t]]
    /\ note' = [note EXCEPT
         !.disputed = @ \cup {t \in stale : {"setup", "agent"} \cap hands[t] # {}}]

LEMMA Recovers ==
    ASSUME Recover
    PROVE  \E stale \in SUBSET Tasks : Recovering(stale)
<1>1. PICK alive \in SUBSET {t \in Tasks : row[t].status = "working" /\ row[t].pid} :
        LET stale == {t \in Tasks : row[t].status = "working"} \ alive IN
        /\ row' = [t \in Tasks |->
                     IF row[t].status = "reviewing" THEN [row[t] EXCEPT !.status = "pr_created"]
                     ELSE IF t \in stale
                       THEN [row[t] EXCEPT !.status = "queued", !.named = FALSE, !.pid = FALSE]
                     ELSE row[t]]
        /\ note' = [note EXCEPT
             !.disputed = @ \cup {t \in stale : {"setup", "agent"} \cap hands[t] # {}}]
    BY Zenon DEF Recover
<1> DEFINE stale == {t \in Tasks : row[t].status = "working"} \ alive
<1>2. stale \subseteq {t \in Tasks : row[t].status = "working"}
    OBVIOUS
<1>3. Recovering(stale)
    BY <1>1, <1>2, Zenon DEF Recovering
<1>4. stale \in SUBSET Tasks
    OBVIOUS
<1> QED
    BY <1>3, <1>4

LEMMA RecoverTyped ==
    ASSUME TypeInv, Recover
    PROVE  TypeInv'
<1>0. row \in [Tasks -> Row] /\ note \in Notes
    BY DEF TypeInv, TypeOK
<1>1. PICK stale \in SUBSET Tasks : Recovering(stale)
    BY Recovers
<1>2. row' \in [Tasks -> Row]
    <2>1. \A t \in Tasks :
            /\ [row[t] EXCEPT !.status = "pr_created"] \in Row
            /\ [row[t] EXCEPT !.status = "queued", !.named = FALSE, !.pid = FALSE] \in Row
        BY <1>0, Constants DEF Row
    <2> QED
        BY <1>0, <1>1, <2>1 DEF Recovering
<1>3. note' \in Notes
    BY <1>0, <1>1 DEF Recovering, Notes
<1>4. up' \in BOOLEAN /\ UNCHANGED <<issue, hands, falling, single, tree, poll, op, mode, denied,
                                    left>>
    BY DEF Recover
<1> QED
    BY <1>2, <1>3, <1>4 DEF TypeInv, TypeOK, InHand

LEMMA LabelTyped ==
    ASSUME TypeInv, NEW i \in Issues, LabelAgain(i)
    PROVE  TypeInv'
<1>1. issue' \in [Issues -> Issue]
    <2>1. issue' = [issue EXCEPT ![i] = [issue[i] EXCEPT !.todo = TRUE]]
        BY DEF LabelAgain
    <2> QED
        BY <2>1, IssueFields DEF TypeInv, TypeOK
<1>2. left' \in Scenario
    BY LeftTyped DEF LabelAgain, TypeInv, TypeOK
<1>3. note' \in Notes
    BY DEF LabelAgain, TypeInv, TypeOK, Notes
<1> QED
    BY <1>1, <1>2, <1>3 DEF LabelAgain, TypeInv, TypeOK, InHand

LEMMA TypeInvariant == Spec => []TypeInv
<1>1. Init => TypeInv
    BY InitTyped
<1>2. TypeInv /\ [Next]_vars => TypeInv'
    <2>1. ASSUME TypeInv, Next PROVE TypeInv'
        BY <2>1, IntakeTyped, OperatorTyped, ArtifactsTyped, PipelineTyped, OutageTyped,
            RecoverTyped, LabelTyped DEF Next
    <2>2. ASSUME TypeInv, UNCHANGED vars PROVE TypeInv'
        BY <2>2 DEF vars, TypeInv, TypeOK, InHand
    <2> QED
        BY <2>1, <2>2
<1> QED
    BY <1>1, <1>2, PTL DEF Spec

\* Rows, labels, copies and commands keep their types, for any number of tasks
\* and issues and in every scenario.
THEOREM TypeCorrect == Spec => []TypeOK
    BY TypeInvariant, PTL DEF TypeInv

-----------------------------------------------------------------------------
(* The gate.                                                               *)

Excused(t)  == t \in note.consent \cup note.ungated
Entering(t) == poll.pc \in {"claim", "gate"} /\ poll.task = t
Taken(t)    == \/ row[t].status \notin {"none", "queued"} \cup Dead
               \/ hands[t] \cap Busy # {}
               \/ op.kind = "reject" /\ op.task = t

GateInv ==
    mode = "review-all" => \A t \in Tasks :
        /\ row[t].status = "none" => row[t].issue = NoIssue /\ ~Taken(t)
        /\ row[t].issue # NoIssue /\ ~row[t].held => Excused(t) \/ Entering(t)
        /\ row[t].issue # NoIssue /\ Taken(t) => Excused(t)

\* What a step may do to a task without getting it past the gate.
Respects(t) ==
    /\ row'[t].issue = row[t].issue
    /\ Excused(t) => Excused(t)'
    /\ row'[t].status = "none" => row[t].status = "none"
    /\ row'[t].held \/ ~row[t].held \/ Excused(t)'
    /\ Entering(t) => Entering(t)' \/ Excused(t)' \/ row'[t].held
    /\ Taken(t)' => Taken(t) \/ (Excused(t)' /\ row'[t].status # "none")
                             \/ (row[t].issue = NoIssue /\ row'[t].status # "none")

LEMMA GateRespected ==
    ASSUME GateInv, mode' = mode, \A t \in Tasks : Respects(t)
    PROVE  GateInv'
<1> SUFFICES ASSUME mode = "review-all", NEW t \in Tasks
             PROVE  /\ row'[t].status = "none" => row'[t].issue = NoIssue /\ ~Taken(t)'
                    /\ row'[t].issue # NoIssue /\ ~row'[t].held => Excused(t)' \/ Entering(t)'
                    /\ row'[t].issue # NoIssue /\ Taken(t)' => Excused(t)'
    BY DEF GateInv, Excused, Entering, Taken
<1>1. /\ row[t].status = "none" => row[t].issue = NoIssue /\ ~Taken(t)
      /\ row[t].issue # NoIssue /\ ~row[t].held => Excused(t) \/ Entering(t)
      /\ row[t].issue # NoIssue /\ Taken(t) => Excused(t)
    BY DEF GateInv
<1> QED
    BY <1>1 DEF Respects

LEMMA Cascaded ==
    ASSUME TypeOK, NEW t \in Tasks, CascadeFrom(t)
    PROVE  \A u \in Tasks : /\ row'[u].issue = row[u].issue /\ row'[u].held = row[u].held
                            /\ \/ row'[u].status = row[u].status
                               \/ row[u].status = "queued" /\ row'[u].status = "failed"
    BY DEF TypeOK, Row, CascadeFrom, Dependents

LEMMA Passed ==
    ASSUME TypeOK, NEW t \in Tasks, NEW from, NEW to, PassOn(t, from, to)
    PROVE  \A u \in Tasks : hands'[u] = IF u = t THEN (hands[t] \ {from}) \cup to ELSE hands[u]
    BY DEF TypeOK, PassOn

LEMMA IntakeGated ==
    ASSUME TypeInv, GateInv, PollerStep, mode = "review-all"
    PROVE  GateInv'
<1>0. /\ TypeOK /\ mode' = mode /\ UNCHANGED <<hands, op>>
      /\ note'.consent = note.consent /\ note'.ungated = note.ungated
    BY DEF TypeInv, TypeOK, Notes, PollerStep, Poll, CreateFromIssue, ClaimIssue, SetGate,
        PollDone, OnlyPoller
<1>1. CASE Poll \/ PollDone \/ ClaimIssue
    <2>1. /\ row' = row
          /\ poll.pc \in {"claim", "gate"} =>
                poll'.pc \in {"claim", "gate"} /\ poll'.task = poll.task
        BY <1>0, <1>1 DEF Poll, PollDone, ClaimIssue, TypeOK, Poller
    <2>2. \A t \in Tasks : Respects(t)
        BY <1>0, <2>1 DEF Respects, Excused, Entering, Taken
    <2> QED
        BY <1>0, <2>2, GateRespected
<1>2. ASSUME NEW i \in Issues, CreateFromIssue(i) PROVE GateInv'
    <2>1. PICK t \in Tasks, d \in poll.made \cup {NoTask} :
        /\ IsFree(t)
        /\ row' = [row EXCEPT ![t] = NewRow(i, d)]
        /\ poll' = [poll EXCEPT !.pc = "claim", !.todo = @ \ {i}, !.task = t,
                                !.made = IF poll.plan = {} THEN {} ELSE @ \cup {t}]
        BY <1>2 DEF CreateFromIssue
    <2>2. row[t].status = "none"
        BY <2>1 DEF IsFree, Unused
    <2>3. poll'.pc = "claim" /\ poll'.task = t /\ poll.pc = "create"
        BY <1>0, <1>2, <2>1 DEF CreateFromIssue, TypeOK, Poller
    <2>4. \A u \in Tasks : row'[u] = IF u = t THEN NewRow(i, d) ELSE row[u]
        BY <1>0, <2>1 DEF TypeOK
    <2>5. NewRow(i, d).status = "queued" /\ NewRow(i, d).issue = i
        BY DEF NewRow
    <2>6. \A u \in Tasks : u # t => (Taken(u)' <=> Taken(u))
        BY <1>0, <2>4 DEF Taken
    <2>7. ~Taken(t)'
        BY <1>0, <2>2, <2>4, <2>5 DEF Taken, GateInv
    <2>8. \A u \in Tasks : (Excused(u)' <=> Excused(u)) /\ ~Entering(u)
        BY <1>0, <2>3 DEF Excused, Entering
    <2>9. Entering(t)'
        BY <2>3 DEF Entering
    <2> SUFFICES ASSUME NEW u \in Tasks
                 PROVE  /\ row'[u].status = "none" => row'[u].issue = NoIssue /\ ~Taken(u)'
                        /\ row'[u].issue # NoIssue /\ ~row'[u].held => Excused(u)' \/ Entering(u)'
                        /\ row'[u].issue # NoIssue /\ Taken(u)' => Excused(u)'
        BY DEF GateInv, Excused, Entering, Taken
    <2>10. CASE u = t
        BY <2>4, <2>5, <2>7, <2>9, <2>10
    <2>11. CASE u # t
        BY <2>4, <2>6, <2>8, <2>11 DEF GateInv
    <2> QED
        BY <2>10, <2>11
<1>3. CASE SetGate
    <2>1. poll.task \in Tasks
        BY <1>3 DEF SetGate, TypeInv, InHand
    <2>2. \A u \in Tasks : /\ row'[u].issue = row[u].issue /\ row'[u].status = row[u].status
                           /\ row'[u].held = IF u = poll.task THEN TRUE ELSE row[u].held
        BY <1>0, <1>3, <2>1 DEF SetGate, TypeOK, Row
    <2>3. \A t \in Tasks : Respects(t)
        BY <1>0, <2>2 DEF Respects, Excused, Entering, Taken
    <2> QED
        BY <1>0, <2>3, GateRespected
<1> QED
    BY <1>1, <1>2, <1>3 DEF PollerStep

LEMMA ArtifactsGated ==
    ASSUME TypeInv, GateInv, ArtifactStep
    PROVE  GateInv'
<1>0. /\ TypeOK /\ mode' = mode /\ UNCHANGED <<poll, op>>
      /\ note'.consent = note.consent /\ note'.ungated = note.ungated
    BY DEF TypeInv, TypeOK, Notes, ArtifactStep, SweepCleanup, CommandCleanup, RemoveTree,
        Forget, OnlyTrees
<1>1. PICK t \in Tasks : SweepCleanup(t) \/ CommandCleanup(t) \/ RemoveTree(t) \/ Forget(t)
    BY DEF ArtifactStep
<1>2. \A u \in Tasks : /\ row'[u].issue = row[u].issue /\ row'[u].held = row[u].held
                       /\ row'[u].status = row[u].status
    BY <1>0, <1>1 DEF SweepCleanup, CommandCleanup, RemoveTree, Forget, TypeOK, Row
<1>3. \A u \in Tasks : hands'[u] \cap Busy \subseteq hands[u] \cap Busy
    BY <1>0, <1>1, Passed DEF SweepCleanup, CommandCleanup, RemoveTree, Forget, Busy
<1>4. \A u \in Tasks : Respects(u)
    BY <1>0, <1>2, <1>3 DEF Respects, Excused, Entering, Taken
<1> QED
    BY <1>0, <1>4, GateRespected

LEMMA OperatorGated ==
    ASSUME TypeInv, GateInv, OperatorStep, mode = "review-all"
    PROVE  GateInv'
<1>0. /\ TypeOK /\ mode' = mode /\ poll' = poll
      /\ op.pc # "idle" => op.task \in Tasks
    BY DEF TypeInv, InHand, OperatorStep, ReadTask, SignalAgent, WriteCancelled,
        CascadeCancelled, RestoreLabels, WriteQueued, ResetFailed, WriteDispatched,
        WriteApproved, CreateManually, OnlyOperator
<1>a. /\ row \in [Tasks -> Row] /\ op \in Operator /\ note \in Notes
      /\ hands \in [Tasks -> SUBSET Hands]
    BY <1>0 DEF TypeOK
<1>b. IdleOp.kind = "none"
    BY DEF IdleOp
<1>1. ASSUME NEW kind \in AllKinds, NEW t \in Tasks, ReadTask(kind, t) PROVE GateInv'
    <2>1. UNCHANGED <<row, hands, note>>
        BY <1>1 DEF ReadTask
    <2>2. op'.kind = kind /\ op'.task = t
        BY <1>1, Constants DEF ReadTask, Operator
    <2>3. kind = "reject" => Taken(t)
        BY <1>1 DEF ReadTask, Accepts, Taken, Dead
    <2>4. \A u \in Tasks : Taken(u)' => Taken(u)
        BY <2>1, <2>2, <2>3 DEF Taken
    <2>5. \A u \in Tasks : Respects(u)
        BY <1>0, <2>1, <2>4 DEF Respects, Excused, Entering
    <2> QED
        BY <1>0, <2>5, GateRespected
<1>2. CASE SignalAgent \/ RestoreLabels
    <2>1. UNCHANGED <<row, hands, note>>
        BY <1>2 DEF SignalAgent, RestoreLabels
    <2>2. op'.kind = "none" \/ (op'.kind = op.kind /\ op'.task = op.task)
        BY <1>2, <1>a, <1>b DEF SignalAgent, RestoreLabels, Operator
    <2>3. \A u \in Tasks : Respects(u)
        BY <1>0, <2>1, <2>2 DEF Respects, Excused, Entering, Taken
    <2> QED
        BY <1>0, <2>3, GateRespected
<1>3. CASE WriteCancelled
    <2> DEFINE t == op.task
    <2>1. t \in Tasks /\ hands' = hands
        BY <1>0, <1>3 DEF WriteCancelled
    <2>2. op'.kind = op.kind /\ op'.task = t /\ op.kind \in {"cancel", "reject"}
        BY <1>3, <1>a DEF WriteCancelled, Operator
    <2>3. note'.consent = note.consent /\ note'.ungated = note.ungated
        BY <1>3, <1>a DEF WriteCancelled, Noting, Notes
    <2>4. \A u \in Tasks : /\ row'[u].issue = row[u].issue
                           /\ row'[u].status = IF u = t THEN "cancelled" ELSE row[u].status
                           /\ op.kind = "cancel" \/ u # t => row'[u].held = row[u].held
        BY <1>3, <1>a, <2>1 DEF WriteCancelled, Row
    <2>5. \A u \in Tasks : Taken(u)' => Taken(u)
        BY <2>1, <2>2, <2>4 DEF Taken, Dead
    <2> SUFFICES ASSUME NEW u \in Tasks
                 PROVE  /\ row'[u].status = "none" => row'[u].issue = NoIssue /\ ~Taken(u)'
                        /\ row'[u].issue # NoIssue /\ ~row'[u].held => Excused(u)' \/ Entering(u)'
                        /\ row'[u].issue # NoIssue /\ Taken(u)' => Excused(u)'
        BY DEF GateInv, Excused, Entering, Taken
    <2>6. /\ row[u].status = "none" => row[u].issue = NoIssue /\ ~Taken(u)
          /\ row[u].issue # NoIssue /\ ~row[u].held => Excused(u) \/ Entering(u)
          /\ row[u].issue # NoIssue /\ Taken(u) => Excused(u)
        BY DEF GateInv
    <2>7. (Excused(u)' <=> Excused(u)) /\ (Entering(u)' <=> Entering(u))
        BY <1>0, <2>3 DEF Excused, Entering
    <2>8. op.kind = "reject" => Taken(t)
        BY DEF Taken
    <2> QED
        BY <2>2, <2>4, <2>5, <2>6, <2>7, <2>8
<1>4. ASSUME NEW v \in Tasks, CascadeCancelled(v) PROVE GateInv'
    <2>1. hands' = hands /\ op'.kind = op.kind /\ op'.task = op.task
        BY <1>4, <1>a DEF CascadeCancelled, Operator
    <2>2. note'.consent = note.consent /\ note'.ungated = note.ungated
        BY <1>4, <1>a DEF CascadeCancelled, Leaking, Notes
    <2>3. CascadeFrom(v)
        BY <1>4 DEF CascadeCancelled
    <2>4. \A u \in Tasks : Respects(u)
        BY <1>0, <2>1, <2>2, <2>3, Cascaded DEF Respects, Excused, Entering, Taken, Dead
    <2> QED
        BY <1>0, <2>4, GateRespected
<1>5. CASE WriteQueued
    <2> DEFINE t == op.task
    <2>1. t \in Tasks /\ hands' = hands /\ op' = IdleOp /\ op.kind \in {"requeue", "edit"}
        BY <1>0, <1>5 DEF WriteQueued
    <2>2. /\ note'.ungated = note.ungated
          /\ note'.consent = IF op.kind = "requeue" THEN note.consent \cup {t} ELSE note.consent
        BY <1>5, <1>a DEF WriteQueued, Noting, Notes
    <2>3. \A u \in Tasks : /\ row'[u].issue = row[u].issue
                           /\ row'[u].status = IF u = t THEN "queued" ELSE row[u].status
                           /\ u # t \/ op.kind = "edit" => row'[u].held = row[u].held
        BY <1>5, <1>a, <2>1 DEF WriteQueued, Afresh, Row
    <2>4. \A u \in Tasks : Respects(u)
        BY <1>0, <1>b, <2>1, <2>2, <2>3 DEF Respects, Excused, Entering, Taken
    <2> QED
        BY <1>0, <2>4, GateRespected
<1>6. CASE ResetFailed
    <2> DEFINE t == op.task
    <2>1. t \in Tasks /\ hands' = hands /\ op'.kind = op.kind /\ op'.task = t
        BY <1>0, <1>6, <1>a DEF ResetFailed, Operator
    <2>2. note'.ungated = note.ungated /\ note'.consent = note.consent \cup {t}
        BY <1>6, <1>a DEF ResetFailed, Noting, Notes
    <2>3. \A u \in Tasks : /\ row'[u].issue = row[u].issue
                           /\ row'[u].status = IF u = t THEN "queued" ELSE row[u].status
                           /\ u # t => row'[u].held = row[u].held
        BY <1>6, <1>a, <2>1 DEF ResetFailed, Afresh, Row
    <2>4. \A u \in Tasks : Respects(u)
        BY <1>0, <2>1, <2>2, <2>3 DEF Respects, Excused, Entering, Taken
    <2> QED
        BY <1>0, <2>4, GateRespected
<1>7. CASE WriteDispatched
    <2> DEFINE t == op.task
    <2>1. t \in Tasks /\ op' = IdleOp
        BY <1>0, <1>7 DEF WriteDispatched
    <2>2. note'.ungated = note.ungated /\ note'.consent = note.consent \cup {t}
        BY <1>7, <1>a DEF WriteDispatched, Noting, Notes
    <2>3. \A u \in Tasks : /\ row'[u].issue = row[u].issue
                           /\ row'[u].status = IF u = t THEN "working" ELSE row[u].status
                           /\ u # t => row'[u].held = row[u].held /\ hands'[u] = hands[u]
        BY <1>7, <1>a, <2>1 DEF WriteDispatched, Row
    <2>4. \A u \in Tasks : Respects(u)
        BY <1>0, <1>b, <2>1, <2>2, <2>3 DEF Respects, Excused, Entering, Taken
    <2> QED
        BY <1>0, <2>4, GateRespected
<1>8. CASE WriteApproved
    <2> DEFINE t == op.task
    <2>1. t \in Tasks /\ op' = IdleOp /\ hands' = hands
        BY <1>0, <1>8 DEF WriteApproved
    <2>2. note'.ungated = note.ungated /\ note'.consent = note.consent \cup {t}
        BY <1>8, <1>a DEF WriteApproved, Notes
    <2>3. \A u \in Tasks : /\ row'[u].issue = row[u].issue /\ row'[u].status = row[u].status
                           /\ u # t => row'[u].held = row[u].held
        BY <1>8, <1>a, <2>1 DEF WriteApproved, Row
    <2>4. \A u \in Tasks : Respects(u)
        BY <1>0, <1>b, <2>1, <2>2, <2>3 DEF Respects, Excused, Entering, Taken
    <2> QED
        BY <1>0, <2>4, GateRespected
<1>9. ASSUME NEW t \in Tasks, CreateManually(t) PROVE GateInv'
    <2>1. row[t].status = "none" /\ UNCHANGED <<hands, op, note>>
        BY <1>9 DEF CreateManually, IsFree, Unused
    <2>2. \A u \in Tasks : row'[u] = IF u = t THEN NewRow(NoIssue, NoTask) ELSE row[u]
        BY <1>9, <1>a DEF CreateManually
    <2>3. NewRow(NoIssue, NoTask).status = "queued" /\ NewRow(NoIssue, NoTask).issue = NoIssue
        BY DEF NewRow
    <2> SUFFICES ASSUME NEW u \in Tasks
                 PROVE  /\ row'[u].status = "none" => row'[u].issue = NoIssue /\ ~Taken(u)'
                        /\ row'[u].issue # NoIssue /\ ~row'[u].held => Excused(u)' \/ Entering(u)'
                        /\ row'[u].issue # NoIssue /\ Taken(u)' => Excused(u)'
        BY DEF GateInv, Excused, Entering, Taken
    <2>4. CASE u = t
        BY <2>2, <2>3, <2>4
    <2>5. CASE u # t
        BY <1>0, <2>1, <2>2, <2>5 DEF GateInv, Excused, Entering, Taken
    <2> QED
        BY <2>4, <2>5
<1> QED
    BY <1>1, <1>2, <1>3, <1>4, <1>5, <1>6, <1>7, <1>8, <1>9 DEF OperatorStep

\* What a loop has in hand was let through: it may write whatever it likes.
LEMMA InHandExcused ==
    ASSUME TypeOK, GateInv, mode' = mode, poll' = poll, op' = op, NEW t \in Tasks,
           Taken(t),
           note.consent \subseteq note'.consent, note.ungated \subseteq note'.ungated,
           \A u \in Tasks : /\ row'[u].issue = row[u].issue /\ row'[u].held = row[u].held
                            /\ row'[u].status = "none" => row[u].status = "none"
                            /\ u # t => row'[u].status = row[u].status /\ hands'[u] = hands[u]
    PROVE  GateInv'
<1> SUFFICES ASSUME mode = "review-all", NEW u \in Tasks
             PROVE  /\ row'[u].status = "none" => row'[u].issue = NoIssue /\ ~Taken(u)'
                    /\ row'[u].issue # NoIssue /\ ~row'[u].held => Excused(u)' \/ Entering(u)'
                    /\ row'[u].issue # NoIssue /\ Taken(u)' => Excused(u)'
    BY DEF GateInv, Excused, Entering, Taken
<1>1. /\ row[u].status = "none" => row[u].issue = NoIssue /\ ~Taken(u)
      /\ row[u].issue # NoIssue /\ ~row[u].held => Excused(u) \/ Entering(u)
      /\ row[u].issue # NoIssue /\ Taken(u) => Excused(u)
    BY DEF GateInv
<1>2. (Excused(u) => Excused(u)') /\ (Entering(u)' <=> Entering(u))
    BY DEF Excused, Entering
<1>3. u # t => (Taken(u)' <=> Taken(u))
    BY DEF Taken
<1> QED
    BY <1>1, <1>2, <1>3

LEMMA PipelineGated ==
    ASSUME TypeInv, GateInv, PipelineStep, mode = "review-all"
    PROVE  GateInv'
<1>0. TypeOK /\ mode' = mode /\ poll' = poll /\ op' = op
    BY DEF TypeInv, PipelineStep, Claim, SetUpTree, NoChanges, OpenPR, ListPending,
        ListChecked, Proceed, Advance, CascadeFailed, CascadeSingle, Unlabel, CloseIssue,
        Again, GiveUp, PutBack, OnlyLoops
<1>a. row \in [Tasks -> Row] /\ hands \in [Tasks -> SUBSET Hands] /\ note \in Notes
    BY <1>0 DEF TypeOK
<1> DEFINE Kept(n) == n.consent = note.consent /\ n.ungated = note.ungated
<1>1. ASSUME NEW t \in Tasks, Claim(t) PROVE GateInv'
    <2>1. \A u \in Tasks : /\ row'[u].issue = row[u].issue /\ row'[u].held = row[u].held
                           /\ row'[u].status = IF u = t THEN "working" ELSE row[u].status
        BY <1>1, <1>a DEF Claim, Row
    <2>2. \A u \in Tasks : u # t => hands'[u] = hands[u]
        BY <1>0, <1>1, Passed DEF Claim
    <2>3. /\ note'.consent = note.consent
          /\ note'.ungated = IF Entering(t) THEN note.ungated \cup {t} ELSE note.ungated
        BY <1>1, <1>a DEF Claim, Entering, Notes
    <2>4. row[t].status = "queued" /\ ~row[t].held
        BY <1>1 DEF Claim
    <2>5. row[t].issue # NoIssue => Excused(t)'
        BY <2>3, <2>4 DEF GateInv, Excused
    <2>6. \A u \in Tasks : Excused(u) => Excused(u)'
        BY <2>3 DEF Excused
    <2>7. \A u \in Tasks : Respects(u)
        BY <1>0, <2>1, <2>2, <2>4, <2>5, <2>6 DEF Respects, Entering, Taken
    <2> QED
        BY <1>0, <2>7, GateRespected
<1>2. ASSUME NEW t \in Tasks, SetUpTree(t) PROVE GateInv'
    <2>1. Taken(t) /\ note' = note
        BY <1>2 DEF SetUpTree, Taken, Busy
    <2>2. \A u \in Tasks : /\ row'[u].issue = row[u].issue /\ row'[u].held = row[u].held
                           /\ row'[u].status = row[u].status
        BY <1>2, <1>a DEF SetUpTree, Row
    <2>3. \A u \in Tasks : u # t => hands'[u] = hands[u]
        BY <1>0, <1>2, Passed DEF SetUpTree
    <2> QED
        BY <1>0, <2>1, <2>2, <2>3, InHandExcused
<1>3. ASSUME NEW t \in Tasks, NEW from \in Hands, Again(t, from) PROVE GateInv'
    <2>1. Taken(t) /\ note' = note
        BY <1>3 DEF Again, Taken, Busy
    <2>2. \A u \in Tasks : /\ row'[u].issue = row[u].issue /\ row'[u].held = row[u].held
                           /\ row'[u].status = IF u = t THEN "queued" ELSE row[u].status
        BY <1>3, <1>a DEF Again, Afresh, Row
    <2>3. \A u \in Tasks : u # t => hands'[u] = hands[u]
        BY <1>0, <1>3, Passed DEF Again
    <2> QED
        BY <1>0, <2>1, <2>2, <2>3, InHandExcused
<1>4. ASSUME NEW t \in Tasks, NEW from \in Hands, GiveUp(t, from) PROVE GateInv'
    <2>1. Taken(t) /\ Kept(note')
        BY <1>4, <1>a DEF GiveUp, Taken, Busy, Notes
    <2>2. \A u \in Tasks : /\ row'[u].issue = row[u].issue /\ row'[u].held = row[u].held
                           /\ row'[u].status = IF u = t THEN "failed" ELSE row[u].status
        BY <1>4, <1>a DEF GiveUp, Row
    <2>3. \A u \in Tasks : u # t => hands'[u] = hands[u]
        BY <1>0, <1>4, Passed DEF GiveUp
    <2> QED
        BY <1>0, <2>1, <2>2, <2>3, InHandExcused
<1>5. ASSUME NEW t \in Tasks, NoChanges(t) PROVE GateInv'
    <2>1. Taken(t) /\ note' = note
        BY <1>5 DEF NoChanges, Taken, Busy
    <2>2. \A u \in Tasks : /\ row'[u].issue = row[u].issue /\ row'[u].held = row[u].held
                           /\ row'[u].status = IF u = t THEN "completed" ELSE row[u].status
        BY <1>5, <1>a DEF NoChanges, Row
    <2>3. \A u \in Tasks : u # t => hands'[u] = hands[u]
        BY <1>0, <1>5, Passed DEF NoChanges
    <2> QED
        BY <1>0, <2>1, <2>2, <2>3, InHandExcused
<1>6. ASSUME NEW t \in Tasks, OpenPR(t) PROVE GateInv'
    <2>1. Taken(t) /\ note' = note
        BY <1>6 DEF OpenPR, Taken, Busy
    <2>2. \A u \in Tasks : /\ row'[u].issue = row[u].issue /\ row'[u].held = row[u].held
                           /\ row'[u].status = IF u = t THEN "pr_created" ELSE row[u].status
        BY <1>6, <1>a DEF OpenPR, Row
    <2>3. \A u \in Tasks : u # t => hands'[u] = hands[u]
        BY <1>0, <1>6, Passed DEF OpenPR
    <2> QED
        BY <1>0, <2>1, <2>2, <2>3, InHandExcused
<1>7. ASSUME NEW t \in Tasks, ListPending(t) \/ ListChecked(t) PROVE GateInv'
    <2>1. Taken(t) /\ UNCHANGED <<row, note>>
        BY <1>7 DEF ListPending, ListChecked, Monitors, Taken, Dead
    <2>2. \A u \in Tasks : u # t => hands'[u] = hands[u]
        BY <1>0, <1>7, Passed DEF ListPending, ListChecked
    <2> QED
        BY <1>0, <2>1, <2>2, InHandExcused
<1>8. ASSUME NEW t \in Tasks, NEW from \in Hands, PutBack(t, from) PROVE GateInv'
    <2>1. Taken(t) /\ UNCHANGED <<row, note>>
        BY <1>8 DEF PutBack, Taken, Busy
    <2>2. \A u \in Tasks : u # t => hands'[u] = hands[u]
        BY <1>0, <1>8, Passed DEF PutBack
    <2> QED
        BY <1>0, <2>1, <2>2, InHandExcused
<1>9. ASSUME NEW t \in Tasks, Proceed(t) PROVE GateInv'
    <2>1. PICK from \in Hands, status \in Status \ {"none"}, to \in SUBSET Hands :
            Advance(t, from, status, to) /\ from \in Busy
        BY <1>9, Constants DEF Proceed, Busy
    <2>2. Taken(t) /\ note' = note
        BY <2>1 DEF Advance, Taken
    <2>3. \A u \in Tasks : /\ row'[u].issue = row[u].issue /\ row'[u].held = row[u].held
                           /\ row'[u].status = IF u = t THEN status ELSE row[u].status
        BY <2>1, <1>a DEF Advance, Row
    <2>4. \A u \in Tasks : u # t => hands'[u] = hands[u]
        BY <1>0, <2>1, Passed DEF Advance
    <2> QED
        BY <1>0, <2>1, <2>2, <2>3, <2>4, InHandExcused
<1>10. ASSUME NEW v \in Tasks, CascadeFailed(v) \/ CascadeSingle(v) PROVE GateInv'
    <2>1. hands' = hands /\ Kept(note') /\ CascadeFrom(v)
        BY <1>10, <1>a DEF CascadeFailed, CascadeSingle, Leaking, Notes
    <2>2. \A u \in Tasks : Respects(u)
        BY <1>0, <2>1, Cascaded DEF Respects, Excused, Entering, Taken, Dead
    <2> QED
        BY <1>0, <2>2, GateRespected
<1>11. ASSUME NEW t \in Tasks, Unlabel(t) \/ CloseIssue(t) PROVE GateInv'
    <2>1. UNCHANGED <<row, note>>
        BY <1>11 DEF Unlabel, CloseIssue
    <2>2. \A u \in Tasks : hands'[u] \subseteq hands[u]
        BY <1>11, <1>a DEF Unlabel, CloseIssue, PassOn
    <2>3. \A u \in Tasks : Respects(u)
        BY <1>0, <2>1, <2>2 DEF Respects, Excused, Entering, Taken
    <2> QED
        BY <1>0, <2>3, GateRespected
<1> QED
    BY <1>1, <1>2, <1>3, <1>4, <1>5, <1>6, <1>7, <1>8, <1>9, <1>10, <1>11 DEF PipelineStep

LEMMA OutageGated ==
    ASSUME TypeInv, GateInv, NEW gone \in SUBSET Processes, Outage(gone), mode = "review-all"
    PROVE  GateInv'
<1>0. TypeOK /\ mode' = mode /\ row' = row
    BY DEF TypeInv, Outage
<1>1. \A u \in Tasks : hands'[u] \subseteq hands[u]
    BY <1>0 DEF Outage, TypeOK
<1>2. op' \in {op, IdleOp}
    BY DEF Outage
<1>3. /\ note'.consent = note.consent
      /\ note'.ungated = IF "daemon" \in gone /\ poll.pc \in {"claim", "gate"}
                           THEN note.ungated \cup {poll.task} ELSE note.ungated
    BY <1>0 DEF Outage, TypeOK, Notes
<1>4. "daemon" \notin gone => poll' = poll
    BY DEF Outage
<1>5. \A u \in Tasks : /\ Excused(u) => Excused(u)'
                       /\ Entering(u) => Entering(u)' \/ Excused(u)'
    BY <1>3, <1>4 DEF Excused, Entering
<1>6. \A u \in Tasks : Taken(u)' => Taken(u)
    BY <1>0, <1>1, <1>2 DEF Taken, IdleOp
<1>7. \A u \in Tasks : Respects(u)
    BY <1>0, <1>5, <1>6 DEF Respects
<1> QED
    BY <1>0, <1>7, GateRespected

LEMMA RecoverGated ==
    ASSUME TypeInv, GateInv, Recover, mode = "review-all"
    PROVE  GateInv'
<1>0. TypeOK /\ mode' = mode /\ UNCHANGED <<op, poll, hands>>
    BY DEF TypeInv, Recover
<1>1. PICK stale \in SUBSET Tasks : Recovering(stale)
    BY Recovers
<1>2. \A u \in Tasks : /\ row'[u].issue = row[u].issue /\ row'[u].held = row[u].held
                       /\ \/ row'[u].status = row[u].status
                          \/ row[u].status = "reviewing" /\ row'[u].status = "pr_created"
                          \/ row[u].status = "working" /\ row'[u].status = "queued"
    <2>1. \A u \in Tasks : row[u] \in Row
        BY <1>0 DEF TypeOK
    <2> QED
        BY <1>1, <2>1 DEF Recovering, Row
<1>3. note'.consent = note.consent /\ note'.ungated = note.ungated
    BY <1>0, <1>1 DEF Recovering, TypeOK, Notes
<1>4. \A u \in Tasks : Taken(u)' => Taken(u)
    BY <1>0, <1>2 DEF Taken, Dead
<1>5. \A u \in Tasks : Respects(u)
    BY <1>0, <1>2, <1>3, <1>4 DEF Respects, Excused, Entering
<1> QED
    BY <1>0, <1>5, GateRespected

\* In review-all no task of an issue gets past the queue without the operator,
\* but for the windows that GateHolds names: through retries, rejections and
\* conflicts, commands given on what a row has been, cascades and outages, and
\* for any number of tasks, issues and commands.
THEOREM GateNeedsOperator == Spec => []GateHolds
<1>1. Init => GateInv
    <2>1. SUFFICES ASSUME Init, NEW t \in Tasks
                   PROVE  row[t].status = "none" /\ row[t].issue = NoIssue /\ ~Taken(t)
        BY DEF GateInv
    <2> QED
        BY <2>1 DEF Init, NewRow, Taken, IdleOp
<1>2. TypeInv /\ GateInv /\ [Next]_vars => GateInv'
    <2>1. ASSUME TypeInv, GateInv, Next, mode = "review-all" PROVE GateInv'
        <3>1. ASSUME NEW i \in Issues, LabelAgain(i) PROVE GateInv'
            <4>1. /\ UNCHANGED <<row, hands, op, poll, mode>>
                  /\ note'.consent = note.consent /\ note'.ungated = note.ungated
                BY <2>1, <3>1 DEF LabelAgain, TypeInv, TypeOK, Notes
            <4>2. \A u \in Tasks : Respects(u)
                BY <4>1 DEF Respects, Excused, Entering, Taken
            <4> QED
                BY <2>1, <4>1, <4>2, GateRespected
        <3> QED
            BY <2>1, <3>1, IntakeGated, OperatorGated, ArtifactsGated, PipelineGated,
                OutageGated, RecoverGated DEF Next
    <2>2. ASSUME GateInv, Next, mode # "review-all" PROVE GateInv'
        <3>1. mode' = mode
            BY <2>2 DEF Next, PollerStep, Poll, CreateFromIssue, ClaimIssue, SetGate, PollDone,
                OnlyPoller, OperatorStep, ReadTask, SignalAgent, WriteCancelled,
                CascadeCancelled, RestoreLabels, WriteQueued, ResetFailed, WriteDispatched,
                WriteApproved, CreateManually, OnlyOperator, ArtifactStep, SweepCleanup,
                CommandCleanup, RemoveTree, Forget, OnlyTrees, PipelineStep, Claim, SetUpTree,
                NoChanges, OpenPR, ListPending, ListChecked, Proceed, Advance, CascadeFailed,
                CascadeSingle, Unlabel, CloseIssue, Again, GiveUp, PutBack, OnlyLoops,
                Outage, Recover, LabelAgain
        <3> QED
            BY <2>2, <3>1 DEF GateInv
    <2>3. ASSUME GateInv, UNCHANGED vars PROVE GateInv'
        BY <2>3 DEF vars, GateInv, Excused, Entering, Taken
    <2> QED
        BY <2>1, <2>2, <2>3
<1>3. GateInv => GateHolds
    BY DEF GateInv, GateHolds, Taken, Excused
<1> QED
    BY <1>1, <1>2, <1>3, TypeInvariant, PTL DEF Spec
=============================================================================
