----------------------- MODULE OperationsTaskProofs ------------------------
(***************************************************************************)
(* What becomes of the tasks and their worktrees, whoever acts on them.    *)
(*                                                                         *)
(* Nobody looks at a row when it is written, so that everything depends on *)
(* what the writer has read.  TaskOK says that a copy of a row, while no   *)
(* command has met it, still agrees with the row; from that follows what a *)
(* step may do to a task (Lawful), and from this, for all steps at once,   *)
(* what holds between a task and the one it waits for, and between the     *)
(* tasks of an issue.                                                      *)
(***************************************************************************)
EXTENDS OperationsProofs

(* What a copy of a row says of the task.                                  *)

\* What is left to do for a task that is over.
Tail == {"unlabel", "close", "clean", "forget"}

\* The status that a holder has read, or written last.
Fits(h, s) == IF h \in {"setup", "agent"} THEN s = "working"
              ELSE IF h = "listed" THEN s = "pr_created" ELSE s = h

\* A task is in the hands of one loop, which knows its status, and while the
\* daemon is down only a dispatch in the dashboard works on one; whoever is done
\* with it finds it over; and its worktree can be found by its row, unless it is
\* in the queue or its dispatch has not come to it, or was cut off.  Commands on a
\* row that is in somebody's hands, or has changed, set this aside, and so does a
\* recovery of one that a dispatch goes on with.
TaskOK(t) ==
    /\ row[t].status = "none" => hands[t] = {}
    /\ ~up => hands[t] \cap Busy \subseteq {"setup", "agent"}
    /\ t \notin note.disputed =>
         /\ row[t].status \notin {"none", "queued", "working"} => row[t].stamped
         /\ \A h \in hands[t] \cap Busy :
              Fits(h, row[t].status) /\ \A g \in hands[t] \cap Busy : g = h
         /\ t \notin note.swept =>
              /\ hands[t] \cap Tail # {} => row[t].status \in Terminal
              /\ "forget" \in hands[t] => t \notin tree
              /\ t \in tree \ note.leaked =>
                   \/ row[t].named \/ row[t].status = "queued"
                   \/ row[t].status = "working" /\ "agent" \notin hands[t]

\* What a command has read that it is about to write over.
CommandOK ==
    /\ op.pc # "idle" => row[op.task].status # "none"
    /\ op.pc = "reset" => op.kind = "dispatch"
    /\ op.pc \in {"kill", "reset", "write"} /\ op.kind \notin {"requeue", "approve"} =>
         op.seen \notin {"completed", "cancelled"}
    /\ op.pc \in {"kill", "reset", "write"} /\ op.kind \in {"edit", "dispatch"} =>
         row[op.task].status # "cancelled"
    /\ op.pc # "cascade" => op.fell = {}

Redone  == note.revived \cup note.disputed
Telling == falling \cup single.falling \cup op.fell

\* Somebody works on the task, or will.
Active(t) == \/ hands[t] \cap Busy # {}
             \/ row[t].status \notin {"none", "queued"} \cup Terminal

\* Who is in the queue, and who has left it, behind another task.
Waits(t) ==
    row[t].status = "queued" /\ BehindDead(t) =>
        \/ row[t].dep \in Telling
        \/ t \in note.late
        \/ row[t].dep \in note.unheard \cup Redone
Follows(t) ==
    Active(t) /\ row[t].dep # NoTask =>
        \/ row[row[t].dep].status = "completed"
        \/ t \in note.late
        \/ row[t].dep \in Redone

\* The tasks that get_task_by_issue finds.
Counted(t) == /\ row[t].status \notin {"none", "cancelled"}
              /\ ~(row[t].status = "completed" /\ ~row[t].pr)

IssueOK ==
    /\ \A t, u \in Tasks :
         /\ Counted(t) /\ Counted(u) /\ t # u
         /\ row[t].issue = row[u].issue /\ row[t].issue # NoIssue
         => t \in Redone \/ u \in Redone \/ row[t].issue \in note.twice
    /\ \A i \in poll.todo : \A t \in Tasks :
         Counted(t) /\ row[t].issue = i => t \in Redone \/ i \in note.twice

OpsInv == /\ CommandOK /\ IssueOK
          /\ \A t \in Tasks : TaskOK(t) /\ Waits(t) /\ Follows(t)

-----------------------------------------------------------------------------
(* What a step does to the tasks.                                          *)

Grown == /\ note.disputed \subseteq note'.disputed /\ note.revived \subseteq note'.revived
         /\ note.late \subseteq note'.late /\ note.unheard \subseteq note'.unheard
         /\ note.leaked \subseteq note'.leaked /\ note.swept \subseteq note'.swept
         /\ note.twice \subseteq note'.twice

\* A task stays the task of its issue, and behind the task it is behind; what is
\* completed or cancelled stays so, but for commands; nobody starts a task
\* whose dependency is not met, and none returns to the queue unnoticed behind
\* a dead one; who dies will be heard of.
Lawful(t) ==
    /\ row[t].status # "none" =>
         /\ row'[t].status # "none"
         /\ row'[t].dep = row[t].dep /\ row'[t].issue = row[t].issue
    /\ row[t].status \in {"completed", "cancelled"} /\ t \notin Redone' =>
         row'[t].status = row[t].status /\ row'[t].pr = row[t].pr
    /\ row'[t].status = "cancelled" => row[t].status = "cancelled" \/ op'.pc = "cascade"
    /\ Active(t)' => \/ Active(t) \/ t \in note'.late
                     \/ row[t].status # "none" /\ DepMet(t)
    /\ row'[t].status = "queued" => \/ row[t].status = "queued" \/ Active(t)
                                    \/ t \in note'.late \/ ~BehindDead(t)'
    /\ row'[t].status \in Dead /\ (row[t].status \notin Dead \/ t \in Telling) =>
         t \in Telling' \cup note'.unheard \/ Dependents(t)' = {}
    /\ row[t].status = "none" /\ row'[t].status # "none" =>
         /\ \A u \in Tasks : u # t => row'[u] = row[u]
         /\ row'[t].issue \in {NoIssue} \cup note'.twice \cup (poll.todo \ poll'.todo)

Orderly == /\ Grown
           /\ \A t \in Tasks : Lawful(t)
           /\ \A i \in poll'.todo : i \in poll.todo \/ (~Exists(i) /\ row' = row)

-----------------------------------------------------------------------------
LEMMA Typed ==
    ASSUME TypeInv
    PROVE  /\ row \in [Tasks -> Row] /\ hands \in [Tasks -> SUBSET Hands]
           /\ note \in Notes /\ op \in Operator /\ poll \in Poller
           /\ falling \in SUBSET Tasks /\ tree \in SUBSET Tasks /\ single \in Single
           /\ \A t \in Tasks : row[t] \in Row /\ row[t].status \in Status
                               /\ row[t].dep \in 0..NumTasks
           /\ op.pc # "idle" => op.task \in Tasks
    BY DEF TypeInv, TypeOK, InHand, Row

LEMMA TasksOf == \A d \in 0..NumTasks : d # NoTask => d \in Tasks
    BY TasksAre DEF Tasks, NoTask

LEMMA StatusWritten ==
    ASSUME row \in [Tasks -> Row], NEW t \in Tasks, NEW s,
           row' = [row EXCEPT ![t].status = s]
    PROVE  /\ \A u \in Tasks : u # t => row'[u] = row[u]
           /\ row'[t].status = s /\ row'[t].dep = row[t].dep /\ row'[t].issue = row[t].issue
           /\ row'[t].named = row[t].named /\ row'[t].pr = row[t].pr
           /\ row'[t].stamped = row[t].stamped
    BY DEF Row

LEMMA StampWritten ==
    ASSUME row \in [Tasks -> Row], NEW t \in Tasks, NEW s, NEW e,
           row' = [row EXCEPT ![t].status = s, ![t].stamped = e]
    PROVE  /\ \A u \in Tasks : u # t => row'[u] = row[u]
           /\ row'[t].status = s /\ row'[t].dep = row[t].dep /\ row'[t].issue = row[t].issue
           /\ row'[t].named = row[t].named /\ row'[t].pr = row[t].pr
           /\ row'[t].stamped = e
    BY DEF Row

LEMMA OthersOK ==
    ASSUME NEW u \in Tasks, TaskOK(u), Grown, row'[u] = row[u], hands'[u] = hands[u],
           u \in tree' => u \in tree, up' \/ ~up
    PROVE  TaskOK(u)'
    BY DEF TaskOK, Grown

\* A step that touches one task.
LEMMA OneTouched ==
    ASSUME NEW t \in Tasks, Grown, Lawful(t),
           \A u \in Tasks : u # t => row'[u] = row[u] /\ hands'[u] = hands[u],
           Telling \subseteq Telling', poll'.todo \subseteq poll.todo
    PROVE  Orderly
<1>1. ASSUME NEW u \in Tasks, u # t PROVE Lawful(u)
    <2>1. row'[u] = row[u] /\ (Active(u)' <=> Active(u))
        BY <1>1 DEF Active
    <2> QED
        BY <2>1 DEF Lawful
<1> QED
    BY <1>1 DEF Orderly

\* A step that leaves the rows alone.
LEMMA NoneTouched ==
    ASSUME row' = row, Grown, Telling \subseteq Telling' \cup note'.unheard,
           \A t \in Tasks : Active(t)' => Active(t),
           \A i \in poll'.todo : i \in poll.todo \/ ~Exists(i)
    PROVE  Orderly
<1>1. ASSUME NEW t \in Tasks PROVE Lawful(t)
    BY <1>1 DEF Lawful
<1> QED
    BY <1>1 DEF Orderly

-----------------------------------------------------------------------------
(* What follows from the law.                                              *)

LEMMA IssuesKept ==
    ASSUME TypeInv, TypeInv', OpsInv, Orderly
    PROVE  IssueOK'
<1>0. /\ Grown /\ IssueOK
      /\ \A t \in Tasks : Redone \subseteq Redone' /\ Lawful(t)
    BY DEF Orderly, OpsInv, Grown, Redone
<1>1. ASSUME NEW t \in Tasks, Counted(t)', ~Counted(t), t \notin Redone'
      PROVE  /\ row[t].status = "none"
             /\ \A u \in Tasks : u # t => row'[u] = row[u]
             /\ row'[t].issue \in {NoIssue} \cup note'.twice \cup (poll.todo \ poll'.todo)
    BY <1>0, <1>1 DEF Lawful, Counted
<1>2. ASSUME NEW t \in Tasks, Counted(t)
      PROVE  row'[t].issue = row[t].issue
    BY <1>0, <1>2 DEF Lawful, Counted
<1>3. ASSUME NEW t \in Tasks, NEW u \in Tasks, Counted(t)', Counted(u)', t # u,
             row'[t].issue = row'[u].issue, row'[t].issue # NoIssue
      PROVE  t \in Redone' \/ u \in Redone' \/ row'[t].issue \in note'.twice
    <2>1. CASE Counted(t) /\ Counted(u)
        BY <1>0, <1>2, <1>3, <2>1 DEF IssueOK, Grown
    <2>2. ASSUME NEW a \in Tasks, NEW b \in Tasks, {a, b} = {t, u}, ~Counted(a),
                 a \notin Redone', b \notin Redone'
          PROVE  row'[t].issue \in note'.twice
        <3>1. /\ row[a].status = "none" /\ row'[b] = row[b] /\ row'[a].issue = row'[b].issue
              /\ row'[a].issue \in {NoIssue} \cup note'.twice \cup (poll.todo \ poll'.todo)
              /\ row'[a].issue = row'[t].issue /\ Counted(b)'
            BY <1>1, <1>3, <2>2
        <3>2. Counted(b) /\ row[b].issue = row'[a].issue
            BY <3>1 DEF Counted
        <3>3. row'[a].issue \in poll.todo => b \in Redone \/ row'[a].issue \in note.twice
            BY <1>0, <3>2 DEF IssueOK
        <3> QED
            BY <1>0, <1>3, <2>2, <3>1, <3>3 DEF Grown
    <2> QED
        BY <2>1, <2>2
<1>4. ASSUME NEW i \in poll'.todo, NEW t \in Tasks, Counted(t)', row'[t].issue = i
      PROVE  t \in Redone' \/ i \in note'.twice
    <2>1. i \in poll.todo \/ (~Exists(i) /\ row' = row)
        BY DEF Orderly
    <2>2. i \in Issues
        BY DEF TypeInv, TypeOK, Poller
    <2>3. CASE i \in poll.todo /\ Counted(t)
        BY <1>0, <1>2, <1>4, <2>3 DEF IssueOK, Grown
    <2>4. CASE i \in poll.todo /\ ~Counted(t)
        BY <1>1, <1>4, <2>2, <2>4, LedgerAssumption
    <2>5. CASE ~Exists(i) /\ row' = row
        BY <1>4, <2>5 DEF Exists, Counted
    <2> QED
        BY <2>1, <2>3, <2>4, <2>5
<1> QED
    BY <1>3, <1>4 DEF IssueOK

LEMMA WaitersKept ==
    ASSUME TypeInv, TypeInv', OpsInv, Orderly, NEW t \in Tasks
    PROVE  Waits(t)' /\ Follows(t)'
<1> DEFINE d == row[t].dep
<1>0. /\ Grown /\ Redone \subseteq Redone' /\ Lawful(t) /\ Waits(t) /\ Follows(t) /\ TaskOK(t)
      /\ row[t] \in Row /\ row'[t] \in Row
      /\ d # NoTask => d \in Tasks /\ Lawful(d)
      /\ row'[t].dep # NoTask => row'[t].dep \in Tasks
    <2>1. row' \in [Tasks -> Row]
        BY DEF TypeInv, TypeOK
    <2>2. row'[t] \in Row /\ row'[t].dep \in 0..NumTasks
        BY <2>1 DEF Row
    <2> QED
        BY <2>2, Typed, TasksOf DEF Orderly, OpsInv, Grown, Redone
<1>1. Active(t) => row[t].status # "none"
    BY <1>0 DEF Active, TaskOK
<1>2. row[t].status # "none" => row'[t].dep = d
    BY <1>0 DEF Lawful
<1>3. d # NoTask /\ row[d].status = "completed" =>
        row'[d].status = "completed" \/ d \in Redone'
    BY <1>0 DEF Lawful
<1>4. Follows(t)'
    <2>1. SUFFICES ASSUME Active(t)', row'[t].dep # NoTask, t \notin note'.late,
                          row'[t].dep \notin Redone'
                   PROVE  row'[row'[t].dep].status = "completed"
        BY DEF Follows, Redone
    <2>2. /\ row[t].status # "none" /\ row'[t].dep = d /\ d # NoTask
          /\ Active(t) \/ DepMet(t)
        BY <1>0, <1>1, <1>2, <2>1 DEF Lawful
    <2>3. row[d].status = "completed"
        BY <1>0, <2>1, <2>2 DEF Follows, DepMet, Grown
    <2> QED
        BY <1>3, <2>1, <2>2, <2>3
<1>5. Waits(t)'
    <2>1. SUFFICES ASSUME row'[t].status = "queued", BehindDead(t)', t \notin note'.late,
                          row'[t].dep \notin note'.unheard \cup Redone'
                   PROVE  row'[t].dep \in Telling'
        BY DEF Waits, Redone, BehindDead
    <2>2. row[t].status # "none" /\ row'[t].dep = d /\ d # NoTask /\ row'[d].status \in Dead
          /\ d \in Tasks /\ t \in Dependents(d)'
        BY <1>0, <1>1, <1>2, <2>1 DEF Lawful, BehindDead, Dependents
    <2>3. row[d].status \notin Dead \/ d \in Telling
        <3>1. CASE row[t].status = "queued"
            BY <1>0, <2>1, <2>2, <3>1 DEF Waits, BehindDead, Grown
        <3>2. CASE row[t].status # "queued"
            <4>1. Active(t)
                BY <1>0, <2>1, <3>2 DEF Lawful
            <4>2. row[d].status = "completed"
                BY <1>0, <2>1, <2>2, <4>1 DEF Follows, Grown
            <4> QED
                BY <4>2 DEF Dead
        <3> QED
            BY <3>1, <3>2
    <2> QED
        BY <1>0, <2>1, <2>2, <2>3 DEF Lawful
<1> QED
    BY <1>4, <1>5

LEMMA CommandKept ==
    ASSUME TypeInv, OpsInv, Orderly, op' = op
    PROVE  CommandOK'
<1>1. op.pc # "idle" => Lawful(op.task)
    BY Typed DEF Orderly
<1> QED
    BY <1>1 DEF OpsInv, CommandOK, Lawful

-----------------------------------------------------------------------------
(* The loops.                                                              *)

\* Who has a task in hand writes what it likes over the row, if it passes the
\* task on to somebody whom that befits, and lets a death be known.
LEMMA HolderStep ==
    ASSUME TypeInv, OpsInv, NEW t \in Tasks, NEW from \in Busy, from \in hands[t],
           NEW to \in SUBSET (Hands \ {"forget"}), PassOn(t, from, to),
           \A u \in Tasks : u # t => row'[u] = row[u] /\ (u \in tree' => u \in tree),
           row'[t].dep = row[t].dep, row'[t].issue = row[t].issue,
           row'[t].status \notin {"none", "cancelled"} \/ row'[t].status = row[t].status,
           op' = op, poll' = poll, up' = up, Grown,
           falling \subseteq falling', single.falling \subseteq single'.falling,
           row'[t].status \in Dead => \/ row'[t].status = row[t].status
                                     \/ t \in falling' \cup single'.falling \cup note'.unheard
                                     \/ Dependents(t)' = {},
           t \notin note.disputed => \A h \in to \cap Busy :
               Fits(h, row'[t].status) /\ \A g \in to \cap Busy : g = h,
           from \in {"setup", "agent"} => to \cap Busy \subseteq {"agent"},
           to \cap Tail # {} => row'[t].status \in Terminal,
           \/ row'[t].status \in {"queued", "working"} \/ row'[t].stamped
           \/ t \in note.disputed
           \/ from \notin {"setup", "agent"} /\ row'[t].stamped = row[t].stamped,
           t \in tree' => \/ row'[t].named \/ row'[t].status = "queued" \/ t \in note'.leaked
                          \/ t \in tree /\ from # "setup" /\ row'[t].named = row[t].named
    PROVE  Orderly /\ CommandOK' /\ \A u \in Tasks : TaskOK(u)'
<1>0. /\ TypeOK /\ TaskOK(t) /\ \A u \in Tasks : TaskOK(u)
      /\ row[t].status # "none" /\ Active(t)
    BY DEF TypeInv, OpsInv, TaskOK, Active
<1>1. /\ hands'[t] = (hands[t] \ {from}) \cup to
      /\ \A u \in Tasks : u # t => hands'[u] = hands[u]
    <2>1. \A u \in Tasks :
            hands'[u] = IF u = t THEN (hands[t] \ {from}) \cup to ELSE hands[u]
        BY ONLY <1>0, Passed, PassOn(t, from, to), t \in Tasks
    <2> QED
        BY ONLY <2>1, t \in Tasks
<1>2. t \notin note.disputed => /\ hands[t] \cap Busy = {from}
                                /\ Fits(from, row[t].status) /\ row[t].status \notin Terminal
                                /\ t \notin note.swept => hands[t] \cap Tail = {}
    <2>1. SUFFICES ASSUME t \notin note.disputed
                   PROVE  /\ hands[t] \cap Busy = {from}
                          /\ Fits(from, row[t].status) /\ row[t].status \notin Terminal
                          /\ t \notin note.swept => hands[t] \cap Tail = {}
        OBVIOUS
    <2>2. hands[t] \cap Busy = {from} /\ Fits(from, row[t].status)
        BY <1>0, <2>1 DEF TaskOK
    <2>3. row[t].status \notin Terminal
        BY <2>2 DEF Fits, Busy, Terminal
    <2> QED
        BY <1>0, <2>1, <2>2, <2>3 DEF TaskOK
<1>3. Lawful(t)
    <2>1. row[t].status \in {"completed", "cancelled"} => t \in Redone'
        BY <1>2 DEF Terminal, Grown, Redone
    <2> QED
        BY <1>0, <2>1 DEF Lawful, Telling
<1>4. Orderly
    <2>1. Telling \subseteq Telling'
        BY DEF Telling
    <2> QED
        BY <1>1, <1>3, <2>1, OneTouched
<1>5. TaskOK(t)'
    <2>1. t \notin note'.disputed => t \notin note.disputed
        BY DEF Grown
    <2>2. t \notin note'.disputed => hands'[t] \cap Busy = to \cap Busy
        BY <1>1, <1>2, <2>1
    <2>3. t \notin note'.disputed /\ t \notin note'.swept =>
            hands'[t] \cap Tail = to \cap Tail /\ "forget" \notin hands'[t]
        BY <1>1, <1>2, <2>1 DEF Grown, Tail
    <2>4. t \notin note'.disputed /\ t \notin note'.swept /\ t \in tree' \ note'.leaked =>
            row'[t].named \/ row'[t].status = "queued"
        <3>1. SUFFICES ASSUME t \notin note'.disputed, t \notin note'.swept,
                              t \in tree, t \notin note'.leaked, from # "setup"
                       PROVE  row[t].named
            BY DEF TaskOK
        <3>2. t \notin note.disputed /\ t \notin note.swept /\ t \notin note.leaked
            BY <3>1 DEF Grown
        <3>3. /\ row[t].status = "working" => "agent" \in hands[t]
              /\ row[t].status # "queued"
            BY <1>2, <3>1, <3>2 DEF Busy, Fits
        <3> QED
            BY <1>0, <3>1, <3>2, <3>3 DEF TaskOK
    <2>5. row'[t].status # "none"
        BY <1>0
    <2>6. ~up' => hands'[t] \cap Busy \subseteq {"setup", "agent"}
        BY <1>0, <1>1 DEF TaskOK
    <2>7. t \notin note'.disputed /\ row'[t].status \notin {"none", "queued", "working"} =>
            row'[t].stamped
        <3>1. SUFFICES ASSUME t \notin note.disputed, from \notin {"setup", "agent"}
                       PROVE  row[t].stamped
            BY <2>1
        <3>2. row[t].status \notin {"none", "queued", "working"}
            BY <1>2, <3>1 DEF Fits, Busy
        <3> QED
            BY <1>0, <3>1, <3>2 DEF TaskOK
    <2> QED
        BY <2>1, <2>2, <2>3, <2>4, <2>5, <2>6, <2>7 DEF TaskOK
<1>6. \A u \in Tasks : TaskOK(u)'
    BY <1>0, <1>1, <1>5, OthersOK
<1> QED
    BY <1>4, <1>6, CommandKept

\* The notes that a step leaves as they are.
LEMMA SameNotes == (UNCHANGED note) => Grown
    BY DEF Grown

LEMMA WorkersKeep ==
    ASSUME TypeInv, OpsInv, NEW t \in Tasks,
           SetUpTree(t) \/ NoChanges(t) \/ OpenPR(t) \/ Proceed(t)
           \/ \E from \in Hands : PutBack(t, from) \/ Again(t, from)
    PROVE  Orderly /\ CommandOK' /\ \A u \in Tasks : TaskOK(u)'
<1> USE DEF Busy, Hands, Tail
<1>0. /\ row \in [Tasks -> Row] /\ hands \in [Tasks -> SUBSET Hands] /\ TaskOK(t)
      /\ Grown /\ op' = op /\ poll' = poll /\ up' = up /\ falling' = falling
      /\ single'.falling = single.falling
    BY Typed, SameNotes DEF OpsInv, SetUpTree, NoChanges, OpenPR, Proceed, Advance, PutBack,
        Again, OnlyLoops, Single
<1>1. CASE SetUpTree(t)
    <2>1. /\ \A u \in Tasks : u # t => row'[u] = row[u] /\ (u \in tree' => u \in tree)
          /\ row'[t].dep = row[t].dep /\ row'[t].issue = row[t].issue
          /\ row'[t].status = row[t].status /\ row'[t].named
        BY <1>0, <1>1 DEF SetUpTree, Row
    <2>2. t \notin note.disputed => row[t].status = "working"
        BY <1>0, <1>1 DEF SetUpTree, TaskOK, Fits
    <2>3. /\ "setup" \in hands[t] /\ PassOn(t, "setup", {"agent"})
          /\ t \notin note.disputed => \A h \in {"agent"} \cap Busy :
               Fits(h, row'[t].status) /\ \A g \in {"agent"} \cap Busy : g = h
          /\ {"agent"} \cap Tail = {} /\ {"agent"} \in SUBSET (Hands \ {"forget"})
          /\ "setup" \in Busy
        BY <1>1, <2>1, <2>2 DEF SetUpTree, Fits
    <2>4. /\ row'[t].status \notin {"none", "cancelled"} \/ row'[t].status = row[t].status
          /\ row'[t].status \in {"queued", "working"} \/ row'[t].stamped
             \/ t \in note.disputed
        BY <2>1, <2>2
    <2> HIDE DEF Busy, Hands, Tail
    <2> QED
        BY <1>0, <2>1, <2>3, <2>4, HolderStep
<1>2. CASE NoChanges(t)
    <2>1. /\ \A u \in Tasks : u # t => row'[u] = row[u]
          /\ row'[t].dep = row[t].dep /\ row'[t].issue = row[t].issue
          /\ row'[t].status = "completed" /\ row'[t].named = row[t].named /\ tree' = tree
          /\ row'[t].stamped
        BY <1>0, <1>2 DEF NoChanges, Row
    <2> QED
        BY <1>0, <1>2, <2>1, HolderStep DEF NoChanges, Terminal, Dead
<1>3. CASE OpenPR(t)
    <2>1. /\ \A u \in Tasks : u # t => row'[u] = row[u]
          /\ row'[t].dep = row[t].dep /\ row'[t].issue = row[t].issue
          /\ row'[t].status = "pr_created" /\ row'[t].named = row[t].named /\ tree' = tree
          /\ row'[t].stamped
        BY <1>0, <1>3 DEF OpenPR, Row
    <2> QED
        BY <1>0, <1>3, <2>1, HolderStep DEF OpenPR, Dead
<1>4. ASSUME NEW from, NEW to, NEW status, from \in Busy \ {"setup", "agent"},
             to \in SUBSET (Hands \ {"forget"}),
             status \in {"reviewing", "reviewed", "ci_passed", "retrying",
                        "pr_created", "completed"},
             Advance(t, from, status, to),
             \/ to = {}
             \/ to = {status} /\ status \in {"reviewing", "ci_passed"}
             \/ to = {"close", "clean"} /\ status = "completed"
      PROVE  Orderly /\ CommandOK' /\ \A u \in Tasks : TaskOK(u)'
    <2>1. /\ \A u \in Tasks : u # t => row'[u] = row[u]
          /\ row'[t].dep = row[t].dep /\ row'[t].issue = row[t].issue
          /\ row'[t].status = status /\ row'[t].named = row[t].named /\ tree' = tree
          /\ row'[t].stamped \/ row'[t].stamped = row[t].stamped
        <3> DEFINE e == row[t].stamped \/ status = "completed"
        <3>1. row' = [row EXCEPT ![t].status = status, ![t].stamped = e] /\ tree' = tree
            BY <1>0, <1>4 DEF Advance, Row
        <3>2. e \/ e = row[t].stamped
            BY <1>0 DEF Row
        <3> HIDE DEF e
        <3> QED
            BY <1>0, <3>1, <3>2 DEF Row
    <2>2. \A h \in to \cap Busy : Fits(h, status) /\ \A g \in to \cap Busy : g = h
        BY <1>4 DEF Fits
    <2>3. to \cap Tail # {} => status \in Terminal
        BY <1>4 DEF Terminal
    <2>4. from \in hands[t] /\ PassOn(t, from, to) /\ status \notin Dead
        BY <1>4 DEF Advance, Dead
    <2> HIDE DEF Busy, Hands, Tail
    <2> QED
        BY <1>0, <1>4, <2>1, <2>2, <2>3, <2>4, HolderStep
<1>5. ASSUME NEW from \in Hands, PutBack(t, from)
      PROVE  Orderly /\ CommandOK' /\ \A u \in Tasks : TaskOK(u)'
    <2>1. from \in {"reviewed", "ci_passed"} /\ from \in hands[t] /\ row' = row /\ tree' = tree
          /\ PassOn(t, from, {})
        BY <1>5 DEF PutBack
    <2> QED
        BY <1>0, <2>1, HolderStep
<1>6. ASSUME NEW from \in Hands, Again(t, from)
      PROVE  Orderly /\ CommandOK' /\ \A u \in Tasks : TaskOK(u)'
    <2>1. /\ \A u \in Tasks : u # t => row'[u] = row[u]
          /\ row'[t].dep = row[t].dep /\ row'[t].issue = row[t].issue
          /\ row'[t].status = "queued" /\ tree' = tree
        BY <1>0, <1>6 DEF Again, Afresh, Row
    <2>2. from \in Busy /\ from \in hands[t] /\ PassOn(t, from, {})
        BY <1>6 DEF Again
    <2> QED
        BY <1>0, <2>1, <2>2, HolderStep DEF Dead
<1>7. CASE Proceed(t)
    <2>1. CASE Advance(t, "listed", "reviewing", {"reviewing"})
        BY <1>4, <2>1
    <2>2. CASE Advance(t, "reviewing", "reviewed", {})
        BY <1>4, <2>2
    <2>3. CASE Advance(t, "reviewed", "ci_passed", {"ci_passed"})
        BY <1>4, <2>3
    <2>4. CASE Advance(t, "reviewed", "retrying", {})
        BY <1>4, <2>4
    <2>5. CASE Advance(t, "retrying", "pr_created", {})
        BY <1>4, <2>5
    <2>6. CASE Advance(t, "ci_passed", "completed", {"close", "clean"})
        BY <1>4, <2>6
    <2> QED
        BY <1>7, <2>1, <2>2, <2>3, <2>4, <2>5, <2>6 DEF Proceed
<1> QED
    BY <1>1, <1>2, <1>3, <1>5, <1>6, <1>7

LEMMA GiveUpKeeps ==
    ASSUME TypeInv, OpsInv, NEW t \in Tasks, NEW from \in Hands, GiveUp(t, from)
    PROVE  Orderly /\ CommandOK' /\ \A u \in Tasks : TaskOK(u)'
<1>0. /\ row \in [Tasks -> Row] /\ hands \in [Tasks -> SUBSET Hands] /\ TaskOK(t)
      /\ note \in Notes /\ op' = op /\ poll' = poll /\ up' = up /\ single \in Single
    BY Typed DEF OpsInv, GiveUp, OnlyLoops
<1>1. /\ \A u \in Tasks : u # t => row'[u] = row[u]
      /\ row'[t].dep = row[t].dep /\ row'[t].issue = row[t].issue
      /\ row'[t].status = "failed" /\ row'[t].named = row[t].named /\ tree' = tree
      /\ \/ row'[t].stamped
         \/ from \notin {"setup", "agent"} /\ row'[t].stamped = row[t].stamped
    <2> DEFINE e == row[t].stamped \/ from \in {"setup", "agent"}
    <2>1. row' = [row EXCEPT ![t].status = "failed", ![t].stamped = e] /\ tree' = tree
        BY <1>0 DEF GiveUp, Row
    <2>2. e \/ (from \notin {"setup", "agent"} /\ e = row[t].stamped)
        BY <1>0 DEF Row
    <2> HIDE DEF e
    <2> QED
        BY <1>0, <2>1, <2>2, StampWritten
<1>2. from \in Busy /\ from \in hands[t]
    BY DEF GiveUp, Busy
<1>3. PICK to \in SUBSET (Hands \ {"forget"}) : PassOn(t, from, to) /\ to \cap Busy = {}
    BY DEF GiveUp, Hands, Busy
<1>4. /\ Grown /\ falling \subseteq falling' /\ single.falling \subseteq single'.falling
      /\ Tells(from) => t \in falling' \cup single'.falling
      /\ ~Tells(from) /\ Dependents(t) # {} => t \in note'.unheard
      /\ from = "setup" /\ t \in tree => t \in note'.leaked
    <2>1. falling \subseteq falling' /\ (Tells(from) /\ ~InDashboard(t, from) => t \in falling')
        BY DEF GiveUp
    <2>2. /\ single.falling \subseteq single'.falling
          /\ InDashboard(t, from) => t \in single'.falling
        BY <1>0 DEF GiveUp, Single
    <2>3. /\ Grown
          /\ ~Tells(from) /\ Dependents(t) # {} => t \in note'.unheard
          /\ from = "setup" /\ t \in tree => t \in note'.leaked
        BY <1>0 DEF GiveUp, Grown, Notes
    <2> QED
        BY <2>1, <2>2, <2>3
<1>5. Dependents(t)' \subseteq Dependents(t)
    BY <1>1 DEF Dependents
<1> QED
    BY <1>0, <1>1, <1>2, <1>3, <1>4, <1>5, HolderStep DEF Terminal

\* Whose status says that nobody has it in hand, or one who is done with it.
LEMMA NotInHand ==
    ASSUME NEW t \in Tasks, TaskOK(t), t \notin note.disputed
    PROVE  /\ row[t].status \in {"none", "queued"} \cup Terminal => hands[t] \cap Busy = {}
           /\ row[t].status \notin Terminal /\ t \notin note.swept => hands[t] \cap Tail = {}
<1>1. \A s \in {"none", "queued"} \cup Terminal, h \in Busy : ~Fits(h, s)
    BY DEF Fits, Busy, Terminal
<1> QED
    BY <1>1 DEF TaskOK

LEMMA Added ==
    ASSUME TypeOK, NEW t \in Tasks, NEW to, PassOn(t, "none", to)
    PROVE  /\ hands'[t] = hands[t] \cup to
           /\ \A u \in Tasks : u # t => hands'[u] = hands[u]
    BY DEF PassOn, TypeOK, Hands

LEMMA ListsKeep ==
    ASSUME TypeInv, OpsInv, NEW t \in Tasks, Claim(t) \/ ListPending(t) \/ ListChecked(t)
    PROVE  Orderly /\ CommandOK' /\ \A u \in Tasks : TaskOK(u)'
<1>0. /\ row \in [Tasks -> Row] /\ TypeOK /\ note \in Notes
      /\ TaskOK(t) /\ \A u \in Tasks : TaskOK(u)
      /\ op' = op /\ poll' = poll /\ falling' = falling /\ tree' = tree
      /\ t \notin note.disputed /\ up /\ up' = up /\ single'.falling = single.falling
    BY Typed DEF TypeInv, OpsInv, Claim, ListPending, ListChecked, OnlyLoops, Followed, Single
<1>1. PICK h \in Busy :
        /\ PassOn(t, "none", {h}) /\ hands[t] \cap Busy = {} /\ Fits(h, row'[t].status)
        /\ \/ row' = row /\ row[t].status \in {"pr_created"} \cup Monitors
           \/ h = "setup" /\ row[t].status = "queued" /\ DepMet(t)
              /\ row' = [row EXCEPT ![t].status = "working"]
    <2>1. CASE Claim(t)
        <3>1. hands[t] \cap Busy = {}
            BY <1>0, <2>1, NotInHand DEF Claim
        <3>2. row'[t].status = "working"
            BY <1>0, <2>1, StatusWritten DEF Claim
        <3> QED
            BY <2>1, <3>1, <3>2 DEF Claim, Fits, Busy
    <2>2. CASE ListPending(t)
        <3>1. hands[t] \cap Busy = {} /\ row' = row /\ row[t].status = "pr_created"
            BY <1>0, <2>2 DEF ListPending, TaskOK, Fits, Busy, Coordinators
        <3> QED
            BY <2>2, <3>1 DEF ListPending, Fits, Busy
    <2>3. CASE ListChecked(t)
        <3>1. hands[t] \cap Busy = {} /\ row' = row /\ row[t].status \in Monitors
            BY <1>0, <2>3 DEF ListChecked, TaskOK, Fits, Busy, Monitors
        <3> QED
            <4>1. row[t].status \in Busy /\ Fits(row[t].status, row[t].status)
                BY <3>1 DEF Fits, Busy, Monitors
            <4>2. /\ PassOn(t, "none", {row[t].status}) /\ Fits(row[t].status, row'[t].status)
                  /\ row[t].status \in {"pr_created"} \cup Monitors
                BY <2>3, <3>1, <4>1 DEF ListChecked
            <4> USE <4>1
            <4> WITNESS row[t].status \in Busy
            <4> QED
                BY <3>1, <4>2
    <2> QED
        BY <2>1, <2>2, <2>3
<1>a. /\ hands'[t] = hands[t] \cup {h}
      /\ \A u \in Tasks : u # t => hands'[u] = hands[u]
    BY <1>0, <1>1, Added
<1>b. Grown
    BY <1>0 DEF Claim, ListPending, ListChecked, Grown, Notes
<1>2. /\ \A u \in Tasks : u # t => row'[u] = row[u]
      /\ row'[t].dep = row[t].dep /\ row'[t].issue = row[t].issue /\ row'[t].named = row[t].named
      /\ \/ row'[t] = row[t] /\ row[t].status \in {"pr_created"} \cup Monitors
         \/ row[t].status = "queued" /\ DepMet(t) /\ row'[t].status = "working"
            /\ h = "setup"
    BY <1>0, <1>1, StatusWritten
<1>3. Lawful(t)
    BY <1>2 DEF Lawful, Active, Monitors, Terminal, Dead
<1>4. Orderly
    <2>1. Telling' = Telling
        BY <1>0 DEF Telling
    <2> QED
        BY <1>0, <1>a, <1>b, <1>2, <1>3, <2>1, OneTouched
<1>5. TaskOK(t)'
    <2>1. hands'[t] \cap Busy = {h}
        BY <1>1, <1>a
    <2>2. t \notin note'.swept => hands'[t] \cap Tail = {}
        <3>1. row[t].status \notin Terminal /\ h \notin Tail
            BY <1>2 DEF Monitors, Terminal, Busy, Tail
        <3> QED
            BY <1>0, <1>a, <1>b, <3>1, NotInHand DEF Grown
    <2>3. t \notin note'.swept /\ t \in tree' \ note'.leaked =>
            \/ row'[t].named
            \/ row'[t].status = "working" /\ "agent" \notin hands'[t]
        <3>1. SUFFICES ASSUME t \notin note'.swept, t \in tree, t \notin note'.leaked,
                              row[t].status # "queued"
                       PROVE  row[t].named
            BY <1>0, <1>2, <2>1 DEF Monitors, Busy
        <3>2. row[t].status \notin {"queued", "working"}
            BY <1>2, <3>1 DEF Monitors
        <3> QED
            BY <1>0, <1>b, <3>1, <3>2 DEF TaskOK, Grown
    <2>4. row'[t].status # "none"
        BY <1>2 DEF Monitors
    <2>5. row'[t].status # "working" => row'[t].stamped
        BY <1>0, <1>2 DEF TaskOK, Monitors
    <2> QED
        BY <1>0, <1>1, <2>1, <2>2, <2>3, <2>4, <2>5 DEF TaskOK, Tail
<1>6. \A u \in Tasks : TaskOK(u)'
    BY <1>0, <1>a, <1>b, <1>2, <1>5, OthersOK
<1> QED
    BY <1>0, <1>4, <1>6, CommandKept

\* Who is done with a task that is over edits its issue.
LEMMA EndsKeep ==
    ASSUME TypeInv, OpsInv, NEW t \in Tasks, Unlabel(t) \/ CloseIssue(t)
    PROVE  Orderly /\ CommandOK' /\ \A u \in Tasks : TaskOK(u)'
<1>0. /\ TypeOK /\ \A u \in Tasks : TaskOK(u)
      /\ UNCHANGED <<op, poll, falling, single, up, tree, row, note>> /\ Grown
    BY SameNotes DEF TypeInv, OpsInv, Unlabel, CloseIssue, OnlyLoops
<1>1. PICK from \in {"unlabel", "close"} : from \in hands[t] /\ PassOn(t, from, {})
    BY DEF Unlabel, CloseIssue
<1>2. \A u \in Tasks : hands'[u] = IF u = t THEN hands[t] \ {from} ELSE hands[u]
    BY <1>0, <1>1 DEF TypeOK, PassOn
<1>3. Orderly
    BY <1>0, <1>2, NoneTouched DEF Active, Telling
<1>4. TaskOK(t)'
    BY <1>0, <1>1, <1>2 DEF TaskOK
<1>5. \A u \in Tasks : TaskOK(u)'
    BY <1>0, <1>2, <1>4, OthersOK
<1> QED
    BY <1>0, <1>3, <1>5, CommandKept

-----------------------------------------------------------------------------
(* The removal of worktrees.                                               *)

LEMMA ArtifactsKeep ==
    ASSUME TypeInv, OpsInv, NEW t \in Tasks,
           SweepCleanup(t) \/ CommandCleanup(t) \/ RemoveTree(t) \/ Forget(t)
    PROVE  Orderly /\ CommandOK' /\ \A u \in Tasks : TaskOK(u)'
<1>0. /\ TypeOK /\ row \in [Tasks -> Row] /\ hands[t] \in SUBSET Hands /\ note \in Notes
      /\ TaskOK(t) /\ \A u \in Tasks : TaskOK(u)
      /\ UNCHANGED <<op, poll, falling, up>> /\ Telling' = Telling
    BY Typed DEF TypeInv, OpsInv, OnlyTrees, SweepCleanup, CommandCleanup, RemoveTree, Forget,
        Telling, Single
<1>1. Grown /\ (~CommandCleanup(t) => note' = note) /\ (CommandCleanup(t) => t \in note'.swept)
    BY <1>0 DEF Grown, Notes, SweepCleanup, CommandCleanup, RemoveTree, Forget
<1>2. PICK from \in {"none", "clean", "forget"}, to \in SUBSET {"clean", "forget"} :
        PassOn(t, from, to)
    BY DEF SweepCleanup, CommandCleanup, RemoveTree, Forget
<1>3. /\ \A u \in Tasks : u # t => row'[u] = row[u] /\ (u \in tree' => u \in tree)
                                   /\ hands'[u] = hands[u]
      /\ hands'[t] \cap Busy = hands[t] \cap Busy
    <2>1. \A u \in Tasks : u # t => row'[u] = row[u] /\ (u \in tree' => u \in tree)
        BY <1>0 DEF SweepCleanup, CommandCleanup, RemoveTree, Forget
    <2>2. \A u \in Tasks : hands'[u] = IF u = t THEN (hands[t] \ {from}) \cup to ELSE hands[u]
        BY <1>0, <1>2, Passed
    <2>3. from \notin Busy /\ to \cap Busy = {}
        BY DEF Busy
    <2> QED
        BY <2>1, <2>2, <2>3
<1>4. /\ row'[t].status = row[t].status /\ row'[t].pr = row[t].pr
      /\ row'[t].dep = row[t].dep /\ row'[t].issue = row[t].issue
      /\ row'[t].stamped = row[t].stamped
    BY <1>0 DEF SweepCleanup, CommandCleanup, RemoveTree, Forget, Row
<1>5. Lawful(t)
    <2>1. Active(t)' <=> Active(t)
        BY <1>3, <1>4 DEF Active
    <2> QED
        BY <1>0, <1>1, <1>4, <2>1 DEF Lawful, Redone, Grown, Dependents
<1>6. Orderly
    BY <1>0, <1>1, <1>3, <1>5, OneTouched
<1>7. TaskOK(t)'
    <2>1. row[t].status # "none"
        BY <1>0 DEF SweepCleanup, Cleanable, CommandCleanup, RemoveTree, Forget, TaskOK, Terminal
    <2>2. t \notin note'.disputed => t \notin note.disputed
        BY <1>1 DEF Grown
    <2>3. SUFFICES ASSUME t \notin note'.disputed, t \notin note'.swept
                   PROVE  /\ hands'[t] \cap Tail # {} => row'[t].status \in Terminal
                          /\ "forget" \in hands'[t] => t \notin tree'
                          /\ t \in tree' \ note'.leaked =>
                               \/ row'[t].named \/ row'[t].status = "queued"
                               \/ row'[t].status = "working" /\ "agent" \notin hands'[t]
        BY <1>0, <1>3, <1>4, <2>1, <2>2 DEF TaskOK
    <2>4. t \notin note.disputed /\ t \notin note.swept /\ note' = note
        BY <1>1, <2>3 DEF Grown
    <2>5. CASE SweepCleanup(t)
        <3>1. /\ hands[t] = {} /\ PassOn(t, "none", {"clean"})
              /\ row' = row /\ row[t].named /\ row[t].status \in Terminal
            BY <2>5 DEF SweepCleanup, Cleanable
        <3>2. hands'[t] = hands[t] \cup {"clean"}
            BY <1>0, <3>1, Added
        <3> QED
            BY <3>1, <3>2
    <2>6. CASE RemoveTree(t)
        <3>1. "clean" \in hands[t] /\ row' = row /\ t \notin tree'
            BY <2>6 DEF RemoveTree
        <3> QED
            BY <1>0, <2>4, <3>1 DEF TaskOK, Tail
    <2>7. CASE Forget(t)
        <3>1. "forget" \in hands[t] /\ tree' = tree
            BY <2>7 DEF Forget
        <3> QED
            BY <1>0, <1>4, <2>4, <3>1 DEF TaskOK, Tail
    <2> QED
        BY <1>1, <2>3, <2>5, <2>6, <2>7
<1>8. \A u \in Tasks : TaskOK(u)'
    BY <1>0, <1>1, <1>3, <1>7, OthersOK
<1> QED
    BY <1>0, <1>6, <1>8, CommandKept

-----------------------------------------------------------------------------
(* The poller.                                                             *)

\* Who reads, or edits an issue, leaves the tasks alone.
LEMMA TasksStay ==
    ASSUME TypeInv, OpsInv, UNCHANGED <<row, hands, falling, single, tree, up>>, Grown,
           op.fell \subseteq op'.fell,
           \A i \in poll'.todo : i \in poll.todo \/ ~Exists(i)
    PROVE  Orderly /\ \A u \in Tasks : TaskOK(u)'
<1>1. Orderly
    BY NoneTouched DEF Active, Telling
<1> QED
    BY <1>1, OthersOK DEF OpsInv

\* Of a number that is not given out there is nothing.
LEMMA CreatedKeeps ==
    ASSUME TypeInv, OpsInv, NEW t \in Tasks, row[t].status = "none",
           NEW i, NEW d, row' = [row EXCEPT ![t] = NewRow(i, d)],
           Grown, UNCHANGED <<hands, falling, single, tree, op, up>>, poll'.todo \subseteq poll.todo,
           i \in {NoIssue} \cup note'.twice \cup (poll.todo \ poll'.todo),
           d # NoTask /\ row[d].status \in Dead => t \in note'.late
    PROVE  Orderly /\ CommandOK' /\ \A u \in Tasks : TaskOK(u)'
<1>0. /\ row \in [Tasks -> Row] /\ \A u \in Tasks : TaskOK(u)
      /\ hands[t] = {}
    BY Typed DEF OpsInv, TaskOK
<1>1. /\ \A u \in Tasks : u # t => row'[u] = row[u]
      /\ row'[t].status = "queued" /\ row'[t].dep = d /\ row'[t].issue = i
    BY <1>0 DEF NewRow
<1>2. BehindDead(t)' => t \in note'.late
    BY <1>1, TasksAre DEF BehindDead, Dead
<1>3. Lawful(t)
    BY <1>0, <1>1, <1>2 DEF Lawful, Active, Dead
<1>4. Orderly
    BY <1>1, <1>3, OneTouched DEF Telling
<1>5. TaskOK(t)'
    BY <1>0, <1>1 DEF TaskOK, Tail
<1>6. \A u \in Tasks : TaskOK(u)'
    BY <1>0, <1>1, <1>5, OthersOK
<1> QED
    BY <1>4, <1>6, CommandKept

\* A hold is set or cleared, and that is all.
LEMMA HoldKeeps ==
    ASSUME TypeInv, OpsInv, NEW t \in Tasks, NEW b, row' = [row EXCEPT ![t].held = b],
           Grown, UNCHANGED <<hands, falling, single, tree, up>>, op.fell \subseteq op'.fell,
           poll'.todo \subseteq poll.todo
    PROVE  /\ Orderly /\ \A u \in Tasks : TaskOK(u)'
           /\ \A u \in Tasks : row'[u].status = row[u].status
<1>0. /\ row \in [Tasks -> Row] /\ \A u \in Tasks : TaskOK(u)
    BY Typed DEF OpsInv
<1>1. /\ \A u \in Tasks : u # t => row'[u] = row[u]
      /\ row'[t].status = row[t].status /\ row'[t].pr = row[t].pr
      /\ row'[t].dep = row[t].dep /\ row'[t].issue = row[t].issue
      /\ row'[t].named = row[t].named /\ row'[t].stamped = row[t].stamped
    BY <1>0 DEF Row
<1>2. Lawful(t)
    <2>1. Telling \subseteq Telling'
        BY DEF Telling
    <2>2. row'[t].status \in Dead /\ row[t].status \notin Dead => FALSE
        BY <1>1
    <2>3. Active(t)' <=> Active(t)
        BY <1>1 DEF Active
    <2> QED
        BY <1>1, <2>1, <2>2, <2>3 DEF Lawful
<1>3. Orderly
    BY <1>1, <1>2, OneTouched DEF Telling
<1>4. TaskOK(t)'
    BY <1>0, <1>1 DEF TaskOK, Grown
<1> QED
    BY <1>0, <1>1, <1>3, <1>4, OthersOK

LEMMA IntakeKeeps ==
    ASSUME TypeInv, OpsInv, PollerStep
    PROVE  Orderly /\ CommandOK' /\ \A u \in Tasks : TaskOK(u)'
<1>0. /\ TypeOK /\ row \in [Tasks -> Row] /\ note \in Notes /\ poll \in Poller
      /\ \A u \in Tasks : TaskOK(u)
      /\ UNCHANGED <<hands, falling, single, tree, op, up>>
    BY Typed DEF TypeInv, OpsInv, PollerStep, Poll, ClaimIssue, SetGate, PollDone,
        CreateFromIssue, OnlyPoller
<1>1. CASE Poll \/ ClaimIssue \/ PollDone
    <2>1. UNCHANGED <<row, note>> /\ Grown
        BY <1>1, SameNotes DEF Poll, ClaimIssue, PollDone
    <2>2. \A i \in poll'.todo : i \in poll.todo \/ ~Exists(i)
        <3>1. CASE Poll
            <4>1. PICK new \in SUBSET {i \in Issues : Listed(i) /\ ~Exists(i)} :
                    \E plan : poll' = [IdlePoll EXCEPT !.pc = "create", !.todo = new,
                                                       !.plan = plan]
                BY <3>1 DEF Poll
            <4> QED
                BY <4>1 DEF IdlePoll
        <3>2. CASE ClaimIssue
            BY <1>0, <3>2 DEF ClaimIssue, Poller
        <3>3. CASE PollDone
            BY <3>3 DEF PollDone, IdlePoll
        <3> QED
            BY <1>1, <3>1, <3>2, <3>3
    <2> QED
        BY <1>0, <2>1, <2>2, TasksStay, CommandKept
<1>2. CASE SetGate
    <2>1. PICK t \in Tasks : row' = [row EXCEPT ![t].held = TRUE]
        BY <1>0, <1>2 DEF SetGate, TypeInv, InHand
    <2>2. UNCHANGED <<note, tree>> /\ Grown /\ poll'.todo = poll.todo
        BY <1>0, <1>2, SameNotes DEF SetGate, Poller
    <2> QED
        BY <1>0, <2>1, <2>2, HoldKeeps, CommandKept
<1>3. ASSUME NEW i \in Issues, CreateFromIssue(i)
      PROVE  Orderly /\ CommandOK' /\ \A u \in Tasks : TaskOK(u)'
    <2>1. PICK t \in Tasks, d \in poll.made \cup {NoTask} :
            /\ IsFree(t) /\ row' = [row EXCEPT ![t] = NewRow(i, d)]
            /\ poll'.todo = poll.todo \ {i}
            /\ note' = [note EXCEPT
                 !.twice = IF i \in poll.todo THEN @ ELSE @ \cup {i},
                 !.late  = IF d # NoTask /\ row[d].status \in Dead THEN @ \cup {t} ELSE @]
        BY <1>0, <1>3 DEF CreateFromIssue, Poller
    <2>2. row[t].status = "none"
        BY <2>1 DEF IsFree, Unused
    <2>3. /\ Grown /\ i \in note'.twice \cup (poll.todo \ poll'.todo)
          /\ d # NoTask /\ row[d].status \in Dead => t \in note'.late
        BY <1>0, <2>1 DEF Grown, Notes
    <2> QED
        BY <1>0, <2>1, <2>2, <2>3, CreatedKeeps
<1> QED
    BY <1>1, <1>2, <1>3 DEF PollerStep

-----------------------------------------------------------------------------
(* A cascade, the operator's or a loop's.                                  *)

LEMMA CascadeKeeps ==
    ASSUME TypeInv, OpsInv, NEW u \in Tasks, CascadeFrom(u), Leaking(Dependents(u) \cap tree),
           UNCHANGED <<hands, tree, poll, up>>,
           Telling \subseteq {u} \cup Telling', Dependents(u) \subseteq Telling'
    PROVE  /\ Orderly /\ \A t \in Tasks : TaskOK(t)'
           /\ \A t \in Tasks : row[t].status # "none" => row'[t].status # "none"
<1>0. /\ row \in [Tasks -> Row] /\ note \in Notes /\ \A t \in Tasks : TaskOK(t)
    BY Typed DEF OpsInv
<1>1. \A t \in Tasks :
        /\ row'[t].dep = row[t].dep /\ row'[t].issue = row[t].issue
        /\ row'[t].named = row[t].named /\ row'[t].pr = row[t].pr
        /\ \/ row[t].status = "queued" /\ row'[t].status = "failed" /\ t \in Dependents(u)
              /\ row'[t].stamped
           \/ row'[t] = row[t] /\ t \notin Dependents(u)
    BY <1>0 DEF CascadeFrom, Dependents, Row
<1>2. /\ Grown /\ Dependents(u) \cap tree \subseteq note'.leaked
      /\ note'.disputed = note.disputed /\ note'.swept = note.swept
    BY <1>0 DEF Leaking, Grown, Notes
<1>3. Dependents(u)' = {}
    BY <1>1 DEF Dependents
<1>4. ASSUME NEW t \in Tasks PROVE Lawful(t)
    <2>1. t \in Telling => t \in Telling' \/ Dependents(t)' = {}
        BY <1>3
    <2>2. CASE row'[t] = row[t]
        <3>1. Active(t)' <=> Active(t)
            BY <2>2 DEF Active
        <3> QED
            BY <2>1, <2>2, <3>1 DEF Lawful
    <2>3. CASE row[t].status = "queued" /\ row'[t].status = "failed" /\ t \in Dependents(u)
        <3>1. Active(t)' => Active(t)
            BY <2>3 DEF Active, Terminal
        <3> QED
            BY <1>1, <2>3, <3>1 DEF Lawful
    <2> QED
        BY <1>1, <2>2, <2>3
<1>5. Orderly
    BY <1>2, <1>4 DEF Orderly
<1>6. ASSUME NEW t \in Tasks PROVE TaskOK(t)'
    <2>1. CASE row'[t] = row[t]
        BY <1>0, <1>2, <2>1, OthersOK
    <2>2. CASE row[t].status = "queued" /\ row'[t].status = "failed" /\ t \in Dependents(u)
        <3>1. t \notin note.disputed => hands[t] \cap Busy = {}
            BY <1>0, <2>2, NotInHand
        <3> QED
            BY <1>0, <1>1, <1>2, <2>2, <3>1 DEF TaskOK, Terminal
    <2> QED
        BY <1>1, <2>1, <2>2
<1>7. \A t \in Tasks : row[t].status # "none" => row'[t].status # "none"
    BY <1>1
<1> QED
    BY <1>5, <1>6, <1>7

-----------------------------------------------------------------------------
(* The operator.                                                           *)

\* A command writes over a row: it is what the command has read, and in
\* nobody's hands, or disputed from now on.
LEMMA WriterStep ==
    ASSUME TypeInv, OpsInv, NEW t \in Tasks, row[t].status # "none", row'[t].status # "none",
           \A u \in Tasks : u # t => row'[u] = row[u] /\ hands'[u] = hands[u],
           row'[t].dep = row[t].dep, row'[t].issue = row[t].issue,
           Grown, UNCHANGED <<falling, tree, poll, up>>, op.fell \subseteq op'.fell,
           single'.falling = single.falling,
           row'[t].status \notin {"queued", "working"} => row'[t].stamped,
           Disputed(t) => t \in note'.disputed,
           t \notin Redone' => row[t].status \notin {"completed", "cancelled"},
           row'[t].status = "cancelled" => op'.pc = "cascade",
           Active(t)' => Active(t) \/ t \in note'.late \/ DepMet(t),
           row'[t].status = "queued" /\ BehindDead(t) => t \in note'.late,
           row'[t].status \in Dead => t \in op'.fell,
           \/ hands'[t] = hands[t]
           \/ hands'[t] = hands[t] \cup {"setup"} /\ row'[t].status = "working",
           t \in tree => \/ t \in note'.leaked \/ row'[t].status = "queued"
                         \/ row'[t].status = "working" \/ row'[t].named
    PROVE  Orderly /\ \A u \in Tasks : TaskOK(u)'
<1>0. TaskOK(t) /\ \A u \in Tasks : TaskOK(u)
    BY DEF OpsInv
<1>1. Lawful(t)
    <2>1. row'[t].status = "queued" => t \in note'.late \/ ~BehindDead(t)'
        <3>1. row[t].dep # NoTask => row[t].dep \in Tasks
            BY Typed, TasksOf
        <3> QED
            BY <3>1 DEF BehindDead, Dead
    <2> QED
        BY <2>1 DEF Lawful, Telling
<1>2. Orderly
    BY <1>1, OneTouched DEF Telling
<1>3. TaskOK(t)'
    <2>1. SUFFICES ASSUME t \notin note'.disputed PROVE TaskOK(t)'
        BY <1>0 DEF TaskOK
    <2>2. hands[t] = {} /\ t \notin note.disputed
        BY <2>1 DEF Disputed, Grown
    <2>3. \A h \in hands'[t] : h = "setup" /\ row'[t].status = "working"
        BY <2>2
    <2>4. t \notin note'.swept /\ t \in tree' \ note'.leaked =>
            \/ row'[t].named \/ row'[t].status = "queued"
            \/ row'[t].status = "working" /\ "agent" \notin hands'[t]
        BY <1>0, <2>2, <2>3 DEF TaskOK, Grown
    <2>5. ~up' => hands'[t] \cap Busy \subseteq {"setup", "agent"}
        BY <2>3
    <2> QED
        BY <2>3, <2>4, <2>5 DEF TaskOK, Fits, Tail
<1> QED
    BY <1>0, <1>2, <1>3, OthersOK

LEMMA Noted ==
    ASSUME NEW t \in Tasks, NEW extra \in Notes, Noting(t, extra)
    PROVE  /\ extra.disputed \subseteq note'.disputed
           /\ Disputed(t) => t \in note'.disputed
           /\ note'.revived = extra.revived /\ note'.late = extra.late
           /\ note'.unheard = extra.unheard /\ note'.leaked = extra.leaked
           /\ note'.swept = extra.swept /\ note'.twice = extra.twice
    BY DEF Noting, Notes

LEMMA CancelKeeps ==
    ASSUME TypeInv, OpsInv, WriteCancelled
    PROVE  Orderly /\ CommandOK' /\ \A u \in Tasks : TaskOK(u)'
<1>t. PICK t \in Tasks : t = op.task
    BY Typed DEF WriteCancelled
<1> DEFINE extra == [note EXCEPT
             !.leaked = IF row[t].named THEN @ ELSE @ \cup ({t} \cap tree)]
<1>0. /\ row \in [Tasks -> Row] /\ note \in Notes /\ op \in Operator
      /\ row[t].status # "none" /\ CommandOK
      /\ op.pc = "write" /\ op.kind \in {"cancel", "reject"}
      /\ UNCHANGED <<poll, hands, falling, single, tree, up>>
    BY <1>t, Typed DEF OpsInv, CommandOK, WriteCancelled, OnlyOperator
<1>1. /\ \A u \in Tasks : u # t => row'[u] = row[u]
      /\ row'[t].dep = row[t].dep /\ row'[t].issue = row[t].issue
      /\ row'[t].status = "cancelled" /\ row'[t].named = row[t].named
      /\ row'[t].stamped
    BY <1>0, <1>t DEF WriteCancelled, Row
<1>2. op'.pc = "cascade" /\ op'.fell = {t} /\ op'.task = t
    BY <1>0, <1>t DEF WriteCancelled, Operator
<1>3. op.fell = {} /\ op.seen \notin {"completed", "cancelled"}
    BY <1>0 DEF CommandOK
<1>4. /\ extra \in Notes /\ Noting(t, extra)
      /\ ~row[t].named /\ t \in tree => t \in extra.leaked
      /\ note.leaked \subseteq extra.leaked
      /\ extra.disputed = note.disputed /\ extra.revived = note.revived
      /\ extra.late = note.late /\ extra.unheard = note.unheard
      /\ extra.swept = note.swept /\ extra.twice = note.twice
    BY <1>0, <1>t DEF WriteCancelled, Notes
<1> HIDE DEF extra
<1>5. /\ Grown
      /\ Disputed(t) => t \in note'.disputed
      /\ ~row[t].named /\ t \in tree => t \in note'.leaked
    BY <1>0, <1>4, Noted DEF Grown
<1>6. t \notin Redone' => row[t].status \notin {"completed", "cancelled"}
    BY <1>3, <1>5 DEF Redone, Disputed
<1>7. Active(t)' => Active(t)
    BY <1>0, <1>1 DEF Active, Terminal
<1>8. CommandOK'
    BY <1>0, <1>1, <1>2 DEF CommandOK
<1>9. /\ row'[t].status \notin {"none", "queued"} /\ op.fell \subseteq op'.fell
      /\ row'[t].status \in Dead => t \in op'.fell
      /\ t \in tree => t \in note'.leaked \/ row'[t].named
      /\ row'[t].stamped
      /\ UNCHANGED <<falling, single, tree, poll, up>>
      /\ \A u \in Tasks : u # t => row'[u] = row[u] /\ hands'[u] = hands[u]
      /\ hands'[t] = hands[t] /\ op'.pc = "cascade"
    BY <1>0, <1>1, <1>2, <1>3, <1>5
<1>10. Orderly /\ \A u \in Tasks : TaskOK(u)'
    BY <1>0, <1>1, <1>2, <1>5, <1>6, <1>7, <1>9, WriterStep
<1> QED
    BY <1>8, <1>10

LEMMA RequeueKeeps ==
    ASSUME TypeInv, OpsInv, WriteQueued \/ ResetFailed
    PROVE  Orderly /\ CommandOK' /\ \A u \in Tasks : TaskOK(u)'
<1>t. PICK t \in Tasks : t = op.task
    BY Typed DEF WriteQueued, ResetFailed
<1>0. /\ row \in [Tasks -> Row] /\ note \in Notes /\ op \in Operator
      /\ row[t].status # "none" /\ CommandOK
      /\ op.pc \in {"write", "reset"}
      /\ UNCHANGED <<poll, hands, falling, single, tree, up>>
    BY <1>t, Typed DEF OpsInv, CommandOK, WriteQueued, ResetFailed, OnlyOperator
<1>1. /\ \A u \in Tasks : u # t => row'[u] = row[u]
      /\ row'[t].dep = row[t].dep /\ row'[t].issue = row[t].issue
      /\ row'[t].status = "queued"
    <2>1. PICK b, q : row' = [row EXCEPT ![t] =
                        [Afresh(row[t]) EXCEPT !.held = b, !.pid = q, !.stamped = FALSE]]
        <3>1. CASE WriteQueued
            <4>1. row' = [row EXCEPT ![t] = [Afresh(row[t]) EXCEPT
                            !.held = op.kind = "edit" /\ row[t].held,
                            !.pid  = op.kind = "edit" /\ row[t].pid, !.stamped = FALSE]]
                BY <1>t, <1>0, <3>1 DEF WriteQueued
            <4> QED
                BY <4>1
        <3>2. CASE ResetFailed
            <4>1. row' = [row EXCEPT ![t] =
                        [Afresh(row[t]) EXCEPT !.held = FALSE, !.pid = FALSE, !.stamped = FALSE]]
                BY <1>t, <1>0, <3>2 DEF ResetFailed
            <4> QED
                BY <4>1
        <3> QED
            BY <3>1, <3>2
    <2> QED
        BY <1>0, <2>1 DEF Afresh, Row
<1>2. /\ op.fell = {} /\ op'.fell = {} /\ op'.pc # "cascade"
      /\ op.pc = "reset" => op'.kind = "dispatch" /\ op'.task = t /\ op'.pc = "write"
                            /\ op'.seen = "queued"
      /\ op.pc = "write" => op' = IdleOp
    <2>1. op.fell = {}
        BY <1>0 DEF CommandOK
    <2>2. CASE WriteQueued
        BY <2>1, <2>2 DEF WriteQueued, IdleOp
    <2>3. CASE ResetFailed
        <3>1. /\ op' = [op EXCEPT !.pc = "write", !.seen = "queued"]
              /\ op.pc = "reset" /\ op.kind = "dispatch"
            BY <1>0, <2>3 DEF ResetFailed, CommandOK
        <3> QED
            BY <1>0, <1>t, <2>1, <3>1 DEF Operator
    <2> QED
        BY <2>2, <2>3
<1>3. PICK extra \in Notes :
        /\ Noting(t, extra)
        /\ op.kind = "requeue" /\ op.pc = "write" /\ op.seen \in {"completed", "cancelled"}
             => t \in extra.revived
        /\ BehindDead(t) => t \in extra.late
        /\ note.revived \subseteq extra.revived /\ note.late \subseteq extra.late
        /\ extra.disputed = note.disputed /\ extra.leaked = note.leaked
        /\ extra.unheard = note.unheard /\ extra.swept = note.swept /\ extra.twice = note.twice
    <2>1. CASE WriteQueued
        <3> DEFINE extra == [note EXCEPT
              !.revived = IF op.seen \in {"completed", "cancelled"} THEN @ \cup {t} ELSE @,
              !.late = IF BehindDead(t) THEN @ \cup {t} ELSE @,
              !.consent = IF op.kind = "requeue" THEN @ \cup {t} ELSE @]
        <3>1. Noting(t, extra)
            BY <1>t, <2>1 DEF WriteQueued
        <3>2. extra \in Notes
            BY <1>0 DEF Notes
        <3> QED
            BY <1>0, <3>1, <3>2 DEF Notes
    <2>2. CASE ResetFailed
        <3> DEFINE extra == [note EXCEPT
              !.consent = @ \cup {t}, !.late = IF BehindDead(t) THEN @ \cup {t} ELSE @]
        <3>1. Noting(t, extra) /\ op.pc = "reset"
            BY <1>t, <2>2 DEF ResetFailed
        <3>2. extra \in Notes
            BY <1>0 DEF Notes
        <3> QED
            BY <1>0, <3>1, <3>2 DEF Notes
    <2> QED
        BY <2>1, <2>2
<1>4. /\ Grown
      /\ Disputed(t) => t \in note'.disputed
      /\ BehindDead(t) => t \in note'.late
      /\ extra.revived \subseteq note'.revived
    BY <1>3, Noted DEF Grown
<1>5. t \notin Redone' => row[t].status \notin {"completed", "cancelled"}
    <2>1. op.seen \in {"completed", "cancelled"} =>
            op.pc = "write" /\ op.kind \in {"requeue", "approve"}
        BY <1>0 DEF CommandOK
    <2>2. op.pc = "write" => op.kind # "approve"
        BY DEF WriteQueued, ResetFailed
    <2>3. op.seen \in {"completed", "cancelled"} => t \in note'.revived
        BY <1>3, <1>4, <2>1, <2>2
    <2> QED
        BY <1>4, <2>3 DEF Redone, Disputed
<1>6. Active(t)' => Active(t)
    BY <1>0, <1>1 DEF Active
<1>7. CommandOK'
    BY <1>0, <1>1, <1>2 DEF CommandOK, IdleOp
<1>8. /\ \A u \in Tasks : u # t => row'[u] = row[u] /\ hands'[u] = hands[u]
      /\ row'[t].status \notin {"none", "cancelled"} \cup Dead
      /\ hands'[t] = hands[t] /\ op.fell \subseteq op'.fell
    BY <1>0, <1>1, <1>2 DEF Dead
<1>9. Orderly /\ \A u \in Tasks : TaskOK(u)'
    BY <1>0, <1>1, <1>4, <1>5, <1>6, <1>8, WriterStep
<1> QED
    BY <1>7, <1>9

LEMMA DispatchKeeps ==
    ASSUME TypeInv, OpsInv, WriteDispatched
    PROVE  Orderly /\ CommandOK' /\ \A u \in Tasks : TaskOK(u)'
<1>t. PICK t \in Tasks : t = op.task
    BY Typed DEF WriteDispatched
<1> DEFINE extra == [note EXCEPT
      !.consent = @ \cup {t}, !.late = IF row[t].dep # NoTask THEN @ \cup {t} ELSE @]
<1>0. /\ row \in [Tasks -> Row] /\ hands \in [Tasks -> SUBSET Hands] /\ note \in Notes
      /\ row[t].status # "none" /\ CommandOK
      /\ op.pc = "write" /\ op.kind = "dispatch" /\ op' = IdleOp
      /\ UNCHANGED <<poll, falling, tree, up>> /\ single'.falling = single.falling
    BY <1>t, Typed DEF OpsInv, CommandOK, WriteDispatched, OnlyOperator, Single
<1>1. /\ \A u \in Tasks : u # t => row'[u] = row[u] /\ hands'[u] = hands[u]
      /\ row'[t].dep = row[t].dep /\ row'[t].issue = row[t].issue
      /\ row'[t].status = "working" /\ hands'[t] = hands[t] \cup {"setup"}
    BY <1>0, <1>t DEF WriteDispatched, Row
<1>2. /\ op.fell = {} /\ op'.fell = {} /\ op'.pc = "idle"
      /\ op.seen \notin {"completed", "cancelled"}
    BY <1>0 DEF CommandOK, IdleOp
<1>3. /\ extra \in Notes /\ Noting(t, extra)
      /\ row[t].dep # NoTask => t \in extra.late
      /\ note.late \subseteq extra.late
      /\ extra.revived = note.revived /\ extra.disputed = note.disputed
      /\ extra.leaked = note.leaked /\ extra.unheard = note.unheard
      /\ extra.swept = note.swept /\ extra.twice = note.twice
    BY <1>0, <1>t DEF WriteDispatched, Notes
<1> HIDE DEF extra
<1>4. /\ Grown
      /\ Disputed(t) => t \in note'.disputed
      /\ row[t].dep # NoTask => t \in note'.late
    BY <1>3, Noted DEF Grown
<1>5. t \notin Redone' => row[t].status \notin {"completed", "cancelled"}
    BY <1>2, <1>4 DEF Redone, Disputed
<1>6. t \in note'.late \/ DepMet(t)
    BY <1>4 DEF DepMet
<1>7. CommandOK'
    BY <1>2 DEF CommandOK
<1>8. /\ row'[t].status \notin {"none", "cancelled", "queued"} \cup Dead
      /\ op.fell \subseteq op'.fell /\ "setup" \in hands'[t]
    BY <1>1, <1>2 DEF Dead
<1>9. Orderly /\ \A u \in Tasks : TaskOK(u)'
    BY <1>0, <1>1, <1>4, <1>5, <1>6, <1>8, WriterStep
<1> QED
    BY <1>7, <1>9

LEMMA ReadKeeps ==
    ASSUME TypeInv, OpsInv, NEW kind \in AllKinds, NEW t \in Tasks, ReadTask(kind, t)
    PROVE  Orderly /\ CommandOK' /\ \A u \in Tasks : TaskOK(u)'
<1>0. /\ CommandOK /\ op.pc = "idle"
      /\ UNCHANGED <<row, hands, falling, single, tree, poll, up, note>> /\ Grown
    BY SameNotes DEF OpsInv, ReadTask, OnlyOperator
<1>1. /\ op'.pc = FirstStep(kind, row[t].status) /\ op'.kind = kind /\ op'.task = t
      /\ op'.seen = row[t].status /\ op'.fell = {}
      /\ row[t].status \in Accepts(kind)
    BY DEF ReadTask, IdleOp
<1>2. /\ op'.pc \in {"kill", "reset", "write"}
      /\ op'.pc = "reset" => kind = "dispatch"
    BY <1>1 DEF FirstStep
<1>3. /\ kind = "cancel" => row[t].status \in {"queued", "working", "reviewing", "retrying"}
      /\ kind = "reject" => row[t].status \in {"working", "pr_created", "reviewing",
                                               "reviewed", "ci_passed"}
      /\ kind = "requeue" => row[t].status \in Terminal
      /\ kind = "edit" => row[t].status = "failed"
      /\ kind = "dispatch" => row[t].status \in {"queued", "failed"}
      /\ kind = "approve" => row[t].status \in Status \ {"none"}
      /\ kind \notin {"create", "cleanup"}
    BY <1>1 DEF Accepts
<1>4. CommandOK'
    BY <1>0, <1>1, <1>2, <1>3 DEF CommandOK, AllKinds, Terminal
<1>5. op.fell \subseteq op'.fell
    BY <1>0, <1>1 DEF CommandOK
<1> QED
    BY <1>0, <1>4, <1>5, TasksStay

LEMMA OperatorKeeps ==
    ASSUME TypeInv, OpsInv, OperatorStep
    PROVE  Orderly /\ CommandOK' /\ \A u \in Tasks : TaskOK(u)'
<1>0. /\ row \in [Tasks -> Row] /\ op \in Operator /\ CommandOK /\ poll' = poll /\ up' = up
      /\ op.pc # "idle" => op.task \in Tasks
    BY Typed DEF OpsInv, OperatorStep, ReadTask, SignalAgent, WriteCancelled,
        CascadeCancelled, RestoreLabels, WriteQueued, ResetFailed, WriteDispatched,
        WriteApproved, CreateManually, OnlyOperator
<1>1. CASE SignalAgent \/ RestoreLabels
    <2>1. UNCHANGED <<row, hands, falling, single, tree, note>> /\ Grown
        BY <1>1, SameNotes DEF SignalAgent, RestoreLabels
    <2>2. /\ op.fell = {} /\ op.pc # "idle"
          /\ op' = IdleOp \/ (op.pc = "kill" /\ op' = [op EXCEPT !.pc = "write"])
        BY <1>0, <1>1 DEF SignalAgent, RestoreLabels, CommandOK
    <2>3. CASE op' = IdleOp
        BY <1>0, <2>1, <2>2, <2>3, TasksStay DEF IdleOp, CommandOK
    <2>4. CASE op.pc = "kill" /\ op' = [op EXCEPT !.pc = "write"]
        <3>1. /\ op'.pc = "write" /\ op'.kind = op.kind /\ op'.task = op.task
              /\ op'.seen = op.seen /\ op'.fell = op.fell
            BY <1>0, <2>4 DEF Operator
        <3>2. CommandOK'
            BY <1>0, <2>1, <2>4, <3>1 DEF CommandOK
        <3> QED
            BY <1>0, <2>1, <3>1, <3>2, TasksStay
    <2> QED
        BY <2>2, <2>3, <2>4
<1>2. CASE WriteApproved
    <2>1. PICK t \in Tasks : row' = [row EXCEPT ![t].held = FALSE]
        BY <1>0, <1>2 DEF WriteApproved
    <2>2. /\ UNCHANGED <<hands, falling, single, tree>> /\ op' = IdleOp
          /\ op.fell = {} /\ Grown
        BY <1>0, <1>2, Typed DEF WriteApproved, CommandOK, Grown, Notes
    <2>3. CommandOK'
        BY <2>2 DEF CommandOK, IdleOp
    <2>4. Orderly /\ \A u \in Tasks : TaskOK(u)'
        BY <1>0, <2>1, <2>2, HoldKeeps
    <2> QED
        BY <2>3, <2>4
<1>3. ASSUME NEW u \in Tasks, CascadeCancelled(u)
      PROVE  Orderly /\ CommandOK' /\ \A t \in Tasks : TaskOK(t)'
    <2>1. /\ op.pc = "cascade" /\ CascadeFrom(u) /\ Leaking(Dependents(u) \cap tree)
          /\ UNCHANGED <<hands, falling, single, tree>>
          /\ op'.fell = (op.fell \ {u}) \cup Dependents(u) /\ op'.task = op.task
          /\ op'.pc = "cascade" \/ (op'.pc = "label" /\ op'.fell = {})
        BY <1>0, <1>3 DEF CascadeCancelled, Operator
    <2>2. /\ Orderly /\ \A t \in Tasks : TaskOK(t)'
          /\ \A t \in Tasks : row[t].status # "none" => row'[t].status # "none"
        <3>1. Telling \subseteq {u} \cup Telling' /\ Dependents(u) \subseteq Telling'
            BY <2>1 DEF Telling
        <3> QED
            BY <1>0, <2>1, <3>1, CascadeKeeps
    <2>3. CommandOK'
        BY <1>0, <2>1, <2>2 DEF CommandOK
    <2> QED
        BY <2>2, <2>3
<1>4. ASSUME NEW t \in Tasks, CreateManually(t)
      PROVE  Orderly /\ CommandOK' /\ \A u \in Tasks : TaskOK(u)'
    <2>1. /\ row[t].status = "none" /\ row' = [row EXCEPT ![t] = NewRow(NoIssue, NoTask)]
          /\ UNCHANGED <<hands, falling, single, tree, op, poll, up, note>> /\ Grown
        BY <1>4, SameNotes DEF CreateManually, OnlyOperator, IsFree, Unused
    <2> QED
        BY <2>1, CreatedKeeps
<1> QED
    BY <1>1, <1>2, <1>3, <1>4, CancelKeeps, RequeueKeeps, DispatchKeeps, ReadKeeps
       DEF OperatorStep

-----------------------------------------------------------------------------
(* The rest, and the whole.                                                *)

LEMMA LoopCascadeKeeps ==
    ASSUME TypeInv, OpsInv, NEW u \in Tasks, CascadeFailed(u) \/ CascadeSingle(u)
    PROVE  Orderly /\ CommandOK' /\ \A t \in Tasks : TaskOK(t)'
<1>1. /\ CascadeFrom(u) /\ Leaking(Dependents(u) \cap tree)
      /\ UNCHANGED <<hands, tree, poll, op, up>>
    BY DEF CascadeFailed, CascadeSingle, OnlyLoops
<1>2. Telling \subseteq {u} \cup Telling' /\ Dependents(u) \subseteq Telling'
    <2>1. CASE CascadeFailed(u)
        BY <2>1 DEF CascadeFailed, OnlyLoops, Telling
    <2>2. CASE CascadeSingle(u)
        <3>1. /\ single'.falling = (single.falling \ {u}) \cup Dependents(u)
              /\ UNCHANGED <<falling, op>>
            BY <2>2, Typed DEF CascadeSingle, OnlyLoops, Single
        <3> QED
            BY <3>1 DEF Telling
    <2> QED
        BY <2>1, <2>2
<1>3. Orderly /\ \A t \in Tasks : TaskOK(t)'
    BY <1>1, <1>2, CascadeKeeps
<1> QED
    BY <1>1, <1>3, CommandKept

\* The copies of who is gone are gone, and with them what the dead had to tell.
LEMMA OutageKeeps ==
    ASSUME TypeInv, OpsInv, NEW gone \in SUBSET Processes, Outage(gone)
    PROVE  Orderly /\ CommandOK' /\ \A t \in Tasks : TaskOK(t)'
<1>0. /\ note \in Notes /\ single \in Single /\ \A t \in Tasks : TaskOK(t)
      /\ UNCHANGED <<row, tree>> /\ CommandOK
      /\ up' = (up /\ "daemon" \notin gone) /\ op' \in {op, IdleOp}
      /\ poll'.todo \subseteq poll.todo
    BY Typed DEF OpsInv, Outage, IdlePoll
<1>1. ASSUME NEW t \in Tasks
      PROVE  /\ hands'[t] \subseteq hands[t]
             /\ "daemon" \in gone => hands'[t] \cap Busy \subseteq {"setup", "agent"}
    <2>1. hands'[t] = {h \in hands[t] : Holder(t, h) \notin gone}
        BY DEF Outage
    <2>2. \A h \in Busy : h \notin {"setup", "agent"} => Holder(t, h) = "daemon"
        BY DEF Holder, Busy
    <2> QED
        BY <2>1, <2>2
<1>2. PICK by \in Gives(op.kind) :
        /\ op' = IF by \in gone THEN IdleOp ELSE op
        /\ note' = [note EXCEPT
             !.unheard = @ \cup Lost(gone) \cup (IF by \in gone THEN op.fell ELSE {}),
             !.ungated = IF "daemon" \in gone /\ poll.pc \in {"claim", "gate"}
                           THEN @ \cup {poll.task} ELSE @]
    BY Zenon DEF Outage
<1>3. /\ Grown /\ note'.disputed = note.disputed /\ note'.swept = note.swept
      /\ note'.leaked = note.leaked
      /\ note'.unheard = note.unheard \cup Lost(gone) \cup (IF by \in gone THEN op.fell ELSE {})
    BY <1>0, <1>2 DEF Grown, Notes
<1>4. Telling \subseteq Telling' \cup note'.unheard
    <2>1. falling \subseteq falling' \cup note'.unheard
        BY <1>3 DEF Outage, Lost
    <2>2. single.falling \subseteq single'.falling \cup note'.unheard
        BY <1>3 DEF Outage, Lost
    <2>3. op.fell \subseteq op'.fell \cup note'.unheard
        BY <1>2, <1>3
    <2> QED
        BY <2>1, <2>2, <2>3 DEF Telling
<1>5. Orderly
    <2>1. \A t \in Tasks : Active(t)' => Active(t)
        BY <1>0, <1>1 DEF Active
    <2> QED
        BY <1>0, <1>3, <1>4, <2>1, NoneTouched
<1>6. ASSUME NEW t \in Tasks PROVE TaskOK(t)'
    BY <1>0, <1>1, <1>3 DEF TaskOK
<1>7. CommandOK'
    <2>1. CASE op' = IdleOp
        BY <2>1 DEF CommandOK, IdleOp
    <2>2. CASE op' = op
        BY <1>5, <2>2, CommandKept
    <2> QED
        BY <1>0, <2>1, <2>2
<1> QED
    BY <1>5, <1>6, <1>7

\* Nobody but a dispatch in the dashboard has a working task in hand by then, and
\* nobody one that is being reviewed.
LEMMA RecoverKeeps ==
    ASSUME TypeInv, OpsInv, Recover
    PROVE  Orderly /\ CommandOK' /\ \A t \in Tasks : TaskOK(t)'
<1>0. /\ row \in [Tasks -> Row] /\ note \in Notes /\ \A t \in Tasks : TaskOK(t)
      /\ UNCHANGED <<hands, tree, op, poll, falling, single>> /\ ~up /\ up'
    BY Typed DEF OpsInv, Recover
<1>1. PICK stale \in SUBSET Tasks : Recovering(stale)
    BY Recovers
<1>2. /\ Grown /\ note'.swept = note.swept /\ note'.leaked = note.leaked
      /\ note'.disputed = note.disputed
                           \cup {t \in stale : {"setup", "agent"} \cap hands[t] # {}}
    BY <1>0, <1>1 DEF Recovering, Grown, Notes
<1>3. ASSUME NEW t \in Tasks
      PROVE  /\ row'[t].dep = row[t].dep /\ row'[t].issue = row[t].issue
             /\ \/ /\ row[t].status = "reviewing" /\ row'[t].status = "pr_created"
                   /\ row'[t].named = row[t].named /\ row'[t].stamped = row[t].stamped
                \/ row[t].status = "working" /\ row'[t].status = "queued" /\ t \in stale
                \/ row'[t] = row[t]
    <2>1. row[t] \in Row
        BY <1>0
    <2>2. CASE row[t].status = "reviewing"
        <3>1. row'[t] = [row[t] EXCEPT !.status = "pr_created"]
            BY <1>1, <2>2 DEF Recovering
        <3> QED
            BY <2>1, <2>2, <3>1 DEF Row
    <2>3. CASE t \in stale
        <3>1. row[t].status = "working"
            BY <1>1, <2>3 DEF Recovering
        <3>2. row'[t] = [row[t] EXCEPT !.status = "queued", !.named = FALSE, !.pid = FALSE]
            BY <1>1, <2>3, <3>1 DEF Recovering
        <3> QED
            BY <2>1, <2>3, <3>1, <3>2 DEF Row
    <2>4. CASE row[t].status # "reviewing" /\ t \notin stale
        BY <1>1, <2>4 DEF Recovering
    <2> QED
        BY <2>2, <2>3, <2>4
<1>4. ASSUME NEW t \in Tasks PROVE Lawful(t)
    <2>1. row[t].status \in {"reviewing", "working"} => Active(t)
        BY DEF Active, Terminal
    <2>2. Active(t)' => Active(t)
        BY <1>0, <1>3 DEF Active, Terminal
    <2>3. Telling' = Telling
        BY <1>0 DEF Telling
    <2> QED
        BY <1>3, <2>1, <2>2, <2>3 DEF Lawful, Dead
<1>5. Orderly
    BY <1>0, <1>2, <1>4 DEF Orderly
<1>6. ASSUME NEW t \in Tasks PROVE TaskOK(t)'
    <2>1. hands[t] \cap Busy \subseteq {"setup", "agent"}
        BY <1>0 DEF TaskOK
    <2>2. CASE row'[t] = row[t]
        BY <1>0, <1>2, <2>2, OthersOK
    <2>3. CASE row[t].status = "reviewing" /\ row'[t].status = "pr_created"
               /\ row'[t].named = row[t].named /\ row'[t].stamped = row[t].stamped
        <3>1. t \notin note.disputed => hands[t] \cap Busy = {}
            BY <1>0, <2>1, <2>3 DEF TaskOK, Fits
        <3> QED
            BY <1>0, <1>2, <2>3, <3>1 DEF TaskOK, Terminal
    <2>4. CASE row[t].status = "working" /\ row'[t].status = "queued" /\ t \in stale
        <3>1. t \notin note'.disputed => hands[t] \cap Busy = {} /\ t \notin note.disputed
            BY <1>2, <2>1, <2>4
        <3> QED
            BY <1>0, <1>2, <2>4, <3>1 DEF TaskOK, Terminal
    <2> QED
        BY <1>3, <2>2, <2>3, <2>4
<1> QED
    BY <1>0, <1>5, <1>6, CommandKept

LEMMA StepOrderly ==
    ASSUME TypeInv, OpsInv, [Next]_vars
    PROVE  Orderly /\ CommandOK' /\ \A t \in Tasks : TaskOK(t)'
<1>1. CASE ArtifactStep
    BY <1>1, ArtifactsKeep DEF ArtifactStep
<1>2. CASE PipelineStep
    BY <1>2, WorkersKeep, GiveUpKeeps, ListsKeep, EndsKeep, LoopCascadeKeeps DEF PipelineStep
<1>3. ASSUME NEW i \in Issues, LabelAgain(i)
      PROVE  Orderly /\ CommandOK' /\ \A t \in Tasks : TaskOK(t)'
    <2>1. UNCHANGED <<row, hands, falling, single, tree, poll, op, up>> /\ Grown
        BY <1>3, Typed DEF LabelAgain, Grown, Notes
    <2> QED
        BY <2>1, TasksStay, CommandKept
<1>4. CASE UNCHANGED vars
    <2>1. UNCHANGED <<row, hands, falling, single, tree, poll, op, up>> /\ Grown
        BY <1>4, SameNotes DEF vars
    <2> QED
        BY <2>1, TasksStay, CommandKept
<1> QED
    BY <1>1, <1>2, <1>3, <1>4, IntakeKeeps, OperatorKeeps, OutageKeeps,
        RecoverKeeps DEF Next

LEMMA OpsInvariant == Spec => []OpsInv
<1>1. Init => OpsInv
    <2>1. SUFFICES ASSUME Init PROVE OpsInv
        OBVIOUS
    <2>2. /\ \A t \in Tasks : row[t].status = "none" /\ hands[t] = {}
          /\ poll.todo = {} /\ op.pc = "idle" /\ op.fell = {} /\ tree = {} /\ up
        BY <2>1 DEF Init, NewRow, IdlePoll, IdleOp
    <2>3. CommandOK /\ IssueOK
        BY <2>2 DEF CommandOK, IssueOK, Counted
    <2>4. \A t \in Tasks : TaskOK(t) /\ Waits(t) /\ Follows(t)
        BY <2>2 DEF TaskOK, Waits, Follows, Active, Tail
    <2> QED
        BY <2>3, <2>4 DEF OpsInv
<1>2. TypeInv /\ TypeInv' /\ OpsInv /\ [Next]_vars => OpsInv'
    BY StepOrderly, IssuesKept, WaitersKept DEF OpsInv
<1> QED
    BY <1>1, <1>2, TypeInvariant, PTL DEF Spec

\* get_task_by_issue keeps an issue from having two unfinished tasks, unless one
\* was queued again when it was over, was written by a command or a recovery while
\* somebody went on with it, or a batch plan named the issue twice; whichever of
\* the processes end, and whenever.
THEOREM OneTaskEach == Spec => []OneTaskPerIssue
<1>1. OpsInv => OneTaskPerIssue
    BY DEF OpsInv, IssueOK, Counted, Redone, OneTaskPerIssue, Terminal
<1> QED
    BY <1>1, OpsInvariant, PTL

\* Who waits in the queue behind a dead task is about to be told
\* (handle_dependency_failure), unless it was put there too late to hear of it or
\* the dead one fell where nobody tells, its teller ended before it had told them
\* (the daemon, the dashboard or the command), it was queued again, or disputed.
THEOREM DependentsHear == Spec => []DependentsOfDead
<1>1. OpsInv => DependentsOfDead
    BY DEF OpsInv, Waits, Redone, Telling, DependentsOfDead
<1> QED
    BY <1>1, OpsInvariant, PTL

\* The row of a task that is over, and in nobody's hands, leads to its worktree,
\* and is on the list that cleanup_terminal_tasks goes by (worktree_path and
\* completed_at are set), unless the task died with a worktree of an earlier run,
\* was disputed, or was named in a cleanup.
THEOREM TreesAreFound == Spec => []TreesRemembered
<1>1. TypeInv /\ OpsInv => TreesRemembered
    <2>1. SUFFICES ASSUME TypeInv, OpsInv, NEW t \in tree, row[t].status \in Terminal,
                          hands[t] = {}, t \notin note.leaked \cup note.disputed \cup note.swept
                   PROVE  row[t].named /\ row[t].stamped
        BY DEF TreesRemembered, Cleanable
    <2>2. t \in Tasks /\ TaskOK(t)
        BY <2>1, Typed DEF OpsInv
    <2> QED
        BY <2>1, <2>2 DEF TaskOK, Terminal
<1> QED
    BY <1>1, TypeInvariant, OpsInvariant, PTL

LEMMA CancelledStays ==
    ASSUME TypeInv, OpsInv, Next, NEW t \in Tasks, row[t].status = "cancelled",
           t \notin note.disputed, ~(op.pc = "write" /\ op.kind = "requeue" /\ op.task = t)
    PROVE  row'[t].status = "cancelled"
<1>0. /\ TypeOK /\ row \in [Tasks -> Row] /\ CommandOK /\ hands[t] \cap Busy = {}
      /\ op.pc # "idle" => op.task \in Tasks
    BY Typed, NotInHand DEF TypeInv, OpsInv, Terminal
<1>1. ASSUME NEW u \in Tasks, CascadeFrom(u)
      PROVE  row'[t].status = "cancelled"
    BY <1>0, <1>1, Cascaded
<1>2. CASE PollerStep
    <2>1. CASE SetGate
        BY <1>0, <2>1 DEF SetGate, Row
    <2>2. ASSUME NEW i \in Issues, CreateFromIssue(i) PROVE row'[t].status = "cancelled"
        <3>1. PICK u \in Tasks : IsFree(u) /\ \E d : row' = [row EXCEPT ![u] = NewRow(i, d)]
            BY <2>2 DEF CreateFromIssue
        <3> QED
            BY <1>0, <3>1 DEF IsFree, Unused
    <2> QED
        BY <1>2, <2>1, <2>2 DEF PollerStep, Poll, ClaimIssue, PollDone
<1>3. CASE OperatorStep
    <2>1. CASE WriteCancelled
        <3>1. PICK u \in Tasks : \E b :
                row' = [row EXCEPT ![u].status = "cancelled", ![u].stamped = TRUE, ![u].held = b]
            BY <1>0, <2>1 DEF WriteCancelled
        <3> QED
            BY <1>0, <3>1 DEF Row
    <2>2. CASE WriteQueued \/ ResetFailed \/ WriteDispatched
        <3>1. op.task # t
            BY <1>0, <2>2 DEF WriteQueued, ResetFailed, WriteDispatched, CommandOK
        <3> QED
            BY <1>0, <2>2, <3>1 DEF WriteQueued, ResetFailed, WriteDispatched
    <2>3. CASE WriteApproved
        BY <1>0, <2>3 DEF WriteApproved, Row
    <2>4. ASSUME NEW u \in Tasks, CreateManually(u)
          PROVE  row'[t].status = "cancelled"
        BY <1>0, <2>4 DEF CreateManually, IsFree, Unused
    <2> QED
        BY <1>1, <1>3, <2>1, <2>2, <2>3, <2>4 DEF OperatorStep, ReadTask, SignalAgent,
            RestoreLabels, CascadeCancelled
<1>4. CASE ArtifactStep
    BY <1>0, <1>4 DEF ArtifactStep, SweepCleanup, CommandCleanup, RemoveTree, Forget, Row
<1>5. CASE PipelineStep
    <2>1. ASSUME NEW u \in Tasks, Claim(u) PROVE row'[t].status = "cancelled"
        BY <1>0, <2>1, StatusWritten DEF Claim
    <2>2. ASSUME NEW u \in Tasks, NEW from \in Busy, from \in hands[u], NEW r,
                 row' = [row EXCEPT ![u] = r]
          PROVE  row'[t].status = "cancelled"
        BY <1>0, <2>2
    <2>3. ASSUME NEW u \in Tasks,
                 SetUpTree(u) \/ NoChanges(u) \/ OpenPR(u) \/ Proceed(u)
          PROVE  row'[t].status = "cancelled"
        <3>1. PICK from \in Busy : from \in hands[u] /\ \E r : row' = [row EXCEPT ![u] = r]
            BY <2>3 DEF SetUpTree, NoChanges, OpenPR, Proceed, Advance, Busy
        <3> QED
            BY <2>2, <3>1
    <2>4. ASSUME NEW u \in Tasks, NEW from \in Hands, Again(u, from) \/ GiveUp(u, from)
          PROVE  row'[t].status = "cancelled"
        <3>1. PICK r : from \in Busy /\ from \in hands[u] /\ row' = [row EXCEPT ![u] = r]
            BY <2>4 DEF Again, GiveUp, Busy
        <3> QED
            BY <2>2, <3>1
    <2> QED
        BY <1>1, <1>5, <2>1, <2>3, <2>4 DEF PipelineStep, PutBack, ListPending, ListChecked,
            CascadeFailed, CascadeSingle, Unlabel, CloseIssue
<1>6. ASSUME NEW gone \in SUBSET Processes, Outage(gone) PROVE row'[t].status = "cancelled"
    BY <1>6 DEF Outage
<1>7. CASE Recover
    BY <1>7, Recovers DEF Recovering
<1> QED
    BY <1>2, <1>3, <1>4, <1>5, <1>6, <1>7 DEF Next, LabelAgain

\* A cancellation (cmd_cancel, reject) holds until somebody queues the task again,
\* unless the task was in somebody's hands when a command or a recovery wrote it.
THEOREM CancellationHolds == Spec => CancelledHolds
<1>1. TypeInv /\ OpsInv /\ [Next]_vars =>
        [\A t \in Tasks : row[t].status = "cancelled" /\ row'[t].status # "cancelled" =>
           \/ op.pc = "write" /\ op.kind = "requeue" /\ op.task = t
           \/ t \in note.disputed]_vars
    BY CancelledStays
<1> QED
    BY <1>1, TypeInvariant, OpsInvariant, PTL DEF Spec, CancelledHolds

\* Nobody removes the worktree of a task that is not over, or that somebody works
\* on (cleanup_task_artifacts), unless it is named in a cleanup or disputed.
THEOREM TreesAreSpared == Spec => TreeSpared
<1>1. ASSUME TypeInv, OpsInv, Next, NEW t \in tree \ tree',
             t \notin note.disputed \cup note.swept
      PROVE  row[t].status \in Terminal /\ hands[t] \cap Busy = {}
    <2>1. t \in Tasks /\ TaskOK(t)
        BY <1>1, Typed DEF OpsInv
    <2>2. RemoveTree(t)
        <3>1. PICK u \in Tasks : RemoveTree(u)
            BY <1>1 DEF Next, PollerStep, Poll, ClaimIssue, SetGate, PollDone, CreateFromIssue,
                OnlyPoller, OperatorStep, ReadTask, SignalAgent, WriteCancelled,
                CascadeCancelled, RestoreLabels, WriteQueued, ResetFailed, WriteDispatched,
                WriteApproved, CreateManually, ArtifactStep, SweepCleanup, CommandCleanup,
                Forget, PipelineStep, Claim, SetUpTree, NoChanges, OpenPR, ListPending,
                ListChecked, Proceed, Advance, CascadeFailed, CascadeSingle, Unlabel,
                CloseIssue, Again, GiveUp, PutBack, Outage, Recover, LabelAgain
        <3> QED
            BY <1>1, <3>1 DEF RemoveTree
    <2>3. row[t].status \in Terminal
        BY <1>1, <2>1, <2>2 DEF RemoveTree, TaskOK, Tail
    <2> QED
        BY <1>1, <2>1, <2>3, NotInHand
<1>2. TypeInv /\ OpsInv /\ [Next]_vars =>
        [\A t \in tree \ tree' :
           \/ row[t].status \in Terminal /\ hands[t] \cap Busy = {}
           \/ t \in note.disputed \cup note.swept]_vars
    BY <1>1
<1> QED
    BY <1>2, TypeInvariant, OpsInvariant, PTL DEF Spec, TreeSpared
=============================================================================
