----------------------------- MODULE Migrations -----------------------------
(***************************************************************************)
(* The schema of the database and those who bring it up to date:           *)
(* _migrate_sync, run by whoever connects (the worker under its PID lock,  *)
(* every command line tool and a standalone dashboard without it).         *)
(*                                                                         *)
(* sqlite3 commits DDL at once, and opens a transaction at the first       *)
(* INSERT or UPDATE: a step here is one commit.  The columns of a stage    *)
(* (and the table it adds) are one element, the stage's number; those of   *)
(* stage 9 are two, because their ALTERs may each fail.                    *)
(***************************************************************************)
EXTENDS Naturals, FiniteSets

CONSTANTS
    Clients,    \* processes that connect to the database
    RowIds,     \* rows of the tasks table
    Histories,  \* contents of schema_version a database may come with
    Aftermath   \* bound: whether migrations begin after two of them overlapped

SCHEMA_VERSION == 9
Rebuilds  == {2, 3}                  \* stages that copy the tasks table
Adds      == 4..8                    \* stages that add columns and tolerate them
AgentCol  == 9
FallbackCol == 10
Columns   == 2..10
OfRepos   == {4, 8}                  \* columns of the repos table
OfTasks   == Columns \ OfRepos

ASSUME HistoryAssumption ==
    /\ Histories \subseteq {{0}} \cup SUBSET (1..8)
    /\ Aftermath \in BOOLEAN

VARIABLES
    db,           \* the database
    mig,          \* the connecting processes
    history,      \* what schema_version held at the beginning
    overlapped,   \* ghost: two migrations ran at the same time
    interrupted   \* ghost: a migration stopped after it was stamped as done,
                  \* or between the two columns of stage 9

schemaVars == <<db, mig, history, overlapped, interrupted>>

-----------------------------------------------------------------------------
Off == [pc |-> "off", stage |-> 0]

Active == {"tables", "stamp_table", "fresh", "drop", "create", "copy", "alter",
           "stamp", "agent", "fallback", "update"}
Steps9 == Active \cup {"off", "version", "ready", "failed"}

SchemaTypeOK ==
    /\ db \in [base: BOOLEAN, tasks: BOOLEAN, columns: SUBSET Columns,
               rows: [RowIds -> SUBSET Columns], present: SUBSET RowIds,
               temp: SUBSET Rebuilds, table: BOOLEAN, stamps: SUBSET (1..9)]
    /\ mig \in [Clients -> [pc: Steps9, stage: 0..10]]
    /\ history \in Histories
    /\ overlapped \in BOOLEAN
    /\ interrupted \in BOOLEAN

\* A history of {0} stands for an empty data directory; the empty history is a
\* database of version 1, which had no schema_version.  Every row carries a
\* value in each column its version has.
SchemaInit ==
    /\ history \in Histories
    /\ LET known == {c \in Columns : \E v \in history : c <= v}
       IN  db = IF history = {0}
                THEN [base |-> FALSE, tasks |-> FALSE, columns |-> {},
                      rows |-> [r \in RowIds |-> {}], present |-> {},
                      temp |-> {}, table |-> FALSE, stamps |-> {}]
                ELSE [base |-> TRUE, tasks |-> TRUE, columns |-> known,
                      rows |-> [r \in RowIds |-> known \cap OfTasks],
                      present |-> RowIds,
                      temp |-> {}, table |-> history # {}, stamps |-> history]
    /\ mig = [p \in Clients |-> Off]
    /\ overlapped = FALSE
    /\ interrupted = FALSE

\* _get_schema_version
SchemaVersion ==
    IF db.stamps # {} THEN CHOOSE v \in db.stamps : \A u \in db.stamps : u <= v
    ELSE IF db.table \/ db.tasks THEN 1 ELSE 0

\* Where the chain of "if version < n" goes on after stage s.
FirstStep(s) == CASE s \in Rebuilds -> "drop"
                  [] s \in Adds     -> "alter"
                  [] s = 9          -> "agent"
                  [] OTHER          -> "ready"

At(p, pc)   == mig[p].pc = pc
Step(p, pc) == mig' = [mig EXCEPT ![p].pc = pc]

\* Variant: the version is read again after each stage.
NextStage_Rereads(p) ==
    LET next == IF SCHEMA_VERSION \in db.stamps' THEN 10 ELSE mig[p].stage + 1
    IN  mig' = [mig EXCEPT ![p].stage = next, ![p].pc = FirstStep(next)]

NextStage(p) == mig' = [mig EXCEPT ![p].stage = @ + 1,
                                   ![p].pc = FirstStep(mig[p].stage + 1)]
Fail(p) == mig' = [mig EXCEPT ![p] = [Off EXCEPT !.pc = "failed"]]

Unghost == UNCHANGED <<history, overlapped, interrupted>>

-----------------------------------------------------------------------------
\* connect(): the base tables, with the columns they have today.
Connect(p) ==
    /\ At(p, "off")
    /\ db' = IF db.base THEN db
             ELSE [db EXCEPT !.base = TRUE, !.columns = @ \cup OfRepos]
    /\ Step(p, "version")
    /\ Unghost

ReadVersion(p) ==
    /\ At(p, "version")
    /\ overlapped => Aftermath
    /\ LET v == SchemaVersion
           s == IF v + 1 > 10 THEN 10 ELSE v + 1
       IN  mig' = [mig EXCEPT ![p] =
             [stage |-> s,
              pc |-> IF v = 0 THEN "tables" ELSE FirstStep(s)]]
    /\ overlapped' = (overlapped \/ \E q \in Clients \ {p} : mig[q].pc \in Active)
    /\ UNCHANGED <<db, history, interrupted>>

\* A new database: the tables as they are today, then the version.
CreateTables(p) ==
    /\ At(p, "tables")
    /\ db' = IF db.tasks THEN db
             ELSE [db EXCEPT !.tasks = TRUE, !.columns = @ \cup OfTasks]
    /\ Step(p, "stamp_table")
    /\ Unghost

CreateVersionTable(p) ==
    /\ At(p, "stamp_table")
    /\ db' = [db EXCEPT !.table = TRUE]
    /\ Step(p, "fresh")
    /\ Unghost

StampFresh(p) ==
    /\ At(p, "fresh")
    /\ db' = [db EXCEPT !.stamps = @ \cup {SCHEMA_VERSION}]
    /\ mig' = [mig EXCEPT ![p].pc = "ready", ![p].stage = 10]
    /\ Unghost

\* Stages 2 and 3: a table of the new shape ...
DropTemp(p) ==
    /\ At(p, "drop")
    /\ db' = [db EXCEPT !.temp = @ \ {mig[p].stage}]
    /\ Step(p, "create")
    /\ Unghost

CreateTemp(p) ==
    /\ At(p, "create")
    /\ IF mig[p].stage \in db.temp
       THEN Fail(p) /\ UNCHANGED db
       ELSE /\ db' = [db EXCEPT !.temp = @ \cup {mig[p].stage}]
            /\ Step(p, "copy")
    /\ Unghost

\* Variant: stage 3 fills the columns of the issue with NULL, as stage 2 does.
CopyInto_Nulls(s) ==
    [db EXCEPT !.columns = (@ \cap OfRepos) \cup 2..s,
               !.rows = [r \in RowIds |-> {}],
               !.temp = @ \ {s},
               !.table = TRUE,
               !.stamps = @ \cup {SCHEMA_VERSION}]

\* ... and, in one transaction, the rows copied, the tables exchanged, and the
\* current version entered, whatever stages are still to come.
CopyInto(s) ==
    LET kept == 2..(IF s = 2 THEN 1 ELSE 3)
    IN  [db EXCEPT !.columns = (@ \cap OfRepos) \cup 2..s,
                   !.rows = [r \in RowIds |-> @[r] \cap kept],
                   !.temp = @ \ {s},
                   !.table = TRUE,
                   !.stamps = @ \cup {SCHEMA_VERSION}]

Copy(p) ==
    /\ At(p, "copy")
    /\ IF mig[p].stage \notin db.temp \/ ~(2..(mig[p].stage - 1) \subseteq db.columns)
       THEN Fail(p) /\ UNCHANGED db
       ELSE db' = CopyInto(mig[p].stage) /\ NextStage(p)
    /\ Unghost

\* Stages 4 to 8: a column that is there already is passed over.
Alter(p) ==
    /\ At(p, "alter")
    /\ db' = [db EXCEPT !.columns = @ \cup {mig[p].stage}]
    /\ Step(p, "stamp")
    /\ Unghost

\* Variant: every stage enters its own number.
Stamp_Own(p) ==
    /\ At(p, "stamp")
    /\ db' = [db EXCEPT !.table = TRUE, !.stamps = @ \cup {mig[p].stage}]
    /\ NextStage(p)
    /\ Unghost

Stamp(p) ==
    /\ At(p, "stamp")
    /\ db' = [db EXCEPT !.table = TRUE, !.stamps = @ \cup {SCHEMA_VERSION}]
    /\ NextStage(p)
    /\ Unghost

\* Stage 9: a column that is there already is an error.
AddColumn(p, column, next) ==
    /\ IF column \in db.columns
       THEN Fail(p) /\ UNCHANGED db
       ELSE db' = [db EXCEPT !.columns = @ \cup {column}] /\ Step(p, next)
    /\ Unghost

AddAgent(p)    == At(p, "agent") /\ AddColumn(p, AgentCol, "fallback")
AddFallback(p) == At(p, "fallback") /\ AddColumn(p, FallbackCol, "update")

\* UPDATE schema_version SET version = 9: version is the primary key, so two
\* rows cannot both become 9.
UpdateVersion(p) ==
    /\ At(p, "update")
    /\ IF Cardinality(db.stamps) > 1
       THEN Fail(p) /\ UNCHANGED db
       ELSE /\ db' = [db EXCEPT !.stamps = {v \in {SCHEMA_VERSION} : db.stamps # {}}]
            /\ NextStage(p)
    /\ Unghost

\* A connected process inserts a task, or gives an old one new values, in
\* statements that name today's columns.
Save(p, r) ==
    /\ At(p, "ready")
    /\ db.tasks
    /\ OfTasks \subseteq db.columns
    /\ db' = [db EXCEPT !.present = @ \cup {r}, !.rows[r] = OfTasks]
    /\ UNCHANGED mig
    /\ Unghost

MigrationStep(p) ==
    \/ ReadVersion(p) \/ CreateTables(p) \/ CreateVersionTable(p) \/ StampFresh(p)
    \/ DropTemp(p) \/ CreateTemp(p) \/ Copy(p)
    \/ Alter(p) \/ Stamp(p)
    \/ AddAgent(p) \/ AddFallback(p) \/ UpdateVersion(p)
    \/ \E r \in RowIds : Save(p, r)

\* The processes of gone end, for whatever reason.
Disconnect(gone) ==
    /\ mig' = [p \in Clients |-> IF p \in gone THEN Off ELSE mig[p]]
    /\ interrupted' = (interrupted \/ \E p \in gone :
         /\ mig[p].pc \in Active
         /\ SCHEMA_VERSION \in db.stamps \/ mig[p].stage = 9)
    /\ UNCHANGED <<db, history, overlapped>>

-----------------------------------------------------------------------------
\* A migration loses no task, however it is interrupted and whoever else
\* migrates at the same time; and unless two ran at once, it loses no value
\* of a task either: not the issue or the pull request of an old row, and not
\* what was written since.
DataKept ==
    [][/\ db.present \subseteq db'.present
       /\ ~overlapped' => \A r \in db.present : db.rows[r] \subseteq db'.rows[r]
      ]_schemaVars

\* Who has connected finds all the columns, unless two migrations overlapped
\* or one was interrupted after the version was entered: an interruption
\* before that is made up for by the next start.
ReadyMeansCurrent ==
    (\E p \in Clients : At(p, "ready")) /\ ~overlapped /\ ~interrupted
        => db.tasks /\ Columns \subseteq db.columns

\* The stages leave a database that no process can open only if its column
\* agent was added by a run that could not enter version 9: one interrupted
\* in stage 9, one that overlapped, or one that found several versions.
Unusable == AgentCol \in db.columns /\ SchemaVersion = 8
BlockedOnlyBy ==
    Unusable => \/ overlapped \/ interrupted
                \/ \E p \in Clients : mig[p].pc \in {"fallback", "update"}
                \/ 8 \in history /\ Cardinality(history) > 1
=============================================================================
