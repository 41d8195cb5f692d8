------------------------------ MODULE Startup -------------------------------
(***************************************************************************)
(* From "backporcher worker" to the running daemon (_run_worker): the PID  *)
(* lock, the connection with its migration, recovery, the loops, and the   *)
(* way out.  Other tools open the same database without the lock.          *)
(***************************************************************************)
EXTENDS PidLock, Migrations

CONSTANT Tools   \* commands and standalone dashboards that open the database

ASSUME ClientsAssumption == Clients = Workers \cup Tools /\ Workers \cap Tools = {}

vars == <<lockVars, schemaVars>>

Init == LockInit /\ SchemaInit

\* What a worker does before it holds the lock touches the lock only.
Locking(w) ==
    /\ \/ Start(w) \/ Exists(w) \/ Read(w) \/ Signal(w) \/ CompareStart(w)
       \/ Unlink(w) \/ Truncate(w) \/ Fill(w) \/ Close(w)
    /\ UNCHANGED schemaVars

\* db.connect, recover_stale_tasks, preflight and the loops, under the lock.
Serving(w) ==
    /\ worker[w].pc = "held"
    /\ Connect(w) \/ MigrationStep(w)
    /\ UNCHANGED lockVars

\* Variant: the file is removed while the loops still write.
Finish_Early(w) ==
    /\ At(w, "ready")
    /\ Release(w)
    /\ UNCHANGED schemaVars

\* The end of daemon.run; the database is closed after the file is removed,
\* but nothing is written to it any more.
Finish(w) ==
    /\ At(w, "ready")
    /\ Release(w)
    /\ Disconnect({w})

\* An exception of the migration ends the process in the same way.
Dies(w) == Killed(w) /\ Disconnect({w})

UseTool(p) ==
    /\ Connect(p) \/ MigrationStep(p)
    /\ UNCHANGED lockVars

EndTool(p) ==
    /\ ~At(p, "off")
    /\ Disconnect({p})
    /\ UNCHANGED lockVars

Reboot == NewContainer /\ Disconnect(Clients)

Elsewhere(p) == Unrelated(p) /\ UNCHANGED schemaVars

Next ==
    \/ \E w \in Workers : Locking(w) \/ Serving(w) \/ Finish(w) \/ Dies(w)
    \/ \E p \in Tools : UseTool(p) \/ EndTool(p)
    \/ \E p \in Pids : Elsewhere(p)
    \/ Reboot

Spec == Init /\ [][Next]_vars

-----------------------------------------------------------------------------
\* Types, and that only a worker with the lock is connected.
TypeOK ==
    /\ LockTypeOK
    /\ SchemaTypeOK
    /\ \A w \in Workers : ~At(w, "off") => worker[w].pc = "held"
=============================================================================
