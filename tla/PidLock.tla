------------------------------ MODULE PidLock -------------------------------
(***************************************************************************)
(* acquire_pid_lock (worker_startup.py): the file data/backporcher.pid and *)
(* the processes that look at it.  A worker checks the file, takes a stale *)
(* one away and writes its own, each of these a system call of its own;    *)
(* nothing but the file tells two workers apart.                           *)
(*                                                                         *)
(* A process is a pid and a start time, which no two processes share.  A   *)
(* container id of 0 is the empty string: no container.  A start time of 0 *)
(* is an unreadable /proc, or a file of an older format.                   *)
(***************************************************************************)
EXTENDS Naturals

CONSTANTS
    Workers,    \* those who may start "backporcher worker": systemd, an operator, ...
    Pids,       \* process numbers
    NoPid,      \* what an empty file holds instead of one
    Contained,  \* whether the workers run in a container
    ProcFS,     \* whether /proc/<pid>/stat can be read
    MaxBirths   \* bound: processes and containers created in a run

ASSUME LockAssumption ==
    /\ NoPid \notin Pids
    /\ Contained \subseteq BOOLEAN
    /\ ProcFS \subseteq BOOLEAN
    /\ MaxBirths \in Nat

VARIABLES
    lockfile,  \* data/backporcher.pid
    worker,    \* the worker processes
    other,     \* start time of the unrelated process that has a pid, or 0
    box,       \* id of the running container, or 0
    procfs,    \* /proc can be read
    births,    \* what was created so far; also the clock
    raced      \* ghost: two workers have been between check and write at once

lockVars == <<lockfile, worker, other, box, procfs, births, raced>>

-----------------------------------------------------------------------------
Text == [pid: Pids \cup {NoPid}, box: Nat, start: Nat]
Torn == [pid |-> NoPid, box |-> 0, start |-> 0]

\* ino tells a file from another one created later under the same name.
Absent == [ino |-> 0, text |-> Torn]

Idle == [pc |-> "idle", pid |-> NoPid, start |-> 0, seen |-> Torn, ino |-> 0]

Gone   == {"idle", "refused"}
Window == {"read", "signal", "starttime", "unlink", "truncate", "fill"}
Steps  == Gone \cup Window \cup {"exists", "held", "closing"}

Live(w) == worker[w].pc \notin Gone
Alive(p) == other[p] # 0 \/ \E w \in Workers : Live(w) /\ worker[w].pid = p

\* _get_proc_starttime
StartTime(p) ==
    IF ~procfs \/ ~Alive(p) THEN 0
    ELSE IF other[p] # 0 THEN other[p]
    ELSE worker[CHOOSE w \in Workers : Live(w) /\ worker[w].pid = p].start

Stale(w)    == worker' = [worker EXCEPT ![w].pc = "unlink", ![w].seen = Torn]
Goto(w, pc) == worker' = [worker EXCEPT ![w].pc = pc]
Exit(w)     == worker' = [worker EXCEPT ![w] = Idle]

-----------------------------------------------------------------------------
LockTypeOK ==
    /\ lockfile \in [ino: Nat, text: Text]
    /\ worker \in [Workers -> [pc: Steps, pid: Pids \cup {NoPid}, start: Nat,
                               seen: Text, ino: Nat]]
    /\ other \in [Pids -> Nat]
    /\ box \in Nat
    /\ procfs \in BOOLEAN
    /\ births \in Nat
    /\ raced \in BOOLEAN

\* A worker that is gone may have left its file, from this container or an
\* earlier one (1), or in one of the older formats: the bare pid, or pid:boot_id,
\* whose boot id (1) is taken for a container id and is nobody's.
LockInit ==
    /\ box \in {IF c THEN 2 ELSE 0 : c \in Contained}
    /\ procfs \in ProcFS
    /\ lockfile \in {Absent} \cup
         {[ino |-> 1, text |-> [pid |-> p, box |-> b, start |-> s]] :
            p \in Pids, b \in {0, 1, box}, s \in {0, 1}}
    /\ worker = [w \in Workers |-> Idle]
    /\ other = [p \in Pids |-> 0]
    /\ births = 2
    /\ raced = FALSE

Start(w) ==
    /\ ~Live(w)
    /\ births < MaxBirths
    /\ \E p \in Pids :
        /\ ~Alive(p)
        /\ worker' = [worker EXCEPT ![w] =
             [Idle EXCEPT !.pc = "exists", !.pid = p, !.start = births + 1]]
    /\ births' = births + 1
    /\ UNCHANGED <<lockfile, other, box, procfs, raced>>

Exists(w) ==
    /\ worker[w].pc = "exists"
    /\ Goto(w, IF lockfile = Absent THEN "truncate" ELSE "read")
    /\ raced' = (raced \/ \E v \in Workers \ {w} : worker[v].pc \in Window)
    /\ UNCHANGED <<lockfile, other, box, procfs, births>>

\* read_text and int() raise when the file is gone or empty; that a different
\* container wrote it is decided without a look at any process.
Read(w) ==
    /\ worker[w].pc = "read"
    /\ IF lockfile.text.pid = NoPid
       THEN Exit(w)
       ELSE LET written == lockfile.text.box
                elsewhere == written # 0 /\ box # 0 /\ written # box
            IN  worker' = [worker EXCEPT
                  ![w].seen = IF elsewhere THEN Torn ELSE lockfile.text,
                  ![w].pc = IF elsewhere THEN "unlink" ELSE "signal"]
    /\ UNCHANGED <<lockfile, other, box, procfs, births, raced>>

Refuse(w) == worker' = [worker EXCEPT ![w] = [Idle EXCEPT !.pc = "refused"]]

\* os.kill(old_pid, 0); a PermissionError counts as an answer.
Signal(w) ==
    /\ worker[w].pc = "signal"
    /\ \/ ~Alive(worker[w].seen.pid) /\ Stale(w)
       \/ Alive(worker[w].seen.pid) /\ worker[w].seen.start # 0 /\ Goto(w, "starttime")
       \/ Alive(worker[w].seen.pid) /\ worker[w].seen.start = 0 /\ Refuse(w)
    /\ UNCHANGED <<lockfile, other, box, procfs, births, raced>>

\* Variant: any two start times that can be read count as the same.
Recycled_Never(w) == FALSE

Recycled(w) == StartTime(worker[w].seen.pid) \notin {0, worker[w].seen.start}

CompareStart(w) ==
    /\ worker[w].pc = "starttime"
    /\ IF Recycled(w) THEN Stale(w) ELSE Refuse(w)
    /\ UNCHANGED <<lockfile, other, box, procfs, births, raced>>

\* unlink() raises when the file is gone already.
Unlink(w) ==
    /\ worker[w].pc = "unlink"
    /\ IF lockfile = Absent THEN Exit(w) ELSE Goto(w, "truncate")
    /\ lockfile' = Absent
    /\ UNCHANGED <<other, box, procfs, births, raced>>

\* write_text opens the file, empties it, and then fills it: whatever file has
\* the name when it is opened.
Truncate(w) ==
    /\ worker[w].pc = "truncate"
    /\ LET ino == IF lockfile = Absent THEN worker[w].start ELSE lockfile.ino
       IN  /\ lockfile' = [ino |-> ino, text |-> Torn]
           /\ worker' = [worker EXCEPT ![w].pc = "fill", ![w].ino = ino]
    /\ UNCHANGED <<other, box, procfs, births, raced>>

\* Variant: the time of writing goes in, not the start of the process.
Fill_Clock(w) ==
    /\ worker[w].pc = "fill"
    /\ lockfile' = [lockfile EXCEPT !.text =
                      [pid |-> worker[w].pid, box |-> box, start |-> births]]
    /\ worker' = [worker EXCEPT ![w].pc = "held", ![w].ino = 0]
    /\ UNCHANGED <<other, box, procfs, births, raced>>

Fill(w) ==
    /\ worker[w].pc = "fill"
    /\ lockfile' = IF lockfile.ino # worker[w].ino THEN lockfile
                   ELSE [lockfile EXCEPT !.text =
                          [pid |-> worker[w].pid, box |-> box,
                           start |-> IF procfs THEN worker[w].start ELSE 0]]
    /\ worker' = [worker EXCEPT ![w].pc = "held", ![w].ino = 0]
    /\ UNCHANGED <<other, box, procfs, births, raced>>

\* The finally block around daemon.run: whosever file it is by now.
Release(w) ==
    /\ worker[w].pc = "held"
    /\ lockfile' = Absent
    /\ Goto(w, "closing")
    /\ UNCHANGED <<other, box, procfs, births, raced>>

Close(w) ==
    /\ worker[w].pc = "closing"
    /\ Exit(w)
    /\ UNCHANGED <<lockfile, other, box, procfs, births, raced>>

-----------------------------------------------------------------------------
(* What happens to processes.                                              *)

\* SIGKILL, or an exception between the lock and daemon.run: the file stays.
Killed(w) ==
    /\ Live(w)
    /\ Exit(w)
    /\ UNCHANGED <<lockfile, other, box, procfs, births, raced>>

\* Somebody else's process gets a free pid, or ends.
Unrelated(p) ==
    /\ \/ other[p] # 0 /\ other' = [other EXCEPT ![p] = 0] /\ UNCHANGED births
       \/ /\ ~Alive(p)
          /\ births < MaxBirths
          /\ births' = births + 1
          /\ other' = [other EXCEPT ![p] = births + 1]
    /\ UNCHANGED <<lockfile, worker, box, procfs, raced>>

\* The container is replaced, or the machine rebooted; the data stays.
NewContainer ==
    /\ births < MaxBirths
    /\ births' = births + 1
    /\ box' = IF box = 0 THEN 0 ELSE births + 1
    /\ worker' = [w \in Workers |-> Idle]
    /\ other' = [p \in Pids |-> 0]
    /\ UNCHANGED <<lockfile, procfs, raced>>

-----------------------------------------------------------------------------
\* As long as no two workers were between the check of the file and the write
\* of it at the same time, at most one worker is past acquire_pid_lock: the
\* check may be fooled neither by a pid that was given to another process, nor
\* by a file from another container, nor by an old or torn file.
OneWorker ==
    ~raced => \A v, w \in Workers :
                worker[v].pc = "held" /\ worker[w].pc = "held" => v = w

\* A start is turned away ("Another worker is already running") only because
\* that worker runs, or because the start time cannot be compared: it is not
\* in the file, or the process answered the signal and ended before its start
\* time was read.
RefusedByWorker ==
    [][\A w \in Workers :
         worker'[w].pc = "refused" /\ worker[w].pc # "refused" =>
           \/ \E v \in Workers : /\ Live(v)
                                 /\ worker[v].pid = worker[w].seen.pid
                                 /\ worker[v].start = worker[w].seen.start
           \/ worker[w].seen.start = 0
           \/ StartTime(worker[w].seen.pid) = 0]_lockVars
=============================================================================
