--------------------------- MODULE StartupProofs ----------------------------
(***************************************************************************)
(* What starting workers and connecting tools may rely on, for any number  *)
(* of them, of pids, containers and restarts, of rows, and of versions     *)
(* that a database may come with.                                          *)
(*                                                                         *)
(* The lock is a file that says who holds it, so the argument is about     *)
(* what the file, and the copies of it that starting workers have read,    *)
(* say.  As long as no two workers were in the window at once (~raced):    *)
(* the file names the worker past it; who has read the file since has read *)
(* that name, finds that process alive and its start time unchanged, and   *)
(* so never comes to unlink or write it.  That a pid names one live        *)
(* process, and a start time one process ever, is Identity.                *)
(*                                                                         *)
(* The version table cannot be trusted: stages 2 to 8 enter the current    *)
(* version while stages are still to come.  So the argument follows the    *)
(* process that migrates (Progress: what must be there for its stage), as  *)
(* long as it is alone (Apart) and none was cut short before it (Complete);*)
(* until the version is entered, the versions the database came with say   *)
(* which columns there are (Entered).                                      *)
(***************************************************************************)
EXTENDS Startup, TLAPS, FiniteSetTheorems

(* The lock.                                                               *)

Started(w) == worker[w].pc = "held"

\* The name a worker writes into the file.
Name(w) == [pid |-> worker[w].pid, box |-> box,
            start |-> IF procfs THEN worker[w].start ELSE 0]

\* Live processes have different pids, and a start time belongs to one process.
Identity ==
    /\ \A w \in Workers : Live(w) => worker[w].pid \in Pids /\ other[worker[w].pid] = 0
    /\ \A v, w \in Workers : Live(v) /\ Live(w) /\ worker[v].pid = worker[w].pid => v = w
    /\ lockfile.text.start <= births
    /\ \A w \in Workers : worker[w].start <= births /\ worker[w].seen.start <= births
    /\ \A p \in Pids : other[p] <= births
    /\ \A p \in Pids : other[p] # 0 =>
         /\ other[p] # lockfile.text.start
         /\ \A w \in Workers : other[p] # worker[w].start /\ other[p] # worker[w].seen.start

Alone      == \A v, w \in Workers : worker[v].pc \in Window /\ worker[w].pc \in Window => v = w
FileNames  == \A w \in Workers : Started(w) => lockfile.text = Name(w)
ReadersSee == \A v, w \in Workers :
                Started(w) /\ worker[v].pc \in {"signal", "starttime"} => worker[v].seen = Name(w)
NoWriters  == \A v, w \in Workers :
                Started(w) => worker[v].pc \notin {"unlink", "truncate", "fill"}
OwnFile    == \A v \in Workers : worker[v].pc = "fill" => worker[v].ino = lockfile.ino

\* A pid that is asked about was one.
Readable == \A w \in Workers :
              worker[w].pc \in {"signal", "starttime"} => worker[w].seen.pid # NoPid

Guarded == ~raced => Alone /\ FileNames /\ ReadersSee /\ NoWriters /\ OwnFile

LockInv == LockTypeOK /\ Identity /\ Readable /\ Guarded

\* The steps of Startup that touch the lock.
LockStep ==
    \/ \E w \in Workers : \/ Start(w) \/ Exists(w) \/ Read(w) \/ Signal(w)
                          \/ CompareStart(w) \/ Unlink(w) \/ Truncate(w) \/ Fill(w)
                          \/ Release(w) \/ Close(w) \/ Killed(w)
    \/ \E p \in Pids : Unrelated(p)
    \/ NewContainer

-----------------------------------------------------------------------------
LEMMA StepsOfLock ==
    ASSUME [Next]_vars
    PROVE  LockStep \/ UNCHANGED lockVars
    BY DEF Next, vars, LockStep, Locking, Serving, Finish, Dies, UseTool, EndTool,
           Reboot, Elsewhere, lockVars

LEMMA InitLock ==
    ASSUME LockInit
    PROVE  LockInv
<1> USE LockAssumption DEF LockInit
<1>1. lockfile.text.start \in {0, 1} /\ lockfile \in [ino: Nat, text: Text]
    <2>1. box \in Nat
        OBVIOUS
    <2>2. CASE lockfile = Absent
        BY <2>2 DEF Absent, Torn, Text
    <2>3. CASE lockfile # Absent
        <3>1. PICK p \in Pids, b \in {0, 1, box}, s \in {0, 1} :
                lockfile = [ino |-> 1, text |-> [pid |-> p, box |-> b, start |-> s]]
            BY <2>3
        <3> QED
            BY <2>1, <3>1 DEF Text
    <2> QED
        BY <2>2, <2>3
<1>2. LockTypeOK
    <2>1. worker \in [Workers -> [pc: Steps, pid: Pids \cup {NoPid}, start: Nat,
                                  seen: Text, ino: Nat]]
        BY DEF Idle, Torn, Text, Steps, Gone
    <2>2. box \in Nat /\ procfs \in BOOLEAN
        OBVIOUS
    <2>3. other \in [Pids -> Nat] /\ births \in Nat /\ raced \in BOOLEAN
        OBVIOUS
    <2> QED
        BY <1>1, <2>1, <2>2, <2>3 DEF LockTypeOK
<1>3. \A w \in Workers : ~Live(w) /\ worker[w].pc = "idle"
    BY DEF Live, Idle, Gone
<1>4. Identity
    BY <1>1, <1>3 DEF Identity, Idle, Torn
<1>5. Guarded
    BY <1>3 DEF Guarded, Alone, FileNames, ReadersSee, NoWriters, OwnFile, Started, Window
<1>6. Readable
    BY <1>3 DEF Readable
<1> QED
    BY <1>2, <1>4, <1>5, <1>6 DEF LockInv

-----------------------------------------------------------------------------
(* Types.                                                                  *)

Process == [pc: Steps, pid: Pids \cup {NoPid}, start: Nat, seen: Text, ino: Nat]

LEMMA Constants ==
    /\ Idle \in Process /\ Torn \in Text /\ [Idle EXCEPT !.pc = "refused"] \in Process
    /\ Absent \in [ino: Nat, text: Text]
    /\ {"idle", "refused", "exists", "held", "closing", "read", "signal", "starttime",
        "unlink", "truncate", "fill"} \subseteq Steps
    BY DEF Idle, Torn, Absent, Text, Process, Steps, Gone, Window

\* What becomes of the process that takes a step.
LEMMA Moves ==
    ASSUME worker \in [Workers -> Process], NEW w \in Workers
    PROVE  /\ \A pc \in Steps : Goto(w, pc) => worker' \in [Workers -> Process]
           /\ Stale(w) => worker' \in [Workers -> Process]
           /\ Exit(w) => worker' \in [Workers -> Process]
           /\ Refuse(w) => worker' \in [Workers -> Process]
<1>1. ASSUME NEW pc \in Steps, Goto(w, pc) PROVE worker' \in [Workers -> Process]
    BY <1>1 DEF Goto, Process
<1>2. ASSUME Stale(w) PROVE worker' \in [Workers -> Process]
    <2>1. "unlink" \in Steps /\ Torn \in Text
        BY Constants
    <2> QED
        BY <1>2, <2>1 DEF Stale, Process
<1>3. Exit(w) => worker' \in [Workers -> Process]
    BY Constants DEF Exit
<1>4. Refuse(w) => worker' \in [Workers -> Process]
    BY Constants DEF Refuse
<1> QED
    BY <1>1, <1>2, <1>3, <1>4

LEMMA TypeKept ==
    ASSUME LockTypeOK, LockStep
    PROVE  LockTypeOK'
<1>0. /\ lockfile \in [ino: Nat, text: Text]
      /\ worker \in [Workers -> Process]
      /\ other \in [Pids -> Nat]
      /\ box \in Nat /\ births \in Nat
      /\ lockfile.text \in Text /\ lockfile.ino \in Nat
      /\ \A w \in Workers : worker[w] \in Process
    BY DEF LockTypeOK, Process
<1> SUFFICES /\ lockfile' \in [ino: Nat, text: Text]
             /\ worker' \in [Workers -> Process]
             /\ other' \in [Pids -> Nat]
             /\ box' \in Nat
             /\ procfs' \in BOOLEAN
             /\ births' \in Nat
             /\ raced' \in BOOLEAN
    BY DEF LockTypeOK, Process
<1> DEFINE Typed == /\ lockfile' \in [ino: Nat, text: Text]
                    /\ worker' \in [Workers -> Process]
                    /\ other' \in [Pids -> Nat]
                    /\ box' \in Nat
                    /\ procfs' \in BOOLEAN
                    /\ births' \in Nat
                    /\ raced' \in BOOLEAN
<1>1. ASSUME NEW w \in Workers, Start(w) PROVE Typed
    <2>1. PICK p \in Pids : worker' = [worker EXCEPT ![w] =
             [Idle EXCEPT !.pc = "exists", !.pid = p, !.start = births + 1]]
        BY <1>1 DEF Start
    <2>2. [Idle EXCEPT !.pc = "exists", !.pid = p, !.start = births + 1] \in Process
        <3>1. births + 1 \in Nat /\ "exists" \in Steps /\ p \in Pids \cup {NoPid}
            BY <1>0, Constants
        <3>2. Torn \in Text /\ 0 \in Nat
            BY Constants
        <3>3. Idle \in Process
            BY Constants
        <3> QED
            BY <3>1, <3>3 DEF Process
    <2>3. worker' \in [Workers -> Process]
        BY <1>0, <2>1, <2>2
    <2>4. births' \in Nat /\ UNCHANGED <<lockfile, other, box, procfs, raced>>
        BY <1>0, <1>1 DEF Start
    <2> QED
        BY <1>0, <2>3, <2>4 DEF LockTypeOK
<1>2. ASSUME NEW w \in Workers, Exists(w) PROVE Typed
    <2>1. worker' \in [Workers -> Process]
        BY <1>0, <1>2, Moves, Constants DEF Exists
    <2>2. raced' \in BOOLEAN
        BY <1>2 DEF Exists, LockTypeOK
    <2> QED
        BY <1>0, <1>2, <2>1, <2>2 DEF Exists, LockTypeOK
<1>3. ASSUME NEW w \in Workers, Read(w) PROVE Typed
    <2>1. worker' \in [Workers -> Process]
        <3>1. CASE lockfile.text.pid = NoPid
            BY <1>0, <1>3, <3>1, Moves DEF Read
        <3>2. CASE lockfile.text.pid # NoPid
            <4>1. PICK t \in Text, pc \in Steps :
                    worker' = [worker EXCEPT ![w].seen = t, ![w].pc = pc]
                BY <1>0, <1>3, <3>2, Constants DEF Read
            <4> QED
                BY <1>0, <4>1 DEF Process
        <3> QED
            BY <3>1, <3>2
    <2> QED
        BY <1>0, <1>3, <2>1 DEF Read, LockTypeOK
<1>4. ASSUME NEW w \in Workers, Signal(w) PROVE Typed
    <2>1. worker' \in [Workers -> Process]
        BY <1>0, <1>4, Moves, Constants DEF Signal
    <2> QED
        BY <1>0, <1>4, <2>1 DEF Signal, LockTypeOK
<1>5. ASSUME NEW w \in Workers, CompareStart(w) PROVE Typed
    <2>1. worker' \in [Workers -> Process]
        BY <1>0, <1>5, Moves DEF CompareStart
    <2> QED
        BY <1>0, <1>5, <2>1 DEF CompareStart, LockTypeOK
<1>6. ASSUME NEW w \in Workers, Unlink(w) PROVE Typed
    <2>1. worker' \in [Workers -> Process]
        BY <1>0, <1>6, Moves, Constants DEF Unlink
    <2> QED
        BY <1>0, <1>6, <2>1, Constants DEF Unlink, LockTypeOK
<1>7. ASSUME NEW w \in Workers, Truncate(w) PROVE Typed
    <2> DEFINE ino == IF lockfile = Absent THEN worker[w].start ELSE lockfile.ino
    <2>1. ino \in Nat
        BY <1>0 DEF Process
    <2>2. /\ lockfile' = [ino |-> ino, text |-> Torn]
          /\ worker' = [worker EXCEPT ![w].pc = "fill", ![w].ino = ino]
          /\ UNCHANGED <<other, box, procfs, births, raced>>
        BY <1>7 DEF Truncate
    <2> HIDE DEF ino
    <2>3. worker' \in [Workers -> Process]
        <3>1. "fill" \in Steps
            BY Constants
        <3> QED
            BY <1>0, <2>1, <2>2, <3>1 DEF Process
    <2>4. lockfile' \in [ino: Nat, text: Text]
        BY <2>1, <2>2, Constants
    <2> QED
        BY <1>0, <2>2, <2>3, <2>4 DEF LockTypeOK
<1>8. ASSUME NEW w \in Workers, Fill(w) PROVE Typed
    <2>1. Name(w) \in Text
        BY <1>0 DEF Name, Text, Process
    <2>2. lockfile' \in {lockfile, [lockfile EXCEPT !.text = Name(w)]}
        BY <1>8 DEF Fill, Name
    <2>3. lockfile' \in [ino: Nat, text: Text]
        BY <1>0, <2>1, <2>2
    <2>4. worker' \in [Workers -> Process]
        <3>1. "held" \in Steps /\ 0 \in Nat
            BY Constants
        <3>2. worker' = [worker EXCEPT ![w].pc = "held", ![w].ino = 0]
            BY <1>8 DEF Fill
        <3> QED
            BY <1>0, <3>1, <3>2 DEF Process
    <2> QED
        BY <1>0, <1>8, <2>3, <2>4 DEF Fill, LockTypeOK
<1>9. ASSUME NEW w \in Workers, Release(w) \/ Close(w) \/ Killed(w) PROVE Typed
    <2>1. worker' \in [Workers -> Process]
        BY <1>0, <1>9, Moves, Constants DEF Release, Close, Killed
    <2> QED
        BY <1>0, <1>9, <2>1, Constants DEF Release, Close, Killed, LockTypeOK
<1>10. ASSUME NEW p \in Pids, Unrelated(p) PROVE Typed
    BY <1>0, <1>10 DEF Unrelated, LockTypeOK
<1>11. ASSUME NewContainer PROVE Typed
    <2>1. worker' \in [Workers -> Process]
        BY <1>11, Constants DEF NewContainer
    <2> QED
        BY <1>0, <1>11, <2>1 DEF NewContainer, LockTypeOK
<1> QED
    BY <1>1, <1>2, <1>3, <1>4, <1>5, <1>6, <1>7, <1>8, <1>9, <1>10, <1>11 DEF LockStep

-----------------------------------------------------------------------------
(* What a step does to the process that takes it, and to the file.         *)

\* A step of w, other than its start, makes no new identity.
Kept(w) ==
    /\ \A v \in Workers : v # w => worker'[v] = worker[v]
    /\ \/ /\ Live(w) /\ worker'[w].pid = worker[w].pid
          /\ worker'[w].start = worker[w].start
       \/ worker'[w].pc \in Gone /\ worker'[w].start = 0
    /\ worker'[w].seen.start \in {0, worker[w].seen.start, lockfile.text.start}
    /\ lockfile'.text.start \in {0, lockfile.text.start, worker[w].start}
    /\ UNCHANGED <<other, births, box, procfs>>

LEMMA GoneIs ==
    ASSUME LockTypeOK, NEW w \in Workers, Exit(w) \/ Refuse(w)
    PROVE  /\ worker'[w].pc \in Gone /\ worker'[w].start = 0 /\ worker'[w].seen.start = 0
           /\ \A v \in Workers : v # w => worker'[v] = worker[v]
    BY DEF LockTypeOK, Exit, Refuse, Idle, Torn, Gone

LEMMA GoneTo ==
    ASSUME LockTypeOK, NEW w \in Workers, NEW pc, Goto(w, pc)
    PROVE  /\ worker'[w].pc = pc
           /\ worker'[w].pid = worker[w].pid /\ worker'[w].start = worker[w].start
           /\ worker'[w].seen = worker[w].seen /\ worker'[w].ino = worker[w].ino
           /\ \A v \in Workers : v # w => worker'[v] = worker[v]
    BY DEF LockTypeOK, Goto

LEMMA FoundStale ==
    ASSUME LockTypeOK, NEW w \in Workers, Stale(w)
    PROVE  /\ worker'[w].pc = "unlink"
           /\ worker'[w].pid = worker[w].pid /\ worker'[w].start = worker[w].start
           /\ worker'[w].seen.start = 0
           /\ \A v \in Workers : v # w => worker'[v] = worker[v]
    BY DEF LockTypeOK, Stale, Torn

LEMMA HasRead ==
    ASSUME LockTypeOK, NEW w \in Workers, Read(w), lockfile.text.pid # NoPid
    PROVE  /\ worker'[w].pc \in {"unlink", "signal"}
           /\ worker'[w].pid = worker[w].pid /\ worker'[w].start = worker[w].start
           /\ worker'[w].pc = "signal" => worker'[w].seen = lockfile.text
           /\ worker'[w].pc = "unlink" => worker'[w].seen = Torn /\ lockfile.text.box # box
           /\ \A v \in Workers : v # w => worker'[v] = worker[v]
    BY DEF LockTypeOK, Read

LEMMA Opened ==
    ASSUME LockTypeOK, NEW w \in Workers, Truncate(w)
    PROVE  /\ worker'[w].pc = "fill" /\ worker'[w].ino = lockfile'.ino
           /\ worker'[w].pid = worker[w].pid /\ worker'[w].start = worker[w].start
           /\ worker'[w].seen = worker[w].seen
           /\ \A v \in Workers : v # w => worker'[v] = worker[v]
           /\ lockfile'.text = Torn
    BY DEF LockTypeOK, Truncate

LEMMA Filled ==
    ASSUME LockTypeOK, NEW w \in Workers, Fill(w)
    PROVE  /\ worker'[w].pc = "held"
           /\ worker'[w].pid = worker[w].pid /\ worker'[w].start = worker[w].start
           /\ worker'[w].seen = worker[w].seen
           /\ \A v \in Workers : v # w => worker'[v] = worker[v]
           /\ \/ worker[w].ino # lockfile.ino /\ lockfile' = lockfile
              \/ worker[w].ino = lockfile.ino /\ lockfile'.text = Name(w)
    BY DEF LockTypeOK, Fill, Name

LEMMA StepsKeep ==
    ASSUME LockTypeOK, NEW w \in Workers,
           \/ Exists(w) \/ Read(w) \/ Signal(w) \/ CompareStart(w) \/ Unlink(w)
           \/ Truncate(w) \/ Fill(w) \/ Release(w) \/ Close(w) \/ Killed(w)
    PROVE  Kept(w)
<1>1. ASSUME Exists(w) PROVE Kept(w)
    BY <1>1, GoneTo DEF Exists, Kept, Live, Gone
<1>2. ASSUME Read(w) PROVE Kept(w)
    <2>1. worker[w].pc = "read" /\ Live(w) /\ UNCHANGED <<lockfile, other, box, procfs, births>>
        BY <1>2 DEF Read, Live, Gone
    <2>2. CASE lockfile.text.pid = NoPid
        BY <1>2, <2>1, <2>2, GoneIs DEF Read, Kept
    <2>3. CASE lockfile.text.pid # NoPid
        <3>1. Torn.start = 0
            BY DEF Torn
        <3> QED
            BY <1>2, <2>1, <2>3, <3>1, HasRead DEF Kept
    <2> QED
        BY <2>2, <2>3
<1>3. ASSUME Signal(w) PROVE Kept(w)
    BY <1>3, GoneTo, FoundStale, GoneIs DEF Signal, Kept, Live, Gone
<1>4. ASSUME CompareStart(w) PROVE Kept(w)
    BY <1>4, FoundStale, GoneIs DEF CompareStart, Kept, Live, Gone
<1>5. ASSUME Unlink(w) PROVE Kept(w)
    BY <1>5, GoneTo, GoneIs DEF Unlink, Kept, Live, Gone, Absent, Torn
<1>6. ASSUME Truncate(w) PROVE Kept(w)
    <2>1. Live(w) /\ UNCHANGED <<other, box, procfs, births>>
        BY <1>6 DEF Truncate, Live, Gone
    <2> QED
        BY <1>6, <2>1, Opened DEF Kept, Torn
<1>7. ASSUME Fill(w) PROVE Kept(w)
    <2>1. Live(w) /\ UNCHANGED <<other, box, procfs, births>>
        BY <1>7 DEF Fill, Live, Gone
    <2>2. Name(w).start \in {0, worker[w].start}
        BY DEF Name
    <2> QED
        BY <1>7, <2>1, <2>2, Filled DEF Kept
<1>8. ASSUME Release(w) PROVE Kept(w)
    BY <1>8, GoneTo DEF Release, Kept, Live, Gone, Absent, Torn
<1>9. ASSUME Close(w) \/ Killed(w) PROVE Kept(w)
    BY <1>9, GoneIs DEF Close, Killed, Kept
<1> QED
    BY <1>1, <1>2, <1>3, <1>4, <1>5, <1>6, <1>7, <1>8, <1>9

LEMMA IdentityKept ==
    ASSUME LockTypeOK, Identity, NEW w \in Workers, Kept(w)
    PROVE  Identity'
<1>1. \A v \in Workers : Live(v)' => /\ Live(v)
                                    /\ worker'[v].pid = worker[v].pid
                                    /\ worker'[v].start = worker[v].start
    BY DEF Kept, Live
<1>2. \A v \in Workers : /\ worker'[v].start \in {0, worker[v].start}
                         /\ worker'[v].seen.start \in {0, worker[v].seen.start,
                                                      lockfile.text.start}
    BY DEF Kept
<1>3. /\ \A v \in Workers : Live(v)' => worker'[v].pid \in Pids /\ other'[worker'[v].pid] = 0
      /\ \A u, v \in Workers : Live(u)' /\ Live(v)' /\ worker'[u].pid = worker'[v].pid => u = v
    BY <1>1 DEF Identity, Kept
<1>4. births \in Nat
    BY DEF LockTypeOK
<1>5. /\ lockfile'.text.start <= births'
      /\ \A v \in Workers : worker'[v].start <= births' /\ worker'[v].seen.start <= births'
    BY <1>2, <1>4 DEF Identity, Kept
<1>6. \A p \in Pids : other'[p] <= births'
    BY DEF Identity, Kept
<1>7. \A p \in Pids : other'[p] # 0 =>
         /\ other'[p] # lockfile'.text.start
         /\ \A v \in Workers : other'[p] # worker'[v].start /\ other'[p] # worker'[v].seen.start
    BY <1>2 DEF Identity, Kept
<1> QED
    BY <1>3, <1>5, <1>6, <1>7 DEF Identity, Live

LEMMA HasStarted ==
    ASSUME LockTypeOK, NEW w \in Workers, Start(w)
    PROVE  /\ worker'[w].pc = "exists" /\ worker'[w].pid \in Pids
           /\ ~Alive(worker'[w].pid)
           /\ worker'[w].start = births + 1 /\ worker'[w].seen.start = 0
           /\ \A v \in Workers : v # w => worker'[v] = worker[v]
    BY DEF LockTypeOK, Start, Idle, Torn

LEMMA IdentityStep ==
    ASSUME LockTypeOK, Identity, LockStep
    PROVE  Identity'
<1>0. births \in Nat /\ other \in [Pids -> Nat]
    BY DEF LockTypeOK
<1>1. ASSUME NEW w \in Workers, Start(w) PROVE Identity'
    <2>1. births' = births + 1 /\ UNCHANGED <<lockfile, other>>
        BY <1>1 DEF Start
    <2>2. /\ other[worker'[w].pid] = 0
          /\ \A v \in Workers : Live(v) => worker[v].pid # worker'[w].pid
        BY <1>1, HasStarted DEF Alive
    <2>3. \A v \in Workers : v # w => (Live(v)' <=> Live(v))
        BY <1>1, HasStarted DEF Live
    <2>4. \A v \in Workers : worker'[v].start <= births' /\ worker'[v].seen.start <= births'
        <3>1. \A v \in Workers : /\ worker'[v].start \in {births + 1, worker[v].start}
                                 /\ worker'[v].seen.start \in {0, worker[v].seen.start}
            BY <1>1, HasStarted
        <3>2. \A v \in Workers : worker[v].start \in Nat /\ worker[v].seen.start \in Nat
            BY DEF LockTypeOK, Text
        <3> QED
            BY <1>0, <2>1, <3>1, <3>2 DEF Identity
    <2>5. \A p \in Pids : other'[p] <= births' /\ other'[p] # births + 1
        BY <1>0, <2>1 DEF Identity
    <2>6. \A p \in Pids, v \in Workers : other'[p] # 0 =>
            other'[p] # worker'[v].start /\ other'[p] # worker'[v].seen.start
        BY <1>1, <2>1, <2>5, HasStarted DEF Identity
    <2>7. lockfile'.text.start <= births'
        <3>1. lockfile.text.start \in Nat
            BY DEF LockTypeOK, Text
        <3> QED
            BY <1>0, <2>1, <3>1 DEF Identity
    <2>8. /\ \A v \in Workers : Live(v)' => worker'[v].pid \in Pids /\ other'[worker'[v].pid] = 0
          /\ \A u, v \in Workers : Live(u)' /\ Live(v)' /\ worker'[u].pid = worker'[v].pid => u = v
        BY <1>1, <2>1, <2>2, <2>3, HasStarted DEF Identity
    <2>9. \A p \in Pids : other'[p] # 0 => other'[p] # lockfile'.text.start
        BY <2>1 DEF Identity
    <2> QED
        BY <2>4, <2>5, <2>6, <2>7, <2>8, <2>9 DEF Identity, Live
<1>2. ASSUME NEW p \in Pids, Unrelated(p) PROVE Identity'
    <2>1. UNCHANGED <<lockfile, worker>>
        BY <1>2 DEF Unrelated
    <2>2. CASE other[p] # 0 /\ other' = [other EXCEPT ![p] = 0] /\ UNCHANGED births
        BY <1>0, <2>1, <2>2 DEF Identity, Live
    <2>3. CASE ~Alive(p) /\ births' = births + 1 /\ other' = [other EXCEPT ![p] = births + 1]
        <3>1. \A v \in Workers : Live(v) => worker[v].pid # p
            BY <2>3 DEF Alive
        <3>2. /\ lockfile.text.start \in Nat
              /\ \A v \in Workers : worker[v].start \in Nat /\ worker[v].seen.start \in Nat
            BY DEF LockTypeOK, Text
        <3>3. \A q \in Pids : other'[q] = IF q = p THEN births + 1 ELSE other[q]
            BY <1>0, <2>3
        <3>4. /\ lockfile'.text.start <= births' /\ \A q \in Pids : other'[q] <= births'
              /\ \A w \in Workers : worker'[w].start <= births' /\ worker'[w].seen.start <= births'
            BY <1>0, <2>1, <2>3, <3>2, <3>3 DEF Identity
        <3>5. \A q \in Pids : other'[q] # 0 =>
                /\ other'[q] # lockfile'.text.start
                /\ \A w \in Workers : /\ other'[q] # worker'[w].start
                                      /\ other'[q] # worker'[w].seen.start
            BY <1>0, <2>1, <3>2, <3>3 DEF Identity
        <3>6. /\ \A v \in Workers : Live(v)' =>
                    worker'[v].pid \in Pids /\ other'[worker'[v].pid] = 0
              /\ \A u, v \in Workers :
                    Live(u)' /\ Live(v)' /\ worker'[u].pid = worker'[v].pid => u = v
            BY <2>1, <3>1, <3>3 DEF Identity, Live
        <3> QED
            BY <3>4, <3>5, <3>6 DEF Identity, Live
    <2> QED
        BY <1>2, <2>2, <2>3 DEF Unrelated
<1>3. ASSUME NewContainer PROVE Identity'
    <2>1. /\ \A w \in Workers : ~Live(w)' /\ worker'[w].start = 0 /\ worker'[w].seen.start = 0
          /\ \A p \in Pids : other'[p] = 0
          /\ lockfile' = lockfile /\ births' = births + 1
        BY <1>3 DEF NewContainer, Live, Idle, Torn, Gone
    <2>2. lockfile.text.start \in Nat
        BY DEF LockTypeOK, Text
    <2> QED
        BY <1>0, <2>1, <2>2 DEF Identity, Live
<1> QED
    BY <1>1, <1>2, <1>3, StepsKeep, IdentityKept DEF LockStep

LEMMA ReadableStep ==
    ASSUME LockTypeOK, Readable, LockStep
    PROVE  Readable'
<1>1. ASSUME NEW w \in Workers, Kept(w),
             worker'[w].pc \in {"signal", "starttime"} => worker'[w].seen.pid # NoPid
      PROVE  Readable'
    BY <1>1 DEF Readable, Kept
<1>2. ASSUME NEW w \in Workers,
             \/ Exists(w) \/ Unlink(w) \/ Release(w) \/ Close(w) \/ Killed(w)
      PROVE  worker'[w].pc \notin {"signal", "starttime"}
    BY <1>2, GoneTo, GoneIs DEF Exists, Unlink, Release, Close, Killed, Gone
<1>3. ASSUME NEW w \in Workers, Truncate(w) \/ Fill(w)
      PROVE  worker'[w].pc \notin {"signal", "starttime"}
    BY <1>3, Opened, Filled
<1>4. ASSUME NEW w \in Workers, Read(w)
      PROVE  worker'[w].pc \in {"signal", "starttime"} => worker'[w].seen.pid # NoPid
    <2>1. CASE lockfile.text.pid = NoPid
        BY <1>4, <2>1, GoneIs DEF Read, Gone
    <2>2. CASE lockfile.text.pid # NoPid
        BY <1>4, <2>2, HasRead
    <2> QED
        BY <2>1, <2>2
<1>5. ASSUME NEW w \in Workers, Signal(w) \/ CompareStart(w)
      PROVE  worker'[w].pc \in {"signal", "starttime"} => worker'[w].seen.pid # NoPid
    BY <1>5, GoneTo, GoneIs, FoundStale DEF Signal, CompareStart, Readable, Gone
<1>6. ASSUME NEW w \in Workers, Start(w) PROVE Readable'
    BY <1>6, HasStarted DEF Readable
<1>7. ASSUME NEW p \in Pids, Unrelated(p) PROVE Readable'
    BY <1>7 DEF Unrelated, Readable
<1>8. ASSUME NewContainer PROVE Readable'
    BY <1>8 DEF NewContainer, Readable, Idle
<1> QED
    BY <1>1, <1>2, <1>3, <1>4, <1>5, <1>6, <1>7, <1>8, StepsKeep DEF LockStep

-----------------------------------------------------------------------------
(* Who is past the lock, and what the file says.                           *)

\* A step of w that keeps or gives up what it has, and leaves the file alone,
\* disturbs nothing: w comes no nearer to the lock.
LEMMA HolderUndisturbed ==
    ASSUME LockTypeOK, Guarded, NEW w \in Workers, Kept(w), lockfile' = lockfile,
           raced' = raced, worker'[w].pc \in Gone \cup {"closing"}
    PROVE  Guarded'
<1>1. \A v \in Workers : Started(v)' => /\ v # w /\ Started(v)
                                       /\ worker'[v] = worker[v] /\ Name(v)' = Name(v)
    BY DEF Kept, Started, Name, Gone
<1>2. \A v \in Workers : worker'[v].pc \in Window => v # w /\ worker'[v] = worker[v]
    BY DEF Kept, Window, Gone
<1> QED
    BY <1>1, <1>2 DEF Guarded, Alone, FileNames, ReadersSee, NoWriters, OwnFile, Started, Window

\* A worker moves in the window, alone there; if somebody holds the lock, it
\* has read that one's name and is not about to touch the file.
LEMMA WindowMove ==
    ASSUME LockTypeOK, Guarded, ~raced, NEW w \in Workers, Kept(w),
           worker'[w].pc \in Window,
           \A v \in Workers : v # w => worker[v].pc \notin Window,
           \A u \in Workers : Started(u) =>
               /\ u # w /\ lockfile' = lockfile
               /\ worker'[w].pc \notin {"unlink", "truncate", "fill"}
               /\ worker'[w].pc \in {"signal", "starttime"} => worker'[w].seen = Name(u),
           worker'[w].pc = "fill" => worker'[w].ino = lockfile'.ino
    PROVE  Guarded'
<1>1. \A v \in Workers : Started(v)' => /\ v # w /\ Started(v) /\ lockfile' = lockfile
                                       /\ worker'[v] = worker[v] /\ Name(v)' = Name(v)
    BY DEF Kept, Started, Name, Window
<1>2. \A v \in Workers : worker'[v].pc \in Window => v = w
    BY DEF Kept
<1> QED
    BY <1>1, <1>2 DEF Guarded, Alone, FileNames, ReadersSee, NoWriters, OwnFile, Started, Window

\* The pid in the file is that of a live process with the start time in the
\* file: whoever compares them turns away.
LEMMA HolderIsFound ==
    ASSUME LockTypeOK, Identity, NEW u \in Workers, Started(u)
    PROVE  /\ Name(u).pid \in Pids /\ Name(u).pid # NoPid /\ Alive(Name(u).pid)
           /\ StartTime(Name(u).pid) \in {0, Name(u).start}
<1>1. Live(u) /\ Name(u).pid = worker[u].pid
    BY DEF Started, Live, Gone, Name
<1>2. worker[u].pid \in Pids /\ other[worker[u].pid] = 0
    BY <1>1 DEF Identity
<1>3. Alive(worker[u].pid)
    BY <1>1 DEF Alive
<1> DEFINE found == CHOOSE v \in Workers : Live(v) /\ worker[v].pid = worker[u].pid
<1>4. found = u
    BY <1>1 DEF Identity
<1>5. StartTime(worker[u].pid) \in {0, Name(u).start}
    <2>1. CASE ~procfs
        BY <2>1 DEF StartTime
    <2>2. CASE procfs
        <3>1. StartTime(worker[u].pid) = worker[found].start
            BY <1>2, <1>3, <2>2 DEF StartTime
        <3> HIDE DEF found
        <3> QED
            BY <1>4, <2>2, <3>1 DEF Name
    <2> QED
        BY <2>1, <2>2
<1> QED
    BY <1>1, <1>2, <1>3, <1>5, LockAssumption

LEMMA GuardedStep ==
    ASSUME LockInv, LockStep
    PROVE  Guarded'
<1> SUFFICES ASSUME ~raced' PROVE Guarded'
    BY DEF Guarded
<1>0. LockTypeOK /\ Identity /\ Guarded
    BY DEF LockInv
<1>a. ~raced
    BY DEF LockStep, Start, Exists, Read, Signal, CompareStart, Unlink, Truncate, Fill,
           Release, Close, Killed, Unrelated, NewContainer
<1>b. Alone /\ FileNames /\ ReadersSee /\ NoWriters /\ OwnFile
    BY <1>0, <1>a DEF Guarded
<1>1. ASSUME NEW w \in Workers, Start(w) PROVE Guarded'
    <2>1. UNCHANGED <<lockfile, box, procfs, raced>>
        BY <1>1 DEF Start
    <2>2. \A v \in Workers : v # w => worker'[v] = worker[v]
        BY <1>0, <1>1, HasStarted
    <2>3. worker'[w].pc = "exists"
        BY <1>0, <1>1, HasStarted
    <2> QED
        BY <1>b, <2>1, <2>2, <2>3 DEF Guarded, Alone, FileNames, ReadersSee, NoWriters,
            OwnFile, Started, Name, Window
<1>2. ASSUME NEW w \in Workers, Exists(w) PROVE Guarded'
    <2>1. /\ lockfile' = lockfile /\ worker[w].pc = "exists"
          /\ \A v \in Workers : v # w => worker[v].pc \notin Window
        BY <1>2 DEF Exists
    <2>2. worker'[w].pc = IF lockfile = Absent THEN "truncate" ELSE "read"
        BY <1>0, <1>2, GoneTo DEF Exists
    <2>3. \A u \in Workers : Started(u) => u # w /\ lockfile # Absent
        BY <1>0, <1>b, <2>1, HolderIsFound DEF FileNames, Started, Absent, Torn
    <2> QED
        BY <1>0, <1>2, <1>a, <2>1, <2>2, <2>3, StepsKeep, WindowMove DEF Window
<1>3. ASSUME NEW w \in Workers, Read(w) PROVE Guarded'
    <2>1. worker[w].pc = "read" /\ UNCHANGED <<lockfile, raced>>
        BY <1>3 DEF Read
    <2>2. \A v \in Workers : v # w => worker[v].pc \notin Window
        BY <1>b, <2>1 DEF Alone, Window
    <2>3. CASE lockfile.text.pid = NoPid
        BY <1>0, <1>3, <2>1, <2>3, GoneIs, StepsKeep, HolderUndisturbed DEF Read
    <2>4. CASE lockfile.text.pid # NoPid
        <3>1. \A u \in Workers : Started(u) => /\ u # w /\ lockfile.text = Name(u)
                                              /\ lockfile.text.box = box
            BY <1>b, <2>1 DEF FileNames, Started, Name
        <3> QED
            BY <1>0, <1>3, <1>a, <2>1, <2>2, <2>4, <3>1, HasRead, StepsKeep, WindowMove
            DEF Window
    <2> QED
        BY <2>3, <2>4
<1>4. ASSUME NEW w \in Workers, Signal(w) PROVE Guarded'
    <2>1. worker[w].pc = "signal" /\ UNCHANGED <<lockfile, raced>>
        BY <1>4 DEF Signal
    <2>2. \A v \in Workers : v # w => worker[v].pc \notin Window
        BY <1>b, <2>1 DEF Alone, Window
    <2>3. \A u \in Workers : Started(u) => /\ u # w /\ worker[w].seen = Name(u)
                                          /\ Alive(worker[w].seen.pid)
        BY <1>0, <1>b, <2>1, HolderIsFound DEF ReadersSee, Started
    <2>4. CASE ~Alive(worker[w].seen.pid) /\ Stale(w)
        BY <1>0, <1>4, <1>a, <2>1, <2>2, <2>3, <2>4, FoundStale, StepsKeep, WindowMove
        DEF Window
    <2>5. CASE Goto(w, "starttime")
        BY <1>0, <1>4, <1>a, <2>1, <2>2, <2>3, <2>5, GoneTo, StepsKeep, WindowMove DEF Window
    <2>6. CASE Refuse(w)
        BY <1>0, <1>4, <2>1, <2>6, GoneIs, StepsKeep, HolderUndisturbed
    <2> QED
        BY <1>4, <2>4, <2>5, <2>6 DEF Signal
<1>5. ASSUME NEW w \in Workers, CompareStart(w) PROVE Guarded'
    <2>1. worker[w].pc = "starttime" /\ UNCHANGED <<lockfile, raced>>
        BY <1>5 DEF CompareStart
    <2>2. \A v \in Workers : v # w => worker[v].pc \notin Window
        BY <1>b, <2>1 DEF Alone, Window
    <2>3. \A u \in Workers : Started(u) => ~Recycled(w)
        <3>1. SUFFICES ASSUME NEW u \in Workers, Started(u) PROVE ~Recycled(w)
            OBVIOUS
        <3>2. worker[w].seen = Name(u)
            BY <1>b, <2>1, <3>1 DEF ReadersSee
        <3> QED
            BY <1>0, <3>1, <3>2, HolderIsFound DEF Recycled
    <2>4. CASE Recycled(w)
        <3>1. Stale(w)
            BY <1>5, <2>4 DEF CompareStart
        <3> QED
            BY <1>0, <1>5, <1>a, <2>1, <2>2, <2>3, <2>4, <3>1, FoundStale, StepsKeep, WindowMove
            DEF Window
    <2>5. CASE ~Recycled(w)
        <3>1. Refuse(w)
            BY <1>5, <2>5 DEF CompareStart
        <3> QED
            BY <1>0, <1>5, <2>1, <3>1, GoneIs, StepsKeep, HolderUndisturbed
    <2> QED
        BY <2>4, <2>5
<1>6. ASSUME NEW w \in Workers, Unlink(w) PROVE Guarded'
    <2>1. worker[w].pc = "unlink" /\ UNCHANGED raced
        BY <1>6 DEF Unlink
    <2>2. \A v \in Workers : v # w => worker[v].pc \notin Window
        BY <1>b, <2>1 DEF Alone, Window
    <2>3. \A u \in Workers : ~Started(u)
        BY <1>b, <2>1 DEF NoWriters
    <2>4. CASE lockfile = Absent
        <3>1. Exit(w) /\ lockfile' = lockfile
            BY <1>6, <2>4 DEF Unlink
        <3> QED
            BY <1>0, <1>6, <2>1, <3>1, GoneIs, StepsKeep, HolderUndisturbed
    <2>5. CASE lockfile # Absent
        <3>1. Goto(w, "truncate")
            BY <1>6, <2>5 DEF Unlink
        <3>2. worker'[w].pc = "truncate"
            BY <1>0, <3>1, GoneTo
        <3> QED
            BY <1>0, <1>6, <1>a, <2>2, <2>3, <3>2, StepsKeep, WindowMove DEF Window
    <2> QED
        BY <2>4, <2>5
<1>7. ASSUME NEW w \in Workers, Truncate(w) PROVE Guarded'
    <2>1. worker[w].pc = "truncate"
        BY <1>7 DEF Truncate
    <2>2. \A v \in Workers : v # w => worker[v].pc \notin Window
        BY <1>b, <2>1 DEF Alone, Window
    <2>3. \A u \in Workers : ~Started(u)
        BY <1>b, <2>1 DEF NoWriters
    <2> QED
        BY <1>0, <1>7, <1>a, <2>2, <2>3, Opened, StepsKeep, WindowMove DEF Window
<1>8. ASSUME NEW w \in Workers, Fill(w) PROVE Guarded'
    <2>1. worker[w].pc = "fill" /\ UNCHANGED <<box, procfs>>
        BY <1>8 DEF Fill
    <2>2. \A v \in Workers : v # w => worker[v].pc \notin Window
        BY <1>b, <2>1 DEF Alone, Window
    <2>3. \A u \in Workers : ~Started(u)
        BY <1>b, <2>1 DEF NoWriters
    <2>4. lockfile'.text = Name(w) /\ Name(w)' = Name(w)
        BY <1>0, <1>8, <1>b, <2>1, Filled DEF OwnFile, Name
    <2>5. \A v \in Workers : /\ worker'[v].pc \notin Window
                             /\ Started(v)' => v = w
        BY <1>0, <1>8, <2>2, <2>3, Filled DEF Window, Started
    <2> QED
        BY <2>4, <2>5 DEF Guarded, Alone, FileNames, ReadersSee, NoWriters, OwnFile, Window
<1>9. ASSUME NEW w \in Workers, Release(w) PROVE Guarded'
    <2>1. /\ Started(w) /\ UNCHANGED <<box, procfs, raced>>
          /\ worker'[w].pc = "closing"
        BY <1>0, <1>9, GoneTo DEF Release, Started
    <2>2. ASSUME NEW u \in Workers, Started(u) PROVE u = w
        <3>1. Name(u).pid = Name(w).pid
            BY <1>b, <2>1, <2>2 DEF FileNames
        <3> QED
            BY <1>0, <2>1, <2>2, <3>1 DEF Name, Identity, Started, Live, Gone
    <2>3. \A v \in Workers : ~Started(v)'
        BY <1>0, <1>9, <2>1, <2>2, StepsKeep DEF Kept, Started
    <2>4. \A v \in Workers : worker'[v].pc \in Window => v # w /\ worker'[v] = worker[v]
        BY <1>0, <1>9, <2>1, StepsKeep DEF Kept, Window
    <2>5. \A v \in Workers : worker'[v].pc # "fill"
        BY <1>b, <2>1, <2>4 DEF NoWriters, Window
    <2> QED
        BY <1>b, <2>3, <2>4, <2>5 DEF Guarded, Alone, FileNames, ReadersSee, NoWriters, OwnFile
<1>10. ASSUME NEW w \in Workers, Close(w) \/ Killed(w) PROVE Guarded'
    BY <1>0, <1>10, GoneIs, StepsKeep, HolderUndisturbed DEF Close, Killed
<1>11. ASSUME NEW p \in Pids, Unrelated(p) PROVE Guarded'
    BY <1>b, <1>11 DEF Unrelated, Guarded, Alone, FileNames, ReadersSee, NoWriters, OwnFile,
        Started, Name
<1>12. ASSUME NewContainer PROVE Guarded'
    <2>1. \A w \in Workers : worker'[w].pc = "idle"
        BY <1>12 DEF NewContainer, Idle
    <2> QED
        BY <2>1 DEF Guarded, Alone, FileNames, ReadersSee, NoWriters, OwnFile, Started, Window
<1> QED
    BY <1>1, <1>2, <1>3, <1>4, <1>5, <1>6, <1>7, <1>8, <1>9, <1>10, <1>11, <1>12 DEF LockStep

-----------------------------------------------------------------------------
LEMMA LockInvariant == Spec => []LockInv
<1>1. Init => LockInv
    BY InitLock DEF Init
<1>2. LockInv /\ [Next]_vars => LockInv'
    <2>1. ASSUME LockInv, LockStep PROVE LockInv'
        BY <2>1, TypeKept, IdentityStep, ReadableStep, GuardedStep DEF LockInv
    <2>2. ASSUME LockInv, UNCHANGED lockVars PROVE LockInv'
        BY <2>2 DEF lockVars, LockInv, LockTypeOK, Identity, Readable, Guarded, Alone, FileNames,
            ReadersSee, NoWriters, OwnFile, Started, Name, Live
    <2> QED
        BY <2>1, <2>2, StepsOfLock
<1> QED
    BY <1>1, <1>2, PTL DEF Spec

\* acquire_pid_lock keeps two workers apart, however many there are, whatever
\* pids and containers come and go, and in whatever state the file was found,
\* as long as no two check it at the same time.
THEOREM LockExcludes == Spec => []OneWorker
<1>1. LockInv => OneWorker
    <2>1. SUFFICES ASSUME LockInv, ~raced, NEW v \in Workers, NEW w \in Workers,
                          Started(v), Started(w)
                   PROVE  v = w
        BY DEF OneWorker, Started
    <2>2. Name(v).pid = Name(w).pid
        BY <2>1 DEF LockInv, Guarded, FileNames
    <2> QED
        BY <2>1, <2>2 DEF LockInv, Identity, Name, Started, Live, Gone
<1> QED
    BY <1>1, LockInvariant, PTL

\* A worker is turned away only by the one whose name it has read, or because
\* the start time cannot be compared: never by a process that was given the
\* pid of a worker that is gone.
THEOREM RefusalsJustified == Spec => RefusedByWorker
<1> DEFINE Justified(w) ==
        worker'[w].pc = "refused" /\ worker[w].pc # "refused" =>
            \/ \E v \in Workers : /\ Live(v)
                                  /\ worker[v].pid = worker[w].seen.pid
                                  /\ worker[v].start = worker[w].seen.start
            \/ worker[w].seen.start = 0
            \/ StartTime(worker[w].seen.pid) = 0
<1>1. ASSUME LockInv, LockStep, NEW w \in Workers,
             worker'[w].pc = "refused", worker[w].pc # "refused"
      PROVE  Justified(w)
    <2>0. LockTypeOK /\ Identity /\ Readable
        BY <1>1 DEF LockInv
    <2>1. Signal(w) \/ CompareStart(w)
        <3>1. \A v \in Workers : Exit(v) => worker'[w].pc # "refused"
            BY <1>1, <2>0, GoneIs DEF Exit, Idle, LockTypeOK
        <3>2. \A v \in Workers : Kept(v) => v = w
            BY <1>1 DEF Kept
        <3>3. \A v \in Workers : ~Start(v)
            BY <1>1, <2>0, HasStarted
        <3>4. (\A p \in Pids : ~Unrelated(p)) /\ ~NewContainer
            BY <1>1 DEF Unrelated, NewContainer, Idle
        <3>5. ~Exists(w) /\ ~Release(w)
            BY <1>1, <2>0, GoneTo DEF Exists, Release
        <3>6. ~Read(w)
            BY <1>1, <2>0, <3>1, HasRead DEF Read
        <3>7. ~Unlink(w)
            BY <1>1, <2>0, <3>1, GoneTo DEF Unlink
        <3>8. ~Truncate(w) /\ ~Fill(w)
            BY <1>1, <2>0, Opened, Filled
        <3>9. ~Close(w) /\ ~Killed(w)
            BY <1>1, <3>1 DEF Close, Killed
        <3> QED
            BY <1>1, <2>0, <3>2, <3>3, <3>4, <3>5, <3>6, <3>7, <3>8, <3>9, StepsKeep
            DEF LockStep
    <2>2. CASE Signal(w)
        BY <1>1, <2>0, <2>2, GoneTo, FoundStale DEF Signal
    <2>3. CASE CompareStart(w)
        <3>1. ~Recycled(w)
            BY <1>1, <2>0, <2>3, FoundStale DEF CompareStart
        <3>2. StartTime(worker[w].seen.pid) \in {0, worker[w].seen.start}
            BY <3>1 DEF Recycled
        <3>3. ASSUME worker[w].seen.start # 0,
                     StartTime(worker[w].seen.pid) = worker[w].seen.start
              PROVE  \E v \in Workers : /\ Live(v) /\ worker[v].pid = worker[w].seen.pid
                                       /\ worker[v].start = worker[w].seen.start
            <4> DEFINE p == worker[w].seen.pid
                       found == CHOOSE v \in Workers : Live(v) /\ worker[v].pid = p
            <4>1. p \in Pids
                BY <2>0, <2>3 DEF LockTypeOK, Text, Readable, CompareStart
            <4>2. procfs /\ Alive(p)
                BY <3>3 DEF StartTime
            <4>3. CASE \E v \in Workers : Live(v) /\ worker[v].pid = p
                <5>1. found \in Workers /\ Live(found) /\ worker[found].pid = p
                    BY <4>3
                <5>2. p \in Pids /\ other[p] = 0
                    BY <2>0, <5>1 DEF Identity
                <5>3. StartTime(p) = worker[found].start
                    BY <4>2, <5>2 DEF StartTime
                <5> QED
                    BY <3>3, <5>1, <5>3
            <4>4. CASE ~\E v \in Workers : Live(v) /\ worker[v].pid = p
                <5>1. other[p] # 0 /\ StartTime(p) = other[p]
                    BY <4>2, <4>4 DEF Alive, StartTime
                <5> QED
                    BY <2>0, <3>3, <4>1, <5>1 DEF Identity
            <4> QED
                BY <4>3, <4>4
        <3> QED
            BY <3>2, <3>3
    <2> QED
        BY <2>1, <2>2, <2>3
<1>2. LockInv /\ [Next]_vars => [\A w \in Workers : Justified(w)]_lockVars
    BY <1>1, StepsOfLock
<1> QED
    BY <1>2, LockInvariant, PTL DEF Spec, RefusedByWorker

-----------------------------------------------------------------------------
(* The database.                                                           *)

Migrating(p) == mig[p].pc \in Active
Quiet        == \A p \in Clients : ~Migrating(p)

\* The columns that the versions entered so far stand for.
KnownTo == {c \in Columns : \E v \in db.stamps : c <= v}

\* Where a process is, and what there must be for it to be there.
Staged ==
    \A p \in Clients :
        /\ mig[p].pc \in {"drop", "create", "copy"} => mig[p].stage \in Rebuilds
        /\ mig[p].pc \in {"alter", "stamp"} => mig[p].stage \in Adds
        /\ mig[p].pc \in {"agent", "fallback", "update"} => mig[p].stage = 9
        /\ Migrating(p) /\ mig[p].stage > 2 => db.stamps # {}
        /\ mig[p].pc # "off" => db.base
        /\ Migrating(p) /\ mig[p].pc # "tables" => db.tasks
        /\ mig[p].pc = "ready" => SCHEMA_VERSION \in db.stamps

\* What the versions in the database tell, whoever else was at work.
Entered ==
    /\ SCHEMA_VERSION \notin db.stamps =>
         /\ db.stamps = IF history = {0} THEN {} ELSE history
         /\ \A r \in db.present : db.rows[r] \subseteq KnownTo
    /\ db.stamps # {} \/ db.table => db.tasks
    /\ ~db.tasks /\ db.base => OfRepos \subseteq db.columns
    /\ \A r \in RowIds : db.rows[r] \subseteq OfTasks

\* One migration at a time.
Apart ==
    ~overlapped =>
        /\ \A p, q \in Clients : Migrating(p) /\ Migrating(q) => p = q
        /\ \A p, q \in Clients : mig[p].pc = "ready" => ~Migrating(q)
        /\ \A p \in Clients :
             /\ mig[p].pc = "tables" => ~db.tasks
             /\ mig[p].pc \in {"stamp_table", "fresh"} => Columns \subseteq db.columns
             /\ mig[p].pc \in {"drop", "create", "copy"} =>
                  \A r \in db.present : db.rows[r] \subseteq 2..(mig[p].stage - 1)

\* ... and none cut short: the columns before the stage are there, those of the
\* stage as far as it has come, and all of them once it is through.
Progress(p) ==
    LET pc == mig[p].pc
        s  == mig[p].stage
    IN  /\ pc \in Active \ {"tables", "stamp_table", "fresh"} => 2..(s - 1) \subseteq db.columns
        /\ pc = "create" => s \notin db.temp
        /\ pc = "copy" => s \in db.temp
        /\ pc = "stamp" => s \in db.columns
        /\ pc = "fallback" => AgentCol \in db.columns /\ FallbackCol \notin db.columns
        /\ pc = "update" => {AgentCol, FallbackCol} \subseteq db.columns

InStage9 == \E p \in Clients : mig[p].pc \in {"fallback", "update"}

Complete ==
    ~overlapped /\ ~interrupted =>
        /\ \A p \in Clients : Progress(p)
        /\ FallbackCol \in db.columns => AgentCol \in db.columns
        /\ AgentCol \in db.columns =>
             FallbackCol \in db.columns \/ \E p \in Clients : mig[p].pc = "fallback"
        /\ SCHEMA_VERSION \notin db.stamps => KnownTo \subseteq db.columns
        /\ SCHEMA_VERSION \in db.stamps /\ Quiet => Columns \subseteq db.columns
        /\ SCHEMA_VERSION \notin db.stamps /\ AgentCol \in db.columns /\ db.stamps # {} =>
             Cardinality(db.stamps) > 1 \/ InStage9

SchemaInv == SchemaTypeOK /\ Staged /\ Entered /\ Apart /\ Complete

SchemaStep ==
    \/ \E p \in Clients : Connect(p) \/ MigrationStep(p)
    \/ \E gone \in SUBSET Clients : Disconnect(gone)

LEMMA StepsOfSchema ==
    ASSUME [Next]_vars
    PROVE  SchemaStep \/ UNCHANGED schemaVars
<1> USE ClientsAssumption
<1>1. CASE UNCHANGED vars
    BY <1>1 DEF vars, schemaVars
<1>2. ASSUME NEW w \in Workers, Locking(w) \/ Serving(w) \/ Finish(w) \/ Dies(w)
      PROVE  SchemaStep \/ UNCHANGED schemaVars
    BY <1>2 DEF Locking, Serving, Finish, Dies, SchemaStep
<1>3. ASSUME NEW p \in Tools, UseTool(p) \/ EndTool(p)
      PROVE  SchemaStep
    BY <1>3 DEF UseTool, EndTool, SchemaStep
<1>4. ASSUME NEW p \in Pids, Elsewhere(p) PROVE UNCHANGED schemaVars
    BY <1>4 DEF Elsewhere
<1>5. CASE Reboot
    BY <1>5 DEF Reboot, SchemaStep
<1> QED
    BY <1>1, <1>2, <1>3, <1>4, <1>5 DEF Next

-----------------------------------------------------------------------------
LEMMA Greatest ==
    ASSUME NEW S \in SUBSET (1..9), S # {}
    PROVE  \E v \in S : \A u \in S : u <= v
<1>1. \A u \in S : u \in Int /\ u <= 9 /\ u >= 1
    OBVIOUS
<1>2. \E u \in S : TRUE
    OBVIOUS
<1> DEFINE Top(v) == v \in S /\ \A u \in S : u <= v
<1>3. Top(9) \/ Top(8) \/ Top(7) \/ Top(6) \/ Top(5) \/ Top(4) \/ Top(3) \/ Top(2) \/ Top(1)
    <2>1. (9 \notin S => \A u \in S : u <= 8) /\ (9 \in S => Top(9))
        BY <1>1
    <2>2. (\A u \in S : u <= 8) => Top(8) \/ \A u \in S : u <= 7
        BY <1>1
    <2>3. (\A u \in S : u <= 7) => Top(7) \/ \A u \in S : u <= 6
        BY <1>1
    <2>4. (\A u \in S : u <= 6) => Top(6) \/ \A u \in S : u <= 5
        BY <1>1
    <2>5. (\A u \in S : u <= 5) => Top(5) \/ \A u \in S : u <= 4
        BY <1>1
    <2>6. (\A u \in S : u <= 4) => Top(4) \/ \A u \in S : u <= 3
        BY <1>1
    <2>7. (\A u \in S : u <= 3) => Top(3) \/ \A u \in S : u <= 2
        BY <1>1
    <2>8. (\A u \in S : u <= 2) => Top(2) \/ Top(1)
        BY <1>1, <1>2
    <2> HIDE DEF Top
    <2> QED
        BY <2>1, <2>2, <2>3, <2>4, <2>5, <2>6, <2>7, <2>8
<1> QED
    BY <1>3

LEMMA VersionIs ==
    ASSUME SchemaTypeOK
    PROVE  /\ db.stamps # {} => /\ SchemaVersion \in db.stamps
                                /\ \A u \in db.stamps : u <= SchemaVersion
           /\ db.stamps = {} => SchemaVersion = IF db.table \/ db.tasks THEN 1 ELSE 0
           /\ SchemaVersion \in 0..9
<1>1. db.stamps \in SUBSET (1..9)
    BY DEF SchemaTypeOK
<1>2. ASSUME db.stamps # {}
      PROVE  SchemaVersion \in db.stamps /\ \A u \in db.stamps : u <= SchemaVersion
    <2>1. \E v \in db.stamps : \A u \in db.stamps : u <= v
        BY <1>1, <1>2, Greatest
    <2> QED
        BY <1>2, <2>1 DEF SchemaVersion
<1> QED
    BY <1>1, <1>2 DEF SchemaVersion

LEMMA Stages ==
    /\ \A s \in 2..10 :
         /\ s \in Rebuilds => FirstStep(s) = "drop"
         /\ s \in Adds => FirstStep(s) = "alter"
         /\ s = 9 => FirstStep(s) = "agent"
         /\ s = 10 => FirstStep(s) = "ready"
         /\ s \in Rebuilds \/ s \in Adds \/ s = 9 \/ s = 10
         /\ FirstStep(s) \in {"drop", "alter", "agent", "ready"}
    /\ Active = {"tables", "stamp_table", "fresh", "drop", "create", "copy", "alter",
                 "stamp", "agent", "fallback", "update"}
    BY DEF FirstStep, Rebuilds, Adds, Active

\* Where a step takes its process.
Goes(p, pc, s) ==
    /\ mig'[p].pc = pc /\ mig'[p].stage = s
    /\ \A q \in Clients : q # p => mig'[q] = mig[q]
    /\ mig' \in [Clients -> [pc: Steps9, stage: 0..10]]

LEMMA Going ==
    ASSUME SchemaTypeOK, NEW p \in Clients
    PROVE  /\ \A pc \in Steps9 : Step(p, pc) => Goes(p, pc, mig[p].stage)
           /\ mig[p].stage \in 1..9 /\ NextStage(p) =>
                 Goes(p, FirstStep(mig[p].stage + 1), mig[p].stage + 1)
           /\ Fail(p) => Goes(p, "failed", 0)
<1>0. mig \in [Clients -> [pc: Steps9, stage: 0..10]]
    BY DEF SchemaTypeOK
<1>1. ASSUME NEW pc \in Steps9, Step(p, pc) PROVE Goes(p, pc, mig[p].stage)
    BY <1>0, <1>1 DEF Step, Goes
<1>2. ASSUME mig[p].stage \in 1..9, NextStage(p)
      PROVE  Goes(p, FirstStep(mig[p].stage + 1), mig[p].stage + 1)
    <2> DEFINE n == mig[p].stage + 1
               f == FirstStep(n)
    <2>1. n \in 0..10 /\ f \in Steps9
        BY <1>2, Stages DEF Steps9
    <2>2. mig' = [mig EXCEPT ![p].stage = n, ![p].pc = f]
        BY <1>2 DEF NextStage
    <2> HIDE DEF n, f
    <2>3. Goes(p, f, n)
        BY <1>0, <2>1, <2>2 DEF Goes
    <2> QED
        BY <2>3 DEF n, f
<1>3. ASSUME Fail(p) PROVE Goes(p, "failed", 0)
    BY <1>0, <1>3 DEF Fail, Goes, Off, Steps9
<1> QED
    BY <1>1, <1>2, <1>3

-----------------------------------------------------------------------------
Database == [base: BOOLEAN, tasks: BOOLEAN, columns: SUBSET Columns,
             rows: [RowIds -> SUBSET Columns], present: SUBSET RowIds,
             temp: SUBSET Rebuilds, table: BOOLEAN, stamps: SUBSET (1..9)]

LEMMA MakeDatabase ==
    ASSUME NEW b \in BOOLEAN, NEW t \in BOOLEAN, NEW c \in SUBSET Columns,
           NEW r \in [RowIds -> SUBSET Columns], NEW p \in SUBSET RowIds,
           NEW v \in BOOLEAN, NEW s \in SUBSET (1..9)
    PROVE  [base |-> b, tasks |-> t, columns |-> c, rows |-> r, present |-> p,
            temp |-> {}, table |-> v, stamps |-> s] \in Database
    BY DEF Database

LEMMA InitSchema ==
    ASSUME SchemaInit
    PROVE  SchemaInv
<1> DEFINE known == {c \in Columns : \E v \in history : c <= v}
<1>1. history \in Histories /\ mig = [p \in Clients |-> Off]
      /\ overlapped = FALSE /\ interrupted = FALSE
    BY DEF SchemaInit
<1>2. \/ /\ history = {0}
         /\ db = [base |-> FALSE, tasks |-> FALSE, columns |-> {},
                  rows |-> [r \in RowIds |-> {}], present |-> {},
                  temp |-> {}, table |-> FALSE, stamps |-> {}]
      \/ /\ history # {0}
         /\ history \in SUBSET (1..8)
         /\ db = [base |-> TRUE, tasks |-> TRUE, columns |-> known,
                  rows |-> [r \in RowIds |-> known \cap OfTasks],
                  present |-> RowIds,
                  temp |-> {}, table |-> history # {}, stamps |-> history]
    BY HistoryAssumption DEF SchemaInit
<1>3. \A p \in Clients : mig[p].pc = "off" /\ mig[p].stage = 0
    BY <1>1 DEF Off
<1>4. db \in Database
    <2>1. CASE history = {0}
        <3> DEFINE none == [r \in RowIds |-> {}]
        <3>1. none \in [RowIds -> SUBSET Columns]
            OBVIOUS
        <3>2. db = [base |-> FALSE, tasks |-> FALSE, columns |-> {}, rows |-> none,
                    present |-> {}, temp |-> {}, table |-> FALSE, stamps |-> {}]
            BY <1>2, <2>1, Zenon
        <3> HIDE DEF none
        <3> QED
            BY <3>1, <3>2, MakeDatabase
    <2>2. CASE history # {0}
        <3> DEFINE all == [r \in RowIds |-> known \cap OfTasks]
        <3>1. known \in SUBSET Columns /\ all \in [RowIds -> SUBSET Columns]
            OBVIOUS
        <3>2. history \in SUBSET (1..9)
            BY <1>2, <2>2
        <3>3. db = [base |-> TRUE, tasks |-> TRUE, columns |-> known, rows |-> all,
                    present |-> RowIds, temp |-> {}, table |-> history # {},
                    stamps |-> history]
            BY <1>2, <2>2, Zenon
        <3> HIDE DEF known, all
        <3> QED
            BY <3>1, <3>2, <3>3, MakeDatabase
    <2> QED
        BY <2>1, <2>2
<1>5. SchemaTypeOK
    <2>1. mig \in [Clients -> [pc: Steps9, stage: 0..10]]
        BY <1>1 DEF Off, Steps9
    <2> QED
        BY <1>1, <1>4, <2>1 DEF SchemaTypeOK, Database
<1>6. Staged
    BY <1>3 DEF Staged, Migrating, Active
<1>7. Entered
    <2>1. CASE history = {0}
        BY <1>2, <2>1 DEF Entered
    <2>2. CASE history # {0}
        BY <1>2, <2>2 DEF Entered, KnownTo
    <2> QED
        BY <2>1, <2>2
<1>8. Apart
    BY <1>3 DEF Apart, Migrating, Active
<1>9. Complete
    <2>1. \A p \in Clients : Progress(p)
        BY <1>3 DEF Progress, Active
    <2>2. db.columns \subseteq 2..8 /\ SCHEMA_VERSION \notin db.stamps
        BY <1>2 DEF SCHEMA_VERSION, Columns
    <2>3. KnownTo \subseteq db.columns
        BY <1>2 DEF KnownTo
    <2> QED
        BY <2>1, <2>2, <2>3 DEF Complete, AgentCol, FallbackCol
<1> QED
    BY <1>5, <1>6, <1>7, <1>8, <1>9 DEF SchemaInv

LEMMA AlterKeeps ==
    ASSUME SchemaInv, NEW p \in Clients, Alter(p)
    PROVE  SchemaInv'
<1> DEFINE s == mig[p].stage
<1>0. SchemaTypeOK /\ Staged /\ Entered /\ Apart /\ Complete
    BY DEF SchemaInv
<1>1. /\ mig[p].pc = "alter" /\ s \in Adds
      /\ db' = [db EXCEPT !.columns = @ \cup {s}]
      /\ UNCHANGED <<history, overlapped, interrupted>>
    BY <1>0 DEF Alter, At, Unghost, Staged
<1>2. Goes(p, "stamp", s)
    BY <1>0, Going DEF Alter, Steps9, Active
<1>3. /\ db'.columns = db.columns \cup {s} /\ db' \in Database
      /\ UNCHANGED <<db.base, db.tasks, db.rows, db.present, db.temp, db.table, db.stamps>>
    BY <1>0, <1>1 DEF SchemaTypeOK, Database, Adds, Columns
<1> HIDE DEF s
<1>4. SchemaTypeOK'
    BY <1>0, <1>1, <1>2, <1>3 DEF SchemaTypeOK, Goes, Database
<1>5. Staged'
    BY <1>0, <1>1, <1>2, <1>3 DEF Staged, Goes, Migrating, Active, s
<1>6. Entered'
    BY <1>0, <1>1, <1>3 DEF Entered, KnownTo
<1>7. Apart'
    BY <1>0, <1>1, <1>2, <1>3 DEF Apart, Goes, Migrating, Active
<1>8. Complete'
    BY <1>0, <1>1, <1>2, <1>3 DEF Complete, Goes, Quiet, Migrating, Active, Progress, KnownTo, InStage9, s, Adds, AgentCol, FallbackCol
<1> QED
    BY <1>4, <1>5, <1>6, <1>7, <1>8 DEF SchemaInv

\* A process that stops with an error leaves nothing half done, unless it found
\* what somebody else had left.
LEMMA FailKeeps ==
    ASSUME SchemaInv, NEW p \in Clients, Migrating(p), Fail(p),
           UNCHANGED <<db, history, overlapped, interrupted>>,
           ~overlapped /\ ~interrupted =>
               /\ mig[p].pc # "fallback"
               /\ mig[p].pc = "update" => Cardinality(db.stamps) > 1
               /\ SCHEMA_VERSION \in db.stamps => Columns \subseteq db.columns
    PROVE  SchemaInv'
<1>0. SchemaTypeOK /\ Staged /\ Entered /\ Apart /\ Complete
    BY DEF SchemaInv
<1>1. Goes(p, "failed", 0)
    BY <1>0, Going
<1>2. SchemaTypeOK'
    BY <1>0, <1>1 DEF SchemaTypeOK, Goes
<1>3. db'.base
    BY <1>0 DEF Staged, Migrating, Active
<1>4. Staged'
    BY <1>0, <1>1, <1>3 DEF Staged, Goes, Migrating, Active
<1>5. Entered'
    BY <1>0 DEF Entered, KnownTo
<1>6. Apart'
    BY <1>0, <1>1 DEF Apart, Goes, Migrating, Active
<1>7. Complete'
    BY <1>0, <1>1 DEF Complete, Goes, Quiet, Migrating, Active, Progress, KnownTo, InStage9
<1> QED
    BY <1>2, <1>4, <1>5, <1>6, <1>7 DEF SchemaInv

LEMMA ConnectKeeps ==
    ASSUME SchemaInv, NEW p \in Clients, Connect(p)
    PROVE  SchemaInv'
<1>0. SchemaTypeOK /\ Staged /\ Entered /\ Apart /\ Complete
    BY DEF SchemaInv
<1>1. /\ mig[p].pc = "off"
      /\ db' = IF db.base THEN db
               ELSE [db EXCEPT !.base = TRUE, !.columns = @ \cup OfRepos]
      /\ UNCHANGED <<history, overlapped, interrupted>>
    BY DEF Connect, At, Unghost
<1>2. Goes(p, "version", mig[p].stage)
    BY <1>0, Going DEF Connect, Steps9
<1>3. /\ db' \in Database /\ db'.base
      /\ db.columns \subseteq db'.columns
      /\ db'.columns \subseteq db.columns \cup OfRepos
      /\ ~db.base => OfRepos \subseteq db'.columns
      /\ db.base => db' = db
      /\ UNCHANGED <<db.tasks, db.rows, db.present, db.temp, db.table, db.stamps>>
    <2>0. db \in Database
        BY <1>0 DEF SchemaTypeOK, Database
    <2>1. CASE db.base
        BY <1>1, <2>0, <2>1
    <2>2. CASE ~db.base
        <3>1. db' = [db EXCEPT !.base = TRUE, !.columns = @ \cup OfRepos]
            BY <1>1, <2>2
        <3> DEFINE c == db.columns \cup OfRepos
        <3>2. c \in SUBSET Columns /\ db' = [db EXCEPT !.base = TRUE, !.columns = c]
            BY <2>0, <3>1 DEF Database, OfRepos, Columns
        <3>3. db.columns \subseteq c /\ OfRepos \subseteq c
            OBVIOUS
        <3> HIDE DEF c
        <3>4. db' \in Database /\ db'.base = TRUE /\ db'.columns = c
              /\ UNCHANGED <<db.tasks, db.rows, db.present, db.temp, db.table, db.stamps>>
            BY <2>0, <3>2 DEF Database
        <3> QED
            BY <2>2, <3>3, <3>4 DEF c
    <2> QED
        BY <2>1, <2>2
<1>4. SchemaTypeOK'
    BY <1>0, <1>1, <1>2, <1>3 DEF SchemaTypeOK, Goes, Database
<1>5. Staged'
    BY <1>0, <1>1, <1>2, <1>3 DEF Staged, Goes, Migrating, Active
<1>6. Entered'
    BY <1>0, <1>1, <1>3 DEF Entered, KnownTo
<1>7. Apart'
    BY <1>0, <1>1, <1>2, <1>3 DEF Apart, Goes, Migrating, Active
<1>8. Complete'
    BY <1>0, <1>1, <1>2, <1>3 DEF Complete, Goes, Quiet, Migrating, Active, Progress,
        KnownTo, InStage9, OfRepos, AgentCol, FallbackCol
<1> QED
    BY <1>4, <1>5, <1>6, <1>7, <1>8 DEF SchemaInv

LEMMA VersionKeeps ==
    ASSUME SchemaInv, NEW p \in Clients, ReadVersion(p)
    PROVE  SchemaInv'
<1> DEFINE v == SchemaVersion
           s == IF v + 1 > 10 THEN 10 ELSE v + 1
           pc == IF v = 0 THEN "tables" ELSE FirstStep(s)
<1>0. SchemaTypeOK /\ Staged /\ Entered /\ Apart /\ Complete
    BY DEF SchemaInv
<1>1. /\ mig[p].pc = "version"
      /\ mig' = [mig EXCEPT ![p] = [stage |-> s, pc |-> pc]]
      /\ overlapped' = (overlapped \/ \E q \in Clients \ {p} : Migrating(q))
      /\ UNCHANGED <<db, history, interrupted>>
    BY DEF ReadVersion, At, Migrating
<1>2. v \in 0..9 /\ s = v + 1
    BY <1>0, VersionIs
<1>3. pc \in Steps9 /\ s \in 0..10
    BY <1>2, Stages DEF Steps9, Active
<1>4. /\ v = 0 => pc = "tables"
      /\ s \in Rebuilds => pc = "drop"
      /\ s \in Adds => pc = "alter"
      /\ s = 9 => pc = "agent"
      /\ s = 10 => pc = "ready"
      /\ pc \in {"tables", "drop", "alter", "agent", "ready"}
    BY <1>2, Stages DEF Rebuilds, Adds
<1>5. /\ v = 0 => ~db.tasks /\ db.stamps = {}
      /\ v > 1 => v \in db.stamps
      /\ v # 0 => db.tasks
      /\ v = 9 <=> SCHEMA_VERSION \in db.stamps
      /\ db.stamps # {} => \A u \in db.stamps : u <= v
    BY <1>0, <1>2, VersionIs DEF SchemaTypeOK, SCHEMA_VERSION, Entered
<1>6. SCHEMA_VERSION \notin db.stamps => KnownTo = 2..v
    <2>1. SUFFICES ASSUME SCHEMA_VERSION \notin db.stamps PROVE KnownTo = 2..v
        OBVIOUS
    <2>2. CASE db.stamps = {}
        BY <1>0, <2>2, VersionIs DEF KnownTo
    <2>3. CASE db.stamps # {}
        <3>1. v \in db.stamps /\ \A u \in db.stamps : u <= v
            BY <1>0, <2>3, VersionIs
        <3>2. db.stamps \subseteq 1..9
            BY <1>0 DEF SchemaTypeOK
        <3> HIDE DEF v
        <3> QED
            BY <1>2, <3>1, <3>2 DEF KnownTo, Columns
    <2> QED
        BY <2>2, <2>3
<1> HIDE DEF v, s, pc
<1>7. Goes(p, pc, s)
    BY <1>0, <1>1, <1>3 DEF SchemaTypeOK, Goes
<1>8. SchemaTypeOK'
    BY <1>0, <1>1, <1>7 DEF SchemaTypeOK, Goes
<1>9. Staged'
    <2>1. /\ s > 2 => db.stamps # {}
          /\ pc \in Active \ {"tables"} => db.tasks
          /\ pc = "ready" => SCHEMA_VERSION \in db.stamps
          /\ pc = "drop" => s \in Rebuilds
          /\ pc = "alter" => s \in Adds
          /\ pc = "agent" => s = 9
        BY <1>2, <1>4, <1>5 DEF Rebuilds, Adds, Active
    <2>2. db.base /\ pc \in {"tables", "drop", "alter", "agent", "ready"}
        BY <1>0, <1>1, <1>4 DEF Staged
    <2>3. \A q \in Clients : mig'[q] = mig[q] \/ (q = p /\ mig'[q].pc = pc /\ mig'[q].stage = s)
        BY <1>7 DEF Goes
    <2> QED
        BY <1>0, <1>1, <2>1, <2>2, <2>3 DEF Staged, Migrating, Active
<1>10. Entered'
    BY <1>0, <1>1 DEF Entered, KnownTo
<1>11. Apart'
    <2>1. SUFFICES ASSUME ~overlapped' PROVE Apart'
        BY DEF Apart
    <2>2. ~overlapped /\ \A q \in Clients : q # p => ~Migrating(q)
        BY <1>1, <2>1
    <2>3. \A q \in Clients : q # p => ~Migrating(q)'
        BY <1>7, <2>2 DEF Goes, Migrating
    <2>4. \A q \in Clients : mig'[q].pc = "ready" => ~Migrating(p)'
        BY <1>0, <1>2, <1>4, <1>5, <1>7 DEF Staged, Goes, Migrating, Active, Adds, Rebuilds
    <2>5. pc = "drop" => \A r \in db.present : db.rows[r] \subseteq 2..(s - 1)
        BY <1>0, <1>2, <1>4, <1>5, <1>6 DEF Entered, Adds, Rebuilds, SCHEMA_VERSION
    <2>6. \A q, t \in Clients : Migrating(q)' /\ Migrating(t)' => q = t
        BY <2>3
    <2>7. \A q, t \in Clients : mig'[q].pc = "ready" => ~Migrating(t)'
        BY <2>3, <2>4
    <2>8. ASSUME NEW q \in Clients
          PROVE  /\ mig'[q].pc = "tables" => ~db.tasks
                 /\ mig'[q].pc \in {"stamp_table", "fresh"} => Columns \subseteq db.columns
                 /\ mig'[q].pc \in {"drop", "create", "copy"} =>
                      \A r \in db.present : db.rows[r] \subseteq 2..(mig'[q].stage - 1)
        <3>1. CASE q = p
            <4>1. pc = "tables" => v = 0
                BY <1>2, <1>4 DEF Rebuilds, Adds
            <4> QED
                BY <1>4, <1>5, <1>7, <2>5, <3>1, <4>1 DEF Goes
        <3>2. CASE q # p
            BY <1>7, <2>3, <3>2 DEF Goes, Migrating, Active
        <3> QED
            BY <3>1, <3>2
    <2> QED
        BY <1>1, <2>6, <2>7, <2>8 DEF Apart
<1>12. Complete'
    <2>1. SUFFICES ASSUME ~overlapped', ~interrupted' PROVE Complete'
        BY DEF Complete
    <2>2. ~overlapped /\ ~interrupted /\ \A q \in Clients : q # p => ~Migrating(q)
        BY <1>1, <2>1
    <2>3. SCHEMA_VERSION \notin db.stamps => 2..(s - 1) \subseteq db.columns
        BY <1>0, <1>2, <1>6, <2>2 DEF Complete
    <2>4. SCHEMA_VERSION \in db.stamps => pc = "ready"
        BY <1>2, <1>4, <1>5
    <2> QED
        BY <1>0, <1>1, <1>2, <1>4, <1>7, <2>2, <2>3, <2>4
        DEF Complete, Goes, Quiet, Migrating, Active, Progress, KnownTo, InStage9
<1> QED
    BY <1>8, <1>9, <1>10, <1>11, <1>12 DEF SchemaInv

\* What the next steps keep of a process that does not take part in them.
LEMMA NoneBeside ==
    ASSUME SchemaInv, NEW p \in Clients, Migrating(p)
    PROVE  ~overlapped => \A q \in Clients : q # p => ~Migrating(q) /\ mig[q].pc # "ready"
    BY DEF SchemaInv, Apart

LEMMA TablesKeep ==
    ASSUME SchemaInv, NEW p \in Clients, CreateTables(p)
    PROVE  SchemaInv'
<1>0. SchemaTypeOK /\ Staged /\ Entered /\ Apart /\ Complete
    BY DEF SchemaInv
<1>1. /\ mig[p].pc = "tables"
      /\ db' = IF db.tasks THEN db
               ELSE [db EXCEPT !.tasks = TRUE, !.columns = @ \cup OfTasks]
      /\ UNCHANGED <<history, overlapped, interrupted>>
    BY DEF CreateTables, At, Unghost
<1>2. Goes(p, "stamp_table", mig[p].stage)
    BY <1>0, Going DEF CreateTables, Steps9, Active
<1>3. /\ db' \in Database /\ db'.tasks
      /\ db'.columns = IF db.tasks THEN db.columns ELSE db.columns \cup OfTasks
      /\ UNCHANGED <<db.base, db.rows, db.present, db.temp, db.table, db.stamps>>
    <2>0. db \in Database
        BY <1>0 DEF SchemaTypeOK, Database
    <2>1. CASE db.tasks
        BY <1>1, <2>0, <2>1
    <2>2. CASE ~db.tasks
        <3> DEFINE c == db.columns \cup OfTasks
        <3>1. c \in SUBSET Columns /\ db' = [db EXCEPT !.tasks = TRUE, !.columns = c]
            BY <1>1, <2>0, <2>2 DEF Database, OfTasks
        <3> HIDE DEF c
        <3>2. db' \in Database /\ db'.tasks = TRUE /\ db'.columns = c
              /\ UNCHANGED <<db.base, db.rows, db.present, db.temp, db.table, db.stamps>>
            BY <2>0, <3>1 DEF Database
        <3> QED
            BY <2>2, <3>2 DEF c
    <2> QED
        BY <2>1, <2>2
<1>4. /\ mig[p].pc # "off" /\ Migrating(p)
      /\ ~overlapped => \A q \in Clients : q # p => ~Migrating(q) /\ mig[q].pc # "ready"
    BY <1>1, NoneBeside DEF Migrating, Active
<1>5. SchemaTypeOK'
    BY <1>0, <1>1, <1>2, <1>3 DEF SchemaTypeOK, Goes, Database
<1>6. Staged'
    BY <1>0, <1>1, <1>2, <1>3, <1>4 DEF Staged, Goes, Migrating, Active
<1>7. Entered'
    BY <1>0, <1>1, <1>3 DEF Entered, KnownTo
<1>8. ~overlapped => ~db.tasks /\ db.stamps = {} /\ Columns \subseteq db'.columns
    BY <1>0, <1>1, <1>3, <1>4 DEF Apart, Entered, Staged, OfTasks
<1>9. Apart'
    BY <1>0, <1>1, <1>2, <1>3, <1>4, <1>8 DEF Apart, Goes, Migrating, Active
<1>10. Complete'
    <2>1. SUFFICES ASSUME ~overlapped, ~interrupted PROVE Complete'
        BY <1>1 DEF Complete
    <2>2. \A q \in Clients : Progress(q)'
        BY <1>0, <1>2, <1>4, <2>1 DEF Complete, Progress, Goes, Migrating, Active
    <2>3. ~Quiet'
        BY <1>2 DEF Quiet, Goes, Migrating, Active
    <2> QED
        BY <1>0, <1>3, <1>8, <2>1, <2>2, <2>3 DEF Complete, Columns, KnownTo, AgentCol, FallbackCol
<1> QED
    BY <1>5, <1>6, <1>7, <1>9, <1>10 DEF SchemaInv

LEMMA VersionTableKeeps ==
    ASSUME SchemaInv, NEW p \in Clients, CreateVersionTable(p)
    PROVE  SchemaInv'
<1>0. SchemaTypeOK /\ Staged /\ Entered /\ Apart /\ Complete
    BY DEF SchemaInv
<1>1. /\ mig[p].pc = "stamp_table"
      /\ db' = [db EXCEPT !.table = TRUE]
      /\ UNCHANGED <<history, overlapped, interrupted>>
    BY DEF CreateVersionTable, At, Unghost
<1>2. Goes(p, "fresh", mig[p].stage)
    BY <1>0, Going DEF CreateVersionTable, Steps9, Active
<1>3. /\ db' \in Database /\ db'.table
      /\ UNCHANGED <<db.base, db.tasks, db.columns, db.rows, db.present, db.temp, db.stamps>>
    BY <1>0, <1>1 DEF SchemaTypeOK, Database
<1>4. SchemaTypeOK'
    BY <1>0, <1>1, <1>2, <1>3 DEF SchemaTypeOK, Goes, Database
<1>5. Staged'
    BY <1>0, <1>1, <1>2, <1>3 DEF Staged, Goes, Migrating, Active
<1>6. Entered'
    BY <1>0, <1>1, <1>3 DEF Entered, KnownTo, Staged, Migrating, Active
<1>7. Apart'
    BY <1>0, <1>1, <1>2, <1>3 DEF Apart, Goes, Migrating, Active
<1>8. Complete'
    BY <1>0, <1>1, <1>2, <1>3 DEF Complete, Goes, Quiet, Migrating, Active, Progress, KnownTo, InStage9
<1> QED
    BY <1>4, <1>5, <1>6, <1>7, <1>8 DEF SchemaInv

LEMMA FreshKeeps ==
    ASSUME SchemaInv, NEW p \in Clients, StampFresh(p)
    PROVE  SchemaInv'
<1>0. SchemaTypeOK /\ Staged /\ Entered /\ Apart /\ Complete
    BY DEF SchemaInv
<1>1. /\ mig[p].pc = "fresh"
      /\ db' = [db EXCEPT !.stamps = @ \cup {SCHEMA_VERSION}]
      /\ mig' = [mig EXCEPT ![p].pc = "ready", ![p].stage = 10]
      /\ UNCHANGED <<history, overlapped, interrupted>>
    BY DEF StampFresh, At, Unghost
<1>2. Goes(p, "ready", 10)
    <2>1. "ready" \in Steps9 /\ 10 \in 0..10
        BY DEF Steps9
    <2>2. mig \in [Clients -> [pc: Steps9, stage: 0..10]]
        BY <1>0 DEF SchemaTypeOK
    <2> QED
        BY <1>1, <2>1, <2>2 DEF Goes
<1>3. /\ db' \in Database /\ db'.stamps = db.stamps \cup {SCHEMA_VERSION}
      /\ UNCHANGED <<db.base, db.tasks, db.columns, db.rows, db.present, db.temp, db.table>>
    BY <1>0, <1>1 DEF SchemaTypeOK, Database, SCHEMA_VERSION
<1>4. /\ db.base /\ db.tasks /\ Migrating(p)
      /\ ~overlapped => \A q \in Clients : q # p => ~Migrating(q) /\ mig[q].pc # "ready"
    BY <1>0, <1>1, NoneBeside DEF Migrating, Active, Staged
<1>5. SchemaTypeOK'
    BY <1>0, <1>1, <1>2, <1>3 DEF SchemaTypeOK, Goes, Database
<1>6. Staged'
    BY <1>0, <1>2, <1>3, <1>4 DEF Staged, Goes, Migrating, Active
<1>7. Entered'
    BY <1>0, <1>1, <1>3, <1>4 DEF Entered
<1>8. Apart'
    BY <1>0, <1>1, <1>2, <1>3, <1>4 DEF Apart, Goes, Migrating, Active
<1>9. Complete'
    <2>1. SUFFICES ASSUME ~overlapped, ~interrupted PROVE Complete'
        BY <1>1 DEF Complete
    <2>2. Columns \subseteq db.columns
        BY <1>0, <1>1, <2>1 DEF Apart
    <2>3. \A q \in Clients : Progress(q)'
        BY <1>0, <1>2, <1>3, <2>1 DEF Complete, Progress, Goes, Active
    <2> QED
        BY <1>3, <2>2, <2>3 DEF Complete, Columns, AgentCol, FallbackCol
<1> QED
    BY <1>5, <1>6, <1>7, <1>8, <1>9 DEF SchemaInv

LEMMA DropKeeps ==
    ASSUME SchemaInv, NEW p \in Clients, DropTemp(p)
    PROVE  SchemaInv'
<1> DEFINE s == mig[p].stage
<1>0. SchemaTypeOK /\ Staged /\ Entered /\ Apart /\ Complete
    BY DEF SchemaInv
<1>1. /\ mig[p].pc = "drop" /\ s \in Rebuilds
      /\ db' = [db EXCEPT !.temp = @ \ {s}]
      /\ UNCHANGED <<history, overlapped, interrupted>>
    BY <1>0 DEF DropTemp, At, Unghost, Staged
<1>2. Goes(p, "create", s)
    BY <1>0, Going DEF DropTemp, Steps9, Active
<1>3. /\ db' \in Database /\ db'.temp = db.temp \ {s}
      /\ UNCHANGED <<db.base, db.tasks, db.columns, db.rows, db.present, db.table, db.stamps>>
    BY <1>0, <1>1 DEF SchemaTypeOK, Database
<1>4. /\ Migrating(p)
      /\ ~overlapped => \A q \in Clients : q # p => ~Migrating(q) /\ mig[q].pc # "ready"
    BY <1>1, NoneBeside DEF Migrating, Active
<1> HIDE DEF s
<1>5. SchemaTypeOK'
    BY <1>0, <1>1, <1>2, <1>3 DEF SchemaTypeOK, Goes, Database
<1>6. Staged'
    BY <1>0, <1>1, <1>2, <1>3 DEF Staged, Goes, Migrating, Active, s
<1>7. Entered'
    BY <1>0, <1>1, <1>3 DEF Entered, KnownTo
<1>8. Apart'
    BY <1>0, <1>1, <1>2, <1>3 DEF Apart, Goes, Migrating, Active, s
<1>9. Complete'
    <2>1. SUFFICES ASSUME ~overlapped, ~interrupted PROVE Complete'
        BY <1>1 DEF Complete
    <2>2. \A q \in Clients : Progress(q)'
        BY <1>0, <1>1, <1>2, <1>3, <1>4, <2>1 DEF Complete, Progress, Goes, Migrating, Active, s
    <2> QED
        BY <1>0, <1>1, <1>2, <1>3, <2>1, <2>2
        DEF Complete, Goes, Quiet, Migrating, Active, KnownTo, InStage9
<1> QED
    BY <1>5, <1>6, <1>7, <1>8, <1>9 DEF SchemaInv

LEMMA TempKeeps ==
    ASSUME SchemaInv, NEW p \in Clients, CreateTemp(p)
    PROVE  SchemaInv'
<1> DEFINE s == mig[p].stage
<1>0. SchemaTypeOK /\ Staged /\ Entered /\ Apart /\ Complete
    BY DEF SchemaInv
<1>1. /\ mig[p].pc = "create" /\ s \in Rebuilds
      /\ UNCHANGED <<history, overlapped, interrupted>>
    BY <1>0 DEF CreateTemp, At, Unghost, Staged
<1>2. /\ Migrating(p)
      /\ ~overlapped => \A q \in Clients : q # p => ~Migrating(q) /\ mig[q].pc # "ready"
    BY <1>1, NoneBeside DEF Migrating, Active
<1>3. CASE s \in db.temp
    <2>1. Fail(p) /\ UNCHANGED <<db, history, overlapped, interrupted>>
        BY <1>1, <1>3 DEF CreateTemp
    <2>2. overlapped \/ interrupted
        BY <1>0, <1>1, <1>3 DEF Complete, Progress
    <2> QED
        BY <1>2, <2>1, <2>2, FailKeeps
<1>4. CASE s \notin db.temp
    <2>1. db' = [db EXCEPT !.temp = @ \cup {s}] /\ Step(p, "copy")
        BY <1>4 DEF CreateTemp
    <2>2. Goes(p, "copy", s)
        BY <1>0, <2>1, Going DEF Steps9, Active
    <2>3. /\ db' \in Database /\ db'.temp = db.temp \cup {s}
          /\ UNCHANGED <<db.base, db.tasks, db.columns, db.rows, db.present, db.table, db.stamps>>
        BY <1>0, <1>1, <2>1 DEF SchemaTypeOK, Database
    <2> HIDE DEF s
    <2>5. SchemaTypeOK'
        BY <1>0, <1>1, <2>2, <2>3 DEF SchemaTypeOK, Goes, Database
    <2>6. Staged'
        BY <1>0, <1>1, <2>2, <2>3 DEF Staged, Goes, Migrating, Active, s
    <2>7. Entered'
        BY <1>0, <1>1, <2>3 DEF Entered, KnownTo
    <2>8. Apart'
        BY <1>0, <1>1, <1>2, <2>2, <2>3 DEF Apart, Goes, Migrating, Active, s
    <2>9. Complete'
        <3>1. SUFFICES ASSUME ~overlapped, ~interrupted PROVE Complete'
            BY <1>1 DEF Complete
        <3>2. \A q \in Clients : Progress(q)'
            BY <1>0, <1>1, <1>2, <2>2, <2>3, <3>1 DEF Complete, Progress, Goes, Migrating, Active, s
        <3> QED
            BY <1>0, <1>1, <2>2, <2>3, <3>1, <3>2
            DEF Complete, Goes, Quiet, Migrating, Active, KnownTo, InStage9
    <2> QED
        BY <2>5, <2>6, <2>7, <2>8, <2>9 DEF SchemaInv
<1> QED
    BY <1>3, <1>4

\* What the rebuilding of the table leaves in the database.
LEMMA Copied ==
    ASSUME db \in Database, NEW s \in Rebuilds, db' = CopyInto(s)
    PROVE  /\ db' \in Database
           /\ db'.columns = (db.columns \cap OfRepos) \cup 2..s
           /\ db'.stamps = db.stamps \cup {SCHEMA_VERSION}
           /\ db'.temp = db.temp \ {s}
           /\ \A r \in RowIds : db'.rows[r] = db.rows[r] \cap 2..(IF s = 2 THEN 1 ELSE 3)
           /\ UNCHANGED <<db.base, db.tasks, db.present>>
<1> DEFINE kept == 2..(IF s = 2 THEN 1 ELSE 3)
           c == (db.columns \cap OfRepos) \cup 2..s
           rs == [r \in RowIds |-> db.rows[r] \cap kept]
           st == db.stamps \cup {SCHEMA_VERSION}
           t == db.temp \ {s}
<1>1. /\ c \in SUBSET Columns /\ st \in SUBSET (1..9)
      /\ t \in SUBSET Rebuilds
    BY DEF Database, Columns, OfRepos, SCHEMA_VERSION, Rebuilds
<1>2. rs \in [RowIds -> SUBSET Columns]
    BY DEF Database
<1>3. db' = [db EXCEPT !.columns = c, !.rows = rs, !.temp = t, !.table = TRUE, !.stamps = st]
    BY DEF CopyInto
<1>4. \A r \in RowIds : rs[r] = db.rows[r] \cap kept
    OBVIOUS
<1> HIDE DEF kept, c, rs, st, t
<1>5. /\ db' \in Database /\ db'.columns = c /\ db'.rows = rs /\ db'.stamps = st /\ db'.temp = t
      /\ UNCHANGED <<db.base, db.tasks, db.present>>
    BY <1>1, <1>2, <1>3 DEF Database
<1> QED
    BY <1>4, <1>5 DEF c, st, kept, t

LEMMA CopyKeeps ==
    ASSUME SchemaInv, NEW p \in Clients, Copy(p)
    PROVE  SchemaInv'
<1> DEFINE s == mig[p].stage
<1>0. SchemaTypeOK /\ Staged /\ Entered /\ Apart /\ Complete
    BY DEF SchemaInv
<1>1. /\ mig[p].pc = "copy" /\ s \in Rebuilds
      /\ UNCHANGED <<history, overlapped, interrupted>>
    BY <1>0 DEF Copy, At, Unghost, Staged
<1>2. /\ Migrating(p) /\ db.tasks /\ db.base
      /\ ~overlapped => \A q \in Clients : q # p => ~Migrating(q) /\ mig[q].pc # "ready"
    BY <1>0, <1>1, NoneBeside DEF Migrating, Active, Staged
<1>3. CASE s \notin db.temp \/ ~(2..(s - 1) \subseteq db.columns)
    <2>1. Fail(p) /\ UNCHANGED <<db, history, overlapped, interrupted>>
        BY <1>1, <1>3 DEF Copy
    <2>2. overlapped \/ interrupted
        BY <1>0, <1>1, <1>3 DEF Complete, Progress, Active
    <2> QED
        BY <1>2, <2>1, <2>2, FailKeeps
<1>4. CASE s \in db.temp /\ 2..(s - 1) \subseteq db.columns
    <2>0. db' = CopyInto(s) /\ NextStage(p)
        BY <1>4 DEF Copy
    <2>1. db \in Database
        BY <1>0 DEF SchemaTypeOK, Database
    <2>2. /\ Goes(p, FirstStep(s + 1), s + 1)
          /\ s = 2 => s + 1 = 3 /\ FirstStep(s + 1) = "drop"
          /\ s = 3 => s + 1 = 4 /\ FirstStep(s + 1) = "alter"
          /\ s \in {2, 3}
        BY <1>0, <1>1, <2>0, Going DEF Rebuilds, FirstStep, Adds
    <2>3. /\ db' \in Database
          /\ db'.columns = (db.columns \cap OfRepos) \cup 2..s
          /\ db'.stamps = db.stamps \cup {SCHEMA_VERSION}
          /\ \A r \in RowIds : db'.rows[r] = db.rows[r] \cap 2..(IF s = 2 THEN 1 ELSE 3)
          /\ UNCHANGED <<db.base, db.tasks, db.present>>
        BY <1>1, <2>0, <2>1, Copied
    <2> HIDE DEF s
    <2>4. \A q \in Clients :
            \/ mig'[q] = mig[q] /\ q # p
            \/ q = p /\ s = 2 /\ mig'[q].pc = "drop" /\ mig'[q].stage = 3
            \/ q = p /\ s = 3 /\ mig'[q].pc = "alter" /\ mig'[q].stage = 4
        BY <2>2 DEF Goes
    <2>5. SchemaTypeOK'
        BY <1>0, <1>1, <2>2, <2>3 DEF SchemaTypeOK, Goes, Database
    <2>6. Staged'
        BY <1>0, <1>1, <1>2, <2>3, <2>4 DEF Staged, Migrating, Active, Rebuilds, Adds
    <2>7. Entered'
        BY <1>0, <1>1, <1>2, <2>3 DEF Entered
    <2>8. Apart'
        <3>1. \A r \in db'.present : s = 2 => db'.rows[r] \subseteq 2..2
            BY <2>3 DEF Database
        <3> QED
            BY <1>0, <1>1, <1>2, <2>2, <2>3, <2>4, <3>1 DEF Apart, Migrating, Active
    <2>9. Complete'
        <3>1. SUFFICES ASSUME ~overlapped, ~interrupted PROVE Complete'
            BY <1>1 DEF Complete
        <3>2. \A q \in Clients : q # p => Progress(q)'
            BY <1>2, <2>4, <3>1 DEF Progress, Migrating, Active
        <3>3. Progress(p)'
            BY <2>2, <2>3, <2>4 DEF Progress
        <3>4. ~Quiet'
            BY <2>4, <2>2 DEF Quiet, Migrating, Active
        <3>5. AgentCol \notin db'.columns /\ FallbackCol \notin db'.columns
            BY <2>2, <2>3 DEF AgentCol, FallbackCol, OfRepos
        <3> QED
            BY <2>3, <3>2, <3>3, <3>4, <3>5 DEF Complete
    <2> QED
        BY <2>5, <2>6, <2>7, <2>8, <2>9 DEF SchemaInv
<1> QED
    BY <1>3, <1>4

LEMMA StampKeeps ==
    ASSUME SchemaInv, NEW p \in Clients, Stamp(p)
    PROVE  SchemaInv'
<1> DEFINE s == mig[p].stage
           pc == FirstStep(s + 1)
<1>0. SchemaTypeOK /\ Staged /\ Entered /\ Apart /\ Complete
    BY DEF SchemaInv
<1>1. /\ mig[p].pc = "stamp" /\ s \in Adds
      /\ db' = [db EXCEPT !.table = TRUE, !.stamps = @ \cup {SCHEMA_VERSION}]
      /\ NextStage(p)
      /\ UNCHANGED <<history, overlapped, interrupted>>
    BY <1>0 DEF Stamp, At, Unghost, Staged
<1>2. /\ Migrating(p) /\ db.tasks /\ db.base
      /\ ~overlapped => \A q \in Clients : q # p => ~Migrating(q) /\ mig[q].pc # "ready"
    BY <1>0, <1>1, NoneBeside DEF Migrating, Active, Staged
<1>3. /\ Goes(p, pc, s + 1)
      /\ (pc = "alter" /\ s + 1 \in Adds) \/ (pc = "agent" /\ s + 1 = 9)
    <2>1. s \in 1..9 /\ s + 1 \in 2..10 /\ (s + 1 \in Adds \/ s + 1 = 9)
        BY <1>1 DEF Adds
    <2> QED
        BY <1>0, <1>1, <2>1, Going, Stages
<1>4. /\ db' \in Database /\ db'.stamps = db.stamps \cup {SCHEMA_VERSION}
      /\ UNCHANGED <<db.base, db.tasks, db.columns, db.rows, db.present, db.temp>>
    <2>1. /\ db \in Database /\ SCHEMA_VERSION \in 1..9
          /\ db' = [db EXCEPT !.table = TRUE, !.stamps = db.stamps \cup {SCHEMA_VERSION}]
        BY <1>0, <1>1 DEF SchemaTypeOK, Database, SCHEMA_VERSION
    <2> QED
        BY <2>1 DEF Database
<1> HIDE DEF s, pc
<1>5. \A q \in Clients : \/ mig'[q] = mig[q] /\ q # p
                         \/ q = p /\ mig'[q].pc = pc /\ mig'[q].stage = s + 1
    BY <1>3 DEF Goes
<1>6. SchemaTypeOK'
    BY <1>0, <1>1, <1>3, <1>4 DEF SchemaTypeOK, Goes, Database
<1>7. Staged'
    BY <1>0, <1>1, <1>2, <1>3, <1>4, <1>5 DEF Staged, Migrating, Active
<1>8. Entered'
    BY <1>0, <1>1, <1>2, <1>4 DEF Entered
<1>9. Apart'
    BY <1>0, <1>1, <1>2, <1>3, <1>4, <1>5 DEF Apart, Migrating, Active
<1>10. Complete'
    <2>1. SUFFICES ASSUME ~overlapped, ~interrupted PROVE Complete'
        BY <1>1 DEF Complete
    <2>2. \A q \in Clients : q # p => Progress(q)'
        BY <1>2, <1>5, <2>1 DEF Progress, Migrating, Active
    <2>3. 2..(s - 1) \subseteq db.columns /\ s \in db.columns
        BY <1>0, <1>1, <2>1 DEF Complete, Progress, Active, s
    <2>4. Progress(p)'
        <3>1. 2..s \subseteq db.columns
            BY <1>1, <2>3 DEF Adds
        <3>2. (s + 1) - 1 = s
            BY <1>1 DEF Adds
        <3> QED
            BY <1>3, <1>4, <1>5, <3>1, <3>2 DEF Progress
    <2>5. ~Quiet'
        BY <1>3, <1>5 DEF Quiet, Migrating, Active
    <2>6. \A q \in Clients : mig[q].pc # "fallback"
        BY <1>1, <1>2, <2>1 DEF Migrating, Active
    <2> QED
        BY <1>0, <1>4, <2>1, <2>2, <2>4, <2>5, <2>6 DEF Complete
<1> QED
    BY <1>6, <1>7, <1>8, <1>9, <1>10 DEF SchemaInv

LEMMA AgentKeeps ==
    ASSUME SchemaInv, NEW p \in Clients, AddAgent(p)
    PROVE  SchemaInv'
<1>0. SchemaTypeOK /\ Staged /\ Entered /\ Apart /\ Complete
    BY DEF SchemaInv
<1>1. /\ mig[p].pc = "agent" /\ mig[p].stage = 9
      /\ UNCHANGED <<history, overlapped, interrupted>>
    BY <1>0 DEF AddAgent, AddColumn, At, Unghost, Staged
<1>2. /\ Migrating(p) /\ db.tasks /\ db.base /\ db.stamps # {}
      /\ ~overlapped => \A q \in Clients : q # p => ~Migrating(q) /\ mig[q].pc # "ready"
    BY <1>0, <1>1, NoneBeside DEF Migrating, Active, Staged
<1>3. ~overlapped /\ ~interrupted =>
        /\ 2..8 \subseteq db.columns
        /\ \A q \in Clients : mig[q].pc \notin {"fallback", "update"}
    BY <1>0, <1>1, <1>2 DEF Complete, Progress, Active, Migrating
<1>4. CASE AgentCol \in db.columns
    <2>1. Fail(p) /\ UNCHANGED <<db, history, overlapped, interrupted>>
        BY <1>1, <1>4 DEF AddAgent, AddColumn
    <2>2. ~overlapped /\ ~interrupted => Columns \subseteq db.columns
        BY <1>0, <1>3, <1>4 DEF Complete, Columns, AgentCol, FallbackCol
    <2> QED
        BY <1>1, <1>2, <2>1, <2>2, FailKeeps
<1>5. CASE AgentCol \notin db.columns
    <2>1. db' = [db EXCEPT !.columns = @ \cup {AgentCol}] /\ Step(p, "fallback")
        BY <1>5 DEF AddAgent, AddColumn
    <2>2. Goes(p, "fallback", 9)
        BY <1>0, <1>1, <2>1, Going DEF Steps9, Active
    <2>3. /\ db' \in Database /\ db'.columns = db.columns \cup {AgentCol}
          /\ UNCHANGED <<db.base, db.tasks, db.rows, db.present, db.temp, db.table, db.stamps>>
        BY <1>0, <2>1 DEF SchemaTypeOK, Database, AgentCol, Columns
    <2>4. SchemaTypeOK'
        BY <1>0, <1>1, <2>2, <2>3 DEF SchemaTypeOK, Goes, Database
    <2>5. Staged'
        BY <1>0, <1>1, <1>2, <2>2, <2>3 DEF Staged, Goes, Migrating, Active
    <2>6. Entered'
        BY <1>0, <1>1, <2>3 DEF Entered, KnownTo
    <2>7. Apart'
        BY <1>0, <1>1, <1>2, <2>2, <2>3 DEF Apart, Goes, Migrating, Active
    <2>8. Complete'
        <3>1. SUFFICES ASSUME ~overlapped, ~interrupted PROVE Complete'
            BY <1>1 DEF Complete
        <3>2. FallbackCol \notin db'.columns
            BY <1>0, <1>5, <2>3, <3>1 DEF Complete, AgentCol, FallbackCol
        <3>3. \A q \in Clients : q # p => Progress(q)'
            BY <1>2, <2>2, <3>1 DEF Progress, Goes, Migrating, Active
        <3>4. Progress(p)'
            BY <1>3, <2>2, <2>3, <3>1, <3>2 DEF Progress, Goes
        <3>5. mig'[p].pc = "fallback" /\ ~Quiet' /\ InStage9'
            BY <2>2 DEF Goes, Quiet, Migrating, Active, InStage9
        <3> QED
            BY <1>0, <2>3, <3>1, <3>2, <3>3, <3>4, <3>5 DEF Complete, KnownTo
    <2> QED
        BY <2>4, <2>5, <2>6, <2>7, <2>8 DEF SchemaInv
<1> QED
    BY <1>4, <1>5

LEMMA FallbackKeeps ==
    ASSUME SchemaInv, NEW p \in Clients, AddFallback(p)
    PROVE  SchemaInv'
<1>0. SchemaTypeOK /\ Staged /\ Entered /\ Apart /\ Complete
    BY DEF SchemaInv
<1>1. /\ mig[p].pc = "fallback" /\ mig[p].stage = 9
      /\ UNCHANGED <<history, overlapped, interrupted>>
    BY <1>0 DEF AddFallback, AddColumn, At, Unghost, Staged
<1>2. /\ Migrating(p) /\ db.tasks /\ db.base /\ db.stamps # {}
      /\ ~overlapped => \A q \in Clients : q # p => ~Migrating(q) /\ mig[q].pc # "ready"
    BY <1>0, <1>1, NoneBeside DEF Migrating, Active, Staged
<1>3. ~overlapped /\ ~interrupted =>
        /\ 2..8 \subseteq db.columns
        /\ AgentCol \in db.columns /\ FallbackCol \notin db.columns
    BY <1>0, <1>1, <1>2 DEF Complete, Progress, Active, Migrating
<1>4. CASE FallbackCol \in db.columns
    <2>1. Fail(p) /\ UNCHANGED <<db, history, overlapped, interrupted>>
        BY <1>1, <1>4 DEF AddFallback, AddColumn
    <2> QED
        BY <1>2, <1>3, <1>4, <2>1, FailKeeps
<1>5. CASE FallbackCol \notin db.columns
    <2>1. db' = [db EXCEPT !.columns = @ \cup {FallbackCol}] /\ Step(p, "update")
        BY <1>5 DEF AddFallback, AddColumn
    <2>2. Goes(p, "update", 9)
        BY <1>0, <1>1, <2>1, Going DEF Steps9, Active
    <2>3. /\ db' \in Database /\ db'.columns = db.columns \cup {FallbackCol}
          /\ UNCHANGED <<db.base, db.tasks, db.rows, db.present, db.temp, db.table, db.stamps>>
        BY <1>0, <2>1 DEF SchemaTypeOK, Database, FallbackCol, Columns
    <2>4. SchemaTypeOK'
        BY <1>0, <1>1, <2>2, <2>3 DEF SchemaTypeOK, Goes, Database
    <2>5. Staged'
        BY <1>0, <1>1, <1>2, <2>2, <2>3 DEF Staged, Goes, Migrating, Active
    <2>6. Entered'
        BY <1>0, <1>1, <2>3 DEF Entered, KnownTo
    <2>7. Apart'
        BY <1>0, <1>1, <1>2, <2>2, <2>3 DEF Apart, Goes, Migrating, Active
    <2>8. Complete'
        <3>1. SUFFICES ASSUME ~overlapped, ~interrupted PROVE Complete'
            BY <1>1 DEF Complete
        <3>2. {AgentCol, FallbackCol} \subseteq db'.columns
            BY <1>3, <2>3, <3>1
        <3>3. \A q \in Clients : q # p => Progress(q)'
            BY <1>2, <2>2, <3>1 DEF Progress, Goes, Migrating, Active
        <3>4. Progress(p)'
            BY <1>3, <2>2, <2>3, <3>1, <3>2 DEF Progress, Goes
        <3>5. ~Quiet' /\ InStage9'
            BY <2>2 DEF Goes, Quiet, Migrating, Active, InStage9
        <3> QED
            BY <1>0, <2>3, <3>1, <3>2, <3>3, <3>4, <3>5 DEF Complete, KnownTo
    <2> QED
        BY <2>4, <2>5, <2>6, <2>7, <2>8 DEF SchemaInv
<1> QED
    BY <1>4, <1>5

LEMMA UpdateKeeps ==
    ASSUME SchemaInv, NEW p \in Clients, UpdateVersion(p)
    PROVE  SchemaInv'
<1>0. SchemaTypeOK /\ Staged /\ Entered /\ Apart /\ Complete
    BY DEF SchemaInv
<1>1. /\ mig[p].pc = "update" /\ mig[p].stage = 9
      /\ UNCHANGED <<history, overlapped, interrupted>>
    BY <1>0 DEF UpdateVersion, At, Unghost, Staged
<1>2. /\ Migrating(p) /\ db.tasks /\ db.base /\ db.stamps # {}
      /\ ~overlapped => \A q \in Clients : q # p => ~Migrating(q) /\ mig[q].pc # "ready"
    BY <1>0, <1>1, NoneBeside DEF Migrating, Active, Staged
<1>3. ~overlapped /\ ~interrupted => Columns \subseteq db.columns
    <2>1. SUFFICES ASSUME ~overlapped, ~interrupted PROVE Columns \subseteq db.columns
        OBVIOUS
    <2>2. 2..8 \subseteq db.columns /\ {AgentCol, FallbackCol} \subseteq db.columns
        BY <1>0, <1>1, <2>1 DEF Complete, Progress, Active
    <2> QED
        BY <2>2 DEF Columns, AgentCol, FallbackCol
<1>4. CASE Cardinality(db.stamps) > 1
    <2>1. Fail(p) /\ UNCHANGED <<db, history, overlapped, interrupted>>
        BY <1>1, <1>4 DEF UpdateVersion
    <2> QED
        BY <1>1, <1>2, <1>3, <1>4, <2>1, FailKeeps
<1>5. CASE ~(Cardinality(db.stamps) > 1)
    <2>1. db' = [db EXCEPT !.stamps = {SCHEMA_VERSION}] /\ NextStage(p)
        BY <1>2, <1>5 DEF UpdateVersion
    <2>2. Goes(p, "ready", 10)
        BY <1>0, <1>1, <2>1, Going, Stages
    <2>3. /\ db' \in Database /\ db'.stamps = {SCHEMA_VERSION}
          /\ UNCHANGED <<db.base, db.tasks, db.rows, db.present, db.temp, db.table, db.columns>>
        BY <1>0, <2>1 DEF SchemaTypeOK, Database, SCHEMA_VERSION
    <2>4. SchemaTypeOK'
        BY <1>0, <1>1, <2>2, <2>3 DEF SchemaTypeOK, Goes, Database
    <2>5. Staged'
        BY <1>0, <1>1, <1>2, <2>2, <2>3 DEF Staged, Goes, Migrating, Active
    <2>6. Entered'
        BY <1>0, <1>1, <1>2, <2>3 DEF Entered
    <2>7. Apart'
        BY <1>0, <1>1, <1>2, <2>2, <2>3 DEF Apart, Goes, Migrating, Active
    <2>8. Complete'
        <3>1. SUFFICES ASSUME ~overlapped, ~interrupted PROVE Complete'
            BY <1>1 DEF Complete
        <3>2. Columns \subseteq db'.columns
            BY <1>3, <2>3, <3>1
        <3>3. \A q \in Clients : Progress(q)'
            BY <1>2, <2>2, <3>1 DEF Progress, Goes, Migrating, Active
        <3> QED
            BY <2>3, <3>2, <3>3 DEF Complete, Columns, AgentCol, FallbackCol
    <2> QED
        BY <2>4, <2>5, <2>6, <2>7, <2>8 DEF SchemaInv
<1> QED
    BY <1>4, <1>5

LEMMA SaveKeeps ==
    ASSUME SchemaInv, NEW p \in Clients, NEW r \in RowIds, Save(p, r)
    PROVE  SchemaInv'
<1>0. SchemaTypeOK /\ Staged /\ Entered /\ Apart /\ Complete
    BY DEF SchemaInv
<1>1. /\ mig[p].pc = "ready"
      /\ db' = [db EXCEPT !.present = @ \cup {r}, !.rows[r] = OfTasks]
      /\ UNCHANGED <<mig, history, overlapped, interrupted>>
    BY DEF Save, At, Unghost
<1>2. /\ SCHEMA_VERSION \in db.stamps
      /\ ~overlapped => \A q \in Clients : ~Migrating(q)
    BY <1>0, <1>1 DEF Staged, Apart
<1>3. /\ db' \in Database
      /\ \A x \in RowIds : db'.rows[x] = IF x = r THEN OfTasks ELSE db.rows[x]
      /\ UNCHANGED <<db.base, db.tasks, db.temp, db.table, db.columns, db.stamps>>
    <2>1. db \in Database /\ OfTasks \in SUBSET Columns
        BY <1>0 DEF SchemaTypeOK, Database, OfTasks
    <2> DEFINE rs == [db.rows EXCEPT ![r] = OfTasks]
               pr == db.present \cup {r}
    <2>2. /\ rs \in [RowIds -> SUBSET Columns] /\ pr \in SUBSET RowIds
          /\ \A x \in RowIds : rs[x] = IF x = r THEN OfTasks ELSE db.rows[x]
        BY <2>1 DEF Database
    <2>3. db' = [db EXCEPT !.present = pr, !.rows = rs]
        BY <1>1, <2>1 DEF Database
    <2> HIDE DEF rs, pr
    <2>4. /\ db' \in Database /\ db'.rows = rs
          /\ UNCHANGED <<db.base, db.tasks, db.temp, db.table, db.columns, db.stamps>>
        BY <2>1, <2>2, <2>3 DEF Database
    <2> QED
        BY <2>2, <2>4
<1>4. SchemaTypeOK'
    BY <1>0, <1>1, <1>3 DEF SchemaTypeOK, Database
<1>5. Staged'
    BY <1>0, <1>1, <1>3 DEF Staged, Migrating
<1>6. Entered'
    BY <1>0, <1>1, <1>2, <1>3 DEF Entered
<1>7. Apart'
    BY <1>0, <1>1, <1>2, <1>3 DEF Apart, Migrating, Active
<1>8. Complete'
    BY <1>0, <1>1, <1>2, <1>3 DEF Complete, Quiet, Migrating, Progress, KnownTo, InStage9
<1> QED
    BY <1>4, <1>5, <1>6, <1>7, <1>8 DEF SchemaInv

LEMMA DisconnectKeeps ==
    ASSUME SchemaInv, NEW gone \in SUBSET Clients, Disconnect(gone)
    PROVE  SchemaInv'
<1>0. SchemaTypeOK /\ Staged /\ Entered /\ Apart /\ Complete
    BY DEF SchemaInv
<1>1. /\ interrupted' = (interrupted \/ \E p \in gone :
            Migrating(p) /\ (SCHEMA_VERSION \in db.stamps \/ mig[p].stage = 9))
      /\ UNCHANGED <<db, history, overlapped>>
    BY DEF Disconnect, Migrating
<1>2. /\ mig' \in [Clients -> [pc: Steps9, stage: 0..10]]
      /\ \A q \in Clients : \/ q \notin gone /\ mig'[q] = mig[q]
                            \/ q \in gone /\ mig'[q].pc = "off"
    BY <1>0 DEF Disconnect, SchemaTypeOK, Off, Steps9
<1>3. SchemaTypeOK'
    <2>1. interrupted' \in BOOLEAN
        BY <1>0, <1>1 DEF SchemaTypeOK
    <2> QED
        BY <1>0, <1>1, <1>2, <2>1 DEF SchemaTypeOK
<1>4. Staged'
    BY <1>0, <1>1, <1>2 DEF Staged, Migrating, Active
<1>5. Entered'
    BY <1>0, <1>1 DEF Entered, KnownTo
<1>6. Apart'
    BY <1>0, <1>1, <1>2 DEF Apart, Migrating, Active
<1>7. Complete'
    <2>1. SUFFICES ASSUME ~overlapped, ~interrupted' PROVE Complete'
        BY <1>1 DEF Complete
    <2>2. ~interrupted /\ \A q \in gone :
            Migrating(q) => SCHEMA_VERSION \notin db.stamps /\ mig[q].stage # 9
        BY <1>1, <2>1
    <2>3. \A q \in gone : mig[q].pc \notin {"fallback", "update"}
        BY <1>0, <2>2 DEF Staged, Migrating, Active
    <2>4. \A q \in Clients : Progress(q)'
        BY <1>0, <1>1, <1>2, <2>1, <2>2 DEF Complete, Progress, Active
    <2>5. (\E q \in Clients : mig[q].pc = "fallback") => \E q \in Clients : mig'[q].pc = "fallback"
        BY <1>2, <2>3
    <2>6. InStage9 => InStage9'
        BY <1>2, <2>3 DEF InStage9
    <2>7. Quiet' /\ SCHEMA_VERSION \in db.stamps => Quiet
        BY <1>2, <2>2 DEF Quiet, Migrating
    <2> QED
        BY <1>0, <1>1, <2>1, <2>2, <2>4, <2>5, <2>6, <2>7 DEF Complete, KnownTo
<1> QED
    BY <1>3, <1>4, <1>5, <1>6, <1>7 DEF SchemaInv

LEMMA StillSchema ==
    ASSUME SchemaInv, UNCHANGED schemaVars
    PROVE  SchemaInv'
<1>1. UNCHANGED <<db, mig, history, overlapped, interrupted>>
    BY DEF schemaVars
<1> QED
    BY <1>1 DEF SchemaInv, SchemaTypeOK, Staged, Entered, Apart, Complete, Migrating, Quiet,
        KnownTo, Progress, InStage9

LEMMA SchemaInvariant == Spec => []SchemaInv
<1>1. Init => SchemaInv
    BY InitSchema DEF Init
<1>2. SchemaInv /\ [Next]_vars => SchemaInv'
    <2>1. SUFFICES ASSUME SchemaInv, [Next]_vars PROVE SchemaInv'
        OBVIOUS
    <2>2. SchemaStep \/ UNCHANGED schemaVars
        BY <2>1, StepsOfSchema
    <2>3. ASSUME NEW p \in Clients, Connect(p) \/ MigrationStep(p) PROVE SchemaInv'
        BY <2>1, <2>3, ConnectKeeps, VersionKeeps, TablesKeep, VersionTableKeeps, FreshKeeps,
            DropKeeps, TempKeeps, CopyKeeps, AlterKeeps, StampKeeps, AgentKeeps, FallbackKeeps,
            UpdateKeeps, SaveKeeps
        DEF MigrationStep
    <2> QED
        BY <2>1, <2>2, <2>3, DisconnectKeeps, StillSchema DEF SchemaStep
<1> QED
    BY <1>1, <1>2, PTL DEF Spec

-----------------------------------------------------------------------------
\* Whoever has connected, with no migration overlapped and none interrupted
\* after the version was entered, finds the tasks table and every column
\* (db._migrate_sync run by connect), whatever versions the database came with.
THEOREM ReadyIsCurrent == Spec => []ReadyMeansCurrent
<1>1. SchemaInv => ReadyMeansCurrent
    <2>1. SUFFICES ASSUME SchemaInv, ~overlapped, ~interrupted, NEW p \in Clients, At(p, "ready")
                   PROVE  db.tasks /\ Columns \subseteq db.columns
        BY DEF ReadyMeansCurrent
    <2>2. SCHEMA_VERSION \in db.stamps /\ Quiet
        BY <2>1 DEF SchemaInv, Staged, Apart, Quiet, At
    <2> QED
        BY <2>1, <2>2 DEF SchemaInv, Entered, Complete
<1> QED
    BY <1>1, SchemaInvariant, PTL

LEMMA TwoVersions ==
    ASSUME SchemaInv, Cardinality(db.stamps) > 1, SCHEMA_VERSION \notin db.stamps
    PROVE  history = db.stamps
<1>1. history # {0} => db.stamps = history
    BY DEF SchemaInv, Entered
<1>2. history = {0} => db.stamps = {}
    BY DEF SchemaInv, Entered
<1>3. Cardinality({}) = 0
    BY FS_EmptySet
<1> QED
    BY <1>1, <1>2, <1>3

\* The stages leave behind a database that cannot be opened any more (column
\* agent there, version 8, so that ALTER TABLE fails at every start) only when
\* two migrations overlapped, one was interrupted in stage 9 or is in it, or
\* the database came with several versions in it, 8 the last.
THEOREM OnlyThoseBlock == Spec => []BlockedOnlyBy
<1>1. SchemaInv => BlockedOnlyBy
    <2>1. SUFFICES ASSUME SchemaInv, Unusable, ~overlapped, ~interrupted, ~InStage9
                   PROVE  8 \in history /\ Cardinality(history) > 1
        BY DEF BlockedOnlyBy, InStage9
    <2>2. AgentCol \in db.columns /\ SchemaVersion = 8
        BY <2>1 DEF Unusable
    <2>3. db.stamps # {} /\ 8 \in db.stamps /\ SCHEMA_VERSION \notin db.stamps
        BY <2>1, <2>2, VersionIs DEF SchemaInv, SCHEMA_VERSION
    <2>4. Cardinality(db.stamps) > 1
        BY <2>1, <2>2, <2>3 DEF SchemaInv, Complete
    <2> QED
        BY <2>1, <2>3, <2>4, TwoVersions
<1> QED
    BY <1>1, SchemaInvariant, PTL

\* What a step does to the rows.
Keeping == /\ db.present \subseteq db'.present
           /\ ~overlapped' => \A r \in db.present : db.rows[r] \subseteq db'.rows[r]

LEMMA CopyingKeeps ==
    ASSUME SchemaInv, NEW p \in Clients, Copy(p)
    PROVE  Keeping
<1> DEFINE s == mig[p].stage
<1>1. mig[p].pc = "copy" /\ s \in Rebuilds /\ db \in Database /\ UNCHANGED overlapped
    BY DEF Copy, At, Unghost, SchemaInv, Staged, SchemaTypeOK, Database
<1>2. CASE UNCHANGED db
    BY <1>2 DEF Keeping
<1>3. CASE db' = CopyInto(s)
    <2>1. /\ db'.present = db.present
          /\ \A r \in RowIds : db'.rows[r] = db.rows[r] \cap 2..(IF s = 2 THEN 1 ELSE 3)
        BY <1>1, <1>3, Copied
    <2>2. ~overlapped => \A r \in db.present : db.rows[r] \subseteq 2..(s - 1)
        BY <1>1 DEF SchemaInv, Apart
    <2>3. db.present \subseteq RowIds /\ s \in {2, 3}
        BY <1>1 DEF Database, Rebuilds
    <2> HIDE DEF s
    <2>4. 2..(s - 1) \subseteq 2..(IF s = 2 THEN 1 ELSE 3)
        BY <2>3
    <2> QED
        BY <1>1, <2>1, <2>2, <2>3, <2>4 DEF Keeping
<1> QED
    BY <1>2, <1>3 DEF Copy

LEMMA SavingKeeps ==
    ASSUME SchemaInv, NEW p \in Clients, NEW r \in RowIds, Save(p, r)
    PROVE  Keeping
<1>1. /\ db \in Database
      /\ \A x \in RowIds : db.rows[x] \subseteq OfTasks
    BY DEF SchemaInv, SchemaTypeOK, Database, Entered
<1>2. db' = [db EXCEPT !.present = @ \cup {r}, !.rows[r] = OfTasks]
    BY DEF Save
<1>3. db'.present = db.present \cup {r}
    BY <1>1, <1>2 DEF Database
<1>4. \A x \in RowIds : db'.rows[x] = IF x = r THEN OfTasks ELSE db.rows[x]
    BY <1>1, <1>2 DEF Database
<1>5. db.present \subseteq RowIds
    BY <1>1 DEF Database
<1> QED
    BY <1>1, <1>3, <1>4, <1>5 DEF Keeping

\* No step of a migration or of a user of the database takes a row away, and
\* only overlapped migrations take a value from one: the rebuilding of the
\* table (db._migrate_sync, stages 2 and 3) happens while the rows have no
\* column that it would not copy.
THEOREM DataIsKept == Spec => DataKept
<1>1. SchemaInv /\ [Next]_vars => [Keeping]_schemaVars
    <2>1. SUFFICES ASSUME SchemaInv, [Next]_vars PROVE Keeping \/ UNCHANGED schemaVars
        OBVIOUS
    <2>2. SchemaStep \/ UNCHANGED schemaVars
        BY <2>1, StepsOfSchema
    <2>3. db \in Database
        BY <2>1 DEF SchemaInv, SchemaTypeOK, Database
    <2>4. (UNCHANGED <<db.present, db.rows>>) => Keeping
        BY DEF Keeping
    <2>5. ASSUME NEW p \in Clients, Connect(p) \/ MigrationStep(p) PROVE Keeping
        <3>1. ASSUME Connect(p) \/ ReadVersion(p) \/ CreateTables(p) \/ CreateVersionTable(p)
                     \/ StampFresh(p) \/ DropTemp(p) \/ CreateTemp(p) \/ Alter(p) \/ Stamp(p)
              PROVE  UNCHANGED <<db.present, db.rows>>
            BY <2>3, <3>1 DEF Connect, ReadVersion, CreateTables, CreateVersionTable,
               StampFresh, DropTemp, CreateTemp, Alter, Stamp, Database
        <3>2. ASSUME AddAgent(p) \/ AddFallback(p) \/ UpdateVersion(p)
              PROVE  UNCHANGED <<db.present, db.rows>>
            BY <2>3, <3>2 DEF AddAgent, AddFallback, AddColumn, UpdateVersion, Database
        <3> QED
            BY <2>1, <2>4, <2>5, <3>1, <3>2, CopyingKeeps, SavingKeeps DEF MigrationStep
    <2>6. ASSUME NEW gone \in SUBSET Clients, Disconnect(gone) PROVE Keeping
        BY <2>4, <2>6 DEF Disconnect
    <2> QED
        BY <2>2, <2>5, <2>6 DEF SchemaStep
<1>2. [Keeping]_schemaVars =>
        [/\ db.present \subseteq db'.present
         /\ ~overlapped' => \A r \in db.present : db.rows[r] \subseteq db'.rows[r]]_schemaVars
    BY DEF Keeping
<1> QED
    BY <1>1, <1>2, SchemaInvariant, PTL DEF Spec, DataKept

-----------------------------------------------------------------------------
\* Only a worker with the lock is connected.
HoldersServe == \A w \in Workers : ~At(w, "off") => worker[w].pc = "held"

\* A migration moves its own process only.
LEMMA OnlyOne ==
    ASSUME SchemaTypeOK, NEW p \in Clients, Connect(p) \/ MigrationStep(p)
    PROVE  \A q \in Clients : q # p => mig'[q] = mig[q]
<1>0. mig \in [Clients -> [pc: Steps9, stage: 0..10]]
    BY DEF SchemaTypeOK
<1>1. \A pc : Step(p, pc) => \A q \in Clients : q # p => mig'[q] = mig[q]
    BY <1>0 DEF Step
<1>2. NextStage(p) \/ Fail(p) => \A q \in Clients : q # p => mig'[q] = mig[q]
    BY <1>0 DEF NextStage, Fail
<1>3. ReadVersion(p) \/ StampFresh(p) => \A q \in Clients : q # p => mig'[q] = mig[q]
    BY <1>0 DEF ReadVersion, StampFresh
<1>4. AddAgent(p) \/ AddFallback(p) => \A q \in Clients : q # p => mig'[q] = mig[q]
    BY <1>1, <1>2 DEF AddAgent, AddFallback, AddColumn
<1>5. CreateTemp(p) \/ Copy(p) \/ Stamp(p) \/ UpdateVersion(p) =>
        \A q \in Clients : q # p => mig'[q] = mig[q]
    BY <1>1, <1>2 DEF CreateTemp, Copy, Stamp, UpdateVersion
<1>6. Connect(p) \/ CreateTables(p) \/ CreateVersionTable(p) \/ DropTemp(p) \/ Alter(p)
        => \A q \in Clients : q # p => mig'[q] = mig[q]
    BY <1>1 DEF Connect, CreateTables, CreateVersionTable, DropTemp, Alter
<1>7. (\E r \in RowIds : Save(p, r)) => \A q \in Clients : q # p => mig'[q] = mig[q]
    BY DEF Save
<1> QED
    BY <1>3, <1>4, <1>5, <1>6, <1>7 DEF MigrationStep

LEMMA HoldersStep ==
    ASSUME HoldersServe, LockTypeOK, SchemaTypeOK, [Next]_vars
    PROVE  HoldersServe'
<1> USE ClientsAssumption
<1>0. /\ \A w \in Workers : mig[w].pc # "off" => worker[w].pc = "held"
      /\ mig \in [Clients -> [pc: Steps9, stage: 0..10]]
      /\ worker \in [Workers -> Process]
    BY DEF HoldersServe, At, SchemaTypeOK, LockTypeOK, Process
<1> SUFFICES \A v \in Workers : mig'[v].pc # "off" => worker'[v].pc = "held"
    BY DEF HoldersServe, At
<1>1. CASE UNCHANGED vars
    BY <1>0, <1>1 DEF vars, lockVars, schemaVars
<1>2. ASSUME NEW w \in Workers, Locking(w)
      PROVE  \A v \in Workers : mig'[v].pc # "off" => worker'[v].pc = "held"
    <2>1. worker[w].pc # "held" /\ UNCHANGED mig
        BY <1>2 DEF Locking, schemaVars, Start, Exists, Read, Signal, CompareStart, Unlink,
           Truncate, Fill, Close, Live, Gone
    <2>2. \A v \in Workers : v # w => worker'[v] = worker[v]
        BY <1>2, StepsKeep, HasStarted DEF Locking, Kept
    <2> QED
        BY <1>0, <2>1, <2>2
<1>3. ASSUME NEW w \in Workers, Serving(w)
      PROVE  \A v \in Workers : mig'[v].pc # "off" => worker'[v].pc = "held"
    <2>1. worker[w].pc = "held" /\ UNCHANGED worker
        BY <1>3 DEF Serving, lockVars
    <2>2. \A v \in Clients : v # w => mig'[v] = mig[v]
        BY <1>0, <1>3, OnlyOne DEF Serving
    <2> QED
        BY <1>0, <2>1, <2>2
<1>4. ASSUME NEW w \in Workers, Finish(w) \/ Dies(w)
      PROVE  \A v \in Workers : mig'[v].pc # "off" => worker'[v].pc = "held"
    <2>1. \A v \in Workers : v # w => worker'[v] = worker[v]
        BY <1>4, StepsKeep DEF Finish, Dies, Kept
    <2>2. \A v \in Workers : mig'[v].pc = "off" \/ (v # w /\ mig'[v] = mig[v])
        BY <1>4 DEF Finish, Dies, Disconnect, Off
    <2> QED
        BY <1>0, <2>1, <2>2
<1>5. ASSUME NEW p \in Tools, UseTool(p) \/ EndTool(p)
      PROVE  \A v \in Workers : mig'[v].pc # "off" => worker'[v].pc = "held"
    <2>1. UNCHANGED worker
        BY <1>5 DEF UseTool, EndTool, lockVars
    <2>2. \A v \in Workers : mig'[v] = mig[v]
        <3>1. CASE UseTool(p)
            BY <1>0, <3>1, OnlyOne DEF UseTool
        <3>2. CASE EndTool(p)
            BY <3>2 DEF EndTool, Disconnect
        <3> QED
            BY <1>5, <3>1, <3>2
    <2> QED
        BY <1>0, <2>1, <2>2
<1>6. ASSUME NEW p \in Pids, Elsewhere(p)
      PROVE  \A v \in Workers : mig'[v].pc # "off" => worker'[v].pc = "held"
    BY <1>0, <1>6 DEF Elsewhere, Unrelated, schemaVars
<1>7. CASE Reboot
    BY <1>7 DEF Reboot, Disconnect, Off
<1> QED
    BY <1>1, <1>2, <1>3, <1>4, <1>5, <1>6, <1>7 DEF Next

\* What the lock and the schema may be at any time, and that a worker works on
\* the database only while it holds the lock (_run_worker of worker.py).
THEOREM StartupTypes == Spec => []TypeOK
<1>1. Init => HoldersServe
    BY ClientsAssumption DEF Init, SchemaInit, HoldersServe, At, Off
<1>2. LockInv => LockTypeOK
    BY DEF LockInv
<1>3. SchemaInv => SchemaTypeOK
    BY DEF SchemaInv
<1>4. HoldersServe /\ LockTypeOK /\ SchemaTypeOK /\ [Next]_vars => HoldersServe'
    BY HoldersStep
<1>5. HoldersServe /\ LockTypeOK /\ SchemaTypeOK => TypeOK
    BY DEF TypeOK, HoldersServe
<1> QED
    BY <1>1, <1>2, <1>3, <1>4, <1>5, LockInvariant, SchemaInvariant, PTL DEF Spec
=============================================================================
