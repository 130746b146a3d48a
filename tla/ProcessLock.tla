----------------------------- MODULE ProcessLock -----------------------------
(***************************************************************************)
(* process_lock.py: the directory that keeps a second daemon from starting,*)
(* and stop_running_daemon, which an updater uses to end the first one.    *)
(*                                                                         *)
(* Every access to the file system is a step of its own.  A process can    *)
(* crash or be killed between any two of them and leaves the lock as it    *)
(* is.  A file that exists without contents reads like a missing one, so   *)
(* creating and writing it is one step; process ids are not reused.        *)
(***************************************************************************)
EXTENDS FiniteSets

CONSTANTS
  Procs,     \* process ids; every process starts once
  Troubles   \* what the environment may do, from AllTroubles

\* A process looks at a lock that another one is filling or clearing away, or
\* makes its directory anew meanwhile; a file of the lock cannot be written.
AllTroubles == {"race", "write"}

None == "none"
ASSUME ProcsAssumption == None \notin Procs /\ Troubles \subseteq AllTroubles

VARIABLES
  pc,        \* where each process is; "run" is a daemon that holds the lock
  owned,     \* processes whose lock object has _owned set
  dir,       \* the lock directory exists
  pidFile,   \* the id in its file "pid"
  started,   \* the time in its file "started": none, within 30 seconds, older
  upd,       \* the updater in stop_running_daemon, and its answer
  target,    \* the process it signals
  found,     \* history: the daemons running when the updater read the lock
  beaten     \* history: the starts that cleared the lock and found a new one

lock    == <<dir, pidFile, started>>
updater == <<upd, target, found>>
vars    == <<pc, owned, lock, updater, beaten>>

Running(p) == pc[p] \notin {"new", "refused", "gone"}                 \* _pid_is_running
Clearing   == {"read started", "unlink pid", "unlink started", "rmdir"}
Filling    == {"write pid", "write started"}
Apart(p, labels) == "race" \in Troubles \/ \A q \in Procs \ {p} : pc[q] \notin labels
Goto(p, label) == pc' = [pc EXCEPT ![p] = label]

-----------------------------------------------------------------------------
(* ProcessLock.acquire *)

Start(p) ==
  /\ pc[p] = "new"
  /\ Goto(p, "mkdir")
  /\ UNCHANGED <<owned, lock, updater, beaten>>

MakeDir(p) ==
  /\ pc[p] \in {"mkdir", "mkdir again"}
  /\ dir \/ Apart(p, Clearing)
  /\ dir' = TRUE
  /\ beaten' = IF dir THEN beaten ELSE beaten \cup {q \in Procs \ {p} : pc[q] = "mkdir again"}
  /\ Goto(p, IF ~dir THEN "write pid" ELSE IF pc[p] = "mkdir" THEN "read pid" ELSE "refused")
  /\ UNCHANGED <<owned, pidFile, started, updater>>

\* _is_live_lock: the process in the lock runs, or the lock is too young.
LiveYoungOwner ==                                                     \* mutant
  pidFile \in Procs /\ Running(pidFile) /\ started = "fresh"
LiveOwner == pidFile \in Procs /\ Running(pidFile)

ReadPid(p) ==
  /\ pc[p] = "read pid" /\ Apart(p, Clearing \cup Filling \cup {"mkdir again"})
  /\ Goto(p, IF LiveOwner THEN "refused" ELSE "read started")
  /\ UNCHANGED <<owned, lock, updater, beaten>>

TooYoungOrMissing == started # "old"                                  \* mutant
TooYoung == started = "fresh"

ReadStarted(p) ==
  /\ pc[p] = "read started"
  /\ Goto(p, IF TooYoung THEN "refused" ELSE "unlink pid")
  /\ UNCHANGED <<owned, lock, updater, beaten>>

\* A write that fails, in a directory somebody has removed as well, is ignored,
\* and so are the writes after it.
Writes == {dir} \cup (IF "write" \in Troubles THEN {FALSE} ELSE {})

WritePid(p) ==
  /\ pc[p] = "write pid"
  /\ \E done \in Writes :
       /\ pidFile' = IF done THEN p ELSE pidFile
       /\ Goto(p, IF done THEN "write started" ELSE "run")
       /\ owned' = IF done THEN owned ELSE owned \cup {p}
  /\ UNCHANGED <<dir, started, updater, beaten>>

WriteStarted(p) ==
  /\ pc[p] = "write started"
  /\ \E done \in Writes : started' = IF done THEN "fresh" ELSE started
  /\ owned' = owned \cup {p}
  /\ Goto(p, "run")
  /\ UNCHANGED <<dir, pidFile, updater, beaten>>

-----------------------------------------------------------------------------
(* ProcessLock.release, and _break_stale_lock which acquire shares with it *)

Release(p) ==
  /\ pc[p] = "run"
  /\ Goto(p, "unlink pid")
  /\ UNCHANGED <<owned, lock, updater, beaten>>

UnlinkPid(p) ==
  /\ pc[p] = "unlink pid"
  /\ pidFile' = None
  /\ Goto(p, "unlink started")
  /\ UNCHANGED <<owned, dir, started, updater, beaten>>

UnlinkStarted(p) ==
  /\ pc[p] = "unlink started"
  /\ started' = None
  /\ Goto(p, "rmdir")
  /\ UNCHANGED <<owned, dir, pidFile, updater, beaten>>

\* Only an empty directory can be removed.
RemoveDir(p) ==
  /\ pc[p] = "rmdir"
  /\ dir' = (dir /\ (pidFile # None \/ started # None))
  /\ Goto(p, IF p \in owned THEN "gone" ELSE "mkdir again")
  /\ owned' = owned \ {p}
  /\ UNCHANGED <<pidFile, started, updater, beaten>>

-----------------------------------------------------------------------------
(* stop_running_daemon, called once *)

Answer(a) == upd' = a /\ target' = None

SurvivedUnnoticed == Answer("stopped")                                \* mutant
Survived == Answer("failed")

ReadLock ==
  /\ upd = "idle"
  /\ found' = {p \in Procs : pc[p] = "run"}
  /\ IF LiveOwner THEN upd' = "wait" /\ target' = pidFile ELSE Answer("stopped")
  /\ UNCHANGED <<pc, owned, lock, beaten>>

\* SIGTERM makes the daemon release the lock and exit, if it still can: Release
\* is enabled anyway.  The updater waits, and kills it after the timeout.
Kill ==
  /\ upd = "wait"
  /\ \/ /\ ~Running(target)
        /\ Answer("stopped")
        /\ UNCHANGED pc
     \/ /\ Running(target)
        /\ Goto(target, "gone")
        /\ Answer("stopped")
     \/ /\ Running(target)
        /\ Survived
        /\ UNCHANGED pc
  /\ UNCHANGED <<owned, lock, found, beaten>>

-----------------------------------------------------------------------------
Crash(p) ==
  /\ Running(p)
  /\ Goto(p, "gone")
  /\ UNCHANGED <<owned, lock, updater, beaten>>

Age ==
  /\ started = "fresh"
  /\ started' = "old"
  /\ UNCHANGED <<pc, owned, dir, pidFile, updater, beaten>>

Init ==
  /\ pc = [p \in Procs |-> "new"]
  /\ owned = {}
  /\ dir = FALSE /\ pidFile = None /\ started = None
  /\ upd = "idle" /\ target = None /\ found = {} /\ beaten = {}

Acquire(p) == \/ Start(p) \/ MakeDir(p) \/ ReadPid(p) \/ ReadStarted(p)
              \/ WritePid(p) \/ WriteStarted(p)
Exit(p) == Release(p) \/ UnlinkPid(p) \/ UnlinkStarted(p) \/ RemoveDir(p)

Next == (\E p \in Procs : Acquire(p) \/ Exit(p) \/ Crash(p)) \/ ReadLock \/ Kill \/ Age

Spec == Init /\ [][Next]_vars

-----------------------------------------------------------------------------
(* Properties *)

Labels == {"new", "mkdir", "mkdir again", "read pid", "read started", "write pid",
           "write started", "run", "unlink pid", "unlink started", "rmdir", "refused", "gone"}

TypeOK ==
  /\ pc \in [Procs -> Labels]
  /\ owned \subseteq Procs
  /\ dir \in BOOLEAN /\ pidFile \in Procs \cup {None} /\ started \in {None, "fresh", "old"}
  /\ upd \in {"idle", "wait", "stopped", "failed"} /\ target \in Procs \cup {None}
  /\ (upd = "wait" <=> target # None)
  /\ found \subseteq Procs /\ beaten \subseteq Procs

\* Two daemons never run at the same time, however starts and exits overlap and
\* whatever crashed processes left in the lock directory (ProcessLock.acquire).
MutualExclusion == \A p, q \in Procs : pc[p] = "run" /\ pc[q] = "run" => p = q

\* A start is refused only for a running daemon, a lock younger than the grace
\* period, or another start that made the directory this one had cleared away: a
\* crash at any step of acquire or release shuts nobody out.
RefusedRightly ==
  [][\A p \in Procs : pc[p] # "refused" /\ pc'[p] = "refused" =>
       started = "fresh" \/ p \in beaten \/ \E q \in Procs : pc[q] = "run"]_vars

\* When stop_running_daemon says "stopped", no daemon that ran when it looked at
\* the lock is left, so the updater may replace the program.
StoppedMeansNone == upd = "stopped" => \A p \in found : pc[p] # "run"
=============================================================================
