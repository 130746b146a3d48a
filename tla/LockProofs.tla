----------------------------- MODULE LockProofs -----------------------------
(***************************************************************************)
(* Theorems about ProcessLock, for any number of processes, however starts  *)
(* and exits overlap: while the lock can be written and nobody looks at it, *)
(* or makes its directory, in the few steps in which another process fills  *)
(* it or clears it away, there is at most one daemon, a refused start had a *)
(* reason, and stop_running_daemon finds the daemon there is.               *)
(***************************************************************************)
EXTENDS ProcessLock, TLAPS

\* Past its look at the lock, a start knows that no daemon runs; and so does an
\* exit, because its own daemon was the one.
Inside == Clearing \cup Filling

\* One process at a time fills the lock or clears it away.
OneInside == \A p, q \in Procs : pc[p] \in Inside /\ pc[q] \in Inside => p = q
\* The daemon is recorded in the lock.
Recorded == \A p \in Procs : pc[p] = "run" => dir /\ pidFile = p
NoDaemonBeside == \A p, q \in Procs : pc[p] \in Inside => pc[q] # "run"
\* What acquire has written so far is still there.
Writing == \A p \in Procs :
  /\ pc[p] \in Filling => dir
  /\ pc[p] = "write started" => pidFile = p
\* What is cleared away is gone, unless another start has made the directory anew.
Broken == \A p \in Procs :
  /\ pc[p] \in {"unlink started", "rmdir"} => pidFile = None
  /\ pc[p] = "rmdir" => started = None
  /\ pc[p] = "mkdir again" /\ dir => p \in beaten
\* A start has not written its id before it has looked at the lock.
Unwritten == \A p \in Procs : pc[p] \in {"new", "mkdir", "read pid"} => pidFile # p
\* A daemon the updater found never comes back once it has left.
Found == \A p \in Procs :
  /\ pc[p] = "run" => p \in owned
  /\ p \in found => \/ pc[p] = "gone"
                    \/ pc[p] \in {"run", "unlink pid", "unlink started", "rmdir"} /\ p \in owned
\* The updater waits for the only daemon it found.
Looking == \A p \in found : pc[p] = "run" => upd = "failed" \/ (upd = "wait" /\ target = p)

LockInv == /\ TypeOK /\ OneInside /\ Recorded /\ NoDaemonBeside
           /\ Writing /\ Broken /\ Unwritten /\ Found /\ Looking

\* The writes of acquire succeed, and nobody looks at a lock that another process
\* fills or clears away.
NoRace == Troubles = {}

-----------------------------------------------------------------------------
(* The invariant holds in the beginning and through every step *)

LEMMA InitInv == Init => LockInv
  BY ProcsAssumption DEF Init, LockInv, TypeOK, Labels, OneInside, Recorded, NoDaemonBeside,
       Writing, Broken, Unwritten,
         Found, Looking, Inside, Clearing, Filling

\* The processes when p goes on to label: it passes the look at the lock when
\* nobody else has passed it and no other daemon runs.
May(p, label) ==
  /\ label \in Labels
  /\ label \in Inside => \/ pc[p] \in Inside
                        \/ \A q \in Procs \ {p} : pc[q] \notin Inside /\ pc[q] # "run"
  /\ label = "run" => pc[p] \in Inside

Moved(p, label) == /\ pc' \in [Procs -> Labels]
                   /\ \A q \in Procs : pc'[q] = IF q = p THEN label ELSE pc[q]

LEMMA Places ==
  ASSUME LockInv, NEW p \in Procs, NEW label, Goto(p, label), May(p, label)
  PROVE  Moved(p, label) /\ OneInside' /\ NoDaemonBeside'
<1>1. Moved(p, label)
  BY DEF Goto, May, Moved, LockInv, TypeOK
<1>2. "run" \notin Inside
  BY DEF Inside, Clearing, Filling
<1>3. OneInside'
  BY <1>1, <1>2 DEF OneInside, NoDaemonBeside, LockInv, May, Moved
<1>4. NoDaemonBeside'
  BY <1>1, <1>2 DEF NoDaemonBeside, OneInside, LockInv, May, Moved
<1> QED BY <1>1, <1>3, <1>4

Leaving == {"run", "unlink pid", "unlink started", "rmdir"}

\* A daemon that was found stays on its way out, and the updater with it.
LEMMA FoundKept ==
  ASSUME LockInv, NEW p \in Procs, NEW label, Moved(p, label), UNCHANGED updater,
         owned \ {p} \subseteq owned',
         label = "run" => p \in owned' /\ p \notin found,
         p \in found => label = "gone" \/ (label \in Leaving /\ p \in owned')
  PROVE  Found' /\ Looking'
<1>1. Found'
  BY DEF LockInv, Found, Moved, updater, Leaving
<1>2. Looking'
  BY DEF LockInv, TypeOK, Looking, Moved, updater
<1> QED BY <1>1, <1>2

\* Without a daemon and without anybody else in the lock, only p matters.
LEMMA AloneInLock ==
  ASSUME LockInv, NEW p \in Procs, pc[p] \in Inside
  PROVE  \A q \in Procs \ {p} : pc[q] \notin Inside /\ pc[q] # "run"
  BY DEF LockInv, OneInside, NoDaemonBeside

LEMMA AcquireInv ==
  ASSUME NoRace, LockInv, NEW p \in Procs, Acquire(p)
  PROVE  LockInv'
<1>1. CASE Start(p)
  <2>1. Goto(p, "mkdir")
    BY <1>1 DEF Start
  <2>2. May(p, "mkdir")
    BY <1>1, <2>1 DEF Start, May, Labels, Inside, Clearing, Filling
  <2>3. Moved(p, "mkdir") /\ OneInside' /\ NoDaemonBeside'
    BY <1>1, <2>1, <2>2, Places
  <2>4. TypeOK' /\ Recorded'
    BY <1>1, <2>1, <2>3 DEF Start, LockInv, TypeOK, Recorded, Moved, updater, lock
  <2>5. Writing' /\ Broken' /\ Unwritten'
    BY <1>1, <2>1, <2>3 DEF Start, LockInv, Writing, Broken, Unwritten, Moved, lock, Inside,
         Clearing, Filling
  <2>6. Found' /\ Looking'
    BY <1>1, <2>1, <2>3, FoundKept DEF Start, LockInv, Found, Leaving
  <2>7. QED
    BY <2>3, <2>4, <2>5, <2>6 DEF LockInv
<1>2. CASE MakeDir(p)
  <2>1. PICK label \in {"write pid", "read pid", "refused"} :
          /\ Goto(p, label) /\ (label = "write pid" <=> ~dir)
          /\ label = "read pid" => pc[p] = "mkdir"
    BY <1>2 DEF MakeDir
  <2>2. ~dir => \A q \in Procs : pc[q] # "run" /\ pc[q] \notin Filling
    BY DEF LockInv, Recorded, Writing
  <2>3. ~dir => \A q \in Procs \ {p} : pc[q] \notin Inside
    BY <1>2, <2>2 DEF MakeDir, Apart, NoRace, Inside
  <2>4. May(p, label)
    BY <1>2, <2>1, <2>2, <2>3 DEF MakeDir, May, Labels, Inside, Clearing, Filling
  <2>5. Moved(p, label) /\ OneInside' /\ NoDaemonBeside'
    BY <1>2, <2>1, <2>2, <2>3, <2>4, Places
  <2>6. TypeOK' /\ Recorded'
    BY <1>2, <2>1, <2>2, <2>3, <2>5 DEF MakeDir, LockInv, TypeOK, Recorded, Moved, updater, lock
  <2>a. beaten' = IF dir THEN beaten ELSE beaten \cup {q \in Procs \ {p} : pc[q] = "mkdir again"}
    BY <1>2 DEF MakeDir
  <2>b. label # "mkdir again" /\ dir' /\ UNCHANGED <<pidFile, started>>
    BY <1>2, <2>1 DEF MakeDir
  <2>c. label \in Filling => label = "write pid" /\ ~dir
    BY <2>1 DEF Filling
  <2>7. Writing' /\ Broken' /\ Unwritten'
    <3>1. Writing'
      BY <2>1, <2>5, <2>b DEF LockInv, Writing, Moved
    <3>2. Broken'
      BY <2>1, <2>5, <2>a, <2>b DEF LockInv, Broken, Moved
    <3>3. Unwritten'
      BY <2>1, <2>5, <2>b DEF LockInv, Unwritten, Moved
    <3>4. QED
      BY <3>1, <3>2, <3>3
  <2>8. Found' /\ Looking'
    BY <1>2, <2>1, <2>2, <2>3, <2>5, FoundKept DEF MakeDir, LockInv, Found, Leaving
  <2>9. QED
    BY <2>5, <2>6, <2>7, <2>8 DEF LockInv
<1>3. CASE ReadPid(p)
  <2>1. PICK label \in {"refused", "read started"} :
          Goto(p, label) /\ (label = "read started" => ~LiveOwner)
    BY <1>3 DEF ReadPid
  <2>a. \A q \in Procs \ {p} : pc[q] \notin Inside
    BY <1>3 DEF ReadPid, Apart, NoRace, Inside
  <2>2. ~LiveOwner => \A q \in Procs : pc[q] # "run"
    BY DEF LiveOwner, Running, LockInv, Recorded
  <2>3. May(p, label)
    BY <1>3, <2>1, <2>2, <2>a DEF ReadPid, May, Labels, Inside, Clearing, Filling
  <2>4. Moved(p, label) /\ OneInside' /\ NoDaemonBeside'
    BY <1>3, <2>1, <2>2, <2>3, Places
  <2>5. TypeOK' /\ Recorded'
    BY <1>3, <2>1, <2>2, <2>4 DEF ReadPid, LockInv, TypeOK, Recorded, Moved, updater, lock
  <2>6. Writing' /\ Broken' /\ Unwritten'
    BY <1>3, <2>1, <2>2, <2>4 DEF ReadPid, LockInv, Writing, Broken, Unwritten, Moved, lock,
         Inside, Clearing, Filling
  <2>7. Found' /\ Looking'
    BY <1>3, <2>1, <2>2, <2>4, FoundKept DEF ReadPid, LockInv, Found, Leaving
  <2>8. QED
    BY <2>4, <2>5, <2>6, <2>7 DEF LockInv
<1>4. CASE ReadStarted(p)
  <2>1. PICK label \in {"refused", "unlink pid"} : Goto(p, label)
    BY <1>4 DEF ReadStarted
  <2>2. May(p, label)
    BY <1>4, <2>1 DEF ReadStarted, May, Labels, Inside, Clearing, Filling
  <2>3. Moved(p, label) /\ OneInside' /\ NoDaemonBeside'
    BY <1>4, <2>1, <2>2, Places
  <2>4. TypeOK' /\ Recorded'
    BY <1>4, <2>1, <2>3 DEF ReadStarted, LockInv, TypeOK, Recorded, Moved, updater, lock
  <2>5. Writing' /\ Broken' /\ Unwritten'
    BY <1>4, <2>1, <2>3 DEF ReadStarted, LockInv, Writing, Broken, Unwritten, Moved, lock,
         Inside, Clearing, Filling
  <2>6. Found' /\ Looking'
    BY <1>4, <2>1, <2>3, FoundKept DEF ReadStarted, LockInv, Found, Leaving
  <2>7. QED
    BY <2>3, <2>4, <2>5, <2>6 DEF LockInv
<1>5. CASE WritePid(p)
  <2>1. /\ Goto(p, "write started") /\ dir /\ pidFile' = p
        /\ UNCHANGED <<owned, dir, started, updater, beaten>>
    BY <1>5 DEF WritePid, Writes, NoRace, LockInv, Writing, Filling
  <2>2. May(p, "write started")
    BY <1>5, <2>1 DEF WritePid, May, Labels, Inside, Clearing, Filling
  <2>3. Moved(p, "write started") /\ OneInside' /\ NoDaemonBeside'
    BY <1>5, <2>1, <2>2, Places
  <2>4. \A q \in Procs \ {p} : pc[q] \notin Inside /\ pc[q] # "run"
    BY <1>5, AloneInLock DEF WritePid, Inside, Clearing, Filling
  <2>5. TypeOK' /\ Recorded'
    BY <1>5, <2>1, <2>3, <2>4 DEF WritePid, LockInv, TypeOK, Recorded, Moved, updater, lock
  <2>6. Writing' /\ Broken' /\ Unwritten'
    BY <1>5, <2>1, <2>3, <2>4 DEF LockInv, Writing, Broken, Unwritten, Moved, lock, Inside,
         Clearing, Filling
  <2>7. Found' /\ Looking'
    BY <1>5, <2>1, <2>3, FoundKept DEF WritePid, LockInv, Found, Leaving
  <2>8. QED
    BY <2>3, <2>5, <2>6, <2>7 DEF LockInv
<1>6. CASE WriteStarted(p)
  <2>1. /\ Goto(p, "run") /\ dir /\ pidFile = p /\ started' = "fresh" /\ owned' = owned \cup {p}
        /\ UNCHANGED <<dir, pidFile, updater, beaten>>
    BY <1>6 DEF WriteStarted, Writes, NoRace, LockInv, Writing, Filling
  <2>2. May(p, "run")
    BY <1>6, <2>1 DEF WriteStarted, May, Labels, Inside, Clearing, Filling
  <2>3. Moved(p, "run") /\ OneInside' /\ NoDaemonBeside'
    BY <1>6, <2>1, <2>2, Places
  <2>4. \A q \in Procs \ {p} : pc[q] \notin Inside /\ pc[q] # "run"
    BY <1>6, AloneInLock DEF WriteStarted, Inside, Clearing, Filling
  <2>5. TypeOK' /\ Recorded'
    BY <1>6, <2>1, <2>3, <2>4 DEF LockInv, TypeOK, Recorded, Moved, updater, lock
  <2>6. Writing' /\ Broken' /\ Unwritten'
    BY <1>6, <2>1, <2>3, <2>4 DEF WriteStarted, LockInv, Writing, Broken, Unwritten, Moved, lock,
         Inside, Clearing, Filling
  <2>7. Found' /\ Looking'
    BY <1>6, <2>1, <2>3, FoundKept DEF WriteStarted, LockInv, Found, Leaving
  <2>8. QED
    BY <2>3, <2>5, <2>6, <2>7 DEF LockInv
<1>7. QED BY <1>1, <1>2, <1>3, <1>4, <1>5, <1>6 DEF Acquire

LEMMA ExitInv ==
  ASSUME NoRace, LockInv, NEW p \in Procs, Exit(p)
  PROVE  LockInv'
<1>1. CASE Release(p)
  <2>1. Goto(p, "unlink pid") /\ \A q \in Procs : pc[q] \notin Inside
    BY <1>1 DEF Release, LockInv, NoDaemonBeside
  <2>2. \A q \in Procs \ {p} : pc[q] # "run"
    BY <1>1 DEF Release, LockInv, Recorded
  <2>3. May(p, "unlink pid")
    BY <1>1, <2>1, <2>2 DEF Release, May, Labels, Inside, Clearing, Filling
  <2>4. Moved(p, "unlink pid") /\ OneInside' /\ NoDaemonBeside'
    BY <1>1, <2>1, <2>2, <2>3, Places
  <2>5. TypeOK' /\ Recorded'
    BY <1>1, <2>1, <2>2, <2>4 DEF Release, LockInv, TypeOK, Recorded, Moved, updater, lock
  <2>6. Writing' /\ Broken' /\ Unwritten'
    BY <1>1, <2>1, <2>2, <2>4 DEF Release, LockInv, Writing, Broken, Unwritten, Moved, lock,
         Inside, Clearing, Filling
  <2>7. Found' /\ Looking'
    BY <1>1, <2>1, <2>2, <2>4, FoundKept DEF Release, LockInv, Found, Leaving
  <2>8. QED
    BY <2>4, <2>5, <2>6, <2>7 DEF LockInv
<1>2. CASE UnlinkPid(p)
  <2>1. Goto(p, "unlink started")
    BY <1>2 DEF UnlinkPid
  <2>2. May(p, "unlink started")
    BY <1>2, <2>1 DEF UnlinkPid, May, Labels, Inside, Clearing, Filling
  <2>3. Moved(p, "unlink started") /\ OneInside' /\ NoDaemonBeside'
    BY <1>2, <2>1, <2>2, Places
  <2>4. \A q \in Procs \ {p} : pc[q] \notin Inside /\ pc[q] # "run"
    BY <1>2, AloneInLock DEF UnlinkPid, Inside, Clearing, Filling
  <2>5. TypeOK' /\ Recorded'
    BY <1>2, <2>1, <2>3, <2>4 DEF UnlinkPid, LockInv, TypeOK, Recorded, Moved, updater, lock
  <2>6. Writing' /\ Broken' /\ Unwritten'
    BY <1>2, <2>1, <2>3, <2>4, ProcsAssumption DEF UnlinkPid, LockInv, Writing, Broken,
         Unwritten, Moved, lock, Inside, Clearing, Filling
  <2>7. Found' /\ Looking'
    BY <1>2, <2>1, <2>3, FoundKept DEF UnlinkPid, LockInv, Found, Leaving
  <2>8. QED
    BY <2>3, <2>5, <2>6, <2>7 DEF LockInv
<1>3. CASE UnlinkStarted(p)
  <2>1. Goto(p, "rmdir")
    BY <1>3 DEF UnlinkStarted
  <2>2. May(p, "rmdir")
    BY <1>3, <2>1 DEF UnlinkStarted, May, Labels, Inside, Clearing, Filling
  <2>3. Moved(p, "rmdir") /\ OneInside' /\ NoDaemonBeside'
    BY <1>3, <2>1, <2>2, Places
  <2>4. \A q \in Procs \ {p} : pc[q] \notin Inside /\ pc[q] # "run"
    BY <1>3, AloneInLock DEF UnlinkStarted, Inside, Clearing, Filling
  <2>5. TypeOK' /\ Recorded'
    BY <1>3, <2>1, <2>3, <2>4 DEF UnlinkStarted, LockInv, TypeOK, Recorded, Moved, updater, lock
  <2>6. Writing' /\ Broken' /\ Unwritten'
    BY <1>3, <2>1, <2>3, <2>4 DEF UnlinkStarted, LockInv, Writing, Broken, Unwritten, Moved,
         lock, Inside, Clearing, Filling
  <2>7. Found' /\ Looking'
    BY <1>3, <2>1, <2>3, FoundKept DEF UnlinkStarted, LockInv, Found, Leaving
  <2>8. QED
    BY <2>3, <2>5, <2>6, <2>7 DEF LockInv
<1>4. CASE RemoveDir(p)
  <2>1. PICK label \in {"gone", "mkdir again"} :
          Goto(p, label) /\ (label = "gone" <=> p \in owned)
    BY <1>4 DEF RemoveDir
  <2>2. ~dir' /\ owned' = owned \ {p} /\ UNCHANGED <<pidFile, started, updater, beaten>>
    BY <1>4 DEF RemoveDir, LockInv, Broken
  <2>3. May(p, label)
    BY <1>4, <2>1, <2>2 DEF RemoveDir, May, Labels, Inside, Clearing, Filling
  <2>4. Moved(p, label) /\ OneInside' /\ NoDaemonBeside'
    BY <1>4, <2>1, <2>2, <2>3, Places
  <2>5. \A q \in Procs \ {p} : pc[q] \notin Inside /\ pc[q] # "run"
    BY <1>4, AloneInLock DEF RemoveDir, Inside, Clearing, Filling
  <2>6. TypeOK' /\ Recorded'
    BY <1>4, <2>1, <2>2, <2>4, <2>5 DEF RemoveDir, LockInv, TypeOK, Recorded, Moved, updater, lock
  <2>7. Writing' /\ Broken' /\ Unwritten'
    BY <1>4, <2>1, <2>2, <2>4, <2>5 DEF RemoveDir, LockInv, Writing, Broken, Unwritten, Moved,
         lock, Inside, Clearing, Filling
  <2>8. Found' /\ Looking'
    BY <1>4, <2>1, <2>2, <2>4, FoundKept DEF RemoveDir, LockInv, Found, Leaving
  <2>9. QED
    BY <2>4, <2>6, <2>7, <2>8 DEF LockInv
<1>5. QED BY <1>1, <1>2, <1>3, <1>4 DEF Exit

LEMMA OtherInv ==
  ASSUME LockInv, (\E p \in Procs : Crash(p)) \/ ReadLock \/ Kill \/ Age
  PROVE  LockInv'
<1>1. ASSUME NEW p \in Procs, Crash(p) PROVE LockInv'
  <2>1. Goto(p, "gone") /\ May(p, "gone")
    BY <1>1 DEF Crash, May, Labels, Inside, Clearing, Filling
  <2>2. Moved(p, "gone") /\ OneInside' /\ NoDaemonBeside'
    BY <2>1, Places
  <2>3. TypeOK' /\ Recorded'
    BY <1>1, <2>2 DEF Crash, LockInv, TypeOK, Recorded, Moved, updater, lock
  <2>4. Writing' /\ Broken' /\ Unwritten'
    BY <1>1, <2>2 DEF Crash, LockInv, Writing, Broken, Unwritten, Moved, lock, Filling
  <2>5. Found' /\ Looking'
    BY <1>1, <2>2, FoundKept DEF Crash
  <2>6. QED
    BY <2>2, <2>3, <2>4, <2>5 DEF LockInv
<1>2. CASE ReadLock
  <2>1. UNCHANGED <<pc, owned, lock, beaten>> /\ found' = {q \in Procs : pc[q] = "run"}
    BY <1>2 DEF ReadLock
  <2>2. TypeOK' /\ Looking'
    BY <1>2, <2>1, ProcsAssumption DEF ReadLock, LiveOwner, Running, Answer, LockInv, TypeOK,
         Recorded,
         Looking, lock
  <2>3. Found'
    BY <2>1 DEF LockInv, Found
  <2>4. QED
    BY <2>1, <2>2, <2>3 DEF lock, LockInv, OneInside, Recorded, NoDaemonBeside, Writing, Broken,
         Unwritten
<1>3. CASE Kill
  <2>1. target \in Procs /\ UNCHANGED <<owned, lock, found, beaten>>
    BY <1>3 DEF Kill, LockInv, TypeOK
  <2>2. CASE UNCHANGED pc
    <3>1. upd' = "failed" \/ (upd' = "stopped" /\ ~Running(target))
      BY <1>3, <2>2 DEF Kill, Answer, Survived, LockInv, TypeOK, Goto, Running, Labels
    <3>2. TypeOK'
      BY <1>3, <2>1, <2>2 DEF Kill, Answer, Survived, LockInv, TypeOK, lock
    <3>3. Looking'
      BY <1>3, <2>1, <2>2, <3>1 DEF Kill, LockInv, Looking, Running
    <3>4. QED
      BY <2>1, <2>2, <3>2, <3>3 DEF lock, LockInv, OneInside, Recorded, NoDaemonBeside, Writing,
           Broken, Unwritten, Found
  <2>3. CASE Goto(target, "gone") /\ Answer("stopped")
    <3>1. May(target, "gone")
      BY DEF May, Labels, Inside, Clearing, Filling
    <3>2. Moved(target, "gone") /\ OneInside' /\ NoDaemonBeside'
      BY <2>1, <2>3, <3>1, Places
    <3>3. TypeOK' /\ Recorded'
      BY <2>1, <2>3, <3>2 DEF Answer, LockInv, TypeOK, Recorded, Moved, lock
    <3>4. Writing' /\ Broken' /\ Unwritten'
      BY <2>1, <3>2 DEF LockInv, Writing, Broken, Unwritten, Moved, lock, Filling
    <3>5. Found'
      BY <2>1, <3>2 DEF LockInv, Found, Moved
    <3>6. Looking'
      BY <1>3, <2>1, <3>2 DEF Kill, LockInv, TypeOK, Looking, Moved
    <3>7. QED
      BY <3>2, <3>3, <3>4, <3>5, <3>6 DEF LockInv
  <2>4. QED BY <1>3, <2>2, <2>3 DEF Kill, Survived, Answer
<1>4. CASE Age
  BY <1>4 DEF Age, LockInv, TypeOK, OneInside, Recorded, NoDaemonBeside, Writing, Broken,
       Unwritten, Found, Looking,
       updater, None
<1>5. QED BY <1>1, <1>2, <1>3, <1>4

LEMMA Inductive ==
  ASSUME NoRace
  PROVE  Spec => []LockInv
<1>1. ASSUME LockInv, [Next]_vars PROVE LockInv'
  <2>1. CASE Next
    BY <1>1, <2>1, AcquireInv, ExitInv, OtherInv DEF Next
  <2>2. CASE UNCHANGED vars
    BY <1>1, <2>2 DEF vars, lock, updater, LockInv, TypeOK, OneInside, Recorded, NoDaemonBeside,
                      Writing, Broken, Unwritten, Found, Looking
  <2> QED BY <1>1, <2>1, <2>2
<1> QED BY InitInv, <1>1, PTL DEF Spec

-----------------------------------------------------------------------------
\* Two daemons never run at the same time (ProcessLock.acquire), however many
\* processes start, exit, crash and are killed at the same time, but for the
\* races of NoRace: mkdir lets one start in, and the lock records its daemon.
THEOREM OneDaemon ==
  ASSUME NoRace
  PROVE  Spec => []MutualExclusion
<1>1. LockInv => MutualExclusion
  BY DEF LockInv, Recorded, MutualExclusion
<1> QED BY <1>1, Inductive, PTL

\* "stopped" from stop_running_daemon means that no daemon it could have seen
\* is left.
THEOREM StopIsComplete ==
  ASSUME NoRace
  PROVE  Spec => []StoppedMeansNone
<1>1. LockInv => StoppedMeansNone
  BY DEF LockInv, Looking, StoppedMeansNone
<1> QED BY <1>1, Inductive, PTL

\* A start is refused only for a running daemon, a young lock or another start
\* that was faster (_is_live_lock, and the second mkdir of acquire).
THEOREM RefusalHasReason ==
  ASSUME NoRace
  PROVE  Spec => RefusedRightly
<1> DEFINE Reason == \A p \in Procs : pc[p] # "refused" /\ pc'[p] = "refused" =>
                       started = "fresh" \/ p \in beaten \/ \E q \in Procs : pc[q] = "run"
<1>1. ASSUME LockInv, Next PROVE Reason
  <2> SUFFICES ASSUME NEW p \in Procs, pc[p] # "refused", pc'[p] = "refused"
               PROVE  started = "fresh" \/ p \in beaten \/ \E q \in Procs : pc[q] = "run"
    OBVIOUS
  <2> USE <1>1 DEF LockInv, TypeOK, Goto
  <2>1. MakeDir(p) \/ ReadPid(p) \/ ReadStarted(p)
    <3>1. CASE \E q \in Procs : Acquire(q)
      BY <3>1 DEF Acquire, Start, MakeDir, ReadPid, ReadStarted, WritePid, WriteStarted
    <3>2. CASE \E q \in Procs : Exit(q) \/ Crash(q)
      BY <3>2 DEF Exit, Release, UnlinkPid, UnlinkStarted, RemoveDir, Crash
    <3>3. CASE ReadLock \/ Kill \/ Age
      BY <3>3 DEF ReadLock, Kill, Survived, Answer, Age
    <3>4. QED
      BY <3>1, <3>2, <3>3 DEF Next
  <2>2. CASE MakeDir(p)
    BY <2>2 DEF MakeDir, Broken
  <2>3. CASE ReadPid(p)
    BY <2>3 DEF ReadPid, LiveOwner, Running, Apart, NoRace, Unwritten, Labels, Clearing, Filling
  <2>4. CASE ReadStarted(p)
    BY <2>4 DEF ReadStarted, TooYoung
  <2> QED BY <2>1, <2>2, <2>3, <2>4
<1>2. LockInv /\ [Next]_vars => [Reason]_vars
  BY <1>1
<1> QED BY <1>2, Inductive, PTL DEF Spec, RefusedRightly
=============================================================================
