----------------------------- MODULE UpdateFlow -----------------------------
(* The in-app updates of update_status.py.  Every install kind answers a      *)
(* request to update in its own way; the Linux package downloads a .deb in a  *)
(* worker thread, waits for a second request and installs it in another       *)
(* thread.  All of them act on one global operation, found again under a      *)
(* guard each time, so a step of one thread may meet an operation that is not *)
(* its own.  One step is one section under the guard or one call that blocks. *)
EXTENDS Integers, Sequences, FiniteSets

CONSTANTS Clients,      \* threads of the UI server that serve requests
          Versions,     \* versions that can be published or installed
          Started,      \* the version the first engine may run
          FeedStates,   \* what the release feeds may say
          Faults,       \* what may go wrong, see the actions
          MaxOps, MaxRestarts

NoVersion == [base |-> 0, pre |-> <<>>]

(* What a lookup may come back with.                                          *)
SomeVersion == Versions \cup {NoVersion}

(* The number of the base and the parts of the prerelease, see below.         *)
AnyVersion == [base : Nat, pre : Seq({0, 1} \X Nat)]

ASSUME UpdateAssumption ==
  /\ MaxOps \in Nat
  /\ Versions \subseteq AnyVersion \ {NoVersion}
  /\ Started \subseteq Versions
  /\ FeedStates \subseteq [npm : SomeVersion, unstable : SomeVersion, release : SomeVersion, tag : SomeVersion]

-----------------------------------------------------------------------------
(* Versions.  A part of a prerelease is <<0, number>> or <<1, rank of the     *)
(* word>>: numbers come before words.  Same-base prereleases are newer than   *)
(* the base, for whoever follows the moving channel.                          *)

PartNewer(l, r) == l[1] > r[1] \/ (l[1] = r[1] /\ l[2] > r[2])

PreNewer(l, r) ==
  LET Differ == {i \in 1..Len(l) : i <= Len(r) /\ l[i] # r[i]}
  IN IF Differ = {} THEN Len(l) > Len(r)
     ELSE \E i \in Differ : (\A j \in Differ : i <= j) /\ PartNewer(l[i], r[i])

IsNewer(a, b) ==
  /\ a # NoVersion /\ b # NoVersion
  /\ IF a.base # b.base THEN a.base > b.base ELSE PreNewer(a.pre, b.pre)

IsCalver(v) == v # NoVersion /\ v.pre = <<>>

(* The answers a lookup may get, NoVersion standing for an exception.  Each   *)
(* feed may be out of reach; the stable channel asks npm, then the release,   *)
(* then the tags.                                                             *)
StableAnswers(f) ==
  {f.npm, NoVersion}
    \cup (IF IsCalver(f.release) THEN {f.release} ELSE {})
    \cup (IF IsCalver(f.tag) THEN {f.tag} ELSE {})

ChooseUnstable(s, u) ==
  IF u = NoVersion THEN s
  ELSE IF s # NoVersion /\ IsNewer(s, u) THEN s ELSE u

\* Beta and stable are different builds: the running version is the channel.
OnUnstable(v) == v.pre # <<>>

LatestAnswers(f, engine) ==
  IF ~OnUnstable(engine) THEN StableAnswers(f)
  ELSE {ChooseUnstable(s, u) : s \in StableAnswers(f), u \in {f.unstable, NoVersion}}

-----------------------------------------------------------------------------
(* How this copy was installed, and what follows from it.                     *)
Machine == [platform : {"linux", "windows", "mac"}, user : BOOLEAN, source : BOOLEAN, store : BOOLEAN]

InstallKind(i) ==
  CASE i.platform = "linux" /\ i.user -> "linux-user"
    [] i.platform = "linux" /\ ~i.user /\ i.source -> "linux-source"
    [] i.platform = "linux" /\ ~i.user /\ ~i.source -> "linux-package"
    [] i.platform = "windows" /\ i.source -> "windows-source"
    [] i.platform = "windows" /\ ~i.source -> IF i.store THEN "windows-store" ELSE "windows-direct"
    [] i.platform = "mac" -> IF i.source THEN "source" ELSE "mac-package"

AvailableActions(k) ==
  IF k \in {"linux-source", "windows-source", "linux-user", "linux-package", "windows-direct"}
  THEN "update" ELSE IF k = "windows-store" THEN "open_store" ELSE "open_release"

Busy == {"preparing", "downloading", "verifying", "installing"}
Shown == Busy \cup {"failed", "installed"}   \* answered without a lookup

VARIABLES
  kind,       \* the install kind
  running,    \* version of the running engine
  installed,  \* version the package manager has
  stamp,      \* installed_package_version in the configuration
  feed,       \* what the release feeds say
  ops,        \* the operations, by number
  cur,        \* _linux_package_operation: 0 for None
  made,       \* operations and direct downloads made so far
  gone,       \* those of them that belong to an engine that is gone
  pc, loc,    \* the requests: where they are, their locals
  answer,     \* what the last step answered, if it did
  load,       \* download worker of an operation
  inst,       \* install worker of an operation
  dirs,       \* download folder of an operation and the file in it
  apt,        \* package managers whose engine is gone: the versions they install
  restarts

vars == <<kind, running, installed, stamp, feed, ops, cur, made, gone, pc, loc,
          answer, load, inst, dirs, apt, restarts>>
world == <<kind, running, installed, stamp, feed, gone, apt, restarts>>
work == <<load, inst, dirs>>

Ids == 1..MaxOps
FreshOp == [phase |-> "preparing", target |-> NoVersion, deb |-> 0]
NoLoc == [op |-> 0, ver |-> NoVersion, latest |-> NoVersion]
NoAnswer == [mode |-> "none", phase |-> "none"]

Init ==
  /\ \E i \in Machine : kind = InstallKind(i)
  /\ running \in Started /\ installed = running /\ stamp = NoVersion
  /\ feed \in FeedStates
  /\ ops = [i \in Ids |-> FreshOp] /\ cur = 0 /\ made = 0 /\ gone = 0
  /\ pc = [r \in Clients |-> "idle"] /\ loc = [r \in Clients |-> NoLoc]
  /\ answer = NoAnswer
  /\ load = [i \in Ids |-> "none"] /\ inst = [i \in Ids |-> "none"]
  /\ dirs = [i \in Ids |-> "none"]
  /\ apt = {} /\ restarts = 0

-----------------------------------------------------------------------------
(* The operation.  Every one of these looks up the current operation.         *)

SetPhase(phase) == ops' = IF cur = 0 THEN ops ELSE [ops EXCEPT ![cur].phase = phase]
SetFailedElse == SetPhase("error")                              \* mutant

SetFailed == SetPhase("failed")
MarkReady(version, dir) ==
  ops' = IF cur = 0 THEN ops
         ELSE [ops EXCEPT ![cur] = [phase |-> "ready", target |-> version, deb |-> dir]]

Phase == IF cur = 0 THEN "none" ELSE ops[cur].phase

Goto(r, l) == pc' = [pc EXCEPT ![r] = l] /\ answer' = NoAnswer
Answer(r, mode, phase) ==
  /\ pc' = [pc EXCEPT ![r] = "idle"]
  /\ loc' = [loc EXCEPT ![r] = NoLoc]
  /\ answer' = [mode |-> mode, phase |-> phase]

PackageVersions == {installed} \cup (IF "dpkg" \in Faults THEN {NoVersion} ELSE {})

\* The version a request takes for the installed one: dpkg, the stamp, itself.
CurrentVersions ==
  LET stamped == IF stamp # NoVersion THEN stamp ELSE running
  IN IF kind \in {"linux-package", "windows-store"}
     THEN {IF v # NoVersion THEN v ELSE stamped : v \in PackageVersions}
     ELSE {stamped}

-----------------------------------------------------------------------------
(* A request for the update status.                                           *)

OperationShownNever == FALSE                              \* mutant

OperationShown == kind = "linux-package" /\ Phase \in Shown
RestartNeeded(v) == kind = "linux-package" /\ IsNewer(v, running)
Applied(phase) == IF kind = "linux-package" /\ cur # 0 THEN Phase ELSE phase

AskStatus(r) ==
  /\ pc[r] = "idle"
  /\ \E v \in CurrentVersions :
       loc' = [loc EXCEPT ![r] = [NoLoc EXCEPT !.ver = v]]
  /\ Goto(r, "status")
  /\ UNCHANGED <<world, ops, cur, made, work>>

StatusKnown(r) ==
  /\ pc[r] = "status"
  /\ \/ OperationShown /\ Answer(r, "status", Phase)
     \/ ~OperationShown /\ RestartNeeded(loc[r].ver) /\ Answer(r, "status", "installed")
     \/ kind = "windows-store" /\ Answer(r, "status", "store")
  /\ UNCHANGED <<world, ops, cur, made, work>>

StatusAsksFeeds(r) ==
  /\ pc[r] = "status" /\ kind # "windows-store"
  /\ ~OperationShown /\ ~RestartNeeded(loc[r].ver)
  /\ Goto(r, "status fetch")
  /\ UNCHANGED <<world, ops, cur, made, work, loc>>

\* The operation is looked at again after the lookup, which takes seconds.
StatusFetched(r) ==
  /\ pc[r] = "status fetch"
  /\ \E v \in LatestAnswers(feed, running) :
       \/ /\ v # NoVersion
          /\ Answer(r, "status", Applied(IF IsNewer(v, loc[r].ver) THEN "available" ELSE "current"))
       \/ /\ v = NoVersion
          /\ Answer(r, "status", IF OperationShown THEN Phase ELSE "check_failed")
  /\ UNCHANGED <<world, ops, cur, made, work>>

-----------------------------------------------------------------------------
(* A request to update.                                                       *)

AskUpdate(r) ==
  /\ pc[r] = "idle"
  /\ made + Cardinality({c \in Clients : pc[c] \in {"decide", "direct"}}) < MaxOps
  /\ \E v \in CurrentVersions :
       loc' = [loc EXCEPT ![r] = [NoLoc EXCEPT !.ver = v]]
  /\ Goto(r, IF kind = "linux-package" THEN "decide"
             ELSE IF kind = "windows-direct" THEN "direct" ELSE "hand over")
  /\ UNCHANGED <<world, ops, cur, made, work>>

\* The kinds that leave the update to another program or to a web page.
HandOver(r) ==
  /\ \/ kind \in {"linux-source", "windows-source"} /\ Answer(r, "command", "working")
     \/ kind \in {"mac-package", "source"} /\ Answer(r, "release", "manual")
  /\ UNCHANGED <<world, ops, cur, made, work>>

RunUserUpdate(r) ==
  /\ kind = "linux-user"
  /\ \/ Answer(r, "command", "working")
     \/ "npx" \in Faults /\ Answer(r, "error", "failed")
  /\ UNCHANGED <<world, ops, cur, made, work>>

OpenStore(r) ==
  /\ kind = "windows-store"
  /\ \/ Answer(r, "store", "working")
     \/ "store" \in Faults /\ Answer(r, "error", "failed")
  /\ UNCHANGED <<world, ops, cur, made, work>>

\* The package: one section under the guard decides what the request does.
DecideAnswered(r) ==
  /\ pc[r] = "decide"
  /\ \/ "pkexec" \in Faults /\ Answer(r, "error", "failed")
     \/ cur = 0 /\ RestartNeeded(loc[r].ver) /\ Answer(r, "installed", "installed")
     \/ Phase = "installed" /\ Answer(r, "installed", "installed")
     \/ Phase \in Busy /\ Answer(r, "busy", Phase)
  /\ UNCHANGED <<world, ops, cur, made, work>>

BeginInstall(r) ==
  /\ pc[r] = "decide" /\ Phase = "ready"
  /\ SetPhase("installing")
  /\ inst' = [inst EXCEPT ![cur] = "verify"]
  /\ Answer(r, "working", "installing")
  /\ UNCHANGED <<world, cur, made, load, dirs>>

BeginOperationAgain(r) ==                                             \* mutant
  /\ pc[r] = "decide"
  /\ ~RestartNeeded(loc[r].ver) \/ Phase = "failed"
  /\ made < MaxOps
  /\ made' = made + 1 /\ cur' = made + 1
  /\ ops' = [ops EXCEPT ![made + 1] = FreshOp]
  /\ loc' = [loc EXCEPT ![r].op = made + 1]
  /\ Goto(r, "lookup")
  /\ UNCHANGED <<world, work>>

BeginOperation(r) ==
  /\ pc[r] = "decide"
  /\ \/ cur = 0 /\ ~RestartNeeded(loc[r].ver)
     \/ Phase = "failed"
  /\ made < MaxOps   \* bound
  /\ made' = made + 1 /\ cur' = made + 1
  /\ ops' = [ops EXCEPT ![made + 1] = FreshOp]
  /\ loc' = [loc EXCEPT ![r].op = made + 1]
  /\ Goto(r, "lookup")
  /\ UNCHANGED <<world, work>>

Lookup(r) ==
  /\ pc[r] = "lookup"
  /\ \E v \in LatestAnswers(feed, running) :
       \/ /\ v = NoVersion
          /\ SetFailed /\ Answer(r, "error", "failed") /\ UNCHANGED cur
       \/ /\ v # NoVersion /\ ~IsNewer(v, loc[r].ver)
          /\ ops' = [ops EXCEPT ![loc[r].op].target = v]
          /\ cur' = IF cur = loc[r].op THEN 0 ELSE cur
          /\ Answer(r, "current", "current")
       \/ /\ IsNewer(v, loc[r].ver)
          /\ ops' = [ops EXCEPT ![loc[r].op].target = v]
          /\ loc' = [loc EXCEPT ![r].latest = v]
          /\ Goto(r, "asset") /\ UNCHANGED <<cur>>
  /\ UNCHANGED <<world, made, work>>

\* The file of the release and its digest, from the API or, when that turns
\* the caller away, from the download host.
AssetAnswers == {"asset"} \cup (IF "asset" \in Faults THEN {"none", "no digest"} ELSE {})

FindAsset(r) ==
  /\ pc[r] = "asset"
  /\ \E a \in AssetAnswers :
       \/ a = "asset" /\ Goto(r, "launch") /\ UNCHANGED <<ops, loc>>
       \/ a # "asset" /\ SetFailed /\ Answer(r, "error", "failed")
  /\ UNCHANGED <<world, cur, made, work>>

LaunchWorker(r) ==
  /\ pc[r] = "launch"
  /\ ops' = [ops EXCEPT ![loc[r].op] = [@ EXCEPT !.phase = "downloading", !.target = loc[r].latest]]
  /\ \/ load' = [load EXCEPT ![loc[r].op] = "start"] /\ Goto(r, "report")
     \/ "thread" \in Faults /\ Goto(r, "launch failed") /\ UNCHANGED load
  /\ UNCHANGED <<world, cur, made, loc, inst, dirs>>

LaunchFailed(r) ==
  /\ pc[r] = "launch failed"
  /\ SetFailed /\ Answer(r, "error", "failed")
  /\ UNCHANGED <<world, cur, made, work>>

Report(r) ==
  /\ pc[r] = "report"
  /\ LET p == ops[loc[r].op].phase
     IN Answer(r, IF p = "installed" THEN "installed" ELSE IF p = "failed" THEN "error" ELSE "working", p)
  /\ UNCHANGED <<world, ops, cur, made, work>>

-----------------------------------------------------------------------------
(* The download worker of operation i.                                        *)

LoadStep(i, from, to) == load[i] = from /\ load' = [load EXCEPT ![i] = to]

LoadStart(i) ==
  /\ SetPhase("downloading")
  /\ \/ LoadStep(i, "start", "download") /\ dirs' = [dirs EXCEPT ![i] = "empty"]
     \/ "disk" \in Faults /\ LoadStep(i, "start", "clean") /\ UNCHANGED dirs
  /\ UNCHANGED <<world, cur, made, pc, loc, inst>>

LoadDownload(i) ==
  /\ SetPhase("downloading")   \* the progress of the last chunk
  /\ \/ /\ LoadStep(i, "download", "verify")
        /\ \E c \in {"good", "bad"} : dirs' = [dirs EXCEPT ![i] = c]
     \/ LoadStep(i, "download", "clean") /\ UNCHANGED dirs
  /\ UNCHANGED <<world, cur, made, pc, loc, inst>>

LoadVerify(i) ==
  /\ LoadStep(i, "verify", "digest")
  /\ SetPhase("verifying")
  /\ UNCHANGED <<world, cur, made, pc, loc, inst, dirs>>

DigestMatches(file) == file = "good"

LoadDigest(i) ==
  /\ \/ DigestMatches(dirs[i]) /\ LoadStep(i, "digest", "publish") /\ UNCHANGED dirs
     \/ ~DigestMatches(dirs[i]) /\ LoadStep(i, "digest", "clean") /\ dirs' = [dirs EXCEPT ![i] = "empty"]
  /\ UNCHANGED <<world, ops, cur, made, pc, loc, inst>>

LoadPublish(i) ==
  /\ LoadStep(i, "publish", "none")
  /\ MarkReady(ops[i].target, i)
  /\ UNCHANGED <<world, cur, made, pc, loc, inst, dirs>>

\* The folder goes first, then the failure is published.
LoadCleanLater(i) ==                                                  \* mutant
  /\ LoadStep(i, "clean", "fail")
  /\ UNCHANGED <<world, ops, cur, made, pc, loc, inst, dirs>>

LoadClean(i) ==
  /\ LoadStep(i, "clean", "fail")
  /\ dirs' = [dirs EXCEPT ![i] = "none"]
  /\ UNCHANGED <<world, ops, cur, made, pc, loc, inst>>

LoadFailSilent(i) ==                                                  \* mutant
  /\ LoadStep(i, "fail", "none")
  /\ UNCHANGED <<world, ops, cur, made, pc, loc, inst, dirs>>

LoadFail(i) ==
  /\ LoadStep(i, "fail", "none")
  /\ SetFailed
  /\ UNCHANGED <<world, cur, made, pc, loc, inst, dirs>>

-----------------------------------------------------------------------------
(* The install worker of operation i.                                         *)

InstallStep(i, from, to) == inst[i] = from /\ inst' = [inst EXCEPT ![i] = to]

InstallVerify(i) ==
  /\ \/ /\ InstallStep(i, "verify", "apt")
        /\ DigestMatches(dirs[ops[i].deb]) /\ UNCHANGED ops
     \/ /\ InstallStep(i, "verify", "clean")
        /\ ~DigestMatches(dirs[ops[i].deb]) /\ SetFailed
  /\ UNCHANGED <<world, cur, made, pc, loc, load, dirs>>

\* apt does not downgrade, and takes an installed version for done.
AptResult(v) == IF IsNewer(v, installed) THEN v ELSE installed

InstallApt(i) ==
  /\ \/ /\ InstallStep(i, "apt", "publish")
        /\ dirs[ops[i].deb] = "good" /\ ~IsNewer(installed, ops[i].target)
        /\ installed' = AptResult(ops[i].target) /\ UNCHANGED ops
     \/ InstallStep(i, "apt", "clean") /\ SetFailed /\ UNCHANGED installed
  /\ UNCHANGED <<kind, running, stamp, feed, gone, apt, restarts>>
  /\ UNCHANGED <<cur, made, pc, loc, load, dirs>>

InstallPublish(i) ==
  /\ InstallStep(i, "publish", "clean")
  /\ stamp' \in {ops[i].target} \cup (IF "stamp" \in Faults THEN {stamp} ELSE {})
  /\ SetPhase("installed")
  /\ UNCHANGED <<kind, running, installed, feed, gone, apt, restarts>>
  /\ UNCHANGED <<cur, made, pc, loc, load, dirs>>

InstallClean(i) ==
  /\ InstallStep(i, "clean", "none")
  /\ dirs' = [dirs EXCEPT ![ops[i].deb] = "none"]
  /\ UNCHANGED <<world, ops, cur, made, pc, loc, load>>

-----------------------------------------------------------------------------
(* The direct Windows build downloads and starts the installer in the thread  *)
(* of the request; nothing keeps two requests apart.                          *)

DirectLookup(r) ==
  /\ pc[r] = "direct"
  /\ \E v \in LatestAnswers(feed, running) :
       \/ v = NoVersion /\ Answer(r, "error", "failed") /\ UNCHANGED <<made, dirs>>
       \/ v # NoVersion /\ ~IsNewer(v, loc[r].ver) /\ Answer(r, "current", "current") /\ UNCHANGED <<made, dirs>>
       \/ /\ IsNewer(v, loc[r].ver) /\ AssetAnswers # {"asset"}
          /\ Answer(r, "error", "failed") /\ UNCHANGED <<made, dirs>>
       \/ /\ IsNewer(v, loc[r].ver) /\ made < MaxOps   \* bound
          /\ made' = made + 1 /\ dirs' = [dirs EXCEPT ![made + 1] = "empty"]
          /\ loc' = [loc EXCEPT ![r] = [@ EXCEPT !.op = made + 1, !.latest = v]]
          /\ Goto(r, "direct download") 
  /\ UNCHANGED <<world, ops, cur, load, inst>>

DirectDownload(r) ==
  /\ pc[r] = "direct download"
  /\ \/ /\ \E c \in {"good", "bad"} : dirs' = [dirs EXCEPT ![loc[r].op] = c]
        /\ Goto(r, "direct verify") /\ UNCHANGED <<loc>>
     \/ dirs' = [dirs EXCEPT ![loc[r].op] = "none"] /\ Answer(r, "error", "failed")
  /\ UNCHANGED <<world, ops, cur, made, load, inst>>

DirectRun(r) ==
  /\ pc[r] = "direct verify"
  /\ \/ /\ DigestMatches(dirs[loc[r].op])
        /\ dirs' = [dirs EXCEPT ![loc[r].op] = IF @ = "good" THEN "running" ELSE "running bad"]
        /\ Answer(r, "installer", "working")
     \/ /\ ~DigestMatches(dirs[loc[r].op]) \/ "run" \in Faults
        /\ dirs' = [dirs EXCEPT ![loc[r].op] = "none"]
        /\ Answer(r, "error", "failed")
  /\ UNCHANGED <<world, ops, cur, made, load, inst>>

-----------------------------------------------------------------------------
(* The world around the engine.                                               *)

\* A cleaner of temporary files takes the package that waits for its install.
PackageLost(i) ==
  /\ "lost" \in Faults /\ dirs[i] = "good" /\ load[i] = "none" /\ i > gone
  /\ dirs' = [dirs EXCEPT ![i] = "lost"]
  /\ UNCHANGED <<world, ops, cur, made, pc, loc, load, inst>>

\* apt, the store or a setup program behind the application's back.
OtherInstall ==
  /\ \E v \in Versions : IsNewer(v, installed) /\ installed' = v
  /\ UNCHANGED <<kind, running, stamp, feed, gone, apt, restarts>>
  /\ UNCHANGED <<ops, cur, made, pc, loc, work>>

\* The engine ends at any step, its threads with it; a package manager it
\* started goes on.  The next engine runs the installed version.
EngineRestart ==
  /\ restarts < MaxRestarts
  /\ restarts' = restarts + 1
  /\ apt' = apt \cup {ops[i].target : i \in {j \in Ids : inst[j] = "apt"}}
  /\ running' = installed /\ gone' = made /\ cur' = 0
  /\ pc' = [r \in Clients |-> "idle"] /\ loc' = [r \in Clients |-> NoLoc]
  /\ load' = [i \in Ids |-> "none"] /\ inst' = [i \in Ids |-> "none"]
  /\ UNCHANGED <<kind, installed, stamp, feed, ops, made, dirs>>

AptFinishes ==
  /\ \E v \in apt : apt' = apt \ {v} /\ installed' \in {installed, AptResult(v)}
  /\ UNCHANGED <<kind, running, stamp, feed, gone, restarts>>
  /\ UNCHANGED <<ops, cur, made, pc, loc, work>>

-----------------------------------------------------------------------------
Request(r) ==
  \/ StatusKnown(r) \/ StatusAsksFeeds(r) \/ StatusFetched(r)
  \/ pc[r] = "hand over" /\ (HandOver(r) \/ RunUserUpdate(r) \/ OpenStore(r))
  \/ DecideAnswered(r) \/ BeginInstall(r) \/ BeginOperation(r)
  \/ Lookup(r) \/ FindAsset(r) \/ LaunchWorker(r) \/ LaunchFailed(r) \/ Report(r)
  \/ DirectLookup(r) \/ DirectDownload(r) \/ DirectRun(r)

Worker(i) == answer' = NoAnswer /\ (
  \/ LoadStart(i) \/ LoadDownload(i) \/ LoadVerify(i) \/ LoadDigest(i)
  \/ LoadPublish(i) \/ LoadClean(i) \/ LoadFail(i)
  \/ InstallVerify(i) \/ InstallApt(i) \/ InstallPublish(i) \/ InstallClean(i))

World == answer' = NoAnswer /\ (OtherInstall \/ EngineRestart \/ AptFinishes)

Next ==
  \/ \E r \in Clients : AskStatus(r) \/ AskUpdate(r) \/ Request(r)
  \/ \E i \in Ids : Worker(i) \/ (PackageLost(i) /\ answer' = NoAnswer)
  \/ World

Spec == Init /\ [][Next]_vars

(* Threads run; lookups and downloads have timeouts, the password prompt of   *)
(* the package manager is answered or closed.                                 *)
FairSpec ==
  /\ Spec
  /\ \A r \in Clients : WF_vars(Request(r))
  /\ \A i \in Ids : WF_vars(Worker(i))

-----------------------------------------------------------------------------
Requests == {"idle", "status", "status fetch", "hand over", "decide", "lookup", "asset", "launch",
             "launch failed", "report", "direct", "direct download", "direct verify"}
OpPhases == Busy \cup {"ready", "failed", "installed"}

LoadSteps == {"none", "start", "download", "verify", "digest", "publish", "clean", "fail"}
InstallSteps == {"none", "verify", "apt", "publish", "clean"}
Files == {"none", "empty", "good", "bad", "lost", "running", "running bad"}

\* The shape of the operation, of the requests and of the workers.
TypeOK ==
  /\ running \in Versions /\ installed \in Versions /\ stamp \in SomeVersion
  /\ feed \in FeedStates /\ apt \subseteq SomeVersion
  /\ made \in 0..MaxOps /\ cur \in 0..made /\ gone \in 0..made
  /\ ops \in [Ids -> [phase : OpPhases, target : SomeVersion, deb : 0..MaxOps]]
  /\ pc \in [Clients -> Requests]
  /\ loc \in [Clients -> [op : 0..MaxOps, ver : SomeVersion, latest : SomeVersion]]
  /\ load \in [Ids -> LoadSteps] /\ inst \in [Ids -> InstallSteps] /\ dirs \in [Ids -> Files]

(* The threads that will still set the phase of an operation: a request       *)
(* until it has started its worker, a worker until it has published its end.  *)
Actors ==
  {<<"request", r>> : r \in {c \in Clients : pc[c] \in {"lookup", "asset", "launch", "launch failed"}}}
    \cup {<<"load", i>> : i \in {j \in Ids : load[j] # "none"}}
    \cup {<<"install", i>> : i \in {j \in Ids : inst[j] \notin {"none", "clean"}}}
OperationOf(a) == IF a[1] = "request" THEN loc[a[2]].op ELSE a[2]

(* Phases and failures are written to whatever operation is current           *)
(* (_linux_package_set_phase, _set_failed, _mark_ready).  That is right only  *)
(* because a thread that still writes works for the current operation, and    *)
(* no two of them work at the same time.                                      *)
(* A phase that turns requests away as "already in progress" has such a       *)
(* thread.                                                                    *)
OwnOperation ==
  /\ \A a \in Actors : cur # 0 /\ OperationOf(a) = cur
  /\ \A a, b \in Actors : a = b
  /\ Phase \in Busy <=> Actors # {}

(* A folder of this engine belongs to a thread at work or to the package that *)
(* waits for its install; in particular a failure shows after the clean-up.   *)
NoLeftovers ==
  \A i \in Ids : i > gone /\ dirs[i] \notin {"none", "running"} =>
    \/ load[i] \notin {"none", "fail"}
    \/ \E j \in Ids : inst[j] # "none" /\ ops[j].deb = i
    \/ Phase = "ready" /\ ops[cur].deb = i
    \/ \E r \in Clients : pc[r] \in {"direct download", "direct verify"} /\ loc[r].op = i

(* Nothing but a file with the published digest reaches the package manager   *)
(* or is run, however long it waited between the download and the install.    *)
OnlyVerified ==
  /\ \A i \in Ids : dirs[i] # "running bad"
  /\ \A i \in Ids : inst[i] = "apt" => dirs[ops[i].deb] \notin {"bad", "empty"}

(* What the package folders hold and who they belong to.                      *)
PackageFiles == NoLeftovers /\ OnlyVerified

(* "Never offer a Beta user something older than stable"                      *)
(* (_fetch_latest_unstable): whatever the two feeds say and whichever of them *)
(* fails.                                                                     *)
BetaNotBehindStable ==
  \A s \in StableAnswers(feed) \ {NoVersion}, u \in {feed.unstable, NoVersion} :
    LET v == ChooseUnstable(s, u)
    IN v # NoVersion /\ ~IsNewer(s, v) /\ (u # NoVersion => ~IsNewer(u, v))

(* A status that is asked for while the operation changes shows it: the       *)
(* lookup takes seconds, so the operation is looked at again after it.        *)
StatusShowsOperation ==
  answer.mode = "status" /\ kind = "linux-package" /\ Phase \in Shown => answer.phase = Phase

(* The window restarts the application when it hears "installed" after the    *)
(* user confirmed.  That ends: the restarted engine is a newer one, unless    *)
(* dpkg did not answer and an old stamp had the running version installed.    *)
RestartHelps ==
  answer.phase = "installed" =>
    \/ IsNewer(installed, running)
    \/ "dpkg" \in Faults /\ Phase = "installed" /\ ~IsNewer(ops[cur].target, running)

(* What the status offers for an install kind (_available_actions) is what a  *)
(* request to update does for it (start_update_flow): the two lists of kinds  *)
(* are kept apart.                                                            *)
OfferIsKept ==
  /\ answer.mode = "store" => AvailableActions(kind) = "open_store"
  /\ answer.mode = "release" => AvailableActions(kind) = "open_release"
  /\ answer.mode \in {"command", "installer", "working", "busy", "installed", "current"}
       => AvailableActions(kind) = "update"

(* What the window is told is so.                                             *)
AnswersTrue == BetaNotBehindStable /\ StatusShowsOperation /\ RestartHelps /\ OfferIsKept

(* No phase is busy for ever (FairSpec): an update that is "already in        *)
(* progress" for whoever asks ends.                                           *)
BusyEnds == Phase \in Busy ~> Phase \notin Busy

-----------------------------------------------------------------------------
(* The life of an update as a user sees it.                                   *)
Stage ==
  IF Phase \in {"preparing", "downloading", "verifying"} THEN "fetching" ELSE Phase
Offered == IF Stage \in {"ready", "installing", "installed"} THEN ops[cur].target ELSE NoVersion
Life == INSTANCE UpdateLife WITH stage <- Stage, target <- Offered

(* One update at a time, from the request to the installed package: what was  *)
(* offered is what is installed, and no late failure of an older thread       *)
(* withdraws it.                                                              *)
ImplementsLife == Life!Spec

=============================================================================
