---------------------------- MODULE UpdateProofs ----------------------------
(* Theorems about UpdateFlow, for any number of clients, versions, feeds,     *)
(* faults, operations and restarts.                                           *)
EXTENDS UpdateFlow, WellFoundedInduction, TLAPS

Fetching == {"preparing", "downloading", "verifying"}
Fetchers == {"lookup", "asset", "launch", "launch failed"}
AtWork == {"verify", "apt", "publish"}

-----------------------------------------------------------------------------
(* Versions: whatever a lookup, dpkg or apt answers is a version.             *)

LEMMA NewerIsVersion ==
  ASSUME NEW v \in SomeVersion, NEW w, IsNewer(v, w)
  PROVE  v \in Versions
  BY DEF SomeVersion, IsNewer

LEMMA LookupAnswers ==
  ASSUME NEW f \in FeedStates, NEW e, NEW v \in LatestAnswers(f, e)
  PROVE  v \in SomeVersion
<1>1. f \in [npm : SomeVersion, unstable : SomeVersion, release : SomeVersion, tag : SomeVersion]
  BY UpdateAssumption
<1>2. StableAnswers(f) \subseteq SomeVersion
  BY <1>1 DEF StableAnswers, SomeVersion
<1>3. ASSUME NEW s \in StableAnswers(f), NEW u \in {f.unstable, NoVersion}
      PROVE  ChooseUnstable(s, u) \in SomeVersion
  BY <1>1, <1>2 DEF ChooseUnstable, SomeVersion
<1>. QED  BY <1>2, <1>3 DEF LatestAnswers

LEMMA CurrentVersion ==
  ASSUME TypeOK, NEW v \in CurrentVersions
  PROVE  v \in SomeVersion
  BY DEF TypeOK, CurrentVersions, PackageVersions, SomeVersion

LEMMA AptAnswers ==
  ASSUME TypeOK, NEW v \in SomeVersion
  PROVE  AptResult(v) \in Versions
  BY NewerIsVersion DEF TypeOK, AptResult

-----------------------------------------------------------------------------
(* The order of versions: strict, total and transitive.                       *)

Part == {0, 1} \X Nat
Pre == Seq(Part)

LEMMA Least ==
  ASSUME NEW S \in SUBSET Nat, S # {}
  PROVE  \E n \in S : \A m \in S : n <= m
<1>1. PICK n \in S : \A m \in S : <<m, n>> \notin OpToRel(<, Nat)
  BY WFMin, NatLessThanWellFounded, Zenon
<1>2. \A m \in S : ~ (m < n)
  BY <1>1, Zenon DEF OpToRel
<1>. QED  BY <1>2

LEMMA PartOrder ==
  ASSUME NEW l \in Part, NEW r \in Part
  PROVE  /\ l = r \/ PartNewer(l, r) \/ PartNewer(r, l)
         /\ PartNewer(l, r) => l # r /\ ~PartNewer(r, l)
         /\ \A q \in Part : PartNewer(l, r) /\ PartNewer(r, q) => PartNewer(l, q)
  BY DEF Part, PartNewer

LEMMA PreParts ==
  ASSUME NEW l \in Pre
  PROVE  Len(l) \in Nat /\ \A i \in 1..Len(l) : l[i] \in Part
  BY DEF Pre

LEMMA SamePre ==
  ASSUME NEW l \in Pre, NEW r \in Pre, Len(l) = Len(r), \A i \in 1..Len(l) : l[i] = r[i]
  PROVE  l = r
  BY DEF Pre

\* The part at which l is newer than r: the first that differs, or the first
\* that r does not have.
Beats(l, r, i) ==
  /\ i \in 1..Len(l) /\ i <= Len(r) + 1
  /\ \A j \in 1..(i - 1) : l[j] = r[j]
  /\ i <= Len(r) => PartNewer(l[i], r[i])

LEMMA PreNewerBeats ==
  ASSUME NEW l \in Pre, NEW r \in Pre
  PROVE  PreNewer(l, r) <=> \E i \in Nat : Beats(l, r, i)
<1>. DEFINE Differ == {i \in 1..Len(l) : i <= Len(r) /\ l[i] # r[i]}
<1>1. Len(l) \in Nat /\ Len(r) \in Nat
  BY PreParts
<1>2. CASE Differ = {}
  <2>1. PreNewer(l, r) <=> Len(l) > Len(r)
    BY <1>2 DEF PreNewer
  <2>2. ASSUME Len(l) > Len(r) PROVE Beats(l, r, Len(r) + 1)
    BY <1>1, <1>2, <2>2 DEF Beats
  <2>3. ASSUME NEW i \in Nat, Beats(l, r, i) PROVE Len(l) > Len(r)
    <3>1. i > Len(r)
      <4>1. SUFFICES ASSUME i <= Len(r) PROVE FALSE
        BY <1>1
      <4>2. i \in 1..Len(l) /\ i \in 1..Len(r) /\ PartNewer(l[i], r[i])
        BY <1>1, <2>3, <4>1 DEF Beats
      <4>3. l[i] # r[i]
        BY <4>2, PartOrder, PreParts
      <4>4. i \in Differ
        BY <4>1, <4>2, <4>3
      <4>. QED  BY <1>2, <4>4
    <3>. QED  BY <1>1, <2>3, <3>1 DEF Beats
  <2>4. Len(r) + 1 \in Nat
    BY <1>1
  <2>. QED  BY <2>1, <2>2, <2>3, <2>4
<1>3. CASE Differ # {}
  <2>1. PreNewer(l, r) <=> \E i \in Differ : (\A j \in Differ : i <= j) /\ PartNewer(l[i], r[i])
    BY <1>3 DEF PreNewer
  <2>2. ASSUME NEW i \in Differ, \A j \in Differ : i <= j, PartNewer(l[i], r[i])
        PROVE  i \in Nat /\ Beats(l, r, i)
    <3>1. i \in 1..Len(l) /\ i <= Len(r)
      OBVIOUS
    <3>2. \A j \in 1..(i - 1) : j \in 1..Len(l) /\ j <= Len(r) /\ j < i
      BY <1>1, <3>1
    <3>3. \A j \in 1..(i - 1) : j \notin Differ
      BY <1>1, <2>2, <3>1, <3>2
    <3>4. \A j \in 1..(i - 1) : l[j] = r[j]
      BY <3>2, <3>3
    <3>. QED  BY <1>1, <2>2, <3>1, <3>4 DEF Beats
  <2>3. ASSUME NEW i \in Nat, Beats(l, r, i)
        PROVE  i \in Differ /\ (\A j \in Differ : i <= j) /\ PartNewer(l[i], r[i])
    <3>1. \A j \in Differ : j \in 1..Len(l) /\ j <= Len(r) /\ l[j] # r[j]
      OBVIOUS
    <3>2. \A j \in Differ : i <= j
      BY <1>1, <2>3, <3>1 DEF Beats
    <3>3. i <= Len(r)
      BY <1>1, <1>3, <3>1, <3>2
    <3>4. i \in 1..Len(l) /\ i \in 1..Len(r) /\ PartNewer(l[i], r[i])
      BY <1>1, <2>3, <3>3 DEF Beats
    <3>5. l[i] # r[i]
      BY <3>4, PartOrder, PreParts
    <3>. QED  BY <3>2, <3>3, <3>4, <3>5
  <2>. QED  BY <2>1, <2>2, <2>3
<1>. QED  BY <1>2, <1>3

LEMMA PreStrict ==
  ASSUME NEW l \in Pre, NEW r \in Pre, PreNewer(l, r)
  PROVE  l # r /\ ~PreNewer(r, l)
<1>0. Len(l) \in Nat /\ Len(r) \in Nat
  BY PreParts
<1>1. PICK i \in Nat : Beats(l, r, i)
  BY PreNewerBeats
<1>2. ASSUME NEW k \in Nat, Beats(r, l, k)
      PROVE  FALSE
  <2>1. CASE i < k
    <3>1. r[i] = l[i] /\ i \in 1..Len(l) /\ i \in 1..Len(r) /\ PartNewer(l[i], r[i])
      BY <1>0, <1>1, <1>2, <2>1 DEF Beats
    <3>. QED  BY <3>1, PartOrder, PreParts
  <2>2. CASE k < i
    <3>1. r[k] = l[k] /\ k \in 1..Len(l) /\ k \in 1..Len(r) /\ PartNewer(r[k], l[k])
      BY <1>0, <1>1, <1>2, <2>2 DEF Beats
    <3>. QED  BY <3>1, PartOrder, PreParts
  <2>3. CASE k = i
    <3>1. i \in 1..Len(l) /\ i \in 1..Len(r) /\ PartNewer(l[i], r[i]) /\ PartNewer(r[i], l[i])
      BY <1>0, <1>1, <1>2, <2>3 DEF Beats
    <3>. QED  BY <3>1, PartOrder, PreParts
  <2>. QED  BY <2>1, <2>2, <2>3
<1>3. ~PreNewer(r, l)
  BY <1>2, PreNewerBeats
<1>. QED  BY <1>3

LEMMA PreTransitive ==
  ASSUME NEW a \in Pre, NEW b \in Pre, NEW c \in Pre, PreNewer(a, b), PreNewer(b, c)
  PROVE  PreNewer(a, c)
<1>0. Len(a) \in Nat /\ Len(b) \in Nat /\ Len(c) \in Nat
  BY PreParts
<1>1. PICK i \in Nat : Beats(a, b, i)
  BY PreNewerBeats
<1>2. PICK k \in Nat : Beats(b, c, k)
  BY PreNewerBeats
<1>3. CASE i < k
  <2>1. i \in 1..Len(a) /\ i <= Len(b) /\ i <= Len(c) /\ PartNewer(a[i], b[i]) /\ b[i] = c[i]
    BY <1>0, <1>1, <1>2, <1>3 DEF Beats
  <2>2. \A j \in 1..(i - 1) : a[j] = c[j]
    BY <1>0, <1>1, <1>2, <1>3 DEF Beats
  <2>3. Beats(a, c, i)
    BY <1>0, <2>1, <2>2 DEF Beats
  <2>. QED  BY <2>3, PreNewerBeats
<1>4. CASE k < i
  <2>1. k \in 1..Len(a) /\ k <= Len(c) + 1 /\ a[k] = b[k] /\ (k <= Len(c) => PartNewer(b[k], c[k]))
    BY <1>0, <1>1, <1>2, <1>4 DEF Beats
  <2>2. \A j \in 1..(k - 1) : a[j] = c[j]
    BY <1>0, <1>1, <1>2, <1>4 DEF Beats
  <2>3. Beats(a, c, k)
    BY <1>0, <2>1, <2>2 DEF Beats
  <2>. QED  BY <2>3, PreNewerBeats
<1>5. CASE k = i
  <2>1. i \in 1..Len(a) /\ i \in 1..Len(b) /\ PartNewer(a[i], b[i]) /\ i <= Len(c) + 1
    BY <1>0, <1>1, <1>2, <1>5 DEF Beats
  <2>2. ASSUME i <= Len(c) PROVE PartNewer(a[i], c[i])
    <3>1. i \in 1..Len(c) /\ PartNewer(b[i], c[i])
      BY <1>0, <1>2, <1>5, <2>1, <2>2 DEF Beats
    <3>2. a[i] \in Part /\ b[i] \in Part /\ c[i] \in Part
      BY <2>1, <3>1, PreParts
    <3>. QED  BY <2>1, <3>1, <3>2, PartOrder
  <2>3. \A j \in 1..(i - 1) : a[j] = c[j]
    BY <1>0, <1>1, <1>2, <1>5 DEF Beats
  <2>4. Beats(a, c, i)
    BY <2>1, <2>2, <2>3 DEF Beats
  <2>. QED  BY <2>4, PreNewerBeats
<1>. QED  BY <1>3, <1>4, <1>5

LEMMA PreTotal ==
  ASSUME NEW l \in Pre, NEW r \in Pre
  PROVE  l = r \/ PreNewer(l, r) \/ PreNewer(r, l)
<1>. DEFINE Differ == {i \in 1..Len(l) : i <= Len(r) /\ l[i] # r[i]}
<1>0. Len(l) \in Nat /\ Len(r) \in Nat
  BY PreParts
<1>1. CASE Differ = {}
  <2>1. \A i \in 1..Len(l) : i <= Len(r) => l[i] = r[i]
    BY <1>1
  <2>2. CASE Len(l) = Len(r)
    BY <1>0, <2>1, <2>2, SamePre
  <2>3. CASE Len(l) > Len(r)
    <3>1. Beats(l, r, Len(r) + 1)
      BY <1>0, <2>1, <2>3 DEF Beats
    <3>. QED  BY <1>0, <3>1, PreNewerBeats
  <2>4. CASE Len(l) < Len(r)
    <3>1. Beats(r, l, Len(l) + 1)
      BY <1>0, <2>1, <2>4 DEF Beats
    <3>. QED  BY <1>0, <3>1, PreNewerBeats
  <2>. QED  BY <1>0, <2>2, <2>3, <2>4
<1>2. CASE Differ # {}
  <2>1. Differ \in SUBSET Nat
    OBVIOUS
  <2>2. PICK i \in Differ : \A j \in Differ : i <= j
    BY <1>2, <2>1, Least
  <2>3. i \in 1..Len(l) /\ i \in 1..Len(r) /\ l[i] # r[i]
    BY <1>0
  <2>4. \A j \in 1..(i - 1) : j \in 1..Len(l) /\ j <= Len(r) /\ j < i
    BY <1>0, <2>3
  <2>5. \A j \in 1..(i - 1) : l[j] = r[j]
    BY <1>0, <2>2, <2>3, <2>4
  <2>6. PartNewer(l[i], r[i]) \/ PartNewer(r[i], l[i])
    BY <2>3, PartOrder, PreParts
  <2>7. Beats(l, r, i) \/ Beats(r, l, i)
    BY <1>0, <2>3, <2>5, <2>6 DEF Beats
  <2>. QED  BY <2>3, <2>7, PreNewerBeats
<1>. QED  BY <1>1, <1>2

LEMMA VersionParts ==
  ASSUME NEW v \in Versions
  PROVE  v.base \in Nat /\ v.pre \in Pre /\ v = [base |-> v.base, pre |-> v.pre] /\ v # NoVersion
  BY UpdateAssumption DEF AnyVersion, Pre, Part

\* A comparison is strict ...
LEMMA NewerStrict ==
  ASSUME NEW a \in SomeVersion, NEW b \in SomeVersion, IsNewer(a, b)
  PROVE  a \in Versions /\ b \in Versions /\ a # b /\ ~IsNewer(b, a)
<1>1. a \in Versions /\ b \in Versions
  BY DEF IsNewer, SomeVersion
<1>2. a.base \in Nat /\ b.base \in Nat /\ a.pre \in Pre /\ b.pre \in Pre
  BY <1>1, VersionParts
<1>3. a.base > b.base \/ (a.base = b.base /\ PreNewer(a.pre, b.pre))
  BY <1>2 DEF IsNewer
<1>4. ~ (b.base = a.base /\ PreNewer(b.pre, a.pre)) \/ a.base # b.base
  BY <1>2, <1>3, PreStrict
<1>5. PreNewer(a.pre, b.pre) => a.pre # b.pre
  BY <1>2, PreStrict
<1>. QED  BY <1>1, <1>2, <1>3, <1>4, <1>5 DEF IsNewer

\* ... transitive ...
LEMMA NewerTransitive ==
  ASSUME NEW a \in SomeVersion, NEW b \in SomeVersion, NEW c \in SomeVersion, IsNewer(a, b), IsNewer(b, c)
  PROVE  IsNewer(a, c)
<1>1. a \in Versions /\ b \in Versions /\ c \in Versions
  BY NewerStrict
<1>2. /\ a.base \in Nat /\ b.base \in Nat /\ c.base \in Nat
      /\ a.pre \in Pre /\ b.pre \in Pre /\ c.pre \in Pre
      /\ a # NoVersion /\ c # NoVersion
  BY <1>1, VersionParts
<1>3. a.base > b.base \/ (a.base = b.base /\ PreNewer(a.pre, b.pre))
  BY <1>2 DEF IsNewer
<1>4. b.base > c.base \/ (b.base = c.base /\ PreNewer(b.pre, c.pre))
  BY <1>2 DEF IsNewer
<1>5. PreNewer(a.pre, b.pre) /\ PreNewer(b.pre, c.pre) => PreNewer(a.pre, c.pre)
  BY <1>2, PreTransitive
<1>6. a.base > c.base \/ (a.base = c.base /\ PreNewer(a.pre, c.pre))
  BY <1>2, <1>3, <1>4, <1>5
<1>. QED  BY <1>2, <1>6 DEF IsNewer

\* ... and total.
LEMMA NewerTotal ==
  ASSUME NEW a \in Versions, NEW b \in Versions
  PROVE  a = b \/ IsNewer(a, b) \/ IsNewer(b, a)
<1>1. /\ a.base \in Nat /\ b.base \in Nat /\ a.pre \in Pre /\ b.pre \in Pre
      /\ a # NoVersion /\ b # NoVersion
  BY VersionParts
<1>2. a.base = b.base /\ a.pre = b.pre => a = b
  BY VersionParts
<1>3. a.pre = b.pre \/ PreNewer(a.pre, b.pre) \/ PreNewer(b.pre, a.pre)
  BY <1>1, PreTotal
<1>. QED  BY <1>1, <1>2, <1>3 DEF IsNewer

-----------------------------------------------------------------------------
(* Types.                                                                     *)

LEMMA TypeInit == Init => TypeOK
  BY UpdateAssumption DEF Init, TypeOK, SomeVersion, FreshOp, NoLoc, Requests, OpPhases, Busy,
     LoadSteps, InstallSteps, Files, Ids

LEMMA SetPhaseType ==
  ASSUME TypeOK, NEW phase \in OpPhases, SetPhase(phase)
  PROVE  ops' \in [Ids -> [phase : OpPhases, target : SomeVersion, deb : 0..MaxOps]]
  BY UpdateAssumption DEF TypeOK, SetPhase, Ids

LEMMA AnswerType ==
  ASSUME TypeOK, NEW r \in Clients, NEW m, NEW p, Answer(r, m, p)
  PROVE  /\ pc' \in [Clients -> Requests]
         /\ loc' \in [Clients -> [op : 0..MaxOps, ver : SomeVersion, latest : SomeVersion]]
<1>1. NoLoc \in [op : 0..MaxOps, ver : SomeVersion, latest : SomeVersion]
  BY UpdateAssumption DEF NoLoc, SomeVersion
<1>2. "idle" \in Requests
  BY DEF Requests
<1>. QED  BY <1>1, <1>2 DEF TypeOK, Answer

LEMMA GotoType ==
  ASSUME TypeOK, NEW r \in Clients, NEW l \in Requests, Goto(r, l)
  PROVE  pc' \in [Clients -> Requests]
  BY DEF TypeOK, Goto

LEMMA AskType ==
  ASSUME TypeOK, NEW r \in Clients, AskStatus(r) \/ AskUpdate(r)
  PROVE  TypeOK'
<1>1. PICK v \in CurrentVersions : loc' = [loc EXCEPT ![r] = [NoLoc EXCEPT !.ver = v]]
  BY DEF AskStatus, AskUpdate
<1>2. [NoLoc EXCEPT !.ver = v] \in [op : 0..MaxOps, ver : SomeVersion, latest : SomeVersion]
  BY CurrentVersion, UpdateAssumption DEF NoLoc, SomeVersion
<1>3. loc' \in [Clients -> [op : 0..MaxOps, ver : SomeVersion, latest : SomeVersion]]
  BY <1>1, <1>2 DEF TypeOK
<1>4. \E l \in {"status", "decide", "direct", "hand over"} : Goto(r, l)
  BY DEF AskStatus, AskUpdate
<1>5. pc' \in [Clients -> Requests]
  BY <1>4, GotoType DEF Requests
<1>. QED  BY <1>3, <1>5 DEF TypeOK, AskStatus, AskUpdate, world, work

\* The requests that only answer.
LEMMA AnsweredType ==
  ASSUME TypeOK, NEW r \in Clients, NEW m, NEW p, Answer(r, m, p),
         UNCHANGED <<world, ops, cur, made, work>>
  PROVE  TypeOK'
  BY AnswerType DEF TypeOK, world, work

LEMMA StatusType ==
  ASSUME TypeOK, NEW r \in Clients, StatusKnown(r) \/ StatusAsksFeeds(r) \/ StatusFetched(r)
  PROVE  TypeOK'
<1>1. CASE StatusKnown(r)
  BY <1>1, AnsweredType DEF StatusKnown
<1>2. CASE StatusAsksFeeds(r)
  <2>1. pc' \in [Clients -> Requests]
    BY <1>2, GotoType DEF StatusAsksFeeds, Requests
  <2>. QED  BY <1>2, <2>1 DEF StatusAsksFeeds, TypeOK, world, work
<1>3. CASE StatusFetched(r)
  BY <1>3, AnsweredType DEF StatusFetched
<1>. QED  BY <1>1, <1>2, <1>3

LEMMA HandOverType ==
  ASSUME TypeOK, NEW r \in Clients, HandOver(r) \/ RunUserUpdate(r) \/ OpenStore(r) \/ DecideAnswered(r)
  PROVE  TypeOK'
  BY AnsweredType DEF HandOver, RunUserUpdate, OpenStore, DecideAnswered

LEMMA BeginInstallType ==
  ASSUME TypeOK, NEW r \in Clients, BeginInstall(r)
  PROVE  TypeOK'
<1>1. ops' \in [Ids -> [phase : OpPhases, target : SomeVersion, deb : 0..MaxOps]]
  BY SetPhaseType DEF BeginInstall, OpPhases, Busy
<1>2. inst' \in [Ids -> InstallSteps]
  BY DEF BeginInstall, TypeOK, InstallSteps
<1>. QED  BY <1>1, <1>2, AnswerType DEF BeginInstall, TypeOK, world

LEMMA BeginOperationType ==
  ASSUME TypeOK, NEW r \in Clients, BeginOperation(r)
  PROVE  TypeOK'
<1>1. /\ made + 1 \in 1..MaxOps /\ made' = made + 1 /\ cur' = made + 1
      /\ gone \in 0..made'
  BY UpdateAssumption DEF BeginOperation, TypeOK
<1>2. FreshOp \in [phase : OpPhases, target : SomeVersion, deb : 0..MaxOps]
  BY UpdateAssumption DEF FreshOp, OpPhases, Busy, SomeVersion
<1>3. ops' \in [Ids -> [phase : OpPhases, target : SomeVersion, deb : 0..MaxOps]]
  BY <1>2 DEF BeginOperation, TypeOK
<1>4. loc' \in [Clients -> [op : 0..MaxOps, ver : SomeVersion, latest : SomeVersion]]
  BY <1>1, UpdateAssumption DEF BeginOperation, TypeOK
<1>5. pc' \in [Clients -> Requests]
  BY GotoType DEF BeginOperation, Requests
<1>. QED  BY <1>1, <1>3, <1>4, <1>5 DEF BeginOperation, TypeOK, world, work

LEMMA LookupType ==
  ASSUME TypeOK, NEW r \in Clients, Lookup(r)
  PROVE  TypeOK'
<1>1. UNCHANGED <<world, made, work>>
  BY DEF Lookup
<1>2. CASE SetFailed /\ Answer(r, "error", "failed") /\ UNCHANGED cur
  BY <1>1, <1>2, SetPhaseType, AnswerType DEF SetFailed, OpPhases, TypeOK, world, work
<1>3. ASSUME NEW v \in SomeVersion, ops' = [ops EXCEPT ![loc[r].op].target = v]
      PROVE  ops' \in [Ids -> [phase : OpPhases, target : SomeVersion, deb : 0..MaxOps]]
  BY <1>3 DEF TypeOK
<1>4. ASSUME NEW v \in SomeVersion, ops' = [ops EXCEPT ![loc[r].op].target = v],
             cur' = IF cur = loc[r].op THEN 0 ELSE cur, Answer(r, "current", "current")
      PROVE  TypeOK'
  <2>1. cur' \in 0..made
    BY <1>4 DEF TypeOK
  <2>. QED  BY <1>1, <1>3, <1>4, <2>1, AnswerType DEF TypeOK, world, work
<1>5. ASSUME NEW v \in SomeVersion, ops' = [ops EXCEPT ![loc[r].op].target = v],
             loc' = [loc EXCEPT ![r].latest = v], Goto(r, "asset"), UNCHANGED cur
      PROVE  TypeOK'
  <2>1. loc' \in [Clients -> [op : 0..MaxOps, ver : SomeVersion, latest : SomeVersion]]
    BY <1>5 DEF TypeOK
  <2>2. pc' \in [Clients -> Requests]
    BY <1>5, GotoType DEF Requests
  <2>. QED  BY <1>1, <1>3, <1>5, <2>1, <2>2 DEF TypeOK, world, work
<1>6. feed \in FeedStates
  BY DEF TypeOK
<1>. QED  BY <1>2, <1>4, <1>5, <1>6, LookupAnswers DEF Lookup

LEMMA FindAssetType ==
  ASSUME TypeOK, NEW r \in Clients, FindAsset(r)
  PROVE  TypeOK'
<1>1. CASE Goto(r, "launch") /\ UNCHANGED <<ops, loc>>
  <2>1. pc' \in [Clients -> Requests]
    BY <1>1, GotoType DEF Requests
  <2>. QED  BY <1>1, <2>1 DEF FindAsset, TypeOK, world, work
<1>2. CASE SetFailed /\ Answer(r, "error", "failed")
  BY <1>2, SetPhaseType, AnswerType DEF FindAsset, SetFailed, OpPhases, TypeOK, world, work
<1>. QED  BY <1>1, <1>2 DEF FindAsset

LEMMA LaunchType ==
  ASSUME TypeOK, NEW r \in Clients, LaunchWorker(r)
  PROVE  TypeOK'
<1>1. loc[r].latest \in SomeVersion
  BY DEF TypeOK
<1>2. ops' \in [Ids -> [phase : OpPhases, target : SomeVersion, deb : 0..MaxOps]]
  BY <1>1 DEF LaunchWorker, TypeOK, OpPhases, Busy
<1>3. load' \in [Ids -> LoadSteps]
  BY DEF LaunchWorker, TypeOK, LoadSteps
<1>4. \E l \in {"report", "launch failed"} : Goto(r, l)
  BY DEF LaunchWorker
<1>5. pc' \in [Clients -> Requests]
  BY <1>4, GotoType DEF Requests
<1>. QED  BY <1>2, <1>3, <1>5 DEF LaunchWorker, TypeOK, world

LEMMA LaunchFailedType ==
  ASSUME TypeOK, NEW r \in Clients, LaunchFailed(r) \/ Report(r)
  PROVE  TypeOK'
<1>1. CASE LaunchFailed(r)
  BY <1>1, SetPhaseType, AnswerType DEF LaunchFailed, SetFailed, OpPhases, TypeOK, world, work
<1>2. CASE Report(r)
  BY <1>2, AnsweredType DEF Report
<1>. QED  BY <1>1, <1>2

LEMMA DirectLookupType ==
  ASSUME TypeOK, NEW r \in Clients, DirectLookup(r)
  PROVE  TypeOK'
<1>1. UNCHANGED <<world, ops, cur, load, inst>>
  BY DEF DirectLookup
<1>2. ASSUME NEW m, NEW p, Answer(r, m, p), UNCHANGED <<made, dirs>>
      PROVE  TypeOK'
  BY <1>1, <1>2, AnsweredType DEF work
<1>3. ASSUME made < MaxOps, made' = made + 1, dirs' = [dirs EXCEPT ![made + 1] = "empty"],
             loc' \in [Clients -> [op : 0..MaxOps, ver : SomeVersion, latest : SomeVersion]], Goto(r, "direct download")
      PROVE  TypeOK'
  <2>a. made \in 0..MaxOps /\ cur \in 0..made /\ gone \in 0..made /\ MaxOps \in Nat
    BY UpdateAssumption DEF TypeOK
  <2>b. made < MaxOps /\ made' = made + 1 /\ cur' = cur /\ gone' = gone
    BY <1>1, <1>3 DEF world
  <2>1. made' \in 0..MaxOps /\ cur' \in 0..made' /\ gone' \in 0..made'
    BY <2>a, <2>b
  <2>2. pc' \in [Clients -> Requests]
    BY <1>3, GotoType DEF Requests
  <2>3. dirs' \in [Ids -> Files]
    BY <1>3 DEF TypeOK, Files
  <2>. QED  BY <1>1, <1>3, <2>1, <2>2, <2>3 DEF TypeOK, world
<1>4. ASSUME NEW v \in SomeVersion, made < MaxOps,
             loc' = [loc EXCEPT ![r] = [@ EXCEPT !.op = made + 1, !.latest = v]]
      PROVE  loc' \in [Clients -> [op : 0..MaxOps, ver : SomeVersion, latest : SomeVersion]]
  <2>1. made + 1 \in 0..MaxOps
    BY <1>4, UpdateAssumption DEF TypeOK
  <2>2. loc[r] \in [op : 0..MaxOps, ver : SomeVersion, latest : SomeVersion]
    BY DEF TypeOK
  <2>3. [loc[r] EXCEPT !.op = made + 1, !.latest = v] \in [op : 0..MaxOps, ver : SomeVersion, latest : SomeVersion]
    BY <2>1, <2>2
  <2>. QED  BY <1>4, <2>3 DEF TypeOK
<1>5. feed \in FeedStates
  BY DEF TypeOK
<1>. QED  BY <1>2, <1>3, <1>4, <1>5, LookupAnswers DEF DirectLookup

LEMMA DirectType ==
  ASSUME TypeOK, NEW r \in Clients, DirectDownload(r) \/ DirectRun(r)
  PROVE  TypeOK'
<1>1. dirs' \in [Ids -> Files]
  BY DEF DirectDownload, DirectRun, TypeOK, Files
<1>2. \/ Goto(r, "direct verify") /\ UNCHANGED loc
      \/ \E m, p : Answer(r, m, p)
  BY DEF DirectDownload, DirectRun
<1>3. /\ pc' \in [Clients -> Requests]
      /\ loc' \in [Clients -> [op : 0..MaxOps, ver : SomeVersion, latest : SomeVersion]]
  BY <1>2, GotoType, AnswerType DEF Requests, TypeOK
<1>. QED  BY <1>1, <1>3 DEF DirectDownload, DirectRun, TypeOK, world

\* The workers change the operation, their own step and the folders.
LEMMA WorkerFrame ==
  ASSUME TypeOK, UNCHANGED <<running, feed, apt, cur, made, gone, pc, loc>>,
         ops' \in [Ids -> [phase : OpPhases, target : SomeVersion, deb : 0..MaxOps]],
         load' \in [Ids -> LoadSteps], inst' \in [Ids -> InstallSteps], dirs' \in [Ids -> Files],
         installed' \in Versions, stamp' \in SomeVersion
  PROVE  TypeOK'
  BY DEF TypeOK

LEMMA LoadType ==
  ASSUME TypeOK, NEW i \in Ids,
         \/ LoadStart(i) \/ LoadDownload(i) \/ LoadVerify(i) \/ LoadDigest(i)
         \/ LoadPublish(i) \/ LoadClean(i) \/ LoadFail(i)
  PROVE  TypeOK'
<1>1. \E to \in LoadSteps : load' = [load EXCEPT ![i] = to]
  BY DEF LoadStart, LoadDownload, LoadVerify, LoadDigest, LoadPublish, LoadClean, LoadFail, LoadStep, LoadSteps
<1>2. dirs' = dirs \/ \E c \in Files : dirs' = [dirs EXCEPT ![i] = c]
  BY DEF LoadStart, LoadDownload, LoadVerify, LoadDigest, LoadPublish, LoadClean, LoadFail, Files
<1>3. \/ \E phase \in OpPhases : SetPhase(phase)
      \/ MarkReady(ops[i].target, i)
      \/ UNCHANGED ops
  BY DEF LoadStart, LoadDownload, LoadVerify, LoadDigest, LoadPublish, LoadClean, LoadFail, SetFailed, OpPhases, Busy
<1>4. CASE MarkReady(ops[i].target, i)
  <2>1. ops' \in [Ids -> [phase : OpPhases, target : SomeVersion, deb : 0..MaxOps]]
    BY <1>4, UpdateAssumption DEF MarkReady, TypeOK, OpPhases, Ids
  <2>. QED  BY <1>1, <1>2, <2>1, WorkerFrame DEF LoadStart, LoadDownload, LoadVerify, LoadDigest,
              LoadPublish, LoadClean, LoadFail, TypeOK, world
<1>5. CASE (\E phase \in OpPhases : SetPhase(phase)) \/ UNCHANGED ops
  <2>1. ops' \in [Ids -> [phase : OpPhases, target : SomeVersion, deb : 0..MaxOps]]
    BY <1>5, SetPhaseType DEF TypeOK
  <2>. QED  BY <1>1, <1>2, <2>1, WorkerFrame DEF LoadStart, LoadDownload, LoadVerify, LoadDigest,
              LoadPublish, LoadClean, LoadFail, TypeOK, world
<1>. QED  BY <1>3, <1>4, <1>5

LEMMA InstallType ==
  ASSUME TypeOK, NEW i \in Ids, InstallVerify(i) \/ InstallApt(i) \/ InstallPublish(i) \/ InstallClean(i)
  PROVE  TypeOK'
<1>1. inst' \in [Ids -> InstallSteps]
  BY DEF InstallVerify, InstallApt, InstallPublish, InstallClean, InstallStep, InstallSteps, TypeOK
<1>2. dirs' \in [Ids -> Files]
  BY DEF InstallVerify, InstallApt, InstallPublish, InstallClean, Files, TypeOK
<1>3. (\E phase \in OpPhases : SetPhase(phase)) \/ UNCHANGED ops
  BY DEF InstallVerify, InstallApt, InstallPublish, InstallClean, SetFailed, OpPhases
<1>4. ops' \in [Ids -> [phase : OpPhases, target : SomeVersion, deb : 0..MaxOps]]
  BY <1>3, SetPhaseType DEF TypeOK
<1>5. ops[i].target \in SomeVersion
  BY DEF TypeOK
<1>6. installed' \in Versions
  BY <1>5, AptAnswers DEF InstallVerify, InstallApt, InstallPublish, InstallClean, TypeOK, world
<1>7. stamp' \in SomeVersion
  BY <1>5 DEF InstallVerify, InstallApt, InstallPublish, InstallClean, TypeOK, world
<1>8. UNCHANGED <<running, feed, apt, cur, made, gone, pc, loc, load>>
  BY DEF InstallVerify, InstallApt, InstallPublish, InstallClean, world
<1>. QED  BY <1>1, <1>2, <1>4, <1>6, <1>7, <1>8, WorkerFrame DEF TypeOK

LEMMA LostType ==
  ASSUME TypeOK, NEW i \in Ids, PackageLost(i)
  PROVE  TypeOK'
<1>1. dirs' \in [Ids -> Files]
  BY DEF PackageLost, TypeOK, Files
<1>. QED  BY <1>1 DEF PackageLost, TypeOK, world

LEMMA OtherInstallType ==
  ASSUME TypeOK, OtherInstall \/ AptFinishes
  PROVE  TypeOK'
<1>1. \A v \in apt : v \in SomeVersion
  BY DEF TypeOK
<1>2. installed' \in Versions
  BY <1>1, AptAnswers DEF OtherInstall, AptFinishes, TypeOK
<1>3. apt' \subseteq SomeVersion
  BY DEF OtherInstall, AptFinishes, TypeOK
<1>. QED  BY <1>2, <1>3 DEF OtherInstall, AptFinishes, TypeOK, work

LEMMA RestartType ==
  ASSUME TypeOK, EngineRestart
  PROVE  TypeOK'
<1>1. cur' \in 0..made' /\ gone' \in 0..made'
  BY UpdateAssumption DEF EngineRestart, TypeOK
<1>2. apt' \subseteq SomeVersion
  BY DEF EngineRestart, TypeOK
<1>3. loc' \in [Clients -> [op : 0..MaxOps, ver : SomeVersion, latest : SomeVersion]]
  BY UpdateAssumption DEF EngineRestart, NoLoc, SomeVersion
<1>. QED  BY <1>1, <1>2, <1>3 DEF EngineRestart, TypeOK, Requests, LoadSteps, InstallSteps

LEMMA TypeStep ==
  ASSUME TypeOK, [Next]_vars
  PROVE  TypeOK'
<1>1. CASE UNCHANGED vars
  BY <1>1 DEF vars, TypeOK
<1>2. ASSUME NEW r \in Clients, AskStatus(r) \/ AskUpdate(r) \/ Request(r)
      PROVE  TypeOK'
  BY <1>2, AskType, StatusType, HandOverType, BeginInstallType, BeginOperationType, LookupType,
     FindAssetType, LaunchType, LaunchFailedType, DirectLookupType, DirectType DEF Request
<1>3. ASSUME NEW i \in Ids, Worker(i) \/ PackageLost(i)
      PROVE  TypeOK'
  BY <1>3, LoadType, InstallType, LostType DEF Worker
<1>4. CASE World
  BY <1>4, OtherInstallType, RestartType DEF World
<1>. QED  BY <1>1, <1>2, <1>3, <1>4 DEF Next

\* The shape of the operation, of the requests and of the workers: whatever
\* the feeds say and whatever fails, every variable of update_status.py keeps it.
THEOREM UpdateTypes == Spec => []TypeOK
<1>. QED  BY TypeInit, TypeStep, PTL DEF Spec

-----------------------------------------------------------------------------
(* Who works on the operation.                                                *)

NoRequest == \A r \in Clients : pc[r] \notin Fetchers
NoLoad == \A i \in Ids : load[i] = "none"
NoInstall == \A i \in Ids : inst[i] \notin AtWork

\* Nobody, a request that has not started its download worker yet, the download
\* worker, or the install worker: one of them, for the current operation, whose
\* phase says which.
Idle == NoRequest /\ NoLoad /\ NoInstall /\ Phase \notin Busy
Prepares(r) ==
  /\ pc[r] \in Fetchers /\ \A s \in Clients \ {r} : pc[s] \notin Fetchers
  /\ NoLoad /\ NoInstall
  /\ cur # 0 /\ loc[r].op = cur /\ Phase \in Fetching
Loads(i) ==
  /\ load[i] # "none" /\ \A j \in Ids \ {i} : load[j] = "none"
  /\ NoRequest /\ NoInstall
  /\ cur = i /\ Phase \in Fetching
Installs(i) ==
  /\ inst[i] \in AtWork /\ \A j \in Ids \ {i} : inst[j] \notin AtWork
  /\ NoRequest /\ NoLoad
  /\ cur = i /\ Phase = "installing"

OpInv == Idle \/ (\E r \in Clients : Prepares(r)) \/ (\E i \in Ids : Loads(i) \/ Installs(i))

LEMMA OpInit == Init => OpInv
  BY DEF Init, OpInv, Idle, Prepares, Loads, Installs, NoRequest, NoLoad, NoInstall, Fetchers, AtWork, Phase, Busy

\* A step that leaves the operation and those at work on it alone.
LEMMA Aside ==
  ASSUME OpInv, UNCHANGED <<cur, load, inst>>, Phase' = Phase,
         \A s \in Clients : pc'[s] \in Fetchers <=> pc[s] \in Fetchers,
         \A s \in Clients : pc[s] \in Fetchers => loc'[s].op = loc[s].op
  PROVE  OpInv'
  BY DEF OpInv, Idle, Prepares, Loads, Installs, NoRequest, NoLoad, NoInstall

LEMMA PhaseIsSet ==
  ASSUME TypeOK, cur # 0, NEW phase, SetPhase(phase), cur' = cur
  PROVE  Phase' = phase
  BY UpdateAssumption DEF TypeOK, SetPhase, Phase, Ids

\* Requests that do not prepare an operation.
LEMMA AnswerAside ==
  ASSUME TypeOK, OpInv, NEW r \in Clients, pc[r] \notin Fetchers, UNCHANGED <<cur, ops, load, inst>>,
         NEW l, l \notin Fetchers, pc' = [pc EXCEPT ![r] = l],
         \A s \in Clients \ {r} : loc'[s] = loc[s]
  PROVE  OpInv'
<1>1. \A s \in Clients : pc'[s] = IF s = r THEN l ELSE pc[s]
  BY DEF TypeOK
<1>2. Phase' = Phase
  BY DEF Phase
<1>. QED  BY <1>1, <1>2, Aside

AsideRequest(r) ==
  \/ AskStatus(r) \/ AskUpdate(r)
  \/ StatusKnown(r) \/ StatusAsksFeeds(r) \/ StatusFetched(r)
  \/ pc[r] = "hand over" /\ (HandOver(r) \/ RunUserUpdate(r) \/ OpenStore(r))
  \/ DecideAnswered(r) \/ Report(r)
  \/ DirectLookup(r) \/ DirectDownload(r) \/ DirectRun(r)

LEMMA AsideKeeps ==
  ASSUME NEW r \in Clients, AsideRequest(r)
  PROVE  pc[r] \notin Fetchers /\ UNCHANGED <<cur, ops, load, inst, gone, kind>>
  BY DEF AsideRequest, AskStatus, AskUpdate, StatusKnown, StatusAsksFeeds, StatusFetched, HandOver, RunUserUpdate,
     OpenStore, DecideAnswered, Report, DirectLookup, DirectDownload, DirectRun, Fetchers, work, world

LEMMA RequestAside ==
  ASSUME TypeOK, OpInv, NEW r \in Clients,
         AsideRequest(r)
  PROVE  OpInv'
<1>1. pc[r] \notin Fetchers /\ UNCHANGED <<cur, ops, load, inst>>
  BY AsideKeeps
<1>2. (\E m, p : Answer(r, m, p)) \/
      (\E l : l \notin Fetchers /\ Goto(r, l))
  BY DEF AsideRequest, AskStatus, AskUpdate, StatusKnown, StatusAsksFeeds, StatusFetched, HandOver, RunUserUpdate,
     OpenStore, DecideAnswered, Report, DirectLookup, DirectDownload, DirectRun, Fetchers
<1>3. \E l : l \notin Fetchers /\ pc' = [pc EXCEPT ![r] = l]
  BY <1>2 DEF Answer, Goto, Fetchers
<1>4. \A s \in Clients \ {r} : loc'[s] = loc[s]
  BY DEF AsideRequest, AskStatus, AskUpdate, StatusKnown, StatusAsksFeeds, StatusFetched, HandOver, RunUserUpdate,
     OpenStore, DecideAnswered, Report, DirectLookup, DirectDownload, DirectRun, Answer, TypeOK
<1>. QED  BY <1>1, <1>3, <1>4, AnswerAside

LEMMA WorldAside ==
  ASSUME TypeOK, OpInv,
         OtherInstall \/ AptFinishes \/ UNCHANGED vars \/ \E i \in Ids : PackageLost(i)
  PROVE  OpInv'
<1>1. UNCHANGED <<cur, ops, load, inst, pc, loc>>
  BY DEF OtherInstall, AptFinishes, PackageLost, vars, work
<1>. QED  BY <1>1, Aside DEF Phase

LEMMA RestartOp ==
  ASSUME EngineRestart PROVE OpInv'
  BY DEF EngineRestart, OpInv, Idle, Prepares, Loads, Installs, NoRequest, NoLoad, NoInstall, Fetchers, AtWork, Phase, Busy

\* Whoever takes a step of the operation is the one at work on it.
LEMMA Preparer ==
  ASSUME OpInv, NEW r \in Clients, pc[r] \in Fetchers
  PROVE  Prepares(r)
  BY DEF OpInv, Idle, Prepares, Loads, Installs, NoRequest

LEMMA Loader ==
  ASSUME OpInv, NEW i \in Ids, load[i] # "none"
  PROVE  Loads(i)
  BY DEF OpInv, Idle, Prepares, Loads, Installs, NoLoad

LEMMA Installer ==
  ASSUME OpInv, NEW i \in Ids, inst[i] \in AtWork
  PROVE  Installs(i)
  BY DEF OpInv, Idle, Prepares, Loads, Installs, NoInstall

LEMMA Unattended ==
  ASSUME OpInv, Phase \notin Busy
  PROVE  Idle
  BY DEF OpInv, Idle, Prepares, Loads, Installs, Fetching, Busy

\* The only preparer answers.
LEMMA PreparerLeaves ==
  ASSUME TypeOK, NEW r \in Clients, Prepares(r), UNCHANGED <<load, inst>>,
         NEW l, l \notin Fetchers, pc' = [pc EXCEPT ![r] = l], Phase' \notin Busy
  PROVE  OpInv'
<1>1. \A s \in Clients : pc'[s] = IF s = r THEN l ELSE pc[s]
  BY DEF TypeOK
<1>. QED  BY <1>1 DEF OpInv, Idle, Prepares, NoRequest, NoLoad, NoInstall

\* The only preparer goes on.
LEMMA PreparerGoesOn ==
  ASSUME TypeOK, NEW r \in Clients, Prepares(r), UNCHANGED <<cur, load, inst>>,
         NEW l \in Fetchers, pc' = [pc EXCEPT ![r] = l], loc'[r].op = loc[r].op, Phase' \in Fetching
  PROVE  OpInv'
<1>1. \A s \in Clients : pc'[s] = IF s = r THEN l ELSE pc[s]
  BY DEF TypeOK
<1>2. Prepares(r)'
  BY <1>1 DEF Prepares, NoLoad, NoInstall
<1>. QED  BY <1>2 DEF OpInv

LEMMA BeginInstallOp ==
  ASSUME TypeOK, OpInv, NEW r \in Clients, BeginInstall(r)
  PROVE  OpInv'
<1>1. Idle
  BY Unattended DEF BeginInstall, Busy
<1>2. cur \in Ids
  BY UpdateAssumption DEF BeginInstall, Phase, TypeOK, Ids
<1>3. Phase' = "installing"
  BY <1>2, PhaseIsSet, UpdateAssumption DEF BeginInstall, Ids
<1>4. \A i \in Ids : inst'[i] = IF i = cur THEN "verify" ELSE inst[i]
  BY <1>2 DEF BeginInstall, TypeOK
<1>5. \A s \in Clients : pc'[s] = IF s = r THEN "idle" ELSE pc[s]
  BY DEF BeginInstall, Answer, TypeOK
<1>6. Installs(cur)'
  BY <1>1, <1>2, <1>3, <1>4, <1>5
     DEF Idle, Installs, NoRequest, NoLoad, NoInstall, AtWork, Fetchers, BeginInstall
<1>. QED  BY <1>2, <1>6 DEF OpInv, BeginInstall, Ids

LEMMA BeginKeeps ==
  ASSUME TypeOK, OpInv, NEW r \in Clients, BeginOperation(r)
  PROVE  Idle /\ cur' = made + 1 /\ cur' \in Ids /\ cur' # 0 /\ Phase' = "preparing"
<1>1. Idle
  BY Unattended DEF BeginOperation, Phase, Busy
<1>2. made + 1 \in Ids /\ cur' = made + 1
  BY UpdateAssumption DEF BeginOperation, TypeOK, Ids
<1>3. Phase' = "preparing" /\ cur' # 0
  BY <1>2, UpdateAssumption DEF BeginOperation, Phase, FreshOp, TypeOK, Ids
<1>. QED  BY <1>1, <1>2, <1>3

LEMMA BeginOperationOp ==
  ASSUME TypeOK, OpInv, NEW r \in Clients, BeginOperation(r)
  PROVE  OpInv'
<1>1. Idle /\ cur' = made + 1 /\ cur' # 0 /\ Phase' = "preparing"
  BY BeginKeeps
<1>2. loc'[r].op = made + 1
  BY DEF BeginOperation, TypeOK
<1>3. \A s \in Clients : pc'[s] = IF s = r THEN "lookup" ELSE pc[s]
  BY DEF BeginOperation, Goto, TypeOK
<1>4. Prepares(r)'
  BY <1>1, <1>2, <1>3
     DEF Idle, Prepares, NoRequest, NoLoad, NoInstall, Fetchers, Fetching, BeginOperation, work
<1>. QED  BY <1>4 DEF OpInv

LEMMA LookupOp ==
  ASSUME TypeOK, OpInv, NEW r \in Clients, Lookup(r)
  PROVE  OpInv'
<1>1. Prepares(r) /\ UNCHANGED <<load, inst>>
  BY Preparer DEF Lookup, Fetchers, work
<1>2. cur \in Ids /\ loc[r].op = cur
  BY <1>1, UpdateAssumption DEF Prepares, TypeOK, Ids
<1>3. CASE SetFailed /\ Answer(r, "error", "failed") /\ UNCHANGED cur
  <2>1. Phase' = "failed"
    BY <1>2, <1>3, PhaseIsSet, UpdateAssumption DEF SetFailed, Ids
  <2>2. pc' = [pc EXCEPT ![r] = "idle"]
    BY <1>3 DEF Answer
  <2>. QED  BY <1>1, <2>1, <2>2, PreparerLeaves DEF Busy, Fetchers
<1>4. CASE cur' = (IF cur = loc[r].op THEN 0 ELSE cur) /\ Answer(r, "current", "current")
  <2>1. Phase' = "none"
    BY <1>2, <1>4 DEF Phase
  <2>2. pc' = [pc EXCEPT ![r] = "idle"]
    BY <1>4 DEF Answer
  <2>. QED  BY <1>1, <2>1, <2>2, PreparerLeaves DEF Busy, Fetchers
<1>5. ASSUME NEW v \in SomeVersion, ops' = [ops EXCEPT ![loc[r].op].target = v],
             loc' = [loc EXCEPT ![r].latest = v], Goto(r, "asset"), UNCHANGED cur
      PROVE  OpInv'
  <2>1. Phase' = Phase
    BY <1>2, <1>5 DEF Phase, TypeOK
  <2>2. loc'[r].op = loc[r].op
    BY <1>5 DEF TypeOK
  <2>3. pc' = [pc EXCEPT ![r] = "asset"]
    BY <1>5 DEF Goto
  <2>. QED  BY <1>1, <1>5, <2>1, <2>2, <2>3, PreparerGoesOn DEF Prepares, Fetchers
<1>6. feed \in FeedStates
  BY DEF TypeOK
<1>. QED  BY <1>3, <1>4, <1>5, <1>6, LookupAnswers DEF Lookup

LEMMA FindAssetOp ==
  ASSUME TypeOK, OpInv, NEW r \in Clients, FindAsset(r)
  PROVE  OpInv'
<1>1. Prepares(r) /\ UNCHANGED <<cur, load, inst>>
  BY Preparer DEF FindAsset, Fetchers, work
<1>2. CASE Goto(r, "launch") /\ UNCHANGED <<ops, loc>>
  <2>1. Phase' = Phase /\ pc' = [pc EXCEPT ![r] = "launch"]
    BY <1>1, <1>2 DEF Phase, Goto
  <2>. QED  BY <1>1, <1>2, <2>1, PreparerGoesOn DEF Prepares, Fetchers
<1>3. CASE SetFailed /\ Answer(r, "error", "failed")
  <2>1. Phase' = "failed" /\ pc' = [pc EXCEPT ![r] = "idle"]
    BY <1>1, <1>3, PhaseIsSet DEF Prepares, SetFailed, Answer
  <2>. QED  BY <1>1, <2>1, PreparerLeaves DEF Busy, Fetchers
<1>. QED  BY <1>2, <1>3 DEF FindAsset

LEMMA LaunchKeeps ==
  ASSUME TypeOK, OpInv, NEW r \in Clients, LaunchWorker(r)
  PROVE  /\ Prepares(r) /\ UNCHANGED <<cur, inst, loc>> /\ cur \in Ids /\ loc[r].op = cur
         /\ Phase' = "downloading" /\ ops'[cur].target = loc[r].latest
         /\ \A j \in Ids : ops'[j].deb = ops[j].deb
<1>1. Prepares(r) /\ UNCHANGED <<cur, inst, loc>>
  BY Preparer DEF LaunchWorker, Fetchers
<1>2. cur \in Ids /\ loc[r].op = cur
  BY <1>1, UpdateAssumption DEF Prepares, TypeOK, Ids
<1>3. \A j \in Ids : ops[j] \in [phase : OpPhases, target : SomeVersion, deb : 0..MaxOps]
  BY DEF TypeOK
<1>4. \A j \in Ids : ops'[j] = IF j = cur THEN [ops[j] EXCEPT !.phase = "downloading", !.target = loc[r].latest]
                               ELSE ops[j]
  BY <1>2 DEF LaunchWorker, TypeOK
<1>5. Phase' = "downloading" /\ ops'[cur].target = loc[r].latest
  BY <1>1, <1>2, <1>3, <1>4 DEF Phase, Prepares
<1>6. \A j \in Ids : ops'[j].deb = ops[j].deb
  BY <1>3, <1>4
<1>. QED  BY <1>1, <1>2, <1>5, <1>6

LEMMA LaunchOp ==
  ASSUME TypeOK, OpInv, NEW r \in Clients, LaunchWorker(r)
  PROVE  OpInv'
<1>1. Prepares(r) /\ UNCHANGED <<cur, inst, loc>>
  BY LaunchKeeps
<1>2. cur \in Ids /\ loc[r].op = cur
  BY LaunchKeeps
<1>3. Phase' = "downloading"
  BY LaunchKeeps
<1>4. CASE load' = [load EXCEPT ![loc[r].op] = "start"] /\ Goto(r, "report")
  <2>1. \A i \in Ids : load'[i] = IF i = cur THEN "start" ELSE load[i]
    BY <1>2, <1>4 DEF TypeOK
  <2>2. \A s \in Clients : pc'[s] = IF s = r THEN "report" ELSE pc[s]
    BY <1>4 DEF Goto, TypeOK
  <2>3. Loads(cur)'
    BY <1>1, <1>2, <1>3, <2>1, <2>2 DEF Prepares, Loads, NoRequest, NoLoad, NoInstall, Fetchers, Fetching
  <2>. QED  BY <1>1, <1>2, <2>3 DEF OpInv, Ids
<1>5. CASE Goto(r, "launch failed") /\ UNCHANGED load
  <2>1. pc' = [pc EXCEPT ![r] = "launch failed"]
    BY <1>5 DEF Goto
  <2>. QED  BY <1>1, <1>3, <1>5, <2>1, PreparerGoesOn DEF Fetchers, Fetching
<1>. QED  BY <1>4, <1>5 DEF LaunchWorker

LEMMA LaunchFailedOp ==
  ASSUME TypeOK, OpInv, NEW r \in Clients, LaunchFailed(r)
  PROVE  OpInv'
<1>1. Prepares(r) /\ UNCHANGED <<cur, load, inst>>
  BY Preparer DEF LaunchFailed, Fetchers, work
<1>2. Phase' = "failed" /\ pc' = [pc EXCEPT ![r] = "idle"]
  BY <1>1, PhaseIsSet DEF LaunchFailed, Prepares, SetFailed, Answer
<1>. QED  BY <1>1, <1>2, PreparerLeaves DEF Busy, Fetchers

\* The download worker goes on, or ends.
LEMMA LoaderSteps ==
  ASSUME TypeOK, OpInv, NEW i \in Ids, NEW from, from # "none", NEW to, LoadStep(i, from, to),
         UNCHANGED <<cur, pc, inst>>,
         Phase' \in IF to = "none" THEN OpPhases \ Busy ELSE Fetching
  PROVE  OpInv'
<1>1. Loads(i)
  BY Loader DEF LoadStep
<1>2. \A j \in Ids : load'[j] = IF j = i THEN to ELSE load[j]
  BY DEF LoadStep, TypeOK
<1>3. CASE to = "none"
  BY <1>1, <1>2, <1>3 DEF OpInv, Idle, Loads, NoRequest, NoLoad, NoInstall
<1>4. CASE to # "none"
  <2>1. Loads(i)'
    BY <1>1, <1>2, <1>4 DEF Loads, NoRequest, NoInstall
  <2>. QED  BY <2>1 DEF OpInv, Ids
<1>. QED  BY <1>3, <1>4

LEMMA LoadOp ==
  ASSUME TypeOK, OpInv, NEW i \in Ids,
         \/ LoadStart(i) \/ LoadDownload(i) \/ LoadVerify(i) \/ LoadDigest(i)
         \/ LoadPublish(i) \/ LoadClean(i) \/ LoadFail(i)
  PROVE  OpInv'
<1>1. Loads(i) /\ UNCHANGED <<cur, pc, inst>> /\ cur # 0
  BY Loader, UpdateAssumption DEF LoadStart, LoadDownload, LoadVerify, LoadDigest, LoadPublish, LoadClean, LoadFail,
     LoadStep, Loads, Ids
<1>2. CASE LoadStart(i)
  <2>1. Phase' = "downloading"
    BY <1>1, <1>2, PhaseIsSet DEF LoadStart
  <2>. QED  BY <1>1, <1>2, <2>1, LoaderSteps DEF LoadStart, Fetching
<1>3. CASE LoadDownload(i)
  <2>1. Phase' = "downloading"
    BY <1>1, <1>3, PhaseIsSet DEF LoadDownload
  <2>. QED  BY <1>1, <1>3, <2>1, LoaderSteps DEF LoadDownload, Fetching
<1>4. CASE LoadVerify(i)
  <2>1. Phase' = "verifying"
    BY <1>1, <1>4, PhaseIsSet DEF LoadVerify
  <2>. QED  BY <1>1, <1>4, <2>1, LoaderSteps DEF LoadVerify, Fetching
<1>5. CASE LoadDigest(i) \/ LoadClean(i)
  <2>1. Phase' = Phase
    BY <1>1, <1>5 DEF LoadDigest, LoadClean, Phase
  <2>2. Phase' \in Fetching
    BY <1>1, <2>1 DEF Loads
  <2>. QED  BY <1>1, <1>5, <2>2, LoaderSteps DEF LoadDigest, LoadClean
<1>6. CASE LoadPublish(i)
  <2>1. Phase' = "ready"
    BY <1>1, <1>6, UpdateAssumption DEF LoadPublish, MarkReady, Loads, Phase, TypeOK, Ids
  <2>. QED  BY <1>1, <1>6, <2>1, LoaderSteps DEF LoadPublish, OpPhases, Busy
<1>7. CASE LoadFail(i)
  <2>1. Phase' = "failed"
    BY <1>1, <1>7, PhaseIsSet DEF LoadFail, SetFailed
  <2>. QED  BY <1>1, <1>7, <2>1, LoaderSteps DEF LoadFail, OpPhases, Busy
<1>. QED  BY <1>2, <1>3, <1>4, <1>5, <1>6, <1>7

LEMMA InstallOp ==
  ASSUME TypeOK, OpInv, NEW i \in Ids, InstallVerify(i) \/ InstallApt(i) \/ InstallPublish(i) \/ InstallClean(i)
  PROVE  OpInv'
<1>1. UNCHANGED <<cur, pc, loc, load>>
  BY DEF InstallVerify, InstallApt, InstallPublish, InstallClean
<1>2. CASE InstallClean(i)
  <2>1. \A j \in Ids : inst'[j] = IF j = i THEN "none" ELSE inst[j]
    BY <1>2 DEF InstallClean, InstallStep, TypeOK
  <2>2. inst[i] = "clean" /\ Phase' = Phase
    BY <1>2 DEF InstallClean, InstallStep, Phase
  <2>. QED  BY <1>1, <2>1, <2>2 DEF OpInv, Idle, Prepares, Loads, Installs, NoRequest, NoLoad, NoInstall, AtWork
<1>3. CASE inst' = [inst EXCEPT ![i] = "clean"] /\ inst[i] \in AtWork /\ Phase' \notin Busy
  <2>1. \A j \in Ids : inst'[j] = IF j = i THEN "clean" ELSE inst[j]
    BY <1>3 DEF TypeOK
  <2>2. Installs(i)
    BY <1>3, Installer
  <2>. QED  BY <1>1, <1>3, <2>1, <2>2 DEF OpInv, Idle, Installs, NoRequest, NoLoad, NoInstall, AtWork
<1>4. ASSUME NEW l \in AtWork, inst' = [inst EXCEPT ![i] = l], inst[i] \in AtWork, UNCHANGED ops
      PROVE  OpInv'
  <2>1. \A j \in Ids : inst'[j] = IF j = i THEN l ELSE inst[j]
    BY <1>4 DEF TypeOK
  <2>2. Installs(i) /\ Phase' = Phase
    BY <1>1, <1>4, Installer DEF Phase
  <2>3. Installs(i)'
    BY <1>1, <1>4, <2>1, <2>2 DEF Installs, NoRequest, NoLoad
  <2>. QED  BY <2>3 DEF OpInv, Ids
<1>5. ASSUME NEW phase \in {"failed", "installed"}, SetPhase(phase), inst[i] \in AtWork
      PROVE  Phase' \notin Busy
  <2>1. Installs(i)
    BY <1>5, Installer
  <2>2. cur # 0
    BY <2>1, UpdateAssumption DEF Installs, Ids
  <2>. QED  BY <1>1, <1>5, <2>2, PhaseIsSet DEF Busy
<1>6. CASE InstallVerify(i)
  BY <1>3, <1>4, <1>5, <1>6 DEF InstallVerify, InstallStep, SetFailed, AtWork
<1>7. CASE InstallApt(i)
  BY <1>3, <1>4, <1>5, <1>7 DEF InstallApt, InstallStep, SetFailed, AtWork
<1>8. CASE InstallPublish(i)
  BY <1>3, <1>5, <1>8 DEF InstallPublish, InstallStep, AtWork
<1>. QED  BY <1>2, <1>6, <1>7, <1>8

LEMMA OpStep ==
  ASSUME TypeOK, OpInv, [Next]_vars
  PROVE  OpInv'
<1>1. ASSUME NEW r \in Clients, AskStatus(r) \/ AskUpdate(r) \/ Request(r)
      PROVE  OpInv'
  BY <1>1, RequestAside, BeginInstallOp, BeginOperationOp, LookupOp, FindAssetOp, LaunchOp, LaunchFailedOp
     DEF Request, AsideRequest
<1>2. ASSUME NEW i \in Ids, Worker(i)
      PROVE  OpInv'
  BY <1>2, LoadOp, InstallOp DEF Worker
<1>3. CASE World \/ UNCHANGED vars \/ \E i \in Ids : PackageLost(i)
  BY <1>3, WorldAside, RestartOp DEF World
<1>. QED  BY <1>1, <1>2, <1>3 DEF Next

LEMMA OpProperty ==
  ASSUME TypeOK, OpInv
  PROVE  OwnOperation
<1>0. \A i \in Ids : inst[i] \in AtWork <=> inst[i] \notin {"none", "clean"}
  BY DEF TypeOK, InstallSteps, AtWork
<1>1. CASE Idle
  <2>1. Actors = {}
    BY <1>0, <1>1 DEF Idle, NoRequest, NoLoad, NoInstall, Actors, Fetchers
  <2>. QED  BY <1>1, <2>1 DEF OwnOperation, Idle
<1>2. ASSUME NEW r \in Clients, Prepares(r)
      PROVE  OwnOperation
  <2>1. Actors = {<<"request", r>>}
    BY <1>0, <1>2 DEF Prepares, NoLoad, NoInstall, Actors, Fetchers
  <2>2. OperationOf(<<"request", r>>) = cur
    BY <1>2 DEF OperationOf, Prepares
  <2>. QED  BY <1>2, <2>1, <2>2 DEF OwnOperation, Prepares, Fetching, Busy
<1>3. ASSUME NEW i \in Ids, Loads(i)
      PROVE  OwnOperation
  <2>1. Actors = {<<"load", i>>}
    BY <1>0, <1>3 DEF Loads, NoRequest, NoInstall, Actors, Fetchers
  <2>2. OperationOf(<<"load", i>>) = cur /\ cur # 0
    BY <1>3, UpdateAssumption DEF OperationOf, Loads, Ids
  <2>. QED  BY <1>3, <2>1, <2>2 DEF OwnOperation, Loads, Fetching, Busy
<1>4. ASSUME NEW i \in Ids, Installs(i)
      PROVE  OwnOperation
  <2>1. Actors = {<<"install", i>>}
    BY <1>0, <1>4 DEF Installs, NoRequest, NoLoad, Actors, Fetchers
  <2>2. OperationOf(<<"install", i>>) = cur /\ cur # 0
    BY <1>4, UpdateAssumption DEF OperationOf, Installs, Ids
  <2>. QED  BY <1>4, <2>1, <2>2 DEF OwnOperation, Installs, Busy
<1>. QED  BY <1>1, <1>2, <1>3, <1>4 DEF OpInv

\* Phases and failures are written to whatever operation is current
\* (_linux_package_set_phase, _set_failed, _mark_ready).  For any number of
\* requests, the thread that writes is alone and works for that operation, and
\* "already in progress" is answered only while there is such a thread.
THEOREM OperationIsOwn == Spec => []OwnOperation
<1>1. Spec => [](TypeOK /\ OpInv)
  BY TypeInit, TypeStep, OpInit, OpStep, PTL DEF Spec
<1>. QED  BY <1>1, OpProperty, PTL

-----------------------------------------------------------------------------
(* What is in the folders.                                                    *)

\* A package and a setup program are never updated on the same machine.
Kinds ==
  /\ \A r \in Clients : /\ pc[r] \in Fetchers \cup {"decide"} => kind = "linux-package"
                        /\ pc[r] \in {"direct", "direct download", "direct verify"} => kind = "windows-direct"
  /\ cur # 0 => kind = "linux-package"
  /\ \A i \in Ids : inst[i] # "none" => kind = "linux-package"
\* Nothing is there of operations to come.
Ahead == \A i \in Ids : i > made => dirs[i] = "none" /\ load[i] = "none" /\ inst[i] = "none"
Downloads == \A r \in Clients : pc[r] \in {"direct download", "direct verify"} => loc[r].op \in 1..made
\* An install worker cleans up after it has published its end.
Ended == \A i \in Ids : inst[i] = "clean" /\ cur = i => Phase \in {"failed", "installed"}
\* The package that is ready, or being installed, is the one its operation loaded.
Packages ==
  /\ Phase = "ready" => ops[cur].deb = cur
  /\ \A i \in Ids : inst[i] \in AtWork => ops[i].deb = i
\* What is downloaded is a version.
Targets ==
  /\ \A r \in Clients : pc[r] \in {"asset", "launch"} => loc[r].latest \in Versions
  /\ \A i \in Ids : load[i] # "none" => ops[i].target \in Versions

FileInv == Kinds /\ Ahead /\ Downloads /\ Ended /\ Packages /\ Targets

LEMMA FileInit == Init => FileInv
  BY DEF Init, FileInv, Kinds, Ahead, Downloads, Ended, Packages, Targets, Fetchers, AtWork, Phase

LEMMA KindsStep ==
  ASSUME TypeOK, Kinds, [Next]_vars
  PROVE  Kinds'
<1>1. ASSUME NEW r \in Clients, AskStatus(r) \/ AskUpdate(r) \/ Request(r)
      PROVE  Kinds'
  <2>1. UNCHANGED kind
    BY <1>1 DEF AskStatus, AskUpdate, Request, StatusKnown, StatusAsksFeeds, StatusFetched, HandOver, RunUserUpdate,
       OpenStore, DecideAnswered, BeginInstall, BeginOperation, Lookup, FindAsset, LaunchWorker, LaunchFailed,
       Report, DirectLookup, DirectDownload, DirectRun, world
  <2>2. ASSUME NEW l, pc' = [pc EXCEPT ![r] = l], UNCHANGED <<cur, inst>>,
               l \in Fetchers \cup {"decide"} => kind = "linux-package",
               l \in {"direct", "direct download", "direct verify"} => kind = "windows-direct"
        PROVE  Kinds'
    <3>1. \A s \in Clients : pc'[s] = IF s = r THEN l ELSE pc[s]
      BY <2>2 DEF TypeOK
    <3>. QED  BY <2>1, <2>2, <3>1 DEF Kinds
  <2>3. ASSUME NEW m, NEW p, Answer(r, m, p), UNCHANGED <<cur, inst>>
        PROVE  Kinds'
    BY <2>2, <2>3 DEF Answer, Fetchers
  <2>4. ASSUME NEW l, Goto(r, l), UNCHANGED <<cur, inst>>,
               l \in Fetchers \cup {"decide"} => kind = "linux-package",
               l \in {"direct", "direct download", "direct verify"} => kind = "windows-direct"
        PROVE  Kinds'
    BY <2>2, <2>4 DEF Goto
  <2>5. CASE AskStatus(r) \/ StatusKnown(r) \/ StatusAsksFeeds(r) \/ StatusFetched(r)
    BY <2>3, <2>4, <2>5 DEF AskStatus, StatusKnown, StatusAsksFeeds, StatusFetched, work, Fetchers
  <2>6. CASE AskUpdate(r)
    BY <2>4, <2>6 DEF AskUpdate, work, Fetchers
  <2>7. CASE HandOver(r) \/ RunUserUpdate(r) \/ OpenStore(r) \/ DecideAnswered(r) \/ Report(r) \/ LaunchFailed(r)
    BY <2>3, <2>7 DEF HandOver, RunUserUpdate, OpenStore, DecideAnswered, Report, LaunchFailed, work
  <2>8. CASE BeginInstall(r) \/ BeginOperation(r)
    <3>1. kind = "linux-package"
      BY <2>8 DEF BeginInstall, BeginOperation, Kinds
    <3>2. \A s \in Clients : pc'[s] = IF s = r THEN pc'[r] ELSE pc[s]
      BY <2>8 DEF BeginInstall, BeginOperation, Answer, Goto, TypeOK
    <3>3. pc'[r] \in {"idle", "lookup"}
      BY <2>8 DEF BeginInstall, BeginOperation, Answer, Goto, TypeOK
    <3>. QED  BY <2>1, <3>1, <3>2, <3>3 DEF Kinds
  <2>9. CASE Lookup(r)
    <3>1. kind = "linux-package"
      BY <2>9 DEF Lookup, Kinds, Fetchers
    <3>2. \A s \in Clients : pc'[s] = IF s = r THEN pc'[r] ELSE pc[s]
      BY <2>9 DEF Lookup, Answer, Goto, TypeOK
    <3>3. pc'[r] \in {"idle", "asset"} /\ UNCHANGED inst
      BY <2>9 DEF Lookup, Answer, Goto, TypeOK, work
    <3>. QED  BY <2>1, <3>1, <3>2, <3>3 DEF Kinds
  <2>10. CASE FindAsset(r) \/ LaunchWorker(r)
    <3>1. kind = "linux-package"
      BY <2>10 DEF FindAsset, LaunchWorker, Kinds, Fetchers
    <3>. QED  BY <2>3, <2>4, <2>10, <3>1 DEF FindAsset, LaunchWorker, work
  <2>11. CASE DirectLookup(r) \/ DirectDownload(r) \/ DirectRun(r)
    <3>1. kind = "windows-direct"
      BY <2>11 DEF DirectLookup, DirectDownload, DirectRun, Kinds
    <3>. QED  BY <2>3, <2>4, <2>11, <3>1 DEF DirectLookup, DirectDownload, DirectRun, Fetchers
  <2>. QED  BY <1>1, <2>5, <2>6, <2>7, <2>8, <2>9, <2>10, <2>11 DEF Request
<1>2. ASSUME NEW i \in Ids, Worker(i)
      PROVE  Kinds'
  <2>1. UNCHANGED <<kind, pc, cur>>
    BY <1>2 DEF Worker, LoadStart, LoadDownload, LoadVerify, LoadDigest, LoadPublish, LoadClean, LoadFail,
       InstallVerify, InstallApt, InstallPublish, InstallClean, world
  <2>2. \A j \in Ids : inst'[j] # "none" => inst[j] # "none"
    BY <1>2 DEF Worker, LoadStart, LoadDownload, LoadVerify, LoadDigest, LoadPublish, LoadClean, LoadFail,
       InstallVerify, InstallApt, InstallPublish, InstallClean, InstallStep, TypeOK
  <2>. QED  BY <2>1, <2>2 DEF Kinds
<1>3. CASE OtherInstall \/ AptFinishes \/ UNCHANGED vars \/ \E i \in Ids : PackageLost(i)
  <2>1. UNCHANGED <<kind, pc, cur, inst>>
    BY <1>3 DEF OtherInstall, AptFinishes, PackageLost, vars, world, work
  <2>. QED  BY <2>1 DEF Kinds
<1>4. CASE EngineRestart
  BY <1>4 DEF EngineRestart, Kinds, Fetchers
<1>. QED  BY <1>1, <1>2, <1>3, <1>4 DEF Next, World

\* The requests that leave the workers and their folders alone.
LEMMA RequestWork ==
  ASSUME NEW r \in Clients,
         \/ AskStatus(r) \/ AskUpdate(r)
         \/ StatusKnown(r) \/ StatusAsksFeeds(r) \/ StatusFetched(r)
         \/ HandOver(r) \/ RunUserUpdate(r) \/ OpenStore(r) \/ DecideAnswered(r)
         \/ Lookup(r) \/ FindAsset(r) \/ LaunchFailed(r) \/ Report(r)
  PROVE  UNCHANGED <<world, made, load, inst, dirs>>
  BY DEF AskStatus, AskUpdate, StatusKnown, StatusAsksFeeds, StatusFetched, HandOver, RunUserUpdate,
     OpenStore, DecideAnswered, Lookup, FindAsset, LaunchFailed, Report, work

LEMMA AheadStep ==
  ASSUME TypeOK, OpInv, Ahead, Downloads, [Next]_vars
  PROVE  Ahead'
<1>1. ASSUME NEW r \in Clients, AskStatus(r) \/ AskUpdate(r) \/ Request(r)
      PROVE  Ahead'
  <2>1. CASE UNCHANGED <<world, made, load, inst, dirs>>
    BY <2>1 DEF Ahead
  <2>2. CASE BeginInstall(r)
    <3>1. \A i \in Ids : inst'[i] # "none" => inst[i] # "none" \/ i = cur
      BY <2>2 DEF BeginInstall, TypeOK
    <3>2. cur <= made /\ cur \in Int /\ made \in Int
      BY UpdateAssumption DEF TypeOK
    <3>. QED  BY <2>2, <3>1, <3>2 DEF Ahead, BeginInstall, Ids
  <2>3. CASE BeginOperation(r)
    <3>1. made' = made + 1 /\ made \in Int /\ UNCHANGED <<load, inst, dirs>>
      BY <2>3, UpdateAssumption DEF BeginOperation, TypeOK, work
    <3>. QED  BY <3>1 DEF Ahead, Ids
  <2>4. CASE LaunchWorker(r)
    <3>1. Prepares(r)
      BY <2>4, Preparer DEF LaunchWorker, Fetchers
    <3>2. \A i \in Ids : load'[i] # "none" => load[i] # "none" \/ i = cur
      BY <2>4, <3>1 DEF LaunchWorker, Prepares, TypeOK
    <3>3. cur <= made /\ cur \in Int /\ made \in Int
      BY UpdateAssumption DEF TypeOK
    <3>4. UNCHANGED <<made, inst, dirs>>
      BY <2>4 DEF LaunchWorker
    <3>. QED  BY <3>2, <3>3, <3>4 DEF Ahead, Ids
  <2>5. CASE DirectLookup(r)
    <3>0. made \in Int
      BY UpdateAssumption DEF TypeOK
    <3>1. UNCHANGED <<load, inst>>
      BY <2>5 DEF DirectLookup
    <3>2. \/ UNCHANGED <<made, dirs>>
          \/ made' = made + 1 /\ dirs' = [dirs EXCEPT ![made + 1] = "empty"]
      BY <2>5 DEF DirectLookup
    <3>3. \A i \in Ids : dirs'[i] # "none" => dirs[i] # "none" \/ (i = made + 1 /\ made' = made + 1)
      BY <3>2 DEF TypeOK
    <3>4. made' = made \/ made' = made + 1
      BY <3>2
    <3>. QED  BY <3>0, <3>1, <3>3, <3>4 DEF Ahead, Ids
  <2>6. CASE DirectDownload(r) \/ DirectRun(r)
    <3>1. loc[r].op \in 1..made
      BY <2>6 DEF Downloads, DirectDownload, DirectRun
    <3>2. UNCHANGED <<made, load, inst>>
      BY <2>6 DEF DirectDownload, DirectRun
    <3>3. \A i \in Ids : dirs'[i] # "none" => dirs[i] # "none" \/ i = loc[r].op
      BY <2>6 DEF DirectDownload, DirectRun, TypeOK
    <3>4. made \in Int
      BY UpdateAssumption DEF TypeOK
    <3>5. ~ (loc[r].op > made)
      BY <3>1, <3>4
    <3>. QED  BY <3>2, <3>3, <3>5 DEF Ahead
  <2>. QED  BY <1>1, <2>1, <2>2, <2>3, <2>4, <2>5, <2>6, RequestWork DEF Request
<1>2. ASSUME NEW i \in Ids, Worker(i)
      PROVE  Ahead'
  <2>1. \A j \in Ids : load'[j] # "none" => load[j] # "none"
    BY <1>2 DEF Worker, LoadStart, LoadDownload, LoadVerify, LoadDigest, LoadPublish, LoadClean, LoadFail, LoadStep,
       InstallVerify, InstallApt, InstallPublish, InstallClean, TypeOK
  <2>2. \A j \in Ids : inst'[j] # "none" => inst[j] # "none"
    BY <1>2 DEF Worker, LoadStart, LoadDownload, LoadVerify, LoadDigest, LoadPublish, LoadClean, LoadFail,
       InstallVerify, InstallApt, InstallPublish, InstallClean, InstallStep, TypeOK
  <2>3. \A j \in Ids : dirs'[j] # "none" => dirs[j] # "none" \/ load[j] # "none"
    BY <1>2 DEF Worker, LoadStart, LoadDownload, LoadVerify, LoadDigest, LoadPublish, LoadClean, LoadFail, LoadStep,
       InstallVerify, InstallApt, InstallPublish, InstallClean, TypeOK
  <2>4. made' = made
    BY <1>2 DEF Worker, LoadStart, LoadDownload, LoadVerify, LoadDigest, LoadPublish, LoadClean, LoadFail,
       InstallVerify, InstallApt, InstallPublish, InstallClean
  <2>. QED  BY <2>1, <2>2, <2>3, <2>4 DEF Ahead
<1>3. ASSUME NEW i \in Ids, PackageLost(i)
      PROVE  Ahead'
  BY <1>3 DEF PackageLost, Ahead, TypeOK
<1>4. CASE OtherInstall \/ AptFinishes \/ UNCHANGED vars
  BY <1>4 DEF OtherInstall, AptFinishes, vars, work, Ahead
<1>5. CASE EngineRestart
  BY <1>5 DEF EngineRestart, Ahead
<1>. QED  BY <1>1, <1>2, <1>3, <1>4, <1>5 DEF Next, World

LEMMA DownloadsStep ==
  ASSUME TypeOK, Downloads, [Next]_vars
  PROVE  Downloads'
<1>0. made \in Int /\ made' \in Int
  BY TypeStep, UpdateAssumption DEF TypeOK
<1>1. ASSUME NEW r \in Clients, AskStatus(r) \/ AskUpdate(r) \/ Request(r)
      PROVE  Downloads'
  <2>0. made' \in {made, made + 1}
    BY <1>1, RequestWork DEF Request, BeginInstall, BeginOperation, LaunchWorker, DirectLookup, DirectDownload, DirectRun
  <2>1. made <= made'
    BY <1>0, <2>0
  <2>2. \A s \in Clients \ {r} : pc'[s] = pc[s] /\ loc'[s] = loc[s]
    BY <1>1 DEF AskStatus, AskUpdate, Request, StatusKnown, StatusAsksFeeds, StatusFetched, HandOver, RunUserUpdate,
       OpenStore, DecideAnswered, BeginInstall, BeginOperation, Lookup, FindAsset, LaunchWorker, LaunchFailed,
       Report, DirectLookup, DirectDownload, DirectRun, Answer, Goto, TypeOK
  <2>3. ASSUME pc'[r] \in {"direct download", "direct verify"}
        PROVE  loc'[r].op \in 1..made'
    <3>1. CASE DirectLookup(r)
      <4>1. made' = made + 1 /\ \E v : loc' = [loc EXCEPT ![r] = [@ EXCEPT !.op = made + 1, !.latest = v]]
        BY <2>3, <3>1 DEF DirectLookup, Answer, Goto, TypeOK
      <4>2. loc'[r].op = made + 1
        BY <4>1 DEF TypeOK
      <4>3. made \in Nat
        BY UpdateAssumption DEF TypeOK
      <4>. QED  BY <4>1, <4>2, <4>3
    <3>2. CASE DirectDownload(r)
      <4>1. loc' = loc /\ made' = made
        BY <2>3, <3>2 DEF DirectDownload, Answer, Goto, TypeOK
      <4>. QED  BY <3>2, <4>1 DEF Downloads, DirectDownload
    <3>3. CASE ~DirectLookup(r) /\ ~DirectDownload(r)
      BY <1>1, <2>3, <3>3 DEF AskStatus, AskUpdate, Request, StatusKnown, StatusAsksFeeds, StatusFetched, HandOver, RunUserUpdate,
       OpenStore, DecideAnswered, BeginInstall, BeginOperation, Lookup, FindAsset, LaunchWorker, LaunchFailed,
       Report, DirectRun, Answer, Goto, TypeOK
    <3>. QED  BY <3>1, <3>2, <3>3
  <2>4. ASSUME NEW s \in Clients \ {r}, pc'[s] \in {"direct download", "direct verify"}
        PROVE  loc'[s].op \in 1..made'
    <3>1. loc'[s].op \in 1..made
      BY <2>2, <2>4 DEF Downloads
    <3>. QED  BY <1>0, <2>1, <3>1
  <2>. QED  BY <2>3, <2>4 DEF Downloads
<1>2. ASSUME NEW i \in Ids, Worker(i)
      PROVE  Downloads'
  <2>1. UNCHANGED <<made, pc, loc>>
    BY <1>2 DEF Worker, LoadStart, LoadDownload, LoadVerify, LoadDigest, LoadPublish, LoadClean, LoadFail,
       InstallVerify, InstallApt, InstallPublish, InstallClean
  <2>. QED  BY <2>1 DEF Downloads
<1>3. CASE OtherInstall \/ AptFinishes \/ UNCHANGED vars \/ \E i \in Ids : PackageLost(i)
  <2>1. UNCHANGED <<made, pc, loc>>
    BY <1>3 DEF OtherInstall, AptFinishes, PackageLost, vars
  <2>. QED  BY <2>1 DEF Downloads
<1>4. CASE EngineRestart
  BY <1>4 DEF EngineRestart, Downloads
<1>. QED  BY <1>1, <1>2, <1>3, <1>4 DEF Next, World

\* The steps of an operation that is prepared, up to its worker.
LEMMA PrepareKeeps ==
  ASSUME TypeOK, OpInv, NEW r \in Clients, Lookup(r) \/ FindAsset(r) \/ LaunchFailed(r)
  PROVE  /\ Prepares(r) /\ UNCHANGED <<world, made, load, inst, dirs>>
         /\ cur' \in {cur, 0}
         /\ \A j \in Ids : ops'[j].deb = ops[j].deb
         /\ Phase' \in Fetching \cup {"failed", "none"}
<1>1. Prepares(r)
  BY Preparer DEF Lookup, FindAsset, LaunchFailed, Fetchers
<1>2. UNCHANGED <<world, made, load, inst, dirs>>
  BY DEF Lookup, FindAsset, LaunchFailed, work
<1>3. cur' \in {cur, 0}
  BY DEF Lookup, FindAsset, LaunchFailed
<1>4. cur \in Ids /\ loc[r].op = cur
  BY <1>1, UpdateAssumption DEF Prepares, TypeOK, Ids
<1>5. CASE SetFailed /\ cur' = cur
  <2>1. Phase' = "failed"
    BY <1>1, <1>5, PhaseIsSet DEF Prepares, SetFailed
  <2>2. \A j \in Ids : ops'[j].deb = ops[j].deb
    BY <1>5 DEF SetFailed, SetPhase, TypeOK
  <2>. QED  BY <1>1, <1>2, <1>3, <2>1, <2>2
<1>6. CASE (\E v : ops' = [ops EXCEPT ![loc[r].op].target = v]) \/ UNCHANGED ops
  <2>0. ASSUME NEW v, ops' = [ops EXCEPT ![loc[r].op].target = v], NEW j \in Ids
        PROVE  ops'[j].deb = ops[j].deb /\ ops'[j].phase = ops[j].phase
    BY <2>0 DEF TypeOK
  <2>1. \A j \in Ids : ops'[j].deb = ops[j].deb /\ ops'[j].phase = ops[j].phase
    BY <1>6, <2>0
  <2>2. Phase' \in {Phase, "none"}
    BY <1>3, <1>4, <2>1 DEF Phase
  <2>3. Phase \in Fetching
    BY <1>1 DEF Prepares
  <2>. QED  BY <1>1, <1>2, <1>3, <2>1, <2>2, <2>3
<1>. QED  BY <1>5, <1>6 DEF Lookup, FindAsset, LaunchFailed

LEMMA SetPhaseKeeps ==
  ASSUME TypeOK, NEW phase, SetPhase(phase)
  PROVE  \A j \in Ids : ops'[j].deb = ops[j].deb /\ ops'[j].target = ops[j].target
  BY DEF SetPhase, TypeOK

\* The workers of an operation.
LoadAny(i) ==
  \/ LoadStart(i) \/ LoadDownload(i) \/ LoadVerify(i) \/ LoadDigest(i)
  \/ LoadPublish(i) \/ LoadClean(i) \/ LoadFail(i)
InstallAny(i) == InstallVerify(i) \/ InstallApt(i) \/ InstallPublish(i) \/ InstallClean(i)

LEMMA LoadKeeps ==
  ASSUME TypeOK, OpInv, NEW i \in Ids, LoadAny(i)
  PROVE  Loads(i) /\ UNCHANGED <<world, cur, made, pc, loc, inst>>
<1>1. load[i] # "none"
  BY DEF LoadAny, LoadStart, LoadDownload, LoadVerify, LoadDigest, LoadPublish, LoadClean, LoadFail, LoadStep
<1>2. UNCHANGED <<world, cur, made, pc, loc, inst>>
  BY DEF LoadAny, LoadStart, LoadDownload, LoadVerify, LoadDigest, LoadPublish, LoadClean, LoadFail
<1>. QED  BY <1>1, <1>2, Loader

LEMMA InstallKeeps ==
  ASSUME TypeOK, OpInv, NEW i \in Ids, InstallAny(i)
  PROVE  /\ UNCHANGED <<kind, gone, cur, made, pc, loc, load>>
         /\ \A j \in Ids : ops'[j].deb = ops[j].deb /\ ops'[j].target = ops[j].target
         /\ \/ inst[i] \in AtWork /\ Installs(i) /\ UNCHANGED dirs
               /\ Phase' \in {"installing", "failed", "installed"}
            \/ InstallClean(i) /\ Phase' = Phase
<1>1. UNCHANGED <<kind, gone, cur, made, pc, loc, load>>
  BY DEF InstallAny, InstallVerify, InstallApt, InstallPublish, InstallClean, world
<1>2. CASE InstallClean(i)
  BY <1>1, <1>2 DEF InstallClean, Phase
<1>3. CASE ~InstallClean(i)
  <2>1. inst[i] \in AtWork /\ UNCHANGED dirs
    BY <1>3 DEF InstallAny, InstallVerify, InstallApt, InstallPublish, InstallStep, AtWork
  <2>2. Installs(i) /\ cur # 0
    BY <2>1, Installer, UpdateAssumption DEF Installs, Ids
  <2>3. UNCHANGED ops \/ \E phase \in {"failed", "installed"} : SetPhase(phase)
    BY <1>3 DEF InstallAny, InstallVerify, InstallApt, InstallPublish, SetFailed
  <2>4. \A j \in Ids : ops'[j].deb = ops[j].deb /\ ops'[j].target = ops[j].target
    BY <2>3, SetPhaseKeeps
  <2>5. CASE UNCHANGED ops
    BY <1>1, <2>1, <2>2, <2>4, <2>5 DEF Phase, Installs
  <2>6. ASSUME NEW phase \in {"failed", "installed"}, SetPhase(phase)
        PROVE  Phase' = phase
    BY <1>1, <2>2, <2>6, PhaseIsSet
  <2>. QED  BY <1>1, <2>1, <2>2, <2>3, <2>4, <2>5, <2>6
<1>. QED  BY <1>2, <1>3

LEMMA EndedStep ==
  ASSUME TypeOK, OpInv, Ahead, Ended, [Next]_vars
  PROVE  Ended'
<1>1. ASSUME NEW r \in Clients, AsideRequest(r)
      PROVE  Ended'
  BY <1>1, AsideKeeps DEF Ended, Phase
<1>2. ASSUME NEW r \in Clients, BeginInstall(r)
      PROVE  Ended'
  <2>1. \A i \in Ids : inst'[i] = "clean" => inst[i] = "clean"
    BY <1>2 DEF BeginInstall, TypeOK
  <2>2. cur' = cur /\ Phase = "ready"
    BY <1>2 DEF BeginInstall
  <2>3. \A i \in Ids : ~ (inst[i] = "clean" /\ cur = i)
    BY <2>2 DEF Ended
  <2>. QED  BY <2>1, <2>2, <2>3 DEF Ended
<1>3. ASSUME NEW r \in Clients, BeginOperation(r)
      PROVE  Ended'
  <2>1. cur' = made + 1 /\ inst' = inst /\ made \in Int
    BY <1>3, UpdateAssumption DEF BeginOperation, TypeOK, work
  <2>. QED  BY <2>1 DEF Ended, Ahead, Ids
<1>4. ASSUME NEW r \in Clients, Lookup(r) \/ FindAsset(r) \/ LaunchFailed(r)
      PROVE  Ended'
  <2>1. \A i \in Ids : ~ (inst[i] = "clean" /\ cur = i)
    BY <1>4, PrepareKeeps DEF Ended, Prepares, Fetching
  <2>. QED  BY <1>4, <2>1, PrepareKeeps, UpdateAssumption DEF Ended, Ids
<1>5. ASSUME NEW r \in Clients, LaunchWorker(r)
      PROVE  Ended'
  <2>1. Prepares(r)
    BY <1>5, Preparer DEF LaunchWorker, Fetchers
  <2>2. \A i \in Ids : ~ (inst[i] = "clean" /\ cur = i)
    BY <2>1 DEF Ended, Prepares, Fetching
  <2>. QED  BY <1>5, <2>2 DEF Ended, LaunchWorker
<1>6. ASSUME NEW i \in Ids, LoadAny(i)
      PROVE  Ended'
  <2>1. \A j \in Ids : ~ (inst[j] = "clean" /\ cur = j)
    BY <1>6, LoadKeeps DEF Ended, Loads, Fetching
  <2>. QED  BY <1>6, <2>1, LoadKeeps DEF Ended
<1>7. ASSUME NEW i \in Ids, InstallAny(i)
      PROVE  Ended'
  <2>1. \A j \in Ids : j # i => inst'[j] = inst[j]
    BY <1>7 DEF InstallAny, InstallVerify, InstallApt, InstallPublish, InstallClean, InstallStep, TypeOK
  <2>2. CASE InstallClean(i)
    <3>1. inst'[i] = "none" /\ Phase' = Phase /\ cur' = cur
      BY <2>2 DEF InstallClean, InstallStep, TypeOK, Phase
    <3>. QED  BY <2>1, <3>1 DEF Ended
  <2>3. CASE inst[i] \in AtWork /\ ~InstallClean(i)
    <3>1. Installs(i) /\ cur' = cur
      BY <1>7, <2>3, InstallKeeps
    <3>2. ASSUME inst'[i] = "clean" PROVE Phase' \in {"failed", "installed"}
      <4>1. \E phase \in {"failed", "installed"} : SetPhase(phase)
        BY <1>7, <2>3, <3>2 DEF InstallAny, InstallVerify, InstallApt, InstallPublish, InstallStep, SetFailed, TypeOK
      <4>2. cur # 0
        BY <3>1, UpdateAssumption DEF Installs, Ids
      <4>. QED  BY <3>1, <4>1, <4>2, PhaseIsSet
    <3>. QED  BY <2>1, <3>1, <3>2 DEF Ended, Installs
  <2>. QED  BY <1>7, <2>2, <2>3, InstallKeeps
<1>8. CASE OtherInstall \/ AptFinishes \/ UNCHANGED vars \/ \E i \in Ids : PackageLost(i)
  <2>1. UNCHANGED <<inst, cur, ops>>
    BY <1>8 DEF OtherInstall, AptFinishes, PackageLost, vars, work
  <2>. QED  BY <2>1 DEF Ended, Phase
<1>9. CASE EngineRestart
  BY <1>9 DEF EngineRestart, Ended
<1>. QED  BY <1>1, <1>2, <1>3, <1>4, <1>5, <1>6, <1>7, <1>8, <1>9
          DEF Next, World, Worker, Request, AsideRequest, LoadAny, InstallAny

LEMMA PackagesStep ==
  ASSUME TypeOK, OpInv, Packages, [Next]_vars
  PROVE  Packages'
<1>0. cur \in Nat
  BY UpdateAssumption DEF TypeOK
<1>1. ASSUME NEW r \in Clients, AsideRequest(r)
      PROVE  Packages'
  BY <1>1, AsideKeeps DEF Packages, Phase
<1>2. ASSUME NEW r \in Clients, BeginInstall(r)
      PROVE  Packages'
  <2>1. cur' = cur /\ Phase = "ready" /\ SetPhase("installing")
    BY <1>2 DEF BeginInstall
  <2>2. cur # 0
    BY <2>1 DEF Phase
  <2>3. Phase' = "installing"
    BY <2>1, <2>2, PhaseIsSet
  <2>4. \A i \in Ids : inst'[i] \in AtWork => inst[i] \in AtWork \/ i = cur
    BY <1>2 DEF BeginInstall, TypeOK
  <2>. QED  BY <2>1, <2>3, <2>4, SetPhaseKeeps DEF Packages
<1>3. ASSUME NEW r \in Clients, BeginOperation(r)
      PROVE  Packages'
  BY <1>3, BeginKeeps DEF Packages, Idle, NoInstall, BeginOperation, work
<1>4. ASSUME NEW r \in Clients, Lookup(r) \/ FindAsset(r) \/ LaunchFailed(r)
      PROVE  Packages'
  BY <1>4, PrepareKeeps DEF Packages, Prepares, NoInstall, Fetching
<1>5. ASSUME NEW r \in Clients, LaunchWorker(r)
      PROVE  Packages'
  BY <1>5, LaunchKeeps DEF Packages, Prepares, NoInstall
<1>6. ASSUME NEW i \in Ids, LoadAny(i)
      PROVE  Packages'
  <2>1. Loads(i) /\ UNCHANGED <<cur, inst>> /\ cur \in Ids /\ cur # 0
    BY <1>6, LoadKeeps, UpdateAssumption DEF Loads, Ids
  <2>2. CASE LoadPublish(i)
    <3>1. ops'[cur].deb = cur
      BY <2>1, <2>2 DEF LoadPublish, MarkReady, Loads, TypeOK
    <3>. QED  BY <2>1, <3>1 DEF Packages, Loads, NoInstall
  <2>3. CASE ~LoadPublish(i)
    <3>1. UNCHANGED ops \/ \E phase \in {"downloading", "verifying", "failed"} : SetPhase(phase)
      BY <1>6, <2>3 DEF LoadAny, LoadStart, LoadDownload, LoadVerify, LoadDigest, LoadClean, LoadFail, SetFailed
    <3>2. CASE UNCHANGED ops
      <4>1. Phase' = Phase
        BY <2>1, <3>2 DEF Phase
      <4>. QED  BY <2>1, <4>1 DEF Packages, Loads, Fetching, NoInstall
    <3>3. ASSUME NEW phase \in {"downloading", "verifying", "failed"}, SetPhase(phase)
          PROVE  Packages'
      <4>1. Phase' = phase
        BY <2>1, <3>3, PhaseIsSet
      <4>. QED  BY <2>1, <4>1 DEF Packages, Loads, NoInstall
    <3>. QED  BY <3>1, <3>2, <3>3
  <2>. QED  BY <2>2, <2>3
<1>7. ASSUME NEW i \in Ids, InstallAny(i)
      PROVE  Packages'
  <2>1. \A j \in Ids : inst'[j] \in AtWork => inst[j] \in AtWork
    BY <1>7 DEF InstallAny, InstallVerify, InstallApt, InstallPublish, InstallClean, InstallStep, AtWork, TypeOK
  <2>2. Phase' = "ready" => Phase = "ready" /\ cur \in Ids /\ cur' = cur
    <3>1. Phase = "ready" => cur \in Ids
      BY UpdateAssumption DEF Phase, TypeOK, Ids
    <3>. QED  BY <1>7, <3>1, InstallKeeps
  <2>. QED  BY <1>7, <2>1, <2>2, InstallKeeps DEF Packages
<1>8. CASE OtherInstall \/ AptFinishes \/ UNCHANGED vars \/ \E i \in Ids : PackageLost(i)
  <2>1. UNCHANGED <<inst, cur, ops>>
    BY <1>8 DEF OtherInstall, AptFinishes, PackageLost, vars, work
  <2>. QED  BY <2>1 DEF Packages, Phase
<1>9. CASE EngineRestart
  BY <1>9 DEF EngineRestart, Packages, Phase, AtWork
<1>. QED  BY <1>1, <1>2, <1>3, <1>4, <1>5, <1>6, <1>7, <1>8, <1>9
          DEF Next, World, Worker, Request, AsideRequest, LoadAny, InstallAny

LEMMA TargetsStep ==
  ASSUME TypeOK, OpInv, Ahead, Targets, [Next]_vars
  PROVE  Targets'
<1>1. ASSUME NEW r \in Clients, AsideRequest(r)
      PROVE  Targets'
  <2>1. UNCHANGED <<ops, load>>
    BY <1>1, AsideKeeps
  <2>2. \A s \in Clients : pc'[s] \in {"asset", "launch"} => pc'[s] = pc[s] /\ loc'[s] = loc[s]
    BY <1>1 DEF AsideRequest, AskStatus, AskUpdate, StatusKnown, StatusAsksFeeds, StatusFetched, HandOver,
       RunUserUpdate, OpenStore, DecideAnswered, Report, DirectLookup, DirectDownload, DirectRun, Answer, Goto, TypeOK
  <2>. QED  BY <2>1, <2>2 DEF Targets
<1>2. ASSUME NEW r \in Clients, BeginInstall(r) \/ BeginOperation(r)
      PROVE  Targets'
  <2>1. Idle
    BY <1>2, Unattended DEF BeginInstall, BeginOperation, Phase, Busy
  <2>2. UNCHANGED load
    BY <1>2 DEF BeginInstall, BeginOperation, work
  <2>3. \A s \in Clients : pc'[s] \notin {"asset", "launch"}
    BY <1>2, <2>1 DEF BeginInstall, BeginOperation, Answer, Goto, TypeOK, Idle, NoRequest, Fetchers
  <2>. QED  BY <2>1, <2>2, <2>3 DEF Targets, Idle, NoLoad
<1>3. ASSUME NEW r \in Clients, Lookup(r)
      PROVE  Targets'
  <2>1. Prepares(r) /\ UNCHANGED load
    BY <1>3, PrepareKeeps
  <2>2. \A s \in Clients \ {r} : pc'[s] = pc[s] /\ loc'[s] = loc[s]
    BY <1>3 DEF Lookup, Answer, Goto, TypeOK
  <2>3. ASSUME pc'[r] \in {"asset", "launch"}
        PROVE  loc'[r].latest \in Versions
    <3>1. PICK v \in LatestAnswers(feed, running) : IsNewer(v, loc[r].ver) /\ loc' = [loc EXCEPT ![r].latest = v]
      BY <1>3, <2>3 DEF Lookup, Answer, TypeOK
    <3>2. v \in Versions
      BY <3>1, LookupAnswers, NewerIsVersion DEF TypeOK
    <3>. QED  BY <3>1, <3>2 DEF TypeOK
  <2>. QED  BY <2>1, <2>2, <2>3 DEF Targets, Prepares, NoLoad
<1>4. ASSUME NEW r \in Clients, FindAsset(r) \/ LaunchFailed(r)
      PROVE  Targets'
  <2>1. Prepares(r) /\ UNCHANGED load
    BY <1>4, PrepareKeeps
  <2>2. \A s \in Clients : pc'[s] \in {"asset", "launch"} => pc[s] \in {"asset", "launch"} /\ loc'[s] = loc[s]
    BY <1>4 DEF FindAsset, LaunchFailed, Answer, Goto, TypeOK
  <2>. QED  BY <2>1, <2>2 DEF Targets, Prepares, NoLoad
<1>5. ASSUME NEW r \in Clients, LaunchWorker(r)
      PROVE  Targets'
  <2>1. loc[r].latest \in Versions
    BY <1>5 DEF LaunchWorker, Targets
  <2>2. \A s \in Clients : pc'[s] \in {"asset", "launch"} => pc[s] \in {"asset", "launch"}
    BY <1>5 DEF LaunchWorker, Goto, TypeOK
  <2>3. \A i \in Ids : load'[i] # "none" => i = cur
    <3>1. NoLoad /\ cur \in Ids /\ loc[r].op = cur
      BY <1>5, LaunchKeeps DEF Prepares
    <3>. QED  BY <1>5, <3>1 DEF LaunchWorker, NoLoad, TypeOK
  <2>. QED  BY <1>5, <2>1, <2>2, <2>3, LaunchKeeps DEF Targets
<1>6. ASSUME NEW i \in Ids, LoadAny(i)
      PROVE  Targets'
  <2>1. Loads(i) /\ UNCHANGED <<pc, loc>>
    BY <1>6, LoadKeeps
  <2>2. CASE LoadPublish(i)
    <3>1. \A j \in Ids : load'[j] = "none"
      BY <2>1, <2>2 DEF LoadPublish, LoadStep, Loads, TypeOK
    <3>. QED  BY <2>1, <3>1 DEF Targets
  <2>3. CASE ~LoadPublish(i)
    <3>1. UNCHANGED ops \/ \E phase : SetPhase(phase)
      BY <1>6, <2>3 DEF LoadAny, LoadStart, LoadDownload, LoadVerify, LoadDigest, LoadClean, LoadFail, SetFailed
    <3>2. \A j \in Ids : ops'[j].target = ops[j].target
      BY <3>1, SetPhaseKeeps
    <3>3. \A j \in Ids : load'[j] # "none" => load[j] # "none"
      BY <1>6 DEF LoadAny, LoadStart, LoadDownload, LoadVerify, LoadDigest, LoadPublish, LoadClean, LoadFail,
         LoadStep, TypeOK
    <3>. QED  BY <2>1, <3>2, <3>3 DEF Targets
  <2>. QED  BY <2>2, <2>3
<1>7. ASSUME NEW i \in Ids, InstallAny(i)
      PROVE  Targets'
  BY <1>7, InstallKeeps DEF Targets
<1>8. CASE OtherInstall \/ AptFinishes \/ UNCHANGED vars \/ \E i \in Ids : PackageLost(i)
  <2>1. UNCHANGED <<pc, loc, load, ops>>
    BY <1>8 DEF OtherInstall, AptFinishes, PackageLost, vars, work
  <2>. QED  BY <2>1 DEF Targets
<1>9. CASE EngineRestart
  BY <1>9 DEF EngineRestart, Targets
<1>. QED  BY <1>1, <1>2, <1>3, <1>4, <1>5, <1>6, <1>7, <1>8, <1>9
          DEF Next, World, Worker, Request, AsideRequest, LoadAny, InstallAny

LEMMA FileStep ==
  ASSUME TypeOK, OpInv, FileInv, [Next]_vars
  PROVE  FileInv'
  BY KindsStep, AheadStep, DownloadsStep, EndedStep, PackagesStep, TargetsStep DEF FileInv

-----------------------------------------------------------------------------
(* What is installed is verified, and nothing is left over.                   *)

LEMMA VerifiedStep ==
  ASSUME TypeOK, OpInv, FileInv, OnlyVerified, [Next]_vars
  PROVE  OnlyVerified'
<1>0. \A i \in Ids : inst[i] = "apt" => Installs(i) /\ kind = "linux-package" /\ ops[i].deb = i
  BY Installer DEF AtWork, FileInv, Kinds, Packages
<1>1. ASSUME NEW r \in Clients, AsideRequest(r)
      PROVE  OnlyVerified'
  <2>1. UNCHANGED <<ops, inst>>
    BY <1>1, AsideKeeps
  <2>2. CASE UNCHANGED dirs
    BY <2>1, <2>2 DEF OnlyVerified
  <2>3. CASE ~UNCHANGED dirs
    <3>1. DirectLookup(r) \/ DirectDownload(r) \/ DirectRun(r)
      BY <1>1, <2>3 DEF AsideRequest, AskStatus, AskUpdate, StatusKnown, StatusAsksFeeds, StatusFetched, HandOver,
         RunUserUpdate, OpenStore, DecideAnswered, Report, work
    <3>2. kind = "windows-direct"
      BY <3>1 DEF FileInv, Kinds, DirectLookup, DirectDownload, DirectRun
    <3>3. \A i \in Ids : dirs'[i] # "running bad"
      BY <3>1 DEF OnlyVerified, DirectLookup, DirectDownload, DirectRun, DigestMatches, TypeOK
    <3>4. \A i \in Ids : inst[i] # "apt"
      BY <1>0, <3>2
    <3>. QED  BY <2>1, <3>3, <3>4 DEF OnlyVerified
  <2>. QED  BY <2>2, <2>3
<1>2. ASSUME NEW r \in Clients, BeginInstall(r) \/ BeginOperation(r)
      PROVE  OnlyVerified'
  <2>1. Idle /\ UNCHANGED dirs
    BY <1>2, Unattended DEF BeginInstall, BeginOperation, Phase, Busy, work
  <2>2. \A i \in Ids : inst'[i] = "apt" => inst[i] = "apt"
    BY <1>2 DEF BeginInstall, BeginOperation, work, TypeOK
  <2>. QED  BY <2>1, <2>2 DEF OnlyVerified, Idle, NoInstall, AtWork
<1>3. ASSUME NEW r \in Clients, Lookup(r) \/ FindAsset(r) \/ LaunchFailed(r)
      PROVE  OnlyVerified'
  BY <1>3, PrepareKeeps DEF OnlyVerified
<1>4. ASSUME NEW r \in Clients, LaunchWorker(r)
      PROVE  OnlyVerified'
  <2>1. Prepares(r) /\ UNCHANGED <<inst, dirs>>
    BY <1>4, Preparer DEF LaunchWorker, Fetchers
  <2>. QED  BY <2>1 DEF OnlyVerified, Prepares, NoInstall, AtWork
<1>5. ASSUME NEW i \in Ids, LoadAny(i)
      PROVE  OnlyVerified'
  <2>1. \A j \in Ids : dirs'[j] # "running bad"
    BY <1>5 DEF OnlyVerified, LoadAny, LoadStart, LoadDownload, LoadVerify, LoadDigest, LoadPublish, LoadClean,
       LoadFail, TypeOK
  <2>2. Loads(i) /\ UNCHANGED inst
    BY <1>5, LoadKeeps
  <2>. QED  BY <2>1, <2>2 DEF OnlyVerified, Loads, NoInstall, AtWork
<1>6. ASSUME NEW i \in Ids, InstallAny(i)
      PROVE  OnlyVerified'
  <2>1. CASE InstallClean(i)
    <3>1. \A j \in Ids : inst'[j] = "apt" => inst[j] = "apt"
      BY <2>1 DEF InstallClean, InstallStep, TypeOK
    <3>2. \A j \in Ids : dirs'[j] \in {dirs[j], "none"}
      BY <2>1 DEF InstallClean, TypeOK
    <3>3. UNCHANGED ops
      BY <2>1 DEF InstallClean
    <3>4. \A j \in Ids : inst[j] = "apt" => dirs'[ops'[j].deb] \notin {"bad", "empty"}
      BY <1>0, <3>2, <3>3 DEF OnlyVerified
    <3>. QED  BY <3>1, <3>2, <3>4 DEF OnlyVerified
  <2>2. CASE ~InstallClean(i)
    <3>1. Installs(i) /\ UNCHANGED dirs
      BY <1>6, <2>2, InstallKeeps
    <3>2. ASSUME NEW j \in Ids, inst'[j] = "apt"
          PROVE  dirs[ops[j].deb] = "good"
      <4>1. j = i
        BY <1>6, <3>1, <3>2 DEF Installs, InstallAny, InstallVerify, InstallApt, InstallPublish, InstallClean,
           InstallStep, AtWork, TypeOK
      <4>. QED  BY <1>6, <3>2, <4>1 DEF InstallAny, InstallVerify, InstallApt, InstallPublish, InstallClean,
           InstallStep, DigestMatches, TypeOK
    <3>. QED  BY <1>6, <3>1, <3>2, InstallKeeps DEF OnlyVerified
  <2>. QED  BY <2>1, <2>2
<1>7. ASSUME NEW i \in Ids, PackageLost(i)
      PROVE  OnlyVerified'
  <2>1. UNCHANGED <<ops, inst>> /\ \A j \in Ids : dirs'[j] \in {dirs[j], "lost"}
    BY <1>7 DEF PackageLost, TypeOK
  <2>. QED  BY <1>0, <2>1 DEF OnlyVerified
<1>8. CASE OtherInstall \/ AptFinishes \/ UNCHANGED vars
  <2>1. UNCHANGED <<dirs, inst, ops>>
    BY <1>8 DEF OtherInstall, AptFinishes, vars, work
  <2>. QED  BY <2>1 DEF OnlyVerified
<1>9. CASE EngineRestart
  BY <1>9 DEF EngineRestart, OnlyVerified
<1>. QED  BY <1>1, <1>2, <1>3, <1>4, <1>5, <1>6, <1>7, <1>8, <1>9
          DEF Next, World, Worker, Request, AsideRequest, LoadAny, InstallAny

\* Somebody will still use or remove the folder of operation i.
Owned(i) ==
  \/ load[i] \notin {"none", "fail"}
  \/ \E j \in Ids : inst[j] # "none" /\ ops[j].deb = i
  \/ Phase = "ready" /\ ops[cur].deb = i
  \/ \E r \in Clients : pc[r] \in {"direct download", "direct verify"} /\ loc[r].op = i
Filled(i) == i > gone /\ dirs[i] \notin {"none", "running"}

LEMMA LeftoversOwned == NoLeftovers <=> \A i \in Ids : Filled(i) => Owned(i)
  BY DEF NoLeftovers, Owned, Filled

\* A step that fills no other folder and gives none away.
LEMMA OwnersStay ==
  ASSUME NoLeftovers, \A i \in Ids : Filled(i)' => (Filled(i) /\ (Owned(i) => Owned(i)')) \/ Owned(i)'
  PROVE  NoLeftovers'
<1>1. \A i \in Ids : Filled(i)' => Owned(i)'
  BY LeftoversOwned
<1>. QED  BY <1>1 DEF NoLeftovers, Owned, Filled

LEMMA LeftoversStep ==
  ASSUME TypeOK, OpInv, FileInv, NoLeftovers, [Next]_vars
  PROVE  NoLeftovers'
<1>1. ASSUME NEW r \in Clients, AsideRequest(r)
      PROVE  NoLeftovers'
  <2>1. UNCHANGED <<cur, ops, load, inst, gone>> /\ Phase' = Phase
    BY <1>1, AsideKeeps DEF Phase
  <2>2. \A s \in Clients \ {r} : pc'[s] = pc[s] /\ loc'[s] = loc[s]
    BY <1>1 DEF AsideRequest, AskStatus, AskUpdate, StatusKnown, StatusAsksFeeds, StatusFetched, HandOver,
       RunUserUpdate, OpenStore, DecideAnswered, Report, DirectLookup, DirectDownload, DirectRun, Answer, Goto, TypeOK
  <2>3. CASE DirectLookup(r) /\ ~UNCHANGED dirs
    <3>1. /\ dirs' = [dirs EXCEPT ![made + 1] = "empty"]
          /\ \E v : loc' = [loc EXCEPT ![r] = [@ EXCEPT !.op = made + 1, !.latest = v]]
          /\ pc' = [pc EXCEPT ![r] = "direct download"]
      BY <2>3 DEF DirectLookup, Goto
    <3>2. loc'[r].op = made + 1 /\ pc'[r] = "direct download"
      BY <3>1 DEF TypeOK
    <3>3. \A i \in Ids : i # made + 1 => dirs'[i] = dirs[i]
      BY <3>1 DEF TypeOK
    <3>4. pc[r] = "direct"
      BY <2>3 DEF DirectLookup
    <3>. QED  BY <2>1, <2>2, <3>2, <3>3, <3>4, OwnersStay DEF Owned, Filled
  <2>4. CASE DirectDownload(r)
    <3>1. \A i \in Ids : i # loc[r].op => dirs'[i] = dirs[i]
      BY <2>4 DEF DirectDownload, TypeOK
    <3>2. \/ pc'[r] = "direct verify" /\ loc'[r] = loc[r]
          \/ \A i \in Ids : i = loc[r].op => dirs'[i] = "none"
      BY <2>4 DEF DirectDownload, Goto, TypeOK
    <3>. QED  BY <2>1, <2>2, <3>1, <3>2, OwnersStay DEF Owned, Filled
  <2>5. CASE DirectRun(r)
    <3>1. \A i \in Ids : i # loc[r].op => dirs'[i] = dirs[i]
      BY <2>5 DEF DirectRun, TypeOK
    <3>2. \A i \in Ids : i = loc[r].op => dirs'[i] \in {"none", "running"}
      BY <2>5 DEF DirectRun, DigestMatches, TypeOK
    <3>. QED  BY <2>1, <2>2, <3>1, <3>2, OwnersStay DEF Owned, Filled
  <2>6. CASE ~DirectDownload(r) /\ ~DirectRun(r) /\ UNCHANGED dirs
    <3>1. pc[r] \notin {"direct download", "direct verify"}
      BY <1>1, <2>6 DEF AsideRequest, AskStatus, AskUpdate, StatusKnown, StatusAsksFeeds, StatusFetched, HandOver,
         RunUserUpdate, OpenStore, DecideAnswered, Report, DirectLookup
    <3>. QED  BY <2>1, <2>2, <2>6, <3>1, OwnersStay DEF Owned, Filled
  <2>7. DirectDownload(r) \/ DirectRun(r) \/ DirectLookup(r) \/ UNCHANGED dirs
    BY <1>1 DEF AsideRequest, AskStatus, AskUpdate, StatusKnown, StatusAsksFeeds, StatusFetched, HandOver,
       RunUserUpdate, OpenStore, DecideAnswered, Report, work
  <2>. QED  BY <2>3, <2>4, <2>5, <2>6, <2>7
<1>2. ASSUME NEW r \in Clients, pc[r] \notin {"direct download", "direct verify"},
             UNCHANGED <<gone, dirs>>,
             \A s \in Clients \ {r} : pc'[s] = pc[s] /\ loc'[s] = loc[s],
             \A i \in Ids : load[i] \notin {"none", "fail"} => load'[i] \notin {"none", "fail"},
             \A j \in Ids : inst[j] # "none" => inst'[j] # "none" /\ ops'[j].deb = ops[j].deb,
             Phase = "ready" => \/ Phase' = "ready" /\ ops'[cur'].deb = ops[cur].deb
                                \/ \E j \in Ids : inst'[j] # "none" /\ ops'[j].deb = ops[cur].deb
      PROVE  NoLeftovers'
  BY <1>2, OwnersStay DEF Owned, Filled
<1>3. ASSUME NEW r \in Clients, BeginInstall(r)
      PROVE  NoLeftovers'
  <2>1. Phase = "ready" /\ cur \in Ids
    BY <1>3, UpdateAssumption DEF BeginInstall, Phase, TypeOK, Ids
  <2>2. \A j \in Ids : ops'[j].deb = ops[j].deb
    BY <1>3, SetPhaseKeeps DEF BeginInstall
  <2>3. \A j \in Ids : inst'[j] = IF j = cur THEN "verify" ELSE inst[j]
    BY <1>3 DEF BeginInstall, TypeOK
  <2>4. \A s \in Clients \ {r} : pc'[s] = pc[s] /\ loc'[s] = loc[s]
    BY <1>3 DEF BeginInstall, Answer, TypeOK
  <2>5. UNCHANGED <<gone, dirs, load>> /\ pc[r] \notin {"direct download", "direct verify"}
    BY <1>3 DEF BeginInstall, world
  <2>. QED  BY <1>2, <2>1, <2>2, <2>3, <2>4, <2>5
<1>4. ASSUME NEW r \in Clients, BeginOperation(r)
      PROVE  NoLeftovers'
  <2>1. made \in Int
    BY UpdateAssumption DEF TypeOK
  <2>2. \A j \in Ids : inst[j] # "none" => j # made + 1
    BY <2>1 DEF FileInv, Ahead
  <2>3. \A j \in Ids : j # made + 1 => ops'[j] = ops[j]
    BY <1>4 DEF BeginOperation, TypeOK
  <2>4. \A s \in Clients \ {r} : pc'[s] = pc[s] /\ loc'[s] = loc[s]
    BY <1>4 DEF BeginOperation, Goto, TypeOK
  <2>5. UNCHANGED <<gone, dirs, load, inst>> /\ pc[r] \notin {"direct download", "direct verify"} /\ Phase # "ready"
    BY <1>4 DEF BeginOperation, world, work, Phase
  <2>. QED  BY <1>2, <2>2, <2>3, <2>4, <2>5
<1>5. ASSUME NEW r \in Clients, Lookup(r) \/ FindAsset(r) \/ LaunchFailed(r)
      PROVE  NoLeftovers'
  <2>1. /\ UNCHANGED <<gone, dirs, load, inst>> /\ Phase # "ready"
        /\ \A j \in Ids : ops'[j].deb = ops[j].deb
    BY <1>5, PrepareKeeps DEF world, Prepares, Fetching
  <2>2. \A s \in Clients \ {r} : pc'[s] = pc[s] /\ loc'[s] = loc[s]
    BY <1>5 DEF Lookup, FindAsset, LaunchFailed, Answer, Goto, TypeOK
  <2>3. pc[r] \notin {"direct download", "direct verify"}
    BY <1>5 DEF Lookup, FindAsset, LaunchFailed
  <2>. QED  BY <1>2, <2>1, <2>2, <2>3
<1>6. ASSUME NEW r \in Clients, LaunchWorker(r)
      PROVE  NoLeftovers'
  <2>1. Prepares(r)
    BY <1>6, Preparer DEF LaunchWorker, Fetchers
  <2>2. UNCHANGED <<gone, dirs, inst, loc>> /\ pc[r] \notin {"direct download", "direct verify"}
    BY <1>6 DEF LaunchWorker, world
  <2>3. \A s \in Clients \ {r} : pc'[s] = pc[s]
    BY <1>6 DEF LaunchWorker, Goto, TypeOK
  <2>4. \A j \in Ids : ops'[j].deb = ops[j].deb
    BY <1>6, LaunchKeeps
  <2>. QED  BY <1>2, <2>1, <2>2, <2>3, <2>4 DEF Prepares, NoLoad, Fetching
<1>7. ASSUME NEW i \in Ids, LoadAny(i)
      PROVE  NoLeftovers'
  <2>1. Loads(i) /\ UNCHANGED <<gone, cur, pc, loc, inst>> /\ cur # 0
    BY <1>7, LoadKeeps, UpdateAssumption DEF world, Loads, Ids
  <2>2. \A j \in Ids : j # i => dirs'[j] = dirs[j] /\ load'[j] = load[j]
    BY <1>7 DEF LoadAny, LoadStart, LoadDownload, LoadVerify, LoadDigest, LoadPublish, LoadClean, LoadFail,
       LoadStep, TypeOK
  <2>3. CASE LoadPublish(i)
    <3>1. ops'[i].deb = i /\ \A j \in Ids : j # i => ops'[j] = ops[j]
      BY <2>1, <2>3 DEF LoadPublish, MarkReady, Loads, TypeOK
    <3>2. Phase' = "ready"
      BY <2>1, <2>3 DEF LoadPublish, MarkReady, Loads, Phase, TypeOK
    <3>3. inst[i] = "none"
      BY <2>1 DEF Loads, NoInstall, FileInv, Ended, Fetching, TypeOK, InstallSteps, AtWork
    <3>4. UNCHANGED dirs
      BY <2>3 DEF LoadPublish
    <3>5. \A j \in Ids : inst[j] # "none" => ops'[j].deb = ops[j].deb
      BY <3>1, <3>3
    <3>. QED  BY <2>1, <2>2, <3>1, <3>2, <3>4, <3>5, OwnersStay DEF Owned, Filled, Loads, Fetching
  <2>4. CASE ~LoadPublish(i)
    <3>1. UNCHANGED ops \/ \E phase : SetPhase(phase)
      BY <1>7, <2>4 DEF LoadAny, LoadStart, LoadDownload, LoadVerify, LoadDigest, LoadClean, LoadFail, SetFailed
    <3>2. \A j \in Ids : ops'[j].deb = ops[j].deb
      BY <3>1, SetPhaseKeeps
    <3>3. \/ load'[i] \notin {"none", "fail"}
          \/ dirs'[i] = "none"
          \/ dirs'[i] = dirs[i] /\ load[i] = "fail"
      BY <1>7, <2>4 DEF LoadAny, LoadStart, LoadDownload, LoadVerify, LoadDigest, LoadClean, LoadFail, LoadStep, TypeOK
    <3>. QED  BY <2>1, <2>2, <3>2, <3>3, OwnersStay DEF Owned, Filled, Loads, Fetching
  <2>. QED  BY <2>3, <2>4
<1>8. ASSUME NEW i \in Ids, InstallAny(i)
      PROVE  NoLeftovers'
  <2>1. /\ UNCHANGED <<gone, cur, pc, loc, load>>
        /\ \A j \in Ids : ops'[j].deb = ops[j].deb
    BY <1>8, InstallKeeps
  <2>2. CASE InstallClean(i)
    <3>1. Phase' = Phase
      BY <1>8, <2>1, <2>2 DEF InstallClean, Phase
    <3>2. \A j \in Ids : j # i => inst'[j] = inst[j]
      BY <2>2 DEF InstallClean, InstallStep, TypeOK
    <3>3. \A j \in Ids : dirs'[j] = IF j = ops[i].deb THEN "none" ELSE dirs[j]
      BY <2>2 DEF InstallClean, TypeOK
    <3>4. Phase = "ready" => ops'[cur].deb = ops[cur].deb
      <4>1. Phase = "ready" => cur \in Ids
        BY UpdateAssumption DEF Phase, TypeOK, Ids
      <4>. QED  BY <2>1, <4>1
    <3>. QED  BY <2>1, <3>1, <3>2, <3>3, <3>4, OwnersStay DEF Owned, Filled
  <2>3. CASE ~InstallClean(i)
    <3>1. Installs(i) /\ UNCHANGED dirs
      BY <1>8, <2>3, InstallKeeps
    <3>2. \A j \in Ids : inst[j] # "none" => inst'[j] # "none"
      BY <1>8, <2>3 DEF InstallAny, InstallVerify, InstallApt, InstallPublish, InstallStep, TypeOK
    <3>. QED  BY <2>1, <3>1, <3>2, OwnersStay DEF Owned, Filled, Installs
  <2>. QED  BY <2>2, <2>3
<1>9. ASSUME NEW i \in Ids, PackageLost(i)
      PROVE  NoLeftovers'
  <2>1. UNCHANGED <<gone, cur, ops, pc, loc, load, inst>> /\ Phase' = Phase
    BY <1>9 DEF PackageLost, world, Phase
  <2>2. \A j \in Ids : dirs'[j] \notin {"none", "running"} => dirs[j] \notin {"none", "running"}
    BY <1>9 DEF PackageLost, TypeOK
  <2>. QED  BY <2>1, <2>2, OwnersStay DEF Owned, Filled
<1>10. CASE OtherInstall \/ AptFinishes \/ UNCHANGED vars
  <2>1. UNCHANGED <<gone, cur, ops, pc, loc, load, inst, dirs>>
    BY <1>10 DEF OtherInstall, AptFinishes, vars, work
  <2>2. Phase' = Phase
    BY <2>1 DEF Phase
  <2>. QED  BY <2>1, <2>2, OwnersStay DEF Owned, Filled
<1>11. CASE EngineRestart
  <2>1. \A i \in Ids : ~Filled(i)'
    BY <1>11 DEF EngineRestart, Filled, FileInv, Ahead
  <2>. QED  BY <2>1, OwnersStay
<1>. QED  BY <1>1, <1>3, <1>4, <1>5, <1>6, <1>7, <1>8, <1>9, <1>10, <1>11
          DEF Next, World, Worker, Request, AsideRequest, LoadAny, InstallAny

\* A package folder of this engine belongs to a thread at work or to the package
\* that waits for its install, and only a file with the published digest is
\* given to the package manager or run (_run_linux_package_download_worker,
\* _run_linux_package_install_worker, _run_windows_direct_update): for any
\* number of requests and restarts, whatever fails.
THEOREM FilesAccounted == Spec => []PackageFiles
<1>1. Init => FileInv /\ NoLeftovers /\ OnlyVerified
  BY FileInit DEF Init, NoLeftovers, OnlyVerified
<1>2. Spec => [](TypeOK /\ OpInv /\ FileInv /\ NoLeftovers /\ OnlyVerified)
  BY <1>1, TypeInit, TypeStep, OpInit, OpStep, FileStep, LeftoversStep, VerifiedStep, PTL DEF Spec
<1>. QED  BY <1>2, PTL DEF PackageFiles

-----------------------------------------------------------------------------
(* The refinement of UpdateLife.                                              *)

\* What a phase is to a user, now and after the step.
LEMMA StageOf ==
  /\ Phase \in Fetching => Stage = "fetching" /\ Offered = NoVersion
  /\ Phase \notin Fetching => Stage = Phase
  /\ Phase \in {"none", "failed"} => Offered = NoVersion
  /\ Phase \in {"ready", "installing", "installed"} => Offered = ops[cur].target
  BY DEF Stage, Offered, Fetching

LEMMA StageAfter ==
  /\ Phase' \in Fetching => Stage' = "fetching" /\ Offered' = NoVersion
  /\ Phase' \notin Fetching => Stage' = Phase'
  /\ Phase' \in {"none", "failed"} => Offered' = NoVersion
  /\ Phase' \in {"ready", "installing", "installed"} => Offered' = ops'[cur'].target
  BY DEF Stage, Offered, Fetching

LEMMA SameLife ==
  ASSUME UNCHANGED <<cur, ops>>
  PROVE  UNCHANGED Life!vars
  BY DEF Life!vars, Stage, Offered, Phase

LEMMA StillFetching ==
  ASSUME Phase \in Fetching, Phase' \in Fetching
  PROVE  UNCHANGED Life!vars
  BY StageOf, StageAfter DEF Life!vars

LEMMA Fails ==
  ASSUME Phase \in Fetching \cup {"installing"}, Phase' = "failed"
  PROVE  Life!Fail
  BY StageOf, StageAfter DEF Life!Fail, Fetching

LEMMA PrepareLife ==
  ASSUME TypeOK, OpInv, NEW r \in Clients, Lookup(r) \/ FindAsset(r) \/ LaunchFailed(r)
  PROVE  [Life!Next]_(Life!vars)
<1>1. Phase \in Fetching /\ Phase' \in Fetching \cup {"failed", "none"}
  BY PrepareKeeps DEF Prepares
<1>2. CASE Phase' \in Fetching
  BY <1>1, <1>2, StillFetching
<1>3. CASE Phase' = "failed"
  BY <1>1, <1>3, Fails DEF Life!Next
<1>4. CASE Phase' = "none"
  BY <1>1, <1>4, StageOf, StageAfter DEF Life!Next, Life!UpToDate, Fetching
<1>. QED  BY <1>1, <1>2, <1>3, <1>4

LEMMA BeginLife ==
  ASSUME TypeOK, OpInv, NEW r \in Clients, BeginInstall(r) \/ BeginOperation(r) \/ LaunchWorker(r)
  PROVE  [Life!Next]_(Life!vars)
<1>1. CASE BeginInstall(r)
  <2>1. Phase = "ready" /\ SetPhase("installing") /\ cur' = cur
    BY <1>1 DEF BeginInstall
  <2>2. cur \in Ids /\ cur # 0
    BY <2>1, UpdateAssumption DEF Phase, TypeOK, Ids
  <2>3. Phase' = "installing" /\ ops'[cur'].target = ops[cur].target
    BY <2>1, <2>2, PhaseIsSet, SetPhaseKeeps
  <2>. QED  BY <2>1, <2>3, StageOf, StageAfter DEF Life!Next, Life!Install, Fetching
<1>2. CASE BeginOperation(r)
  <2>1. Phase \in {"none", "failed"}
    BY <1>2 DEF BeginOperation, Phase
  <2>2. Phase' = "preparing"
    BY <1>2, BeginKeeps
  <2>. QED  BY <2>1, <2>2, StageOf, StageAfter DEF Life!Next, Life!Begin, Fetching
<1>3. CASE LaunchWorker(r)
  BY <1>3, LaunchKeeps, StillFetching DEF Prepares, Fetching
<1>. QED  BY <1>1, <1>2, <1>3

LEMMA LoadLife ==
  ASSUME TypeOK, OpInv, FileInv, NEW i \in Ids, LoadAny(i)
  PROVE  [Life!Next]_(Life!vars)
<1>1. cur = i /\ Phase \in Fetching /\ cur' = cur /\ cur # 0 /\ load[i] # "none"
  BY LoadKeeps, UpdateAssumption DEF Loads, Ids
<1>2. CASE LoadPublish(i)
  <2>1. Phase' = "ready" /\ ops'[cur'].target = ops[i].target
    BY <1>1, <1>2 DEF LoadPublish, MarkReady, Phase, TypeOK
  <2>2. ops[i].target \in Versions
    BY <1>1 DEF FileInv, Targets
  <2>. QED  BY <1>1, <2>1, <2>2, StageOf, StageAfter DEF Life!Next, Life!Offer, Fetching
<1>3. CASE UNCHANGED ops
  BY <1>1, <1>3, SameLife
<1>4. ASSUME NEW phase \in {"downloading", "verifying"}, SetPhase(phase)
      PROVE  [Life!Next]_(Life!vars)
  BY <1>1, <1>4, PhaseIsSet, StillFetching DEF Fetching
<1>5. CASE SetPhase("failed")
  BY <1>1, <1>5, PhaseIsSet, Fails DEF Life!Next
<1>. QED  BY <1>2, <1>3, <1>4, <1>5
          DEF LoadAny, LoadStart, LoadDownload, LoadVerify, LoadDigest, LoadClean, LoadFail, SetFailed

LEMMA InstallLife ==
  ASSUME TypeOK, OpInv, NEW i \in Ids, InstallAny(i)
  PROVE  [Life!Next]_(Life!vars)
<1>1. CASE UNCHANGED <<cur, ops>>
  BY <1>1, SameLife
<1>2. CASE ~UNCHANGED <<cur, ops>>
  <2>1. cur' = cur /\ Installs(i) /\ cur # 0 /\ cur \in Ids
    BY <1>2, InstallKeeps, UpdateAssumption DEF InstallClean, Installs, Ids
  <2>2. SetPhase("failed") \/ SetPhase("installed")
    BY <1>2, <2>1 DEF InstallAny, InstallVerify, InstallApt, InstallPublish, InstallClean, SetFailed
  <2>3. CASE SetPhase("failed")
    BY <2>1, <2>3, PhaseIsSet, Fails DEF Installs, Life!Next
  <2>4. CASE SetPhase("installed")
    <3>1. Phase' = "installed" /\ ops'[cur'].target = ops[cur].target
      BY <2>1, <2>4, PhaseIsSet, SetPhaseKeeps
    <3>. QED  BY <2>1, <3>1, StageOf, StageAfter DEF Installs, Life!Next, Life!Finish, Fetching
  <2>. QED  BY <2>2, <2>3, <2>4
<1>. QED  BY <1>1, <1>2

LEMMA LifeStep ==
  ASSUME TypeOK, OpInv, FileInv, [Next]_vars
  PROVE  [Life!Next]_(Life!vars)
<1>1. ASSUME NEW r \in Clients, AsideRequest(r)
      PROVE  [Life!Next]_(Life!vars)
  BY <1>1, AsideKeeps, SameLife
<1>2. CASE OtherInstall \/ AptFinishes \/ UNCHANGED vars \/ \E i \in Ids : PackageLost(i)
  <2>1. UNCHANGED <<cur, ops>>
    BY <1>2 DEF OtherInstall, AptFinishes, PackageLost, vars
  <2>. QED  BY <2>1, SameLife
<1>3. CASE EngineRestart
  <2>1. Phase' = "none"
    BY <1>3 DEF EngineRestart, Phase
  <2>. QED  BY <2>1, StageAfter DEF Life!Next, Life!NewEngine, Fetching
<1>. QED  BY <1>1, <1>2, <1>3, PrepareLife, BeginLife, LoadLife, InstallLife
          DEF Next, World, Worker, Request, AsideRequest, LoadAny, InstallAny

\* The requests and threads of update_status.py together are one update at a
\* time (UpdateLife): what was offered is what is installed, and no late failure
\* of an older thread withdraws it.
THEOREM LifeImplemented == Spec => ImplementsLife
<1>1. Init => Life!Init
  BY StageOf DEF Init, Life!Init, Phase, Fetching
<1>2. Init => TypeOK /\ OpInv /\ FileInv
  BY TypeInit, OpInit, FileInit
<1>3. TypeOK /\ OpInv /\ FileInv /\ [Next]_vars => [Life!Next]_(Life!vars) /\ (TypeOK /\ OpInv /\ FileInv)'
  BY LifeStep, TypeStep, OpStep, FileStep
<1>. QED  BY <1>1, <1>2, <1>3, PTL DEF Spec, ImplementsLife, Life!Spec

-----------------------------------------------------------------------------
(* What the window is told.                                                   *)

\* The installed version is v or a newer one.
Covers(x, v) == v = NoVersion \/ v = x \/ IsNewer(x, v)
Has(v) == Covers(installed, v)
AtLeast(v, w) == v = w \/ IsNewer(v, w)

\* The versions that others rely on are not newer than the installed one.
Backed ==
  /\ Has(running) /\ Has(stamp)
  /\ \A r \in Clients : Has(loc[r].ver)
  /\ \A i \in Ids : inst[i] = "publish" => Has(ops[i].target)
  /\ Phase = "installed" => Has(ops[cur].target)

\* A request that reports on an operation of this engine finds the current one.
Reported ==
  /\ cur # 0 => cur > gone
  /\ \A i \in Ids : i > gone /\ ops[i].phase = "installed" => i = cur
  /\ \A r \in Clients : pc[r] = "report" => kind = "linux-package" /\ loc[r].op \in gone + 1 .. made

\* While dpkg answers, what is on offer is newer than what runs.
Offers ==
  /\ \A r \in Clients : pc[r] # "idle" /\ kind = "linux-package" => AtLeast(loc[r].ver, running)
  /\ \A r \in Clients : pc[r] \in {"asset", "launch"} => IsNewer(loc[r].latest, running)
  /\ \A i \in Ids : load[i] # "none" => IsNewer(ops[i].target, running)
  /\ Phase \in {"ready", "installing", "installed"} => IsNewer(ops[cur].target, running)

LEMMA Records ==
  ASSUME TypeOK
  PROVE  /\ running \in SomeVersion /\ installed \in Versions /\ installed \in SomeVersion /\ stamp \in SomeVersion
         /\ \A r \in Clients : loc[r].ver \in SomeVersion /\ loc[r].latest \in SomeVersion
         /\ \A i \in Ids : ops[i].target \in SomeVersion
         /\ cur # 0 => cur \in Ids
         /\ cur \in Nat /\ made \in Nat /\ gone \in Nat /\ cur <= made /\ gone <= made
  BY UpdateAssumption DEF TypeOK, SomeVersion, Ids

LEMMA HasKept ==
  ASSUME NEW x \in SomeVersion, NEW y \in SomeVersion, y = x \/ IsNewer(y, x), NEW v \in SomeVersion, Covers(x, v)
  PROVE  Covers(y, v)
  BY NewerTransitive DEF Covers

LEMMA AptGrows ==
  ASSUME NEW v, installed' = AptResult(v) \/ installed' = installed
  PROVE  installed' = installed \/ IsNewer(installed', installed)
  BY DEF AptResult

\* No step takes back what was installed.
LEMMA InstalledGrows ==
  ASSUME [Next]_vars
  PROVE  installed' = installed \/ IsNewer(installed', installed)
<1>1. ASSUME NEW r \in Clients, AskStatus(r) \/ AskUpdate(r) \/ Request(r)
      PROVE  installed' = installed
  BY <1>1 DEF AskStatus, AskUpdate, Request, StatusKnown, StatusAsksFeeds, StatusFetched, HandOver, RunUserUpdate,
     OpenStore, DecideAnswered, BeginInstall, BeginOperation, Lookup, FindAsset, LaunchWorker, LaunchFailed,
     Report, DirectLookup, DirectDownload, DirectRun, world
<1>2. ASSUME NEW i \in Ids, InstallApt(i)
      PROVE  installed' = installed \/ IsNewer(installed', installed)
  BY <1>2, AptGrows DEF InstallApt
<1>3. ASSUME NEW i \in Ids, Worker(i) \/ PackageLost(i), ~InstallApt(i)
      PROVE  installed' = installed
  BY <1>3 DEF Worker, LoadStart, LoadDownload, LoadVerify, LoadDigest, LoadPublish, LoadClean, LoadFail,
     InstallVerify, InstallPublish, InstallClean, PackageLost, world
<1>4. CASE OtherInstall \/ EngineRestart \/ UNCHANGED vars
  BY <1>4 DEF OtherInstall, EngineRestart, vars
<1>5. CASE AptFinishes
  BY <1>5, AptGrows DEF AptFinishes
<1>. QED  BY <1>1, <1>2, <1>3, <1>4, <1>5 DEF Next, World

LEMMA CurrentHas ==
  ASSUME TypeOK, Backed, NEW v \in CurrentVersions
  PROVE  Has(v)
<1>1. v \in {installed, stamp, running}
  BY DEF CurrentVersions, PackageVersions
<1>. QED  BY <1>1 DEF Backed, Has, Covers

\* What a request takes for the installed version is no older than what runs.
LEMMA CurrentAtLeast ==
  ASSUME TypeOK, Backed, "dpkg" \notin Faults, kind = "linux-package", NEW v \in CurrentVersions
  PROVE  AtLeast(v, running)
<1>1. installed # NoVersion /\ running # NoVersion
  BY UpdateAssumption DEF TypeOK
<1>2. v = installed
  BY <1>1 DEF CurrentVersions, PackageVersions
<1>. QED  BY <1>1, <1>2 DEF Backed, Has, Covers, AtLeast

\* A request that does not prepare an operation changes its own locals at most.
Steps(r) ==
  \/ pc'[r] = "idle" /\ loc'[r] = NoLoc
  \/ pc'[r] \in {"status", "decide", "direct", "hand over"} /\ loc'[r].ver \in CurrentVersions
  \/ /\ pc[r] # "idle" /\ loc'[r].ver = loc[r].ver
     /\ pc'[r] \in {"status fetch", "direct download", "direct verify"}

LEMMA AskFrame ==
  ASSUME TypeOK, NEW r \in Clients, AskStatus(r) \/ AskUpdate(r)
  PROVE  Steps(r)
<1>1. PICK v \in CurrentVersions : loc' = [loc EXCEPT ![r] = [NoLoc EXCEPT !.ver = v]]
  BY DEF AskStatus, AskUpdate
<1>2. loc'[r] = [NoLoc EXCEPT !.ver = v]
  BY <1>1 DEF TypeOK
<1>3. loc'[r].ver = v
  BY <1>2 DEF NoLoc
<1>4. \E l \in {"status", "decide", "direct", "hand over"} : Goto(r, l)
  BY DEF AskStatus, AskUpdate
<1>5. pc'[r] \in {"status", "decide", "direct", "hand over"}
  BY <1>4 DEF Goto, TypeOK
<1>. QED  BY <1>3, <1>5 DEF Steps

LEMMA AsideSteps ==
  ASSUME TypeOK, NEW r \in Clients, AsideRequest(r)
  PROVE  Steps(r)
<1>3. ASSUME NEW m, NEW p, Answer(r, m, p) PROVE Steps(r)
  BY <1>3 DEF Answer, TypeOK, Steps
<1>4. ASSUME NEW l, Goto(r, l) PROVE pc'[r] = l
  BY <1>4 DEF Goto, TypeOK
<1>5. CASE StatusKnown(r) \/ StatusFetched(r) \/ HandOver(r) \/ RunUserUpdate(r) \/ OpenStore(r)
           \/ DecideAnswered(r) \/ Report(r)
  <2>1. \E m, p : Answer(r, m, p)
    BY <1>5 DEF StatusKnown, StatusFetched, HandOver, RunUserUpdate, OpenStore, DecideAnswered, Report
  <2>. QED  BY <1>3, <2>1
<1>6. CASE AskStatus(r) \/ AskUpdate(r)
  BY <1>6, AskFrame
<1>7. CASE StatusAsksFeeds(r)
  <2>1. pc'[r] = "status fetch" /\ pc[r] # "idle" /\ loc' = loc
    BY <1>4, <1>7 DEF StatusAsksFeeds
  <2>. QED  BY <2>1 DEF Steps
<1>8. CASE DirectLookup(r)
  <2>2. CASE \E m, p : Answer(r, m, p)
    BY <1>3, <2>2
  <2>3. CASE Goto(r, "direct download") /\ \E v : loc' = [loc EXCEPT ![r] = [@ EXCEPT !.op = made + 1, !.latest = v]]
    <3>1. loc'[r].ver = loc[r].ver
      BY <2>3 DEF TypeOK
    <3>2. pc[r] # "idle" /\ pc'[r] = "direct download"
      BY <1>4, <1>8, <2>3 DEF DirectLookup
    <3>. QED  BY <3>1, <3>2 DEF Steps
  <2>. QED  BY <1>8, <2>2, <2>3 DEF DirectLookup
<1>9. CASE DirectDownload(r) \/ DirectRun(r)
  <2>1. \/ \E m, p : Answer(r, m, p)
        \/ Goto(r, "direct verify") /\ UNCHANGED loc /\ pc[r] # "idle"
    BY <1>9 DEF DirectDownload, DirectRun
  <2>2. CASE Goto(r, "direct verify") /\ UNCHANGED loc /\ pc[r] # "idle"
    <3>1. pc'[r] = "direct verify"
      BY <1>4, <2>2
    <3>. QED  BY <2>2, <3>1 DEF Steps
  <2>. QED  BY <1>3, <2>1, <2>2
<1>. QED  BY <1>5, <1>6, <1>7, <1>8, <1>9 DEF AsideRequest

LEMMA AsideFrame ==
  ASSUME TypeOK, NEW r \in Clients, AsideRequest(r)
  PROVE  /\ UNCHANGED <<world, ops, cur, load, inst>>
         /\ \A s \in Clients \ {r} : pc'[s] = pc[s] /\ loc'[s] = loc[s]
         /\ made' \in {made, made + 1}
<1>1. UNCHANGED <<world, ops, cur, load, inst>>
  BY DEF AsideRequest, AskStatus, AskUpdate, StatusKnown, StatusAsksFeeds, StatusFetched, HandOver, RunUserUpdate,
     OpenStore, DecideAnswered, Report, DirectLookup, DirectDownload, DirectRun, work
<1>2. \A s \in Clients \ {r} : pc'[s] = pc[s] /\ loc'[s] = loc[s]
  BY DEF AsideRequest, AskStatus, AskUpdate, StatusKnown, StatusAsksFeeds, StatusFetched, HandOver, RunUserUpdate,
     OpenStore, DecideAnswered, Report, DirectLookup, DirectDownload, DirectRun, Answer, Goto, TypeOK
<1>3. made' \in {made, made + 1}
  BY DEF AsideRequest, AskStatus, AskUpdate, StatusKnown, StatusAsksFeeds, StatusFetched, HandOver, RunUserUpdate,
     OpenStore, DecideAnswered, Report, DirectLookup, DirectDownload, DirectRun
<1>. QED  BY <1>1, <1>2, <1>3

\* The download leaves the versions alone, and only its end shows the package.
LEMMA LoadFrame ==
  ASSUME TypeOK, OpInv, NEW i \in Ids, LoadAny(i)
  PROVE  /\ Loads(i) /\ UNCHANGED <<world, cur, made, pc, loc, inst>>
         /\ Phase' \in Fetching \cup {"ready", "failed"}
         /\ \A j \in Ids : ops'[j].target = ops[j].target /\ (j # i => ops'[j] = ops[j])
         /\ \A j \in Ids : load'[j] # "none" => load[j] # "none"
<1>1. Loads(i) /\ UNCHANGED <<world, cur, made, pc, loc, inst>> /\ cur \in Ids /\ cur # 0
  BY LoadKeeps, UpdateAssumption DEF Loads, Ids
<1>2. \A j \in Ids : load'[j] # "none" => load[j] # "none"
  BY DEF LoadAny, LoadStart, LoadDownload, LoadVerify, LoadDigest, LoadPublish, LoadClean, LoadFail, LoadStep, TypeOK
<1>3. CASE LoadPublish(i)
  <2>1. ops' = [ops EXCEPT ![cur] = [phase |-> "ready", target |-> ops[cur].target, deb |-> i]]
    BY <1>1, <1>3 DEF LoadPublish, MarkReady, Loads
  <2>2. ops'[cur].target = ops[cur].target /\ Phase' = "ready"
    BY <1>1, <2>1 DEF TypeOK, Phase
  <2>. QED  BY <1>1, <1>2, <2>1, <2>2 DEF TypeOK, Loads
<1>4. CASE UNCHANGED ops
  BY <1>1, <1>2, <1>4 DEF Phase, Loads
<1>5. ASSUME NEW phase \in {"downloading", "verifying", "failed"}, SetPhase(phase)
      PROVE  /\ Phase' \in Fetching \cup {"ready", "failed"}
             /\ \A j \in Ids : ops'[j].target = ops[j].target /\ (j # i => ops'[j] = ops[j])
  <2>1. Phase' = phase
    BY <1>1, <1>5, PhaseIsSet
  <2>2. \A j \in Ids : j # i => ops'[j] = ops[j]
    BY <1>1, <1>5 DEF SetPhase, Loads, TypeOK
  <2>. QED  BY <1>5, <2>1, <2>2, SetPhaseKeeps DEF Fetching
<1>6. LoadPublish(i) \/ UNCHANGED ops \/ \E phase \in {"downloading", "verifying", "failed"} : SetPhase(phase)
  BY DEF LoadAny, LoadStart, LoadDownload, LoadVerify, LoadDigest, LoadClean, LoadFail, SetFailed
<1>. QED  BY <1>1, <1>2, <1>3, <1>4, <1>5, <1>6

LEMMA InstallFrame ==
  ASSUME TypeOK, OpInv, NEW i \in Ids, InstallAny(i)
  PROVE  /\ UNCHANGED <<kind, running, gone, cur, made, pc, loc, load>>
         /\ \A j \in Ids : ops'[j].target = ops[j].target
         /\ \A j \in Ids : j # cur => ops'[j] = ops[j]
         /\ \A j \in Ids : inst'[j] = "publish" => inst[j] = "publish" \/ (j = i /\ InstallApt(i))
         /\ Phase' = "installed" => Phase = "installed" \/ (InstallPublish(i) /\ cur = i)
         /\ Phase' \in {"ready", "installing", "installed"} => Phase \in {"ready", "installing", "installed"}
         /\ stamp' = stamp \/ (InstallPublish(i) /\ stamp' = ops[i].target)
<1>1. UNCHANGED <<kind, running, gone, cur, made, pc, loc, load>>
  BY DEF InstallAny, InstallVerify, InstallApt, InstallPublish, InstallClean, world
<1>2. \A j \in Ids : ops'[j].target = ops[j].target
  BY InstallKeeps
<1>3. \A j \in Ids : inst'[j] = "publish" => inst[j] = "publish" \/ (j = i /\ InstallApt(i))
  BY DEF InstallAny, InstallVerify, InstallApt, InstallPublish, InstallClean, InstallStep, TypeOK
<1>4. stamp' = stamp \/ (InstallPublish(i) /\ stamp' = ops[i].target)
  BY DEF InstallAny, InstallVerify, InstallApt, InstallPublish, InstallClean, world
<1>5. UNCHANGED ops \/ SetPhase("failed") \/ (InstallPublish(i) /\ SetPhase("installed"))
  BY DEF InstallAny, InstallVerify, InstallApt, InstallPublish, InstallClean, SetFailed
<1>6. \A j \in Ids : j # cur => ops'[j] = ops[j]
  BY <1>5 DEF SetPhase, TypeOK
<1>7. CASE UNCHANGED ops
  BY <1>1, <1>2, <1>3, <1>4, <1>6, <1>7 DEF Phase
<1>8. CASE SetPhase("failed")
  <2>1. cur = 0 => Phase' = "none"
    BY <1>1 DEF Phase
  <2>2. cur # 0 => Phase' = "failed"
    BY <1>1, <1>8, PhaseIsSet
  <2>. QED  BY <1>1, <1>2, <1>3, <1>4, <1>6, <2>1, <2>2
<1>9. CASE InstallPublish(i)
  <2>1. Installs(i)
    BY <1>9, Installer DEF InstallPublish, InstallStep, AtWork
  <2>. QED  BY <1>1, <1>2, <1>3, <1>4, <1>6, <1>9, <2>1 DEF Installs
<1>. QED  BY <1>5, <1>7, <1>8, <1>9

LEMMA BackedFrame ==
  ASSUME TypeOK, TypeOK', Backed, installed' = installed \/ IsNewer(installed', installed),
         running' \in {running, installed'},
         stamp' = stamp \/ Covers(installed', stamp'),
         \A r \in Clients : loc'[r].ver \in {loc[r].ver, NoVersion} \cup CurrentVersions,
         \A i \in Ids : inst'[i] = "publish" =>
           \/ inst[i] = "publish" /\ ops'[i].target = ops[i].target
           \/ Covers(installed', ops'[i].target),
         Phase' = "installed" =>
           \/ Phase = "installed" /\ cur' = cur /\ ops'[cur].target = ops[cur].target
           \/ Covers(installed', ops'[cur'].target)
  PROVE  Backed'
<1>1. installed \in SomeVersion /\ installed' \in SomeVersion
  BY DEF TypeOK, SomeVersion
<1>2. ASSUME NEW v \in SomeVersion, Has(v) PROVE Covers(installed', v)
  BY <1>1, <1>2, HasKept DEF Has
<1>3. Covers(installed', NoVersion) /\ Covers(installed', installed')
  BY DEF Covers
<1>4. Covers(installed', running')
  BY <1>2, <1>3, Records DEF Backed
<1>5. Covers(installed', stamp')
  BY <1>2, Records DEF Backed
<1>6. ASSUME NEW r \in Clients PROVE Covers(installed', loc'[r].ver)
  <2>1. CASE loc'[r].ver = loc[r].ver
    BY <1>2, <2>1, Records DEF Backed
  <2>2. CASE loc'[r].ver \in CurrentVersions
    BY <1>2, <2>2, CurrentHas, CurrentVersion
  <2>. QED  BY <1>3, <2>1, <2>2
<1>7. ASSUME NEW i \in Ids, inst'[i] = "publish" PROVE Covers(installed', ops'[i].target)
  <2>1. CASE inst[i] = "publish" /\ ops'[i].target = ops[i].target
    BY <1>2, <2>1, Records DEF Backed
  <2>. QED  BY <1>7, <2>1
<1>8. ASSUME Phase' = "installed" PROVE Covers(installed', ops'[cur'].target)
  <2>1. CASE Phase = "installed" /\ cur' = cur /\ ops'[cur].target = ops[cur].target
    <3>1. cur \in Ids
      BY <2>1, Records DEF Phase
    <3>2. Has(ops[cur].target) /\ ops[cur].target \in SomeVersion
      BY <2>1, <3>1, Records DEF Backed
    <3>3. Covers(installed', ops[cur].target)
      BY <1>2, <3>2
    <3>. QED  BY <2>1, <3>3
  <2>. QED  BY <1>8, <2>1
<1>. QED  BY <1>4, <1>5, <1>6, <1>7, <1>8 DEF Backed, Has

\* Requests that ask or answer.
LEMMA LocalVersions ==
  ASSUME TypeOK, NEW r \in Clients, NEW m, NEW p, Answer(r, m, p)
  PROVE  \A s \in Clients : loc'[s].ver \in {loc[s].ver, NoVersion}
  BY DEF Answer, NoLoc, TypeOK

LEMMA AsideVersions ==
  ASSUME TypeOK, NEW r \in Clients, AsideRequest(r)
  PROVE  \A s \in Clients : loc'[s].ver \in {loc[s].ver, NoVersion} \cup CurrentVersions
<1>1. Steps(r)
  BY AsideSteps
<1>2. NoLoc.ver = NoVersion
  BY DEF NoLoc
<1>3. loc'[r].ver \in {loc[r].ver, NoVersion} \cup CurrentVersions
  <2>1. CASE loc'[r] = NoLoc
    BY <1>2, <2>1
  <2>2. CASE loc'[r].ver \in CurrentVersions \/ loc'[r].ver = loc[r].ver
    BY <2>2
  <2>. QED  BY <1>1, <2>1, <2>2 DEF Steps
<1>. QED  BY <1>3, AsideFrame

\* The steps from the request to its worker touch no other operation.
LEMMA PrepareVersions ==
  ASSUME TypeOK, OpInv, NEW r \in Clients, Lookup(r) \/ FindAsset(r) \/ LaunchFailed(r) \/ LaunchWorker(r)
  PROVE  /\ Prepares(r) /\ UNCHANGED <<world, made, inst>> /\ cur' \in {cur, 0}
         /\ \A s \in Clients : loc'[s].ver \in {loc[s].ver, NoVersion}
         /\ \A j \in Ids : j # cur => ops'[j] = ops[j]
         /\ Phase' \in Fetching \cup {"failed", "none"}
         /\ \A s \in Clients \ {r} : pc'[s] = pc[s] /\ loc'[s] = loc[s]
<1>1. Prepares(r) /\ UNCHANGED <<world, made, inst>> /\ cur' \in {cur, 0} /\ loc[r].op = cur
      /\ Phase' \in Fetching \cup {"failed", "none"}
  BY PrepareKeeps, LaunchKeeps DEF Prepares, LaunchWorker, Fetching
<1>2. \/ \E m, p : Answer(r, m, p)
      \/ loc' = loc
      \/ \E v : loc' = [loc EXCEPT ![r].latest = v]
  BY DEF Lookup, FindAsset, LaunchFailed, LaunchWorker
<1>3. ASSUME NEW v, loc' = [loc EXCEPT ![r].latest = v], NEW s \in Clients
      PROVE  loc'[s].ver = loc[s].ver
  BY <1>3 DEF TypeOK
<1>4. \A s \in Clients : loc'[s].ver \in {loc[s].ver, NoVersion}
  BY <1>2, <1>3, LocalVersions
<1>5. \A j \in Ids : j # cur => ops'[j] = ops[j]
  BY <1>1 DEF Lookup, FindAsset, LaunchFailed, LaunchWorker, SetFailed, SetPhase, TypeOK
<1>6. \A s \in Clients \ {r} : pc'[s] = pc[s] /\ loc'[s] = loc[s]
  BY DEF Lookup, FindAsset, LaunchFailed, LaunchWorker, Answer, Goto, TypeOK
<1>. QED  BY <1>1, <1>4, <1>5, <1>6

LEMMA BeginVersions ==
  ASSUME TypeOK, OpInv, NEW r \in Clients, BeginInstall(r) \/ BeginOperation(r)
  PROVE  /\ Idle /\ UNCHANGED <<world, load>>
         /\ \A s \in Clients : loc'[s].ver \in {loc[s].ver, NoVersion}
         /\ \A j \in Ids : j # cur' => ops'[j] = ops[j]
         /\ \A j \in Ids : inst'[j] # "publish"
         /\ Phase' \in {"installing", "preparing"}
         /\ \A s \in Clients \ {r} : pc'[s] = pc[s] /\ loc'[s] = loc[s]
<1>1. Idle /\ UNCHANGED <<world, load>>
  BY Unattended DEF BeginInstall, BeginOperation, work, Phase, Busy
<1>2. ASSUME NEW v, loc' = [loc EXCEPT ![r].op = v], NEW s \in Clients
      PROVE  loc'[s].ver = loc[s].ver
  BY <1>2 DEF TypeOK
<1>3. \A s \in Clients : loc'[s].ver \in {loc[s].ver, NoVersion}
  BY <1>2, LocalVersions DEF BeginInstall, BeginOperation
<1>4. \A j \in Ids : j # cur' => ops'[j] = ops[j]
  BY DEF BeginInstall, BeginOperation, SetPhase, TypeOK
<1>5. \A j \in Ids : inst'[j] # "publish"
  <2>1. \A j \in Ids : inst'[j] = inst[j] \/ inst'[j] = "verify"
    BY DEF BeginInstall, BeginOperation, work, TypeOK
  <2>. QED  BY <1>1, <2>1 DEF Idle, NoInstall, AtWork
<1>6. Phase' \in {"installing", "preparing"}
  <2>1. CASE BeginInstall(r)
    <3>1. cur # 0 /\ SetPhase("installing") /\ cur' = cur
      BY <2>1 DEF BeginInstall, Phase
    <3>. QED  BY <3>1, PhaseIsSet
  <2>2. CASE BeginOperation(r)
    BY <2>2, BeginKeeps
  <2>. QED  BY <2>1, <2>2
<1>7. \A s \in Clients \ {r} : pc'[s] = pc[s] /\ loc'[s] = loc[s]
  BY DEF BeginInstall, BeginOperation, Answer, Goto, TypeOK
<1>. QED  BY <1>1, <1>3, <1>4, <1>5, <1>6, <1>7

LEMMA BackedAside ==
  ASSUME TypeOK, TypeOK', Backed, UNCHANGED <<installed, running, stamp, ops, cur, inst>>,
         \A s \in Clients : loc'[s].ver \in {loc[s].ver, NoVersion} \cup CurrentVersions
  PROVE  Backed'
<1>1. Phase' = Phase
  BY DEF Phase
<1>. QED  BY <1>1, BackedFrame

LEMMA BackedLoad ==
  ASSUME TypeOK, TypeOK', OpInv, Backed, NEW i \in Ids, LoadAny(i)
  PROVE  Backed'
<1>1. UNCHANGED <<installed, running, stamp, loc, inst>>
  BY LoadFrame DEF world
<1>2. Phase' # "installed"
  BY LoadFrame DEF Fetching
<1>3. \A j \in Ids : ops'[j].target = ops[j].target
  BY LoadFrame
<1>. QED  BY <1>1, <1>2, <1>3, BackedFrame

LEMMA BackedInstall ==
  ASSUME TypeOK, TypeOK', OpInv, Backed, [Next]_vars, NEW i \in Ids, InstallAny(i)
  PROVE  Backed'
<1>1. UNCHANGED <<running, cur, loc>> /\ \A j \in Ids : ops'[j].target = ops[j].target
  BY InstallFrame
<1>2. installed' = installed \/ IsNewer(installed', installed)
  BY InstalledGrows
<1>3. /\ installed \in SomeVersion /\ installed' \in SomeVersion
      /\ \A j \in Ids : ops[j].target \in SomeVersion
  BY DEF TypeOK, SomeVersion
<1>4. ASSUME NEW v \in SomeVersion, Has(v) PROVE Covers(installed', v)
  BY <1>2, <1>3, <1>4, HasKept DEF Has
<1>5. ASSUME InstallPublish(i)
      PROVE  Covers(installed', ops[i].target)
  <2>1. inst[i] = "publish"
    BY <1>5 DEF InstallPublish, InstallStep
  <2>. QED  BY <1>3, <1>4, <2>1 DEF Backed
<1>6. stamp' = stamp \/ Covers(installed', stamp')
  BY <1>5, InstallFrame
<1>7. ASSUME NEW j \in Ids, inst'[j] = "publish"
      PROVE  \/ inst[j] = "publish" /\ ops'[j].target = ops[j].target
             \/ Covers(installed', ops'[j].target)
  <2>1. CASE inst[j] = "publish"
    BY <1>1, <2>1
  <2>2. CASE inst[j] # "publish"
    <3>1. j = i /\ InstallApt(i)
      BY <1>7, <2>2, InstallFrame
    <3>2. inst'[i] # "clean"
      BY <1>7, <3>1
    <3>3. ~IsNewer(installed, ops[i].target) /\ installed' = AptResult(ops[i].target)
      BY <3>1, <3>2 DEF InstallApt, InstallStep, TypeOK
    <3>4. installed \in Versions /\ ops[i].target \in SomeVersion
      BY DEF TypeOK
    <3>5. Covers(installed', ops[i].target)
      BY <3>3, <3>4, NewerTotal DEF AptResult, Covers, SomeVersion
    <3>. QED  BY <1>1, <3>1, <3>5
  <2>. QED  BY <2>1, <2>2
<1>8. ASSUME Phase' = "installed"
      PROVE  \/ Phase = "installed" /\ cur' = cur /\ ops'[cur].target = ops[cur].target
             \/ Covers(installed', ops'[cur'].target)
  <2>1. CASE Phase = "installed"
    <3>1. cur \in Ids
      BY <2>1, Records DEF Phase
    <3>. QED  BY <1>1, <2>1, <3>1
  <2>2. CASE Phase # "installed"
    <3>1. InstallPublish(i) /\ cur = i
      BY <1>8, <2>2, InstallFrame
    <3>. QED  BY <1>1, <1>5, <3>1
  <2>. QED  BY <2>1, <2>2
<1>. QED  BY <1>1, <1>2, <1>6, <1>7, <1>8, BackedFrame

LEMMA BackedPrepare ==
  ASSUME TypeOK, TypeOK', OpInv, Backed, NEW r \in Clients,
         Lookup(r) \/ FindAsset(r) \/ LaunchFailed(r) \/ LaunchWorker(r) \/ BeginInstall(r) \/ BeginOperation(r)
  PROVE  Backed'
<1>1. UNCHANGED <<installed, running, stamp>> /\ \A s \in Clients : loc'[s].ver \in {loc[s].ver, NoVersion}
  BY PrepareVersions, BeginVersions DEF world
<1>2. Phase' # "installed"
  BY PrepareVersions, BeginVersions DEF Fetching
<1>3. \A i \in Ids : inst'[i] # "publish"
  <2>1. CASE BeginInstall(r) \/ BeginOperation(r)
    BY <2>1, BeginVersions
  <2>2. CASE Lookup(r) \/ FindAsset(r) \/ LaunchFailed(r) \/ LaunchWorker(r)
    BY <2>2, PrepareVersions DEF Prepares, NoInstall, AtWork
  <2>. QED  BY <2>1, <2>2
<1>. QED  BY <1>1, <1>2, <1>3, BackedFrame

LEMMA BackedRestart ==
  ASSUME TypeOK, TypeOK', Backed, EngineRestart
  PROVE  Backed'
<1>1. UNCHANGED <<installed, stamp>> /\ running' = installed'
  BY DEF EngineRestart
<1>2. \A s \in Clients : loc'[s].ver = NoVersion
  BY DEF EngineRestart, NoLoc
<1>3. \A i \in Ids : inst'[i] # "publish"
  BY DEF EngineRestart
<1>4. Phase' # "installed"
  BY DEF EngineRestart, Phase
<1>. QED  BY <1>1, <1>2, <1>3, <1>4, BackedFrame

LEMMA BackedStep ==
  ASSUME TypeOK, TypeOK', OpInv, Backed, [Next]_vars
  PROVE  Backed'
<1>1. ASSUME NEW r \in Clients, AsideRequest(r)
      PROVE  Backed'
  <2>1. UNCHANGED <<installed, running, stamp, ops, cur, inst>>
    BY <1>1, AsideFrame DEF world
  <2>. QED  BY <1>1, <2>1, AsideVersions, BackedAside
<1>2. CASE OtherInstall \/ AptFinishes \/ UNCHANGED vars \/ \E i \in Ids : PackageLost(i)
  <2>1. UNCHANGED <<running, stamp, ops, cur, loc, inst>>
    BY <1>2 DEF OtherInstall, AptFinishes, PackageLost, vars, work, world
  <2>2. Phase' = Phase
    BY <2>1 DEF Phase
  <2>. QED  BY <2>1, <2>2, InstalledGrows, BackedFrame
<1>. QED  BY <1>1, <1>2, BackedLoad, BackedInstall, BackedPrepare, BackedRestart
          DEF Next, World, Worker, Request, AsideRequest, LoadAny, InstallAny

LEMMA BackedInit == Init => Backed
  BY DEF Init, Backed, Has, Covers, NoLoc, Phase

LEMMA ReportedFrame ==
  ASSUME TypeOK, Reported, UNCHANGED <<kind, gone>>, made' \in Nat, made <= made',
         cur' = cur \/ (Phase # "installed" /\ (cur' = 0 \/ cur' > gone)),
         \A j \in Ids : j # cur' => ops'[j].phase = ops[j].phase \/ ops'[j].phase # "installed",
         \A r \in Clients : pc'[r] = "report" =>
           \/ pc[r] = "report" /\ loc'[r].op = loc[r].op
           \/ kind = "linux-package" /\ loc'[r].op \in gone + 1 .. made'
  PROVE  Reported'
<1>1. cur' # 0 => cur' > gone
  BY DEF Reported
<1>2. ASSUME NEW i \in Ids, i > gone, ops'[i].phase = "installed" PROVE i = cur'
  <2>1. SUFFICES ASSUME i # cur' PROVE FALSE
    OBVIOUS
  <2>2. ops[i].phase = "installed"
    BY <1>2, <2>1
  <2>3. i = cur /\ i # 0
    BY <1>2, <2>2 DEF Reported, Ids
  <2>4. Phase = "installed"
    BY <2>2, <2>3 DEF Phase
  <2>. QED  BY <2>1, <2>3, <2>4
<1>3. ASSUME NEW r \in Clients, pc'[r] = "report"
      PROVE  kind' = "linux-package" /\ loc'[r].op \in gone + 1 .. made'
  <2>1. CASE pc[r] = "report" /\ loc'[r].op = loc[r].op
    BY <2>1, Records DEF Reported
  <2>. QED  BY <1>3, <2>1
<1>. QED  BY <1>1, <1>2, <1>3 DEF Reported

LEMMA ReportedPrepare ==
  ASSUME TypeOK, OpInv, FileInv, Reported, NEW r \in Clients,
         Lookup(r) \/ FindAsset(r) \/ LaunchFailed(r) \/ LaunchWorker(r)
  PROVE  Reported'
<1>1. /\ Prepares(r) /\ UNCHANGED <<kind, gone, made>> /\ cur' \in {cur, 0}
      /\ \A j \in Ids : j # cur => ops'[j] = ops[j]
      /\ \A s \in Clients \ {r} : pc'[s] = pc[s] /\ loc'[s] = loc[s]
  BY PrepareVersions DEF world
<1>2. Phase # "installed" /\ made \in Nat /\ cur \in Ids
  BY <1>1, Records DEF Prepares, Fetching
<1>3. ops'[cur].phase # "installed"
  <2>1. CASE cur' = cur
    <3>1. Phase' = ops'[cur].phase
      BY <1>1, <2>1 DEF Phase, Prepares
    <3>. QED  BY <3>1, PrepareVersions DEF Fetching
  <2>2. CASE cur' # cur
    <3>1. \E v : ops' = [ops EXCEPT ![loc[r].op].target = v]
      BY <2>2 DEF Lookup, FindAsset, LaunchFailed, LaunchWorker
    <3>2. ops'[cur].phase = ops[cur].phase
      BY <1>2, <3>1 DEF TypeOK
    <3>. QED  BY <1>1, <1>2, <3>2 DEF Phase, Prepares
  <2>. QED  BY <2>1, <2>2
<1>4. pc'[r] = "report" => kind = "linux-package" /\ loc'[r].op \in gone + 1 .. made'
  <2>1. CASE LaunchWorker(r)
    <3>1. loc' = loc /\ loc[r].op = cur
      BY <2>1, LaunchKeeps
    <3>2. kind = "linux-package"
      BY <1>1 DEF FileInv, Kinds, Prepares
    <3>3. cur > gone /\ cur <= made /\ gone \in Nat /\ cur \in Nat
      BY <1>1, Records DEF Reported, Prepares
    <3>. QED  BY <1>1, <1>2, <3>1, <3>2, <3>3
  <2>2. CASE Lookup(r) \/ FindAsset(r) \/ LaunchFailed(r)
    BY <2>2 DEF Lookup, FindAsset, LaunchFailed, Answer, Goto, TypeOK
  <2>. QED  BY <2>1, <2>2
<1>5. \A j \in Ids : ops'[j].phase = ops[j].phase \/ ops'[j].phase # "installed"
  BY <1>1, <1>3
<1>6. \A s \in Clients : pc'[s] = "report" =>
        \/ pc[s] = "report" /\ loc'[s].op = loc[s].op
        \/ kind = "linux-package" /\ loc'[s].op \in gone + 1 .. made'
  BY <1>1, <1>4
<1>. QED  BY <1>1, <1>2, <1>5, <1>6, ReportedFrame

LEMMA ReportedBegin ==
  ASSUME TypeOK, OpInv, Reported, NEW r \in Clients, BeginInstall(r) \/ BeginOperation(r)
  PROVE  Reported'
<1>1. /\ UNCHANGED <<kind, gone>>
      /\ \A j \in Ids : j # cur' => ops'[j] = ops[j]
      /\ \A s \in Clients \ {r} : pc'[s] = pc[s] /\ loc'[s] = loc[s]
  BY BeginVersions DEF world
<1>2. pc'[r] # "report"
  BY DEF BeginInstall, BeginOperation, Answer, Goto, TypeOK
<1>3. made' \in Nat /\ made <= made' /\ gone <= made
  BY Records DEF BeginInstall, BeginOperation
<1>4. cur' = cur \/ (Phase # "installed" /\ cur' > gone)
  <2>1. CASE BeginInstall(r)
    BY <2>1 DEF BeginInstall
  <2>2. CASE BeginOperation(r)
    <3>1. cur' = made + 1 /\ Phase # "installed"
      BY <2>2 DEF BeginOperation, Phase
    <3>. QED  BY <3>1, Records
  <2>. QED  BY <2>1, <2>2
<1>. QED  BY <1>1, <1>2, <1>3, <1>4, ReportedFrame

LEMMA ReportedWork ==
  ASSUME TypeOK, OpInv, Reported, NEW i \in Ids, LoadAny(i) \/ InstallAny(i)
  PROVE  Reported'
<1>1. UNCHANGED <<kind, gone, cur, made, pc, loc>> /\ \A j \in Ids : j # cur => ops'[j] = ops[j]
  <2>1. CASE LoadAny(i)
    BY <2>1, LoadFrame DEF Loads, world
  <2>2. CASE InstallAny(i)
    BY <2>2, InstallFrame
  <2>. QED  BY <2>1, <2>2
<1>. QED  BY <1>1, Records, ReportedFrame

LEMMA ReportedStep ==
  ASSUME TypeOK, OpInv, FileInv, Reported, [Next]_vars
  PROVE  Reported'
<1>1. ASSUME NEW r \in Clients, AsideRequest(r)
      PROVE  Reported'
  <2>1. UNCHANGED <<kind, gone, ops, cur>> /\ \A s \in Clients \ {r} : pc'[s] = pc[s] /\ loc'[s] = loc[s]
    BY <1>1, AsideFrame DEF world
  <2>2. pc'[r] # "report"
    BY <1>1, AsideSteps DEF Steps
  <2>3. made' \in Nat /\ made <= made'
    BY <1>1, AsideFrame, Records
  <2>. QED  BY <2>1, <2>2, <2>3, ReportedFrame
<1>2. CASE OtherInstall \/ AptFinishes \/ UNCHANGED vars \/ \E i \in Ids : PackageLost(i)
  <2>1. UNCHANGED <<kind, gone, made, ops, cur, pc, loc>>
    BY <1>2 DEF OtherInstall, AptFinishes, PackageLost, vars, work, world
  <2>. QED  BY <2>1, Records, ReportedFrame
<1>3. CASE EngineRestart
  <2>1. cur' = 0 /\ gone' = made /\ ops' = ops /\ \A r \in Clients : pc'[r] = "idle"
    BY <1>3 DEF EngineRestart
  <2>2. ASSUME NEW i \in Ids, i > made, ops[i].phase = "installed" PROVE FALSE
    <3>1. i \in Int /\ i > gone
      BY <2>2, Records DEF Ids
    <3>2. i = cur
      BY <2>2, <3>1 DEF Reported
    <3>. QED  BY <2>2, <3>2, Records
  <2>. QED  BY <2>1, <2>2 DEF Reported
<1>. QED  BY <1>1, <1>2, <1>3, ReportedPrepare, ReportedBegin, ReportedWork
          DEF Next, World, Worker, Request, AsideRequest, LoadAny, InstallAny

LEMMA ReportedInit == Init => Reported
  BY DEF Init, Reported, FreshOp

LEMMA OffersPrepare ==
  ASSUME TypeOK, OpInv, FileInv, Offers, NEW r \in Clients,
         Lookup(r) \/ FindAsset(r) \/ LaunchFailed(r) \/ LaunchWorker(r)
  PROVE  Offers'
<1>1. /\ Prepares(r) /\ UNCHANGED <<kind, running>>
      /\ Phase' \notin {"ready", "installing", "installed"}
      /\ \A s \in Clients \ {r} : pc'[s] = pc[s] /\ loc'[s] = loc[s]
  BY PrepareVersions DEF world, Fetching
<1>2. pc[r] # "idle" /\ kind = "linux-package"
  BY <1>1 DEF Prepares, Fetchers, FileInv, Kinds
<1>3. AtLeast(loc[r].ver, running)
  BY <1>2 DEF Offers
<1>4. pc'[r] = "idle" \/ loc'[r].ver = loc[r].ver
  <2>1. CASE \E m, p : Answer(r, m, p)
    BY <2>1 DEF Answer, TypeOK
  <2>2. CASE \E v : loc' = [loc EXCEPT ![r].latest = v]
    BY <2>2 DEF TypeOK
  <2>3. CASE loc' = loc
    BY <2>3
  <2>. QED  BY <2>1, <2>2, <2>3 DEF Lookup, FindAsset, LaunchFailed, LaunchWorker
<1>5. \A s \in Clients : pc'[s] # "idle" /\ kind' = "linux-package" => AtLeast(loc'[s].ver, running')
  BY <1>1, <1>3, <1>4 DEF Offers
<1>6. ASSUME pc'[r] \in {"asset", "launch"}
      PROVE  IsNewer(loc'[r].latest, running)
  <2>1. CASE Lookup(r)
    <3>1. PICK v \in LatestAnswers(feed, running) : IsNewer(v, loc[r].ver) /\ loc' = [loc EXCEPT ![r].latest = v]
      BY <1>6, <2>1 DEF Lookup, Answer, TypeOK
    <3>2. loc'[r].latest = v
      BY <3>1 DEF TypeOK
    <3>3. v \in SomeVersion
      BY LookupAnswers DEF TypeOK
    <3>. QED  BY <1>3, <3>1, <3>2, <3>3, NewerTransitive, Records DEF AtLeast
  <2>2. CASE FindAsset(r)
    <3>1. loc' = loc /\ pc[r] = "asset"
      BY <1>6, <2>2 DEF FindAsset, Answer, TypeOK
    <3>. QED  BY <3>1 DEF Offers
  <2>3. CASE LaunchFailed(r) \/ LaunchWorker(r)
    BY <1>6, <2>3 DEF LaunchFailed, LaunchWorker, Answer, Goto, TypeOK
  <2>. QED  BY <2>1, <2>2, <2>3
<1>7. \A s \in Clients : pc'[s] \in {"asset", "launch"} => IsNewer(loc'[s].latest, running')
  BY <1>1, <1>6 DEF Offers
<1>8. ASSUME NEW i \in Ids, load'[i] # "none"
      PROVE  IsNewer(ops'[i].target, running')
  <2>1. load[i] = "none"
    BY <1>1 DEF Prepares, NoLoad
  <2>2. LaunchWorker(r)
    BY <1>8, <2>1 DEF Lookup, FindAsset, LaunchFailed, work
  <2>3. pc[r] = "launch" /\ loc[r].op = i
    BY <1>8, <2>1, <2>2 DEF LaunchWorker, TypeOK
  <2>4. ops'[i].target = loc[r].latest
    BY <2>2, <2>3, LaunchKeeps
  <2>. QED  BY <1>1, <2>3, <2>4 DEF Offers
<1>. QED  BY <1>1, <1>5, <1>7, <1>8 DEF Offers

LEMMA OffersBegin ==
  ASSUME TypeOK, OpInv, FileInv, Offers, NEW r \in Clients, BeginInstall(r) \/ BeginOperation(r)
  PROVE  Offers'
<1>1. /\ Idle /\ UNCHANGED <<kind, running, load>>
      /\ \A s \in Clients \ {r} : pc'[s] = pc[s] /\ loc'[s] = loc[s]
  BY BeginVersions DEF world
<1>2. pc[r] = "decide" /\ pc'[r] \in {"idle", "lookup"} /\ (pc'[r] # "idle" => loc'[r].ver = loc[r].ver)
  BY DEF BeginInstall, BeginOperation, Answer, Goto, TypeOK
<1>3. \A s \in Clients : pc'[s] # "idle" /\ kind' = "linux-package" => AtLeast(loc'[s].ver, running')
  BY <1>1, <1>2 DEF Offers
<1>4. \A s \in Clients : pc'[s] \in {"asset", "launch"} => IsNewer(loc'[s].latest, running')
  BY <1>1, <1>2 DEF Offers
<1>5. \A i \in Ids : load'[i] = "none"
  BY <1>1 DEF Idle, NoLoad
<1>6. ASSUME Phase' \in {"ready", "installing", "installed"}
      PROVE  IsNewer(ops'[cur'].target, running')
  <2>1. BeginInstall(r)
    BY <1>6, BeginKeeps
  <2>2. Phase = "ready" /\ cur' = cur /\ cur \in Ids /\ SetPhase("installing")
    BY <2>1, Records DEF BeginInstall, Phase
  <2>3. ops'[cur].target = ops[cur].target
    BY <2>2, SetPhaseKeeps
  <2>. QED  BY <1>1, <2>2, <2>3 DEF Offers
<1>. QED  BY <1>3, <1>4, <1>5, <1>6 DEF Offers

LEMMA OffersWork ==
  ASSUME TypeOK, OpInv, Offers, NEW i \in Ids, LoadAny(i) \/ InstallAny(i)
  PROVE  Offers'
<1>1. UNCHANGED <<kind, running, cur, pc, loc>> /\ \A j \in Ids : ops'[j].target = ops[j].target
  <2>1. CASE LoadAny(i)
    BY <2>1, LoadFrame DEF world
  <2>2. CASE InstallAny(i)
    BY <2>2, InstallFrame
  <2>. QED  BY <2>1, <2>2
<1>2. \A j \in Ids : load'[j] # "none" => load[j] # "none"
  <2>1. CASE LoadAny(i)
    BY <2>1, LoadFrame
  <2>2. CASE InstallAny(i)
    BY <2>2, InstallFrame
  <2>. QED  BY <2>1, <2>2
<1>3. ASSUME Phase' \in {"ready", "installing", "installed"}
      PROVE  IsNewer(ops'[cur'].target, running')
  <2>1. CASE LoadAny(i)
    <3>1. cur = i /\ load[i] # "none"
      BY <2>1, LoadFrame DEF Loads
    <3>. QED  BY <1>1, <3>1 DEF Offers
  <2>2. CASE InstallAny(i)
    <3>1. Phase \in {"ready", "installing", "installed"}
      BY <1>3, <2>2, InstallFrame
    <3>2. cur \in Ids
      BY <3>1, Records DEF Phase
    <3>. QED  BY <1>1, <3>1, <3>2 DEF Offers
  <2>. QED  BY <2>1, <2>2
<1>. QED  BY <1>1, <1>2, <1>3 DEF Offers

LEMMA OffersStep ==
  ASSUME TypeOK, OpInv, FileInv, Backed, "dpkg" \notin Faults, Offers, [Next]_vars
  PROVE  Offers'
<1>1. ASSUME NEW r \in Clients, AsideRequest(r)
      PROVE  Offers'
  <2>1. /\ UNCHANGED <<kind, running, ops, cur, load>>
        /\ \A s \in Clients \ {r} : pc'[s] = pc[s] /\ loc'[s] = loc[s]
    BY <1>1, AsideFrame DEF world
  <2>2. Steps(r)
    BY <1>1, AsideSteps
  <2>3. pc'[r] \notin {"asset", "launch"}
    BY <2>2 DEF Steps
  <2>4. ASSUME pc'[r] # "idle", kind = "linux-package"
        PROVE  AtLeast(loc'[r].ver, running)
    <3>1. CASE loc'[r].ver \in CurrentVersions
      BY <2>4, <3>1, CurrentAtLeast
    <3>2. CASE pc[r] # "idle" /\ loc'[r].ver = loc[r].ver
      BY <2>4, <3>2 DEF Offers
    <3>. QED  BY <2>2, <2>4, <3>1, <3>2 DEF Steps
  <2>5. Phase' = Phase
    BY <2>1 DEF Phase
  <2>6. \A s \in Clients : pc'[s] # "idle" /\ kind' = "linux-package" => AtLeast(loc'[s].ver, running')
    BY <2>1, <2>4 DEF Offers
  <2>7. \A s \in Clients : pc'[s] \in {"asset", "launch"} => IsNewer(loc'[s].latest, running')
    BY <2>1, <2>3 DEF Offers
  <2>. QED  BY <2>1, <2>5, <2>6, <2>7 DEF Offers
<1>2. CASE OtherInstall \/ AptFinishes \/ UNCHANGED vars \/ \E i \in Ids : PackageLost(i)
  <2>1. UNCHANGED <<kind, running, ops, cur, pc, loc, load>>
    BY <1>2 DEF OtherInstall, AptFinishes, PackageLost, vars, work, world
  <2>2. Phase' = Phase
    BY <2>1 DEF Phase
  <2>. QED  BY <2>1, <2>2 DEF Offers
<1>3. CASE EngineRestart
  <2>1. Phase' = "none" /\ (\A r \in Clients : pc'[r] = "idle") /\ (\A i \in Ids : load'[i] = "none")
    BY <1>3 DEF EngineRestart, Phase
  <2>. QED  BY <2>1 DEF Offers
<1>. QED  BY <1>1, <1>2, <1>3, OffersPrepare, OffersBegin, OffersWork
          DEF Next, World, Worker, Request, AsideRequest, LoadAny, InstallAny

LEMMA OffersInit == Init => Offers
  BY DEF Init, Offers, Phase

LEMMA BetaHolds ==
  ASSUME TypeOK
  PROVE  BetaNotBehindStable
<1>1. /\ StableAnswers(feed) \subseteq SomeVersion /\ feed.unstable \in SomeVersion
      /\ NoVersion \in SomeVersion
  BY UpdateAssumption DEF TypeOK, StableAnswers, SomeVersion
<1>2. ASSUME NEW s \in StableAnswers(feed) \ {NoVersion}, NEW u \in {feed.unstable, NoVersion},
             NEW v, v = ChooseUnstable(s, u)
      PROVE  v # NoVersion /\ ~IsNewer(s, v) /\ (u # NoVersion => ~IsNewer(u, v))
  <2>1. s \in SomeVersion /\ u \in SomeVersion
    BY <1>1
  <2>2. (v = s /\ (u = NoVersion \/ IsNewer(s, u))) \/ (v = u /\ u # NoVersion /\ ~IsNewer(s, u))
    <3>1. CASE u = NoVersion
      BY <1>2, <3>1 DEF ChooseUnstable
    <3>2. CASE u # NoVersion /\ IsNewer(s, u)
      BY <1>2, <3>2 DEF ChooseUnstable
    <3>3. CASE u # NoVersion /\ ~IsNewer(s, u)
      BY <1>2, <3>3 DEF ChooseUnstable
    <3>. QED  BY <3>1, <3>2, <3>3
  <2>. QED  BY <2>1, <2>2, NewerStrict
<1>. QED  BY <1>2 DEF BetaNotBehindStable

\* Who answered.
Answering(r) ==
  \/ StatusKnown(r) \/ StatusFetched(r)
  \/ pc[r] = "hand over" /\ (HandOver(r) \/ RunUserUpdate(r) \/ OpenStore(r))
  \/ DecideAnswered(r) \/ BeginInstall(r)
  \/ Lookup(r) \/ FindAsset(r) \/ LaunchFailed(r) \/ Report(r)
  \/ DirectLookup(r) \/ DirectDownload(r) \/ DirectRun(r)

LEMMA AnswerComesFrom ==
  ASSUME [Next]_vars
  PROVE  UNCHANGED vars \/ answer' = NoAnswer \/ \E r \in Clients : Answering(r)
<1>1. ASSUME NEW r \in Clients, AskStatus(r) \/ AskUpdate(r) \/ StatusAsksFeeds(r) \/ BeginOperation(r) \/ LaunchWorker(r)
      PROVE  answer' = NoAnswer
  BY <1>1 DEF AskStatus, AskUpdate, StatusAsksFeeds, BeginOperation, LaunchWorker, Goto
<1>. QED  BY <1>1 DEF Next, World, Worker, Request, Answering

Says(m, p) == answer' = [mode |-> m, phase |-> p]

LEMMA AnswerSays ==
  ASSUME NEW r, NEW m, NEW p, Answer(r, m, p)
  PROVE  Says(m, p)
  BY DEF Answer, Says

LEMMA StatusSays ==
  ASSUME NEW r \in Clients, StatusKnown(r) \/ StatusFetched(r)
  PROVE  /\ UNCHANGED <<kind, installed, running, ops, cur>>
         /\ \E p : /\ Says("status", p)
                   /\ \/ kind = "linux-package" /\ Phase \in Shown /\ p = Phase
                      \/ ~(kind = "linux-package" /\ Phase \in Shown) /\ p # "installed"
                      \/ ~(kind = "linux-package" /\ Phase \in Shown) /\ RestartNeeded(loc[r].ver)
<1>1. UNCHANGED <<kind, installed, running, ops, cur>>
  BY DEF StatusKnown, StatusFetched, world
<1>2. CASE StatusKnown(r)
  <2>1. CASE OperationShown /\ Answer(r, "status", Phase)
    BY <1>1, <2>1, AnswerSays DEF OperationShown
  <2>2. CASE ~OperationShown /\ RestartNeeded(loc[r].ver) /\ Answer(r, "status", "installed")
    BY <1>1, <2>2, AnswerSays DEF OperationShown
  <2>3. CASE kind = "windows-store" /\ Answer(r, "status", "store")
    BY <1>1, <2>3, AnswerSays
  <2>. QED  BY <1>2, <2>1, <2>2, <2>3 DEF StatusKnown
<1>3. CASE StatusFetched(r)
  <2>1. PICK p \in {"available", "current"} : Answer(r, "status", Applied(p))
        \/ Answer(r, "status", IF OperationShown THEN Phase ELSE "check_failed")
    BY <1>3 DEF StatusFetched
  <2>2. CASE Answer(r, "status", Applied(p))
    <3>1. Says("status", Applied(p))
      BY <2>2, AnswerSays
    <3>2. CASE kind = "linux-package" /\ cur # 0
      <4>1. Applied(p) = Phase /\ (Phase = "installed" => Phase \in Shown)
        BY <3>2 DEF Applied, Shown
      <4>. QED  BY <1>1, <3>1, <3>2, <4>1
    <3>3. CASE ~(kind = "linux-package" /\ cur # 0)
      <4>1. Applied(p) = p /\ p # "installed"
        BY <3>3 DEF Applied
      <4>2. ~(kind = "linux-package" /\ Phase \in Shown)
        BY <3>3 DEF Phase, Shown, Busy
      <4>. QED  BY <1>1, <3>1, <4>1, <4>2
    <3>. QED  BY <3>2, <3>3
  <2>3. CASE Answer(r, "status", IF OperationShown THEN Phase ELSE "check_failed")
    <3>1. Says("status", IF OperationShown THEN Phase ELSE "check_failed")
      BY <2>3, AnswerSays
    <3>. QED  BY <1>1, <3>1 DEF OperationShown
  <2>. QED  BY <2>1, <2>2, <2>3
<1>. QED  BY <1>2, <1>3

\* The answers to a request to update.
LEMMA UpdateSays ==
  ASSUME TypeOK, FileInv, Reported, NEW r \in Clients, Answering(r), ~StatusKnown(r), ~StatusFetched(r)
  PROVE  /\ UNCHANGED kind
         /\ \E m, p : /\ Says(m, p) \/ answer' = NoAnswer
                      /\ p = "installed" => /\ UNCHANGED <<installed, running, ops, cur>>
                                            /\ Phase = "installed" \/ RestartNeeded(loc[r].ver)
                      /\ m # "status"
                      /\ m = "store" => AvailableActions(kind) = "open_store"
                      /\ m = "release" => AvailableActions(kind) = "open_release"
                      /\ m \in {"command", "installer", "working", "busy", "installed", "current"}
                           => AvailableActions(kind) = "update"
<1>. DEFINE Fits(m, p) ==
       /\ p = "installed" => /\ UNCHANGED <<installed, running, ops, cur>>
                             /\ Phase = "installed" \/ RestartNeeded(loc[r].ver)
       /\ m # "status"
       /\ m = "store" => AvailableActions(kind) = "open_store"
       /\ m = "release" => AvailableActions(kind) = "open_release"
       /\ m \in {"command", "installer", "working", "busy", "installed", "current"}
            => AvailableActions(kind) = "update"
<1>0. UNCHANGED kind
  BY DEF Answering, HandOver, RunUserUpdate, OpenStore, DecideAnswered, BeginInstall, Lookup, FindAsset,
     LaunchFailed, Report, DirectLookup, DirectDownload, DirectRun, world
<1>1. kind = "linux-package" \/ kind = "windows-direct" => AvailableActions(kind) = "update"
  BY DEF AvailableActions
<1>2. Fits("error", "failed")
  OBVIOUS
<1>3. CASE HandOver(r) \/ RunUserUpdate(r) \/ OpenStore(r)
  <2>1. \E m, p : Answer(r, m, p) /\ Fits(m, p)
    BY <1>3 DEF HandOver, RunUserUpdate, OpenStore, AvailableActions
  <2>. QED  BY <1>0, <2>1, AnswerSays
<1>4. CASE DecideAnswered(r)
  <2>1. kind = "linux-package" /\ UNCHANGED <<installed, running, ops, cur>>
    BY <1>4 DEF DecideAnswered, FileInv, Kinds, world
  <2>2. Phase \in Busy => Phase # "installed"
    BY DEF Busy
  <2>3. \E m, p : Answer(r, m, p) /\ Fits(m, p)
    BY <1>1, <1>2, <1>4, <2>1, <2>2 DEF DecideAnswered
  <2>. QED  BY <1>0, <2>3, AnswerSays
<1>5. CASE BeginInstall(r)
  <2>1. kind = "linux-package" /\ Answer(r, "working", "installing")
    BY <1>5 DEF BeginInstall, FileInv, Kinds
  <2>. QED  BY <1>0, <1>1, <2>1, AnswerSays
<1>6. CASE Lookup(r) \/ FindAsset(r) \/ LaunchFailed(r)
  <2>1. kind = "linux-package"
    BY <1>6 DEF Lookup, FindAsset, LaunchFailed, FileInv, Kinds, Fetchers
  <2>2. answer' = NoAnswer \/ Answer(r, "error", "failed") \/ Answer(r, "current", "current")
    BY <1>6 DEF Lookup, FindAsset, LaunchFailed, Goto
  <2>. QED  BY <1>0, <1>1, <1>2, <2>1, <2>2, AnswerSays
<1>7. CASE DirectLookup(r) \/ DirectDownload(r) \/ DirectRun(r)
  <2>1. kind = "windows-direct"
    BY <1>7 DEF DirectLookup, DirectDownload, DirectRun, FileInv, Kinds
  <2>2. \/ answer' = NoAnswer \/ Answer(r, "error", "failed") \/ Answer(r, "current", "current")
        \/ Answer(r, "installer", "working")
    BY <1>7 DEF DirectLookup, DirectDownload, DirectRun, Goto
  <2>. QED  BY <1>0, <1>1, <1>2, <2>1, <2>2, AnswerSays
<1>8. CASE Report(r)
  <2>1. /\ UNCHANGED <<installed, running, ops, cur>> /\ kind = "linux-package"
        /\ loc[r].op \in gone + 1 .. made
    BY <1>8 DEF Report, Reported, world
  <2>2. loc[r].op \in Ids /\ loc[r].op > gone /\ loc[r].op # 0
    BY <2>1, UpdateAssumption DEF TypeOK, Ids
  <2>3. ops[loc[r].op].phase = "installed" => Phase = "installed"
    BY <2>2 DEF Reported, Phase
  <2>4. PICK m \in {"installed", "error", "working"} :
          Answer(r, m, ops[loc[r].op].phase)
    BY <1>8 DEF Report
  <2>. QED  BY <1>0, <1>1, <2>1, <2>3, <2>4, AnswerSays
<1>. QED  BY <1>3, <1>4, <1>5, <1>6, <1>7, <1>8 DEF Answering

\* An engine that is told apart from the installed version is behind it.
LEMMA RestartIsNewer ==
  ASSUME TypeOK, Backed, NEW r \in Clients, RestartNeeded(loc[r].ver)
  PROVE  IsNewer(installed, running)
<1>1. /\ installed \in SomeVersion /\ running \in SomeVersion /\ loc[r].ver \in SomeVersion
      /\ Has(loc[r].ver) /\ IsNewer(loc[r].ver, running)
  BY Records DEF Backed, RestartNeeded
<1>. QED  BY <1>1, NewerStrict, NewerTransitive, UpdateAssumption DEF Has, Covers, SomeVersion

LEMMA InstalledHelps ==
  ASSUME TypeOK, Backed, "dpkg" \in Faults \/ Offers, Phase = "installed"
  PROVE  \/ IsNewer(installed, running)
         \/ "dpkg" \in Faults /\ Phase = "installed" /\ ~IsNewer(ops[cur].target, running)
<1>1. /\ installed \in SomeVersion /\ running \in SomeVersion /\ ops[cur].target \in SomeVersion
      /\ Has(ops[cur].target)
  <2>1. cur \in Ids
    BY Records DEF Phase
  <2>. QED  BY <2>1, Records DEF Backed
<1>2. CASE IsNewer(ops[cur].target, running)
  BY <1>1, <1>2, NewerStrict, NewerTransitive, UpdateAssumption DEF Has, Covers, SomeVersion
<1>3. CASE ~IsNewer(ops[cur].target, running)
  BY <1>3 DEF Offers
<1>. QED  BY <1>2, <1>3

LEMMA AnswersStep ==
  ASSUME TypeOK, TypeOK', FileInv, Backed, Reported, "dpkg" \in Faults \/ Offers, AnswersTrue, [Next]_vars
  PROVE  AnswersTrue'
<1>0. BetaNotBehindStable'
  BY BetaHolds, PTL
<1>1. CASE UNCHANGED vars
  <2>1. UNCHANGED <<answer, kind, installed, running, ops, cur>> /\ Phase' = Phase
    BY <1>1 DEF vars, Phase
  <2>. QED  BY <1>0, <2>1 DEF AnswersTrue, StatusShowsOperation, RestartHelps, OfferIsKept
<1>2. CASE answer' = NoAnswer
  BY <1>0, <1>2 DEF NoAnswer, AnswersTrue, StatusShowsOperation, RestartHelps, OfferIsKept
<1>3. ASSUME NEW r \in Clients, StatusKnown(r) \/ StatusFetched(r)
      PROVE  AnswersTrue'
  <2>1. PICK p : /\ Says("status", p)
                 /\ \/ kind = "linux-package" /\ Phase \in Shown /\ p = Phase
                    \/ ~(kind = "linux-package" /\ Phase \in Shown) /\ p # "installed"
                    \/ ~(kind = "linux-package" /\ Phase \in Shown) /\ RestartNeeded(loc[r].ver)
    BY <1>3, StatusSays
  <2>2. UNCHANGED <<kind, installed, running, ops, cur>> /\ Phase' = Phase
    BY <1>3, StatusSays DEF Phase
  <2>3. answer'.mode = "status" /\ answer'.phase = p
    BY <2>1 DEF Says
  <2>4. StatusShowsOperation' /\ OfferIsKept'
    BY <2>1, <2>2, <2>3 DEF StatusShowsOperation, OfferIsKept
  <2>5. p = "installed" => IsNewer(installed, running) \/ Phase = "installed"
    BY <2>1, RestartIsNewer
  <2>6. RestartHelps'
    BY <2>2, <2>3, <2>5, InstalledHelps DEF RestartHelps
  <2>. QED  BY <1>0, <2>4, <2>6 DEF AnswersTrue
<1>4. ASSUME NEW r \in Clients, Answering(r), ~StatusKnown(r), ~StatusFetched(r), answer' # NoAnswer
      PROVE  AnswersTrue'
  <2>1. PICK m, p : /\ Says(m, p)
                    /\ p = "installed" => /\ UNCHANGED <<installed, running, ops, cur>>
                                          /\ Phase = "installed" \/ RestartNeeded(loc[r].ver)
                    /\ m # "status"
                    /\ m = "store" => AvailableActions(kind) = "open_store"
                    /\ m = "release" => AvailableActions(kind) = "open_release"
                    /\ m \in {"command", "installer", "working", "busy", "installed", "current"}
                         => AvailableActions(kind) = "update"
    BY <1>4, UpdateSays
  <2>2. answer'.mode = m /\ answer'.phase = p
    BY <2>1 DEF Says
  <2>3. UNCHANGED kind
    BY <1>4, UpdateSays
  <2>4. StatusShowsOperation' /\ OfferIsKept'
    BY <2>1, <2>2, <2>3 DEF StatusShowsOperation, OfferIsKept
  <2>5. RestartHelps'
    <3>1. SUFFICES ASSUME p = "installed" PROVE RestartHelps'
      BY <2>2 DEF RestartHelps
    <3>2. UNCHANGED <<installed, running, ops, cur>> /\ Phase' = Phase
      BY <2>1, <3>1 DEF Phase
    <3>3. IsNewer(installed, running) \/ Phase = "installed"
      BY <2>1, <3>1, RestartIsNewer
    <3>. QED  BY <3>2, <3>3, InstalledHelps DEF RestartHelps
  <2>. QED  BY <1>0, <2>4, <2>5 DEF AnswersTrue
<1>. QED  BY <1>1, <1>2, <1>3, <1>4, AnswerComesFrom

\* What the window is told about updates is so, for any versions, feeds and
\* faults, any number of requests at a time and any restarts: beta is not
\* behind stable (_fetch_latest_unstable), a status shows the operation as it is
\* when the status is answered (build_update_status), "installed" is answered
\* only when a restart brings a newer engine or dpkg did not answer
\* (start_update_flow), and a request does what the status offered
\* (_available_actions).
THEOREM AnswersTold == Spec => []AnswersTrue
<1>. DEFINE OffersInv == "dpkg" \in Faults \/ Offers
            All == TypeOK /\ OpInv /\ FileInv /\ Backed /\ Reported /\ OffersInv /\ AnswersTrue
<1>1. Init => All
  <2>1. ASSUME Init PROVE AnswersTrue
    BY <2>1, TypeInit, BetaHolds DEF Init, NoAnswer, AnswersTrue, StatusShowsOperation, RestartHelps, OfferIsKept
  <2>. QED  BY <2>1, TypeInit, OpInit, FileInit, BackedInit, ReportedInit, OffersInit
<1>2. ASSUME All, [Next]_vars PROVE All'
  <2>1. TypeOK' /\ OpInv' /\ FileInv'
    BY <1>2, TypeStep, OpStep, FileStep
  <2>2. Backed' /\ Reported'
    BY <1>2, <2>1, BackedStep, ReportedStep
  <2>3. OffersInv'
    BY <1>2, OffersStep
  <2>4. AnswersTrue'
    BY <1>2, <2>1, AnswersStep
  <2>. QED  BY <2>1, <2>2, <2>3, <2>4
<1>. QED  BY <1>1, <1>2, PTL DEF Spec

=============================================================================
