--------------------------- MODULE LibraryProofs ----------------------------
(***************************************************************************)
(* What the two stores keep, for any number of notes, dictations, threads  *)
(* of the server, crashes and faults.  The argument: a file is replaced by *)
(* a change of the record its writer read, so it keeps what it said unless *)
(* somebody wrote in between, and then the file counts as raced.           *)
(***************************************************************************)
EXTENDS Library, TLAPS

Entry == [of : Texts, archived : BOOLEAN]
Deeds == {"idle", "create", "discard", "piece", "decode", "ready", "failed", "append",
          "interrupted", "archive", "unarchive"}
Points == {"", "write", "unlink", "rmdir", "forget", "segment", "load", "save", "check", "claim"}
JobType == [do : Deeds, of : Texts \cup Items \cup {None}, at : Points,
            base : JsonType \cup Seq(Entry) \cup {None}]
Sessions == {"new", "recording", "stopping", "queued", "claimed", "done", "gone", "orphan", "old"}
Captured == {"recording", "stopping", "queued"}
Begun == Captured \cup {"claimed", "done", "gone"}
Past == {"done", "gone", "old"}
EntryList(s) == s \in Seq(Entry) /\ Len(s) <= MaxEntries

\* A job that changes a note, and one that changes the history.
Marks(j) == j.at = "load" \/ (j.at = "write" /\ j.base \in JsonType)
Appends(j) == j.at = "load" \/ (j.at = "save" /\ EntryList(j.base))

\* What each thread may be doing, and with which text.
Failing(j) == j.do = "failed" /\ j.of \in Notes /\ sess[j.of] = "claimed" /\ Marks(j)
ControlOK ==
  LET j == job["control"] IN
  \/ j.do = "idle"
  \/ j.do = "create" /\ j.of \in Notes /\ j.at = "write" /\ sess[j.of] = "new"
  \/ j.do = "discard" /\ j.of \in tossed /\ j.at \in {"unlink", "rmdir", "forget"}
  \/ Failing(j)
RecorderOK == job["recorder"].do = "idle" \/ Failing(job["recorder"])
WorkerOK ==
  LET j == job["worker"] IN
  j.do # "idle" =>
    /\ phase = "up" /\ j.of \in Texts
    /\ \/ j.do = "piece" /\ j.at = "segment" /\ j.of \in Notes /\ sess[j.of] \in Begun
       \/ /\ j.do = "decode" /\ j.at \in {"segment", "check", "claim"}
          /\ j.of \in Notes /\ sess[j.of] \in {"stopping", "queued", "gone"}
       \/ j.do \in {"ready", "failed"} /\ j.of \in Notes /\ sess[j.of] = "claimed" /\ Marks(j)
       \/ j.do = "append" /\ j.of \in Notes /\ sess[j.of] \in {"claimed", "gone"} /\ Appends(j)
       \/ j.do = "append" /\ j.of \notin Notes /\ sess[j.of] = "queued" /\ Appends(j)
StartOK ==
  LET j == job["start"] IN
  j.do # "idle" => /\ j.do = "interrupted" /\ phase = "starting" /\ j.of \in Notes
                   /\ sess[j.of] \in Past /\ Marks(j)
UiOK(u) ==
  LET j == job[u] IN
  j.do # "idle" =>
    /\ j.do \in {"archive", "unarchive"} /\ j.of \in Items
    /\ \/ j.of.kind = "note" /\ j.of.of \in Notes /\ (j.at = "check" \/ Marks(j))
       \/ j.of.kind = "entry" /\ j.of.of \in Texts /\ Appends(j)
OwnOK(t) == /\ t = "control" => ControlOK
            /\ t = "recorder" => RecorderOK
            /\ t = "worker" => WorkerOK
            /\ t = "start" => StartOK
            /\ t \in Ui => UiOK(t)
ThreadsOK == \A t \in Threads : OwnOK(t)
DownOK == phase = "down" => /\ \A t \in Threads : job[t].do = "idle"
                            /\ \A x \in Texts : sess[x] \in {"new", "done", "gone", "old"}

\* The worker holds a recording it has taken; t has taken the id of note n; t
\* has still to settle it.
Holding(x) == job["worker"].do \in {"decode", "ready", "append"} /\ job["worker"].of = x
Claims(t, n) == t \in Engine /\ job[t].do \in {"ready", "failed", "append"} /\ job[t].of = n
                /\ sess[n] = "claimed"
Marking(t, n) == t \in Engine /\ job[t].do \in {"ready", "failed"} /\ job[t].of = n
ClaimsOK == \A n \in Notes, s, t \in Threads : Claims(s, n) /\ Claims(t, n) => s = t

\* The thread t has read the record of note n and is about to replace it.
Target(j, t) == IF t \in Ui THEN j.of.of ELSE j.of
Rewrites(t, n) == job[t].do \notin {"idle", "create"} /\ job[t].at = "write" /\ Target(job[t], t) = n
\* The thread t has read the history and is about to replace it.
Saves(t) == job[t].do # "idle" /\ job[t].at = "save"

Typed == /\ note \in [Notes -> NoteType] /\ history \in Seq(Entry) /\ Len(history) <= MaxEntries
         /\ sess \in [Texts -> Sessions] /\ pieces \in [Notes -> 0 .. MaxPieces]
         /\ queue \subseteq Texts /\ left \subseteq Notes
         /\ phase \in {"down", "starting", "up"}
         /\ hidden \subseteq Items /\ raced \subseteq Notes \cup {"history"}
         /\ said \in Seq(Texts) /\ skipped \in BOOLEAN /\ tossed \subseteq Notes
         /\ job \in [Threads -> JobType]
QueueOK ==
  \A x \in queue : /\ x \in Notes => sess[x] \in {"stopping", "queued", "claimed", "done"}
                   /\ x \notin Notes => sess[x] = "queued"
                   /\ ~Holding(x)

\* What holds of each note.  Segments come from the worker alone, and it counts
\* them.
SegsAt(n) ==
  LET j == job["worker"] IN
  j.of = n =>
    /\ j.do \in {"piece", "decode"} /\ j.at = "segment" => note[n].segs < Segments
    /\ (j.do = "decode" /\ j.at \in {"check", "claim"}) \/ j.do = "ready"
       => n \in tossed \/ note[n].segs = Segments
ReadyAt(n) ==
  n \notin tossed =>
    /\ note[n].json # None /\ note[n].json.status = "ready" => note[n].segs = Segments
    /\ \A t \in Threads : Rewrites(t, n) /\ job[t].base.status = "ready" => note[n].segs = Segments

\* Where a record is and where there is none.
Creating(n) == job["control"].do = "create" /\ job["control"].of = n
Removed(n) == job["control"].do = "discard" /\ job["control"].of = n
              /\ job["control"].at \in {"rmdir", "forget"}
FilesAt(n) ==
  /\ sess[n] = "new" => note[n].json = None /\ n \notin tossed /\ (note[n].there => Creating(n))
  /\ Creating(n) => note[n].there
  /\ n \notin tossed /\ (sess[n] \in Begun \/ note[n].segs > 0) => note[n].json # None
  /\ note[n].json # None => note[n].there
  /\ sess[n] = "gone" => n \in tossed
  /\ n \notin raced /\ (sess[n] = "gone" \/ Removed(n)) => note[n].json = None
KnownAt(n) ==
  /\ \A t \in Threads : Rewrites(t, n) => sess[n] # "new"
  /\ NoteItem(n) \in hidden => /\ sess[n] # "new"
                               /\ n \in raced \/ note[n].json = None \/ note[n].json.archived

\* A note of an engine that died is still to be looked at, or settled.
Looked(n) == phase = "starting" /\ (n \in left \/ (job["start"].do = "interrupted" /\ job["start"].of = n))
RecoveringAt(n) ==
  phase # "down" /\ ~skipped /\ sess[n] = "old" /\ n \notin raced /\ note[n].json # None
    => note[n].json.status \in Settled \/ Looked(n)

\* The engine settles a note once, and a recovery only one it found unsettled.
Unsettled(n) == n \in raced \/ note[n].json = None \/ note[n].json.status \notin {"ready", "failed"}
UnfinishedAt(n) == sess[n] \in Captured \/ (\E t \in Threads : Marking(t, n)) => Unsettled(n)
LateAt(n) ==
  LET j == job["start"] IN
  j.do # "idle" /\ j.of = n =>
    \/ n \in raced
    \/ j.at = "load" /\ (note[n].json = None \/ note[n].json.status \in InFlight)
    \/ j.at = "write" /\ j.base.status \in InFlight
FineNote(n) == /\ SegsAt(n) /\ ReadyAt(n) /\ FilesAt(n) /\ KnownAt(n)
               /\ RecoveringAt(n) /\ UnfinishedAt(n) /\ LateAt(n)
NotesFine == \A n \in Notes : FineNote(n)
LeftOK == \A n \in left : sess[n] \in Past
SaidOK == \A x \in Texts \ Notes : sess[x] \in {"new", "queued", "done", "old"}

\* The history and the texts that were said run side by side.
Rolls ==
  "history" \notin raced =>
    /\ Len(history) = IF Len(said) < MaxEntries THEN Len(said) ELSE MaxEntries
    /\ \A i \in 1 .. Len(history) : history[i].of = said[i]

\* An entry, written or read, hidden or asked for, is of a finished text.
Over(x) == sess[x] \in {"done", "gone"} /\ ~Holding(x)
EntriesDone ==
  /\ \A i \in DOMAIN history : Over(history[i].of)
  /\ \A t \in Threads : Saves(t) => \A i \in DOMAIN job[t].base : Over(job[t].base[i].of)
  /\ \A x \in Texts : EntryItem(x) \in hidden => Over(x)
  /\ \A u \in Ui : job[u].do # "idle" /\ job[u].of.kind = "entry" => Over(job[u].of.of)
EntrySticks ==
  \A x \in Texts : EntryItem(x) \in hidden
    => "history" \in raced \/ \A i \in DOMAIN history : history[i].of = x => history[i].archived
ListOK == Rolls /\ EntriesDone /\ EntrySticks

LibI == /\ Typed /\ ThreadsOK /\ DownOK /\ ClaimsOK /\ QueueOK /\ LeftOK
        /\ SaidOK /\ NotesFine /\ ListOK
-----------------------------------------------------------------------------
(* What the operators of the two stores return.                              *)

LEMMA FirstFacts ==
  ASSUME NEW S, NEW s \in Seq(S), NEW k \in Nat
  PROVE  /\ First(s, k) \in Seq(S)
         /\ Len(First(s, k)) = IF Len(s) < k THEN Len(s) ELSE k
         /\ \A i \in 1 .. Len(First(s, k)) : First(s, k)[i] = s[i]
<1>1. PICK m \in 0 .. Len(s) : m = IF Len(s) < k THEN Len(s) ELSE k
  BY SMT
<1>2. SubSeq(s, 1, m) \in Seq(S) /\ Len(SubSeq(s, 1, m)) = m
  BY <1>1, SMT
<1>3. \A i \in 1 .. m : SubSeq(s, 1, m)[i] = s[i]
  BY <1>1, SMT
<1>4. QED
  BY <1>1, <1>2, <1>3 DEF First

LEMMA Loaded ==
  ASSUME Typed
  PROVE  EntryList(LoadAll) /\ DOMAIN LoadAll = 1 .. Len(LoadAll)
         /\ \A i \in DOMAIN LoadAll : i \in DOMAIN history /\ LoadAll[i] = history[i]
<1>1. history \in Seq(Entry) /\ MaxEntries \in Nat
  BY LibraryAssumption DEF Typed
<1>2. LoadAll \in Seq(Entry)
      /\ Len(LoadAll) = (IF Len(history) < MaxEntries THEN Len(history) ELSE MaxEntries)
      /\ \A i \in 1 .. Len(LoadAll) : LoadAll[i] = history[i]
  BY <1>1, FirstFacts DEF LoadAll
<1>3. QED
  BY <1>1, <1>2 DEF EntryList

LEMMA EntryAt ==
  ASSUME NEW b \in Seq(Entry), NEW i \in DOMAIN b
  PROVE  b[i] \in Entry /\ b[i].of \in Texts
<1>1. b[i] \in Entry
  OBVIOUS
<1>2. QED
  BY <1>1 DEF Entry

LEMMA AppendedFacts ==
  ASSUME NEW x \in Texts, NEW b \in Seq(Entry), Len(b) <= MaxEntries
  PROVE  /\ EntryList(Appended(x, b))
         /\ Len(Appended(x, b)) = IF Len(b) < MaxEntries THEN Len(b) + 1 ELSE MaxEntries
         /\ Appended(x, b)[1] = EntryOf(x)
         /\ \A i \in 2 .. Len(Appended(x, b)) : i - 1 \in 1 .. Len(b) /\ Appended(x, b)[i] = b[i - 1]
<1>1. EntryOf(x) \in Entry /\ MaxEntries \in Nat \ {0}
  BY LibraryAssumption DEF EntryOf, Entry
<1>2. <<EntryOf(x)>> \in Seq(Entry)
  BY <1>1
<1>3. <<EntryOf(x)>> \o b \in Seq(Entry)
  BY <1>2, SMT
<1>3a. PICK s \in Seq(Entry) : s = <<EntryOf(x)>> \o b
  BY <1>3, Zenon
<1>4. Len(s) = Len(b) + 1 /\ s[1] = EntryOf(x) /\ \A i \in 2 .. Len(s) : s[i] = b[i - 1]
  BY <1>2, <1>3a
<1>5. /\ First(s, MaxEntries) \in Seq(Entry)
      /\ Len(First(s, MaxEntries)) = IF Len(s) < MaxEntries THEN Len(s) ELSE MaxEntries
      /\ \A i \in 1 .. Len(First(s, MaxEntries)) : First(s, MaxEntries)[i] = s[i]
  BY <1>1, FirstFacts
<1>6. PICK f \in Seq(Entry) : f = First(s, MaxEntries)
  BY <1>5
<1>7. /\ Len(f) = IF Len(b) < MaxEntries THEN Len(b) + 1 ELSE MaxEntries
      /\ \A i \in 1 .. Len(f) : f[i] = s[i]
  BY <1>1, <1>4, <1>5, <1>6
<1>8. Len(f) \in 1 .. Len(b) + 1 /\ Len(f) <= MaxEntries
  BY <1>1, <1>7
<1>9. f[1] = EntryOf(x) /\ \A i \in 2 .. Len(f) : i - 1 \in 1 .. Len(b) /\ f[i] = b[i - 1]
  BY <1>4, <1>7, <1>8
<1>10. Appended(x, b) = f
  BY <1>3a, <1>6 DEF Appended
<1>11. QED
  BY <1>7, <1>8, <1>9, <1>10 DEF EntryList

LEMMA ArchivedFacts ==
  ASSUME NEW b \in Seq(Entry), NEW x, NEW flag \in BOOLEAN
  PROVE  /\ Archived(b, x, flag) \in Seq(Entry) /\ Len(Archived(b, x, flag)) = Len(b)
         /\ \A i \in 1 .. Len(b) :
              /\ Archived(b, x, flag)[i].of = b[i].of
              /\ Archived(b, x, flag)[i].archived = IF b[i].of = x THEN flag ELSE b[i].archived
<1> DEFINE change(e) == IF e.of = x THEN [e EXCEPT !.archived = flag] ELSE e
<1>1. ASSUME NEW e \in Entry
      PROVE  /\ change(e) \in Entry /\ change(e).of = e.of
             /\ change(e).archived = IF e.of = x THEN flag ELSE e.archived
  BY DEF Entry
<1>2. \A i \in 1 .. Len(b) : b[i] \in Entry
  OBVIOUS
<1>3. Archived(b, x, flag) = [i \in 1 .. Len(b) |-> change(b[i])]
  BY DEF Archived
<1> HIDE DEF change
<1>4. \A i \in 1 .. Len(b) : change(b[i]) \in Entry
  BY <1>1, <1>2
<1>5. [i \in 1 .. Len(b) |-> change(b[i])] \in Seq(Entry)
      /\ Len([i \in 1 .. Len(b) |-> change(b[i])]) = Len(b)
  BY <1>4
<1>6. \A i \in 1 .. Len(b) : Archived(b, x, flag)[i] = change(b[i])
  BY <1>3
<1>7. QED
  BY <1>1, <1>2, <1>3, <1>5, <1>6

LEMMA ItemsApart ==
  /\ \A x, y : NoteItem(x) # EntryItem(y)
  /\ \A x, y : NoteItem(x) = NoteItem(y) => x = y
  /\ \A x, y : EntryItem(x) = EntryItem(y) => x = y
  /\ \A i \in Items : \/ i.kind = "note" /\ i.of \in Notes /\ i = NoteItem(i.of)
                      \/ i.kind = "entry" /\ i.of \in Texts /\ i = EntryItem(i.of)
<1>1. \A x : NoteItem(x).kind = "note" /\ NoteItem(x).of = x
             /\ EntryItem(x).kind = "entry" /\ EntryItem(x).of = x
  BY DEF NoteItem, EntryItem
<1>2. QED
  BY <1>1 DEF Items

LEMMA ThreadsApart ==
  /\ Engine \subseteq Threads /\ Ui \subseteq Threads
  /\ {"control", "recorder", "worker", "start"} \subseteq Threads
  /\ \A u \in Ui : u \notin Engine /\ u # "control" /\ u # "recorder" /\ u # "worker" /\ u # "start"
  /\ \A t \in Threads : t \in Ui \/ t = "control" \/ t = "recorder" \/ t = "worker" \/ t = "start"
BY LibraryAssumption DEF Threads, Engine

-----------------------------------------------------------------------------
(* What a thread does with its job, and a writer with a record.              *)

LEMMA IdleTyped == Idle \in JobType /\ Idle.do = "idle"
<1>1. "idle" \in Deeds /\ "" \in Points /\ None \in Texts \cup Items \cup {None}
      /\ None \in JsonType \cup Seq(Entry) \cup {None}
  BY DEF Deeds, Points
<1>2. QED
  BY <1>1 DEF Idle, JobType

LEMMA JobTyped ==
  ASSUME NEW d \in Deeds, NEW x \in Texts \cup Items, NEW a \in Points
  PROVE  /\ Job(d, x, a) \in JobType /\ Job(d, x, a).do = d
         /\ Job(d, x, a).of = x /\ Job(d, x, a).at = a
BY DEF Job, JobType

\* t begins on x, or has nothing more to do.
Begins(t, d, x, a) ==
  /\ job' \in [Threads -> JobType] /\ \A s \in Threads \ {t} : job'[s] = job[s]
  /\ job'[t].do = d /\ job'[t].of = x /\ job'[t].at = a

LEMMA SetBegins ==
  ASSUME job \in [Threads -> JobType], NEW t \in Threads,
         NEW d \in Deeds, NEW x \in Texts \cup Items, NEW a \in Points, Set(t, Job(d, x, a))
  PROVE  Begins(t, d, x, a)
BY JobTyped DEF Set, Begins

Ends(t) ==
  /\ job' \in [Threads -> JobType] /\ \A s \in Threads \ {t} : job'[s] = job[s]
  /\ job'[t] = Idle /\ job'[t].do = "idle"

LEMMA SetEnds ==
  ASSUME job \in [Threads -> JobType], NEW t \in Threads, Set(t, Idle)
  PROVE  Ends(t)
BY IdleTyped DEF Set, Ends

\* t goes on to the point at of its job, with what it has read.
Goes(t, at, base) ==
  /\ job' \in [Threads -> JobType] /\ \A s \in Threads \ {t} : job'[s] = job[s]
  /\ job'[t].do = job[t].do /\ job'[t].of = job[t].of /\ job'[t].at = at /\ job'[t].base = base

LEMMA AtGoes ==
  ASSUME job \in [Threads -> JobType], NEW t \in Threads, NEW a \in Points, At(t, a)
  PROVE  Goes(t, a, job[t].base)
<1>1. PICK j \in JobType : j = job[t]
  OBVIOUS
<1>2. [j EXCEPT !.at = a] \in JobType
  BY DEF JobType
<1>3. /\ [j EXCEPT !.at = a].do = j.do /\ [j EXCEPT !.at = a].of = j.of
      /\ [j EXCEPT !.at = a].at = a /\ [j EXCEPT !.at = a].base = j.base
  BY DEF JobType
<1>4. job' = [job EXCEPT ![t] = [j EXCEPT !.at = a]]
  BY <1>1 DEF At
<1>5. QED
  BY <1>1, <1>2, <1>3, <1>4 DEF Goes

LEMMA BaseGoes ==
  ASSUME job \in [Threads -> JobType], NEW t \in Threads, NEW a \in Points,
         NEW b \in JsonType \cup Seq(Entry),
         job' = [job EXCEPT ![t].at = a, ![t].base = b]
  PROVE  Goes(t, a, b)
<1>1. PICK j \in JobType : j = job[t]
  OBVIOUS
<1>2. [j EXCEPT !.at = a, !.base = b] \in JobType
  BY DEF JobType
<1>3. /\ [j EXCEPT !.at = a, !.base = b].do = j.do /\ [j EXCEPT !.at = a, !.base = b].of = j.of
      /\ [j EXCEPT !.at = a, !.base = b].at = a /\ [j EXCEPT !.at = a, !.base = b].base = b
  BY DEF JobType
<1>4. job' = [job EXCEPT ![t] = [j EXCEPT !.at = a, !.base = b]]
  BY <1>1
<1>5. QED
  BY <1>1, <1>2, <1>3, <1>4 DEF Goes

\* The record of n is now j, and the other notes are as they were.
Holds(n, j) ==
  /\ note' \in [Notes -> NoteType] /\ \A m \in Notes \ {n} : note'[m] = note[m]
  /\ note'[n].json = j /\ note'[n].segs = note[n].segs

LEMMA PutHolds ==
  ASSUME note \in [Notes -> NoteType], NEW n \in Notes, NEW j \in JsonType,
         note' = [note EXCEPT ![n].there = TRUE, ![n].json = j]
  PROVE  Holds(n, j) /\ note'[n].there
<1>1. PICK d \in NoteType : d = note[n]
  OBVIOUS
<1>2. [d EXCEPT !.there = TRUE, !.json = j] \in NoteType
  BY DEF NoteType
<1>3. /\ [d EXCEPT !.there = TRUE, !.json = j].json = j
      /\ [d EXCEPT !.there = TRUE, !.json = j].segs = d.segs
      /\ [d EXCEPT !.there = TRUE, !.json = j].there = TRUE
  BY DEF NoteType
<1>4. note' = [note EXCEPT ![n] = [d EXCEPT !.there = TRUE, !.json = j]]
  BY <1>1
<1>5. QED
  BY <1>1, <1>2, <1>3, <1>4 DEF Holds

LEMMA JsonHolds ==
  ASSUME note \in [Notes -> NoteType], NEW n \in Notes, NEW j \in JsonType \cup {None},
         note' = [note EXCEPT ![n].json = j]
  PROVE  Holds(n, j) /\ note'[n].there = note[n].there
<1>1. PICK d \in NoteType : d = note[n]
  OBVIOUS
<1>2. [d EXCEPT !.json = j] \in NoteType
  BY DEF NoteType
<1>3. /\ [d EXCEPT !.json = j].json = j
      /\ [d EXCEPT !.json = j].segs = d.segs /\ [d EXCEPT !.json = j].there = d.there
  BY DEF NoteType
<1>4. note' = [note EXCEPT ![n] = [d EXCEPT !.json = j]]
  BY <1>1
<1>5. QED
  BY <1>1, <1>2, <1>3, <1>4 DEF Holds

LEMMA ChangedFacts ==
  ASSUME NEW j \in JsonType, NEW w \in Settled \cup {"archive", "unarchive"}
  PROVE  /\ Changed(j, w) \in JsonType
         /\ Changed(j, w).status = IF w \in {"archive", "unarchive"} THEN j.status ELSE w
         /\ Changed(j, w).archived = IF w = "archive" THEN TRUE ELSE
                                     IF w = "unarchive" THEN FALSE ELSE j.archived
<1> DEFINE next == [j EXCEPT !.rev = @ + 1]
<1>1. next \in JsonType /\ next.status = j.status /\ next.archived = j.archived
  BY DEF JsonType
<1> HIDE DEF next
<1>2. CASE w = "archive"
  <2>1. Changed(j, w) = [next EXCEPT !.archived = TRUE]
    BY <1>2 DEF Changed, next
  <2>2. QED
    BY <1>1, <1>2, <2>1 DEF JsonType
<1>3. CASE w = "unarchive"
  <2>1. Changed(j, w) = [next EXCEPT !.archived = FALSE]
    BY <1>3 DEF Changed, next
  <2>2. QED
    BY <1>1, <1>3, <2>1 DEF JsonType
<1>4. CASE w \in Settled
  <2>1. Changed(j, w) = [next EXCEPT !.status = w]
    BY <1>4 DEF Changed, next, Settled
  <2>2. QED
    BY <1>1, <1>4, <2>1 DEF JsonType, Settled
<1>5. QED
  BY <1>2, <1>3, <1>4

\* What a change of a note leaves, unless somebody wrote it meanwhile.
LEMMA WriteFacts ==
  ASSUME Typed, NEW t, NEW n \in Notes, NEW w \in Settled \cup {"archive", "unarchive"},
         job[t].base \in JsonType, WriteNote(t, n, w)
  PROVE  /\ Holds(n, Changed(job[t].base, w)) /\ note'[n].there
         /\ note'[n].json \in JsonType
         /\ note'[n].json.status = IF w \in {"archive", "unarchive"} THEN job[t].base.status ELSE w
         /\ note'[n].json.archived = IF w = "archive" THEN TRUE ELSE
                                     IF w = "unarchive" THEN FALSE ELSE job[t].base.archived
         /\ raced \subseteq raced' /\ raced' \subseteq raced \cup {n}
         /\ n \notin raced' => note[n].json = job[t].base
         /\ UNCHANGED history
<1>1. PICK b \in JsonType : b = job[t].base
  OBVIOUS
<1>2. PICK c \in JsonType : c = Changed(b, w)
  BY ChangedFacts
<1>3. note' = [note EXCEPT ![n].there = TRUE, ![n].json = c]
  BY <1>1, <1>2 DEF WriteNote
<1>4. Holds(n, c) /\ note'[n].there
  BY <1>3, PutHolds DEF Typed
<1>5. note'[n].json = c
  BY <1>4 DEF Holds
<1>6. raced' = (IF note[n].json = b THEN raced ELSE raced \cup {n}) /\ UNCHANGED history
  BY <1>1 DEF WriteNote
<1>7. /\ c.status = IF w \in {"archive", "unarchive"} THEN b.status ELSE w
      /\ c.archived = IF w = "archive" THEN TRUE ELSE IF w = "unarchive" THEN FALSE ELSE b.archived
  BY <1>2, ChangedFacts
<1>8. QED
  BY <1>1, <1>2, <1>4, <1>5, <1>6, <1>7
-----------------------------------------------------------------------------
(* What a step of one thread may do to the sessions, and what it leaves to    *)
(* the other threads.                                                        *)

Others(t) == \A s \in Threads \ {t} : job'[s] = job[s]
SegsKept == \A m \in Notes : note'[m].segs = note[m].segs

Move(t, x) ==
  \/ sess'[x] = sess[x]
  \/ x \in Notes /\ sess[x] = "new" /\ t = "control" /\ sess'[x] \in {"recording", "orphan"}
  \/ x \notin Notes /\ sess[x] = "new" /\ sess'[x] = "queued"
  \/ x \in Notes /\ sess[x] \in Captured /\ sess'[x] \in {"stopping", "queued"}
  \/ x \in Notes /\ sess[x] \in Captured /\ sess'[x] = "gone" /\ Removed(x)
  \/ x \in Notes /\ sess[x] \in Captured /\ sess'[x] = "claimed" /\ (t = "worker" \/ sess[x] = "recording")
  \/ x \in Notes /\ sess[x] = "claimed" /\ Claims(t, x) /\ sess'[x] = "done"
  \/ x \notin Notes /\ sess[x] = "queued" /\ t = "worker" /\ sess'[x] = "done"
Moves(t) == sess' \in [Texts -> Sessions] /\ \A x \in Texts : Move(t, x)

LEMMA MoveFacts ==
  ASSUME NEW t, Moves(t), NEW x \in Texts
  PROVE  /\ sess'[x] = "new" => sess[x] = "new"
         /\ sess[x] \in Past => sess'[x] = sess[x]
         /\ sess'[x] = "old" => sess[x] = "old"
         /\ sess[x] \in Begun => sess'[x] \in Begun
         /\ sess'[x] = "gone" /\ sess[x] # "gone" => x \in Notes /\ sess[x] \in Captured /\ Removed(x)
BY DEF Moves, Move, Past, Begun, Captured

\* More of notes: only the first note of a recording was "new" before.
LEMMA MoveNotes ==
  ASSUME NEW t, Moves(t), NEW n \in Notes
  PROVE  /\ sess'[n] \in Captured => sess[n] \in Captured \/ (sess[n] = "new" /\ t = "control")
         /\ sess'[n] \in Begun => sess[n] \in Begun \/ (sess[n] = "new" /\ t = "control")
         /\ sess[n] = "new" /\ t # "control" => sess'[n] = "new"
         /\ sess[n] = "claimed" /\ ~Claims(t, n) => sess'[n] = "claimed"
         /\ sess'[n] = "claimed" => sess[n] = "claimed" \/ sess[n] \in Captured
         /\ t # "worker" /\ sess[n] \in {"stopping", "queued", "gone"}
            => sess'[n] \in {"stopping", "queued", "gone"}
         /\ sess[n] = "gone" => sess'[n] = "gone"
<1>1. n \in Texts
  BY DEF Texts
<1>2. Move(t, n)
  BY <1>1 DEF Moves
<1>3. QED
  BY <1>2 DEF Move, Begun, Captured

\* Claims of two threads, and of a thread that does something else.
LEMMA ClaimFacts ==
  ASSUME ThreadsOK, NEW s \in Threads, NEW n \in Notes,
         s \in Engine, job[s].do \in {"ready", "failed"}, job[s].of = n
  PROVE  Claims(s, n)
<1>1. OwnOK(s)
  BY DEF ThreadsOK
<1>2. sess[n] = "claimed"
  BY <1>1, ThreadsApart DEF OwnOK, ControlOK, RecorderOK, WorkerOK, StartOK, Failing, Engine
<1>3. QED
  BY <1>2 DEF Claims

LEMMA ThreadsRest ==
  ASSUME ThreadsOK, ClaimsOK, NEW t \in Threads, Others(t), Moves(t), phase' = phase,
         tossed \subseteq tossed', NEW s \in Threads \ {t}
  PROVE  OwnOK(s)'
<1>1. OwnOK(s) /\ job'[s] = job[s] /\ s \in Threads /\ s # t
  BY DEF ThreadsOK, Others
<1>2. ASSUME NEW n \in Notes, s \in Engine, job[s].do \in {"ready", "failed"}, job[s].of = n
      PROVE  sess'[n] = "claimed"
  <2>1. Claims(s, n) /\ sess[n] = "claimed"
    BY <1>1, <1>2, ClaimFacts DEF Claims
  <2>2. ~Claims(t, n)
    BY <1>1, <2>1 DEF ClaimsOK
  <2>3. QED
    BY <2>1, <2>2, MoveNotes
<1>3. CASE s = "control"
  <2>1. job["control"].do = "create" /\ job["control"].of \in Notes /\ sess[job["control"].of] = "new"
        => sess'[job["control"].of] = "new"
    BY <1>1, <1>3, MoveNotes
  <2>2. Failing(job["control"]) => Failing(job["control"])'
    BY <1>1, <1>2, <1>3 DEF Failing, Marks, Engine
  <2>3. ControlOK
    BY <1>1, <1>3 DEF OwnOK
  <2>4. ControlOK'
    BY <1>1, <1>3, <2>1, <2>2, <2>3 DEF ControlOK
  <2>5. QED
    BY <1>3, <2>4, ThreadsApart DEF OwnOK
<1>4. CASE s = "recorder"
  <2>1. Failing(job["recorder"]) => Failing(job["recorder"])'
    BY <1>1, <1>2, <1>4 DEF Failing, Marks, Engine
  <2>2. RecorderOK'
    BY <1>1, <1>4, <2>1 DEF OwnOK, RecorderOK
  <2>3. QED
    BY <1>4, <2>2, ThreadsApart DEF OwnOK
<1>5. CASE s = "worker"
  <2>1. WorkerOK /\ job'["worker"] = job["worker"]
    BY <1>1, <1>5 DEF OwnOK
  <2>2. ASSUME job["worker"].do # "idle" PROVE WorkerOK'
    <3>1. PICK x \in Texts : x = job["worker"].of
      BY <2>1, <2>2 DEF WorkerOK
    <3>2. sess[x] \in Begun => sess'[x] \in Begun
      BY MoveFacts
    <3>3. x \in Notes => /\ sess[x] \in {"stopping", "queued", "gone"} => sess'[x] \in {"stopping", "queued", "gone"}
                         /\ sess[x] = "gone" => sess'[x] = "gone"
      BY <1>1, <1>5, MoveNotes
    <3>4. x \notin Notes /\ sess[x] = "queued" => sess'[x] = "queued"
      BY <1>1, <1>5 DEF Moves, Move
    <3>5. x \in Notes /\ job["worker"].do \in {"ready", "failed", "append"} /\ sess[x] = "claimed"
          => sess'[x] = "claimed"
      <4>1. ASSUME x \in Notes, job["worker"].do \in {"ready", "failed", "append"}, sess[x] = "claimed"
            PROVE  sess'[x] = "claimed"
        <5>1. Claims("worker", x)
          BY <3>1, <4>1 DEF Claims, Engine
        <5>2. ~Claims(t, x)
          BY <1>1, <1>5, <4>1, <5>1 DEF ClaimsOK
        <5>3. QED
          BY <4>1, <5>2, MoveNotes
      <4>2. QED
        BY <4>1
    <3>6. QED
      BY <2>1, <2>2, <3>1, <3>2, <3>3, <3>4, <3>5 DEF WorkerOK, Marks, Appends, EntryList
  <2>3. WorkerOK'
    BY <2>1, <2>2 DEF WorkerOK
  <2>4. QED
    BY <1>5, <2>3, ThreadsApart DEF OwnOK
<1>6. CASE s = "start"
  <2>1. StartOK /\ job'["start"] = job["start"]
    BY <1>1, <1>6 DEF OwnOK
  <2>2. \A n \in Notes : sess[n] \in Past => sess'[n] = sess[n]
    BY MoveFacts DEF Texts
  <2>3. StartOK'
    BY <2>1, <2>2 DEF StartOK, Marks
  <2>4. QED
    BY <1>6, <2>3, ThreadsApart DEF OwnOK
<1>7. CASE s \in Ui
  BY <1>1, <1>7, ThreadsApart DEF OwnOK, UiOK, Marks, Appends, EntryList
<1>8. QED
  BY <1>1, <1>3, <1>4, <1>5, <1>6, <1>7, ThreadsApart

LEMMA ClaimsRest ==
  ASSUME ThreadsOK, ClaimsOK, NEW t \in Threads, Others(t), Moves(t),
         \A n \in Notes : Claims(t, n)' => Claims(t, n) \/ sess[n] # "claimed"
  PROVE  ClaimsOK'
<1>1. ASSUME NEW n \in Notes, NEW s \in Threads \ {t}, Claims(s, n)' PROVE Claims(s, n)
  <2>1. job'[s] = job[s] /\ s \in Engine /\ job[s].of = n /\ job[s].do \in {"ready", "failed", "append"}
    BY <1>1 DEF Others, Claims
  <2>2. CASE job[s].do # "append"
    BY <2>1, <2>2, ClaimFacts
  <2>3. CASE job[s].do = "append"
    <3>1. OwnOK(s) /\ s = "worker"
      BY <2>1, <2>3 DEF ThreadsOK, OwnOK, ControlOK, RecorderOK, StartOK, Failing, Engine
    <3>2. sess[n] \in {"claimed", "gone"}
      BY <2>1, <2>3, <3>1 DEF OwnOK, WorkerOK
    <3>3. sess[n] = "claimed"
      BY <1>1, <3>2, MoveNotes DEF Claims
    <3>4. QED
      BY <2>1, <3>3 DEF Claims
  <2>4. QED
    BY <2>2, <2>3
<1>2. ASSUME NEW n \in Notes, NEW s \in Threads \ {t}, Claims(s, n)', Claims(t, n)' PROVE FALSE
  <2>1. Claims(s, n)
    BY <1>1, <1>2
  <2>2. Claims(t, n)
    BY <1>2, <2>1 DEF Claims
  <2>3. QED
    BY <2>1, <2>2 DEF ClaimsOK
<1>3. ASSUME NEW n \in Notes, NEW r \in Threads, NEW s \in Threads, Claims(r, n)', Claims(s, n)'
      PROVE  r = s
  <2>1. CASE r = t \/ s = t
    BY <1>2, <1>3, <2>1
  <2>2. CASE r # t /\ s # t
    BY <1>1, <1>3, <2>2 DEF ClaimsOK
  <2>3. QED
    BY <2>1, <2>2
<1>4. QED
  BY <1>3 DEF ClaimsOK
-----------------------------------------------------------------------------
(* A step of one thread.  What it does not touch keeps; what it does is        *)
(* named by the premises of StepKeeps.                                        *)

Alone(t) ==
  /\ phase # "down" /\ phase' = phase /\ Others(t) /\ Moves(t)
  /\ raced \subseteq raced' /\ tossed \subseteq tossed' /\ left' \subseteq left

\* The step takes no id that was taken, and takes no finished text in hand.
Fair(t) ==
  /\ \A n \in Notes : Claims(t, n)' => Claims(t, n) \/ sess[n] # "claimed"
  /\ t = "worker" => \A x \in Texts : Holding(x)' => Holding(x) \/ sess[x] \notin {"done", "gone"}

\* What the step does to the note n, whose files it leaves alone.
Spares(t, n) ==
  /\ note'[n] = note[n]
  /\ sess[n] = "new" => sess'[n] \in {"new", "orphan"}
  /\ n \in tossed' => n \in tossed \/ sess[n] # "new"
  /\ Removed(n)' => Removed(n)
  /\ Creating(n)' => Creating(n)
  /\ Creating(n) /\ sess'[n] = "new" => Creating(n)'
  /\ Marking(t, n)' => Marking(t, n) \/ sess[n] \in Captured
  /\ Rewrites(t, n)' => job'[t] = job[t] \/ (job'[t].base = note[n].json /\ note[n].json # None)
  /\ t = "worker" => SegsAt(n)'
  /\ \/ t # "start" /\ left' = left /\ skipped' = skipped
     \/ LateAt(n)' /\ RecoveringAt(n)'
  /\ NoteItem(n) \in hidden' => \/ NoteItem(n) \in hidden
                                \/ sess[n] # "new" /\ (note[n].json = None \/ note[n].json.archived)

\* What it reads of the history and hides of it; and it leaves the list alone.
Reads(t) ==
  /\ Saves(t)' => job'[t].base = LoadAll
  /\ \A x \in Texts : EntryItem(x) \in hidden' => EntryItem(x) \in hidden
  /\ t \in Ui /\ job'[t].do # "idle" /\ job'[t].of.kind = "entry"
     => job'[t].of.of \in Texts /\ Over(job'[t].of.of)
Listens(t) == history' = history /\ said' = said /\ Reads(t)

LEMMA SparedNote ==
  ASSUME ThreadsOK, NotesFine, NEW t \in Threads, Alone(t), NEW n \in Notes, Spares(t, n)
  PROVE  FineNote(n)'
<1> USE DEF Alone
<1>1. FineNote(n) /\ n \in Texts /\ note'[n] = note[n]
  BY DEF NotesFine, Spares, Texts
<1>2. \A s \in Threads \ {t} : job'[s] = job[s]
  BY DEF Others
<1>3. /\ sess'[n] = "new" => sess[n] = "new"
      /\ sess'[n] = "old" => sess[n] = "old"
      /\ sess'[n] = "gone" => sess[n] = "gone" \/ Removed(n)
      /\ sess'[n] \in Captured => sess[n] \in Captured
      /\ sess'[n] \in Begun => sess[n] \in Begun
  <2>1. sess[n] = "new" => sess'[n] \notin Begun
    BY DEF Spares, Begun, Captured
  <2>2. Captured \subseteq Begun
    BY DEF Begun
  <2>3. QED
    BY <1>1, <2>1, <2>2, MoveFacts, MoveNotes
<1>4. SegsAt(n)'
  <2>1. CASE t = "worker"
    BY <2>1 DEF Spares
  <2>2. CASE t # "worker"
    <3>1. job'["worker"] = job["worker"]
      BY <1>2, <2>2, ThreadsApart
    <3>2. QED
      BY <1>1, <3>1 DEF FineNote, SegsAt
  <2>3. QED
    BY <2>1, <2>2
<1>5. ReadyAt(n)'
  <2>1. ASSUME n \notin tossed', NEW s \in Threads, Rewrites(s, n)', job'[s].base.status = "ready"
        PROVE  note[n].segs = Segments
    <3>1. CASE s = t /\ job'[s] # job[s]
      BY <1>1, <2>1, <3>1 DEF Spares, FineNote, ReadyAt
    <3>2. CASE job'[s] = job[s]
      <4>1. Rewrites(s, n) /\ job[s].base.status = "ready"
        BY <2>1, <3>2 DEF Rewrites
      <4>2. QED
        BY <1>1, <2>1, <4>1 DEF FineNote, ReadyAt
    <3>3. QED
      BY <1>2, <3>1, <3>2
  <2>2. QED
    BY <1>1, <2>1 DEF FineNote, ReadyAt
<1>6. FilesAt(n)'
  <2>1. n \in tossed' => n \in tossed \/ sess[n] # "new"
    BY DEF Spares
  <2>2. (Removed(n)' => Removed(n)) /\ (Creating(n)' => Creating(n))
        /\ (Creating(n) /\ sess'[n] = "new" => Creating(n)')
    BY DEF Spares
  <2>3. Removed(n) => n \in tossed
    <3>1. ControlOK
      BY ThreadsApart DEF ThreadsOK, OwnOK
    <3>2. QED
      BY <3>1 DEF ControlOK, Removed, Failing
  <2>4. FilesAt(n)
    BY <1>1 DEF FineNote
  <2>5. sess'[n] = "new" => note'[n].json = None /\ n \notin tossed' /\ (note'[n].there => Creating(n)')
    BY <1>1, <1>3, <2>1, <2>2, <2>4 DEF FilesAt
  <2>6. Creating(n)' => note'[n].there
    BY <1>1, <2>2, <2>4 DEF FilesAt
  <2>7. n \notin tossed' /\ (sess'[n] \in Begun \/ note'[n].segs > 0) => note'[n].json # None
    BY <1>1, <1>3, <2>4 DEF FilesAt
  <2>8. note'[n].json # None => note'[n].there
    BY <1>1, <2>4 DEF FilesAt
  <2>9. sess'[n] = "gone" => n \in tossed'
    BY <1>3, <2>3, <2>4 DEF FilesAt
  <2>10. n \notin raced' /\ (sess'[n] = "gone" \/ Removed(n)') => note'[n].json = None
    BY <1>1, <1>3, <2>2, <2>4 DEF FilesAt
  <2>11. Begun' = Begun
    BY DEF Begun, Captured
  <2>12. QED
    BY <2>5, <2>6, <2>7, <2>8, <2>9, <2>10, <2>11 DEF FilesAt
<1>7. KnownAt(n)'
  <2>1. ASSUME NEW s \in Threads, Rewrites(s, n)' PROVE sess'[n] # "new"
    <3>1. CASE s = t /\ job'[s] # job[s]
      <4>1. note[n].json # None
        BY <2>1, <3>1 DEF Spares
      <4>2. QED
        BY <1>1, <1>3, <4>1 DEF FineNote, FilesAt
    <3>2. CASE job'[s] = job[s]
      <4>1. Rewrites(s, n)
        BY <2>1, <3>2 DEF Rewrites
      <4>2. QED
        BY <1>1, <1>3, <4>1 DEF FineNote, KnownAt
    <3>3. QED
      BY <1>2, <3>1, <3>2
  <2>2. NoteItem(n) \in hidden' => /\ sess'[n] # "new"
                                   /\ n \in raced' \/ note[n].json = None \/ note[n].json.archived
    <3>1. CASE NoteItem(n) \in hidden
      BY <1>1, <1>3, <3>1 DEF FineNote, KnownAt
    <3>2. CASE NoteItem(n) \notin hidden
      BY <1>3, <3>2 DEF Spares
    <3>3. QED
      BY <3>1, <3>2
  <2>3. NoteItem(n)' = NoteItem(n)
    BY DEF NoteItem
  <2>4. QED
    BY <1>1, <2>1, <2>2, <2>3 DEF KnownAt
<1>8. UnfinishedAt(n)'
  <2>1. (sess'[n] \in Captured \/ (\E s \in Threads : Marking(s, n)')) => Unsettled(n)
    <3>1. ASSUME NEW s \in Threads, Marking(s, n)' PROVE Marking(s, n) \/ sess[n] \in Captured
      <4>1. CASE s = t
        BY <3>1, <4>1 DEF Spares
      <4>2. CASE s # t
        BY <1>2, <3>1, <4>2 DEF Marking
      <4>3. QED
        BY <4>1, <4>2
    <3>2. QED
      BY <1>1, <1>3, <3>1 DEF FineNote, UnfinishedAt
  <2>2. Unsettled(n) => Unsettled(n)'
    BY <1>1 DEF Unsettled
  <2>3. Captured' = Captured
    BY DEF Captured
  <2>4. QED
    BY <2>1, <2>2, <2>3 DEF UnfinishedAt
<1>9. CASE t # "start" /\ left' = left /\ skipped' = skipped
  <2>1. job'["start"] = job["start"]
    BY <1>2, <1>9, ThreadsApart
  <2>2. RecoveringAt(n)'
    <3>1. Looked(n) => Looked(n)'
      BY <1>9, <2>1 DEF Looked
    <3>2. QED
      BY <1>1, <1>3, <1>9, <3>1 DEF FineNote, RecoveringAt
  <2>3. LateAt(n)'
    BY <1>1, <2>1 DEF FineNote, LateAt
  <2>4. QED
    BY <1>4, <1>5, <1>6, <1>7, <1>8, <2>2, <2>3 DEF FineNote
<1>10. QED
  BY <1>4, <1>5, <1>6, <1>7, <1>8, <1>9 DEF Spares, FineNote

LEMMA OverRests ==
  ASSUME NEW t \in Threads, Alone(t), Fair(t), NEW x, Over(x), x \in Texts
  PROVE  Over(x)'
<1>1. sess'[x] = sess[x]
  BY MoveFacts DEF Alone, Over, Past
<1>2. Holding(x)' => Holding(x)
  <2>1. CASE t = "worker"
    BY <2>1 DEF Fair, Over
  <2>2. CASE t # "worker"
    <3>1. job'["worker"] = job["worker"]
      BY <2>2, ThreadsApart DEF Alone, Others
    <3>2. QED
      BY <3>1 DEF Holding
  <2>3. QED
    BY <2>1, <2>2
<1>3. QED
  BY <1>1, <1>2 DEF Over

\* Over in the next state.
OverNext(x) == sess'[x] \in {"done", "gone"}
               /\ ~(job'["worker"].do \in {"decode", "ready", "append"} /\ job'["worker"].of = x)

LEMMA ReadsRest ==
  ASSUME Typed, ThreadsOK, ListOK, NEW t \in Threads, Alone(t), Fair(t), Reads(t)
  PROVE  /\ \A x \in Texts : Over(x) => OverNext(x)
         /\ \A s \in Threads : Saves(s)' => \A i \in DOMAIN job'[s].base : OverNext(job'[s].base[i].of)
         /\ \A x \in Texts : EntryItem(x) \in hidden' => OverNext(x)
         /\ \A u \in Ui : job'[u].do # "idle" /\ job'[u].of.kind = "entry" => OverNext(job'[u].of.of)
<1>1. \A s \in Threads \ {t} : job'[s] = job[s]
  BY DEF Alone, Others
<1>4. \A x \in Texts : Over(x) => OverNext(x)
  <2>1. ASSUME NEW x \in Texts, Over(x) PROVE OverNext(x)
    <3>1. Over(x)'
      BY <2>1, OverRests
    <3>2. QED
      BY <3>1 DEF Over, OverNext, Holding
  <2>2. QED
    BY <2>1
<1>5. \A i \in DOMAIN history : history[i].of \in Texts
  BY EntryAt DEF Typed
<1>6. \A i \in DOMAIN history : OverNext(history[i].of)
  BY <1>4, <1>5 DEF ListOK, EntriesDone
<1>7. ASSUME NEW s \in Threads, Saves(s)', NEW i \in DOMAIN job'[s].base
      PROVE  OverNext(job'[s].base[i].of)
  <2>1. CASE s = t
    <3>1. job'[s].base = LoadAll
      BY <1>7, <2>1 DEF Reads
    <3>2. i \in DOMAIN LoadAll /\ i \in DOMAIN history /\ LoadAll[i] = history[i]
      BY <1>7, <3>1, Loaded
    <3>3. QED
      BY <1>6, <3>1, <3>2
  <2>2. CASE s # t
    <3>1. job'[s] = job[s]
      BY <1>1, <2>2
    <3>2. Saves(s)
      BY <1>7, <3>1 DEF Saves
    <3>3. Over(job[s].base[i].of)
      BY <1>7, <3>1, <3>2 DEF ListOK, EntriesDone
    <3>4. job[s].base[i].of \in Texts
      <4>1. OwnOK(s)
        BY DEF ThreadsOK
      <4>2. EntryList(job[s].base)
        BY <3>2, <4>1 DEF OwnOK, ControlOK, RecorderOK, WorkerOK, StartOK, UiOK, Failing, Marks, Appends, Saves, Threads, Engine
      <4>3. QED
        BY <1>7, <3>1, <4>2, EntryAt DEF EntryList
    <3>5. QED
      BY <1>4, <3>1, <3>3, <3>4
  <2>3. QED
    BY <2>1, <2>2
<1>8. ASSUME NEW x \in Texts, EntryItem(x) \in hidden' PROVE OverNext(x)
  BY <1>4, <1>8 DEF Reads, ListOK, EntriesDone
<1>9. ASSUME NEW u \in Ui, job'[u].do # "idle", job'[u].of.kind = "entry"
      PROVE  OverNext(job'[u].of.of)
  <2>1. CASE u = t
    BY <1>4, <1>9, <2>1 DEF Reads
  <2>2. CASE u # t
    <3>1. job'[u] = job[u]
      BY <1>1, <2>2, ThreadsApart
    <3>2. UiOK(u)
      BY ThreadsApart DEF ThreadsOK, OwnOK
    <3>3. job[u].of.of \in Texts /\ Over(job[u].of.of)
      BY <1>9, <3>1, <3>2 DEF UiOK, ListOK, EntriesDone
    <3>4. QED
      BY <1>4, <3>1, <3>3
  <2>3. QED
    BY <2>1, <2>2
<1>10. QED
  BY <1>4, <1>7, <1>8, <1>9

LEMMA ListRests ==
  ASSUME Typed, ThreadsOK, ListOK, NEW t \in Threads, Alone(t), Fair(t), Listens(t)
  PROVE  ListOK'
<1>1. history' = history /\ said' = said /\ raced \subseteq raced'
  BY DEF Alone, Listens
<1>2. Rolls'
  BY <1>1 DEF ListOK, Rolls
<1>3. EntrySticks'
  <2>1. \A x \in Texts : EntryItem(x) \in hidden' => EntryItem(x) \in hidden
    BY DEF Listens, Reads
  <2>2. \A x : EntryItem(x)' = EntryItem(x)
    BY DEF EntryItem
  <2>3. QED
    BY <1>1, <2>1, <2>2 DEF ListOK, EntrySticks
<1>4. Reads(t)
  BY DEF Listens
<1>5. \A i \in DOMAIN history : history[i].of \in Texts
  BY EntryAt DEF Typed
<1>6. \A i \in DOMAIN history : OverNext(history[i].of)
  BY <1>4, <1>5, ReadsRest DEF ListOK, EntriesDone
<1>7. EntriesDone'
  BY <1>1, <1>4, <1>6, ReadsRest DEF EntriesDone, Over, OverNext, Holding, EntryItem
<1>8. QED
  BY <1>2, <1>3, <1>7 DEF ListOK

LEMMA StepKeeps ==
  ASSUME LibI, NEW t \in Threads, Alone(t), Fair(t), Typed', OwnOK(t)', QueueOK',
         \A n \in Notes : Spares(t, n) \/ FineNote(n)',
         Listens(t) \/ ListOK'
  PROVE  LibI'
<1>1. Typed /\ ThreadsOK /\ DownOK /\ ClaimsOK /\ LeftOK /\ SaidOK /\ NotesFine /\ ListOK
  BY DEF LibI
<1>2. Others(t) /\ Moves(t) /\ phase' = phase /\ phase # "down" /\ tossed \subseteq tossed' /\ left' \subseteq left
  BY DEF Alone
<1>3. ThreadsOK'
  <2>1. \A s \in Threads \ {t} : OwnOK(s)'
    BY <1>1, <1>2, ThreadsRest
  <2>2. QED
    BY <2>1 DEF ThreadsOK
<1>4. ClaimsOK'
  BY <1>1, <1>2, ClaimsRest DEF Fair
<1>5. DownOK'
  BY <1>2 DEF DownOK
<1>6. LeftOK'
  <2>1. ASSUME NEW n \in left' PROVE sess'[n] \in Past
    <3>1. n \in left /\ n \in Texts /\ sess[n] \in Past
      BY <1>1, <1>2, <2>1 DEF LeftOK, Typed, Texts
    <3>2. QED
      BY <1>2, <3>1, MoveFacts
  <2>2. QED
    BY <2>1 DEF LeftOK, Past
<1>7. NotesFine'
  <2>1. \A n \in Notes : Spares(t, n) => FineNote(n)'
    BY <1>1, SparedNote
  <2>2. QED
    BY <2>1 DEF NotesFine
<1>8. ListOK'
  BY <1>1, ListRests
<1>9. SaidOK'
  BY <1>1, <1>2 DEF SaidOK, Moves, Move
<1>10. QED
  BY <1>3, <1>4, <1>5, <1>6, <1>7, <1>8, <1>9 DEF LibI

\* What waits, when a step puts nothing in the queue.
LEMMA QueueRests ==
  ASSUME QueueOK, NEW t \in Threads, Others(t), Moves(t), queue' \subseteq queue, queue \subseteq Texts,
         \A x \in queue' : (sess'[x] = "gone" => sess[x] = "gone") /\ (x \notin Notes => sess'[x] = sess[x]),
         t = "worker" => \A x \in queue' : Holding(x)' => Holding(x)
  PROVE  QueueOK'
<1>1. ASSUME NEW x \in queue'
      PROVE  /\ x \in Notes => sess'[x] \in {"stopping", "queued", "claimed", "done"}
             /\ x \notin Notes => sess'[x] = "queued"
             /\ ~Holding(x)'
  <2>1. x \in queue /\ x \in Texts
    OBVIOUS
  <2>2. x \in Notes => sess'[x] \in {"stopping", "queued", "claimed", "done"}
    BY <2>1 DEF QueueOK, Moves, Move, Captured
  <2>3. Holding(x)' => Holding(x)
    <3>1. t # "worker" => job'["worker"] = job["worker"]
      BY ThreadsApart DEF Others
    <3>2. QED
      BY <3>1 DEF Holding
  <2>4. QED
    BY <2>1, <2>2, <2>3 DEF QueueOK
<1>2. QED
  BY <1>1 DEF QueueOK
-----------------------------------------------------------------------------
(* The steps of a recording that leave the files alone.                       *)

FilesRest == /\ note' = note /\ history' = history /\ said' = said /\ raced' = raced
             /\ hidden' = hidden /\ phase' = phase
KeepsLeft == left' = left /\ skipped' = skipped

QuietMove(x) ==
  \/ sess'[x] = sess[x]
  \/ x \notin Notes /\ sess[x] = "new" /\ sess'[x] = "queued"
  \/ x \in Notes /\ sess[x] \in Captured /\ sess'[x] \in {"stopping", "queued"}

LEMMA QuietKeeps ==
  ASSUME LibI, phase # "down", FilesRest, KeepsLeft, job' = job, tossed' = tossed,
         sess' \in [Texts -> Sessions], \A x \in Texts : QuietMove(x),
         pieces' \in [Notes -> 0 .. MaxPieces], queue' \subseteq Texts, QueueOK'
  PROVE  LibI'
<1> DEFINE t == "recorder"
<1>1. t \in Threads /\ t # "control" /\ t # "worker" /\ t # "start" /\ t \notin Ui
  BY ThreadsApart
<1>2. Moves(t) /\ Moves("control") /\ Others(t) /\ Others("control")
  BY DEF Moves, Move, QuietMove, Others
<1>3. Alone(t)
  BY <1>2 DEF Alone, FilesRest, KeepsLeft
<1>4. Typed'
  BY DEF LibI, Typed, FilesRest, KeepsLeft
<1>5. OwnOK(t)'
  <2>1. ThreadsOK /\ ClaimsOK
    BY DEF LibI
  <2>2. phase' = phase /\ tossed \subseteq tossed' /\ "control" \in Threads /\ t \in Threads \ {"control"}
    BY <1>1, ThreadsApart DEF FilesRest
  <2>3. QED
    BY <1>2, <2>1, <2>2, ThreadsRest
<1>6. RecorderOK
  BY <1>1 DEF LibI, ThreadsOK, OwnOK
<1>7. \A n \in Notes : n \in Texts /\ sess'[n] = "claimed" => sess[n] = "claimed"
  BY DEF QuietMove, Texts
<1>8. Fair(t)
  BY <1>1, <1>7 DEF Fair, Claims
<1>9. ASSUME NEW n \in Notes PROVE Spares(t, n)
  <2>1. QuietMove(n) /\ n \in Texts
    BY DEF Texts
  <2>2. sess[n] = "new" => sess'[n] = "new"
    BY <2>1 DEF QuietMove, Captured
  <2>3. QED
    BY <1>1, <2>2 DEF Spares, FilesRest, KeepsLeft, Removed, Creating, Marking
<1>10. Listens(t)
  BY <1>1, <1>6 DEF Listens, Reads, FilesRest, RecorderOK, Failing, Marks, Saves
<1>11. QED
  BY <1>3, <1>4, <1>5, <1>8, <1>9, <1>10, <1>1, StepKeeps
\* A text that is recorded, or not yet said, is not in the worker's hands.
LEMMA NotHeld ==
  ASSUME LibI, NEW x \in Texts, sess[x] \in {"new", "recording"}
  PROVE  ~Holding(x)
<1>1. WorkerOK
  BY ThreadsApart DEF LibI, ThreadsOK, OwnOK
<1>2. QED
  BY <1>1 DEF WorkerOK, Holding

LEMMA CutKeeps ==
  ASSUME LibI, NEW n \in Notes, Cut(n)
  PROVE  LibI'
<1>1. FilesRest /\ KeepsLeft /\ job' = job /\ tossed' = tossed /\ sess' = sess /\ queue' = queue
      /\ phase # "down"
  BY DEF Cut, disk, ghost, FilesRest, KeepsLeft
<1>2. sess' \in [Texts -> Sessions] /\ queue' \subseteq Texts /\ \A x \in Texts : QuietMove(x)
  BY <1>1 DEF LibI, Typed, QuietMove
<1>3. pieces' \in [Notes -> 0 .. MaxPieces]
  <2>1. pieces \in [Notes -> 0 .. MaxPieces] /\ pieces[n] < MaxPieces /\ MaxPieces \in Nat
        /\ pieces' = [pieces EXCEPT ![n] = @ + 1]
    BY LibraryAssumption DEF LibI, Typed, Cut
  <2>2. pieces[n] + 1 \in 0 .. MaxPieces
    BY <2>1
  <2>3. QED
    BY <2>1, <2>2
<1>4. QueueOK'
  BY <1>1 DEF LibI, QueueOK, Holding
<1>5. QED
  BY <1>1, <1>2, <1>3, <1>4, QuietKeeps

LEMMA OvertakenFacts ==
  ASSUME sess \in [Texts -> Sessions]
  PROVE  /\ Overtaken \in [Texts -> Sessions]
         /\ \A x \in Texts : Overtaken[x] = IF sess[x] = "stopping" THEN "queued" ELSE sess[x]
BY DEF Overtaken, Sessions

LEMMA FinishKeeps ==
  ASSUME LibI, NEW x \in Texts, Finish(x)
  PROVE  LibI'
<1>1. FilesRest /\ KeepsLeft /\ job' = job /\ tossed' = tossed /\ pieces' = pieces
      /\ phase # "down" /\ queue' = queue \cup {x} /\ sess' = [Overtaken EXCEPT ![x] = "queued"]
      /\ sess[x] = (IF x \in Notes THEN "recording" ELSE "new")
  BY DEF Finish, Free, disk, ghost, FilesRest, KeepsLeft
<1>2. /\ sess \in [Texts -> Sessions] /\ pieces' \in [Notes -> 0 .. MaxPieces] /\ queue' \subseteq Texts
      /\ QueueOK /\ ThreadsOK /\ queue \subseteq Texts
  BY <1>1 DEF LibI, Typed
<1>3. /\ sess' \in [Texts -> Sessions] /\ sess'[x] = "queued"
      /\ \A y \in Texts \ {x} : sess'[y] = IF sess[y] = "stopping" THEN "queued" ELSE sess[y]
  BY <1>1, <1>2, OvertakenFacts DEF Sessions
<1>4. ASSUME NEW y \in Texts PROVE QuietMove(y)
  <2>1. sess[y] = "stopping" => y \in Notes
    BY DEF LibI, SaidOK
  <2>2. QED
    BY <1>1, <1>3, <2>1 DEF QuietMove, Captured
<1>5. QueueOK'
  <2>1. ~Holding(x)
    BY <1>1, NotHeld
  <2>2. \A y : Holding(y)' <=> Holding(y)
    BY <1>1 DEF Holding
  <2>3. \A y \in queue \ {x} : sess[y] # "stopping" => sess'[y] = sess[y]
    BY <1>2, <1>3
  <2>4. QED
    BY <1>1, <1>2, <1>3, <2>1, <2>2, <2>3 DEF QueueOK
<1>6. QED
  BY <1>1, <1>2, <1>3, <1>4, <1>5, QuietKeeps

LEMMA FinishPausedKeeps ==
  ASSUME LibI, NEW n \in Notes, FinishPaused(n)
  PROVE  LibI'
<1>1. FilesRest /\ KeepsLeft /\ job' = job /\ tossed' = tossed /\ pieces' = pieces
      /\ phase # "down" /\ queue' = queue \cup {n} /\ sess' = [sess EXCEPT ![n] = "stopping"]
      /\ sess[n] = "recording"
  BY DEF FinishPaused, disk, ghost, FilesRest, KeepsLeft
<1>2. /\ sess \in [Texts -> Sessions] /\ pieces' \in [Notes -> 0 .. MaxPieces] /\ queue' \subseteq Texts
      /\ QueueOK /\ queue \subseteq Texts /\ n \in Texts
  BY <1>1 DEF LibI, Typed, Texts
<1>3. /\ sess' \in [Texts -> Sessions] /\ sess'[n] = "stopping"
      /\ \A y \in Texts \ {n} : sess'[y] = sess[y]
  BY <1>1, <1>2 DEF Sessions
<1>4. \A y \in Texts : QuietMove(y)
  BY <1>1, <1>3 DEF QuietMove, Captured
<1>5. QueueOK'
  <2>1. ~Holding(n)
    BY <1>1, <1>2, NotHeld
  <2>2. \A y : Holding(y)' <=> Holding(y)
    BY <1>1 DEF Holding
  <2>3. QED
    BY <1>1, <1>2, <1>3, <2>1, <2>2 DEF QueueOK
<1>6. QED
  BY <1>1, <1>2, <1>3, <1>4, <1>5, QuietKeeps

LEMMA StoppedKeeps ==
  ASSUME LibI, NEW n \in Notes, Stopped(n)
  PROVE  LibI'
<1>1. FilesRest /\ KeepsLeft /\ job' = job /\ tossed' = tossed /\ pieces' = pieces
      /\ queue' = queue /\ sess' = [sess EXCEPT ![n] = "queued"] /\ sess[n] = "stopping"
  BY DEF Stopped, disk, ghost, queues, FilesRest, KeepsLeft
<1>2. /\ sess \in [Texts -> Sessions] /\ pieces' \in [Notes -> 0 .. MaxPieces] /\ queue' \subseteq Texts
      /\ QueueOK /\ n \in Texts /\ DownOK
  BY <1>1 DEF LibI, Typed, Texts
<1>3. /\ sess' \in [Texts -> Sessions] /\ sess'[n] = "queued" /\ phase # "down"
      /\ \A y \in Texts \ {n} : sess'[y] = sess[y]
  BY <1>1, <1>2 DEF Sessions, DownOK
<1>4. \A y \in Texts : QuietMove(y)
  BY <1>1, <1>3 DEF QuietMove, Captured
<1>5. QueueOK'
  <2>1. \A y : Holding(y)' <=> Holding(y)
    BY <1>1 DEF Holding
  <2>2. QED
    BY <1>1, <1>2, <1>3, <2>1 DEF QueueOK
<1>6. QED
  BY <1>1, <1>2, <1>3, <1>4, <1>5, QuietKeeps

\* A step of an operation or of the recorder that touches no file.
LEMMA JobKeeps ==
  ASSUME LibI, phase # "down", FilesRest, KeepsLeft, NEW t \in {"control", "recorder"},
         job' \in [Threads -> JobType], Others(t), Moves(t),
         pieces' \in [Notes -> 0 .. MaxPieces], queue' \subseteq Texts, QueueOK', OwnOK(t)',
         tossed \subseteq tossed', tossed' \subseteq Notes,
         \/ job'[t].do = "idle" \/ job'[t].at \notin {"write", "save"}
         \/ ~Saves(t)' /\ \A n \in Notes : Rewrites(t, n)' => job'[t].base = note[n].json /\ note[n].json # None,
         \A n \in Notes :
           /\ sess[n] = "new" => sess'[n] \in {"new", "orphan"}
           /\ n \in tossed' => n \in tossed \/ sess[n] # "new"
           /\ Removed(n)' => Removed(n)
           /\ Creating(n)' => Creating(n)
           /\ Creating(n) /\ sess'[n] = "new" => Creating(n)'
           /\ Marking(t, n)' => Marking(t, n) \/ sess[n] \in Captured
           /\ Claims(t, n)' => Claims(t, n) \/ sess[n] # "claimed"
  PROVE  LibI'
<1>1. t \in Threads /\ t # "worker" /\ t # "start" /\ t \notin Ui
  BY ThreadsApart
<1>2. Alone(t)
  BY DEF Alone, FilesRest, KeepsLeft
<1>3. Typed'
  BY DEF LibI, Typed, FilesRest, KeepsLeft, Moves
<1>4. Fair(t)
  BY <1>1 DEF Fair
<1>5. ~Saves(t)' /\ \A n \in Notes : Rewrites(t, n)' => job'[t].base = note[n].json /\ note[n].json # None
  BY DEF Saves, Rewrites
<1>6. ASSUME NEW n \in Notes PROVE Spares(t, n)
  BY <1>1, <1>5 DEF Spares, FilesRest, KeepsLeft
<1>7. Listens(t)
  BY <1>1, <1>5 DEF Listens, Reads, FilesRest
<1>8. QED
  BY <1>1, <1>2, <1>3, <1>4, <1>6, <1>7, StepKeeps

LEMMA CaptureFailsKeeps ==
  ASSUME LibI, NEW t \in Threads, NEW n \in Notes, CaptureFails(t, n)
  PROVE  LibI'
<1>1. /\ t \in {"control", "recorder"} /\ phase # "down" /\ job[t] = Idle /\ sess[n] = "recording"
      /\ sess' = [sess EXCEPT ![n] = "claimed"] /\ Set(t, Job("failed", n, "load"))
      /\ FilesRest /\ KeepsLeft /\ tossed' = tossed /\ pieces' = pieces /\ queue' = queue
  BY DEF CaptureFails, Free, disk, queues, ghost, FilesRest, KeepsLeft
<1>2. /\ Typed /\ n \in Texts /\ QueueOK /\ "failed" \in Deeds /\ "load" \in Points
  BY DEF LibI, Texts, Deeds, Points
<1>3. Begins(t, "failed", n, "load")
  BY <1>1, <1>2, SetBegins DEF Typed
<1>4. sess' \in [Texts -> Sessions] /\ sess'[n] = "claimed" /\ \A y \in Texts \ {n} : sess'[y] = sess[y]
  BY <1>1, <1>2 DEF Typed, Sessions
<1>5. Moves(t) /\ Others(t)
  BY <1>1, <1>3, <1>4 DEF Moves, Move, Captured, Others, Begins
<1>6. OwnOK(t)'
  BY <1>1, <1>3, <1>4, ThreadsApart DEF OwnOK, ControlOK, RecorderOK, Failing, Marks, Begins
<1>7. QueueOK'
  <2>1. \A y : Holding(y)' <=> Holding(y)
    BY <1>1, <1>3, ThreadsApart DEF Holding, Begins
  <2>2. QED
    BY <1>1, <1>2, <1>4, <2>1 DEF QueueOK
<1>8. ASSUME NEW m \in Notes
      PROVE  /\ sess[m] = "new" => sess'[m] = "new"
             /\ ~Removed(m)' \/ Removed(m)
             /\ Creating(m)' <=> Creating(m)
             /\ Marking(t, m)' => sess[m] \in Captured
             /\ Claims(t, m)' => sess[m] # "claimed"
  <2>1. m \in Texts /\ (sess[m] = "new" => sess'[m] = "new")
    BY <1>1, <1>4 DEF Texts
  <2>2. (Removed(m)' <=> Removed(m)) /\ (Creating(m)' <=> Creating(m))
    BY <1>1, <1>3, IdleTyped, ThreadsApart DEF Removed, Creating, Begins
  <2>3. QED
    BY <1>1, <1>3, <2>1, <2>2 DEF Marking, Claims, Captured, Begins
<1>9. QED
  BY <1>1, <1>2, <1>3, <1>5, <1>6, <1>7, <1>8, JobKeeps DEF Typed, Begins

LEMMA CreateFailsKeeps ==
  ASSUME LibI, CreateFails
  PROVE  LibI'
<1> DEFINE n == job["control"].of
<1>1. /\ phase # "down" /\ job["control"].do = "create"
      /\ sess' = [sess EXCEPT ![n] = "orphan"] /\ Set("control", Idle)
      /\ FilesRest /\ KeepsLeft /\ tossed' = tossed /\ pieces' = pieces /\ queue' = queue
  BY DEF CreateFails, Doing, Now, disk, queues, ghost, FilesRest, KeepsLeft
<1>2. Typed /\ QueueOK /\ ControlOK /\ ThreadsOK
  BY ThreadsApart DEF LibI, ThreadsOK, OwnOK
<1>3. n \in Notes /\ n \in Texts /\ sess[n] = "new"
  BY <1>1, <1>2 DEF ControlOK, Failing, Texts
<1>4. Ends("control")
  BY <1>1, <1>2, ThreadsApart, SetEnds DEF Typed
<1>5. sess' \in [Texts -> Sessions] /\ sess'[n] = "orphan" /\ \A y \in Texts \ {n} : sess'[y] = sess[y]
  BY <1>1, <1>2, <1>3 DEF Typed, Sessions
<1>6. Moves("control") /\ Others("control")
  BY <1>3, <1>4, <1>5 DEF Moves, Move, Others, Ends
<1>7. OwnOK("control")'
  BY <1>4, ThreadsApart DEF OwnOK, ControlOK, Ends
<1>8. QueueOK'
  <2>1. \A y : Holding(y)' <=> Holding(y)
    BY <1>4, ThreadsApart DEF Holding, Ends
  <2>2. QED
    BY <1>1, <1>2, <1>3, <1>5, <2>1 DEF QueueOK
<1>9. ASSUME NEW m \in Notes
      PROVE  /\ sess[m] = "new" => sess'[m] \in {"new", "orphan"}
             /\ ~Removed(m)' /\ ~Creating(m)' /\ (Creating(m) => sess'[m] # "new")
             /\ ~Marking("control", m)' /\ ~Claims("control", m)'
  <2>1. sess[m] = "new" => sess'[m] \in {"new", "orphan"}
    BY <1>5 DEF Texts
  <2>2. QED
    BY <1>4, <1>5, <2>1 DEF Removed, Creating, Marking, Claims, Ends
<1>10. QED
  BY <1>1, <1>2, <1>4, <1>6, <1>7, <1>8, <1>9, JobKeeps DEF Typed, Ends

LEMMA DiscardKeeps ==
  ASSUME LibI, NEW n \in Notes, Discard(n)
  PROVE  LibI'
<1>1. /\ phase # "down" /\ job["control"] = Idle /\ sess[n] \in Captured
      /\ sess' = sess /\ Set("control", Job("discard", n, "unlink"))
      /\ FilesRest /\ KeepsLeft /\ tossed' = tossed \cup {n} /\ pieces' = pieces /\ queue' = queue
  BY DEF Discard, Free, disk, engine, queues, FilesRest, KeepsLeft, Captured
<1>2. Typed /\ n \in Texts /\ QueueOK /\ "discard" \in Deeds /\ "unlink" \in Points
  BY DEF LibI, Texts, Deeds, Points
<1>3. Begins("control", "discard", n, "unlink")
  BY <1>1, <1>2, SetBegins, ThreadsApart DEF Typed
<1>4. Moves("control") /\ Others("control")
  BY <1>1, <1>2, <1>3 DEF Typed, Moves, Move, Others, Begins
<1>5. OwnOK("control")'
  BY <1>1, <1>3, ThreadsApart DEF OwnOK, ControlOK, Begins
<1>6. QueueOK'
  <2>1. \A y : Holding(y)' <=> Holding(y)
    BY <1>3, ThreadsApart DEF Holding, Begins
  <2>2. QED
    BY <1>1, <1>2, <2>1 DEF QueueOK
<1>7. ASSUME NEW m \in Notes
      PROVE  /\ m \in tossed' => m \in tossed \/ sess[m] # "new"
             /\ ~Removed(m)' /\ ~Creating(m)' /\ ~Creating(m)
             /\ ~Marking("control", m)' /\ ~Claims("control", m)'
  BY <1>1, <1>3, IdleTyped DEF Removed, Creating, Marking, Claims, Begins, Captured
<1>8. QED
  BY <1>1, <1>2, <1>3, <1>4, <1>5, <1>6, <1>7, JobKeeps DEF Typed, Begins

LEMMA ForgetKeeps ==
  ASSUME LibI, Forget
  PROVE  LibI'
<1> DEFINE n == job["control"].of
<1>1. /\ phase # "down" /\ job["control"].do = "discard" /\ job["control"].at = "forget"
      /\ sess' = [sess EXCEPT ![n] = IF Open(n) THEN "gone" ELSE @] /\ Set("control", Idle)
      /\ pieces' = [pieces EXCEPT ![n] = 0] /\ queue' = queue \ {n}
      /\ FilesRest /\ KeepsLeft /\ tossed' = tossed
  BY DEF Forget, Doing, Now, disk, ghost, FilesRest, KeepsLeft
<1>2. Typed /\ QueueOK /\ ControlOK
  BY ThreadsApart DEF LibI, ThreadsOK, OwnOK
<1>3. n \in Notes /\ n \in Texts /\ Removed(n)
  BY <1>1, <1>2 DEF ControlOK, Failing, Texts, Typed, Removed
<1>4. Ends("control")
  BY <1>1, <1>2, ThreadsApart, SetEnds DEF Typed
<1>5. /\ sess' \in [Texts -> Sessions] /\ sess'[n] = (IF sess[n] \in Captured THEN "gone" ELSE sess[n])
      /\ \A y \in Texts \ {n} : sess'[y] = sess[y]
  BY <1>1, <1>2, <1>3 DEF Typed, Sessions, Open, Captured
<1>6. Moves("control") /\ Others("control")
  BY <1>3, <1>4, <1>5 DEF Moves, Move, Others, Ends
<1>7. OwnOK("control")'
  BY <1>4, ThreadsApart DEF OwnOK, ControlOK, Ends
<1>8. pieces' \in [Notes -> 0 .. MaxPieces]
  <2>1. 0 \in 0 .. MaxPieces
    BY LibraryAssumption
  <2>2. QED
    BY <1>1, <1>2, <2>1 DEF Typed
<1>9. QueueOK'
  <2>1. \A y : Holding(y)' <=> Holding(y)
    BY <1>4, ThreadsApart DEF Holding, Ends
  <2>2. QED
    BY <1>1, <1>2, <1>5, <2>1 DEF QueueOK, Typed
<1>10. ASSUME NEW m \in Notes
      PROVE  /\ sess[m] = "new" => sess'[m] = "new"
             /\ ~Removed(m)' /\ ~Creating(m)' /\ ~Creating(m)
             /\ ~Marking("control", m)' /\ ~Claims("control", m)'
  <2>1. sess[m] = "new" => sess'[m] = "new"
    BY <1>5 DEF Texts, Captured
  <2>2. QED
    BY <1>1, <1>4, <2>1 DEF Removed, Creating, Marking, Claims, Ends
<1>11. QED
  BY <1>1, <1>2, <1>4, <1>6, <1>7, <1>8, <1>9, <1>10, JobKeeps DEF Typed, Ends
-----------------------------------------------------------------------------
(* The steps of the worker that leave the files alone.                        *)

LEMMA WorkKeeps ==
  ASSUME LibI, phase # "down", FilesRest, KeepsLeft, tossed' = tossed,
         job' \in [Threads -> JobType], Others("worker"), Moves("worker"),
         pieces' \in [Notes -> 0 .. MaxPieces], queue' \subseteq queue, OwnOK("worker")',
         \A x \in queue' : (sess'[x] = "gone" => sess[x] = "gone") /\ (x \notin Notes => sess'[x] = sess[x]),
         \A x \in Texts : Holding(x)' => Holding(x) \/ (sess[x] \notin {"done", "gone"} /\ x \notin queue'),
         \A n \in Notes :
           /\ SegsAt(n)'
           /\ Marking("worker", n)' => Marking("worker", n) \/ sess[n] \in Captured
           /\ Claims("worker", n)' => Claims("worker", n) \/ sess[n] # "claimed"
           /\ Rewrites("worker", n)' => job'["worker"].base = note[n].json /\ note[n].json # None,
         Saves("worker")' => job'["worker"].base = LoadAll
  PROVE  LibI'
<1>1. "worker" \in Threads /\ "worker" \notin Ui /\ "worker" # "control" /\ "worker" # "start"
  BY ThreadsApart
<1>2. Alone("worker")
  BY DEF Alone, FilesRest, KeepsLeft
<1>3. Typed'
  BY DEF LibI, Typed, FilesRest, KeepsLeft, Moves
<1>4. Fair("worker")
  BY DEF Fair
<1>5. QueueOK'
  <2>1. QueueOK /\ queue \subseteq Texts
    BY DEF LibI, Typed
  <2>2. \A x \in queue' : Holding(x)' => Holding(x)
    BY <2>1
  <2>3. QED
    BY <1>1, <2>1, <2>2, QueueRests
<1>6. job'["control"] = job["control"]
  BY <1>1, ThreadsApart DEF Others
<1>7. ASSUME NEW n \in Notes PROVE Spares("worker", n)
  <2>1. sess[n] = "new" => sess'[n] = "new"
    BY <1>1, MoveNotes
  <2>2. (Removed(n)' <=> Removed(n)) /\ (Creating(n)' <=> Creating(n))
    BY <1>6 DEF Removed, Creating
  <2>3. QED
    BY <1>1, <2>1, <2>2 DEF Spares, FilesRest, KeepsLeft
<1>8. Listens("worker")
  BY <1>1 DEF Listens, Reads, FilesRest
<1>9. QED
  BY <1>1, <1>2, <1>3, <1>4, <1>5, <1>7, <1>8, StepKeeps

\* The worker marks a recording as failed, or it is over already.
LEMMA FailKeeps ==
  ASSUME LibI, phase = "up", NEW n \in Notes, Fail(n), FilesRest, KeepsLeft, tossed' = tossed,
         pieces' \in [Notes -> 0 .. MaxPieces], queue' \subseteq queue
  PROVE  LibI'
<1>1. Typed /\ n \in Texts /\ "failed" \in Deeds /\ "load" \in Points /\ "worker" \in Threads
  BY ThreadsApart DEF LibI, Texts, Deeds, Points
<1>2. CASE Open(n)
  <2>1. sess[n] \in Captured /\ sess' = [sess EXCEPT ![n] = "claimed"] /\ Begins("worker", "failed", n, "load")
    BY <1>1, <1>2, SetBegins DEF Fail, Open, Captured, Typed
  <2>2. sess' \in [Texts -> Sessions] /\ sess'[n] = "claimed" /\ \A y \in Texts \ {n} : sess'[y] = sess[y]
    BY <1>1, <2>1 DEF Typed, Sessions
  <2>3. Moves("worker") /\ Others("worker") /\ job' \in [Threads -> JobType]
    BY <2>1, <2>2 DEF Moves, Move, Others, Begins
  <2>4. OwnOK("worker")'
    BY <1>1, <2>1, <2>2, ThreadsApart DEF OwnOK, WorkerOK, Marks, Begins, FilesRest
  <2>5. \A x \in queue' : (sess'[x] = "gone" => sess[x] = "gone") /\ (x \notin Notes => sess'[x] = sess[x])
    BY <1>1, <2>2 DEF Typed
  <2>6. \A x : ~Holding(x)'
    BY <2>1 DEF Holding, Begins
  <2>7. ASSUME NEW m \in Notes
        PROVE  /\ SegsAt(m)'
               /\ Marking("worker", m)' => sess[m] \in Captured
               /\ Claims("worker", m)' => sess[m] # "claimed"
               /\ ~Rewrites("worker", m)'
    BY <2>1 DEF SegsAt, Marking, Claims, Rewrites, Begins, Captured
  <2>8. ~Saves("worker")'
    BY <2>1 DEF Saves, Begins
  <2>9. QED
    BY <2>3, <2>4, <2>5, <2>6, <2>7, <2>8, WorkKeeps
<1>3. CASE ~Open(n)
  <2>1. sess' = sess /\ Ends("worker")
    BY <1>1, <1>3, SetEnds DEF Fail, Typed
  <2>2. Moves("worker") /\ Others("worker") /\ job' \in [Threads -> JobType]
    BY <1>1, <2>1 DEF Moves, Move, Others, Ends, Typed
  <2>3. OwnOK("worker")'
    BY <2>1, ThreadsApart DEF OwnOK, WorkerOK, Ends
  <2>4. \A x : ~Holding(x)'
    BY <2>1 DEF Holding, Ends
  <2>5. ASSUME NEW m \in Notes
        PROVE  SegsAt(m)' /\ ~Marking("worker", m)' /\ ~Claims("worker", m)' /\ ~Rewrites("worker", m)'
    BY <2>1 DEF SegsAt, Marking, Claims, Rewrites, Ends
  <2>6. ~Saves("worker")'
    BY <2>1 DEF Saves, Ends
  <2>7. QED
    BY <2>1, <2>2, <2>3, <2>4, <2>5, <2>6, WorkKeeps
<1>4. QED
  BY <1>2, <1>3

LEMMA TakePieceKeeps ==
  ASSUME LibI, NEW n \in Notes, NEW text \in BOOLEAN, TakePiece(n, text)
  PROVE  LibI'
<1>1. /\ phase = "up" /\ job["worker"] = Idle /\ queue' = queue /\ FilesRest /\ KeepsLeft /\ tossed' = tossed
      /\ pieces' = [pieces EXCEPT ![n] = @ - 1] /\ pieces[n] > 0
  BY DEF TakePiece, Free, disk, ghost, FilesRest, KeepsLeft
<1>2. Typed /\ n \in Texts /\ "piece" \in Deeds /\ "segment" \in Points /\ "worker" \in Threads
      /\ MaxPieces \in Nat
  BY LibraryAssumption, ThreadsApart DEF LibI, Texts, Deeds, Points
<1>3. pieces' \in [Notes -> 0 .. MaxPieces]
  <2>1. pieces[n] \in 0 .. MaxPieces
    BY <1>2 DEF Typed
  <2>2. pieces[n] - 1 \in 0 .. MaxPieces
    BY <1>1, <1>2, <2>1
  <2>3. QED
    BY <1>1, <1>2, <2>2 DEF Typed
<1>4. CASE Fail(n)
  BY <1>1, <1>3, <1>4, FailKeeps
<1>5. CASE Open(n) /\ note[n].segs < Segments /\ Set("worker", Job("piece", n, "segment")) /\ UNCHANGED sess
  <2>1. sess[n] \in Captured /\ sess' = sess /\ Begins("worker", "piece", n, "segment")
    BY <1>2, <1>5, SetBegins DEF Open, Captured, Typed
  <2>2. Moves("worker") /\ Others("worker") /\ job' \in [Threads -> JobType]
    BY <1>2, <2>1 DEF Moves, Move, Others, Begins, Typed
  <2>3. OwnOK("worker")'
    BY <1>1, <1>2, <2>1, ThreadsApart DEF OwnOK, WorkerOK, Begins, FilesRest, Begun
  <2>4. \A x : ~Holding(x)'
    BY <2>1 DEF Holding, Begins
  <2>5. ASSUME NEW m \in Notes
        PROVE  SegsAt(m)' /\ ~Marking("worker", m)' /\ ~Claims("worker", m)' /\ ~Rewrites("worker", m)'
    BY <1>1, <1>5, <2>1 DEF SegsAt, Marking, Claims, Rewrites, Begins, FilesRest
  <2>6. ~Saves("worker")'
    BY <2>1 DEF Saves, Begins
  <2>7. QED
    BY <1>1, <1>3, <2>1, <2>2, <2>3, <2>4, <2>5, <2>6, WorkKeeps
<1>6. CASE UNCHANGED <<job, sess>>
  <2>1. job' = job /\ sess' = sess
    BY <1>6
  <2>2. sess' \in [Texts -> Sessions] /\ queue' \subseteq Texts /\ \A x \in Texts : QuietMove(x)
    BY <1>1, <1>2, <2>1 DEF Typed, QuietMove
  <2>3. QueueOK'
    BY <1>1, <2>1 DEF LibI, QueueOK, Holding
  <2>4. QED
    BY <1>1, <1>3, <2>1, <2>2, <2>3, QuietKeeps
<1>7. QED
  BY <1>4, <1>5, <1>6 DEF TakePiece

LEMMA TakeNextKeeps ==
  ASSUME LibI, NEW x \in Texts, NEW text \in BOOLEAN, TakeNext(x, text)
  PROVE  LibI'
<1>1. /\ phase = "up" /\ job["worker"] = Idle /\ x \in queue /\ queue' = queue \ {x}
      /\ FilesRest /\ KeepsLeft /\ tossed' = tossed /\ pieces' = pieces
  BY DEF TakeNext, Free, disk, ghost, FilesRest, KeepsLeft
<1>2. Typed /\ QueueOK /\ {"decode", "append"} \subseteq Deeds /\ {"segment", "check", "load"} \subseteq Points
      /\ "worker" \in Threads /\ queue \subseteq Texts
  BY ThreadsApart DEF LibI, Deeds, Points, Typed
<1>3. pieces' \in [Notes -> 0 .. MaxPieces] /\ queue' \subseteq queue /\ queue' \subseteq Texts
  BY <1>1, <1>2 DEF Typed
<1>4. \A y \in Texts : QuietMove(y) \/ sess'[y] # sess[y]
  BY DEF QuietMove
<1>5. CASE x \in Notes /\ Fail(x)
  BY <1>1, <1>3, <1>5, FailKeeps
<1>6. CASE UNCHANGED <<job, sess>>
  <2>1. job' = job /\ sess' = sess
    BY <1>6
  <2>2. sess' \in [Texts -> Sessions] /\ \A y \in Texts : QuietMove(y)
    BY <1>2, <2>1 DEF Typed, QuietMove
  <2>3. QueueOK'
    BY <1>1, <2>1 DEF LibI, QueueOK, Holding
  <2>4. QED
    BY <1>1, <1>3, <2>1, <2>2, <2>3, QuietKeeps
<1>7. CASE x \notin Notes /\ UNCHANGED job /\ Done(x)
  <2>1. sess[x] = "queued" /\ sess' = [sess EXCEPT ![x] = "done"] /\ job' = job
    BY <1>1, <1>2, <1>7 DEF QueueOK, Done
  <2>2. sess' \in [Texts -> Sessions] /\ sess'[x] = "done" /\ \A y \in Texts \ {x} : sess'[y] = sess[y]
    BY <1>2, <2>1 DEF Typed, Sessions
  <2>3. Moves("worker") /\ Others("worker") /\ job' \in [Threads -> JobType]
    BY <1>2, <1>7, <2>1, <2>2 DEF Moves, Move, Others, Typed
  <2>4. job'["worker"].do = "idle"
    BY <1>1, <2>1, IdleTyped
  <2>5. OwnOK("worker")'
    BY <2>4, ThreadsApart DEF OwnOK, WorkerOK
  <2>6. \A y \in queue' : (sess'[y] = "gone" => sess[y] = "gone") /\ (y \notin Notes => sess'[y] = sess[y])
    BY <1>1, <1>2, <2>2
  <2>7. \A y : ~Holding(y)'
    BY <2>4 DEF Holding
  <2>8. ASSUME NEW m \in Notes
        PROVE  SegsAt(m)' /\ ~Marking("worker", m)' /\ ~Claims("worker", m)' /\ ~Rewrites("worker", m)'
    BY <2>4 DEF SegsAt, Marking, Claims, Rewrites
  <2>9. ~Saves("worker")'
    BY <2>4 DEF Saves
  <2>10. QED
    BY <1>1, <1>3, <2>3, <2>5, <2>6, <2>7, <2>8, <2>9, WorkKeeps
<1>8. CASE x \in Notes /\ Open(x) /\ UNCHANGED sess
           /\ Set("worker", Job("decode", x, IF note[x].segs < Segments THEN "segment" ELSE "check"))
  <2>1. PICK a \in {"segment", "check"} : a = IF note[x].segs < Segments THEN "segment" ELSE "check"
    OBVIOUS
  <2>2. Begins("worker", "decode", x, a)
    BY <1>2, <1>8, <2>1, SetBegins DEF Typed
  <2>3. sess' = sess /\ sess[x] \in {"stopping", "queued"}
    BY <1>1, <1>2, <1>8 DEF QueueOK, Open
  <2>4. Moves("worker") /\ Others("worker") /\ job' \in [Threads -> JobType]
    BY <1>2, <2>2, <2>3 DEF Moves, Move, Others, Begins, Typed
  <2>5. OwnOK("worker")'
    BY <1>1, <1>8, <2>2, <2>3, ThreadsApart DEF OwnOK, WorkerOK, Begins, FilesRest
  <2>6. ASSUME NEW y \in Texts, Holding(y)' PROVE sess[y] \notin {"done", "gone"} /\ y \notin queue'
    BY <1>1, <2>2, <2>3, <2>6 DEF Holding, Begins
  <2>7. note[x].segs \in 0 .. Segments /\ Segments \in Nat
    BY <1>2, <1>8, LibraryAssumption DEF Typed, NoteType
  <2>8. ASSUME NEW m \in Notes
        PROVE  SegsAt(m)' /\ ~Marking("worker", m)' /\ ~Claims("worker", m)' /\ ~Rewrites("worker", m)'
    <3>1. ~(note[x].segs < Segments) => note[x].segs = Segments
      BY <2>7
    <3>2. QED
      BY <1>1, <2>1, <2>2, <3>1 DEF SegsAt, Marking, Claims, Rewrites, Begins, FilesRest
  <2>9. ~Saves("worker")'
    BY <2>2 DEF Saves, Begins
  <2>10. QED
    BY <1>1, <1>3, <2>3, <2>4, <2>5, <2>6, <2>8, <2>9, WorkKeeps
<1>9. CASE x \notin Notes /\ Set("worker", Job("append", x, "load")) /\ UNCHANGED sess
  <2>2. Begins("worker", "append", x, "load")
    BY <1>2, <1>9, SetBegins DEF Typed
  <2>3. sess' = sess /\ sess[x] = "queued"
    BY <1>1, <1>2, <1>9 DEF QueueOK
  <2>4. Moves("worker") /\ Others("worker") /\ job' \in [Threads -> JobType]
    BY <1>2, <2>2, <2>3 DEF Moves, Move, Others, Begins, Typed
  <2>5. OwnOK("worker")'
    BY <1>1, <1>9, <2>2, <2>3, ThreadsApart DEF OwnOK, WorkerOK, Appends, Begins, FilesRest
  <2>6. ASSUME NEW y \in Texts, Holding(y)' PROVE sess[y] \notin {"done", "gone"} /\ y \notin queue'
    BY <1>1, <2>2, <2>3, <2>6 DEF Holding, Begins
  <2>8. ASSUME NEW m \in Notes
        PROVE  SegsAt(m)' /\ ~Marking("worker", m)' /\ ~Claims("worker", m)' /\ ~Rewrites("worker", m)'
    BY <1>9, <2>2 DEF SegsAt, Marking, Claims, Rewrites, Begins
  <2>9. ~Saves("worker")'
    BY <2>2 DEF Saves, Begins
  <2>10. QED
    BY <1>1, <1>3, <2>3, <2>4, <2>5, <2>6, <2>8, <2>9, WorkKeeps
<1>10. QED
  BY <1>5, <1>6, <1>7, <1>8, <1>9 DEF TakeNext

LEMMA SegmentFailsKeeps ==
  ASSUME LibI, SegmentFails
  PROVE  LibI'
<1> DEFINE n == job["worker"].of
<1>1. /\ phase # "down" /\ job["worker"].do \in {"piece", "decode"} /\ Fail(n) /\ FilesRest /\ KeepsLeft
      /\ tossed' = tossed /\ pieces' = pieces /\ queue' = queue
  BY DEF SegmentFails, Doing, Now, disk, queues, ghost, FilesRest, KeepsLeft
<1>2. WorkerOK /\ Typed
  BY ThreadsApart DEF LibI, ThreadsOK, OwnOK
<1>3. n \in Notes /\ phase = "up"
  BY <1>1, <1>2 DEF WorkerOK
<1>4. pieces' \in [Notes -> 0 .. MaxPieces] /\ queue' \subseteq queue
  BY <1>1, <1>2 DEF Typed
<1>5. QED
  BY <1>1, <1>3, <1>4, FailKeeps

LEMMA CheckKeeps ==
  ASSUME LibI, Check
  PROVE  LibI'
<1> DEFINE n == job["worker"].of
<1>1. /\ phase # "down" /\ job["worker"].do = "decode" /\ job["worker"].at = "check" /\ FilesRest /\ KeepsLeft
      /\ tossed' = tossed /\ pieces' = pieces /\ queue' = queue /\ sess' = sess
      /\ IF Open(n) THEN At("worker", "claim") ELSE Set("worker", Idle)
  BY DEF Check, Doing, Now, disk, engine, queues, ghost, FilesRest, KeepsLeft
<1>2. WorkerOK /\ Typed /\ NotesFine /\ "worker" \in Threads /\ "claim" \in Points
  BY ThreadsApart DEF LibI, ThreadsOK, OwnOK, Points
<1>3. n \in Notes /\ phase = "up" /\ sess[n] \in {"stopping", "queued", "gone"}
  BY <1>1, <1>2 DEF WorkerOK
<1>4. Goes("worker", "claim", job["worker"].base) \/ Ends("worker")
  BY <1>1, <1>2, AtGoes, SetEnds DEF Typed
<1>5. Moves("worker") /\ Others("worker") /\ job' \in [Threads -> JobType]
  BY <1>1, <1>2, <1>4 DEF Moves, Move, Others, Goes, Ends, Typed
<1>6. OwnOK("worker")'
  <2>1. sess' = sess /\ phase' = phase
    BY <1>1 DEF FilesRest
  <2>2. CASE Ends("worker")
    BY <2>2, ThreadsApart DEF OwnOK, WorkerOK, Ends
  <2>3. CASE Goes("worker", "claim", job["worker"].base)
    <3>1. job'["worker"].do = "decode" /\ job'["worker"].at = "claim" /\ job'["worker"].of = n
      BY <1>1, <2>3 DEF Goes
    <3>2. WorkerOK'
      BY <1>3, <2>1, <3>1 DEF WorkerOK, Texts
    <3>3. QED
      BY <3>2, ThreadsApart DEF OwnOK
  <2>4. QED
    BY <1>4, <2>2, <2>3
<1>7. \A y : Holding(y)' => Holding(y)
  BY <1>1, <1>4 DEF Holding, Goes, Ends
<1>8. ASSUME NEW m \in Notes
      PROVE  SegsAt(m)' /\ ~Marking("worker", m)' /\ ~Claims("worker", m)' /\ ~Rewrites("worker", m)'
  <2>1. FineNote(m)
    BY <1>2 DEF NotesFine
  <2>2. QED
    BY <1>1, <1>4, <2>1 DEF FineNote, SegsAt, Marking, Claims, Rewrites, Goes, Ends, FilesRest
<1>9. ~Saves("worker")'
  BY <1>4 DEF Saves, Goes, Ends
<1>10. pieces' \in [Notes -> 0 .. MaxPieces]
  BY <1>1, <1>2 DEF Typed
<1>11. QED
  BY <1>1, <1>5, <1>6, <1>7, <1>8, <1>9, <1>10, WorkKeeps

LEMMA ClaimKeeps ==
  ASSUME LibI, Claim
  PROVE  LibI'
<1> DEFINE n == job["worker"].of
<1>1. /\ phase # "down" /\ job["worker"].do = "decode" /\ job["worker"].at = "claim" /\ FilesRest /\ KeepsLeft
      /\ tossed' = tossed /\ pieces' = pieces /\ queue' = queue
      /\ IF Open(n) THEN sess' = [sess EXCEPT ![n] = "claimed"] /\ Set("worker", Job("ready", n, "load"))
         ELSE UNCHANGED sess /\ Set("worker", Job("append", n, "load"))
  BY DEF Claim, Doing, Now, disk, engine, queues, ghost, FilesRest, KeepsLeft
<1>2. /\ WorkerOK /\ Typed /\ NotesFine /\ QueueOK /\ "worker" \in Threads
      /\ "load" \in Points /\ {"ready", "append"} \subseteq Deeds
  BY ThreadsApart DEF LibI, ThreadsOK, OwnOK, Points, Deeds
<1>3. n \in Notes /\ n \in Texts /\ phase = "up" /\ sess[n] \in {"stopping", "queued", "gone"} /\ Holding(n)
  BY <1>1, <1>2 DEF WorkerOK, Holding, Texts
<1>4. PICK d \in {"ready", "append"} :
        /\ Begins("worker", d, n, "load")
        /\ d = "ready" => sess[n] \in Captured /\ sess' = [sess EXCEPT ![n] = "claimed"]
        /\ d = "append" => sess[n] = "gone" /\ sess' = sess
  BY <1>1, <1>2, <1>3, SetBegins DEF Typed, Open, Captured
<1>5. /\ sess' \in [Texts -> Sessions] /\ \A y \in Texts \ {n} : sess'[y] = sess[y]
      /\ sess'[n] = (IF d = "ready" THEN "claimed" ELSE "gone")
  BY <1>2, <1>3, <1>4 DEF Typed, Sessions
<1>6. Moves("worker") /\ Others("worker") /\ job' \in [Threads -> JobType]
  BY <1>3, <1>4, <1>5 DEF Moves, Move, Others, Begins
<1>7. OwnOK("worker")'
  BY <1>1, <1>3, <1>4, <1>5, ThreadsApart DEF OwnOK, WorkerOK, Marks, Appends, Begins, FilesRest
<1>8. \A y : Holding(y)' => Holding(y)
  BY <1>1, <1>4 DEF Holding, Begins
<1>9. ASSUME NEW m \in Notes
      PROVE  /\ SegsAt(m)'
             /\ Marking("worker", m)' => sess[m] \in Captured
             /\ Claims("worker", m)' => sess[m] # "claimed"
             /\ ~Rewrites("worker", m)'
  <2>1. FineNote(m)
    BY <1>2 DEF NotesFine
  <2>2. QED
    BY <1>1, <1>3, <1>4, <1>5, <2>1 DEF FineNote, SegsAt, Marking, Claims, Rewrites, Begins, FilesRest
<1>10. ~Saves("worker")'
  BY <1>4 DEF Saves, Begins
<1>11. pieces' \in [Notes -> 0 .. MaxPieces] /\ n \notin queue'
  BY <1>1, <1>2, <1>3 DEF Typed, QueueOK
<1>12. \A y \in queue' : (sess'[y] = "gone" => sess[y] = "gone") /\ (y \notin Notes => sess'[y] = sess[y])
  BY <1>1, <1>2, <1>5, <1>11 DEF Typed
<1>13. QED
  BY <1>1, <1>6, <1>7, <1>8, <1>9, <1>10, <1>11, <1>12, WorkKeeps

\* The history as the worker reads it, and a history that cannot be saved.
LEMMA AppendLoadKeeps ==
  ASSUME LibI, AppendLoad
  PROVE  LibI'
<1>1. /\ phase # "down" /\ job["worker"].do = "append" /\ FilesRest /\ KeepsLeft
      /\ tossed' = tossed /\ pieces' = pieces /\ queue' = queue /\ sess' = sess
      /\ job' = [job EXCEPT !["worker"].at = "save", !["worker"].base = LoadAll]
  BY DEF AppendLoad, Doing, LoadHistory, disk, engine, queues, ghost, FilesRest, KeepsLeft
<1>2. WorkerOK /\ Typed /\ NotesFine /\ "worker" \in Threads /\ "save" \in Points /\ EntryList(LoadAll)
  BY ThreadsApart, Loaded DEF LibI, ThreadsOK, OwnOK, Points
<1>3. Goes("worker", "save", LoadAll)
  BY <1>1, <1>2, BaseGoes DEF Typed, EntryList
<1>4. Moves("worker") /\ Others("worker") /\ job' \in [Threads -> JobType]
  BY <1>1, <1>2, <1>3 DEF Moves, Move, Others, Goes, Typed
<1>5. OwnOK("worker")'
  <2>1. WorkerOK'
    BY <1>1, <1>2, <1>3 DEF WorkerOK, Appends, EntryList, Goes, FilesRest
  <2>2. QED
    BY <2>1, ThreadsApart DEF OwnOK
<1>6. \A y : Holding(y)' => Holding(y)
  BY <1>1, <1>3 DEF Holding, Goes
<1>7. ASSUME NEW m \in Notes
      PROVE  /\ SegsAt(m)' /\ ~Marking("worker", m)' /\ ~Rewrites("worker", m)'
             /\ Claims("worker", m)' => Claims("worker", m)
  BY <1>1, <1>3 DEF SegsAt, Marking, Claims, Rewrites, Goes
<1>8. job'["worker"].base = LoadAll
  BY <1>3 DEF Goes
<1>9. pieces' \in [Notes -> 0 .. MaxPieces]
  BY <1>1, <1>2 DEF Typed
<1>10. QED
  BY <1>1, <1>4, <1>5, <1>6, <1>7, <1>8, <1>9, WorkKeeps

\* What Done leaves, for a text that is claimed, discarded or a dictation.
LEMMA DoneFacts ==
  ASSUME Typed, NEW x \in Texts, Done(x)
  PROVE  /\ sess' \in [Texts -> Sessions] /\ \A y \in Texts \ {x} : sess'[y] = sess[y]
         /\ sess'[x] = IF sess[x] = "gone" THEN "gone" ELSE "done"
BY DEF Done, Typed, Sessions

\* The worker is done with a text it had taken, and touches no file.
LEMMA WorkEndsKeeps ==
  ASSUME LibI, phase # "down", job["worker"].do \in {"append", "failed"}, Done(job["worker"].of),
         Set("worker", Idle), FilesRest, KeepsLeft, tossed' = tossed, pieces' = pieces, queue' = queue
  PROVE  LibI'
<1> DEFINE x == job["worker"].of
<1>1. WorkerOK /\ Typed /\ "worker" \in Threads /\ QueueOK
  BY ThreadsApart DEF LibI, ThreadsOK, OwnOK
<1>2. x \in Texts /\ /\ x \in Notes => sess[x] = "gone" \/ (sess[x] = "claimed" /\ Claims("worker", x))
                     /\ x \notin Notes => sess[x] = "queued" /\ x \notin queue
  BY <1>1 DEF WorkerOK, Claims, Engine, QueueOK, Holding
<1>3. /\ sess' \in [Texts -> Sessions] /\ \A y \in Texts \ {x} : sess'[y] = sess[y]
      /\ sess'[x] = IF sess[x] = "gone" THEN "gone" ELSE "done"
  BY <1>1, <1>2, DoneFacts
<1>4. Ends("worker")
  BY <1>1, SetEnds DEF Typed
<1>5. Moves("worker") /\ Others("worker") /\ job' \in [Threads -> JobType]
  BY <1>2, <1>3, <1>4 DEF Moves, Move, Others, Ends
<1>6. OwnOK("worker")'
  BY <1>4, ThreadsApart DEF OwnOK, WorkerOK, Ends
<1>7. \A y : ~Holding(y)'
  BY <1>4 DEF Holding, Ends
<1>8. ASSUME NEW m \in Notes
      PROVE  SegsAt(m)' /\ ~Marking("worker", m)' /\ ~Claims("worker", m)' /\ ~Rewrites("worker", m)'
  BY <1>4 DEF SegsAt, Marking, Claims, Rewrites, Ends
<1>9. ~Saves("worker")'
  BY <1>4 DEF Saves, Ends
<1>10. \A y \in queue' : (sess'[y] = "gone" => sess[y] = "gone") /\ (y \notin Notes => sess'[y] = sess[y])
  BY <1>1, <1>2, <1>3 DEF Typed
<1>11. pieces' \in [Notes -> 0 .. MaxPieces] /\ queue' \subseteq queue
  BY <1>1 DEF Typed
<1>12. QED
  BY <1>5, <1>6, <1>7, <1>8, <1>9, <1>10, <1>11, WorkKeeps

LEMMA AppendFailsKeeps ==
  ASSUME LibI, AppendFails
  PROVE  LibI'
<1>1. /\ phase # "down" /\ job["worker"].do = "append" /\ FilesRest /\ KeepsLeft
      /\ tossed' = tossed /\ pieces' = pieces /\ queue' = queue
      /\ Done(job["worker"].of) /\ Set("worker", Idle)
  BY DEF AppendFails, Doing, Now, disk, queues, ghost, FilesRest, KeepsLeft
<1>2. QED
  BY <1>1, WorkEndsKeeps
-----------------------------------------------------------------------------
(* The steps that look at a note before they change it.                       *)

StartRest == pieces' = pieces /\ queue' = queue /\ sess' = sess /\ tossed' = tossed

LEMMA StartKeeps ==
  ASSUME LibI, phase # "down", FilesRest, StartRest, left' \subseteq left, skipped' \in BOOLEAN,
         job' \in [Threads -> JobType], Others("start"), OwnOK("start")',
         \A n \in Notes :
           /\ Rewrites("start", n)' => job'["start"].base = note[n].json /\ note[n].json # None
           /\ LateAt(n)' /\ RecoveringAt(n)'
  PROVE  LibI'
<1>1. "start" \in Threads /\ "start" \notin Ui /\ "start" # "control" /\ "start" # "worker"
  BY ThreadsApart
<1>2. Moves("start")
  BY DEF LibI, Typed, StartRest, Moves, Move
<1>3. Alone("start")
  BY <1>2 DEF Alone, FilesRest, StartRest
<1>4. Typed'
  BY DEF LibI, Typed, FilesRest, StartRest
<1>5. StartOK'
  BY <1>1 DEF OwnOK
<1>6. job'["start"].do \in {"idle", "interrupted"} /\ ~Saves("start")'
  BY <1>5 DEF StartOK, Marks, Saves
<1>7. Fair("start")
  BY <1>1, <1>6 DEF Fair, Claims
<1>8. job'["control"] = job["control"] /\ job'["worker"] = job["worker"]
  BY <1>1, ThreadsApart DEF Others
<1>9. QueueOK'
  <2>1. \A y : Holding(y)' <=> Holding(y)
    BY <1>8 DEF Holding
  <2>2. QED
    BY <2>1 DEF LibI, QueueOK, StartRest
<1>10. ASSUME NEW n \in Notes PROVE Spares("start", n)
  <2>1. (Removed(n)' <=> Removed(n)) /\ (Creating(n)' <=> Creating(n))
    BY <1>8 DEF Removed, Creating
  <2>2. ~Marking("start", n)'
    BY <1>6 DEF Marking
  <2>3. QED
    BY <1>1, <2>1, <2>2 DEF Spares, FilesRest, StartRest
<1>11. Listens("start")
  BY <1>1, <1>6 DEF Listens, Reads, FilesRest
<1>12. QED
  BY <1>1, <1>3, <1>4, <1>7, <1>9, <1>10, <1>11, StepKeeps

LEMMA UiKeeps ==
  ASSUME LibI, phase # "down", NEW u \in Ui, StartRest, KeepsLeft,
         note' = note, history' = history, said' = said, raced' = raced, phase' = phase,
         job' \in [Threads -> JobType], Others(u), OwnOK(u)', hidden' \subseteq Items,
         \A n \in Notes :
           /\ Rewrites(u, n)' => job'[u].base = note[n].json /\ note[n].json # None
           /\ NoteItem(n) \in hidden' => \/ NoteItem(n) \in hidden
                                         \/ sess[n] # "new" /\ (note[n].json = None \/ note[n].json.archived),
         \A x \in Texts : EntryItem(x) \in hidden' => EntryItem(x) \in hidden,
         Saves(u)' => job'[u].base = LoadAll,
         job'[u].do # "idle" /\ job'[u].of.kind = "entry" => job'[u].of.of \in Texts /\ Over(job'[u].of.of)
  PROVE  LibI'
<1>1. u \in Threads /\ u \notin Engine /\ u # "control" /\ u # "worker" /\ u # "start"
  BY ThreadsApart
<1>2. Moves(u)
  BY DEF LibI, Typed, StartRest, Moves, Move
<1>3. Alone(u)
  BY <1>2 DEF Alone, KeepsLeft, StartRest
<1>4. Typed'
  BY DEF LibI, Typed, KeepsLeft, StartRest
<1>5. Fair(u)
  BY <1>1 DEF Fair, Claims
<1>6. job'["control"] = job["control"] /\ job'["worker"] = job["worker"]
  BY <1>1, ThreadsApart DEF Others
<1>7. QueueOK'
  <2>1. \A y : Holding(y)' <=> Holding(y)
    BY <1>6 DEF Holding
  <2>2. QED
    BY <2>1 DEF LibI, QueueOK, StartRest
<1>8. ASSUME NEW n \in Notes PROVE Spares(u, n)
  <2>1. (Removed(n)' <=> Removed(n)) /\ (Creating(n)' <=> Creating(n))
    BY <1>6 DEF Removed, Creating
  <2>2. ~Marking(u, n)'
    BY <1>1 DEF Marking
  <2>3. QED
    BY <1>1, <2>1, <2>2 DEF Spares, KeepsLeft, StartRest
<1>9. Listens(u)
  BY DEF Listens, Reads
<1>10. QED
  BY <1>1, <1>3, <1>4, <1>5, <1>7, <1>8, <1>9, StepKeeps

\* A note that is not yet recorded has no record, and one that has is known.
LEMMA RecordKnown ==
  ASSUME LibI, NEW n \in Notes, note[n].json # None
  PROVE  sess[n] # "new" /\ note[n].json \in JsonType
<1>1. FilesAt(n) /\ note[n] \in NoteType
  BY DEF LibI, NotesFine, FineNote, Typed
<1>2. QED
  BY <1>1 DEF FilesAt, NoteType

LEMMA MarkLoadGoes ==
  ASSUME LibI, NEW t \in Engine, NEW n \in Notes, phase # "down", job[t].do \in Settled, job[t].at = "load",
         job[t].of = n, note[n].json # None, FilesRest, KeepsLeft, StartRest,
         job' = [job EXCEPT ![t].at = "write", ![t].base = note[n].json]
  PROVE  LibI'
<1>1. /\ Typed /\ ThreadsOK /\ NotesFine /\ t \in Threads /\ "write" \in Points
      /\ note[n].json \in JsonType /\ ClaimsOK /\ QueueOK
  BY RecordKnown, ThreadsApart DEF LibI, Points
<1>2. Goes(t, "write", note[n].json)
  BY <1>1, BaseGoes DEF Typed
<1>3. Moves(t) /\ Others(t) /\ job' \in [Threads -> JobType]
  BY <1>1, <1>2 DEF Moves, Move, Others, Goes, Typed, StartRest
<1>4. OwnOK(t) /\ FineNote(n)
  BY <1>1 DEF ThreadsOK, NotesFine
<1>5. \A m \in Notes : Rewrites(t, m)' => m = n
  BY <1>2, ThreadsApart, LibraryAssumption DEF Rewrites, Target, Goes
<1>6. pieces' \in [Notes -> 0 .. MaxPieces] /\ queue' \subseteq queue /\ queue' \subseteq Texts
  BY <1>1 DEF Typed, StartRest
<1>7. ~Saves(t)' /\ (\A m \in Notes : Marking(t, m)' <=> Marking(t, m))
      /\ (\A m \in Notes : Claims(t, m)' <=> Claims(t, m))
      /\ \A m \in Notes : Rewrites(t, m)' => job'[t].base = note[m].json /\ note[m].json # None
  BY <1>2, <1>5 DEF Saves, Marking, Claims, Goes, StartRest
<1>8. CASE t \in {"control", "recorder"}
  <2>1. OwnOK(t)'
    <3>1. Failing(job[t]) /\ job'[t].do = "failed" /\ job'[t].of = n /\ job'[t].at = "write"
          /\ job'[t].base \in JsonType
      BY <1>1, <1>2, <1>4, <1>8, ThreadsApart DEF OwnOK, ControlOK, RecorderOK, Failing, Settled, Goes
    <3>2. Failing(job[t])'
      BY <3>1 DEF Failing, Marks, StartRest
    <3>3. QED
      BY <1>8, <3>2, ThreadsApart DEF OwnOK, ControlOK, RecorderOK
  <2>2. QueueOK'
    <3>1. \A y : Holding(y)' <=> Holding(y)
      BY <1>2, <1>8, ThreadsApart DEF Holding, Goes
    <3>2. QED
      BY <1>1, <3>1 DEF QueueOK, StartRest
  <2>3. ASSUME NEW m \in Notes
        PROVE  (Removed(m)' => Removed(m)) /\ (Creating(m)' <=> Creating(m))
    <3>1. job'["control"].do = job["control"].do /\ job'["control"].of = job["control"].of
      BY <1>2, ThreadsApart DEF Goes
    <3>2. ~Removed(m)' \/ job'["control"] = job["control"]
      BY <1>2, <1>8, ThreadsApart DEF Goes, Removed, Settled
    <3>3. QED
      BY <3>1, <3>2 DEF Removed, Creating
  <2>4. /\ sess' = sess /\ tossed' = tossed /\ tossed' \subseteq Notes
    BY <1>1 DEF StartRest, Typed
  <2>5. QED
    BY <1>3, <1>6, <1>7, <1>8, <2>1, <2>2, <2>3, <2>4, JobKeeps
<1>9. CASE t = "worker"
  <2>1. job["worker"].do \in {"ready", "failed"} /\ sess' = sess /\ phase' = phase
    BY <1>4, <1>9, ThreadsApart DEF OwnOK, WorkerOK, Settled, StartRest, FilesRest
  <2>2. OwnOK("worker")'
    <3>1. WorkerOK'
      BY <1>1, <1>2, <1>4, <1>9, <2>1 DEF OwnOK, WorkerOK, Marks, Goes
    <3>2. QED
      BY <3>1, ThreadsApart DEF OwnOK
  <2>3. \A y : Holding(y)' <=> Holding(y)
    BY <1>2, <1>9 DEF Holding, Goes
  <2>4. ASSUME NEW m \in Notes PROVE SegsAt(m)'
    <3>1. SegsAt(m)
      BY <1>1 DEF NotesFine, FineNote
    <3>2. QED
      BY <1>2, <1>9, <2>1, <3>1 DEF SegsAt, Goes, FilesRest, StartRest
  <2>5. \A y \in queue' : (sess'[y] = "gone" => sess[y] = "gone") /\ (y \notin Notes => sess'[y] = sess[y])
    BY <2>1
  <2>6. tossed' = tossed
    BY DEF StartRest
  <2>7. QED
    BY <1>3, <1>6, <1>7, <1>9, <2>2, <2>3, <2>4, <2>5, <2>6, WorkKeeps
<1>10. CASE t = "start"
  <2>1. OwnOK("start")'
    <3>1. StartOK'
      BY <1>1, <1>2, <1>4, <1>10 DEF OwnOK, StartOK, Marks, Goes, StartRest, FilesRest
    <3>2. QED
      BY <3>1, ThreadsApart DEF OwnOK
  <2>2. ASSUME NEW m \in Notes PROVE LateAt(m)' /\ RecoveringAt(m)'
    <3>1. LateAt(m) /\ RecoveringAt(m) /\ sess' = sess /\ note' = note /\ raced' = raced /\ phase' = phase
          /\ left' = left /\ skipped' = skipped
      BY <1>1 DEF NotesFine, FineNote, StartRest, FilesRest, KeepsLeft
    <3>2. LateAt(m)'
      BY <1>2, <1>10, <3>1, IdleTyped DEF LateAt, Goes, Settled
    <3>3. RecoveringAt(m)'
      BY <1>2, <1>10, <3>1 DEF RecoveringAt, Looked, Goes
    <3>4. QED
      BY <3>2, <3>3
  <2>3. left' \subseteq left /\ skipped' \in BOOLEAN
    BY <1>1 DEF KeepsLeft, Typed
  <2>4. QED
    BY <1>3, <1>7, <1>10, <2>1, <2>2, <2>3, StartKeeps
<1>11. QED
  BY <1>8, <1>9, <1>10 DEF Engine

\* A failure that an operation or the recorder reported is marked, or there is
\* nothing to mark.
LEMMA CallEndsKeeps ==
  ASSUME LibI, phase # "down", NEW t \in {"control", "recorder"}, job[t].do = "failed",
         Done(job[t].of), Set(t, Idle), FilesRest, KeepsLeft, tossed' = tossed, pieces' = pieces, queue' = queue
  PROVE  LibI'
<1> DEFINE n == job[t].of
<1>1. OwnOK(t) /\ Typed /\ t \in Threads /\ QueueOK
  BY ThreadsApart DEF LibI, ThreadsOK
<1>2. n \in Notes /\ n \in Texts /\ sess[n] = "claimed" /\ Claims(t, n)
  BY <1>1, ThreadsApart DEF OwnOK, ControlOK, RecorderOK, Failing, Texts, Claims, Engine
<1>3. sess' \in [Texts -> Sessions] /\ sess'[n] = "done" /\ \A y \in Texts \ {n} : sess'[y] = sess[y]
  BY <1>1, <1>2, DoneFacts
<1>4. Ends(t)
  BY <1>1, SetEnds DEF Typed
<1>5. Moves(t) /\ Others(t)
  BY <1>2, <1>3, <1>4 DEF Moves, Move, Others, Ends
<1>6. OwnOK(t)'
  BY <1>4, ThreadsApart DEF OwnOK, ControlOK, RecorderOK, Ends
<1>7. QueueOK'
  <2>1. \A y : Holding(y)' <=> Holding(y)
    BY <1>4, ThreadsApart DEF Holding, Ends
  <2>2. QED
    BY <1>1, <1>2, <1>3, <2>1 DEF QueueOK, Typed
<1>8. ASSUME NEW m \in Notes
      PROVE  /\ sess[m] = "new" => sess'[m] = "new"
             /\ (Removed(m)' => Removed(m)) /\ (Creating(m)' <=> Creating(m))
             /\ ~Marking(t, m)' /\ ~Claims(t, m)'
  <2>1. sess[m] = "new" => sess'[m] = "new"
    BY <1>2, <1>3 DEF Texts
  <2>2. (Removed(m)' => Removed(m)) /\ (Creating(m)' <=> Creating(m))
    BY <1>4, ThreadsApart DEF Removed, Creating, Ends
  <2>3. QED
    BY <1>4, <2>1, <2>2 DEF Marking, Claims, Ends
<1>9. QED
  BY <1>1, <1>4, <1>5, <1>6, <1>7, <1>8, JobKeeps DEF Typed, Ends

\* The recovery leaves a note, looked at or given up.
LEMMA StartEndsKeeps ==
  ASSUME LibI, phase # "down", Set("start", Idle), FilesRest, StartRest,
         left' \subseteq left, skipped' \in BOOLEAN, job["start"].do # "idle",
         (left' = left /\ skipped' = skipped /\ note[job["start"].of].json = None) \/ skipped'
  PROVE  LibI'
<1>1. Typed /\ NotesFine /\ "start" \in Threads
  BY ThreadsApart DEF LibI
<1>2. Ends("start")
  BY <1>1, SetEnds DEF Typed
<1>3. OwnOK("start")'
  BY <1>2, ThreadsApart DEF OwnOK, StartOK, Ends
<1>4. ASSUME NEW m \in Notes PROVE ~Rewrites("start", m)' /\ LateAt(m)' /\ RecoveringAt(m)'
  <2>1. ~Rewrites("start", m)' /\ LateAt(m)'
    BY <1>2 DEF Rewrites, LateAt, Ends
  <2>2. RecoveringAt(m)'
    <3>1. RecoveringAt(m)
      BY <1>1 DEF NotesFine, FineNote
    <3>2. CASE skipped'
      BY <3>2 DEF RecoveringAt
    <3>3. CASE left' = left /\ skipped' = skipped /\ note[job["start"].of].json = None
      BY <3>1, <3>3 DEF RecoveringAt, Looked, FilesRest, StartRest
    <3>4. QED
      BY <3>2, <3>3
  <2>3. QED
    BY <2>1, <2>2
<1>5. QED
  BY <1>2, <1>3, <1>4, StartKeeps DEF Others, Ends

LEMMA MarkLoadKeeps ==
  ASSUME LibI, NEW t \in Threads, MarkLoad(t)
  PROVE  LibI'
<1> DEFINE n == job[t].of
<1>1. /\ t \in Engine /\ phase # "down" /\ job[t].do \in Settled /\ job[t].at = "load"
      /\ LoadNote(t, n, AfterMark(t)) /\ FilesRest /\ KeepsLeft
      /\ pieces' = pieces /\ queue' = queue /\ tossed' = tossed
      /\ IF job'[t] = Idle /\ t # "start" THEN Done(n) ELSE sess' = sess
  BY DEF MarkLoad, Doing, Now, LoadNote, disk, queues, ghost, FilesRest, KeepsLeft
<1>2. OwnOK(t) /\ Typed
  BY DEF LibI, ThreadsOK
<1>3. n \in Notes
  BY <1>1, <1>2, ThreadsApart
     DEF OwnOK, ControlOK, RecorderOK, WorkerOK, StartOK, Failing, Settled, Engine, Texts
<1>4. CASE note[n].json # None
  <2>1. job' = [job EXCEPT ![t].at = "write", ![t].base = note[n].json]
    BY <1>1, <1>4 DEF LoadNote
  <2>2. Goes(t, "write", note[n].json)
    BY <1>2, <1>3, <1>4, <2>1, BaseGoes, RecordKnown DEF Points, Typed
  <2>3. job'[t] # Idle
    BY <1>1, <2>2, IdleTyped DEF Goes, Settled
  <2>4. StartRest
    BY <1>1, <2>3 DEF StartRest
  <2>5. QED
    BY <1>1, <1>3, <1>4, <2>1, <2>4, MarkLoadGoes
<1>5. CASE note[n].json = None
  <2>1. Set(t, AfterMark(t))
    BY <1>1, <1>5 DEF LoadNote
  <2>2. CASE t = "start"
    <3>1. job[t].do = "interrupted"
      BY <1>1, <1>2, <2>2 DEF OwnOK, StartOK, Settled
    <3>2. Set("start", Idle)
      BY <2>1, <2>2, <3>1 DEF AfterMark
    <3>3. StartRest /\ left' \subseteq left /\ skipped' \in BOOLEAN /\ left' = left /\ skipped' = skipped
      BY <1>1, <1>2, <2>2 DEF StartRest, KeepsLeft, Typed
    <3>4. QED
      BY <1>1, <1>5, <2>2, <3>1, <3>2, <3>3, StartEndsKeeps
  <2>3. CASE t # "start" /\ job[t].do = "failed"
    <3>1. Set(t, Idle) /\ job'[t] = Idle
      BY <1>2, <2>1, <2>3, SetEnds DEF AfterMark, Ends, Typed
    <3>2. Done(job[t].of)
      BY <1>1, <2>3, <3>1
    <3>3. t \in {"control", "recorder"} \/ t = "worker"
      BY <1>1, <2>3 DEF Engine
    <3>4. QED
      BY <1>1, <2>3, <3>1, <3>2, <3>3, CallEndsKeeps, WorkEndsKeeps
  <2>4. CASE t # "start" /\ job[t].do # "failed"
    <3>1. t = "worker" /\ job[t].do = "ready"
      BY <1>1, <1>2, <2>4, ThreadsApart
         DEF OwnOK, ControlOK, RecorderOK, WorkerOK, Failing, Settled, Engine
    <3>2. Set(t, Job("append", n, "load"))
      BY <2>1, <3>1 DEF AfterMark, Now
    <3>3. Begins("worker", "append", n, "load")
      BY <1>2, <1>3, <3>1, <3>2, SetBegins DEF Typed, Texts, Deeds, Points
    <3>4. job'["worker"] # Idle
      BY <3>3, IdleTyped DEF Begins
    <3>5. sess' = sess /\ phase = "up" /\ sess[n] = "claimed"
      BY <1>1, <1>2, <3>1, <3>4 DEF OwnOK, WorkerOK
    <3>6. Moves("worker") /\ Others("worker") /\ job' \in [Threads -> JobType]
      BY <1>2, <3>3, <3>5 DEF Moves, Move, Others, Begins, Typed
    <3>7. OwnOK("worker")'
      <4>1. WorkerOK'
        BY <1>1, <1>3, <3>3, <3>5 DEF WorkerOK, Appends, Begins, FilesRest, Texts
      <4>2. QED
        BY <4>1, ThreadsApart DEF OwnOK
    <3>8. \A y : Holding(y)' => Holding(y)
      BY <3>1, <3>3 DEF Holding, Begins
    <3>9. ASSUME NEW m \in Notes
          PROVE  /\ SegsAt(m)' /\ ~Marking("worker", m)' /\ ~Rewrites("worker", m)'
                 /\ Claims("worker", m)' => Claims("worker", m)
      BY <3>1, <3>3, <3>5 DEF SegsAt, Marking, Claims, Rewrites, Begins
    <3>10. ~Saves("worker")'
      BY <3>3 DEF Saves, Begins
    <3>11. pieces' \in [Notes -> 0 .. MaxPieces] /\ queue' \subseteq queue
      BY <1>1, <1>2 DEF Typed
    <3>12. QED
      BY <1>1, <3>5, <3>6, <3>7, <3>8, <3>9, <3>10, <3>11, WorkKeeps
  <2>5. QED
    BY <2>2, <2>3, <2>4
<1>6. QED
  BY <1>4, <1>5

\* The worker turns to mark a note failed that it could not mark ready.
LEMMA MarkFailsKeeps ==
  ASSUME LibI, NEW t \in Threads, MarkFails(t)
  PROVE  LibI'
<1> DEFINE n == job[t].of
<1>1. /\ t \in Engine /\ phase # "down" /\ job[t].do \in Settled /\ job[t].at = "write"
      /\ Set(t, IF job[t].do = "ready" THEN Job("failed", n, "load") ELSE Idle) /\ FilesRest
      /\ pieces' = pieces /\ queue' = queue /\ tossed' = tossed
      /\ IF job[t].do = "failed" THEN Done(n) ELSE sess' = sess
      /\ IF t = "start" THEN left' = {} /\ skipped' = TRUE ELSE left' = left /\ skipped' = skipped
  BY DEF MarkFails, Doing, Now, disk, queues, ghost, FilesRest
<1>2. OwnOK(t) /\ Typed /\ NotesFine
  BY DEF LibI, ThreadsOK
<1>3. n \in Notes
  BY <1>1, <1>2, ThreadsApart
     DEF OwnOK, ControlOK, RecorderOK, WorkerOK, StartOK, Failing, Settled, Engine, Texts
<1>4. CASE t = "start"
  <2>1. job[t].do = "interrupted"
    BY <1>1, <1>2, <1>4 DEF OwnOK, StartOK, Settled
  <2>2. Set("start", Idle) /\ StartRest /\ left' \subseteq left /\ skipped' \in BOOLEAN /\ skipped'
    BY <1>1, <1>4, <2>1 DEF StartRest
  <2>3. QED
    BY <1>1, <1>4, <2>1, <2>2, StartEndsKeeps
<1>5. CASE t # "start" /\ job[t].do = "failed"
  <2>1. Set(t, Idle) /\ Done(job[t].of) /\ KeepsLeft
    BY <1>1, <1>5 DEF KeepsLeft
  <2>2. t \in {"control", "recorder"} \/ t = "worker"
    BY <1>1, <1>5 DEF Engine
  <2>3. QED
    BY <1>1, <1>5, <2>1, <2>2, CallEndsKeeps, WorkEndsKeeps
<1>6. CASE t # "start" /\ job[t].do # "failed"
  <2>1. t = "worker" /\ job[t].do = "ready" /\ KeepsLeft
    BY <1>1, <1>2, <1>6, ThreadsApart
       DEF OwnOK, ControlOK, RecorderOK, WorkerOK, Failing, Settled, Engine, KeepsLeft
  <2>2. Begins("worker", "failed", n, "load")
    BY <1>1, <1>2, <1>3, <2>1, SetBegins DEF Typed, Texts, Deeds, Points
  <2>3. sess' = sess /\ phase = "up" /\ sess[n] = "claimed" /\ Marking("worker", n) /\ Claims("worker", n)
    BY <1>1, <1>2, <2>1 DEF OwnOK, WorkerOK, Marking, Claims, Engine
  <2>4. Moves("worker") /\ Others("worker") /\ job' \in [Threads -> JobType]
    BY <1>2, <2>2, <2>3 DEF Moves, Move, Others, Begins, Typed
  <2>5. OwnOK("worker")'
    <3>1. WorkerOK'
      BY <1>1, <1>3, <2>2, <2>3 DEF WorkerOK, Marks, Begins, FilesRest, Texts
    <3>2. QED
      BY <3>1, ThreadsApart DEF OwnOK
  <2>6. \A y : ~Holding(y)'
    BY <2>2 DEF Holding, Begins
  <2>7. ASSUME NEW m \in Notes
        PROVE  /\ SegsAt(m)' /\ ~Rewrites("worker", m)'
               /\ Marking("worker", m)' => Marking("worker", m)
               /\ Claims("worker", m)' => Claims("worker", m)
    BY <2>2, <2>3 DEF SegsAt, Marking, Claims, Rewrites, Begins
  <2>8. ~Saves("worker")'
    BY <2>2 DEF Saves, Begins
  <2>9. pieces' \in [Notes -> 0 .. MaxPieces] /\ queue' \subseteq queue
    BY <1>1, <1>2 DEF Typed
  <2>10. QED
    BY <1>1, <2>1, <2>3, <2>4, <2>5, <2>6, <2>7, <2>8, <2>9, WorkKeeps
<1>7. QED
  BY <1>4, <1>5, <1>6

LEMMA RecoverNextKeeps ==
  ASSUME LibI, NEW n \in Notes, RecoverNext(n)
  PROVE  LibI'
<1>1. /\ phase = "starting" /\ job["start"] = Idle /\ n \in left /\ left' = left \ {n}
      /\ IF Stale(note[n].json) THEN Set("start", Job("interrupted", n, "load")) ELSE UNCHANGED job
      /\ FilesRest /\ StartRest /\ skipped' = skipped
  BY DEF RecoverNext, Free, disk, queues, ghost, FilesRest, StartRest
<1>2. /\ Typed /\ NotesFine /\ "start" \in Threads /\ n \in Texts /\ sess[n] \in Past
      /\ "interrupted" \in Deeds /\ "load" \in Points
  BY <1>1, ThreadsApart DEF LibI, LeftOK, Texts, Deeds, Points
<1>3. left' \subseteq left /\ skipped' \in BOOLEAN /\ phase # "down"
  BY <1>1, <1>2 DEF Typed
<1>4. CASE Stale(note[n].json)
  <2>1. Begins("start", "interrupted", n, "load")
    BY <1>1, <1>2, <1>4, SetBegins DEF Typed
  <2>2. OwnOK("start")'
    <3>1. StartOK'
      BY <1>1, <1>2, <2>1 DEF StartOK, Marks, Begins, FilesRest, StartRest
    <3>2. QED
      BY <3>1, ThreadsApart DEF OwnOK
  <2>3. ASSUME NEW m \in Notes PROVE ~Rewrites("start", m)' /\ LateAt(m)' /\ RecoveringAt(m)'
    <3>1. RecoveringAt(m) /\ ~Rewrites("start", m)'
      BY <1>2, <2>1 DEF NotesFine, FineNote, Rewrites, Begins
    <3>2. LateAt(m)'
      BY <1>1, <1>4, <2>1 DEF LateAt, Stale, Begins, FilesRest
    <3>3. Looked(m) => Looked(m)'
      BY <1>1, <2>1, IdleTyped DEF Looked, Begins, FilesRest
    <3>4. RecoveringAt(m)'
      BY <1>1, <3>1, <3>3 DEF RecoveringAt, FilesRest, StartRest
    <3>5. QED
      BY <3>1, <3>2, <3>4
  <2>4. QED
    BY <1>1, <1>3, <2>1, <2>2, <2>3, StartKeeps DEF Others, Begins
<1>5. CASE ~Stale(note[n].json)
  <2>1. job' = job /\ job["start"].do = "idle"
    BY <1>1, <1>5, IdleTyped
  <2>2. OwnOK("start")'
    BY <2>1, ThreadsApart DEF OwnOK, StartOK
  <2>3. ASSUME NEW m \in Notes PROVE ~Rewrites("start", m)' /\ LateAt(m)' /\ RecoveringAt(m)'
    <3>1. RecoveringAt(m) /\ note[m] \in NoteType
      BY <1>2 DEF NotesFine, FineNote, Typed
    <3>2. ~Rewrites("start", m)' /\ LateAt(m)'
      BY <2>1 DEF LateAt, Rewrites
    <3>3. RecoveringAt(m)'
      <4>1. note[n].json = None \/ note[n].json.status \in Settled
        BY <1>2, <1>5 DEF Stale, Typed, NoteType, JsonType
      <4>2. QED
        BY <1>1, <2>1, <3>1, <4>1 DEF RecoveringAt, Looked, FilesRest, StartRest
    <3>4. QED
      BY <3>2, <3>3
  <2>4. job' \in [Threads -> JobType] /\ Others("start")
    BY <1>2, <2>1 DEF Typed, Others
  <2>5. QED
    BY <1>1, <1>3, <2>2, <2>3, <2>4, StartKeeps
<1>6. QED
  BY <1>4, <1>5
-----------------------------------------------------------------------------
(* The requests of the window, up to what they write.                         *)

LEMMA ShownKnown ==
  ASSUME LibI, NEW item \in Shown \cup hidden
  PROVE  item \in Items /\ (item.kind = "entry" => item.of \in Texts /\ Over(item.of))
<1>1. Typed /\ EntriesDone
  BY DEF LibI, ListOK
<1>2. \A i \in DOMAIN history : history[i].of \in Texts
  BY <1>1, EntryAt DEF Typed
<1>3. CASE item \in Shown
  <2>1. \/ \E n \in Notes : item = NoteItem(n)
        \/ \E i \in DOMAIN history : item = EntryItem(history[i].of)
    BY <1>3 DEF Shown, ListedNotes
  <2>2. CASE \E n \in Notes : item = NoteItem(n)
    BY <2>2 DEF NoteItem, Items
  <2>3. CASE \E i \in DOMAIN history : item = EntryItem(history[i].of)
    <3>1. PICK i \in DOMAIN history : item = EntryItem(history[i].of)
      BY <2>3
    <3>2. history[i].of \in Texts /\ Over(history[i].of) /\ item.of = history[i].of /\ item.kind = "entry"
      BY <1>1, <1>2, <3>1 DEF EntriesDone, EntryItem
    <3>3. item \in Items
      BY <3>1, <3>2 DEF Items
    <3>4. QED
      BY <3>2, <3>3
  <2>4. QED
    BY <2>1, <2>2, <2>3
<1>4. CASE item \in hidden
  <2>1. item \in Items
    BY <1>1, <1>4 DEF Typed
  <2>2. item.kind = "entry" => item.of \in Texts /\ item = EntryItem(item.of)
    BY <2>1, ItemsApart
  <2>3. QED
    BY <1>1, <1>4, <2>1, <2>2 DEF EntriesDone
<1>5. QED
  BY <1>3, <1>4

LEMMA AskKeeps ==
  ASSUME LibI, NEW u \in Ui, NEW do \in {"archive", "unarchive"}, NEW item \in Items, Ask(u, do, item)
  PROVE  LibI'
<1>1. PICK a \in {"check", "load"} : a = IF item.kind = "note" THEN "check" ELSE "load"
  OBVIOUS
<1>2. /\ phase # "down" /\ item \in Shown \cup hidden /\ Set(u, Job(do, item, a))
      /\ FilesRest /\ StartRest /\ KeepsLeft
  BY <1>1 DEF Ask, Free, disk, engine, queues, ghost, FilesRest, StartRest, KeepsLeft
<1>3. Typed /\ u \in Threads /\ {"archive", "unarchive"} \subseteq Deeds /\ {"check", "load"} \subseteq Points
  BY ThreadsApart DEF LibI, Deeds, Points
<1>4. Begins(u, do, item, a)
  BY <1>2, <1>3, SetBegins DEF Typed
<1>5. item.kind = "entry" => item.of \in Texts /\ Over(item.of)
  BY <1>2, ShownKnown
<1>6. OwnOK(u)'
  <2>1. item.kind \in {"note", "entry"} /\ item.of \in Texts /\ (item.kind = "note" => item.of \in Notes)
    BY ItemsApart DEF Texts
  <2>2. UiOK(u)'
    BY <1>1, <1>4, <2>1, ItemsApart DEF UiOK, Marks, Appends, Begins
  <2>3. QED
    BY <2>2, ThreadsApart DEF OwnOK
<1>7. ASSUME NEW n \in Notes PROVE ~Rewrites(u, n)'
  BY <1>4 DEF Rewrites, Begins
<1>8. ~Saves(u)' /\ (job'[u].of.kind = "entry" => job'[u].of.of \in Texts /\ Over(job'[u].of.of))
  BY <1>4, <1>5 DEF Saves, Begins
<1>9. hidden' = hidden /\ hidden' \subseteq Items
  BY <1>2, <1>3 DEF FilesRest, Typed
<1>10. QED
  BY <1>2, <1>4, <1>6, <1>7, <1>8, <1>9, UiKeeps DEF Others, Begins, FilesRest

\* What a busy thread of the server is asked about.
LEMMA UiBusy ==
  ASSUME LibI, NEW u \in Ui, job[u].do # "idle"
  PROVE  /\ u \in Threads /\ job[u].do \in {"archive", "unarchive"} /\ job[u].of \in Items
         /\ \/ /\ job[u].of.kind = "note" /\ job[u].of.of \in Notes /\ job[u].of = NoteItem(job[u].of.of)
               /\ job[u].at = "check" \/ Marks(job[u])
            \/ /\ job[u].of.kind = "entry" /\ job[u].of.of \in Texts /\ job[u].of = EntryItem(job[u].of.of)
               /\ Appends(job[u]) /\ Over(job[u].of.of)
<1>1. UiOK(u) /\ EntriesDone
  BY ThreadsApart DEF LibI, ThreadsOK, OwnOK, ListOK
<1>2. QED
  BY <1>1, ItemsApart, ThreadsApart DEF UiOK, EntriesDone

LEMMA AskCheckKeeps ==
  ASSUME LibI, NEW u \in Ui, AskCheck(u)
  PROVE  LibI'
<1> DEFINE n == job[u].of.of
           same == note[n].json # None /\ note[n].json.archived = (job[u].do = "archive")
<1>1. /\ phase # "down" /\ job[u].do \in {"archive", "unarchive"} /\ job[u].at = "check"
      /\ IF note[n].json = None \/ same
           THEN Set(u, Idle) /\ (IF same THEN Hide(u) ELSE UNCHANGED hidden)
           ELSE At(u, "load") /\ UNCHANGED hidden
      /\ note' = note /\ history' = history /\ said' = said /\ raced' = raced /\ phase' = phase
      /\ StartRest /\ KeepsLeft
  BY DEF AskCheck, Doing, Now, disk, engine, queues, StartRest, KeepsLeft
<1>2. /\ u \in Threads /\ n \in Notes /\ job[u].of = NoteItem(n) /\ job[u].of.kind = "note" /\ Typed
      /\ "load" \in Points /\ job[u].of \in Items
  BY <1>1, UiBusy DEF LibI, Marks, Appends, Points
<1> HIDE DEF n
<1>3. Ends(u) \/ Goes(u, "load", job[u].base)
  BY <1>1, <1>2, SetEnds, AtGoes DEF Typed
<1>4. \/ hidden' = hidden
      \/ note[n].json # None /\ note[n].json.archived /\ hidden' = hidden \cup {NoteItem(n)}
      \/ hidden' = hidden \ {NoteItem(n)}
  BY <1>1, <1>2 DEF Hide, Now
<1>5. OwnOK(u)'
  <2>1. UiOK(u)'
    BY <1>1, <1>2, <1>3 DEF UiOK, Marks, Ends, Goes, n
  <2>2. QED
    BY <2>1, ThreadsApart DEF OwnOK
<1>6. ASSUME NEW m \in Notes
      PROVE  /\ ~Rewrites(u, m)'
             /\ NoteItem(m) \in hidden' => \/ NoteItem(m) \in hidden
                                           \/ sess[m] # "new" /\ note[m].json.archived
  <2>1. ~Rewrites(u, m)'
    BY <1>3 DEF Rewrites, Ends, Goes
  <2>2. NoteItem(m) = NoteItem(n) => m = n
    BY ItemsApart
  <2>3. QED
    BY <1>2, <1>4, <2>1, <2>2, RecordKnown
<1>7. ASSUME NEW x \in Texts PROVE EntryItem(x) \in hidden' => EntryItem(x) \in hidden
  BY <1>4, ItemsApart
<1>8. ~Saves(u)' /\ ~(job'[u].do # "idle" /\ job'[u].of.kind = "entry")
  BY <1>2, <1>3 DEF Saves, Ends, Goes
<1>9. hidden' \subseteq Items
  BY <1>2, <1>4 DEF Typed
<1>10. job' \in [Threads -> JobType] /\ Others(u)
  BY <1>3 DEF Ends, Goes, Others
<1>11. QED
  BY <1>1, <1>5, <1>6, <1>7, <1>8, <1>9, <1>10, UiKeeps

LEMMA AskLoadKeeps ==
  ASSUME LibI, NEW u \in Ui, AskLoad(u)
  PROVE  LibI'
<1> DEFINE x == job[u].of.of
<1>1. /\ phase # "down" /\ job[u].do \in {"archive", "unarchive"} /\ job[u].at = "load"
      /\ \/ job[u].of.kind = "note" /\ LoadNote(u, x, Idle)
         \/ job[u].of.kind # "note" /\ LoadHistory(u)
         \/ job[u].of.kind # "note" /\ Set(u, Idle) /\ UNCHANGED disk
      /\ history' = history /\ note' = note /\ said' = said /\ raced' = raced /\ phase' = phase /\ hidden' = hidden
      /\ StartRest /\ KeepsLeft
  BY DEF AskLoad, LoadNote, LoadHistory, Doing, Now, disk, engine, queues, ghost, StartRest, KeepsLeft
<1>2. /\ u \in Threads /\ Typed /\ job[u].of \in Items /\ {"write", "save"} \subseteq Points /\ EntryList(LoadAll)
      /\ \/ job[u].of.kind = "note" /\ x \in Notes
         \/ job[u].of.kind = "entry" /\ x \in Texts /\ Over(x)
  BY <1>1, UiBusy, Loaded DEF LibI, Points
<1>3. \/ Ends(u)
      \/ /\ job[u].of.kind = "note" /\ note[x].json # None /\ note[x].json \in JsonType
         /\ Goes(u, "write", note[x].json)
      \/ job[u].of.kind = "entry" /\ Goes(u, "save", LoadAll)
  <2>1. CASE Set(u, Idle)
    BY <1>2, <2>1, SetEnds DEF Typed
  <2>2. CASE LoadNote(u, x, Idle) /\ job[u].of.kind = "note" /\ ~Set(u, Idle)
    <3>1. note[x].json # None /\ job' = [job EXCEPT ![u].at = "write", ![u].base = note[x].json]
      BY <2>2 DEF LoadNote
    <3>2. note[x].json \in JsonType
      BY <1>2, <2>2, <3>1, RecordKnown
    <3>3. QED
      BY <1>2, <2>2, <3>1, <3>2, BaseGoes DEF Typed
  <2>3. CASE LoadHistory(u) /\ job[u].of.kind # "note"
    BY <1>2, <2>3, BaseGoes DEF LoadHistory, Typed, EntryList
  <2>4. QED
    BY <1>1, <2>1, <2>2, <2>3
<1>4. OwnOK(u)'
  <2>1. UiOK(u)'
    BY <1>1, <1>2, <1>3 DEF UiOK, Marks, Appends, EntryList, Ends, Goes
  <2>2. QED
    BY <2>1, ThreadsApart DEF OwnOK
<1>5. ASSUME NEW m \in Notes
      PROVE  Rewrites(u, m)' => job'[u].base = note[m].json /\ note[m].json # None
  BY <1>3 DEF Rewrites, Target, Ends, Goes
<1>6. Saves(u)' => job'[u].base = LoadAll
  BY <1>3 DEF Saves, Ends, Goes
<1>7. job'[u].do # "idle" /\ job'[u].of.kind = "entry" => job'[u].of.of \in Texts /\ Over(job'[u].of.of)
  BY <1>2, <1>3 DEF Ends, Goes
<1>8. job' \in [Threads -> JobType] /\ Others(u) /\ hidden' \subseteq Items
  BY <1>1, <1>2, <1>3 DEF Ends, Goes, Others, Typed
<1>9. QED
  BY <1>1, <1>4, <1>5, <1>6, <1>7, <1>8, UiKeeps
-----------------------------------------------------------------------------
(* The steps that write a note.                                               *)

LEMMA StartNoteKeeps ==
  ASSUME LibI, NEW n \in Notes, StartNote(n)
  PROVE  LibI'
<1>1. /\ phase # "down" /\ job["control"] = Idle /\ sess[n] = "new" /\ sess' = Overtaken
      /\ note' = [note EXCEPT ![n].there = TRUE] /\ Set("control", Job("create", n, "write"))
      /\ history' = history /\ said' = said /\ raced' = raced /\ hidden' = hidden /\ phase' = phase
      /\ KeepsLeft /\ tossed' = tossed /\ pieces' = pieces /\ queue' = queue
  BY DEF StartNote, Free, queues, ghost, KeepsLeft
<1>2. /\ Typed /\ ThreadsOK /\ QueueOK /\ "control" \in Threads /\ n \in Texts
      /\ "create" \in Deeds /\ "write" \in Points
  BY ThreadsApart DEF LibI, Texts, Deeds, Points
<1>3. Begins("control", "create", n, "write")
  BY <1>1, <1>2, SetBegins DEF Typed
<1>4. /\ sess' \in [Texts -> Sessions]
      /\ \A x \in Texts : sess'[x] = IF sess[x] = "stopping" THEN "queued" ELSE sess[x]
  BY <1>1, <1>2, OvertakenFacts DEF Typed
<1>5. Moves("control") /\ Others("control")
  <2>1. \A x \in Texts : sess[x] = "stopping" => x \in Notes
    BY DEF LibI, SaidOK
  <2>2. QED
    BY <1>3, <1>4, <2>1 DEF Moves, Move, Captured, Others, Begins
<1>6. Alone("control")
  BY <1>1, <1>5 DEF Alone, KeepsLeft
<1>7. /\ note' \in [Notes -> NoteType] /\ \A m \in Notes \ {n} : note'[m] = note[m]
      /\ note'[n].there /\ note'[n].json = note[n].json /\ note'[n].segs = note[n].segs
  <2>1. PICK d \in NoteType : d = note[n]
    BY <1>2 DEF Typed
  <2>2. [d EXCEPT !.there = TRUE] \in NoteType
        /\ [d EXCEPT !.there = TRUE].there /\ [d EXCEPT !.there = TRUE].json = d.json
        /\ [d EXCEPT !.there = TRUE].segs = d.segs
    BY DEF NoteType
  <2>3. note' = [note EXCEPT ![n] = [d EXCEPT !.there = TRUE]]
    BY <1>1, <2>1
  <2>4. QED
    BY <1>2, <2>1, <2>2, <2>3 DEF Typed
<1>8. Typed'
  BY <1>1, <1>2, <1>3, <1>4, <1>7 DEF Typed, KeepsLeft, Begins
<1>9. OwnOK("control")'
  BY <1>1, <1>3, <1>4, <1>2, ThreadsApart DEF OwnOK, ControlOK, Begins
<1>10. QueueOK'
  <2>1. \A y : Holding(y)' <=> Holding(y)
    BY <1>3, ThreadsApart DEF Holding, Begins
  <2>2. QED
    BY <1>1, <1>2, <1>4, <2>1 DEF QueueOK, Typed
<1>11. \A s \in Threads, m \in Notes : Rewrites(s, m)' => Rewrites(s, m)
  BY <1>3 DEF Rewrites, Begins
<1>12. ASSUME NEW m \in Notes, m # n PROVE Spares("control", m)
  <2>1. /\ note'[m] = note[m] /\ (sess[m] = "new" => sess'[m] = "new")
        /\ ~Rewrites("control", m)'
    BY <1>3, <1>4, <1>7, <1>12 DEF Texts, Rewrites, Begins
  <2>2. ~Removed(m)' /\ ~Creating(m)' /\ ~Creating(m) /\ ~Marking("control", m)'
    BY <1>1, <1>3, <1>12, IdleTyped DEF Removed, Creating, Marking, Begins
  <2>3. QED
    BY <1>1, <2>1, <2>2, ThreadsApart DEF Spares, KeepsLeft
<1>13. FineNote(n)'
  <2>1. FineNote(n) /\ sess'[n] = "new" /\ note[n].json = None /\ n \notin tossed
    BY <1>1, <1>2, <1>4 DEF LibI, NotesFine, FineNote, FilesAt
  <2>2. job'["worker"] = job["worker"] /\ job'["start"] = job["start"]
    BY <1>3, ThreadsApart DEF Begins
  <2>3. SegsAt(n)'
    BY <1>1, <1>7, <2>1, <2>2 DEF FineNote, SegsAt
  <2>4. \A s \in Threads : ~Rewrites(s, n)'
    BY <1>1, <1>11, <2>1 DEF FineNote, KnownAt
  <2>5. ReadyAt(n)' /\ KnownAt(n)'
    BY <1>1, <1>7, <2>1, <2>4 DEF FineNote, ReadyAt, KnownAt, NoteItem
  <2>6. FilesAt(n)'
    <3>1. Creating(n)' /\ ~Removed(n)'
      BY <1>3 DEF Creating, Removed, Begins
    <3>2. QED
      BY <1>1, <1>7, <2>1, <3>1 DEF FineNote, FilesAt, Begun, Captured
  <2>7. RecoveringAt(n)' /\ UnfinishedAt(n)' /\ LateAt(n)'
    BY <1>1, <1>7, <2>1, <2>2 DEF FineNote, RecoveringAt, UnfinishedAt, Unsettled, LateAt
  <2>8. QED
    BY <2>3, <2>5, <2>6, <2>7 DEF FineNote
<1>14. Fair("control")
  BY <1>3, ThreadsApart DEF Fair, Claims, Begins
<1>15. Listens("control")
  BY <1>1, <1>3, ThreadsApart DEF Listens, Reads, Saves, Begins
<1>16. QED
  BY <1>2, <1>6, <1>8, <1>9, <1>10, <1>12, <1>13, <1>14, <1>15, StepKeeps

LEMMA CreateWriteKeeps ==
  ASSUME LibI, NEW ok \in BOOLEAN, CreateWrite(ok)
  PROVE  LibI'
<1>0. PICK n : n = job["control"].of
  OBVIOUS
<1>1. /\ phase # "down" /\ job["control"].do = "create"
      /\ sess' = [sess EXCEPT ![n] = IF ok THEN "recording" ELSE "orphan"]
      /\ note' = [note EXCEPT ![n].json = NewJson] /\ Set("control", Idle)
      /\ history' = history /\ said' = said /\ raced' = raced /\ hidden' = hidden /\ phase' = phase
      /\ KeepsLeft /\ tossed' = tossed /\ pieces' = pieces /\ queue' = queue
  BY <1>0 DEF CreateWrite, Doing, Now, queues, ghost, KeepsLeft
<1>2. Typed /\ ThreadsOK /\ QueueOK /\ NotesFine /\ "control" \in Threads /\ ControlOK /\ StartOK
  BY ThreadsApart DEF LibI, ThreadsOK, OwnOK
<1>3. n \in Notes /\ n \in Texts /\ sess[n] = "new" /\ Creating(n)
  BY <1>0, <1>1, <1>2 DEF ControlOK, Failing, Texts, Creating
<1>4. Ends("control")
  BY <1>1, <1>2, SetEnds DEF Typed
<1>5. /\ sess' \in [Texts -> Sessions] /\ sess'[n] \in {"recording", "orphan"}
      /\ \A y \in Texts \ {n} : sess'[y] = sess[y]
  BY <1>1, <1>2, <1>3 DEF Typed, Sessions
<1>6. Moves("control") /\ Others("control")
  BY <1>3, <1>4, <1>5 DEF Moves, Move, Others, Ends
<1>7. Alone("control")
  BY <1>1, <1>6 DEF Alone, KeepsLeft
<1>8. NewJson \in JsonType /\ NewJson.status = "recording"
  BY DEF NewJson, JsonType, InFlight, Settled
<1>9. Holds(n, NewJson) /\ note'[n].there = note[n].there
  BY <1>1, <1>2, <1>3, <1>8, JsonHolds DEF Typed
<1>10. Typed'
  BY <1>1, <1>2, <1>4, <1>5, <1>9 DEF Typed, KeepsLeft, Ends, Holds
<1>11. OwnOK("control")'
  BY <1>4, ThreadsApart DEF OwnOK, ControlOK, Ends
<1>12. QueueOK'
  <2>1. \A y : Holding(y)' <=> Holding(y)
    BY <1>4, ThreadsApart DEF Holding, Ends
  <2>2. QED
    BY <1>1, <1>2, <1>3, <1>5, <2>1 DEF QueueOK, Typed
<1>13. \A s \in Threads, m \in Notes : Rewrites(s, m)' => Rewrites(s, m)
  BY <1>4 DEF Rewrites, Ends
<1>14. ASSUME NEW m \in Notes, m # n PROVE Spares("control", m)
  <2>1. /\ note'[m] = note[m] /\ sess'[m] = sess[m] /\ ~Rewrites("control", m)'
    BY <1>4, <1>5, <1>9, <1>14 DEF Texts, Rewrites, Ends, Holds
  <2>2. ~Removed(m)' /\ ~Creating(m)' /\ ~Creating(m) /\ ~Marking("control", m)'
    BY <1>0, <1>4, <1>14 DEF Removed, Creating, Marking, Ends
  <2>3. QED
    BY <1>1, <2>1, <2>2, ThreadsApart DEF Spares, KeepsLeft
<1>15. FineNote(n)'
  <2>1. FineNote(n) /\ note[n].there /\ n \notin tossed
    BY <1>2, <1>3 DEF NotesFine, FineNote, FilesAt
  <2>2. job'["worker"] = job["worker"] /\ job'["start"] = job["start"] /\ ~Removed(n)' /\ ~Creating(n)'
    BY <1>4, ThreadsApart DEF Ends, Removed, Creating
  <2>3. note'[n].json = NewJson /\ note'[n].json # None /\ note'[n].segs = note[n].segs /\ note'[n].there
    BY <1>8, <1>9, <2>1, LibraryAssumption DEF Holds
  <2>4. SegsAt(n)'
    BY <1>1, <2>1, <2>2, <2>3 DEF FineNote, SegsAt
  <2>5. (\A s \in Threads : ~Rewrites(s, n)') /\ NoteItem(n) \notin hidden
    BY <1>3, <1>13, <2>1 DEF FineNote, KnownAt
  <2>6. ReadyAt(n)' /\ KnownAt(n)'
    BY <1>1, <1>8, <2>3, <2>5 DEF ReadyAt, KnownAt, NoteItem
  <2>7. FilesAt(n)'
    BY <1>5, <2>2, <2>3 DEF FilesAt
  <2>8. RecoveringAt(n)' /\ UnfinishedAt(n)'
    BY <1>5, <1>8, <2>3 DEF RecoveringAt, UnfinishedAt, Unsettled
  <2>9. LateAt(n)'
    BY <1>2, <1>3, <2>2 DEF LateAt, StartOK, Past
  <2>10. QED
    BY <2>4, <2>6, <2>7, <2>8, <2>9 DEF FineNote
<1>16. Fair("control")
  BY <1>4, ThreadsApart DEF Fair, Claims, Ends
<1>17. Listens("control")
  BY <1>1, <1>4, ThreadsApart DEF Listens, Reads, Saves, Ends
<1>18. QED
  BY <1>2, <1>7, <1>10, <1>11, <1>12, <1>14, <1>15, <1>16, <1>17, StepKeeps

LEMMA UnlinkKeeps ==
  ASSUME LibI, Unlink
  PROVE  LibI'
<1>0. PICK n : n = job["control"].of
  OBVIOUS
<1>1. /\ phase # "down" /\ job["control"].do = "discard" /\ job["control"].at = "unlink"
      /\ note' = [note EXCEPT ![n].json = None, ![n].segs = 0] /\ At("control", "rmdir")
      /\ history' = history /\ said' = said /\ raced' = raced /\ hidden' = hidden /\ phase' = phase
      /\ KeepsLeft /\ tossed' = tossed /\ StartRest
  BY <1>0 DEF Unlink, Doing, Now, engine, queues, ghost, KeepsLeft, StartRest
<1>2. Typed /\ QueueOK /\ NotesFine /\ "control" \in Threads /\ ControlOK /\ "rmdir" \in Points
  BY ThreadsApart DEF LibI, ThreadsOK, OwnOK, Points
<1>3. n \in Notes /\ n \in tossed
  BY <1>0, <1>1, <1>2 DEF ControlOK, Failing, Typed
<1>4. Goes("control", "rmdir", job["control"].base)
  BY <1>1, <1>2, AtGoes DEF Typed
<1>5. Moves("control") /\ Others("control")
  BY <1>1, <1>2, <1>4 DEF Moves, Move, Others, Goes, Typed, StartRest
<1>6. Alone("control")
  BY <1>1, <1>5 DEF Alone, KeepsLeft
<1>7. /\ note' \in [Notes -> NoteType] /\ \A m \in Notes \ {n} : note'[m] = note[m]
      /\ note'[n].json = None /\ note'[n].segs = 0
  <2>1. PICK d \in NoteType : d = note[n]
    BY <1>2, <1>3 DEF Typed
  <2>2. [d EXCEPT !.json = None, !.segs = 0] \in NoteType
        /\ [d EXCEPT !.json = None, !.segs = 0].json = None /\ [d EXCEPT !.json = None, !.segs = 0].segs = 0
    <3>1. 0 \in 0 .. Segments
      BY LibraryAssumption
    <3>2. QED
      BY <3>1 DEF NoteType
  <2>3. note' = [note EXCEPT ![n] = [d EXCEPT !.json = None, !.segs = 0]]
    BY <1>1, <2>1
  <2>4. QED
    BY <1>2, <1>3, <2>1, <2>2, <2>3 DEF Typed
<1>8. Typed'
  BY <1>1, <1>2, <1>4, <1>7 DEF Typed, KeepsLeft, StartRest, Goes
<1>9. OwnOK("control")'
  BY <1>0, <1>1, <1>3, <1>4, ThreadsApart DEF OwnOK, ControlOK, Goes
<1>10. QueueOK'
  <2>1. \A y : Holding(y)' <=> Holding(y)
    BY <1>4, ThreadsApart DEF Holding, Goes
  <2>2. QED
    BY <1>1, <1>2, <2>1 DEF QueueOK, StartRest
<1>11. ASSUME NEW m \in Notes, m # n PROVE Spares("control", m)
  <2>1. note'[m] = note[m] /\ ~Rewrites("control", m)' /\ sess' = sess
    BY <1>1, <1>4, <1>7, <1>11 DEF Rewrites, Goes, StartRest
  <2>2. ~Removed(m)' /\ ~Creating(m)' /\ ~Creating(m) /\ ~Marking("control", m)'
    BY <1>0, <1>1, <1>4, <1>11 DEF Removed, Creating, Marking, Goes
  <2>3. QED
    BY <1>1, <2>1, <2>2, ThreadsApart DEF Spares, KeepsLeft
<1>12. FineNote(n)'
  <2>1. FineNote(n) /\ sess[n] # "new" /\ sess' = sess
    BY <1>1, <1>2, <1>3 DEF NotesFine, FineNote, FilesAt, StartRest
  <2>2. job'["worker"] = job["worker"] /\ job'["start"] = job["start"] /\ ~Creating(n)'
    BY <1>1, <1>4, ThreadsApart DEF Goes, Creating
  <2>3. 0 < Segments
    BY LibraryAssumption
  <2>4. SegsAt(n)' /\ ReadyAt(n)' /\ FilesAt(n)'
    BY <1>1, <1>3, <1>7, <2>1, <2>2, <2>3 DEF SegsAt, ReadyAt, FilesAt
  <2>5. KnownAt(n)' /\ RecoveringAt(n)' /\ UnfinishedAt(n)'
    BY <1>7, <2>1 DEF KnownAt, RecoveringAt, UnfinishedAt, Unsettled
  <2>6. LateAt(n)'
    BY <1>1, <1>7, <2>1, <2>2 DEF FineNote, LateAt
  <2>7. QED
    BY <2>4, <2>5, <2>6 DEF FineNote
<1>13. Fair("control")
  BY <1>1, <1>4, ThreadsApart DEF Fair, Claims, Goes
<1>14. Listens("control")
  BY <1>1, <1>4, ThreadsApart DEF Listens, Reads, Saves, Goes
<1>15. QED
  BY <1>2, <1>6, <1>8, <1>9, <1>10, <1>11, <1>12, <1>13, <1>14, StepKeeps

LEMMA RemoveDirKeeps ==
  ASSUME LibI, RemoveDir
  PROVE  LibI'
<1>0. PICK n : n = job["control"].of
  OBVIOUS
<1>1. /\ phase # "down" /\ job["control"].do = "discard" /\ job["control"].at = "rmdir"
      /\ note' = (IF note[n].json = None /\ note[n].segs = 0 THEN [note EXCEPT ![n] = NoDir] ELSE note)
      /\ At("control", "forget")
      /\ history' = history /\ said' = said /\ raced' = raced /\ hidden' = hidden /\ phase' = phase
      /\ KeepsLeft /\ tossed' = tossed /\ StartRest
  BY <1>0 DEF RemoveDir, Doing, Now, engine, queues, ghost, KeepsLeft, StartRest
<1>2. Typed /\ QueueOK /\ NotesFine /\ "control" \in Threads /\ ControlOK /\ "forget" \in Points
  BY ThreadsApart DEF LibI, ThreadsOK, OwnOK, Points
<1>3. n \in Notes /\ n \in tossed /\ Removed(n)
  BY <1>0, <1>1, <1>2 DEF ControlOK, Failing, Typed, Removed
<1>4. Goes("control", "forget", job["control"].base)
  BY <1>1, <1>2, AtGoes DEF Typed
<1>5. Moves("control") /\ Others("control")
  BY <1>1, <1>2, <1>4 DEF Moves, Move, Others, Goes, Typed, StartRest
<1>6. Alone("control")
  BY <1>1, <1>5 DEF Alone, KeepsLeft
<1>7. /\ note' \in [Notes -> NoteType] /\ \A m \in Notes \ {n} : note'[m] = note[m]
      /\ note'[n].json = note[n].json /\ note'[n].segs = note[n].segs
      /\ note[n].json # None => note'[n] = note[n]
  <2>1. NoDir \in NoteType /\ NoDir.json = None /\ NoDir.segs = 0
    BY LibraryAssumption DEF NoteType, NoDir
  <2>2. QED
    BY <1>1, <1>2, <1>3, <2>1 DEF Typed
<1>8. Typed'
  BY <1>1, <1>2, <1>4, <1>7 DEF Typed, KeepsLeft, StartRest, Goes
<1>9. OwnOK("control")'
  BY <1>0, <1>1, <1>3, <1>4, ThreadsApart DEF OwnOK, ControlOK, Goes
<1>10. QueueOK'
  <2>1. \A y : Holding(y)' <=> Holding(y)
    BY <1>4, ThreadsApart DEF Holding, Goes
  <2>2. QED
    BY <1>1, <1>2, <2>1 DEF QueueOK, StartRest
<1>11. ASSUME NEW m \in Notes, m # n PROVE Spares("control", m)
  <2>1. note'[m] = note[m] /\ ~Rewrites("control", m)' /\ sess' = sess
    BY <1>1, <1>4, <1>7, <1>11 DEF Rewrites, Goes, StartRest
  <2>2. ~Removed(m)' /\ ~Creating(m)' /\ ~Creating(m) /\ ~Marking("control", m)'
    BY <1>0, <1>1, <1>4, <1>11 DEF Removed, Creating, Marking, Goes
  <2>3. QED
    BY <1>1, <2>1, <2>2, ThreadsApart DEF Spares, KeepsLeft
<1>12. FineNote(n)'
  <2>1. FineNote(n) /\ sess[n] # "new" /\ sess' = sess
    BY <1>1, <1>2, <1>3 DEF NotesFine, FineNote, FilesAt, StartRest
  <2>2. job'["worker"] = job["worker"] /\ job'["start"] = job["start"] /\ ~Creating(n)'
    BY <1>1, <1>4, ThreadsApart DEF Goes, Creating
  <2>3. SegsAt(n)' /\ ReadyAt(n)'
    BY <1>1, <1>3, <1>7, <2>1, <2>2 DEF FineNote, SegsAt, ReadyAt
  <2>4. FilesAt(n)'
    <3>1. note'[n].json # None => note'[n].there
      BY <1>7, <2>1 DEF FineNote, FilesAt
    <3>2. n \notin raced => note'[n].json = None
      BY <1>3, <1>7, <2>1 DEF FineNote, FilesAt
    <3>3. QED
      BY <1>1, <1>3, <2>1, <2>2, <3>1, <3>2 DEF FilesAt
  <2>5. \A s \in Threads : Rewrites(s, n)' => Rewrites(s, n)
    BY <1>4 DEF Rewrites, Goes
  <2>6. KnownAt(n)'
    BY <1>1, <1>7, <2>1, <2>5 DEF FineNote, KnownAt, NoteItem
  <2>7. \A s \in Threads : Marking(s, n)' => Marking(s, n)
    BY <1>4 DEF Marking, Goes
  <2>8. RecoveringAt(n)' /\ UnfinishedAt(n)' /\ LateAt(n)'
    <3>1. Looked(n)' <=> Looked(n)
      BY <1>1, <2>2 DEF Looked, KeepsLeft
    <3>2. RecoveringAt(n)'
      BY <1>1, <1>7, <2>1, <3>1 DEF FineNote, RecoveringAt, KeepsLeft
    <3>3. UnfinishedAt(n)'
      BY <1>1, <1>7, <2>1, <2>7 DEF FineNote, UnfinishedAt, Unsettled, Captured
    <3>4. LateAt(n)'
      BY <1>1, <1>7, <2>1, <2>2 DEF FineNote, LateAt
    <3>5. QED
      BY <3>2, <3>3, <3>4
  <2>9. QED
    BY <2>3, <2>4, <2>6, <2>8 DEF FineNote
<1>13. Fair("control")
  BY <1>1, <1>4, ThreadsApart DEF Fair, Claims, Goes
<1>14. Listens("control")
  BY <1>1, <1>4, ThreadsApart DEF Listens, Reads, Saves, Goes
<1>15. QED
  BY <1>2, <1>6, <1>8, <1>9, <1>10, <1>11, <1>12, <1>13, <1>14, StepKeeps

LEMMA AppendSegmentKeeps ==
  ASSUME LibI, AppendSegment
  PROVE  LibI'
<1>0. PICK n : n = job["worker"].of
  OBVIOUS
<1>1. /\ phase # "down" /\ job["worker"].do \in {"piece", "decode"} /\ job["worker"].at = "segment"
      /\ note' = [note EXCEPT ![n].there = TRUE, ![n].segs = @ + 1]
      /\ IF job["worker"].do = "piece" THEN Set("worker", Idle)
         ELSE IF note'[n].segs < Segments THEN job' = job ELSE At("worker", "check")
      /\ history' = history /\ said' = said /\ raced' = raced /\ hidden' = hidden /\ phase' = phase
      /\ KeepsLeft /\ tossed' = tossed /\ StartRest
  BY <1>0 DEF AppendSegment, Doing, Now, engine, queues, ghost, KeepsLeft, StartRest
<1>2. Typed /\ ThreadsOK /\ QueueOK /\ NotesFine /\ "worker" \in Threads /\ WorkerOK /\ "check" \in Points
  BY ThreadsApart DEF LibI, ThreadsOK, OwnOK, Points
<1>3. n \in Notes /\ phase = "up" /\ sess[n] \in Begun
      /\ (job["worker"].do = "decode" => sess[n] \in {"stopping", "queued", "gone"})
  BY <1>0, <1>1, <1>2 DEF WorkerOK, Begun, Captured
<1>4. FineNote(n) /\ note[n].segs \in 0 .. Segments /\ note[n].segs < Segments
  BY <1>0, <1>1, <1>2, <1>3 DEF NotesFine, FineNote, SegsAt, Typed, NoteType
<1>5. /\ note' \in [Notes -> NoteType] /\ \A m \in Notes \ {n} : note'[m] = note[m]
      /\ note'[n].there /\ note'[n].json = note[n].json /\ note'[n].segs = note[n].segs + 1
  <2>1. PICK d \in NoteType : d = note[n]
    BY <1>2, <1>3 DEF Typed
  <2>2. d.segs + 1 \in 0 .. Segments
    BY <1>4, <2>1, LibraryAssumption
  <2>3. [d EXCEPT !.there = TRUE, !.segs = d.segs + 1] \in NoteType
        /\ [d EXCEPT !.there = TRUE, !.segs = d.segs + 1].there
        /\ [d EXCEPT !.there = TRUE, !.segs = d.segs + 1].json = d.json
        /\ [d EXCEPT !.there = TRUE, !.segs = d.segs + 1].segs = d.segs + 1
    BY <2>2 DEF NoteType
  <2>4. note' = [note EXCEPT ![n] = [d EXCEPT !.there = TRUE, !.segs = d.segs + 1]]
    BY <1>1, <2>1
  <2>5. QED
    BY <1>2, <1>3, <2>1, <2>3, <2>4 DEF Typed
<1>6. \/ Ends("worker")
      \/ job' = job /\ job["worker"].do = "decode" /\ note'[n].segs < Segments
      \/ job["worker"].do = "decode" /\ ~(note'[n].segs < Segments) /\ Goes("worker", "check", job["worker"].base)
  BY <1>1, <1>2, SetEnds, AtGoes DEF Typed
<1>7. job' \in [Threads -> JobType] /\ Others("worker")
  BY <1>2, <1>6 DEF Typed, Others, Ends, Goes
<1>8. Moves("worker")
  BY <1>1, <1>2 DEF Moves, Move, Typed, StartRest
<1>9. Alone("worker")
  BY <1>1, <1>7, <1>8 DEF Alone, KeepsLeft
<1>10. Typed'
  BY <1>1, <1>2, <1>5, <1>7 DEF Typed, KeepsLeft, StartRest
<1>11. sess' = sess
  BY <1>1 DEF StartRest
<1>12. OwnOK("worker")'
  <2>1. WorkerOK'
    BY <1>0, <1>1, <1>3, <1>6, <1>11 DEF WorkerOK, Ends, Goes, Texts
  <2>2. QED
    BY <2>1, ThreadsApart DEF OwnOK
<1>13. \A y : Holding(y)' => Holding(y)
  BY <1>6 DEF Holding, Ends, Goes
<1>14. QueueOK'
  BY <1>1, <1>2, <1>13 DEF QueueOK, StartRest
<1>15. \A m \in Notes : ~Marking("worker", m)' /\ ~Rewrites("worker", m)' /\ ~Claims("worker", m)'
  BY <1>1, <1>6 DEF Marking, Rewrites, Claims, Ends, Goes
<1>16. job'["control"] = job["control"] /\ job'["start"] = job["start"]
  BY <1>7, ThreadsApart DEF Others
<1>17. \A m \in Notes : (Removed(m)' <=> Removed(m)) /\ (Creating(m)' <=> Creating(m))
  BY <1>16 DEF Removed, Creating
<1>18. ASSUME NEW m \in Notes, m # n PROVE Spares("worker", m)
  <2>1. SegsAt(m)'
    BY <1>0, <1>6, <1>18 DEF SegsAt, Ends, Goes
  <2>2. QED
    BY <1>1, <1>5, <1>11, <1>15, <1>17, <1>18, <2>1 DEF Spares, KeepsLeft
<1>19. FineNote(n)'
  <2>1. SegsAt(n)'
    <3>1. ~(note'[n].segs < Segments) => note'[n].segs = Segments
      BY <1>4, <1>5, LibraryAssumption
    <3>2. QED
      BY <1>1, <1>6, <3>1 DEF SegsAt, Ends, Goes
  <2>2. note[n].segs # Segments
    BY <1>4, LibraryAssumption
  <2>3. ASSUME NEW s \in Threads, Rewrites(s, n)' PROVE Rewrites(s, n) /\ job'[s] = job[s]
    <3>1. s # "worker"
      BY <1>3, <1>15, <2>3
    <3>2. job'[s] = job[s]
      BY <1>7, <3>1 DEF Others
    <3>3. QED
      BY <2>3, <3>2 DEF Rewrites
  <2>4. ReadyAt(n)'
    BY <1>1, <1>4, <1>5, <2>2, <2>3 DEF FineNote, ReadyAt
  <2>5. FilesAt(n)'
    BY <1>1, <1>3, <1>4, <1>5, <1>11, <1>17 DEF FineNote, FilesAt, Begun, Captured
  <2>6. KnownAt(n)'
    BY <1>1, <1>4, <1>5, <1>11, <2>3 DEF FineNote, KnownAt, NoteItem
  <2>7. RecoveringAt(n)' /\ LateAt(n)'
    BY <1>1, <1>4, <1>5, <1>11, <1>16 DEF FineNote, RecoveringAt, Looked, LateAt, KeepsLeft
  <2>8. UnfinishedAt(n)'
    <3>1. ASSUME NEW s \in Threads, Marking(s, n)' PROVE Marking(s, n)
      <4>1. s # "worker"
        BY <1>3, <1>15, <3>1
      <4>2. job'[s] = job[s]
        BY <1>7, <4>1 DEF Others
      <4>3. QED
        BY <3>1, <4>2 DEF Marking
    <3>2. QED
      BY <1>1, <1>4, <1>5, <1>11, <3>1 DEF FineNote, UnfinishedAt, Unsettled, Captured
  <2>9. QED
    BY <2>1, <2>4, <2>5, <2>6, <2>7, <2>8 DEF FineNote
<1>20. Fair("worker")
  BY <1>13, <1>15 DEF Fair
<1>21. Listens("worker")
  BY <1>1, <1>6, ThreadsApart DEF Listens, Reads, Saves, Ends, Goes
<1>22. QED
  BY <1>2, <1>9, <1>10, <1>12, <1>14, <1>18, <1>19, <1>20, <1>21, StepKeeps
-----------------------------------------------------------------------------
(* A note that is changed: what its writer had read still holds, or the note  *)
(* counts as raced.                                                           *)

LEMMA WroteFine ==
  ASSUME LibI, NEW t \in Threads, Alone(t), NEW n \in Notes,
         NEW w \in Settled \cup {"archive", "unarchive"}, Rewrites(t, n), job[t].base \in JsonType,
         WriteNote(t, n, w), tossed' = tossed, KeepsLeft, SegsAt(n)',
         ~Rewrites(t, n)', ~Marking(t, n)', Removed(n)' => Removed(n), sess'[n] # "new",
         w \in {"ready", "failed"} => Claims(t, n),
         w = "ready" => n \in tossed \/ note[n].segs = Segments,
         t = "start" => job'["start"].do = "idle", (w = "interrupted") <=> (t = "start"),
         NoteItem(n) \in hidden' => NoteItem(n) \in hidden \/ w = "archive",
         w = "unarchive" => NoteItem(n) \notin hidden'
  PROVE  FineNote(n)'
<1> DEFINE b == job[t].base
<1> USE DEF Alone
<1>1. /\ FineNote(n) /\ Typed /\ ThreadsOK /\ ClaimsOK /\ n \in Texts /\ StartOK
      /\ \A s \in Threads \ {t} : job'[s] = job[s]
  BY ThreadsApart DEF LibI, NotesFine, Texts, Others, ThreadsOK, OwnOK
<1>2. PICK c \in JsonType : c = b
  OBVIOUS
<1>2a. /\ Holds(n, Changed(job[t].base, w)) /\ note'[n].there /\ note'[n].json \in JsonType
       /\ note'[n].json.status = (IF w \in {"archive", "unarchive"} THEN job[t].base.status ELSE w)
       /\ note'[n].json.archived = (IF w = "archive" THEN TRUE ELSE
                                    IF w = "unarchive" THEN FALSE ELSE job[t].base.archived)
       /\ n \notin raced' => note[n].json = job[t].base
  <2>1. Typed
    BY <1>1
  <2>2. QED
    BY <2>1, WriteFacts
<1>3. /\ note'[n].segs = note[n].segs /\ note'[n].there /\ note'[n].json \in JsonType
      /\ note'[n].json.status = (IF w \in {"archive", "unarchive"} THEN c.status ELSE w)
      /\ note'[n].json.archived = (IF w = "archive" THEN TRUE ELSE IF w = "unarchive" THEN FALSE ELSE c.archived)
      /\ n \notin raced' => note[n].json = c
  BY <1>2, <1>2a DEF Holds
<1>4. note'[n].json # None /\ c # None
  BY <1>3, LibraryAssumption
<1>5. sess[n] # "new" /\ /\ sess'[n] = "old" => sess[n] = "old"
                         /\ sess'[n] = "gone" => sess[n] = "gone" \/ Removed(n)
  BY <1>1, MoveFacts DEF FineNote, KnownAt
<1>6. \A s \in Threads : Rewrites(s, n)' => Rewrites(s, n) /\ s # t /\ job'[s].base = job[s].base
  <2>1. ASSUME NEW s \in Threads, Rewrites(s, n)'
        PROVE  Rewrites(s, n) /\ s # t /\ job'[s].base = job[s].base
    <3>1. s # t
      BY <2>1
    <3>2. job'[s] = job[s]
      BY <1>1, <3>1
    <3>3. QED
      BY <2>1, <3>1, <3>2 DEF Rewrites
  <2>2. QED
    BY <2>1
<1>7. ReadyAt(n)'
  <2>1. ASSUME n \notin tossed, note'[n].json.status = "ready" PROVE note[n].segs = Segments
    <3>1. CASE w = "ready"
      BY <2>1, <3>1
    <3>2. CASE w # "ready"
      <4>1. c.status = "ready"
        BY <1>3, <2>1, <3>2
      <4>2. QED
        BY <1>1, <1>2, <2>1, <4>1 DEF FineNote, ReadyAt
    <3>3. QED
      BY <3>1, <3>2
  <2>2. \A s \in Threads : n \notin tossed /\ Rewrites(s, n)' /\ job'[s].base.status = "ready"
                           => note[n].segs = Segments
    BY <1>1, <1>6 DEF FineNote, ReadyAt
  <2>3. QED
    BY <1>3, <2>1, <2>2 DEF ReadyAt
<1>8. FilesAt(n)'
  <2>1. n \notin raced' => ~(sess'[n] = "gone" \/ Removed(n)')
    <3>1. ASSUME n \notin raced', sess'[n] = "gone" \/ Removed(n)' PROVE FALSE
      <4>1. note[n].json # None /\ n \notin raced
        BY <1>3, <1>4, <3>1
      <4>2. sess[n] = "gone" \/ Removed(n)
        BY <1>5, <3>1
      <4>3. QED
        BY <1>1, <4>1, <4>2 DEF FineNote, FilesAt
    <3>2. QED
      BY <3>1
  <2>2. sess'[n] = "gone" => n \in tossed
    <3>1. Removed(n) => n \in tossed
      <4>1. ControlOK
        BY <1>1, ThreadsApart DEF ThreadsOK, OwnOK
      <4>2. QED
        BY <4>1 DEF ControlOK, Removed, Failing
    <3>2. QED
      BY <1>1, <1>5, <3>1 DEF FineNote, FilesAt
  <2>3. QED
    BY <1>3, <1>4, <2>1, <2>2 DEF FilesAt
<1>9. KnownAt(n)'
  <2>1. NoteItem(n) \in hidden' => n \in raced' \/ note'[n].json.archived
    <3>1. CASE w = "archive"
      BY <1>3, <3>1
    <3>2. CASE w # "archive" /\ NoteItem(n) \in hidden'
      <4>1. w # "unarchive" /\ NoteItem(n) \in hidden
        BY <3>2
      <4>2. n \in raced \/ note[n].json = None \/ note[n].json.archived
        BY <1>1, <4>1 DEF FineNote, KnownAt
      <4>3. note'[n].json.archived = c.archived
        BY <1>3, <3>2, <4>1
      <4>4. n \notin raced' => n \notin raced /\ note[n].json = c
        BY <1>3
      <4>5. QED
        BY <1>4, <4>2, <4>3, <4>4
    <3>3. QED
      BY <3>1, <3>2
  <2>2. QED
    BY <1>5, <1>6, <2>1 DEF KnownAt, NoteItem
<1>10. w \in {"ready", "failed"} => sess[n] = "claimed" /\ sess'[n] \notin Captured /\ t # "start"
  BY <1>1, MoveNotes DEF Claims, Captured
<1>11. RecoveringAt(n)'
  <2>1. ASSUME phase # "down", ~skipped, sess'[n] = "old", n \notin raced'
        PROVE  note'[n].json.status \in Settled \/ Looked(n)'
    <3>1. CASE w \in Settled
      BY <1>3, <3>1 DEF Settled
    <3>2. CASE w \in {"archive", "unarchive"}
      <4>1. note[n].json = c /\ note'[n].json.status = c.status /\ sess[n] = "old" /\ n \notin raced /\ t # "start"
        BY <1>3, <1>5, <2>1, <3>2
      <4>2. c.status \in Settled \/ Looked(n)
        BY <1>1, <1>4, <2>1, <4>1 DEF FineNote, RecoveringAt
      <4>3. job'["start"] = job["start"]
        BY <1>1, <4>1, ThreadsApart
      <4>4. QED
        BY <4>1, <4>2, <4>3 DEF Looked, KeepsLeft
    <3>3. QED
      BY <3>1, <3>2
  <2>2. QED
    BY <2>1 DEF RecoveringAt, KeepsLeft
<1>12. UnfinishedAt(n)'
  <2>1. CASE w \in {"ready", "failed"}
    <3>1. ASSUME NEW s \in Threads, Marking(s, n)' PROVE FALSE
      <4>1. s # t /\ Marking(s, n)
        <5>1. s # t
          BY <3>1
        <5>2. job'[s] = job[s]
          BY <1>1, <5>1
        <5>3. QED
          BY <3>1, <5>1, <5>2 DEF Marking
      <4>2. Claims(s, n)
        BY <1>10, <2>1, <4>1 DEF Marking, Claims
      <4>3. QED
        BY <1>1, <2>1, <4>1, <4>2 DEF ClaimsOK
    <3>2. QED
      BY <1>10, <2>1, <3>1 DEF UnfinishedAt, Captured
  <2>2. CASE w = "interrupted"
    <3>1. note'[n].json.status = "interrupted"
      BY <1>3, <2>2
    <3>2. QED
      BY <3>1 DEF UnfinishedAt, Unsettled
  <2>3. CASE w \in {"archive", "unarchive"}
    <3>1. (sess'[n] \in Captured \/ (\E s \in Threads : Marking(s, n)')) => Unsettled(n)
      <4>1. ASSUME NEW s \in Threads, Marking(s, n)' PROVE Marking(s, n)
        <5>1. s # t
          BY <4>1
        <5>2. job'[s] = job[s]
          BY <1>1, <5>1
        <5>3. QED
          BY <4>1, <5>1, <5>2 DEF Marking
      <4>2. sess'[n] \in Captured => sess[n] \in Captured
        BY <1>5, MoveNotes
      <4>3. QED
        BY <1>1, <4>1, <4>2 DEF FineNote, UnfinishedAt
    <3>2. note'[n].json.status = c.status
      BY <1>3, <2>3
    <3>3. Unsettled(n) => Unsettled(n)'
      BY <1>3, <1>4, <3>2 DEF Unsettled
    <3>4. QED
      BY <3>1, <3>3 DEF UnfinishedAt, Captured
  <2>4. QED
    BY <2>1, <2>2, <2>3 DEF Settled
<1>13. LateAt(n)'
  <2>1. CASE t = "start"
    BY <2>1 DEF LateAt
  <2>2. CASE t # "start"
    <3>1. job'["start"] = job["start"]
      BY <1>1, <2>2, ThreadsApart
    <3>2. CASE w \in {"ready", "failed"}
      <4>1. ~(job["start"].do # "idle" /\ job["start"].of = n)
        BY <1>1, <1>10, <3>2 DEF StartOK, Past
      <4>2. QED
        BY <3>1, <4>1 DEF LateAt
    <3>3. CASE w = "interrupted"
      BY <2>2, <3>3
    <3>4. CASE w \in {"archive", "unarchive"}
      <4>1. LateAt(n) /\ note'[n].json.status = c.status
        BY <1>1, <1>3, <3>4 DEF FineNote
      <4>2. n \notin raced' => n \notin raced /\ note[n].json = c
        BY <1>3
      <4>3. QED
        BY <1>4, <3>1, <4>1, <4>2 DEF LateAt
    <3>5. QED
      BY <3>2, <3>3, <3>4 DEF Settled
  <2>3. QED
    BY <2>1, <2>2
<1>14. QED
  BY <1>7, <1>8, <1>9, <1>11, <1>12, <1>13 DEF FineNote

LEMMA MarkWriteKeeps ==
  ASSUME LibI, NEW t \in Threads, MarkWrite(t)
  PROVE  LibI'
<1>0. PICK n, w : n = job[t].of /\ w = job[t].do
  OBVIOUS
<1>1. /\ t \in Engine /\ phase # "down" /\ w \in Settled /\ job[t].at = "write"
      /\ WriteNote(t, n, w) /\ Set(t, AfterMark(t))
      /\ IF job'[t] = Idle /\ t # "start" THEN Done(n) ELSE sess' = sess
      /\ said' = said /\ hidden' = hidden /\ phase' = phase /\ pieces' = pieces /\ queue' = queue
      /\ KeepsLeft /\ tossed' = tossed
  BY <1>0 DEF MarkWrite, Doing, Now, queues, KeepsLeft
<1>2. /\ OwnOK(t) /\ Typed /\ NotesFine /\ QueueOK /\ t \notin Ui
  BY <1>1, ThreadsApart DEF LibI, ThreadsOK
<1>3. /\ n \in Notes /\ job[t].base \in JsonType
      /\ (w = "interrupted") <=> (t = "start")
      /\ w \in {"ready", "failed"} => sess[n] = "claimed"
      /\ w = "interrupted" => sess[n] \in Past
      /\ w = "ready" => t = "worker"
  BY <1>0, <1>1, <1>2, ThreadsApart
     DEF OwnOK, ControlOK, RecorderOK, WorkerOK, StartOK, Failing, Marks, Settled, Engine, Texts
<1>4. n \in Texts /\ Rewrites(t, n) /\ t \in Engine
  BY <1>0, <1>1, <1>2, <1>3 DEF Texts, Rewrites, Target, Settled
<1>5. \/ w # "ready" /\ Ends(t)
      \/ w = "ready" /\ Begins(t, "append", n, "load")
  <2>1. CASE w = "ready"
    <3>1. Set(t, Job("append", n, "load"))
      BY <1>0, <1>1, <2>1 DEF AfterMark, Now
    <3>2. QED
      BY <1>2, <1>4, <2>1, <3>1, SetBegins DEF Typed, Deeds, Points
  <2>2. CASE w # "ready"
    <3>1. Set(t, Idle)
      BY <1>0, <1>1, <2>2 DEF AfterMark
    <3>2. QED
      BY <1>2, <2>2, <3>1, SetEnds DEF Typed
  <2>3. QED
    BY <2>1, <2>2
<1>6. \/ w = "failed" /\ Done(n)
      \/ w # "failed" /\ sess' = sess
  <2>1. w = "ready" => job'[t] # Idle
    BY <1>5, IdleTyped DEF Begins
  <2>2. w # "ready" => job'[t] = Idle
    BY <1>5 DEF Ends
  <2>3. QED
    BY <1>1, <1>3, <2>1, <2>2 DEF Settled
<1>7. /\ sess' \in [Texts -> Sessions] /\ \A y \in Texts \ {n} : sess'[y] = sess[y]
      /\ w = "failed" => sess'[n] = "done"
      /\ w # "failed" => sess'[n] = sess[n]
  <2>1. CASE w = "failed" /\ Done(n)
    BY <1>2, <1>3, <1>4, <2>1, DoneFacts
  <2>2. CASE w # "failed" /\ sess' = sess
    BY <1>2, <2>2 DEF Typed
  <2>3. QED
    BY <1>6, <2>1, <2>2
<1>8. w \in {"ready", "failed"} => Claims(t, n)
  BY <1>0, <1>3, <1>4 DEF Claims
<1>9. Moves(t)
  <2>1. ASSUME NEW x \in Texts PROVE Move(t, x)
    <3>1. CASE x # n \/ w # "failed"
      BY <1>7, <3>1 DEF Move
    <3>2. CASE x = n /\ w = "failed"
      BY <1>3, <1>7, <1>8, <3>2 DEF Move
    <3>3. QED
      BY <3>1, <3>2
  <2>2. QED
    BY <1>7, <2>1 DEF Moves
<1>10. /\ Others(t) /\ job' \in [Threads -> JobType] /\ raced \subseteq raced' /\ raced' \subseteq raced \cup {n}
       /\ Holds(n, Changed(job[t].base, w)) /\ history' = history
  <2>1. raced \subseteq raced' /\ raced' \subseteq raced \cup {n} /\ history' = history
        /\ Holds(n, Changed(job[t].base, w))
    <3>1. w \in Settled \cup {"archive", "unarchive"}
      BY <1>1
    <3>2. QED
      BY <1>1, <1>2, <1>3, <3>1, WriteFacts
  <2>2. QED
    BY <1>5, <2>1 DEF Others, Ends, Begins
<1>11. Alone(t)
  BY <1>1, <1>9, <1>10 DEF Alone, KeepsLeft
<1>12. Typed'
  BY <1>1, <1>2, <1>3, <1>7, <1>10 DEF Typed, KeepsLeft, Holds
<1>13. OwnOK(t)'
  <2>1. CASE Ends(t)
    BY <2>1, ThreadsApart, <1>2 DEF OwnOK, ControlOK, RecorderOK, WorkerOK, StartOK, Ends
  <2>2. CASE w = "ready" /\ Begins(t, "append", n, "load")
    <3>1. t = "worker" /\ sess'[n] = "claimed" /\ phase' = "up"
      BY <1>0, <1>1, <1>2, <1>3, <1>7, <2>2 DEF OwnOK, WorkerOK
    <3>2. WorkerOK'
      BY <1>3, <1>4, <2>2, <3>1 DEF WorkerOK, Appends, Begins
    <3>3. QED
      BY <3>1, <3>2, ThreadsApart DEF OwnOK
  <2>3. QED
    BY <1>5, <2>1, <2>2
<1>14. \A y : Holding(y)' => Holding(y)
  <2>1. CASE t = "worker"
    BY <1>0, <1>5, <2>1 DEF Holding, Ends, Begins
  <2>2. CASE t # "worker"
    <3>1. job'["worker"] = job["worker"]
      BY <1>10, <2>2, ThreadsApart DEF Others
    <3>2. QED
      BY <3>1 DEF Holding
  <2>3. QED
    BY <2>1, <2>2
<1>15. QueueOK'
  BY <1>1, <1>2, <1>3, <1>7, <1>14 DEF QueueOK, Typed
<1>16. /\ \A m \in Notes : ~Marking(t, m)' /\ ~Rewrites(t, m)' /\ (Claims(t, m)' => Claims(t, m))
       /\ ~Saves(t)'
  <2>1. CASE Ends(t)
    BY <2>1 DEF Marking, Rewrites, Claims, Saves, Ends
  <2>2. CASE w = "ready" /\ Begins(t, "append", n, "load")
    BY <1>0, <1>3, <1>7, <1>8, <2>2 DEF Marking, Rewrites, Claims, Saves, Begins
  <2>3. QED
    BY <1>5, <2>1, <2>2
<1>17. ASSUME NEW m \in Notes
       PROVE  /\ Removed(m)' => Removed(m)
              /\ Creating(m)' <=> Creating(m)
              /\ t = "worker" => SegsAt(m)'
  <2>1. (Removed(m)' => Removed(m)) /\ (Creating(m)' <=> Creating(m))
    <3>1. CASE t = "control"
      <4>1. w = "failed" /\ Ends(t)
        BY <1>1, <1>3, <1>5, <3>1, ThreadsApart DEF Settled
      <4>2. QED
        BY <1>0, <3>1, <4>1 DEF Removed, Creating, Ends
    <3>2. CASE t # "control"
      <4>1. job'["control"] = job["control"]
        BY <1>10, <3>2, ThreadsApart DEF Others
      <4>2. QED
        BY <4>1 DEF Removed, Creating
    <3>3. QED
      BY <3>1, <3>2
  <2>2. ASSUME t = "worker" PROVE SegsAt(m)'
    BY <1>5, <2>2 DEF SegsAt, Ends, Begins
  <2>3. QED
    BY <2>1, <2>2
<1>18. ASSUME NEW m \in Notes, m # n PROVE Spares(t, m)
  <2>1. note'[m] = note[m] /\ sess'[m] = sess[m]
    BY <1>7, <1>10, <1>18 DEF Holds, Texts
  <2>2. t # "start" \/ (LateAt(m)' /\ RecoveringAt(m)')
    <3>1. CASE t = "start"
      <4>1. FineNote(m) /\ job["start"].of # m /\ Ends("start") /\ m \notin {n}
        BY <1>0, <1>2, <1>3, <1>5, <1>18, <3>1 DEF NotesFine
      <4>2. m \in raced' <=> m \in raced
        BY <1>10, <4>1
      <4>3. LateAt(m)'
        BY <4>1 DEF LateAt, Ends
      <4>4. RecoveringAt(m)'
        BY <1>1, <2>1, <4>1, <4>2 DEF FineNote, RecoveringAt, Looked, KeepsLeft
      <4>5. QED
        BY <4>3, <4>4
    <3>2. QED
      BY <3>1
  <2>3. QED
    BY <1>1, <1>16, <1>17, <2>1, <2>2 DEF Spares, KeepsLeft
<1>19. FineNote(n)'
  <2>1. SegsAt(n)'
    <3>1. CASE t = "worker"
      BY <1>3, <1>17, <3>1
    <3>2. CASE t # "worker"
      <4>1. job'["worker"] = job["worker"] /\ note'[n].segs = note[n].segs /\ SegsAt(n)
        BY <1>2, <1>3, <1>10, <3>2, ThreadsApart DEF Others, Holds, NotesFine, FineNote
      <4>2. QED
        BY <1>1, <4>1 DEF SegsAt
    <3>3. QED
      BY <3>1, <3>2
  <2>2. w = "ready" => n \in tossed \/ note[n].segs = Segments
    BY <1>0, <1>2, <1>3 DEF NotesFine, FineNote, SegsAt
  <2>3. t = "start" => job'["start"].do = "idle"
    BY <1>3, <1>5 DEF Ends
  <2>4. sess'[n] # "new"
    BY <1>1, <1>3, <1>7 DEF Past, Settled
  <2>5. NoteItem(n) \in hidden' => NoteItem(n) \in hidden
    BY <1>1
  <2>6. w \in Settled \cup {"archive", "unarchive"} /\ w # "unarchive"
    BY <1>1 DEF Settled
  <2>7. ~Rewrites(t, n)' /\ ~Marking(t, n)' /\ (Removed(n)' => Removed(n))
    BY <1>3, <1>16, <1>17
  <2>8. QED
    BY <1>1, <1>3, <1>4, <1>8, <1>11, <2>1, <2>2, <2>3, <2>4, <2>5, <2>6, <2>7, WroteFine
<1>20. Fair(t)
  BY <1>14, <1>16 DEF Fair
<1>21. Listens(t)
  BY <1>1, <1>2, <1>10, <1>16 DEF Listens, Reads
<1>22. QED
  BY <1>11, <1>12, <1>13, <1>15, <1>18, <1>19, <1>20, <1>21, StepKeeps

LEMMA AskWriteNoteKeeps ==
  ASSUME LibI, NEW u \in Ui, AskWrite(u), job[u].of.kind = "note"
  PROVE  LibI'
<1>0. PICK n, w : n = job[u].of.of /\ w = job[u].do
  OBVIOUS
<1>1. /\ phase # "down" /\ w \in {"archive", "unarchive"} /\ job[u].at \in {"write", "save"}
      /\ WriteNote(u, n, w) /\ Hide(u) /\ Set(u, Idle)
      /\ said' = said /\ phase' = phase /\ StartRest /\ KeepsLeft
  BY <1>0 DEF AskWrite, Doing, Now, engine, queues, StartRest, KeepsLeft
<1>2. /\ Typed /\ NotesFine /\ QueueOK /\ u \in Threads /\ n \in Notes /\ job[u].of = NoteItem(n)
      /\ job[u].at = "write" /\ job[u].base \in JsonType /\ job[u].of \in Items
      /\ u \notin Engine /\ u # "control" /\ u # "worker" /\ u # "start"
  BY <1>0, <1>1, UiBusy, ThreadsApart DEF LibI, Marks, Appends
<1>3. Ends(u)
  BY <1>1, <1>2, SetEnds DEF Typed
<1>4. /\ raced \subseteq raced' /\ raced' \subseteq raced \cup {n} /\ history' = history
      /\ Holds(n, Changed(job[u].base, w))
  <2>1. w \in Settled \cup {"archive", "unarchive"}
    BY <1>1
  <2>2. QED
    BY <1>1, <1>2, <2>1, WriteFacts
<1>5. hidden' = IF w = "archive" THEN hidden \cup {NoteItem(n)} ELSE hidden \ {NoteItem(n)}
  BY <1>0, <1>1, <1>2 DEF Hide, Now
<1>6. Moves(u) /\ Others(u) /\ job' \in [Threads -> JobType] /\ sess' = sess
  BY <1>1, <1>2, <1>3 DEF Moves, Move, Others, Ends, Typed, StartRest
<1>7. Alone(u)
  BY <1>1, <1>4, <1>6 DEF Alone, KeepsLeft, StartRest
<1>8. Typed'
  BY <1>1, <1>2, <1>4, <1>5, <1>6 DEF Typed, KeepsLeft, StartRest, Holds
<1>9. OwnOK(u)'
  BY <1>3, ThreadsApart DEF OwnOK, UiOK, Ends
<1>10. job'["control"] = job["control"] /\ job'["worker"] = job["worker"]
  BY <1>2, <1>6, ThreadsApart DEF Others
<1>11. QueueOK'
  <2>1. \A y : Holding(y)' <=> Holding(y)
    BY <1>10 DEF Holding
  <2>2. QED
    BY <1>1, <1>2, <2>1 DEF QueueOK, StartRest
<1>12. ASSUME NEW m \in Notes
       PROVE  /\ Removed(m)' <=> Removed(m)
              /\ Creating(m)' <=> Creating(m)
              /\ ~Marking(u, m)' /\ ~Rewrites(u, m)' /\ ~Claims(u, m)'
  BY <1>2, <1>3, <1>10 DEF Removed, Creating, Marking, Rewrites, Claims, Ends
<1>13. ASSUME NEW m \in Notes, m # n PROVE Spares(u, m)
  <2>1. note'[m] = note[m] /\ (NoteItem(m) \in hidden' => NoteItem(m) \in hidden)
    <3>1. NoteItem(m) # NoteItem(n)
      BY <1>13, ItemsApart
    <3>2. QED
      BY <1>4, <1>5, <1>13, <3>1 DEF Holds
  <2>2. QED
    BY <1>1, <1>2, <1>6, <1>12, <2>1 DEF Spares, KeepsLeft, StartRest
<1>14. FineNote(n)'
  <2>1. Rewrites(u, n)
    BY <1>0, <1>1, <1>2 DEF Rewrites, Target
  <2>2. SegsAt(n)'
    <3>1. note'[n].segs = note[n].segs /\ SegsAt(n) /\ tossed' = tossed
      BY <1>1, <1>2, <1>4 DEF Holds, NotesFine, FineNote, StartRest
    <3>2. QED
      BY <1>10, <3>1 DEF SegsAt
  <2>3. sess'[n] # "new"
    BY <1>2, <1>6, <2>1 DEF NotesFine, FineNote, KnownAt
  <2>4. w \in Settled \cup {"archive", "unarchive"} /\ w \notin {"ready", "failed", "interrupted"}
    BY <1>1
  <2>5. /\ NoteItem(n) \in hidden' => NoteItem(n) \in hidden \/ w = "archive"
        /\ w = "unarchive" => NoteItem(n) \notin hidden'
    BY <1>5
  <2>6. tossed' = tossed
    BY <1>1 DEF StartRest
  <2>7. QED
    BY <1>1, <1>2, <1>7, <1>12, <2>1, <2>2, <2>3, <2>4, <2>5, <2>6, WroteFine
<1>15. Fair(u)
  BY <1>2, <1>12 DEF Fair
<1>16. Listens(u)
  <2>1. \A x \in Texts : EntryItem(x) \in hidden' => EntryItem(x) \in hidden
    BY <1>5, ItemsApart
  <2>2. QED
    BY <1>1, <1>3, <1>4, <2>1 DEF Listens, Reads, Saves, Ends
<1>17. QED
  BY <1>2, <1>7, <1>8, <1>9, <1>11, <1>13, <1>14, <1>15, <1>16, StepKeeps
-----------------------------------------------------------------------------
(* The steps that write the history.                                          *)

LEMMA RollsOn ==
  ASSUME NEW x \in Texts, NEW b \in Seq(Entry), NEW s \in Seq(Texts), Len(b) <= MaxEntries,
         Len(b) = IF Len(s) < MaxEntries THEN Len(s) ELSE MaxEntries,
         \A i \in 1 .. Len(b) : b[i].of = s[i]
  PROVE  LET a == Appended(x, b) IN
         /\ Len(a) = IF Len(<<x>> \o s) < MaxEntries THEN Len(<<x>> \o s) ELSE MaxEntries
         /\ \A i \in 1 .. Len(a) : a[i].of = (<<x>> \o s)[i]
<1>1. PICK a \in Seq(Entry) : a = Appended(x, b)
  BY AppendedFacts DEF EntryList
<1>2. /\ Len(a) = IF Len(b) < MaxEntries THEN Len(b) + 1 ELSE MaxEntries
      /\ a[1] = EntryOf(x)
      /\ \A i \in 2 .. Len(a) : i - 1 \in 1 .. Len(b) /\ a[i] = b[i - 1]
  BY <1>1, AppendedFacts
<1>3. PICK z \in Seq(Texts) : z = <<x>> \o s
  <2>1. <<x>> \in Seq(Texts)
    OBVIOUS
  <2>2. <<x>> \o s \in Seq(Texts)
    BY <2>1, SMT
  <2>3. QED
    BY <2>2, Zenon
<1>4. Len(z) = Len(s) + 1 /\ z[1] = x /\ \A i \in 2 .. Len(z) : z[i] = s[i - 1]
  BY <1>3
<1>5. MaxEntries \in Nat \ {0}
  BY LibraryAssumption
<1>6. Len(a) = IF Len(z) < MaxEntries THEN Len(z) ELSE MaxEntries
  BY <1>2, <1>4, <1>5
<1>7. ASSUME NEW i \in 1 .. Len(a) PROVE a[i].of = z[i]
  <2>1. CASE i = 1
    BY <1>2, <1>4, <2>1 DEF EntryOf
  <2>2. CASE i # 1
    <3>1. i \in 2 .. Len(a) /\ i \in 2 .. Len(z)
      BY <1>5, <1>6, <2>2
    <3>2. i - 1 \in 1 .. Len(b) /\ a[i] = b[i - 1] /\ z[i] = s[i - 1]
      BY <1>2, <1>4, <3>1
    <3>3. QED
      BY <3>2
  <2>3. QED
    BY <2>1, <2>2
<1>8. QED
  BY <1>1, <1>3, <1>6, <1>7

LEMMA AppendSaveKeeps ==
  ASSUME LibI, AppendSave
  PROVE  LibI'
<1>0. PICK x, b : x = job["worker"].of /\ b = job["worker"].base
  OBVIOUS
<1>1. /\ phase # "down" /\ job["worker"].do = "append" /\ job["worker"].at = "save"
      /\ history' = Appended(x, b) /\ raced' = (IF history = b THEN raced ELSE raced \cup {"history"})
      /\ note' = note /\ said' = <<x>> \o said /\ Done(x) /\ Set("worker", Idle)
      /\ pieces' = pieces /\ queue' = queue /\ phase' = phase /\ hidden' = hidden /\ tossed' = tossed /\ KeepsLeft
  BY <1>0 DEF AppendSave, Save, Doing, Now, queues, KeepsLeft
<1>2. /\ Typed /\ ThreadsOK /\ QueueOK /\ NotesFine /\ ListOK /\ "worker" \in Threads /\ WorkerOK
      /\ "worker" \notin Ui /\ "worker" # "control" /\ "worker" # "start"
  BY ThreadsApart DEF LibI, ThreadsOK, OwnOK
<1>3. /\ x \in Texts /\ EntryList(b) /\ Holding(x)
      /\ x \in Notes => sess[x] = "gone" \/ (sess[x] = "claimed" /\ Claims("worker", x))
      /\ x \notin Notes => sess[x] = "queued"
  BY <1>0, <1>1, <1>2 DEF WorkerOK, Appends, Claims, Engine, Holding
<1>4. /\ sess' \in [Texts -> Sessions] /\ \A y \in Texts \ {x} : sess'[y] = sess[y]
      /\ sess'[x] = IF sess[x] = "gone" THEN "gone" ELSE "done"
  BY <1>1, <1>2, <1>3, DoneFacts
<1>5. Ends("worker")
  BY <1>1, <1>2, SetEnds DEF Typed
<1>6. Moves("worker") /\ Others("worker") /\ job' \in [Threads -> JobType]
  BY <1>3, <1>4, <1>5 DEF Moves, Move, Others, Ends
<1>7. Alone("worker")
  BY <1>1, <1>6 DEF Alone, KeepsLeft
<1>8. EntryList(Appended(x, b))
  BY <1>3, AppendedFacts DEF EntryList
<1>9. Typed'
  <2>1. said' \in Seq(Texts)
    <3>1. <<x>> \in Seq(Texts)
      BY <1>3
    <3>2. QED
      BY <1>1, <1>2, <3>1 DEF Typed
  <2>2. QED
    BY <1>1, <1>2, <1>4, <1>6, <1>8, <2>1 DEF Typed, EntryList, KeepsLeft
<1>10. OwnOK("worker")'
  BY <1>5, ThreadsApart DEF OwnOK, WorkerOK, Ends
<1>11. \A y : ~Holding(y)'
  BY <1>5 DEF Holding, Ends
<1>12. QueueOK'
  BY <1>1, <1>2, <1>3, <1>4, <1>11 DEF QueueOK, Typed
<1>13. job'["control"] = job["control"]
  BY <1>2, <1>6, ThreadsApart DEF Others
<1>14. ASSUME NEW m \in Notes PROVE Spares("worker", m)
  <2>1. sess[m] = "new" => sess'[m] = "new"
    BY <1>2, <1>6, MoveNotes
  <2>2. SegsAt(m)' /\ ~Marking("worker", m)' /\ ~Rewrites("worker", m)'
    BY <1>5 DEF SegsAt, Marking, Rewrites, Ends
  <2>3. (Removed(m)' <=> Removed(m)) /\ (Creating(m)' <=> Creating(m))
    BY <1>13 DEF Removed, Creating
  <2>4. QED
    BY <1>1, <1>2, <2>1, <2>2, <2>3 DEF Spares, KeepsLeft
<1>15. Fair("worker")
  BY <1>5, <1>11 DEF Fair, Claims, Ends
<1>16. Reads("worker")
  BY <1>1, <1>2, <1>5 DEF Reads, Saves, Ends
<1>17. ListOK'
  <2>1. /\ \A y \in Texts : Over(y) => OverNext(y)
        /\ \A s \in Threads : Saves(s)' => \A i \in DOMAIN job'[s].base : OverNext(job'[s].base[i].of)
        /\ \A y \in Texts : EntryItem(y) \in hidden' => OverNext(y)
        /\ \A u \in Ui : job'[u].do # "idle" /\ job'[u].of.kind = "entry" => OverNext(job'[u].of.of)
    BY <1>2, <1>7, <1>15, <1>16, ReadsRest
  <2>2. PICK h \in Seq(Entry) : h = Appended(x, b)
    BY <1>8 DEF EntryList
  <2>3. /\ h[1] = EntryOf(x) /\ b \in Seq(Entry) /\ Len(b) <= MaxEntries
        /\ \A i \in 2 .. Len(h) : i - 1 \in 1 .. Len(b) /\ h[i] = b[i - 1]
    BY <1>3, <2>2, AppendedFacts DEF EntryList
  <2>4. \A i \in 1 .. Len(b) : Over(b[i].of) /\ b[i].of \in Texts
    <3>1. \A i \in DOMAIN b : Over(b[i].of)
      BY <1>0, <1>1, <1>2 DEF ListOK, EntriesDone, Saves
    <3>2. QED
      BY <2>3, <3>1, EntryAt
  <2>5. OverNext(x)
    BY <1>4, <1>5 DEF OverNext, Ends
  <2>6. ASSUME NEW i \in DOMAIN h PROVE OverNext(h[i].of)
    <3>1. CASE i = 1
      BY <2>3, <2>5, <3>1 DEF EntryOf
    <3>2. CASE i # 1
      <4>1. i \in 2 .. Len(h)
        BY <3>2
      <4>2. QED
        BY <2>1, <2>3, <2>4, <4>1
    <3>3. QED
      BY <3>1, <3>2
  <2>7. EntriesDone'
    BY <1>1, <2>1, <2>2, <2>6 DEF EntriesDone, Over, OverNext, Holding, EntryItem
  <2>8. ASSUME "history" \notin raced' PROVE "history" \notin raced /\ b = history
    BY <1>1, <2>8
  <2>9. Rolls'
    <3>1. ASSUME "history" \notin raced'
          PROVE  /\ Len(history') = IF Len(said') < MaxEntries THEN Len(said') ELSE MaxEntries
                 /\ \A i \in 1 .. Len(history') : history'[i].of = said'[i]
      <4>1. /\ Len(b) = IF Len(said) < MaxEntries THEN Len(said) ELSE MaxEntries
            /\ \A i \in 1 .. Len(b) : b[i].of = said[i]
        BY <1>2, <2>8, <3>1 DEF ListOK, Rolls
      <4>2. said \in Seq(Texts)
        BY <1>2 DEF Typed
      <4>3. QED
        BY <1>1, <1>3, <2>3, <4>1, <4>2, RollsOn
    <3>2. QED
      BY <3>1 DEF Rolls
  <2>10. EntrySticks'
    <3>1. ASSUME NEW y \in Texts, EntryItem(y) \in hidden, "history" \notin raced', NEW i \in DOMAIN h, h[i].of = y
          PROVE  h[i].archived
      <4>1. y # x
        BY <1>2, <1>3, <3>1 DEF ListOK, EntriesDone, Over
      <4>2. i # 1
        BY <2>3, <3>1, <4>1 DEF EntryOf
      <4>3. i \in 2 .. Len(h)
        BY <4>2
      <4>4. i - 1 \in 1 .. Len(b) /\ h[i] = b[i - 1] /\ b = history
        BY <2>3, <2>8, <3>1, <4>3
      <4>5. QED
        BY <1>2, <2>8, <3>1, <4>4 DEF ListOK, EntrySticks
    <3>2. QED
      BY <1>1, <2>2, <3>1 DEF EntrySticks, EntryItem
  <2>11. QED
    BY <2>7, <2>9, <2>10 DEF ListOK
<1>18. QED
  BY <1>2, <1>7, <1>9, <1>10, <1>12, <1>14, <1>15, <1>17, StepKeeps

LEMMA AskWriteEntryKeeps ==
  ASSUME LibI, NEW u \in Ui, AskWrite(u), job[u].of.kind # "note"
  PROVE  LibI'
<1>0. PICK x, b : x = job[u].of.of /\ b = job[u].base
  OBVIOUS
<1>a. PICK flag \in BOOLEAN : flag = (job[u].do = "archive")
  OBVIOUS
<1>1. /\ phase # "down" /\ job[u].do \in {"archive", "unarchive"} /\ job[u].at \in {"write", "save"}
      /\ history' = Archived(b, x, flag) /\ raced' = (IF history = b THEN raced ELSE raced \cup {"history"})
      /\ note' = note /\ Hide(u) /\ Set(u, Idle)
      /\ said' = said /\ phase' = phase /\ StartRest /\ KeepsLeft
  BY <1>0, <1>a DEF AskWrite, Save, Doing, Now, engine, queues, StartRest, KeepsLeft
<1>2. /\ Typed /\ ThreadsOK /\ NotesFine /\ QueueOK /\ ListOK /\ u \in Threads /\ x \in Texts
      /\ job[u].of = EntryItem(x) /\ job[u].of \in Items /\ Over(x)
      /\ job[u].at = "save" /\ EntryList(b)
      /\ u \notin Engine /\ u # "control" /\ u # "worker" /\ u # "start"
  BY <1>0, <1>1, UiBusy, ThreadsApart DEF LibI, Marks, Appends
<1>3. Ends(u)
  BY <1>1, <1>2, SetEnds DEF Typed
<1>4. hidden' = IF flag THEN hidden \cup {EntryItem(x)} ELSE hidden \ {EntryItem(x)}
  BY <1>a, <1>1, <1>2 DEF Hide, Now
<1>5. PICK h \in Seq(Entry) :
        /\ h = Archived(b, x, flag) /\ Len(h) = Len(b) /\ Len(b) <= MaxEntries /\ b \in Seq(Entry)
        /\ \A i \in 1 .. Len(b) : /\ h[i].of = b[i].of
                                  /\ h[i].archived = IF b[i].of = x THEN flag ELSE b[i].archived
  BY <1>2, ArchivedFacts DEF EntryList
<1>6. Moves(u) /\ Others(u) /\ job' \in [Threads -> JobType] /\ sess' = sess
  BY <1>1, <1>2, <1>3 DEF Moves, Move, Others, Ends, Typed, StartRest
<1>7. Alone(u)
  BY <1>1, <1>6 DEF Alone, KeepsLeft, StartRest
<1>8. Typed'
  <2>1. history' = h
    BY <1>1, <1>5
  <2>2. QED
    BY <1>1, <1>2, <1>4, <1>5, <1>6, <2>1 DEF Typed, KeepsLeft, StartRest
<1>9. OwnOK(u)'
  BY <1>3, ThreadsApart DEF OwnOK, UiOK, Ends
<1>10. job'["control"] = job["control"] /\ job'["worker"] = job["worker"]
  BY <1>2, <1>6, ThreadsApart DEF Others
<1>11. QueueOK'
  <2>1. \A y : Holding(y)' <=> Holding(y)
    BY <1>10 DEF Holding
  <2>2. QED
    BY <1>1, <1>2, <2>1 DEF QueueOK, StartRest
<1>12. \A m \in Notes : ~Marking(u, m)' /\ ~Rewrites(u, m)' /\ ~Claims(u, m)'
  BY <1>2, <1>3 DEF Marking, Rewrites, Claims, Ends
<1>13. ASSUME NEW m \in Notes PROVE Spares(u, m)
  <2>1. NoteItem(m) \in hidden' => NoteItem(m) \in hidden
    BY <1>4, ItemsApart
  <2>2. (Removed(m)' <=> Removed(m)) /\ (Creating(m)' <=> Creating(m))
    BY <1>10 DEF Removed, Creating
  <2>3. QED
    BY <1>1, <1>2, <1>6, <1>12, <2>1, <2>2 DEF Spares, KeepsLeft, StartRest
<1>14. Fair(u)
  BY <1>2, <1>12 DEF Fair
<1>15. ListOK'
  <2>1. \A y \in Texts : Over(y) => OverNext(y)
    <3>1. ASSUME NEW y \in Texts, Over(y) PROVE OverNext(y)
      <4>1. Over(y)'
        BY <1>2, <1>7, <1>14, <3>1, OverRests
      <4>2. QED
        BY <4>1 DEF Over, OverNext, Holding
    <3>2. QED
      BY <3>1
  <2>2. \A i \in 1 .. Len(b) : Over(b[i].of) /\ b[i].of \in Texts
    <3>1. \A i \in DOMAIN b : Over(b[i].of)
      BY <1>0, <1>1, <1>2 DEF ListOK, EntriesDone, Saves
    <3>2. QED
      BY <1>5, <3>1, EntryAt
  <2>3. \A i \in DOMAIN h : OverNext(h[i].of)
    BY <1>5, <2>1, <2>2
  <2>4. ASSUME NEW s \in Threads, Saves(s)', NEW i \in DOMAIN job'[s].base
        PROVE  OverNext(job'[s].base[i].of)
    <3>1. s # u
      BY <1>3, <2>4 DEF Saves, Ends
    <3>2. job'[s] = job[s] /\ Saves(s)
      BY <1>6, <2>4, <3>1 DEF Others, Saves
    <3>3. Over(job[s].base[i].of)
      BY <1>2, <2>4, <3>2 DEF ListOK, EntriesDone
    <3>4. job[s].base[i].of \in Texts
      <4>1. OwnOK(s)
        BY <1>2 DEF ThreadsOK
      <4>2. EntryList(job[s].base)
        BY <3>2, <4>1 DEF OwnOK, ControlOK, RecorderOK, WorkerOK, StartOK, UiOK, Failing, Marks, Appends, Saves, Threads, Engine
      <4>3. QED
        BY <2>4, <3>2, <4>2, EntryAt DEF EntryList
    <3>5. QED
      BY <2>1, <3>2, <3>3, <3>4
  <2>5. ASSUME NEW y \in Texts, EntryItem(y) \in hidden' PROVE OverNext(y)
    <3>1. EntryItem(y) \in hidden \/ y = x
      BY <1>4, <2>5, ItemsApart
    <3>2. Over(y)
      BY <1>2, <3>1 DEF ListOK, EntriesDone
    <3>3. QED
      BY <2>1, <3>2
  <2>6. ASSUME NEW v \in Ui, job'[v].do # "idle", job'[v].of.kind = "entry" PROVE OverNext(job'[v].of.of)
    <3>1. v # u
      BY <1>3, <2>6 DEF Ends
    <3>2. job'[v] = job[v]
      BY <1>6, <3>1, ThreadsApart DEF Others
    <3>3. job[v].of.of \in Texts /\ Over(job[v].of.of)
      BY <2>6, <3>2, UiBusy
    <3>4. QED
      BY <2>1, <3>2, <3>3
  <2>7. EntriesDone'
    BY <1>1, <1>5, <2>3, <2>4, <2>5, <2>6 DEF EntriesDone, Over, OverNext, Holding, EntryItem
  <2>8. ASSUME "history" \notin raced' PROVE "history" \notin raced /\ b = history
    BY <1>1, <2>8
  <2>9. Rolls'
    BY <1>1, <1>2, <1>5, <2>8 DEF ListOK, Rolls
  <2>10. EntrySticks'
    <3>1. ASSUME NEW y \in Texts, EntryItem(y) \in hidden', "history" \notin raced', NEW i \in DOMAIN h, h[i].of = y
          PROVE  h[i].archived
      <4>1. i \in 1 .. Len(b) /\ b[i].of = y
        BY <1>5, <3>1
      <4>2. CASE y = x
        <5>1. flag
          BY <1>4, <3>1, <4>2
        <5>2. QED
          BY <1>5, <4>1, <4>2, <5>1
      <4>3. CASE y # x
        <5>1. EntryItem(y) \in hidden
          BY <1>4, <3>1, <4>3, ItemsApart
        <5>2. b[i].archived
          BY <1>2, <1>5, <2>8, <3>1, <4>1, <5>1 DEF ListOK, EntrySticks
        <5>3. QED
          BY <1>5, <4>1, <4>3, <5>2
      <4>4. QED
        BY <4>2, <4>3
    <3>2. QED
      BY <1>1, <1>5, <3>1 DEF EntrySticks, EntryItem
  <2>11. QED
    BY <2>7, <2>9, <2>10 DEF ListOK
<1>16. QED
  BY <1>2, <1>7, <1>8, <1>9, <1>11, <1>13, <1>14, <1>15, StepKeeps

LEMMA ClearKeeps ==
  ASSUME LibI, NEW u \in Ui, Clear(u)
  PROVE  LibI'
<1>1. /\ phase # "down" /\ job[u] = Idle /\ job' = job /\ history' = <<>> /\ said' = <<>>
      /\ note' = note /\ phase' = phase /\ hidden' = hidden /\ raced' = raced /\ StartRest /\ KeepsLeft
  BY DEF Clear, Free, engine, queues, StartRest, KeepsLeft
<1>2. /\ Typed /\ ThreadsOK /\ QueueOK /\ ListOK /\ u \in Threads /\ job[u].do = "idle"
      /\ u \notin Engine /\ u # "control" /\ u # "worker" /\ u # "start"
  BY <1>1, ThreadsApart, IdleTyped DEF LibI
<1>3. Moves(u) /\ Others(u) /\ sess' = sess
  BY <1>1, <1>2 DEF Moves, Move, Others, Typed, StartRest
<1>4. Alone(u)
  BY <1>1, <1>3 DEF Alone, KeepsLeft, StartRest
<1>5. Typed'
  BY <1>1, <1>2, LibraryAssumption DEF Typed, KeepsLeft, StartRest
<1>6. OwnOK(u)'
  BY <1>1, <1>2, ThreadsApart DEF OwnOK, UiOK
<1>7. \A y : Holding(y)' <=> Holding(y)
  BY <1>1 DEF Holding
<1>8. QueueOK'
  BY <1>1, <1>2, <1>7 DEF QueueOK, StartRest
<1>9. ASSUME NEW m \in Notes PROVE Spares(u, m)
  BY <1>1, <1>2 DEF Spares, KeepsLeft, StartRest, Removed, Creating, Marking, Rewrites
<1>10. Fair(u)
  BY <1>2, <1>7 DEF Fair, Claims
<1>11. ListOK'
  <2>1. Rolls'
    BY <1>1, LibraryAssumption DEF Rolls
  <2>2. EntriesDone'
    BY <1>1, <1>2, <1>3, <1>7 DEF ListOK, EntriesDone, Over, Saves, EntryItem, Holding
  <2>3. EntrySticks'
    BY <1>1 DEF EntrySticks
  <2>4. QED
    BY <2>1, <2>2, <2>3 DEF ListOK
<1>12. QED
  BY <1>2, <1>4, <1>5, <1>6, <1>8, <1>9, <1>10, <1>11, StepKeeps

-----------------------------------------------------------------------------
(* Start and death of an engine, and the initial state.                      *)

\* With no thread at work, what the invariant says of the threads is empty.
LEMMA AllIdle ==
  ASSUME \A t \in Threads : job'[t].do = "idle"
  PROVE  /\ ThreadsOK' /\ ClaimsOK'
         /\ \A x : ~Holding(x)'
         /\ \A t \in Threads : ~Saves(t)' /\ \A n : ~Rewrites(t, n)' /\ ~Marking(t, n)'
         /\ \A n : ~Creating(n)' /\ ~Removed(n)' /\ SegsAt(n)' /\ LateAt(n)'
BY ThreadsApart DEF ThreadsOK, OwnOK, ControlOK, RecorderOK, WorkerOK, StartOK, UiOK, ClaimsOK,
   Claims, Holding, Saves, Rewrites, Marking, Creating, Removed, SegsAt, LateAt

LEMMA LibStarts == Init => LibI
<1> SUFFICES ASSUME Init PROVE LibI
  OBVIOUS
<1>0. /\ MaxEntries \in Nat \ {0} /\ MaxPieces \in Nat
  BY LibraryAssumption
<1>1. job \in [Threads -> JobType] /\ \A t \in Threads : job[t].do = "idle"
  BY IdleTyped DEF Init
<1>2. /\ NoDir \in NoteType /\ NoDir.json = None /\ NoDir.there = FALSE /\ NoDir.segs = 0
  BY LibraryAssumption DEF NoDir, NoteType
<1>3. Typed
  <2>1. note \in [Notes -> NoteType] /\ sess \in [Texts -> Sessions] /\ pieces \in [Notes -> 0 .. MaxPieces]
    BY <1>0, <1>2 DEF Init, Sessions
  <2>2. history \in Seq(Entry) /\ Len(history) <= MaxEntries /\ said \in Seq(Texts)
    BY <1>0 DEF Init
  <2>3. QED
    BY <1>1, <2>1, <2>2 DEF Init, Typed
<1>4. ThreadsOK /\ ClaimsOK
  BY <1>1, ThreadsApart DEF ThreadsOK, OwnOK, ControlOK, RecorderOK, WorkerOK, StartOK, UiOK, ClaimsOK, Claims
<1>5. DownOK /\ QueueOK /\ LeftOK /\ SaidOK
  BY <1>1 DEF Init, DownOK, QueueOK, LeftOK, SaidOK
<1>6. ASSUME NEW n \in Notes PROVE FineNote(n)
  <2>1. sess[n] = "new" /\ note[n].json = None /\ note[n].there = FALSE /\ note[n].segs = 0
    BY <1>2 DEF Init, Texts
  <2>2. SegsAt(n) /\ ReadyAt(n) /\ FilesAt(n)
    BY <1>1, <2>1, ThreadsApart DEF Init, SegsAt, ReadyAt, FilesAt, Rewrites, Creating, Removed, Begun, Captured
  <2>3. KnownAt(n) /\ RecoveringAt(n) /\ UnfinishedAt(n) /\ LateAt(n)
    BY <1>1, <2>1, ThreadsApart
    DEF Init, KnownAt, Rewrites, RecoveringAt, UnfinishedAt, Unsettled, LateAt
  <2>4. QED
    BY <2>2, <2>3 DEF FineNote
<1>7. ListOK
  <2>1. Rolls
    BY <1>0 DEF Init, Rolls
  <2>2. EntriesDone /\ EntrySticks
    BY <1>1, ThreadsApart DEF Init, EntriesDone, EntrySticks, Saves
  <2>3. QED
    BY <2>1, <2>2 DEF ListOK
<1>8. QED
  BY <1>3, <1>4, <1>5, <1>6, <1>7 DEF LibI, NotesFine

LEMMA FreeIdle == ASSUME NEW t, Free(t) PROVE job[t].do = "idle"
BY IdleTyped DEF Free

\* The engine begins to start: every directory is still to be looked at.
LEMMA EngineStartKeeps == ASSUME LibI, Start PROVE LibI'
<1>0. Typed /\ ThreadsOK /\ DownOK /\ QueueOK /\ SaidOK /\ NotesFine /\ ListOK
  BY DEF LibI
<1>1. /\ phase = "down" /\ phase' = "starting" /\ left' = {n \in Notes : note[n].there} /\ skipped' = FALSE
      /\ UNCHANGED <<note, history, job, sess, pieces, queue, said, hidden, raced, tossed>>
  BY DEF Start, disk, queues
<1>2. \A t \in Threads : job[t].do = "idle"
  BY <1>0, <1>1 DEF DownOK
<1>3. \A t \in Threads : job'[t].do = "idle"
  BY <1>1, <1>2
<1>4. Typed'
  BY <1>0, <1>1 DEF Typed
<1>5. DownOK' /\ SaidOK' /\ QueueOK'
  BY <1>0, <1>1 DEF DownOK, SaidOK, QueueOK, Holding
<1>6. ASSUME NEW n \in Notes PROVE FineNote(n)' /\ (n \in left' => sess'[n] \in Past)
  <2>0. ReadyAt(n) /\ FilesAt(n) /\ KnownAt(n) /\ UnfinishedAt(n)
    BY <1>0 DEF NotesFine, FineNote
  <2>1. sess[n] \in {"new", "done", "gone", "old"} /\ ~Creating(n)
    BY <1>0, <1>1, <1>2, ThreadsApart DEF DownOK, Texts, Creating
  <2>2. SegsAt(n)' /\ LateAt(n)'
    BY <1>3, AllIdle
  <2>3. ReadyAt(n)' /\ KnownAt(n)'
    BY <1>1, <2>0 DEF ReadyAt, KnownAt, Rewrites
  <2>4. FilesAt(n)' /\ UnfinishedAt(n)'
    BY <1>1, <2>0 DEF FilesAt, UnfinishedAt, Unsettled, Marking, Creating, Removed
  <2>5. RecoveringAt(n)'
    BY <1>1, <2>0 DEF FilesAt, RecoveringAt, Looked
  <2>6. n \in left' => sess'[n] \in Past
    BY <1>1, <2>0, <2>1 DEF FilesAt, Past
  <2>7. QED
    BY <2>2, <2>3, <2>4, <2>5, <2>6 DEF FineNote
<1>7. ListOK'
  BY <1>0, <1>1 DEF ListOK, Rolls, EntriesDone, EntrySticks, Saves, Over, Holding
<1>8. ThreadsOK' /\ ClaimsOK'
  BY <1>3, AllIdle
<1>9. LeftOK'
  BY <1>1, <1>6 DEF LeftOK
<1>10. QED
  BY <1>4, <1>5, <1>6, <1>7, <1>8, <1>9 DEF LibI, NotesFine

LEMMA RecoveredKeeps == ASSUME LibI, Recovered PROVE LibI'
<1>0. /\ Typed /\ ThreadsOK /\ DownOK /\ ClaimsOK /\ QueueOK /\ SaidOK /\ NotesFine /\ ListOK
  BY DEF LibI
<1>1. /\ phase = "starting" /\ phase' = "up" /\ left = {} /\ job["start"].do = "idle"
      /\ UNCHANGED <<note, history, job, sess, pieces, queue, left, said, hidden, raced, skipped, tossed>>
  BY FreeIdle DEF Recovered, disk, queues, ghost
<1>2. Typed' /\ DownOK' /\ LeftOK'
  BY <1>0, <1>1 DEF Typed, DownOK, LeftOK
<1>3. ThreadsOK'
  <2>1. WorkerOK' /\ StartOK'
    BY <1>0, <1>1, ThreadsApart DEF ThreadsOK, OwnOK, WorkerOK, StartOK
  <2>2. ASSUME NEW t \in Threads PROVE OwnOK(t)'
    <3>1. OwnOK(t)
      BY <1>0 DEF ThreadsOK
    <3>2. QED
      BY <1>1, <2>1, <3>1 DEF OwnOK, ControlOK, RecorderOK, UiOK, Failing, Marks, Appends, EntryList
  <2>3. QED
    BY <2>2 DEF ThreadsOK
<1>4. ClaimsOK' /\ QueueOK' /\ SaidOK'
  BY <1>0, <1>1 DEF ClaimsOK, Claims, QueueOK, SaidOK, Holding
<1>5. ASSUME NEW n \in Notes PROVE FineNote(n)'
  <2>0. SegsAt(n) /\ ReadyAt(n) /\ FilesAt(n) /\ KnownAt(n) /\ RecoveringAt(n) /\ UnfinishedAt(n) /\ LateAt(n)
    BY <1>0 DEF NotesFine, FineNote
  <2>1. SegsAt(n)' /\ ReadyAt(n)' /\ FilesAt(n)' /\ KnownAt(n)'
    BY <1>1, <2>0 DEF SegsAt, ReadyAt, FilesAt, KnownAt, Rewrites, Creating, Removed
  <2>2. RecoveringAt(n)' /\ UnfinishedAt(n)' /\ LateAt(n)'
    BY <1>1, <2>0 DEF RecoveringAt, Looked, UnfinishedAt, Unsettled, Marking, LateAt
  <2>3. QED
    BY <2>1, <2>2 DEF FineNote
<1>6. ListOK'
  BY <1>0, <1>1 DEF ListOK, Rolls, EntriesDone, EntrySticks, Saves, Over, Holding
<1>7. QED
  BY <1>2, <1>3, <1>4, <1>5, <1>6 DEF LibI, NotesFine

LEMMA CrashKeeps == ASSUME LibI, Crash PROVE LibI'
<1>0. Typed /\ ThreadsOK /\ SaidOK /\ NotesFine /\ ListOK
  BY DEF LibI
<1>1. /\ phase' = "down" /\ left' = {} /\ pieces' = [n \in Notes |-> 0] /\ queue' = {}
      /\ job' = [t \in Threads |-> Idle]
      /\ sess' = [x \in Texts |-> IF \/ sess[x] \in {"done", "gone"}
                                     \/ (sess[x] = "new" /\ Now("control") # x)
                                  THEN sess[x] ELSE "old"]
      /\ UNCHANGED <<note, history, said, hidden, raced, skipped, tossed>>
  BY DEF Crash, disk, ghost
<1>2. job' \in [Threads -> JobType] /\ \A t \in Threads : job'[t].do = "idle"
  BY <1>1, IdleTyped
<1>3. ASSUME NEW x \in Texts
      PROVE  /\ sess'[x] \in Sessions /\ sess'[x] \in {"new", "done", "gone", "old"}
             /\ sess'[x] = "new" => sess[x] = "new" /\ Now("control") # x
             /\ sess'[x] \in {"done", "gone"} => sess'[x] = sess[x]
             /\ sess[x] \in {"done", "gone"} => sess'[x] = sess[x]
             /\ sess[x] # "new" => sess'[x] # "new"
  BY <1>0, <1>1 DEF Typed, Sessions
<1>4. Typed'
  <2>1. sess' \in [Texts -> Sessions]
    BY <1>1, <1>3
  <2>2. pieces' \in [Notes -> 0 .. MaxPieces]
    BY <1>1, LibraryAssumption
  <2>3. QED
    BY <1>0, <1>1, <1>2, <2>1, <2>2 DEF Typed
<1>5. ThreadsOK' /\ ClaimsOK' /\ DownOK' /\ QueueOK' /\ LeftOK'
  BY <1>1, <1>2, <1>3, AllIdle DEF DownOK, QueueOK, LeftOK
<1>6. SaidOK'
  BY <1>0, <1>3 DEF SaidOK, Texts
<1>7. ASSUME NEW n \in Notes PROVE FineNote(n)'
  <2>0. ReadyAt(n) /\ FilesAt(n) /\ KnownAt(n)
    BY <1>0 DEF NotesFine, FineNote
  <2>1. n \in Texts /\ (Creating(n) => Now("control") = n)
    BY DEF Texts, Creating, Now
  <2>2. SegsAt(n)' /\ LateAt(n)' /\ ReadyAt(n)'
    BY <1>1, <1>2, <2>0, AllIdle DEF ReadyAt
  <2>3. FilesAt(n)'
    BY <1>1, <1>2, <1>3, <2>0, <2>1, AllIdle DEF FilesAt, Begun, Captured
  <2>4. KnownAt(n)'
    BY <1>1, <1>2, <1>3, <2>0, <2>1, AllIdle DEF KnownAt
  <2>5. RecoveringAt(n)' /\ UnfinishedAt(n)'
    BY <1>1, <1>2, <1>3, <2>1, AllIdle DEF RecoveringAt, UnfinishedAt, Captured
  <2>6. QED
    BY <2>2, <2>3, <2>4, <2>5 DEF FineNote
<1>8. ListOK'
  <2>1. \A x \in Texts : Over(x) => Over(x)'
    BY <1>2, <1>3, AllIdle DEF Over
  <2>2. \A i \in DOMAIN history : history[i].of \in Texts
    BY <1>0, EntryAt DEF Typed
  <2>3. EntriesDone'
    BY <1>0, <1>1, <1>2, <2>1, <2>2, AllIdle, ThreadsApart DEF ListOK, EntriesDone
  <2>4. Rolls' /\ EntrySticks'
    BY <1>0, <1>1 DEF ListOK, Rolls, EntrySticks
  <2>5. QED
    BY <2>3, <2>4 DEF ListOK
<1>9. QED
  BY <1>4, <1>5, <1>6, <1>7, <1>8 DEF LibI, NotesFine

LEMMA LibRests == LibI /\ UNCHANGED vars => LibI'
<1> SUFFICES ASSUME LibI, UNCHANGED vars PROVE LibI'
  OBVIOUS
<1>0. /\ Typed /\ ThreadsOK /\ DownOK /\ ClaimsOK /\ QueueOK /\ LeftOK /\ SaidOK /\ NotesFine /\ ListOK
  BY DEF LibI
<1>1. UNCHANGED <<note, history, job, sess, pieces, queue, phase, left, said, hidden, raced, skipped, tossed>>
  BY DEF vars, disk, engine, queues, ghost
<1>2. Typed' /\ DownOK' /\ LeftOK' /\ SaidOK'
  BY <1>0, <1>1 DEF Typed, DownOK, LeftOK, SaidOK
<1>3. ThreadsOK'
  <2>1. ASSUME NEW t \in Threads PROVE OwnOK(t)'
    <3>1. OwnOK(t)
      BY <1>0 DEF ThreadsOK
    <3>2. (t = "worker" => WorkerOK') /\ (t = "start" => StartOK')
      BY <1>1, <3>1 DEF OwnOK, WorkerOK, StartOK, Marks, Appends, EntryList
    <3>3. QED
      BY <1>1, <3>1, <3>2 DEF OwnOK, ControlOK, RecorderOK, UiOK, Failing, Marks, Appends, EntryList
  <2>2. QED
    BY <2>1 DEF ThreadsOK
<1>4. ClaimsOK' /\ QueueOK'
  BY <1>0, <1>1 DEF ClaimsOK, Claims, QueueOK, Holding
<1>5. ASSUME NEW n \in Notes PROVE FineNote(n)'
  <2>0. SegsAt(n) /\ ReadyAt(n) /\ FilesAt(n) /\ KnownAt(n) /\ RecoveringAt(n) /\ UnfinishedAt(n) /\ LateAt(n)
    BY <1>0 DEF NotesFine, FineNote
  <2>1. SegsAt(n)' /\ ReadyAt(n)' /\ FilesAt(n)' /\ KnownAt(n)'
    BY <1>1, <2>0 DEF SegsAt, ReadyAt, FilesAt, KnownAt, Rewrites, Creating, Removed
  <2>2. RecoveringAt(n)' /\ UnfinishedAt(n)' /\ LateAt(n)'
    BY <1>1, <2>0 DEF RecoveringAt, Looked, UnfinishedAt, Unsettled, Marking, LateAt
  <2>3. QED
    BY <2>1, <2>2 DEF FineNote
<1>6. ListOK'
  BY <1>0, <1>1 DEF ListOK, Rolls, EntriesDone, EntrySticks, Saves, Over, Holding
<1>7. QED
  BY <1>2, <1>3, <1>4, <1>5, <1>6 DEF LibI, NotesFine

LEMMA LibKeeps == LibI /\ [Next]_vars => LibI'
<1> SUFFICES ASSUME LibI, [Next]_vars PROVE LibI'
  OBVIOUS
<1>1. ASSUME NEW n \in Notes, StartNote(n) \/ Cut(n) \/ FinishPaused(n) \/ Stopped(n) \/ Discard(n)
      PROVE  LibI'
  BY <1>1, StartNoteKeeps, CutKeeps, FinishPausedKeeps, StoppedKeeps, DiscardKeeps
<1>2. ASSUME NEW n \in Notes, NEW t \in Threads, CaptureFails(t, n) PROVE LibI'
  BY <1>2, CaptureFailsKeeps
<1>3. ASSUME NEW ok \in BOOLEAN, CreateWrite(ok) PROVE LibI'
  BY <1>3, CreateWriteKeeps
<1>4. ASSUME (\E x \in Texts : Finish(x)) \/ CreateFails \/ Unlink \/ RemoveDir \/ Forget PROVE LibI'
  BY <1>4, FinishKeeps, CreateFailsKeeps, UnlinkKeeps, RemoveDirKeeps, ForgetKeeps
<1>5. ASSUME Deciding PROVE LibI'
  BY <1>5, TakePieceKeeps, TakeNextKeeps DEF Deciding
<1>6. ASSUME Settling PROVE LibI'
  BY <1>6, AppendSegmentKeeps, SegmentFailsKeeps, CheckKeeps, ClaimKeeps, AppendLoadKeeps, AppendSaveKeeps,
     AppendFailsKeeps, MarkLoadKeeps, MarkWriteKeeps, MarkFailsKeeps DEF Settling
<1>7. ASSUME NEW u \in Ui, AskWrite(u) PROVE LibI'
  <2>1. CASE Now(u).kind = "note"
    BY <1>7, <2>1, AskWriteNoteKeeps DEF Now
  <2>2. CASE Now(u).kind # "note"
    BY <1>7, <2>2, AskWriteEntryKeeps DEF Now
  <2>3. QED
    BY <2>1, <2>2
<1>8. ASSUME Asking PROVE LibI'
  BY <1>7, <1>8, AskKeeps, AskCheckKeeps, AskLoadKeeps, ClearKeeps DEF Asking
<1>9. ASSUME Recording PROVE LibI'
  BY <1>1, <1>2, <1>3, <1>4, <1>9 DEF Recording
<1>10. ASSUME Start \/ (\E n \in Notes : RecoverNext(n)) \/ Recovered \/ Crash \/ Rest PROVE LibI'
  BY <1>10, EngineStartKeeps, RecoverNextKeeps, RecoveredKeeps, CrashKeeps, LibRests DEF Rest
<1>11. QED
  BY <1>5, <1>6, <1>8, <1>9, <1>10, LibRests DEF Next

\* The invariant: every reachable state of the two stores and of the threads
\* that read and replace their files satisfies LibI.
THEOREM LibInvariant == Spec => []LibI
<1>1. Init => LibI
  BY LibStarts
<1>2. LibI /\ [Next]_vars => LibI'
  BY LibKeeps
<1>3. QED
  BY <1>1, <1>2, PTL DEF Spec

\* What is on disk is what the engine says it is: after every start of
\* note_store.recover_interrupted, whatever was cut off, no note is ready with
\* segments missing, no text is out of reach, and no earlier note is left
\* recording.
THEOREM DiskTold == Spec => []StoreInv
<1>1. LibI => StoreInv
  <2> SUFFICES ASSUME LibI PROVE StoreInv
    OBVIOUS
  <2>1. TypeOK
    BY DEF LibI, Typed, TypeOK, Entry, Sessions
  <2>2. \A n \in Notes : ReadyAt(n) /\ FilesAt(n) /\ RecoveringAt(n)
    BY DEF LibI, NotesFine, FineNote
  <2>3. ReadyIsComplete /\ TextReachable /\ DiscardedIsGone
    BY <2>2 DEF ReadyAt, ReadyIsComplete, FilesAt, TextReachable, DiscardedIsGone
  <2>4. SettledAfterStart
    BY <2>2 DEF RecoveringAt, Looked, SettledAfterStart
  <2>5. QED
    BY <2>1, <2>3, <2>4 DEF StoreInv
<1>2. QED
  BY <1>1, LibInvariant, PTL

\* history.append keeps the last texts that were said, the newest first and
\* none missing, unless two threads saved the list at once.
THEOREM HistoryKept == Spec => []HistoryRolls
<1>1. LibI => HistoryRolls
  <2> SUFFICES ASSUME LibI, "history" \notin raced
               PROVE  [i \in DOMAIN history |-> history[i].of] = First(said, MaxEntries)
    BY DEF HistoryRolls
  <2>1. history \in Seq(Entry) /\ said \in Seq(Texts) /\ MaxEntries \in Nat
    BY LibraryAssumption DEF LibI, Typed
  <2>2. PICK f \in Seq(Texts) : f = First(said, MaxEntries)
    BY <2>1, FirstFacts
  <2>3. /\ Len(f) = IF Len(said) < MaxEntries THEN Len(said) ELSE MaxEntries
        /\ \A i \in 1 .. Len(f) : f[i] = said[i]
    BY <2>1, <2>2, FirstFacts
  <2>4. Len(history) = Len(f) /\ \A i \in 1 .. Len(history) : history[i].of = f[i]
    BY <2>3 DEF LibI, ListOK, Rolls
  <2>5. DOMAIN history = DOMAIN f /\ f = [i \in DOMAIN f |-> f[i]]
    BY <2>1, <2>2, <2>4
  <2>6. [i \in DOMAIN history |-> history[i].of] = f
    BY <2>1, <2>4, <2>5
  <2>7. QED
    BY <2>2, <2>6
<1>2. QED
  BY <1>1, LibInvariant, PTL

\* What ui_server archives stays archived while the worker settles the same
\* note and adds entries to the same list.
THEOREM ArchivedStays == Spec => []ArchiveSticks
<1>1. LibI => ArchiveSticks
  <2> SUFFICES ASSUME LibI, NEW item \in hidden
               PROVE  IF item.kind = "note"
                        THEN item.of \in raced \/ note[item.of].json = None \/ note[item.of].json.archived
                        ELSE "history" \in raced
                             \/ \A i \in DOMAIN history : history[i].of = item.of => history[i].archived
    BY DEF ArchiveSticks
  <2>1. item \in Items
    BY DEF LibI, Typed
  <2>2. CASE item.kind = "note"
    <3>1. item.of \in Notes /\ item = NoteItem(item.of)
      BY <2>1, <2>2, ItemsApart
    <3>2. KnownAt(item.of)
      BY <3>1 DEF LibI, NotesFine, FineNote
    <3>3. QED
      BY <2>2, <3>1, <3>2 DEF KnownAt
  <2>3. CASE item.kind # "note"
    <3>1. item.of \in Texts /\ item = EntryItem(item.of)
      BY <2>1, <2>3, ItemsApart
    <3>2. QED
      BY <2>3, <3>1 DEF LibI, ListOK, EntrySticks
  <2>4. QED
    BY <2>2, <2>3
<1>2. QED
  BY <1>1, LibInvariant, PTL

\* A settled note keeps its status: no later start takes it for one that was
\* cut off, no request of the window, no late failure of a capture and no
\* second result of the worker changes it.
THEOREM SettledOnce == Spec => FinishedStays
<1> DEFINE Stays ==
      \A n \in Notes \ raced' :
        /\ note[n].json # None /\ note'[n].json # None
        /\ note[n].json.status \in {"ready", "failed"}
        => note'[n].json.status = note[n].json.status
<1>1. LibI /\ [Next]_vars => [Stays]_vars
  <2> SUFFICES ASSUME LibI, Next,
                      NEW n \in Notes \ raced', note[n].json # None, note'[n].json # None,
                      note[n].json.status \in {"ready", "failed"}
               PROVE  note'[n].json.status = note[n].json.status
    OBVIOUS
  <2> DEFINE Same == note'[n].json.status = note[n].json.status
  <2>0. Typed /\ ThreadsOK /\ FineNote(n)
    BY DEF LibI, NotesFine
  <2>1. ASSUME UNCHANGED note PROVE Same
    BY <2>1
  <2>2. ASSUME NEW m \in Notes, StartNote(m) PROVE Same
    <3>1. note' = [note EXCEPT ![m].there = TRUE]
      BY <2>2 DEF StartNote
    <3>2. PICK d \in NoteType : d = note[m]
      BY <2>0 DEF Typed
    <3>3. [d EXCEPT !.there = TRUE].json = d.json
      BY DEF NoteType
    <3>4. QED
      BY <2>0, <3>1, <3>2, <3>3 DEF Typed
  <2>3. ASSUME NEW ok \in BOOLEAN, CreateWrite(ok) PROVE Same
    <3>1. PICK m \in Notes : m = Now("control") /\ sess[m] = "new"
      BY <2>0, <2>3, ThreadsApart DEF CreateWrite, Doing, ThreadsOK, OwnOK, ControlOK, Failing, Now
    <3>2. m # n
      BY <2>0, <3>1 DEF FineNote, FilesAt
    <3>3. QED
      BY <2>0, <2>3, <3>1, <3>2 DEF CreateWrite, Typed
  <2>4. ASSUME Unlink PROVE Same
    <3>1. /\ job["control"].do = "discard" /\ job["control"].of \in tossed
          /\ note' = [note EXCEPT ![Now("control")].json = None, ![Now("control")].segs = 0]
      BY <2>0, <2>4, ThreadsApart DEF Unlink, Doing, ThreadsOK, OwnOK, ControlOK, Failing
    <3>2. PICK m \in Notes : m = Now("control")
      BY <2>0, <3>1 DEF Typed, Now
    <3>3. note' = [note EXCEPT ![m].json = None, ![m].segs = 0]
      BY <3>1, <3>2
    <3>4. PICK d \in NoteType : d = note[m]
      BY <2>0 DEF Typed
    <3>5. note' = [note EXCEPT ![m] = [d EXCEPT !.json = None, !.segs = 0]]
      BY <3>3, <3>4
    <3>6. [d EXCEPT !.json = None, !.segs = 0].json = None
      BY DEF NoteType
    <3>7. m # n
      BY <2>0, <3>5, <3>6 DEF Typed
    <3>8. QED
      BY <2>0, <3>5, <3>7 DEF Typed
  <2>5. ASSUME RemoveDir PROVE Same
    <3>1. PICK m : m = Now("control")
      OBVIOUS
    <3>2. note' = (IF note[m].json = None /\ note[m].segs = 0 THEN [note EXCEPT ![m] = NoDir] ELSE note)
      BY <2>5, <3>1 DEF RemoveDir
    <3>3. QED
      BY <2>0, <3>2 DEF Typed, NoDir
  <2>6. ASSUME AppendSegment PROVE Same
    <3>1. PICK m \in Notes : m = Now("worker")
      BY <2>0, <2>6, ThreadsApart DEF AppendSegment, Doing, ThreadsOK, OwnOK, WorkerOK, Now
    <3>2. PICK d \in NoteType : d = note[m]
      BY <2>0 DEF Typed
    <3>3. note' = [note EXCEPT ![m] = [d EXCEPT !.there = TRUE, !.segs = d.segs + 1]]
      BY <2>6, <3>1, <3>2 DEF AppendSegment
    <3>4. [d EXCEPT !.there = TRUE, !.segs = d.segs + 1].json = d.json
      BY DEF NoteType
    <3>5. QED
      BY <2>0, <3>2, <3>3, <3>4 DEF Typed
  <2>7. ASSUME NEW t \in Threads, MarkWrite(t) PROVE Same
    <3>1. /\ t \in Engine /\ job[t].do \in Settled /\ job[t].at = "write"
          /\ WriteNote(t, Now(t), job[t].do)
      BY <2>7 DEF MarkWrite, Doing
    <3>2. PICK m \in Notes : m = Now(t) /\ m = job[t].of /\ job[t].base \in JsonType
      BY <2>0, <3>1, ThreadsApart
      DEF ThreadsOK, OwnOK, ControlOK, RecorderOK, WorkerOK, StartOK, Failing, Settled, Engine, Now, Marks
    <3>3. PICK w \in Settled : w = job[t].do
      BY <3>1
    <3>4. Holds(m, Changed(job[t].base, w)) /\ (m \notin raced' => note[m].json = job[t].base)
          /\ raced \subseteq raced'
      <4>1. w \in Settled \cup {"archive", "unarchive"} /\ WriteNote(t, m, w)
        BY <3>1, <3>2, <3>3
      <4>2. QED
        BY <2>0, <3>2, <4>1, WriteFacts
    <3>5. CASE m # n
      BY <3>4, <3>5 DEF Holds
    <3>6. CASE m = n
      <4>1. note[n].json = job[t].base /\ n \notin raced
        BY <3>4, <3>6
      <4>2. CASE t # "start"
        <5>1. Marking(t, n)
          BY <2>0, <3>1, <3>2, <3>6, <4>2, ThreadsApart
          DEF ThreadsOK, OwnOK, ControlOK, RecorderOK, WorkerOK, Failing, Engine, Settled, Marking
        <5>2. QED
          BY <2>0, <4>1, <5>1 DEF FineNote, UnfinishedAt, Unsettled
      <4>3. CASE t = "start"
        <5>1. job["start"].base.status \in InFlight
          BY <2>0, <3>1, <3>2, <3>6, <4>1, <4>3 DEF FineNote, LateAt, Settled
        <5>2. QED
          BY <4>1, <4>3, <5>1 DEF InFlight
      <4>4. QED
        BY <4>2, <4>3
    <3>7. QED
      BY <3>5, <3>6
  <2>8. ASSUME NEW u \in Ui, AskWrite(u) PROVE Same
    <3>1. job[u].do \in {"archive", "unarchive"} /\ job[u].at \in {"write", "save"}
      BY <2>8 DEF AskWrite, Doing
    <3>2. CASE job[u].of.kind = "note"
      <4>1. PICK m \in Notes, w \in {"archive", "unarchive"} :
              m = Now(u).of /\ w = job[u].do /\ job[u].base \in JsonType /\ WriteNote(u, m, w)
        BY <2>0, <2>8, <3>1, <3>2, ThreadsApart DEF AskWrite, ThreadsOK, OwnOK, UiOK, Marks, Appends, Now
      <4>2. /\ Holds(m, Changed(job[u].base, w)) /\ (m \notin raced' => note[m].json = job[u].base)
            /\ note'[m].json.status = job[u].base.status
        <5>1. w \in Settled \cup {"archive", "unarchive"} /\ WriteNote(u, m, w) /\ job[u].base \in JsonType
          BY <4>1
        <5>2. Holds(m, Changed(job[u].base, w)) /\ (m \notin raced' => note[m].json = job[u].base)
          BY <2>0, <5>1, WriteFacts
        <5>3. note'[m].json = Changed(job[u].base, w)
          BY <5>2 DEF Holds
        <5>4. Changed(job[u].base, w).status = job[u].base.status
          BY <4>1, <5>1, ChangedFacts
        <5>5. QED
          BY <5>2, <5>3, <5>4
      <4>3. QED
        BY <4>2 DEF Holds
    <3>3. CASE job[u].of.kind # "note"
      BY <2>1, <2>8, <3>3 DEF AskWrite, Save, Now
    <3>4. QED
      BY <3>2, <3>3
  <2>9. ASSUME Recording PROVE Same
    BY <2>1, <2>2, <2>3, <2>4, <2>5, <2>9
    DEF Recording, Cut, FinishPaused, Stopped, Discard, CaptureFails, Finish, CreateFails, Forget, disk
  <2>10. ASSUME Deciding PROVE Same
    BY <2>1, <2>10 DEF Deciding, TakePiece, TakeNext, disk
  <2>11. ASSUME Settling PROVE Same
    BY <2>1, <2>6, <2>7, <2>11
    DEF Settling, SegmentFails, Check, Claim, AppendLoad, LoadHistory, AppendSave, Save, AppendFails,
        MarkLoad, LoadNote, MarkFails, disk
  <2>12. ASSUME Asking PROVE Same
    BY <2>1, <2>8, <2>12 DEF Asking, Ask, AskCheck, AskLoad, LoadNote, LoadHistory, Clear, disk
  <2>13. ASSUME Start \/ (\E m \in Notes : RecoverNext(m)) \/ Recovered \/ Crash \/ Rest PROVE Same
    BY <2>1, <2>13 DEF Start, RecoverNext, Recovered, Crash, Rest, vars, disk
  <2>14. QED
    BY <2>9, <2>10, <2>11, <2>12, <2>13 DEF Next
<1>2. QED
  BY <1>1, LibInvariant, PTL DEF Spec, FinishedStays
=============================================================================
