------------------------------ MODULE Library ------------------------------
(* What Dictate keeps of what was said: one directory per note               *)
(* (note_store.py) and the rolling list of recent texts (history.py).  Both  *)
(* stores read a file, change the record in memory and replace the file;     *)
(* there is no lock.  The thread of an operation, the recorder's own thread,  *)
(* the transcription worker, the start of an engine and the requests of the  *)
(* window all do it, and the engine may die between any two file operations. *)
EXTENDS Integers, Sequences, FiniteSets

CONSTANTS Notes, Dictations,    \* what is said, each text different
          Ui,                   \* threads of the HTTP server
          Segments,             \* segments of a decoded note
          MaxPieces,            \* pieces of a note that wait for the worker
          MaxEntries,           \* MAX_ENTRIES
          MaxAsks, MaxCrashes, MaxFaults,
          None

Texts == Notes \cup Dictations
Engine == {"control", "recorder", "worker", "start"}
Threads == Engine \cup Ui
InFlight == {"recording", "processing"}
Settled == {"ready", "failed", "interrupted"}
JsonType == [status : InFlight \cup Settled, archived : BOOLEAN, rev : Nat \ {0}]

ASSUME LibraryAssumption ==
  /\ Notes \cap Dictations = {} /\ Ui \cap Engine = {}
  /\ Segments \in Nat \ {0} /\ MaxEntries \in Nat \ {0} /\ MaxPieces \in Nat
  /\ {MaxAsks, MaxCrashes, MaxFaults} \subseteq Nat
  /\ None \notin JsonType

VARIABLES
  note,      \* [Notes -> directory: there, note.json, segments.jsonl]
  history,   \* entries of recent-history.json, the newest first
  job,       \* what each thread is doing
  sess,      \* the recording of a text, as the running engine knows it
  pieces,    \* [Notes -> pieces that wait for the worker, cut while it is recorded]
  queue,     \* ended recordings that wait for the worker
  phase,     \* engine "down", "starting" (Daemon.start runs) or "up"
  left,      \* directories recover_interrupted has still to look at
  spent,     \* [asks, crashes, faults] so far
  said,      \* texts appended since the last clear, the newest first
  hidden,    \* items whose archive request was the last one answered
  raced,     \* files saved over a version the writer had not read
  skipped,   \* a recovery ended early
  tossed     \* notes the user discards or has discarded

disk == <<note, history>>
queues == <<pieces, queue>>
engine == <<sess, queues, phase, left>>
ghost == <<said, hidden, raced, skipped, tossed>>
vars == <<disk, job, engine, spent, ghost>>

\* Items of the list in the window: a note, or an entry of the history.
NoteItem(x) == [kind |-> "note", of |-> x]
EntryItem(x) == [kind |-> "entry", of |-> x]
Items == {NoteItem(x) : x \in Notes} \cup {EntryItem(x) : x \in Texts}

Idle == [do |-> "idle", of |-> None, at |-> "", base |-> None]
Job(do, of, at) == [do |-> do, of |-> of, at |-> at, base |-> None]
Doing(t, do, at) == phase # "down" /\ job[t].do = do /\ job[t].at = at
Free(t) == phase # "down" /\ job[t] = Idle
Set(t, j) == job' = [job EXCEPT ![t] = j]
At(t, at) == job' = [job EXCEPT ![t].at = at]
Now(t) == job[t].of

NoDir == [there |-> FALSE, json |-> None, segs |-> 0]
NewJson == [status |-> "recording", archived |-> FALSE, rev |-> 1]

Init ==
  /\ note = [n \in Notes |-> NoDir] /\ history = <<>>
  /\ job = [t \in Threads |-> Idle]
  /\ sess = [x \in Texts |-> "new"] /\ pieces = [n \in Notes |-> 0] /\ queue = {}
  /\ phase = "down" /\ left = {}
  /\ spent = [asks |-> 0, crashes |-> 0, faults |-> 0]
  /\ said = <<>> /\ hidden = {} /\ raced = {} /\ skipped = FALSE /\ tossed = {}

Spend(what, max) == spent[what] < max /\ spent' = [spent EXCEPT ![what] = @ + 1]
\* A full disk, a read-only directory: the write raises and the file stays.
WriteRaises == Spend("faults", MaxFaults)

-----------------------------------------------------------------------------
(* note_store.py: reading and changing note.json.                            *)

\* mutant: the record is built anew from what the writer knows
ChangedAnew(json, what) == [NewJson EXCEPT !.rev = json.rev + 1,
  !.archived = (what = "archive"),
  !.status = IF what \in {"archive", "unarchive"} THEN json.status ELSE what]

\* What _update_note writes, given the record that was read.
Changed(json, what) ==
  LET next == [json EXCEPT !.rev = @ + 1]
  IN CASE what = "archive"   -> [next EXCEPT !.archived = TRUE]
       [] what = "unarchive" -> [next EXCEPT !.archived = FALSE]
       [] OTHER              -> [next EXCEPT !.status = what]

\* load_note of _update_note: with no readable record there is nothing to do.
LoadNote(t, n, miss) ==
  /\ IF note[n].json = None THEN Set(t, miss)
     ELSE job' = [job EXCEPT ![t].at = "write", ![t].base = note[n].json]
  /\ UNCHANGED <<disk, spent>>

\* _write_note makes the directory again if it is gone and replaces the file.
WriteNote(t, n, what) ==
  /\ note' = [note EXCEPT ![n].there = TRUE, ![n].json = Changed(job[t].base, what)]
  /\ raced' = IF note[n].json = job[t].base THEN raced ELSE raced \cup {n}
  /\ UNCHANGED history

-----------------------------------------------------------------------------
(* history.py.                                                               *)

EntryOf(x) == [of |-> x, archived |-> FALSE]
Archived(entries, x, flag) ==
  [i \in DOMAIN entries |->
     IF entries[i].of = x THEN [entries[i] EXCEPT !.archived = flag] ELSE entries[i]]
First(s, n) == SubSeq(s, 1, IF Len(s) < n THEN Len(s) ELSE n)

\* load(include_archived=True), the start of append, archive and unarchive.
LoadAll == First(history, MaxEntries)

\* mutant: load without include_archived, so the archived ones are dropped
AppendedToListed(x, entries) ==
  First(<<EntryOf(x)>> \o SelectSeq(entries, LAMBDA e : ~e.archived), MaxEntries)

\* append: the new entry in front of those that were read, cut to MaxEntries.
Appended(x, entries) == First(<<EntryOf(x)>> \o entries, MaxEntries)

LoadHistory(t) ==
  /\ job' = [job EXCEPT ![t].at = "save", ![t].base = LoadAll]
  /\ UNCHANGED <<disk, spent>>

\* _save writes a temporary file and replaces the list with it.
Save(t, entries) ==
  /\ history' = entries
  /\ raced' = IF history = job[t].base THEN raced ELSE raced \cup {"history"}
  /\ UNCHANGED note

-----------------------------------------------------------------------------
(* Recording: create_note, delete_note and the queues (daemon.py).  A session *)
(* is "stopping" while a paused note is finished: its end is queued and it is *)
(* still the active one.  It is "claimed" once its note id was taken out of   *)
(* the dictionary, by its failure or by its delivery.                         *)

\* A new recording takes the place of one that is being stopped.
Overtaken == [x \in Texts |-> IF sess[x] = "stopping" THEN "queued" ELSE sess[x]]

StartNote(n) ==
  /\ Free("control") /\ sess[n] = "new" /\ \A x \in Texts : sess[x] # "recording"
  /\ note' = [note EXCEPT ![n].there = TRUE]      \* mkdir, segments.jsonl
  /\ Set("control", Job("create", n, "write")) /\ sess' = Overtaken
  /\ UNCHANGED <<history, queues, phase, left, spent, ghost>>

\* note.json is written, and then the microphone may still refuse to start:
\* the note stays behind in the state "recording".
CreateWrite(micOk) ==
  /\ Doing("control", "create", "write")
  /\ note' = [note EXCEPT ![Now("control")].json = NewJson]
  /\ sess' = [sess EXCEPT ![Now("control")] = IF micOk THEN "recording" ELSE "orphan"]
  /\ Set("control", Idle)
  /\ IF micOk THEN UNCHANGED spent ELSE WriteRaises
  /\ UNCHANGED <<history, queues, phase, left, ghost>>

CreateFails ==
  /\ Doing("control", "create", "write") /\ WriteRaises
  /\ sess' = [sess EXCEPT ![Now("control")] = "orphan"]
  /\ Set("control", Idle)
  /\ UNCHANGED <<disk, queues, phase, left, ghost>>

\* A backend that streams gets pieces while it is recorded, every backend the
\* part before a pause.
Cut(n) ==
  /\ phase # "down" /\ sess[n] = "recording" /\ pieces[n] < MaxPieces
  /\ pieces' = [pieces EXCEPT ![n] = @ + 1]
  /\ UNCHANGED <<disk, job, sess, queue, phase, left, spent, ghost>>

\* A dictation leaves nothing on disk before its text is there.
Finish(x) ==
  /\ Free("control") /\ \A y \in Texts \ {x} : sess[y] # "recording"
  /\ sess[x] = (IF x \in Notes THEN "recording" ELSE "new")
  /\ sess' = [Overtaken EXCEPT ![x] = "queued"] /\ queue' = queue \cup {x}
  /\ UNCHANGED <<disk, job, pieces, phase, left, spent, ghost>>

\* A paused note is finished without the control lock, in two steps.
FinishPaused(n) ==
  /\ phase # "down" /\ sess[n] = "recording"
  /\ sess' = [sess EXCEPT ![n] = "stopping"] /\ queue' = queue \cup {n}
  /\ UNCHANGED <<disk, job, pieces, phase, left, spent, ghost>>

Stopped(n) ==
  /\ sess[n] = "stopping" /\ sess' = [sess EXCEPT ![n] = "queued"]
  /\ UNCHANGED <<disk, job, queues, phase, left, spent, ghost>>

(* _fail_recording_session, from an operation (the microphone does not stop,  *)
(* the clip is truncated, the queue of final chunks is full) or from the      *)
(* recorder's thread (the queue of pieces is full), beside any operation.     *)
CaptureFails(t, n) ==
  /\ t \in {"control", "recorder"} /\ Free(t) /\ sess[n] = "recording"
  /\ Spend("faults", MaxFaults)
  /\ sess' = [sess EXCEPT ![n] = "claimed"]
  /\ Set(t, Job("failed", n, "load"))
  /\ UNCHANGED <<disk, queues, phase, left, ghost>>

\* cancel_note_recording: shutil.rmtree removes the files, then the directory,
\* which fails when somebody wrote into it meanwhile.
Discard(n) ==
  /\ Free("control") /\ sess[n] \in {"recording", "stopping"}
  /\ Set("control", Job("discard", n, "unlink"))
  /\ tossed' = tossed \cup {n}
  /\ UNCHANGED <<disk, engine, spent, said, hidden, raced, skipped>>

Unlink ==
  /\ Doing("control", "discard", "unlink")
  /\ note' = [note EXCEPT ![Now("control")].json = None, ![Now("control")].segs = 0]
  /\ At("control", "rmdir")
  /\ UNCHANGED <<history, engine, spent, ghost>>

RemoveDir ==
  /\ Doing("control", "discard", "rmdir")
  /\ LET n == Now("control") IN
       note' = IF note[n].json = None /\ note[n].segs = 0 THEN [note EXCEPT ![n] = NoDir] ELSE note
  /\ At("control", "forget")
  /\ UNCHANGED <<history, engine, spent, ghost>>

Open(x) == sess[x] \in {"recording", "stopping", "queued"}

\* Only now is the session terminal, and what waits for the worker purged.
Forget ==
  /\ Doing("control", "discard", "forget")
  /\ LET n == Now("control") IN
       /\ sess' = [sess EXCEPT ![n] = IF Open(n) THEN "gone" ELSE @]
       /\ pieces' = [pieces EXCEPT ![n] = 0] /\ queue' = queue \ {n}
  /\ Set("control", Idle)
  /\ UNCHANGED <<disk, phase, left, spent, ghost>>

-----------------------------------------------------------------------------
(* The worker: a piece becomes a segment, a decoded recording the segments    *)
(* that are left, a settled note and an entry of the history.  The pieces go  *)
(* first; what waits is taken in any order, that of the two queues included.  *)

Done(x) == sess' = [sess EXCEPT ![x] = IF @ = "gone" THEN @ ELSE "done"]
\* The worker's failure of a session, unless it is terminal already.
Fail(x) == IF Open(x)
           THEN sess' = [sess EXCEPT ![x] = "claimed"] /\ Set("worker", Job("failed", x, "load"))
           ELSE Set("worker", Idle) /\ UNCHANGED sess

(* A piece, up to the last look at the terminal sessions: it has text, none,  *)
(* or it cannot be decoded.                                                   *)
TakePiece(n, text) ==
  /\ phase = "up" /\ Free("worker") /\ pieces[n] > 0
  /\ pieces' = [pieces EXCEPT ![n] = @ - 1]
  /\ \/ ~text /\ Fail(n)
     \/ text /\ Open(n) /\ note[n].segs < Segments
        /\ Set("worker", Job("piece", n, "segment")) /\ UNCHANGED sess
     \/ text /\ UNCHANGED <<job, sess>>
  /\ UNCHANGED <<disk, queue, phase, left, spent, ghost>>

(* The end of a recording.  The decoder found more text; or not, and the note *)
(* has only what its pieces brought; or an error.  A dictation without text   *)
(* is over.                                                                   *)
TakeNext(x, text) ==
  /\ phase = "up" /\ Free("worker") /\ x \in queue /\ \A n \in Notes : pieces[n] = 0
  /\ queue' = queue \ {x}
  /\ \/ x \in Notes /\ text /\ Open(x)
        /\ Set("worker", Job("decode", x, IF note[x].segs < Segments THEN "segment" ELSE "check"))
        /\ UNCHANGED sess
     \/ x \in Notes /\ text /\ ~Open(x) /\ UNCHANGED <<job, sess>>
     \/ x \in Notes /\ ~text /\ Fail(x)
     \/ x \notin Notes /\ text /\ Set("worker", Job("append", x, "load")) /\ UNCHANGED sess
     \/ x \notin Notes /\ ~text /\ UNCHANGED job /\ Done(x)
  /\ UNCHANGED <<disk, pieces, phase, left, spent, ghost>>

\* append_segment makes the directory again if it is gone.
AppendSegment ==
  /\ \E do \in {"piece", "decode"} : Doing("worker", do, "segment")
  /\ LET n == Now("worker") IN
       /\ note' = [note EXCEPT ![n].there = TRUE, ![n].segs = @ + 1]
       /\ IF job["worker"].do = "piece" THEN Set("worker", Idle)
          ELSE IF note'[n].segs < Segments THEN UNCHANGED job ELSE At("worker", "check")
  /\ UNCHANGED <<history, engine, spent, ghost>>

\* mutant: the error is logged and the note settled as if it were stored
SegmentFailsQuietly ==
  /\ Doing("worker", "decode", "segment") /\ WriteRaises
  /\ At("worker", "check")
  /\ UNCHANGED <<disk, engine, ghost>>

\* The directory may also go between mkdir and open.
SegmentFails ==
  /\ \E do \in {"piece", "decode"} : Doing("worker", do, "segment")
  /\ \/ WriteRaises
     \/ Doing("control", "discard", "forget") /\ Now("control") = Now("worker") /\ UNCHANGED spent
  /\ Fail(Now("worker"))
  /\ UNCHANGED <<disk, queues, phase, left, ghost>>

\* The last look before the delivery.
Check ==
  /\ Doing("worker", "decode", "check")
  /\ IF Open(Now("worker")) THEN At("worker", "claim") ELSE Set("worker", Idle)
  /\ UNCHANGED <<disk, engine, spent, ghost>>

\* The note id is taken; a discard since the look has dropped it, and only the
\* history gets the text.
Claim ==
  /\ Doing("worker", "decode", "claim")
  /\ LET n == Now("worker") IN
       IF Open(n)
         THEN sess' = [sess EXCEPT ![n] = "claimed"] /\ Set("worker", Job("ready", n, "load"))
         ELSE UNCHANGED sess /\ Set("worker", Job("append", n, "load"))
  /\ UNCHANGED <<disk, queues, phase, left, spent, ghost>>

\* mark_ready and mark_failed of the worker, mark_failed of an operation and of
\* the recorder, mark_interrupted of a recovery.
AfterMark(t) ==
  IF job[t].do = "ready" THEN Job("append", Now(t), "load") ELSE Idle

MarkLoad(t) ==
  /\ t \in Engine /\ \E st \in Settled : Doing(t, st, "load")
  /\ LoadNote(t, Now(t), AfterMark(t))
  /\ IF job'[t] = Idle /\ t # "start" THEN Done(Now(t)) ELSE UNCHANGED sess
  /\ UNCHANGED <<queues, phase, left, ghost>>

MarkWrite(t) ==
  /\ t \in Engine /\ \E st \in Settled : Doing(t, st, "write")
  /\ WriteNote(t, Now(t), job[t].do)
  /\ Set(t, AfterMark(t))
  /\ IF job'[t] = Idle /\ t # "start" THEN Done(Now(t)) ELSE UNCHANGED sess
  /\ UNCHANGED <<queues, phase, left, spent, said, hidden, skipped, tossed>>

\* A note that cannot be marked ready is marked failed and gets no entry; a
\* recovery that cannot write gives up, and the engine starts all the same.
MarkFails(t) ==
  /\ t \in Engine /\ \E st \in Settled : Doing(t, st, "write")
  /\ WriteRaises
  /\ Set(t, IF job[t].do = "ready" THEN Job("failed", Now(t), "load") ELSE Idle)
  /\ IF job[t].do = "failed" THEN Done(Now(t)) ELSE UNCHANGED sess
  /\ IF t = "start" THEN left' = {} /\ skipped' = TRUE ELSE UNCHANGED <<left, skipped>>
  /\ UNCHANGED <<disk, queues, phase, said, hidden, raced, tossed>>

AppendLoad ==
  /\ Doing("worker", "append", "load") /\ LoadHistory("worker")
  /\ UNCHANGED <<engine, ghost>>

AppendSave ==
  /\ Doing("worker", "append", "save")
  /\ LET x == Now("worker") IN
       /\ Save("worker", Appended(x, job["worker"].base))
       /\ said' = <<x>> \o said
       /\ Done(x)
  /\ Set("worker", Idle)
  /\ UNCHANGED <<queues, phase, left, spent, hidden, skipped, tossed>>

\* "History save failed": the text is typed without an entry.
AppendFails ==
  /\ Doing("worker", "append", "save") /\ WriteRaises
  /\ Done(Now("worker")) /\ Set("worker", Idle)
  /\ UNCHANGED <<disk, queues, phase, left, ghost>>

-----------------------------------------------------------------------------
(* The window: what it lists and what it asks for (ui_server.py).             *)

\* get_history: notes that are not archived and have text, and the entries
\* whose text is not already there.
ListedNotes == {n \in Notes : /\ note[n].json # None /\ note[n].segs > 0
                              /\ ~note[n].json.archived}
Duplicate(x) == x \in ListedNotes /\ note[x].segs = Segments
Shown ==
  {NoteItem(n) : n \in ListedNotes} \cup
  {EntryItem(history[i].of) : i \in {j \in DOMAIN history :
                                       ~history[j].archived /\ ~Duplicate(history[j].of)}}

\* archive_history_item and unarchive_history_item, for an item of the list
\* and to undo it; a note is looked at before it is changed.
Ask(u, do, item) ==
  /\ Free(u) /\ Spend("asks", MaxAsks)
  /\ (do = "archive" /\ item \in Shown) \/ (do = "unarchive" /\ item \in hidden)
  /\ Set(u, Job(do, item, IF item.kind = "note" THEN "check" ELSE "load"))
  /\ UNCHANGED <<disk, engine, ghost>>

Hide(u) == hidden' = IF job[u].do = "archive" THEN hidden \cup {Now(u)} ELSE hidden \ {Now(u)}

\* load_note before the change: no note is a 404; one that is already so needs
\* no write.
AskCheck(u) ==
  /\ \E do \in {"archive", "unarchive"} : Doing(u, do, "check")
  /\ LET json == note[Now(u).of].json
         same == json # None /\ json.archived = (job[u].do = "archive")
     IN IF json = None \/ same
          THEN Set(u, Idle) /\ (IF same THEN Hide(u) ELSE UNCHANGED hidden)
          ELSE At(u, "load") /\ UNCHANGED hidden
  /\ UNCHANGED <<disk, engine, spent, said, raced, skipped, tossed>>

AskLoad(u) ==
  /\ \E do \in {"archive", "unarchive"} : Doing(u, do, "load")
  /\ IF Now(u).kind = "note" THEN LoadNote(u, Now(u).of, Idle)
     ELSE IF \E i \in DOMAIN LoadAll : LoadAll[i].of = Now(u).of THEN LoadHistory(u)
     ELSE Set(u, Idle) /\ UNCHANGED <<disk, spent>>
  /\ UNCHANGED <<engine, ghost>>

AskWrite(u) ==
  /\ \E do \in {"archive", "unarchive"} : Doing(u, do, "write") \/ Doing(u, do, "save")
  /\ IF Now(u).kind = "note" THEN WriteNote(u, Now(u).of, job[u].do)
     ELSE Save(u, Archived(job[u].base, Now(u).of, job[u].do = "archive"))
  /\ Hide(u) /\ Set(u, Idle)
  /\ UNCHANGED <<engine, spent, said, skipped, tossed>>

\* clear_history saves an empty list, whatever is there.
Clear(u) ==
  /\ Free(u) /\ history # <<>> /\ Spend("asks", MaxAsks)
  /\ history' = <<>> /\ said' = <<>>
  /\ UNCHANGED <<note, job, engine, hidden, raced, skipped, tossed>>

-----------------------------------------------------------------------------
(* Start and death of an engine.                                              *)

Start ==
  /\ phase = "down" /\ phase' = "starting"
  /\ left' = {n \in Notes : note[n].there} /\ skipped' = FALSE
  /\ UNCHANGED <<disk, job, sess, queues, spent, said, hidden, raced, tossed>>

\* mutant: every note of an earlier engine counts as cut off
StaleAny(json) == json # None

\* recover_interrupted, one directory; without note.json it is passed over.
Stale(json) == json # None /\ json.status \in InFlight

RecoverNext(n) ==
  /\ phase = "starting" /\ Free("start") /\ n \in left
  /\ left' = left \ {n}
  /\ IF Stale(note[n].json) THEN Set("start", Job("interrupted", n, "load")) ELSE UNCHANGED job
  /\ UNCHANGED <<disk, sess, queues, phase, spent, ghost>>

\* Daemon.start goes on to start the worker.
Recovered ==
  /\ phase = "starting" /\ Free("start") /\ left = {}
  /\ phase' = "up"
  /\ UNCHANGED <<disk, job, sess, queues, left, spent, ghost>>

Crash ==
  /\ phase # "down" /\ Spend("crashes", MaxCrashes)
  /\ phase' = "down" /\ left' = {} /\ pieces' = [n \in Notes |-> 0] /\ queue' = {}
  /\ job' = [t \in Threads |-> Idle]
  /\ sess' = [x \in Texts |-> IF sess[x] \in {"done", "gone"} \/ (sess[x] = "new" /\ Now("control") # x)
                              THEN sess[x] ELSE "old"]
  /\ UNCHANGED <<disk, ghost>>

\* Everything was said and settled, and nobody asks for more.
Rest ==
  /\ phase = "up" /\ (\A n \in Notes : pieces[n] = 0) /\ queue = {}
  /\ \A t \in Threads : job[t] = Idle
  /\ UNCHANGED vars

Recording ==
  \/ \E n \in Notes : StartNote(n) \/ Cut(n) \/ FinishPaused(n) \/ Stopped(n) \/ Discard(n)
  \/ \E n \in Notes, t \in Threads : CaptureFails(t, n)
  \/ \E ok \in BOOLEAN : CreateWrite(ok)
  \/ \E x \in Texts : Finish(x)
  \/ CreateFails \/ Unlink \/ RemoveDir \/ Forget

Deciding ==
  \E text \in BOOLEAN : \/ \E n \in Notes : TakePiece(n, text)
                       \/ \E x \in Texts : TakeNext(x, text)

Settling ==
  \/ AppendSegment \/ SegmentFails \/ Check \/ Claim \/ AppendLoad \/ AppendSave \/ AppendFails
  \/ \E t \in Threads : MarkLoad(t) \/ MarkWrite(t) \/ MarkFails(t)

Asking ==
  \/ \E u \in Ui, do \in {"archive", "unarchive"}, item \in Items : Ask(u, do, item)
  \/ \E u \in Ui : AskCheck(u) \/ AskLoad(u) \/ AskWrite(u) \/ Clear(u)

Next ==
  \/ Recording \/ Deciding \/ Settling \/ Asking
  \/ Start \/ (\E n \in Notes : RecoverNext(n)) \/ Recovered \/ Crash \/ Rest

Spec == Init /\ [][Next]_vars

-----------------------------------------------------------------------------
NoteType == [there : BOOLEAN, json : JsonType \cup {None}, segs : 0..Segments]

\* The shape of the files and of what the engine knows; a list that is too
\* long or a segment too many would break it.
TypeOK ==
  /\ note \in [Notes -> NoteType]
  /\ history \in Seq([of : Texts, archived : BOOLEAN]) /\ Len(history) <= MaxEntries
  /\ sess \in [Texts -> {"new", "recording", "stopping", "queued", "claimed", "done", "gone", "orphan", "old"}]
  /\ pieces \in [Notes -> 0..MaxPieces] /\ queue \subseteq Texts /\ left \subseteq Notes
  /\ phase \in {"down", "starting", "up"}
  /\ hidden \subseteq Items /\ raced \subseteq Notes \cup {"history"}
  /\ said \in Seq(Texts) /\ skipped \in BOOLEAN /\ tossed \subseteq Notes

\* A note that is listed as ready has every segment the decoder gave it,
\* whenever the engine died and whoever wrote the record in between.  A note
\* the user discards while it is settled is left out.
ReadyIsComplete ==
  \A n \in Notes \ tossed : note[n].json # None /\ note[n].json.status = "ready"
                            => note[n].segs = Segments

\* Text that reached the disk can be found: its directory has a record.  The
\* directory of a note that was discarded may come back without one, when the
\* worker had a segment of it in its hands.
TextReachable ==
  \A n \in Notes \ tossed : note[n].segs > 0 => note[n].json # None

\* A note the user has discarded has no record that the window could list,
\* whatever the worker, a failure or a request did with it meanwhile, unless
\* one of them wrote over a record it had not read.
DiscardedIsGone ==
  \A n \in Notes \ raced : sess[n] = "gone" => note[n].json = None

\* Once an engine is up, a note of an engine that died is not left recording,
\* unless the recovery gave up or somebody else wrote that note meanwhile.
SettledAfterStart ==
  phase = "up" /\ ~skipped =>
    \A n \in Notes : sess[n] = "old" /\ n \notin raced /\ note[n].json # None
                     => note[n].json.status \in Settled

\* What is on disk is what the engine says it is, after every start.
StoreInv == TypeOK /\ ReadyIsComplete /\ TextReachable /\ DiscardedIsGone /\ SettledAfterStart

\* The history is the last texts that were said since it was cleared, the
\* newest first and none missing, unless two threads changed it at once.
HistoryRolls ==
  "history" \notin raced => [i \in DOMAIN history |-> history[i].of] = First(said, MaxEntries)

\* What was archived stays so while the worker settles the same note and adds
\* entries to the same list.
ArchiveSticks ==
  \A item \in hidden :
    IF item.kind = "note"
      THEN item.of \in raced \/ note[item.of].json = None \/ note[item.of].json.archived
      ELSE "history" \in raced \/ \A i \in DOMAIN history : history[i].of = item.of => history[i].archived

\* A note that was settled by the worker keeps its status: a later start does
\* not take it for one that was cut off, nor does a request of the window.
FinishedStays ==
  [][\A n \in Notes \ raced' :
       /\ note[n].json # None /\ note'[n].json # None
       /\ note[n].json.status \in {"ready", "failed"}
       => note'[n].json.status = note[n].json.status]_vars
=============================================================================
