------------------------------- MODULE Daemon -------------------------------
(***************************************************************************)
(* The recording core of dictate: daemon.py with the shipped, non-streaming*)
(* speech backend (Parakeet) and a loaded model.                           *)
(*                                                                         *)
(* Threads run the public operations of the daemon concurrently: the       *)
(* shortcut listener (press and release), the HTTP threads of the UI       *)
(* server, the tray, the transcription worker, the thread that pauses a    *)
(* silent note and the one that cleans up after a failed recording.  They  *)
(* meet on three locks (control, recording, engine) and two queues.  A     *)
(* step is the code between two points where another thread can run and    *)
(* see the difference; a section under the queue lock is one step.         *)
(***************************************************************************)
EXTENDS Integers, Sequences, FiniteSets

CONSTANTS
  UIs,            \* threads of the UI server that handle note requests
  Ops,            \* the user operations that may happen, from AllOps
  Faults,         \* what may go wrong, from AllFaults
  MaxOps,         \* bound: user operations in a behaviour
  FinalCap,       \* FINAL_AUDIO_QUEUE_SIZE
  PartialCap      \* FINAL_WINDOW_QUEUE_SIZE

AllOps == {"press", "start", "toggle", "pause", "resume", "stop", "cancel",
           "silence", "deactivate", "activate", "combo", "switch", "shutdown"}
AllFaults == {"mic start", "mic stop", "truncated", "no note", "decode",
              "segment", "mark ready", "output"}

Workers == {"hotkey", "tray", "worker", "auto", "cleaner"}
Threads == UIs \cup Workers
Free == "free"

ASSUME ThreadsAssumption == UIs \cap (Workers \cup {Free}) = {}
ASSUME BoundsAssumption  == /\ Ops \subseteq AllOps
                            /\ Faults \subseteq AllFaults
                            /\ MaxOps \in Nat
                            /\ FinalCap \in Nat \ {0}
                            /\ PartialCap \in Nat \ {0}

TerminalCap == FinalCap + PartialCap      \* TERMINAL_RECORDING_CACHE_SIZE
Ids   == 1..MaxOps                        \* a recording needs an operation
NoId  == 0                                \* None
Modes == {"dictation", "note"}

\* What a user can observe of a recording: the text typed, the entry in the
\* history, the messages on the transcript and note channels.
Events == {"history", "typed", "note", "note empty", "note failed",
           "failed", "discarded"}

\* A chunk of audio holds the captures (recorder start to stop) it was cut
\* from; the empty chunk ends a note that was stopped while paused.
StopSignal == [id |-> NoId, captures |-> <<>>]       \* None in the queue

NoSession == [mode |-> "none", stt |-> 0, note |-> FALSE, open |-> FALSE,
              parts |-> <<>>]
NoLocals  == [id |-> NoId, mode |-> "dictation", captures |-> <<>>,
              final |-> FALSE, active |-> FALSE, running |-> FALSE,
              note |-> FALSE, failMode |-> "dictation", hard |-> FALSE,
              ret |-> "idle", back |-> "idle", keptPartials |-> <<>>, keptFinals |-> <<>>,
              said |-> <<>>]

VARIABLES
  ctl, rec, eng,        \* holders of _recorder_control_lock, _recording_lock, _engine_lock
  pc, loc,              \* where each thread is, and its locals
  gen, activeId,        \* _recording_generation, _active_recording_id
  paused,               \* _note_recording_paused
  recOn,                \* recorder.is_recording
  caps,                 \* number of captures started so far
  sess,                 \* the dictionaries keyed by recording id
  terminal, termOrder,  \* _terminal_recordings and its eviction order
  partialQ, finalQ,     \* _partial_audio_queue, _audio_queue
  disk, segs,           \* status in note.json, lines of segments.jsonl
  log, text,            \* times each event was seen, and the text delivered
  micShown, noteShown,  \* last recording and note-recording callbacks
  accepting, stopped,   \* active, _stop
  listening, pressed,   \* the shortcut backend runs; its pressed flag
  failing,              \* failed recordings whose cleanup thread has not run
  stt,                  \* identity of engine.stt
  ops                   \* user operations so far

locks    == <<ctl, rec, eng>>
threads  == <<pc, loc>>
capture  == <<gen, activeId, paused, recOn, caps>>
sessions == <<sess, terminal, termOrder>>
queues   == <<partialQ, finalQ>>
notes    == <<disk, segs>>
outcome  == <<log, text>>
shown    == <<micShown, noteShown>>
control  == <<accepting, stopped, listening, pressed, failing, stt, ops>>
vars     == <<locks, threads, capture, sessions, queues, notes, outcome,
              shown, control>>

-----------------------------------------------------------------------------
(* Lookups and updates the operations share. *)

ModeOf(id) == IF id \in Ids /\ sess[id].mode # "none" THEN sess[id].mode ELSE "dictation"
Failed(id) == id \in terminal
Known(id)  == id \in Ids /\ sess[id].stt # 0 /\ ~Failed(id)
ClearedDropsKey(s, id) == [i \in DOMAIN s \ {id} |-> s[i]]             \* mutant
Cleared(s, id) == [s EXCEPT ![id] = NoSession]

Goto(t, label) == pc' = [pc EXCEPT ![t] = label]
See(id, events) ==
  log' = [log EXCEPT ![id] = [e \in Events |-> @[e] + IF e \in events THEN 1 ELSE 0]]

\* Mutant: the evicted id is forgotten although the order still has it.
RememberOnce(id) ==
  LET order == Append(termOrder, id)
      full  == Len(order) > TerminalCap
      kept  == IF full THEN Tail(order) ELSE order
  IN  /\ termOrder' = kept
      /\ terminal' = (terminal \cup {id}) \ (IF full THEN {Head(order)} ELSE {})

\* Add id to the terminal recordings, the oldest entry leaving when the cache
\* is full: an id that is in the order twice stays.
Remember(id) ==
  LET order == Append(termOrder, id)
      full  == Len(order) > TerminalCap
      kept  == IF full THEN Tail(order) ELSE order
      gone  == IF full /\ \A i \in DOMAIN kept : kept[i] # Head(order)
               THEN {Head(order)} ELSE {}
  IN  /\ termOrder' = kept
      /\ terminal' = (terminal \cup {id}) \ gone

\* The recording callbacks at the beginning and at the end of a capture.
ShowCapturingNoteOnly(mode) ==                                        \* mutant
  /\ UNCHANGED micShown
  /\ noteShown' = IF mode = "note" THEN "on" ELSE noteShown
ShowCapturing(mode) ==
  /\ micShown' = TRUE
  /\ noteShown' = IF mode = "note" THEN "on" ELSE noteShown
ShowStopped(mode) ==
  /\ micShown' = FALSE
  /\ noteShown' = IF mode = "note" THEN "off" ELSE noteShown

\* Go to the first step of an operation.
Begin(t, label, mode) ==
  /\ Goto(t, label)
  /\ loc' = [loc EXCEPT ![t].mode = mode]

Acquire(t, from, to) ==
  /\ pc[t] = from
  /\ ctl = Free
  /\ ctl' = t
  /\ Goto(t, to)
  /\ UNCHANGED <<rec, eng, loc, capture, sessions, queues, notes, outcome, shown, control>>

\* Return from an operation; Leave also gives back the control lock.
Return(t) == /\ Goto(t, loc[t].back)
             /\ loc' = [loc EXCEPT ![t] = NoLocals]
Leave(t)  == /\ ctl' = Free
             /\ Return(t)

\* Re-read under the lock: the recording is still the active one.
CurrentUnchecked(id) == TRUE                                          \* mutant
Current(id) == activeId = id /\ ~Failed(id)

RecFree(t) == rec \in {Free, t}

\* Enter the failure handler, to go on at ret once it is done.
Fail(t, id, hard, ret) ==
  /\ loc' = [loc EXCEPT ![t].id = id, ![t].hard = hard, ![t].ret = ret]
  /\ Goto(t, "F1")

-----------------------------------------------------------------------------
(* _start_recording *)

StartLock(t) == Acquire(t, "S0", "S1")

StartCheck(t) ==
  /\ pc[t] = "S1"
  /\ RecFree(t)
  /\ IF recOn \/ ~accepting \/ paused \/ gen = MaxOps
     THEN /\ Leave(t)
          /\ UNCHANGED <<rec, gen, activeId>>
     ELSE /\ rec' = t
          /\ gen' = gen + 1
          /\ activeId' = gen + 1
          /\ loc' = [loc EXCEPT ![t].id = gen + 1]
          /\ Goto(t, "S2")
          /\ UNCHANGED ctl
  /\ UNCHANGED <<eng, paused, recOn, caps, sessions, queues, notes, outcome, shown, control>>

\* Register the session under the engine and queue locks, create the note and
\* start the microphone.  Either can fail: the session is forgotten.
StartCapture(t) ==
  LET id == loc[t].id
      m  == loc[t].mode
  IN
  /\ pc[t] = "S2"
  /\ eng = Free
  /\ Leave(t)
  /\ rec' = Free
  /\ terminal' = terminal \ {id}
  /\ \/ /\ sess' = [sess EXCEPT ![id] =
                      [mode |-> m, stt |-> stt, note |-> m = "note", open |-> TRUE, parts |-> <<>>]]
        /\ disk' = IF m = "note" THEN [disk EXCEPT ![id] = "recording"] ELSE disk
        /\ recOn' = TRUE
        /\ caps' = caps + 1
        /\ ShowCapturing(m)
        /\ UNCHANGED <<activeId, log>>
     \/ /\ "mic start" \in Faults
        /\ sess' = Cleared(sess, id)
        /\ disk' = IF m = "note" THEN [disk EXCEPT ![id] = "recording"] ELSE disk
        /\ activeId' = NoId
        /\ UNCHANGED <<recOn, caps, shown, log>>
     \/ /\ "no note" \in Faults /\ m = "note"
        /\ sess' = Cleared(sess, id)
        /\ activeId' = NoId
        /\ See(id, {"note failed"})
        /\ UNCHANGED <<recOn, caps, disk, shown>>
  /\ UNCHANGED <<eng, gen, paused, termOrder, queues, segs, text, control>>

-----------------------------------------------------------------------------
(* _finalize_recording *)

FinalizeLock(t) == Acquire(t, "Z0", "Z1")

\* Read the active recording and stop the microphone.
FinalizeStop(t) ==
  LET id == activeId IN
  /\ pc[t] = "Z1"
  /\ RecFree(t)
  /\ IF id = NoId
     THEN /\ Leave(t)
          /\ UNCHANGED recOn
     ELSE /\ recOn' = FALSE
          /\ UNCHANGED ctl
          /\ \/ \E audio \in {<<>>} \cup (IF recOn THEN {<<caps>>} ELSE {}) :
                  loc' = [loc EXCEPT ![t].id = id, ![t].mode = ModeOf(id), ![t].captures = audio]
                /\ Goto(t, "Z2")
             \/ /\ "mic stop" \in Faults /\ recOn
                /\ loc' = [loc EXCEPT ![t].id = id, ![t].mode = ModeOf(id),
                                      ![t].hard = TRUE, ![t].ret = "Z4"]
                /\ Goto(t, "F1")
  /\ UNCHANGED <<rec, eng, gen, activeId, paused, caps, sessions, queues, notes, outcome, shown, control>>

\* Queue the audio for the worker.  A full queue and audio the ring buffer has
\* overwritten fail the recording; a failed recording is only cleared.
FinalizeQueue(t) ==
  LET id == loc[t].id
      audio == loc[t].captures
      chunk == [id |-> id, captures |-> audio]
  IN
  /\ pc[t] = "Z2"
  /\ \/ /\ Failed(id)
        /\ RecFree(t)
        /\ activeId' = IF activeId = id THEN NoId ELSE activeId
        /\ paused' = FALSE
        /\ sess' = Cleared(sess, id)
        /\ ShowStopped(loc[t].mode)
        /\ Leave(t)
        /\ UNCHANGED finalQ
     \/ /\ ~Failed(id) /\ (audio = <<>> \/ ~Known(id))
        /\ Goto(t, "Z3")
        /\ UNCHANGED <<ctl, loc, activeId, paused, sess, shown, finalQ>>
     \/ /\ Known(id) /\ audio # <<>> /\ Len(finalQ) < FinalCap
        /\ finalQ' = Append(finalQ, chunk)
        /\ Goto(t, "Z3")
        /\ UNCHANGED <<ctl, loc, activeId, paused, sess, shown>>
     \/ /\ Known(id) /\ audio # <<>> /\ Len(finalQ) >= FinalCap
        /\ Fail(t, id, FALSE, "Z3")
        /\ UNCHANGED <<ctl, activeId, paused, sess, shown, finalQ>>
     \/ /\ "truncated" \in Faults /\ ~Failed(id) /\ audio # <<>>
        /\ Fail(t, id, TRUE, "Z4")
        /\ UNCHANGED <<ctl, activeId, paused, sess, shown, finalQ>>
  /\ UNCHANGED <<rec, eng, gen, recOn, caps, terminal, termOrder, partialQ, notes, outcome, control>>

FinalizeEnd(t) ==
  LET id == loc[t].id IN
  /\ pc[t] = "Z3"
  /\ RecFree(t)
  /\ IF Current(id)
     THEN /\ activeId' = NoId
          /\ paused' = FALSE
          /\ ShowStopped(loc[t].mode)
     ELSE UNCHANGED <<activeId, paused, shown>>
  /\ Leave(t)
  /\ UNCHANGED <<rec, eng, gen, recOn, caps, sessions, queues, notes, outcome, control>>

\* The early returns after a microphone error and after truncated audio.
FinalizeFailed(t) ==
  /\ pc[t] = "Z4"
  /\ ShowStopped(loc[t].mode)
  /\ Leave(t)
  /\ UNCHANGED <<rec, eng, capture, sessions, queues, notes, outcome, control>>

-----------------------------------------------------------------------------
(* pause_note_recording and resume_note_recording *)

PauseLock(t) == Acquire(t, "P0", "P1")

PauseStop(t) ==
  LET id == activeId IN
  /\ pc[t] = "P1"
  /\ RecFree(t)
  /\ IF id = NoId \/ paused \/ ~recOn \/ ModeOf(id) # "note"
     THEN /\ Leave(t)
          /\ UNCHANGED recOn
     ELSE /\ recOn' = FALSE
          /\ \/ \E audio \in {<<>>, <<caps>>} :
                  /\ loc' = [loc EXCEPT ![t].id = id, ![t].captures = audio]
                  /\ Goto(t, "P2")
                  /\ UNCHANGED ctl
             \/ /\ "mic stop" \in Faults
                /\ Leave(t)
  /\ UNCHANGED <<rec, eng, gen, activeId, paused, caps, sessions, queues, notes, outcome, shown, control>>

\* Queue the audio so far, dropping the oldest chunk when the queue is full.
PauseQueue(t) ==
  LET id == loc[t].id
      chunk == [id |-> id, captures |-> loc[t].captures]
  IN
  /\ pc[t] = "P2"
  /\ \/ /\ Failed(id) \/ (loc[t].captures # <<>> /\ ~Known(id))
        /\ Leave(t)
        /\ UNCHANGED partialQ
     \/ /\ ~Failed(id) /\ loc[t].captures = <<>>
        /\ Goto(t, "P3")
        /\ UNCHANGED <<ctl, loc, partialQ>>
     \/ /\ Known(id) /\ loc[t].captures # <<>>
        /\ partialQ' = Append(IF Len(partialQ) < PartialCap THEN partialQ ELSE Tail(partialQ), chunk)
        /\ Goto(t, "P3")
        /\ UNCHANGED <<ctl, loc>>
  /\ UNCHANGED <<rec, eng, capture, sessions, finalQ, notes, outcome, shown, control>>

PauseEnd(t) ==
  /\ pc[t] = "P3"
  /\ RecFree(t)
  /\ IF Current(loc[t].id)
     THEN /\ paused' = TRUE
          /\ micShown' = FALSE
          /\ noteShown' = "paused"
     ELSE UNCHANGED <<paused, shown>>
  /\ Leave(t)
  /\ UNCHANGED <<rec, eng, gen, activeId, recOn, caps, sessions, queues, notes, outcome, control>>

ResumeLock(t) == Acquire(t, "R0", "R1")

\* The recording lock is held throughout; start_note_recording already holds it.
Resume(t) ==
  /\ pc[t] = "R1"
  /\ RecFree(t)
  /\ rec' = Free
  /\ Leave(t)
  /\ \/ /\ paused /\ activeId # NoId /\ ModeOf(activeId) = "note"
        /\ paused' = FALSE
        /\ recOn' = TRUE
        /\ caps' = caps + IF recOn THEN 0 ELSE 1
        /\ ShowCapturing("note")
     \/ /\ \/ ~paused \/ activeId = NoId \/ ModeOf(activeId) # "note"
           \/ "mic start" \in Faults
        /\ UNCHANGED <<paused, recOn, caps, shown>>
  /\ UNCHANGED <<eng, gen, activeId, sessions, queues, notes, outcome, control>>

-----------------------------------------------------------------------------
(* start_note_recording and toggle_note_recording *)

\* start_note_recording asks for the control lock while it holds the recording
\* lock when the note is paused; every other operation takes them the other way.
StartNote(t) ==
  /\ pc[t] = "N0"
  /\ RecFree(t)
  /\ IF paused THEN rec' = t /\ Begin(t, "R0", "note")
               ELSE UNCHANGED rec /\ Begin(t, "S0", "note")
  /\ UNCHANGED <<ctl, eng, capture, sessions, queues, notes, outcome, shown, control>>

Toggle(t) ==
  LET capturing == recOn /\ activeId # NoId IN
  /\ pc[t] = "G0"
  /\ RecFree(t)
  /\ \/ paused /\ Begin(t, "R0", "note")
     \/ /\ ~paused
        /\ \/ capturing /\ ModeOf(activeId) = "note" /\ Begin(t, "Z0", "note")
           \/ capturing /\ ModeOf(activeId) # "note" /\ Return(t)
           \/ ~capturing /\ Begin(t, "S0", "note")
  /\ UNCHANGED <<locks, capture, sessions, queues, notes, outcome, shown, control>>

-----------------------------------------------------------------------------
(* stop_note_recording: a paused note ends outside the control lock *)

StopLock(t) == Acquire(t, "T0", "T1")

StopCheck(t) ==
  /\ pc[t] = "T1"
  /\ RecFree(t)
  /\ ctl' = Free
  /\ IF activeId = NoId \/ ModeOf(activeId) # "note"
     THEN Return(t)
     ELSE /\ Goto(t, IF paused THEN "T2" ELSE "Z0")
          /\ loc' = [loc EXCEPT ![t].id = activeId]
  /\ UNCHANGED <<rec, eng, capture, sessions, queues, notes, outcome, shown, control>>

\* Somebody else resumed or ended the note meanwhile.
StopOvertakenSpins(t) == UNCHANGED threads                            \* mutant
StopOvertaken(t) == Return(t)

StopPaused(t) ==
  /\ pc[t] = "T2"
  /\ RecFree(t)
  /\ IF activeId # loc[t].id \/ ~paused
     THEN StopOvertaken(t) /\ UNCHANGED paused
     ELSE Goto(t, "T3") /\ paused' = FALSE /\ UNCHANGED loc
  /\ UNCHANGED <<locks, gen, activeId, recOn, caps, sessions, queues, notes, outcome, shown, control>>

StopQueue(t) ==
  LET id == loc[t].id IN
  /\ pc[t] = "T3"
  /\ \/ /\ ~Known(id)
        /\ Goto(t, "T4")
        /\ UNCHANGED <<loc, finalQ>>
     \/ /\ Known(id) /\ Len(finalQ) < FinalCap
        /\ finalQ' = Append(finalQ, [id |-> id, captures |-> <<>>])
        /\ Goto(t, "T4")
        /\ UNCHANGED loc
     \/ /\ Known(id) /\ Len(finalQ) >= FinalCap
        /\ Fail(t, id, FALSE, "T4")
        /\ UNCHANGED finalQ
  /\ UNCHANGED <<locks, capture, sessions, partialQ, notes, outcome, shown, control>>

StopEnd(t) ==
  /\ pc[t] = "T4"
  /\ RecFree(t)
  /\ IF activeId = loc[t].id
     THEN activeId' = NoId /\ ShowStopped("note")
     ELSE UNCHANGED <<activeId, shown>>
  /\ Return(t)
  /\ UNCHANGED <<locks, gen, paused, recOn, caps, sessions, queues, notes, outcome, control>>

-----------------------------------------------------------------------------
(* _cancel_long_recording: discard the note *)

CancelLock(t) == Acquire(t, "C0", "C1")

CancelCheck(t) ==
  /\ pc[t] = "C1"
  /\ RecFree(t)
  /\ IF activeId = NoId \/ ModeOf(activeId) # "note"
     THEN Leave(t)
     ELSE /\ loc' = [loc EXCEPT ![t].id = activeId, ![t].running = recOn,
                                ![t].note = sess[activeId].note]
          /\ Goto(t, "C2")
          /\ UNCHANGED ctl
  /\ UNCHANGED <<rec, eng, capture, sessions, queues, notes, outcome, shown, control>>

CancelDelete(t) ==
  LET id == loc[t].id IN
  /\ pc[t] = "C2"
  /\ IF loc[t].note
     THEN disk' = [disk EXCEPT ![id] = "absent"] /\ segs' = [segs EXCEPT ![id] = <<>>]
     ELSE UNCHANGED notes
  /\ Goto(t, "C3")
  /\ UNCHANGED <<locks, loc, capture, sessions, queues, outcome, shown, control>>

CancelMark(t) ==
  /\ pc[t] = "C3"
  /\ Remember(loc[t].id)
  /\ Goto(t, "C4")
  /\ UNCHANGED <<locks, loc, capture, sess, queues, notes, outcome, shown, control>>

\* _purge_queued_chunks_for_recording takes the partial queue apart chunk by
\* chunk, puts back what belongs to other recordings, and does the same with
\* the final queue.  The worker takes chunks meanwhile.
Keep(kept, item, id) == IF item.id = id THEN kept ELSE Append(kept, item)

CancelDrainPartials(t) ==
  /\ pc[t] = "C4"
  /\ IF partialQ = <<>>
     THEN Goto(t, "C5") /\ UNCHANGED <<loc, partialQ>>
     ELSE /\ loc' = [loc EXCEPT ![t].keptPartials = Keep(@, Head(partialQ), loc[t].id)]
          /\ partialQ' = Tail(partialQ)
          /\ UNCHANGED pc
  /\ UNCHANGED <<locks, capture, sessions, finalQ, notes, outcome, shown, control>>

CancelRestorePartials(t) ==
  /\ pc[t] = "C5"
  /\ partialQ' = partialQ \o loc[t].keptPartials
  /\ loc' = [loc EXCEPT ![t].keptPartials = <<>>]
  /\ Goto(t, "C6")
  /\ UNCHANGED <<locks, capture, sessions, finalQ, notes, outcome, shown, control>>

CancelDrainFinals(t) ==
  /\ pc[t] = "C6"
  /\ IF finalQ = <<>>
     THEN Goto(t, "C7") /\ UNCHANGED <<loc, finalQ>>
     ELSE /\ loc' = [loc EXCEPT ![t].keptFinals = Keep(@, Head(finalQ), loc[t].id)]
          /\ finalQ' = Tail(finalQ)
          /\ UNCHANGED pc
  /\ UNCHANGED <<locks, capture, sessions, partialQ, notes, outcome, shown, control>>

\* What does not fit any more is dropped.
CancelRestoreFinals(t) ==
  /\ pc[t] = "C7"
  /\ IF loc[t].keptFinals = <<>>
     THEN Goto(t, "C8") /\ UNCHANGED <<loc, finalQ>>
     ELSE /\ finalQ' = IF Len(finalQ) < FinalCap
                       THEN Append(finalQ, Head(loc[t].keptFinals)) ELSE finalQ
          /\ loc' = [loc EXCEPT ![t].keptFinals = Tail(@)]
          /\ UNCHANGED pc
  /\ UNCHANGED <<locks, capture, sessions, partialQ, notes, outcome, shown, control>>

CancelRecorderForgets(t) == recOn' = recOn                            \* mutant
CancelRecorder(t) == recOn' = (recOn /\ ~loc[t].running)

CancelEnd(t) ==
  LET id == loc[t].id IN
  /\ pc[t] = "C8"
  /\ RecFree(t)
  /\ CancelRecorder(t)
  /\ activeId' = IF activeId = id THEN NoId ELSE activeId
  /\ paused' = FALSE
  /\ sess' = Cleared(sess, id)
  /\ ShowStopped("note")
  /\ See(id, {"discarded"})
  /\ Leave(t)
  /\ UNCHANGED <<rec, eng, gen, caps, terminal, termOrder, queues, notes, text, control>>

-----------------------------------------------------------------------------
(* _fail_recording_session, called with or without the control lock held *)

FailReturn(t) ==
  /\ Goto(t, loc[t].ret)
  /\ loc' = [loc EXCEPT ![t] = IF loc[t].ret = "W0" THEN NoLocals
             ELSE [@ EXCEPT !.active = FALSE, !.running = FALSE, !.note = FALSE,
                            !.failMode = "dictation", !.hard = FALSE, !.ret = "idle"]]

\* First queue-lock section: give up when the recording is already terminal.
FailCheck(t) ==
  LET id == loc[t].id IN
  /\ pc[t] = "F1"
  /\ IF Failed(id)
     THEN FailReturn(t) /\ UNCHANGED sess
     ELSE /\ loc' = [loc EXCEPT ![t].failMode = ModeOf(id), ![t].note = sess[id].note]
          /\ sess' = [sess EXCEPT ![id].note = FALSE]
          /\ Goto(t, "F2")
  /\ UNCHANGED <<locks, capture, terminal, termOrder, queues, notes, outcome, shown, control>>

FailRead(t) ==
  LET mine == activeId = loc[t].id IN
  /\ pc[t] = "F2"
  /\ RecFree(t)
  /\ loc' = [loc EXCEPT ![t].active = mine, ![t].running = recOn]
  /\ paused' = (paused /\ ~(mine /\ loc[t].failMode = "note"))
  /\ Goto(t, "F3")
  /\ UNCHANGED <<locks, gen, activeId, recOn, caps, sessions, queues, notes, outcome, shown, control>>

\* Second queue-lock section, the note on disk and the stale transcript.
FailMark(t) ==
  LET id == loc[t].id
      popped == [sess EXCEPT ![id].open = FALSE, ![id].parts = <<>>]
  IN
  /\ pc[t] = "F3"
  /\ Remember(id)
  /\ sess' = IF loc[t].active THEN popped ELSE Cleared(sess, id)
  /\ disk' = IF loc[t].note /\ disk[id] # "absent" THEN [disk EXCEPT ![id] = "failed"] ELSE disk
  /\ See(id, {"failed"})
  /\ Goto(t, "F4")
  /\ UNCHANGED <<locks, loc, capture, queues, segs, text, control, shown>>

\* The callbacks, then the capture itself: a thread of its own stops a running
\* recorder, because this one may hold the control lock.
FailEnd(t) ==
  LET id   == loc[t].id
      mode == loc[t].failMode
      stop == loc[t].active /\ (mode = "note" \/ loc[t].hard)
  IN
  /\ pc[t] = "F4"
  /\ RecFree(t)
  /\ IF stop THEN ShowStopped(mode) ELSE UNCHANGED shown
  /\ IF mode = "note" THEN See(id, {"note failed"}) ELSE UNCHANGED log
  /\ failing' = IF stop /\ loc[t].running THEN failing \cup {id} ELSE failing
  /\ IF stop /\ ~loc[t].running
     THEN /\ activeId' = IF activeId = id THEN NoId ELSE activeId
          /\ paused' = FALSE
          /\ sess' = Cleared(sess, id)
     ELSE UNCHANGED <<activeId, paused, sess>>
  /\ FailReturn(t)
  /\ UNCHANGED <<locks, gen, recOn, caps, terminal, termOrder, queues, notes, text,
                 accepting, stopped, listening, pressed, stt, ops>>

\* _cleanup_failed_recording_session: these threads take turns on the control lock.
CleanupLock ==
  /\ pc["cleaner"] = "idle"
  /\ ctl = Free
  /\ \E id \in failing :
       /\ failing' = failing \ {id}
       /\ loc' = [loc EXCEPT !["cleaner"].id = id]
  /\ ctl' = "cleaner"
  /\ Goto("cleaner", "X1")
  /\ UNCHANGED <<rec, eng, capture, sessions, queues, notes, outcome, shown,
                 accepting, stopped, listening, pressed, stt, ops>>

CleanupStop ==
  LET id == loc["cleaner"].id IN
  /\ pc["cleaner"] = "X1"
  /\ RecFree("cleaner")
  /\ IF activeId # id
     THEN /\ sess' = Cleared(sess, id)
          /\ Leave("cleaner")
          /\ UNCHANGED recOn
     ELSE /\ recOn' = FALSE
          /\ Goto("cleaner", "X2")
          /\ UNCHANGED <<ctl, loc, sess>>
  /\ UNCHANGED <<rec, eng, gen, activeId, paused, caps, terminal, termOrder,
                 queues, notes, outcome, shown, control>>

CleanupEnd ==
  LET id == loc["cleaner"].id IN
  /\ pc["cleaner"] = "X2"
  /\ RecFree("cleaner")
  /\ activeId' = IF activeId = id THEN NoId ELSE activeId
  /\ paused' = FALSE
  /\ sess' = Cleared(sess, id)
  /\ Leave("cleaner")
  /\ UNCHANGED <<rec, eng, gen, recOn, caps, terminal, termOrder,
                 queues, notes, outcome, shown, control>>

-----------------------------------------------------------------------------
(* _transcription_loop and what it calls *)

\* Back to the head of the loop.
Loop(t) == /\ Goto(t, "W0")
           /\ loc' = [loc EXCEPT ![t] = NoLocals]

TakeChunk(final, chunk) ==
  loc' = [loc EXCEPT !["worker"].id = chunk.id, !["worker"].captures = chunk.captures,
                     !["worker"].final = final]

TakePartial ==
  /\ pc["worker"] = "W0"
  /\ \/ /\ stopped
        /\ Goto("worker", "exited")
        /\ UNCHANGED <<loc, partialQ>>
     \/ /\ ~stopped /\ partialQ # <<>>
        /\ TakeChunk(FALSE, Head(partialQ))
        /\ partialQ' = Tail(partialQ)
        /\ Goto("worker", "H1")
     \/ /\ ~stopped /\ partialQ = <<>>
        /\ Goto("worker", "W1")
        /\ UNCHANGED <<loc, partialQ>>
  /\ UNCHANGED <<locks, capture, sessions, finalQ, notes, outcome, shown, control>>

\* The partial queue was empty when it was looked at.  With both queues empty
\* the worker polls, which changes nothing; a partial chunk queued since then
\* is seen by the next poll, or after a final chunk queued behind it.
TakeFinal ==
  /\ pc["worker"] = "W1"
  /\ \/ /\ finalQ # <<>> /\ Head(finalQ) = StopSignal
        /\ finalQ' = Tail(finalQ)
        /\ Goto("worker", "exited")
        /\ UNCHANGED loc
     \/ /\ finalQ # <<>> /\ Head(finalQ) # StopSignal
        /\ TakeChunk(TRUE, Head(finalQ))
        /\ finalQ' = Tail(finalQ)
        /\ Goto("worker", "H1")
     \/ /\ partialQ # <<>> \/ stopped
        /\ Goto("worker", "W0")
        /\ UNCHANGED <<loc, finalQ>>
  /\ UNCHANGED <<locks, capture, sessions, partialQ, notes, outcome, shown, control>>

\* The empty final chunk of a note stopped while paused ends its session.
HandleEmptySkips == Loop("worker")                                    \* mutant
HandleEmpty == Goto("worker", "E1") /\ UNCHANGED loc

\* _handle_partial_chunk and _handle_final_chunk: skip a failed recording.
Handle ==
  LET me == loc["worker"] IN
  /\ pc["worker"] = "H1"
  /\ \/ Failed(me.id) /\ Loop("worker")
     \/ ~Failed(me.id) /\ me.captures = <<>> /\ HandleEmpty
     \/ ~Failed(me.id) /\ me.captures # <<>> /\ Goto("worker", "H2") /\ UNCHANGED loc
  /\ UNCHANGED <<locks, capture, sessions, queues, notes, outcome, shown, control>>

\* _decode_recording_audio holds the engine lock for the whole decode, and
\* refuses a recording that was started with another model.
DecodeStart ==
  LET id == loc["worker"].id IN
  /\ pc["worker"] = "H2"
  /\ eng = Free
  /\ IF Known(id) /\ sess[id].stt = stt
     THEN /\ eng' = "worker"
          /\ Goto("worker", "H3")
          /\ UNCHANGED loc
     ELSE /\ Fail("worker", id, FALSE, "W0")
          /\ UNCHANGED eng
  /\ UNCHANGED <<ctl, rec, capture, sessions, queues, notes, outcome, shown, control>>

DecodeEnd ==
  LET me == loc["worker"] IN
  /\ pc["worker"] = "H3"
  /\ eng' = Free
  /\ \/ Goto("worker", "H4") /\ UNCHANGED loc                     \* text
     \/ IF me.final THEN Goto("worker", "E1") /\ UNCHANGED loc    \* too short, no speech
                    ELSE Loop("worker")
     \/ "decode" \in Faults /\ Fail("worker", me.id, FALSE, "W0")
  /\ UNCHANGED <<ctl, rec, capture, sessions, queues, notes, outcome, shown, control>>

\* _record_transcript_piece: the guard, the segment on disk, the part.
RecordGuard ==
  LET me == loc["worker"] IN
  /\ pc["worker"] = "H4"
  /\ \/ Known(me.id) /\ Goto("worker", "H5") /\ UNCHANGED loc
     \/ ~Known(me.id) /\ me.final /\ Goto("worker", "E1") /\ UNCHANGED loc
     \/ ~Known(me.id) /\ ~me.final /\ Loop("worker")
  /\ UNCHANGED <<locks, capture, sessions, queues, notes, outcome, shown, control>>

RecordSegment ==
  LET me == loc["worker"]
      onDisk == ModeOf(me.id) = "note" /\ sess[me.id].note
  IN
  /\ pc["worker"] = "H5"
  /\ \/ /\ segs' = IF onDisk THEN [segs EXCEPT ![me.id] = @ \o me.captures] ELSE segs
        /\ Goto("worker", "H6")
        /\ UNCHANGED loc
     \/ /\ "segment" \in Faults /\ onDisk
        /\ Fail("worker", me.id, FALSE, IF me.final THEN "E1" ELSE "W0")
        /\ UNCHANGED segs
  /\ UNCHANGED <<locks, capture, sessions, queues, disk, outcome, shown, control>>

RecordPart ==
  LET me == loc["worker"] IN
  /\ pc["worker"] = "H6"
  /\ sess' = IF sess[me.id].open THEN [sess EXCEPT ![me.id].parts = @ \o me.captures] ELSE sess
  /\ IF me.final THEN Goto("worker", "E1") /\ UNCHANGED loc ELSE Loop("worker")
  /\ UNCHANGED <<locks, capture, terminal, termOrder, queues, notes, outcome, shown, control>>

-----------------------------------------------------------------------------
(* _finalize_recording_session *)

SessionCheck ==
  LET id == loc["worker"].id IN
  /\ pc["worker"] = "E1"
  /\ \/ /\ Failed(id)
        /\ sess' = Cleared(sess, id)
        /\ Loop("worker")
     \/ /\ ~Failed(id)
        /\ loc' = [loc EXCEPT !["worker"].said = sess[id].parts]
        /\ Goto("worker", IF sess[id].parts = <<>> THEN "E2" ELSE "E3")
        /\ UNCHANGED sess
  /\ UNCHANGED <<locks, capture, terminal, termOrder, queues, notes, outcome, shown, control>>

\* Nothing was said.
SessionEmpty ==
  LET id == loc["worker"].id
      note == ModeOf(id) = "note"
  IN
  /\ pc["worker"] = "E2"
  /\ disk' = IF note /\ sess[id].note /\ disk[id] # "absent"
             THEN [disk EXCEPT ![id] = "failed"] ELSE disk
  /\ IF note THEN See(id, {"note empty"}) ELSE UNCHANGED log
  /\ sess' = Cleared(sess, id)
  /\ Loop("worker")
  /\ UNCHANGED <<locks, capture, terminal, termOrder, queues, segs, text, shown, control>>

\* _mark_recording_completed; the mode is read just before.
SessionComplete ==
  LET id == loc["worker"].id IN
  /\ pc["worker"] = "E3"
  /\ IF Failed(id) THEN UNCHANGED <<terminal, termOrder>> ELSE Remember(id)
  /\ loc' = [loc EXCEPT !["worker"].mode = ModeOf(id)]
  /\ sess' = IF ModeOf(id) = "note" THEN sess ELSE Cleared(sess, id)
  /\ Goto("worker", "E4")
  /\ UNCHANGED <<locks, capture, queues, notes, outcome, shown, control>>

\* The text of a note: what its segment file holds, else the parts in memory.
NoteTextBoth(id, said) == segs[id] \o said                            \* mutant
NoteText(id, said) == IF sess[id].note /\ segs[id] # <<>> THEN segs[id] ELSE said

\* A delivery that raised is not tried again.
GiveUpRetries == UNCHANGED threads                                    \* mutant
GiveUp == Loop("worker")

\* A dictation goes to the history and is typed.
SessionType ==
  LET me == loc["worker"] IN
  /\ pc["worker"] = "E4" /\ me.mode # "note"
  /\ \/ See(me.id, {"history", "typed"}) /\ Loop("worker")
     \/ "output" \in Faults /\ See(me.id, {"history"}) /\ GiveUp
  /\ text' = [text EXCEPT ![me.id] = me.said]
  /\ UNCHANGED <<locks, capture, sessions, queues, notes, shown, control>>

\* _finalize_note_session: the note is ready, or failed when that cannot be written.
SessionSave ==
  LET me == loc["worker"]
      id == me.id
      stored == sess[id].note /\ disk[id] # "absent"
  IN
  /\ pc["worker"] = "E4" /\ me.mode = "note"
  /\ \/ /\ disk' = IF stored THEN [disk EXCEPT ![id] = "ready"] ELSE disk
        /\ text' = [text EXCEPT ![id] = NoteText(id, me.said)]
        /\ See(id, {"history", "note"})
        /\ Loop("worker")
     \/ /\ "mark ready" \in Faults /\ stored
        /\ disk' = [disk EXCEPT ![id] = "failed"]
        /\ See(id, {"note failed"})
        /\ UNCHANGED text
        /\ GiveUp
  /\ sess' = Cleared(sess, id)
  /\ UNCHANGED <<locks, capture, terminal, termOrder, queues, segs, shown, control>>

-----------------------------------------------------------------------------
(* What the user does *)

Rest == <<failing, stt>>

Operation(t, name) ==
  /\ pc[t] = "idle"
  /\ name \in Ops
  /\ ops < MaxOps
  /\ ops' = ops + 1

Press ==
  /\ Operation("hotkey", "press")
  /\ listening /\ ~pressed
  /\ pressed' = TRUE
  /\ Begin("hotkey", "S0", "dictation")
  /\ UNCHANGED <<locks, capture, sessions, queues, notes, outcome, shown,
                 accepting, stopped, listening, Rest>>

OnReleaseIfActive ==                                                  \* mutant
  IF accepting THEN Begin("hotkey", "Z0", "dictation") ELSE UNCHANGED threads
OnRelease == Begin("hotkey", "Z0", "dictation")

Release ==
  /\ pc["hotkey"] = "idle"
  /\ listening /\ pressed
  /\ pressed' = FALSE
  /\ OnRelease
  /\ UNCHANGED <<locks, capture, sessions, queues, notes, outcome, shown,
                 accepting, stopped, listening, Rest, ops>>

\* The note requests of the UI server.
Entry == [start |-> "N0", toggle |-> "G0", pause |-> "P0", resume |-> "R0",
          stop |-> "T0", cancel |-> "C0"]

NoteRequest(t) ==
  /\ \E name \in DOMAIN Entry : Operation(t, name) /\ Begin(t, Entry[name], "note")
  /\ UNCHANGED <<locks, capture, sessions, queues, notes, outcome, shown,
                 accepting, stopped, listening, pressed, Rest>>

\* _track_note_silence and _run_note_auto_pause: at most one pausing thread.
Silence ==
  /\ "silence" \in Ops
  /\ pc["auto"] = "idle"
  /\ recOn /\ ~paused /\ activeId # NoId /\ ModeOf(activeId) = "note"
  /\ Begin("auto", "P0", "note")
  /\ UNCHANGED <<locks, capture, sessions, queues, notes, outcome, shown, control>>

FinalizeIfRecording(t) == IF recOn THEN Goto(t, "Z0") ELSE Goto(t, "idle")

\* pause and resume of the whole daemon, from the tray.
Deactivate ==
  /\ Operation("tray", "deactivate")
  /\ accepting' = FALSE
  /\ FinalizeIfRecording("tray")
  /\ UNCHANGED <<locks, loc, capture, sessions, queues, notes, outcome, shown,
                 stopped, listening, pressed, Rest>>

Activate ==
  /\ Operation("tray", "activate")
  /\ accepting' = TRUE
  /\ UNCHANGED <<locks, threads, capture, sessions, queues, notes, outcome, shown,
                 stopped, listening, pressed, Rest>>

\* set_push_to_talk_combo: the backend forgets what is pressed.
SetCombo ==
  /\ Operation("tray", "combo")
  /\ listening
  /\ pressed' = FALSE
  /\ FinalizeIfRecording("tray")
  /\ UNCHANGED <<locks, loc, capture, sessions, queues, notes, outcome, shown,
                 accepting, stopped, listening, Rest>>

SwitchModel ==
  /\ Operation("tray", "switch")
  /\ eng = Free
  /\ stt' = stt + 1
  /\ UNCHANGED <<locks, threads, capture, sessions, queues, notes, outcome, shown,
                 accepting, stopped, listening, pressed, failing>>

Shutdown ==
  /\ Operation("tray", "shutdown")
  /\ ~stopped
  /\ accepting' = FALSE
  /\ stopped' = TRUE
  /\ loc' = [loc EXCEPT !["tray"].back = "D1"]
  /\ Goto("tray", IF recOn THEN "Z0" ELSE "D1")
  /\ UNCHANGED <<locks, capture, sessions, queues, notes, outcome, shown,
                 listening, pressed, Rest>>

ShutdownHotkey ==
  /\ pc["tray"] = "D1"
  /\ listening' = FALSE
  /\ pressed' = FALSE
  /\ Goto("tray", "D2")
  /\ UNCHANGED <<locks, loc, capture, sessions, queues, notes, outcome, shown,
                 accepting, stopped, Rest, ops>>

\* Release the model, then wake the worker with None at the cost of what is queued.
ShutdownQueue ==
  /\ pc["tray"] = "D2"
  /\ eng = Free
  /\ partialQ' = <<>>
  /\ finalQ' = Append(IF Len(finalQ) < FinalCap THEN finalQ ELSE <<>>, StopSignal)
  /\ Goto("tray", "idle")
  /\ loc' = [loc EXCEPT !["tray"] = NoLocals]
  /\ UNCHANGED <<locks, capture, sessions, notes, outcome, shown, control>>

-----------------------------------------------------------------------------
Init ==
  /\ ctl = Free /\ rec = Free /\ eng = Free
  /\ pc = [t \in Threads |-> IF t = "worker" THEN "W0" ELSE "idle"]
  /\ loc = [t \in Threads |-> NoLocals]
  /\ gen = 0 /\ activeId = NoId
  /\ paused = FALSE /\ recOn = FALSE /\ caps = 0
  /\ sess = [id \in Ids |-> NoSession]
  /\ terminal = {} /\ termOrder = <<>>
  /\ partialQ = <<>> /\ finalQ = <<>>
  /\ disk = [id \in Ids |-> "absent"]
  /\ segs = [id \in Ids |-> <<>>]
  /\ log = [id \in Ids |-> [e \in Events |-> 0]]
  /\ text = [id \in Ids |-> <<>>]
  /\ micShown = FALSE /\ noteShown = "off"
  /\ accepting = TRUE /\ stopped = FALSE
  /\ listening = TRUE /\ pressed = FALSE
  /\ failing = {} /\ stt = 1 /\ ops = 0

StartSteps(t)    == StartLock(t) \/ StartCheck(t) \/ StartCapture(t)
FinalizeSteps(t) == \/ FinalizeLock(t) \/ FinalizeStop(t) \/ FinalizeQueue(t)
                    \/ FinalizeEnd(t) \/ FinalizeFailed(t)
PauseSteps(t)    == PauseLock(t) \/ PauseStop(t) \/ PauseQueue(t) \/ PauseEnd(t)
ResumeSteps(t)   == ResumeLock(t) \/ Resume(t)
StopSteps(t)     == \/ StopLock(t) \/ StopCheck(t) \/ StopPaused(t)
                    \/ StopQueue(t) \/ StopEnd(t)
CancelSteps(t)   == \/ CancelLock(t) \/ CancelCheck(t) \/ CancelDelete(t) \/ CancelMark(t)
                    \/ CancelDrainPartials(t) \/ CancelRestorePartials(t)
                    \/ CancelDrainFinals(t) \/ CancelRestoreFinals(t) \/ CancelEnd(t)
FailSteps(t)     == FailCheck(t) \/ FailRead(t) \/ FailMark(t) \/ FailEnd(t)
CleanupSteps     == CleanupLock \/ CleanupStop \/ CleanupEnd
WorkerSteps      == \/ TakePartial \/ TakeFinal \/ Handle \/ DecodeStart \/ DecodeEnd
                    \/ RecordGuard \/ RecordSegment \/ RecordPart
                    \/ SessionCheck \/ SessionEmpty \/ SessionComplete \/ SessionType \/ SessionSave
ShutdownSteps    == ShutdownHotkey \/ ShutdownQueue

\* A thread goes on with the operation it is in.
Step(t) ==
  \/ StartSteps(t) \/ FinalizeSteps(t) \/ PauseSteps(t) \/ ResumeSteps(t)
  \/ StartNote(t) \/ Toggle(t) \/ StopSteps(t) \/ CancelSteps(t) \/ FailSteps(t)
  \/ t = "cleaner" /\ CleanupSteps
  \/ t = "worker" /\ WorkerSteps
  \/ t = "tray" /\ ShutdownSteps

User == \/ Press \/ Release \/ (\E t \in UIs : NoteRequest(t)) \/ Silence
        \/ Deactivate \/ Activate \/ SetCombo \/ SwitchModel \/ Shutdown

\* Nobody is in an operation and nothing waits for the worker.
Quiet == /\ \A t \in Threads \ {"worker"} : pc[t] = "idle"
         /\ \/ pc["worker"] = "exited"
            \/ pc["worker"] = "W1" /\ partialQ = <<>> /\ finalQ = <<>> /\ ~stopped
         /\ failing = {}

Resting == Quiet /\ UNCHANGED vars

Next == (\E t \in Threads : Step(t)) \/ User \/ Resting

Spec == Init /\ [][Next]_vars

\* A thread inside an operation keeps running; the user owes nothing.
FairSpec == Spec /\ \A t \in Threads : WF_vars(Step(t))

-----------------------------------------------------------------------------
(* Properties *)

PCs == {"idle", "exited", "S0", "S1", "S2", "Z0", "Z1", "Z2", "Z3", "Z4",
        "P0", "P1", "P2", "P3", "R0", "R1", "N0", "G0", "T0", "T1", "T2", "T3", "T4",
        "C0", "C1", "C2", "C3", "C4", "C5", "C6", "C7", "C8", "F1", "F2", "F3", "F4", "X1", "X2",
        "W0", "W1", "H1", "H2", "H3", "H4", "H5", "H6", "E1", "E2", "E3", "E4", "D1", "D2"}

Returns  == {"idle", "Z3", "Z4", "T4", "W0", "E1"}   \* where a failure is met
IdOrNone == Ids \cup {NoId}
Chunks   == [id : Ids, captures : Seq(Nat)]
Items    == Chunks \cup {StopSignal}
Sessions == [mode : Modes \cup {"none"}, stt : Nat, note : BOOLEAN, open : BOOLEAN,
             parts : Seq(Nat)]
Locals   == [id : IdOrNone, mode : Modes, captures : Seq(Nat), final : BOOLEAN,
             active : BOOLEAN, running : BOOLEAN, note : BOOLEAN, failMode : Modes,
             hard : BOOLEAN, ret : Returns, back : {"idle", "D1"}, keptPartials : Seq(Chunks),
             keptFinals : Seq(Items), said : Seq(Nat)]

LocksOK    == \A owner \in {ctl, rec, eng} : owner \in Threads \cup {Free}
ThreadsOK  == pc \in [Threads -> PCs] /\ loc \in [Threads -> Locals]
CaptureOK  == /\ gen \in IdOrNone /\ activeId \in IdOrNone
              /\ paused \in BOOLEAN /\ recOn \in BOOLEAN /\ caps \in Nat
SessionsOK == sess \in [Ids -> Sessions] /\ terminal \subseteq Ids /\ termOrder \in Seq(Ids)
QueuesOK   == partialQ \in Seq(Chunks) /\ finalQ \in Seq(Items)
NotesOK    == /\ disk \in [Ids -> {"absent", "recording", "ready", "failed"}]
              /\ segs \in [Ids -> Seq(Nat)]
OutcomeOK  == log \in [Ids -> [Events -> Nat]] /\ text \in [Ids -> Seq(Nat)]
ShownOK    == micShown \in BOOLEAN /\ noteShown \in {"off", "on", "paused"}
ControlOK  == /\ accepting \in BOOLEAN /\ stopped \in BOOLEAN
              /\ listening \in BOOLEAN /\ pressed \in BOOLEAN
              /\ failing \subseteq Ids /\ stt \in Nat /\ ops \in 0..MaxOps

\* The shape of the daemon's state: whatever the threads interleave, the
\* dictionaries, the queues and the locals hold what the next step expects.
TypeOK == /\ LocksOK /\ ThreadsOK /\ CaptureOK /\ SessionsOK /\ QueuesOK
          /\ NotesOK /\ OutcomeOK /\ ShownOK /\ ControlOK

Delivered(id) == log[id]["typed"] + log[id]["note"]

\* A recording is typed or saved at most once, however its chunks are queued,
\* retried or failed (_mark_recording_completed, _is_recording_failed).
DeliveredOnce == \A id \in Ids : Delivered(id) <= 1 /\ log[id]["history"] <= 1

\* The text delivered for a recording has its captures in the order they were
\* spoken, none of them twice: two queues, a purge and a segment file between.
TextInOrder ==
  \A id \in Ids : \A i, j \in DOMAIN text[id] : i < j => text[id][i] < text[id][j]

\* Whenever nobody holds the control lock, a paused note is the active one, with
\* the microphone off: resume and stop find what pause left.
PausedMeansHeld ==
  paused /\ ctl = Free => activeId # NoId /\ ModeOf(activeId) = "note" /\ ~recOn

\* The queues and the terminal cache keep their capacities through the purge and
\* the shutdown, and the cache forgets an id only with its last entry.
BoundedMemory ==
  /\ Len(partialQ) <= PartialCap /\ Len(finalQ) <= FinalCap
  /\ Len(termOrder) <= TerminalCap
  /\ terminal = {termOrder[i] : i \in DOMAIN termOrder}

\* The microphone runs only for a recording that some operation can end.
NoOrphanCapture == recOn /\ ctl = Free => activeId # NoId

\* Once nothing is going on, the indicator is lit while the microphone is on: no
\* late callback of an older recording puts it out (_notify_recording).
IndicatorShown == Quiet /\ recOn => micShown

\* A dictation in progress means the shortcut is held: its release will end it.
HeldWhileDictating ==
  Quiet /\ listening /\ recOn /\ activeId # NoId /\ ModeOf(activeId) = "dictation" => pressed

\* What was reported as failed or discarded is not typed or saved afterwards.
NoDeliveryAfterFailure ==
  [][\A id \in Ids : Delivered(id)' > Delivered(id) =>
       \A e \in {"failed", "note failed", "discarded"} : log[id][e] = 0]_vars

\* A start over a paused note waits for the control lock with the recording lock
\* in its hands, and the owner of the control lock waits for the recording lock.
WaitsForRec == {"S1", "Z1", "Z2", "Z3", "P1", "P3", "T1", "C1", "C8", "F2", "F4", "X1", "X2"}
StartBlocks ==
  \E t, u \in Threads : ctl = t /\ rec = u /\ pc[u] = "R0" /\ pc[t] \in WaitsForRec

\* Every operation returns: no thread waits for a lock for ever, unless a start
\* over a paused note blocks the engine.
OperationsEnd ==
  \A t \in Threads \ {"worker"} : pc[t] # "idle" ~> (pc[t] = "idle" \/ StartBlocks)

\* Final audio in the queue is answered: the worker ends the session, with a
\* delivery, a failure or nothing said, and forgets it or marks it terminal; a
\* start that blocks the operations does not block the worker, unless it fails.
AudioAnswered ==
  \A id \in Ids : (\E i \in DOMAIN finalQ : finalQ[i].id = id)
                    ~> (Failed(id) \/ sess[id].mode = "none")
=============================================================================
