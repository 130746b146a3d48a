# A TLA+ model of dictate

dictate is a local dictation program. A Python daemon owns the microphone and a
speech model; the user holds a shortcut to dictate, or records longer notes from
a web interface shown by a Tauri shell. This project models the daemon, the lock
that keeps it alone, the files it keeps, and what stands around it (shortcut,
clipboard, updates, settings, front ends), model-checks each on small instances
with TLC, and proves theorems about the core with TLAPS for every instance. Source
paths below are relative to the repository (`src/dictate/...`).

## Inventory

| Component | State | Operations | Talks to |
| --- | --- | --- | --- |
| Recording core, `daemon.py` | active recording id, generation, paused flag, the dictionaries keyed by recording id, terminal set and its eviction order, two bounded queues, `active`, `_stop` | start, finalize (shortcut release, toggle, stop, shutdown), pause, resume, stop, discard, silence auto-pause, failure, cleanup, model switch, shutdown | recorder, engine, note store, history, output, callbacks |
| Transcription worker, `daemon.py` 800-1513 | the chunk in hand | take, decode, record a piece, finalize a session | both queues, engine lock, note store, output |
| Recorder, `audio.py` | recording flag, ring buffer, chunk accumulators | start, stop, audio callback | sounddevice, `_queue_recording_chunk` |
| Shortcut backends, `hotkey_backend.py` | pressed keys, pressed flag, D-Bus session | start, stop, set_combo, key events | `_on_hotkey_press`, `_on_hotkey_release` |
| Model load, `daemon.py` 416-495 | phase, pending start of the shortcut | start load, ready, failed | worker, shortcut, UI |
| Note store, `note_store.py` | `note.json`, `segments.jsonl` per note | create, append, mark, archive, delete, recover | worker, UI |
| History store, `history.py` | one JSON file, 20 entries | append, archive, unarchive | worker, UI |
| Single-instance lock, `process_lock.py` | lock directory with pid and start time | acquire, release, break stale, stop running daemon | other processes |
| Clipboard keeper, `clipboard_keeper.py` | pending threads, saved clipboard | paste, restore | output, other clipboard owners |
| UI server, `ui_server.py`, `ui_launcher.py` | subscribers and their queues, preferences, handshake file | note requests, SSE stream, start | daemon, shell, web interface |
| Updates, `update_status.py` | the package operation, its phase and its folder | status, download, verify, install | UI server, package manager, release feeds |
| Settings, `config.py`, `UiPrefsStore`, `startup.py` | `config.yaml`, `ui-prefs.json`, the entry for the start at sign-in | load, set, repair | tray, UI server, command line |
| Linux tray, `tray.py`, `model_state.py` | switch in progress, timers, status line, `model-state.json` | switch model, messages of the engine | daemon |
| Windows tray, `windows_tray.py` | recording flag, icon | reports, menu commands, redraw | daemon |
| Shell, `ui-shell/.../lib.rs` | engine child, window | ensure engine, takeover | UI server |
| Web interface, `ui/src` | recording state derived from events | requests, event stream | UI server |

What is hard. The daemon's operations run on whatever thread asks: the shortcut
listener, HTTP threads, the tray, the worker, and two kinds of short-lived
threads. They meet on three locks (`_recorder_control_lock`, the re-entrant
`_recording_lock`, `_engine_lock`) that are taken and released several times
inside one operation; what was read under a lock is used after it was released.
Failures are handled in the middle of an operation by
`_fail_recording_session`, which must not stop the microphone itself because it
may run with the control lock held. The worker ends recordings while the
threads that queued them are still on the way out. Queues are bounded and shed
load differently: a full partial queue drops its oldest chunk, a full final
queue fails the recording, shutdown empties both.

Around it, nearly every neighbour reads state, waits, and uses what it read: the
stores and the settings read a whole file and later replace it, with no lock
between the threads; the clipboard can change between a look and a write; an
update is one global operation that several threads look up again and again;
the tray gets answers of switches it has given up; the window combines a stream
of events, which may break or overflow, with responses that overtake them.

What makes it correct:

- a recording is delivered (typed, or saved as a note) at most once, in the
  order it was spoken, and never after it was reported as failed or discarded;
- every note that was created is answered: saved, empty, failed or discarded;
- the microphone runs only for a recording that some operation can end, and the
  indicator is lit exactly while it runs;
- a dictation in progress means the shortcut is held;
- a paused note is found again by resume, stop and discard;
- every operation returns, and queued audio is answered;
- queues and the terminal cache keep their bounds.
- one daemon runs per user, and no start is shut out by what a crash left;
- a listener of the shortcut runs once the model is loaded, never two for a key,
  and a dictation ends with its keys;
- a paste delivers its text and gives the clipboard back to the user;
- text that reached the disk is found again after a crash, in order, once;
- a setting keeps the value that was chosen last;
- a phase of an update belongs to the thread that writes it, ends, and only a
  verified package is installed;
- tray, icon and window come to show what the engine does.

## Modules

| Module | What it is |
| --- | --- |
| `Daemon` | the recording core: operations, locks, queues, worker, failure handling |
| `DaemonInvariants` | the inductive invariants of the proofs about `Daemon`, in the order in which they are built on one another |
| `DaemonProofs` | its types, the bounds of its queues; at most one delivery, none after a failure, and the text in the order it was spoken; the microphone, its indicator and who can end it |
| `ProcessLock`, `LockProofs` | the single-instance lock, `stop_running_daemon`; their theorems |
| `UpdateFlow`, `UpdateLife` | the in-app updates; the abstract life of an update they implement |
| `UpdateProofs` | types, ownership, files, answers and the refinement of `UpdateFlow`; the order of versions |
| `Shortcut`, `ShortcutProofs` | the three listeners, the model load, changes of the combination, shutdown |
| `Library`, `LibraryProofs` | notes and history on disk, with crashes and recovery |
| `Clipboard`, `ClipboardProofs` | pasting a text and giving the clipboard back |
| `Settings`, `SettingsProofs` | `config.yaml`, `ui-prefs.json`, start at sign-in |
| `Tray`, `WindowsTray`, `EventStream` | the three front ends that follow the engine |
| `Frontends`, `FrontendProofs` | the three side by side: a behaviour plays one of them |
| `MCDaemon`, `MCProcessLock`, `MCUpdateFlow`, `MCShortcut`, `MCLibrary`, `MCClipboard`, `MCSettings`, `MCFrontends` | the same modules for TLC: small sets, symmetry |

A module has one operator per handler or step of the code, named after it where
TLA+ allows; `PROJECT.json` gives the lines behind every definition. A
definition marked "mutant" is a plausible slip of the code that some run must
notice; the specifications do not use it. Variables marked "ghost" or "history"
are not in the code.

### Daemon

Granularity. A step is the code between two points where another thread can run
and see the difference: taking a lock, giving one back, an access outside any
lock. Everything under `_queue_lock` is one step, since its sections are short
and never call out. Calls into the engine and the recorder that block others by
the lock they run under are two steps (`DecodeStart`, `DecodeEnd`) or happen
while the lock is held.

Threads. `pc[t]` says where thread `t` is, `loc[t]` what its local variables
hold. The labels follow the functions: S start, Z finalize, P pause, R resume,
N start_note, G toggle, T stop, C discard, F failure, X cleanup, W the worker's
loop, H handling a chunk, E ending a session, D shutdown. The failure handler is
entered from several places, so it keeps where to go on in `ret`; `back` is
where an operation returns (shutdown goes on after its finalize).

State. `sess[id]` is what the daemon keeps about a recording in its
dictionaries: the mode, the identity of the speech model it was started with,
whether it still has a note id, whether its list of parts is there (`open`) and
the parts. `stt = 0` stands for no entry, which is how `_recording_session_known`
sees it. Audio is the number of the capture it comes from (recorder start to
stop), so a text is a sequence of captures and the order of speech is the order
of numbers. `log[id]` counts what a user could observe: typed text, history
entries, note and failure messages. `disk` and `segs` are `note.json` and
`segments.jsonl`. `micShown` and `noteShown` are the last values given to the
recording callbacks.

Environment. `Faults` says what may go wrong: the microphone fails to start or
stop, the ring buffer overwrote audio, the note cannot be created, a decode
fails, a segment or the ready mark cannot be written, the output raises. A
decode may always find nothing. The recorder may always return no audio.

Simplifications. The backend is the shipped one (`supports_streaming_chunks` is
False), so partial chunks come from pausing only. The model is loaded. Two
calls of `recorder.stop` never overlap in the model because every caller holds
the control lock. `_work_ready` is left out: the worker's wait has a timeout, so
a lost wake-up costs 100 ms and nothing else. The cleanup threads are one thread
that takes the failed recordings in any order; each of them would hold the
control lock from start to end anyway. `_finalize_recording` looks twice whether
its recording failed (678, 704): the first answer counts as the second one, which
matters only if the id is pushed out of the terminal cache in between; and the
sections under the queue lock around the queueing of the last chunk are one step,
as `_queue_final_chunk` looks again under the lock.

Bounds. `MaxOps` bounds the operations of the user in a behaviour and with them
the recordings; it is 4 where several threads interleave and 7 for one client,
which is two notes with pauses. `FinalCap` and `PartialCap` are 1 or 2 instead
of 4 and 128: the branches for a full queue are reached, and with them the
eviction from the terminal cache, whose size is their sum as in the code. A
thread has one operation at a time. There are at most two UI threads; they are
interchangeable, so their permutations are a symmetry of the run that states
only invariants of both.

Fairness. `FairSpec` gives weak fairness to the next step of each thread that is
inside an operation, and to the worker: the operating system runs every thread
again and again. The user owes nothing. No fairness is assumed between threads
that wait for a lock, except what weak fairness gives; the run shows that this
is enough for a bounded number of operations. What hangs all the same is a start
over a paused note (`StartBlocks`, see Departures): `OperationsEnd` excuses that one
state, with `start` among the operations, so it shows that this is the only way to
hang; `AudioAnswered` holds without the excuse, since the worker needs the recording
lock only for a failure, and `daemon_live` has no faults. The run allows the engine
to stop in that state.

### ProcessLock

One daemon per user is kept by a directory with two files, `pid` and `started`.
A process creates the directory, or looks at the one there, breaks it when its
process is dead and it is older than 30 seconds (or has no time in it), and
tries once more. Release is the same breaking. The module has one step per
access to the file system; `pc[p]` names the next one. `dir`, `pidFile` and
`started` are the directory and its files; a time is only fresh or old, and
`Age` makes it old at any moment. `Crash` ends a process anywhere and leaves the
lock as it is. `ReadLock` and `Kill` are the updater in `stop_running_daemon`,
which reads the id, signals, waits and kills; the daemon may exit by itself
meanwhile, or survive. `found` is a history variable: the daemons running when
the updater looked. `beaten` is another: the starts that had cleared a stale lock
and found that somebody had made the directory before them.

Starts and exits overlap as they like: two processes that make the directory at
once, a start while another one clears a stale lock, an exit during a start.
`Troubles` turns on what the lock does not stand: "write", a write that fails, and
"race", a process that reads the id while another one fills or clears the
directory (`Filling`, `Clearing`), or makes the directory that another one is
clearing. Without "race" those two accesses wait for these few steps (the reading
of the id until a lock that was cleared is made again), and nothing else does.

Four processes let three of them die at different steps before a fourth starts.
The run does not check for deadlock: processes start once, so the system ends.
The docstring of `stop_running_daemon` promises that "no live daemon remains";
`StoppedMeansNone` is the part that holds: a daemon that starts while the updater
waits is not looked for.

### UpdateFlow and UpdateLife

One step is one section under `_linux_package_guard` or one call that blocks.
`ops` holds every operation ever begun and `cur` the one that
`_linux_package_operation` points to; every write of a phase goes to `ops[cur]`,
whoever writes it, as in the code. `pc` and `loc` are the requests of the window
(status, and start of an update for each kind of install), `load[i]` and
`inst[i]` the download and install threads of operation `i`, `dirs[i]` the
folder of its download and what lies in it. `installed`, `stamp` and `running`
are the version dpkg answers, the one in the configuration and the one of the
engine, which differ after an install. Feeds answer or fail one by one; versions
are compared as in `_is_newer`. `EngineRestart` ends the engine anywhere: its threads
are gone, its folders stay, apt may still finish.

`UpdateLife` says what a user sees: nothing, fetching, ready, installing,
installed, failed, and the version on offer. `ImplementsLife` maps the phase and
the target of the current operation to it. The busy phases of the code collapse
to one stage, so the three writes of a download are one step and two stutters.

Bounds: two clients, three versions (a stable, a beta of the same base, a newer
stable), two states of the feeds, two operations, one restart, every fault.
Fairness: each request and each worker goes on; network calls have time limits,
and the package manager is answered or closed.

### Shortcut

The main thread `M`, the load thread `L` and a quitting thread `Q` start and
stop a listener; `lis[i]` is a listener thread, `q[i]` the events it has not
handled and `cb[i]` the callback into the daemon it is in the middle of. pynput
has one listener, evdev one per keyboard, the portal one per session. `names`
and `pressed` are what a backend takes for held, `held` what the user holds.
The window's engine loads the model in the background while the main thread asks
for the listener; the tray has its model. Keys repeat, keyboards are unplugged,
the session is closed, authorization is denied, the combination changes, the
microphone does not start, the engine quits at any point.

A press is two steps: `OnPress` takes the locks of the recorder and looks whether
it may record, `StartRecording` starts the microphone with the locks in hand, so
that other callbacks wait (`Unlocked`) and `shutdown`, which takes no lock, does
not. `late` notes that a shutdown met a press between the two.

Bounds: two keys, on one or two keyboards, four strokes, one change of the
combination: a press and a release of both keys in any order. Fairness: the
threads that start, listen, change and quit go on.

`excused` marks a lost release for one of four reasons, each of which the code
has: a change of the combination clears the flags while a callback is on its
way; with two evdev keyboards a release overtakes the press; the session is
closed or the keyboard unplugged while keys are held; the restart of the portal
for a new combination fails during a dictation.

### Library

One step is one file operation. `note[n]` is a directory with its `note.json`
and the number of its segments; a thread that changes `note.json` loads it, and
replaces it later (`rev` counts the replacements, so that a save over a version
the writer had not read is noticed: `raced`). `history` is the list of
`recent-history.json`, changed in the same way. `Ui` threads archive, unarchive
and clear, and an engine that starts recovers the notes it finds. `Crash` forgets
everything but the disk.

Three threads of the engine meet on a note while it is recorded. The operations
(`control`) create it, discard it file by file and only then declare it terminal
(`Forget`), or fail it; the recorder's thread may fail it as well (`recorder`);
the worker takes pieces of a note still recorded or paused (`Cut`, `TakePiece`),
then its end, and looks at the session once more before it settles the note
(`Check`) and takes its id (`Claim`). `sess` is the session as the engine knows
it: "stopping" is a paused note whose end is queued and which is still active,
"claimed" one whose note id was taken out of the dictionary by a failure or by the
delivery. What waits for the worker is taken in any order except that pieces come
first, so nothing here rests on the order of the two queues.

Bounds: one note, two dictations, two segments, one piece waiting, two entries of
history instead of 20 (three texts, so one is pushed out), two requests at once,
one crash, one failure of a write or a capture. Notes meet only in the history,
where the dictations take the place of a second one.

`raced` is the only excuse for a lost entry or a lost archive flag; `skipped`
says that a write failed during recovery, which ends it. `tossed` are the notes
the user has discarded: of those `StoreInv` says that they have no record that
could be listed (`DiscardedIsGone`), not that nothing is left of them (see
Departures).

### Clipboard

A paste is a transaction of a thread of its own, under the lock of the keeper:
save, write, let the caller send the keys, wait until the text was read, look
again, put back. `plat` is the kind of session: Windows and X11 notice reads,
the others ("blind": Wayland, pyperclip) wait a fixed time; "none" is a machine
without a keeper. `clip` holds the two selections with their owner and value.
The user copies or selects, the target reads late, and a watcher reads, at any
time. `slips` and `foreign` note the pastes whose target was slower than the
time limit or whose clipboard somebody else wrote; `excused` the selections
whose copy could not be kept: it could not be saved or restored, the platform
has no PRIMARY, or the user copied between a look and the write that follows.

A tool of X11 or Wayland that ends with an error counts as an empty clipboard
(`ReadsEmpty`, `Unread`): what was there is not put back. An xclip that is ended
because it was not ready in time may have taken the selection, which is then empty
(`Cleared`). Both note the selection as excused.

Bounds: two texts by the same or by two callers, one copy, one watcher, one
fault. Fairness: every transaction goes on. The waits of the keeper have time
limits; `wl-copy`, the programs that send the keys and `_set_x_selection` have
none in the code, so `CallerReturns` assumes that these programs end.

### Settings

`file[f]` is the content of a file, empty between the truncation and the write;
one key "stt" stands for the settings that are always written, "hotwords" for
the lists, whose setter writes only a change, "device" for the retired ones that
a load drops. An actor (the tray, a request of the window, a command) has a list
of operations; each setter reads the file, later empties it and writes it.
A read may fail (`ReadFails`): a load then goes on with the defaults, a setter
from an empty file, which it writes. `entry` and `marker` are the desktop entry
for the start at sign-in and the file that says the entry was made once. The entry
is written like the settings, emptied first (`Emptied`, which `startup_enabled`
takes for enabled) and filled later by who has it open (`open`); one that was
removed meanwhile stays removed. `excused` marks the files whose changes
overlapped, whose write was cut off, or that a setter wrote without having read
them. `entryExcused` marks the entry from a first start that left no marker, or a
repair that overlapped with a change or was cut off between its two steps, until
the user chooses again.

Bounds: one request thread, one command, the tray; two changes, one fault (a
crash, a failed read or a failed write).

### Front ends

`Tray`: the callbacks of the GTK loop are atomic; what runs beside it is the
worker of each switch, and what may come late is its answer, the timers (tick,
lock, abort, clear) and the messages of the engine. A failure dialog runs the
loop again, so every callback may happen inside it (`dialogs`).
`WindowsTray`: threads of the engine set a flag and post a message; the message
loop shows the flag. `EventStream`: three threads of the engine publish to the
bounded queue of each subscriber, the server streams it, the window applies
events and the responses of its own requests, reopens a broken stream and asks
for the state when it had one before. `ui` is what the window shows, with its
60-second watchdog. An operation has told what it changed before it gives the
control lock back (`Settled`), so operations are told in order. A failure is not:
it changes the note first and tells its end later with no lock (`FailNote`), so
the operations on the next note may be told before it; `crossed` and `Late` note
when that leaves the window with an old value. A failed note keeps its microphone
until a thread of its own closes it (`mic`, `MicEnds`), which is what keeps the
next note from starting at once; if it was paused there is no such thread, and the
failure clears the flag of whatever note is paused by then (`ClearPause`).

`Frontends` gives them one specification; they share no state, so every
behaviour is a scene of one of them and the bounds are chosen per scene: the
tray with two switches, or one switch and a message of the engine; three
reports of two threads and two commands; a window on an engine that is up
(two things happen to notes; one may be recorded already, or its failure about to
end), that is still
loading with a stream that breaks, or that starts again. The queue has room for
two events instead of 64, so it overflows. Switches, reports and notes are
bounded, so a behaviour ends and the run does not check for deadlock.

Fairness: the streams, the requests and the watchdog of the window go on. The
tray and the icon are checked without fairness.

## Runs

Every run passes. A property named here is the INVARIANT or PROPERTY of the
run's `.cfg`; several of them join smaller ones, which have names and comments of
their own in the module.

| Run | Instance | Properties |
| --- | --- | --- |
| `daemon_dictation` | shortcut against tray and shutdown, every fault | `DeliveredOnce`, `IndicatorShown`, `HeldWhileDictating` |
| `daemon_notes` | two clients, silence, shortcut; no faults | `NoOrphanCapture` |
| `daemon_faults` | one client, tray, silence, every fault | `TypeOK`, `PausedMeansHeld`, `BoundedMemory`, `NoDeliveryAfterFailure` |
| `daemon_client` | one client, seven operations, queues of two | `TextInOrder` |
| `daemon_live` | one client that also starts over a paused note, shortcut, silence; fairness | `OperationsEnd`, `AudioAnswered` |
| `process_lock` | four processes, starts and exits overlapping, crashes and kills anywhere | `MutualExclusion`, `StoppedMeansNone`, `RefusedRightly` |
| `update_flow` | two clients, every install kind, every fault; fairness | `TypeOK`, `OwnOperation`, `PackageFiles`, `AnswersTrue`, `BusyEnds`, `ImplementsLife` |
| `shortcut` | every backend, window and tray; fairness | `TypeOK`, `ListenersInOrder`, `DictationFollowsKeys`, `ShortcutStarts` |
| `library` | a note in pieces, two dictations, a crash, a failure, two requests | `StoreInv`, `HistoryRolls`, `ArchiveSticks`, `FinishedStays` |
| `clipboard` | two pastes, a copy, a watcher, a fault; fairness | `KeeperInv`, `CopyKept`, `CallerReturns` |
| `settings` | tray, request and command; two changes, a crash, failed read or failed write | `FilesInv`, `DisabledStaysDisabled`, `RetiredStaysAway` |
| `frontends` | eight scenes of tray, icon and window; fairness | `TrayInv`, `WinInv`, `StreamInv`, `NoLateSwitch`, `StreamGoesOn` |

What they show, beyond types:

- Recording. A recording is delivered at most once and never after it failed,
  in the order of speech although the worker prefers the partial queue; the
  indicator is lit while the microphone runs; a dictation has its key held; a
  pause is found by what ends it; queues and cache keep their bounds; operations
  return and queued audio is answered, but for the one cycle of locks below.
- Lock. One daemon; a refusal has a reason; "stopped" is true.
- Updates. A phase is written only by the one thread whose operation is
  current, although every write looks the operation up again (`OwnOperation`); a
  folder of a running engine has an owner, and only a file with the published
  digest is installed (`PackageFiles`); what the window is told agrees with the
  operation, the feeds and the installed version (`AnswersTrue`); a busy phase
  ends; the whole implements `UpdateLife`.
- Shortcut. No listener before the model, one per key; what the backend takes
  for held is held, the last release ends the dictation, shutdown leaves none
  behind but one whose press had passed its check; who asks for a listener gets it
  or is told why not.
- Files. A ready note is complete; text on disk is found; a discarded note has no
  record although worker, recorder and failures write beside the discard;
  recovery settles what a crash left and nothing else; the history is the last texts in order; an
  archived item stays archived while the worker settles it. Each setting keeps
  the value chosen last, a retired one does not come back, and a start at
  sign-in that was switched off stays off.
- Clipboard. The target pastes the text its keys were sent for; afterwards each
  selection holds what the user put there last; the caller gets on with its work.
- Front ends. The menu names the model in use, whatever late answers, timers and
  dialogs do, and only the last switch takes effect; the icon shows the last
  report; the window agrees with the engine once nothing is on its way, leaves
  "processing", and a broken stream gives its queue back.

A ghost variable that excuses a state (`excused`, `raced`, `skipped`, `tossed`,
`beaten`, `late`, `crossed`, `astray`, `early`, `lingered`, `overlapped`, `slips`,
`foreign`, `entryExcused`) is set at
the step of the code where the promise is given up, never by what comes of it,
and each reason is one of the departures below.

## Departures

Where the code does less than it, its tests or its documents say, the
properties are stated for the part that holds. The rest is listed here; each
line was seen in the model.

Recording core.

- `start_note_recording` on a paused note takes the control lock while it holds
  the recording lock (`daemon.py:176`), the other way round from every other
  operation. With any of them in between, both wait for ever, although
  `tests/test_daemon_history.py:932` expects an active and a paused note to stop
  "without hanging". `StartBlocks` is that state; `OperationsEnd` excuses it, and
  fails in `daemon_live` without the excuse.
- A note stopped without samples, and a paused note finished by the release of
  the shortcut, queue neither audio nor a marker (`daemon.py:647`, `715-728`,
  `747`): it is never answered, while the docstring at `daemon.py:1295` counts
  "every non-success terminal path for note-mode recordings".
- A discard that overlaps the worker leaves segments or the saved note, against
  "Discard an active or paused note recording without saving a note."
  (`daemon.py:277`): `append_segment` makes the directory again without
  `note.json` (`note_store.py:118`), where nothing finds or cleans it; a discard
  after the worker's last look (`daemon.py:1386`) leaves the text in the history;
  one between the load and the replacement of `note.json` leaves the note.
- `_fail_recording_session` looks (1524) and marks (1536) in two critical
  sections, so one recording can fail twice;
  `tests/test_daemon_history.py:1163` asks for "exactly one terminal signal".
- `_fail_recording_session` reads whether the microphone runs (1531) and clears
  the active id later (1578-1584). If a decode fails just after a pause has
  stopped the microphone, the pause is completed, a resume finds the note paused
  and starts the microphone, and the handler then clears the id: the microphone
  runs with no recording (`NoOrphanCapture` with notes, `pause`, `resume` and
  failing decodes; `daemon_notes` has no faults).
  `docs/dictate-privacy-policy.md:16`: "Microphone audio is used only while you
  dictate".
- The worker completes a clip before `_finalize_recording` looks at it a second
  time (line 730): the recording callback never says False.
- `set_push_to_talk_combo` forgets the pressed keys while a press is on its way
  to the microphone: a dictation runs with no key held (`HeldWhileDictating`
  with `combo` among the operations).
- A press that passed the `active` check (546) before `Daemon.pause` or
  `Daemon.shutdown` cleared it starts the microphone afterwards (620). The shutdown
  has looked at the microphone by then (528) and does not end the recording
  (`late` in `Shortcut`).
- The late tail of an old note failure reports False after a newer recording
  reported True (`IndicatorShown` with notes and failing decodes).
- A discard takes the queues apart and puts the chunks of another note back after
  the worker has taken later ones (`TextInOrder` with `cancel` among the
  operations).

Lock ("Single-instance lock for Dictate daemon modes", `process_lock.py:1`).

- The directory is made (line 24) before the id is written (line 34), and cleared
  in three steps (53-64). A start that looks at it in between takes it for stale,
  and one that makes it anew meanwhile loses it: two processes become the daemon
  (`MutualExclusion` with "race" among the `Troubles`).
- A write that fails is ignored (line 36): the daemon runs on a lock without its
  id, which the next start breaks.

Notes and history.

- `HistoryStore` is called "Thread-safe" (`history.py:30`) and has no lock: of
  two overlapping changes one is lost. So it is with `note.json`.
- The text of an archived note comes back through its copy in the history
  (`ui_server.py:321`, the texts are compared only with listed notes), while
  `ui/src/test/app.test.jsx:1482` says that archiving "removes a note from the
  visible list". `ArchiveSticks` is about each item by itself.
- A microphone that fails at the start of a note leaves it "recording" until the
  next start; recovery ends at the first write that fails; a headless engine
  serves requests before it recovers; `.tmp` files and directories without
  `note.json` are never cleaned; archived entries count toward the 20.

Updates.

- The start of the install thread (`update_status.py:1022`) is not guarded, as
  that of the download thread is: would it fail, "installing" stayed for ever.
  `BusyEnds` is checked with failing starts of the download thread only.
- A package that is ready is not shown while the feeds cannot be reached, nor
  when a newer version was installed elsewhere; beside it the newest version is
  shown, not the one that is ready. With a dpkg that does not answer, a stale stamp
  can have the running version installed again, and the restart then brings no newer
  engine (`RestartHelps` says so). Folders leak when the engine restarts.
- The direct Windows update has no single flight: two requests run two setups.

Shortcut.

- The four reasons of `excused` and the press of `late` (see the module). A denied restart of the portal
  keeps the backend, so the next change reports success to a deaf shortcut; a
  closed session is not opened again.
- pynput reports a shifted character under another name at its release, which
  leaves a key taken for held. Characters are not modelled.

Clipboard.

- "that copy is left alone" (`clipboard_keeper.py:7`) holds up to the steps
  between the last look at the clipboard and the restore (X11, Wayland,
  pyperclip), and between the snapshot and the write.
- A tool that ends with an error is taken for an empty clipboard
  (`clipboard_linux.py:139`, `147-158`, `247-256`), which is what is restored; an
  xclip ended because it was not ready (78) leaves the selection it took empty.
- On X11 a failed restore of the first selection loses the second as well; a
  failed snapshot there says that the clipboard keeps the dictated text
  (`clipboard_keeper.py:249`), which ends with the writer's process. Wayland
  sessions do not save PRIMARY. A watcher that renders the text first leaves
  Windows without the signal, which costs its time limit.
- A terminal with xdotool and without xclip is sent Shift+Insert though PRIMARY
  does not hold the text.

Settings.

- Overlapping changes of one file lose one of them; a crash or a full disk between
  truncation and write loses all, and so does a setter whose read failed, which
  goes on from nothing (`config.py:243`, `ui_server.py:117`) and writes its own key
  only; a request that is refused half way keeps its first half.
- A user who disables the start at sign-in before the first run, or between the
  read and the write of the repair, is overridden. The repair empties the entry
  before it fills it (`startup.py:248`) and passes over a failure: a crash or a
  full disk leaves an empty entry, which `startup_enabled` (36) takes for enabled.
  That is against "a user's disabled autostart stays disabled" (`startup.py:235`).

Front ends.

- Tray: a failure dialog inside another lets the outer one release a newer
  switch, whose time limits then do nothing; "Switching to…" can overwrite
  "Switch failed" and stay; a failed write in the middle of a callback leaves
  the rest undone. A switch that goes on in the background cannot be called off
  by choosing the current model.
- Windows tray: two reports at once may be posted in the other order.
- Window: the end of a failed note is published with no lock (`daemon.py:1570`),
  after the paused flag was cleared (1533) and perhaps after a newer note was
  begun: the window shows that one as off until the state is asked for again. So it
  is when the failure clears the pause of a newer note (1582) and tells nobody
  (`crossed`, `astray`). A stop of a paused note that a start overtakes tells
  nothing at all; it is not in `EventStream`. A failed note is published before the end of its recording
  (`daemon.py:1553-1570`), as is an outcome of a quick worker, so the window goes
  back to "processing" and reports a time-out 60 seconds later (`early`). A full
  queue drops events until the next reconnect, a first stream has no re-sync, and
  a response older than an event reverts it (`astray`). The response to a discard
  resets a note begun meanwhile. A client that is gone before the headers leaks
  its queue (`leaked`).

## Theorems

Each is proved for every value of the constants, from the assumptions stated in
the component's module. The invariants of the recording core are in
`DaemonInvariants`.

`TypeSafety` (`DaemonProofs`): `Spec => []TypeOK`. `TypeOK` alone is not
inductive: a step that uses `sess[loc[t].id]` needs the id to be one. `HasId`
names the program points where a thread works on a recording. There is one lemma
per action; `Same` and `Parts` reduce it to what the action changes.

`DeliveredAtMostOnce` (`DaemonProofs`): `Spec => []DeliveredOnce`. The terminal
set cannot carry the argument, because it forgets: it is a cache. What does is
the list of parts. `OnceInv` says that a recording that was delivered has no open
session (`Spent`), that parts exist only in an open session (`PartsOpen`), that
ids not yet given out are fresh (`FreshAhead`), that a thread about to open a
session has a fresh id of its own (`FreshStart`, `OwnStart`), and that a
dictation is typed after its session was closed (`Typing`). Most steps do nothing
of this kind; the lemma `Frame` covers them. Six steps remain and are proved one
by one.

`NoLateDelivery` (`DaemonProofs`): `NoDeliveryAfterFailure`, if no client
discards (`"cancel" \notin Ops`; with a discard it is false, see Departures). A
failure is told by whoever has the end of the recording. The invariant is about
that right: it lies with the thread that finalizes, with one chunk in the final
queue, or with the worker, never with two; an ended recording has none of them
and its session is closed.

`MemoryBounded` (`DaemonProofs`): `BoundedMemory`. The full queues are the easy
part; the cache forgets an id when its last entry is pushed out, so the invariant
counts the entries of an id in the eviction order against the set.

`HeldToTheEnd`, `IndicatorLit`, `NeverOrphaned` (`DaemonProofs`):
`HeldWhileDictating`, `IndicatorShown` and `NoOrphanCapture`. Each of them is about
the microphone and holds under the hypothesis its departure below asks for, for
every value of the other constants; TLC finds the departure as soon as the
hypothesis is dropped. They share an invariant, `Core`, of all operations and
faults:

- `LocksOwned`: who is inside the control or the recording lock, by its program
  point.
- `MuteInv`: from the stop of the microphone to the return of the control lock it
  stays off, in the failure handler called in between as well (`Mutes`).
- `PastInv`, `StartOwn`: an id that somebody works on was given out before, except
  for the one thread whose recording is about to begin.
- `ClosedInv`: whoever ends a recording finds it no longer active or is the one
  who will see to that, and a recording that is not active any more never becomes
  so again (`ClosedKept`). So a step of the worker on a closed recording cannot
  touch the one that runs.

On top of it:

- `HeldInv` (no change of the combination): a dictation is only started by the
  shortcut's thread; while its recording runs, the key is held or that thread is on
  its way through the release (`HeldOrReleased`). The recording that runs keeps
  its mode, since a failure that forgets a session either closes it or saw another
  one active (`Aside`).
- `LightInv` (no note is begun): every failure that puts out the indicator was met
  by the thread that had stopped the microphone and still has the control lock
  (`Soft`). A note may fail from the worker, which has no lock.
- `OrphanInv` (no switch of models, no failing decode or segment): a running
  microphone has an active recording or a discard that will stop it (`Owned`). The
  others say why the worker cannot fail a note that is still recorded: a failure
  is met on a recording that is closed or being discarded (`FailsOff`,
  `Condemned`), and so is all that has failed (`DeadOff`) or lost its session
  (`LostOff`).

`SpokenOrder` (`DaemonProofs`): `TextInOrder`, if no client discards. The audio of
a recording goes through the recorder, one of two queues, the worker's hands, and
then both the file of segments and the parts in memory; every place may hold some
of it. `OrderInv`, tried with TLC on the constants of `daemon_client` and of
`daemon_faults` before it was proved, orders them:

- `Mark` is the first capture that nobody has handed over. It only grows
  (`MarkStep`), and the capture that an operation carries to a queue is that one
  (`HandOrder`), since the control lock lets one operation at a time stop the
  microphone. So all that is queued, held or stored is older (`QueueOrder`,
  `TextOrder`, `WorkOrder`).
- For a recording whose end is still to come: what is stored comes before what the
  worker has, that before what is queued, and the partial chunks before the last
  (`WorkOrder`, `StoreOrder`). The worker prefers the partial queue but looks at the
  two one after the other; that the last chunk is not queued while a pause is on its
  way (`NotEnded`) keeps it behind.
- Once the worker has the end, chunks that come too late find a session that takes
  no text (`EndsKept`): a recording that failed or was typed has neither parts nor
  note left (`DeadStays`).

They assume that the names of the UI threads differ from those of the daemon's
own threads (`ThreadsAssumption`), and that the constants are of the right kind,
with queues of at least one (`BoundsAssumption`).

`OneDaemon`, `StopIsComplete`, `RefusalHasReason` (`LockProofs`), all under
`Troubles = {}` and for any number of processes whose starts and exits overlap:
`MutualExclusion`, `StoppedMeansNone` and `RefusedRightly`. What is
assumed is that no write fails, and nobody reads the id or makes the directory
in the few steps in which another process fills or clears it. `MutualExclusion` is
not inductive; `LockInv` adds that the daemon is recorded in the lock (`Recorded`),
that whoever fills or clears the lock is the only one there (`OneInside`) and knows
there is no daemon (`NoDaemonBeside`), and what is left of the files at each step
(`Writing`, `Broken`, `Unwritten`). `Found` says that a daemon that leaves does
not come back.

`UpdateTypes`, `OperationIsOwn`, `FilesAccounted`, `LifeImplemented`, `AnswersTold`
(`UpdateProofs`), for any number of requests, versions, feeds, faults, operations
and restarts, under `UpdateAssumption` (a version is a number and a sequence of
prerelease parts; the started version and the answers of the feeds are
versions): `TypeOK`, `OwnOperation`, `PackageFiles`, the refinement `ImplementsLife`,
and `AnswersTrue`.

- `OwnOperation` speaks of all threads at once. What is inductive says who the
  owner is: `OpInv` holds that either nobody works and the phase is a quiet one,
  or one request prepares the operation, or one download thread loads it, or one
  install thread installs it, and the phase says which. A step hands the
  operation on or ends it, and every other thread is at a point where it writes
  no phase.
- `FileInv` says to whom the folders belong: nothing is there of operations to
  come, a direct download uses a number that was given out, the package that is
  ready or being installed is the one its operation downloaded, a package
  operation is only ever found on a package install, and an install thread
  cleans up after it published its end. From it a folder is followed from owner
  to owner (`LeftoversStep`). The digest is checked again just before the
  install, so a package lost meanwhile is not used (`VerifiedStep`).
- The refinement needs both: a failure that is published while a package is on
  offer would be a step `UpdateLife` does not have, and `OpInv` is what rules it
  out. `StageAfter` says what a change of the phase does to the stage; there is
  one lemma per group of actions.
- `AnswersTrue` compares versions, so it rests on the comparison of the code being
  a strict total order (`NewerStrict`, `NewerTransitive`, `NewerTotal`), which
  `PreNewerBeats` reduces to the first part that differs. `Backed` then says that
  the versions a request, an install or the configuration relies on are not newer
  than the installed one, which only grows (`InstalledGrows`); `Reported` that
  what a request reports as installed is the current operation; `Offers`, as long
  as dpkg answers, that what is loaded or ready is newer than what runs.

`ShortcutTypes`, `ListenersOrdered`, `ShutdownIsQuiet`, `DictationFollows`
(`ShortcutProofs`), for any keyboards, keys, combinations and strokes: `TypeOK`,
`ListenersInOrder`, `ShutdownLeavesNoDictation` and with it all of
`DictationFollowsKeys`. A listener is started by the
load thread or by the main thread, whichever comes last, so the invariant follows
the start itself: `Owed` says that one is on its way, only one thread has it, and
the threads of the listeners are used in turn (`RoomInv`), one for the first start
and one for each change of the combination.

`DictationFollowsKeys` speaks of a program at rest; `FollowInv` says what is on its
way before that, as long as no release was lost in one of the known ways:

- `KeysInv`: a key that the backend takes for held is heard by a listener, the only
  one that hears it, and is held unless that listener's queue ends with its release
  (`Heard`). A queue has only events of keys its listener still hears (`Addressed`).
- `PressedInv`: the combination is pressed for a listener that runs, or one that is
  being joined. For the portal the last signal on its way says what the keys say
  (`Final`); for the others some key of it is taken for held.
- `DictatingInv`: a dictation without the combination has the release in a callback,
  or a main thread on its way to end it.

For the shutdown the invariant says that from the step that clears `active` on,
only a callback that had been let in before can start the microphone, and that
`late` tells whether there was one.

It needs that no combination is empty (`CombosAssumption`): `parse_hotkey_combo`
refuses one, and no key would end its dictation.

`LibInvariant` and from it `DiskTold`, `HistoryKept`, `ArchivedStays`,
`SettledOnce` (`LibraryProofs`), for any notes, dictations, segments, threads of the
server, crashes and failures: `StoreInv`, `HistoryRolls`, `ArchiveSticks` and
the action property `FinishedStays`. `LibI` adds to them what each thread may be
doing with which text (`ThreadsOK`), that what the worker holds is not waiting for
it as well (`QueueOK`), that one thread at a time has the id of a note to settle
(`ClaimsOK`), and what was read still holds when it is written: a writer that
started from a record writes a change of that record (`KnownAt`, `EntrySticks`,
`Rolls`), or the file was written since and counts as raced. `FilesAt` says where a
record is and where there is none: a note in use has one unless the user discards
it, a discarded one has none because whoever still works for it finds none or
writes over one it had not read. `RecoveringAt` and `UnfinishedAt` follow a note
that a crash cut off from the crash to the start that settles it. It needs that texts, threads and names of
the actors are distinct (`LibraryAssumption`).

`CopyStays` and `TargetRight` (`ClipboardProofs`), for any number of texts, copies,
watchers and faults: `CopyKept` and `KeeperInv`.

- `CopiesSafe` for the first: a selection that is not excused holds what the user
  put there, or the transaction in the lock owns it, has that in its snapshot and
  has the selection still to restore. A restore that looks first and writes later
  has looked (`Looked`), so that a copy in between is one of the excused.
- `Promises` for the second: from the write on, the text is where the target pastes
  or an excuse is noted. The hard step is the end of the wait. A read that was
  noticed before the target handled the keys was somebody else's (`foreign`); a
  text that is gone from its selections was overwritten, which was noted then. That
  needs that the text of a waiting transaction is owned by it and by no snapshot
  (`Contents`), and that the keys of a text are out once (`Sent`).

`ClipboardAssumption` tells texts, copies and the marks of owners apart.

`FilesKept`, `DisabledSticks`, `RetiredGone` (`SettingsProofs`), for any requests,
commands, changes and faults: `FilesInv`, `DisabledStaysDisabled` and the action
property `RetiredStaysAway`. Unless two changes of a file have met or a setter could
not read it, either nobody writes it and every change under way started from what
it holds, or one actor writes it and will write what was chosen. An entry that is
switched off is enabled only while a repair writes it, and that repair has read it
switched off (`StaysOff`).

`TrayTold`, `LateAnswers`, `IconTold` (`FrontendProofs`), for any models, scenes and
threads: `TrayInv`, the action property `NoLateSwitch`, and `WinInv`. For the tray:
while the menu is held, the latest switch is one it knows of, a timer will end the
wait, and its model is the one wanted and another than the one in use. The
identifiers of switches are counted against the choices left, because an abort
uses one of its own (`CountOK`). For the icon: a report that is not shown yet has a
message in the queue or a thread that is about to post one.

`StreamTold` (`FrontendProofs`), for any operations, levels, broken streams and
restarts: `StreamInv`. When nothing is on its way the window shows the note and the
notes saved as the engine has them, but for what went astray. Its inductive
invariant says what is on its way before that:

- `NoteI`: the last word on the note, in a thread's events, in the queue or in a
  response that will be applied, is what the note is; or the window will ask for
  it, or it is astray. An event that overtakes a response makes the response old
  (`Aged`), so that it no longer speaks of the note. While a failure and an
  operation both have to tell, neither has the last word; whoever is last either
  says what the note is, or is noted (`Late`).
- `HistoryI`: nobody lists a note that is not saved, and each saved note is shown,
  is brought by an event, or will be asked for.
- `OutcomeI`: the outcome of a note stands behind its end wherever both are, so
  that it cannot come first, unless it was published first (`early`).
- `Wiring` and `Lengths`: an open stream is subscribed to the engine that is up; a
  thread has no more to publish than the operations begun so far.

`StreamInv` needs that a scene starts within its bounds (`ScenesAssumption`).

Only model-checked:

- `PausedMeansHeld`. It is not true for every value of the constants: a pause that
  waits while enough other recordings fail finds its own failed recording pushed
  out of the terminal cache, and pauses it. One client, the tray and the
  silence monitor do not get that far.
- Every liveness property: liveness under fairness and ENABLED are beyond TLAPS
  here.

## Plan

What is left, in the order of its worth:

1. `Recording`: the abstract life of a recording (started, captured, answered),
   implemented by `Daemon`.
2. `StreamChunks`: counters, markers and resume offsets of a backend that decodes
   while it records.
3. `EngineStart`: shell, start of the UI server, handshake file, takeover.
4. The recorder's own threads and its ring buffer.

## Not modelled, and why

- The streaming chunk path: no shipped backend enables it (planned).
- The Tauri shell: planned with `EngineStart`. The web interface beyond its event
  stream is rendering.
- The speech engine, audio preprocessing and cues, `NoteSilenceMonitor`: numeric
  code. A decode is a call that returns text, nothing or an error; silence is an
  event that may come at any time.
- The lexicon, paths, logging, timing: functions of their input, with no state
  shared between threads.
- Command line (other than `config`), doctor, preflight, dialogs, installers and
  packaging: one-shot calls into the operating system and user interface.
- Inside modelled parts: the two time limits of the portal listener; characters
  with modifiers in pynput; ydotool and the outputs that type character by
  character, which no dictation uses; the launcher entry; Active, Quit and the
  icon of the Linux tray; the limits of `list_notes`; `mark_processing`, which
  has no caller; more than one window.
- Liveness, ENABLED and what recursive definitions compute for every input are
  beyond TLAPS here and are left to TLC.
