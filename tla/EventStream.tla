---------------------------- MODULE EventStream ----------------------------
(* How the settings window follows the engine: the daemon's callbacks        *)
(* (ui_launcher.py), the event broker and the HTTP server (ui_server.py), and*)
(* the window, which asks for the state, keeps one event stream open and     *)
(* reopens it when it breaks (ui/src/App.jsx, ui/src/ipc.js).                *)
(*                                                                           *)
(* Three facts of the engine are followed: the load of the model, the note   *)
(* that is recorded, and the notes that were saved.                          *)
EXTENDS Integers, Sequences, FiniteSets

CONSTANTS Cap,         \* room in the queue of a subscriber (64)
          MaxOps,      \* bound: what happens to notes
          MaxLevels,   \* bound: audio levels published
          MaxBreaks,   \* bound: connections that break
          MaxRestarts  \* bound: engines that start again

ASSUME StreamAssumption == /\ Cap \in Nat \ {0}
                           /\ {MaxOps, MaxLevels, MaxBreaks, MaxRestarts} \subseteq Nat

Threads == {"op", "worker", "loader"}       \* threads of the engine that publish
Conns == 1 .. 1 + MaxBreaks + MaxRestarts   \* event streams, in order
Notes == 1 .. MaxOps + 1
NoSnap == [phase |-> "none", note |-> "none", saved |-> {}]

VARIABLES
  phase, note, saved,  \* the engine: its model, its note, the notes it saved
  notes,               \* notes started so far: number of the latest
  unanswered,          \* notes stopped, their transcription under way
  mic,                 \* the microphone is open
  clearing,            \* a failure has still to clear the flag of a pause
  up, wired,           \* serve() has returned; the callbacks publish
  todo,                \* events each thread has still to publish
  asked,               \* streams requested, not yet read by the server
  subs,                \* _subscribers: streams with a queue
  streams,             \* those whose headers were sent
  queue,               \* queue of the stream the window holds
  link, conn, opened,  \* the window's stream, its number, whether one ever opened
  requests,            \* requests of the window under way
  ui,                  \* what the window shows
  opsLeft, levelsLeft, breaksLeft, restartsLeft,  \* bounds
  astray,              \* history: facts the window may have missed for good
  leaked,              \* history: see NoLeak
  early,               \* history: notes answered before they were called off
  crossed,             \* history: notes a failure changed beside the operations
  told                 \* history: last note whose outcome reached the window

engineVars == <<phase, note, saved, notes, unanswered, mic, clearing, up, wired>>
brokerVars == <<asked, subs, streams, queue>>
windowVars == <<link, conn, opened, requests, ui>>
bounds == <<opsLeft, levelsLeft, breaksLeft, restartsLeft>>
history == <<astray, leaked, early, crossed, told>>
streamVars == <<engineVars, todo, brokerVars, windowVars, bounds, history>>

\* A tray has loaded its model before a window can be asked for; an engine
\* without one serves the window first.  A window that is opened again comes to
\* an engine that is served already, has its model and may be recording a note, or
\* be about to end the failure of one.
StreamInit(served, recorded, ops, levels, breaks, restarts) ==
    /\ phase \in {"loading", "ready"} /\ (served => phase = "ready")
    /\ note = (IF recorded = "failed" THEN "off" ELSE recorded)
    /\ notes = (IF recorded = "off" THEN 0 ELSE 1) /\ saved = {} /\ unanswered = {}
    /\ mic = (recorded = "on") /\ clearing = (recorded = "failed")
    /\ up = served /\ wired = served
    /\ todo = [t \in Threads |-> << >>]
    /\ asked = {} /\ subs = {} /\ streams = {} /\ queue = << >>
    /\ link = "waiting" /\ conn = 0 /\ opened = FALSE /\ requests = {}
    /\ ui = [phase |-> "loading", note |-> "off", saved |-> {}, view |-> "none",
             of |-> 0, watchdog |-> FALSE, discarding |-> FALSE]
    /\ opsLeft = ops /\ levelsLeft = levels /\ breaksLeft = breaks
    /\ restartsLeft = restarts
    /\ astray = {} /\ leaked = {} /\ early = {} /\ crossed = {} /\ told = 0

---------------------------------------------------------------------------
\* Events

\* An event: its type, its value and the note it is about.
Event(type, value, n) == [type |-> type, value |-> value, n |-> n]
Recording(value, n) == Event("note-recording", value, n)
Outcome(value, n) == Event("note", value, n)
Changed(n) == Event("history-changed", "", n)
Stale(n) == Event("transcript", "stale", n)

Facts == {"model", "note", "history"}

\* The fact an event brings.  The window asks for the state until the model is
\* loaded, so that one is never missed.
Saves(e) == e.type = "history-changed" \/ (e.type = "note" /\ e.value = "ok")
Fact(e) == (IF e.type = "note-recording" THEN {"note"} ELSE {})
             \union (IF Saves(e) THEN {"history"} ELSE {})

\* A response that was given before the window learned a later fact is old.
Aged(facts) == {IF r.snap = NoSnap THEN r ELSE [r EXCEPT !.old = @ \union facts] : r \in requests}

\* The engine changed a fact: the thread has events to publish.  Before the
\* callbacks are set it tells nobody.  The window may wait for a response.
Tell(t, facts, events, request) ==
    /\ todo' = [todo EXCEPT ![t] = IF wired THEN @ \o events ELSE @]
    /\ astray' = IF wired THEN astray ELSE astray \union facts
    /\ requests' = request \union IF wired THEN requests ELSE Aged(facts)

---------------------------------------------------------------------------
\* The engine

\* ui_launcher.ensure_server_started: serve() first, the callbacks after it.
Serve == /\ ~up /\ up' = TRUE
         /\ UNCHANGED <<phase, note, saved, notes, unanswered, mic, clearing, wired, todo,
                        brokerVars, windowVars, bounds, history>>

\* _wire_daemon_events
Wire == /\ up /\ ~wired /\ wired' = TRUE
        /\ UNCHANGED <<phase, note, saved, notes, unanswered, mic, clearing, up, todo,
                       brokerVars, windowVars, bounds, history>>

\* The load of the model ends (it starts after the server).
LoadEnds ==
    /\ wired /\ phase = "loading"
    /\ phase' \in {"ready", "failed"}
    /\ Tell("loader", {}, <<Event("model", phase', 0)>>, {})
    /\ UNCHANGED <<note, saved, notes, unanswered, mic, clearing, up, wired, brokerVars,
                   link, conn, opened, ui, bounds, leaked, early, crossed, told>>

\* The changes of the note a thread has still to tell.
Telling(t) == {k \in DOMAIN todo[t] : todo[t][k].type = "note-recording"}
Untold == \E t \in Threads : Telling(t) # {}

\* An operation keeps the recorder's lock until it has told what it changed.
\* Only a failure tells without the lock.
Settled == Telling("op") = {}

\* The window sent the request of an operation, or somebody else asked for it
\* (the silence of the room pauses a note).
Request(for) == {[for |-> for, snap |-> NoSnap, old |-> {}]}
Asks(by) == IF by = "window" THEN Request("op") ELSE {}

\* The window only offers what fits the note it shows.
Offered(by, shows) == by = "window" => /\ link # "waiting" /\ up
                                       /\ ui.note \in shows /\ ui.phase = "ready"

Op(by, value, n) ==
    /\ opsLeft > 0 /\ opsLeft' = opsLeft - 1
    /\ Settled /\ note' = value /\ mic' = (value = "on")
    /\ Tell("op", {"note"}, <<Recording(value, n)>>, Asks(by))
    /\ UNCHANGED <<phase, saved, clearing, up, wired, brokerVars, link, conn, opened, ui,
                   levelsLeft, breaksLeft, restartsLeft, leaked, early, crossed, told>>

\* start_note_recording: refused while the model is not ready or the microphone
\* of a note that failed is open.
StartNote(by) ==
    /\ phase = "ready" /\ note = "off" /\ ~mic /\ Offered(by, {"off"})
    /\ notes' = notes + 1
    /\ Op(by, "on", notes')
    /\ UNCHANGED unanswered

PauseNote(by) ==
    /\ note = "on" /\ mic /\ Offered(by, {"on"})
    /\ Op(by, "paused", notes)
    /\ UNCHANGED <<notes, unanswered>>

ResumeNote(by) ==
    /\ note = "paused" /\ Offered(by, {"paused"})
    /\ Op(by, "on", notes)
    /\ UNCHANGED <<notes, unanswered>>

\* The last audio is queued before the window is told that the note is off.
StopNote(by) ==
    /\ note \in {"on", "paused"} /\ Offered(by, {"on", "paused"})
    /\ unanswered' = unanswered \union {notes}
    /\ Op(by, "off", notes)
    /\ UNCHANGED notes

\* stop_note_recording of a note that failed, its microphone still open: the
\* window is told again that it is off.
StopFailed(by) ==
    /\ note = "off" /\ mic /\ Offered(by, {"on", "paused"})
    /\ Op(by, "off", notes)
    /\ UNCHANGED <<notes, unanswered>>

\* The microphone of a note that failed is closed: by the thread that cleans up
\* after it, or by a pause that finds the note failed.
MicEnds ==
    /\ note = "off" /\ mic /\ Settled /\ mic' = FALSE
    /\ UNCHANGED <<phase, note, saved, notes, unanswered, clearing, up, wired, todo,
                   brokerVars, windowVars, bounds, history>>

\* cancel_note_recording: off, and a stale transcript.  The window remembers
\* that it discards.
DiscardNote ==
    /\ note # "off" \/ mic
    /\ Offered("window", {"on", "paused"})
    /\ opsLeft > 0 /\ opsLeft' = opsLeft - 1
    /\ Settled /\ note' = "off" /\ mic' = FALSE
    /\ ui' = [ui EXCEPT !.discarding = TRUE]
    /\ Tell("op", {"note"}, <<Recording("discarded", notes), Stale(notes)>>, Request("discard"))
    /\ UNCHANGED <<phase, saved, notes, unanswered, clearing, up, wired, brokerVars, link,
                   conn, opened, levelsLeft, breaksLeft, restartsLeft, leaked, early,
                   crossed, told>>

\* _fail_recording_session while the note is recorded or paused: the outcome is
\* told before the window hears that the recording is off.  A start or a resume
\* tells under the lock a failure takes first, a pause does not, and what the
\* failure tells it tells under no lock: operations may change and tell the next
\* note before it.
FailNote ==
    /\ note # "off" /\ note' = "off"
    /\ \A k \in Telling("op") : todo["op"][k].value # "on"
    /\ clearing' = (clearing \/ ~mic)
    /\ opsLeft > 0 /\ opsLeft' = opsLeft - 1
    /\ Tell("worker", {"note"},
            <<Stale(notes), Outcome("failed", notes), Recording("off", notes)>>, {})
    /\ early' = early \union {notes} /\ crossed' = crossed \union {notes}
    /\ UNCHANGED <<phase, saved, notes, unanswered, mic, up, wired, brokerVars, link, conn,
                   opened, ui, levelsLeft, breaksLeft, restartsLeft, leaked, told>>

\* The end of _fail_recording_session for a note whose microphone was closed
\* clears the flag of a pause, whichever note is paused by now, and tells nobody.
ClearPause ==
    /\ clearing /\ Telling("worker") = {} /\ clearing' = FALSE
    /\ IF note = "paused"
       THEN /\ note' = "on" /\ crossed' = crossed \union {notes}
            /\ astray' = astray \union {"note"} /\ requests' = Aged({"note"})
       ELSE UNCHANGED <<note, crossed, astray, requests>>
    /\ UNCHANGED <<phase, saved, notes, unanswered, mic, up, wired, todo, brokerVars,
                   link, conn, opened, ui, bounds, leaked, early, told>>

\* The worker ends a note: text saved and told, nothing said, or a failure.
Answer(n) ==
    /\ n \in unanswered /\ unanswered' = unanswered \ {n}
    /\ \/ /\ saved' = saved \union {n}
          /\ Tell("worker", {"history"}, <<Changed(n), Outcome("ok", n)>>, {})
       \/ /\ \/ Tell("worker", {}, <<Outcome("empty", n)>>, {})
             \/ Tell("worker", {}, <<Stale(n), Outcome("failed", n)>>, {})
          /\ UNCHANGED saved
    /\ early' = IF Settled THEN early ELSE early \union {n}
    /\ UNCHANGED <<phase, note, notes, mic, clearing, up, wired, brokerVars, link, conn,
                   opened, ui, bounds, leaked, crossed, told>>

\* The engine ends and another takes its place; the window loses its stream and
\* its requests, a note that was recorded or transcribed is lost.
Restart ==
    /\ up /\ restartsLeft > 0 /\ restartsLeft' = restartsLeft - 1
    /\ phase' = "loading" /\ note' = "off" /\ unanswered' = {}
    /\ mic' = FALSE /\ clearing' = FALSE
    /\ up' = FALSE /\ wired' = FALSE
    /\ todo' = [t \in Threads |-> << >>]
    /\ asked' = {} /\ subs' = {} /\ streams' = {} /\ queue' = << >>
    /\ link' = IF link = "waiting" THEN link ELSE "down"
    /\ requests' = {}
    /\ ui' = IF \E q \in requests : q.for = "discard" THEN [ui EXCEPT !.discarding = FALSE] ELSE ui
    /\ astray' = IF opened \/ link = "waiting" THEN astray ELSE Facts
    /\ UNCHANGED <<saved, notes, conn, opened, opsLeft, levelsLeft, breaksLeft, leaked,
                   early, crossed, told>>

---------------------------------------------------------------------------
\* The broker

Held == link \in {"opening", "open"} /\ conn \in subs

\* publish: the event reaches the queue of every subscriber that has room (what
\* the queue of a broken stream holds is of no consequence).  One the window
\* does not get is lost for good, unless its stream broke: then it asks again.
\* An event that comes too late sets facts astray.
Broadcast(e, late) ==
    IF Held /\ Len(queue) < Cap
    THEN queue' = Append(queue, e) /\ astray' = astray \union late /\ UNCHANGED requests
    ELSE /\ requests' = Aged(Fact(e))
         /\ astray' = IF Held \/ ~opened THEN astray \union Fact(e) ELSE astray
         /\ UNCHANGED queue

\* What a note-recording event says of the note.
Value(e) == IF e.value = "discarded" THEN "off" ELSE e.value

\* A failure crossed the operations: the event of the one says what the other
\* has changed since.  It misleads when it is the last to be told.
Late(e) == /\ e.type = "note-recording" /\ e.n \in crossed /\ Value(e) # note
           /\ ~Untold'

Publish(t) ==
    /\ todo[t] # << >>
    /\ todo' = [todo EXCEPT ![t] = Tail(@)]
    /\ LET e == Head(todo[t])
       IN Broadcast(e, IF Late(e) THEN {"note"} ELSE {})
    /\ UNCHANGED <<engineVars, asked, subs, streams, link, conn, opened, ui, bounds,
                   leaked, early, crossed, told>>

\* The audio thread publishes a level for every block of the microphone.
Level ==
    /\ wired /\ mic /\ levelsLeft > 0 /\ levelsLeft' = levelsLeft - 1
    /\ Broadcast(Event("audio-level", "", 0), {})
    /\ UNCHANGED <<engineVars, todo, asked, subs, streams, link, conn, opened, ui,
                   opsLeft, breaksLeft, restartsLeft, leaked, early, crossed, told>>

---------------------------------------------------------------------------
\* The server

\* _route: a thread of the server reads the request and subscribes.
Accept(c) ==
    /\ up /\ c \in asked /\ asked' = asked \ {c}
    /\ subs' = subs \union {c}
    /\ UNCHANGED <<engineVars, todo, streams, queue, windowVars, bounds, history>>

Gone(c) == c # conn \/ link = "down"

\* mutant: the window takes up its new stream without asking for the state
OpensSilently == link' = "open" /\ opened' = TRUE /\ UNCHANGED requests

\* The window has its stream.  One that replaces another asks for the state.
Opens ==
    /\ link' = "open" /\ opened' = TRUE
    /\ requests' = IF opened
                   THEN requests \union Request("state")
                   ELSE requests

\* _stream: the headers.  They are written before the try: when the client is
\* gone by then, the queue stays subscribed.
Headers(c) ==
    /\ c \in subs \ (streams \union leaked)
    /\ IF Gone(c)
       THEN /\ \/ streams' = streams \union {c} /\ UNCHANGED leaked
               \/ leaked' = leaked \union {c} /\ UNCHANGED streams
            /\ UNCHANGED <<link, opened, requests>>
       ELSE /\ streams' = streams \union {c}
            /\ Opens /\ UNCHANGED leaked
    /\ UNCHANGED <<engineVars, todo, asked, subs, queue, conn, ui, bounds, astray,
                   early, crossed, told>>

\* mutant: the handler ends and leaves its queue with the broker
EndsSubscribed(c) ==
    /\ c \in streams /\ Gone(c)
    /\ streams' = streams \ {c}
    /\ UNCHANGED <<engineVars, todo, asked, queue, windowVars, bounds, history, subs>>

\* _stream: an event, or the ping after 15 s, cannot be written.
StreamEnds(c) ==
    /\ c \in streams /\ Gone(c)
    /\ streams' = streams \ {c} /\ subs' = subs \ {c}
    /\ UNCHANGED <<engineVars, todo, asked, queue, windowVars, bounds, history>>

\* get_state, or the payload of an operation once it has returned.
Respond(r) ==
    /\ up /\ r \in requests /\ r.snap = NoSnap
    /\ r.for \in {"op", "discard"} => todo["op"] = << >>
    /\ requests' = (requests \ {r}) \union
                   {[r EXCEPT !.snap = [phase |-> phase, note |-> note, saved |-> saved]]}
    /\ UNCHANGED <<engineVars, todo, brokerVars, link, conn, opened, ui, bounds, history>>

---------------------------------------------------------------------------
\* The window

\* connect: the bridge is there; the state is asked for, and the stream.
Connect ==
    /\ link = "waiting" /\ up
    /\ link' = "opening" /\ conn' = conn + 1 /\ asked' = asked \union {conn'}
    /\ requests' = requests \union Request("state")
    /\ UNCHANGED <<engineVars, todo, subs, streams, queue, opened, ui, bounds, history>>

\* onerror: the stream is closed, and reopened after a second.
Break ==
    /\ link \in {"opening", "open"} /\ breaksLeft > 0 /\ breaksLeft' = breaksLeft - 1
    /\ link' = "down" /\ queue' = << >>
    /\ requests' = Aged({"note", "history"})
    /\ astray' = IF opened THEN astray ELSE Facts
    /\ UNCHANGED <<engineVars, todo, asked, subs, streams, conn, opened, ui, opsLeft,
                   levelsLeft, restartsLeft, leaked, early, crossed, told>>

Reconnect ==
    /\ link = "down" /\ up
    /\ link' = "opening" /\ conn' = conn + 1 /\ asked' = asked \union {conn'}
    /\ queue' = << >>
    /\ UNCHANGED <<engineVars, todo, subs, streams, opened, requests, ui, bounds, history>>

\* While the model loads the state is asked for every two seconds, one request
\* at a time.
Poll ==
    /\ link # "waiting" /\ up /\ ui.phase = "loading"
    /\ \A r \in requests : r.for # "poll"
    /\ requests' = requests \union Request("poll")
    /\ UNCHANGED <<engineVars, todo, brokerVars, link, conn, opened, ui, bounds, history>>

\* A poll is cancelled once the model is no longer loading.
Kept(rs, p) == IF p = "loading" THEN rs ELSE {r \in rs : r.for # "poll"}

Unwatched(w) == [w EXCEPT !.view = "none", !.watchdog = FALSE]

\* What the window makes of a note-recording event: an end that comes while it
\* discards is the end of the discarded note ...
OnRecording(w, e) ==
    CASE e.value = "paused"    -> [w EXCEPT !.note = "paused"]
      [] e.value = "on"        -> [Unwatched(w) EXCEPT !.note = "on"]
      [] e.value = "discarded" \/ (e.value = "off" /\ w.discarding) ->
           [Unwatched(w) EXCEPT !.note = "off", !.discarding = FALSE]
      [] e.value = "off" /\ ~w.discarding ->
           [w EXCEPT !.note = "off", !.view = "processing", !.of = e.n, !.watchdog = TRUE]

\* ... and of the outcome of a note.
OnOutcome(w, e) ==
    [w EXCEPT !.watchdog = FALSE,
              !.view = IF e.value = "ok" THEN "expanded" ELSE "none",
              !.saved = IF e.value = "ok" THEN @ \union {e.n} ELSE @]

OnStale(w) == IF w.view = "processing" THEN Unwatched(w) ELSE w

\* onmessage: the next event of the stream.
Deliver ==
    /\ Held /\ conn \in streams /\ queue # << >>
    /\ LET e == Head(queue)
           w == CASE e.type = "note-recording" -> OnRecording(ui, e)
                  [] e.type = "note"           -> OnOutcome(ui, e)
                  [] e.type = "transcript"     -> OnStale(ui)
                  [] e.type = "model"          -> [ui EXCEPT !.phase = e.value]
                  [] e.type \in {"history-changed", "audio-level"} -> ui
       IN /\ ui' = w
          /\ requests' = Kept(Aged(Fact(e)), w.phase) \union
                         (IF e.type = "history-changed"
                          THEN Request("history") ELSE {})
          /\ told' = IF e.type = "note" THEN e.n ELSE told
    /\ queue' = Tail(queue)
    /\ UNCHANGED <<engineVars, todo, asked, subs, streams, link, conn, opened, bounds,
                   astray, leaked, early, crossed>>

\* A note still in the view "processing" is taken from the history when its
\* event has not come.
FromHistory(w, s) ==
    IF w.view = "processing" /\ s # {}
    THEN [w EXCEPT !.saved = s, !.view = "expanded", !.watchdog = FALSE]
    ELSE [w EXCEPT !.saved = s]

\* hydrate, applyNoteState, applyStateModelStatus, the history: a response.  The
\* one of a discard resets the window, also when a later note is recorded.
Apply(r) ==
    /\ r \in requests /\ r.snap # NoSnap
    /\ LET s == r.snap
           w == CASE r.for = "state"   -> [ui EXCEPT !.phase = s.phase, !.note = s.note,
                                                     !.saved = s.saved]
                  [] r.for = "op"      -> [ui EXCEPT !.note = s.note]
                  [] r.for = "discard" -> [Unwatched(ui) EXCEPT !.note = "off"]
                  [] r.for = "poll"    -> [ui EXCEPT !.phase = s.phase]
                  [] r.for = "history" -> FromHistory(ui, s.saved)
           facts == CASE r.for = "state" -> Facts
                      [] r.for \in {"op", "discard"} -> {"note"}
                      [] r.for = "poll" -> {"model"}
                      [] r.for = "history" -> {"history"}
       IN /\ ui' = w
          /\ requests' = Kept(requests \ {r}, w.phase)
          /\ astray' = (astray \ {f \in facts : \A k \in DOMAIN queue : f \notin Fact(queue[k])})
                       \union (facts \intersect r.old)
                       \union (IF r.for = "discard" /\ s.note # "off" THEN {"note"} ELSE {})
    /\ UNCHANGED <<engineVars, todo, brokerVars, link, conn, opened, bounds, leaked, early,
                   crossed, told>>

\* The 60 s watchdog: the window stops waiting for the note.
Watchdog ==
    /\ ui.watchdog
    /\ ui' = [ui EXCEPT !.watchdog = FALSE, !.view = IF @ = "processing" THEN "none" ELSE @]
    /\ UNCHANGED <<engineVars, todo, brokerVars, link, conn, opened, requests, bounds, history>>

---------------------------------------------------------------------------
StreamNext ==
    \/ Serve \/ Wire \/ LoadEnds \/ FailNote \/ ClearPause \/ MicEnds \/ Restart \/ Level
    \/ StartNote("window") \/ ResumeNote("window") \/ StopNote("window")
    \/ StopFailed("window") \/ DiscardNote
    \/ \E by \in {"window", "silence"} : PauseNote(by)
    \/ \E n \in Notes : Answer(n)
    \/ \E t \in Threads : Publish(t)
    \/ \E c \in Conns : Accept(c) \/ Headers(c) \/ StreamEnds(c)
    \/ \E r \in requests : Respond(r) \/ Apply(r)
    \/ Connect \/ Break \/ Reconnect \/ Poll \/ Deliver \/ Watchdog

\* Threads, timers and requests go on; neither the user nor what breaks is fair.
Streaming == \/ Serve \/ Wire \/ Connect \/ Reconnect \/ Deliver
             \/ \E t \in Threads : Publish(t)
             \/ \E c \in Conns : Accept(c) \/ Headers(c)
Asking == Poll \/ \E r \in requests : Respond(r) \/ Apply(r)
Ending == \E c \in Conns : StreamEnds(c)

---------------------------------------------------------------------------
\* Properties

Requests == [for : {"state", "poll", "history", "op", "discard"},
             snap : [phase : {"none", "loading", "ready", "failed"},
                     note : {"none", "off", "on", "paused"}, saved : SUBSET Notes],
             old : SUBSET {"note", "history"}]

\* Every variable of the stream has its type; a thread has at most the events
\* of the operations to publish and the queue its room.
StreamTypeOK ==
    /\ phase \in {"loading", "ready", "failed"} /\ note \in {"off", "on", "paused"}
    /\ saved \subseteq Notes /\ notes \in 0 .. MaxOps + 1 /\ unanswered \subseteq Notes
    /\ {mic, clearing, up, wired, opened} \subseteq BOOLEAN /\ (wired => up)
    /\ \A t \in Threads : Len(todo[t]) <= 1 + 3 * MaxOps
    /\ asked \subseteq Conns /\ streams \subseteq subs /\ subs \subseteq Conns
    /\ Len(queue) <= Cap
    /\ link \in {"waiting", "opening", "open", "down"} /\ conn \in 0 .. Cardinality(Conns)
    /\ requests \subseteq Requests
    /\ ui.note \in {"off", "on", "paused"} /\ ui.saved \subseteq Notes
    /\ ui.view \in {"none", "processing", "expanded"}
    /\ astray \subseteq Facts /\ leaked \subseteq Conns
    /\ early \subseteq Notes /\ crossed \subseteq Notes

\* Nothing is on its way to the window.
Quiet == /\ link = "open" /\ queue = << >> /\ requests = {}
         /\ \A t \in Threads : todo[t] = << >>

\* When nothing is on its way, the window shows the note and the notes saved as
\* they are: after a reconnect, after a restart of the engine and with responses
\* that overtake events.  The exceptions: an event that found the queue full,
\* none subscribed on the first open or no callback set, a response given before
\* an event it is applied after, a discard answered when the next note has
\* begun; an event of a failure and one of an operation that were told in the
\* wrong order (Late), and a pause that a failure cleared (ClearPause), until the
\* state is asked for again.
InSync == Quiet => /\ "note" \notin astray => ui.note = note
                   /\ "history" \notin astray => ui.saved = saved

\* _surface_note_terminal: a note whose outcome reached the window is not shown
\* as being transcribed, unless the outcome was published before the end of the
\* recording.
OutcomeShown == ui.view = "processing" /\ told = ui.of => ui.of \in early

\* What the window shows follows what the engine does.
StreamInv == StreamTypeOK /\ InSync /\ OutcomeShown

\* The window comes to show whether the model is loaded, whichever events and
\* responses it missed (a first stream that breaks before it opened is replaced
\* without asking for the state).
ModelShown == (up /\ phase # "loading") ~> (ui.phase = phase \/ ~up \/ "model" \in astray)

\* The window never waits for a note for ever.
ProcessingEnds == ui.view = "processing" ~> ui.view # "processing"

\* The queue of a stream that broke is given back, unless its client was gone
\* before the headers.
Left == {c \in subs \ leaked : Gone(c)}
NoLeak == Left # {} ~> Left = {}

\* Nothing is waited for or kept for ever.
StreamGoesOn == ModelShown /\ ProcessingEnds /\ NoLeak
=============================================================================
