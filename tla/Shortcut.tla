------------------------------ MODULE Shortcut ------------------------------
(* The push-to-talk shortcut, from the keys to the daemon.  The window's      *)
(* engine loads the speech model in a thread of its own and asks for the      *)
(* listener meanwhile; the tray starts with the model loaded and may change   *)
(* the combination.  hotkey_backend.py listens in one of three ways: pynput   *)
(* has one listener thread, evdev one thread per keyboard, the portal one     *)
(* that waits for the signals of a desktop session.  A step is the code       *)
(* between two points where another thread can come in.                       *)
EXTENDS Integers, Sequences, FiniteSets

CONSTANTS Keys,         \* physical keys
          Keyboards,    \* how many devices they may sit on
          Combos,       \* combinations the user may choose: sets of tokens
          Aliases,      \* token -> the keys that stand for it
          Machines,     \* what a machine offers, see DetectBackend
          Faults,       \* of "load", "denied", "unplugged", "closed", "microphone"
          MaxStrokes, MaxCombos

\* evdev does not start without a keyboard.
ASSUME BoundsAssumption == Keyboards \in Nat \ {0} /\ MaxStrokes \in Nat /\ MaxCombos \in Nat

\* parse_hotkey_combo refuses a combination without a key.
ASSUME CombosAssumption == {} \notin Combos

\* A change of the combination may add a thread; evdev has one per keyboard.
Threads == 1..(Keyboards + MaxCombos)

ComboActive(keys, combo) == \A t \in combo : Aliases[t] \cap keys # {}

DetectBackend(m) ==
  IF m.evdev THEN "evdev"
  ELSE IF m.wayland /\ m.portal THEN "portal"
  ELSE IF m.pynput THEN "pynput" ELSE "none"

VARIABLES
  mode,       \* "window": model loaded in the background; "tray": loaded before
  backend,    \* what DetectBackend answers
  board,      \* the keyboard a key sits on
  phase, loaded, pending,     \* the model load, _hotkey_start_pending
  pc,         \* main thread M, load thread L, quitting thread Q
  obj,        \* _hotkey_backend is not None
  cur,        \* the thread it knows (the first of them for evdev), 0 for none
  lis,        \* state of the listener threads
  ready, err, stopping,       \* _ready, _startup_error, _stopping of the portal
  combo, trigger,             \* combination of the daemon, and of the session
  q, cb,      \* per listener: undelivered events, callback on its way ("start":
              \* the press has been let in and holds the locks of the recorder)
  names, pressed,             \* keys and combination the backend takes for held
  held, strokes, changes,     \* the user: keys held, events so far
  active, stop, dictating,    \* of the daemon
  late,       \* the shutdown has met a press that had been let in
  told,       \* the user was told that there is no shortcut or no model
  excused     \* a release was lost in one of the known ways (see README)

load == <<phase, loaded, pending>>
back == <<obj, cur, lis, ready, err, stopping>>
keys == <<names, pressed>>
user == <<held, strokes, changes>>
daemon == <<active, stop, dictating, late>>
fixed == <<mode, backend, board>>
vars == <<fixed, load, pc, back, combo, trigger, q, cb, keys, user, daemon, told, excused>>

Init ==
  /\ mode \in {"window", "tray"}
  /\ backend \in {DetectBackend(m) : m \in Machines}
  /\ board \in [Keys -> 1..Keyboards] /\ (backend # "evdev" => board = [k \in Keys |-> 1])
  /\ phase = (IF mode = "tray" THEN "ready" ELSE "loading")
  /\ loaded = (mode = "tray") /\ pending = FALSE
  /\ pc = [M |-> "boot", L |-> "none", Q |-> "none"]
  /\ obj = FALSE /\ cur = 0 /\ lis = [i \in Threads |-> "none"]
  /\ ready = FALSE /\ err = FALSE /\ stopping = FALSE
  /\ combo \in Combos /\ trigger = {}
  /\ q = [i \in Threads |-> <<>>] /\ cb = [i \in Threads |-> "none"]
  /\ names = {} /\ pressed = FALSE
  /\ held = {} /\ strokes = 0 /\ changes = 0
  /\ active = TRUE /\ stop = FALSE /\ dictating = FALSE /\ late = FALSE
  /\ told = FALSE /\ excused = FALSE

Goto(t, l) == pc' = [pc EXCEPT ![t] = l]
Up == pc.M # "over"
\* A signal handler runs on the main thread, which stands still meanwhile.
At(t, l) == Up /\ pc[t] = l /\ (t = "M" /\ mode = "window" => pc.Q \in {"none", "done"})

-----------------------------------------------------------------------------
(* The load of the model, and who starts the listener.                        *)

Boot ==
  /\ At("M", "boot")
  /\ pc' = [pc EXCEPT !.M = "ask", !.L = IF mode = "window" THEN "load" ELSE "none"]
  /\ UNCHANGED <<fixed, load, back, combo, trigger, q, cb, keys, user, daemon, told, excused>>

LoadEnds ==
  /\ At("L", "load")
  /\ \/ phase' = "ready"
     \/ "load" \in Faults /\ phase' = "failed"
  /\ Goto("L", "loaded")
  /\ UNCHANGED <<fixed, loaded, pending, back, combo, trigger, q, cb, keys, user, daemon, told, excused>>

Loaded ==
  /\ At("L", "loaded")
  /\ loaded' = TRUE
  /\ IF phase = "ready" THEN Goto("L", "take") /\ UNCHANGED told
     ELSE Goto("L", "idle") /\ told' = TRUE
  /\ UNCHANGED <<fixed, phase, pending, back, combo, trigger, q, cb, keys, user, daemon, excused>>

TakePending == pending' = FALSE /\ Goto("L", IF ~pending \/ stop THEN "idle" ELSE "create")

StartPending ==
  /\ At("L", "take")
  /\ TakePending
  /\ UNCHANGED <<fixed, phase, loaded, back, combo, trigger, q, cb, keys, user, daemon, told, excused>>

AskOnce == UNCHANGED pending                                                             \* mutant
           /\ Goto("M", IF loaded /\ phase = "ready" THEN "create" ELSE "idle")

Ask ==
  IF ~loaded THEN pending' = TRUE /\ Goto("M", "idle")
  ELSE UNCHANGED pending /\ Goto("M", IF phase = "ready" THEN "create" ELSE "idle")

StartWhenReady ==
  /\ At("M", "ask")
  /\ Ask
  /\ UNCHANGED <<fixed, phase, loaded, back, combo, trigger, q, cb, keys, user, daemon, told, excused>>

\* mutant: the window's main thread goes on to idle and a worker thread ends.
FailsTheThread(t) == told' = TRUE /\ Goto(t, "over")

(* HotkeyBackendUnavailableError: the load thread and the tray tell the user, *)
(* the window's main thread ends with it.                                     *)
Fails(t) == told' = TRUE /\ Goto(t, IF t = "M" /\ mode = "window" THEN "over" ELSE "idle")

Create(t) ==
  /\ At(t, "create")
  /\ IF obj THEN Goto(t, "begin") /\ UNCHANGED <<obj, cur, keys, told>>
     ELSE IF backend = "none" THEN Fails(t) /\ UNCHANGED <<obj, cur, keys>>
     ELSE obj' = TRUE /\ cur' = 0 /\ names' = {} /\ pressed' = FALSE /\ Goto(t, "begin") /\ UNCHANGED told
  /\ UNCHANGED <<fixed, load, lis, ready, err, stopping, combo, trigger, q, cb, user, daemon, excused>>

-----------------------------------------------------------------------------
(* start() of a backend.                                                      *)

Alive(i) == lis[i] \in {"connecting", "running"}
Known == cur # 0 /\ (backend = "portal" => Alive(cur))
First == CHOOSE i \in Threads : lis[i] = "none" /\ \A j \in Threads : lis[j] = "none" => i <= j
Spawned == IF backend = "evdev" THEN First..(First + Keyboards - 1) ELSE {First}

\* After a start, the tray ends a recording if it has set a combination.
Then(t) == IF t = "M" /\ changes > 0 THEN "finish" ELSE "idle"

Begin(t, l) ==
  /\ l \in {"begin", "again"} /\ At(t, l)
  /\ IF ~obj
     THEN Goto(t, IF t = "M" THEN "over" ELSE "idle") /\ UNCHANGED back   \* None has no start
     ELSE IF Known THEN Goto(t, Then(t)) /\ UNCHANGED back
     ELSE /\ lis' = [i \in Threads |-> IF i \notin Spawned THEN lis[i]
                                       ELSE IF backend = "portal" THEN "connecting" ELSE "running"]
          /\ cur' = First
          /\ IF backend = "portal"
             THEN /\ ready' = FALSE /\ err' = FALSE /\ stopping' = FALSE
                  /\ Goto(t, IF l = "begin" THEN "await" ELSE "await again")
             ELSE Goto(t, Then(t)) /\ UNCHANGED <<ready, err, stopping>>
          /\ UNCHANGED obj
  /\ UNCHANGED <<fixed, load, combo, trigger, q, cb, keys, user, daemon, told, excused>>

(* The caller waits for the portal.  The daemon forgets a backend it could    *)
(* not start, but not one that could not start again for a new combination.   *)
Await(t, l) ==
  /\ l \in {"await", "await again"} /\ At(t, l) /\ ready
  /\ IF err
     THEN /\ cur' = 0 /\ Fails(t)
          /\ obj' = (obj /\ l = "await again")
          /\ excused' = (excused \/ (l = "await again" /\ dictating))
     ELSE Goto(t, Then(t)) /\ UNCHANGED <<cur, obj, told, excused>>
  /\ UNCHANGED <<fixed, load, lis, ready, err, stopping, combo, trigger, q, cb, keys, user, daemon>>

PortalOpens(i) ==
  /\ Up /\ backend = "portal" /\ lis[i] = "connecting"
  /\ lis' = [lis EXCEPT ![i] = IF stopping THEN "over" ELSE "running"]
  /\ trigger' = combo /\ ready' = TRUE
  /\ UNCHANGED <<fixed, load, pc, obj, cur, err, stopping, combo, q, cb, keys, user, daemon, told, excused>>

PortalDenied(i) ==
  /\ Up /\ backend = "portal" /\ lis[i] = "connecting" /\ "denied" \in Faults
  /\ lis' = [lis EXCEPT ![i] = "over"]
  /\ err' = TRUE /\ ready' = TRUE
  /\ UNCHANGED <<fixed, load, pc, obj, cur, stopping, combo, trigger, q, cb, keys, user, daemon, told, excused>>

PortalEnds(i) ==
  /\ Up /\ backend = "portal" /\ lis[i] = "running" /\ stopping /\ cb[i] = "none"
  /\ lis' = [lis EXCEPT ![i] = "over"] /\ q' = [q EXCEPT ![i] = <<>>]
  /\ excused' = (excused \/ (pressed /\ pc.M # "join" /\ pc.Q # "join"))
  /\ UNCHANGED <<fixed, load, pc, obj, cur, ready, err, stopping, combo, trigger, cb, keys, user, daemon, told>>

PortalClosed(i) ==
  /\ Up /\ backend = "portal" /\ lis[i] = "running" /\ cb[i] = "none" /\ "closed" \in Faults
  /\ stopping' = TRUE
  /\ UNCHANGED <<fixed, load, pc, obj, cur, lis, ready, err, combo, trigger, q, cb, keys, user, daemon, told, excused>>

Unplugged(i) ==
  /\ Up /\ backend = "evdev" /\ lis[i] = "running" /\ cb[i] = "none" /\ "unplugged" \in Faults
  /\ lis' = [lis EXCEPT ![i] = "over"] /\ q' = [q EXCEPT ![i] = <<>>]
  /\ excused' = (excused \/ names # {} \/ q[i] # <<>>)
  /\ UNCHANGED <<fixed, load, pc, obj, cur, ready, err, stopping, combo, trigger, cb, keys, user, daemon, told>>

-----------------------------------------------------------------------------
(* Keys.  The listeners of pynput and evdev get every event of their devices, *)
(* repeats included; a portal session is told when its combination comes and  *)
(* goes.                                                                      *)

Sees(i, k) == lis[i] = "running" /\ (backend = "evdev" => board[k] = i)

Deliver(k, down) ==
  LET was == ComboActive(held, trigger)
      is == ComboActive(held', trigger)
      event == IF backend # "portal" THEN <<[key |-> k, down |-> down]>>
               ELSE IF was # is THEN <<[key |-> k, down |-> is]>> ELSE <<>>
  IN q' = [i \in Threads |-> IF Sees(i, k) THEN q[i] \o event ELSE q[i]]

Stroke(k, down) ==
  /\ Up /\ strokes < MaxStrokes /\ (down \/ k \in held)
  /\ held' = IF down THEN held \cup {k} ELSE held \ {k}
  /\ strokes' = strokes + 1
  /\ Deliver(k, down)
  /\ UNCHANGED <<fixed, load, pc, back, combo, trigger, cb, keys, changes, daemon, told, excused>>

Names(e) ==
  IF backend = "portal" THEN names
  ELSE IF e.down THEN names \cup {e.key} ELSE names \ {e.key}

Pressed(e) ==
  LET is == ComboActive(Names(e), combo)
  IN CASE backend = "portal" -> e.down
       [] backend = "evdev" -> is
       [] OTHER -> IF e.down THEN pressed \/ is ELSE pressed /\ is

Handle(i) ==
  /\ Up /\ lis[i] = "running" /\ cb[i] = "none" /\ q[i] # <<>>
  /\ q' = [q EXCEPT ![i] = Tail(@)]
  /\ names' = Names(Head(q[i])) /\ pressed' = Pressed(Head(q[i]))
  /\ cb' = [cb EXCEPT ![i] = IF pressed' = pressed THEN "none" ELSE IF pressed' THEN "press" ELSE "release"]
  /\ UNCHANGED <<fixed, load, pc, back, combo, trigger, user, daemon, told, excused>>

(* The callback runs outside the backend's lock: with two keyboards a release *)
(* may overtake the press it ends.  A press takes the locks of the recorder,  *)
(* looks whether it may record and starts the microphone some time later; a   *)
(* release has to wait for those locks.                                       *)
Unlocked == \A j \in Threads : cb[j] # "start"

Returns(i) == cb' = [cb EXCEPT ![i] = "none"]

LetsInLate == phase = "ready" /\ ~dictating                                 \* mutant

LetsIn == active /\ phase = "ready" /\ ~dictating

OnPress(i) ==
  /\ Up /\ cb[i] = "press" /\ Unlocked
  /\ cb' = [cb EXCEPT ![i] = IF LetsIn THEN "start" ELSE "none"]
  /\ UNCHANGED <<fixed, load, pc, back, combo, trigger, q, keys, user, daemon, told, excused>>

StartRecording(i) ==
  /\ Up /\ cb[i] = "start"
  /\ \/ dictating' = TRUE
     \/ "microphone" \in Faults /\ UNCHANGED dictating
  /\ Returns(i)
  /\ UNCHANGED <<fixed, load, pc, back, combo, trigger, q, keys, user, active, stop, late, told, excused>>

OnRelease(i) ==
  /\ Up /\ cb[i] = "release" /\ Unlocked
  /\ dictating' = FALSE
  /\ Returns(i)
  /\ excused' = (excused \/ \E j \in Threads : cb[j] = "press")
  /\ UNCHANGED <<fixed, load, pc, back, combo, trigger, q, keys, user, active, stop, late, told>>

Callback(i) == OnPress(i) \/ StartRecording(i) \/ OnRelease(i)

-----------------------------------------------------------------------------
(* The tray sets a combination.  Under the portal a helper asks first.        *)

Refused == backend = "portal" /\ "denied" \in Faults

SetCombo(c) ==
  /\ At("M", "idle") /\ mode = "tray" /\ pc.Q = "none" /\ changes < MaxCombos
  /\ changes' = changes + 1
  /\ \/ combo' = c /\ Goto("M", IF obj THEN "combo" ELSE "ask") /\ UNCHANGED told
     \/ Refused /\ told' = TRUE /\ UNCHANGED <<combo, pc>>
  /\ UNCHANGED <<fixed, load, back, trigger, q, cb, keys, held, strokes, daemon, excused>>

ForgetKeys == names' = {} /\ pressed' = FALSE

ApplyCombo ==
  /\ At("M", "combo")
  /\ IF backend # "portal"
     THEN /\ ForgetKeys /\ Goto("M", "finish") /\ UNCHANGED stopping
          /\ excused' = (excused \/ \E i \in Threads : cb[i] # "none")
     ELSE IF Known THEN stopping' = TRUE /\ Goto("M", "join") /\ UNCHANGED <<keys, excused>>
     ELSE Goto("M", "finish") /\ UNCHANGED <<stopping, keys, excused>>
  /\ UNCHANGED <<fixed, load, obj, cur, lis, ready, err, combo, trigger, q, cb, user, daemon, told>>

JoinNot(i) == TRUE                                                          \* mutant

Join(i) == ~Alive(i)

Rejoin ==
  /\ At("M", "join") /\ Join(cur)
  /\ cur' = 0 /\ pressed' = FALSE
  /\ Goto("M", "again")
  /\ UNCHANGED <<fixed, load, obj, lis, ready, err, stopping, combo, trigger, q, cb, names, user, daemon, told, excused>>

(* The recorder is asked without a lock: a press that is let in and has not    *)
(* started the microphone is not waited for.                                  *)
Finish == dictating' = FALSE

EndRecording ==
  /\ At("M", "finish")
  /\ Finish /\ Goto("M", "idle")
  /\ UNCHANGED <<fixed, load, back, combo, trigger, q, cb, keys, user, active, stop, late, told, excused>>

-----------------------------------------------------------------------------
(* shutdown(), from a signal on the main thread of the window's engine or in  *)
(* a thread of the tray; the process ends when the main thread does.          *)

Quit ==
  /\ Up /\ pc.Q = "none"
  /\ IF mode = "tray" THEN pc.M = "idle" ELSE pc.M # "boot"
  /\ active' = FALSE /\ stop' = TRUE /\ late' = ~Unlocked
  /\ Goto("Q", "finish")
  /\ UNCHANGED <<fixed, load, back, combo, trigger, q, cb, keys, user, dictating, told, excused>>

QuitRecording ==
  /\ At("Q", "finish")
  /\ Finish /\ Goto("Q", "stop")
  /\ UNCHANGED <<fixed, load, back, combo, trigger, q, cb, keys, user, active, stop, late, told, excused>>

StopListening ==
  /\ At("Q", "stop")
  /\ IF obj /\ backend = "portal"
     THEN stopping' = TRUE /\ Goto("Q", "join") /\ UNCHANGED <<obj, cur, lis, q, keys>>
     ELSE /\ obj' = FALSE /\ cur' = 0 /\ names' = {} /\ pressed' = FALSE
          /\ lis' = [i \in Threads |-> IF obj /\ Alive(i) THEN "over" ELSE lis[i]]
          /\ q' = [i \in Threads |-> IF obj THEN <<>> ELSE q[i]]
          /\ Goto("Q", "done") /\ UNCHANGED stopping
  /\ UNCHANGED <<fixed, load, ready, err, combo, trigger, cb, user, daemon, told, excused>>

\* A thread that still waits for the portal's answer outlasts the join.
StopJoins ==
  /\ At("Q", "join") /\ (cur # 0 => lis[cur] # "running")
  /\ obj' = FALSE /\ cur' = 0 /\ pressed' = FALSE /\ Goto("Q", "done")
  /\ UNCHANGED <<fixed, load, lis, ready, err, stopping, combo, trigger, q, cb, names, user, daemon, told, excused>>

Exit ==
  /\ At("M", "idle") /\ stop
  /\ Goto("M", "over")
  /\ UNCHANGED <<fixed, load, back, combo, trigger, q, cb, keys, user, daemon, told, excused>>

\* The program has ended.
Ended == ~Up /\ UNCHANGED vars

Starting ==
  \/ Boot \/ LoadEnds \/ Loaded \/ StartPending \/ StartWhenReady
  \/ \E t \in {"M", "L"} : \/ Create(t)
                           \/ \E l \in {"begin", "again"} : Begin(t, l)
                           \/ \E l \in {"await", "await again"} : Await(t, l)
PortalAnswers(i) == PortalOpens(i) \/ PortalDenied(i)
Listening == \E i \in Threads : PortalAnswers(i) \/ PortalEnds(i) \/ Handle(i) \/ Callback(i)
Trouble == \E i \in Threads : PortalClosed(i) \/ Unplugged(i)
Typing == \E k \in Keys, down \in BOOLEAN : Stroke(k, down)
Changing == ApplyCombo \/ Rejoin \/ EndRecording
Quitting == QuitRecording \/ StopListening \/ StopJoins

Next == Starting \/ Listening \/ Trouble \/ Typing \/ Changing \/ Quitting
        \/ Quit \/ Exit \/ Ended \/ \E c \in Combos : SetCombo(c)

Spec == Init /\ [][Next]_vars
FairSpec == Spec /\ WF_vars(Starting) /\ WF_vars(Listening) /\ WF_vars(Changing) /\ WF_vars(Quitting)

-----------------------------------------------------------------------------
\* Types.
LoadOK ==
  /\ phase \in {"loading", "ready", "failed"} /\ loaded \in BOOLEAN /\ pending \in BOOLEAN
  /\ pc \in [M : {"boot", "ask", "create", "begin", "await", "idle", "combo", "join", "again",
                  "await again", "finish", "over"},
             L : {"none", "load", "loaded", "take", "create", "begin", "await", "idle"},
             Q : {"none", "finish", "stop", "join", "done"}]
BackendOK ==
  /\ mode \in {"window", "tray"} /\ backend \in {"evdev", "portal", "pynput", "none"}
  /\ board \in [Keys -> 1..Keyboards]
  /\ obj \in BOOLEAN /\ cur \in {0} \cup Threads
  /\ lis \in [Threads -> {"none", "connecting", "running", "over"}]
  /\ ready \in BOOLEAN /\ err \in BOOLEAN /\ stopping \in BOOLEAN
Event == [key : Keys, down : BOOLEAN]
KeysOK ==
  /\ q \in [Threads -> Seq(Event)]
  /\ cb \in [Threads -> {"none", "press", "start", "release"}]
  /\ names \subseteq Keys /\ pressed \in BOOLEAN
DaemonOK ==
  /\ combo \in Combos /\ trigger \in Combos \cup {{}}
  /\ held \subseteq Keys /\ strokes \in 0..MaxStrokes /\ changes \in 0..MaxCombos
  /\ active \in BOOLEAN /\ stop \in BOOLEAN /\ dictating \in BOOLEAN /\ late \in BOOLEAN
  /\ told \in BOOLEAN /\ excused \in BOOLEAN

TypeOK == LoadOK /\ BackendOK /\ KeysOK /\ DaemonOK

(* No listener exists before the model is ready, whoever of the load thread   *)
(* and the main thread comes first: its start would freeze the keyboard hook. *)
NotWhileLoading == (\E i \in Threads : Alive(i)) => phase = "ready"

(* No key is heard by two listeners: the load thread and the main thread do   *)
(* not both start one, and a new portal session waits for the end of the old. *)
OneListener ==
  \A i, j \in Threads :
    Alive(i) /\ Alive(j) /\ i # j => backend = "evdev" /\ Cardinality({t \in Threads : Alive(t)}) <= Keyboards

(* When a listener may run, and how many.                                     *)
ListenersInOrder == NotWhileLoading /\ OneListener

Quiet ==
  /\ pc.M = "idle" /\ pc.L \in {"none", "idle"} /\ pc.Q \in {"none", "done"}
  /\ \A i \in Threads : cb[i] = "none" /\ q[i] = <<>>

(* When every event is dealt with and no key is held, nothing is recorded:    *)
(* changes of the combination, restarts of the session, repeats and the       *)
(* shutdown do not lose the release of a dictation, but for the known cases.  *)
NoStuckDictation == Quiet /\ held = {} /\ ~excused /\ ~late => ~dictating

(* The backend never takes a key for held that is up: it would make the rest  *)
(* of the combination enough to dictate.                                      *)
NoPhantomKeys == Quiet /\ ~excused => names \subseteq held

(* Once shutdown has ended the recording, nothing is recorded any more, unless *)
(* a press had passed the check of `active` before it was cleared: the        *)
(* callbacks that come or wait for the recorder later find it.                *)
ShutdownLeavesNoDictation == pc.Q \in {"stop", "join", "done"} /\ ~late => ~dictating

(* A dictation goes with the keys that are down, to the end.                  *)
DictationFollowsKeys == NoStuckDictation /\ NoPhantomKeys /\ ShutdownLeavesNoDictation

(* A listener that was asked for runs in the end, or the user is told why not,*)
(* whichever of the model load and the request comes last.                    *)
Settled == (\E i \in Threads : lis[i] = "running") \/ told \/ stop \/ ~Up
ShortcutStarts == (pc.M = "ask") ~> Settled
=============================================================================
