------------------------------- MODULE Tray -------------------------------
(* The model menu of the Linux tray (tray.py, model_state.py).  A chosen     *)
(* model is loaded by a worker thread; its answer, the timers and the        *)
(* messages of the engine are callbacks of the one GTK loop, which an open   *)
(* dialog runs as well.                                                      *)
EXTENDS Integers, Sequences, FiniteSets

CONSTANTS Models,        \* the models of the menu
          First,         \* the model the engine was started with
          MaxChoices,    \* bound: switches the user starts
          MaxSays,       \* bound: other messages of the status line
          MaxFaults      \* bound: writes of a file that fail

ASSUME TrayAssumption == /\ First \in Models
                         /\ {MaxChoices, MaxSays, MaxFaults} \subseteq Nat

VARIABLES used,          \* model of the engine
          shown,         \* _active_backend, _active_model: label of the menu
          checked,       \* the item with the check mark
          latest,        \* _latest_switch_id, equal to _switch_counter
          mode,          \* _switch_in_progress, _switch_background_mode
          jobs,          \* every switch started: its model and its worker
          timers,        \* <<kind, id>>: pending GLib timeouts
          dialogs,       \* ids of the open failure dialogs, innermost last
          status,        \* what the status line of the menu says
          says,          \* messages of the engine on their way to the loop
          saysShown,     \* _daemon_status_counter
          record,        \* model-state.json: models prepared, models failed
          choices,       \* bound on what the user does: switches left
          messages,      \* bound on other messages of the status line
          wanted,        \* history: model of the last switch, unless given up
          faults,        \* history: writes that failed
          lingered       \* history: see StatusTold

trayVars == <<used, shown, checked, latest, mode, jobs, timers, dialogs, status,
              says, saysShown, record, choices, messages, wanted, faults, lingered>>

None == "none"
Ids == 0 .. 2 * MaxChoices
Under == {"switching", "background", "unlocked"}   \* a switch is under way
Told == Under \union {None, "switched", "failed", "timed out", "engine", "hotkey"}

\* Every model of the menu is new to model-state.json.
TrayInit(n, s) ==
    /\ used = First /\ shown = First /\ checked = First
    /\ latest = 0 /\ mode = "idle" /\ jobs = << >> /\ timers = {}
    /\ dialogs = << >> /\ status = None /\ says = << >> /\ saysShown = 0
    /\ record = [prepared |-> {}, failed |-> {}]
    /\ choices = n /\ messages = s
    /\ wanted = First /\ faults = 0 /\ lingered = FALSE

---------------------------------------------------------------------------
\* Names for what several callbacks do

\* load, change, save of model-state.json.
MarkPrepared(m) == record' = [prepared |-> record.prepared \union {m},
                              failed |-> record.failed \ {m}]
MarkFailed(m) == record' = [prepared |-> record.prepared \ {m},
                            failed |-> record.failed \union {m}]

\* The write raises: what the callback had yet to do is not done.
Raises == faults < MaxFaults /\ faults' = faults + 1 /\ lingered' = TRUE

Ended(i) == jobs' = [jobs EXCEPT ![i].worker = "done"]

\* Releasing the menu belongs to the current switch (the dialog of an older
\* one may do it as well, see CloseDialog).
Release == mode' = "idle"

---------------------------------------------------------------------------
\* The user

\* _on_model_selected, _start_switch.  The items are insensitive while a switch
\* holds the menu; the item of the active model only takes the check mark.
Choose(m) ==
    /\ mode # "switching" /\ m # checked
    /\ IF m = shown
       THEN /\ checked' = m
            /\ UNCHANGED <<latest, mode, wanted, status, jobs, timers, choices>>
       ELSE /\ choices > 0 /\ choices' = choices - 1
            /\ latest' = latest + 1 /\ mode' = "switching" /\ wanted' = m
            /\ checked' = shown /\ status' = "switching"
            /\ jobs' = [i \in DOMAIN jobs \union {latest'} |->
                           IF i = latest' THEN [model |-> m, worker |-> "running"] ELSE jobs[i]]
            /\ timers' = timers \union ({"tick", "lock", "abort"} \X {latest'})
    /\ UNCHANGED <<used, shown, dialogs, says, saysShown, record, messages, faults, lingered>>

\* The failure dialog is closed: dialog.run returns and the finally of its
\* _finalize_switch releases the menu, whichever switch holds it by then.
CloseDialog ==
    /\ dialogs # << >>
    /\ LET i == dialogs[Len(dialogs)]
       IN lingered' = (lingered \/ (mode # "idle" /\ i # latest))
    /\ dialogs' = SubSeq(dialogs, 1, Len(dialogs) - 1)
    /\ Release
    /\ UNCHANGED <<used, shown, checked, latest, jobs, timers, status, says, saysShown,
                   record, choices, messages, wanted, faults>>

\* _on_push_to_talk: the outcome of a new shortcut takes the status line.
NewShortcut ==
    /\ messages > 0 /\ messages' = messages - 1
    /\ status' = "hotkey"
    /\ UNCHANGED <<used, shown, checked, latest, mode, jobs, timers, dialogs, says,
                   saysShown, record, choices, wanted, faults, lingered>>

---------------------------------------------------------------------------
\* The worker and its answer

\* _switch_worker: the load ends one way or the other, or never.
WorkerEnds(i) ==
    /\ i \in DOMAIN jobs /\ jobs[i].worker = "running"
    /\ \E end \in {"loaded", "broken"} : jobs' = [jobs EXCEPT ![i].worker = end]
    /\ UNCHANGED <<used, shown, checked, latest, mode, timers, dialogs, status, says,
                   saysShown, record, choices, messages, wanted, faults, lingered>>

\* _finalize_switch of a switch that is no longer the latest.
TooLate(i) ==
    /\ i # latest
    /\ UNCHANGED <<used, shown, checked, mode, timers, dialogs, status, record, wanted,
                   faults, lingered>>

\* The engine takes the model; then the choice is saved and the menu follows,
\* as far as the two writes succeed; the finally releases the menu.
Loaded(i) ==
    LET m == jobs[i].model
    IN /\ i = latest
       /\ used' = m /\ Release
       /\ \/ /\ Raises                      \* set_stt_selection
             /\ UNCHANGED <<shown, checked, status, timers, record>>
          \/ /\ shown' = m /\ Raises        \* mark_model_prepared
             /\ UNCHANGED <<checked, status, timers, record>>
          \/ /\ shown' = m /\ checked' = m /\ status' = "switched" /\ MarkPrepared(m)
             /\ timers' = timers \union {<<"clear", i>>}
             /\ UNCHANGED <<faults, lingered>>
       /\ UNCHANGED <<dialogs, wanted>>

\* The failure is recorded and told, and the dialog waits for the user with
\* the menu as it is.
Broken(i) ==
    /\ i = latest /\ wanted' = None
    /\ \/ /\ Raises /\ Release              \* mark_model_failed
          /\ UNCHANGED <<checked, status, timers, dialogs, record>>
       \/ /\ MarkFailed(jobs[i].model)
          /\ checked' = shown /\ status' = "failed"
          /\ timers' = timers \union {<<"clear", i>>}
          /\ dialogs' = Append(dialogs, i)
          /\ UNCHANGED <<mode, faults, lingered>>
    /\ UNCHANGED <<used, shown>>

\* mutant: the late answer of a superseded switch is taken
FinalizeAny(i) ==
    /\ i \in DOMAIN jobs /\ jobs[i].worker = "loaded"
    /\ used' = jobs[i].model /\ shown' = used' /\ checked' = used'
    /\ Release /\ status' = "switched" /\ MarkPrepared(used')
    /\ timers' = timers \union {<<"clear", i>>}
    /\ Ended(i)
    /\ UNCHANGED <<latest, dialogs, says, saysShown, choices, messages, wanted, faults, lingered>>

Finalize(i) ==
    /\ i \in DOMAIN jobs
    /\ \/ jobs[i].worker \in {"loaded", "broken"} /\ TooLate(i)
       \/ jobs[i].worker = "loaded" /\ Loaded(i)
       \/ jobs[i].worker = "broken" /\ Broken(i)
    /\ Ended(i)
    /\ UNCHANGED <<latest, says, saysShown, choices, messages>>

---------------------------------------------------------------------------
\* Timers of the loop

\* A timer is due: the one at 300 s after the one at 15 s of the same switch.
Due(kind, i) ==
    /\ <<kind, i>> \in timers
    /\ kind = "abort" => <<"lock", i>> \notin timers

Fired(kind, i) == timers' = timers \ {<<kind, i>>}

\* _on_switch_timeout (15 s): the menu is usable while the load goes on.
SwitchTimeout(i) ==
    /\ Due("lock", i) /\ Fired("lock", i)
    /\ IF i = latest /\ mode = "switching"
       THEN /\ mode' = "background" /\ status' = "unlocked"
            /\ lingered' = (lingered \/ jobs[i].worker = "done")
       ELSE UNCHANGED <<mode, status, lingered>>
    /\ UNCHANGED <<used, shown, checked, latest, jobs, dialogs, says, saysShown, record,
                   choices, messages, wanted, faults>>

\* mutant: gives up without releasing the menu
AbortForgets(i) ==
    /\ Due("abort", i)
    /\ i = latest /\ mode # "idle"
    /\ MarkFailed(jobs[i].model)
    /\ latest' = latest + 1 /\ wanted' = None
    /\ checked' = shown /\ status' = "timed out"
    /\ timers' = (timers \ {<<"abort", i>>}) \union {<<"clear", latest'>>}
    /\ UNCHANGED <<used, shown, jobs, dialogs, says, saysShown, choices, messages, faults,
                   lingered, mode>>

\* _on_switch_abort_timeout (300 s): the attempt is given up, and a new id
\* makes its answer too late.
AbortTimeout(i) ==
    /\ Due("abort", i)
    /\ IF i = latest /\ mode # "idle"
       THEN \/ /\ Raises /\ Fired("abort", i)      \* mark_model_failed
               /\ UNCHANGED <<latest, mode, wanted, checked, status, record>>
            \/ /\ MarkFailed(jobs[i].model)
               /\ latest' = latest + 1 /\ Release /\ wanted' = None
               /\ checked' = shown /\ status' = "timed out"
               /\ timers' = (timers \ {<<"abort", i>>}) \union {<<"clear", latest'>>}
               /\ UNCHANGED <<faults, lingered>>
       ELSE /\ Fired("abort", i)
            /\ UNCHANGED <<latest, mode, wanted, checked, status, record, faults, lingered>>
    /\ UNCHANGED <<used, shown, jobs, dialogs, says, saysShown, choices, messages>>

\* _tick_switch_status, every second.  It overwrites the failure its own
\* dialog is still telling.
Tick(i) ==
    /\ Due("tick", i)
    /\ IF i = latest /\ mode # "idle"
       THEN /\ status' = mode
            /\ lingered' = (lingered \/ jobs[i].worker = "done")
            /\ UNCHANGED timers
       ELSE Fired("tick", i) /\ UNCHANGED <<status, lingered>>
    /\ UNCHANGED <<used, shown, checked, latest, mode, jobs, dialogs, says, saysShown,
                   record, choices, messages, wanted, faults>>

\* _clear_status_for_switch_id, _clear_daemon_status, 6 s after the message.
ClearStatus(kind, i, last) ==
    /\ Due(kind, i) /\ Fired(kind, i)
    /\ IF i = last /\ mode = "idle" THEN status' = None ELSE UNCHANGED status
    /\ UNCHANGED <<used, shown, checked, latest, mode, jobs, dialogs, says, saysShown,
                   record, choices, messages, wanted, faults, lingered>>

---------------------------------------------------------------------------
\* The engine

\* _on_daemon_status: a message, or None for the end of one, from any thread.
EngineSays(text) ==
    /\ messages > 0 /\ messages' = messages - 1
    /\ says' = Append(says, text)
    /\ UNCHANGED <<used, shown, checked, latest, mode, jobs, timers, dialogs, status,
                   saysShown, record, choices, wanted, faults, lingered>>

\* _show_daemon_status, in the loop.
ShowSaid ==
    /\ says # << >>
    /\ says' = Tail(says) /\ saysShown' = saysShown + 1
    /\ status' = Head(says)
    /\ timers' = IF Head(says) = None THEN timers
                 ELSE timers \union {<<"engine", saysShown'>>}
    /\ UNCHANGED <<used, shown, checked, latest, mode, jobs, dialogs, record, choices,
                   messages, wanted, faults, lingered>>

---------------------------------------------------------------------------
TrayNext ==
    \/ \E m \in Models : Choose(m)
    \/ CloseDialog
    \/ NewShortcut
    \/ \E i \in Ids : \/ WorkerEnds(i) \/ Finalize(i)
                      \/ SwitchTimeout(i) \/ AbortTimeout(i) \/ Tick(i)
                      \/ ClearStatus("clear", i, latest)
    \/ \E i \in 1 .. MaxSays : ClearStatus("engine", i, saysShown)
    \/ \E text \in {"engine", None} : EngineSays(text)
    \/ ShowSaid

---------------------------------------------------------------------------
\* Properties

\* Every variable of the tray has its type.
TrayTypeOK ==
    /\ {used, shown, checked} \subseteq Models
    /\ latest \in Ids /\ mode \in {"idle", "switching", "background"}
    /\ DOMAIN jobs \subseteq Ids
    /\ \A i \in DOMAIN jobs : jobs[i] \in [model : Models,
                                           worker : {"running", "loaded", "broken", "done"}]
    /\ timers \subseteq {"tick", "lock", "abort", "clear", "engine"} \X (Ids \union 1 .. MaxSays)
    /\ \A k \in DOMAIN dialogs : dialogs[k] \in DOMAIN jobs
    /\ status \in Told /\ saysShown \in 0 .. MaxSays
    /\ \A k \in DOMAIN says : says[k] \in {"engine", None}
    /\ record \in [prepared : SUBSET Models, failed : SUBSET Models]
    /\ choices \in 0 .. MaxChoices /\ messages \in 0 .. MaxSays
    /\ wanted \in Models \union {None} /\ faults \in 0 .. MaxFaults /\ lingered \in BOOLEAN

\* _finalize_switch: the engine only ever takes the model of the last switch
\* the user started, and none after that switch was given up, however late the
\* answers of the others come.
NoLateSwitch == [][used' # used => used' = wanted]_trayVars

\* _set_active_model_menu_item: the check mark and the label name the model the
\* engine uses, also while a switch is under way, after it failed, after it
\* timed out and when a newer one overtook it (unless a write failed).
CheckedIsUsed == faults = 0 => checked = used /\ shown = used

\* The switch whose answer will be taken is one the menu knows of, so that its
\* time limits still hold; only a dialog left open lets it slip.
SwitchTracked ==
    latest \in DOMAIN jobs /\ jobs[latest].worker # "done" /\ mode = "idle" => lingered

\* model_state.py: the model in use is not recorded as one that failed to load
\* (unless a write failed).
UsedNotFailed == faults = 0 => used \notin record.failed

\* The menu does not go on announcing a switch that is over, except after a
\* failure dialog that stayed open or a write that failed.
StatusTold == mode = "idle" /\ status \in Under => lingered

\* SWITCH_LOCK_SECONDS, SWITCH_ABORT_SECONDS: while the menu is held, and while
\* a switch goes on behind it, the timer that will end that is pending, although
\* a load hangs, an older timer fires or nobody closes a dialog.
SwitchEnds == /\ mode = "switching" => <<"lock", latest>> \in timers
              /\ mode = "background" => <<"abort", latest>> \in timers \/ faults > 0

\* The menu says what the engine uses and does, and is given back.
TrayInv == /\ TrayTypeOK /\ CheckedIsUsed /\ SwitchTracked /\ UsedNotFailed
           /\ StatusTold /\ SwitchEnds
===========================================================================
