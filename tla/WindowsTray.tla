---------------------------- MODULE WindowsTray ----------------------------
(* The icon of the Windows tray (windows_tray.py).  Threads of the engine    *)
(* report that recording began or ended; the message loop of the tray shows  *)
(* it.  Both write _recording without a lock.                                *)
EXTENDS Integers, Sequences

CONSTANTS Reporters,    \* threads of the engine that may report at once
          MaxReports,   \* bound: reports of the engine
          MaxCommands   \* bound: commands of the menu

ASSUME WindowsAssumption == {MaxReports, MaxCommands} \subseteq Nat

VARIABLES hwnd,         \* the window exists
          flag,         \* _recording
          active,       \* daemon.active
          icon,         \* what the icon and its tip show
          posted,       \* messages of the window's queue
          modifying,    \* _modify_icon is about to show the flag
          reporting,    \* report of each thread: set, not yet posted
          reported,     \* history: the last report
          overlapped,   \* history: two reports were under way at once
          reports, commands

winVars == <<hwnd, flag, active, icon, posted, modifying, reporting, reported, overlapped,
             reports, commands>>

NoReport == "none"
Absent == [shown |-> FALSE, listening |-> FALSE, active |-> FALSE]
Icon == [shown |-> TRUE, listening |-> flag, active |-> active]

\* run starts the engine before the window, so a recording can begin first.
WinInit == /\ hwnd = FALSE /\ flag = FALSE /\ active = TRUE /\ icon = Absent
           /\ posted = << >> /\ modifying = FALSE
           /\ reporting = [r \in Reporters |-> NoReport]
           /\ reported = FALSE /\ overlapped = FALSE
           /\ reports = MaxReports /\ commands = MaxCommands

---------------------------------------------------------------------------
\* The engine: _on_recording_changed, the flag and then the message.

Report(r) ==
    /\ reports > 0 /\ reports' = reports - 1
    /\ reporting[r] = NoReport
    /\ \E on \in BOOLEAN : /\ flag' = on /\ reported' = on
                           /\ reporting' = [reporting EXCEPT ![r] = IF on THEN "on" ELSE "off"]
    /\ overlapped' = (overlapped \/ \E q \in Reporters : reporting[q] # NoReport)
    /\ UNCHANGED <<hwnd, active, icon, posted, modifying, commands>>

\* mutant: the report is dropped when the loop has not shown the last one
PostOnce(r) ==
    /\ reporting[r] # NoReport
    /\ posted' = IF hwnd /\ posted = << >> THEN Append(posted, reporting[r]) ELSE posted
    /\ reporting' = [reporting EXCEPT ![r] = NoReport]
    /\ UNCHANGED <<hwnd, flag, active, icon, modifying, reported, overlapped, reports, commands>>

\* Before the window exists nothing is posted: the icon is made from the flag.
Post(r) ==
    /\ reporting[r] # NoReport
    /\ posted' = IF hwnd THEN Append(posted, reporting[r]) ELSE posted
    /\ reporting' = [reporting EXCEPT ![r] = NoReport]
    /\ UNCHANGED <<hwnd, flag, active, icon, modifying, reported, overlapped, reports, commands>>

---------------------------------------------------------------------------
\* The thread of the tray

\* _create_window
CreateWindow ==
    /\ ~hwnd /\ ~icon.shown /\ hwnd' = TRUE
    /\ UNCHANGED <<flag, active, icon, posted, modifying, reporting, reported, overlapped,
                   reports, commands>>

\* _add_icon, before the message loop runs.
AddIcon ==
    /\ hwnd /\ ~icon.shown /\ icon' = Icon
    /\ UNCHANGED <<hwnd, flag, active, posted, modifying, reporting, reported, overlapped,
                   reports, commands>>

Looping == hwnd /\ icon.shown /\ ~modifying

\* _window_proc, WM_RECORDING_CHANGED: the value of the message becomes the
\* flag, and _modify_icon shows the flag.
RecordingMessage ==
    /\ Looping /\ posted # << >> /\ posted' = Tail(posted)
    /\ flag' = (Head(posted) = "on") /\ modifying' = TRUE
    /\ UNCHANGED <<hwnd, active, icon, reporting, reported, overlapped, reports, commands>>

\* _handle_command, IDM_ACTIVE: pause or resume of the engine, then the icon.
\* Pausing reports the end of a recording from this thread.
ToggleActive ==
    /\ Looping /\ commands > 0 /\ commands' = commands - 1
    /\ active' = ~active /\ modifying' = TRUE
    /\ IF active /\ flag
       THEN /\ flag' = FALSE /\ reported' = FALSE /\ posted' = Append(posted, "off")
            /\ overlapped' = (overlapped \/ \E q \in Reporters : reporting[q] # NoReport)
       ELSE UNCHANGED <<flag, reported, posted, overlapped>>
    /\ UNCHANGED <<hwnd, icon, reporting, reports>>

\* _modify_icon
ModifyIcon ==
    /\ modifying /\ modifying' = FALSE /\ icon' = Icon
    /\ UNCHANGED <<hwnd, flag, active, posted, reporting, reported, overlapped, reports, commands>>

\* IDM_QUIT ends the loop: the icon goes, and reports have no window.
Quit ==
    /\ Looping /\ commands > 0 /\ commands' = 0
    /\ hwnd' = FALSE /\ icon' = [icon EXCEPT !.listening = FALSE] /\ posted' = << >>
    /\ UNCHANGED <<flag, active, modifying, reporting, reported, overlapped, reports>>

WinNext == \/ \E r \in Reporters : Report(r) \/ Post(r)
           \/ CreateWindow \/ AddIcon \/ RecordingMessage \/ ToggleActive \/ ModifyIcon \/ Quit

---------------------------------------------------------------------------
\* Every variable of the Windows tray has its type.
WinTypeOK ==
    /\ {hwnd, flag, active, modifying, reported, overlapped} \subseteq BOOLEAN
    /\ icon \in [shown : BOOLEAN, listening : BOOLEAN, active : BOOLEAN]
    /\ \A k \in DOMAIN posted : posted[k] \in {"on", "off"}
    /\ reporting \in [Reporters -> {NoReport, "on", "off"}]
    /\ reports \in 0 .. MaxReports /\ commands \in 0 .. MaxCommands

\* _on_recording_changed, _window_proc: once the queue is empty and no report is
\* under way, the icon shows the last report, whenever it came: before the
\* window, before the icon, or between a message and its redraw.  Two reports at
\* once may be posted in the other order.
IconFollows ==
    /\ hwnd /\ icon.shown /\ ~modifying /\ posted = << >>
    /\ \A r \in Reporters : reporting[r] = NoReport
    => icon.listening = flag /\ (~overlapped => flag = reported)

\* The icon and its messages.
WinInv == WinTypeOK /\ IconFollows
=============================================================================
