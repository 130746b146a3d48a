----------------------------- MODULE Frontends -----------------------------
(* The front ends of the engine: the Linux tray, the Windows tray and the    *)
(* settings window.  Each follows the engine by itself and they share no     *)
(* other state, so a behaviour plays one of them while the others rest.      *)
EXTENDS Tray, WindowsTray, EventStream

CONSTANT Scenes         \* what is played, and how much of it

ASSUME ScenesAssumption ==
  \A s \in Scenes :
    /\ s.choices \in 0 .. MaxChoices /\ s.messages \in 0 .. MaxSays
    /\ s.served \in BOOLEAN /\ s.note \in {"off", "on", "paused", "failed"}
    /\ s.ops \in 0 .. MaxOps /\ s.levels \in 0 .. MaxLevels
    /\ s.breaks \in 0 .. MaxBreaks /\ s.restarts \in 0 .. MaxRestarts

VARIABLE scene

vars == <<scene, trayVars, winVars, streamVars>>

\* A scene: the front end, then the bounds of the tray and of the window.
Init == /\ scene \in Scenes
        /\ TrayInit(scene.choices, scene.messages)
        /\ WinInit
        /\ StreamInit(scene.served, scene.note, scene.ops, scene.levels, scene.breaks, scene.restarts)

InTray    == scene.plays = "tray" /\ UNCHANGED <<scene, winVars, streamVars>>
InWindows == scene.plays = "windows" /\ UNCHANGED <<scene, trayVars, streamVars>>
InWindow  == scene.plays = "window" /\ UNCHANGED <<scene, trayVars, winVars>>

PlayTray    == InTray /\ TrayNext
PlayWindows == InWindows /\ WinNext
PlayWindow  == InWindow /\ StreamNext

Next == PlayTray \/ PlayWindows \/ PlayWindow

\* The threads and timers around the window go on.
FairSpec == /\ Init /\ [][Next]_vars
            /\ WF_vars(InWindow /\ Streaming) /\ WF_vars(InWindow /\ Asking)
            /\ WF_vars(InWindow /\ Ending) /\ WF_vars(InWindow /\ Watchdog)
=============================================================================
