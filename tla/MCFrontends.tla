---------------------------- MODULE MCFrontends ----------------------------
(* Frontends with small bounds, divided over scenes, for TLC.                *)
EXTENDS Frontends

Rest == [plays |-> "windows", choices |-> 0, messages |-> 0, served |-> FALSE, note |-> "off",
         ops |-> 0, levels |-> 0, breaks |-> 0, restarts |-> 0]

AllScenes == {Rest,
  [Rest EXCEPT !.plays = "tray", !.choices = 2],
  [Rest EXCEPT !.plays = "tray", !.choices = 1, !.messages = 1],
  [Rest EXCEPT !.plays = "window", !.served = TRUE, !.ops = 2],
  [Rest EXCEPT !.plays = "window", !.served = TRUE, !.note = "paused", !.ops = 2],
  [Rest EXCEPT !.plays = "window", !.served = TRUE, !.note = "failed", !.ops = 2],
  [Rest EXCEPT !.plays = "window", !.ops = 1, !.breaks = 1],
  [Rest EXCEPT !.plays = "window", !.ops = 1, !.levels = 1, !.restarts = 1]}
=============================================================================
