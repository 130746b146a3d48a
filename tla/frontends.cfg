SPECIFICATION FairSpec

CONSTANTS
  a = a
  b = b
  c = c
  Models = {a, b, c}
  First = a
  MaxChoices = 2
  MaxSays = 2
  MaxFaults = 1
  r1 = r1
  r2 = r2
  Reporters = {r1, r2}
  MaxReports = 3
  MaxCommands = 2
  Cap = 2
  MaxOps = 2
  MaxLevels = 1
  MaxBreaks = 1
  MaxRestarts = 1
  Scenes <- AllScenes

INVARIANTS
  TrayInv
  WinInv
  StreamInv

PROPERTIES
  NoLateSwitch
  StreamGoesOn

CHECK_DEADLOCK FALSE
