SPECIFICATION FairSpec

CONSTANTS
  Keys = {"ctrl_l", "ctrl_r"}
  Keyboards = 2
  Combos <- SmallCombos
  Aliases <- SmallAliases
  Machines <- SmallMachines
  Faults = {"load", "denied", "unplugged", "closed", "microphone"}
  MaxStrokes = 4
  MaxCombos = 1

INVARIANTS
  TypeOK
  ListenersInOrder
  DictationFollowsKeys

PROPERTIES
  ShortcutStarts
