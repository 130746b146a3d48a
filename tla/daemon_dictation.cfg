SPECIFICATION Spec

CONSTANTS
  u1 = u1
  UIs = {u1}
  Ops = {"press", "switch", "deactivate", "activate", "shutdown"}
  Faults = {"mic start", "mic stop", "truncated", "no note", "decode", "segment", "mark ready", "output"}
  MaxOps = 4
  FinalCap = 2
  PartialCap = 1

INVARIANTS
  DeliveredOnce
  IndicatorShown
  HeldWhileDictating
