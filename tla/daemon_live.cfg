SPECIFICATION FairSpec

CONSTANTS
  u1 = u1
  UIs = {u1}
  Ops = {"start", "pause", "stop", "cancel", "press", "silence"}
  Faults = {}
  MaxOps = 3
  FinalCap = 1
  PartialCap = 1

PROPERTIES
  OperationsEnd
  AudioAnswered

CHECK_DEADLOCK FALSE
