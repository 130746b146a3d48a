SPECIFICATION Spec

CONSTANTS
  u1 = u1
  UIs = {u1}
  Ops = {"toggle", "pause", "resume", "stop", "silence", "switch", "shutdown", "combo"}
  Faults = {"mic start", "mic stop", "truncated", "no note", "decode", "segment", "mark ready", "output"}
  MaxOps = 4
  FinalCap = 1
  PartialCap = 1

INVARIANTS
  TypeOK
  PausedMeansHeld
  BoundedMemory

PROPERTIES
  NoDeliveryAfterFailure
