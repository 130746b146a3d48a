SPECIFICATION Spec

CONSTANTS
  u1 = u1
  u2 = u2
  UIs = {u1, u2}
  Ops = {"toggle", "pause", "resume", "stop", "cancel", "silence", "press"}
  Faults = {}
  MaxOps = 4
  FinalCap = 1
  PartialCap = 1

SYMMETRY Clients

INVARIANTS
  NoOrphanCapture
