SPECIFICATION Spec

CONSTANTS
  u1 = u1
  UIs = {u1}
  Ops = {"start", "pause", "resume", "stop"}
  Faults = {}
  MaxOps = 7
  FinalCap = 2
  PartialCap = 2

INVARIANTS
  TextInOrder
