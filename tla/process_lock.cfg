SPECIFICATION Spec

CONSTANTS
  p1 = p1
  p2 = p2
  p3 = p3
  p4 = p4
  Procs = {p1, p2, p3, p4}
  Troubles = {}

SYMMETRY Processes

CHECK_DEADLOCK FALSE

INVARIANTS
  MutualExclusion
  StoppedMeansNone

PROPERTIES
  RefusedRightly
