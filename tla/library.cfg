SPECIFICATION Spec

CONSTANTS
  Notes = {n1}
  Dictations = {d1,d2}
  Ui = {u1,u2}
  Segments = 2
  MaxPieces = 1
  MaxEntries = 2
  MaxAsks = 2
  MaxCrashes = 1
  MaxFaults = 1
  None = None

SYMMETRY Alike

INVARIANTS
  
  HistoryRolls
  ArchiveSticks

PROPERTIES
  FinishedStays
